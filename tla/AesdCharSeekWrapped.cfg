CONSTANTS
  N = 2
  NULL = NULL
  Clients = {c1}
  Ptr = {p1, p2, p3}
  ZERO_SIZE_PTR = ZERO_SIZE_PTR
  ReadCounts = {}
  WriteCounts = {1}
  SeekOffsets = {}
  SeekCmds <- MCSeekCmds
  SIZE_MOD = 64
  MaxWrites = 4
  MaxPos = 3
SYMMETRY PtrSymmetry
SPECIFICATION Spec
PROPERTIES SeekFindsCommand
