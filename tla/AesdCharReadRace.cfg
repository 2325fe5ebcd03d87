CONSTANTS
  N = 2
  NULL = NULL
  Clients = {c1, c2}
  Ptr = {p1, p2, p3}
  ZERO_SIZE_PTR = ZERO_SIZE_PTR
  ReadCounts = {1}
  WriteCounts = {1}
  SeekOffsets = {}
  SeekCmds = {}
  SIZE_MOD = 64
  MaxWrites = 3
  MaxPos = 3
SYMMETRY Symmetry
SPECIFICATION Spec
INVARIANTS ReadsLiveMemory
