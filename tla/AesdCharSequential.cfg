CONSTANTS
  N = 3
  NULL = NULL
  Clients = {c1}
  Ptr = {p1, p2, p3, p4, p5}
  ZERO_SIZE_PTR = ZERO_SIZE_PTR
  ReadCounts = {1, 2}
  WriteCounts = {0, 2}
  SeekOffsets <- MCSeekOffsets
  SeekCmds <- MCSeekCmds
  SIZE_MOD = 64
  MaxWrites = 5
  MaxPos = 10
SYMMETRY PtrSymmetry
SPECIFICATION Spec
INVARIANTS SeekEndExact
PROPERTIES ReadsRightByte SeekExactUntilFull
