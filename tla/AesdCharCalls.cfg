CONSTANTS
  N = 2
  NULL = NULL
  Clients = {c1, c2}
  Ptr = {p1, p2, p3}
  ZERO_SIZE_PTR = ZERO_SIZE_PTR
  ReadCounts = {1}
  WriteCounts = {1}
  SeekOffsets = {}
  SeekCmds <- MCSeekEdges
  SIZE_MOD = 64
  MaxWrites = 2
  MaxPos = 3
SPECIFICATION CallsSpec
INVARIANTS LockHeldInside
PROPERTIES FailedSeekKeepsPosition CallsEnd
