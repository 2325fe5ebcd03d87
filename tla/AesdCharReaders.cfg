CONSTANTS
  N = 2
  NULL = NULL
  Clients = {c1, c2}
  Ptr = {p1, p2, p3, p4}
  ZERO_SIZE_PTR = ZERO_SIZE_PTR
  ReadCounts = {1}
  WriteCounts = {1}
  SeekOffsets = {0}
  SeekCmds = {}
  SIZE_MOD = 64
  MaxWrites = 4
  MaxPos = 3
SYMMETRY Symmetry
SPECIFICATION Spec
INVARIANTS TypeOK Ownership Occupancy ReadSafeUntilFull SeekEndWithinData
PROPERTIES LeaksOnlyOnFaults CommandSpec
