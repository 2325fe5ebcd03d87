\* The server handles MaxPackets packets and then waits: no deadlock check.
CONSTANTS
  N = 2
  NULL = NULL
  Clients = {c1, c2}
  Ptr = {p1, p2, p3}
  ZERO_SIZE_PTR = ZERO_SIZE_PTR
  ReadCounts = {2}
  WriteCounts = {0, 1, 3}
  SeekOffsets = {0}
  SeekCmds <- MCSeekCmds
  SIZE_MOD = 64
  MaxWrites = 4
  MaxPos = 12
  Packets <- MCPackets
  UINT_MOD = 64
  Garbage = {0, 1}
  MaxPackets = 4
SYMMETRY MCSymmetry
SPECIFICATION SystemSpec
INVARIANTS ReadsLiveMemory ReplyIsWholeLog SeekReply
CHECK_DEADLOCK FALSE
