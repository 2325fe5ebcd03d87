\* The thread goes on behind the loop, elsewhere: no deadlock check.
CONSTANTS
  BUFFER_SIZE = 3
  MaxStream = 7
  Streams <- MCStreams
SPECIFICATION Spec
INVARIANTS PacketWhole RoomForString OneByteMore
CHECK_DEADLOCK FALSE
