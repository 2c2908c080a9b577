SPECIFICATION FairSpec
CONSTANTS
  RECVBUFLEN = 5
  Base = 4
  Byte = {0, 1, 3}
  FRAME_HEAD = 3
  Overhead = 3
  Chunk = 3
  Descriptor = {0, 1, 2}
INVARIANTS
  TypeOK
  
  WaitingIsEnd
  OnlyPartWaits
PROPERTIES
  LossReported
  LastingReported
CHECK_DEADLOCK FALSE
