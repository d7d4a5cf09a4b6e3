SPECIFICATION ConnSpec
CONSTANTS
  Frames <- MCFrames
  kFrameHeaderSize = 3
  kMaxFramePayload = 2
  WireCapacity = 4
  MaxRequests = 3
INVARIANTS InStep OneSends
PROPERTIES ImplementsRequestReply WaitEnds
CHECK_DEADLOCK FALSE
