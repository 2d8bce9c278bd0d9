SPECIFICATION FairSpec
CONSTANTS
  MaxRequests = 5
  MaxFrames = 3
  MaxNoise = 1
  MaxWire = 3
  AnswerRoom = 1
  FrameCapacity = 1
  PadCapacity = 1
INVARIANTS FramesArrive NothingLeftBehind
PROPERTIES SilentClientDropped
CHECK_DEADLOCK FALSE
