SPECIFICATION FairSpec
CONSTANTS
  MaxFrames = 2
  FrameCapacity = 1
  Capacity = 1
INVARIANTS OrderKept NoTaskLeftBehind
PROPERTIES EveryTaskEnds
CHECK_DEADLOCK FALSE
