SPECIFICATION RtmpFairSpec
CONSTANTS
  Publishers = {p, x}
  Viewers = {x}
  Limits = {1, 2}
  MaxBatch = 2
INVARIANT StreamEndsWithPublisher
PROPERTIES ImplementsIngestServer ClosedClientLetGo
CHECK_DEADLOCK FALSE
