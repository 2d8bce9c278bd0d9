SPECIFICATION Spec
CONSTANTS
  Viewers = {v1}
  MaxSessions = 2
  MaxTags = 2
  MaxHeaders = 1
  Capacity = 1
  MaxConnections = 1
  PipelineWatchesSession = FALSE
INVARIANTS NoForeignTags
CHECK_DEADLOCK FALSE
