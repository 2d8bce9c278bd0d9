SPECIFICATION FairSpec
CONSTANTS
  Viewers = {v1}
  MaxSessions = 2
  MaxTags = 3
  MaxHeaders = 1
  Capacity = 1
  MaxConnections = 1
  PipelineWatchesSession = TRUE
INVARIANTS HeaderBeforeFrame GapsEndAtKeyframes PermitsConserved
PROPERTIES ViewersLetGo
CHECK_DEADLOCK FALSE
