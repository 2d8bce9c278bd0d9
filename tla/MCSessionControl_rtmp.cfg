SPECIFICATION ControlFairSpec
CONSTANTS
  LiveIds = {k1}
  Sessions = {s1, s2}
  NoSession = NoSession
  Protocols = {"rtmp"}
  RtmpConns = {c1, c2}
  RtspConns = {}
  QueueCap = 1
  TtlEnabled = TRUE
INVARIANTS LiveSessionHasChannel ConnectedHasPublisher
PROPERTIES ImplementsFairLiveStream PendingResolves StopEndsIngest
CHECK_DEADLOCK FALSE
