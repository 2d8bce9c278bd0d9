SPECIFICATION ControlSpec
CONSTANTS
  LiveIds = {k1}
  Sessions = {s1, s2}
  NoSession = NoSession
  Protocols = {"rtmp"}
  RtmpConns = {}
  RtspConns = {}
  QueueCap = 1
  TtlEnabled = TRUE
PROPERTY OnlyOwnTeardown
CHECK_DEADLOCK FALSE
