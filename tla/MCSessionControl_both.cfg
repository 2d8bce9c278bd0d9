SPECIFICATION ControlSpec
CONSTANTS
  LiveIds = {k1}
  Sessions = {s1, s2}
  NoSession = NoSession
  Protocols = {"rtmp", "rtsp"}
  RtmpConns = {c1, c2}
  RtspConns = {d1}
  QueueCap = 1
  TtlEnabled = TRUE
SYMMETRY Symmetry
INVARIANTS EntryHasItsCleanup GraceIsFinal OneOwner
PROPERTY ImplementsLiveStream
CHECK_DEADLOCK FALSE
