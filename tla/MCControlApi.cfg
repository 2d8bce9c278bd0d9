SPECIFICATION ApiFairSpec
CONSTANTS
  LiveIds = {k1}
  Sessions = {s1, s2}
  NoSession = NoSession
  Protocols = {"rtmp", "rtsp"}
  StartCalls = {a1, a2}
  StopCalls = {b1}
  WatchCalls = {w1}
  Scenarios = {{a1, a2, b1}, {a1, b1, w1}, {a1, a2, w1}}
  QueueCap = 2
  EventCap = 1
INVARIANTS StartOwnsSession StopTruthful StopSparesLater
PROPERTIES WatchEnds
CHECK_DEADLOCK FALSE
