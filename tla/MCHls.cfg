\* An audio/video stream, deferred or not; two kinds of failures may happen.
SPECIFICATION FairSpec
CONSTANTS
  Codecs <- AV
  Failures <- AllFailures
  MaxSessions = 1
  MaxPackets = 5
  MaxFailures = 2
  SegmentUnits = 1
  PlaylistSize = 1
  PadCapacity = 1
  Attempts = 2
INVARIANTS PacketsAccounted SegmentsWellFormed PlaylistInStep
PROPERTY SegmentsResolved
CHECK_DEADLOCK FALSE
