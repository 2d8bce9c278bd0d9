SPECIFICATION Spec
CONSTANTS
  ByteBase = 4
  MaxStamp = 255
  MaxOffset = 3
  MaxPts = 100
  Paths = {"rtmp", "rtsp", "mjpeg"}
  Nals <- SmallNals
  MaxNals = 2
  Stamps = {0, 1, 255}
  PtsValues = {0, 32, 75}
  FpsChoices <- SomeFps
INVARIANTS NalsSurvive OneClock HeaderFirst OnlyDownSamples EncoderInTune FileReadsBack
