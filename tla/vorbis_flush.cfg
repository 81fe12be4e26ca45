\* A seek while every buffer is queued.
SPECIFICATION DecodersSpec
CONSTANTS
  Target = 2
  NBuffers = 3
  Packets <- SmallOrLarge
  LateEOS = FALSE
  MaxPackets = 3
  MaxCalls = 4
  PictureSizes = {1, 2}
  CBuffers = 1
  MaxFed = 1
  MaxOps = 1
PROPERTIES FlushReleasesReceive
CHECK_DEADLOCK FALSE
