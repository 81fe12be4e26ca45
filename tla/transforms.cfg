SPECIFICATION TransformsSpec
CONSTANTS
  Counts <- OneTwo
  Lags <- NoneThree
  LagWindow = 2
  MaxFrames = 3
  MaxAdvice = 4
  Channels <- EvenSides
  Renegotiates = FALSE
  Rate = 3
  Ticks = 10
  PacketSizes <- Sizes
  MaxPackets = 2
  Capacity = 4
  Positions <- Entries
  StreamEnd = 10
  LagsInFrames = {0, 2}
  Intervals = {0, 14000}
  Decimates = {1, 2}
  Origins <- FirstTimes
  Steps = {4000, 10000}
  NBuffers = 1
  MaxSamples = 4
  MaxSessions = 2
  MaxFlushes = 1
  MaxRequests = 1
INVARIANTS CodecFollows OutputSound FramesInOrder
PROPERTIES DropShare KeyFramesInTime
CHECK_DEADLOCK FALSE
