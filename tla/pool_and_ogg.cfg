SPECIFICATION PoolAndOggSpec
CONSTANTS
  s1 = s1
  s2 = s2
  s3 = s3
  g1 = g1
  Samples <- ThreeSamples
  Getters <- OneGetter
  MaxBuffers = 3
  CreateFails = TRUE
  MaxRefs = 2
  MaxCalls = 9
  OggFiles <- SomeFiles
  SegmentLimit = 3
  HeaderPages = 3
  OggSessions = 2
INVARIANTS OneOwner SampleThere DeletedWhenUnused OggInOrder
PROPERTIES GetBufferReturns OggProgress
CHECK_DEADLOCK FALSE
