SPECIFICATION MFFairSpec
CONSTANTS
  v = v
  a = a
  Streams <- Both
  VideoStreams <- Video
  File <- Gapped
  Cues = "end"
  LoadClusters = 2
  AudioQuota = 2
  Descs <- Together
  Restarts <- Either
  SeekTo <- Anywhere
  FailIn <- Faults
  MaxPages = 1
  MaxCalls = 3
  MaxRequests = 2
INVARIANTS StreamsConsistent
PROPERTIES SamplesInOrder AllHandled
CHECK_DEADLOCK FALSE
