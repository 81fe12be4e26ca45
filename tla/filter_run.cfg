\* Two streaming threads and the application: pause, run, to the end.
SPECIFICATION FairFilterSpec
CONSTANTS
  StreamSets <- BothStreams
  LiveModes <- BothModes
  OggModes <- NoOgg
  VideoTimes = {0, 1000, 2500}
  AudioTimes = {0, 1200, 3700}
  MaxVideoGap = 2500
  Paced = FALSE
  MaxVideo = 3
  MaxAudio = 2
  MaxFlush = 0
  MaxSessions = 1
  VideoBuffers = 10
  Orderly = TRUE
  MaxAppCalls = 2
INVARIANTS NoLostWakeup CompleteOnce
PROPERTIES FileFinished
CHECK_DEADLOCK FALSE
