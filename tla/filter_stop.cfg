\* Stop, restart and flush against blocked threads; video may be absent.
SPECIFICATION FairFilterSpec
CONSTANTS
  StreamSets <- MaybeVideo
  LiveModes <- NotLive
  OggModes <- MaybeOgg
  VideoTimes = {0, 2500}
  AudioTimes = {1200}
  MaxVideoGap = 2500
  Paced = FALSE
  MaxVideo = 2
  MaxAudio = 1
  MaxFlush = 1
  MaxSessions = 2
  VideoBuffers = 10
  Orderly = TRUE
  MaxAppCalls = 3
INVARIANTS StreamAlive
PROPERTIES Released
CHECK_DEADLOCK FALSE
