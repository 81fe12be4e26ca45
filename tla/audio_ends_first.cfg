\* A frame every three seconds and audio that ends at once: relative timecodes
\* overflow all the same.
SPECIFICATION Spec
CONSTANTS
  StreamSets <- BothStreams
  LiveModes <- NotLive
  OggModes <- NoOgg
  VideoTimes = {0, 3000, 6000, 9000, 12000, 15000, 18000, 21000, 24000, 27000, 30000, 33000}
  AudioTimes = {0}
  MaxVideoGap = 3000
  Paced = TRUE
  MaxVideo = 12
  MaxAudio = 1
  MaxFlush = 0
  MaxSessions = 1
INVARIANTS BlockTimecodeFits
CHECK_DEADLOCK FALSE
