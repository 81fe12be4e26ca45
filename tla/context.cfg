\* Any streams, modes, Ogg headers, flushes, gaps of any length, no file, a
\* second session: the merge, the index, what becomes of frames and file.
SPECIFICATION FairSpec
CONSTANTS
  StreamSets <- AnyStreams
  LiveModes <- BothModes
  OggModes <- MaybeOgg
  VideoTimes = {0, 600, 2800}
  AudioTimes = {0, 1700, 5001, 38000}
  MaxVideoGap = 2800
  Paced = FALSE
  MaxVideo = 3
  MaxAudio = 3
  MaxFlush = 1
  MaxSessions = 2
INVARIANTS FramesKept FinalisedOnce BlockTimecodeFits PointersValid FileInOrder IndexMatchesFile NoMutualWait
PROPERTIES SealedIsFinal CallsReturn ImplementsFile
CHECK_DEADLOCK FALSE
