\* The splitter: two streams and the parser thread on a file that is being downloaded.
\* Media Foundation: two streams, seeks and stops, and a file of one of two lengths.
SPECIFICATION ReadersSpec
CONSTANTS
  v = v
  a = a
  Streams <- TwoStreams
  Blocks <- SomeBlocks
  PageSize = 2
  NPages = 5
  Total = 11
  ReadsMayFail = TRUE
  MaxConnects = 1
  MaxCalls = 5
  Tracks <- TwoStreams
  NoTrack = NoTrack
  TrackBlocks <- SomeTracks
  SampleBlocks <- SampleSizes
  PageBytes = 2
  RegionPages = 2
  FileSizes = {9, 10}
  PurgeMax = 2
  Peeks <- SomePeeks
  IoMayFail = TRUE
  MaxSeeks = 2
  MaxPeeks = 2
INVARIANTS PagesConsistent ReaderSound
PROPERTIES LockedPagesStable
CHECK_DEADLOCK FALSE
