\* Two pins, a parser and an application that pauses, stops and seeks.
SPECIFICATION FiltersSpec
CONSTANTS
  Clusters = 2
  BlockSets <- WithVideo
  Cached <- MaybeCached
  ParseFails = TRUE
  SeekTimes = {5}
  MaxCalls = 3
  MaxFiles = 2
INVARIANTS SameBase ThreadsInv
PROPERTIES DeliveredInOrder StopAndSeekReturn
CHECK_DEADLOCK FALSE
