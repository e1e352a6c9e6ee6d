\* Scrolling, copies, reloads and resets over more chunks than fit; requests are answered.
CONSTANTS
  Tables = {"t"}
  NoTable = "none"
  Filters = {"none"}
  NoFilter = "none"
  Incomplete = {}
  Sorts = {"asc"}
  LastChunk = 2
  MaxCachedChunks = 2
  MaxConcurrency = 2
  Windows = {{2}}
  Ranges = {{2}, {0, 1, 2}}
  MaxEpoch = 3
  NoTimer = NoTimer
  NoMemo = "new"
SPECIFICATION FairSpec
INVARIANTS CacheIsCurrent TotalIsCurrent RecencyTracksCache CopyComplete
PROPERTIES SupersededSilent CopyEnds
CHECK_DEADLOCK FALSE
