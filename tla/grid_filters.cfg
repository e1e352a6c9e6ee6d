\* Two tables, filters that may be half-typed and two sort orders over one chunk, with
\* requests that are answered in the end.
CONSTANTS
  Tables = {"t", "u"}
  NoTable = "none"
  Filters = {"none", "a", ">"}
  NoFilter = "none"
  Incomplete = {">"}
  Sorts = {"asc", "desc"}
  LastChunk = 0
  MaxCachedChunks = 2
  MaxConcurrency = 1
  Windows = {{0}}
  Ranges = {}
  MaxEpoch = 3
  NoTimer = NoTimer
  NoMemo = "new"
SPECIFICATION FairSpec
INVARIANTS TypeOK SelectionShown TimerOfTable
PROPERTIES SpinnersEnd
CHECK_DEADLOCK FALSE
