\* A filter typed, taken back before the timer fires, and typed again.
CONSTANTS
  Tables = {"t"}
  NoTable = "none"
  Filters = {"none", "a", ">"}
  NoFilter = "none"
  Incomplete = {">"}
  Sorts = {"asc"}
  LastChunk = 0
  MaxCachedChunks = 2
  MaxConcurrency = 1
  Windows = {}
  Ranges = {}
  MaxEpoch = 4
  NoTimer = NoTimer
  NoMemo = "new"
SPECIFICATION Spec
INVARIANTS FilterShown
CHECK_DEADLOCK FALSE
