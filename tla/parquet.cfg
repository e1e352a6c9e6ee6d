\* A session with two readers, or a reader and the SQL tab, a canceller and a crash.
CONSTANTS
  r1 = r1  r2 = r2  s1 = s1  f = f
  Readers = {r1, r2}
  SqlThreads = {s1}
  Casts <- MCCasts
  Files <- MCFiles
  NRows = 3
  Value <- MCValue
  Null = null
  Matches <- MCMatches
  NoFilter = noFilter
  BadFilter = badFilter
  Sorts = {"none", "asc"}
  Limits = {2}
  SqlResultLimit = 1
  SqlSizes = {1, 2}
SPECIFICATION Spec
SYMMETRY Symmetry
INVARIANTS PagesRight SortCacheSound NothingLeftBehind SqlShownRight
CHECK_DEADLOCK FALSE
