\* One reader pages, sorts, filters and counts while files are opened and closed.
CONSTANTS
  o = o  c = c  r = r  free = free
  Openers = {o}
  Cancellers = {c}
  Readers = {r}
  SqlThreads = {}
  Free = free
  Tables = {"t", "u"}
  RowidTables = {"t"}
  Plain = "plain"
  SortViews = {"sort"}
  FilterViews = {"filter"}
  RegexViews = {"regex"}
  Limits = {1, 2}
  Chunks = {"first", "deep", "past", "unaligned"}
  SqlKinds = {"execute", "schema", "validate"}
  NRows = 2
  MaxOpens = 2
  MaxGeneration = 2
SPECIFICATION Spec
INVARIANTS TypeOK CachesComplete
PROPERTIES CachingInvisible
CHECK_DEADLOCK FALSE
