\* Statements that never end, the connection beside them, and the cancel that stops them.
CONSTANTS
  o = o  c = c  r = r  s = s  free = free
  Openers = {o}
  Cancellers = {c}
  Readers = {r}
  SqlThreads = {s}
  Free = free
  Tables = {"t"}
  RowidTables = {"t"}
  Plain = "plain"
  SortViews = {}
  FilterViews = {}
  RegexViews = {}
  Limits = {1}
  Chunks = {"deep"}
  SqlKinds = {"execute"}
  NRows = 1
  MaxOpens = 2
  MaxGeneration = 2
SPECIFICATION GrindingSpec
PROPERTIES SqlNotBehindBrowse CancelStops
CHECK_DEADLOCK FALSE
