\* The open file as a whole, with queries and cancels on both connections.
CONSTANTS
  o = o  c = c  r = r  s = s  free = free
  Openers = {o}
  Cancellers = {c}
  Readers = {r}
  SqlThreads = {s}
  Free = free
  Tables = {"t"}
  RowidTables = {"t"}
  Plain = "plain"
  SortViews = {}
  FilterViews = {"filter"}
  RegexViews = {}
  Limits = {1}
  Chunks = {"deep"}
  SqlKinds = {"execute", "schema", "validate"}
  NRows = 1
  MaxOpens = 2
  MaxGeneration = 3
SPECIFICATION Spec
INVARIANTS SessionUsable
PROPERTIES FailedOpenKeepsSession
CHECK_DEADLOCK FALSE
