\* Two opens and closes at once, with nothing but the locks to order them.
CONSTANTS
  o1 = o1  o2 = o2  r = r  free = free
  Openers = {o1, o2}
  Cancellers = {}
  Readers = {r}
  SqlThreads = {}
  Free = free
  Tables = {"t"}
  RowidTables = {"t"}
  Plain = "plain"
  SortViews = {}
  FilterViews = {}
  RegexViews = {}
  Limits = {1}
  Chunks = {"deep", "first"}
  SqlKinds = {"execute", "schema", "validate"}
  NRows = 1
  MaxOpens = 3
  MaxGeneration = 3
SPECIFICATION Spec
SYMMETRY Symmetry
INVARIANTS CachesBelongToConnection ConnectionHeld
CHECK_DEADLOCK FALSE
