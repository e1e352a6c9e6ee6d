\* Requests, opens and closes come to an end.
CONSTANTS
  o = o  r = r  s = s  free = free
  Openers = {o}
  Cancellers = {}
  Readers = {r}
  SqlThreads = {s}
  Free = free
  Tables = {"t"}
  RowidTables = {"t"}
  Plain = "plain"
  SortViews = {}
  FilterViews = {}
  RegexViews = {}
  Limits = {1}
  Chunks = {"deep"}
  SqlKinds = {"execute"}
  NRows = 1
  MaxOpens = 2
  MaxGeneration = 2
SPECIFICATION FairSpec
PROPERTIES EverythingEnds
CHECK_DEADLOCK FALSE
