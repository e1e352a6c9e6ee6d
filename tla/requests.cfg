\* Two files: launches, open and close requests that supersede each other, saves.
CONSTANTS
  a = a  b = b
  Paths = {a, b}
  None = none
  Casts <- MCCasts
  Tables = {"t", "u"}  LoneTable = "t"  OneTable = {a}
  Statements = {"q", "s"}
  Releases = {1, 2}
SPECIFICATION FairPage
INVARIANTS LastRequestShown SettingsKept PanelsShowFile UpdatesOrderly
PROPERTIES LaunchesServed PageSettles
CHECK_DEADLOCK FALSE
