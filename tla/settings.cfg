\* Three commands of two windows, with a crash or a failed write.
CONSTANTS
  a1 = a1  a2 = a2  b1 = b1
  Threads = {a1, a2, b1}
  Process <- MCProcess
  Paths = {"X", "x", "y", "z"}
  normalize <- MCNormalize
  Dirs = {"d"}
  Blank = " "
  Versions = {1, 2}
  SavedConfigs <- MCSaved
  OldConfigs <- MCOld
  OldApps <- MCOldApps
  TINT_PRESETS = {"red"}
  COLUMN_COLOR_PRESETS = {"pale"}
  trim <- MCTrim
  NoName = ""
  LABEL_MAX_LEN = 2
  RECENT_FILES_MAX = 2
  None = none
  MaxFaults = 1
  MaxCommands = 4
SPECIFICATION Spec
SYMMETRY Symmetry
INVARIANTS WritesClean SettingsClean
PROPERTIES ConfigSurvives OwnSettingOnly
CHECK_DEADLOCK FALSE
