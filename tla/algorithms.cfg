\* Every algorithm on all small inputs; the "Open with" setting of two extensions; a DuckDB session with two commands; two exports.
CONSTANTS
  Views <- MCViews  Cells <- MCCells
  Alphabet <- MCAlphabet
  Searches <- MCSearches  Words <- MCWords  Tables <- Lowered
  Reals <- MCReals  FilePaths <- MCFilePaths
  SplitPaths <- MCSplitPaths  Arguments <- MCArguments
  Numbers <- MCNumbers  Headers <- MCHeaders  Statements <- MCStatements
  ErrorLines <- MCErrorLines  Leads = {0, 1}  Installs <- MCInstalls
  I64Bits = 6  F64Bits = 3  WindowWidth = 2
  EXTENSIONS <- MCExtensions  Executables = {exe1, exe2}  Missing = "missing"
  Users = {u1, u2}
  Exporters = {e1, e2}  EXPORT_RETENTION = 1  LastMoment = 2
SPECIFICATION Spec
INVARIANTS ViewsSound PathsNameFile TextsRight InstallationSound HandlesSound
PROPERTIES WorkbooksKept
CHECK_DEADLOCK FALSE
