CONSTANTS
  Folders <- NestedFolders
  Files <- SomeFiles
  CliDirs = {"/cli"}
  Dir = "/srv"
  MaxLines = 4
SPECIFICATION Spec
INVARIANTS
  SettingsAsWritten
  TargetsAsAsked
CHECK_DEADLOCK FALSE
