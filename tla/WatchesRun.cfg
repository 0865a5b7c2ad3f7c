CONSTANTS
  Dirs <- FourDirs
  InitialDirs <- ThreeDirs
  TargetSets <- SomeTargets
  Chars <- Letters
  Slash = "/"
  MaxReloads = 2
  MaxChanges = 1
  MaxFailures = 1
SPECIFICATION Spec
INVARIANTS
  ScopeIsWatched
  OnlyScopeIsWatched
CHECK_DEADLOCK FALSE
