CONSTANTS
  w1 = w1
  w2 = w2
  None = None
  Workers <- TwoWorkers
  Enabled = {"gz", "br"}
  SizeOf <- OneShotSizes
  MaxVersions = 3
  AllowOlder = FALSE
  Root = "root"
  Daemon = "www"
  Users = {"root", "ann"}
  MaxErrors = 0
  MaxCrashes = 0
SPECIFICATION FairSpec
INVARIANTS
  FreshUnlessLate
  NoTornCopy
  NoTmpLeft
  OneWriter
  KeptHasACause
PROPERTIES
  NoRegress
  ComesToRest
CHECK_DEADLOCK FALSE
