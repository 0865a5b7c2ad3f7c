CONSTANTS
  w1 = w1
  w2 = w2
  None = None
  Workers <- OneWorker
  Enabled = {"gz", "br"}
  SizeOf <- EmptiedOneShot
  MaxVersions = 3
  AllowOlder = FALSE
  Root = "root"
  Daemon = "www"
  Users = {"www"}
  MaxErrors = 0
  MaxCrashes = 0
SPECIFICATION Spec
SYMMETRY WorkerSymmetry
INVARIANTS
  FreshWhenQuiet
CHECK_DEADLOCK FALSE
