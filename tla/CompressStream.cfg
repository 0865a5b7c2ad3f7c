CONSTANTS
  w1 = w1
  w2 = w2
  None = None
  Workers <- OneWorker
  Enabled = {"gz", "br"}
  SizeOf <- EverySize
  MaxVersions = 4
  AllowOlder = TRUE
  Root = "root"
  Daemon = "root"
  Users = {"www"}
  MaxErrors = 1
  MaxCrashes = 1
SPECIFICATION Spec
INVARIANTS
  FreshUnlessLate
  NoTornCopy
  LostHasACause
  MixedCopyIsDoomed
  TrustedCopiesAreFresh
CHECK_DEADLOCK FALSE
