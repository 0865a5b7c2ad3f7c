CONSTANTS
  c1 = c1
  c2 = c2
  NoThread = NoThread
  Threads <- TwoCallers
  MaxOperations = 2
  Window = 2
  MaxClock = 7
  MaxGrants = 6
SPECIFICATION Spec
SYMMETRY CallerSymmetry
CONSTRAINT FewGrants
INVARIANTS
  WithinRate
PROPERTIES
  RefusesOnlyWhenFull
