CONSTANTS
  w1 = w1
  w2 = w2
  t1 = t1
  t2 = t2
  t3 = t3
  NoTask = NoTask
  Workers <- TwoWorkers
  Tasks <- ThreeTasks
  Priority <- MixedPriority
  MaxQueueSize = 2
  MaxActiveIOs = 1
  SizeMod = 8
  MayThrow = {t3}
SPECIFICATION FairSpec
INVARIANTS
  Accounting
  IOAccounting
  NoStrandedTask
  FifoWithinPriority
  NoForgottenWaiter
PROPERTIES
  ImplementsExecutor
  AcceptedFinishes
  WaitAllReturns
  StopReturnsUnlessAsleep
CHECK_DEADLOCK FALSE
