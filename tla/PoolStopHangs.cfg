CONSTANTS
  w1 = w1
  w2 = w2
  t1 = t1
  t2 = t2
  t3 = t3
  NoTask = NoTask
  Workers <- TwoWorkers
  Tasks <- ThreeTasks
  Priority <- MixedPriority
  MaxQueueSize = 2
  MaxActiveIOs = 0
  SizeMod = 8
  MayThrow = {}
SPECIFICATION FairSpec
PROPERTIES
  StopReturns
CHECK_DEADLOCK FALSE
