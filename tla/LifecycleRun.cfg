CONSTANTS
  t1 = t1
  Producers <- FourThreads
  Main = "main"
  Cap = 2
  DropPart = 1
  BatchSize = 2
  MaxMessages = 3
  Tasks <- OneTask
  Capacity = 1
  MaxTerms = 1
  MaxHups = 2
  MaxEdits = 1
SPECIFICATION FairSpec
INVARIANTS
  ThreadsAreJoined
  HupIsHonoured
  WrittenInOrder
  LogTellsAll
PROPERTIES
  StopEnds
CHECK_DEADLOCK FALSE
