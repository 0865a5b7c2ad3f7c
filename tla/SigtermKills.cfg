CONSTANTS
  t1 = t1
  Producers <- FourThreads
  Main = "main"
  Cap = 2
  DropPart = 1
  BatchSize = 2
  MaxMessages = 0
  Tasks <- OneTask
  Capacity = 1
  MaxTerms = 1
  MaxHups = 0
  MaxEdits = 0
SPECIFICATION Spec
INVARIANTS
  SigtermIsOrderly
CHECK_DEADLOCK FALSE
