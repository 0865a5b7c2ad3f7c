CONSTANTS
  c1 = c1
  None = None
  Cookies <- OneCookie
  Delay = 1
  CheckEvery = 2
  CookieTicks = 1
  MaxEvents = 2
  MayRefuse = TRUE
  MayFail = TRUE
  MayStop = TRUE
  MaxOps = 2
SPECIFICATION FairSpec
INVARIANTS
  NothingForgotten
PROPERTIES
  ChangeReachesPool
  RemovalReachesPool
  LossReachesPool
CHECK_DEADLOCK FALSE
