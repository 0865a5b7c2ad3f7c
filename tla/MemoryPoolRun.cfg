CONSTANTS
  w1 = w1
  w2 = w2
  client = client
  b1 = b1
  b2 = b2
  b3 = b3
  b4 = b4
  b5 = b5
  b6 = b6
  Threads <- WorkersAndClient
  Buffers <- SixBuffers
  Hold <- OneOrFour
  CacheSize = 2
  MaxPoolSize = 1
  KeepCount = 0
SPECIFICATION Spec
SYMMETRY Symmetry
INVARIANTS
  NoSharing
  TrackedIsOut
  OneBufferPerWorker
  HangsByLossOnly
CHECK_DEADLOCK FALSE
