CONSTANTS
  Workers = {w1, w2, w3}
  Work = {i1, i2, i3, i4}
  InitThreads = 0
  MinThreads = 1
  MaxThreads = 3
SPECIFICATION PoolFairSpec
INVARIANTS
  NoIdleWorker
  WorkAccounted
PROPERTIES
  WorkDone
CHECK_DEADLOCK FALSE
