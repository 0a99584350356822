CONSTANTS
  t1 = t1
  t2 = t2
  t3 = t3
  t4 = t4
  Req <- MCReq
  Detached <- MCDetached
  MaxWorkers = 2
SPECIFICATION PoolFairSpec
INVARIANTS PoolSafe
PROPERTIES WaitersAnswered
CHECK_DEADLOCK FALSE
