CONSTANTS
  policy = policy
  executor = executor
  server = server
  Svc <- Profile
  Deps <- ServerNeedsBoth
  Probes <- ServerProbesExecutor
  Restartable <- Profile
  MaxRestarts = 1
  MaxFaults = 1
  MaxSignals = 1
  Impatient = FALSE
SPECIFICATION Spec
INVARIANTS NoOrphans
CHECK_DEADLOCK FALSE
