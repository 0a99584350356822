CONSTANTS
  policy = policy
  executor = executor
  server = server
  Svc <- Profile
  Deps <- ServerNeedsBoth
  Probes <- ServerProbesExecutor
  Restartable <- Profile
  MaxRestarts = 1
  MaxFaults = 3
  MaxSignals = 1
  Impatient = TRUE
  Terminal = {c1, c2}
  MaxStarts = 2
  MaxEdits = 1
  Faults = 1
SPECIFICATION ProcessesSpec
INVARIANTS SupervisorSafe HintHolds
PROPERTIES StopsInReverse SupervisorReacts StopEnds
CHECK_DEADLOCK FALSE
