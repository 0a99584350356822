CONSTANTS
  r1 = r1
  r2 = r2
  u1 = u1
  u2 = u2
  pathA = pathA
  RbId <- Paths
  Req <- Two
  Detached <- JustR1
  MaxWorkers = 1
  NeedsCreds <- JustR2
  Reversible <- Two
  RbIdOf <- SamePath
  Undo <- TwoUndo
  UndoId <- UndoA
  Serial = FALSE
  AuditFaults = 1
  VaultFaults = 1
  MaxRestarts = 1
SPECIFICATION FairSpec
INVARIANTS TrailIsTrue HistoryIsSound
PROPERTIES EveryRequestAnswered ImplementsContract
CHECK_DEADLOCK FALSE
