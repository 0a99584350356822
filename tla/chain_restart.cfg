CONSTANTS
  r1 = r1
  r2 = r2
  u1 = u1
  u2 = u2
  pathA = pathA
  RbId <- Paths
  Req <- Two
  Detached <- None
  MaxWorkers = 1
  NeedsCreds <- None
  Reversible <- None
  RbIdOf <- NoRollback
  Undo <- None
  UndoId <- NoUndo
  Serial = TRUE
  AuditFaults = 0
  VaultFaults = 0
  MaxRestarts = 1
SPECIFICATION Spec
INVARIANTS VerifyChain
CHECK_DEADLOCK FALSE
