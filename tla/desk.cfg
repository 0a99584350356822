CONSTANTS
  Client = {c1, c2}
  Key = {k1, k2}
  Value = {v1}
  Absent = absent
  Backend = {"keyring", "env", "hashicorp"}
  Period = 4
  Life = 6
  MinSleep = 2
  Backoff = 2
  MaxJobs = 2
  MaxTrouble = 1
  Identity = {i1, i2}
  Copies = 2
  MaxFaults = 1
  MaxRoutes = 2
  Hasty = TRUE
SPECIFICATION DeskSpec
INVARIANTS GatewayKeeps VaultTells
PROPERTIES OnlyItsKey Recovers
CHECK_DEADLOCK FALSE
