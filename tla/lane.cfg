CONSTANTS
  i1 = i1
  i2 = i2
  i3 = i3
  Req <- Three
  Late <- JustI1
  PolicyEdits = 1
  Clears = 1
  Outages = 1
  CallFaults = 1
  MaxRestarts = 1
SPECIFICATION LaneSpec
INVARIANTS LaneSafe AuditIsTimeline
PROPERTIES ImplementsAirLock EveryIntentAnswered
CHECK_DEADLOCK FALSE
