CONSTANTS
  Routed <- TwoDomains
  Returns <- Contract
  Blocking <- NeverAwait
SPECIFICATION FairSpec
INVARIANTS DecisionSafe AllowIsEarned
PROPERTIES ImplementsLane Decided
CHECK_DEADLOCK FALSE
