CONSTANTS
  UnlockedLoops <- LockedOnly
  Prompt = TRUE
  DeepFunding = FALSE
  MaxRetries = 1
  MaxTrades = 1
  MaxOrders = 10
  MaxFaults = 3
  MaxLost = 1
  MaxManual = 1
SPECIFICATION FairSpec
INVARIANTS
  TypeOK
  ClosedOnce
  RetryBudget
PROPERTY StubRepaired
CHECK_DEADLOCK FALSE
