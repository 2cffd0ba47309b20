CONSTANTS
  UnlockedLoops <- LockedOnly
  Prompt = TRUE
  DeepFunding = FALSE
  MaxRetries = 1
  MaxTrades = 1
  MaxOrders = 8
  MaxFaults = 1
  MaxLost = 0
  MaxManual = 0
SPECIFICATION Spec
INVARIANT EntryCaught
CHECK_DEADLOCK FALSE
