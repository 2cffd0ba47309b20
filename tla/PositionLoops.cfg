CONSTANTS
  UnlockedLoops <- BothLoops
  Prompt = TRUE
  DeepFunding = FALSE
  MaxRetries = 1
  MaxTrades = 1
  MaxOrders = 8
  MaxFaults = 0
  MaxLost = 0
  MaxManual = 1
SPECIFICATION Spec
INVARIANT NeverNaked
CHECK_DEADLOCK FALSE
