CONSTANTS
  UnlockedLoops <- LockedOnly
  Prompt = TRUE
  DeepFunding = FALSE
  MaxRetries = 1
  MaxTrades = 3
  MaxOrders = 8
  MaxFaults = 1
  MaxLost = 0
  MaxManual = 0
  MaxCrashes = 1
SPECIFICATION RecSpec
INVARIANTS
  RecTypeOK
  NeverNakedAfterRestart
PROPERTIES
  RestartProtects
  RestartAgrees
CHECK_DEADLOCK FALSE
