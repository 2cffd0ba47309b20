CONSTANTS
  UnlockedLoops <- LockedOnly
  Prompt = TRUE
  DeepFunding = FALSE
  MaxRetries = 1
  MaxTrades = 3
  MaxOrders = 18
  MaxFaults = 0
  MaxLost = 0
  MaxManual = 0
SPECIFICATION FairSpec
INVARIANTS
  NoStrayOrders
  CacheBacked
PROPERTIES
  CleanClose
  EveryEntryRecorded
  ImplementsLedger
CHECK_DEADLOCK FALSE
