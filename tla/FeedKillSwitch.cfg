CONSTANTS
  a = a
  Symbols <- One
  Kinds <- PriceOnly
  MaxFailures = 3
  ChanCap = 1
  FetchLimit = 2
  GetLimit = 2
  MaxSeries = 3
  MaxTime = 3
  MaxWindows = 0
  MaxFaults = 4
  MaxWire = 2
SPECIFICATION Spec
INVARIANT KillSwitchIsConsecutive
CHECK_DEADLOCK FALSE
