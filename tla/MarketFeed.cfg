CONSTANTS
  a = a
  Symbols <- One
  Kinds <- AllKinds
  MaxFailures = 2
  ChanCap = 1
  FetchLimit = 3
  GetLimit = 4
  MaxSeries = 4
  MaxTime = 4
  MaxWindows = 2
  MaxFaults = 2
  MaxWire = 2
SPECIFICATION Spec
INVARIANTS
  TypeOK
  
  NothingCarriedOver
PROPERTIES
  StreamsHeal
  PingsReturn
  NeverSilentForever
CHECK_DEADLOCK FALSE
