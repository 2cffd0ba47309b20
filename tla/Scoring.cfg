CONSTANTS
  Timeframes <- HourAndHalf
  BearishPatterns <- Patterns
  BullishPatterns <- Bulls
  Markets <- TwoMarkets
  MaxBearish = 2
  MaxBullish = 3
SPECIFICATION Spec
INVARIANT TypeOK
PROPERTIES
  PenaltiesNeverHelp
  SameTimeframeNeverHurts
CHECK_DEADLOCK FALSE
