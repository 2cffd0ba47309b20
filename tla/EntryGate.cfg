CONSTANTS
  s1 = s1
  s2 = s2
  s3 = s3
  s4 = s4
  NoSymbol = NoSymbol
  Symbols <- MCSymbols
  Scores <- MCScores
  MaxPositions = 1
  MaxDailyLosses = 0
  MinScore = 50
  MinScoreOverride = 45
  MaxLosses = 1
SYMMETRY Interchangeable
SPECIFICATION Spec
INVARIANTS
  TypeOK
  PositionBound
  LimitsStop
PROPERTY
  ImplementsBook
