CONSTANTS
  s1 = s1
  s2 = s2
  s3 = s3
  NoSymbol = NoSymbol
  NoCall = NoCall
  Symbols <- MCSymbols
  Scores <- MCScores
  Trends <- MCTrends
  TopN = 2
  MaxPositions = 2
  Settlement = 9
  Late = 3
  EarlyGate = 6
  Freeze = 1
  Close = 1
  BaseCooldown = 3
  ExtraCooldown = 3
  CloseCooldown = 6
  CallCooldown = 1
  LeastFrontrun = 2
  LeastLate = 1
SYMMETRY Interchangeable
SPECIFICATION Spec
INVARIANTS
  TypeOK
  NeverReconsidered
