CONSTANTS
  s1 = s1
  s2 = s2
  Symbols <- MCSymbols
  Confidences <- MCConfidences
  MaxIntents = 3
  MaxCycles = 2
SPECIFICATION FairSpec
INVARIANTS
  TypeOK
  WindowBudget
  OncePerGoroutine
  OneIntentPerSymbol
PROPERTIES
  NeverEarly
  NeverInLaterCycle
  EveryIntentLeaves
