CONSTANTS
  Timeframe = "1h"
  Histories <- HistoriesMC
  Shapes <- ShapesMC
  Volumes <- VolumesMC
  ATR = 20
  MinSwing = 3
  Lookback = 16
  Period = 3
  Buffer = 1
  MaxNew = 3
SPECIFICATION Spec
INVARIANTS
  TypeOK
  MirrorsAgree
PROPERTIES
  NoRepaint
CHECK_DEADLOCK FALSE
