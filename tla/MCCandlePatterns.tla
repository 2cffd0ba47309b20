--------------------------- MODULE MCCandlePatterns ---------------------------
(* CandlePatterns on small instances: hourly candles around a price of 1000. *)
EXTENDS CandlePatterns

C(o, h, l, c) == [open |-> o, high |-> h, low |-> l, close |-> c, volume |-> 10]

\* A rise, a fall, around the same price.
Rise == <<C(950, 962, 945, 960), C(960, 970, 955, 968), C(968, 980, 962, 978),
          C(978, 990, 975, 988), C(988, 1001, 985, 1000)>>
Fall == <<C(1050, 1055, 1038, 1040), C(1040, 1045, 1030, 1032), C(1032, 1038, 1020, 1022),
          C(1022, 1025, 1010, 1012), C(1012, 1015, 999, 1000)>>

\* Three swing highs, the last one not yet confirmed.  With a dip every second
\* candle closes lower: the RSI's peaks are less high and closer to each other.
Highs == <<940, 945, 942, 948, 950, 955, 970, 985, 995, 1005, 996, 993, 998, 1008, 1000, 996, 1000,
           1012, 1004, 1000>>
Peaks(dip) == [i \in DOMAIN Highs |->
                 C(Highs[i] - 10, Highs[i], Highs[i] - 20, Highs[i] - 5 - (i % 2) * dip)]

HistoriesMC == {Rise, Fall, Peaks(0), Peaks(13)}

Shape(o, h, l, c) == [open |-> o, high |-> h, low |-> l, close |-> c]

ShapesMC ==
  {Shape(0, 12, -1, 10), Shape(0, 1, -12, -10),   (* long bodies              *)
   Shape(0, 4, -4, 0),                            (* a doji                   *)
   Shape(1, 20, -1, -1), Shape(1, 2, -20, -1),     (* long wicks               *)
   Shape(12, 14, -2, -1), Shape(-12, 2, -14, 1),  (* engulfing                *)
   Shape(8, 40, -3, -2)}                           (* a wide failed break-out  *)
VolumesMC == {5, 30}
=============================================================================
