---------------------------- MODULE CandlePatterns ----------------------------
(***************************************************************************)
(* What the bot reads out of the closed candles of one timeframe           *)
(* (internal/indicator): candle patterns against and for a short, trends,  *)
(* breaks of structure, swing highs and divergences of the RSI, as the      *)
(* candles close one after another.                                        *)
(*                                                                         *)
(* Prices and volumes are integers; a comparison with a fraction of one is *)
(* multiplied out.  The RSI's averages, a recurrence of floating-point      *)
(* numbers in the code, are computed to a thousandth of a price, the RSI    *)
(* and what is compared with it to a hundredth of a point.                  *)
(***************************************************************************)
EXTENDS Integers, Sequences, FiniteSets, FiniteSetsExt

CONSTANTS
  Timeframe,     (* the timeframe the candles are of                         *)
  Histories,     (* the candles there may be at the start                    *)
  Shapes,        (* the candles that may follow, relative to the last close  *)
  Volumes,       (* their volumes                                            *)
  ATR,           (* the ATR of the hourly candles                            *)
  MinSwing,      (* MinSwingDistance                                         *)
  Lookback,      (* Lookback: candles in which swings are looked for         *)
  Period,        (* rsiPeriod                                                *)
  Buffer,        (* candles there must be before those of the two            *)
  MaxNew         (* bound: candles that close in a behaviour                 *)

Candle == [open: Int, high: Int, low: Int, close: Int, volume: Nat]

ASSUME PatternsAssumption ==
  /\ Timeframe \in {"1h", "30m", "15m", "5m"}
  /\ {ATR, Lookback, Buffer, MaxNew} \subseteq Nat /\ {MinSwing, Period} \subseteq Nat \ {0}
  /\ Volumes \subseteq Nat
  /\ Histories \subseteq Seq(Candle) /\ \A h \in Histories : Len(h) >= 5
  /\ Shapes \subseteq [open: Int, high: Int, low: Int, close: Int]

VARIABLES candles, (* the closed candles, oldest first                       *)
          closed   (* how many of them closed in this behaviour              *)

vars == <<candles, closed>>

-----------------------------------------------------------------------------
(* Candles.                                                                *)

Abs(x) == IF x < 0 THEN -x ELSE x
Body(c) == c.close - c.open
Size(c) == Abs(Body(c))
Extent(c) == c.high - c.low
Top(c) == Max({c.open, c.close})
Bottom(c) == Min({c.open, c.close})
UpperWick(c) == c.high - Top(c)
LowerWick(c) == Bottom(c) - c.low
Green(c) == c.close > c.open
Red(c) == c.close < c.open

\* A candle's high and low enclose its body.
Encloses(c) == LowerWick(c) >= 0 /\ UpperWick(c) >= 0

ASSUME EnclosesAssumption ==
  /\ \A h \in Histories : \A i \in DOMAIN h : Encloses(h[i])
  /\ \A shape \in Shapes : Encloses(shape)

\* The n-th candle from the end.
FromEnd(s, n) == s[Len(s) + 1 - n]

\* part is at least, at most, pct percent of whole.
AtLeast(part, pct, whole) == 100 * part >= pct * whole
AtMost(part, pct, whole) == 100 * part <= pct * whole

\* tfConfigs: percentages, but for the look-back and the smallest extent, in
\* hundredths of a percent.
Config ==
  CASE Timeframe = "1h"  -> [body |-> 250, wick |-> 60, doji |-> 8, trend |-> 5,  least |-> 20, atr |-> 100]
    [] Timeframe = "30m" -> [body |-> 280, wick |-> 62, doji |-> 8, trend |-> 6,  least |-> 25, atr |-> 75]
    [] Timeframe = "15m" -> [body |-> 300, wick |-> 65, doji |-> 7, trend |-> 8,  least |-> 30, atr |-> 55]
    [] Timeframe = "5m"  -> [body |-> 350, wick |-> 70, doji |-> 6, trend |-> 12, least |-> 40, atr |-> 35]

-----------------------------------------------------------------------------
(* Trends and structure.                                                   *)

\* The n candles of s before its last one, and the pairs of neighbours in
\* the trend's window: from look-back + 1 to 2 from the end.
Before(s, n) == {s[i] : i \in Len(s) - n .. Len(s) - 1}
TrendIndices(s, n) == Len(s) - n + 1 .. Len(s) - 1

\* Up (dir = 1) or down (-1): a move of half a percent over the window, and
\* two of three signs of it: successive highs, successive lows, candles of
\* its colour.
Trending(s, n, dir) ==
  LET is     == TrendIndices(s, n)
      half   == (n - 1) \div 2 + 1
      third  == Max({1, (n - 1) \div 3})
      start  == s[Len(s) - n].close
      highs  == {i \in is : dir * (s[i].high - s[i - 1].high) > 0}
      lows   == {i \in is : dir * (s[i].low - s[i - 1].low) > 0}
      colour == {i \in is : dir * Body(s[i]) > 0}
      signs  == {x \in 1 .. 3 : \/ x = 1 /\ Cardinality(highs) >= third
                                \/ x = 2 /\ Cardinality(lows) >= third
                                \/ x = 3 /\ Cardinality(colour) >= half}
  IN  /\ Len(s) > n
      /\ start > 0
      /\ 1000 * dir * (s[Len(s) - 1].close - start) >= 5 * start
      /\ Cardinality(signs) >= 2

isUptrend(s, n) == Trending(s, n, 1)
isDowntrend(s, n) == Trending(s, n, -1)

Highest(s, n) == Max({c.high : c \in Before(s, n)})
Lowest(s, n) == Min({c.low : c \in Before(s, n)})

bullishBreakOfStructure(s, n) ==
  LET c == FromEnd(s, 1) IN
  Len(s) >= n + 2 /\ c.close > Highest(s, n) /\ Green(c)

bullishLiquiditySweep(s, n) ==
  LET c == FromEnd(s, 1) IN
  Len(s) >= n + 2 /\ c.low < Lowest(s, n) /\ c.close > Lowest(s, n) /\ Green(c)

bearishBreakOfStructure(s, n) ==
  LET c == FromEnd(s, 1) IN
  Len(s) >= n + 2 /\ c.close < Lowest(s, n) /\ Red(c)

bearishLiquiditySweep(s, n) ==
  LET c == FromEnd(s, 1) IN
  Len(s) >= n + 2 /\ c.high > Highest(s, n) /\ c.close < Highest(s, n) /\ Red(c)

-----------------------------------------------------------------------------
(* Patterns, each with its strength.                                       *)

\* avgVolume, as a fraction.
Total(s) == MapThenSumSet(LAMBDA i : s[i].volume, DOMAIN s)

\* The last candle's volume is at least, or more than, or less than, pct
\* percent of the average.
HighVolume(s) == Total(s) > 0 /\ AtLeast(FromEnd(s, 1).volume * Len(s), 120, Total(s))

\* mutant: weak volume weakens twice
AdjustedTwice(strength, s) ==
  LET v == FromEnd(s, 1).volume * Len(s) IN
  CASE v > 0 /\ 100 * v > 150 * Total(s) -> "STRONG"
    [] v > 0 /\ 100 * v < 70 * Total(s) -> IF strength = "STRONG" THEN "MEDIUM" ELSE "WEAK"
    [] OTHER -> strength

\* adjustStrength: by the volume.
Adjusted(strength, s) ==
  LET v == FromEnd(s, 1).volume * Len(s) IN
  CASE v > 0 /\ 100 * v > 150 * Total(s) -> "STRONG"
    [] v > 0 /\ 100 * v < 70 * Total(s) -> "MEDIUM"
    [] OTHER -> strength

StrongIf(cond) == IF cond THEN "STRONG" ELSE "MEDIUM"

\* What a detector that holds reports.
Found(holds, pattern, strength) ==
  IF holds THEN {[pattern |-> pattern, strength |-> strength]} ELSE {}

\* Nothing is looked for in few candles, or in a last one hardly any wider
\* than a line.
Readable(s) ==
  LET c == FromEnd(s, 1) IN
  /\ Len(s) >= 5
  /\ Extent(c) > 0
  /\ c.close > 0 => 10000 * Extent(c) >= Config.least * c.close

\* An engulfing candle's body covers that of the last but one, of the other
\* colour, within 3% of its extent.
Engulfs(c, p) ==
  /\ Extent(p) > 0 /\ AtLeast(Size(p), 35, Extent(p))
  /\ IF Red(c) THEN Green(p) /\ AtLeast(c.open - p.close, -3, Extent(c))
                             /\ AtMost(c.close - p.open, 3, Extent(c))
     ELSE Green(c) /\ Red(p) /\ AtMost(c.open - p.close, 3, Extent(c))
                             /\ AtLeast(c.close - p.open, -3, Extent(c))

EngulfStrength(c, p, s) ==
  StrongIf(\/ Size(c) >= Size(p) /\ HighVolume(s)
           \/ AtLeast(Size(c), 120, Size(p)))

\* The small middle candle of a star.
StarMiddle(p, pp) ==
  Extent(pp) > 0 /\ AtLeast(Size(pp), 50, Extent(pp)) /\ AtMost(Size(p), 45, Size(pp))

\* The trend of a star is that before its last two candles.
BeforeStar(s) == SubSeq(s, 1, Len(s) - 2)

EveningStar(s) ==
  LET c == FromEnd(s, 1)  p == FromEnd(s, 2)  pp == FromEnd(s, 3) IN
  /\ Green(pp) /\ Red(c) /\ StarMiddle(p, pp)
  /\ AtLeast(Top(p) - pp.close, -10, Size(pp))
  /\ AtMost(c.close - pp.open, 50, Size(pp))

\* mutant: half of the first body is measured from its open
MorningStarFromOpen(s) ==
  LET c == FromEnd(s, 1)  p == FromEnd(s, 2)  pp == FromEnd(s, 3) IN
  /\ Red(pp) /\ Green(c) /\ StarMiddle(p, pp)
  /\ AtMost(Bottom(p) - pp.close, 10, Size(pp))
  /\ AtLeast(c.close - pp.open, 50, Size(pp))

MorningStar(s) ==
  LET c == FromEnd(s, 1)  p == FromEnd(s, 2)  pp == FromEnd(s, 3) IN
  /\ Red(pp) /\ Green(c) /\ StarMiddle(p, pp)
  /\ AtMost(Bottom(p) - pp.close, 10, Size(pp))
  /\ AtLeast(c.close - pp.close, 50, Size(pp))

ShootingStar(c) ==
  /\ AtLeast(UpperWick(c), Config.body, Size(c)) /\ AtLeast(UpperWick(c), 55, Extent(c))
  /\ AtMost(LowerWick(c), 50, Size(c)) /\ AtMost(Top(c) - c.low, 35, Extent(c))

UpperWickReject(c) ==
  /\ AtLeast(UpperWick(c), Config.wick, Extent(c)) /\ AtLeast(UpperWick(c), 250, LowerWick(c))
  /\ AtMost(Size(c), 35, Extent(c))

DojiAfterPump(c, p) ==
  /\ Extent(p) > 0 /\ Green(p) /\ AtLeast(Size(p), 65, Extent(p))
  /\ AtMost(Size(c), Config.doji, Extent(c))

FailedBreakout(c, p) ==
  /\ p.high > 0 /\ 1000 * (c.high - p.high) >= 4 * p.high
  /\ c.close < p.high /\ Red(c) /\ AtLeast(UpperWick(c), 40, Extent(c))

Hammer(c) ==
  /\ AtLeast(Top(c) - c.low, 60, Extent(c)) /\ AtLeast(LowerWick(c), Config.body, Size(c))
  /\ AtMost(UpperWick(c), 25, Extent(c)) /\ AtMost(Size(c), 45, Extent(c))

StrongMomentum(c, s) ==
  /\ Green(c) /\ AtLeast(Size(c), 60, Extent(c)) /\ AtMost(UpperWick(c), 20, Extent(c))
  /\ AtLeast(c.close - c.high, -15, Extent(c))
  /\ HighVolume(s) \/ AtLeast(Extent(c), Config.atr, ATR)

LowerWickReject(c) ==
  /\ AtLeast(LowerWick(c), Config.wick, Extent(c)) /\ AtLeast(LowerWick(c), 250, UpperWick(c))
  /\ AtMost(Size(c), 35, Extent(c))

DetectPatterns(s) ==
  LET n  == Config.trend
      c  == FromEnd(s, 1)  p == FromEnd(s, 2)  pp == FromEnd(s, 3)
      up == isUptrend(s, n)
  IN
  IF ~Readable(s) THEN {} ELSE
    Found(up /\ ShootingStar(c), "SHOOTING_STAR", StrongIf(HighVolume(s) \/ Red(c)))
    \cup Found(up /\ Red(c) /\ Engulfs(c, p), "BEARISH_ENGULFING", EngulfStrength(c, p, s))
    \cup Found(up /\ UpperWickReject(c), "UPPER_WICK", Adjusted("MEDIUM", s))
    \cup Found(isUptrend(BeforeStar(s), n) /\ EveningStar(s), "EVENING_STAR",
               StrongIf(AtMost(c.close - pp.open, 30, Size(pp)) \/ HighVolume(s)))
    \cup Found(up /\ DojiAfterPump(c, p), "DOJI", Adjusted("MEDIUM", s))
    \cup Found(FailedBreakout(c, p), "FAILED_BREAKOUT", Adjusted("MEDIUM", s))
    \cup Found(bearishBreakOfStructure(s, n), "BREAK_STRUCTURE", Adjusted("STRONG", s))
    \cup Found(bearishLiquiditySweep(s, n), "LIQUIDITY_SWEEP", Adjusted("STRONG", s))

DetectBullishPatterns(s) ==
  LET n    == Config.trend
      c    == FromEnd(s, 1)  p == FromEnd(s, 2)  pp == FromEnd(s, 3)
      down == isDowntrend(s, n)
  IN
  IF ~Readable(s) THEN {} ELSE
    Found(down /\ Green(c) /\ Engulfs(c, p), "BULLISH_ENGULFING", EngulfStrength(c, p, s))
    \cup Found(down /\ Hammer(c), "HAMMER", StrongIf(HighVolume(s) \/ Green(c)))
    \cup Found(StrongMomentum(c, s), "STRONG_MOMENTUM", Adjusted("MEDIUM", s))
    \cup Found(isDowntrend(BeforeStar(s), n) /\ MorningStar(s), "MORNING_STAR",
               StrongIf(AtLeast(c.close - pp.close, 70, Size(pp)) \/ HighVolume(s)))
    \cup Found(bullishBreakOfStructure(s, n), "BREAK_OF_STRUCTURE", Adjusted("STRONG", s))
    \cup Found(bullishLiquiditySweep(s, n), "LIQUIDITY_SWEEP", Adjusted("STRONG", s))
    \cup Found(down /\ LowerWickReject(c), "LOWER_WICK", Adjusted("MEDIUM", s))

-----------------------------------------------------------------------------
(* Divergences: the price's highs rise while the RSI's fall.               *)

RSIPeakSearchRadius == 3
MinRSIPeak == 5000
Overbought == 7500
StrongPriceDiffPct == 100
StrongRSIDiffPts == 600
MaxBarsSinceSwing == 15

\* The candles a swing high is compared with.
Sides(i) == i - MinSwing .. i + MinSwing

WindowStart(s) == Max({0, Len(s) - Lookback})

\* mutant: a high counts before the candles after it have closed
SwingsUnconfirmed(s) ==
  {i \in WindowStart(s) + 1 + MinSwing .. Len(s) - 1 :
     /\ \A j \in i - MinSwing .. Min({Len(s), i + MinSwing}) : s[j].high <= s[i].high
     /\ 10000 * (s[i].high - s[i - MinSwing].high) >= 15 * s[i - MinSwing].high}

\* findSwingHighs, in the last Lookback candles: none around it is higher, and
\* it stands out by 0.15% from the outermost two.
findSwingHighs(s) ==
  {i \in WindowStart(s) + 1 + MinSwing .. Len(s) - MinSwing :
     LET ref == Max({s[i - MinSwing].high, s[i + MinSwing].high}) IN
     /\ \A j \in Sides(i) : s[j].high <= s[i].high
     /\ ref > 0
     /\ 10000 * (s[i].high - ref) >= 15 * ref}

\* computeRSISeries: Wilder's averages of the gains and the losses, seeded with
\* the mean of the first Period of them; the RSI at each candle from there on.
computeRSISeries(s) ==
  LET gain(i) == Max({0, s[i].close - s[i - 1].close})
      loss(i) == Max({0, s[i - 1].close - s[i].close})
      seeds   == 2 .. Period + 1
      avg[i \in Period + 1 .. Len(s)] ==
        IF i = Period + 1
        THEN [gain |-> (1000 * MapThenSumSet(gain, seeds)) \div Period,
              loss |-> (1000 * MapThenSumSet(loss, seeds)) \div Period]
        ELSE LET last == avg[i - 1] IN
             [gain |-> (last.gain * (Period - 1) + 1000 * gain(i)) \div Period,
              loss |-> (last.loss * (Period - 1) + 1000 * loss(i)) \div Period]
  IN [i \in DOMAIN avg |-> LET a == avg[i] IN
        IF a.loss = 0 THEN 10000 ELSE (10000 * a.gain) \div (a.gain + a.loss)]

\* The RSI's peak near a swing.
localRSIPeak(rsi, i) ==
  Max({rsi[j] : j \in DOMAIN rsi \cap (i - RSIPeakSearchRadius .. i + RSIPeakSearchRadius)})

\* A swing a, another b, and what is between them, in hundredths of a percent
\* and of a point.
Pair(s, rsi, a, b) ==
  [a |-> a, b |-> b, peak |-> localRSIPeak(rsi, a),
   rise |-> (10000 * (s[b].high - s[a].high)) \div s[a].high,
   fall |-> localRSIPeak(rsi, a) - localRSIPeak(rsi, b)]

\* The swings a before b that diverge.
Diverging(s) ==
  LET rsi == computeRSISeries(s) IN
  IF Len(s) < Period + Lookback + Buffer THEN {} ELSE
  {d \in {Pair(s, rsi, a, b) : a \in findSwingHighs(s), b \in findSwingHighs(s)} :
     /\ d.a < d.b /\ Len(s) - d.b <= MaxBarsSinceSwing
     /\ s[d.b].high > s[d.a].high
     /\ d.fall > 0 /\ d.peak >= MinRSIPeak}

\* The rise plus the fall; of equals the pair found first, from the end, stays.
Better(x, y) ==
  \/ x.rise + x.fall > y.rise + y.fall
  \/ x.rise + x.fall = y.rise + y.fall
       /\ (x.b > y.b \/ (x.b = y.b /\ x.a > y.a))

\* DetectRSIDivergence: the best pair's strength, raised when overbought.
DetectRSIDivergence(s) ==
  LET best  == CHOOSE x \in Diverging(s) : \A y \in Diverging(s) \ {x} : Better(x, y)
      marks == {m \in {"price", "rsi", "overbought"} :
                  \/ m = "price" /\ best.rise >= StrongPriceDiffPct
                  \/ m = "rsi" /\ best.fall >= StrongRSIDiffPts
                  \/ m = "overbought" /\ best.peak >= Overbought}
  IN  IF Diverging(s) = {} THEN "NONE"
      ELSE CASE Cardinality(marks) >= 2 -> "STRONG"
             [] Cardinality(marks) = 1 -> "MEDIUM"
             [] marks = {} -> "WEAK"

\* What a scan computes it from: no more than the last candles, so that the
\* averages start anew with every candle that closes.
Scanned(s) ==
  LET limit == Period + Lookback + Buffer IN
  IF Len(s) <= limit THEN s ELSE SubSeq(s, Len(s) + 1 - limit, Len(s))

-----------------------------------------------------------------------------
(* Candles close.                                                          *)

Init == candles \in Histories /\ closed = 0

\* The candle of a shape behind the last one.
Following(shape, v) ==
  LET base == FromEnd(candles, 1).close IN
  [open |-> base + shape.open, high |-> base + shape.high, low |-> base + shape.low,
   close |-> base + shape.close, volume |-> v]

CandleCloses(shape, v) ==
  /\ closed < MaxNew
  /\ candles' = Append(candles, Following(shape, v))
  /\ closed' = closed + 1

Next == \E shape \in Shapes, v \in Volumes : CandleCloses(shape, v)

Spec == Init /\ [][Next]_vars

-----------------------------------------------------------------------------
(* Properties.                                                             *)

\* A candle's high and low enclose its body, and every strength the detectors
\* report is one the scorer knows.
TypeOK ==
  /\ \A i \in DOMAIN candles : candles[i] \in Candle /\ Encloses(candles[i])
  /\ closed \in 0 .. MaxNew
  /\ \A f \in DetectPatterns(candles) \cup DetectBullishPatterns(candles) :
       f.strength \in {"STRONG", "MEDIUM"}
  /\ DetectRSIDivergence(Scanned(candles)) \in {"NONE", "WEAK", "MEDIUM", "STRONG"}

\* The same candles upside down.
Mirror(s) ==
  [i \in DOMAIN s |-> [s[i] EXCEPT !.open = 2000 - s[i].open, !.close = 2000 - s[i].close,
                                   !.high = 2000 - s[i].low,  !.low = 2000 - s[i].high]]

\* The detectors for and against a short are written twice, once upside down
\* (candle_pattern.go:65-269, :274-460, :601-693): the ones that are meant as
\* each other's mirror image see the same thing in mirrored candles.
MirrorsAgree ==
  LET s == candles  m == Mirror(candles)  n == Config.trend IN
  /\ bearishBreakOfStructure(s, n) <=> bullishBreakOfStructure(m, n)
  /\ bearishLiquiditySweep(s, n) <=> bullishLiquiditySweep(m, n)
  /\ EveningStar(s) <=> MorningStar(m)
  /\ Red(FromEnd(s, 1)) /\ Engulfs(FromEnd(s, 1), FromEnd(s, 2))
       <=> Green(FromEnd(m, 1)) /\ Engulfs(FromEnd(m, 1), FromEnd(m, 2))

\* Swing highs do not repaint: a candle that closes confirms at most the one
\* MinSwingDistance before it, and takes none away but by the window's moving
\* on (rsi_divergence.go:204-241).
NoRepaint ==
  [][ LET s == candles  t == candles' IN
      /\ \A i \in findSwingHighs(s) : i > WindowStart(t) + MinSwing => i \in findSwingHighs(t)
      /\ \A i \in findSwingHighs(t) \ findSwingHighs(s) : i = Len(t) - MinSwing ]_vars
=============================================================================
