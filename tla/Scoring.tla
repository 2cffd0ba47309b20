------------------------------- MODULE Scoring -------------------------------
(***************************************************************************)
(* The composite score of one short candidate (internal/scoring) over the  *)
(* life of its indicator snapshot (internal/indicator): a signal appears, a *)
(* momentum flag turns on, and the score, the confidence and the size of    *)
(* the position are computed anew.                                         *)
(*                                                                         *)
(* Scores are integers, in thousandths of a point, rounded down: rounding  *)
(* keeps the order of any two scores or makes them equal.                  *)
(***************************************************************************)
EXTENDS Integers, Sequences, FiniteSets, FiniteSetsExt

CONSTANTS
  Timeframes,      (* the timeframes signals come from                        *)
  BearishPatterns, (* the patterns DetectPatterns can report                  *)
  BullishPatterns, (* the patterns DetectBullishPatterns can report           *)
  Markets,         (* readings that do not change: see Market                 *)
  MaxBearish,      (* bound: bearish signals of a snapshot                    *)
  MaxBullish       (* bound: bullish signals of a snapshot                    *)

Strengths == {"STRONG", "MEDIUM"}
DivergenceStrengths == Strengths \cup {"WEAK"}
Signals(patterns) == [tf: Timeframes, pattern: patterns, strength: Strengths]
Divergences == [tf: Timeframes \cap {"1h", "15m"}, strength: DivergenceStrengths]

\* Beyond every reading.
Infinity == 1000000
Reading == -Infinity .. Infinity - 1

\* The readings: the funding rate in hundredths of a percent, open interest's
\* change in percent, BTC's trend, the volume's spike with the RSI behind it,
\* the daily gain and the ATR in percent.
Market == [funding: Reading, oi: Reading, oi15m: Reading,
           btc: [trend: {"bullish", "bearish", "neutral"}, momentum: Nat, breakout: BOOLEAN],
           spike: BOOLEAN, rsi7: 0 .. 100, roi: Reading, atr: Reading \cap Nat]

ASSUME ScoringAssumption ==
  /\ Timeframes \subseteq {"1h", "30m", "15m", "5m"}
  /\ Markets \subseteq Market
  /\ {MaxBearish, MaxBullish} \subseteq Nat

VARIABLES
  market,     (* the readings                                                *)
  bearish,    (* IndicatorSnapshot.Patterns                                  *)
  bullish,    (* IndicatorSnapshot.BullishPatterns                           *)
  divs,       (* IndicatorSnapshot.RSIDivergences                            *)
  squeeze,    (* BullishMomentum                                             *)
  stale,      (* BearishMomentumWeak                                         *)
  score,      (* ScoredCandidate.CompositeScore                              *)
  size        (* ScoredCandidate.PositionSizePct                             *)

snapshot == <<market, bearish, bullish, divs, squeeze, stale>>
vars == <<snapshot, score, size>>

-----------------------------------------------------------------------------
(* The default configuration.                                              *)

Weights == [funding |-> 25, oi |-> 10, oi15m |-> 5, btc |-> 10, candle |-> 20,
            volume |-> 10, roi |-> 15, volatility |-> 5, rsidiv |-> 10]

Tier(lo, hi, m) == [lo |-> lo, hi |-> hi, mult |-> m, ramp |-> FALSE]
Ramp(lo, hi, m) == [lo |-> lo, hi |-> hi, mult |-> m, ramp |-> TRUE]

\* The tiers of each category in order, with multipliers in thousandths.
Thresholds ==
  [oi         |-> <<Tier(15, Infinity, 1000), Tier(10, 15, 750), Tier(5, 10, 500),
                    Tier(0, 5, 300), Tier(-Infinity, 0, 130)>>,
   oi15m      |-> <<Tier(-Infinity, -1, 1000), Tier(-1, 0, 650), Tier(0, 1, 550),
                    Tier(1, Infinity, 250)>>,
   roi        |-> <<Tier(15, 50, 1000), Tier(50, 80, 470), Tier(-Infinity, Infinity, 0)>>,
   volatility |-> <<Tier(1, 3, 1000), Tier(3, 5, 600), Tier(-Infinity, Infinity, 0)>>,
   volume     |-> <<Tier(65, Infinity, 1000), Tier(-Infinity, 65, 500),
                    Tier(-Infinity, Infinity, 300)>>,
   funding    |-> <<Tier(-20, Infinity, 0), Ramp(-50, -20, 670), Ramp(-100, -50, 890),
                    Ramp(-200, -100, 1000), Tier(-Infinity, -200, 0)>>]

BTCMultiplier == [breakout_bullish |-> 0, bullish_high_momentum |-> 200,
                  bullish |-> 300, neutral |-> 700, bearish |-> 1000]

\* Weights of timeframes and strengths in twentieths, of patterns in halves.
TfWeight == [x \in {"1h", "30m", "15m", "5m"} |->
               CASE x = "1h" -> 20 [] x = "30m" -> 19 [] x = "15m" -> 18 [] x = "5m" -> 17]
StrengthWeight == [STRONG |-> 20, MEDIUM |-> 14, WEAK |-> 7]
MultiTfBonus == <<0, 100, 250, 400>>

BearishWeight == [UPPER_WICK |-> 4, DOJI |-> 3, FAILED_BREAKOUT |-> 6, SHOOTING_STAR |-> 6,
                  BEARISH_ENGULFING |-> 8, EVENING_STAR |-> 10, BREAK_STRUCTURE |-> 12,
                  LIQUIDITY_SWEEP |-> 12]
BullishWeight == [HAMMER |-> 1, STRONG_MOMENTUM |-> 2, BULLISH_ENGULFING |-> 3,
                  MORNING_STAR |-> 4, BREAK_OF_STRUCTURE |-> 12, LIQUIDITY_SWEEP |-> 12,
                  LOWER_WICK |-> 2]

\* Every pattern that the detectors report has a weight.
ASSUME WeightedAssumption ==
  /\ BearishPatterns \subseteq DOMAIN BearishWeight
  /\ BullishPatterns \subseteq DOMAIN BullishWeight

\* What a signal adds, and what the strongest pattern would on a timeframe.
\* Bullish points are halves: a medium signal's half is rounded up to a whole.
BearishPoints == [s \in Signals(BearishPatterns) |->
  BearishWeight[s.pattern] * TfWeight[s.tf] * StrengthWeight[s.strength]]
StrongestPoints == [x \in Timeframes |-> 12 * TfWeight[x] * 30]
BullishPoints == [s \in Signals(BullishPatterns) |->
  IF s.strength = "STRONG" THEN BullishWeight[s.pattern]
                           ELSE 2 * ((BullishWeight[s.pattern] + 3) \div 4)]

\* Highest score first: the score in points, the name, the size in tenths of
\* a percent.
ConfidenceTiers == <<[min |-> 90, name |-> "VERY_HIGH", size |-> 55],
                     [min |-> 80, name |-> "HIGH",      size |-> 50],
                     [min |-> 70, name |-> "MEDIUM",    size |-> 40],
                     [min |-> 60, name |-> "LOW",       size |-> 20],
                     [min |-> 0,  name |-> "SKIP",      size |-> 0]>>

-----------------------------------------------------------------------------
(* The components.                                                         *)

\* The first tier of the category that holds v.
TierOf(cat, v) ==
  LET ts == Thresholds[cat]
      holds(i) == ts[i].lo <= v /\ v < ts[i].hi
  IN  CHOOSE i \in DOMAIN ts : holds(i) /\ \A j \in 1 .. i - 1 : ~holds(j)

evalThreshold(cat, v) == Thresholds[cat][TierOf(cat, v)].mult

\* From the multiplier of the tier before to the tier's own, along [lo, hi).
evalInterpolated(cat, v) ==
  LET i == TierOf(cat, v)
      t == Thresholds[cat][i]
      before == Thresholds[cat][i - 1].mult
  IN  IF t.ramp THEN before + ((v - t.lo) * (t.mult - before)) \div (t.hi - t.lo)
                ELSE t.mult

evalBTC(b) ==
  BTCMultiplier[CASE b.trend = "bullish" /\ b.breakout -> "breakout_bullish"
                  [] b.trend = "bullish" /\ ~b.breakout /\ b.momentum > 70 -> "bullish_high_momentum"
                  [] b.trend = "bullish" /\ ~b.breakout /\ b.momentum <= 70 -> "bullish"
                  [] OTHER -> b.trend]

evalVolume(spike, rsi) == evalThreshold("volume", IF spike THEN rsi ELSE -1)

Capped(x, most) == IF x > most THEN most ELSE x

\* mutant: the wicks' bonus turns into a malus
SynergyMalus(ps) ==
  IF {"FAILED_BREAKOUT", "UPPER_WICK"} \subseteq ps THEN 10 ELSE 25

\* Two pairs of patterns support each other: a fifth more for each.
Synergy(ps) ==
  LET once  == {"FAILED_BREAKOUT", "UPPER_WICK"} \subseteq ps
      again == {"LIQUIDITY_SWEEP", "BEARISH_ENGULFING"} \subseteq ps
  IN  IF once /\ again THEN 36 ELSE IF once \/ again THEN 30 ELSE 25

\* The signals' weight against the strongest pattern on each timeframe hit,
\* with a bonus for the number of timeframes.
scoreCandlePatterns(sigs) ==
  LET hit    == {s.tf : s \in sigs}
      raw    == SumFunctionOnSet(BearishPoints, sigs)
      most   == SumFunctionOnSet(StrongestPoints, hit)
  IN  IF sigs = {} THEN 0
      ELSE Weights.candle *
             Capped(Capped((raw * Synergy({s.pattern : s \in sigs}) * 40) \div most, 1000)
                      + MultiTfBonus[Cardinality(hit)], 1000)

\* The strongest divergence per timeframe decides.
rsidivCondition(ds) ==
  LET at(x)      == {d.strength : d \in {e \in ds : e.tf = x}}
      strong     == {x \in Timeframes : "STRONG" \in at(x)}
      medium     == {x \in Timeframes : "MEDIUM" \in at(x)} \ strong
  IN  CASE ds = {} -> "none"
        [] Cardinality(strong) >= 2 -> "strong_multitf"
        [] Cardinality(strong) = 1 -> "strong"
        [] strong = {} /\ Cardinality(medium) >= 2 -> "medium_multitf"
        [] strong = {} /\ Cardinality(medium) = 1 -> "medium"
        [] OTHER -> "weak"

\* The table's third tier bears the first one's condition: what it was for
\* finds none.
RSIDivTiers == <<[cond |-> "strong_multitf", mult |-> 1000], [cond |-> "strong", mult |-> 800],
                 [cond |-> "strong_multitf", mult |-> 600], [cond |-> "medium", mult |-> 400],
                 [cond |-> "weak", mult |-> 200], [cond |-> "none", mult |-> 0]>>

evalRSIDivergence(ds) ==
  LET fits == {i \in DOMAIN RSIDivTiers : RSIDivTiers[i].cond = rsidivCondition(ds)}
  IN  IF fits = {} THEN 0 ELSE RSIDivTiers[Min(fits)].mult

bullishSignalScore(sigs) == SumFunctionOnSet(BullishPoints, sigs)

\* mutant: the two lower steps are swapped
PenaltySwapped(x) ==
  CASE x >= 32 -> 1000 [] 24 <= x /\ x < 32 -> 250 [] 16 <= x /\ x < 24 -> 500 [] OTHER -> 0

\* The part of the candle weight that the bullish signals cost.
Penalty(x) ==
  CASE x >= 32 -> 1000 [] 24 <= x /\ x < 32 -> 500 [] 16 <= x /\ x < 24 -> 250 [] OTHER -> 0

scoreBullishPenalty(sigs) == -(Weights.candle * Penalty(bullishSignalScore(sigs)))

\* The score after scoreMomentumPenalty: a fifth less, a tenth less.
Discounted(pre, sq, st) ==
  IF pre <= 0 THEN pre
  ELSE (pre * (IF sq THEN 8 ELSE 10) * (IF st THEN 9 ELSE 10)) \div 100

\* Score
PreComposite(m, bear, bull, ds) ==
    evalInterpolated("funding", m.funding) * Weights.funding
  + evalThreshold("oi", m.oi) * Weights.oi
  + evalThreshold("oi15m", m.oi15m) * Weights.oi15m
  + evalBTC(m.btc) * Weights.btc
  + scoreCandlePatterns(bear)
  + evalVolume(m.spike, m.rsi7) * Weights.volume
  + evalThreshold("roi", m.roi) * Weights.roi
  + evalThreshold("volatility", m.atr) * Weights.volatility
  + evalRSIDivergence(ds) * Weights.rsidiv
  + scoreBullishPenalty(bull)

HighestTier(x) == CHOOSE i \in DOMAIN ConfidenceTiers :
  /\ x >= 1000 * ConfidenceTiers[i].min
  /\ \A j \in 1 .. i - 1 : x < 1000 * ConfidenceTiers[j].min

\* The size of the position; a negative score is in no tier, and skipped.
mapScoreToConfidence(x) == IF x < 0 THEN 0 ELSE ConfidenceTiers[HighestTier(x)].size

Composite == Discounted(PreComposite(market, bearish, bullish, divs), squeeze, stale)

\* Score, at the end of every computation of the snapshot.
Scored ==
  /\ score' = Composite'
  /\ size' = mapScoreToConfidence(score')

-----------------------------------------------------------------------------
(* What happens to a snapshot from one computation to the next.            *)

Init ==
  /\ market \in Markets
  /\ bearish = {} /\ bullish = {} /\ divs = {}
  /\ squeeze = FALSE /\ stale = FALSE
  /\ score = Composite /\ size = mapScoreToConfidence(score)

\* mutant: a pattern may be reported again with another strength
NewSignal(sig, sigs) == sig \notin sigs

\* The detectors report a pattern at most once per timeframe.
New(sig, sigs) == ~\E s \in sigs : s.tf = sig.tf /\ s.pattern = sig.pattern

BearishAppears(sig) ==
  /\ Cardinality(bearish) < MaxBearish /\ New(sig, bearish)
  /\ bearish' = bearish \cup {sig}
  /\ UNCHANGED <<market, bullish, divs, squeeze, stale>>
  /\ Scored

\* Bullish patterns are looked for on the three longer timeframes.
BullishAppears(sig) ==
  /\ Cardinality(bullish) < MaxBullish /\ New(sig, bullish) /\ sig.tf # "5m"
  /\ bullish' = bullish \cup {sig}
  /\ UNCHANGED <<market, bearish, divs, squeeze, stale>>
  /\ Scored

DivergenceAppears(d) ==
  /\ ~\E e \in divs : e.tf = d.tf
  /\ divs' = divs \cup {d}
  /\ UNCHANGED <<market, bearish, bullish, squeeze, stale>>
  /\ Scored

\* The squeeze needs open interest to have risen by more than 5%, and an RSI7
\* above 57; the stale set-up one below 50 and open interest that falls.
MomentumTurns ==
  /\ \/ ~squeeze /\ market.oi > 5 /\ market.rsi7 > 57 /\ squeeze' = TRUE /\ UNCHANGED stale
     \/ ~stale /\ market.oi15m < 0 /\ market.rsi7 < 50 /\ stale' = TRUE /\ UNCHANGED squeeze
  /\ UNCHANGED <<market, bearish, bullish, divs>>
  /\ Scored

Next ==
  \/ \E s \in Signals(BearishPatterns) : BearishAppears(s)
  \/ \E s \in Signals(BullishPatterns) : BullishAppears(s)
  \/ \E d \in Divergences : DivergenceAppears(d)
  \/ MomentumTurns

Spec == Init /\ [][Next]_vars

-----------------------------------------------------------------------------
(* Properties.                                                             *)

\* The snapshot's shape: at most one signal per pattern and timeframe, as the
\* detectors of internal/indicator report them.
TypeOK ==
  /\ market \in Market
  /\ bearish \in SUBSET Signals(BearishPatterns)
  /\ bullish \in SUBSET Signals(BullishPatterns)
  /\ \A sigs \in {bearish, bullish} : \A s, t \in sigs :
       s.tf = t.tf /\ s.pattern = t.pattern => s = t
  /\ divs \in SUBSET Divergences
  /\ {squeeze, stale} \subseteq BOOLEAN
  /\ score \in Int /\ size \in {ConfidenceTiers[i].size : i \in DOMAIN ConfidenceTiers}

\* What speaks against the short, a bullish signal or momentum, never raises
\* the score nor the size of the position.  Both are reckoned after the rest of
\* it: the bullish candles' cost as a part of the candles' weight, whose
\* half-points are rounded up, the momentum's as a part of the score, which of
\* a negative one would be a gain (scorer.go:401-482, :430-432).
PenaltiesNeverHelp ==
  [][<<bullish, squeeze, stale>>' # <<bullish, squeeze, stale>>
       => score' <= score /\ size' <= size]_vars

\* Another bearish signal on a timeframe that has one already never lowers the
\* score, although it is scaled by the strongest pattern possible on the
\* timeframes hit (scorer.go:281-309).
SameTimeframeNeverHurts ==
  [][\A s \in bearish' \ bearish :
       (\E b \in bearish : b.tf = s.tf) => score' >= score]_vars
=============================================================================
