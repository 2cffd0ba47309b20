------------------------ MODULE CandlePatternsProofs ------------------------
(***************************************************************************)
(* Theorems about CandlePatterns, for any candles at the start and any     *)
(* that follow, any look-back and any distance between swings.             *)
(***************************************************************************)
EXTENDS CandlePatterns, SequenceTheorems, FiniteSetTheorems, WellFoundedInduction, TLAPS

-----------------------------------------------------------------------------
(* The greatest and the least of two numbers.                              *)

LEMMA MaxOfTwo ==
  ASSUME NEW a \in Int, NEW b \in Int
  PROVE  Max({a, b}) = IF a >= b THEN a ELSE b
<1>1. \E x \in {a, b} : \A y \in {a, b} : x >= y
  OBVIOUS
<1>2. /\ Max({a, b}) \in {a, b}
      /\ \A y \in {a, b} : Max({a, b}) >= y
  BY <1>1 DEF Max
<1> QED BY <1>2

LEMMA MinOfTwo ==
  ASSUME NEW a \in Int, NEW b \in Int
  PROVE  Min({a, b}) = IF a <= b THEN a ELSE b
<1>1. \E x \in {a, b} : \A y \in {a, b} : x =< y
  OBVIOUS
<1>2. /\ Min({a, b}) \in {a, b}
      /\ \A y \in {a, b} : Min({a, b}) =< y
  BY <1>1 DEF Min
<1> QED BY <1>2

-----------------------------------------------------------------------------
(* The candles.                                                            *)

LEMMA ConfigType == ASSUME PatternsAssumption PROVE Config.trend \in 5 .. 12
BY DEF Config, PatternsAssumption

Assumptions == PatternsAssumption /\ EnclosesAssumption

\* Candles of the exchange, and enough of them.
CandlesOK ==
  /\ candles \in Seq(Candle) /\ Len(candles) >= 5
  /\ \A i \in 1 .. Len(candles) : Encloses(candles[i])
  /\ closed \in 0 .. MaxNew

LEMMA FollowingType ==
  ASSUME Assumptions, CandlesOK, NEW shape \in Shapes, NEW v \in Volumes
  PROVE  Following(shape, v) \in Candle /\ Encloses(Following(shape, v))
<1> DEFINE c == Following(shape, v)
           base == FromEnd(candles, 1).close
<1>1. base \in Int
  <2>1. candles[Len(candles)] \in Candle /\ Len(candles) + 1 - 1 = Len(candles)
    BY LenProperties, ElementOfSeq DEF CandlesOK
  <2> QED BY <2>1 DEF FromEnd, Candle
<1>2. shape \in [open: Int, high: Int, low: Int, close: Int] /\ Encloses(shape)
  BY DEF Assumptions, PatternsAssumption, EnclosesAssumption
<1>3. v \in Nat
  BY DEF Assumptions, PatternsAssumption
<1>4. c = [open |-> base + shape.open, high |-> base + shape.high, low |-> base + shape.low,
           close |-> base + shape.close, volume |-> v]
  BY DEF Following
<1> HIDE DEF c, base
<1>5. c \in Candle
  BY <1>1, <1>2, <1>3, <1>4 DEF Candle
<1>6. Encloses(c)
  <2>1. /\ Top(c) = IF c.open >= c.close THEN c.open ELSE c.close
        /\ Bottom(c) = IF c.open <= c.close THEN c.open ELSE c.close
    BY <1>5, MaxOfTwo, MinOfTwo DEF Top, Bottom, Candle
  <2>2. /\ Top(shape) = IF shape.open >= shape.close THEN shape.open ELSE shape.close
        /\ Bottom(shape) = IF shape.open <= shape.close THEN shape.open ELSE shape.close
    BY <1>2, MaxOfTwo, MinOfTwo DEF Top, Bottom
  <2> QED BY <1>1, <1>2, <1>4, <2>1, <2>2 DEF Encloses, LowerWick, UpperWick
<1> QED BY <1>5, <1>6 DEF c

\* A candle is appended, the others stay.
LEMMA Closing ==
  ASSUME Assumptions, CandlesOK, Next
  PROVE  /\ candles' \in Seq(Candle) /\ Len(candles') = Len(candles) + 1
         /\ \A i \in 1 .. Len(candles) : candles'[i] = candles[i]
         /\ Encloses(candles'[Len(candles) + 1])
         /\ closed' \in 0 .. MaxNew
<1>1. PICK shape \in Shapes, v \in Volumes : CandleCloses(shape, v)
  BY DEF Next
<1> DEFINE c == Following(shape, v)
<1>2. c \in Candle /\ Encloses(c)
  BY FollowingType
<1>3. candles' = Append(candles, c) /\ candles \in Seq(Candle)
  BY <1>1 DEF CandleCloses, CandlesOK
<1>4. closed' \in 0 .. MaxNew
  BY <1>1 DEF CandleCloses, CandlesOK, Assumptions, PatternsAssumption
<1> HIDE DEF c
<1> QED BY <1>2, <1>3, <1>4, AppendProperties

LEMMA CandlesKept == Spec => []CandlesOK
<1>1. Assumptions
  BY PatternsAssumption, EnclosesAssumption DEF Assumptions
<1>2. Init => CandlesOK
  BY <1>1 DEF Init, CandlesOK, Assumptions, PatternsAssumption, EnclosesAssumption
<1>3. CandlesOK /\ [Next]_vars => CandlesOK'
  <2> SUFFICES ASSUME CandlesOK, [Next]_vars PROVE CandlesOK'
    OBVIOUS
  <2>1. CASE Next
    <3>1. Len(candles) \in Nat
      BY LenProperties DEF CandlesOK
    <3>2. \A i \in 1 .. Len(candles') : i \in 1 .. Len(candles) \/ i = Len(candles) + 1
      BY <1>1, <2>1, <3>1, Closing
    <3> QED BY <1>1, <2>1, <3>1, <3>2, Closing DEF CandlesOK
  <2>2. CASE UNCHANGED vars
    BY <2>2 DEF vars, CandlesOK
  <2> QED BY <2>1, <2>2
<1> QED BY <1>2, <1>3, PTL DEF Spec

-----------------------------------------------------------------------------
(* Swing highs.                                                            *)

\* A candle more.
Extends(t, s) ==
  /\ s \in Seq(Candle) /\ t \in Seq(Candle) /\ Len(t) = Len(s) + 1
  /\ \A i \in 1 .. Len(s) : t[i] = s[i]

SwingAt(s, i) ==
  LET ref == Max({s[i - MinSwing].high, s[i + MinSwing].high}) IN
  /\ \A j \in Sides(i) : s[j].high <= s[i].high
  /\ ref > 0
  /\ 10000 * (s[i].high - ref) >= 15 * ref

LEMMA SwingsAre ==
  ASSUME NEW s
  PROVE  findSwingHighs(s) =
           {i \in WindowStart(s) + 1 + MinSwing .. Len(s) - MinSwing : SwingAt(s, i)}
BY DEF findSwingHighs, SwingAt

\* Whether a candle is a swing high is settled when it can be judged.
LEMMA SwingSettled ==
  ASSUME Assumptions, NEW s, NEW t, Extends(t, s), NEW i \in Int,
         i >= 1 + MinSwing, i <= Len(s) - MinSwing
  PROVE  SwingAt(s, i) <=> SwingAt(t, i)
<1>1. MinSwing \in Nat /\ Len(s) \in Nat
  BY LenProperties DEF Assumptions, PatternsAssumption, Extends
<1>2. \A j \in Sides(i) : j \in 1 .. Len(s)
  BY <1>1 DEF Sides
<1>3. i \in Sides(i) /\ i - MinSwing \in Sides(i) /\ i + MinSwing \in Sides(i)
  BY <1>1 DEF Sides
<1>4. \A j \in Sides(i) : t[j] = s[j]
  BY <1>2 DEF Extends
<1>5. t[i] = s[i] /\ t[i - MinSwing] = s[i - MinSwing] /\ t[i + MinSwing] = s[i + MinSwing]
  BY <1>3, <1>4
<1>6. (\A j \in Sides(i) : s[j].high <= s[i].high) <=> (\A j \in Sides(i) : t[j].high <= t[i].high)
  BY <1>4, <1>5
<1> QED BY <1>5, <1>6 DEF SwingAt

LEMMA Windows ==
  ASSUME Assumptions, NEW s, NEW t, Extends(t, s)
  PROVE  /\ Len(s) \in Nat /\ Len(t) = Len(s) + 1 /\ MinSwing \in Nat /\ MinSwing > 0
         /\ WindowStart(s) \in Nat /\ WindowStart(t) \in Nat
         /\ WindowStart(s) <= WindowStart(t)
<1>1. Len(s) \in Nat /\ Len(t) = Len(s) + 1 /\ MinSwing \in Nat /\ MinSwing > 0 /\ Lookback \in Nat
  BY LenProperties DEF Assumptions, PatternsAssumption, Extends
<1>2. /\ WindowStart(s) = IF 0 >= Len(s) - Lookback THEN 0 ELSE Len(s) - Lookback
      /\ WindowStart(t) = IF 0 >= Len(t) - Lookback THEN 0 ELSE Len(t) - Lookback
  BY <1>1, MaxOfTwo DEF WindowStart
<1> QED BY <1>1, <1>2

LEMMA Repaints ==
  ASSUME Assumptions, NEW s, NEW t, Extends(t, s)
  PROVE  /\ \A i \in findSwingHighs(s) : i > WindowStart(t) + MinSwing => i \in findSwingHighs(t)
         /\ \A i \in findSwingHighs(t) \ findSwingHighs(s) : i = Len(t) - MinSwing
<1>1. /\ Len(s) \in Nat /\ Len(t) = Len(s) + 1 /\ MinSwing \in Nat /\ MinSwing > 0
      /\ WindowStart(s) \in Nat /\ WindowStart(t) \in Nat
      /\ WindowStart(s) <= WindowStart(t)
  BY Windows
<1>2. ASSUME NEW i \in findSwingHighs(s), i > WindowStart(t) + MinSwing
      PROVE  i \in findSwingHighs(t)
  <2>1. i \in WindowStart(s) + 1 + MinSwing .. Len(s) - MinSwing /\ SwingAt(s, i)
    BY <1>2, SwingsAre
  <2>2. i \in Int /\ i >= 1 + MinSwing /\ i <= Len(s) - MinSwing
    BY <1>1, <2>1
  <2>3. SwingAt(t, i)
    BY <2>1, <2>2, SwingSettled
  <2>4. i \in WindowStart(t) + 1 + MinSwing .. Len(t) - MinSwing
    BY <1>1, <1>2, <2>2
  <2> QED BY <2>3, <2>4, SwingsAre
<1>3. ASSUME NEW i \in findSwingHighs(t), i \notin findSwingHighs(s), i # Len(t) - MinSwing
      PROVE  FALSE
  <2>1. i \in WindowStart(t) + 1 + MinSwing .. Len(t) - MinSwing /\ SwingAt(t, i)
    BY <1>3, SwingsAre
  <2>2. /\ i \in Int /\ i >= 1 + MinSwing /\ i <= Len(s) - MinSwing
        /\ i \in WindowStart(s) + 1 + MinSwing .. Len(s) - MinSwing
    BY <1>1, <1>3, <2>1
  <2>3. SwingAt(s, i)
    BY <2>1, <2>2, SwingSettled
  <2> QED BY <1>3, <2>2, <2>3, SwingsAre
<1> QED BY <1>2, <1>3

LEMMA StepExtends ==
  ASSUME Assumptions, CandlesOK, Next
  PROVE  Extends(candles', candles)
BY Closing DEF Extends, CandlesOK

\* Swing highs do not repaint, whatever the candles: the one candle the last
\* close has made judgeable may become one, and those that were stay until the
\* window has moved past them.
THEOREM SwingsDoNotRepaint == Spec => NoRepaint
<1> DEFINE Kept == LET s == candles  t == candles' IN
                   /\ \A i \in findSwingHighs(s) :
                        i > WindowStart(t) + MinSwing => i \in findSwingHighs(t)
                   /\ \A i \in findSwingHighs(t) \ findSwingHighs(s) : i = Len(t) - MinSwing
<1>1. CandlesOK /\ [Next]_vars => [Kept]_vars
  <2> SUFFICES ASSUME CandlesOK, Next PROVE Kept
    OBVIOUS
  <2>1. Extends(candles', candles) /\ Assumptions
    BY StepExtends, PatternsAssumption, EnclosesAssumption DEF Assumptions
  <2> QED BY <2>1, Repaints
<1> HIDE DEF Kept
<1>2. Spec => [][Kept]_vars
  BY <1>1, CandlesKept, PTL DEF Spec
<1> QED BY <1>2 DEF Kept, NoRepaint

-----------------------------------------------------------------------------
(* What the detectors report.                                              *)

LEMMA FoundStrength ==
  ASSUME NEW holds, NEW pattern, NEW strength \in {"STRONG", "MEDIUM"},
         NEW f \in Found(holds, pattern, strength)
  PROVE  f.strength \in {"STRONG", "MEDIUM"}
BY DEF Found

LEMMA Strengths ==
  ASSUME NEW s
  PROVE  /\ \A cond : StrongIf(cond) \in {"STRONG", "MEDIUM"}
         /\ \A strength \in {"STRONG", "MEDIUM"} : Adjusted(strength, s) \in {"STRONG", "MEDIUM"}
         /\ \A c, p : EngulfStrength(c, p, s) \in {"STRONG", "MEDIUM"}
BY DEF StrongIf, Adjusted, EngulfStrength

LEMMA PatternStrengths ==
  ASSUME NEW s, NEW f \in DetectPatterns(s) \cup DetectBullishPatterns(s)
  PROVE  f.strength \in {"STRONG", "MEDIUM"}
<1>1. CASE f \in DetectPatterns(s)
  BY <1>1, Strengths, FoundStrength DEF DetectPatterns
<1>2. CASE f \in DetectBullishPatterns(s)
  BY <1>2, Strengths, FoundStrength DEF DetectBullishPatterns
<1> QED BY <1>1, <1>2

LEMMA DivergenceStrength ==
  ASSUME NEW s
  PROVE  DetectRSIDivergence(s) \in {"NONE", "WEAK", "MEDIUM", "STRONG"}
<1> DEFINE best  == CHOOSE x \in Diverging(s) : \A y \in Diverging(s) \ {x} : Better(x, y)
           marks == {m \in {"price", "rsi", "overbought"} :
                       \/ m = "price" /\ best.rise >= StrongPriceDiffPct
                       \/ m = "rsi" /\ best.fall >= StrongRSIDiffPts
                       \/ m = "overbought" /\ best.peak >= Overbought}
<1>1. DetectRSIDivergence(s) =
        IF Diverging(s) = {} THEN "NONE"
        ELSE CASE Cardinality(marks) >= 2 -> "STRONG"
               [] Cardinality(marks) = 1 -> "MEDIUM"
               [] marks = {} -> "WEAK"
  BY DEF DetectRSIDivergence
<1>2. IsFiniteSet(marks)
  <2>1. IsFiniteSet({"price", "rsi", "overbought"})
    <3>1. /\ IsFiniteSet({"price"})
          /\ {"price", "rsi"} = {"price"} \cup {"rsi"}
          /\ {"price", "rsi", "overbought"} = {"price", "rsi"} \cup {"overbought"}
      BY FS_Singleton
    <3>2. IsFiniteSet({"price", "rsi"})
      BY <3>1, FS_AddElement
    <3> QED BY <3>1, <3>2, FS_AddElement
  <2>2. marks \subseteq {"price", "rsi", "overbought"}
    OBVIOUS
  <2> HIDE DEF marks
  <2> QED BY <2>1, <2>2, FS_Subset
<1> HIDE DEF marks
<1>3. Cardinality(marks) \in Nat /\ (Cardinality(marks) = 0 => marks = {})
  BY <1>2, FS_CardinalityType, FS_EmptySet
<1>4. Cardinality(marks) >= 2 \/ Cardinality(marks) = 1 \/ marks = {}
  BY <1>3
<1> QED BY <1>1, <1>4

\* Every candle stays a candle, and whatever the candles, the detectors report
\* only strengths that the scorer has points for.
THEOREM PatternsTypeCorrect == Spec => []TypeOK
<1>1. CandlesOK => TypeOK
  <2> SUFFICES ASSUME CandlesOK PROVE TypeOK
    OBVIOUS
  <2>1. \A i \in DOMAIN candles : candles[i] \in Candle /\ Encloses(candles[i])
    BY LenProperties, ElementOfSeq DEF CandlesOK
  <2> QED BY <2>1, PatternStrengths, DivergenceStrength DEF TypeOK, CandlesOK
<1> QED BY <1>1, CandlesKept, PTL

-----------------------------------------------------------------------------
(* Mirrored candles.                                                       *)

LEMMA LeastNat ==
  ASSUME NEW T \in SUBSET Nat, T # {}
  PROVE  \E m \in T : \A n \in T : m <= n
<1>1. PICK m \in T : \A n \in T : ~(<<n, m>> \in OpToRel(<, Nat))
  BY NatLessThanWellFounded, WFMin
<1>2. \A n \in T : ~(n < m)
  <2> TAKE n \in T
  <2>1. ~(<<n, m>> \in OpToRel(<, Nat))
    BY <1>1
  <2>2. n \in Nat /\ m \in Nat
    OBVIOUS
  <2>3. n < m => <<n, m>> \in OpToRel(<, Nat)
    BY ONLY <2>2, Zenon DEF OpToRel
  <2> QED BY <2>1, <2>3
<1> HIDE <1>1
<1> QED BY <1>2

\* Finitely many numbers, at least one, have a least one.
LEMMA LeastOfMany ==
  ASSUME NEW a \in Int, NEW k \in Nat, NEW f, \A i \in a .. a + k : f[i] \in Int
  PROVE  \E i \in a .. a + k : \A j \in a .. a + k : f[i] <= f[j]
<1> DEFINE Has(n) == \E i \in a .. a + n : \A j \in a .. a + n : f[i] <= f[j]
           T == {n \in 0 .. k : ~Has(n)}
<1> SUFFICES ASSUME ~Has(k) PROVE FALSE
  OBVIOUS
<1>1. T \in SUBSET Nat /\ k \in T
  OBVIOUS
<1>2. PICK m \in T : \A n \in T : m <= n
  BY <1>1, LeastNat
<1>3. m \in 0 .. k /\ ~Has(m)
  BY <1>2
<1>4. m # 0
  BY <1>3
<1>5. m - 1 \in 0 .. k /\ Has(m - 1)
  <2>1. m - 1 \in 0 .. k /\ ~(m <= m - 1)
    BY <1>3, <1>4
  <2>2. m - 1 \notin T
    BY <1>2, <2>1
  <2> QED BY <2>1, <2>2
<1>6. PICK i \in a .. a + (m - 1) : \A j \in a .. a + (m - 1) : f[i] <= f[j]
  BY <1>5
<1>7. \A j \in a .. a + m : j \in a .. a + (m - 1) \/ j = a + m
  BY <1>3, <1>4
<1>8. i \in a .. a + m /\ a + m \in a .. a + m /\ a + m \in a .. a + k
  BY <1>3, <1>6
<1>9. f[i] \in Int /\ f[a + m] \in Int /\ \A j \in a .. a + m : f[j] \in Int
  BY <1>3, <1>8
<1>10. CASE f[i] <= f[a + m]
  BY <1>3, <1>6, <1>7, <1>8, <1>10
<1>11. CASE f[a + m] < f[i]
  <2>1. ASSUME NEW j \in a .. a + m PROVE f[a + m] <= f[j]
    <3>1. f[j] \in Int
      BY <1>9
    <3>2. CASE j \in a .. a + (m - 1)
      <4>1. f[i] <= f[j]
        BY <1>6, <3>2
      <4> QED BY <1>9, <1>11, <3>1, <4>1
    <3>3. CASE j = a + m
      BY <1>9, <3>3
    <3> QED BY <1>7, <3>2, <3>3
  <2> QED BY <1>3, <1>8, <2>1
<1> QED BY <1>9, <1>10, <1>11

LEMMA MinIs ==
  ASSUME NEW S \in SUBSET Int, NEW x \in S, \A y \in S : x <= y
  PROVE  Min(S) = x
<1>1. Min(S) \in S /\ \A y \in S : Min(S) =< y
  BY DEF Min
<1>2. Min(S) \in Int /\ x \in Int
  BY <1>1
<1>3. Min(S) <= x /\ x <= Min(S)
  BY <1>1, <1>2
<1> QED BY <1>2, <1>3

LEMMA MaxIs ==
  ASSUME NEW S \in SUBSET Int, NEW x \in S, \A y \in S : x >= y
  PROVE  Max(S) = x
<1>1. Max(S) \in S /\ \A y \in S : Max(S) >= y
  BY DEF Max
<1>2. Max(S) \in Int /\ x \in Int
  BY <1>1
<1>3. Max(S) <= x /\ x <= Max(S)
  BY <1>1, <1>2
<1> QED BY <1>2, <1>3

\* Four prices of a candle replaced.
LEMMA Repriced ==
  ASSUME NEW c \in Candle, NEW o, NEW e, NEW h, NEW l
  PROVE  LET d == [c EXCEPT !.open = o, !.close = e, !.high = h, !.low = l]
         IN  d.open = o /\ d.close = e /\ d.high = h /\ d.low = l
BY DEF Candle

LEMMA MirrorType ==
  ASSUME NEW s \in Seq(Candle)
  PROVE  /\ Len(Mirror(s)) = Len(s) /\ DOMAIN Mirror(s) = 1 .. Len(s) /\ Len(s) \in Nat
         /\ \A i \in 1 .. Len(s) :
              /\ s[i] \in Candle
              /\ Mirror(s)[i].open = 2000 - s[i].open /\ Mirror(s)[i].close = 2000 - s[i].close
              /\ Mirror(s)[i].high = 2000 - s[i].low /\ Mirror(s)[i].low = 2000 - s[i].high
<1> DEFINE d(i) == [s[i] EXCEPT !.open = 2000 - s[i].open, !.close = 2000 - s[i].close,
                                !.high = 2000 - s[i].low,  !.low = 2000 - s[i].high]
           S == {d(i) : i \in 1 .. Len(s)}
<1>1. Len(s) \in Nat /\ DOMAIN s = 1 .. Len(s)
  BY LenProperties
<1>2. Mirror(s) = [i \in 1 .. Len(s) |-> d(i)]
  BY <1>1 DEF Mirror
<1>3. ASSUME NEW i \in 1 .. Len(s)
      PROVE  /\ s[i] \in Candle
             /\ d(i).open = 2000 - s[i].open /\ d(i).close = 2000 - s[i].close
             /\ d(i).high = 2000 - s[i].low /\ d(i).low = 2000 - s[i].high
  <2>1. s[i] \in Candle
    BY ElementOfSeq
  <2> QED BY <2>1, Repriced
<1> HIDE DEF d
<1>4. Mirror(s) \in [1 .. Len(s) -> S]
  BY <1>2
<1>5. DOMAIN Mirror(s) = 1 .. Len(s) /\ \A i \in 1 .. Len(s) : Mirror(s)[i] = d(i)
  BY <1>2
<1> HIDE DEF S
<1>6. Len(Mirror(s)) = Len(s)
  <2>1. Mirror(s) \in Seq(S)
    BY <1>1, <1>4, SeqDef
  <2>2. DOMAIN Mirror(s) = 1 .. Len(Mirror(s)) /\ Len(Mirror(s)) \in Nat
    BY <2>1, LenProperties
  <2> QED BY <1>1, <1>5, <2>2
<1> QED BY <1>1, <1>3, <1>5, <1>6

LEMMA MirrorExtremes ==
  ASSUME NEW s \in Seq(Candle), NEW n \in Nat \ {0}, Len(s) >= n + 2
  PROVE  /\ Lowest(s, n) \in Int /\ Highest(s, n) \in Int
         /\ Highest(Mirror(s), n) = 2000 - Lowest(s, n)
         /\ Lowest(Mirror(s), n) = 2000 - Highest(s, n)
<1> DEFINE m == Mirror(s)
           I == Len(s) - n .. Len(s) - 1
           f == [i \in I |-> s[i].low]
           g == [i \in I |-> m[i].low]
<1>1. /\ Len(m) = Len(s) /\ Len(s) \in Nat
      /\ \A i \in 1 .. Len(s) : /\ s[i].high \in Int /\ s[i].low \in Int
                                /\ m[i].high = 2000 - s[i].low /\ m[i].low = 2000 - s[i].high
  <2>1. \A c \in Candle : c.high \in Int /\ c.low \in Int
    BY DEF Candle
  <2> QED BY <2>1, MirrorType
<1> HIDE DEF m
<1>2. I = Len(s) - n .. (Len(s) - n) + (n - 1) /\ n - 1 \in Nat /\ Len(s) - n \in Int
  BY <1>1
<1>3. \A i \in I : /\ s[i].high \in Int /\ s[i].low \in Int
                   /\ m[i].high = 2000 - s[i].low /\ m[i].low = 2000 - s[i].high
  BY <1>1
<1>4. /\ Lowest(s, n) = Min({s[i].low : i \in I}) /\ Highest(s, n) = Max({s[i].high : i \in I})
      /\ Lowest(m, n) = Min({m[i].low : i \in I}) /\ Highest(m, n) = Max({m[i].high : i \in I})
  <2>1. \A q : /\ {c.high : c \in {q[i] : i \in I}} = {q[i].high : i \in I}
               /\ {c.low : c \in {q[i] : i \in I}} = {q[i].low : i \in I}
    OBVIOUS
  <2>2. Before(s, n) = {s[i] : i \in I} /\ Before(m, n) = {m[i] : i \in I}
    BY <1>1 DEF Before
  <2> HIDE DEF I
  <2> QED BY <2>1, <2>2 DEF Lowest, Highest
<1> HIDE DEF I
<1>5. PICK i \in I : \A j \in I : s[i].low <= s[j].low
  <2>1. \A j \in I : f[j] = s[j].low /\ f[j] \in Int
    BY <1>3
  <2> HIDE DEF f
  <2>2. \E i \in I : \A j \in I : f[i] <= f[j]
    BY <1>2, <2>1, LeastOfMany
  <2> QED BY <2>1, <2>2
<1>6. PICK k \in I : \A j \in I : m[k].low <= m[j].low
  <2>1. \A j \in I : g[j] = m[j].low /\ g[j] \in Int
    BY <1>3
  <2> HIDE DEF g
  <2>2. \E k \in I : \A j \in I : g[k] <= g[j]
    BY <1>2, <2>1, LeastOfMany
  <2> QED BY <2>1, <2>2
<1>7. Min({s[j].low : j \in I}) = s[i].low
  <2> DEFINE S == {s[j].low : j \in I}
  <2>1. S \in SUBSET Int
    BY <1>3
  <2>2. s[i].low \in S
    OBVIOUS
  <2>3. \A y \in S : s[i].low <= y
    BY <1>3, <1>5
  <2> HIDE DEF S
  <2> QED BY <2>1, <2>2, <2>3, MinIs DEF S
<1>8. Max({m[j].high : j \in I}) = 2000 - s[i].low
  <2> DEFINE S == {m[j].high : j \in I}
             x == 2000 - s[i].low
  <2>1. S \in SUBSET Int /\ \A y \in S : x >= y
    <3>1. \A j \in I : m[j].high \in Int /\ x >= m[j].high
      <4> TAKE j \in I
      <4>1. /\ s[j].high \in Int /\ s[j].low \in Int
            /\ m[j].high = 2000 - s[j].low /\ m[j].low = 2000 - s[j].high
            /\ s[i].low \in Int /\ m[i].low = 2000 - s[i].high /\ s[i].high \in Int
        BY <1>3
      <4> QED BY <1>5, <4>1
    <3> QED BY <3>1
  <2>2. m[i].high = x /\ m[i].high \in S
    BY <1>3
  <2>3. x \in S
    BY <2>2
  <2> HIDE DEF S, x
  <2>4. Max(S) = x
    BY <2>1, <2>3, MaxIs
  <2> QED BY <2>4 DEF S, x
<1>9. Min({m[j].low : j \in I}) = 2000 - s[k].high
  <2> DEFINE S == {m[j].low : j \in I}
             x == 2000 - s[k].high
  <2>1. S \in SUBSET Int /\ \A y \in S : x <= y
    <3>1. \A j \in I : m[j].low \in Int /\ x <= m[j].low
      <4> TAKE j \in I
      <4>1. /\ s[j].high \in Int /\ s[j].low \in Int
            /\ m[j].high = 2000 - s[j].low /\ m[j].low = 2000 - s[j].high
            /\ s[k].low \in Int /\ m[k].low = 2000 - s[k].high /\ s[k].high \in Int
        BY <1>3
      <4> QED BY <1>6, <4>1
    <3> QED BY <3>1
  <2>2. m[k].low = x /\ m[k].low \in S
    BY <1>3
  <2>3. x \in S
    BY <2>2
  <2> HIDE DEF S, x
  <2>4. Min(S) = x
    BY <2>1, <2>3, MinIs
  <2> QED BY <2>4 DEF S, x
<1>10. Max({s[j].high : j \in I}) = s[k].high
  <2> DEFINE S == {s[j].high : j \in I}
  <2>1. S \in SUBSET Int
    BY <1>3
  <2>2. s[k].high \in S
    OBVIOUS
  <2>3. \A y \in S : s[k].high >= y
    BY <1>3, <1>6
  <2> HIDE DEF S
  <2> QED BY <2>1, <2>2, <2>3, MaxIs DEF S
<1>11. s[i].low \in Int /\ s[k].high \in Int
  BY <1>3
<1> QED BY <1>4, <1>7, <1>8, <1>9, <1>10, <1>11 DEF m

LEMMA MirrorBodies ==
  ASSUME NEW c \in Candle, NEW d, d.open = 2000 - c.open, d.close = 2000 - c.close,
         d.high = 2000 - c.low, d.low = 2000 - c.high
  PROVE  /\ Size(d) = Size(c) /\ Extent(d) = Extent(c) /\ Size(c) \in Int /\ Extent(c) \in Int
         /\ (Green(d) <=> Red(c)) /\ (Red(d) <=> Green(c))
         /\ Bottom(d) = 2000 - Top(c) /\ Top(d) = 2000 - Bottom(c)
         /\ Top(c) \in Int /\ Bottom(c) \in Int
<1>1. c.open \in Int /\ c.close \in Int /\ c.high \in Int /\ c.low \in Int
  BY DEF Candle
<1>2. /\ Top(c) = IF c.open >= c.close THEN c.open ELSE c.close
      /\ Bottom(c) = IF c.open <= c.close THEN c.open ELSE c.close
  BY <1>1, MaxOfTwo, MinOfTwo DEF Top, Bottom
<1>3. /\ Top(d) = IF d.open >= d.close THEN d.open ELSE d.close
      /\ Bottom(d) = IF d.open <= d.close THEN d.open ELSE d.close
  <2>1. d.open \in Int /\ d.close \in Int
    BY <1>1
  <2> QED BY <2>1, MaxOfTwo, MinOfTwo DEF Top, Bottom
<1>4. Size(d) = Size(c) /\ Size(c) \in Int
  BY <1>1 DEF Size, Abs, Body
<1>5. Extent(d) = Extent(c) /\ Extent(c) \in Int
  BY <1>1 DEF Extent
<1>6. (Green(d) <=> Red(c)) /\ (Red(d) <=> Green(c))
  BY <1>1 DEF Green, Red
<1>7. Bottom(d) = 2000 - Top(c) /\ Top(d) = 2000 - Bottom(c) /\ Top(c) \in Int /\ Bottom(c) \in Int
  BY <1>1, <1>2, <1>3
<1> QED BY <1>4, <1>5, <1>6, <1>7

\* The detectors for and against a short agree on mirrored candles, for any
\* history, timeframe and prices: neither half was transcribed wrongly.
THEOREM MirrorImages == Spec => []MirrorsAgree
<1>1. ASSUME CandlesOK PROVE MirrorsAgree
  <2> DEFINE s == candles
             m == Mirror(candles)
             n == Config.trend
             c == FromEnd(s, 1)
             p == FromEnd(s, 2)
             q == FromEnd(s, 3)
             mc == FromEnd(m, 1)
             mp == FromEnd(m, 2)
             mq == FromEnd(m, 3)
  <2>1. n \in Nat \ {0}
    BY PatternsAssumption, ConfigType
  <2>2. s \in Seq(Candle) /\ Len(s) >= 5
    BY <1>1 DEF CandlesOK
  <2>3. Len(m) = Len(s) /\ Len(s) \in Nat
    BY <2>2, MirrorType
  <2>4. \A k \in 1 .. 3 :
          /\ FromEnd(s, k) \in Candle
          /\ FromEnd(m, k).open = 2000 - FromEnd(s, k).open
          /\ FromEnd(m, k).close = 2000 - FromEnd(s, k).close
          /\ FromEnd(m, k).high = 2000 - FromEnd(s, k).low
          /\ FromEnd(m, k).low = 2000 - FromEnd(s, k).high
    <3>1. \A k \in 1 .. 3 : Len(s) + 1 - k \in 1 .. Len(s)
      BY <2>2, <2>3
    <3> QED BY <2>2, <2>3, <3>1, MirrorType DEF FromEnd
  <2>5. /\ c \in Candle /\ p \in Candle /\ q \in Candle
        /\ mc.open = 2000 - c.open /\ mc.close = 2000 - c.close
        /\ mc.high = 2000 - c.low /\ mc.low = 2000 - c.high
        /\ mp.open = 2000 - p.open /\ mp.close = 2000 - p.close
        /\ mp.high = 2000 - p.low /\ mp.low = 2000 - p.high
        /\ mq.open = 2000 - q.open /\ mq.close = 2000 - q.close
        /\ mq.high = 2000 - q.low /\ mq.low = 2000 - q.high
    BY <2>4
  <2>6. /\ c.open \in Int /\ c.close \in Int /\ c.high \in Int /\ c.low \in Int
        /\ p.open \in Int /\ p.close \in Int /\ q.open \in Int /\ q.close \in Int
    BY <2>5 DEF Candle
  <2> HIDE DEF s, m, n, c, p, q, mc, mp, mq
  <2>7. /\ Size(mc) = Size(c) /\ Extent(mc) = Extent(c) /\ Size(c) \in Int /\ Extent(c) \in Int
        /\ (Green(mc) <=> Red(c)) /\ (Red(mc) <=> Green(c))
    BY <2>5, MirrorBodies
  <2>8. /\ Size(mp) = Size(p) /\ Extent(mp) = Extent(p) /\ Size(p) \in Int /\ Extent(p) \in Int
        /\ (Green(mp) <=> Red(p)) /\ (Red(mp) <=> Green(p))
        /\ Bottom(mp) = 2000 - Top(p) /\ Top(p) \in Int
    BY <2>5, MirrorBodies
  <2>9. /\ Size(mq) = Size(q) /\ Extent(mq) = Extent(q) /\ Size(q) \in Int /\ Extent(q) \in Int
        /\ (Green(mq) <=> Red(q)) /\ (Red(mq) <=> Green(q))
    BY <2>5, MirrorBodies
  <2>10. Len(s) >= n + 2 =>
           /\ Lowest(s, n) \in Int /\ Highest(s, n) \in Int
           /\ Highest(m, n) = 2000 - Lowest(s, n) /\ Lowest(m, n) = 2000 - Highest(s, n)
    BY <2>1, <2>2, MirrorExtremes DEF m, s
  <2>11. bearishBreakOfStructure(s, n) <=> bullishBreakOfStructure(m, n)
    <3>1. bearishBreakOfStructure(s, n) <=> Len(s) >= n + 2 /\ c.close < Lowest(s, n) /\ Red(c)
      BY DEF bearishBreakOfStructure, c
    <3>2. bullishBreakOfStructure(m, n) <=> Len(m) >= n + 2 /\ mc.close > Highest(m, n) /\ Green(mc)
      BY DEF bullishBreakOfStructure, mc
    <3>3. Len(s) >= n + 2 => (c.close < Lowest(s, n) <=> mc.close > Highest(m, n))
      <4> SUFFICES ASSUME Len(s) >= n + 2
                   PROVE  c.close < Lowest(s, n) <=> mc.close > Highest(m, n)
        OBVIOUS
      <4>1. Lowest(s, n) \in Int /\ Highest(m, n) = 2000 - Lowest(s, n)
        BY <2>10
      <4>2. c.close \in Int /\ mc.close = 2000 - c.close
        BY <2>5, <2>6
      <4> QED BY <4>1, <4>2
    <3> QED BY <2>3, <2>7, <3>1, <3>2, <3>3
  <2>12. bearishLiquiditySweep(s, n) <=> bullishLiquiditySweep(m, n)
    <3>1. bearishLiquiditySweep(s, n) <=>
            Len(s) >= n + 2 /\ c.high > Highest(s, n) /\ c.close < Highest(s, n) /\ Red(c)
      BY DEF bearishLiquiditySweep, c
    <3>2. bullishLiquiditySweep(m, n) <=>
            Len(m) >= n + 2 /\ mc.low < Lowest(m, n) /\ mc.close > Lowest(m, n) /\ Green(mc)
      BY DEF bullishLiquiditySweep, mc
    <3>3. Len(s) >= n + 2 => /\ c.high > Highest(s, n) <=> mc.low < Lowest(m, n)
                             /\ c.close < Highest(s, n) <=> mc.close > Lowest(m, n)
      <4> SUFFICES ASSUME Len(s) >= n + 2
                   PROVE  /\ c.high > Highest(s, n) <=> mc.low < Lowest(m, n)
                          /\ c.close < Highest(s, n) <=> mc.close > Lowest(m, n)
        OBVIOUS
      <4>1. Highest(s, n) \in Int /\ Lowest(m, n) = 2000 - Highest(s, n)
        BY <2>10
      <4>2. /\ c.close \in Int /\ mc.close = 2000 - c.close
            /\ c.high \in Int /\ mc.low = 2000 - c.high
        BY <2>5, <2>6
      <4> QED BY <4>1, <4>2
    <3> QED BY <2>3, <2>7, <3>1, <3>2, <3>3
  <2>13. EveningStar(s) <=> MorningStar(m)
    <3>1. EveningStar(s) <=> /\ Green(q) /\ Red(c) /\ StarMiddle(p, q)
                             /\ AtLeast(Top(p) - q.close, -10, Size(q))
                             /\ AtMost(c.close - q.open, 50, Size(q))
      BY DEF EveningStar, c, p, q
    <3>2. MorningStar(m) <=> /\ Red(mq) /\ Green(mc) /\ StarMiddle(mp, mq)
                             /\ AtMost(Bottom(mp) - mq.close, 10, Size(mq))
                             /\ AtLeast(mc.close - mq.close, 50, Size(mq))
      BY DEF MorningStar, mc, mp, mq
    <3>3. StarMiddle(p, q) <=> StarMiddle(mp, mq)
      BY <2>8, <2>9 DEF StarMiddle
    <3>4. AtLeast(Top(p) - q.close, -10, Size(q)) <=> AtMost(Bottom(mp) - mq.close, 10, Size(mq))
      BY <2>5, <2>6, <2>8, <2>9 DEF AtLeast, AtMost
    <3>5. Green(q) => (AtMost(c.close - q.open, 50, Size(q)) <=> AtLeast(mc.close - mq.close, 50, Size(mq)))
      BY <2>5, <2>6, <2>9 DEF AtLeast, AtMost, Green, Size, Body, Abs
    <3> QED BY <2>7, <2>9, <3>1, <3>2, <3>3, <3>4, <3>5
  <2>14. Red(c) /\ Engulfs(c, p) <=> Green(mc) /\ Engulfs(mc, mp)
    BY <2>5, <2>6, <2>7, <2>8 DEF Engulfs, AtLeast, AtMost, Green, Red
  <2> QED BY <2>11, <2>12, <2>13, <2>14 DEF MirrorsAgree, s, m, n, c, p, mc, mp
<1> QED BY <1>1, CandlesKept, PTL
=============================================================================
