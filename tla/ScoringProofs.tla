---------------------------- MODULE ScoringProofs ----------------------------
(***************************************************************************)
(* What the composite score promises, for every snapshot of the readings   *)
(* and any number of signals: it is a number and its size one of the       *)
(* tiers'; what speaks against the short only costs; a signal on a         *)
(* timeframe already hit never does.                                       *)
(*                                                                         *)
(* The score is made of sums over sets of signals, which a recursive       *)
(* function takes one element at a time in an order of its own.  Their     *)
(* laws are proved with a smallest counterexample in place of an           *)
(* induction: a set of naturals has a least element, so of the sets that   *)
(* break a law one has the fewest elements, and it is looked at without    *)
(* one of them.  Each component is then monotone on its own, and so is     *)
(* the way from their sum to the size.                                     *)
(***************************************************************************)
EXTENDS Scoring, FiniteSetTheorems, NaturalsInduction, WellFoundedInduction, TLAPS

-----------------------------------------------------------------------------
(* Sums of natural numbers over a finite set.                              *)

Picked(s) == CHOOSE x \in s : TRUE

\* What a sum of the weights w over s is made of, from the sums it over less.
Summed(it, w, s) == IF s = {} THEN 0 ELSE w[Picked(s)] + it[s \ {Picked(s)}]

\* it has the sum of the weights w over every part of S.
Sums(it, w, S) == it = [s \in SUBSET S |-> Summed(it, w, s)]

Weighted(w, S) == \A x \in S : w[x] \in Nat

\* The library's sum is the value at S of a function with the sums of its parts.
LEMMA SumUnfolds ==
  ASSUME NEW w, NEW S
  PROVE  SumFunctionOnSet(w, S) = (CHOOSE it : Sums(it, w, S))[S]
BY DEF SumFunctionOnSet, FoldFunctionOnSet, MapThenFoldSet, Sums, Summed, Picked

\* A set of naturals has a least element.
LEMMA Least ==
  ASSUME NEW N \in SUBSET Nat, N # {}
  PROVE  \E n \in N : \A m \in N : n <= m
<1>1. \E n \in N : \A m \in N : ~(<<m, n>> \in OpToRel(<, Nat))
  BY NatLessThanWellFounded, WFMin
<1>2. \E n \in N : \A m \in N : ~(m < n)
  BY <1>1, Zenon DEF OpToRel
<1> QED BY <1>2

\* Of the sets of a family, one has the fewest elements.
LEMMA Smallest ==
  ASSUME NEW S, IsFiniteSet(S), NEW B \in SUBSET (SUBSET S), B # {}
  PROVE  \E b \in B : \A c \in B : Cardinality(b) <= Cardinality(c)
<1> DEFINE N == {Cardinality(b) : b \in B}
<1>1. N \in SUBSET Nat /\ N # {}
  <2>1. \A b \in B : Cardinality(b) \in Nat
    BY FS_Subset, FS_CardinalityType
  <2> QED BY <2>1
<1>2. \E n \in N : \A m \in N : n <= m
  <2> HIDE DEF N
  <2> QED BY <1>1, Least
<1> QED BY <1>2

\* A set without one of its elements is smaller.
LEMMA Without ==
  ASSUME NEW S, IsFiniteSet(S), NEW s \in SUBSET S, NEW x \in s
  PROVE  /\ s \ {x} \in SUBSET S
         /\ Cardinality(s) \in Nat /\ Cardinality(s \ {x}) = Cardinality(s) - 1
         /\ Cardinality(s \ {x}) \in Nat
<1>1. IsFiniteSet(s)
  BY FS_Subset
<1>2. IsFiniteSet(s \ {x}) /\ Cardinality(s \ {x}) = Cardinality(s) - 1
  BY <1>1, FS_RemoveElement
<1> QED BY <1>1, <1>2, FS_CardinalityType

LEMMA PickedIn == \A s : s # {} => Picked(s) \in s
BY DEF Picked

\* There is such a function: the least size for which there is none has one for
\* the sizes below, which the sets of that size extend.
LEMMA SumsExist ==
  ASSUME NEW S, IsFiniteSet(S), NEW w, Weighted(w, S)
  PROVE  \E it : Sums(it, w, S)
<1> DEFINE Upto(it, n) == \A s \in SUBSET S : Cardinality(s) <= n => it[s] = Summed(it, w, s)
           Bad == {n \in Nat : ~\E it \in [SUBSET S -> Nat] : Upto(it, n)}
<1>1. Bad = {}
  <2>1. SUFFICES ASSUME Bad # {} PROVE FALSE
    OBVIOUS
  <2>2. PICK n \in Bad : \A m \in Bad : n <= m
    <3>1. Bad \in SUBSET Nat
      OBVIOUS
    <3> HIDE DEF Bad
    <3> QED BY <2>1, <3>1, Least
  <2>3. n # 0
    <3> SUFFICES ASSUME n = 0 PROVE FALSE
      OBVIOUS
    <3> DEFINE it == [s \in SUBSET S |-> 0]
    <3>1. \A s \in SUBSET S : Cardinality(s) <= 0 => s = {}
      BY FS_Subset, FS_CardinalityType, FS_EmptySet
    <3>2. Upto(it, 0)
      BY <3>1 DEF Summed
    <3> QED BY <3>2
  <2>4. n \in Nat /\ n - 1 \in Nat /\ n - 1 \notin Bad
    <3>1. n \in Nat
      BY <2>2
    <3>2. n - 1 \in Nat /\ ~(n <= n - 1)
      BY <2>3, <3>1
    <3> HIDE DEF Bad
    <3> QED BY <2>2, <3>1, <3>2
  <2>5. PICK it \in [SUBSET S -> Nat] : Upto(it, n - 1)
    BY <2>4
  <2> DEFINE jt == [s \in SUBSET S |-> IF Cardinality(s) = n THEN Summed(it, w, s) ELSE it[s]]
  <2>6. \A s \in SUBSET S : s # {} => /\ s \ {Picked(s)} \in SUBSET S
                                     /\ Cardinality(s) \in Nat
                                     /\ Cardinality(s \ {Picked(s)}) = Cardinality(s) - 1
                                     /\ w[Picked(s)] \in Nat
    BY PickedIn, Without DEF Weighted
  <2>7. ASSUME NEW s \in SUBSET S PROVE Summed(it, w, s) \in Nat
    <3>1. CASE s = {}
      BY <3>1 DEF Summed
    <3>2. CASE s # {}
      <4>1. it[s \ {Picked(s)}] \in Nat /\ w[Picked(s)] \in Nat
        BY <2>5, <2>6, <3>2
      <4>2. Summed(it, w, s) = w[Picked(s)] + it[s \ {Picked(s)}]
        BY <3>2 DEF Summed
      <4> QED BY <4>1, <4>2
    <3> QED BY <3>1, <3>2
  <2>8. jt \in [SUBSET S -> Nat]
    BY <2>7
  <2>9. ASSUME NEW s \in SUBSET S, Cardinality(s) <= n
        PROVE  jt[s] = Summed(jt, w, s)
    <3>1. CASE s = {}
      BY <2>3, <2>4, <2>5, <3>1, FS_EmptySet DEF Summed
    <3>2. CASE s # {}
      <4>1. jt[s \ {Picked(s)}] = it[s \ {Picked(s)}]
        BY <2>6, <2>9, <3>2
      <4>2. Summed(jt, w, s) = Summed(it, w, s)
        BY <4>1, <3>2 DEF Summed
      <4>3. CASE Cardinality(s) = n
        BY <4>2, <4>3
      <4>4. CASE Cardinality(s) # n
        <5>1. Cardinality(s) <= n - 1
          <6>1. Cardinality(s) \in Nat
            BY <2>6, <3>2
          <6> QED BY <2>4, <2>9, <4>4, <6>1
        <5> QED BY <2>5, <4>2, <4>4, <5>1
      <4> QED BY <4>3, <4>4
    <3> QED BY <3>1, <3>2
  <2>10. Upto(jt, n)
    BY <2>9
  <2> QED BY <2>2, <2>8, <2>10
<1>2. Cardinality(S) \in Nat /\ \A s \in SUBSET S : Cardinality(s) <= Cardinality(S)
  BY FS_CardinalityType, FS_Subset
<1>3. PICK it \in [SUBSET S -> Nat] : Upto(it, Cardinality(S))
  BY <1>1, <1>2
<1>4. \A s \in SUBSET S : it[s] = Summed(it, w, s)
  BY <1>2, <1>3
<1>5. Sums(it, w, S)
  BY <1>4 DEF Sums
<1> QED BY <1>5

\* Its values are naturals.
LEMMA SumsNat ==
  ASSUME NEW S, IsFiniteSet(S), NEW w, Weighted(w, S), NEW it, Sums(it, w, S)
  PROVE  \A s \in SUBSET S : it[s] \in Nat
<1> DEFINE B == {s \in SUBSET S : it[s] \notin Nat}
<1>1. SUFFICES ASSUME B # {} PROVE FALSE
  OBVIOUS
<1>2. PICK b \in B : \A c \in B : Cardinality(b) <= Cardinality(c)
  <2>1. B \in SUBSET (SUBSET S)
    OBVIOUS
  <2> HIDE DEF B
  <2> QED BY <1>1, <2>1, Smallest
<1>3. it[b] = Summed(it, w, b)
  BY DEF Sums
<1>4. b # {}
  BY <1>3 DEF Summed
<1>5. Picked(b) \in b /\ w[Picked(b)] \in Nat
  BY <1>4, PickedIn DEF Weighted
<1>6. b \ {Picked(b)} \notin B
  BY <1>2, <1>5, Without
<1>7. it[b \ {Picked(b)}] \in Nat
  BY <1>6
<1> QED BY <1>3, <1>4, <1>5, <1>7 DEF Summed

\* The element may be any, not only the one picked.
LEMMA SumsAny ==
  ASSUME NEW S, IsFiniteSet(S), NEW w, Weighted(w, S), NEW it, Sums(it, w, S)
  PROVE  \A s \in SUBSET S : \A y \in s : it[s] = w[y] + it[s \ {y}]
<1> DEFINE B == {s \in SUBSET S : \E y \in s : it[s] # w[y] + it[s \ {y}]}
<1>1. SUFFICES ASSUME B # {} PROVE FALSE
  OBVIOUS
<1>2. PICK b \in B : \A c \in B : Cardinality(b) <= Cardinality(c)
  <2>1. B \in SUBSET (SUBSET S)
    OBVIOUS
  <2> HIDE DEF B
  <2> QED BY <1>1, <2>1, Smallest
<1>3. PICK y \in b : it[b] # w[y] + it[b \ {y}]
  OBVIOUS
<1> DEFINE x == Picked(b)
<1>4. x \in b
  BY PickedIn
<1>5. it[b] = w[x] + it[b \ {x}]
  BY <1>4 DEF Sums, Summed
<1>6. x # y
  BY <1>3, <1>5
<1>7. b \ {x} \in SUBSET S /\ b \ {x} \notin B /\ b \ {y} \in SUBSET S /\ b \ {y} \notin B
  <2>1. \A z \in b : b \ {z} \in SUBSET S /\ ~(Cardinality(b) <= Cardinality(b \ {z}))
    BY Without
  <2> HIDE DEF B
  <2> QED BY <1>2, <1>3, <1>4, <2>1
<1>8. /\ it[b \ {x}] = w[y] + it[(b \ {x}) \ {y}]
      /\ it[b \ {y}] = w[x] + it[(b \ {y}) \ {x}]
  BY <1>3, <1>4, <1>6, <1>7
<1>9. (b \ {x}) \ {y} = (b \ {y}) \ {x} /\ (b \ {x}) \ {y} \in SUBSET S
  OBVIOUS
<1>10. w[x] \in Nat /\ w[y] \in Nat /\ it[(b \ {x}) \ {y}] \in Nat
  BY <1>4, <1>9, SumsNat DEF Weighted
<1> DEFINE rest == it[(b \ {x}) \ {y}]
<1>11. it[b \ {x}] = w[y] + rest /\ it[b \ {y}] = w[x] + rest
  BY <1>8, <1>9
<1>12. w[x] + (w[y] + rest) = w[y] + (w[x] + rest)
  BY <1>10
<1> QED BY <1>3, <1>5, <1>11, <1>12

\* The sum over a set does not depend on the set it is a part of.
LEMMA SumsAgree ==
  ASSUME NEW S, IsFiniteSet(S), NEW w, NEW T \in SUBSET S,
         NEW it, Sums(it, w, S), NEW jt, Sums(jt, w, T)
  PROVE  \A s \in SUBSET T : it[s] = jt[s]
<1> DEFINE B == {s \in SUBSET T : it[s] # jt[s]}
<1>1. SUFFICES ASSUME B # {} PROVE FALSE
  OBVIOUS
<1>2. PICK b \in B : \A c \in B : Cardinality(b) <= Cardinality(c)
  <2>1. B \in SUBSET (SUBSET S)
    OBVIOUS
  <2> HIDE DEF B
  <2> QED BY <1>1, <2>1, Smallest
<1>3. it[b] = Summed(it, w, b) /\ jt[b] = Summed(jt, w, b)
  BY DEF Sums
<1>4. b # {}
  BY <1>3 DEF Summed
<1>5. b \ {Picked(b)} \notin B
  BY <1>2, <1>4, PickedIn, Without
<1>6. it[b \ {Picked(b)}] = jt[b \ {Picked(b)}]
  BY <1>5
<1> QED BY <1>3, <1>4, <1>6 DEF Summed

\* A sum is what one of its terms adds to the sum of the others.
LEMMA SumAdds ==
  ASSUME NEW S, IsFiniteSet(S), NEW w, NEW y, y \notin S, Weighted(w, S \cup {y})
  PROVE  /\ SumFunctionOnSet(w, S) \in Nat
         /\ SumFunctionOnSet(w, S \cup {y}) = w[y] + SumFunctionOnSet(w, S)
<1> DEFINE U == S \cup {y}
<1>1. IsFiniteSet(U) /\ Weighted(w, S)
  BY FS_AddElement DEF Weighted
<1>2. PICK it : Sums(it, w, U) /\ SumFunctionOnSet(w, U) = it[U]
  BY <1>1, SumsExist, SumUnfolds
<1>3. PICK jt : Sums(jt, w, S) /\ SumFunctionOnSet(w, S) = jt[S]
  BY <1>1, SumsExist, SumUnfolds
<1>4. it[U] = w[y] + it[U \ {y}]
  BY <1>1, <1>2, SumsAny
<1>5. U \ {y} = S /\ S \in SUBSET U
  OBVIOUS
<1>6. it[S] = jt[S]
  <2> HIDE DEF U
  <2> QED BY <1>1, <1>2, <1>3, <1>5, SumsAgree
<1>7. jt[S] \in Nat
  BY <1>1, <1>3, SumsNat
<1> QED BY <1>2, <1>3, <1>4, <1>5, <1>6, <1>7

-----------------------------------------------------------------------------
(* The components.                                                         *)

Categories == {"oi", "oi15m", "roi", "volatility", "volume", "funding"}

\* Some tier of the category holds the reading.
Holds(cat, v, i) == Thresholds[cat][i].lo <= v /\ v < Thresholds[cat][i].hi

\* The readings are numbers between the infinities.
LEMMA Beyond ==
  /\ Infinity \in Int /\ 1000 < Infinity
  /\ \A v \in Reading : v \in Int /\ -Infinity <= v /\ v < Infinity
<1>1. Infinity \in Int /\ 1000 < Infinity
  BY SMT DEF Infinity
<1>2. \A v \in Reading : v \in Int /\ -Infinity <= v /\ v < Infinity
  BY <1>1 DEF Reading
<1> QED BY <1>1, <1>2

LEMMA TierParts ==
  \A lo, hi, m :
    /\ Tier(lo, hi, m).lo = lo /\ Tier(lo, hi, m).hi = hi
    /\ Tier(lo, hi, m).mult = m /\ Tier(lo, hi, m).ramp = FALSE
    /\ Ramp(lo, hi, m).lo = lo /\ Ramp(lo, hi, m).hi = hi
    /\ Ramp(lo, hi, m).mult = m /\ Ramp(lo, hi, m).ramp = TRUE
BY DEF Tier, Ramp

\* The tiers of the default configuration.
LEMMA TiersListed ==
  /\ Thresholds["oi"] = <<Tier(15, Infinity, 1000), Tier(10, 15, 750), Tier(5, 10, 500),
                          Tier(0, 5, 300), Tier(-Infinity, 0, 130)>>
  /\ Thresholds["oi15m"] = <<Tier(-Infinity, -1, 1000), Tier(-1, 0, 650), Tier(0, 1, 550),
                             Tier(1, Infinity, 250)>>
  /\ Thresholds["roi"] = <<Tier(15, 50, 1000), Tier(50, 80, 470), Tier(-Infinity, Infinity, 0)>>
  /\ Thresholds["volatility"] = <<Tier(1, 3, 1000), Tier(3, 5, 600), Tier(-Infinity, Infinity, 0)>>
  /\ Thresholds["volume"] = <<Tier(65, Infinity, 1000), Tier(-Infinity, 65, 500),
                              Tier(-Infinity, Infinity, 300)>>
  /\ Thresholds["funding"] = <<Tier(-20, Infinity, 0), Ramp(-50, -20, 670), Ramp(-100, -50, 890),
                               Ramp(-200, -100, 1000), Tier(-Infinity, -200, 0)>>
BY DEF Thresholds

\* Every reading is in a tier.
LEMMA SomeTier ==
  ASSUME NEW cat \in Categories, NEW v \in Reading
  PROVE  \E i \in DOMAIN Thresholds[cat] : Holds(cat, v, i)
<1>0. v \in Int /\ -Infinity <= v /\ v < Infinity
  BY Beyond
<1>1. CASE cat = "oi"
  <2> DEFINE ts == Thresholds["oi"]
  <2>1. /\ DOMAIN ts = 1 .. 5
        /\ ts[1] = Tier(15, Infinity, 1000) /\ ts[2] = Tier(10, 15, 750)
        /\ ts[3] = Tier(5, 10, 500) /\ ts[4] = Tier(0, 5, 300) /\ ts[5] = Tier(-Infinity, 0, 130)
    BY TiersListed
  <2> HIDE DEF ts
  <2>2. \E i \in 1 .. 5 : ts[i].lo <= v /\ v < ts[i].hi
    BY <1>0, <2>1, TierParts
  <2> QED BY <1>1, <2>1, <2>2 DEF Holds, ts
<1>2. CASE cat = "oi15m"
  <2> DEFINE ts == Thresholds["oi15m"]
  <2>1. /\ DOMAIN ts = 1 .. 4
        /\ ts[1] = Tier(-Infinity, -1, 1000) /\ ts[2] = Tier(-1, 0, 650)
        /\ ts[3] = Tier(0, 1, 550) /\ ts[4] = Tier(1, Infinity, 250)
    BY TiersListed
  <2> HIDE DEF ts
  <2>2. \E i \in 1 .. 4 : ts[i].lo <= v /\ v < ts[i].hi
    BY <1>0, <2>1, TierParts
  <2> QED BY <1>2, <2>1, <2>2 DEF Holds, ts
<1>3. CASE cat \in {"roi", "volatility", "volume"}
  <2>1. \E m : 3 \in DOMAIN Thresholds[cat] /\ Thresholds[cat][3] = Tier(-Infinity, Infinity, m)
    BY <1>3, TiersListed
  <2> QED BY <1>0, <2>1, TierParts DEF Holds
<1>4. CASE cat = "funding"
  <2> DEFINE ts == Thresholds["funding"]
  <2>1. /\ DOMAIN ts = 1 .. 5
        /\ ts[1] = Tier(-20, Infinity, 0) /\ ts[2] = Ramp(-50, -20, 670)
        /\ ts[3] = Ramp(-100, -50, 890) /\ ts[4] = Ramp(-200, -100, 1000)
        /\ ts[5] = Tier(-Infinity, -200, 0)
    BY TiersListed
  <2> HIDE DEF ts
  <2>2. \E i \in 1 .. 5 : ts[i].lo <= v /\ v < ts[i].hi
    BY <1>0, <2>1, TierParts
  <2> QED BY <1>4, <2>1, <2>2 DEF Holds, ts
<1> QED BY <1>1, <1>2, <1>3, <1>4 DEF Categories

\* A tier is not empty, and what is ramped has a tier before it.
Proper(t, i, ts) ==
  /\ i \in Nat /\ t.mult \in Int /\ t.lo \in Int /\ t.hi \in Int /\ t.lo < t.hi
  /\ t.ramp \in BOOLEAN /\ (t.ramp => i - 1 \in DOMAIN ts)

\* The tiers are so throughout.
LEMMA Tiers ==
  ASSUME NEW cat \in Categories, NEW i \in DOMAIN Thresholds[cat]
  PROVE  Proper(Thresholds[cat][i], i, Thresholds[cat])
<1> DEFINE ts == Thresholds[cat]
<1>1. \A lo, hi, m \in Int : lo < hi =>
        /\ Tier(lo, hi, m).mult \in Int /\ Tier(lo, hi, m).lo \in Int /\ Tier(lo, hi, m).hi \in Int
        /\ Tier(lo, hi, m).lo < Tier(lo, hi, m).hi /\ Tier(lo, hi, m).ramp = FALSE
        /\ Ramp(lo, hi, m).mult \in Int /\ Ramp(lo, hi, m).lo \in Int /\ Ramp(lo, hi, m).hi \in Int
        /\ Ramp(lo, hi, m).lo < Ramp(lo, hi, m).hi /\ Ramp(lo, hi, m).ramp = TRUE
  BY TierParts
<1>2. /\ Infinity \in Int /\ -Infinity \in Int /\ \A x \in -200 .. 80 : -Infinity < x /\ x < Infinity
      /\ -Infinity < Infinity
  BY Beyond
<1>3. i \in Nat /\ \/ \E lo, hi, m \in Int : lo < hi /\ ts[i] = Tier(lo, hi, m)
                   \/ \E lo, hi, m \in Int : lo < hi /\ i > 1 /\ ts[i] = Ramp(lo, hi, m)
  <2>1. CASE cat = "oi"
    BY <1>2, <2>1, TiersListed
  <2>2. CASE cat = "oi15m"
    BY <1>2, <2>2, TiersListed
  <2>3. CASE cat = "roi"
    BY <1>2, <2>3, TiersListed
  <2>4. CASE cat = "volatility"
    BY <1>2, <2>4, TiersListed
  <2>5. CASE cat = "volume"
    BY <1>2, <2>5, TiersListed
  <2>6. CASE cat = "funding"
    BY <1>2, <2>6, TiersListed
  <2> QED BY <2>1, <2>2, <2>3, <2>4, <2>5, <2>6 DEF Categories
<1>4. i > 1 => i - 1 \in DOMAIN ts
  <2>1. DOMAIN ts \in {1 .. 3, 1 .. 4, 1 .. 5}
    BY TiersListed DEF Categories
  <2> QED BY <1>3, <2>1
<1>5. /\ ts[i].mult \in Int /\ ts[i].lo \in Int /\ ts[i].hi \in Int /\ ts[i].lo < ts[i].hi
      /\ ts[i].ramp \in BOOLEAN /\ (ts[i].ramp => i > 1)
  <2> HIDE DEF ts
  <2>1. CASE \E lo, hi, m \in Int : lo < hi /\ ts[i] = Tier(lo, hi, m)
    <3>1. PICK lo \in Int, hi \in Int, m \in Int : lo < hi /\ ts[i] = Tier(lo, hi, m)
      BY <2>1
    <3>2. /\ ts[i].mult \in Int /\ ts[i].lo \in Int /\ ts[i].hi \in Int
          /\ ts[i].lo < ts[i].hi /\ ts[i].ramp = FALSE
      BY <1>1, <3>1
    <3> QED BY <3>1, <3>2
  <2>2. CASE \E lo, hi, m \in Int : lo < hi /\ i > 1 /\ ts[i] = Ramp(lo, hi, m)
    <3>1. PICK lo \in Int, hi \in Int, m \in Int : lo < hi /\ i > 1 /\ ts[i] = Ramp(lo, hi, m)
      BY <2>2
    <3>2. /\ ts[i].mult \in Int /\ ts[i].lo \in Int /\ ts[i].hi \in Int
          /\ ts[i].lo < ts[i].hi /\ ts[i].ramp = TRUE
      BY <1>1, <3>1
    <3> QED BY <3>1, <3>2
  <2> QED BY <1>3, <2>1, <2>2
<1> QED BY <1>3, <1>4, <1>5 DEF Proper

\* So the first tier that holds a reading is one of them.
LEMMA TierExists ==
  ASSUME NEW cat \in Categories, NEW v \in Reading
  PROVE  TierOf(cat, v) \in DOMAIN Thresholds[cat]
<1> DEFINE N == {i \in DOMAIN Thresholds[cat] : Holds(cat, v, i)}
<1>1. N \in SUBSET Nat /\ N # {}
  BY SomeTier, Tiers DEF Proper
<1>2. PICK n \in N : \A m \in N : n <= m
  <2> HIDE DEF N
  <2> QED BY <1>1, Least
<1>3. \A j \in 1 .. n - 1 : j \in DOMAIN Thresholds[cat]
  <2>1. DOMAIN Thresholds[cat] \in {1 .. 3, 1 .. 4, 1 .. 5}
    BY DEF Thresholds, Categories
  <2> QED BY <2>1
<1>4. \A j \in 1 .. n - 1 : ~Holds(cat, v, j)
  BY <1>1, <1>2, <1>3
<1> QED BY <1>4 DEF TierOf, Holds

\* So every component is a number.
LEMMA ThresholdInt ==
  ASSUME NEW cat \in Categories, NEW v \in Reading
  PROVE  evalThreshold(cat, v) \in Int
BY TierExists, Tiers DEF evalThreshold, Proper

LEMMA InterpolatedInt ==
  ASSUME NEW cat \in Categories, NEW v \in Reading
  PROVE  evalInterpolated(cat, v) \in Int
<1> DEFINE i == TierOf(cat, v)
           t == Thresholds[cat][i]
           before == Thresholds[cat][i - 1].mult
<1>1. /\ i \in DOMAIN Thresholds[cat] /\ t.mult \in Int /\ t.lo \in Int /\ t.hi \in Int
      /\ t.lo < t.hi /\ v \in Int
  BY TierExists, Tiers, Beyond DEF Proper
<1>2. CASE t.ramp
  <2>1. before \in Int
    BY <1>1, <1>2, Tiers DEF Proper
  <2>2. before + ((v - t.lo) * (t.mult - before)) \div (t.hi - t.lo) \in Int
    <3> HIDE DEF t, before
    <3>1. (v - t.lo) * (t.mult - before) \in Int /\ t.hi - t.lo \in Nat \ {0}
      BY <1>1, <2>1
    <3>2. ((v - t.lo) * (t.mult - before)) \div (t.hi - t.lo) \in Int
      BY <3>1
    <3> QED BY <2>1, <3>2
  <2> QED BY <1>2, <2>2 DEF evalInterpolated
<1>3. CASE ~t.ramp
  BY <1>1, <1>3 DEF evalInterpolated
<1> QED BY <1>2, <1>3

LEMMA BTCInt == ASSUME NEW m \in Market PROVE evalBTC(m.btc) \in Int
<1> DEFINE b == m.btc
<1>1. b.trend \in {"bullish", "bearish", "neutral"} /\ b.momentum \in Nat
  BY DEF Market
<1>2. \A c \in {"breakout_bullish", "bullish_high_momentum", "bullish", "neutral", "bearish"} :
        BTCMultiplier[c] \in Int
  BY DEF BTCMultiplier
<1> HIDE DEF b
<1>3. evalBTC(b) \in Int
  BY <1>1, <1>2 DEF evalBTC
<1> QED BY <1>3 DEF b

\* What a signal adds is a natural, and the strongest one adds something.
LEMMA PointsNat ==
  /\ \A s \in Signals(BearishPatterns) : BearishPoints[s] \in Nat
  /\ \A s \in Signals(BullishPatterns) : BullishPoints[s] \in Nat
  /\ \A x \in Timeframes : StrongestPoints[x] \in Nat /\ StrongestPoints[x] > 0
<1>1. \A p \in DOMAIN BearishWeight : BearishWeight[p] \in Nat
  BY DEF BearishWeight
<1>2. \A p \in DOMAIN BullishWeight : BullishWeight[p] \in Nat
  BY DEF BullishWeight
<1>3. \A x \in Timeframes : TfWeight[x] \in {17, 18, 19, 20}
  BY ScoringAssumption DEF TfWeight
<1>4. \A x \in Strengths : StrengthWeight[x] \in Nat
  BY DEF Strengths, StrengthWeight
<1>5. ASSUME NEW s \in Signals(BearishPatterns) PROVE BearishPoints[s] \in Nat
  <2>1. BearishWeight[s.pattern] \in Nat /\ TfWeight[s.tf] \in Nat /\ StrengthWeight[s.strength] \in Nat
    BY <1>1, <1>3, <1>4, WeightedAssumption DEF Signals
  <2>2. BearishWeight[s.pattern] * TfWeight[s.tf] * StrengthWeight[s.strength] \in Nat
    BY <2>1
  <2> QED BY <2>2 DEF BearishPoints
<1>6. ASSUME NEW s \in Signals(BullishPatterns) PROVE BullishPoints[s] \in Nat
  <2>1. BullishWeight[s.pattern] \in Nat
    BY <1>2, WeightedAssumption DEF Signals
  <2>2. 2 * ((BullishWeight[s.pattern] + 3) \div 4) \in Nat
    BY <2>1
  <2> QED BY <2>1, <2>2 DEF BullishPoints
<1>7. ASSUME NEW x \in Timeframes PROVE StrongestPoints[x] \in Nat /\ StrongestPoints[x] > 0
  BY <1>3 DEF StrongestPoints
<1> QED BY <1>5, <1>6, <1>7

\* A sum is a natural number.
LEMMA SumNat ==
  ASSUME NEW S, IsFiniteSet(S), NEW w, Weighted(w, S)
  PROVE  SumFunctionOnSet(w, S) \in Nat
<1>1. PICK it : Sums(it, w, S) /\ SumFunctionOnSet(w, S) = it[S]
  BY SumsExist, SumUnfolds
<1> QED BY <1>1, SumsNat

\* A sum with a positive term is positive.
LEMMA SumPositive ==
  ASSUME NEW S, IsFiniteSet(S), NEW w, Weighted(w, S), NEW y \in S, w[y] > 0
  PROVE  SumFunctionOnSet(w, S) > 0
<1> DEFINE R == S \ {y}
<1>1. IsFiniteSet(R) /\ y \notin R /\ R \cup {y} = S
  BY FS_RemoveElement
<1>2. Weighted(w, R \cup {y}) /\ w[y] \in Nat
  BY <1>1 DEF Weighted
<1>3. SumFunctionOnSet(w, R) \in Nat /\ SumFunctionOnSet(w, R \cup {y}) = w[y] + SumFunctionOnSet(w, R)
  <2> HIDE DEF R
  <2> QED BY <1>1, <1>2, SumAdds
<1> QED BY <1>1, <1>2, <1>3

\* The timeframes a signal was seen on.
Hit(sigs) == {s.tf : s \in sigs}
Seen(sigs) == {s.pattern : s \in sigs}

\* A signal is on one of four timeframes.
LEMMA HitFinite ==
  ASSUME NEW sigs \in SUBSET Signals(BearishPatterns)
  PROVE  /\ Hit(sigs) \in SUBSET Timeframes /\ IsFiniteSet(Hit(sigs))
         /\ sigs # {} => Cardinality(Hit(sigs)) \in 1 .. 4
<1> DEFINE four == {"1h", "30m", "15m", "5m"}
<1>1. Hit(sigs) \in SUBSET Timeframes /\ Hit(sigs) \in SUBSET four
  BY ScoringAssumption DEF Hit, Signals
<1>2. /\ IsFiniteSet({}) /\ Cardinality({}) = 0
  BY FS_EmptySet
<1>3. IsFiniteSet({"1h"}) /\ Cardinality({"1h"}) = 1
  BY FS_Singleton
<1>4. IsFiniteSet({"1h", "30m"}) /\ Cardinality({"1h", "30m"}) = 2
  <2>1. {"1h", "30m"} = {"1h"} \cup {"30m"} /\ "30m" \notin {"1h"}
    OBVIOUS
  <2> QED BY <1>3, <2>1, FS_AddElement
<1>5. IsFiniteSet({"1h", "30m", "15m"}) /\ Cardinality({"1h", "30m", "15m"}) = 3
  <2>1. {"1h", "30m", "15m"} = {"1h", "30m"} \cup {"15m"} /\ "15m" \notin {"1h", "30m"}
    OBVIOUS
  <2> QED BY <1>4, <2>1, FS_AddElement
<1>6. IsFiniteSet(four) /\ Cardinality(four) = 4
  <2>1. four = {"1h", "30m", "15m"} \cup {"5m"} /\ "5m" \notin {"1h", "30m", "15m"}
    OBVIOUS
  <2> QED BY <1>5, <2>1, FS_AddElement
<1>7. IsFiniteSet(Hit(sigs)) /\ Cardinality(Hit(sigs)) <= 4
  BY <1>1, <1>6, FS_Subset
<1>8. Cardinality(Hit(sigs)) \in Nat /\ (Cardinality(Hit(sigs)) = 0 <=> Hit(sigs) = {})
  BY <1>7, FS_CardinalityType, FS_EmptySet
<1>9. sigs # {} => Hit(sigs) # {}
  BY DEF Hit
<1> QED BY <1>1, <1>7, <1>8, <1>9

\* Division rounds down, so it keeps the order.
LEMMA DivMonotone ==
  ASSUME NEW a \in Int, NEW b \in Int, a <= b, NEW m \in Nat, m > 0
  PROVE  a \div m \in Int /\ b \div m \in Int /\ a \div m <= b \div m
OBVIOUS

LEMMA Bonus == \A n \in 1 .. 4 : MultiTfBonus[n] \in Nat
BY DEF MultiTfBonus

\* More patterns, no less synergy.
LEMMA SynergyGrows ==
  ASSUME NEW ps, NEW qs, ps \subseteq qs
  PROVE  Synergy(ps) \in Nat /\ Synergy(qs) \in Nat /\ Synergy(ps) <= Synergy(qs)
BY DEF Synergy

\* The candles' score from the sum of the signals' points.
CandlePoints(raw, most, syn, n) ==
  20 * Capped(Capped((raw * syn * 40) \div most, 1000) + MultiTfBonus[n], 1000)

LEMMA CandleScore ==
  ASSUME NEW sigs, sigs # {}
  PROVE  scoreCandlePatterns(sigs)
           = CandlePoints(SumFunctionOnSet(BearishPoints, sigs),
                          SumFunctionOnSet(StrongestPoints, Hit(sigs)),
                          Synergy(Seen(sigs)), Cardinality(Hit(sigs)))
<1>1. Weights.candle = 20
  BY DEF Weights
<1> QED BY <1>1 DEF scoreCandlePatterns, CandlePoints, Hit, Seen

\* More points or more synergy on as many timeframes, no lower score.
LEMMA CandlePointsGrow ==
  ASSUME NEW raw \in Nat, NEW more \in Nat, raw <= more,
         NEW syn \in Nat, NEW great \in Nat, syn <= great,
         NEW most \in Nat, most > 0, NEW n \in 1 .. 4
  PROVE  /\ CandlePoints(raw, most, syn, n) \in Int
         /\ CandlePoints(more, most, great, n) \in Int
         /\ CandlePoints(raw, most, syn, n) <= CandlePoints(more, most, great, n)
<1> DEFINE a == raw * syn * 40
           b == more * great * 40
<1>1. a \in Int /\ b \in Int /\ a <= b
  <2>1. raw * syn \in Nat /\ more * great \in Nat /\ raw * syn <= more * great
    <3>1. raw * syn <= more * syn
      OBVIOUS
    <3>2. more * syn <= more * great
      OBVIOUS
    <3> QED BY <3>1, <3>2
  <2> QED BY <2>1
<1>2. a \div most \in Int /\ b \div most \in Int /\ a \div most <= b \div most
  <2> HIDE DEF a, b
  <2> QED BY <1>1, DivMonotone
<1>3. MultiTfBonus[n] \in Nat
  BY Bonus
<1> DEFINE x == a \div most
           y == b \div most
<1>4. \A u, v \in Int, k \in Nat : u <= v =>
        /\ 20 * Capped(Capped(u, 1000) + k, 1000) \in Int
        /\ 20 * Capped(Capped(u, 1000) + k, 1000) <= 20 * Capped(Capped(v, 1000) + k, 1000)
  BY DEF Capped
<1>5. /\ 20 * Capped(Capped(x, 1000) + MultiTfBonus[n], 1000) \in Int
      /\ 20 * Capped(Capped(y, 1000) + MultiTfBonus[n], 1000) \in Int
      /\ 20 * Capped(Capped(x, 1000) + MultiTfBonus[n], 1000)
           <= 20 * Capped(Capped(y, 1000) + MultiTfBonus[n], 1000)
  <2> HIDE DEF x, y
  <2>1. x \in Int /\ y \in Int /\ x <= y
    BY <1>2 DEF x, y
  <2> DEFINE k == MultiTfBonus[n]
             F(u) == 20 * Capped(Capped(u, 1000) + k, 1000)
  <2>2. F(x) \in Int /\ F(y) \in Int /\ F(x) <= F(y)
    <3>1. k \in Nat
      BY <1>3
    <3> HIDE DEF k
    <3>2. x <= x /\ y <= y
      BY <2>1
    <3> QED BY <1>4, <2>1, <3>1, <3>2
  <2> QED BY <2>2
<1> QED BY <1>5 DEF CandlePoints

\* What the candles' score is reckoned from.
LEMMA CandleTerms ==
  ASSUME NEW sigs \in SUBSET Signals(BearishPatterns), IsFiniteSet(sigs), sigs # {}
  PROVE  /\ SumFunctionOnSet(BearishPoints, sigs) \in Nat
         /\ SumFunctionOnSet(StrongestPoints, Hit(sigs)) \in Nat
         /\ SumFunctionOnSet(StrongestPoints, Hit(sigs)) > 0
         /\ Synergy(Seen(sigs)) \in Nat
         /\ Cardinality(Hit(sigs)) \in 1 .. 4
<1>1. Weighted(BearishPoints, sigs)
  BY PointsNat DEF Weighted
<1>2. Hit(sigs) \in SUBSET Timeframes /\ IsFiniteSet(Hit(sigs)) /\ Cardinality(Hit(sigs)) \in 1 .. 4
  BY HitFinite
<1>3. Weighted(StrongestPoints, Hit(sigs))
  BY <1>2, PointsNat DEF Weighted
<1>4. PICK x \in Hit(sigs) : StrongestPoints[x] > 0
  BY <1>2, PointsNat DEF Hit
<1>5. SumFunctionOnSet(BearishPoints, sigs) \in Nat
  BY <1>1, SumNat
<1>6. SumFunctionOnSet(StrongestPoints, Hit(sigs)) \in Nat
  BY <1>2, <1>3, SumNat
<1>7. SumFunctionOnSet(StrongestPoints, Hit(sigs)) > 0
  BY <1>2, <1>3, <1>4, SumPositive
<1> QED BY <1>2, <1>5, <1>6, <1>7, SynergyGrows

LEMMA CandleInt ==
  ASSUME NEW sigs \in SUBSET Signals(BearishPatterns), IsFiniteSet(sigs)
  PROVE  scoreCandlePatterns(sigs) \in Int
<1>1. CASE sigs = {}
  BY <1>1 DEF scoreCandlePatterns
<1>2. CASE sigs # {}
  <2> DEFINE raw == SumFunctionOnSet(BearishPoints, sigs)
             most == SumFunctionOnSet(StrongestPoints, Hit(sigs))
             syn == Synergy(Seen(sigs))
             n == Cardinality(Hit(sigs))
  <2>1. raw \in Nat /\ most \in Nat /\ most > 0 /\ syn \in Nat /\ n \in 1 .. 4
    BY <1>2, CandleTerms
  <2>2. scoreCandlePatterns(sigs) = CandlePoints(raw, most, syn, n)
    BY <1>2, CandleScore
  <2> HIDE DEF raw, most, syn, n
  <2>3. raw <= raw /\ syn <= syn
    BY <2>1
  <2>4. CandlePoints(raw, most, syn, n) \in Int
    BY <2>1, <2>3, CandlePointsGrow
  <2> QED BY <2>2, <2>4
<1> QED BY <1>1, <1>2

\* Another signal on a timeframe that was hit adds to the points and may add
\* to the synergy; what they are measured by stays.
LEMMA MoreOnATimeframe ==
  ASSUME NEW sigs \in SUBSET Signals(BearishPatterns), IsFiniteSet(sigs),
         NEW s \in Signals(BearishPatterns), s \notin sigs, NEW b \in sigs, b.tf = s.tf
  PROVE  scoreCandlePatterns(sigs) <= scoreCandlePatterns(sigs \cup {s})
<1> DEFINE more == sigs \cup {s}
<1>1. more \in SUBSET Signals(BearishPatterns) /\ IsFiniteSet(more) /\ more # {} /\ sigs # {}
  BY FS_AddElement
<1>2. Hit(more) = Hit(sigs)
  BY DEF Hit
<1>3. Weighted(BearishPoints, more) /\ BearishPoints[s] \in Nat
  BY <1>1, PointsNat DEF Weighted
<1>4. SumFunctionOnSet(BearishPoints, more) = BearishPoints[s] + SumFunctionOnSet(BearishPoints, sigs)
  BY <1>3, SumAdds
<1>5. Synergy(Seen(sigs)) <= Synergy(Seen(more))
  <2>1. Seen(sigs) \subseteq Seen(more)
    BY DEF Seen
  <2> QED BY <2>1, SynergyGrows
<1> HIDE DEF more
<1>6. SumFunctionOnSet(BearishPoints, sigs) <= SumFunctionOnSet(BearishPoints, more)
  BY <1>1, <1>3, <1>4, CandleTerms
<1>7. scoreCandlePatterns(sigs) <= scoreCandlePatterns(more)
  <2> DEFINE raw == SumFunctionOnSet(BearishPoints, sigs)
             raws == SumFunctionOnSet(BearishPoints, more)
             most == SumFunctionOnSet(StrongestPoints, Hit(sigs))
             syn == Synergy(Seen(sigs))
             syns == Synergy(Seen(more))
             n == Cardinality(Hit(sigs))
  <2>1. raw \in Nat /\ most \in Nat /\ most > 0 /\ syn \in Nat /\ n \in 1 .. 4
    BY <1>1, CandleTerms
  <2>2. raws \in Nat /\ syns \in Nat
    BY <1>1, CandleTerms
  <2>3. scoreCandlePatterns(sigs) = CandlePoints(raw, most, syn, n)
    BY <1>1, CandleScore
  <2>4. scoreCandlePatterns(more) = CandlePoints(raws, most, syns, n)
    BY <1>1, <1>2, CandleScore
  <2>5. raw <= raws /\ syn <= syns
    BY <1>5, <1>6
  <2> HIDE DEF raw, raws, most, syn, syns, n
  <2>6. CandlePoints(raw, most, syn, n) <= CandlePoints(raws, most, syns, n)
    BY <2>1, <2>2, <2>5, CandlePointsGrow
  <2> QED BY <2>3, <2>4, <2>6
<1> QED BY <1>7 DEF more

\* A higher bullish score has no lower penalty.
LEMMA PenaltyGrows ==
  ASSUME NEW x \in Nat, NEW y \in Nat, x <= y
  PROVE  Penalty(x) \in Nat /\ Penalty(y) \in Nat /\ Penalty(x) <= Penalty(y)
BY DEF Penalty

LEMMA BullishInt ==
  ASSUME NEW sigs \in SUBSET Signals(BullishPatterns), IsFiniteSet(sigs)
  PROVE  bullishSignalScore(sigs) \in Nat /\ scoreBullishPenalty(sigs) \in Int
<1>1. bullishSignalScore(sigs) \in Nat
  BY PointsNat, SumNat DEF Weighted, bullishSignalScore
<1>2. Weights.candle = 20
  BY DEF Weights
<1> QED BY <1>1, <1>2, PenaltyGrows DEF scoreBullishPenalty

\* Another bullish signal never raises the component.
LEMMA MoreBullish ==
  ASSUME NEW sigs \in SUBSET Signals(BullishPatterns), IsFiniteSet(sigs),
         NEW s \in Signals(BullishPatterns), s \notin sigs
  PROVE  /\ scoreBullishPenalty(sigs \cup {s}) \in Int
         /\ scoreBullishPenalty(sigs \cup {s}) <= scoreBullishPenalty(sigs)
<1> DEFINE more == sigs \cup {s}
<1>1. more \in SUBSET Signals(BullishPatterns) /\ IsFiniteSet(more)
  BY FS_AddElement
<1>2. Weighted(BullishPoints, more) /\ BullishPoints[s] \in Nat
  BY <1>1, PointsNat DEF Weighted
<1>3. bullishSignalScore(more) = BullishPoints[s] + bullishSignalScore(sigs)
  BY <1>2, SumAdds DEF bullishSignalScore
<1> HIDE DEF more
<1>4. /\ bullishSignalScore(sigs) \in Nat /\ bullishSignalScore(more) \in Nat
      /\ bullishSignalScore(sigs) <= bullishSignalScore(more)
  BY <1>1, <1>2, <1>3, BullishInt
<1>5. Weights.candle = 20
  BY DEF Weights
<1>6. scoreBullishPenalty(more) \in Int /\ scoreBullishPenalty(more) <= scoreBullishPenalty(sigs)
  BY <1>4, <1>5, PenaltyGrows DEF scoreBullishPenalty
<1> QED BY <1>6 DEF more

-----------------------------------------------------------------------------
(* The score and the size.                                                 *)

\* The components that no signal of a candle changes.
Rest(m, ds) ==
    evalInterpolated("funding", m.funding) * Weights.funding
  + evalThreshold("oi", m.oi) * Weights.oi
  + evalThreshold("oi15m", m.oi15m) * Weights.oi15m
  + evalBTC(m.btc) * Weights.btc
  + evalVolume(m.spike, m.rsi7) * Weights.volume
  + evalThreshold("roi", m.roi) * Weights.roi
  + evalThreshold("volatility", m.atr) * Weights.volatility
  + evalRSIDivergence(ds) * Weights.rsidiv

LEMMA DivergenceInt == \A ds : evalRSIDivergence(ds) \in Int
<1> TAKE ds
<1> DEFINE fits == {i \in DOMAIN RSIDivTiers : RSIDivTiers[i].cond = rsidivCondition(ds)}
<1>1. DOMAIN RSIDivTiers = 1 .. 6 /\ \A i \in 1 .. 6 : RSIDivTiers[i].mult \in Int
  BY DEF RSIDivTiers
<1>2. CASE fits = {}
  BY <1>2 DEF evalRSIDivergence
<1>3. CASE fits # {}
  <2>1. fits \in SUBSET Nat
    BY <1>1
  <2>2. \E n \in fits : \A m \in fits : n <= m
    <3> HIDE DEF fits
    <3> QED BY <1>3, <2>1, Least
  <2>3. Min(fits) \in fits
    <3> HIDE DEF fits
    <3> QED BY <2>2 DEF Min
  <2>4. Min(fits) \in 1 .. 6
    BY <1>1, <2>3
  <2> QED BY <1>1, <1>3, <2>4 DEF evalRSIDivergence
<1> QED BY <1>2, <1>3

LEMMA RestTerms ==
  ASSUME NEW m \in Market, NEW ds
  PROVE  /\ evalInterpolated("funding", m.funding) * Weights.funding \in Int
         /\ evalThreshold("oi", m.oi) * Weights.oi \in Int
         /\ evalThreshold("oi15m", m.oi15m) * Weights.oi15m \in Int
         /\ evalBTC(m.btc) * Weights.btc \in Int
         /\ evalVolume(m.spike, m.rsi7) * Weights.volume \in Int
         /\ evalThreshold("roi", m.roi) * Weights.roi \in Int
         /\ evalThreshold("volatility", m.atr) * Weights.volatility \in Int
         /\ evalRSIDivergence(ds) * Weights.rsidiv \in Int
<1>1. /\ m.funding \in Reading /\ m.oi \in Reading /\ m.oi15m \in Reading
      /\ m.roi \in Reading /\ m.atr \in Reading /\ m.rsi7 \in Reading /\ -1 \in Reading
  <2>1. \A v \in -1 .. 100 : v \in Reading
    BY Beyond DEF Reading
  <2> QED BY <2>1 DEF Market
<1>2. {"oi", "oi15m", "roi", "volatility", "volume", "funding"} \subseteq Categories
  BY DEF Categories
<1>3. /\ evalInterpolated("funding", m.funding) \in Int
      /\ evalThreshold("oi", m.oi) \in Int /\ evalThreshold("oi15m", m.oi15m) \in Int
      /\ evalThreshold("roi", m.roi) \in Int /\ evalThreshold("volatility", m.atr) \in Int
  BY <1>1, <1>2, ThresholdInt, InterpolatedInt
<1>4. evalVolume(m.spike, m.rsi7) \in Int
  BY <1>1, <1>2, ThresholdInt DEF evalVolume
<1>5. /\ Weights.funding \in Int /\ Weights.oi \in Int /\ Weights.oi15m \in Int /\ Weights.btc \in Int
      /\ Weights.volume \in Int /\ Weights.roi \in Int /\ Weights.volatility \in Int
      /\ Weights.rsidiv \in Int
  BY DEF Weights
<1> QED BY <1>3, <1>4, <1>5, BTCInt, DivergenceInt

LEMMA RestInt == ASSUME NEW m \in Market, NEW ds PROVE Rest(m, ds) \in Int
BY RestTerms DEF Rest

\* The score before the momentum's penalty is their sum.
LEMMA PreInt ==
  ASSUME NEW m \in Market, NEW ds,
         NEW bear \in SUBSET Signals(BearishPatterns), IsFiniteSet(bear),
         NEW bull \in SUBSET Signals(BullishPatterns), IsFiniteSet(bull)
  PROVE  /\ PreComposite(m, bear, bull, ds)
              = Rest(m, ds) + scoreCandlePatterns(bear) + scoreBullishPenalty(bull)
         /\ PreComposite(m, bear, bull, ds) \in Int
         /\ Rest(m, ds) \in Int /\ scoreCandlePatterns(bear) \in Int
         /\ scoreBullishPenalty(bull) \in Int
<1>1. Rest(m, ds) \in Int /\ scoreCandlePatterns(bear) \in Int /\ scoreBullishPenalty(bull) \in Int
  BY RestInt, CandleInt, BullishInt
<1>2. PreComposite(m, bear, bull, ds)
        = Rest(m, ds) + scoreCandlePatterns(bear) + scoreBullishPenalty(bull)
  <2>1. \A a, b, c, d, e, f, g, h, i, j \in Int :
          a + b + c + d + i + e + f + g + h + j = (a + b + c + d + e + f + g + h) + i + j
    OBVIOUS
  <2> QED BY <1>1, <2>1, RestTerms DEF PreComposite, Rest
<1> QED BY <1>1, <1>2

\* A lower score before the momentum's penalty, or a flag more, never makes a
\* higher one after it.
LEMMA DiscountMonotone ==
  ASSUME NEW p \in Int, NEW q \in Int, p <= q,
         NEW sq \in BOOLEAN, NEW st \in BOOLEAN, NEW sq0 \in BOOLEAN, NEW st0 \in BOOLEAN,
         sq0 => sq, st0 => st
  PROVE  /\ Discounted(p, sq, st) \in Int /\ Discounted(q, sq0, st0) \in Int
         /\ Discounted(p, sq, st) <= Discounted(q, sq0, st0)
<1> DEFINE c(u, v) == (IF u THEN 8 ELSE 10) * (IF v THEN 9 ELSE 10)
<1>1. /\ c(sq, st) \in {72, 80, 90, 100} /\ c(sq0, st0) \in {72, 80, 90, 100}
      /\ c(sq, st) <= c(sq0, st0)
  OBVIOUS
<1>2. /\ \A x \in Int, u, v \in BOOLEAN : x > 0 => Discounted(x, u, v) = (x * c(u, v)) \div 100
      /\ \A x \in Int, u, v \in BOOLEAN : x <= 0 => Discounted(x, u, v) = x
  BY DEF Discounted
<1> DEFINE k == c(sq, st)
           l == c(sq0, st0)
<1>3. k \in Nat /\ l \in Nat /\ k <= l
  BY <1>1
<1>4. p > 0 => Discounted(p, sq, st) = (p * k) \div 100
  BY <1>2
<1>5. q > 0 => Discounted(q, sq0, st0) = (q * l) \div 100
  BY <1>2
<1>6. (p <= 0 => Discounted(p, sq, st) = p) /\ (q <= 0 => Discounted(q, sq0, st0) = q)
  BY <1>2
<1> HIDE DEF k, l
<1>7. CASE p > 0
  <2>1. q > 0 /\ p * k \in Int /\ q * l \in Int /\ p * k <= q * l
    <3>1. q > 0
      BY <1>7
    <3>2. p * k <= q * k
      BY <1>3
    <3>3. q * k <= q * l
      BY <1>3, <3>1
    <3> QED BY <1>3, <3>1, <3>2, <3>3
  <2>2. (p * k) \div 100 \in Int /\ (q * l) \div 100 \in Int /\ (p * k) \div 100 <= (q * l) \div 100
    BY <2>1, DivMonotone
  <2> QED BY <1>4, <1>5, <1>7, <2>1, <2>2
<1>8. CASE p <= 0 /\ q > 0
  <2>1. q * l \in Nat
    BY <1>3, <1>8
  <2>2. (q * l) \div 100 \in Nat
    BY <2>1
  <2> QED BY <1>5, <1>6, <1>8, <2>2
<1>9. CASE q <= 0
  BY <1>6, <1>9
<1> QED BY <1>7, <1>8, <1>9

Sizes == {ConfidenceTiers[i].size : i \in DOMAIN ConfidenceTiers}

\* The size in tenths of a percent, tier by tier.
LEMMA SizeOf ==
  ASSUME NEW x \in Int
  PROVE  mapScoreToConfidence(x) = IF x >= 90000 THEN 55 ELSE IF x >= 80000 THEN 50
                                   ELSE IF x >= 70000 THEN 40 ELSE IF x >= 60000 THEN 20 ELSE 0
<1> DEFINE In(i) == /\ x >= 1000 * ConfidenceTiers[i].min
                    /\ \A j \in 1 .. i - 1 : x < 1000 * ConfidenceTiers[j].min
<1>1. /\ DOMAIN ConfidenceTiers = 1 .. 5
      /\ ConfidenceTiers[1].min = 90 /\ ConfidenceTiers[1].size = 55
      /\ ConfidenceTiers[2].min = 80 /\ ConfidenceTiers[2].size = 50
      /\ ConfidenceTiers[3].min = 70 /\ ConfidenceTiers[3].size = 40
      /\ ConfidenceTiers[4].min = 60 /\ ConfidenceTiers[4].size = 20
      /\ ConfidenceTiers[5].min = 0 /\ ConfidenceTiers[5].size = 0
  BY DEF ConfidenceTiers
<1>2. HighestTier(x) = CHOOSE i \in 1 .. 5 : In(i)
  BY <1>1 DEF HighestTier
<1>3. ASSUME NEW i \in 1 .. 5, In(i), \A j \in 1 .. 5 : In(j) => j = i
      PROVE  HighestTier(x) = i
  BY <1>2, <1>3
<1>4. /\ In(1) <=> x >= 90000
      /\ In(2) <=> x >= 80000 /\ x < 90000
      /\ In(3) <=> x >= 70000 /\ x < 80000
      /\ In(4) <=> x >= 60000 /\ x < 70000
      /\ In(5) <=> x >= 0 /\ x < 60000
  BY <1>1
<1> HIDE DEF In
<1>5. CASE x < 0
  BY <1>5 DEF mapScoreToConfidence
<1>6. CASE x >= 0
  <2>1. HighestTier(x) = IF x >= 90000 THEN 1 ELSE IF x >= 80000 THEN 2
                         ELSE IF x >= 70000 THEN 3 ELSE IF x >= 60000 THEN 4 ELSE 5
    BY <1>3, <1>4, <1>6
  <2> QED BY <1>1, <1>6, <2>1 DEF mapScoreToConfidence
<1> QED BY <1>5, <1>6

\* A lower score never makes a larger position.
LEMMA SizeMonotone ==
  ASSUME NEW x \in Int, NEW y \in Int, x <= y
  PROVE  mapScoreToConfidence(x) <= mapScoreToConfidence(y)
BY SizeOf

LEMMA SizeAmongTiers == ASSUME NEW x \in Int PROVE mapScoreToConfidence(x) \in Sizes
<1>1. /\ DOMAIN ConfidenceTiers = 1 .. 5
      /\ ConfidenceTiers[1].size = 55 /\ ConfidenceTiers[2].size = 50
      /\ ConfidenceTiers[3].size = 40 /\ ConfidenceTiers[4].size = 20
      /\ ConfidenceTiers[5].size = 0
  BY DEF ConfidenceTiers
<1>2. {55, 50, 40, 20, 0} \subseteq Sizes
  BY <1>1 DEF Sizes
<1> QED BY <1>2, SizeOf

-----------------------------------------------------------------------------
(* The snapshot's life.                                                    *)

\* The score and the size are those of the snapshot, whose signals are finite.
SInv ==
  /\ TypeOK
  /\ IsFiniteSet(bearish) /\ IsFiniteSet(bullish)
  /\ score = Composite /\ size = mapScoreToConfidence(score)

\* Whatever the snapshot is, it has a score and a size.
LEMMA CompositeInt ==
  ASSUME NEW m \in Market, NEW ds, NEW sq \in BOOLEAN, NEW st \in BOOLEAN,
         NEW bear \in SUBSET Signals(BearishPatterns), IsFiniteSet(bear),
         NEW bull \in SUBSET Signals(BullishPatterns), IsFiniteSet(bull)
  PROVE  Discounted(PreComposite(m, bear, bull, ds), sq, st) \in Int
<1> DEFINE p == PreComposite(m, bear, bull, ds)
<1>1. p \in Int
  BY PreInt
<1> HIDE DEF p
<1>2. Discounted(p, sq, st) \in Int
  <2>1. p <= p
    BY <1>1
  <2> QED BY <1>1, <2>1, DiscountMonotone
<1> QED BY <1>2 DEF p

LEMMA InitScore == ASSUME Init PROVE SInv
<1>1. IsFiniteSet({})
  BY FS_EmptySet
<1>2. market \in Market
  BY ScoringAssumption DEF Init
<1>3. Composite \in Int
  BY <1>1, <1>2, CompositeInt DEF Init, Composite
<1>4. size \in Sizes
  BY <1>3, SizeAmongTiers DEF Init
<1> QED BY <1>1, <1>2, <1>3, <1>4 DEF Init, SInv, TypeOK, Sizes

\* Every step computes the score of the snapshot it leaves.
LEMMA NextScore == ASSUME SInv, [Next]_vars PROVE SInv'
<1> DEFINE Shape == /\ market \in Market
                    /\ bearish \in SUBSET Signals(BearishPatterns)
                    /\ bullish \in SUBSET Signals(BullishPatterns)
                    /\ \A sigs \in {bearish, bullish} : \A s, t \in sigs :
                         s.tf = t.tf /\ s.pattern = t.pattern => s = t
                    /\ divs \in SUBSET Divergences
                    /\ squeeze \in BOOLEAN /\ stale \in BOOLEAN
                    /\ IsFiniteSet(bearish) /\ IsFiniteSet(bullish)
<1>1. Shape
  BY DEF SInv, TypeOK
<1>2. ASSUME Shape', Scored
      PROVE  SInv'
  <2>1. Composite' \in Int
    BY <1>2, CompositeInt DEF Composite
  <2>2. size' \in Sizes
    BY <1>2, <2>1, SizeAmongTiers DEF Scored
  <2>3. TypeOK'
    BY <1>2, <2>1, <2>2 DEF TypeOK, Scored, Sizes
  <2> QED BY <1>2, <2>3 DEF SInv, Scored
<1>3. ASSUME NEW s \in Signals(BearishPatterns), BearishAppears(s)
      PROVE  Shape' /\ Scored
  <2>1. IsFiniteSet(bearish')
    BY <1>1, <1>3, FS_AddElement DEF BearishAppears
  <2> QED BY <1>1, <1>3, <2>1 DEF BearishAppears, New
<1>4. ASSUME NEW s \in Signals(BullishPatterns), BullishAppears(s)
      PROVE  Shape' /\ Scored
  <2>1. IsFiniteSet(bullish')
    BY <1>1, <1>4, FS_AddElement DEF BullishAppears
  <2> QED BY <1>1, <1>4, <2>1 DEF BullishAppears, New
<1>5. ASSUME NEW d \in Divergences, DivergenceAppears(d)
      PROVE  Shape' /\ Scored
  BY <1>1, <1>5 DEF DivergenceAppears
<1>6. ASSUME MomentumTurns
      PROVE  Shape' /\ Scored
  BY <1>1, <1>6 DEF MomentumTurns
<1>7. CASE UNCHANGED vars
  BY <1>7 DEF vars, snapshot, SInv, TypeOK, Composite
<1> QED BY <1>2, <1>3, <1>4, <1>5, <1>6, <1>7 DEF Next

LEMMA ScoreInvariant == Spec => []SInv
<1>1. Init => SInv
  BY InitScore
<1>2. SInv /\ [Next]_vars => SInv'
  BY NextScore
<1> QED BY <1>1, <1>2, PTL DEF Spec

\* Every variable of the scorer keeps its type: for any readings and signals
\* there is a score, and the size is one of the tiers'.
THEOREM ScoreTypeCorrect == Spec => []TypeOK
<1>1. SInv => TypeOK
  BY DEF SInv
<1> QED BY <1>1, ScoreInvariant, PTL

\* The score before the momentum's penalty, and its parts.
LEMMA Decomposed ==
  ASSUME SInv
  PROVE  /\ PreComposite(market, bearish, bullish, divs)
              = Rest(market, divs) + scoreCandlePatterns(bearish) + scoreBullishPenalty(bullish)
         /\ PreComposite(market, bearish, bullish, divs) \in Int
         /\ Rest(market, divs) \in Int /\ scoreCandlePatterns(bearish) \in Int
         /\ scoreBullishPenalty(bullish) \in Int
<1>1. /\ market \in Market
      /\ bearish \in SUBSET Signals(BearishPatterns) /\ IsFiniteSet(bearish)
      /\ bullish \in SUBSET Signals(BullishPatterns) /\ IsFiniteSet(bullish)
  BY DEF SInv, TypeOK
<1> QED BY <1>1, PreInt

LEMMA DecomposedNext ==
  ASSUME SInv'
  PROVE  /\ PreComposite(market', bearish', bullish', divs')
              = Rest(market', divs') + scoreCandlePatterns(bearish') + scoreBullishPenalty(bullish')
         /\ PreComposite(market', bearish', bullish', divs') \in Int
         /\ scoreCandlePatterns(bearish') \in Int
<1>1. /\ market' \in Market
      /\ bearish' \in SUBSET Signals(BearishPatterns) /\ IsFiniteSet(bearish')
      /\ bullish' \in SUBSET Signals(BullishPatterns) /\ IsFiniteSet(bullish')
  BY DEF SInv, TypeOK
<1> QED BY <1>1, PreInt

\* A computation with no better components and no flag less.
LEMMA Lowers ==
  ASSUME SInv, SInv',
         PreComposite(market, bearish, bullish, divs)'
           <= PreComposite(market, bearish, bullish, divs),
         squeeze => squeeze', stale => stale'
  PROVE  score' <= score /\ size' <= size
<1> DEFINE q == PreComposite(market, bearish, bullish, divs)
           p == q'
<1>1. q \in Int /\ p \in Int /\ p <= q
  <2>1. q \in Int
    BY Decomposed
  <2>2. p \in Int
    BY DecomposedNext
  <2> QED BY <2>1, <2>2
<1>2. /\ squeeze \in BOOLEAN /\ stale \in BOOLEAN /\ squeeze' \in BOOLEAN /\ stale' \in BOOLEAN
      /\ score \in Int /\ score' \in Int
  BY DEF SInv, TypeOK
<1>3. score = Discounted(q, squeeze, stale) /\ score' = Discounted(p, squeeze', stale')
  BY DEF SInv, Composite
<1> HIDE DEF p, q
<1>4. Discounted(p, squeeze', stale') <= Discounted(q, squeeze, stale)
  BY <1>1, <1>2, DiscountMonotone
<1>5. score' <= score
  BY <1>3, <1>4
<1> QED BY <1>2, <1>5, SizeMonotone DEF SInv

\* What speaks against the short never raises its score nor its size, for any
\* readings and any signals before it.
THEOREM PenaltiesOnlyCost == Spec => PenaltiesNeverHelp
<1>1. ASSUME SInv, SInv', Next,
             <<bullish, squeeze, stale>>' # <<bullish, squeeze, stale>>
      PROVE  score' <= score /\ size' <= size
  <2>1. ASSUME NEW s \in Signals(BullishPatterns), BullishAppears(s)
        PROVE  score' <= score /\ size' <= size
    <3>1. /\ bullish' = bullish \cup {s} /\ s \notin bullish
          /\ UNCHANGED <<market, bearish, divs, squeeze, stale>>
      BY <2>1 DEF BullishAppears, New
    <3>2. /\ scoreBullishPenalty(bullish') \in Int
          /\ scoreBullishPenalty(bullish') <= scoreBullishPenalty(bullish)
      BY <1>1, <3>1, MoreBullish DEF SInv, TypeOK
    <3>3. /\ PreComposite(market, bearish, bullish, divs)
                = Rest(market, divs) + scoreCandlePatterns(bearish) + scoreBullishPenalty(bullish)
          /\ Rest(market, divs) \in Int /\ scoreCandlePatterns(bearish) \in Int
          /\ scoreBullishPenalty(bullish) \in Int
      BY <1>1, Decomposed
    <3>4. PreComposite(market', bearish', bullish', divs')
            = Rest(market', divs') + scoreCandlePatterns(bearish') + scoreBullishPenalty(bullish')
      BY <1>1, DecomposedNext
    <3>5. PreComposite(market, bearish, bullish, divs)'
            <= PreComposite(market, bearish, bullish, divs)
      BY <3>1, <3>2, <3>3, <3>4
    <3> QED BY <1>1, <3>1, <3>5, Lowers
  <2>2. CASE MomentumTurns
    <3>1. UNCHANGED <<market, bearish, bullish, divs>> /\ (squeeze => squeeze') /\ (stale => stale')
      BY <2>2 DEF MomentumTurns
    <3>2. PreComposite(market, bearish, bullish, divs) \in Int
      BY <1>1, Decomposed
    <3>3. PreComposite(market, bearish, bullish, divs)'
            <= PreComposite(market, bearish, bullish, divs)
      BY <3>1, <3>2
    <3> QED BY <1>1, <3>1, <3>3, Lowers
  <2> QED BY <1>1, <2>1, <2>2 DEF Next, BearishAppears, DivergenceAppears
<1>2. ASSUME SInv, SInv', [Next]_vars
      PROVE  [<<bullish, squeeze, stale>>' # <<bullish, squeeze, stale>>
                => score' <= score /\ size' <= size]_vars
  BY <1>1, <1>2
<1> QED BY <1>2, ScoreInvariant, PTL DEF Spec, PenaltiesNeverHelp

\* Another bearish signal on a timeframe already hit never lowers the score,
\* for any number of signals before it.
THEOREM ConfirmationNeverHurts == Spec => SameTimeframeNeverHurts
<1>1. ASSUME SInv, SInv', Next, NEW s \in bearish' \ bearish, NEW b \in bearish, b.tf = s.tf
      PROVE  score' >= score
  <2>1. PICK t \in Signals(BearishPatterns) : BearishAppears(t)
    BY <1>1 DEF Next, BullishAppears, DivergenceAppears, MomentumTurns
  <2>2. /\ t = s /\ bearish' = bearish \cup {s} /\ s \in Signals(BearishPatterns)
        /\ UNCHANGED <<market, bullish, divs, squeeze, stale>>
    BY <1>1, <2>1 DEF BearishAppears
  <2>3. scoreCandlePatterns(bearish) <= scoreCandlePatterns(bearish')
    BY <1>1, <2>2, MoreOnATimeframe DEF SInv, TypeOK
  <2> DEFINE p == PreComposite(market, bearish, bullish, divs)
             q == p'
  <2>4. /\ p = Rest(market, divs) + scoreCandlePatterns(bearish) + scoreBullishPenalty(bullish)
        /\ p \in Int /\ Rest(market, divs) \in Int /\ scoreCandlePatterns(bearish) \in Int
        /\ scoreBullishPenalty(bullish) \in Int
    BY <1>1, Decomposed
  <2>5. /\ q = Rest(market', divs') + scoreCandlePatterns(bearish') + scoreBullishPenalty(bullish')
        /\ q \in Int /\ scoreCandlePatterns(bearish') \in Int
    BY <1>1, DecomposedNext
  <2>6. p <= q
    <3> HIDE DEF p, q
    <3> QED BY <2>2, <2>3, <2>4, <2>5
  <2>7. squeeze \in BOOLEAN /\ stale \in BOOLEAN /\ score \in Int /\ score' \in Int
    BY <1>1 DEF SInv, TypeOK
  <2>8. score = Discounted(p, squeeze, stale) /\ score' = Discounted(q, squeeze, stale)
    BY <1>1, <2>2 DEF SInv, Composite
  <2> HIDE DEF p, q
  <2>9. Discounted(p, squeeze, stale) <= Discounted(q, squeeze, stale)
    BY <2>4, <2>5, <2>6, <2>7, DiscountMonotone
  <2> QED BY <2>7, <2>8, <2>9
<1>2. ASSUME SInv, SInv', [Next]_vars
      PROVE  [\A s \in bearish' \ bearish :
                (\E b \in bearish : b.tf = s.tf) => score' >= score]_vars
  BY <1>1, <1>2
<1> QED BY <1>2, ScoreInvariant, PTL DEF Spec, SameTimeframeNeverHurts
=============================================================================
