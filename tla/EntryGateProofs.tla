--------------------------- MODULE EntryGateProofs ---------------------------
(***************************************************************************)
(* The entry path implements the book of Admission, so the book's bound    *)
(* holds of the cached positions; and its limits stop it.  For every set   *)
(* of symbols, every maximum of positions and of losses.                   *)
(*                                                                         *)
(* GInv is the inductive invariant.  LimitsStop alone is not inductive: a  *)
(* goroutine about to send an order must not have sent one under the       *)
(* limit, and it has not because the reads it is past came after.          *)
(***************************************************************************)
EXTENDS EntryGate, FiniteSetTheorems, TLAPS

\* Before a limit there is nothing to count.
NothingBefore ==
  \A w \in Workers : /\ ~kill => afterKill[w] = 0
                     /\ ~TooManyLosses => afterLimit[w] = 0

\* A goroutine past a read has not sent an order since the limit.
PastReads ==
  \A w \in Workers :
    /\ step[w] \in {"positions", "losses", "balance", "order"} => afterKill[w] = 0
    /\ step[w] \in {"balance", "order"} /\ counted[w] => afterLimit[w] = 0

GInv == TypeOK /\ NothingBefore /\ PastReads /\ LimitsStop

-----------------------------------------------------------------------------
(* Type correctness.                                                       *)

LEMMA InitType == ASSUME Init PROVE TypeOK
<1>1. /\ step \in [Workers -> Steps] /\ sym \in [Workers -> Symbols \cup {NoSymbol}]
      /\ \A w \in Workers : sym[w] = NoSymbol <=> step[w] = "idle"
  BY DEF Init, Steps
<1>2. /\ losses \in Nat /\ uncounted \in Nat /\ losses + uncounted <= MaxLosses
  BY ConstantsAssumption DEF Init
<1>3. /\ kill \in BOOLEAN /\ counted \in [Workers -> BOOLEAN]
      /\ afterKill \in [Workers -> Nat] /\ afterLimit \in [Workers -> Nat]
  BY DEF Init, None
<1> QED BY <1>1, <1>2, <1>3 DEF Init, TypeOK

LEMMA NextType ==
  ASSUME TypeOK, [Next]_vars
  PROVE  TypeOK'
<1> USE ConstantsAssumption DEF TypeOK, Steps, Admitted, account, history, flow, AtRest, GoesTo
<1>1. ASSUME NEW w \in Workers, NEW s \in Symbols, HandedOver(w, s)
      PROVE  TypeOK'
  BY <1>1 DEF HandedOver
<1>2. ASSUME NEW w \in Workers, NEW mode \in Modes, NEW score \in Scores,
             Screened(w, mode, score)
      PROVE  TypeOK'
  <2>1. CASE AtRest(w)
    BY <1>2, <2>1 DEF Screened
  <2>2. CASE GoesTo(w, "kill")
    BY <1>2, <2>2 DEF Screened
  <2> QED BY <1>2, <2>1, <2>2 DEF Screened
<1>3. ASSUME NEW w \in Workers, KillRead(w) \/ PositionsRead(w)
      PROVE  TypeOK'
  BY <1>3 DEF KillRead, PositionsRead
<1>4. ASSUME NEW w \in Workers, LossesRead(w) \/ LossesUnknown(w)
      PROVE  TypeOK'
  BY <1>4 DEF LossesRead, LossesUnknown
<1>5. ASSUME NEW w \in Workers, BalanceRefuses(w) \/ BalanceSuffices(w)
      PROVE  TypeOK'
  BY <1>5 DEF BalanceRefuses, BalanceSuffices
<1>6. ASSUME NEW w \in Workers, OrderPlaced(w)
      PROVE  TypeOK'
  BY <1>6 DEF OrderPlaced, Counting
<1>7. ASSUME NEW w \in Workers, OrderFails(w) \/ StubFails(w)
      PROVE  TypeOK'
  BY <1>7 DEF OrderFails, StubFails
<1>8. ASSUME NEW w \in Workers, StubWritten(w) \/ FillHandled(w)
      PROVE  TypeOK'
  BY <1>8 DEF StubWritten, FillHandled
<1>9. ASSUME NEW s \in Symbols, StrayAppears(s)
      PROVE  TypeOK'
  BY <1>9 DEF StrayAppears
<1>10. ASSUME NEW s \in Symbols, NEW loss \in BOOLEAN, Closes(s, loss)
       PROVE  TypeOK'
  <2>1. positions' \subseteq Symbols /\ strays' \subseteq positions'
    BY <1>10 DEF Closes
  <2>2. uncounted' \in Nat /\ losses' + uncounted' <= MaxLosses
    BY <1>10 DEF Closes
  <2> QED BY <1>10, <2>1, <2>2 DEF Closes
<1>11. CASE LossCounted
  BY <1>11 DEF LossCounted
<1>12. CASE DayEnds
  BY <1>12 DEF DayEnds, None
<1>13. CASE Killed
  BY <1>13 DEF Killed
<1>14. CASE Restarts
  BY <1>14 DEF Restarts
<1>15. CASE UNCHANGED vars
  BY <1>15 DEF vars
<1> HIDE DEF TypeOK, Steps, Admitted, account, history, flow, AtRest, GoesTo
<1> QED BY <1>1, <1>2, <1>3, <1>4, <1>5, <1>6, <1>7, <1>8, <1>9, <1>10, <1>11,
           <1>12, <1>13, <1>14, <1>15 DEF Next, Executes, Meanwhile

\* Every variable keeps its type.
THEOREM TypeCorrect == Spec => []TypeOK
<1>1. Init => TypeOK
  BY InitType
<1>2. TypeOK /\ [Next]_vars => TypeOK'
  BY NextType
<1> QED BY <1>1, <1>2, PTL DEF Spec

-----------------------------------------------------------------------------
(* The limits.                                                             *)

LEMMA InitLimits == ASSUME Init PROVE NothingBefore /\ PastReads /\ LimitsStop
  BY DEF Init, NothingBefore, PastReads, LimitsStop, None

LEMMA NextLimits ==
  ASSUME GInv, [Next]_vars
  PROVE  NothingBefore' /\ PastReads' /\ LimitsStop'
<1> USE ConstantsAssumption DEF GInv, TypeOK, NothingBefore, PastReads, LimitsStop,
        account, history, flow, AtRest, GoesTo, TooManyLosses
<1> DEFINE Kept == NothingBefore' /\ PastReads' /\ LimitsStop'
<1>1. ASSUME NEW w \in Workers, NEW s \in Symbols, HandedOver(w, s)
      PROVE  Kept
  BY <1>1 DEF HandedOver
<1>2. ASSUME NEW w \in Workers, NEW mode \in Modes, NEW score \in Scores,
             Screened(w, mode, score)
      PROVE  Kept
  <2>1. step' = [step EXCEPT ![w] = "idle"] \/ step' = [step EXCEPT ![w] = "kill"]
    BY <1>2 DEF Screened
  <2>2. UNCHANGED <<account, history>>
    BY <1>2 DEF Screened
  <2> QED BY <2>1, <2>2
<1>3. ASSUME NEW w \in Workers, KillRead(w)
      PROVE  Kept
  BY <1>3 DEF KillRead
<1>4. ASSUME NEW w \in Workers, PositionsRead(w)
      PROVE  Kept
  BY <1>4 DEF PositionsRead
<1>5. ASSUME NEW w \in Workers, LossesRead(w)
      PROVE  Kept
  BY <1>5 DEF LossesRead
<1>6. ASSUME NEW w \in Workers, LossesUnknown(w)
      PROVE  Kept
  BY <1>6 DEF LossesUnknown
<1>7. ASSUME NEW w \in Workers, BalanceRefuses(w) \/ BalanceSuffices(w)
      PROVE  Kept
  BY <1>7 DEF BalanceRefuses, BalanceSuffices
<1>8. ASSUME NEW w \in Workers, OrderPlaced(w)
      PROVE  Kept
  <2>1. afterKill[w] = 0 /\ (counted[w] => afterLimit[w] = 0)
    BY <1>8 DEF OrderPlaced
  <2>2. /\ afterKill' = [afterKill EXCEPT ![w] = IF kill THEN @ + 1 ELSE @]
        /\ afterLimit' = [afterLimit EXCEPT ![w] =
                            IF TooManyLosses /\ counted[w] THEN @ + 1 ELSE @]
    BY <1>8 DEF OrderPlaced, Counting
  <2>3. step' = [step EXCEPT ![w] = "stub"] /\ UNCHANGED <<account, counted>>
    BY <1>8 DEF OrderPlaced
  <2> QED BY <2>1, <2>2, <2>3
<1>9. ASSUME NEW w \in Workers,
             OrderFails(w) \/ StubFails(w) \/ StubWritten(w) \/ FillHandled(w)
      PROVE  Kept
  BY <1>9 DEF OrderFails, StubFails, StubWritten, FillHandled
<1>10. ASSUME NEW s \in Symbols, NEW loss \in BOOLEAN,
              StrayAppears(s) \/ Closes(s, loss)
       PROVE  Kept
  BY <1>10 DEF StrayAppears, Closes
<1>11. CASE LossCounted
  BY <1>11 DEF LossCounted
<1>12. CASE DayEnds
  BY <1>12 DEF DayEnds, None
<1>13. CASE Killed
  BY <1>13 DEF Killed
<1>14. CASE Restarts
  BY <1>14 DEF Restarts
<1>15. CASE UNCHANGED vars
  BY <1>15 DEF vars
<1> HIDE DEF GInv, TypeOK, NothingBefore, PastReads, LimitsStop,
         account, history, flow, AtRest, GoesTo, TooManyLosses
<1> QED BY <1>1, <1>2, <1>3, <1>4, <1>5, <1>6, <1>7, <1>8, <1>9, <1>10, <1>11,
           <1>12, <1>13, <1>14, <1>15 DEF Next, Executes, Meanwhile

\* Under a limit each goroutine sends at most one more order.
THEOREM LimitsStopOrders == Spec => []LimitsStop
<1>1. Init => GInv
  BY InitType, InitLimits DEF GInv
<1>2. GInv /\ [Next]_vars => GInv'
  BY NextType, NextLimits DEF GInv
<1>3. GInv => LimitsStop
  BY DEF GInv
<1> QED BY <1>1, <1>2, <1>3, PTL DEF Spec

-----------------------------------------------------------------------------
(* The refinement.                                                         *)

\* The instance counts as this module does.
LEMMA SameCardinality == \A S : Book!Cardinality(S) = Cardinality(S)
  BY DEF Book!Cardinality, Cardinality

\* The cached positions are finitely many, so not too many is few enough.
LEMMA SmallIsNotFull ==
  ASSUME TypeOK, ~Full
  PROVE  Cardinality(positions) <= MaxPositions
<1>1. Cardinality(positions) \in Nat
  BY ConstantsAssumption, FS_Subset, FS_CardinalityType DEF TypeOK
<1> QED BY <1>1, ConstantsAssumption DEF Full

LEMMA InitBook == ASSUME Init PROVE Book!BookInit
  BY DEF Init, Book!BookInit, HeldSymbol, Admitted

LEMMA StepBook ==
  ASSUME TypeOK, [Next]_vars
  PROVE  [Book!BookNext]_(Book!bookVars)
<1> USE DEF TypeOK, HeldSymbol, Admitted, account, history, flow, AtRest, GoesTo
<1> DEFINE Stutters == UNCHANGED Book!bookVars
           Drops(w) == Book!GiveUp({w})
<1>1. ASSUME NEW w \in Workers, NEW s \in Symbols, HandedOver(w, s)
      PROVE  Stutters
  BY <1>1 DEF HandedOver, Book!bookVars
<1>2. ASSUME NEW w \in Workers, NEW mode \in Modes, NEW score \in Scores,
             Screened(w, mode, score)
      PROVE  Stutters
  BY <1>2 DEF Screened, Book!bookVars
<1>3. ASSUME NEW w \in Workers, KillRead(w) \/ BalanceSuffices(w) \/ LossesUnknown(w)
                                \/ OrderPlaced(w)
      PROVE  Stutters
  BY <1>3 DEF KillRead, BalanceSuffices, LossesUnknown, OrderPlaced, Book!bookVars
<1>4. ASSUME NEW w \in Workers, PositionsRead(w)
      PROVE  Stutters \/ \E s \in Symbols : Book!Admit(w, s)
  <2>1. CASE AtRest(w)
    BY <1>4, <2>1 DEF PositionsRead, Book!bookVars
  <2>2. CASE ~Blocks(sym[w]) /\ GoesTo(w, "losses")
    <3>1. sym[w] \in Symbols
      BY <1>4 DEF PositionsRead
    <3>2. PICK s \in Symbols : s = sym[w]
      BY <3>1
    <3>3. Cardinality(positions) <= MaxPositions /\ s \notin positions
      BY <2>2, <3>2, SmallIsNotFull DEF Blocks
    <3>4. HeldSymbol' = [HeldSymbol EXCEPT ![w] = s] /\ UNCHANGED <<positions, strays>>
      BY <1>4, <2>2, <3>2 DEF PositionsRead
    <3> QED BY <3>3, <3>4, SameCardinality DEF Book!Admit
  <2> QED BY <1>4, <2>1, <2>2 DEF PositionsRead
<1>5. ASSUME NEW w \in Workers, LossesRead(w)
      PROVE  Stutters \/ Drops(w)
  BY <1>5 DEF LossesRead, Book!GiveUp, Book!bookVars
<1>6. ASSUME NEW w \in Workers, BalanceRefuses(w) \/ OrderFails(w) \/ StubFails(w)
      PROVE  Drops(w)
  BY <1>6 DEF BalanceRefuses, OrderFails, StubFails, Book!GiveUp
<1>7. ASSUME NEW w \in Workers, StubWritten(w)
      PROVE  Book!Enter(w)
  BY <1>7, ConstantsAssumption DEF StubWritten, Book!Enter
<1>8. ASSUME NEW w \in Workers, FillHandled(w)
      PROVE  Book!EnterEarly(w)
  BY <1>8, ConstantsAssumption DEF FillHandled, Book!EnterEarly
<1>9. ASSUME NEW s \in Symbols, StrayAppears(s)
      PROVE  Book!Appear(s)
  BY <1>9 DEF StrayAppears, Book!Appear
<1>10. ASSUME NEW s \in Symbols, NEW loss \in BOOLEAN, Closes(s, loss)
       PROVE  Book!Leave(s)
  BY <1>10 DEF Closes, Book!Leave
<1>11. CASE LossCounted \/ DayEnds \/ Killed
  BY <1>11 DEF LossCounted, DayEnds, Killed, Book!bookVars
<1>12. CASE Restarts
  <2>1. Book!GiveUp(Workers)
    BY <1>12 DEF Restarts, Book!GiveUp
  <2> QED BY <2>1 DEF Book!BookNext
<1>13. CASE UNCHANGED vars
  BY <1>13 DEF vars, Book!bookVars
<1>14. ASSUME NEW w \in Workers, Drops(w)
       PROVE  Book!BookNext
  BY <1>14 DEF Book!BookNext
<1> HIDE DEF TypeOK, HeldSymbol, Admitted, account, history, flow, AtRest, GoesTo
<1> QED BY <1>1, <1>2, <1>3, <1>4, <1>5, <1>6, <1>7, <1>8, <1>9, <1>10, <1>11,
           <1>12, <1>13, <1>14 DEF Next, Executes, Meanwhile, Book!BookNext

\* Every behaviour of the entry path is one of the book.
THEOREM Implementation == Spec => ImplementsBook
<1>1. Init => Book!BookInit
  BY InitBook
<1>2. TypeOK /\ [Next]_vars => [Book!BookNext]_(Book!bookVars)
  BY StepBook
<1> QED BY <1>1, <1>2, TypeCorrect, PTL DEF Spec, ImplementsBook, Book!BookSpec

-----------------------------------------------------------------------------
(* The bound of the book, which is its own inductive invariant: a goroutine *)
(* is admitted to a small book, and no other step claims a symbol.          *)

BookType ==
  /\ positions \subseteq Symbols
  /\ HeldSymbol \in [Workers -> Symbols \cup {NoSymbol}]

BookInv == BookType /\ PositionBound

\* There are two goroutines.
LEMMA TwoWorkers == IsFiniteSet(Workers) /\ Cardinality(Workers) = 2
<1>1. IsFiniteSet({}) /\ Cardinality({}) = 0
  BY FS_EmptySet
<1>2. IsFiniteSet({"scheduler"}) /\ Cardinality({"scheduler"}) = 1
  BY <1>1, FS_AddElement, FS_Singleton
<1>3. Workers = {"scheduler"} \cup {"trigger"}
  BY DEF Workers
<1> QED BY <1>2, <1>3, FS_AddElement

\* So the maximum may be exceeded by one symbol for each goroutine.
LEMMA SameBound == PositionBound <=> Book!Bounded
  BY TwoWorkers, SameCardinality DEF PositionBound, Book!Bounded

\* The symbols held are no more than the goroutines.
LEMMA HeldFinite ==
  ASSUME BookType
  PROVE  IsFiniteSet(Book!Held) /\ Cardinality(Book!Held) <= 2
<1>1. HeldSymbol \in Surjection(Workers, Book!Held)
  <2>1. HeldSymbol \in [Workers -> Book!Held]
    BY DEF BookType, Book!Held
  <2>2. \A h \in Book!Held : \E w \in Workers : HeldSymbol[w] = h
    BY DEF Book!Held
  <2> QED BY <2>1, <2>2 DEF Surjection
<1> QED BY <1>1, TwoWorkers, FS_Surjection

\* What is claimed is finite, so its subsets are smaller.
LEMMA ClaimedFinite ==
  ASSUME BookType
  PROVE  IsFiniteSet(Book!Claimed) /\ Cardinality(Book!Claimed) \in Nat
<1>1. Book!Claimed \in SUBSET Symbols
  BY DEF Book!Claimed, Book!Held, BookType
<1>2. IsFiniteSet(Book!Claimed)
  BY <1>1, ConstantsAssumption, FS_Subset
<1> QED BY <1>2, FS_CardinalityType

\* A small book is within the bound whatever the goroutines hold.
LEMMA SmallBook ==
  ASSUME BookType, Cardinality(positions) <= MaxPositions
  PROVE  PositionBound
<1> DEFINE H == Book!Held
<1>1. IsFiniteSet(positions)
  BY ConstantsAssumption, FS_Subset DEF BookType
<1>2. IsFiniteSet(H) /\ Cardinality(H) <= 2
  BY HeldFinite
<1>3. /\ IsFiniteSet(positions \cup H)
      /\ Cardinality(positions \cup H)
           = Cardinality(positions) + Cardinality(H) - Cardinality(positions \cap H)
  BY <1>1, <1>2, FS_Union
<1>4. Book!Claimed \in SUBSET (positions \cup H)
  BY DEF Book!Claimed
<1>5. Cardinality(Book!Claimed) <= Cardinality(positions \cup H)
  BY <1>3, <1>4, FS_Subset
<1>6. IsFiniteSet(positions \cap H)
  <2>1. positions \cap H \in SUBSET positions
    OBVIOUS
  <2> QED BY <1>1, <2>1, FS_Subset
<1>7. /\ Cardinality(positions) \in Nat /\ Cardinality(H) \in Nat
      /\ Cardinality(positions \cap H) \in Nat /\ Cardinality(Book!Claimed) \in Nat
  BY <1>1, <1>2, <1>6, ClaimedFinite, FS_CardinalityType
<1> QED BY <1>2, <1>3, <1>5, <1>7, ConstantsAssumption DEF PositionBound

\* A step of the book that claims nothing.
LEMMA ClaimsNothing ==
  ASSUME BookInv, Book!Claimed' \in SUBSET Book!Claimed
  PROVE  PositionBound'
<1>1. IsFiniteSet(Book!Claimed) /\ Cardinality(Book!Claimed) \in Nat
  BY ClaimedFinite DEF BookInv
<1>2. IsFiniteSet(Book!Claimed') /\ Cardinality(Book!Claimed') <= Cardinality(Book!Claimed)
  BY <1>1, FS_Subset
<1>3. Cardinality(Book!Claimed') \in Nat
  BY <1>2, FS_CardinalityType
<1> QED BY <1>1, <1>2, <1>3, ConstantsAssumption DEF BookInv, PositionBound

LEMMA InitBound == ASSUME Book!BookInit PROVE BookInv
<1>1. BookType
  BY DEF Book!BookInit, BookType
<1>2. Cardinality(positions) <= MaxPositions
  <2>1. Cardinality({}) = 0
    BY FS_EmptySet
  <2> QED BY <2>1, ConstantsAssumption DEF Book!BookInit
<1> QED BY <1>1, <1>2, SmallBook DEF BookInv

LEMMA NextBound ==
  ASSUME BookInv, [Book!BookNext]_(Book!bookVars)
  PROVE  BookInv'
<1>1. BookType'
  BY DEF BookInv, BookType, Book!BookNext, Book!bookVars, Book!Admit, Book!GiveUp,
         Book!EnterEarly, Book!Enter, Book!Leave, Book!Appear
<1>2. ASSUME NEW w \in Workers, NEW s \in Symbols, Book!Admit(w, s)
      PROVE  PositionBound'
  <2>1. (Cardinality(positions) <= MaxPositions)'
    BY <1>2, SameCardinality DEF Book!Admit
  <2> QED BY <1>1, <2>1, SmallBook, PTL
<1>3. ASSUME NEW W \in SUBSET Workers, Book!GiveUp(W)
      PROVE  Book!Claimed' \in SUBSET Book!Claimed
  BY <1>3 DEF Book!GiveUp, Book!Claimed, Book!Held
<1>4. ASSUME NEW w \in Workers, Book!EnterEarly(w)
      PROVE  Book!Claimed' \in SUBSET Book!Claimed
  BY <1>4 DEF Book!EnterEarly, Book!Claimed, Book!Held
<1>5. ASSUME NEW w \in Workers, Book!Enter(w)
      PROVE  Book!Claimed' \in SUBSET Book!Claimed
  BY <1>5 DEF Book!Enter, Book!Claimed, Book!Held, BookInv, BookType
<1>6. ASSUME NEW s \in Symbols, Book!Leave(s) \/ Book!Appear(s)
      PROVE  Book!Claimed' \in SUBSET Book!Claimed
  BY <1>6 DEF Book!Leave, Book!Appear, Book!Claimed, Book!Held
<1>7. ASSUME UNCHANGED Book!bookVars
      PROVE  Book!Claimed' \in SUBSET Book!Claimed
  BY <1>7 DEF Book!bookVars, Book!Claimed, Book!Held
<1> QED BY <1>1, <1>2, <1>3, <1>4, <1>5, <1>6, <1>7, ClaimsNothing
        DEF BookInv, Book!BookNext

\* The book keeps within its bound for ever: two goroutines may both look at
\* it before either enters (engine.go:126 to :227), and no more than two.
THEOREM BookBounded == Book!BookSpec => []Book!Bounded
<1>1. Book!BookInit => BookInv
  BY InitBound
<1>2. BookInv /\ [Book!BookNext]_(Book!bookVars) => BookInv'
  BY NextBound
<1>3. BookInv => Book!Bounded
  BY SameBound DEF BookInv
<1> QED BY <1>1, <1>2, <1>3, PTL DEF Book!BookSpec

\* The positions cached or on their way exceed the maximum by at most two.
THEOREM PositionsBounded == Spec => []PositionBound
<1>1. Book!Bounded => PositionBound
  BY SameBound
<1> QED BY <1>1, Implementation, BookBounded, PTL DEF ImplementsBook

=============================================================================
