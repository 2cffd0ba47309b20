---------------------------- MODULE RecoveryProofs ----------------------------
(***************************************************************************)
(* Theorems about Recovery: types and agreement for every number of        *)
(* deaths; for the first restart of an undisturbed process, protection by  *)
(* the reconciliation and, from then on, no position naked for good.       *)
(***************************************************************************)
EXTENDS Recovery, PositionManagerProofs

-----------------------------------------------------------------------------
(* Type correctness.                                                       *)

\* With RecTypeOK: while Reconcile works on what it has read, nothing but the
\* exchange runs, which only takes from the position.
RecInv ==
  /\ TInv
  /\ proc \in {"up", "down", "read", "reconciled"}
  /\ found \in [held: Nat, limits: SUBSET OrderIds]
  /\ crashes \in 0 .. MaxCrashes
  /\ rehydrated \subseteq Trades
  /\ proc = "read" => held <= found.held

Bounds == ConstantsAssumption /\ CrashesAssumption

\* What a reconciliation places: a stop, then a TP1.
StopMade(t, stop) == IF stop THEN <<Opened("STOP", t, 0)>> ELSE <<>>
TpMade(t, q, tp) == IF tp THEN <<Opened("TP1", t, q)>> ELSE <<>>

LEMMA PairPlaced ==
  ASSUME ConstantsAssumption, TInv, NEW t \in Trades, NEW q \in Nat,
         NEW stop \in BOOLEAN, NEW tp \in BOOLEAN,
         used + Len(StopMade(t, stop)) + Len(TpMade(t, q, tp)) <= MaxOrders,
         orders' = Accepted(StopMade(t, stop) \o TpMade(t, q, tp)),
         used' = used + Len(StopMade(t, stop)) + Len(TpMade(t, q, tp))
  PROVE  /\ Orderly
         /\ Len(StopMade(t, stop)) = IF stop THEN 1 ELSE 0
         /\ Len(TpMade(t, q, tp)) = IF tp THEN 1 ELSE 0
         /\ stop => orders'[used + 1] = Opened("STOP", t, 0) /\ used + 1 \in OrderIds
         /\ \A i \in 1 .. used : orders'[i] = orders[i]
<1> DEFINE stops == StopMade(t, stop)
           tps == TpMade(t, q, tp)
           new == stops \o tps
<1>1. used \in Nat /\ MaxOrders \in Nat /\ used <= MaxOrders
  BY Basics
<1>2. Opened("STOP", t, 0) \in Placed /\ Opened("TP1", t, q) \in Placed
  BY OrderMade DEF Kinds, Resting
<1>3. /\ stops \in Seq(Placed) /\ Len(stops) = IF stop THEN 1 ELSE 0
      /\ tps \in Seq(Placed) /\ Len(tps) = IF tp THEN 1 ELSE 0
  BY <1>2, AtMostOne DEF StopMade, TpMade
<1>4. stop => stops[1] = Opened("STOP", t, 0)
  BY DEF StopMade
<1> HIDE DEF stops, tps
<1>5. new \in Seq(Placed) /\ Len(new) = Len(stops) + Len(tps)
  BY <1>3, ConcatProperties
<1>6. stop => new[1] = Opened("STOP", t, 0)
  <2>1. stop => 1 \in 1 .. Len(stops) + Len(tps) /\ 1 <= Len(stops)
    BY <1>3
  <2> QED BY <1>3, <1>4, <2>1, ConcatProperties
<1>7. orders' = Accepted(new) /\ used' = used + Len(new) /\ used + Len(new) <= MaxOrders
  BY <1>1, <1>3, <1>5 DEF stops, tps
<1> HIDE DEF new
<1>8. Orderly
  BY <1>5, <1>7, Placing
<1>9. stop => orders'[used + 1] = new[1] /\ used + 1 \in OrderIds
  <2>1. Len(new) \in Nat /\ (stop => Len(new) >= 1)
    BY <1>3, <1>5
  <2>2. stop => used + 1 \in OrderIds /\ used + 1 \in used + 1 .. used + Len(new)
    BY <1>1, <1>7, <2>1 DEF OrderIds
  <2>3. (used + 1) - used = 1
    BY <1>1
  <2> QED BY <1>7, <2>2, <2>3 DEF Accepted
<1>10. \A i \in 1 .. used : orders'[i] = orders[i]
  BY <1>1, <1>5, <1>7 DEF Accepted, OrderIds
<1> QED BY <1>3, <1>6, <1>8, <1>9, <1>10 DEF stops, tps

LEMMA DiesType ==
  ASSUME Bounds, RecInv, Dies, Orderly,
         inserts' \in [Trades -> Nat], closes' \in [Trades -> Nat],
         reason' \in [Trades -> CloseReasons \cup {"NONE"}]
  PROVE  RecInv'
<1>1. TInv'
  BY DEF Bounds, ConstantsAssumption, Dies, RecInv, TInv, Orderly, cache, Ref
<1>2. crashes' \in 0 .. MaxCrashes
  BY DEF Bounds, CrashesAssumption, Dies, RecInv
<1> QED BY <1>1, <1>2 DEF Dies, RecInv

LEMMA DyingType ==
  ASSUME Bounds, RecInv, Dying
  PROVE  RecInv' /\ Orderly
<1>1. ConstantsAssumption /\ TInv
  BY DEF Bounds, RecInv
<1>2. CASE DiesIdle
  <2>1. Orderly
    BY <1>1, <1>2, Orderless DEF DiesIdle
  <2> QED BY <1>1, <1>2, <2>1, DiesType DEF DiesIdle, history, TInv
<1>3. ASSUME NEW t \in Trades, NEW n \in 1 .. 3, NEW recorded \in BOOLEAN,
             DiesFinalizing(t, n, recorded)
      PROVE  RecInv' /\ Orderly
  <2> DEFINE all == <<Opened("STOP", t, 0), Opened("TP1", t, Tp1Qty), Opened("TP2", t, Tp2Qty)>>
             new == SubSeq(all, 1, n)
  <2>1. all \in Seq(Placed) /\ Len(all) = 3
    <3>1. /\ Opened("STOP", t, 0) \in Placed /\ Opened("TP1", t, Tp1Qty) \in Placed
          /\ Opened("TP2", t, Tp2Qty) \in Placed
      BY OrderMade DEF Kinds, Tp1Qty, Tp2Qty, Resting
    <3> QED BY <3>1
  <2>2. orders' = Accepted(new) /\ used' = used + n /\ used + n <= MaxOrders
    BY <1>3 DEF DiesFinalizing
  <2> HIDE DEF all
  <2>3. new \in Seq(Placed) /\ Len(new) = n
    <3>1. \A i \in 1 .. n : all[i] \in Placed
      <4> TAKE i \in 1 .. n
      <4>1. i \in 1 .. Len(all)
        BY <2>1
      <4> QED BY <2>1, <4>1, ElementOfSeq
    <3>2. 1 \in Int /\ n \in Int /\ 1 <= n
      OBVIOUS
    <3>3. new \in Seq(Placed) /\ Len(new) = IF 1 <= n THEN n - 1 + 1 ELSE 0
      BY ONLY <3>1, <3>2, SubSeqProperties
    <3> QED BY <3>2, <3>3
  <2> HIDE DEF new
  <2>4. Orderly
    BY <1>1, <2>2, <2>3, Placing
  <2>5. inserts' \in [Trades -> Nat] /\ closes' = closes /\ reason' = reason
    <3>1. inserts' = IF recorded THEN [inserts EXCEPT ![t] = @ + 1] ELSE inserts
      BY <1>3 DEF DiesFinalizing
    <3>2. closes' = closes /\ reason' = reason
      BY <1>3 DEF DiesFinalizing
    <3>3. inserts \in [Trades -> Nat]
      BY <1>1 DEF TInv
    <3>4. [inserts EXCEPT ![t] = @ + 1] \in [Trades -> Nat]
      BY <3>3, CountedType
    <3> QED BY <3>1, <3>2, <3>3, <3>4
  <2> QED BY <1>1, <1>3, <2>4, <2>5, DiesType DEF DiesFinalizing, TInv
<1>4. ASSUME NEW placed \in BOOLEAN, DiesReplacing(placed)
      PROVE  RecInv' /\ Orderly
  <2>1. pos \in Position
    BY <1>1, <1>4 DEF DiesReplacing, TInv
  <2>2. EntryStop(pos.trade) \in Placed
    BY <2>1, OrderMade DEF EntryStop, Position, Kinds, Resting
  <2>3. Orderly
    BY <1>1, <1>4, <2>2, Replacing, Cancelling DEF DiesReplacing
  <2> QED BY <1>1, <1>4, <2>3, DiesType DEF DiesReplacing, history, TInv
<1>5. ASSUME NEW stored \in BOOLEAN, DiesClosing(stored)
      PROVE  RecInv' /\ Orderly
  <2>1. pos \in Position
    BY <1>1, <1>5 DEF DiesClosing, TInv
  <2>2. Orderly
    BY <1>1, <1>5, Cancelling DEF DiesClosing
  <2>3. Ending.reason \in CloseReasons
    BY DEF Ending, CloseReasons
  <2>4. closes' \in [Trades -> Nat] /\ reason' \in [Trades -> CloseReasons \cup {"NONE"}]
    <3> DEFINE r == Ending.reason
    <3>1. /\ closes' = IF stored THEN [closes EXCEPT ![pos.trade] = @ + 1] ELSE closes
          /\ reason' = IF stored THEN [reason EXCEPT ![pos.trade] = r] ELSE reason
      BY <1>5 DEF DiesClosing
    <3> HIDE DEF r
    <3>2. r \in CloseReasons
      BY <2>3 DEF r
    <3>3. closes \in [Trades -> Nat] /\ reason \in [Trades -> CloseReasons \cup {"NONE"}]
      BY <1>1 DEF TInv
    <3>4. pos.trade \in Trades
      BY <2>1 DEF Position
    <3>5. closes' \in [Trades -> Nat]
      BY ONLY <3>1, <3>3, <3>4
    <3>6. reason' \in [Trades -> CloseReasons \cup {"NONE"}]
      BY ONLY <3>1, <3>2, <3>3, <3>4
    <3> QED BY <3>5, <3>6
  <2> QED BY <1>1, <1>5, <2>2, <2>4, DiesType DEF DiesClosing, TInv
<1> QED BY <1>2, <1>3, <1>4, <1>5 DEF Dying

LEMMA RehydratesType ==
  ASSUME Bounds, RecInv, NEW stop \in BOOLEAN, NEW tp \in BOOLEAN, Rehydrates(stop, tp)
  PROVE  RecInv' /\ Orderly /\ pos' # NoPosition
<1> DEFINE t == trade + 1
           q == found.held \div 2
           n == used + Len(StopMade(t, stop))
<1>1. ConstantsAssumption /\ TInv
  BY DEF Bounds, RecInv
<1>2. used \in Nat /\ MaxOrders \in Nat
  BY <1>1, Basics
<1>3. t \in Trades /\ trade' = t
  BY <1>1 DEF Rehydrates, TInv, Trades, ConstantsAssumption
<1>4. q \in Nat /\ found.held \in Nat
  BY DEF RecInv
<1>5. /\ n + Len(TpMade(t, q, tp)) <= MaxOrders
      /\ orders' = Accepted(StopMade(t, stop) \o TpMade(t, q, tp))
      /\ used' = n + Len(TpMade(t, q, tp))
      /\ \E sl \in IF stop THEN {n} ELSE IF found.limits = {} THEN {0} ELSE found.limits :
           pos' = [Stub(t) EXCEPT !.sl = sl, !.tp = IF tp THEN n + 1 ELSE 0,
                                  !.qty = found.held, !.orig = found.held]
      /\ inserts' = [inserts EXCEPT ![t] = @ + 1]
      /\ rehydrated' = rehydrated \cup {t}
  BY DEF Rehydrates, StopMade, TpMade
<1> HIDE DEF t, q
<1>6. /\ Orderly
      /\ Len(StopMade(t, stop)) = IF stop THEN 1 ELSE 0
      /\ Len(TpMade(t, q, tp)) = IF tp THEN 1 ELSE 0
  BY <1>1, <1>3, <1>4, <1>5, PairPlaced
<1>7. pos' \in Position /\ pos'.trade = t
  <2>1. (stop => n \in Ref) /\ (tp => n + 1 \in Ref) /\ 0 \in Ref
    BY <1>2, <1>5, <1>6 DEF Ref
  <2>2. found.limits \subseteq Ref
    BY DEF RecInv, Ref, OrderIds
  <2> DEFINE b == IF tp THEN n + 1 ELSE 0
  <2>3. PICK sl \in IF stop THEN {n} ELSE IF found.limits = {} THEN {0} ELSE found.limits :
          pos' = [Stub(t) EXCEPT !.sl = sl, !.tp = b, !.qty = found.held, !.orig = found.held]
    BY <1>5
  <2>4. sl \in Ref /\ b \in Ref
    BY <2>1, <2>2
  <2> HIDE DEF b, n
  <2>5. Stub(t) \in Position
    BY <1>1, <1>3, StubType
  <2>6. pos' = [trade |-> t, sl |-> sl, tp |-> b, tp2 |-> 0, tsl |-> 0, tp1 |-> FALSE, be |-> FALSE,
                wide |-> FALSE, fee |-> FALSE, qty |-> found.held, orig |-> found.held]
    BY <2>3 DEF Stub
  <2> QED BY <1>3, <1>4, <2>1, <2>4, <2>6 DEF Position
<1>8. faults' \in 0 .. MaxFaults
  <2> DEFINE k == (IF found.limits = {} THEN StopFault(stop) ELSE 0) + FaultIfNot(tp)
  <2>1. k \in Nat
    BY DEF StopFault, FaultIfNot
  <2>2. Fail(k)
    BY DEF Rehydrates
  <2> HIDE DEF k
  <2> QED BY <1>1, <2>1, <2>2, FailType DEF TInv
<1>9. events' \in Seq(1 .. used')
  BY <1>1, <1>6, EventsKept DEF Rehydrates, Reconciles, TInv
<1>10. inserts' \in [Trades -> Nat] /\ rehydrated' \subseteq Trades
  <2>1. inserts \in [Trades -> Nat] /\ rehydrated \subseteq Trades
    BY DEF TInv, RecInv
  <2>2. inserts' = [inserts EXCEPT ![t] = @ + 1] /\ rehydrated' = rehydrated \cup {t}
    BY <1>5
  <2> QED BY <1>3, <2>1, <2>2
<1>11. pos' # NoPosition
  BY <1>3, <1>7 DEF NoPosition, Trades
<1>12. TInv'
  <2>1. trade' \in 0 .. MaxTrades
    BY <1>3 DEF Trades
  <2>2. /\ held' = held /\ pending' = pending /\ pp' = pp /\ fclose' = fclose
        /\ eng' = eng /\ ws' = ws /\ at' = at /\ snap' = snap /\ lost' = lost
        /\ closes' = closes /\ reason' = reason
    BY DEF Rehydrates, Reconciles, loops
  <2> QED BY <1>1, <1>6, <1>7, <1>8, <1>9, <1>10, <2>1, <2>2 DEF TInv, Orderly
<1> QED BY <1>6, <1>10, <1>11, <1>12 DEF Rehydrates, Reconciles, RecInv, NothingFound

LEMMA ReplacesType ==
  ASSUME Bounds, RecInv, NEW stop \in BOOLEAN, NEW tp \in BOOLEAN, Replaces(stop, tp)
  PROVE  RecInv' /\ Orderly /\ pos' # NoPosition
<1> DEFINE n == used + Len(StopMade(pos.trade, stop))
<1>1. ConstantsAssumption /\ TInv
  BY DEF Bounds, RecInv
<1>2. used \in Nat /\ MaxOrders \in Nat /\ pos \in Position
  BY <1>1, Basics DEF Replaces, TInv
<1>3. pos.trade \in Trades /\ pos.orig \in Nat
  BY <1>2 DEF Position
<1>4. /\ n + Len(TpMade(pos.trade, pos.orig, tp)) <= MaxOrders
      /\ orders' = Accepted(StopMade(pos.trade, stop) \o TpMade(pos.trade, pos.orig, tp))
      /\ used' = n + Len(TpMade(pos.trade, pos.orig, tp))
      /\ \/ pos' = pos
         \/ pos' = [pos EXCEPT !.sl = IF stop THEN n ELSE @, !.tp = IF tp THEN n + 1 ELSE @]
  BY DEF Replaces, StopMade, TpMade
<1>5. /\ Orderly
      /\ Len(StopMade(pos.trade, stop)) = IF stop THEN 1 ELSE 0
      /\ Len(TpMade(pos.trade, pos.orig, tp)) = IF tp THEN 1 ELSE 0
  BY <1>1, <1>3, <1>4, PairPlaced
<1>6. pos' \in Position
  <2>1. (stop => n \in Ref) /\ (tp => n + 1 \in Ref)
    BY <1>2, <1>4, <1>5 DEF Ref
  <2> DEFINE a == IF stop THEN n ELSE pos.sl
             b == IF tp THEN n + 1 ELSE pos.tp
  <2>2. a \in Ref /\ b \in Ref
    BY <1>2, <2>1 DEF Position
  <2>3. pos' = pos \/ pos' = [pos EXCEPT !.sl = a, !.tp = b]
    BY <1>4
  <2> HIDE DEF a, b, n
  <2> QED BY <1>2, <2>2, <2>3 DEF Position
<1>7. faults' \in 0 .. MaxFaults
  <2> DEFINE k == IF IsStub(pos) THEN 0
                  ELSE IF Missing(pos.sl) /\ ~stop THEN StopFault(stop)
                  ELSE IF Missing(pos.tp) THEN FaultIfNot(tp) ELSE 0
  <2>1. k \in Nat
    BY DEF StopFault, FaultIfNot
  <2>2. Fail(k)
    BY DEF Replaces
  <2> HIDE DEF k
  <2> QED BY <1>1, <2>1, <2>2, FailType DEF TInv
<1>8. events' \in Seq(1 .. used')
  BY <1>1, <1>5, EventsKept DEF Replaces, Reconciles, TInv
<1>9. pos' # NoPosition
  BY <1>6 DEF NoPosition, Position, Trades
<1>10. TInv'
  BY <1>1, <1>5, <1>6, <1>7, <1>8 DEF Replaces, Reconciles, TInv, Orderly, loops, history
<1> QED BY <1>5, <1>9, <1>10 DEF Replaces, Reconciles, RecInv, NothingFound

LEMMA ReconcileType ==
  ASSUME Bounds, RecInv, Reconcile
  PROVE  RecInv'
<1>1. ConstantsAssumption /\ TInv
  BY DEF Bounds, RecInv
<1>2. CASE Reads
  <2>1. TInv'
    BY <1>1, <1>2, NextType DEF Reads
  <2>2. found' \in [held: Nat, limits: SUBSET OrderIds] /\ held' <= found'.held
    BY <1>1, <1>2 DEF Reads, TInv, vars, exchange
  <2> QED BY <1>2, <2>1, <2>2 DEF Reads, RecInv
<1>3. CASE ReadFails
  <2>1. Orderly
    BY <1>1, <1>3, Orderless DEF ReadFails, exchange
  <2>2. faults' \in 0 .. MaxFaults
    BY <1>1, <1>3, FailType DEF ReadFails, TInv
  <2>3. TInv'
    BY <1>1, <1>3, <2>1, <2>2 DEF ReadFails, TInv, Orderly, exchange, cache, loops, history
  <2> QED BY <1>3, <2>3 DEF ReadFails, RecInv
<1>4. CASE Agrees
  <2>1. Orderly
    BY <1>1, <1>4, Orderless DEF Agrees
  <2>2. TInv'
    BY <1>1, <1>4, <2>1 DEF Agrees, Reconciles, TInv, Orderly, loops, history
  <2> QED BY <1>4, <2>2 DEF Agrees, Reconciles, RecInv, NothingFound
<1>5. CASE CleansUp
  <2>1. Orderly
    BY <1>1, <1>5, Orderless DEF CleansUp
  <2>2. /\ closes' \in [Trades -> Nat] /\ reason' \in [Trades -> CloseReasons \cup {"NONE"}]
        /\ pos' = NoPosition
    <3>1. pos.trade \in Trades
      BY <1>1, <1>5 DEF CleansUp, TInv, Position
    <3>2. closes' \in [Trades -> Nat]
      BY <1>1, <1>5, <3>1, CountedType DEF CleansUp, TInv
    <3>3. reason' \in [Trades -> CloseReasons \cup {"NONE"}]
      BY <1>1, <1>5 DEF CleansUp, CloseReasons, TInv
    <3> QED BY <1>5, <3>2, <3>3 DEF CleansUp, Cleaned
  <2>3. TInv'
    BY <1>1, <1>5, <2>1, <2>2 DEF CleansUp, Reconciles, TInv, Orderly, loops
  <2> QED BY <1>5, <2>3 DEF CleansUp, Reconciles, RecInv, NothingFound
<1> QED BY <1>2, <1>3, <1>4, <1>5, RehydratesType, ReplacesType DEF Reconcile

LEMMA ConnectsType == ASSUME Bounds, RecInv, Connects PROVE RecInv'
<1>1. Orderly
  BY Orderless DEF Connects, RecInv, Bounds
<1>2. events' \in Seq(1 .. used')
  BY DEF Connects
<1>3. TInv'
  BY <1>1, <1>2 DEF Connects, RecInv, TInv, Orderly, cache, loops, history
<1> QED BY <1>3 DEF Connects, RecInv

\* What goes on while the process is down only takes from the position.
LEMMA HeldShrinks ==
  ASSUME ConstantsAssumption, TInv, Exchange \/ \E t \in Trades : PendingExpires(t)
  PROVE  held' <= held /\ pos' = pos
<1>1. held \in Nat
  BY DEF TInv
<1>2. ASSUME NEW i \in OrderIds, Executes(i)
      PROVE  held' <= held
  <2>1. orders[i] \in Placed
    BY <1>2, Basics DEF Executes
  <2>2. Least(orders[i].qty, held) \in Nat
    BY <1>1, <2>1 DEF Least, Placed, Order
  <2> QED BY <1>1, <1>2, <2>2 DEF Executes
<1>3. ASSUME NEW i \in OrderIds, Expires(i)
      PROVE  held' <= held
  BY <1>1, <1>3 DEF Expires
<1>4. ClosedByHand \/ EventLost => held' <= held
  BY <1>1 DEF ClosedByHand, EventLost
<1>5. ASSUME NEW t \in Trades, PendingExpires(t)
      PROVE  held' <= held /\ pos' = pos
  BY <1>1, <1>5 DEF PendingExpires, exchange
<1>6. Exchange => pos' = pos
  BY DEF Exchange, Executes, Expires, ClosedByHand, EventLost, cache
<1> QED BY <1>2, <1>3, <1>4, <1>5, <1>6 DEF Exchange

LEMMA RunsType == ASSUME Bounds, RecInv, Runs PROVE RecInv'
<1>1. ConstantsAssumption /\ TInv
  BY DEF Bounds, RecInv
<1>2. Next
  BY DEF Runs, Next, Engine
<1>3. TInv'
  BY <1>1, <1>2, NextType
<1>4. proc = "read" => held' <= held
  BY <1>1, HeldShrinks DEF Runs
<1>5. held \in Nat /\ held' \in Nat
  BY <1>1, <1>3 DEF TInv
<1> QED BY <1>3, <1>4, <1>5 DEF Runs, RecInv

LEMMA RecTyping == RecSpec => []RecInv
<1>1. Bounds
  BY ConstantsAssumption, CrashesAssumption DEF Bounds
<1>2. RecInit => RecInv
  BY <1>1, InitTInv DEF RecInit, RecInv, Bounds, CrashesAssumption, NothingFound
<1>3. RecInv /\ [RecNext]_recVars => RecInv'
  <2> SUFFICES ASSUME RecInv, [RecNext]_recVars PROVE RecInv'
    OBVIOUS
  <2>1. CASE UNCHANGED recVars
    <3>1. UNCHANGED vars
      BY <2>1 DEF recVars
    <3>2. TInv'
      BY <1>1, <3>1, NextType DEF RecInv, Bounds
    <3> QED BY <2>1, <3>1, <3>2 DEF recVars, vars, exchange, RecInv
  <2> QED BY <1>1, <2>1, DyingType, ReconcileType, ConnectsType, RunsType DEF RecNext
<1> QED BY <1>2, <1>3, PTL DEF RecSpec

\* Every variable keeps its type, wherever the process dies and however often.
THEOREM RecTypeCorrect == RecSpec => []RecTypeOK
<1>1. RecInv => RecTypeOK
  BY TInvTypes, ConstantsAssumption DEF RecInv, RecTypeOK
<1> QED BY <1>1, RecTyping, PTL

-----------------------------------------------------------------------------
(* What a reconciliation leaves.                                           *)

LEMMA FinishesBy ==
  ASSUME RecNext, Finishes
  PROVE  \/ Agrees \/ CleansUp
         \/ \E stop, tp \in BOOLEAN : Rehydrates(stop, tp) \/ Replaces(stop, tp)
BY DEF RecNext, Finishes, Dying, DiesIdle, DiesFinalizing, DiesReplacing, DiesClosing, Dies,
       Reconcile, Reads, ReadFails, Connects, Runs

\* Whatever was lost and whichever calls fail: unless the exchange's position
\* changes while Reconcile runs, the cache has one afterwards exactly when
\* the exchange has.
THEOREM AgreesAfterRestart == RecSpec => RestartAgrees
<1> DEFINE Agreed == Finishes /\ held = found.held => (pos' # NoPosition <=> held' > 0)
<1>1. RecInv /\ [RecNext]_recVars => [Agreed]_recVars
  <2> SUFFICES ASSUME RecInv, RecNext, Finishes, held = found.held
               PROVE  pos' # NoPosition <=> held' > 0
    OBVIOUS
  <2>1. held' = held
    BY FinishesBy DEF Agrees, CleansUp, Rehydrates, Replaces, Reconciles
  <2>2. CASE Agrees \/ CleansUp
    BY <2>1, <2>2 DEF Agrees, CleansUp, Cleaned
  <2>3. ASSUME NEW stop \in BOOLEAN, NEW tp \in BOOLEAN, Rehydrates(stop, tp) \/ Replaces(stop, tp)
        PROVE  pos' # NoPosition /\ held' > 0
    BY <2>1, <2>3, RehydratesType, ReplacesType, ConstantsAssumption, CrashesAssumption
       DEF Bounds, Rehydrates, Replaces
  <2> QED BY <2>2, <2>3, FinishesBy
<1> HIDE DEF Agreed
<1>2. RecSpec => [][Agreed]_recVars
  BY <1>1, RecTyping, PTL DEF RecSpec
<1> QED BY <1>2 DEF Agreed, RestartAgrees

\* No take-profit is open.
NoTakeProfits == \A i \in OrderIds : IsOpen(i) => orders[i].kind \notin {"TP1", "TP2"}

\* rehydratePosition takes an open take-profit for the orphan's stop: harmless
\* when there is a stop as well, or no take-profit.
Repairable ==
  pos = NoPosition /\ held > 0 =>
    \/ Stopped
    \/ NoTakeProfits /\ (proc = "read" => found.limits = {})

\* Up to the first death the trades follow the cycle; until the start after
\* it has reconciled, an orphan can be repaired.
FirstRestart ==
  /\ crashes = 0 => proc = "up" /\ OneTrade /\ Recorded /\ (Calm => Cycle)
  /\ crashes = 1 /\ proc \in {"down", "read"} /\ Calm => Repairable

\* While the process is down, a stop that fills ends the position.
LEMMA StopKept ==
  ASSUME ConstantsAssumption, TInv, Exchange \/ \E t \in Trades : PendingExpires(t), held' > 0
  PROVE  (Stopped => Stopped') /\ (NoTakeProfits => NoTakeProfits')
<1>1. held \in Nat
  BY DEF TInv
<1>2. ASSUME NEW i \in OrderIds, Executes(i)
      PROVE  (Stopped => Stopped') /\ (NoTakeProfits => NoTakeProfits')
  <2>1. orders[i].kind # "STOP"
    BY <1>1, <1>2 DEF Executes
  <2>2. orders \in Orders
    BY DEF TInv, Numbered
  <2>3. \A j \in OrderIds : j # i => orders'[j] = orders[j]
    BY <1>2, <2>2 DEF Executes, Orders
  <2>4. orders'[i].st = "filled"
    BY <1>2, <2>2, Basics DEF Executes, Orders, Placed, Order
  <2> QED BY <2>1, <2>3, <2>4 DEF Stopped, NoTakeProfits, IsOpen
<1>3. ASSUME NEW i \in OrderIds, Expires(i)
      PROVE  FALSE
  BY <1>3 DEF Expires
<1>4. ~ClosedByHand
  BY DEF ClosedByHand
<1>5. EventLost \/ (\E t \in Trades : PendingExpires(t)) => orders' = orders
  BY DEF EventLost, PendingExpires, exchange
<1> QED BY <1>2, <1>3, <1>4, <1>5 DEF Exchange, Stopped, NoTakeProfits, IsOpen

\* A trade that follows the cycle has no take-profit before its stop.
LEMMA FirstDeath ==
  ASSUME Bounds, RecInv, Cycle, Dying
  PROVE  pos' = NoPosition /\ held' > 0 => Stopped' \/ NoTakeProfits'
<1> SUFFICES ASSUME pos = NoPosition, held > 0
             PROVE  Stopped' \/ NoTakeProfits'
  BY DEF Dying, DiesIdle, DiesFinalizing, DiesReplacing, DiesClosing, Dies, cache
<1>1. OnlyOpen({})
  BY DEF Cycle, Quiet, Entered, Live, Protected
<1>2. CASE DiesIdle
  BY <1>1, <1>2 DEF DiesIdle, OnlyOpen, NoTakeProfits, IsOpen
<1>3. ASSUME NEW t \in Trades, NEW n \in 1 .. 3, NEW recorded \in BOOLEAN,
             DiesFinalizing(t, n, recorded)
      PROVE  Stopped'
  <2> DEFINE all == <<Opened("STOP", t, 0), Opened("TP1", t, Tp1Qty), Opened("TP2", t, Tp2Qty)>>
             new == SubSeq(all, 1, n)
  <2>1. used \in Nat /\ MaxOrders \in Nat /\ used + 1 \in OrderIds
    <3>1. used \in Nat /\ MaxOrders \in Nat
      BY Basics DEF RecInv, Bounds
    <3>2. used + n <= MaxOrders /\ 1 <= n /\ n \in Nat
      BY <1>3 DEF DiesFinalizing
    <3> QED BY ONLY <3>1, <3>2 DEF OrderIds
  <2>2. Len(new) = n /\ new[1] = Opened("STOP", t, 0)
    OBVIOUS
  <2>3. orders' = Accepted(new)
    BY <1>3 DEF DiesFinalizing
  <2> HIDE DEF new
  <2>4. orders'[used + 1] = Opened("STOP", t, 0)
    BY <2>1, <2>2, <2>3 DEF Accepted
  <2> QED BY <2>1, <2>4 DEF Stopped, IsOpen, Opened
<1>4. ~(\E placed \in BOOLEAN : DiesReplacing(placed)) /\ ~(\E stored \in BOOLEAN : DiesClosing(stored))
  BY DEF DiesReplacing, DiesClosing
<1> QED BY <1>2, <1>3, <1>4 DEF Dying

LEMMA CalmBeforeDeath ==
  ASSUME Bounds, RecInv, Dying, Calm'
  PROVE  Calm
<1>1. faults' = faults /\ lost' = lost
  BY DEF Dying, DiesIdle, DiesFinalizing, DiesReplacing, DiesClosing, Dies
<1>2. Orderly
  BY DyingType
<1>3. \A i \in 1 .. used : orders'[i].kind = orders[i].kind /\ i \in 1 .. used'
  BY <1>2, Basics DEF Orderly, Same, Numbered, Ref, RecInv, Bounds
<1> QED BY <1>1, <1>3 DEF Calm

LEMMA FirstRestartKept ==
  ASSUME Bounds, Prompt, UnlockedLoops = {},
         RecInv, FirstRestart, crashes' <= 1, [RecNext]_recVars
  PROVE  FirstRestart'
<1>1. ConstantsAssumption /\ TInv /\ Timely /\ crashes \in Nat
  BY DEF Bounds, RecInv, Timely
<1>2. CASE Dying
  <2>1. crashes' = crashes + 1 /\ proc' = "down"
    BY <1>2 DEF Dying, DiesIdle, DiesFinalizing, DiesReplacing, DiesClosing, Dies
  <2>2. crashes = 0 /\ crashes' = 1
    BY <1>1, <2>1
  <2>3. Calm' => Repairable'
    BY <1>2, <2>1, <2>2, CalmBeforeDeath, FirstDeath DEF FirstRestart, Repairable
  <2> QED BY <2>2, <2>3 DEF FirstRestart
<1>3. CASE Reads
  <2>1. crashes' = crashes /\ crashes # 0 /\ UNCHANGED vars
    BY <1>3 DEF Reads, FirstRestart
  <2>2. Calm' <=> Calm
    BY <2>1 DEF Calm, vars, exchange
  <2>3. Repairable => Repairable'
    <3>1. NoTakeProfits => found'.limits = {}
      BY <1>3 DEF Reads, NoTakeProfits
    <3>2. /\ pos' = pos /\ held' = held /\ (Stopped' <=> Stopped)
          /\ (NoTakeProfits' <=> NoTakeProfits)
      BY <2>1 DEF vars, exchange, cache, Stopped, NoTakeProfits, IsOpen
    <3> QED BY <3>1, <3>2 DEF Repairable
  <2> QED BY <1>3, <2>1, <2>2, <2>3 DEF FirstRestart, Reads
<1>4. CASE (Reconcile /\ ~Reads) \/ Connects
  <2>1. crashes' = crashes /\ proc # "up" /\ proc' \notin {"down", "read"}
    BY <1>4 DEF Reconcile, ReadFails, Agrees, CleansUp, Rehydrates, Replaces, Reconciles, Connects
  <2> QED BY <2>1 DEF FirstRestart
<1>5. CASE Runs /\ crashes = 0
  <2>1. crashes' = 0 /\ proc' = "up" /\ Next
    BY <1>5 DEF Runs, FirstRestart
  <2>2. OneTrade' /\ Recorded'
    BY <1>1, <1>5, <2>1, NextOnce DEF FirstRestart
  <2>3. Calm' => Cycle'
    BY <1>1, <1>5, <2>1, CalmBefore, NextCycle DEF FirstRestart, Undisturbed
  <2> QED BY <2>1, <2>2, <2>3 DEF FirstRestart
<1>6. CASE Runs /\ crashes # 0
  <2>1. crashes' = crashes /\ proc' = proc /\ found' = found /\ Next
    BY <1>6 DEF Runs, Next, Engine
  <2>2. SUFFICES ASSUME crashes = 1, proc \in {"down", "read"}, Calm'
                 PROVE  Repairable'
    BY <1>6, <2>1 DEF FirstRestart
  <2>3. Exchange \/ \E t \in Trades : PendingExpires(t)
    BY <1>6, <2>2 DEF Runs
  <2>4. Repairable
    BY <1>1, <2>1, <2>2, CalmBefore DEF FirstRestart
  <2>5. held' <= held /\ pos' = pos /\ held \in Nat /\ held' \in Nat
    BY <1>1, <2>1, <2>3, HeldShrinks, NextType DEF TInv
  <2> QED BY <1>1, <2>1, <2>3, <2>4, <2>5, StopKept DEF Repairable
<1>7. CASE UNCHANGED recVars
  <2>1. UNCHANGED <<vars, proc, found, crashes>>
    BY <1>7 DEF recVars
  <2>2. Stopped' = Stopped /\ NoTakeProfits' = NoTakeProfits
    BY <2>1 DEF vars, exchange, Stopped, NoTakeProfits, IsOpen
  <2>3. Repairable' = Repairable /\ Calm' = Calm
    BY <2>1, <2>2 DEF Repairable, Calm, vars, exchange, cache
  <2>4. OneTrade /\ Recorded => OneTrade' /\ Recorded'
    BY <1>1, <2>1, NextOnce
  <2>5. OneTrade /\ Calm /\ Cycle => Cycle'
    BY <1>1, <2>1, <2>3, NextCycle DEF Undisturbed
  <2> QED BY <2>1, <2>3, <2>4, <2>5 DEF FirstRestart
<1> QED BY <1>2, <1>3, <1>4, <1>5, <1>6, <1>7 DEF RecNext

\* The reconciliation's own part: what it must find to protect the position.
LEMMA Repairs ==
  ASSUME Bounds, RecInv, RecNext, Finishes, faults' = 0, held > 0, Repairable
  PROVE  pos' # NoPosition /\ (Stopped' \/ IsStub(pos'))
<1>1. ConstantsAssumption /\ TInv
  BY DEF Bounds, RecInv
<1>2. held \in Nat /\ faults \in Nat /\ found.held > 0 /\ found.held \in Nat
  BY <1>1 DEF RecInv, TInv, Finishes, Bounds, ConstantsAssumption
<1>3. \A n \in Nat : Fail(n) => n = 0
  BY <1>2 DEF Fail
<1>4. ASSUME \A i \in 1 .. used : orders'[i] = orders[i], Stopped
      PROVE  Stopped'
  BY <1>1, <1>4, Basics DEF Stopped, IsOpen
<1>5. ASSUME NEW stop \in BOOLEAN, NEW tp \in BOOLEAN, Rehydrates(stop, tp)
      PROVE  pos' # NoPosition /\ Stopped'
  <2> DEFINE t == trade + 1
             q == found.held \div 2
  <2>1. t \in Trades /\ q \in Nat
    <3>1. t \in Trades
      BY <1>1, <1>5 DEF Rehydrates, TInv, Trades, ConstantsAssumption
    <3>2. q \in Nat
      BY <1>2
    <3> QED BY <3>1, <3>2
  <2>2. /\ used + Len(StopMade(t, stop)) + Len(TpMade(t, q, tp)) <= MaxOrders
        /\ orders' = Accepted(StopMade(t, stop) \o TpMade(t, q, tp))
        /\ used' = used + Len(StopMade(t, stop)) + Len(TpMade(t, q, tp))
    BY <1>5 DEF Rehydrates, StopMade, TpMade
  <2> HIDE DEF t, q
  <2>3. /\ stop => orders'[used + 1] = Opened("STOP", t, 0) /\ used + 1 \in OrderIds
        /\ \A i \in 1 .. used : orders'[i] = orders[i]
    BY <1>1, <2>1, <2>2, PairPlaced
  <2>4. CASE stop
    <3>1. used \in Nat /\ used + 1 # 0
      BY <1>1, Basics
    <3>2. Stopped'
      BY <2>3, <2>4, <3>1 DEF Stopped, IsOpen, Opened
    <3> QED BY <1>5, <3>2, RehydratesType
  <2>5. CASE ~stop /\ found.limits # {}
    BY <1>4, <1>5, <2>3, <2>5, RehydratesType DEF Repairable, Rehydrates, Reconciles
  <2>6. CASE ~stop /\ found.limits = {}
    <3>1. StopFault(stop) \in Nat /\ FaultIfNot(tp) \in Nat
      BY DEF StopFault, FaultIfNot
    <3>2. StopFault(stop) = 0
      BY <1>3, <1>5, <2>6, <3>1 DEF Rehydrates
    <3>3. Stopped
      BY <1>2, <2>6, <3>2 DEF StopFault, FaultIfNot, Stopped
    <3> QED BY <1>4, <1>5, <2>3, <3>3, RehydratesType
  <2> QED BY <2>4, <2>5, <2>6
<1>6. ASSUME NEW stop \in BOOLEAN, NEW tp \in BOOLEAN, Replaces(stop, tp)
      PROVE  pos' # NoPosition /\ (Stopped' \/ IsStub(pos'))
  <2>1. pos \in Position /\ pos.trade \in Trades /\ pos.orig \in Nat
    BY <1>1, <1>6 DEF Replaces, TInv, Position
  <2>2. /\ used + Len(StopMade(pos.trade, stop)) + Len(TpMade(pos.trade, pos.orig, tp)) <= MaxOrders
        /\ orders' = Accepted(StopMade(pos.trade, stop) \o TpMade(pos.trade, pos.orig, tp))
        /\ used' = used + Len(StopMade(pos.trade, stop)) + Len(TpMade(pos.trade, pos.orig, tp))
    BY <1>6 DEF Replaces, StopMade, TpMade
  <2>3. /\ stop => orders'[used + 1] = Opened("STOP", pos.trade, 0) /\ used + 1 \in OrderIds
        /\ \A i \in 1 .. used : orders'[i] = orders[i]
    BY <1>1, <2>1, <2>2, PairPlaced
  <2>4. CASE stop
    <3>1. used \in Nat /\ used + 1 # 0
      BY <1>1, Basics
    <3>2. Stopped'
      BY <2>3, <2>4, <3>1 DEF Stopped, IsOpen, Opened
    <3> QED BY <1>6, <3>2, ReplacesType
  <2>5. CASE IsStub(pos)
    <3>1. ~stop
      BY <1>6, <2>5 DEF Replaces
    <3>2. pos' = pos
      BY <1>6, <3>1 DEF Replaces, Missing
    <3> QED BY <2>5, <3>2 DEF IsStub
  <2>6. CASE ~stop /\ ~IsStub(pos)
    <3>1. StopFault(stop) \in Nat
      BY DEF StopFault, FaultIfNot
    <3>2. StopFault(stop) = 0
      BY <1>3, <1>6, <2>6, <3>1 DEF Replaces, Missing
    <3>3. Stopped
      BY <1>2, <2>6, <3>2 DEF StopFault, FaultIfNot, Stopped
    <3> QED BY <1>4, <1>6, <2>3, <3>3, ReplacesType
  <2> QED BY <2>4, <2>5, <2>6
<1> QED BY <1>2, <1>5, <1>6, FinishesBy DEF Agrees, CleansUp

\* The first time the process dies in an otherwise undisturbed run, wherever
\* in a handler: a position that is still there after the reconciliation is
\* cached, and it has a stop or is a stub the sweep will find.
THEOREM ProtectsAfterRestart ==
  ASSUME Prompt, UnlockedLoops = {}
  PROVE  RecSpec /\ [](crashes <= 1 /\ (faults = 0 => Calm)) => RestartProtects
<1> DEFINE First == crashes <= 1 /\ (faults = 0 => Calm)
           Safe == Finishes /\ faults' = 0 /\ held > 0 =>
                     /\ pos' # NoPosition
                     /\ Stopped' \/ IsStub(pos')
<1>1. Bounds
  BY ConstantsAssumption, CrashesAssumption DEF Bounds
<1>2. RecInit => FirstRestart
  BY <1>1, InitOnce, InitCycle DEF RecInit, FirstRestart, Bounds
<1>3. RecInv /\ FirstRestart /\ First' /\ [RecNext]_recVars => FirstRestart'
  BY <1>1, FirstRestartKept
<1>4. RecInv /\ FirstRestart /\ First /\ First' /\ [RecNext]_recVars => [Safe]_recVars
  <2> SUFFICES ASSUME RecInv, FirstRestart, First, RecNext, Finishes, faults' = 0, held > 0
               PROVE  pos' # NoPosition /\ (Stopped' \/ IsStub(pos'))
    OBVIOUS
  <2>1. faults = 0
    <3>1. faults \in Nat
      BY <1>1 DEF RecInv, TInv, Bounds, ConstantsAssumption
    <3>2. faults' = faults \/ \E n \in Nat : Fail(n)
      <4>1. Agrees \/ CleansUp => faults' = faults
        BY DEF Agrees, CleansUp
      <4>2. ASSUME NEW stop \in BOOLEAN, NEW tp \in BOOLEAN, Rehydrates(stop, tp)
            PROVE  \E n \in Nat : Fail(n)
        BY <4>2 DEF Rehydrates, StopFault, FaultIfNot
      <4>3. ASSUME NEW stop \in BOOLEAN, NEW tp \in BOOLEAN, Replaces(stop, tp)
            PROVE  \E n \in Nat : Fail(n)
        BY <4>3 DEF Replaces, StopFault, FaultIfNot
      <4> QED BY <4>1, <4>2, <4>3, FinishesBy
    <3> QED BY <3>1, <3>2 DEF Fail
  <2>2. crashes = 1
    BY <1>1 DEF FirstRestart, Finishes, RecInv, Bounds, CrashesAssumption
  <2>3. Repairable
    BY <2>1, <2>2 DEF FirstRestart, Finishes
  <2> QED BY <1>1, <2>3, Repairs
<1> HIDE DEF First, Safe
<1>5. RecSpec /\ []First => [][Safe]_recVars
  BY <1>2, <1>3, <1>4, RecTyping, PTL DEF RecSpec
<1> QED BY <1>5 DEF First, Safe, RestartProtects

-----------------------------------------------------------------------------
(* No position is naked for good after the first restart.  Steps are       *)
(* undisturbed; a position that is held is in one of these situations.     *)

\* The orders the cached position names.
Known == IF pos = NoPosition THEN {} ELSE Named(pos)

\* A stop the position does not name: no handler will cancel it.
Spare == \E i \in OrderIds \ Known : IsOpen(i) /\ orders[i].kind = "STOP"

\* A stub that the sweep will find, with nothing in the book.
Bare ==
  /\ pos # NoPosition /\ pos = Stub(pos.trade)
  /\ held <= EntryQty /\ pp = NoProtection
  /\ events = <<>> /\ ws = 0 /\ eng = 0 /\ OnlyOpen({})

\* An entry whose fill the stream's handler has still to finalize.
Entering ==
  /\ held <= EntryQty /\ trade # 0
  /\ pos # NoPosition => pos.qty = EntryQty
  /\ \/ ws = trade
     \/ /\ ws = 0 /\ events # <<>> /\ trade \in pending
        /\ orders[Event].kind = "ENTRY" /\ orders[Event].trade = trade

\* The position's ids are of orders of these kinds, and its open take-profits
\* buy all that is held, as its own quantity would.
Role(i, k) == i # 0 => i \in 1 .. used /\ orders[i].kind = k /\ orders[i].trade = pos.trade

Buys(i) == IF IsOpen(i) THEN orders[i].qty ELSE 0

Roled ==
  /\ pos # NoPosition /\ pos.tp # 0
  /\ Role(pos.sl, "STOP") /\ Role(pos.tsl, "STOP")
  /\ Role(pos.tp, "TP1") /\ Role(pos.tp2, "TP2")
  /\ pos.sl # 0 => pos.sl # pos.tsl

Accounted ==
  /\ IsOpen(pos.tp2) => orders[pos.tp2].qty = Tp2Qty
  /\ held <= Buys(pos.tp) + Buys(pos.tp2)
  /\ held <= pos.qty /\ pos.qty <= pos.orig /\ pos.orig <= EntryQty
  /\ ~pos.tp1 => /\ pos.qty = pos.orig
                 /\ ~IsOpen(pos.tp) => held + orders[pos.tp].qty <= pos.orig

\* It has its stop, or the one behind TP1 with what TP1 has left.
Sheltered ==
  \/ IsOpen(pos.sl)
  \/ /\ IsOpen(pos.tsl) /\ held <= Tp1Qty
     /\ IsOpen(pos.tp) => IsOpen(pos.tp2) /\ held <= orders[pos.tp].qty

Kept == Roled /\ Accounted /\ Sheltered

\* The process has died between the replacement of a stop, or later.
Cut == Roled /\ Accounted /\ (IsOpen(pos.tsl) => ~IsOpen(pos.tp) /\ held <= Tp1Qty)

Orphan ==
  /\ pos = NoPosition
  /\ Stopped \/ (NoTakeProfits /\ (proc = "read" => found.limits = {}))

\* rehydratePosition's, with a stop of its own.
Made ==
  /\ pos # NoPosition /\ pos.trade \in rehydrated /\ pos.tp2 = 0 /\ pp = NoProtection
  /\ IsOpen(pos.sl) /\ orders[pos.sl].kind = "STOP"

\* What the stream has to tell has happened, and nothing follows a stop.
Told ==
  \A n \in DOMAIN events : /\ orders[events[n]].st = "filled"
                           /\ held > 0 => orders[events[n]].kind # "STOP"

\* A retry's TP1 and TP2 are those of a finalization.
Retrying == pp # NoProtection => pp.tp /\ pp.q1 = Tp1Qty /\ pp.q2 = Tp2Qty

Situated ==
  \/ Spare \/ Bare
  \/ proc \in {"down", "read"} /\ (Cut \/ Orphan)
  \/ proc \in {"reconciled", "up"} /\ (Kept \/ Made)
  \/ proc = "up" /\ Entering

Guarded ==
  /\ Told /\ Retrying
  /\ proc \in {"down", "read"} => pp = NoProtection
  /\ held > 0 => Situated

\* The exception: a trade that rehydratePosition made up has closed.
Excused == \E t \in rehydrated : closes[t] > 0

-----------------------------------------------------------------------------
(* What every undisturbed step leaves alone.                               *)

\* Only orders that the position names are cancelled, and it comes to name
\* only new ones.
Careful ==
  /\ \A i \in 1 .. used : i \notin Known \/ ~IsOpen(i) => orders'[i] = orders[i]
  /\ Known' \subseteq Known \cup (used + 1 .. MaxOrders)

Streams ==
  \/ events' = events
  \/ events # <<>> /\ events' = Tail(events)
  \/ \E i \in 1 .. used' : /\ events' = Append(events, i)
                           /\ orders'[i].st = "filled"
                           /\ orders'[i].kind = "STOP" => held' = 0

\* What is no longer open stays what it is.
Past == \A i \in 1 .. used : ~IsOpen(i) => orders'[i] = orders[i]

LEMMA SpareKept ==
  ASSUME ConstantsAssumption, TInv, Careful, Spare
  PROVE  Spare'
<1>1. PICK i \in OrderIds \ Known : IsOpen(i) /\ orders[i].kind = "STOP"
  BY DEF Spare
<1>2. i \in 1 .. used /\ used \in Nat
  BY <1>1, Basics
<1>3. orders'[i] = orders[i] /\ i \notin Known'
  BY <1>1, <1>2 DEF Careful
<1> QED BY <1>1, <1>3 DEF Spare, IsOpen

\* The orders so far, after others are placed or some cancelled.
LEMMA AcceptedLeaves ==
  ASSUME ConstantsAssumption, TInv, NEW new, orders' = Accepted(new)
  PROVE  \A i \in 1 .. used : orders'[i] = orders[i]
BY Basics DEF Accepted, OrderIds

LEMMA CancelledLeaves ==
  ASSUME ConstantsAssumption, TInv, NEW ids,
         \/ orders' = Cancelled(ids)
         \/ \E o : used < MaxOrders /\ orders' = [Cancelled(ids) EXCEPT ![used + 1] = o]
  PROVE  /\ \A i \in 1 .. used : i \notin ids \/ ~IsOpen(i) => orders'[i] = orders[i]
         /\ \A i \in 1 .. used : i \in ids => ~IsOpen(i)'
<1>1. used \in Nat /\ MaxOrders \in Nat /\ used <= MaxOrders
  BY Basics
<1>2. \A i \in 1 .. used : i \in OrderIds /\ i # 0
  BY <1>1 DEF OrderIds
<1>3. \A i \in 1 .. used : orders'[i] = Cancelled(ids)[i]
  <2>1. CASE orders' = Cancelled(ids)
    BY <2>1
  <2>2. ASSUME NEW o, used < MaxOrders, orders' = [Cancelled(ids) EXCEPT ![used + 1] = o]
        PROVE  \A i \in 1 .. used : orders'[i] = Cancelled(ids)[i]
    <3>1. \A i \in 1 .. used : i # used + 1
      BY <1>1
    <3> QED BY <1>2, <2>2, <3>1 DEF Cancelled
  <2> QED BY <2>1, <2>2
<1>4. \A i \in 1 .. used : i \notin ids \/ ~IsOpen(i) => orders'[i] = orders[i]
  BY <1>2, <1>3 DEF Cancelled
<1>5. \A i \in 1 .. used : i \in ids => ~IsOpen(i)'
  <2> SUFFICES ASSUME NEW i \in 1 .. used, i \in ids
               PROVE  orders'[i].st # "open"
    BY DEF IsOpen
  <2>1. orders[i] \in Placed
    BY Basics
  <2> QED BY <1>2, <1>3, <2>1, CancelledOrders
<1> QED BY <1>4, <1>5

LEMMA ActivatedCareful ==
  ASSUME ConstantsAssumption, TInv, NEW t \in Trades, NEW tp2 \in BOOLEAN, Activated(t, tp2)
  PROVE  /\ Careful
         /\ pos' # NoPosition /\ Named(pos') \subseteq used + 1 .. MaxOrders
<1>1. used \in Nat /\ MaxOrders \in Nat
  BY Basics
<1>2. \A i \in 1 .. used : orders'[i] = orders[i]
  BY AcceptedLeaves DEF Activated
<1>3. /\ pos'.sl = used + 1 /\ pos'.tp = used + 2 /\ pos'.tsl = 0
      /\ pos'.tp2 = IF tp2 THEN used + 3 ELSE 0
  BY DEF Activated, Stub
<1>4. pos' # NoPosition
  BY <1>3, ActivatedType DEF NoPosition, Position, Trades
<1>5. used + (IF tp2 THEN 3 ELSE 2) <= MaxOrders
  <2>1. CASE tp2
    <3>1. Len(<<Opened("STOP", t, 0), Opened("TP1", t, Tp1Qty)>> \o <<Opened("TP2", t, Tp2Qty)>>) = 3
      OBVIOUS
    <3> QED BY <2>1, <3>1 DEF Activated
  <2>2. CASE ~tp2
    <3>1. Len(<<Opened("STOP", t, 0), Opened("TP1", t, Tp1Qty)>> \o <<>>) = 2
      OBVIOUS
    <3> QED BY <2>2, <3>1 DEF Activated
  <2> QED BY <2>1, <2>2
<1>6. Named(pos') \subseteq used + 1 .. MaxOrders
  BY <1>1, <1>3, <1>5 DEF Named
<1> QED BY <1>2, <1>4, <1>6 DEF Careful, Known

LEMMA FinalizedCareful ==
  ASSUME ConstantsAssumption, TInv, NEW t \in Trades, Finalized(t)
  PROVE  Careful /\ Streams
<1>1. Streams
  BY DEF Finalized, Streams
<1>2. CASE StopRefused
  BY <1>1, <1>2 DEF StopRefused, Careful, Known
<1>3. ASSUME NEW c \in BOOLEAN, TakeProfitRefused(t, c)
      PROVE  Careful
  <2>1. \A i \in 1 .. used : orders'[i] = orders[i]
    BY <1>3, AcceptedLeaves DEF TakeProfitRefused
  <2> QED BY <1>3, <2>1 DEF TakeProfitRefused, Careful, Known
<1> QED BY <1>1, <1>2, <1>3, ActivatedCareful DEF Finalized

LEMMA EngineCareful ==
  ASSUME ConstantsAssumption, TInv, Engine
  PROVE  Careful /\ Streams
<1>1. CASE Enter
  <2>1. \A i \in 1 .. used : orders'[i] = orders[i]
    BY <1>1, AcceptedLeaves DEF Enter
  <2>2. orders'[used + 1] = Filled("ENTRY", trade + 1, EntryQty) /\ used' = used + 1 /\ used \in Nat
    BY <1>1, AcceptedOne, Basics DEF Enter
  <2>3. events' = Append(events, used + 1) /\ pos' = pos
    BY <1>1 DEF Enter
  <2>4. orders'[used + 1].st = "filled" /\ orders'[used + 1].kind = "ENTRY"
    BY <2>2 DEF Filled
  <2>5. Streams
    BY <2>2, <2>3, <2>4 DEF Streams
  <2> QED BY <2>1, <2>3, <2>5 DEF Careful, Known
<1>2. CASE EnterReturns
  <2>1. Known' \subseteq Known
    BY <1>2 DEF EnterReturns, Known, Named, Stub
  <2> QED BY <1>2, <2>1 DEF EnterReturns, exchange, Careful, Streams
<1>3. CASE EnterErrs \/ \E t \in Trades : PendingExpires(t)
  BY <1>3 DEF EnterErrs, PendingExpires, exchange, Careful, Known, Streams
<1> QED BY <1>1, <1>2, <1>3 DEF Engine

\* A cancellation of orders the position names, and one order placed or not.
LEMMA CancelsCareful ==
  ASSUME ConstantsAssumption, TInv, pos # NoPosition, NEW ids, ids \subseteq Named(pos) \cup {0},
         \/ orders' = Cancelled(ids)
         \/ \E o : used < MaxOrders /\ orders' = [Cancelled(ids) EXCEPT ![used + 1] = o],
         pos' # NoPosition => Named(pos') \subseteq Named(pos) \cup (used + 1 .. MaxOrders)
  PROVE  Careful
<1>1. \A i \in 1 .. used : i \notin ids \/ ~IsOpen(i) => orders'[i] = orders[i]
  BY CancelledLeaves
<1>2. used \in Nat
  BY Basics
<1> QED BY <1>1, <1>2 DEF Careful, Known, IsOpen

LEMMA ClosesCareful ==
  ASSUME ConstantsAssumption, TInv, Fill, pos # NoPosition,
         NEW ids, ids \subseteq Named(pos) \cup {0}, NEW r, Closes(ids, r)
  PROVE  Careful /\ Streams
<1>1. PICK missed \in Missed(ids) : orders' = Cancelled(ids \ missed)
  BY DEF Closes
<1>2. pos' = NoPosition
  BY DEF Closes, Persisted, Removed
<1>3. Careful
  BY <1>1, <1>2, CancelsCareful
<1> QED BY <1>3, FillType DEF Streams

LEMMA WsTp1Careful ==
  ASSUME ConstantsAssumption, TInv, NEW stopped \in BOOLEAN, WsTp1(stopped)
  PROVE  Careful /\ Streams
<1>1. PICK missed \in Missed(Replaced(pos)) :
        LET os == Cancelled(Replaced(pos) \ missed) IN
        IF stopped
        THEN used < MaxOrders /\ orders' = [os EXCEPT ![used + 1] = EntryStop(pos.trade)]
        ELSE orders' = os
  BY DEF WsTp1
<1>2. /\ pos \in Position /\ pos # NoPosition /\ Fill /\ used \in Nat /\ MaxOrders \in Nat
      /\ pos' = [pos EXCEPT !.tp1 = TRUE, !.sl = 0,
                            !.tsl = IF stopped THEN used + 1 ELSE @,
                            !.be = @ \/ stopped,
                            !.qty = pos.orig - orders[Event].qty]
  BY Basics DEF WsTp1, TInv
<1>3. /\ pos'.sl = 0 /\ pos'.tp = pos.tp /\ pos'.tp2 = pos.tp2
      /\ pos'.tsl = IF stopped THEN used + 1 ELSE pos.tsl
  BY <1>2 DEF Position
<1>4. Named(pos') \subseteq Named(pos) \cup (used + 1 .. MaxOrders)
  BY <1>1, <1>2, <1>3 DEF Named
<1>5. Replaced(pos) \ missed \subseteq Named(pos) \cup {0}
  BY DEF Replaced, Named
<1>6. Careful
  BY <1>1, <1>2, <1>4, <1>5, CancelsCareful
<1> QED BY <1>2, <1>6, FillType DEF Streams

LEMMA UserDataCareful ==
  ASSUME ConstantsAssumption, TInv, UserData
  PROVE  Careful /\ Streams
<1>1. CASE WsReadsPending
  BY <1>1 DEF WsReadsPending, Handling, cache, Careful, Known, Streams
<1>2. CASE WsFinalizes
  <2>1. ws \in Trades
    BY <1>2 DEF WsFinalizes, TInv, Trades
  <2> QED BY <1>2, <2>1, FinalizedCareful DEF WsFinalizes
<1>3. CASE WsIgnored
  BY <1>3, FillType DEF WsIgnored, cache, Careful, Known, Streams
<1>4. CASE WsTp1Closes \/ WsTp2 \/ WsTrailingSl \/ WsHardSl \/ WsForceClosed \/ WsUntracked
  <2>1. /\ {pos.sl, pos.tsl} \subseteq Named(pos) \cup {0} /\ {pos.tsl} \subseteq Named(pos) \cup {0}
        /\ {pos.tp2} \subseteq Named(pos) \cup {0} /\ Siblings(pos) \subseteq Named(pos) \cup {0}
        /\ {} \subseteq Named(pos) \cup {0}
    BY DEF Named, Siblings
  <2> QED BY <1>4, <2>1, ClosesCareful
          DEF WsTp1Closes, WsTp2, WsTrailingSl, WsHardSl, WsForceClosed, WsUntracked
<1> QED BY <1>1, <1>2, <1>3, <1>4, WsTp1Careful DEF UserData

LEMMA CheckCareful ==
  ASSUME ConstantsAssumption, TInv, Check
  PROVE  Careful /\ Streams
<1> USE DEF Resting
<1>1. used \in Nat /\ MaxOrders \in Nat
  BY Basics
<1>2. ASSUME NEW stop \in BOOLEAN, NEW tp \in BOOLEAN, NEW tp2 \in BOOLEAN,
             CheckRetries(stop, tp, tp2)
      PROVE  Careful /\ Streams
  <2> DEFINE stops == IF stop THEN <<Opened("STOP", pos.trade, 0)>> ELSE <<>>
             tps   == IF tp THEN <<Opened("TP1", pos.trade, pp.q1)>> ELSE <<>>
             tp2s  == IF tp2 THEN <<Opened("TP2", pos.trade, pp.q2)>> ELSE <<>>
             n     == used + Len(stops)
  <2>1. /\ n + Len(tps \o tp2s) <= MaxOrders
        /\ orders' = Accepted(stops \o tps \o tp2s)
        /\ pos' = [pos EXCEPT !.sl = IF stop THEN n ELSE @,
                              !.tp = IF tp THEN n + 1 ELSE @,
                              !.tp2 = IF tp2 THEN n + 2 ELSE @]
        /\ pos # NoPosition /\ pos \in Position /\ (tp2 => tp)
    BY <1>2 DEF CheckRetries, TInv
  <2>2. /\ Len(stops) = IF stop THEN 1 ELSE 0
        /\ Len(tps \o tp2s) = (IF tp THEN 1 ELSE 0) + (IF tp2 THEN 1 ELSE 0)
    <3>1. Len(<<Opened("TP1", pos.trade, pp.q1)>> \o <<Opened("TP2", pos.trade, pp.q2)>>) = 2
      OBVIOUS
    <3>2. Len(<<Opened("TP1", pos.trade, pp.q1)>> \o <<>>) = 1
      OBVIOUS
    <3>3. Len(<<>> \o <<>>) = 0
      OBVIOUS
    <3> QED BY <2>1, <3>1, <3>2, <3>3
  <2>3. \A i \in 1 .. used : orders'[i] = orders[i]
    BY <2>1, AcceptedLeaves
  <2>4. /\ stop => n \in used + 1 .. MaxOrders
        /\ tp => n + 1 \in used + 1 .. MaxOrders
        /\ tp2 => n + 2 \in used + 1 .. MaxOrders
    <3> HIDE DEF stops, tps, tp2s
    <3> QED BY <1>1, <2>1, <2>2
  <2> HIDE DEF n
  <2>5. Named(pos') \subseteq Named(pos) \cup (used + 1 .. MaxOrders)
    BY <2>1, <2>4 DEF Named, Position
  <2> QED BY <1>2, <2>1, <2>3, <2>5 DEF CheckRetries, Careful, Known, Streams
<1>3. ASSUME NEW ok \in BOOLEAN, CheckGivesUp(ok)
      PROVE  Careful /\ Streams
  <2>1. pos \in Position /\ pos # NoPosition /\ pos' = pos /\ ForcePlaced(pos, ok)
    BY <1>3 DEF CheckGivesUp, TInv
  <2>2. CASE ok
    <3>1. PICK missed \in Missed(Named(pos)) :
            orders' = ForceOrder(pos, Cancelled(Named(pos) \ missed))
      BY <1>3, <2>2 DEF CheckGivesUp
    <3> DEFINE o == Filled("FORCE", pos.trade, Least(pos.qty, held))
    <3>2. /\ used < MaxOrders /\ used' = used + 1 /\ events' = Append(events, used + 1)
          /\ orders' = [Cancelled(Named(pos) \ missed) EXCEPT ![used + 1] = o]
      BY <2>1, <2>2, <3>1, ForcePlacedType DEF ForceOrder
    <3>3. o.st = "filled" /\ o.kind # "STOP"
      BY DEF Filled
    <3>4. orders'[used + 1] = o
      BY <1>1, <3>2 DEF Cancelled, OrderIds
    <3> HIDE DEF o
    <3>5. Careful
      BY <2>1, <3>2, CancelsCareful
    <3> QED BY <1>1, <3>2, <3>3, <3>4, <3>5 DEF Streams
  <2>3. CASE ~ok
    BY <1>3, <2>1, <2>3, ForcePlacedType DEF CheckGivesUp, Careful, Known, Streams
  <2> QED BY <2>2, <2>3
<1>4. ASSUME NEW placed \in BOOLEAN, CheckBreakeven(placed)
      PROVE  Careful /\ Streams
  <2>1. PICK missed \in Missed(Replaced(pos)) :
          orders' = IF placed THEN [Cancelled(Replaced(pos) \ missed) EXCEPT ![used + 1] = EntryStop(pos.trade)]
                              ELSE Cancelled(Replaced(pos) \ missed)
    BY <1>4 DEF CheckBreakeven
  <2>2. /\ pos \in Position /\ pos # NoPosition /\ (placed => used < MaxOrders)
        /\ pos' = IF placed THEN [pos EXCEPT !.sl = used + 1, !.be = TRUE] ELSE pos
    BY <1>4 DEF CheckBreakeven, TInv
  <2>3. Named(pos') \subseteq Named(pos) \cup (used + 1 .. MaxOrders)
    BY <1>1, <2>2 DEF Named, Position
  <2>4. Replaced(pos) \ missed \subseteq Named(pos) \cup {0}
    BY DEF Replaced, Named
  <2>5. Careful
    BY <2>1, <2>2, <2>3, <2>4, CancelsCareful
  <2> QED BY <1>4, <2>5 DEF CheckBreakeven, Streams
<1> QED BY <1>2, <1>3, <1>4 DEF Check

LEMMA SweepCareful ==
  ASSUME ConstantsAssumption, TInv, Sweep
  PROVE  Careful /\ Streams
<1>1. used \in Nat /\ MaxOrders \in Nat
  BY Basics
<1>2. CASE SweepFinalizes
  <2>1. pos.trade \in Trades
    BY <1>2 DEF SweepFinalizes, IsStub, TInv, Position
  <2> QED BY <1>2, <2>1, FinalizedCareful DEF SweepFinalizes
<1>3. CASE SweepDropsStub
  BY <1>3 DEF SweepDropsStub, exchange, Careful, Known, Streams
<1>4. ASSUME NEW known \in BOOLEAN, NEW stop \in BOOLEAN, NEW tp \in BOOLEAN,
             SweepProtects(known, stop, tp)
      PROVE  Careful /\ Streams
  <2> DEFINE q     == IF known THEN held ELSE pos.orig
             stops == IF stop THEN <<Opened("STOP", pos.trade, 0)>> ELSE <<>>
             tps   == IF tp THEN <<Opened("TP1", pos.trade, q)>> ELSE <<>>
             n     == used + Len(stops)
  <2>1. /\ n + Len(tps) <= MaxOrders
        /\ orders' = Accepted(stops \o tps)
        /\ pos' = [pos EXCEPT !.sl = IF stop THEN n ELSE @, !.tp = IF tp THEN n + 1 ELSE @,
                              !.qty = q, !.orig = q]
        /\ pos # NoPosition /\ pos \in Position
    BY <1>4 DEF SweepProtects, IsStub, TInv
  <2>2. Len(stops) = (IF stop THEN 1 ELSE 0) /\ Len(tps) = IF tp THEN 1 ELSE 0
    OBVIOUS
  <2>3. \A i \in 1 .. used : orders'[i] = orders[i]
    BY <2>1, AcceptedLeaves
  <2>4. (stop => n \in used + 1 .. MaxOrders) /\ (tp => n + 1 \in used + 1 .. MaxOrders)
    <3> HIDE DEF stops, tps, q
    <3> QED BY <1>1, <2>1, <2>2
  <2> HIDE DEF n, q
  <2>5. Named(pos') \subseteq Named(pos) \cup (used + 1 .. MaxOrders)
    BY <2>1, <2>4 DEF Named, Position
  <2> QED BY <1>4, <2>1, <2>3, <2>5 DEF SweepProtects, Careful, Known, Streams
<1> QED BY <1>2, <1>3, <1>4 DEF Sweep

\* Everything but the exchange and its owner.
LEMMA BotCareful ==
  ASSUME ConstantsAssumption, Undisturbed, TInv, Next
  PROVE  \/ Careful /\ Streams
         \/ \E i \in OrderIds : Executes(i) \/ Expires(i)
BY NobodyCloses, EngineCareful, UserDataCareful, CheckCareful, SweepCareful
   DEF Next, Exchange, Unlocked, Undisturbed

LEMMA NextStreams ==
  ASSUME ConstantsAssumption, Undisturbed, TInv, Next
  PROVE  Streams /\ Past
<1>1. Careful => Past
  BY DEF Careful, Past
<1>2. ASSUME NEW i \in OrderIds, Executes(i)
      PROVE  Streams /\ Past
  <2>1. /\ i \in 1 .. used' /\ orders'[i].st = "filled"
        /\ orders'[i].kind = "STOP" => held' = 0
        /\ \A j \in OrderIds \ {i} : orders'[j] = orders[j]
    BY <1>2, ExecutedOrders
  <2>2. events' = Append(events, i) /\ IsOpen(i)
    BY <1>2 DEF Executes
  <2>3. \A j \in 1 .. used : j \in OrderIds
    BY Basics DEF OrderIds
  <2> QED BY <2>1, <2>2, <2>3 DEF Streams, Past
<1>3. ASSUME NEW i \in OrderIds, Expires(i)
      PROVE  Streams /\ Past
  BY <1>3, CancelledLeaves DEF Expires, Streams, Past
<1> QED BY <1>1, <1>2, <1>3, BotCareful

\* Only an entry adds to the position.
LEMMA HeldGrows ==
  ASSUME ConstantsAssumption, Undisturbed, TInv, Next, ~Enter
  PROVE  held' <= held
<1>1. held \in Nat /\ used \in Nat
  BY Basics DEF TInv
<1>2. Exchange => held' <= held
  BY HeldShrinks
<1>3. Engine => held' = held
  BY DEF Engine, EnterReturns, EnterErrs, PendingExpires, exchange
<1>4. UserData => held' = held
  BY DEF UserData, WsReadsPending, WsFinalizes, Finalized, WsTp1, WsTp1Closes, WsTp2, WsTrailingSl,
         WsHardSl, WsForceClosed, WsUntracked, WsIgnored, Closes
<1>5. Check => held' <= held
  <2>1. ASSUME NEW ok \in BOOLEAN, CheckGivesUp(ok)
        PROVE  held' <= held
    <3>1. pos \in Position /\ ForcePlaced(pos, ok) /\ pos.qty \in Int
      BY <2>1 DEF CheckGivesUp, TInv, Position
    <3> QED BY <1>1, <3>1 DEF ForcePlaced, Least
  <2>2. \A stop, tp, tp2 \in BOOLEAN : CheckRetries(stop, tp, tp2) => held' = held
    BY DEF CheckRetries
  <2>3. \A placed \in BOOLEAN : CheckBreakeven(placed) => held' = held
    BY DEF CheckBreakeven
  <2> QED BY <1>1, <2>1, <2>2, <2>3 DEF Check
<1>6. Sweep => held' = held
  BY DEF Sweep, SweepFinalizes, SweepDropsStub, SweepProtects, Finalized, exchange
<1>7. ~Unlocked
  BY DEF Unlocked, Undisturbed
<1> QED BY <1>1, <1>2, <1>3, <1>4, <1>5, <1>6, <1>7 DEF Next

LEMMA ToldKept ==
  ASSUME ConstantsAssumption, TInv, Orderly, Told, Streams, Past,
         held' > 0 => held > 0 \/ events = <<>>
  PROVE  Told'
<1>1. events \in Seq(1 .. used) /\ Len(events) \in Nat /\ DOMAIN events = 1 .. Len(events)
  BY LenProperties DEF TInv
<1>2. \A n \in DOMAIN events : /\ orders'[events[n]] = orders[events[n]]
                               /\ orders[events[n]].st = "filled"
  <2> TAKE n \in DOMAIN events
  <2>1. events[n] \in 1 .. used /\ orders[events[n]].st = "filled"
    BY Basics DEF Told
  <2> QED BY <2>1 DEF Past, IsOpen
<1>3. \A n \in DOMAIN events : held' > 0 => orders[events[n]].kind # "STOP"
  <2>1. events = <<>> => DOMAIN events = {}
    BY <1>1
  <2> QED BY <2>1 DEF Told
<1>4. CASE events' = events
  BY <1>2, <1>3, <1>4 DEF Told
<1>5. CASE events # <<>> /\ events' = Tail(events)
  <2>1. /\ DOMAIN events' = 1 .. Len(events) - 1
        /\ \A n \in DOMAIN events' : events'[n] = events[n + 1] /\ n + 1 \in DOMAIN events
    BY <1>1, <1>5, HeadTailProperties, LenProperties
  <2> QED BY <1>2, <1>3, <2>1 DEF Told
<1>6. ASSUME NEW i \in 1 .. used', events' = Append(events, i),
             orders'[i].st = "filled", orders'[i].kind = "STOP" => held' = 0
      PROVE  Told'
  <2>1. /\ DOMAIN events' = 1 .. Len(events) + 1
        /\ events'[Len(events) + 1] = i
        /\ \A n \in DOMAIN events : events'[n] = events[n]
    BY <1>1, <1>6, AppendProperties, LenProperties
  <2>2. \A n \in DOMAIN events' : n \in DOMAIN events \/ n = Len(events) + 1
    BY <1>1, <2>1
  <2>3. \A n \in DOMAIN events : /\ orders'[events'[n]].st = "filled"
                                 /\ held' > 0 => orders'[events'[n]].kind # "STOP"
    BY <1>2, <1>3, <2>1
  <2>4. /\ orders'[events'[Len(events) + 1]].st = "filled"
        /\ held' > 0 => orders'[events'[Len(events) + 1]].kind # "STOP"
    BY <1>6, <2>1
  <2> QED BY <2>2, <2>3, <2>4 DEF Told
<1> QED BY <1>4, <1>5, <1>6 DEF Streams

LEMMA NextTold ==
  ASSUME ConstantsAssumption, Undisturbed, TInv, Told, Next
  PROVE  Told'
<1>1. Orderly /\ Streams /\ Past
  BY NextType, NextStreams
<1>2. held \in Nat /\ held' \in Nat
  BY NextType DEF TInv
<1>3. Enter => events = <<>>
  BY DEF Enter, Cooled, Delivered, Undisturbed
<1>4. held' > 0 => held > 0 \/ events = <<>>
  BY <1>2, <1>3, HeldGrows
<1> QED BY <1>1, <1>4, ToldKept

\* Nothing fails, so a retry for a position that is held places all it misses.
LEMMA RetriesAll ==
  ASSUME ConstantsAssumption, Undisturbed, TInv, Retrying, held > 0,
         NEW stop \in BOOLEAN, NEW tp \in BOOLEAN, NEW tp2 \in BOOLEAN,
         CheckRetries(stop, tp, tp2)
  PROVE  stop = pp.sl /\ tp /\ tp2 /\ pp' = NoProtection
<1> DEFINE a == IF pp.sl THEN FaultIfNot(stop) ELSE 0
           b == IF pp.tp THEN FaultIfNot(tp) ELSE 0
           c == IF tp /\ pp.q2 > 0 THEN FaultIfNot(tp2) ELSE 0
<1>1. pp.tp /\ pp.q2 = Tp2Qty /\ held \in Nat /\ pp \in Protection
  BY DEF CheckRetries, Retrying, TInv
<1>2. a \in Nat /\ b \in Nat /\ c \in Nat /\ Fail(a + b + c)
  BY DEF CheckRetries, FaultIfNot
<1>3. a = 0 /\ b = 0 /\ c = 0
  <2> HIDE DEF a, b, c
  <2>1. a + b + c \in Nat
    BY <1>2
  <2>2. a + b + c = 0
    BY <1>2, <2>1, NothingFails
  <2> QED BY <1>2, <2>2
<1>4. (pp.sl => stop) /\ tp
  BY <1>1, <1>3 DEF FaultIfNot
<1>5. tp2
  BY <1>1, <1>3, <1>4 DEF FaultIfNot, Tp2Qty
<1>6. stop => pp.sl
  BY DEF CheckRetries
<1>7. stop = pp.sl
  BY <1>1, <1>4, <1>6 DEF Protection
<1>8. pp' = NoProtection
  BY <1>4 DEF CheckRetries
<1> QED BY <1>4, <1>5, <1>7, <1>8

\* Nothing fails, so the sweep places both.
LEMMA SweepPlacesBoth ==
  ASSUME ConstantsAssumption, Undisturbed, TInv,
         NEW known \in BOOLEAN, NEW stop \in BOOLEAN, NEW tp \in BOOLEAN,
         SweepProtects(known, stop, tp)
  PROVE  known /\ stop /\ tp /\ held > 0
<1> DEFINE a == IF known THEN 0 ELSE 1
<1>1. a \in Nat /\ FaultIfNot(stop) \in Nat /\ FaultIfNot(tp) \in Nat
  BY DEF FaultIfNot
<1>2. Fail(a + FaultIfNot(stop) + FaultIfNot(tp))
  BY DEF SweepProtects
<1>3. a = 0 /\ FaultIfNot(stop) = 0 /\ FaultIfNot(tp) = 0
  <2> HIDE DEF a
  <2>1. a + FaultIfNot(stop) + FaultIfNot(tp) \in Nat
    BY <1>1
  <2>2. a + FaultIfNot(stop) + FaultIfNot(tp) = 0
    BY <1>2, <2>1, NothingFails
  <2> QED BY <1>1, <2>2
<1>4. known
  BY <1>3
<1>5. held > 0 /\ held \in Nat
  BY <1>4 DEF SweepProtects, TInv
<1> QED BY <1>3, <1>4, <1>5 DEF FaultIfNot

LEMMA NextRetrying ==
  ASSUME ConstantsAssumption, Undisturbed, TInv, Retrying, Next
  PROVE  Retrying'
<1>1. pp' = pp \/ pp' = Full \/ pp' = NoProtection => Retrying'
  BY DEF Retrying, Full
<1>2. Exchange => pp' = pp
  BY DEF Exchange, Executes, Expires, ClosedByHand, EventLost, cache
<1>3. Engine => pp' = pp
  BY DEF Engine, Enter, EnterReturns, EnterErrs, PendingExpires
<1>4. \A t : Finalized(t) => pp' = pp \/ pp' = Full
  BY DEF Finalized, StopRefused, TakeProfitRefused, Activated
<1>5. UserData => pp' = pp \/ pp' = Full
  BY <1>4 DEF UserData, WsReadsPending, WsFinalizes, WsTp1, WsTp1Closes, WsTp2, WsTrailingSl,
              WsHardSl, WsForceClosed, WsUntracked, WsIgnored, Closes, Persisted, cache
<1>6. ASSUME NEW stop \in BOOLEAN, NEW tp \in BOOLEAN, NEW tp2 \in BOOLEAN,
             CheckRetries(stop, tp, tp2)
      PROVE  Retrying'
  <2>1. CASE held > 0
    BY <1>1, <1>6, <2>1, RetriesAll
  <2>2. CASE ~(held > 0)
    <3>1. ~tp /\ pp \in Protection /\ pp # NoProtection
      BY <1>6, <2>2 DEF CheckRetries, TInv
    <3>2. \/ pp' = NoProtection
          \/ pp' = [pp EXCEPT !.sl = @ /\ ~stop, !.tp = @ /\ ~tp, !.retries = @ + 1]
      BY <1>6 DEF CheckRetries
    <3> QED BY <3>1, <3>2 DEF Retrying, Protection
  <2> QED BY <2>1, <2>2
<1>7. Check => Retrying'
  <2>1. \A ok \in BOOLEAN : CheckGivesUp(ok) => pp' = NoProtection
    BY DEF CheckGivesUp
  <2>2. \A ok \in BOOLEAN : CheckBreakeven(ok) => pp' = pp
    BY DEF CheckBreakeven
  <2> QED BY <1>1, <1>6, <2>1, <2>2 DEF Check
<1>8. Sweep => Retrying'
  <2>1. ASSUME NEW known \in BOOLEAN, NEW stop \in BOOLEAN, NEW tp \in BOOLEAN,
               SweepProtects(known, stop, tp)
        PROVE  pp' = pp
    BY <2>1, SweepPlacesBoth DEF SweepProtects
  <2>2. SweepFinalizes \/ SweepDropsStub => pp' = pp \/ pp' = Full
    BY <1>4 DEF SweepFinalizes, SweepDropsStub
  <2> QED BY <1>1, <2>1, <2>2 DEF Sweep
<1>9. ~Unlocked
  BY DEF Unlocked, Undisturbed
<1> QED BY <1>1, <1>2, <1>3, <1>5, <1>7, <1>8, <1>9 DEF Next

-----------------------------------------------------------------------------
(* A position with its orders, step by step.                               *)

LEMMA RoledOrders ==
  ASSUME ConstantsAssumption, TInv, Roled
  PROVE  /\ pos \in Position /\ pos.tp \in 1 .. used /\ orders[pos.tp].qty \in Nat
         /\ pos.tp2 # pos.tp /\ pos.sl # pos.tp /\ pos.tsl # pos.tp
         /\ pos.tp2 # 0 => /\ pos.tp2 \in 1 .. used /\ orders[pos.tp2].qty \in Nat
                           /\ pos.sl # pos.tp2 /\ pos.tsl # pos.tp2
         /\ pos.sl # 0 => pos.sl \in 1 .. used
         /\ pos.tsl # 0 => pos.tsl \in 1 .. used
         /\ Buys(pos.tp) \in Nat /\ Buys(pos.tp2) \in Nat
<1>1. pos \in Position
  BY DEF Roled, TInv
<1>2. \A i \in 1 .. used : orders[i].qty \in Nat
  BY Basics DEF Placed, Order
<1> QED BY <1>1, <1>2 DEF Roled, Role, Buys, IsOpen

\* A step that leaves position and orders alone.
LEMMA KeptStays ==
  ASSUME ConstantsAssumption, TInv, Orderly, pos' = pos, held' = held,
         \A i \in 1 .. used : orders'[i] = orders[i]
  PROVE  Kept => Kept'
<1> SUFFICES ASSUME Kept PROVE Kept'
  OBVIOUS
<1>1. used' \in Nat /\ used \in Nat /\ used <= used'
  BY Basics DEF Orderly, Same, Numbered, Ref
<1>2. \A i \in {pos.sl, pos.tp, pos.tp2, pos.tsl} :
        /\ IsOpen(i)' <=> IsOpen(i)
        /\ i # 0 => i \in 1 .. used' /\ orders'[i] = orders[i]
  BY <1>1, RoledOrders DEF Kept, IsOpen
<1>3. Roled'
  BY <1>2 DEF Kept, Roled, Role
<1>4. Buys(pos.tp)' = Buys(pos.tp) /\ Buys(pos.tp2)' = Buys(pos.tp2)
  BY <1>2 DEF Buys, IsOpen
<1>5. Accounted'
  BY <1>2, <1>4, RoledOrders DEF Kept, Accounted, IsOpen
<1>6. Sheltered'
  BY <1>2, RoledOrders DEF Kept, Sheltered, IsOpen
<1> QED BY <1>3, <1>5, <1>6 DEF Kept

LEMMA AccountedExecutes ==
  ASSUME ConstantsAssumption, TInv, NEW i \in OrderIds, Executes(i), held' > 0, Roled, Accounted
  PROVE  /\ Roled' /\ Accounted' /\ pos' = pos /\ held' \in Nat /\ held' <= held
         /\ i # pos.tp2 /\ i # pos.sl /\ i # pos.tsl
         /\ (IsOpen(pos.sl)' <=> IsOpen(pos.sl)) /\ (IsOpen(pos.tsl)' <=> IsOpen(pos.tsl))
         /\ (IsOpen(pos.tp2)' <=> IsOpen(pos.tp2))
         /\ IsOpen(pos.tp)' => IsOpen(pos.tp) /\ orders'[pos.tp] = orders[pos.tp]
<1> DEFINE q == Least(orders[i].qty, held)
<1>1. /\ used \in Nat /\ held \in Nat /\ orders[i].qty \in Nat /\ IsOpen(i) /\ pos' = pos
      /\ Buys(pos.tp) \in Nat /\ Buys(pos.tp2) \in Nat
  BY Basics, RoledOrders DEF Executes, cache, TInv, Placed, Order
<1>2. /\ orders[i].kind # "STOP" /\ used' = used /\ held' = held - q
      /\ orders'[i].st = "filled" /\ orders'[i].qty = q
      /\ orders'[i].kind = orders[i].kind /\ orders'[i].trade = orders[i].trade
      /\ \A j \in OrderIds \ {i} : orders'[j] = orders[j]
  BY ExecutedOrders
<1>3. q \in Nat /\ (q = orders[i].qty \/ q = held)
  BY <1>1 DEF Least
<1>4. /\ held' \in Nat /\ held' <= held /\ q = orders[i].qty /\ held' + q = held
  <2> HIDE DEF q
  <2> QED BY <1>1, <1>2, <1>3
<1> HIDE DEF q
<1>5. \A j \in 1 .. used : j \in OrderIds
  BY Basics DEF OrderIds
<1>6. /\ pos.tp \in OrderIds /\ pos.tp # pos.tp2
      /\ pos.tp2 # 0 => pos.tp2 \in OrderIds
      /\ pos.sl # 0 => pos.sl \in OrderIds
      /\ pos.tsl # 0 => pos.tsl \in OrderIds
  BY <1>5, RoledOrders
<1>7. i # pos.sl /\ i # pos.tsl
  BY <1>1, <1>2 DEF Roled, Role, IsOpen
<1>8. i # pos.tp2
  <2> SUFFICES ASSUME i = pos.tp2 PROVE FALSE
    OBVIOUS
  <2>1. orders[i].kind = "TP2" /\ orders[i].trade = pos.trade /\ i # 0
    BY <1>1 DEF Roled, Role, IsOpen
  <2>2. orders[pos.tp].kind = "TP1" /\ orders[pos.tp].trade = pos.trade
    BY DEF Roled, Role
  <2>3. ~IsOpen(pos.tp)
    BY <1>6, <2>1, <2>2 DEF Executes, IsOpen
  <2>4. Buys(pos.tp) = 0 /\ Buys(pos.tp2) = orders[i].qty
    BY <1>1, <2>3 DEF Buys
  <2>5. held <= orders[i].qty
    BY <1>1, <2>4 DEF Accounted
  <2> QED BY <1>1, <1>4, <2>5
<1>9. /\ (IsOpen(pos.sl)' <=> IsOpen(pos.sl)) /\ (IsOpen(pos.tsl)' <=> IsOpen(pos.tsl))
      /\ (IsOpen(pos.tp2)' <=> IsOpen(pos.tp2))
      /\ pos.tp2 # 0 => orders'[pos.tp2] = orders[pos.tp2]
  BY <1>1, <1>2, <1>6, <1>7, <1>8 DEF IsOpen
<1>10. IsOpen(pos.tp)' => IsOpen(pos.tp) /\ orders'[pos.tp] = orders[pos.tp]
  BY <1>1, <1>2, <1>6 DEF IsOpen
<1>11. Roled'
  <2>1. \A j \in OrderIds : /\ orders'[j].kind = orders[j].kind
                            /\ orders'[j].trade = orders[j].trade
    BY <1>2
  <2> QED BY <1>1, <1>2, <1>6, <2>1 DEF Roled, Role
<1>12. Buys(pos.tp2)' = Buys(pos.tp2)
  BY <1>1, <1>9 DEF Buys, IsOpen
<1>13. Accounted'
  <2>1. CASE i = pos.tp
    <3>1. ~IsOpen(pos.tp)' /\ Buys(pos.tp) = q /\ Buys(pos.tp)' = 0
      BY <1>1, <1>2, <1>4, <2>1 DEF Buys, IsOpen
    <3>2. held' <= Buys(pos.tp)' + Buys(pos.tp2)'
      BY <1>1, <1>3, <1>4, <1>12, <3>1 DEF Accounted
    <3>3. orders'[pos.tp].qty = q
      BY <1>2, <2>1
    <3>4. pos.qty \in Int /\ pos.orig \in Nat
      BY RoledOrders DEF Position
    <3> QED BY <1>1, <1>3, <1>4, <1>9, <3>2, <3>3, <3>4 DEF Accounted, IsOpen
  <2>2. CASE i # pos.tp
    <3>1. orders'[pos.tp] = orders[pos.tp] /\ (IsOpen(pos.tp)' <=> IsOpen(pos.tp))
      BY <1>1, <1>2, <1>6, <2>2 DEF IsOpen
    <3>2. Buys(pos.tp)' = Buys(pos.tp)
      BY <1>1, <3>1 DEF Buys
    <3>3. pos.qty \in Int /\ pos.orig \in Nat /\ orders[pos.tp].qty \in Nat
      BY RoledOrders DEF Position
    <3>4. held' <= Buys(pos.tp)' + Buys(pos.tp2)'
      BY <1>1, <1>4, <1>12, <3>2 DEF Accounted
    <3>5. IsOpen(pos.tp2)' => orders'[pos.tp2].qty = Tp2Qty
      BY <1>9 DEF Accounted, IsOpen
    <3>6. held' <= pos.qty /\ pos.qty <= pos.orig /\ pos.orig <= EntryQty
      BY <1>1, <1>4, <3>3 DEF Accounted, EntryQty
    <3>7. ~pos.tp1 => /\ pos.qty = pos.orig
                      /\ ~IsOpen(pos.tp)' => held' + orders'[pos.tp].qty <= pos.orig
      BY <1>1, <1>4, <3>1, <3>3 DEF Accounted
    <3> QED BY <1>1, <3>4, <3>5, <3>6, <3>7 DEF Accounted
  <2> QED BY <2>1, <2>2
<1> QED BY <1>1, <1>4, <1>7, <1>8, <1>9, <1>10, <1>11, <1>13

LEMMA KeptExecutes ==
  ASSUME ConstantsAssumption, TInv, NEW i \in OrderIds, Executes(i), held' > 0
  PROVE  (Kept => Kept') /\ (Cut => Cut')
<1>1. held \in Nat
  BY DEF TInv
<1>2. ASSUME Kept PROVE Kept'
  <2>1. orders[pos.tp].qty \in Nat
    BY <1>2, RoledOrders DEF Kept
  <2>2. Sheltered'
    BY <1>1, <1>2, <2>1, AccountedExecutes DEF Kept, Sheltered, Tp1Qty
  <2> QED BY <1>2, <2>2, AccountedExecutes DEF Kept
<1>3. ASSUME Cut PROVE Cut'
  BY <1>1, <1>3, AccountedExecutes DEF Cut, Tp1Qty
<1> QED BY <1>2, <1>3

\* Nothing fails, so a finalization places and activates all three.
LEMMA FinalizedActivates ==
  ASSUME ConstantsAssumption, Undisturbed, TInv, NEW t \in Trades, Finalized(t), held > 0
  PROVE  Activated(t, TRUE)
<1>1. held \in Nat
  BY DEF TInv
<1>2. ~StopRefused /\ \A c \in BOOLEAN : ~TakeProfitRefused(t, c)
  <2>1. FaultIfNot(FALSE) = 1
    BY <1>1 DEF FaultIfNot
  <2>2. ~Fail(1) /\ ~Fail(1 + 0) /\ ~Fail(1 + 1)
    BY NothingFails
  <2> QED BY <2>1, <2>2 DEF StopRefused, TakeProfitRefused
<1>3. PICK tp2 \in BOOLEAN : Activated(t, tp2)
  BY <1>2 DEF Finalized
<1>4. FaultIfNot(tp2) \in Nat /\ Fail(FaultIfNot(tp2))
  BY <1>3 DEF Activated, FaultIfNot
<1>5. tp2
  BY <1>1, <1>4, NothingFails DEF FaultIfNot
<1> QED BY <1>3, <1>5

LEMMA FinalizedKept ==
  ASSUME ConstantsAssumption, Undisturbed, TInv, NEW t \in Trades, Finalized(t),
         held > 0, held <= EntryQty
  PROVE  Kept'
<1>1. held \in Nat /\ used \in Nat /\ MaxOrders \in Nat
  BY Basics DEF TInv
<1>3. Activated(t, TRUE)
  BY FinalizedActivates
<1> DEFINE new == <<Opened("STOP", t, 0), Opened("TP1", t, Tp1Qty)>> \o <<Opened("TP2", t, Tp2Qty)>>
<1>4. /\ Len(new) = 3 /\ new[1] = Opened("STOP", t, 0)
      /\ new[2] = Opened("TP1", t, Tp1Qty) /\ new[3] = Opened("TP2", t, Tp2Qty)
  OBVIOUS
<1>5. /\ orders' = Accepted(new) /\ used' = used + Len(new) /\ used + Len(new) <= MaxOrders
      /\ pos' = [Stub(t) EXCEPT !.sl = used + 1, !.tp = used + 2, !.tp2 = used + 3]
  BY <1>3 DEF Activated
<1> HIDE DEF new
<1>6. /\ used' = used + 3
      /\ orders'[used + 1] = Opened("STOP", t, 0)
      /\ orders'[used + 2] = Opened("TP1", t, Tp1Qty)
      /\ orders'[used + 3] = Opened("TP2", t, Tp2Qty)
  <2>1. \A i \in OrderIds :
          orders'[i] = IF i \in used + 1 .. used + 3 THEN new[i - used] ELSE orders[i]
    BY <1>4, <1>5 DEF Accepted
  <2>2. used + 1 \in OrderIds /\ used + 2 \in OrderIds /\ used + 3 \in OrderIds
    BY <1>1, <1>4, <1>5 DEF OrderIds
  <2>3. /\ used + 1 \in used + 1 .. used + 3 /\ used + 2 \in used + 1 .. used + 3
        /\ used + 3 \in used + 1 .. used + 3
    BY <1>1
  <2>4. (used + 1) - used = 1 /\ (used + 2) - used = 2 /\ (used + 3) - used = 3
    BY <1>1
  <2>5. /\ orders'[used + 1] = new[1] /\ orders'[used + 2] = new[2] /\ orders'[used + 3] = new[3]
    BY <2>1, <2>2, <2>3, <2>4
  <2> QED BY <1>4, <1>5, <2>5
<1>7. /\ pos'.trade = t /\ pos'.sl = used + 1 /\ pos'.tp = used + 2 /\ pos'.tp2 = used + 3
      /\ pos'.tsl = 0 /\ pos'.tp1 = FALSE /\ pos'.qty = EntryQty /\ pos'.orig = EntryQty
      /\ pos' # NoPosition
  <2>1. t # 0
    BY DEF Trades
  <2> QED BY <1>5, <2>1 DEF Stub, NoPosition
<1>8. held' = held
  BY DEF Finalized
<1>9. /\ IsOpen(pos.sl)' /\ IsOpen(pos.tp)' /\ IsOpen(pos.tp2)'
      /\ orders'[pos'.tp].qty = 2 /\ orders'[pos'.tp2].qty = 2
  BY <1>1, <1>6, <1>7 DEF IsOpen, Opened, Tp1Qty, Tp2Qty
<1>10. Roled'
  BY <1>1, <1>6, <1>7 DEF Roled, Role, Opened
<1>11. Accounted'
  <2>1. Buys(pos.tp)' = 2 /\ Buys(pos.tp2)' = 2
    BY <1>9 DEF Buys
  <2> QED BY <1>1, <1>7, <1>8, <1>9, <2>1 DEF Accounted, Tp2Qty, EntryQty
<1> QED BY <1>9, <1>10, <1>11 DEF Kept, Sheltered

\* A close that cancels nothing of it leaves the position's stop behind.
LEMMA StopLeft ==
  ASSUME ConstantsAssumption, TInv, NEW i \in 1 .. used, IsOpen(i), orders[i].kind = "STOP",
         orders'[i] = orders[i], pos' # NoPosition => i \notin Named(pos')
  PROVE  Spare'
<1>1. i \in OrderIds
  BY Basics DEF OrderIds
<1> QED BY <1>1 DEF Spare, Known, IsOpen

LEMMA FinalizedMade ==
  ASSUME ConstantsAssumption, Undisturbed, TInv, NEW t \in Trades, Finalized(t), held > 0, Made
  PROVE  Spare'
<1>1. held \in Nat /\ used \in Nat /\ pos.sl \in 1 .. used
  <2>1. pos.sl \in Ref
    BY DEF Made, TInv, Position
  <2>2. pos.sl \in OrderIds
    BY <2>1 DEF Ref, OrderIds, Made, IsOpen, ConstantsAssumption
  <2> QED BY <2>2, Basics DEF TInv, Made
<1>3. Activated(t, TRUE)
  BY FinalizedActivates
<1>4. Named(pos') \subseteq used + 1 .. MaxOrders
  BY <1>3, ActivatedCareful
<1>5. orders'[pos.sl] = orders[pos.sl]
  BY <1>1, <1>3, AcceptedLeaves DEF Activated
<1> QED BY <1>1, <1>4, <1>5, StopLeft DEF Made

\* A stop is replaced: nothing fails, so the old one goes and a new one comes.
LEMMA StopReplaced ==
  ASSUME ConstantsAssumption, Undisturbed, TInv, held > 0, NEW placed \in BOOLEAN,
         WsTp1(placed) \/ CheckBreakeven(placed)
  PROVE  /\ placed /\ pos \in Position /\ pos # NoPosition /\ ~pos.tp1 /\ held' = held /\ pp' = pp
         /\ used + 1 \in OrderIds /\ used' = used + 1
         /\ orders'[used + 1] = Opened("STOP", pos.trade, 0)
         /\ \A i \in 1 .. used : i # pos.sl => orders'[i] = orders[i]
<1>1. /\ pos \in Position /\ pos # NoPosition /\ ~pos.tp1 /\ held' = held /\ pp' = pp
      /\ held \in Nat /\ used \in Nat /\ MaxOrders \in Nat
  BY Basics DEF WsTp1, CheckBreakeven, TInv
<1>2. PICK missed \in Missed(Replaced(pos)) :
        /\ Fail(Cardinality(missed) + FaultIfNot(placed))
        /\ placed => used < MaxOrders /\ used' = used + 1
        /\ orders' = IF placed THEN [Cancelled(Replaced(pos) \ missed)
                                       EXCEPT ![used + 1] = EntryStop(pos.trade)]
                               ELSE Cancelled(Replaced(pos) \ missed)
  BY DEF WsTp1, CheckBreakeven
<1>3. Replaced(pos) = {pos.sl} /\ Replaced(pos) \in SUBSET Ref /\ FaultIfNot(placed) \in Nat
  BY <1>1 DEF Replaced, Position, FaultIfNot
<1>4. missed = {} /\ FaultIfNot(placed) = 0
  BY <1>2, <1>3, NothingMissed
<1>5. placed
  BY <1>1, <1>4 DEF FaultIfNot
<1>6. /\ used < MaxOrders /\ used' = used + 1
      /\ orders' = [Cancelled({pos.sl}) EXCEPT ![used + 1] = EntryStop(pos.trade)]
  <2>1. Replaced(pos) \ missed = {pos.sl}
    BY <1>3, <1>4
  <2> QED BY <1>2, <1>5, <2>1
<1>7. used + 1 \in OrderIds
  BY <1>1, <1>6 DEF OrderIds
<1>8. orders'[used + 1] = Opened("STOP", pos.trade, 0)
  BY <1>6, <1>7 DEF Cancelled, EntryStop
<1>9. \A i \in 1 .. used : i # pos.sl => orders'[i] = orders[i]
  <2> DEFINE gone == {pos.sl}
  <2>1. \E o : used < MaxOrders /\ orders' = [Cancelled(gone) EXCEPT ![used + 1] = o]
    BY <1>6
  <2>2. \A i : i # pos.sl => i \notin gone
    OBVIOUS
  <2> HIDE DEF gone
  <2>3. \A i \in 1 .. used : i \notin gone \/ ~IsOpen(i) => orders'[i] = orders[i]
    BY <2>1, CancelledLeaves
  <2> QED BY <2>2, <2>3
<1> QED BY <1>1, <1>5, <1>6, <1>7, <1>8, <1>9

LEMMA KeptBreakeven ==
  ASSUME ConstantsAssumption, Undisturbed, TInv, held > 0, NEW placed \in BOOLEAN,
         CheckBreakeven(placed)
  PROVE  (Kept => Kept') /\ (Made /\ rehydrated' = rehydrated => Made')
<1>1. /\ placed /\ pos \in Position /\ held' = held /\ pp' = pp
      /\ used + 1 \in OrderIds /\ used' = used + 1
      /\ orders'[used + 1] = Opened("STOP", pos.trade, 0)
      /\ \A i \in 1 .. used : i # pos.sl => orders'[i] = orders[i]
      /\ used \in Nat
  BY StopReplaced, Basics
<1>2. /\ pos'.sl = used + 1 /\ pos'.tp = pos.tp /\ pos'.tp2 = pos.tp2 /\ pos'.tsl = pos.tsl
      /\ pos'.trade = pos.trade /\ pos'.tp1 = pos.tp1
      /\ pos'.qty = pos.qty /\ pos'.orig = pos.orig /\ pos' # NoPosition
  <2>1. pos' = [pos EXCEPT !.sl = used + 1, !.be = TRUE]
    BY <1>1 DEF CheckBreakeven
  <2>2. pos.trade # 0
    BY <1>1 DEF Position, Trades
  <2> QED BY <1>1, <2>1, <2>2 DEF Position, NoPosition
<1>3. IsOpen(pos.sl)' /\ orders'[pos'.sl].kind = "STOP" /\ orders'[pos'.sl].trade = pos'.trade
  BY <1>1, <1>2 DEF IsOpen, Opened
<1>4. ASSUME Kept PROVE Kept'
  <2>1. \A i \in {pos.tp, pos.tp2, pos.tsl} :
          i # 0 => i \in 1 .. used /\ i \in 1 .. used' /\ i # pos.sl
    BY <1>1, <1>4, RoledOrders DEF Kept, Roled
  <2>2. \A i \in {pos.tp, pos.tp2, pos.tsl} :
          /\ IsOpen(i)' <=> IsOpen(i)
          /\ i # 0 => i \in 1 .. used' /\ orders'[i] = orders[i]
    BY <1>1, <2>1 DEF IsOpen
  <2>3. Roled'
    BY <1>1, <1>2, <1>3, <1>4, <2>1, <2>2 DEF Kept, Roled, Role
  <2>4. Buys(pos.tp)' = Buys(pos.tp) /\ Buys(pos.tp2)' = Buys(pos.tp2)
    BY <1>2, <2>2 DEF Buys, IsOpen
  <2>5. (IsOpen(pos.tp)' <=> IsOpen(pos.tp)) /\ (IsOpen(pos.tp2)' <=> IsOpen(pos.tp2))
    BY <1>2, <2>2 DEF IsOpen
  <2>6. /\ orders'[pos'.tp] = orders[pos.tp]
        /\ IsOpen(pos.tp2) => orders'[pos'.tp2] = orders[pos.tp2]
    BY <1>2, <1>4, <2>2 DEF Kept, Roled, IsOpen
  <2>7. Accounted'
    BY <1>1, <1>2, <1>4, <2>4, <2>5, <2>6 DEF Kept, Accounted
  <2> QED BY <1>3, <2>3, <2>7 DEF Kept, Sheltered
<1>5. ASSUME Made, rehydrated' = rehydrated PROVE Made'
  BY <1>1, <1>2, <1>3, <1>5 DEF Made
<1> QED BY <1>4, <1>5

\* TP1's fill is handled: the stop moves behind it.
LEMMA KeptTp1 ==
  ASSUME ConstantsAssumption, Undisturbed, TInv, Told, held > 0, Kept, NEW stopped \in BOOLEAN,
         WsTp1(stopped)
  PROVE  Kept'
<1>1. /\ stopped /\ pos \in Position /\ ~pos.tp1 /\ held' = held
      /\ used + 1 \in OrderIds /\ used' = used + 1
      /\ orders'[used + 1] = Opened("STOP", pos.trade, 0)
      /\ \A i \in 1 .. used : i # pos.sl => orders'[i] = orders[i]
      /\ used \in Nat /\ held \in Nat
  BY StopReplaced, Basics DEF TInv
<1>2. Event = pos.tp /\ pos.tp2 # 0 /\ events # <<>>
  BY DEF WsTp1, Fill, Handling
<1>3. ~IsOpen(pos.tp)
  <2>1. 1 \in DOMAIN events /\ Event = events[1]
    BY <1>2, HeadTailProperties, LenProperties DEF TInv, Event
  <2> QED BY <1>2, <2>1 DEF Told, IsOpen
<1>4. /\ pos'.sl = 0 /\ pos'.tp = pos.tp /\ pos'.tp2 = pos.tp2 /\ pos'.tsl = used + 1
      /\ pos'.trade = pos.trade /\ pos'.tp1 = TRUE
      /\ pos'.qty = pos.orig - orders[pos.tp].qty /\ pos'.orig = pos.orig /\ pos' # NoPosition
  <2>1. PICK b : pos' = [pos EXCEPT !.tp1 = TRUE, !.sl = 0, !.tsl = used + 1, !.be = b,
                                    !.qty = pos.orig - orders[pos.tp].qty]
    BY <1>1, <1>2 DEF WsTp1
  <2>2. pos.trade # 0
    BY <1>1 DEF Position, Trades
  <2> QED BY <1>1, <2>1, <2>2 DEF Position, NoPosition
<1>5. /\ pos.tp \in 1 .. used /\ pos.tp2 \in 1 .. used /\ pos.tp # pos.sl /\ pos.tp2 # pos.sl
      /\ orders[pos.tp].qty \in Nat /\ pos.orig \in Nat
  BY <1>1, <1>2, RoledOrders DEF Kept, Position
<1>6. orders'[pos.tp] = orders[pos.tp] /\ orders'[pos.tp2] = orders[pos.tp2]
  BY <1>1, <1>5
<1>7. IsOpen(pos.tp2) /\ orders[pos.tp2].qty = Tp2Qty /\ held <= Tp2Qty
  <2>1. Buys(pos.tp) = 0
    BY <1>3 DEF Buys
  <2>2. held <= Buys(pos.tp2) /\ Buys(pos.tp2) \in Nat
    BY <1>1, <2>1, RoledOrders DEF Kept, Accounted
  <2>3. IsOpen(pos.tp2)
    BY <1>1, <2>2 DEF Buys
  <2> QED BY <2>2, <2>3 DEF Buys, Kept, Accounted
<1>8. ~IsOpen(pos.tp)' /\ IsOpen(pos.tp2)' /\ IsOpen(pos.tsl)'
  BY <1>1, <1>3, <1>4, <1>6, <1>7 DEF IsOpen, Opened
<1>9. Roled'
  BY <1>1, <1>4, <1>5, <1>6 DEF Kept, Roled, Role, Opened
<1>10. Accounted'
  <2>1. Buys(pos.tp)' = 0 /\ Buys(pos.tp2)' = Tp2Qty
    BY <1>4, <1>6, <1>7, <1>8 DEF Buys
  <2>2. held <= pos.orig - orders[pos.tp].qty /\ pos.orig <= EntryQty
    BY <1>1, <1>3, <1>5 DEF Kept, Accounted
  <2> QED BY <1>1, <1>4, <1>5, <1>6, <1>7, <2>1, <2>2 DEF Accounted, Tp2Qty
<1>11. Sheltered'
  BY <1>1, <1>7, <1>8 DEF Sheltered, Tp1Qty, Tp2Qty
<1> QED BY <1>9, <1>10, <1>11 DEF Kept

\* A retry places what it misses behind the orders there are.
LEMMA RetriesPlaced ==
  ASSUME ConstantsAssumption, TInv, NEW stop \in BOOLEAN, CheckRetries(stop, TRUE, TRUE)
  PROVE  LET n == IF stop THEN used + 1 ELSE used IN
         /\ used' = n + 2
         /\ stop => orders'[n] = Opened("STOP", pos.trade, 0)
         /\ orders'[n + 1] = Opened("TP1", pos.trade, pp.q1)
         /\ orders'[n + 2] = Opened("TP2", pos.trade, pp.q2)
         /\ \A i \in 1 .. used : orders'[i] = orders[i]
         /\ pos' = [pos EXCEPT !.sl = IF stop THEN n ELSE @, !.tp = n + 1, !.tp2 = n + 2]
<1> DEFINE a == Opened("STOP", pos.trade, 0)
           b == Opened("TP1", pos.trade, pp.q1)
           c == Opened("TP2", pos.trade, pp.q2)
           stops == IF stop THEN <<a>> ELSE <<>>
           new == stops \o <<b>> \o <<c>>
<1>1. used \in Nat /\ MaxOrders \in Nat
  BY Basics
<1>2. \A x, y : Len(<<x>> \o <<y>>) = 2 /\ Len(<<x>>) = 1 /\ Len(<<>>) = 0
  OBVIOUS
<1>3. /\ orders' = Accepted(new)
      /\ used' = used + Len(stops) + Len(<<b>> \o <<c>>)
      /\ used + Len(stops) + Len(<<b>> \o <<c>>) <= MaxOrders
      /\ pos' = [pos EXCEPT !.sl = IF stop THEN used + Len(stops) ELSE @,
                            !.tp = used + Len(stops) + 1, !.tp2 = used + Len(stops) + 2]
  BY DEF CheckRetries
<1>4. Len(stops) = IF stop THEN 1 ELSE 0
  OBVIOUS
<1>5. CASE stop
  <2> HIDE DEF a, b, c
  <2>1. /\ Len(new) = 3 /\ new[1] = a /\ new[2] = b /\ new[3] = c
    BY <1>5
  <2> HIDE DEF new
  <2>2. used' = used + 3 /\ used + 3 <= MaxOrders
    BY <1>1, <1>2, <1>3, <1>4, <1>5
  <2>3. \A i \in OrderIds :
          orders'[i] = IF i \in used + 1 .. used + 3 THEN new[i - used] ELSE orders[i]
    BY <1>3, <2>1 DEF Accepted
  <2>4. used + 1 \in OrderIds /\ used + 2 \in OrderIds /\ used + 3 \in OrderIds
    BY <1>1, <2>2 DEF OrderIds
  <2>5. (used + 1) - used = 1 /\ (used + 2) - used = 2 /\ (used + 3) - used = 3
    BY <1>1
  <2>6. /\ used + 1 \in used + 1 .. used + 3 /\ used + 2 \in used + 1 .. used + 3
        /\ used + 3 \in used + 1 .. used + 3
    BY <1>1
  <2>7. orders'[used + 1] = new[1] /\ orders'[used + 2] = new[2] /\ orders'[used + 3] = new[3]
    BY <2>3, <2>4, <2>5, <2>6
  <2>8. \A i \in 1 .. used : orders'[i] = orders[i]
    BY <1>3, AcceptedLeaves
  <2>9. (used + 1) + 1 = used + 2 /\ (used + 1) + 2 = used + 3
    BY <1>1
  <2>10. pos' = [pos EXCEPT !.sl = IF stop THEN used + 1 ELSE @, !.tp = used + 2, !.tp2 = used + 3]
    BY <1>1, <1>3, <1>4, <1>5, <2>9
  <2> QED BY <1>5, <2>1, <2>2, <2>7, <2>8, <2>9, <2>10 DEF a, b, c
<1>6. CASE ~stop
  <2> HIDE DEF a, b, c
  <2>1. /\ Len(new) = 2 /\ new[1] = b /\ new[2] = c
    BY <1>6
  <2> HIDE DEF new
  <2>2. used' = used + 2 /\ used + 2 <= MaxOrders
    BY <1>1, <1>2, <1>3, <1>4, <1>6
  <2>3. \A i \in OrderIds :
          orders'[i] = IF i \in used + 1 .. used + 2 THEN new[i - used] ELSE orders[i]
    BY <1>3, <2>1 DEF Accepted
  <2>4. used + 1 \in OrderIds /\ used + 2 \in OrderIds
    BY <1>1, <2>2 DEF OrderIds
  <2>5. (used + 1) - used = 1 /\ (used + 2) - used = 2
    BY <1>1
  <2>6. used + 1 \in used + 1 .. used + 2 /\ used + 2 \in used + 1 .. used + 2
    BY <1>1
  <2>7. orders'[used + 1] = new[1] /\ orders'[used + 2] = new[2]
    BY <2>3, <2>4, <2>5, <2>6
  <2>8. \A i \in 1 .. used : orders'[i] = orders[i]
    BY <1>3, AcceptedLeaves
  <2>9. used + Len(stops) = used
    BY <1>1, <1>4, <1>6
  <2> HIDE DEF stops
  <2>10. pos' = [pos EXCEPT !.sl = IF stop THEN used ELSE @, !.tp = used + 1, !.tp2 = used + 2]
    BY <1>3, <2>9
  <2> QED BY <1>6, <2>1, <2>2, <2>7, <2>8, <2>10 DEF a, b, c
<1> QED BY <1>5, <1>6

LEMMA KeptRetries ==
  ASSUME ConstantsAssumption, Undisturbed, TInv, Retrying, held > 0, Kept,
         NEW stop \in BOOLEAN, NEW tp \in BOOLEAN, NEW tp2 \in BOOLEAN,
         CheckRetries(stop, tp, tp2)
  PROVE  Kept'
<1> DEFINE n == IF stop THEN used + 1 ELSE used
<1>1. CheckRetries(stop, TRUE, TRUE) /\ stop = pp.sl
  <2>1. tp = TRUE /\ tp2 = TRUE /\ stop = pp.sl
    BY RetriesAll
  <2> QED BY <2>1
<1>2. pp.q1 = Tp1Qty /\ pp.q2 = Tp2Qty /\ held' = held
  BY <1>1 DEF Retrying, CheckRetries
<1>3. /\ used' = n + 2
      /\ stop => orders'[n] = Opened("STOP", pos.trade, 0)
      /\ orders'[n + 1] = Opened("TP1", pos.trade, Tp1Qty)
      /\ orders'[n + 2] = Opened("TP2", pos.trade, Tp2Qty)
      /\ \A i \in 1 .. used : orders'[i] = orders[i]
      /\ pos' = [pos EXCEPT !.sl = IF stop THEN n ELSE @, !.tp = n + 1, !.tp2 = n + 2]
  BY <1>1, <1>2, RetriesPlaced
<1>4. used \in Nat /\ n \in Nat /\ n >= used /\ (stop => n = used + 1) /\ held \in Nat
  <2>1. used \in Nat /\ held \in Nat
    BY Basics DEF TInv
  <2> QED BY <2>1
<1> HIDE DEF n
<1>5. /\ pos \in Position /\ (pos.sl # 0 => pos.sl \in 1 .. used)
      /\ (pos.tsl # 0 => pos.tsl \in 1 .. used) /\ pos.trade # 0
  BY RoledOrders DEF Kept, Position, Trades
<1>6. /\ pos'.sl = (IF stop THEN n ELSE pos.sl) /\ pos'.tp = n + 1 /\ pos'.tp2 = n + 2
      /\ pos'.tsl = pos.tsl /\ pos'.trade = pos.trade /\ pos'.tp1 = pos.tp1
      /\ pos'.qty = pos.qty /\ pos'.orig = pos.orig /\ pos' # NoPosition
  BY <1>3, <1>5 DEF Position, NoPosition
<1>7. /\ IsOpen(pos.tp)' /\ IsOpen(pos.tp2)' /\ (stop => IsOpen(pos.sl)')
      /\ orders'[pos'.tp].qty = 2 /\ orders'[pos'.tp2].qty = 2
  BY <1>3, <1>4, <1>6 DEF IsOpen, Opened, Tp1Qty, Tp2Qty
<1>8. /\ ~stop => (IsOpen(pos.sl)' <=> IsOpen(pos.sl))
      /\ IsOpen(pos.tsl)' <=> IsOpen(pos.tsl)
  BY <1>3, <1>5, <1>6 DEF IsOpen
<1>9. Roled'
  <2>1. Role(pos.tp, "TP1")' /\ Role(pos.tp2, "TP2")'
    BY <1>3, <1>4, <1>6 DEF Role, Opened
  <2>2. Role(pos.tsl, "STOP")'
    BY <1>3, <1>4, <1>5, <1>6 DEF Role, Roled, Kept
  <2>3. Role(pos.sl, "STOP")'
    <3>1. CASE stop
      BY <1>3, <1>4, <1>6, <3>1 DEF Role, Opened
    <3>2. CASE ~stop
      BY <1>3, <1>4, <1>5, <1>6, <3>2 DEF Role, Roled, Kept
    <3> QED BY <3>1, <3>2
  <2>4. pos'.sl # 0 => pos'.sl # pos'.tsl
    BY <1>4, <1>5, <1>6 DEF Roled, Kept
  <2> QED BY <1>4, <1>6, <2>1, <2>2, <2>3, <2>4 DEF Roled
<1>10. Accounted'
  <2>1. Buys(pos.tp)' = 2 /\ Buys(pos.tp2)' = 2
    BY <1>7 DEF Buys
  <2>2. held <= 4
    BY <1>4, <1>5 DEF Kept, Accounted, EntryQty, Position
  <2> QED BY <1>2, <1>4, <1>6, <1>7, <2>1, <2>2 DEF Kept, Accounted, Tp2Qty
<1>11. Sheltered'
  BY <1>2, <1>7, <1>8 DEF Kept, Sheltered, Tp1Qty
<1> QED BY <1>9, <1>10, <1>11 DEF Kept

\* The emergency close takes all the position is known to have.
LEMMA GivesUpCloses ==
  ASSUME ConstantsAssumption, Undisturbed, TInv, NEW ok \in BOOLEAN, CheckGivesUp(ok),
         held > 0, held <= pos.qty
  PROVE  held' = 0
<1>1. held \in Nat /\ pos \in Position /\ pos.qty \in Int
  BY DEF CheckGivesUp, TInv, Position
<1>2. ok
  <2> SUFFICES ASSUME ~ok PROVE FALSE
    OBVIOUS
  <2>1. Fail(ForceFault(pos, ok))
    BY DEF CheckGivesUp
  <2>2. ForceFault(pos, ok) = 1
    BY <1>1 DEF ForceFault
  <2> QED BY <2>1, <2>2, NothingFails
<1>3. held' = held - Least(pos.qty, held)
  BY <1>2 DEF CheckGivesUp, ForcePlaced
<1> QED BY <1>1, <1>3 DEF Least

LEMMA EventFilled ==
  ASSUME ConstantsAssumption, TInv, Told, events # <<>>
  PROVE  /\ Event \in 1 .. used /\ Event # 0 /\ ~IsOpen(Event)
         /\ held > 0 => orders[Event].kind # "STOP"
<1>1. 1 \in DOMAIN events /\ Event = events[1] /\ Event \in 1 .. used
  BY Basics, HeadTailProperties, LenProperties DEF TInv, Event
<1>2. used \in Nat
  BY Basics
<1> QED BY <1>1, <1>2 DEF Told, IsOpen

\* A handler that counts the position as closed although it is held leaves
\* its stop in the book.
LEMMA KeptEnds ==
  ASSUME ConstantsAssumption, Undisturbed, TInv, Told, held > 0, Kept,
         WsTp1Closes \/ WsTp2 \/ WsTrailingSl \/ WsHardSl \/ WsForceClosed \/ WsUntracked
  PROVE  Spare'
<1>1. /\ Fill /\ events # <<>> /\ pos \in Position /\ held \in Nat
      /\ Event # 0 /\ ~IsOpen(Event) /\ orders[Event].kind # "STOP"
  BY EventFilled DEF WsTp1Closes, WsTp2, WsTrailingSl, WsHardSl, WsForceClosed, WsUntracked,
                     Fill, Handling, TInv
<1>2. /\ Buys(pos.tp) \in Nat /\ Buys(pos.tp2) \in Nat /\ held <= Buys(pos.tp) + Buys(pos.tp2)
  BY RoledOrders DEF Kept, Accounted
<1>3. ASSUME NEW ids \in SUBSET Ref, NEW r, Closes(ids, r), NEW i \in {pos.sl, pos.tsl},
             i \notin ids, IsOpen(i)
      PROVE  Spare'
  <2>1. i \in 1 .. used /\ orders[i].kind = "STOP"
    BY <1>3 DEF Kept, Roled, Role, IsOpen
  <2>2. PICK missed \in Missed(ids) : orders' = Cancelled(ids \ missed)
    BY <1>3 DEF Closes
  <2>3. orders'[i] = orders[i]
    BY <1>3, <2>1, <2>2, CancelledLeaves
  <2>4. pos' = NoPosition
    BY <1>3 DEF Closes, Persisted, Removed
  <2> QED BY <1>3, <2>1, <2>3, <2>4, StopLeft
<1>4. ~WsTp1Closes
  <2> SUFFICES ASSUME WsTp1Closes PROVE FALSE
    OBVIOUS
  <2>1. Buys(pos.tp) = 0 /\ Buys(pos.tp2) = 0
    BY <1>1 DEF WsTp1Closes, Buys, IsOpen
  <2> QED BY <1>1, <1>2, <2>1
<1>5. ~WsTrailingSl /\ ~WsHardSl
  BY <1>1 DEF WsTrailingSl, WsHardSl, Kept, Roled, Role
<1>6. CASE WsTp2
  <2>1. Buys(pos.tp2) = 0
    BY <1>1, <1>6 DEF WsTp2, Buys
  <2>2. IsOpen(pos.tp) /\ ~IsOpen(pos.tp2)
    BY <1>1, <1>2, <1>6, <2>1 DEF WsTp2, Buys
  <2>3. IsOpen(pos.sl)
    BY <2>2 DEF Kept, Sheltered
  <2>4. pos.sl # 0 /\ pos.sl \notin {pos.tsl} /\ {pos.tsl} \in SUBSET Ref
    BY <1>1, <2>3 DEF IsOpen, Kept, Roled, Position
  <2> QED BY <1>3, <1>6, <2>3, <2>4 DEF WsTp2
<1>7. CASE WsForceClosed \/ WsUntracked
  <2>1. \E r : Closes({}, r)
    BY <1>7 DEF WsForceClosed, WsUntracked
  <2>2. IsOpen(pos.sl) \/ IsOpen(pos.tsl)
    BY DEF Kept, Sheltered
  <2> QED BY <1>3, <2>1, <2>2
<1> QED BY <1>4, <1>5, <1>6, <1>7

\* A trade of rehydratePosition's that is closed is the exception.
LEMMA MadeEnds ==
  ASSUME ConstantsAssumption, TInv, Made, rehydrated' = rehydrated,
         WsTp1Closes \/ WsTp2 \/ WsTrailingSl \/ WsHardSl \/ WsForceClosed \/ WsUntracked
  PROVE  Excused'
<1>1. PICK ids, r : Closes(ids, r)
  BY DEF WsTp1Closes, WsTp2, WsTrailingSl, WsHardSl, WsForceClosed, WsUntracked
<1>2. pos.trade \in Trades /\ closes \in [Trades -> Nat]
  BY DEF Made, TInv, Position
<1>3. closes' = [closes EXCEPT ![pos.trade] = @ + 1]
  BY <1>1 DEF Closes, Persisted
<1>4. closes'[pos.trade] > 0
  BY <1>2, <1>3
<1> QED BY <1>4 DEF Made, Excused

\* A step that leaves the position and the orders so far alone.
LEMMA MadeStays ==
  ASSUME ConstantsAssumption, TInv, pos' = pos, pp' = pp, rehydrated' = rehydrated,
         \A i \in 1 .. used : orders'[i] = orders[i]
  PROVE  Made => Made'
<1> SUFFICES ASSUME Made PROVE Made'
  OBVIOUS
<1>1. pos.sl \in Ref /\ pos.sl # 0
  BY DEF Made, TInv, Position, IsOpen
<1>2. pos.sl \in OrderIds
  BY <1>1 DEF Ref, OrderIds, ConstantsAssumption
<1>3. orders'[pos.sl] = orders[pos.sl]
  BY <1>2, Basics DEF Made
<1> QED BY <1>3 DEF Made, IsOpen

LEMMA SpareExecutes ==
  ASSUME ConstantsAssumption, TInv, NEW i \in OrderIds, Executes(i), held' > 0
  PROVE  (Spare => Spare') /\ (Made /\ rehydrated' = rehydrated => Made')
<1>1. /\ orders[i].kind # "STOP" /\ \A j \in OrderIds \ {i} : orders'[j] = orders[j]
  BY ExecutedOrders DEF TInv
<1>2. pos' = pos /\ pp' = pp
  BY DEF Executes, cache
<1>3. ASSUME Spare PROVE Spare'
  BY <1>1, <1>2, <1>3 DEF Spare, Known, IsOpen
<1>4. ASSUME Made, rehydrated' = rehydrated PROVE Made'
  <2>1. pos.sl \in OrderIds
    <3>1. pos.sl \in Ref /\ pos.sl # 0
      BY <1>4 DEF Made, TInv, Position, IsOpen
    <3> QED BY <3>1 DEF Ref, OrderIds, ConstantsAssumption
  <2> QED BY <1>1, <1>2, <1>4, <2>1 DEF Made, IsOpen
<1> QED BY <1>3, <1>4

\* What the exchange does while the position is held.
LEMMA HeldExecutes ==
  ASSUME ConstantsAssumption, Undisturbed, TInv, held > 0, Exchange
  PROVE  \E i \in OrderIds : Executes(i)
<1>1. \A i \in OrderIds : ~Expires(i)
  BY DEF Expires, TInv
<1> QED BY <1>1, NobodyCloses DEF Exchange

LEMMA TwoPlaced ==
  ASSUME ConstantsAssumption, TInv, NEW a, NEW b, orders' = Accepted(<<a>> \o <<b>>),
         used + 1 + 1 <= MaxOrders, used' = used + 1 + 1
  PROVE  /\ used' = used + 2 /\ used + 1 \in OrderIds /\ used + 2 \in OrderIds
         /\ orders'[used + 1] = a /\ orders'[used + 2] = b
         /\ \A i \in 1 .. used : orders'[i] = orders[i]
<1> DEFINE new == <<a>> \o <<b>>
<1>1. used \in Nat /\ MaxOrders \in Nat
  BY Basics
<1>2. Len(new) = 2 /\ new[1] = a /\ new[2] = b
  OBVIOUS
<1> HIDE DEF new
<1>3. \A i \in OrderIds :
        orders'[i] = IF i \in used + 1 .. used + 2 THEN new[i - used] ELSE orders[i]
  BY <1>2 DEF Accepted, new
<1>4. used + 1 \in OrderIds /\ used + 2 \in OrderIds /\ used' = used + 2
  BY <1>1 DEF OrderIds
<1>5. /\ (used + 1) - used = 1 /\ (used + 2) - used = 2
      /\ used + 1 \in used + 1 .. used + 2 /\ used + 2 \in used + 1 .. used + 2
  BY <1>1
<1>6. orders'[used + 1] = new[1] /\ orders'[used + 2] = new[2]
  BY <1>3, <1>4, <1>5
<1> QED BY <1>2, <1>4, <1>6, AcceptedLeaves

\* The sweep finds the stub.
LEMMA BareProtected ==
  ASSUME ConstantsAssumption, Undisturbed, TInv, held > 0, Bare,
         NEW known \in BOOLEAN, NEW stop \in BOOLEAN, NEW tp \in BOOLEAN,
         SweepProtects(known, stop, tp)
  PROVE  Kept'
<1> DEFINE a == Opened("STOP", pos.trade, 0)
           b == Opened("TP1", pos.trade, held)
           new == <<a>> \o <<b>>
<1>1. known = TRUE /\ stop = TRUE /\ tp = TRUE
  BY SweepPlacesBoth
<1>2. SweepProtects(TRUE, TRUE, TRUE)
  BY <1>1
<1>3. used \in Nat /\ MaxOrders \in Nat /\ held \in Nat /\ held' = held
  <2>1. used \in Nat /\ MaxOrders \in Nat
    BY Basics
  <2> QED BY <1>2, <2>1 DEF TInv, SweepProtects
<1>4. \A x : Len(<<x>>) = 1
  OBVIOUS
<1>5. /\ used + 1 + 1 <= MaxOrders /\ used' = used + 1 + 1
      /\ orders' = Accepted(new)
      /\ pos' = [pos EXCEPT !.sl = used + 1, !.tp = (used + 1) + 1, !.qty = held, !.orig = held]
  <2> HIDE DEF a, b
  <2>1. Len(<<a>>) = 1 /\ Len(<<b>>) = 1
    BY <1>4
  <2> QED BY <1>2, <2>1 DEF SweepProtects, a, b
<1>6. used' = used + 2 /\ orders'[used + 1] = a /\ orders'[used + 2] = b
  <2> HIDE DEF a, b
  <2> QED BY <1>5, TwoPlaced
<1>7. /\ pos'.trade = pos.trade /\ pos'.sl = used + 1 /\ pos'.tp = used + 2 /\ pos'.tp2 = 0
      /\ pos'.tsl = 0 /\ pos'.tp1 = FALSE /\ pos'.qty = held /\ pos'.orig = held
      /\ pos' # NoPosition
  <2>1. pos \in Position /\ pos.trade # 0
    BY DEF Bare, TInv, Position, Trades
  <2>2. pos.tp2 = 0 /\ pos.tsl = 0 /\ pos.tp1 = FALSE
    BY DEF Bare, Stub
  <2>3. (used + 1) + 1 = used + 2
    BY <1>3
  <2> QED BY <1>5, <2>1, <2>2, <2>3 DEF Position, NoPosition
<1>8. /\ IsOpen(pos.sl)' /\ IsOpen(pos.tp)' /\ ~IsOpen(pos.tp2)' /\ orders'[pos'.tp].qty = held
  BY <1>3, <1>6, <1>7 DEF IsOpen, Opened
<1>9. Roled'
  BY <1>3, <1>6, <1>7 DEF Roled, Role, Opened
<1>10. Accounted'
  <2>1. Buys(pos.tp)' = held /\ Buys(pos.tp2)' = 0
    BY <1>8 DEF Buys
  <2>2. held <= EntryQty
    BY DEF Bare
  <2> QED BY <1>3, <1>7, <1>8, <2>1, <2>2 DEF Accounted
<1> QED BY <1>8, <1>9, <1>10 DEF Kept, Sheltered

LEMMA BareStep ==
  ASSUME ConstantsAssumption, Undisturbed, TInv, held > 0, Bare, Next
  PROVE  Bare' \/ Kept'
<1>1. /\ pos # NoPosition /\ pos = Stub(pos.trade) /\ IsStub(pos) /\ held <= EntryQty
      /\ pp = NoProtection /\ events = <<>> /\ ws = 0 /\ eng = 0 /\ OnlyOpen({})
      /\ held \in Nat
  BY DEF Bare, Stub, IsStub, TInv
<1>2. ~Exchange
  <2>1. \A i \in OrderIds : ~Executes(i) /\ ~Expires(i)
    BY <1>1 DEF Executes, Expires, IsOpen, OnlyOpen
  <2> QED BY <2>1, NobodyCloses DEF Exchange
<1>3. Engine => \E t \in Trades : PendingExpires(t)
  BY <1>1 DEF Engine, Enter, EnterReturns, EnterErrs
<1>4. ASSUME NEW t \in Trades, PendingExpires(t)
      PROVE  Bare'
  BY <1>1, <1>4 DEF PendingExpires, exchange, Bare, OnlyOpen
<1>5. ~UserData
  BY <1>1 DEF UserData, WsReadsPending, WsFinalizes, WsTp1, WsTp1Closes, WsTp2, WsTrailingSl,
              WsHardSl, WsForceClosed, WsUntracked, WsIgnored, Fill, Handling
<1>6. ~Check
  <2>1. \A placed \in BOOLEAN : ~CheckBreakeven(placed)
    BY <1>1 DEF CheckBreakeven, Aged, Undisturbed
  <2>2. /\ \A stop, tp, tp2 \in BOOLEAN : ~CheckRetries(stop, tp, tp2)
        /\ \A ok \in BOOLEAN : ~CheckGivesUp(ok)
    BY <1>1 DEF CheckRetries, CheckGivesUp
  <2> QED BY <2>1, <2>2 DEF Check
<1>7. CASE Sweep
  <2>1. ~SweepDropsStub
    BY <1>1 DEF SweepDropsStub
  <2>2. ASSUME SweepFinalizes PROVE Kept'
    <3>1. pos.trade \in Trades /\ Finalized(pos.trade)
      BY <1>1, <2>2 DEF SweepFinalizes, TInv, Position
    <3> QED BY <1>1, <3>1, FinalizedKept
  <2> QED BY <1>7, <2>1, <2>2, BareProtected DEF Sweep
<1>8. ~Unlocked
  BY DEF Unlocked, Undisturbed
<1> QED BY <1>2, <1>3, <1>4, <1>5, <1>6, <1>7, <1>8 DEF Next

LEMMA EnteringStep ==
  ASSUME ConstantsAssumption, Undisturbed, TInv, Retrying, held > 0, held' > 0, Entering, Next
  PROVE  Entering' \/ Kept'
<1>1. /\ held \in Nat /\ held <= EntryQty /\ trade # 0 /\ trade \in Trades
      /\ pos # NoPosition => pos.qty = EntryQty /\ pos \in Position
  BY DEF Entering, TInv, Trades
<1>2. ~Delivered
  BY <1>1 DEF Entering, Delivered
<1>3. Orderly /\ held' \in Nat
  BY NextType DEF TInv
<1>4. ASSUME ws' = ws, trade' = trade, pending' = pending, held' <= held,
             events # <<>> => events' # <<>> /\ Event' = Event,
             pos' # NoPosition => pos'.qty = EntryQty
      PROVE  Entering'
  <2>1. held' <= EntryQty
    BY <1>1, <1>3, <1>4 DEF EntryQty
  <2>2. CASE ws = trade
    BY <1>1, <1>4, <2>1, <2>2 DEF Entering
  <2>3. CASE ws # trade
    <3>1. /\ ws = 0 /\ events # <<>> /\ trade \in pending
          /\ orders[Event].kind = "ENTRY" /\ orders[Event].trade = trade
      BY <2>3 DEF Entering
    <3>2. /\ orders'[Event].kind = "ENTRY" /\ orders'[Event].trade = trade
      BY <1>3, <3>1, Basics DEF Orderly, Same
    <3>3. events' # <<>> /\ Event' = Event
      BY <1>4, <3>1
    <3>4. orders'[Event'].kind = "ENTRY" /\ orders'[Event'].trade = trade'
      BY <1>4, <3>2, <3>3
    <3> QED BY <1>1, <1>4, <2>1, <3>1, <3>3, <3>4 DEF Entering
  <2> QED BY <2>2, <2>3
<1>5. CASE Exchange
  <2>1. PICK i \in OrderIds : Executes(i)
    BY <1>5, HeldExecutes
  <2>2. events # <<>> => events' # <<>> /\ Event' = Event
    <3> SUFFICES ASSUME events # <<>> PROVE events' # <<>> /\ Event' = Event
      OBVIOUS
    <3>1. events' = Append(events, i) /\ events \in Seq(1 .. used) /\ i \in 1 .. used
      BY <2>1, ExecutedOrders DEF Executes, TInv
    <3>2. Len(events) \in Nat /\ Len(events) >= 1 /\ Head(events) = events[1] /\ 1 \in 1 .. Len(events)
      BY <3>1, HeadTailProperties, LenProperties, EmptySeq
    <3>3. events' \in Seq(1 .. used) /\ events' # <<>> /\ events'[1] = events[1]
      BY <3>1, <3>2, AppendProperties
    <3>4. Head(events') = events'[1]
      BY <3>3, HeadTailProperties
    <3> QED BY <3>2, <3>3, <3>4 DEF Event
  <2>3. held' <= held
    BY <1>5, HeldShrinks
  <2> QED BY <1>1, <1>4, <2>1, <2>2, <2>3 DEF Executes, cache
<1>6. CASE Engine
  <2>1. ~Enter /\ \A t \in Trades : ~PendingExpires(t)
    BY <1>2 DEF Enter, Cooled, PendingExpires, Waited, Undisturbed
  <2>2. ~EnterErrs
    BY NothingFails DEF EnterErrs
  <2>3. CASE EnterReturns
    <3>1. pos' # NoPosition => pos'.qty = EntryQty
      BY <1>1, <2>3 DEF EnterReturns, Stub
    <3> QED BY <1>1, <1>4, <2>3, <3>1 DEF EnterReturns, exchange, Event
  <2> QED BY <1>6, <2>1, <2>2, <2>3 DEF Engine
<1>7. CASE UserData
  <2>1. ~Fill
    BY <1>1 DEF Fill, Handling, Entering
  <2>2. CASE WsReadsPending
    <3>1. ws = 0 /\ ws' = trade /\ trade' = trade /\ held' = held /\ pos' = pos
      BY <1>1, <2>2 DEF WsReadsPending, Handling, Entering, cache
    <3> QED BY <1>1, <3>1 DEF Entering
  <2>3. CASE WsFinalizes
    <3>1. Finalized(trade)
      BY <2>3 DEF WsFinalizes, Entering
    <3> QED BY <1>1, <3>1, FinalizedKept
  <2> QED BY <1>7, <2>1, <2>2, <2>3
          DEF UserData, WsTp1, WsTp1Closes, WsTp2, WsTrailingSl, WsHardSl, WsForceClosed,
              WsUntracked, WsIgnored
<1>8. CASE Check
  <2>1. ASSUME NEW stop \in BOOLEAN, NEW tp \in BOOLEAN, NEW tp2 \in BOOLEAN,
               CheckRetries(stop, tp, tp2)
        PROVE  Entering'
    <3>1. PICK a, b, c : pos' = [pos EXCEPT !.sl = a, !.tp = b, !.tp2 = c]
      BY <2>1 DEF CheckRetries
    <3>2. pos'.qty = EntryQty
      BY <1>1, <2>1, <3>1 DEF CheckRetries, Position
    <3> QED BY <1>1, <1>4, <2>1, <3>2 DEF CheckRetries, Event
  <2>2. \A ok \in BOOLEAN : ~CheckGivesUp(ok)
    BY <1>1, GivesUpCloses DEF CheckGivesUp
  <2>3. ASSUME NEW placed \in BOOLEAN, CheckBreakeven(placed)
        PROVE  Entering'
    <3>1. pos' = pos \/ pos' = [pos EXCEPT !.sl = used + 1, !.be = TRUE]
      BY <2>3 DEF CheckBreakeven
    <3>2. pos'.qty = EntryQty
      BY <1>1, <2>3, <3>1 DEF CheckBreakeven, Position
    <3> QED BY <1>1, <1>4, <2>3, <3>2 DEF CheckBreakeven, Event
  <2> QED BY <1>8, <2>1, <2>2, <2>3 DEF Check
<1>9. ~Sweep
  BY <1>2 DEF Sweep, SweepFinalizes, SweepDropsStub, SweepProtects, Waited, Undisturbed
<1>10. ~Unlocked
  BY DEF Unlocked, Undisturbed
<1> QED BY <1>5, <1>6, <1>7, <1>8, <1>9, <1>10 DEF Next

LEMMA KeptStep ==
  ASSUME ConstantsAssumption, Undisturbed, TInv, Told, Retrying, held > 0, held' > 0, Kept, Next
  PROVE  Kept' \/ Spare'
<1>1. /\ pos # NoPosition /\ pos.tp # 0 /\ pos \in Position /\ held \in Nat /\ held <= pos.qty
      /\ held <= EntryQty
  <2>1. pos # NoPosition /\ pos.tp # 0 /\ pos \in Position /\ held \in Nat
    BY RoledOrders DEF Kept, Roled, TInv
  <2>2. held <= pos.qty /\ pos.qty <= pos.orig /\ pos.orig <= EntryQty
    BY DEF Kept, Accounted
  <2> QED BY <2>1, <2>2 DEF Position, EntryQty
<1>2. Orderly
  BY NextType
<1>3. CASE Exchange
  <2>1. PICK i \in OrderIds : Executes(i)
    BY <1>3, HeldExecutes
  <2> QED BY <2>1, KeptExecutes
<1>4. CASE Engine
  <2>1. ~Enter
    BY <1>1 DEF Enter
  <2>2. ~EnterErrs
    BY NothingFails DEF EnterErrs
  <2>3. EnterReturns => pos' = pos /\ held' = held /\ orders' = orders
    BY <1>1 DEF EnterReturns, exchange
  <2>4. \A t \in Trades : PendingExpires(t) => pos' = pos /\ held' = held /\ orders' = orders
    BY DEF PendingExpires, exchange
  <2> QED BY <1>2, <1>4, <2>1, <2>2, <2>3, <2>4, KeptStays DEF Engine
<1>5. CASE UserData
  <2>1. WsReadsPending \/ WsIgnored => pos' = pos /\ held' = held /\ orders' = orders
    BY DEF WsReadsPending, WsIgnored, cache
  <2>2. ASSUME WsFinalizes PROVE Kept'
    <3>1. ws \in Trades /\ Finalized(ws)
      BY <2>2 DEF WsFinalizes, TInv, Trades
    <3> QED BY <1>1, <3>1, FinalizedKept
  <2> QED BY <1>2, <1>5, <2>1, <2>2, KeptStays, KeptTp1, KeptEnds DEF UserData
<1>6. CASE Check
  <2>1. \A ok \in BOOLEAN : ~CheckGivesUp(ok)
    BY <1>1, GivesUpCloses
  <2> QED BY <1>6, <2>1, KeptRetries, KeptBreakeven DEF Check
<1>7. ~Sweep
  BY <1>1 DEF Sweep, SweepFinalizes, SweepDropsStub, SweepProtects, IsStub
<1>8. ~Unlocked
  BY DEF Unlocked, Undisturbed
<1> QED BY <1>3, <1>4, <1>5, <1>6, <1>7, <1>8 DEF Next

LEMMA MadeStep ==
  ASSUME ConstantsAssumption, Undisturbed, TInv, held > 0, held' > 0, Made, Next,
         rehydrated' = rehydrated
  PROVE  Made' \/ Spare' \/ Excused'
<1>1. /\ pos # NoPosition /\ pos.tp2 = 0 /\ pos.sl # 0 /\ pp = NoProtection
  BY DEF Made, IsOpen
<1>2. held \in Nat
  BY DEF TInv
<1>3. CASE Exchange
  <2>1. PICK i \in OrderIds : Executes(i)
    BY <1>3, HeldExecutes
  <2> QED BY <2>1, SpareExecutes
<1>4. CASE Engine
  <2>1. ~Enter
    BY <1>1 DEF Enter
  <2>2. ~EnterErrs
    BY NothingFails DEF EnterErrs
  <2>3. EnterReturns => pos' = pos /\ pp' = pp /\ orders' = orders
    BY <1>1 DEF EnterReturns, exchange
  <2>4. \A t \in Trades : PendingExpires(t) => pos' = pos /\ pp' = pp /\ orders' = orders
    BY DEF PendingExpires, exchange
  <2> QED BY <1>4, <2>1, <2>2, <2>3, <2>4, MadeStays DEF Engine
<1>5. CASE UserData
  <2>1. WsReadsPending \/ WsIgnored => pos' = pos /\ pp' = pp /\ orders' = orders
    BY DEF WsReadsPending, WsIgnored, cache
  <2>2. ASSUME WsFinalizes PROVE Spare'
    <3>1. ws \in Trades /\ Finalized(ws)
      BY <2>2 DEF WsFinalizes, TInv, Trades
    <3> QED BY <3>1, FinalizedMade
  <2>3. \A stopped \in BOOLEAN : ~WsTp1(stopped)
    BY <1>1 DEF WsTp1
  <2> QED BY <1>5, <2>1, <2>2, <2>3, MadeStays, MadeEnds DEF UserData
<1>6. CASE Check
  <2>1. /\ \A stop, tp, tp2 \in BOOLEAN : ~CheckRetries(stop, tp, tp2)
        /\ \A ok \in BOOLEAN : ~CheckGivesUp(ok)
    BY <1>1 DEF CheckRetries, CheckGivesUp
  <2> QED BY <1>6, <2>1, KeptBreakeven DEF Check
<1>7. ~Sweep
  BY <1>1 DEF Sweep, SweepFinalizes, SweepDropsStub, SweepProtects, IsStub
<1>8. ~Unlocked
  BY DEF Unlocked, Undisturbed
<1> QED BY <1>3, <1>4, <1>5, <1>6, <1>7, <1>8 DEF Next

-----------------------------------------------------------------------------
(* The process runs, is down, and starts.                                  *)

LEMMA UpKept ==
  ASSUME ConstantsAssumption, Undisturbed, TInv, Guarded, Next,
         proc = "up", proc' = "up", rehydrated' = rehydrated
  PROVE  Guarded' \/ Excused'
<1>1. Told' /\ Retrying'
  BY NextTold, NextRetrying DEF Guarded
<1>2. SUFFICES ASSUME held' > 0 PROVE Situated' \/ Excused'
  BY <1>1 DEF Guarded
<1>3. held \in Nat /\ held' \in Nat
  BY NextType DEF TInv
<1>4. CASE Enter
  <2>1. events = <<>> /\ ws = 0 /\ pos = NoPosition /\ used \in Nat /\ trade \in Nat
    BY <1>4, Basics DEF Enter, Cooled, Delivered, Undisturbed, TInv
  <2>2. CASE held > 0
    <3>1. Spare
      BY <2>1, <2>2 DEF Guarded, Situated, Bare, Kept, Roled, Made, Entering
    <3>2. Careful
      BY <1>4, EngineCareful DEF Engine
    <3> QED BY <3>1, <3>2, SpareKept DEF Situated
  <2>3. CASE ~(held > 0)
    <3>1. orders'[used + 1] = Filled("ENTRY", trade + 1, EntryQty)
      BY <1>4, AcceptedOne DEF Enter
    <3>2. events' = <<used + 1>>
      BY <1>4, <2>1 DEF Enter
    <3>3. events' # <<>> /\ Event' = used + 1
      BY <3>2 DEF Event
    <3>4. /\ trade' = trade + 1 /\ trade' # 0 /\ trade' \in pending' /\ ws' = 0
          /\ pos' = NoPosition /\ held' = EntryQty
      BY <1>3, <1>4, <2>1, <2>3 DEF Enter, EntryQty
    <3>5. orders'[Event'].kind = "ENTRY" /\ orders'[Event'].trade = trade'
      BY <3>1, <3>3, <3>4 DEF Filled
    <3>6. Entering'
      BY <3>3, <3>4, <3>5 DEF Entering, EntryQty
    <3> QED BY <3>6 DEF Situated
  <2> QED BY <2>2, <2>3
<1>5. CASE ~Enter
  <2>1. held > 0
    BY <1>2, <1>3, <1>5, HeldGrows
  <2>2. CASE Spare
    <3>1. CASE Careful
      BY <2>2, <3>1, SpareKept DEF Situated
    <3>2. ASSUME NEW i \in OrderIds, Executes(i) PROVE Spare'
      BY <1>2, <2>2, <3>2, SpareExecutes
    <3>3. \A i \in OrderIds : ~Expires(i)
      BY <1>3, <2>1 DEF Expires
    <3> QED BY <3>1, <3>2, <3>3, BotCareful DEF Situated
  <2>3. CASE Bare
    BY <2>1, <2>3, BareStep DEF Situated
  <2>4. CASE Entering
    BY <1>2, <2>1, <2>4, EnteringStep DEF Situated, Guarded
  <2>5. CASE Kept
    BY <1>2, <2>1, <2>5, KeptStep DEF Situated, Guarded
  <2>6. CASE Made
    BY <1>2, <2>1, <2>6, MadeStep DEF Situated
  <2> QED BY <2>1, <2>2, <2>3, <2>4, <2>5, <2>6 DEF Guarded, Situated
<1> QED BY <1>4, <1>5

\* While it is down only the exchange goes on, and keys expire.
LEMMA DownKept ==
  ASSUME ConstantsAssumption, Undisturbed, TInv, Guarded,
         Exchange \/ \E t \in Trades : PendingExpires(t),
         proc # "up", proc' = proc, rehydrated' = rehydrated, found' = found
  PROVE  Guarded'
<1>1. Next /\ Orderly
  BY NextType DEF Next, Engine
<1>2. Told' /\ Retrying'
  BY <1>1, NextTold, NextRetrying DEF Guarded
<1>3. pp' = pp /\ pos' = pos /\ held' <= held /\ held \in Nat /\ held' \in Nat
  <2>1. pp' = pp
    BY DEF Exchange, Executes, Expires, ClosedByHand, EventLost, cache, PendingExpires
  <2> QED BY <1>1, <2>1, HeldShrinks, NextType DEF TInv
<1>4. SUFFICES ASSUME held' > 0 PROVE Situated'
  BY <1>2, <1>3 DEF Guarded
<1>5. held > 0 /\ Situated
  BY <1>3, <1>4 DEF Guarded
<1>6. ASSUME NEW i \in OrderIds, Executes(i) PROVE Situated'
  <2>1. ~Bare
    BY <1>6 DEF Bare, OnlyOpen, Executes, IsOpen
  <2>2. Cut => Cut'
    BY <1>4, <1>6, KeptExecutes
  <2>3. Kept => Kept'
    BY <1>4, <1>6, KeptExecutes
  <2>4. (Spare => Spare') /\ (Made => Made')
    BY <1>4, <1>6, SpareExecutes
  <2>5. Orphan => Orphan'
    BY <1>3, <1>4, StopKept DEF Orphan
  <2> QED BY <1>5, <2>1, <2>2, <2>3, <2>4, <2>5 DEF Situated
<1>7. ASSUME NEW t \in Trades, PendingExpires(t) PROVE Situated'
  <2>1. orders' = orders /\ used' = used /\ held' = held /\ events' = events /\ ws' = ws /\ eng' = eng
    BY <1>7 DEF PendingExpires, exchange
  <2> QED BY <1>3, <1>5, <2>1
          DEF Situated, Spare, Known, Bare, OnlyOpen, Cut, Kept, Roled, Role, Accounted, Sheltered,
              Buys, Orphan, Stopped, NoTakeProfits, Made, IsOpen
<1> QED BY <1>5, <1>6, <1>7, HeldExecutes

-----------------------------------------------------------------------------
(* The first death.                                                        *)

\* A protected position that lost its stop, and nothing else.
LEMMA LiveCut ==
  ASSUME ConstantsAssumption, TInv, OneTrade, Live, held > 0, Orderly,
         pos' = pos, held' = held,
         \A i \in {pos.tp, pos.tp2, pos.tsl} : i # 0 => orders'[i] = orders[i]
  PROVE  Cut'
<1> USE DEF EntryQty, Tp1Qty, Tp2Qty
<1>1. /\ Protected /\ pos # NoPosition /\ pos \in Position /\ used \in Nat /\ used' \in Nat
      /\ pos.tp # 0 /\ pos.tp2 # 0 /\ pos.trade = trade
      /\ Untouched \/ HalfTaken \/ Trailing
  <2>1. Protected /\ pos # NoPosition /\ pos.trade = trade
    BY DEF Live, Protected, OneTrade
  <2>2. used' \in Nat
    BY DEF Orderly, Numbered, Ref, ConstantsAssumption
  <2>3. Untouched \/ HalfTaken \/ Trailing
    BY DEF Live, Stage, BothTaken, StoppedOut, RestTaken, RestStopped
  <2> QED BY <2>1, <2>2, <2>3, Roles
<1>2. \A i \in 1 .. used : /\ i \in 1 .. used' /\ orders'[i].kind = orders[i].kind
                           /\ orders'[i].trade = orders[i].trade
  BY <1>1 DEF Orderly, Same
<1>3. /\ pos.tp \in 1 .. used /\ orders[pos.tp].kind = "TP1" /\ orders[pos.tp].trade = pos.trade
      /\ pos.tp2 \in 1 .. used /\ orders[pos.tp2].kind = "TP2" /\ orders[pos.tp2].trade = pos.trade
      /\ pos.sl # 0 => /\ pos.sl \in 1 .. used /\ orders[pos.sl].kind = "STOP"
                       /\ orders[pos.sl].trade = pos.trade /\ pos.sl # pos.tsl
      /\ pos.tsl # 0 => /\ pos.tsl \in 1 .. used /\ orders[pos.tsl].kind = "STOP"
                        /\ orders[pos.tsl].trade = pos.trade
      /\ orders[pos.tp].qty = 2 /\ orders[pos.tp2].qty = 2
      /\ pos.orig = 4 /\ pos.qty = IF pos.tp1 THEN 2 ELSE 4
      /\ pos.tp1 => ~IsOpen(pos.tp)
      /\ ~pos.tp1 => pos.tsl = 0
  BY <1>1 DEF Protected, Names
<1>4. Roled'
  BY <1>1, <1>2, <1>3 DEF Roled, Role
<1>5. /\ orders'[pos.tp] = orders[pos.tp] /\ orders'[pos.tp2] = orders[pos.tp2]
      /\ IsOpen(pos.tp)' <=> IsOpen(pos.tp)
      /\ IsOpen(pos.tp2)' <=> IsOpen(pos.tp2)
      /\ IsOpen(pos.tsl)' <=> IsOpen(pos.tsl)
  BY <1>1 DEF IsOpen
<1>6. IsOpen(pos.tp2) /\ (IsOpen(pos.tp) => held = 4 /\ ~pos.tp1) /\ (~IsOpen(pos.tp) => held = 2)
      /\ (pos.tp1 => held = 2)
  BY <1>1, <1>3 DEF Untouched, HalfTaken, Trailing
<1>7. /\ Buys(pos.tp2)' = 2 /\ Buys(pos.tp)' = IF IsOpen(pos.tp) THEN 2 ELSE 0
  BY <1>3, <1>5, <1>6 DEF Buys
<1>8. Accounted'
  BY <1>3, <1>5, <1>6, <1>7 DEF Accounted
<1>9. IsOpen(pos.tsl) => pos.tp1
  BY <1>3 DEF IsOpen
<1> QED BY <1>3, <1>4, <1>5, <1>6, <1>8, <1>9 DEF Cut

\* An order that the position does not name, and the first after the others.
LEMMA NewStop ==
  ASSUME ConstantsAssumption, TInv, used + 1 \in OrderIds,
         orders'[used + 1].st = "open", orders'[used + 1].kind = "STOP", pos' = pos
  PROVE  pos \in {NoPosition, Stub(pos.trade)} \/ Roled \/ Protected => Spare'
<1>1. used \in Nat /\ used + 1 # 0
  BY Basics
<1>2. pos # NoPosition => pos \in Position
  BY DEF TInv
<1>3. SUFFICES ASSUME pos # NoPosition, pos = Stub(pos.trade) \/ Roled \/ Protected
               PROVE  used + 1 \notin Named(pos)
  BY <1>1 DEF Spare, Known, IsOpen
<1>4. CASE pos = Stub(pos.trade)
  BY <1>4 DEF Stub, Named
<1>5. CASE Roled
  BY <1>1, <1>5 DEF Roled, Role, Named
<1>6. CASE Protected
  BY <1>1, <1>6 DEF Protected, Names, Named
<1> QED BY <1>3, <1>4, <1>5, <1>6

\* What a process that dies has placed of a finalization starts with the stop.
LEMMA FinalizingPlaced ==
  ASSUME ConstantsAssumption, TInv, NEW t \in Trades, NEW n \in 1 .. 3, NEW recorded \in BOOLEAN,
         DiesFinalizing(t, n, recorded)
  PROVE  used + 1 \in OrderIds /\ orders'[used + 1] = Opened("STOP", t, 0)
<1> DEFINE all == <<Opened("STOP", t, 0), Opened("TP1", t, Tp1Qty), Opened("TP2", t, Tp2Qty)>>
           new == SubSeq(all, 1, n)
<1>1. used \in Nat /\ MaxOrders \in Nat
  BY Basics
<1>2. used + n <= MaxOrders /\ 1 <= n /\ n \in Nat
  BY DEF DiesFinalizing
<1>3. used + 1 \in OrderIds
  BY ONLY <1>1, <1>2 DEF OrderIds
<1>4. Len(new) = n /\ new[1] = Opened("STOP", t, 0)
  OBVIOUS
<1>5. orders' = Accepted(new)
  BY DEF DiesFinalizing
<1> HIDE DEF new
<1>6. orders'[used + 1] = Opened("STOP", t, 0)
  <2>1. used + 1 \in used + 1 .. used + Len(new) /\ (used + 1) - used = 1
    BY <1>1, <1>2, <1>4
  <2> QED BY <1>3, <1>4, <1>5, <2>1 DEF Accepted
<1> QED BY <1>3, <1>6

\* The same of the replacement of a stop.
LEMMA ReplacingPlaced ==
  ASSUME ConstantsAssumption, TInv, NEW placed \in BOOLEAN, DiesReplacing(placed)
  PROVE  /\ pos # NoPosition /\ ~pos.tp1
         /\ \A i \in 1 .. used : i # pos.sl => orders'[i] = orders[i]
         /\ placed => used + 1 \in OrderIds /\ orders'[used + 1] = Opened("STOP", pos.trade, 0)
<1> DEFINE gone == {pos.sl}
<1>1. used \in Nat /\ MaxOrders \in Nat /\ Replaced(pos) = gone
  BY Basics DEF Replaced
<1>2. \A i : i # pos.sl => i \notin gone
  OBVIOUS
<1> HIDE DEF gone
<1>3. /\ pos # NoPosition /\ ~pos.tp1 /\ (placed => used < MaxOrders)
      /\ orders' = IF placed THEN [Cancelled(gone) EXCEPT ![used + 1] = EntryStop(pos.trade)]
                             ELSE Cancelled(gone)
  BY <1>1 DEF DiesReplacing
<1>4. \/ orders' = Cancelled(gone)
      \/ \E o : used < MaxOrders /\ orders' = [Cancelled(gone) EXCEPT ![used + 1] = o]
  BY <1>3
<1>5. \A i \in 1 .. used : i # pos.sl => orders'[i] = orders[i]
  BY <1>2, <1>4, CancelledLeaves
<1>6. placed => used + 1 \in OrderIds /\ orders'[used + 1] = Opened("STOP", pos.trade, 0)
  BY <1>1, <1>3 DEF OrderIds, Cancelled, EntryStop
<1> QED BY <1>3, <1>5, <1>6

LEMMA FirstDeathGuarded ==
  ASSUME Bounds, Prompt, RecInv, OneTrade, Cycle, Dying
  PROVE  Guarded'
<1>1. /\ ConstantsAssumption /\ TInv /\ Orderly /\ used \in Nat
  BY DyingType, Basics DEF Bounds, RecInv
<1>2. /\ proc' = "down" /\ events' = <<>> /\ ws' = 0 /\ eng' = 0 /\ held' = held
      /\ pos' = pos /\ pp' = NoProtection
  BY DEF Dying, DiesIdle, DiesFinalizing, DiesReplacing, DiesClosing, Dies, cache, Cycle
<1>3. Told' /\ Retrying'
  <2>1. DOMAIN <<>> = {}
    OBVIOUS
  <2> QED BY <1>2, <2>1 DEF Told, Retrying
<1>4. SUFFICES ASSUME held > 0 PROVE Situated'
  BY <1>2, <1>3 DEF Guarded
<1>5. ASSUME used + 1 \in OrderIds, \E t : orders'[used + 1] = Opened("STOP", t, 0),
             pos \in {NoPosition, Stub(pos.trade)} \/ Protected
      PROVE  Situated'
  <2>1. orders'[used + 1].st = "open" /\ orders'[used + 1].kind = "STOP"
    BY <1>5 DEF Opened
  <2>2. Spare'
    BY <1>1, <1>2, <1>5, <2>1, NewStop
  <2> QED BY <2>2 DEF Situated
<1>6. CASE pos = NoPosition
  BY <1>2, <1>4, <1>6, FirstDeath DEF Situated, Orphan
<1>7. CASE Entered /\ pos # NoPosition
  <2>1. pos = Stub(trade) /\ pos.trade = trade /\ pos = Stub(pos.trade) /\ OnlyOpen({}) /\ held = EntryQty
    BY <1>7 DEF Entered, Stub
  <2>2. ~Handling(Kinds \ {"ENTRY"}) /\ ~Handling({"TP1"})
    <3>1. \A i : Head(<<i>>) = i
      OBVIOUS
    <3> QED BY <1>7, <3>1 DEF Entered, Handling, Event
  <2>3. CASE DiesIdle
    <3>1. OnlyOpen({})'
      BY <2>1, <2>3 DEF DiesIdle, OnlyOpen
    <3>2. Bare'
      BY <1>2, <1>7, <2>1, <3>1 DEF Bare, EntryQty
    <3> QED BY <3>2 DEF Situated
  <2>4. ASSUME NEW t \in Trades, NEW n \in 1 .. 3, NEW recorded \in BOOLEAN,
               DiesFinalizing(t, n, recorded)
        PROVE  Situated'
    BY <1>1, <1>5, <2>1, <2>4, FinalizingPlaced
  <2>5. \A placed \in BOOLEAN : ~DiesReplacing(placed)
    BY <2>1, <2>2 DEF DiesReplacing, Aged, IsStub, Stub
  <2>6. \A stored \in BOOLEAN : ~DiesClosing(stored)
    BY <2>2 DEF DiesClosing
  <2> QED BY <2>3, <2>4, <2>5, <2>6 DEF Dying
<1>8. CASE Live
  <2>1. /\ Protected /\ pos \in Position /\ pos.tp # 0 /\ pos.tp2 # 0 /\ ws = 0
        /\ pos.sl # pos.tp /\ pos.sl # pos.tp2
    BY <1>1, <1>8, Roles DEF Live, Protected
  <2>2. CASE DiesIdle
    <3>1. Cut'
      BY <1>1, <1>2, <1>4, <1>8, <2>2, LiveCut DEF DiesIdle
    <3> QED BY <1>2, <3>1 DEF Situated
  <2>3. ASSUME NEW t \in Trades, NEW n \in 1 .. 3, NEW recorded \in BOOLEAN
        PROVE  ~DiesFinalizing(t, n, recorded)
    BY <2>1 DEF DiesFinalizing, IsStub, Trades
  <2>4. ASSUME NEW placed \in BOOLEAN, DiesReplacing(placed)
        PROVE  Situated'
    <3>1. CASE placed
      BY <1>1, <1>5, <2>1, <2>4, <3>1, ReplacingPlaced
    <3>2. CASE ~placed
      <4>1. ~pos.tp1 /\ \A i \in 1 .. used : i # pos.sl => orders'[i] = orders[i]
        BY <1>1, <2>4, ReplacingPlaced
      <4>2. pos.tp \in 1 .. used /\ pos.tp2 \in 1 .. used /\ pos.tsl = 0
        BY <2>1, <4>1 DEF Protected, Names
      <4>3. \A i \in {pos.tp, pos.tp2, pos.tsl} : i # 0 => orders'[i] = orders[i]
        BY <2>1, <4>1, <4>2
      <4>4. Cut'
        BY <1>1, <1>2, <1>4, <1>8, <4>3, LiveCut
      <4> QED BY <1>2, <4>4 DEF Situated
    <3> QED BY <3>1, <3>2
  <2>5. ASSUME NEW stored \in BOOLEAN
        PROVE  ~DiesClosing(stored)
    <3>1. SUFFICES ASSUME DiesClosing(stored) PROVE FALSE
      OBVIOUS
    <3>2. events # <<>> /\ HalfTaken
      BY <1>4, <1>8, <3>1 DEF DiesClosing, Handling, Live, Stage, Untouched, BothTaken, StoppedOut,
                              Trailing, RestTaken, RestStopped
    <3>3. Event = pos.tp
      <4>1. \A i : Head(<<i>>) = i
        OBVIOUS
      <4> QED BY <3>2, <4>1 DEF HalfTaken, Event
    <3> QED BY <2>1, <3>1, <3>3 DEF DiesClosing
  <2> QED BY <2>2, <2>3, <2>4, <2>5 DEF Dying
<1> QED BY <1>4, <1>6, <1>7, <1>8 DEF Cycle, Quiet

-----------------------------------------------------------------------------
(* Reconciliation.                                                         *)

\* A step of Reconcile's that is not refused.
LEMMA ReconciledTold ==
  ASSUME ConstantsAssumption, TInv, Orderly, Told, events' = events, held' = held,
         \A i \in 1 .. used : orders'[i] = orders[i]
  PROVE  Told'
<1>1. Streams /\ Past
  BY DEF Streams, Past
<1>2. held \in Nat
  BY DEF TInv
<1> QED BY <1>1, <1>2, ToldKept

\* What a reconciliation places disturbs no other order.
LEMMA RepairsLeave ==
  ASSUME Bounds, RecInv, NEW stop \in BOOLEAN, NEW tp \in BOOLEAN,
         Rehydrates(stop, tp) \/ Replaces(stop, tp)
  PROVE  \A i \in 1 .. used : orders'[i] = orders[i]
<1>1. ConstantsAssumption /\ TInv
  BY DEF Bounds, RecInv
<1>2. CASE Rehydrates(stop, tp)
  <2> DEFINE t == trade + 1
             q == found.held \div 2
  <2>1. trade \in 0 .. MaxTrades /\ MaxTrades \in Nat
    BY <1>1 DEF TInv, ConstantsAssumption
  <2>2. t \in Trades
    <3>1. trade < MaxTrades
      BY <1>2 DEF Rehydrates
    <3> QED BY <2>1, <3>1 DEF Trades
  <2>3. q \in Nat
    BY DEF RecInv
  <2>4. /\ used + Len(StopMade(t, stop)) + Len(TpMade(t, q, tp)) <= MaxOrders
        /\ orders' = Accepted(StopMade(t, stop) \o TpMade(t, q, tp))
        /\ used' = used + Len(StopMade(t, stop)) + Len(TpMade(t, q, tp))
    BY <1>2 DEF Rehydrates, StopMade, TpMade
  <2> HIDE DEF t, q
  <2> QED BY <1>1, <2>2, <2>3, <2>4, PairPlaced
<1>3. CASE Replaces(stop, tp)
  <2>1. pos.trade \in Trades /\ pos.orig \in Nat
    BY <1>1, <1>3 DEF Replaces, TInv, Position
  <2>2. /\ used + Len(StopMade(pos.trade, stop)) + Len(TpMade(pos.trade, pos.orig, tp)) <= MaxOrders
        /\ orders' = Accepted(StopMade(pos.trade, stop) \o TpMade(pos.trade, pos.orig, tp))
        /\ used' = used + Len(StopMade(pos.trade, stop)) + Len(TpMade(pos.trade, pos.orig, tp))
    BY <1>3 DEF Replaces, StopMade, TpMade
  <2> QED BY <1>1, <2>1, <2>2, PairPlaced
<1> QED BY <1>2, <1>3

LEMMA RehydratesGuards ==
  ASSUME Bounds, RecInv, Calm, Calm', Guarded, held > 0,
         NEW stop \in BOOLEAN, NEW tp \in BOOLEAN, Rehydrates(stop, tp)
  PROVE  Situated'
<1> DEFINE t == trade + 1
           q == found.held \div 2
<1>1. /\ ConstantsAssumption /\ TInv /\ used \in Nat /\ held \in Nat /\ MaxOrders \in Nat
      /\ proc = "read" /\ proc' = "reconciled" /\ pos = NoPosition /\ pp = NoProtection /\ pp' = pp
      /\ found.held \in Nat
  <2>1. ConstantsAssumption /\ TInv
    BY DEF Bounds, RecInv
  <2>2. used \in Nat /\ MaxOrders \in Nat
    BY <2>1, Basics
  <2> QED BY <2>1, <2>2 DEF RecInv, TInv, Rehydrates, Reconciles, Guarded
<1>2. t \in Trades /\ q \in Nat
  <2>1. trade \in Nat /\ MaxTrades \in Nat /\ trade < MaxTrades
    BY <1>1 DEF Rehydrates, TInv, ConstantsAssumption
  <2>2. t \in Trades
    BY <2>1 DEF Trades
  <2> QED BY <1>1, <2>2
<1>3. /\ used + Len(StopMade(t, stop)) + Len(TpMade(t, q, tp)) <= MaxOrders
      /\ orders' = Accepted(StopMade(t, stop) \o TpMade(t, q, tp))
      /\ used' = used + Len(StopMade(t, stop)) + Len(TpMade(t, q, tp))
      /\ rehydrated' = rehydrated \cup {t}
      /\ \E sl \in IF stop THEN {used + Len(StopMade(t, stop))}
                   ELSE IF found.limits = {} THEN {0} ELSE found.limits :
           pos' = [Stub(t) EXCEPT !.sl = sl,
                                  !.tp = IF tp THEN used + Len(StopMade(t, stop)) + 1 ELSE 0,
                                  !.qty = found.held, !.orig = found.held]
  BY DEF Rehydrates, StopMade, TpMade
<1> HIDE DEF t, q
<1>4. /\ Len(StopMade(t, stop)) = (IF stop THEN 1 ELSE 0)
      /\ stop => orders'[used + 1] = Opened("STOP", t, 0) /\ used + 1 \in OrderIds
      /\ \A i \in 1 .. used : orders'[i] = orders[i]
  BY <1>1, <1>2, <1>3, PairPlaced
<1>5. PICK sl : /\ stop => sl = used + 1
                /\ pos'.sl = sl /\ pos'.tp2 = 0 /\ pos'.tsl = 0 /\ pos'.trade = t
                /\ pos'.tp \in {0, used + 1, used + 2}
  <2>1. PICK sl \in IF stop THEN {used + Len(StopMade(t, stop))}
                    ELSE IF found.limits = {} THEN {0} ELSE found.limits :
           pos' = [Stub(t) EXCEPT !.sl = sl,
                                  !.tp = IF tp THEN used + Len(StopMade(t, stop)) + 1 ELSE 0,
                                  !.qty = found.held, !.orig = found.held]
    BY <1>3
  <2>2. stop => sl = used + 1
    BY <1>1, <1>4, <2>1
  <2>3. (IF tp THEN used + Len(StopMade(t, stop)) + 1 ELSE 0) \in {0, used + 1, used + 2}
    BY <1>1, <1>4
  <2> QED BY <2>1, <2>2, <2>3 DEF Stub
<1>6. pos' # NoPosition /\ t # 0
  BY <1>2, RehydratesType DEF Trades
<1>7. ASSUME NEW i \in OrderIds, IsOpen(i)', orders'[i].kind = "STOP", i = pos'.sl
      PROVE  Situated'
  <2>1. Made'
    BY <1>1, <1>3, <1>5, <1>6, <1>7 DEF Made
  <2> QED BY <1>1, <2>1 DEF Situated
<1>8. CASE stop
  BY <1>1, <1>4, <1>5, <1>7, <1>8 DEF IsOpen, Opened
<1>9. ASSUME NEW i \in OrderIds, IsOpen(i), orders[i].kind = "STOP", ~stop
      PROVE  Situated'
  <2>1. i \in 1 .. used
    BY <1>1, <1>9, Basics
  <2>2. IsOpen(i)' /\ orders'[i].kind = "STOP"
    BY <1>4, <1>9, <2>1 DEF IsOpen
  <2>3. CASE i = pos'.sl
    BY <1>7, <2>2, <2>3
  <2>4. CASE i # pos'.sl
    <3>1. i \notin Named(pos')
      BY <1>1, <1>5, <2>1, <2>4 DEF Named
    <3> QED BY <1>6, <2>2, <3>1 DEF Situated, Spare, Known
  <2> QED BY <2>3, <2>4
<1>10. CASE ~stop /\ ~Stopped
  <2>1. Orphan
    BY <1>1, <1>10 DEF Guarded, Situated, Spare, Known, Stopped, Bare, Cut, Roled
  <2>2. found.limits = {}
    BY <1>1, <1>10, <2>1 DEF Orphan
  <2>3. StopFault(stop) = 1 /\ FaultIfNot(tp) \in Nat
    BY <1>1, <1>10 DEF StopFault, FaultIfNot, Stopped
  <2>4. Fail(StopFault(stop) + FaultIfNot(tp))
    BY <2>2 DEF Rehydrates
  <2> QED BY <2>3, <2>4 DEF Fail, Calm
<1> QED BY <1>4, <1>8, <1>9, <1>10 DEF Stopped

LEMMA ReplacesGuards ==
  ASSUME Bounds, RecInv, Calm, Calm', Guarded, held > 0,
         NEW stop \in BOOLEAN, NEW tp \in BOOLEAN, Replaces(stop, tp)
  PROVE  Situated'
<1> DEFINE n == used + Len(StopMade(pos.trade, stop))
<1>1. /\ ConstantsAssumption /\ TInv /\ used \in Nat /\ held \in Nat /\ MaxOrders \in Nat
      /\ proc = "read" /\ proc' = "reconciled" /\ pos # NoPosition /\ pos \in Position
      /\ pp = NoProtection /\ pp' = pp /\ held' = held /\ Orderly
  <2>1. ConstantsAssumption /\ TInv
    BY DEF Bounds, RecInv
  <2>2. used \in Nat /\ MaxOrders \in Nat /\ Orderly
    BY <2>1, Basics, ReplacesType
  <2> QED BY <2>1, <2>2 DEF RecInv, TInv, Replaces, Reconciles, Guarded
<1>2. pos.trade \in Trades /\ pos.orig \in Nat
  BY <1>1 DEF Position
<1>3. /\ n + Len(TpMade(pos.trade, pos.orig, tp)) <= MaxOrders
      /\ orders' = Accepted(StopMade(pos.trade, stop) \o TpMade(pos.trade, pos.orig, tp))
      /\ used' = n + Len(TpMade(pos.trade, pos.orig, tp))
      /\ pos' = IF ~stop \/ ~tp THEN pos
                ELSE [pos EXCEPT !.sl = IF stop THEN n ELSE @, !.tp = IF tp THEN n + 1 ELSE @]
      /\ Fail(IF IsStub(pos) THEN 0 ELSE IF ~stop THEN StopFault(stop) ELSE FaultIfNot(tp))
      /\ tp => stop
      /\ stop => ~IsStub(pos)
  BY DEF Replaces, StopMade, TpMade, Missing
<1>4. /\ Len(StopMade(pos.trade, stop)) = (IF stop THEN 1 ELSE 0)
      /\ Len(TpMade(pos.trade, pos.orig, tp)) = (IF tp THEN 1 ELSE 0)
      /\ \A i \in 1 .. used : orders'[i] = orders[i]
  BY <1>1, <1>2, <1>3, PairPlaced
<1>5. \A k \in Nat : Fail(k) => k = 0
  BY DEF Fail, Calm
<1>6. CASE ~stop
  <2>1. ~tp /\ pos' = pos
    BY <1>3, <1>6
  <2>2. used' = used /\ orders' = orders
    <3>1. used' = used
      BY <1>1, <1>3, <1>4, <1>6, <2>1
    <3>2. orders' = Accepted(<<>> \o <<>>)
      BY <1>3, <1>6, <2>1 DEF StopMade, TpMade
    <3>3. <<>> \o <<>> = <<>> /\ Len(<<>>) = 0
      OBVIOUS
    <3>4. orders' = Accepted(<<>>)
      BY <3>2, <3>3
    <3>5. \A i \in OrderIds : orders'[i] = orders[i]
      BY <1>1, <3>3, <3>4 DEF Accepted
    <3>6. orders \in [OrderIds -> Placed \cup {NoOrder}] /\ orders' \in [OrderIds -> Placed \cup {NoOrder}]
      BY <1>1 DEF TInv, Orderly, Numbered, Orders
    <3> QED BY <3>1, <3>5, <3>6
  <2>3. Spare => Spare'
    BY <2>1, <2>2 DEF Spare, Known, IsOpen
  <2>4. Bare => Bare'
    BY <1>1, <2>1, <2>2 DEF Bare, OnlyOpen, Replaces, Reconciles
  <2>5. ASSUME Cut PROVE Situated'
    <3>1. ~IsStub(pos)
      BY <2>5 DEF Cut, Roled, IsStub
    <3>2. StopFault(stop) = 0
      <4>1. StopFault(stop) \in Nat
        BY DEF StopFault, FaultIfNot
      <4> QED BY <1>3, <1>5, <1>6, <3>1, <4>1
    <3>3. PICK i \in OrderIds : IsOpen(i) /\ orders[i].kind = "STOP"
      BY <1>1, <1>6, <3>2 DEF StopFault, FaultIfNot
    <3>4. CASE i \notin Named(pos)
      <4>1. Spare
        BY <1>1, <3>3, <3>4 DEF Spare, Known
      <4> QED BY <2>3, <4>1 DEF Situated
    <3>5. CASE i \in Named(pos)
      <4>1. i \in {pos.sl, pos.tsl}
        BY <2>5, <3>3, <3>5 DEF Named, Cut, Roled, Role
      <4>2. Sheltered
        BY <2>5, <3>3, <4>1 DEF Cut, Sheltered
      <4>3. Kept'
        BY <1>1, <1>4, <2>1, <2>5, <4>2, KeptStays DEF Cut, Kept
      <4> QED BY <1>1, <4>3 DEF Situated
    <3> QED BY <3>4, <3>5
  <2>6. Spare \/ Bare \/ Cut
    BY <1>1 DEF Guarded, Situated, Orphan
  <2> QED BY <1>4, <2>3, <2>4, <2>5, <2>6 DEF Situated
<1>7. CASE stop
  <2>1. tp
    <3>1. FaultIfNot(tp) \in Nat /\ ~IsStub(pos)
      BY <1>3, <1>7 DEF FaultIfNot
    <3>2. FaultIfNot(tp) = 0
      BY <1>3, <1>5, <1>7, <3>1
    <3> QED BY <1>1, <3>2 DEF FaultIfNot
  <2> DEFINE a == Opened("STOP", pos.trade, 0)
             b == Opened("TP1", pos.trade, pos.orig)
  <2>2. n = used + 1 /\ n + 1 = used + 2
    BY <1>1, <1>4, <1>7
  <2>3. /\ orders' = Accepted(<<a>> \o <<b>>)
        /\ used + 1 + 1 <= MaxOrders /\ used' = used + 1 + 1
    <3>1. orders' = Accepted(<<a>> \o <<b>>)
      BY <1>3, <1>7, <2>1 DEF StopMade, TpMade
    <3> HIDE DEF a, b, n
    <3>2. Len(TpMade(pos.trade, pos.orig, tp)) = 1
      BY <1>4, <2>1
    <3> QED BY <1>3, <2>2, <3>1, <3>2
  <2>4. pos' = [pos EXCEPT !.sl = used + 1, !.tp = used + 2]
    <3> HIDE DEF n
    <3> QED BY <1>3, <1>7, <2>1, <2>2
  <2> HIDE DEF n, a, b
  <2>5. used' = used + 2 /\ orders'[used + 1] = a /\ orders'[used + 2] = b
    BY <1>1, <2>3, TwoPlaced
  <2>6. /\ pos'.trade = pos.trade /\ pos'.sl = used + 1 /\ pos'.tp = used + 2 /\ pos'.tp2 = pos.tp2
        /\ pos'.tsl = pos.tsl /\ pos'.tp1 = pos.tp1 /\ pos'.qty = pos.qty /\ pos'.orig = pos.orig
        /\ pos' # NoPosition
    <3>1. pos.trade # 0
      BY <1>2 DEF Trades
    <3> QED BY <1>1, <2>4, <3>1 DEF Position, NoPosition
  <2>7. Known' \subseteq Known \cup (used + 1 .. MaxOrders)
    BY <1>1, <2>3, <2>6 DEF Known, Named
  <2>8. Careful
    BY <1>4, <2>7 DEF Careful
  <2>9. ~Bare
    BY <1>3, <1>7 DEF Bare, IsStub, Stub
  <2>10. ASSUME Cut PROVE Kept'
    <3>1. /\ pos.tp2 # 0 => pos.tp2 \in 1 .. used
          /\ pos.tsl # 0 => pos.tsl \in 1 .. used
      BY <1>1, <2>10, RoledOrders DEF Cut
    <3>2. /\ pos.tp2 # 0 => orders'[pos.tp2] = orders[pos.tp2]
          /\ pos.tsl # 0 => orders'[pos.tsl] = orders[pos.tsl]
      BY <1>4, <3>1
    <3>3. /\ IsOpen(pos.sl)' /\ IsOpen(pos.tp)' /\ orders'[pos'.tp].qty = pos.orig
      BY <1>1, <2>5, <2>6 DEF IsOpen, Opened, a, b
    <3>4. Roled'
      <4>1. Role(pos.sl, "STOP")' /\ Role(pos.tp, "TP1")'
        BY <1>1, <2>5, <2>6 DEF Role, Opened, a, b
      <4>2. Role(pos.tsl, "STOP")' /\ Role(pos.tp2, "TP2")'
        BY <1>1, <2>5, <2>6, <2>10, <3>1, <3>2 DEF Role, Cut, Roled
      <4> QED BY <1>1, <2>6, <3>1, <4>1, <4>2 DEF Roled
    <3>5. Buys(pos.tp)' = pos.orig /\ Buys(pos.tp2)' = Buys(pos.tp2) /\ Buys(pos.tp2) \in Nat
      BY <1>1, <2>6, <2>10, <3>2, <3>3, RoledOrders DEF Buys, IsOpen, Cut
    <3>6. IsOpen(pos.tp2)' => orders'[pos'.tp2].qty = Tp2Qty
      BY <2>6, <2>10, <3>2 DEF IsOpen, Cut, Accounted
    <3>7. held <= pos.qty /\ pos.qty <= pos.orig /\ pos.orig <= EntryQty /\ pos.qty \in Int
          /\ (~pos.tp1 => pos.qty = pos.orig)
      BY <1>1, <2>10 DEF Cut, Accounted, Position
    <3>8. held' <= Buys(pos.tp)' + Buys(pos.tp2)'
      BY <1>1, <1>2, <3>5, <3>7
    <3>9. Accounted'
      BY <1>1, <2>6, <3>3, <3>6, <3>7, <3>8 DEF Accounted
    <3> QED BY <3>3, <3>4, <3>9 DEF Kept, Sheltered
  <2>11. Spare \/ Cut
    BY <1>1, <2>9 DEF Guarded, Situated, Orphan
  <2> QED BY <1>1, <1>4, <2>8, <2>10, <2>11, SpareKept DEF Situated
<1> QED BY <1>6, <1>7

LEMMA ReadsGuards ==
  ASSUME Guarded, Reads
  PROVE  Guarded'
<1>1. /\ pos' = pos /\ pp' = pp /\ held' = held /\ orders' = orders /\ used' = used
      /\ events' = events /\ ws' = ws /\ eng' = eng /\ proc = "down" /\ proc' = "read"
      /\ rehydrated' = rehydrated
  BY DEF Reads, vars, exchange, cache
<1>2. NoTakeProfits => found'.limits = {}
  BY DEF Reads, NoTakeProfits
<1>3. Told' /\ Retrying' /\ pp' = NoProtection
  BY <1>1 DEF Guarded, Told, Retrying
<1>4. Orphan => Orphan'
  BY <1>1, <1>2 DEF Orphan, Stopped, NoTakeProfits, IsOpen
<1>5. (Spare => Spare') /\ (Bare => Bare') /\ (Cut => Cut')
  BY <1>1 DEF Spare, Known, Bare, OnlyOpen, Cut, Roled, Role, Accounted, Buys, IsOpen
<1>6. held > 0 => Spare \/ Bare \/ Cut \/ Orphan
  BY <1>1 DEF Guarded, Situated
<1> QED BY <1>1, <1>3, <1>4, <1>5, <1>6 DEF Guarded, Situated

LEMMA ConnectsGuards ==
  ASSUME Guarded, Connects
  PROVE  Guarded'
<1>1. /\ pos' = pos /\ pp' = pp /\ held' = held /\ orders' = orders /\ used' = used
      /\ events' = <<>> /\ ws' = ws /\ eng' = eng /\ proc = "reconciled" /\ proc' = "up"
      /\ rehydrated' = rehydrated
  BY DEF Connects, cache
<1>2. Told' /\ Retrying'
  BY <1>1 DEF Guarded, Told, Retrying
<1>3. (Spare => Spare') /\ (Bare => Bare') /\ (Kept => Kept') /\ (Made => Made')
  BY <1>1 DEF Spare, Known, Bare, OnlyOpen, Kept, Roled, Role, Accounted, Sheltered, Buys, Made, IsOpen
<1>4. held > 0 => Spare \/ Bare \/ Kept \/ Made
  BY <1>1 DEF Guarded, Situated
<1> QED BY <1>1, <1>2, <1>3, <1>4 DEF Guarded, Situated

LEMMA ReconcileGuards ==
  ASSUME Bounds, RecInv, Calm, Calm', Guarded, Reconcile
  PROVE  Guarded'
<1>1. ConstantsAssumption /\ TInv /\ held \in Nat
  BY DEF Bounds, RecInv, TInv
<1>2. ~ReadFails
  BY DEF ReadFails, Fail, Calm
<1>3. CASE Agrees \/ CleansUp
  <2>1. /\ events' = events /\ held' = held /\ orders' = orders /\ used' = used /\ pp' = pp
        /\ proc = "read" /\ proc' = "reconciled" /\ found.held = 0
    BY <1>3 DEF Agrees, CleansUp, Reconciles
  <2>2. held = 0
    BY <1>1, <2>1 DEF RecInv
  <2>3. Told' /\ Retrying'
    BY <2>1 DEF Guarded, Told, Retrying
  <2> QED BY <2>1, <2>2, <2>3 DEF Guarded
<1>4. ASSUME NEW stop \in BOOLEAN, NEW tp \in BOOLEAN,
             Rehydrates(stop, tp) \/ Replaces(stop, tp)
      PROVE  Guarded'
  <2>1. /\ events' = events /\ held' = held /\ pp' = pp
        /\ proc = "read" /\ proc' = "reconciled"
    BY <1>4 DEF Rehydrates, Replaces, Reconciles
  <2>2. Orderly
    BY <1>4, RehydratesType, ReplacesType
  <2>3. \A i \in 1 .. used : orders'[i] = orders[i]
    BY <1>4, RepairsLeave
  <2>4. Told' /\ Retrying'
    <3>1. Told'
      BY <1>1, <2>1, <2>2, <2>3, ReconciledTold DEF Guarded
    <3> QED BY <2>1, <3>1 DEF Guarded, Retrying
  <2>5. held > 0 => Situated'
    BY <1>4, RehydratesGuards, ReplacesGuards
  <2> QED BY <2>1, <2>4, <2>5 DEF Guarded
<1> QED BY <1>2, <1>3, <1>4, ReadsGuards DEF Reconcile

-----------------------------------------------------------------------------
(* The exception stays, and the first restart as a whole.                  *)

\* A result once persisted is not lost.
LEMMA CountGrows ==
  ASSUME NEW f \in [Trades -> Nat], NEW t \in Trades, NEW u \in Trades
  PROVE  [f EXCEPT ![t] = @ + 1][u] >= f[u]
OBVIOUS

LEMMA NextCloses ==
  ASSUME Undisturbed, TInv, Next
  PROVE  \A u \in Trades : closes'[u] >= closes[u]
<1>1. closes \in [Trades -> Nat]
  BY DEF TInv
<1>2. CASE closes' = closes
  BY <1>1, <1>2
<1>3. ASSUME NEW ids, NEW r, Closes(ids, r), pos # NoPosition
      PROVE  \A u \in Trades : closes'[u] >= closes[u]
  <2>1. pos.trade \in Trades
    BY <1>3 DEF TInv, Position
  <2>2. closes' = [closes EXCEPT ![pos.trade] = @ + 1]
    BY <1>3 DEF Closes, Persisted
  <2> QED BY <1>1, <2>1, <2>2, CountGrows
<1>4. CASE UserData
  <2>1. closes' = closes \/ (pos # NoPosition /\ \E ids, r : Closes(ids, r))
    BY <1>4 DEF UserData, WsReadsPending, WsFinalizes, Finalized, WsTp1, WsTp1Closes, WsTp2,
                WsTrailingSl, WsHardSl, WsForceClosed, WsUntracked, WsIgnored, history
  <2> QED BY <1>2, <1>3, <2>1
<1>5. CASE ~UserData
  <2>1. Exchange => closes' = closes
    BY DEF Exchange, Executes, Expires, ClosedByHand, EventLost, history
  <2>2. Engine => closes' = closes
    BY DEF Engine, Enter, EnterReturns, EnterErrs, PendingExpires, history
  <2>3. ~Unlocked
    BY DEF Unlocked, Undisturbed
  <2> QED BY <1>2, <1>5, <2>1, <2>2, <2>3, CheckFrame, SweepFrame DEF Next
<1> QED BY <1>4, <1>5

LEMMA ReconcileCloses ==
  ASSUME RecInv, Reconcile
  PROVE  \A u \in Trades : closes'[u] >= closes[u]
<1>1. closes \in [Trades -> Nat]
  BY DEF RecInv, TInv
<1>2. CASE CleansUp
  <2>1. pos.trade \in Trades
    BY <1>2 DEF CleansUp, RecInv, TInv, Position
  <2>2. closes' = [closes EXCEPT ![pos.trade] = @ + 1]
    BY <1>2 DEF CleansUp
  <2> QED BY <1>1, <2>1, <2>2, CountGrows
<1>3. CASE ~CleansUp
  <2>1. closes' = closes
    BY <1>3 DEF Reconcile, Reads, ReadFails, Agrees, Rehydrates, Replaces, vars, history
  <2> QED BY <1>1, <2>1
<1> QED BY <1>2, <1>3

LEMMA CalmBeforeReconcile ==
  ASSUME Bounds, RecInv, Reconcile, Calm'
  PROVE  Calm
<1>1. ConstantsAssumption /\ TInv /\ faults \in Nat
  BY DEF Bounds, RecInv, TInv, ConstantsAssumption
<1>2. CASE Reads \/ Agrees \/ CleansUp
  <2>1. orders' = orders /\ used' = used /\ faults' = faults /\ lost' = lost
    BY <1>2 DEF Reads, Agrees, CleansUp, Reconciles, vars, exchange
  <2> QED BY <2>1 DEF Calm
<1>3. ~ReadFails
  BY <1>1 DEF ReadFails, Fail, Calm
<1>4. ASSUME NEW stop \in BOOLEAN, NEW tp \in BOOLEAN,
             Rehydrates(stop, tp) \/ Replaces(stop, tp)
      PROVE  Calm
  <2>1. lost' = lost
    BY <1>4 DEF Rehydrates, Replaces, Reconciles
  <2>2. faults = 0
    <3>1. \A n : Fail(n) /\ n \in Nat => faults = 0
      BY <1>1 DEF Fail, Calm
    <3>2. CASE Rehydrates(stop, tp)
      <4>1. (IF found.limits = {} THEN StopFault(stop) ELSE 0) + FaultIfNot(tp) \in Nat
        BY DEF StopFault, FaultIfNot
      <4> QED BY <3>1, <3>2, <4>1 DEF Rehydrates
    <3>3. CASE Replaces(stop, tp)
      <4>1. StopFault(stop) \in Nat /\ FaultIfNot(tp) \in Nat /\ 0 \in Nat
        BY DEF StopFault, FaultIfNot
      <4>2. Fail(0) \/ Fail(StopFault(stop)) \/ Fail(FaultIfNot(tp))
        BY <3>3 DEF Replaces
      <4> QED BY <3>1, <4>1, <4>2
    <3> QED BY <1>4, <3>2, <3>3
  <2>3. \A i \in 1 .. used : orders'[i] = orders[i]
    BY <1>4, RepairsLeave
  <2>4. \A i \in 1 .. used : i \in 1 .. used'
    <3>1. Orderly
      BY <1>4, RehydratesType, ReplacesType
    <3>2. used <= used'
      BY <3>1 DEF Orderly, Same
    <3>3. used \in Nat /\ used' \in Nat
      BY <1>1, <3>1 DEF Orderly, TInv, Numbered, Ref, Bounds, ConstantsAssumption
    <3> QED BY <3>2, <3>3
  <2> QED BY <2>1, <2>2, <2>3, <2>4 DEF Calm
<1> QED BY <1>2, <1>3, <1>4 DEF Reconcile

LEMMA ExcusedStays ==
  ASSUME RecInv, Excused, rehydrated \subseteq rehydrated',
         \A u \in Trades : closes'[u] >= closes[u], closes' \in [Trades -> Nat]
  PROVE  Excused'
<1>1. PICK t \in rehydrated : closes[t] > 0
  BY DEF Excused
<1>2. t \in Trades /\ t \in rehydrated' /\ closes[t] \in Nat /\ closes'[t] \in Nat
  BY <1>1 DEF RecInv, TInv
<1>3. closes'[t] > 0
  BY <1>1, <1>2
<1> QED BY <1>2, <1>3 DEF Excused

\* While the process is up, being guarded is what NeverNaked asks for.
LEMMA GuardedNeverNaked ==
  ASSUME ConstantsAssumption, TInv, Guarded, proc = "up"
  PROVE  NeverNaked
<1>1. SUFFICES ASSUME held > 0
               PROVE  Stopped \/ events # <<>> \/ ws # 0 \/ IsStub(pos)
  BY DEF NeverNaked
<1>2. CASE Spare
  BY <1>2 DEF Spare, Stopped
<1>3. CASE Bare
  BY <1>3 DEF Bare, IsStub, Stub
<1>4. CASE Entering
  BY <1>4 DEF Entering
<1>5. CASE Kept
  <2>1. PICK i \in {pos.sl, pos.tsl} : IsOpen(i)
    BY <1>5 DEF Kept, Sheltered
  <2>2. i # 0 /\ i \in OrderIds
    <3>1. i # 0
      BY <2>1 DEF IsOpen
    <3>2. i \in 1 .. used
      BY <1>5, <2>1, <3>1 DEF Kept, Roled, Role
    <3>3. used \in Nat /\ MaxOrders \in Nat /\ used <= MaxOrders
      BY Basics
    <3> QED BY <3>1, <3>2, <3>3 DEF OrderIds
  <2>3. orders[i].kind = "STOP"
    BY <1>5, <2>1, <2>2 DEF Kept, Roled, Role
  <2> QED BY <2>1, <2>2, <2>3 DEF Stopped
<1>6. CASE Made
  <2>1. pos.sl \in Ref
    BY <1>6 DEF Made, TInv, Position
  <2> QED BY <1>6, <2>1 DEF Made, Stopped, IsOpen, Ref, OrderIds
<1> QED BY <1>1, <1>2, <1>3, <1>4, <1>5, <1>6 DEF Guarded, Situated

\* From the first death on, in an undisturbed run.
Restarted == crashes = 1 /\ Calm => Excused \/ Guarded

LEMMA RestartedKept ==
  ASSUME Bounds, Prompt, UnlockedLoops = {},
         RecInv, FirstRestart, Restarted, crashes' <= 1, [RecNext]_recVars
  PROVE  Restarted'
<1>1. ConstantsAssumption /\ TInv /\ crashes \in Nat
  BY DEF Bounds, RecInv
<1>2. RecInv'
  <2>1. CASE UNCHANGED recVars
    <3>1. UNCHANGED vars
      BY <2>1 DEF recVars
    <3>2. TInv'
      BY <1>1, <3>1, NextType
    <3> QED BY <2>1, <3>1, <3>2 DEF recVars, vars, exchange, RecInv
  <2> QED BY <2>1, DyingType, ReconcileType, ConnectsType, RunsType DEF RecNext
<1>3. SUFFICES ASSUME crashes' = 1, Calm'
               PROVE  Excused' \/ Guarded'
  BY DEF Restarted
<1>4. CASE Dying
  <2>1. crashes' = crashes + 1
    BY <1>4 DEF Dying, DiesIdle, DiesFinalizing, DiesReplacing, DiesClosing, Dies
  <2>2. crashes = 0
    BY <1>1, <1>3, <2>1
  <2>3. OneTrade /\ Cycle
    BY <1>3, <1>4, <2>2, CalmBeforeDeath DEF FirstRestart
  <2> QED BY <1>4, <2>3, FirstDeathGuarded
<1>5. CASE Reconcile
  <2>1. crashes' = crashes /\ rehydrated \subseteq rehydrated'
    BY <1>5 DEF Reconcile, Reads, ReadFails, Agrees, CleansUp, Rehydrates, Replaces, Reconciles
  <2>2. Calm
    BY <1>1, <1>3, <1>5, CalmBeforeReconcile
  <2>3. \A u \in Trades : closes'[u] >= closes[u]
    BY <1>1, <1>5, ReconcileCloses
  <2>4. CASE Excused
    BY <1>2, <2>1, <2>3, <2>4, ExcusedStays DEF RecInv, TInv
  <2>5. CASE Guarded
    BY <1>3, <1>5, <2>2, <2>5, ReconcileGuards
  <2> QED BY <1>3, <2>1, <2>2, <2>4, <2>5 DEF Restarted
<1>6. CASE Connects
  <2>1. /\ crashes' = crashes /\ rehydrated' = rehydrated /\ closes' = closes /\ faults' = faults
        /\ lost' = lost /\ orders' = orders /\ used' = used
    BY <1>6 DEF Connects, history
  <2>2. Calm /\ (Excused' <=> Excused)
    BY <1>3, <2>1 DEF Calm, Excused
  <2> QED BY <1>3, <1>6, <2>1, <2>2, ConnectsGuards DEF Restarted
<1>7. CASE Runs
  <2>1. crashes' = crashes /\ proc' = proc /\ found' = found /\ rehydrated' = rehydrated /\ Next
    BY <1>7 DEF Runs, Next, Engine
  <2>2. Calm
    BY <1>1, <1>3, <2>1, CalmBefore
  <2>3. Undisturbed
    BY <1>3, <2>2 DEF Undisturbed
  <2>4. CASE Excused
    <3>1. \A u \in Trades : closes'[u] >= closes[u]
      BY <1>1, <2>1, <2>3, NextCloses
    <3> QED BY <1>2, <2>1, <2>4, <3>1, ExcusedStays DEF RecInv, TInv
  <2>5. CASE Guarded /\ proc = "up"
    BY <1>1, <2>1, <2>3, <2>5, UpKept
  <2>6. CASE Guarded /\ proc # "up"
    BY <1>1, <1>7, <2>1, <2>3, <2>6, DownKept DEF Runs
  <2> QED BY <1>3, <2>1, <2>2, <2>4, <2>5, <2>6 DEF Restarted
<1>8. CASE UNCHANGED recVars
  <2>1. UNCHANGED <<vars, proc, found, crashes, rehydrated>>
    BY <1>8 DEF recVars
  <2>2. /\ Calm' = Calm /\ Excused' = Excused /\ Told' = Told /\ Retrying' = Retrying
    BY <2>1 DEF vars, exchange, cache, history, Calm, Excused, Told, Retrying
  <2>3. Situated' = Situated
    BY <2>1 DEF vars, exchange, cache, Situated, Spare, Known, Bare, OnlyOpen, Cut, Kept, Roled, Role,
                Accounted, Sheltered, Buys, Orphan, Stopped, NoTakeProfits, Made, Entering, Event, IsOpen
  <2>4. Guarded' = Guarded
    BY <2>1, <2>2, <2>3 DEF vars, exchange, cache, Guarded
  <2> QED BY <1>3, <2>1, <2>2, <2>4 DEF Restarted
<1> QED BY <1>4, <1>5, <1>6, <1>7, <1>8 DEF RecNext

\* The first time an otherwise undisturbed process dies, wherever in a handler:
\* once the stream is connected again, a position that is held has a stop, or
\* somebody bound to act, until a trade that rehydratePosition made up closes.
THEOREM NeverNakedAgain ==
  ASSUME Prompt, UnlockedLoops = {}
  PROVE  RecSpec /\ [](crashes <= 1 /\ (faults = 0 => Calm)) => []NeverNakedAfterRestart
<1> DEFINE First == crashes <= 1 /\ (faults = 0 => Calm)
<1>1. Bounds
  BY ConstantsAssumption, CrashesAssumption DEF Bounds
<1>2. RecInit => FirstRestart /\ Restarted
  BY <1>1, InitOnce, InitCycle DEF RecInit, FirstRestart, Restarted, Bounds
<1>3. RecInv /\ FirstRestart /\ Restarted /\ First' /\ [RecNext]_recVars => FirstRestart' /\ Restarted'
  BY <1>1, FirstRestartKept, RestartedKept
<1>4. RecInv /\ FirstRestart /\ Restarted /\ First => NeverNakedAfterRestart
  <2> SUFFICES ASSUME RecInv, FirstRestart, Restarted, First, proc = "up", faults = 0
               PROVE  NeverNaked \/ Excused
    BY DEF NeverNakedAfterRestart, Excused
  <2>1. ConstantsAssumption /\ TInv /\ crashes \in 0 .. 1 /\ Calm
    BY <1>1 DEF Bounds, RecInv, CrashesAssumption
  <2>2. CASE crashes = 0
    BY <2>1, <2>2, CycleNamesAll DEF FirstRestart
  <2>3. CASE crashes = 1
    BY <2>1, <2>3, GuardedNeverNaked DEF Restarted
  <2> QED BY <2>1, <2>2, <2>3
<1> HIDE DEF First
<1>5. RecSpec /\ []First => []NeverNakedAfterRestart
  BY <1>2, <1>3, <1>4, RecTyping, PTL DEF RecSpec
<1> QED BY <1>5 DEF First

=============================================================================
