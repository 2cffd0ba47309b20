------------------------ MODULE PositionManagerProofs ------------------------
(***************************************************************************)
(* Theorems about PositionManager, for every number of trades, orders,     *)
(* failing calls, lost events and retries.                                 *)
(***************************************************************************)
EXTENDS PositionManager, SequenceTheorems, FiniteSetTheorems, TLAPS

-----------------------------------------------------------------------------
(* The exchange's orders: what its calls make of them.                     *)

\* Only stops and take-profits rest in the book.
Resting == {"STOP", "TP1", "TP2"}
Placed == {o \in Order : o.st = "open" => o.kind \in Resting}

Orders == [OrderIds -> Placed \cup {NoOrder}]

\* The first n ids are given to orders, the others are not.
Numbered(os, n) ==
  /\ os \in Orders /\ n \in Ref
  /\ \A i \in 1 .. n : os[i] \in Placed
  /\ \A i \in n + 1 .. MaxOrders : os[i] = NoOrder

\* An order stays what it is, whatever happens to it.
Same(os, n, os2, n2) ==
  /\ n <= n2
  /\ \A i \in 1 .. n : os2[i].kind = os[i].kind /\ os2[i].trade = os[i].trade

LEMMA OrderMade ==
  ASSUME NEW k \in Kinds, NEW t \in Trades, NEW q \in Nat
  PROVE  /\ k \in Resting => Opened(k, t, q) \in Placed
         /\ Filled(k, t, q) \in Placed
BY DEF Opened, Filled, Order, Placed, Resting

LEMMA NumberedAccepted ==
  ASSUME ConstantsAssumption, Numbered(orders, used),
         NEW new \in Seq(Placed), used + Len(new) <= MaxOrders
  PROVE  /\ Numbered(Accepted(new), used + Len(new))
         /\ Same(orders, used, Accepted(new), used + Len(new))
<1> USE DEF ConstantsAssumption, OrderIds, Ref
<1>1. Len(new) \in Nat /\ \A i \in 1 .. Len(new) : new[i] \in Placed
  BY LenProperties
<1>2. used \in Nat /\ MaxOrders \in Nat
  BY DEF Numbered
<1>3. \A i \in OrderIds : i \in used + 1 .. used + Len(new) => new[i - used] \in Placed
  BY <1>1, <1>2
<1>4. Accepted(new) \in Orders
  BY <1>3 DEF Accepted, Orders, Numbered
<1>5. \A i \in 1 .. used + Len(new) : Accepted(new)[i] \in Placed
  BY <1>1, <1>2, <1>3 DEF Accepted, Numbered
<1>6. \A i \in used + Len(new) + 1 .. MaxOrders : Accepted(new)[i] = NoOrder
  BY <1>1, <1>2 DEF Accepted, Numbered
<1>7. \A i \in 1 .. used : Accepted(new)[i] = orders[i]
  BY <1>1, <1>2 DEF Accepted
<1> QED BY <1>1, <1>2, <1>4, <1>5, <1>6, <1>7 DEF Numbered, Same

LEMMA NumberedCancelled ==
  ASSUME ConstantsAssumption, Numbered(orders, used), NEW ids
  PROVE  /\ Numbered(Cancelled(ids), used)
         /\ Same(orders, used, Cancelled(ids), used)
<1> USE DEF ConstantsAssumption, OrderIds, Ref
<1>1. \A i \in OrderIds : IsOpen(i) =>
        /\ orders[i] \in Placed
        /\ [orders[i] EXCEPT !.st = "cancelled"] \in Placed
        /\ [orders[i] EXCEPT !.st = "cancelled"].kind = orders[i].kind
        /\ [orders[i] EXCEPT !.st = "cancelled"].trade = orders[i].trade
  <2> SUFFICES ASSUME NEW i \in OrderIds, IsOpen(i)
               PROVE  /\ orders[i] \in Placed
                      /\ [orders[i] EXCEPT !.st = "cancelled"] \in Placed
                      /\ [orders[i] EXCEPT !.st = "cancelled"].kind = orders[i].kind
                      /\ [orders[i] EXCEPT !.st = "cancelled"].trade = orders[i].trade
    OBVIOUS
  <2>1. orders[i] \in Placed
    BY DEF IsOpen, Numbered, Orders, NoOrder
  <2> QED BY <2>1 DEF Placed, Order
<1>2. used \in Nat /\ MaxOrders \in Nat
  BY DEF Numbered
<1>3. Cancelled(ids) \in Orders
  BY <1>1 DEF Cancelled, Orders, Numbered
<1>4. \A i \in 1 .. used : /\ Cancelled(ids)[i] \in Placed
                           /\ Cancelled(ids)[i].kind = orders[i].kind
                           /\ Cancelled(ids)[i].trade = orders[i].trade
  BY <1>1, <1>2 DEF Cancelled, Numbered
<1>5. \A i \in used + 1 .. MaxOrders : Cancelled(ids)[i] = NoOrder
  BY <1>2 DEF Cancelled, Numbered, IsOpen, NoOrder
<1> QED BY <1>2, <1>3, <1>4, <1>5 DEF Numbered, Same

\* One more order.
LEMMA NumberedAdded ==
  ASSUME ConstantsAssumption, NEW os, NEW n, Numbered(os, n), n < MaxOrders, NEW o \in Placed
  PROVE  /\ Numbered([os EXCEPT ![n + 1] = o], n + 1)
         /\ Same(os, n, [os EXCEPT ![n + 1] = o], n + 1)
<1> USE DEF ConstantsAssumption, OrderIds, Ref, Orders
<1>1. n \in Nat /\ MaxOrders \in Nat /\ os \in [OrderIds -> Placed \cup {NoOrder}]
  BY DEF Numbered
<1>2. [os EXCEPT ![n + 1] = o] \in [OrderIds -> Placed \cup {NoOrder}]
  BY <1>1
<1>3. \A i \in OrderIds : [os EXCEPT ![n + 1] = o][i] = IF i = n + 1 THEN o ELSE os[i]
  BY <1>1
<1> QED BY <1>1, <1>2, <1>3 DEF Numbered, Same

LEMMA SameTransitive ==
  ASSUME NEW os1, NEW n1 \in Nat, NEW os2, NEW n2 \in Nat, NEW os3, NEW n3 \in Nat,
         Same(os1, n1, os2, n2), Same(os2, n2, os3, n3)
  PROVE  Same(os1, n1, os3, n3)
BY DEF Same

\* Cancellations that fail are a number of calls.
LEMMA MissedCount ==
  ASSUME ConstantsAssumption, NEW ids \in SUBSET Ref, NEW missed \in Missed(ids)
  PROVE  Cardinality(missed) \in Nat
<1>1. IsFiniteSet(Ref)
  BY FS_Interval DEF Ref, ConstantsAssumption
<1>2. missed \in SUBSET Ref
  BY DEF Missed
<1> QED BY <1>1, <1>2, FS_Subset, FS_CardinalityType

LEMMA Appended ==
  ASSUME NEW n \in Nat, NEW s \in Seq(1 .. n)
  PROVE  Append(s, n + 1) \in Seq(1 .. n + 1)
<1>1. s \in Seq(1 .. n + 1)
  BY SeqMonotonic
<1> QED BY <1>1

-----------------------------------------------------------------------------
(* Type correctness.                                                       *)

\* What TypeOK leaves out: ids are given in order, events are of orders that
\* were given one, and a loop that is not idle has read a position.
TInv ==
  /\ Numbered(orders, used)
  /\ held \in Nat /\ events \in Seq(1 .. used)
  /\ pos \in Position \cup {NoPosition}
  /\ pending \subseteq Trades
  /\ pp \in Protection \cup {NoProtection}
  /\ fclose \in Ref
  /\ trade \in 0 .. MaxTrades /\ eng \in 0 .. MaxTrades /\ ws \in 0 .. MaxTrades
  /\ at \in [UnlockedLoops -> {"idle", "read", "cancel", "write"}]
  /\ snap \in [UnlockedLoops -> Position \cup {NoPosition}]
  /\ \A l \in UnlockedLoops : at[l] # "idle" => snap[l] \in Position
  /\ faults \in 0 .. MaxFaults /\ lost \in 0 .. MaxLost
  /\ inserts \in [Trades -> Nat] /\ closes \in [Trades -> Nat]
  /\ reason \in [Trades -> CloseReasons \cup {"NONE"}]

LEMMA TInvTypes == ASSUME ConstantsAssumption, TInv PROVE TypeOK
<1>1. used \in Nat /\ MaxOrders \in Nat /\ used <= MaxOrders
  BY DEF TInv, Numbered, Ref, ConstantsAssumption
<1>2. events \in Seq(OrderIds)
  <2>1. 1 .. used \subseteq OrderIds
    BY <1>1 DEF OrderIds
  <2> QED BY <2>1, SeqMonotonic DEF TInv
<1> QED BY <1>2 DEF TInv, TypeOK, Numbered, Orders, Placed

LEMMA InitTInv == ASSUME ConstantsAssumption, Init PROVE TInv
<1> USE DEF ConstantsAssumption, Init
<1>1. Numbered(orders, used)
  BY DEF Numbered, Orders, Ref, OrderIds
<1>2. events \in Seq(1 .. used)
  OBVIOUS
<1> QED BY <1>1, <1>2 DEF TInv, Ref

\* The orders after a step.
Orderly == Numbered(orders', used') /\ Same(orders, used, orders', used')

\* What a step does to the rest that has to do with the exchange.
LEMMA Basics ==
  ASSUME ConstantsAssumption, TInv
  PROVE  /\ used \in Nat /\ MaxOrders \in Nat /\ used <= MaxOrders /\ MaxFaults \in Nat
         /\ \A i \in OrderIds : IsOpen(i) => orders[i] \in Placed /\ i \in 1 .. used
         /\ \A i \in 1 .. used : orders[i] \in Placed
         /\ \A n \in DOMAIN events : events[n] \in 1 .. used
         /\ events # <<>> => Event \in 1 .. used /\ Tail(events) \in Seq(1 .. used)
<1>1. used \in Nat /\ MaxOrders \in Nat /\ used <= MaxOrders /\ MaxFaults \in Nat
  BY DEF TInv, Numbered, Ref, ConstantsAssumption
<1>2. \A i \in OrderIds : IsOpen(i) => orders[i] \in Placed /\ i \in 1 .. used
  BY <1>1 DEF TInv, Numbered, Orders, OrderIds, IsOpen, NoOrder
<1>3. \A i \in 1 .. used : orders[i] \in Placed
  BY DEF TInv, Numbered
<1>4. events # <<>> => Event \in 1 .. used /\ Tail(events) \in Seq(1 .. used)
  BY HeadTailProperties DEF TInv, Event
<1>5. \A n \in DOMAIN events : events[n] \in 1 .. used
  <2>1. events \in Seq(1 .. used)
    BY DEF TInv
  <2> QED BY <2>1, ElementOfSeq, LenProperties
<1> QED BY <1>1, <1>2, <1>3, <1>4, <1>5

LEMMA Orderless ==
  ASSUME ConstantsAssumption, TInv, UNCHANGED <<orders, used>>
  PROVE  Orderly
BY DEF TInv, Orderly, Same, Numbered, Ref

LEMMA EventsKept ==
  ASSUME ConstantsAssumption, TInv, Orderly, NEW s \in Seq(1 .. used)
  PROVE  s \in Seq(1 .. used')
<1>1. used \in Nat /\ used' \in Nat /\ used <= used'
  BY Basics DEF Orderly, Numbered, Same, Ref
<1>2. 1 .. used \subseteq 1 .. used'
  BY <1>1
<1> QED BY <1>2, SeqMonotonic

LEMMA Placing ==
  ASSUME ConstantsAssumption, TInv,
         NEW new \in Seq(Placed), used + Len(new) <= MaxOrders,
         orders' = Accepted(new), used' = used + Len(new)
  PROVE  Orderly
BY NumberedAccepted DEF TInv, Orderly

\* Orders are cancelled, and then one is placed.
LEMMA Replacing ==
  ASSUME ConstantsAssumption, TInv, NEW ids, NEW o \in Placed, used < MaxOrders,
         orders' = [Cancelled(ids) EXCEPT ![used + 1] = o], used' = used + 1
  PROVE  Orderly
<1>1. used \in Nat
  BY Basics
<1>2. Numbered(Cancelled(ids), used) /\ Same(orders, used, Cancelled(ids), used)
  BY NumberedCancelled DEF TInv
<1>3. /\ Numbered(orders', used')
      /\ Same(Cancelled(ids), used, orders', used')
  <2> DEFINE os == Cancelled(ids)
  <2>1. Numbered(os, used)
    BY <1>2
  <2> HIDE DEF os
  <2>2. /\ Numbered([os EXCEPT ![used + 1] = o], used + 1)
        /\ Same(os, used, [os EXCEPT ![used + 1] = o], used + 1)
    BY <2>1, NumberedAdded
  <2> QED BY <2>2 DEF os
<1> QED BY <1>1, <1>2, <1>3, SameTransitive DEF Orderly

LEMMA Cancelling ==
  ASSUME ConstantsAssumption, TInv, NEW ids, orders' = Cancelled(ids), used' = used
  PROVE  Orderly
BY NumberedCancelled DEF TInv, Orderly

-----------------------------------------------------------------------------
(* The exchange and the engine.                                            *)

LEMMA ExecutesType ==
  ASSUME ConstantsAssumption, TInv, NEW i \in OrderIds, Executes(i)
  PROVE  TInv' /\ Orderly
<1> USE DEF ConstantsAssumption
<1> DEFINE q == IF orders[i].kind = "STOP" THEN held ELSE Least(orders[i].qty, held)
<1>1. orders[i] \in Placed /\ i \in 1 .. used /\ used \in Nat /\ MaxOrders \in Nat /\ used <= MaxOrders
  BY Basics DEF Executes
<1>2. q \in Nat /\ q <= held /\ held \in Nat
  <2>1. orders[i].qty \in Nat /\ held \in Nat
    BY <1>1 DEF Order, Placed, TInv
  <2> QED BY <2>1 DEF Least
<1>3. orders' = [orders EXCEPT ![i].st = "filled", ![i].qty = q] /\ held' = held - q
  BY DEF Executes
<1>4. orders'[i] \in Placed /\ orders'[i].kind = orders[i].kind /\ orders'[i].trade = orders[i].trade
  <2> HIDE DEF q
  <2> QED BY <1>1, <1>2, <1>3 DEF Order, Placed, TInv, Numbered, Orders
<1>5. /\ orders' \in Orders /\ \A j \in OrderIds \ {i} : orders'[j] = orders[j]
  <2> HIDE DEF q
  <2> QED BY <1>1, <1>3, <1>4 DEF TInv, Numbered, Orders
<1>6. used' = used
  BY DEF Executes
<1>7. Orderly
  <2>1. \A j \in 1 .. used : orders'[j] \in Placed /\ orders'[j].kind = orders[j].kind
                                                /\ orders'[j].trade = orders[j].trade
    <3> TAKE j \in 1 .. used
    <3>1. j \in OrderIds /\ orders[j] \in Placed
      BY <1>1 DEF TInv, Numbered, OrderIds
    <3>2. j # i => orders'[j] = orders[j]
      BY <1>5, <3>1
    <3> QED BY <1>4, <3>1, <3>2
  <2>2. \A j \in used + 1 .. MaxOrders : orders'[j] = NoOrder
    <3> TAKE j \in used + 1 .. MaxOrders
    <3>1. j \in OrderIds /\ j # i
      BY <1>1 DEF OrderIds
    <3> QED BY <1>5, <3>1 DEF TInv, Numbered
  <2> QED BY <1>1, <1>5, <1>6, <2>1, <2>2 DEF Orderly, Numbered, Same, Ref
<1>8. held' \in Nat
  <2> HIDE DEF q
  <2> QED BY <1>2, <1>3
<1>9. events' \in Seq(1 .. used')
  BY <1>1, <1>6 DEF Executes, TInv
<1> QED BY <1>6, <1>7, <1>8, <1>9 DEF Executes, TInv, Orderly, cache, loops, history

LEMMA ExpiresType ==
  ASSUME ConstantsAssumption, TInv, NEW i \in OrderIds, Expires(i)
  PROVE  TInv' /\ Orderly
<1>1. orders' = Cancelled({i}) /\ used' = used
  BY DEF Expires
<1>2. Orderly
  BY <1>1, NumberedCancelled DEF TInv, Orderly
<1> QED BY <1>1, <1>2 DEF Expires, TInv, Orderly, cache, loops, history

\* A step that leaves the orders alone.
LEMMA ClosedByHandType ==
  ASSUME ConstantsAssumption, TInv, ClosedByHand
  PROVE  TInv' /\ Orderly
<1> DEFINE new == <<Filled("MANUAL", trade, held)>>
<1>1. used \in Nat /\ MaxOrders \in Nat /\ used < MaxOrders
  BY Basics DEF ClosedByHand
<1>2. Filled("MANUAL", trade, held) \in Placed
  BY OrderMade DEF ClosedByHand, TInv, Trades, Kinds, ConstantsAssumption
<1>3. new \in Seq(Placed) /\ Len(new) = 1
  BY <1>2
<1>4. orders' = Accepted(new) /\ used' = used + 1
  BY DEF ClosedByHand
<1>5. Orderly
  <2> HIDE DEF new
  <2>1. used' = used + Len(new) /\ used + Len(new) <= MaxOrders
    BY <1>1, <1>3, <1>4
  <2> QED BY <1>3, <1>4, <2>1, Placing
<1>6. events' \in Seq(1 .. used')
  BY <1>1, <1>4, Appended DEF ClosedByHand, TInv
<1> QED BY <1>5, <1>6 DEF ClosedByHand, TInv, Orderly, cache, loops, history

LEMMA EventLostType ==
  ASSUME ConstantsAssumption, TInv, EventLost
  PROVE  TInv' /\ Orderly
<1>1. Orderly
  BY Orderless DEF EventLost
<1>2. events' \in Seq(1 .. used')
  BY Basics DEF EventLost
<1>3. lost' \in 0 .. MaxLost
  BY DEF EventLost, TInv, ConstantsAssumption
<1> QED BY <1>1, <1>2, <1>3 DEF EventLost, TInv, Orderly, cache, loops, history

\* A trade's counter goes up by one.
LEMMA CountedType ==
  ASSUME NEW f \in [Trades -> Nat], NEW t \in Trades
  PROVE  [f EXCEPT ![t] = @ + 1] \in [Trades -> Nat]
<1>1. f[t] + 1 \in Nat
  OBVIOUS
<1> QED BY <1>1

LEMMA EnterType ==
  ASSUME ConstantsAssumption, TInv, Enter
  PROVE  TInv' /\ Orderly
<1> DEFINE new == <<Filled("ENTRY", trade + 1, EntryQty)>>
<1>1. used \in Nat /\ MaxOrders \in Nat /\ used < MaxOrders
  BY Basics DEF Enter
<1>2. trade + 1 \in Trades /\ EntryQty \in Nat
  BY DEF Enter, TInv, Trades, ConstantsAssumption, EntryQty
<1>3. new \in Seq(Placed) /\ Len(new) = 1
  BY <1>2, OrderMade DEF Kinds
<1>4. orders' = Accepted(new) /\ used' = used + 1
  BY DEF Enter
<1>5. Orderly
  <2> HIDE DEF new
  <2>1. used' = used + Len(new) /\ used + Len(new) <= MaxOrders
    BY <1>1, <1>3, <1>4
  <2> QED BY <1>3, <1>4, <2>1, Placing
<1>6. events' \in Seq(1 .. used')
  BY <1>1, <1>4, Appended DEF Enter, TInv
<1>7. /\ trade' \in 0 .. MaxTrades /\ eng' \in 0 .. MaxTrades
      /\ pending' \subseteq Trades /\ held' \in Nat
  <2>1. trade' \in 0 .. MaxTrades /\ eng' \in 0 .. MaxTrades
    BY <1>2 DEF Enter, Trades, ConstantsAssumption
  <2>2. pending' \subseteq Trades
    BY <1>2 DEF Enter, TInv
  <2>3. held' \in Nat
    BY <1>2 DEF Enter, TInv
  <2> QED BY <2>1, <2>2, <2>3
<1> QED BY <1>5, <1>6, <1>7 DEF Enter, TInv, Orderly, loops, history

LEMMA StubType ==
  ASSUME ConstantsAssumption, NEW t \in Trades
  PROVE  Stub(t) \in Position
BY DEF Stub, Position, Ref, EntryQty, ConstantsAssumption

LEMMA FailType ==
  ASSUME ConstantsAssumption, faults \in 0 .. MaxFaults, NEW n \in Nat, Fail(n)
  PROVE  faults' \in 0 .. MaxFaults
BY DEF Fail, ConstantsAssumption

LEMMA EngineType ==
  ASSUME ConstantsAssumption, TInv, Engine
  PROVE  TInv' /\ Orderly
<1> USE DEF cache, loops, history, exchange
<1>1. CASE Enter
  BY <1>1, EnterType
<1>2. CASE EnterReturns
  <2>1. Orderly
    BY <1>2, Orderless DEF EnterReturns
  <2>2. eng \in Trades
    BY <1>2 DEF EnterReturns, TInv, Trades, ConstantsAssumption
  <2>3. pos' \in Position \cup {NoPosition} /\ eng' \in 0 .. MaxTrades
    BY <1>2, <2>2, StubType DEF EnterReturns, TInv, ConstantsAssumption
  <2> QED BY <1>2, <2>1, <2>3 DEF EnterReturns, TInv, Orderly
<1>3. CASE EnterErrs
  <2>1. Orderly
    BY <1>3, Orderless DEF EnterErrs
  <2>2. faults' \in 0 .. MaxFaults /\ eng' \in 0 .. MaxTrades
    BY <1>3, FailType DEF EnterErrs, TInv, ConstantsAssumption
  <2> QED BY <1>3, <2>1, <2>2 DEF EnterErrs, TInv, Orderly
<1>4. CASE \E t \in Trades : PendingExpires(t)
  <2>1. Orderly
    BY <1>4, Orderless DEF PendingExpires
  <2> QED BY <1>4, <2>1 DEF PendingExpires, TInv, Orderly
<1> QED BY <1>1, <1>2, <1>3, <1>4 DEF Engine

-----------------------------------------------------------------------------
(* finalizeSLTP.                                                           *)

LEMMA FullType == ASSUME ConstantsAssumption PROVE Full \in Protection
BY DEF Full, Protection, Tp1Qty, Tp2Qty, ConstantsAssumption

LEMMA ActivatedType ==
  ASSUME ConstantsAssumption, TInv, NEW t \in Trades, NEW tp2 \in BOOLEAN, Activated(t, tp2)
  PROVE  /\ Orderly
         /\ pos' \in Position /\ inserts' \in [Trades -> Nat] /\ faults' \in 0 .. MaxFaults
<1> DEFINE two == <<Opened("STOP", t, 0), Opened("TP1", t, Tp1Qty)>>
           one == IF tp2 THEN <<Opened("TP2", t, Tp2Qty)>> ELSE <<>>
           new == two \o one
<1>1. used \in Nat /\ MaxOrders \in Nat
  BY Basics
<1>2. /\ Opened("STOP", t, 0) \in Placed /\ Opened("TP1", t, Tp1Qty) \in Placed
      /\ Opened("TP2", t, Tp2Qty) \in Placed
  BY OrderMade DEF Kinds, Tp1Qty, Tp2Qty, Resting
<1>3. two \in Seq(Placed) /\ Len(two) = 2
  BY <1>2
<1>4. one \in Seq(Placed) /\ Len(one) = IF tp2 THEN 1 ELSE 0
  BY <1>2
<1>5. new \in Seq(Placed) /\ Len(new) = IF tp2 THEN 3 ELSE 2
  <2> HIDE DEF one, two
  <2>1. two \o one \in Seq(Placed) /\ Len(two \o one) = Len(two) + Len(one)
    BY <1>3, <1>4, ConcatProperties
  <2> QED BY <1>3, <1>4, <2>1
<1>6. /\ used + Len(new) <= MaxOrders
      /\ orders' = Accepted(new) /\ used' = used + Len(new)
  BY DEF Activated
<1>7. Orderly
  <2> HIDE DEF new
  <2> QED BY <1>5, <1>6, Placing
<1>8. pos' \in Position
  <2>1. pos' = [Stub(t) EXCEPT !.sl = used + 1, !.tp = used + 2,
                               !.tp2 = IF tp2 THEN used + 3 ELSE 0]
    BY DEF Activated
  <2>2. used + 1 \in Ref /\ used + 2 \in Ref /\ (tp2 => used + 3 \in Ref) /\ 0 \in Ref
    <3> HIDE DEF new
    <3> QED BY <1>1, <1>5, <1>6 DEF Ref
  <2>3. Stub(t) \in Position
    BY StubType
  <2> QED BY <2>1, <2>2, <2>3 DEF Position
<1>9. faults' \in 0 .. MaxFaults
  <2>1. FaultIfNot(tp2) \in Nat
    BY DEF FaultIfNot
  <2> QED BY <2>1, FailType DEF Activated, TInv
<1>10. inserts' \in [Trades -> Nat]
  BY CountedType DEF Activated, TInv
<1> QED BY <1>7, <1>8, <1>9, <1>10

LEMMA FinalizedType ==
  ASSUME ConstantsAssumption, TInv, NEW t \in Trades, Finalized(t)
  PROVE  /\ Orderly
         /\ held' = held /\ events' = events /\ closes' = closes /\ reason' = reason
         /\ pos' \in Position \cup {NoPosition} /\ pending' \subseteq Trades
         /\ pp' \in Protection \cup {NoProtection}
         /\ inserts' \in [Trades -> Nat] /\ faults' \in 0 .. MaxFaults
<1>1. held' = held /\ events' = events /\ closes' = closes /\ reason' = reason
  BY DEF Finalized
<1>2. CASE StopRefused
  <2>1. Orderly
    BY <1>2, Orderless DEF StopRefused
  <2>2. faults' \in 0 .. MaxFaults
    <3>1. FaultIfNot(FALSE) \in Nat
      BY DEF FaultIfNot
    <3> QED BY <1>2, <3>1, FailType DEF StopRefused, TInv
  <2> QED BY <1>1, <1>2, <2>1, <2>2, FullType DEF StopRefused, TInv
<1>3. ASSUME NEW c \in BOOLEAN, TakeProfitRefused(t, c)
      PROVE  /\ Orderly /\ faults' \in 0 .. MaxFaults
             /\ pp' = Full /\ UNCHANGED <<pos, pending, inserts>>
  <2> DEFINE stop == Opened("STOP", t, 0)
             o == IF c THEN [stop EXCEPT !.st = "cancelled"] ELSE stop
             new == <<o>>
  <2>1. o \in Placed
    BY DEF Resting, Opened, Order, Placed, Kinds
  <2>2. new \in Seq(Placed) /\ Len(new) = 1
    <3> HIDE DEF o
    <3> QED BY <2>1
  <2>3. orders' = Accepted(new) /\ used' = used + 1 /\ used < MaxOrders
    BY <1>3 DEF TakeProfitRefused
  <2>4. Orderly
    <3>1. used \in Nat /\ MaxOrders \in Nat
      BY Basics
    <3> HIDE DEF new
    <3>2. used' = used + Len(new) /\ used + Len(new) <= MaxOrders
      BY <2>2, <2>3, <3>1
    <3> QED BY <2>2, <2>3, <3>2, Placing
  <2>5. faults' \in 0 .. MaxFaults
    <3>1. FaultIfNot(FALSE) + (IF c THEN 0 ELSE 1) \in Nat
      BY DEF FaultIfNot
    <3> QED BY <1>3, <3>1, FailType DEF TakeProfitRefused, TInv
  <2> QED BY <1>3, <2>4, <2>5 DEF TakeProfitRefused
<1>4. ASSUME NEW tp2 \in BOOLEAN, Activated(t, tp2)
      PROVE  /\ Orderly
             /\ pos' \in Position \cup {NoPosition} /\ pending' \subseteq Trades
             /\ pp' \in Protection \cup {NoProtection}
             /\ inserts' \in [Trades -> Nat] /\ faults' \in 0 .. MaxFaults
  <2>1. pending' \subseteq Trades /\ pp' = pp
    BY <1>4 DEF Activated, TInv
  <2> QED BY <1>4, <2>1, ActivatedType DEF TInv
<1>5. CASE \E c \in BOOLEAN : TakeProfitRefused(t, c)
  BY <1>1, <1>3, <1>5, FullType DEF TInv
<1>6. CASE \E tp2 \in BOOLEAN : Activated(t, tp2)
  BY <1>1, <1>4, <1>6
<1> QED BY <1>2, <1>5, <1>6 DEF Finalized

-----------------------------------------------------------------------------
(* The user data stream.                                                   *)

LEMMA FillType ==
  ASSUME ConstantsAssumption, TInv, Fill
  PROVE  /\ Event \in 1 .. used /\ orders[Event] \in Placed /\ orders[Event].kind # "ENTRY"
         /\ ws = 0 /\ events # <<>> /\ events' = Tail(events) /\ events' \in Seq(1 .. used)
BY Basics DEF Fill, Handling, TInv

LEMMA NamedType ==
  ASSUME ConstantsAssumption, NEW p \in Position
  PROVE  Named(p) \subseteq Ref /\ Siblings(p) \subseteq Ref /\ Replaced(p) \subseteq Ref
BY DEF Named, Siblings, Replaced, Position

LEMMA ClosesType ==
  ASSUME ConstantsAssumption, TInv, Fill, pos # NoPosition,
         NEW ids \in SUBSET Ref, NEW r \in CloseReasons, Closes(ids, r), fclose' \in Ref
  PROVE  TInv' /\ Orderly
<1>1. PICK missed \in Missed(ids) :
         orders' = Cancelled(ids \ missed) /\ Fail(Cardinality(missed))
  BY DEF Closes
<1>2. faults' \in 0 .. MaxFaults
  BY <1>1, MissedCount, FailType DEF TInv
<1>3. Orderly
  BY <1>1, Cancelling DEF Closes
<1>4. events' \in Seq(1 .. used') /\ held' = held
  BY FillType DEF Closes
<1>5. /\ closes' \in [Trades -> Nat] /\ reason' \in [Trades -> CloseReasons \cup {"NONE"}]
      /\ pos' = NoPosition /\ UNCHANGED <<pending, pp, inserts>>
  <2>1. pos.trade \in Trades
    BY DEF TInv, Position
  <2>2. closes' \in [Trades -> Nat]
    BY <2>1, CountedType DEF Closes, Persisted, TInv
  <2>3. reason' \in [Trades -> CloseReasons \cup {"NONE"}]
    BY DEF Closes, Persisted, TInv
  <2> QED BY <2>2, <2>3 DEF Closes, Persisted, Removed
<1> QED BY <1>2, <1>3, <1>4, <1>5 DEF Closes, TInv, Orderly, loops

LEMMA WsTp1Type ==
  ASSUME ConstantsAssumption, TInv, NEW stopped \in BOOLEAN, WsTp1(stopped)
  PROVE  TInv' /\ Orderly
<1>1. PICK missed \in Missed(Replaced(pos)) :
        LET os == Cancelled(Replaced(pos) \ missed) IN
        /\ Fail(Cardinality(missed) + FaultIfNot(stopped))
        /\ IF stopped
           THEN /\ used < MaxOrders
                /\ orders' = [os EXCEPT ![used + 1] = EntryStop(pos.trade)]
                /\ used' = used + 1
           ELSE orders' = os /\ UNCHANGED used
  BY DEF WsTp1
<1>2. pos \in Position /\ Fill
  BY DEF WsTp1, TInv
<1>3. EntryStop(pos.trade) \in Placed
  BY <1>2, OrderMade DEF EntryStop, Position, Kinds, Resting
<1>4. Orderly
  BY <1>1, <1>3, Replacing, Cancelling
<1>5. faults' \in 0 .. MaxFaults
  <2>1. Cardinality(missed) + FaultIfNot(stopped) \in Nat
    BY <1>2, MissedCount, NamedType DEF FaultIfNot
  <2> QED BY <1>1, <2>1, FailType DEF TInv
<1>6. events' \in Seq(1 .. used')
  BY <1>2, <1>4, FillType, EventsKept
<1>7. pos' \in Position
  <2>1. pos' = [pos EXCEPT !.tp1 = TRUE, !.sl = 0,
                        !.tsl = IF stopped THEN used + 1 ELSE @,
                        !.be = @ \/ stopped,
                        !.qty = pos.orig - orders[Event].qty]
    BY DEF WsTp1
  <2>2. pos.orig - orders[Event].qty \in Int
    BY <1>2, FillType DEF Position, Order, Placed
  <2>3. 0 \in Ref /\ (stopped => used + 1 \in Ref)
    BY <1>1, Basics DEF Ref
  <2>4. (pos.be \/ stopped) \in BOOLEAN
    OBVIOUS
  <2> QED BY <1>2, <2>1, <2>2, <2>3, <2>4 DEF Position
<1> QED BY <1>4, <1>5, <1>6, <1>7 DEF WsTp1, TInv, Orderly, loops, history

LEMMA UserDataType ==
  ASSUME ConstantsAssumption, TInv, UserData
  PROVE  TInv' /\ Orderly
<1> USE DEF cache, loops, history
<1>1. pos # NoPosition => pos \in Position
  BY DEF TInv
<1>2. {} \in SUBSET Ref /\ (pos # NoPosition =>
        {{pos.sl, pos.tsl}, {pos.tsl}, {pos.tp2}, Siblings(pos)} \subseteq SUBSET Ref)
  BY <1>1, NamedType DEF Position
<1>3. fclose \in Ref /\ 0 \in Ref
  BY DEF TInv, Ref, ConstantsAssumption
<1>4. CASE WsReadsPending
  <2>1. Orderly
    BY <1>4, Orderless DEF WsReadsPending
  <2>2. events' \in Seq(1 .. used')
    BY <1>4, Basics DEF WsReadsPending, Handling
  <2>3. ws' \in 0 .. MaxTrades
    <3>1. ws' \in pending \cup {0}
      BY <1>4 DEF WsReadsPending
    <3>2. pending \subseteq Trades
      BY DEF TInv
    <3>3. Trades \cup {0} \subseteq 0 .. MaxTrades
      BY DEF Trades, ConstantsAssumption
    <3> QED BY ONLY <3>1, <3>2, <3>3
  <2> QED BY <1>4, <2>1, <2>2, <2>3 DEF WsReadsPending, TInv, Orderly
<1>5. CASE WsFinalizes
  <2>1. ws \in Trades
    BY <1>5 DEF WsFinalizes, TInv, Trades, ConstantsAssumption
  <2>2. events' \in Seq(1 .. used')
    BY <1>5, <2>1, FinalizedType, EventsKept DEF WsFinalizes, TInv
  <2>3. ws' \in 0 .. MaxTrades
    BY <1>5 DEF WsFinalizes, ConstantsAssumption
  <2> QED BY <1>5, <2>1, <2>2, <2>3, FinalizedType DEF WsFinalizes, TInv, Orderly
<1>6. ASSUME NEW stopped \in BOOLEAN, WsTp1(stopped)
      PROVE  TInv' /\ Orderly
  BY <1>6, WsTp1Type
<1>7. CASE WsTp1Closes
  BY <1>2, <1>3, <1>7, ClosesType DEF WsTp1Closes, CloseReasons
<1>8. CASE WsTp2
  BY <1>2, <1>3, <1>8, ClosesType DEF WsTp2, CloseReasons
<1>9. CASE WsTrailingSl
  BY <1>2, <1>3, <1>9, ClosesType DEF WsTrailingSl, CloseReasons
<1>10. CASE WsHardSl
  BY <1>2, <1>3, <1>10, ClosesType DEF WsHardSl, CloseReasons
<1>11. CASE WsForceClosed
  BY <1>2, <1>3, <1>11, ClosesType DEF WsForceClosed, CloseReasons
<1>12. CASE WsUntracked
  BY <1>2, <1>3, <1>12, ClosesType DEF WsUntracked, CloseReasons
<1>13. CASE WsIgnored
  <2>1. Orderly
    BY <1>13, Orderless DEF WsIgnored
  <2>2. events' \in Seq(1 .. used')
    BY <1>13, FillType DEF WsIgnored
  <2> QED BY <1>13, <2>1, <2>2 DEF WsIgnored, TInv, Orderly
<1> QED BY <1>4, <1>5, <1>6, <1>7, <1>8, <1>9, <1>10, <1>11, <1>12, <1>13 DEF UserData

-----------------------------------------------------------------------------
(* The one-second loop and the sweep.                                      *)

\* What may be placed, as a sequence.
LEMMA AtMostOne ==
  ASSUME NEW b \in BOOLEAN, NEW o, b => o \in Placed
  PROVE  /\ (IF b THEN <<o>> ELSE <<>>) \in Seq(Placed)
         /\ Len(IF b THEN <<o>> ELSE <<>>) = IF b THEN 1 ELSE 0
OBVIOUS

LEMMA CheckRetriesType ==
  ASSUME ConstantsAssumption, TInv,
         NEW stop \in BOOLEAN, NEW tp \in BOOLEAN, NEW tp2 \in BOOLEAN,
         CheckRetries(stop, tp, tp2)
  PROVE  TInv' /\ Orderly
<1> DEFINE stops == IF stop THEN <<Opened("STOP", pos.trade, 0)>> ELSE <<>>
           tps   == IF tp THEN <<Opened("TP1", pos.trade, pp.q1)>> ELSE <<>>
           tp2s  == IF tp2 THEN <<Opened("TP2", pos.trade, pp.q2)>> ELSE <<>>
           n     == used + Len(stops)
           new   == stops \o tps \o tp2s
<1>1. pos \in Position /\ pp \in Protection /\ used \in Nat /\ MaxOrders \in Nat
  BY Basics DEF CheckRetries, TInv
<1>2. /\ Opened("STOP", pos.trade, 0) \in Placed /\ Opened("TP1", pos.trade, pp.q1) \in Placed
      /\ Opened("TP2", pos.trade, pp.q2) \in Placed
  BY <1>1, OrderMade DEF Position, Protection, Kinds, Resting
<1>3. /\ stops \in Seq(Placed) /\ Len(stops) = IF stop THEN 1 ELSE 0
      /\ tps \in Seq(Placed) /\ Len(tps) = IF tp THEN 1 ELSE 0
      /\ tp2s \in Seq(Placed) /\ Len(tp2s) = IF tp2 THEN 1 ELSE 0
  BY <1>2, AtMostOne
<1>4. /\ n + Len(tps \o tp2s) <= MaxOrders
      /\ orders' = Accepted(new)
      /\ used' = n + Len(tps \o tp2s)
      /\ pos' = [pos EXCEPT !.sl = IF stop THEN n ELSE @,
                            !.tp = IF tp THEN n + 1 ELSE @,
                            !.tp2 = IF tp2 THEN n + 2 ELSE @]
  BY DEF CheckRetries
<1>5. /\ tp2 => tp
      /\ Len(stops) \in Nat /\ Len(tps) \in Nat /\ Len(tp2s) \in Nat
  <2>1. tp2 => tp
    BY DEF CheckRetries
  <2> HIDE DEF stops, tps, tp2s
  <2> QED BY <1>3, <2>1
<1>6. /\ Len(tps \o tp2s) = Len(tps) + Len(tp2s)
      /\ new \in Seq(Placed) /\ Len(new) = Len(stops) + Len(tps \o tp2s)
  <2> HIDE DEF stops, tps, tp2s
  <2>1. tps \o tp2s \in Seq(Placed) /\ Len(tps \o tp2s) = Len(tps) + Len(tp2s)
    BY <1>3, ConcatProperties
  <2>2. stops \o tps \in Seq(Placed) /\ Len(stops \o tps) = Len(stops) + Len(tps)
    BY <1>3, ConcatProperties
  <2>3. new \in Seq(Placed) /\ Len(new) = Len(stops \o tps) + Len(tp2s)
    BY <1>3, <2>2, ConcatProperties
  <2> QED BY <1>3, <2>1, <2>2, <2>3
<1>7. Orderly
  <2> HIDE DEF stops, tps, tp2s
  <2>1. used' = used + Len(new) /\ used + Len(new) <= MaxOrders
    <3> HIDE DEF new
    <3> QED BY <1>1, <1>4, <1>5, <1>6
  <2> HIDE DEF new
  <2> QED BY <1>4, <1>6, <2>1, Placing
<1>8. pos' \in Position
  <2> HIDE DEF stops, tps, tp2s
  <2>1. (stop => n \in Ref) /\ (tp => n + 1 \in Ref) /\ (tp2 => n + 2 \in Ref)
    <3>1. used + Len(stops) + Len(tps) + Len(tp2s) <= MaxOrders
      <4> HIDE DEF new
      <4> QED BY <1>1, <1>4, <1>5, <1>6
    <3> HIDE DEF new
    <3> QED BY <1>1, <1>3, <1>5, <3>1 DEF Ref
  <2> HIDE DEF n
  <2> QED BY <1>1, <1>4, <2>1 DEF Position
<1>9. faults' \in 0 .. MaxFaults
  <2> DEFINE k == (IF pp.sl THEN FaultIfNot(stop) ELSE 0) + (IF pp.tp THEN FaultIfNot(tp) ELSE 0)
                  + IF tp /\ pp.q2 > 0 THEN FaultIfNot(tp2) ELSE 0
  <2>1. k \in Nat
    BY DEF FaultIfNot
  <2>2. Fail(k)
    BY DEF CheckRetries
  <2> HIDE DEF k
  <2> QED BY <2>1, <2>2, FailType DEF TInv
<1>10. pp' \in Protection \cup {NoProtection}
  <2>1. pp.retries + 1 \in 0 .. MaxRetries
    BY <1>1 DEF CheckRetries, Exhausted, Protection, ConstantsAssumption
  <2>2. \/ pp' = NoProtection
        \/ pp' = [pp EXCEPT !.sl = @ /\ ~stop, !.tp = @ /\ ~tp, !.retries = @ + 1]
    BY DEF CheckRetries
  <2>3. (pp.sl /\ ~stop) \in BOOLEAN /\ (pp.tp /\ ~tp) \in BOOLEAN
    OBVIOUS
  <2> QED BY <1>1, <2>1, <2>2, <2>3 DEF Protection
<1>11. events' \in Seq(1 .. used')
  BY <1>7, EventsKept DEF CheckRetries, TInv
<1> QED BY <1>7, <1>8, <1>9, <1>10, <1>11 DEF CheckRetries, TInv, Orderly, loops, history

LEMMA ForcePlacedType ==
  ASSUME ConstantsAssumption, TInv, NEW p \in Position, NEW ok \in BOOLEAN, ForcePlaced(p, ok)
  PROVE  /\ fclose' \in Ref /\ held' \in Nat
         /\ ~ok => UNCHANGED <<used, held, events>>
         /\ ok => /\ used < MaxOrders /\ used' = used + 1
                  /\ events' = Append(events, used + 1) /\ events' \in Seq(1 .. used')
                  /\ Filled("FORCE", p.trade, Least(p.qty, held)) \in Placed
<1>1. used \in Nat /\ MaxOrders \in Nat /\ held \in Nat /\ p.qty \in Int /\ p.trade \in Trades
  BY Basics DEF TInv, Position
<1>2. CASE ok
  <2>1. Least(p.qty, held) \in Nat /\ Least(p.qty, held) <= held
    BY <1>1, <1>2 DEF ForcePlaced, Least
  <2>2. /\ used < MaxOrders /\ used' = used + 1 /\ fclose' = used + 1
        /\ events' = Append(events, used + 1) /\ held' = held - Least(p.qty, held)
    BY <1>2 DEF ForcePlaced
  <2>3. events' \in Seq(1 .. used')
    BY <1>1, <2>2, Appended DEF TInv
  <2>4. Filled("FORCE", p.trade, Least(p.qty, held)) \in Placed
    BY <1>1, <2>1, OrderMade DEF Kinds
  <2>5. held' \in Nat
    BY <1>1, <2>1, <2>2
  <2> QED BY <1>1, <1>2, <2>2, <2>3, <2>4, <2>5 DEF Ref
<1>3. CASE ~ok
  BY <1>1, <1>3 DEF ForcePlaced, Ref
<1> QED BY <1>2, <1>3

LEMMA CheckGivesUpType ==
  ASSUME ConstantsAssumption, TInv, NEW ok \in BOOLEAN, CheckGivesUp(ok)
  PROVE  TInv' /\ Orderly
<1>1. pos \in Position /\ ForcePlaced(pos, ok)
  BY DEF CheckGivesUp, TInv
<1>2. CASE ok
  <2>1. PICK missed \in Missed(Named(pos)) :
          /\ orders' = ForceOrder(pos, Cancelled(Named(pos) \ missed))
          /\ Fail(Cardinality(missed))
    BY <1>2 DEF CheckGivesUp
  <2>2. Orderly
    BY <1>1, <1>2, <2>1, ForcePlacedType, Replacing DEF ForceOrder
  <2>3. faults' \in 0 .. MaxFaults
    BY <1>1, <2>1, MissedCount, NamedType, FailType DEF TInv
  <2> QED BY <1>1, <1>2, <2>2, <2>3, ForcePlacedType DEF CheckGivesUp, TInv, Orderly, loops, history
<1>3. CASE ~ok
  <2>1. orders' = orders /\ Fail(ForceFault(pos, ok))
    BY <1>3 DEF CheckGivesUp
  <2>2. Orderly
    BY <1>1, <1>3, <2>1, ForcePlacedType, Orderless
  <2>3. ForceFault(pos, ok) \in Nat
    BY DEF ForceFault
  <2>4. faults' \in 0 .. MaxFaults
    BY <2>1, <2>3, FailType DEF TInv
  <2> QED BY <1>1, <1>3, <2>2, <2>4, ForcePlacedType DEF CheckGivesUp, TInv, Orderly, loops, history
<1> QED BY <1>2, <1>3

LEMMA CheckBreakevenType ==
  ASSUME ConstantsAssumption, TInv, NEW placed \in BOOLEAN, CheckBreakeven(placed)
  PROVE  TInv' /\ Orderly
<1>1. PICK missed \in Missed(Replaced(pos)) :
       LET os == Cancelled(Replaced(pos) \ missed) IN
       /\ Fail(Cardinality(missed) + FaultIfNot(placed))
       /\ orders' = IF placed THEN [os EXCEPT ![used + 1] = EntryStop(pos.trade)]
                              ELSE os
  BY DEF CheckBreakeven
<1>2. pos \in Position /\ (placed => used < MaxOrders)
  BY DEF CheckBreakeven, TInv
<1>3. EntryStop(pos.trade) \in Placed
  BY <1>2, OrderMade DEF EntryStop, Position, Kinds, Resting
<1>4. used' = IF placed THEN used + 1 ELSE used
  BY DEF CheckBreakeven
<1>5. Orderly
  BY <1>1, <1>2, <1>3, <1>4, Replacing, Cancelling
<1>6. faults' \in 0 .. MaxFaults
  <2>1. Cardinality(missed) + FaultIfNot(placed) \in Nat
    BY <1>2, MissedCount, NamedType DEF FaultIfNot
  <2> QED BY <1>1, <2>1, FailType DEF TInv
<1>7. events' \in Seq(1 .. used')
  BY <1>5, EventsKept DEF CheckBreakeven, TInv
<1>8. pos' \in Position
  <2>1. placed => used + 1 \in Ref
    BY <1>2, Basics DEF Ref
  <2>2. pos' = IF placed THEN [pos EXCEPT !.sl = used + 1, !.be = TRUE] ELSE pos
    BY DEF CheckBreakeven
  <2> QED BY <1>2, <2>1, <2>2 DEF Position
<1> QED BY <1>5, <1>6, <1>7, <1>8 DEF CheckBreakeven, TInv, Orderly, loops, history

LEMMA CheckType ==
  ASSUME ConstantsAssumption, TInv, Check
  PROVE  TInv' /\ Orderly
BY CheckRetriesType, CheckGivesUpType, CheckBreakevenType DEF Check

LEMMA SweepProtectsType ==
  ASSUME ConstantsAssumption, TInv,
         NEW known \in BOOLEAN, NEW stop \in BOOLEAN, NEW tp \in BOOLEAN,
         SweepProtects(known, stop, tp)
  PROVE  TInv' /\ Orderly
<1> DEFINE q     == IF known THEN held ELSE pos.orig
           stops == IF stop THEN <<Opened("STOP", pos.trade, 0)>> ELSE <<>>
           tps   == IF tp THEN <<Opened("TP1", pos.trade, q)>> ELSE <<>>
           n     == used + Len(stops)
           new   == stops \o tps
<1>1. pos \in Position /\ used \in Nat /\ MaxOrders \in Nat /\ held \in Nat
  BY Basics DEF SweepProtects, IsStub, TInv
<1>2. q \in Nat
  BY <1>1 DEF Position
<1>3. /\ n + Len(tps) <= MaxOrders
      /\ orders' = Accepted(new)
      /\ used' = n + Len(tps)
      /\ pos' = [pos EXCEPT !.sl = IF stop THEN n ELSE @, !.tp = IF tp THEN n + 1 ELSE @,
                            !.qty = q, !.orig = q]
      /\ pp' = IF stop /\ tp THEN pp
               ELSE [sl |-> ~stop, tp |-> ~tp, q1 |-> q, q2 |-> 0, retries |-> 0]
  BY DEF SweepProtects
<1> HIDE DEF q
<1>4. Opened("STOP", pos.trade, 0) \in Placed /\ Opened("TP1", pos.trade, q) \in Placed
  BY <1>1, <1>2, OrderMade DEF Position, Kinds, Resting
<1>5. /\ stops \in Seq(Placed) /\ Len(stops) = IF stop THEN 1 ELSE 0
      /\ tps \in Seq(Placed) /\ Len(tps) = IF tp THEN 1 ELSE 0
  BY <1>4, AtMostOne
<1>6. Len(stops) \in Nat /\ Len(tps) \in Nat
  <2> HIDE DEF stops, tps
  <2> QED BY <1>5
<1>7. new \in Seq(Placed) /\ Len(new) = Len(stops) + Len(tps)
  <2> HIDE DEF stops, tps
  <2> QED BY <1>5, ConcatProperties
<1>8. Orderly
  <2> HIDE DEF stops, tps
  <2>1. used' = used + Len(new) /\ used + Len(new) <= MaxOrders
    <3> HIDE DEF new
    <3> QED BY <1>1, <1>3, <1>6, <1>7
  <2> HIDE DEF new
  <2> QED BY <1>3, <1>7, <2>1, Placing
<1>9. pos' \in Position
  <2> HIDE DEF stops, tps
  <2>1. (stop => n \in Ref) /\ (tp => n + 1 \in Ref)
    BY <1>1, <1>3, <1>5, <1>6 DEF Ref
  <2>2. pos' = [pos EXCEPT !.sl = IF stop THEN n ELSE @, !.tp = IF tp THEN n + 1 ELSE @,
                           !.qty = q, !.orig = q]
    BY <1>3
  <2> DEFINE a == IF stop THEN n ELSE pos.sl
             b == IF tp THEN n + 1 ELSE pos.tp
  <2>3. a \in Ref /\ b \in Ref
    BY <1>1, <2>1 DEF Position
  <2>4. pos' = [pos EXCEPT !.sl = a, !.tp = b, !.qty = q, !.orig = q]
    BY <2>2
  <2> HIDE DEF n, a, b
  <2>5. q \in Int
    BY <1>2
  <2> DEFINE r == [pos EXCEPT !.sl = a, !.tp = b]
  <2>6. r \in Position
    <3> HIDE DEF q
    <3> QED BY <1>1, <2>3 DEF Position
  <2>7. pos' = [r EXCEPT !.qty = q, !.orig = q]
    BY <1>1, <2>4 DEF Position
  <2> HIDE DEF r, q
  <2> QED BY <1>2, <2>5, <2>6, <2>7 DEF Position
<1>10. faults' \in 0 .. MaxFaults
  <2> DEFINE k == (IF known THEN 0 ELSE 1) + FaultIfNot(stop) + FaultIfNot(tp)
  <2>1. k \in Nat
    BY DEF FaultIfNot
  <2>2. Fail(k)
    BY DEF SweepProtects
  <2> HIDE DEF k
  <2> QED BY <2>1, <2>2, FailType DEF TInv
<1>11. pp' \in Protection \cup {NoProtection}
  BY <1>2, <1>3 DEF TInv, Protection, ConstantsAssumption
<1>12. events' \in Seq(1 .. used')
  BY <1>8, EventsKept DEF SweepProtects, TInv
<1>13. inserts' \in [Trades -> Nat]
  <2>1. inserts' = [inserts EXCEPT ![pos.trade] = @ + 1]
    BY DEF SweepProtects
  <2>2. pos.trade \in Trades
    BY <1>1 DEF Position
  <2> QED BY <2>1, <2>2, CountedType DEF TInv
<1> QED BY <1>8, <1>9, <1>10, <1>11, <1>12, <1>13 DEF SweepProtects, TInv, Orderly, loops

LEMMA SweepType ==
  ASSUME ConstantsAssumption, TInv, Sweep
  PROVE  TInv' /\ Orderly
<1>1. CASE SweepFinalizes
  <2>1. pos.trade \in Trades
    BY <1>1 DEF SweepFinalizes, TInv
  <2>2. events' \in Seq(1 .. used')
    BY <1>1, <2>1, FinalizedType, EventsKept DEF SweepFinalizes, TInv
  <2> QED BY <1>1, <2>1, <2>2, FinalizedType DEF SweepFinalizes, TInv, Orderly, loops
<1>2. CASE SweepDropsStub
  <2>1. Orderly
    BY <1>2, Orderless DEF SweepDropsStub, exchange
  <2> QED BY <1>2, <2>1 DEF SweepDropsStub, TInv, Orderly, exchange, loops, history
<1>3. ASSUME NEW known \in BOOLEAN, NEW stop \in BOOLEAN, NEW tp \in BOOLEAN,
             SweepProtects(known, stop, tp)
      PROVE  TInv' /\ Orderly
  BY <1>3, SweepProtectsType
<1> QED BY <1>1, <1>2, <1>3 DEF Sweep

-----------------------------------------------------------------------------
(* The loops that take no lock.                                            *)

LEMMA LoopEndsType ==
  ASSUME TInv, NEW l \in UnlockedLoops, LoopEnds(l)
  PROVE  /\ at' \in [UnlockedLoops -> {"idle", "read", "cancel", "write"}]
         /\ snap' \in [UnlockedLoops -> Position \cup {NoPosition}]
         /\ \A k \in UnlockedLoops : at'[k] # "idle" => snap'[k] \in Position
BY DEF LoopEnds, TInv

LEMMA LoopClosesType ==
  ASSUME ConstantsAssumption, TInv, NEW l \in UnlockedLoops, NEW ok \in BOOLEAN, LoopCloses(l, ok)
  PROVE  TInv' /\ Orderly
<1>1. snap[l] \in Position /\ ForcePlaced(snap[l], ok)
  BY DEF LoopCloses, TInv
<1>2. faults' \in 0 .. MaxFaults
  <2>1. ForceFault(snap[l], ok) \in Nat
    BY DEF ForceFault
  <2> QED BY <2>1, FailType DEF LoopCloses, TInv
<1>3. CASE ok
  <2>1. orders' = ForceOrder(snap[l], orders)
    BY <1>3 DEF LoopCloses
  <2>2. Orderly
    <3>1. Numbered(orders, used) /\ used \in Nat
      BY Basics DEF TInv
    <3> QED BY <1>1, <1>3, <2>1, <3>1, ForcePlacedType, NumberedAdded DEF ForceOrder, Orderly
  <2>3. /\ at' \in [UnlockedLoops -> {"idle", "read", "cancel", "write"}]
        /\ snap' = snap /\ \A k \in UnlockedLoops : at'[k] # "idle" => snap'[k] \in Position
    <3>1. at' = [at EXCEPT ![l] = "cancel"] /\ snap' = snap
      BY <1>3 DEF LoopCloses
    <3>2. at' \in [UnlockedLoops -> {"idle", "read", "cancel", "write"}]
      BY <3>1 DEF TInv
    <3>3. \A k \in UnlockedLoops : at'[k] = IF k = l THEN "cancel" ELSE at[k]
      BY <3>1 DEF TInv
    <3> QED BY <1>1, <3>1, <3>2, <3>3 DEF TInv
  <2> QED BY <1>1, <1>2, <1>3, <2>2, <2>3, ForcePlacedType DEF LoopCloses, TInv, Orderly, cache, history
<1>4. CASE ~ok
  <2>1. orders' = orders /\ LoopEnds(l)
    BY <1>4 DEF LoopCloses
  <2>2. Orderly
    BY <1>1, <1>4, <2>1, ForcePlacedType, Orderless
  <2>3. /\ at' \in [UnlockedLoops -> {"idle", "read", "cancel", "write"}]
        /\ snap' \in [UnlockedLoops -> Position \cup {NoPosition}]
        /\ \A k \in UnlockedLoops : at'[k] # "idle" => snap'[k] \in Position
    BY <2>1, LoopEndsType
  <2>4. fclose' \in Ref /\ UNCHANGED <<used, held, events>>
    BY <1>1, <1>4, ForcePlacedType
  <2> QED BY <1>2, <2>2, <2>3, <2>4 DEF LoopCloses, TInv, Orderly, cache, history
<1> QED BY <1>3, <1>4

LEMMA LoopWidensType ==
  ASSUME ConstantsAssumption, TInv, "preSettlement" \in UnlockedLoops,
         NEW c2 \in BOOLEAN, NEW p2 \in BOOLEAN, NEW c1 \in BOOLEAN, NEW p1 \in BOOLEAN,
         LoopWidens(c2, p2, c1, p1)
  PROVE  TInv' /\ Orderly
<1> DEFINE s    == snap["preSettlement"]
           adj  == c2 /\ ~DeepFunding
           tp1q == IF DeepFunding THEN s.orig ELSE s.orig \div 2
           tp2s == IF p2 THEN <<Opened("TP2", s.trade, Tp2Qty)>> ELSE <<>>
           tp1s == IF p1 THEN <<Opened("TP1", s.trade, tp1q)>> ELSE <<>>
           n    == used + Len(tp2s \o tp1s)
           gone == {i \in {s.tp2, s.tp} : (i = s.tp2 /\ c2) \/ (i = s.tp /\ c1)}
           new  == tp2s \o tp1s
<1>1. s \in Position /\ used \in Nat /\ MaxOrders \in Nat
  BY Basics DEF LoopWidens, TInv
<1>2. tp1q \in Nat
  BY <1>1 DEF Position
<1>3. /\ n <= MaxOrders /\ used' = n
      /\ orders' = [i \in OrderIds |-> IF i > used THEN Accepted(new)[i] ELSE Cancelled(gone)[i]]
  BY DEF LoopWidens
<1> HIDE DEF tp1q
<1>4. Opened("TP2", s.trade, Tp2Qty) \in Placed /\ Opened("TP1", s.trade, tp1q) \in Placed
  BY <1>1, <1>2, OrderMade DEF Position, Kinds, Tp2Qty, Resting
<1>5. /\ tp2s \in Seq(Placed) /\ Len(tp2s) = IF p2 THEN 1 ELSE 0
      /\ tp1s \in Seq(Placed) /\ Len(tp1s) = IF p1 THEN 1 ELSE 0
  BY <1>4, AtMostOne
<1>6. new \in Seq(Placed) /\ Len(new) = Len(tp2s) + Len(tp1s)
  <2> HIDE DEF tp2s, tp1s
  <2> QED BY <1>5, ConcatProperties
<1>7. Len(new) \in Nat /\ (p1 => Len(new) >= 1)
  <2> HIDE DEF tp2s, tp1s, new
  <2> QED BY <1>5, <1>6
<1>8. n \in Ref /\ (p1 => used + 1 \in Ref)
  <2> HIDE DEF tp2s, tp1s
  <2>1. n = used + Len(new)
    OBVIOUS
  <2> HIDE DEF new, n
  <2> QED BY <1>1, <1>3, <1>7, <2>1 DEF Ref
<1>9. Orderly
  <2> HIDE DEF tp2s, tp1s
  <2>1. n = used + Len(new)
    OBVIOUS
  <2> HIDE DEF new, n, gone
  <2>2. /\ Numbered(Accepted(new), n) /\ Same(orders, used, Accepted(new), n)
        /\ Numbered(Cancelled(gone), used) /\ Same(orders, used, Cancelled(gone), used)
    BY <1>1, <1>3, <1>6, <2>1, NumberedAccepted, NumberedCancelled DEF TInv
  <2>3. \A i \in OrderIds : orders'[i] = IF i > used THEN Accepted(new)[i] ELSE Cancelled(gone)[i]
    BY <1>3
  <2>4. orders' \in Orders
    BY <1>3, <2>2 DEF Numbered, Orders
  <2>5. \A i \in 1 .. n : orders'[i] \in Placed
    BY <1>1, <1>3, <2>2, <2>3 DEF Numbered, OrderIds
  <2>6. \A i \in n + 1 .. MaxOrders : orders'[i] = NoOrder
    BY <1>1, <1>3, <1>8, <2>1, <1>7, <2>2, <2>3 DEF Numbered, OrderIds, Ref
  <2>7. \A i \in 1 .. used : orders'[i].kind = orders[i].kind /\ orders'[i].trade = orders[i].trade
    BY <1>1, <1>3, <1>7, <2>1, <2>2, <2>3 DEF Same, OrderIds
  <2>8. used' = n /\ used <= n
    BY <1>1, <1>3, <1>7, <2>1
  <2> QED BY <1>8, <2>4, <2>5, <2>6, <2>7, <2>8 DEF Orderly, Numbered, Same
<1>10. faults' \in 0 .. MaxFaults
  <2> DEFINE k == (IF IsOpen(s.tp2) /\ ~c2 THEN 1 ELSE 0) + (IF adj THEN FaultIfNot(p2) ELSE 0)
                  + (IF IsOpen(s.tp) /\ ~c1 THEN 1 ELSE 0) + (IF c1 THEN FaultIfNot(p1) ELSE 0)
  <2>1. k \in Nat
    BY DEF FaultIfNot
  <2>2. Fail(k)
    BY DEF LoopWidens
  <2> HIDE DEF k
  <2> QED BY <2>1, <2>2, FailType DEF TInv
<1>11. events' \in Seq(1 .. used')
  BY <1>9, EventsKept DEF LoopWidens, TInv
<1>12. /\ at' \in [UnlockedLoops -> {"idle", "read", "cancel", "write"}]
       /\ snap' \in [UnlockedLoops -> Position \cup {NoPosition}]
       /\ \A k \in UnlockedLoops : at'[k] # "idle" => snap'[k] \in Position
  <2>1. CASE p1
    <3> DEFINE w == [s EXCEPT !.tp2 = IF p2 THEN used + 1 ELSE IF c2 THEN 0 ELSE @,
                              !.tp = n, !.wide = TRUE]
    <3>1. /\ snap' = [snap EXCEPT !["preSettlement"] = w]
          /\ at' = [at EXCEPT !["preSettlement"] = "write"]
      BY <2>1 DEF LoopWidens
    <3>2. w \in Position
      <4>1. 0 \in Ref
        BY <1>1 DEF Ref
      <4> HIDE DEF n
      <4> QED BY <1>1, <1>8, <2>1, <4>1 DEF Position
    <3> HIDE DEF w, s
    <3> QED BY <3>1, <3>2 DEF TInv
  <2>2. CASE ~p1
    BY <2>2, LoopEndsType DEF LoopWidens
  <2> QED BY <2>1, <2>2
<1> QED BY <1>9, <1>10, <1>11, <1>12 DEF LoopWidens, TInv, Orderly, cache, history

LEMMA UnlockedType ==
  ASSUME ConstantsAssumption, TInv, Unlocked
  PROVE  TInv' /\ Orderly
<1> USE DEF exchange, cache, history
<1>1. ASSUME NEW l \in UnlockedLoops, LoopReads(l)
      PROVE  TInv' /\ Orderly
  <2>1. Orderly
    BY <1>1, Orderless DEF LoopReads
  <2>2. /\ at' \in [UnlockedLoops -> {"idle", "read", "cancel", "write"}]
        /\ snap' \in [UnlockedLoops -> Position \cup {NoPosition}]
        /\ \A k \in UnlockedLoops : at'[k] # "idle" => snap'[k] \in Position
    BY <1>1 DEF LoopReads, TInv
  <2> QED BY <1>1, <2>1, <2>2 DEF LoopReads, TInv, Orderly
<1>2. ASSUME NEW l \in UnlockedLoops, LoopIdles(l)
      PROVE  TInv' /\ Orderly
  <2>1. Orderly
    BY <1>2, Orderless DEF LoopIdles
  <2> QED BY <1>2, <2>1, LoopEndsType DEF LoopIdles, TInv, Orderly
<1>3. ASSUME NEW l \in UnlockedLoops, LoopCancels(l)
      PROVE  TInv' /\ Orderly
  <2>1. snap[l] \in Position
    BY <1>3 DEF LoopCancels, TInv
  <2>2. PICK missed \in Missed(Named(snap[l])) :
          orders' = Cancelled(Named(snap[l]) \ missed) /\ Fail(Cardinality(missed))
    BY <1>3 DEF LoopCancels
  <2>3. Orderly
    BY <1>3, <2>2, Cancelling DEF LoopCancels
  <2>4. faults' \in 0 .. MaxFaults
    BY <2>1, <2>2, MissedCount, NamedType, FailType DEF TInv
  <2> QED BY <1>3, <2>3, <2>4, LoopEndsType DEF LoopCancels, TInv, Orderly
<1>4. ASSUME NEW l \in UnlockedLoops, NEW ok \in BOOLEAN, LoopCloses(l, ok)
      PROVE  TInv' /\ Orderly
  BY <1>4, LoopClosesType
<1>5. ASSUME "preSettlement" \in UnlockedLoops,
             NEW c2 \in BOOLEAN, NEW p2 \in BOOLEAN, NEW c1 \in BOOLEAN, NEW p1 \in BOOLEAN,
             LoopWidens(c2, p2, c1, p1)
      PROVE  TInv' /\ Orderly
  BY <1>5, LoopWidensType
<1>6. ASSUME "preSettlement" \in UnlockedLoops, NEW p \in Position, LoopWrites(p)
      PROVE  TInv' /\ Orderly
  <2>1. Orderly
    BY <1>6, Orderless DEF LoopWrites
  <2> QED BY <1>6, <2>1, LoopEndsType DEF LoopWrites, TInv, Orderly
<1>7. CASE "preSettlement" \in UnlockedLoops /\ WidenedWritten
  BY <1>6, <1>7 DEF WidenedWritten, TInv
<1>8. CASE "preSettlement" \in UnlockedLoops /\ WidenedOverwritten
  <2>1. Orderly
    BY <1>8, Orderless DEF WidenedOverwritten
  <2> QED BY <1>8, <2>1, LoopEndsType DEF WidenedOverwritten, TInv, Orderly
<1>9. CASE "preSettlement" \in UnlockedLoops /\ SettlementWritten
  <2>1. [snap["preSettlement"] EXCEPT !.fee = TRUE] \in Position
    <3>1. snap["preSettlement"] \in Position
      BY <1>9 DEF SettlementWritten, TInv
    <3> QED BY <3>1 DEF Position
  <2> QED BY <1>6, <1>9, <2>1 DEF SettlementWritten
<1> QED BY <1>1, <1>2, <1>3, <1>4, <1>5, <1>7, <1>8, <1>9 DEF Unlocked

LEMMA ExchangeType ==
  ASSUME ConstantsAssumption, TInv, Exchange
  PROVE  TInv' /\ Orderly
BY ExecutesType, ExpiresType, ClosedByHandType, EventLostType DEF Exchange

\* Every step keeps the types, and the orders' kinds and trades.
LEMMA NextType ==
  ASSUME ConstantsAssumption, TInv, [Next]_vars
  PROVE  TInv' /\ Orderly
<1>1. CASE Next
  BY <1>1, ExchangeType, EngineType, UserDataType, CheckType, SweepType, UnlockedType DEF Next
<1>2. CASE UNCHANGED vars
  <2>1. Orderly
    BY <1>2, Orderless DEF vars, exchange
  <2> QED BY <1>2, <2>1 DEF vars, exchange, cache, loops, history, TInv, Orderly
<1> QED BY <1>1, <1>2

LEMMA Typing == Spec => []TInv
<1>1. Init => TInv
  BY InitTInv, ConstantsAssumption
<1>2. TInv /\ [Next]_vars => TInv'
  BY NextType, ConstantsAssumption
<1> QED BY <1>1, <1>2, PTL DEF Spec

\* Every variable keeps its type, whichever loops run without the lock,
\* whatever fails and however late answers and events come.
THEOREM TypeCorrect == Spec => []TypeOK
<1>1. TInv => TypeOK
  BY TInvTypes, ConstantsAssumption
<1> QED BY <1>1, Typing, PTL

-----------------------------------------------------------------------------
(* A trade's result is persisted at most once.                             *)

\* What waits to be delivered is of the trade under way, its entry first, and
\* while the engine waits for the entry's answer there is nothing else.
EventsInOrder ==
  /\ \A n \in DOMAIN events : orders[events[n]].kind = "ENTRY" =>
       n = 1 /\ orders[events[n]].trade = trade
  /\ eng # 0 => \A n \in DOMAIN events : orders[events[n]].kind = "ENTRY"

NoEntryEvent == \A n \in DOMAIN events : orders[events[n]].kind # "ENTRY"

\* Whoever acts, acts for the last trade entered.
OneTrade ==
  /\ eng \in {0, trade} /\ ws \in {0, trade}
  /\ pos # NoPosition => pos.trade = trade
  /\ EventsInOrder

\* Nothing is left of the trade that could bring its position back.
Over == pos = NoPosition /\ eng = 0 /\ ws = 0 /\ NoEntryEvent

Recorded ==
  \A t \in Trades : /\ closes[t] <= 1
                    /\ closes[t] = 1 => t <= trade /\ (t = trade => Over)

\* The hypotheses: no answer outlasts the waits the code has for it, and the
\* loop that writes back what it read without the lock leaves the symbol alone.
Timely == Prompt /\ "preSettlement" \notin UnlockedLoops

\* What a step does to the stream of fills: nothing, the first one is taken
\* off, or one that is not an entry's is added.
EventStep ==
  \/ events' = events
  \/ events # <<>> /\ events' = Tail(events)
  \/ eng = 0 /\ \E i \in 1 .. used' : orders'[i].kind # "ENTRY" /\ events' = Append(events, i)

LEMMA KindsKept ==
  ASSUME ConstantsAssumption, TInv, Orderly
  PROVE  \A n \in DOMAIN events : /\ orders'[events[n]].kind = orders[events[n]].kind
                                  /\ orders'[events[n]].trade = orders[events[n]].trade
BY Basics DEF Orderly, Same

LEMMA EventsFollow ==
  ASSUME ConstantsAssumption, TInv, Orderly, EventsInOrder, EventStep,
         trade' = trade, eng' \in {0, eng}
  PROVE  EventsInOrder' /\ (NoEntryEvent => NoEntryEvent')
<1>1. events \in Seq(1 .. used) /\ Len(events) \in Nat /\ DOMAIN events = 1 .. Len(events)
  BY LenProperties DEF TInv
<1>2. CASE events' = events
  BY <1>2, KindsKept DEF EventsInOrder, NoEntryEvent
<1>3. CASE events # <<>> /\ events' = Tail(events)
  <2>1. /\ DOMAIN events' = 1 .. Len(events) - 1
        /\ \A n \in DOMAIN events' : events'[n] = events[n + 1] /\ n + 1 \in DOMAIN events
    BY <1>1, <1>3, HeadTailProperties, LenProperties
  <2>2. \A n \in DOMAIN events' : orders'[events'[n]].kind # "ENTRY"
    BY <1>1, <2>1, KindsKept DEF EventsInOrder
  <2>3. eng # 0 => DOMAIN events' = {}
    BY <1>1, <2>1 DEF EventsInOrder
  <2> QED BY <2>2, <2>3 DEF EventsInOrder, NoEntryEvent
<1>4. CASE eng = 0 /\ \E i \in 1 .. used' : orders'[i].kind # "ENTRY" /\ events' = Append(events, i)
  <2>1. PICK i \in 1 .. used' : orders'[i].kind # "ENTRY" /\ events' = Append(events, i)
    BY <1>4
  <2>2. /\ DOMAIN events' = 1 .. Len(events) + 1
        /\ events'[Len(events) + 1] = i
        /\ \A n \in DOMAIN events : events'[n] = events[n]
    BY <1>1, <2>1, AppendProperties, LenProperties
  <2>3. \A n \in DOMAIN events' : n \in DOMAIN events \/ n = Len(events) + 1
    BY <1>1, <2>2
  <2>4. \A n \in DOMAIN events : /\ orders'[events'[n]].kind = orders[events[n]].kind
                                 /\ orders'[events'[n]].trade = orders[events[n]].trade
    BY <2>2, KindsKept
  <2>5. orders'[events'[Len(events) + 1]].kind # "ENTRY"
    BY <2>1, <2>2
  <2>6. eng' = 0
    BY <1>4
  <2>7. NoEntryEvent => NoEntryEvent'
    BY <2>3, <2>4, <2>5 DEF NoEntryEvent
  <2>8. EventsInOrder'
    BY <2>3, <2>4, <2>5, <2>6 DEF EventsInOrder
  <2> QED BY <2>7, <2>8
<1> QED BY <1>2, <1>3, <1>4 DEF EventStep

\* A step in which no result is persisted and no position begins.
LEMMA Unclosed ==
  ASSUME ConstantsAssumption, TInv, Orderly, OneTrade, Recorded, EventStep,
         trade' = trade, eng' \in {0, eng}, ws' \in {0, ws}, closes' = closes,
         pos' \in {pos, NoPosition} \/ (pos # NoPosition /\ pos'.trade = pos.trade)
  PROVE  OneTrade' /\ Recorded'
<1>1. EventsInOrder' /\ (NoEntryEvent => NoEntryEvent')
  BY EventsFollow DEF OneTrade
<1>2. OneTrade'
  BY <1>1 DEF OneTrade
<1>3. Over => Over'
  BY <1>1 DEF Over
<1> QED BY <1>2, <1>3 DEF Recorded

\* A step of a trade that is not over.
LEMMA Ongoing ==
  ASSUME ConstantsAssumption, TInv, Orderly, OneTrade, Recorded, ~Over, EventStep,
         trade' = trade, eng' \in {0, eng}, ws' \in {0, trade}, closes' = closes,
         pos' = NoPosition \/ pos'.trade = trade
  PROVE  OneTrade' /\ Recorded'
<1>1. EventsInOrder'
  BY EventsFollow DEF OneTrade
<1>2. OneTrade'
  BY <1>1 DEF OneTrade
<1> QED BY <1>2 DEF Recorded

\* What a reducing fill says of the stream.
LEMMA FillFirst ==
  ASSUME TInv, Fill
  PROVE  /\ events # <<>> /\ 1 \in DOMAIN events /\ orders[events[1]].kind # "ENTRY"
         /\ events' = Tail(events) /\ ws = 0
BY HeadTailProperties, LenProperties DEF TInv, Fill, Handling, Event

\* A step that ends the trade: the fill it handles leaves no entry behind.
LEMMA ClosedNow ==
  ASSUME ConstantsAssumption, TInv, Orderly, OneTrade, Recorded,
         Fill, pos # NoPosition, NEW r, Persisted(pos, r), UNCHANGED <<trade, eng, ws>>
  PROVE  OneTrade' /\ Recorded'
<1>1. pos \in Position /\ pos.trade = trade /\ trade \in Trades /\ ws = 0
  BY FillFirst DEF TInv, OneTrade, Position
<1>2. events # <<>> /\ orders[events[1]].kind # "ENTRY" /\ 1 \in DOMAIN events /\ events' = Tail(events)
  BY FillFirst
<1>3. NoEntryEvent /\ eng = 0
  BY <1>2 DEF NoEntryEvent, OneTrade, EventsInOrder
<1>4. EventStep
  BY <1>2 DEF EventStep
<1>5. EventsInOrder' /\ NoEntryEvent'
  BY <1>3, <1>4, EventsFollow DEF OneTrade
<1>6. pos' = NoPosition /\ closes' = [closes EXCEPT ![trade] = @ + 1]
  BY <1>1 DEF Persisted, Removed
<1>7. OneTrade' /\ Over'
  BY <1>1, <1>3, <1>5, <1>6 DEF OneTrade, Over
<1>8. closes[trade] = 0
  BY <1>1 DEF Recorded, Over, TInv
<1>9. \A t \in Trades : closes'[t] = IF t = trade THEN 1 ELSE closes[t]
  BY <1>1, <1>6, <1>8 DEF TInv
<1>10. trade \in Nat
  BY DEF TInv
<1> QED BY <1>7, <1>9, <1>10 DEF Recorded

LEMMA AcceptedOne ==
  ASSUME ConstantsAssumption, TInv, used < MaxOrders, NEW o
  PROVE  Accepted(<<o>>)[used + 1] = o
BY Basics DEF Accepted, OrderIds

LEMMA EnterOnce ==
  ASSUME ConstantsAssumption, Timely, TInv, Orderly, OneTrade, Recorded, Enter
  PROVE  OneTrade' /\ Recorded'
<1>1. events = <<>> /\ ws = 0
  BY DEF Timely, Enter, Cooled, Delivered
<1>2. used \in Nat /\ trade \in Nat
  BY Basics DEF TInv
<1>3. orders'[used + 1] = Filled("ENTRY", trade + 1, EntryQty)
  BY AcceptedOne DEF Enter
<1>4. events' = <<used + 1>>
  BY <1>1 DEF Enter
<1>5. EventsInOrder'
  <2>1. DOMAIN events' = {1} /\ events'[1] = used + 1
    BY <1>4
  <2> QED BY <1>3, <2>1 DEF EventsInOrder, Filled, Enter
<1>6. OneTrade'
  BY <1>1, <1>5 DEF OneTrade, Enter
<1>7. trade' = trade + 1 /\ closes' = closes
  BY DEF Enter, history
<1>8. \A t \in Trades : closes[t] = 1 => t <= trade /\ t # trade + 1
  BY <1>2 DEF Recorded, Trades
<1>9. Recorded'
  BY <1>2, <1>7, <1>8 DEF Recorded, Trades
<1> QED BY <1>6, <1>9

LEMMA EngineOnce ==
  ASSUME ConstantsAssumption, Timely, TInv, Orderly, OneTrade, Recorded, Engine
  PROVE  OneTrade' /\ Recorded'
<1>1. CASE Enter
  BY <1>1, EnterOnce
<1>2. CASE EnterReturns
  <2>1. eng = trade /\ ~Over
    BY <1>2 DEF OneTrade, EnterReturns, Over
  <2>2. pos' = NoPosition \/ pos'.trade = trade
    BY <1>2, <2>1 DEF OneTrade, EnterReturns, Stub
  <2>3. EventStep /\ closes' = closes /\ trade' = trade /\ eng' = 0 /\ ws' = ws
    BY <1>2 DEF EventStep, EnterReturns, exchange, history
  <2>4. ws' \in {0, trade}
    BY <2>3 DEF OneTrade
  <2> QED BY <2>1, <2>2, <2>3, <2>4, Ongoing
<1>3. CASE EnterErrs
  BY <1>3, Unclosed DEF EventStep, EnterErrs, exchange, history
<1>4. CASE \E t \in Trades : PendingExpires(t)
  BY <1>4, Unclosed DEF EventStep, PendingExpires, exchange, history
<1> QED BY <1>1, <1>2, <1>3, <1>4 DEF Engine

LEMMA ExchangeOnce ==
  ASSUME ConstantsAssumption, Timely, TInv, Orderly, OneTrade, Recorded, Exchange
  PROVE  OneTrade' /\ Recorded'
<1>1. ASSUME NEW i \in OrderIds, Executes(i)
      PROVE  OneTrade' /\ Recorded'
  <2>1. i \in 1 .. used /\ orders[i].kind # "ENTRY"
    BY <1>1, Basics DEF Executes, IsOpen, Placed, Resting
  <2>2. i \in 1 .. used' /\ orders'[i].kind # "ENTRY"
    BY <1>1, <2>1 DEF Executes, Orderly, Same
  <2>3. EventStep
    BY <1>1, <2>2 DEF EventStep, Executes, Timely
  <2> QED BY <1>1, <2>3, Unclosed DEF Executes, cache, history
<1>2. ASSUME NEW i \in OrderIds, Expires(i)
      PROVE  OneTrade' /\ Recorded'
  BY <1>2, Unclosed DEF EventStep, Expires, cache, history
<1>3. CASE ClosedByHand
  <2>1. used \in Nat /\ orders'[used + 1] = Filled("MANUAL", trade, held) /\ used' = used + 1
    BY <1>3, AcceptedOne, Basics DEF ClosedByHand
  <2>2. orders'[used + 1].kind # "ENTRY" /\ used + 1 \in 1 .. used'
    BY <2>1 DEF Filled
  <2>3. EventStep
    BY <1>3, <2>2 DEF EventStep, ClosedByHand, Timely
  <2> QED BY <1>3, <2>3, Unclosed DEF ClosedByHand, cache, history
<1>4. CASE EventLost
  BY <1>4, Unclosed DEF EventStep, EventLost, cache, history
<1> QED BY <1>1, <1>2, <1>3, <1>4 DEF Exchange

LEMMA FinalizedOnce ==
  ASSUME ConstantsAssumption, TInv, Orderly, OneTrade, Recorded, ~Over,
         Finalized(trade), ws' \in {0, ws},
         EventStep, UNCHANGED <<trade, eng>>
  PROVE  OneTrade' /\ Recorded'
<1>1. pos' = pos \/ pos'.trade = trade
  BY DEF Finalized, StopRefused, TakeProfitRefused, Activated, Stub
<1>2. closes' = closes
  BY DEF Finalized
<1> QED BY <1>1, <1>2, Ongoing DEF OneTrade

LEMMA UserDataOnce ==
  ASSUME ConstantsAssumption, Timely, TInv, Orderly, OneTrade, Recorded, UserData
  PROVE  OneTrade' /\ Recorded'
<1>1. CASE WsReadsPending
  <2>1. events # <<>> /\ orders[events[1]].kind = "ENTRY" /\ 1 \in DOMAIN events /\ events' = Tail(events)
    BY <1>1, HeadTailProperties, LenProperties DEF TInv, WsReadsPending, Handling, Event
  <2>2. orders[Event].trade = trade /\ ~Over
    BY <2>1 DEF OneTrade, EventsInOrder, Over, NoEntryEvent, Event
  <2>3. EventStep
    BY <2>1 DEF EventStep
  <2>4. pos' = NoPosition \/ pos'.trade = trade
    BY <1>1 DEF OneTrade, WsReadsPending, cache
  <2> QED BY <1>1, <2>2, <2>3, <2>4, Ongoing DEF WsReadsPending, history
<1>2. CASE WsFinalizes
  <2>1. ws = trade /\ ws # 0 /\ ~Over /\ Finalized(trade)
    BY <1>2 DEF WsFinalizes, OneTrade, Over
  <2>2. EventStep /\ ws' = 0 /\ UNCHANGED <<trade, eng>>
    BY <1>2 DEF WsFinalizes, Finalized, EventStep
  <2> QED BY <2>1, <2>2, FinalizedOnce
<1>3. ASSUME NEW stopped \in BOOLEAN, WsTp1(stopped)
      PROVE  OneTrade' /\ Recorded'
  <2>1. pos # NoPosition /\ pos'.trade = pos.trade
    BY <1>3 DEF WsTp1, TInv, Position
  <2>2. EventStep
    BY <1>3 DEF EventStep, WsTp1, Fill, Handling
  <2> QED BY <1>3, <2>1, <2>2, Unclosed DEF WsTp1, history
<1>4. ASSUME NEW ids, NEW r, Fill, pos # NoPosition, Closes(ids, r)
      PROVE  OneTrade' /\ Recorded'
  BY <1>4, ClosedNow DEF Closes
<1>5. CASE WsTp1Closes \/ WsTp2 \/ WsTrailingSl \/ WsHardSl \/ WsForceClosed \/ WsUntracked
  BY <1>4, <1>5 DEF WsTp1Closes, WsTp2, WsTrailingSl, WsHardSl, WsForceClosed, WsUntracked
<1>6. CASE WsIgnored
  BY <1>6, Unclosed DEF EventStep, WsIgnored, Fill, Handling, cache, history
<1> QED BY <1>1, <1>2, <1>3, <1>5, <1>6 DEF UserData

\* A market order of forceClose.
LEMMA ForcePlacedOnce ==
  ASSUME ConstantsAssumption, Timely, TInv, Orderly, NEW p, NEW ok \in BOOLEAN, ForcePlaced(p, ok),
         NEW os, os \in [OrderIds -> Placed \cup {NoOrder}],
         ok => orders' = ForceOrder(p, os)
  PROVE  EventStep
<1>1. CASE ok
  <2>1. used \in Nat /\ used + 1 \in OrderIds /\ used' = used + 1
    BY <1>1, Basics DEF ForcePlaced, OrderIds
  <2>2. orders'[used + 1].kind = "FORCE"
    BY <1>1, <2>1 DEF ForceOrder, Filled
  <2>3. eng = 0 /\ events' = Append(events, used + 1)
    BY <1>1 DEF ForcePlaced, Timely
  <2> QED BY <2>1, <2>2, <2>3 DEF EventStep
<1>2. CASE ~ok
  BY <1>2 DEF ForcePlaced, EventStep
<1> QED BY <1>1, <1>2

LEMMA CheckOnce ==
  ASSUME ConstantsAssumption, Timely, TInv, Orderly, OneTrade, Recorded, Check
  PROVE  OneTrade' /\ Recorded'
<1>1. ASSUME NEW stop \in BOOLEAN, NEW tp \in BOOLEAN, NEW tp2 \in BOOLEAN,
             CheckRetries(stop, tp, tp2)
      PROVE  OneTrade' /\ Recorded'
  <2>1. pos # NoPosition /\ pos'.trade = pos.trade
    BY <1>1 DEF CheckRetries, TInv, Position
  <2>2. EventStep
    BY <1>1 DEF EventStep, CheckRetries
  <2> QED BY <1>1, <2>1, <2>2, Unclosed DEF CheckRetries, history
<1>2. ASSUME NEW ok \in BOOLEAN, CheckGivesUp(ok)
      PROVE  OneTrade' /\ Recorded'
  <2>1. PICK missed : ok => orders' = ForceOrder(pos, Cancelled(Named(pos) \ missed))
    BY <1>2 DEF CheckGivesUp
  <2>2. Cancelled(Named(pos) \ missed) \in [OrderIds -> Placed \cup {NoOrder}]
    BY NumberedCancelled DEF TInv, Numbered, Orders
  <2>3. EventStep
    BY <1>2, <2>1, <2>2, ForcePlacedOnce DEF CheckGivesUp
  <2> QED BY <1>2, <2>3, Unclosed DEF CheckGivesUp, history
<1>3. ASSUME NEW placed \in BOOLEAN, CheckBreakeven(placed)
      PROVE  OneTrade' /\ Recorded'
  <2>1. pos # NoPosition /\ pos'.trade = pos.trade
    BY <1>3 DEF CheckBreakeven, TInv, Position
  <2>2. EventStep
    BY <1>3 DEF EventStep, CheckBreakeven
  <2> QED BY <1>3, <2>1, <2>2, Unclosed DEF CheckBreakeven, history
<1> QED BY <1>1, <1>2, <1>3 DEF Check

LEMMA SweepOnce ==
  ASSUME ConstantsAssumption, Timely, TInv, Orderly, OneTrade, Recorded, Sweep
  PROVE  OneTrade' /\ Recorded'
<1>1. CASE SweepFinalizes
  <2>1. pos # NoPosition /\ pos.trade = trade /\ ~Over /\ Finalized(trade)
    BY <1>1 DEF SweepFinalizes, IsStub, OneTrade, Over
  <2>2. EventStep /\ ws' = ws /\ UNCHANGED <<trade, eng>>
    BY <1>1 DEF SweepFinalizes, Finalized, EventStep
  <2> QED BY <2>1, <2>2, FinalizedOnce
<1>2. CASE SweepDropsStub
  BY <1>2, Unclosed DEF SweepDropsStub, EventStep, exchange, history
<1>3. ASSUME NEW known \in BOOLEAN, NEW stop \in BOOLEAN, NEW tp \in BOOLEAN,
             SweepProtects(known, stop, tp)
      PROVE  OneTrade' /\ Recorded'
  <2>1. pos # NoPosition /\ pos'.trade = pos.trade
    BY <1>3 DEF SweepProtects, IsStub, TInv, Position
  <2>2. EventStep
    BY <1>3 DEF EventStep, SweepProtects
  <2> QED BY <1>3, <2>1, <2>2, Unclosed DEF SweepProtects
<1> QED BY <1>1, <1>2, <1>3 DEF Sweep

LEMMA UnlockedOnce ==
  ASSUME ConstantsAssumption, Timely, TInv, Orderly, OneTrade, Recorded, Unlocked
  PROVE  OneTrade' /\ Recorded'
<1>1. ASSUME NEW l \in UnlockedLoops, LoopReads(l) \/ LoopIdles(l)
      PROVE  OneTrade' /\ Recorded'
  BY <1>1, Unclosed DEF LoopReads, LoopIdles, EventStep, exchange, cache, history
<1>2. ASSUME NEW l \in UnlockedLoops, LoopCancels(l)
      PROVE  OneTrade' /\ Recorded'
  BY <1>2, Unclosed DEF LoopCancels, EventStep, cache, history
<1>3. ASSUME NEW l \in UnlockedLoops, NEW ok \in BOOLEAN, LoopCloses(l, ok)
      PROVE  OneTrade' /\ Recorded'
  <2>1. EventStep
    BY <1>3, ForcePlacedOnce DEF LoopCloses, TInv, Numbered, Orders
  <2> QED BY <1>3, <2>1, Unclosed DEF LoopCloses, cache, history
<1> QED BY <1>1, <1>2, <1>3 DEF Unlocked, Timely

LEMMA NextOnce ==
  ASSUME ConstantsAssumption, Timely, TInv, OneTrade, Recorded, [Next]_vars
  PROVE  OneTrade' /\ Recorded'
<1>1. Orderly
  BY NextType
<1>2. CASE Next
  BY <1>1, <1>2, ExchangeOnce, EngineOnce, UserDataOnce, CheckOnce, SweepOnce, UnlockedOnce DEF Next
<1>3. CASE UNCHANGED vars
  BY <1>1, <1>3, Unclosed DEF vars, exchange, cache, history, EventStep
<1> QED BY <1>2, <1>3

LEMMA InitOnce == ASSUME ConstantsAssumption, Init PROVE OneTrade /\ Recorded
BY DEF Init, OneTrade, EventsInOrder, Recorded

LEMMA OnceInvariant ==
  ASSUME Timely
  PROVE  Spec => [](TInv /\ OneTrade /\ Recorded)
<1>1. Init => TInv /\ OneTrade /\ Recorded
  BY InitTInv, InitOnce, ConstantsAssumption
<1>2. (TInv /\ OneTrade /\ Recorded) /\ [Next]_vars => (TInv /\ OneTrade /\ Recorded)'
  BY NextType, NextOnce, ConstantsAssumption
<1> QED BY <1>1, <1>2, PTL DEF Spec

\* A trade's result is persisted at most once, by whichever of the six
\* handlers, whatever calls fail, events are lost and closes are done by hand,
\* as long as no answer outlasts its wait and the loop that writes back a
\* stale copy (checkPreSettlement) leaves the symbol alone.
THEOREM ClosesOnce ==
  ASSUME Prompt, "preSettlement" \notin UnlockedLoops
  PROVE  Spec => []ClosedOnce
<1>1. Recorded => ClosedOnce
  BY DEF Recorded, ClosedOnce
<1>2. Timely
  BY DEF Timely
<1> QED BY <1>1, <1>2, OnceInvariant, PTL

-----------------------------------------------------------------------------
(* The retries of a missing stop.                                          *)

Stopless == pos # NoPosition /\ pos.sl = 0 /\ ~pos.tp1

\* What the emergency close closes is all there is, and every attempt at the
\* stop that has not succeeded while the account held a position has failed.
Retried ==
  /\ held <= EntryQty
  /\ pos # NoPosition /\ ~pos.tp1 => pos.qty >= held /\ pos.orig >= held
  /\ held > 0 =>
       /\ pp # NoProtection /\ pp.sl => faults > pp.retries
       /\ pp # NoProtection /\ (Stopless \/ (eng # 0 /\ pos = NoPosition)) => pp.sl
       /\ pp = NoProtection /\ Stopless => IsStub(pos) \/ faults > MaxRetries + 1

LEMMA ProtectionReal ==
  ASSUME ConstantsAssumption, NEW p \in Protection
  PROVE  p # NoProtection /\ p.retries \in Nat /\ p.retries <= MaxRetries
BY DEF Protection, NoProtection, ConstantsAssumption

LEMMA Counters ==
  ASSUME ConstantsAssumption, TInv
  PROVE  /\ held \in Nat /\ faults \in Nat /\ used \in Nat /\ MaxRetries \in Nat
         /\ pos # NoPosition => pos \in Position /\ pos.qty \in Int /\ pos.orig \in Nat
         /\ pp # NoProtection => pp \in Protection /\ pp.retries \in Nat /\ pp.retries <= MaxRetries
<1>1. /\ held \in Nat /\ pos \in Position \cup {NoPosition} /\ pp \in Protection \cup {NoProtection}
      /\ faults \in 0 .. MaxFaults /\ MaxFaults \in Nat /\ MaxRetries \in Nat /\ used \in Nat
  BY Basics DEF TInv, ConstantsAssumption
<1>2. pos # NoPosition => pos \in Position /\ pos.qty \in Int /\ pos.orig \in Nat
  BY <1>1 DEF Position
<1>3. pp # NoProtection => pp \in Protection /\ pp.retries \in Nat /\ pp.retries <= MaxRetries
  BY <1>1, ProtectionReal
<1> QED BY <1>1, <1>2, <1>3

\* A step that leaves the retries alone.
LEMMA RetriedKept ==
  ASSUME ConstantsAssumption, TInv, TInv', Retried,
         held' <= held, faults' >= faults, pp' = pp, eng' \in {0, eng},
         \/ pos' = pos
         \/ pos' = NoPosition /\ (eng' = 0 \/ held' = 0)
         \/ /\ pos' # NoPosition
            /\ pos'.tp1 \/ (pos'.sl # 0 /\ pos'.qty >= held /\ pos'.orig >= held)
  PROVE  Retried'
<1>1. /\ held \in Nat /\ faults \in Nat /\ MaxRetries \in Nat
      /\ pos # NoPosition => pos.qty \in Int /\ pos.orig \in Nat
      /\ pp # NoProtection => pp.retries \in Nat
  BY Counters
<1>2. /\ held' \in Nat /\ faults' \in Nat
      /\ pos' # NoPosition => pos'.qty \in Int /\ pos'.orig \in Nat
  <2>1. held' \in Nat /\ pos' \in Position \cup {NoPosition} /\ faults' \in 0 .. MaxFaults
    BY DEF TInv
  <2> QED BY <2>1 DEF Position, ConstantsAssumption
<1>3. held' <= EntryQty
  BY <1>1, <1>2 DEF Retried, EntryQty
<1>4. pos' # NoPosition /\ ~pos'.tp1 => pos'.qty >= held' /\ pos'.orig >= held'
  BY <1>1, <1>2 DEF Retried
<1>5. Stopless' => Stopless /\ pos' = pos
  BY DEF Stopless
<1>6. ASSUME held' > 0 PROVE held > 0
  BY <1>1, <1>2, <1>6
<1>7. held' > 0 /\ pp' # NoProtection /\ pp'.sl => faults' > pp'.retries
  BY <1>1, <1>2, <1>6 DEF Retried
<1>8. held' > 0 /\ pp' # NoProtection /\ (Stopless' \/ (eng' # 0 /\ pos' = NoPosition)) => pp'.sl
  BY <1>1, <1>2, <1>5, <1>6 DEF Retried
<1>9. held' > 0 /\ pp' = NoProtection /\ Stopless' => IsStub(pos') \/ faults' > MaxRetries + 1
  BY <1>1, <1>2, <1>5, <1>6 DEF Retried
<1> QED BY <1>3, <1>4, <1>7, <1>8, <1>9 DEF Retried

\* Calls that fail, or none.
LEMMA MoreFaults ==
  ASSUME ConstantsAssumption, TInv
  PROVE  /\ \A n \in Nat : Fail(n) => faults' >= faults
         /\ \A ids \in SUBSET Ref : \A missed \in Missed(ids) : Cardinality(missed) \in Nat
         /\ \A b \in BOOLEAN : FaultIfNot(b) \in Nat
         /\ held # 0 => FaultIfNot(FALSE) = 1
         /\ held \in Nat /\ faults \in Nat
<1>1. held \in Nat /\ faults \in Nat
  BY Counters
<1> QED BY <1>1, MissedCount DEF Fail, FaultIfNot

LEMMA ExchangeRetried ==
  ASSUME ConstantsAssumption, TInv, TInv', Retried, Exchange
  PROVE  Retried'
<1> USE DEF cache
<1>1. ASSUME NEW i \in OrderIds, Executes(i)
      PROVE  Retried'
  <2> DEFINE q == IF orders[i].kind = "STOP" THEN held ELSE Least(orders[i].qty, held)
  <2>1. orders[i] \in Placed
    BY <1>1, Basics DEF Executes
  <2>2. q \in Nat /\ held \in Nat /\ faults \in Nat
    BY <2>1, Counters DEF Placed, Order, Least
  <2>3. held' = held - q
    BY <1>1 DEF Executes
  <2> HIDE DEF q
  <2>4. held' <= held /\ faults >= faults
    BY <2>2, <2>3
  <2> QED BY <1>1, <2>4, RetriedKept DEF Executes
<1>2. ASSUME NEW i \in OrderIds, Expires(i)
      PROVE  Retried'
  BY <1>2, Counters, RetriedKept DEF Expires
<1>3. CASE ClosedByHand
  BY <1>3, Counters, RetriedKept DEF ClosedByHand
<1>4. CASE EventLost
  BY <1>4, Counters, RetriedKept DEF EventLost
<1> QED BY <1>1, <1>2, <1>3, <1>4 DEF Exchange

LEMMA StubNamesNothing ==
  ASSUME NEW t \in Trades
  PROVE  IsStub(Stub(t)) /\ Stub(t) # NoPosition /\ ~Stub(t).tp1
         /\ Stub(t).qty = EntryQty /\ Stub(t).orig = EntryQty
BY StubType DEF IsStub, Stub, NoPosition

\* An entry that finds no holding and no retry of an earlier trade.
FreshEntry == Enter => held = 0 /\ pp = NoProtection

LEMMA EngineRetried ==
  ASSUME ConstantsAssumption, TInv, TInv', Retried, Engine, FreshEntry
  PROVE  Retried'
<1>1. CASE Enter
  BY <1>1 DEF Enter, FreshEntry, Retried, EntryQty, Stopless, history
<1>2. CASE EnterReturns
  <2>1. CASE pos # NoPosition
    BY <1>2, <2>1, Counters, RetriedKept DEF EnterReturns, exchange
  <2>2. CASE pos = NoPosition
    <3>1. eng \in Trades /\ pos' = Stub(eng) /\ eng' = 0
      BY <1>2, <2>2 DEF EnterReturns, TInv, Trades
    <3>2. IsStub(pos') /\ pos' # NoPosition /\ pos'.qty = EntryQty /\ pos'.orig = EntryQty
      BY <3>1, StubNamesNothing
    <3>3. held' = held /\ pp' = pp /\ faults' = faults /\ eng # 0
      BY <1>2 DEF EnterReturns, exchange
    <3> QED BY <2>2, <3>2, <3>3 DEF Retried, EntryQty
  <2> QED BY <2>1, <2>2
<1>3. CASE EnterErrs
  <2>1. faults' >= faults
    BY <1>3, Counters DEF EnterErrs, Fail
  <2> QED BY <1>3, <2>1, Counters, RetriedKept DEF EnterErrs, exchange
<1>4. CASE \E t \in Trades : PendingExpires(t)
  BY <1>4, Counters, RetriedKept DEF PendingExpires, exchange
<1> QED BY <1>1, <1>2, <1>3, <1>4 DEF Engine

\* A finalization that is refused schedules the stop's retry, one that
\* succeeds leaves a position with a stop.
LEMMA FinalizedRetried ==
  ASSUME ConstantsAssumption, TInv, TInv', Retried, NEW t \in Trades, Finalized(t), eng' = eng
  PROVE  Retried'
<1>1. held' = held /\ held \in Nat /\ faults \in Nat /\ used \in Nat
  BY Counters DEF Finalized
<1>2. ASSUME pos' = pos, pp' = Full, NEW n \in Nat, Fail(FaultIfNot(FALSE) + n)
      PROVE  Retried'
  <2>1. Full # NoProtection /\ Full.sl /\ Full.retries = 0
    BY FullType, ProtectionReal DEF Full
  <2>2. held > 0 => faults' > 0
    BY <1>1, <1>2 DEF Fail, FaultIfNot
  <2> QED BY <1>1, <1>2, <2>1, <2>2 DEF Retried
<1>3. CASE StopRefused
  <2>1. FaultIfNot(FALSE) = FaultIfNot(FALSE) + 0
    BY DEF FaultIfNot
  <2> QED BY <1>2, <1>3, <2>1 DEF StopRefused
<1>4. ASSUME NEW c \in BOOLEAN, TakeProfitRefused(t, c)
      PROVE  Retried'
  BY <1>2, <1>4 DEF TakeProfitRefused
<1>5. ASSUME NEW tp2 \in BOOLEAN, Activated(t, tp2)
      PROVE  Retried'
  <2>1. /\ pos' # NoPosition /\ pos'.sl = used + 1
        /\ pos'.qty = EntryQty /\ pos'.orig = EntryQty
    BY <1>5, StubNamesNothing DEF Activated, Stub, NoPosition
  <2>2. faults' >= faults
    BY <1>5, MoreFaults DEF Activated
  <2>3. held <= EntryQty /\ held' <= held
    BY <1>1 DEF Retried
  <2> QED BY <1>1, <1>5, <2>1, <2>2, <2>3, RetriedKept DEF Activated
<1> QED BY <1>3, <1>4, <1>5 DEF Finalized

LEMMA UserDataRetried ==
  ASSUME ConstantsAssumption, TInv, TInv', OneTrade, Retried, UserData
  PROVE  Retried'
<1> USE DEF cache
<1>1. CASE WsReadsPending
  BY <1>1, Counters, RetriedKept DEF WsReadsPending
<1>2. CASE WsFinalizes
  <2>1. ws \in Trades
    BY <1>2 DEF WsFinalizes, TInv, Trades
  <2> QED BY <1>2, <2>1, FinalizedRetried DEF WsFinalizes
<1>3. ASSUME NEW stopped \in BOOLEAN, WsTp1(stopped)
      PROVE  Retried'
  <2>1. pos' # NoPosition /\ pos'.tp1
    BY <1>3 DEF WsTp1, TInv, Position, NoPosition
  <2>2. faults' >= faults
    <3>1. PICK missed \in Missed(Replaced(pos)) : Fail(Cardinality(missed) + FaultIfNot(stopped))
      BY <1>3 DEF WsTp1
    <3>2. Replaced(pos) \in SUBSET Ref
      BY <1>3 DEF Replaced, WsTp1, TInv, Position
    <3>3. Cardinality(missed) \in Nat /\ FaultIfNot(stopped) \in Nat
      BY <3>2, MissedCount DEF FaultIfNot
    <3> QED BY <3>1, <3>3, Counters DEF Fail
  <2> QED BY <1>3, <2>1, <2>2, Counters, RetriedKept DEF WsTp1
<1>4. ASSUME NEW ids \in SUBSET Ref, NEW r, Fill, pos # NoPosition, Closes(ids, r)
      PROVE  Retried'
  <2>1. orders[events[1]].kind # "ENTRY" /\ 1 \in DOMAIN events
    BY <1>4, FillFirst
  <2>2. eng = 0
    BY <2>1 DEF OneTrade, EventsInOrder
  <2>3. faults' >= faults
    <3>1. PICK missed \in Missed(ids) : Fail(Cardinality(missed))
      BY <1>4 DEF Closes
    <3> QED BY <3>1, MissedCount, Counters DEF Fail
  <2> QED BY <1>4, <2>2, <2>3, Counters, RetriedKept DEF Closes, Persisted, Removed
<1>5. CASE WsTp1Closes \/ WsTp2 \/ WsTrailingSl \/ WsHardSl \/ WsForceClosed \/ WsUntracked
  <2>1. pos \in Position
    BY <1>5 DEF WsTp1Closes, WsTp2, WsTrailingSl, WsHardSl, WsForceClosed, WsUntracked, TInv
  <2>2. /\ {pos.sl, pos.tsl} \in SUBSET Ref /\ {pos.tsl} \in SUBSET Ref /\ {pos.tp2} \in SUBSET Ref
        /\ Siblings(pos) \in SUBSET Ref /\ {} \in SUBSET Ref
    BY <2>1 DEF Position, Siblings
  <2> QED BY <1>4, <1>5, <2>2
          DEF WsTp1Closes, WsTp2, WsTrailingSl, WsHardSl, WsForceClosed, WsUntracked
<1>6. CASE WsIgnored
  BY <1>6, Counters, RetriedKept DEF WsIgnored
<1> QED BY <1>1, <1>2, <1>3, <1>5, <1>6 DEF UserData

\* An attempt at the stop that fails is a call that failed.
LEMMA CheckRetriesRetried ==
  ASSUME ConstantsAssumption, TInv, TInv', Retried,
         NEW stop \in BOOLEAN, NEW tp \in BOOLEAN, NEW tp2 \in BOOLEAN,
         CheckRetries(stop, tp, tp2)
  PROVE  Retried'
<1>1. /\ held' = held /\ eng' = eng /\ held \in Nat /\ faults \in Nat /\ used \in Nat
      /\ pos \in Position /\ pos # NoPosition /\ pos.qty \in Int /\ pos.orig \in Nat
      /\ pp \in Protection /\ pp # NoProtection /\ pp.retries \in Nat
  BY Counters DEF CheckRetries
<1>2. /\ pos' # NoPosition /\ pos'.qty = pos.qty /\ pos'.orig = pos.orig /\ pos'.tp1 = pos.tp1
      /\ stop => pos'.sl # 0
      /\ ~stop => pos'.sl = pos.sl
  <2>1. PICK n \in Nat, m \in Nat :
          pos' = [pos EXCEPT !.sl = IF stop THEN used + 1 ELSE @,
                             !.tp = IF tp THEN n ELSE @, !.tp2 = IF tp2 THEN m ELSE @]
    <3> DEFINE n == used + Len(IF stop THEN <<Opened("STOP", pos.trade, 0)>> ELSE <<>>)
    <3>1. n \in Nat /\ (stop => n = used + 1)
      BY <1>1
    <3>2. pos' = [pos EXCEPT !.sl = IF stop THEN n ELSE @, !.tp = IF tp THEN n + 1 ELSE @,
                             !.tp2 = IF tp2 THEN n + 2 ELSE @]
      BY DEF CheckRetries
    <3> HIDE DEF n
    <3>3. n + 1 \in Nat /\ n + 2 \in Nat
      BY <3>1
    <3>4. pos' = [pos EXCEPT !.sl = IF stop THEN used + 1 ELSE @, !.tp = IF tp THEN n + 1 ELSE @,
                             !.tp2 = IF tp2 THEN n + 2 ELSE @]
      BY <3>1, <3>2
    <3> QED BY <3>3, <3>4
  <2>2. /\ pos'.qty = pos.qty /\ pos'.orig = pos.orig /\ pos'.tp1 = pos.tp1
        /\ stop => pos'.sl = used + 1
        /\ ~stop => pos'.sl = pos.sl
    BY <1>1, <2>1 DEF Position
  <2>3. pos' # NoPosition
    BY <1>1, <2>1 DEF Position, NoPosition
  <2> QED BY <1>1, <2>2, <2>3
<1>3. Stopless' => ~stop /\ Stopless
  BY <1>1, <1>2 DEF Stopless
<1>4. held > 0 /\ pp.sl /\ ~stop => faults' > faults
  <2> DEFINE a == IF pp.sl THEN FaultIfNot(stop) ELSE 0
             b == (IF pp.tp THEN FaultIfNot(tp) ELSE 0) + IF tp /\ pp.q2 > 0 THEN FaultIfNot(tp2) ELSE 0
  <2>1. a \in Nat /\ b \in Nat /\ (held > 0 /\ pp.sl /\ ~stop => a = 1)
    BY <1>1 DEF FaultIfNot
  <2>2. Fail(a + b)
    <3>1. Fail((IF pp.sl THEN FaultIfNot(stop) ELSE 0) + (IF pp.tp THEN FaultIfNot(tp) ELSE 0)
               + IF tp /\ pp.q2 > 0 THEN FaultIfNot(tp2) ELSE 0)
      BY DEF CheckRetries
    <3>2. \A x, y, z \in Nat : (x + y) + z = x + (y + z)
      OBVIOUS
    <3> QED BY <3>1, <3>2 DEF FaultIfNot
  <2> HIDE DEF a, b
  <2> QED BY <1>1, <2>1, <2>2 DEF Fail
<1>5. \/ pp' = NoProtection /\ (pp.sl => stop)
      \/ pp' # NoProtection /\ (pp'.sl <=> pp.sl /\ ~stop) /\ pp'.retries = pp.retries + 1
  <2>1. CASE (pp.sl => stop) /\ (pp.tp => tp)
    BY <2>1 DEF CheckRetries
  <2>2. CASE ~((pp.sl => stop) /\ (pp.tp => tp))
    <3>1. pp' = [pp EXCEPT !.sl = @ /\ ~stop, !.tp = @ /\ ~tp, !.retries = @ + 1]
      BY <2>2 DEF CheckRetries
    <3>2. ~Exhausted(pp) /\ pp.retries \in 0 .. MaxRetries /\ MaxRetries \in Nat
      BY <1>1 DEF CheckRetries, Protection, ConstantsAssumption
    <3>3. (pp'.sl <=> pp.sl /\ ~stop) /\ pp'.retries = pp.retries + 1
      BY <1>1, <3>1 DEF Protection
    <3>4. pp' # NoProtection
      BY <3>2, <3>3 DEF Exhausted, NoProtection
    <3> QED BY <3>3, <3>4
  <2> QED BY <2>1, <2>2
<1>6. faults' \in Nat
  BY DEF TInv, ConstantsAssumption
<1>7. held' <= EntryQty /\ (pos' # NoPosition /\ ~pos'.tp1 => pos'.qty >= held' /\ pos'.orig >= held')
  BY <1>1, <1>2 DEF Retried
<1>8. held' > 0 /\ pp' # NoProtection /\ pp'.sl => faults' > pp'.retries
  BY <1>1, <1>4, <1>5, <1>6 DEF Retried
<1>9. held' > 0 /\ pp' # NoProtection /\ (Stopless' \/ (eng' # 0 /\ pos' = NoPosition)) => pp'.sl
  BY <1>1, <1>2, <1>3, <1>5 DEF Retried
<1>10. held' > 0 /\ pp' = NoProtection /\ Stopless' => FALSE
  BY <1>1, <1>3, <1>5 DEF Retried
<1> QED BY <1>7, <1>8, <1>9, <1>10 DEF Retried

LEMMA ForcePlacedLess ==
  ASSUME ConstantsAssumption, TInv, NEW p \in Position, NEW ok \in BOOLEAN, ForcePlaced(p, ok)
  PROVE  /\ held' <= held /\ held' \in Nat
         /\ ok /\ p.qty >= held => held' = 0
<1>1. held \in Nat /\ p.qty \in Int
  BY Counters DEF Position
<1> QED BY <1>1 DEF ForcePlaced, Least

\* The attempts are used up: the emergency close ends the holding, or its
\* failure is one more than the budget.
LEMMA CheckGivesUpRetried ==
  ASSUME ConstantsAssumption, TInv, TInv', Retried, NEW ok \in BOOLEAN, CheckGivesUp(ok)
  PROVE  Retried'
<1>1. /\ held \in Nat /\ faults \in Nat /\ MaxRetries \in Nat
      /\ pos \in Position /\ pos # NoPosition /\ pos.qty \in Int /\ pos.orig \in Nat
      /\ pp # NoProtection /\ pp.retries \in Nat /\ pp.retries >= MaxRetries
  BY Counters DEF CheckGivesUp, Exhausted
<1>2. pos' = pos /\ pp' = NoProtection
  BY DEF CheckGivesUp
<1>3. held' <= held /\ held' \in Nat /\ (ok /\ pos.qty >= held => held' = 0)
  BY <1>1, ForcePlacedLess DEF CheckGivesUp
<1>4. ~ok /\ held > 0 /\ pos.qty > 0 => faults' = faults + 1
  BY <1>1 DEF CheckGivesUp, ForceFault, Fail
<1>5. held' <= EntryQty /\ (pos' # NoPosition /\ ~pos'.tp1 => pos'.qty >= held' /\ pos'.orig >= held')
  BY <1>1, <1>2, <1>3 DEF Retried, EntryQty
<1>6. ASSUME held' > 0, Stopless'
      PROVE  faults' > MaxRetries + 1
  <2>1. held > 0 /\ Stopless /\ ~pos.tp1
    BY <1>1, <1>2, <1>3, <1>6 DEF Stopless
  <2>2. pos.qty >= held /\ ~ok
    BY <1>1, <1>3, <1>6, <2>1 DEF Retried
  <2>3. faults > pp.retries
    BY <1>1, <2>1 DEF Retried
  <2> QED BY <1>1, <1>4, <2>1, <2>2, <2>3
<1> QED BY <1>2, <1>5, <1>6 DEF Retried

LEMMA CheckRetried ==
  ASSUME ConstantsAssumption, TInv, TInv', Retried, Check
  PROVE  Retried'
<1>1. ASSUME NEW placed \in BOOLEAN, CheckBreakeven(placed)
      PROVE  Retried'
  <2>1. pos \in Position /\ pos # NoPosition /\ ~pos.tp1 /\ used \in Nat /\ held \in Nat
    BY <1>1, Counters DEF CheckBreakeven
  <2>2. faults' >= faults
    <3>1. PICK missed \in Missed(Replaced(pos)) : Fail(Cardinality(missed) + FaultIfNot(placed))
      BY <1>1 DEF CheckBreakeven
    <3>2. Replaced(pos) \in SUBSET Ref
      BY <2>1 DEF Replaced, Position
    <3>3. Cardinality(missed) \in Nat /\ FaultIfNot(placed) \in Nat
      BY <3>2, MissedCount DEF FaultIfNot
    <3> QED BY <3>1, <3>3, Counters DEF Fail
  <2>3. CASE ~placed
    BY <1>1, <2>1, <2>2, <2>3, RetriedKept DEF CheckBreakeven
  <2>4. CASE placed
    <3>1. /\ pos' # NoPosition /\ pos'.sl = used + 1
          /\ pos'.qty = pos.qty /\ pos'.orig = pos.orig
      BY <1>1, <2>1, <2>4 DEF CheckBreakeven, Position, NoPosition
    <3>2. pos'.qty >= held /\ pos'.orig >= held
      BY <2>1, <3>1 DEF Retried
    <3> QED BY <1>1, <2>1, <2>2, <3>1, <3>2, RetriedKept DEF CheckBreakeven
  <2> QED BY <2>3, <2>4
<1> QED BY <1>1, CheckRetriesRetried, CheckGivesUpRetried DEF Check

\* emergencyProtect asks for all the account may hold, and leaves a refused
\* stop to the retries.
LEMMA SweepProtectsRetried ==
  ASSUME ConstantsAssumption, TInv, TInv', Retried,
         NEW known \in BOOLEAN, NEW stop \in BOOLEAN, NEW tp \in BOOLEAN,
         SweepProtects(known, stop, tp)
  PROVE  Retried'
<1> DEFINE q == IF known THEN held ELSE pos.orig
<1>1. /\ held' = held /\ eng' = eng /\ held \in Nat /\ faults \in Nat /\ used \in Nat
      /\ pos \in Position /\ pos # NoPosition /\ pos.orig \in Nat
  BY Counters DEF SweepProtects, IsStub
<1>2. q \in Nat /\ (~pos.tp1 => q >= held)
  BY <1>1 DEF Retried
<1>3. /\ pos' # NoPosition /\ pos'.qty = q /\ pos'.orig = q /\ pos'.tp1 = pos.tp1
      /\ stop => pos'.sl # 0
  <2> DEFINE n == used + Len(IF stop THEN <<Opened("STOP", pos.trade, 0)>> ELSE <<>>)
  <2>1. n \in Nat /\ (stop => n = used + 1)
    BY <1>1
  <2>2. pos' = [pos EXCEPT !.sl = IF stop THEN n ELSE @, !.tp = IF tp THEN n + 1 ELSE @,
                           !.qty = q, !.orig = q]
    BY DEF SweepProtects
  <2> HIDE DEF n, q
  <2>3. pos'.qty = q /\ pos'.orig = q /\ pos'.tp1 = pos.tp1 /\ (stop => pos'.sl = n)
    BY <1>1, <2>2 DEF Position
  <2>4. pos' # NoPosition
    BY <1>1, <2>2 DEF Position, NoPosition
  <2> QED BY <1>1, <2>1, <2>3, <2>4
<1>4. \/ pp' = pp /\ stop
      \/ pp' # NoProtection /\ (pp'.sl <=> ~stop) /\ pp'.retries = 0
  <2>1. CASE stop /\ tp
    BY <2>1 DEF SweepProtects
  <2>2. CASE ~(stop /\ tp)
    <3>1. pp' = [sl |-> ~stop, tp |-> ~tp, q1 |-> q, q2 |-> 0, retries |-> 0]
      BY <2>2 DEF SweepProtects
    <3>2. pp'.retries = 0 /\ (pp'.sl <=> ~stop) /\ MaxRetries \in Nat
      BY <3>1 DEF ConstantsAssumption
    <3>3. pp' # NoProtection
      BY <3>2 DEF NoProtection
    <3> QED BY <3>2, <3>3
  <2> QED BY <2>1, <2>2
<1>5. faults' >= faults /\ (held > 0 /\ ~stop => faults' > faults)
  <2>1. Fail((IF known THEN 0 ELSE 1) + FaultIfNot(stop) + FaultIfNot(tp))
    BY DEF SweepProtects
  <2> QED BY <1>1, <2>1 DEF Fail, FaultIfNot
<1>6. faults' \in Nat
  BY DEF TInv, ConstantsAssumption
<1> HIDE DEF q
<1>7. held' <= EntryQty /\ (pos' # NoPosition /\ ~pos'.tp1 => pos'.qty >= held' /\ pos'.orig >= held')
  BY <1>1, <1>2, <1>3 DEF Retried
<1>8. held' > 0 /\ pp' # NoProtection /\ pp'.sl => faults' > pp'.retries
  BY <1>1, <1>4, <1>5, <1>6, Counters DEF Retried
<1>9. Stopless' => ~stop
  BY <1>3 DEF Stopless
<1>10. held' > 0 /\ pp' # NoProtection /\ (Stopless' \/ (eng' # 0 /\ pos' = NoPosition)) => pp'.sl
  BY <1>3, <1>4, <1>9
<1>11. held' > 0 /\ pp' = NoProtection /\ Stopless' => FALSE
  BY <1>4, <1>9
<1> QED BY <1>7, <1>8, <1>10, <1>11 DEF Retried

LEMMA SweepRetried ==
  ASSUME ConstantsAssumption, TInv, TInv', Retried, Sweep
  PROVE  Retried'
<1>1. CASE SweepFinalizes
  <2>1. pos.trade \in Trades
    BY <1>1 DEF SweepFinalizes, IsStub, TInv, Position
  <2> QED BY <1>1, <2>1, FinalizedRetried DEF SweepFinalizes
<1>2. CASE SweepDropsStub
  BY <1>2, Counters, RetriedKept DEF SweepDropsStub, exchange
<1> QED BY <1>1, <1>2, SweepProtectsRetried DEF Sweep

LEMMA UnlockedRetried ==
  ASSUME ConstantsAssumption, Timely, TInv, TInv', Retried, Unlocked
  PROVE  Retried'
<1> USE DEF cache
<1>1. ASSUME NEW l \in UnlockedLoops, LoopReads(l) \/ LoopIdles(l)
      PROVE  Retried'
  BY <1>1, Counters, RetriedKept DEF LoopReads, LoopIdles, exchange
<1>2. ASSUME NEW l \in UnlockedLoops, LoopCancels(l)
      PROVE  Retried'
  <2>1. snap[l] \in Position
    BY <1>2 DEF LoopCancels, TInv
  <2>2. PICK missed \in Missed(Named(snap[l])) : Fail(Cardinality(missed))
    BY <1>2 DEF LoopCancels
  <2>3. faults' >= faults
    BY <2>1, <2>2, MissedCount, NamedType, Counters DEF Fail
  <2> QED BY <1>2, <2>3, Counters, RetriedKept DEF LoopCancels
<1>3. ASSUME NEW l \in UnlockedLoops, NEW ok \in BOOLEAN, LoopCloses(l, ok)
      PROVE  Retried'
  <2>1. snap[l] \in Position
    BY <1>3 DEF LoopCloses, TInv
  <2>2. held' <= held
    BY <1>3, <2>1, ForcePlacedLess DEF LoopCloses
  <2>3. faults' >= faults
    BY <1>3, Counters DEF LoopCloses, ForceFault, Fail
  <2> QED BY <1>3, <2>2, <2>3, RetriedKept DEF LoopCloses
<1> QED BY <1>1, <1>2, <1>3 DEF Unlocked, Timely

LEMMA NextRetried ==
  ASSUME ConstantsAssumption, Timely, TInv, OneTrade, Retried, [Next]_vars, FreshEntry
  PROVE  Retried'
<1>1. TInv'
  BY NextType
<1>2. CASE Next
  BY <1>1, <1>2, ExchangeRetried, EngineRetried, UserDataRetried, CheckRetried, SweepRetried,
     UnlockedRetried DEF Next
<1>3. CASE UNCHANGED vars
  BY <1>1, <1>3, Counters, RetriedKept DEF vars, exchange, cache
<1> QED BY <1>2, <1>3

LEMMA InitRetried == ASSUME ConstantsAssumption, Init PROVE Retried
BY DEF Init, Retried, EntryQty, Stopless

LEMMA RetriedWithinBudget ==
  ASSUME ConstantsAssumption, TInv, Retried
  PROVE  RetryBudget
<1>1. faults \in Nat /\ MaxRetries \in Nat
  BY Counters
<1> QED BY <1>1 DEF Retried, RetryBudget, Stopless

\* With entries that find no holding and no retry of an earlier trade, a
\* position that never got its stop stays with retryProtection until it is
\* stopped or closed, whatever the other calls, events and loops do, as long
\* as no more calls fail than the attempts before the emergency close.
THEOREM RetriesKeepAtIt ==
  ASSUME Prompt, "preSettlement" \notin UnlockedLoops
  PROVE  Spec /\ [][FreshEntry]_vars => []RetryBudget
<1>1. Timely
  BY DEF Timely
<1>2. Init => Retried
  BY InitRetried, ConstantsAssumption
<1>3. (TInv /\ OneTrade /\ Recorded) /\ Retried /\ [Next]_vars /\ [FreshEntry]_vars => Retried'
  <2> SUFFICES ASSUME TInv, OneTrade, Retried, [Next]_vars, [FreshEntry]_vars
               PROVE  Retried'
    OBVIOUS
  <2>1. CASE FreshEntry
    BY <1>1, <2>1, NextRetried, ConstantsAssumption
  <2>2. CASE UNCHANGED vars
    <3>1. FreshEntry
      BY <2>2, Counters, ConstantsAssumption DEF FreshEntry, Enter, vars, TInv
    <3> QED BY <1>1, <3>1, NextRetried, ConstantsAssumption
  <2> QED BY <2>1, <2>2
<1>4. TInv /\ Retried => RetryBudget
  BY RetriedWithinBudget, ConstantsAssumption
<1> QED BY <1>1, <1>2, <1>3, <1>4, OnceInvariant, PTL DEF Spec

\* What check and the sweep need to act, and what they leave alone.
LEMMA CheckFrame ==
  Check => pos # NoPosition /\ trade' = trade /\ closes' = closes
<1>1. ASSUME NEW stop \in BOOLEAN, NEW tp \in BOOLEAN, NEW tp2 \in BOOLEAN, CheckRetries(stop, tp, tp2)
      PROVE  pos # NoPosition /\ trade' = trade /\ closes' = closes
  BY <1>1 DEF CheckRetries, history
<1>2. ASSUME NEW ok \in BOOLEAN, CheckGivesUp(ok)
      PROVE  pos # NoPosition /\ trade' = trade /\ closes' = closes
  BY <1>2 DEF CheckGivesUp, history
<1>3. ASSUME NEW placed \in BOOLEAN, CheckBreakeven(placed)
      PROVE  pos # NoPosition /\ trade' = trade /\ closes' = closes
  BY <1>3 DEF CheckBreakeven, history
<1> QED BY <1>1, <1>2, <1>3 DEF Check

LEMMA SweepFrame ==
  Sweep => IsStub(pos) /\ Waited /\ trade' = trade /\ closes' = closes
<1>1. ASSUME NEW known \in BOOLEAN, NEW stop \in BOOLEAN, NEW tp \in BOOLEAN, SweepProtects(known, stop, tp)
      PROVE  IsStub(pos) /\ Waited /\ trade' = trade /\ closes' = closes
  BY <1>1 DEF SweepProtects
<1>2. SweepFinalizes => IsStub(pos) /\ Waited /\ trade' = trade /\ closes' = closes
  BY DEF SweepFinalizes, Finalized
<1>3. SweepDropsStub => IsStub(pos) /\ Waited /\ trade' = trade /\ closes' = closes
  BY DEF SweepDropsStub, history
<1> QED BY <1>1, <1>2, <1>3 DEF Sweep

\* Before the first entry there is nothing to retry.
BeforeFirst == trade = 0 => held = 0 /\ pp = NoProtection

LEMMA NextBeforeFirst ==
  ASSUME ConstantsAssumption, Timely, TInv, OneTrade, BeforeFirst, [Next]_vars
  PROVE  BeforeFirst'
<1>1. SUFFICES ASSUME trade' = 0, Next
               PROVE  held' = 0 /\ pp' = NoProtection
  BY DEF BeforeFirst, vars, exchange, cache
<1>2. trade \in Nat /\ (trade' = trade \/ Enter)
  <2>1. Exchange => trade' = trade
    BY DEF Exchange, Executes, Expires, ClosedByHand, EventLost
  <2>2. Engine => trade' = trade \/ Enter
    BY DEF Engine, EnterReturns, EnterErrs, PendingExpires
  <2>3. UserData => trade' = trade
    BY DEF UserData, WsReadsPending, WsFinalizes, WsTp1, WsTp1Closes, WsTp2, WsTrailingSl, WsHardSl,
           WsForceClosed, WsUntracked, WsIgnored, Closes
  <2>4. Check => trade' = trade
    BY CheckFrame
  <2>5. Sweep => trade' = trade
    BY SweepFrame
  <2>6. Unlocked => trade' = trade
    BY DEF Unlocked, Timely, LoopReads, LoopIdles, LoopCancels, LoopCloses
  <2> QED BY <1>1, <2>1, <2>2, <2>3, <2>4, <2>5, <2>6 DEF Next, TInv
<1>3. trade = 0 /\ ~Enter
  BY <1>1, <1>2 DEF Enter
<1>4. held = 0 /\ pp = NoProtection /\ pos = NoPosition /\ ws = 0 /\ ~IsStub(pos)
  BY <1>3 DEF BeforeFirst, OneTrade, TInv, Position, Trades, IsStub
<1> USE DEF cache, exchange
<1>5. CASE Exchange
  <2>1. ~ClosedByHand /\ \A i \in OrderIds : ~Executes(i)
    BY <1>4 DEF ClosedByHand, Executes
  <2>2. ASSUME NEW i \in OrderIds, Expires(i)
        PROVE  held' = held /\ pp' = pp
    BY <2>2 DEF Expires
  <2>3. EventLost => held' = held /\ pp' = pp
    BY DEF EventLost
  <2> QED BY <1>4, <1>5, <2>1, <2>2, <2>3 DEF Exchange
<1>6. CASE Engine
  BY <1>3, <1>4, <1>6 DEF Engine, EnterReturns, EnterErrs, PendingExpires
<1>7. CASE UserData
  BY <1>4, <1>7 DEF UserData, WsReadsPending, WsFinalizes, WsTp1, WsTp1Closes, WsTp2, WsTrailingSl,
     WsHardSl, WsForceClosed, WsUntracked, WsIgnored
<1>8. CASE Check
  BY <1>4, <1>8, CheckFrame
<1>9. CASE Sweep
  BY <1>4, <1>9, SweepFrame
<1>10. CASE Unlocked
  <2>1. ASSUME NEW l \in UnlockedLoops, LoopReads(l) \/ LoopIdles(l) \/ LoopCancels(l)
        PROVE  held' = 0 /\ pp' = NoProtection
    BY <1>4, <2>1 DEF LoopReads, LoopIdles, LoopCancels
  <2>2. ASSUME NEW l \in UnlockedLoops, NEW ok \in BOOLEAN, LoopCloses(l, ok)
        PROVE  held' = 0 /\ pp' = NoProtection
    <3>1. snap[l] \in Position
      BY <2>2 DEF LoopCloses, TInv
    <3>2. held' <= held /\ held' \in Nat
      BY <2>2, <3>1, ForcePlacedLess DEF LoopCloses
    <3> QED BY <1>4, <2>2, <3>2 DEF LoopCloses
  <2> QED BY <1>10, <2>1, <2>2 DEF Unlocked, Timely
<1> QED BY <1>1, <1>5, <1>6, <1>7, <1>8, <1>9, <1>10 DEF Next

\* The same without a condition on the entries, for the first trade.
COROLLARY FirstTradeRetries ==
  ASSUME Prompt, "preSettlement" \notin UnlockedLoops, MaxTrades = 1
  PROVE  Spec => []RetryBudget
<1>1. Timely
  BY DEF Timely
<1>2. Init => BeforeFirst
  BY DEF Init, BeforeFirst
<1>3. (TInv /\ OneTrade /\ Recorded) /\ BeforeFirst /\ [Next]_vars => BeforeFirst' /\ [FreshEntry]_vars
  <2> SUFFICES ASSUME TInv, OneTrade, BeforeFirst, [Next]_vars
               PROVE  BeforeFirst' /\ FreshEntry
    OBVIOUS
  <2>1. BeforeFirst'
    BY <1>1, NextBeforeFirst, ConstantsAssumption
  <2>2. FreshEntry
    BY DEF FreshEntry, BeforeFirst, Enter, TInv
  <2> QED BY <2>1, <2>2
<1> QED BY <1>1, <1>2, <1>3, OnceInvariant, RetriesKeepAtIt, PTL DEF Spec

(***************************************************************************)
(* The rest is about runs in which nothing has gone wrong: no call has     *)
(* failed, no event is lost, nobody has closed by hand, no answer outlasts *)
(* the waits, and only loops that take the lock touch the symbol.  For any *)
(* number of trades one after the other, orders and retries.               *)
(***************************************************************************)

\* Nothing has gone wrong yet.
Calm == faults = 0 /\ lost = 0 /\ \A i \in 1 .. used : orders[i].kind # "MANUAL"

\* Nor does it in this step.
Undisturbed == Prompt /\ UnlockedLoops = {} /\ Calm /\ Calm'

-----------------------------------------------------------------------------
(* The stages of a trade.                                                  *)

OnlyOpen(ids) == \A i \in OrderIds : orders[i].st = "open" => i \in ids

\* Between two trades.
Quiet ==
  /\ pos = NoPosition /\ eng = 0 /\ ws = 0
  /\ held = 0 /\ events = <<>> /\ OnlyOpen({})

\* The entry is filled, its fill not yet handled.
Entered ==
  /\ trade \in pending /\ held = EntryQty /\ OnlyOpen({})
  /\ pos = Stub(trade) \/ (pos = NoPosition /\ eng = trade)
  /\ \/ ws = trade /\ events = <<>>
     \/ ws = 0 /\ \E i \in 1 .. used : events = <<i>> /\ orders[i].kind = "ENTRY"

Names(i, k) == i \in 1 .. used /\ orders[i].kind = k /\ orders[i].trade = trade

\* The position names its orders by their roles, and every open order.
Protected ==
  /\ ws = 0 /\ pos # NoPosition
  /\ pos.orig = EntryQty /\ pos.qty = IF pos.tp1 THEN EntryQty - Tp1Qty ELSE EntryQty
  /\ Names(pos.tp, "TP1") /\ orders[pos.tp].qty = Tp1Qty
  /\ Names(pos.tp2, "TP2") /\ orders[pos.tp2].qty = Tp2Qty
  /\ ~pos.tp1 => pos.tsl = 0 /\ Names(pos.sl, "STOP")
  /\ pos.tp1 => /\ eng = 0 /\ pos.sl = 0 /\ ~IsOpen(pos.tp)
                /\ pos.tsl # 0 => Names(pos.tsl, "STOP")
  /\ OnlyOpen(Named(pos))

\* None of the orders has filled.
Untouched ==
  /\ ~pos.tp1 /\ events = <<>> /\ held = EntryQty
  /\ IsOpen(pos.sl) /\ IsOpen(pos.tp) /\ IsOpen(pos.tp2)

\* TP1 has, TP2 has behind it, or the stop has: not yet handled.
HalfTaken ==
  /\ ~pos.tp1 /\ events = <<pos.tp>> /\ held = EntryQty - Tp1Qty /\ eng = 0
  /\ IsOpen(pos.sl) /\ ~IsOpen(pos.tp) /\ IsOpen(pos.tp2)

BothTaken ==
  /\ ~pos.tp1 /\ events = <<pos.tp, pos.tp2>> /\ held = 0 /\ eng = 0
  /\ ~IsOpen(pos.tp) /\ ~IsOpen(pos.tp2)

StoppedOut ==
  /\ ~pos.tp1 /\ events = <<pos.sl>> /\ held = 0 /\ eng = 0
  /\ ~IsOpen(pos.sl)

\* TP1's fill has been handled, and then TP2 or the stop at the entry price
\* fills.
Trailing ==
  /\ pos.tp1 /\ events = <<>> /\ held = EntryQty - Tp1Qty
  /\ IsOpen(pos.tp2) /\ IsOpen(pos.tsl)

RestTaken ==
  /\ pos.tp1 /\ events = <<pos.tp2>> /\ held = 0 /\ ~IsOpen(pos.tp2)

RestStopped ==
  /\ pos.tp1 /\ events = <<pos.tsl>> /\ pos.tsl # 0 /\ held = 0 /\ ~IsOpen(pos.tsl)

Stage ==
  \/ Untouched \/ HalfTaken \/ BothTaken \/ StoppedOut
  \/ Trailing \/ RestTaken \/ RestStopped

Live == Protected /\ Stage

Cycle == pp = NoProtection /\ (Quiet \/ Entered \/ Live)

-----------------------------------------------------------------------------
(* What an undisturbed step does.                                          *)

LEMMA NothingFails ==
  ASSUME ConstantsAssumption, Undisturbed, TInv, NEW n \in Nat, Fail(n)
  PROVE  n = 0
BY DEF Fail, Undisturbed, Calm

LEMMA NothingMissed ==
  ASSUME ConstantsAssumption, Undisturbed, TInv, NEW ids \in SUBSET Ref,
         NEW missed \in Missed(ids), NEW n \in Nat, Fail(Cardinality(missed) + n)
  PROVE  missed = {} /\ n = 0
<1>1. Cardinality(missed) \in Nat
  BY MissedCount
<1>2. Cardinality(missed) + n = 0
  BY <1>1, NothingFails
<1>3. IsFiniteSet(missed)
  <2>1. IsFiniteSet(Ref)
    BY FS_Interval DEF Ref, ConstantsAssumption
  <2>2. missed \in SUBSET Ref
    BY DEF Missed
  <2> QED BY <2>1, <2>2, FS_Subset
<1>4. Cardinality(missed) = 0 /\ n = 0
  BY <1>1, <1>2
<1> QED BY <1>3, <1>4, FS_EmptySet

LEMMA NobodyCloses ==
  ASSUME ConstantsAssumption, Undisturbed, TInv
  PROVE  ~ClosedByHand /\ ~EventLost
<1>1. used \in Nat /\ lost \in Nat
  BY Basics DEF Undisturbed, Calm
<1>2. ~EventLost
  BY <1>1 DEF EventLost, Undisturbed, Calm
<1>3. SUFFICES ASSUME ClosedByHand
               PROVE  FALSE
  BY <1>2
<1>4. orders'[used + 1].kind = "MANUAL" /\ used' = used + 1
  BY <1>3, AcceptedOne DEF ClosedByHand, Filled
<1> QED BY <1>1, <1>4 DEF Undisturbed, Calm

\* Two events, one after the other.
LEMMA Two ==
  ASSUME NEW S, NEW a \in S, NEW b \in S
  PROVE  Append(<<a>>, b) = <<a, b>> /\ Head(<<a, b>>) = a /\ Tail(<<a, b>>) = <<b>>
<1>1. <<a>> \in Seq(S) /\ <<b>> \in Seq(S) /\ <<a, b>> \in Seq(S)
  OBVIOUS
<1>2. /\ Len(<<a>>) = 1 /\ Len(<<b>>) = 1 /\ Len(<<a, b>>) = 2 /\ <<a, b>> # <<>>
      /\ <<a>>[1] = a /\ <<b>>[1] = b /\ <<a, b>>[1] = a /\ <<a, b>>[2] = b
  OBVIOUS
<1>3. Append(<<a>>, b) = <<a, b>>
  <2>1. /\ Append(<<a>>, b) \in Seq(S) /\ Len(Append(<<a>>, b)) = 2
        /\ Append(<<a>>, b)[1] = a /\ Append(<<a>>, b)[2] = b
    BY <1>1, <1>2, AppendProperties
  <2>2. \A i \in 1 .. 2 : i = 1 \/ i = 2
    OBVIOUS
  <2> QED BY <1>1, <1>2, <2>1, <2>2, SeqEqual
<1>4. Tail(<<a, b>>) = <<b>>
  <2>1. /\ Tail(<<a, b>>) \in Seq(S) /\ Len(Tail(<<a, b>>)) = 1
        /\ Tail(<<a, b>>)[1] = b
    BY <1>1, <1>2, HeadTailProperties
  <2> QED BY <1>1, <1>2, <2>1, SeqEqual
<1> QED BY <1>3, <1>4

LEMMA CancelledOrders ==
  ASSUME ConstantsAssumption, TInv, NEW ids
  PROVE  \A i \in OrderIds :
           LET o == Cancelled(ids)[i] IN
           /\ o.st = "open" => orders[i].st = "open" /\ i \notin ids
           /\ i \notin ids => o = orders[i]
           /\ i \in 1 .. used => /\ o.kind = orders[i].kind /\ o.trade = orders[i].trade
                                 /\ o.qty = orders[i].qty
<1> TAKE i \in OrderIds
<1>1. i # 0
  BY DEF OrderIds, ConstantsAssumption
<1>2. CASE i \in ids /\ IsOpen(i)
  <2>1. orders[i] \in Placed
    BY <1>2, Basics
  <2>2. Cancelled(ids)[i] = [orders[i] EXCEPT !.st = "cancelled"]
    BY <1>2 DEF Cancelled
  <2> QED BY <1>2, <2>1, <2>2 DEF Placed, Order
<1>3. CASE ~(i \in ids /\ IsOpen(i))
  <2>1. Cancelled(ids)[i] = orders[i]
    BY <1>3 DEF Cancelled
  <2> QED BY <1>1, <1>3, <2>1 DEF IsOpen
<1> QED BY <1>2, <1>3

LEMMA ExecutedOrders ==
  ASSUME ConstantsAssumption, TInv, NEW i \in OrderIds, Executes(i)
  PROVE  /\ i \in 1 .. used /\ used' = used /\ i # 0
         /\ orders'[i].st = "filled"
         /\ orders'[i].kind = orders[i].kind /\ orders'[i].trade = orders[i].trade
         /\ orders[i].kind # "STOP" => /\ orders'[i].qty = Least(orders[i].qty, held)
                                       /\ held' = held - Least(orders[i].qty, held)
         /\ orders[i].kind = "STOP" => held' = 0
         /\ \A j \in OrderIds \ {i} : orders'[j] = orders[j]
<1>1. orders[i] \in Placed /\ i \in 1 .. used /\ held \in Nat
  BY Basics, Counters DEF Executes
<1> DEFINE q == IF orders[i].kind = "STOP" THEN held ELSE Least(orders[i].qty, held)
<1>2. orders' = [orders EXCEPT ![i].st = "filled", ![i].qty = q] /\ held' = held - q /\ used' = used
  BY DEF Executes
<1>3. orders'[i] = [orders[i] EXCEPT !.st = "filled", !.qty = q]
  <2> HIDE DEF q
  <2> QED BY <1>1, <1>2 DEF TInv, Numbered, Orders
<1>4. \A j \in OrderIds \ {i} : orders'[j] = orders[j]
  <2> HIDE DEF q
  <2> QED BY <1>1, <1>2 DEF TInv, Numbered, Orders
<1>5. /\ orders'[i].st = "filled" /\ orders'[i].qty = q
      /\ orders'[i].kind = orders[i].kind /\ orders'[i].trade = orders[i].trade
  <2> HIDE DEF q
  <2> QED BY <1>1, <1>3 DEF Placed, Order
<1>6. i # 0
  BY <1>1
<1>7. orders[i].kind = "STOP" => held' = 0
  BY <1>1, <1>2
<1>8. orders[i].kind # "STOP" => /\ orders'[i].qty = Least(orders[i].qty, held)
                                /\ held' = held - Least(orders[i].qty, held)
  BY <1>2, <1>5
<1> HIDE DEF q
<1> QED BY <1>1, <1>2, <1>4, <1>5, <1>6, <1>7, <1>8

\* The orders a protected position names are different ones.
LEMMA Roles ==
  ASSUME ConstantsAssumption, TInv, Protected
  PROVE  /\ pos \in Position
         /\ pos.tp \in OrderIds /\ pos.tp2 \in OrderIds /\ pos.tp # pos.tp2
         /\ pos.tp # 0 /\ pos.tp2 # 0
         /\ pos.sl # pos.tp /\ pos.sl # pos.tp2 /\ pos.tsl # pos.tp /\ pos.tsl # pos.tp2
         /\ ~pos.tp1 => pos.sl \in OrderIds /\ pos.sl # 0 /\ pos.sl # pos.tsl
         /\ pos.tp1 /\ pos.tsl # 0 => pos.tsl \in OrderIds
         /\ used \in Nat
<1>1. used \in Nat /\ MaxOrders \in Nat /\ used <= MaxOrders
  BY Basics
<1>2. \A i \in 1 .. used : i \in OrderIds /\ i # 0
  BY <1>1 DEF OrderIds
<1> QED BY <1>1, <1>2 DEF Protected, Names, TInv

-----------------------------------------------------------------------------
(* Between two trades, and while the entry's fill is on its way.           *)

LEMMA QuietMoves ==
  ASSUME Undisturbed, Quiet, Next
  PROVE  Enter \/ \E t \in Trades : PendingExpires(t)
<1>1. ~Exchange
  <2>1. \A i \in OrderIds : ~Executes(i) /\ ~Expires(i)
    BY DEF Quiet, Executes, Expires, IsOpen, OnlyOpen
  <2>2. ~ClosedByHand /\ ~EventLost
    BY DEF Quiet, ClosedByHand, EventLost
  <2> QED BY <2>1, <2>2 DEF Exchange
<1>2. ~UserData
  BY DEF UserData, Quiet, WsReadsPending, WsFinalizes, WsTp1, WsTp1Closes, WsTp2, WsTrailingSl,
         WsHardSl, WsForceClosed, WsUntracked, WsIgnored, Fill, Handling
<1>3. ~Check
  BY DEF Check, Quiet, CheckRetries, CheckGivesUp, CheckBreakeven
<1>4. ~Sweep
  BY DEF Sweep, Quiet, SweepFinalizes, SweepDropsStub, SweepProtects, IsStub
<1>5. ~Unlocked
  BY DEF Unlocked, Undisturbed
<1> QED BY <1>1, <1>2, <1>3, <1>4, <1>5 DEF Next, Engine, EnterReturns, EnterErrs, Quiet

LEMMA QuietStep ==
  ASSUME ConstantsAssumption, Undisturbed, TInv, OneTrade, pp = NoProtection, Quiet, Next
  PROVE  Cycle'
<1> USE DEF cache, exchange
<1>2. CASE Enter
  <2>1. used \in Nat /\ trade \in Nat
    BY Basics DEF TInv
  <2>2. orders' = Accepted(<<Filled("ENTRY", trade + 1, EntryQty)>>) /\ used' = used + 1
    BY <1>2 DEF Enter
  <2>3. orders'[used + 1] = Filled("ENTRY", trade + 1, EntryQty)
    BY <1>2, <2>2, AcceptedOne DEF Enter
  <2>4. \A i \in OrderIds : i # used + 1 => orders'[i] = orders[i]
    BY <2>1, <2>2 DEF Accepted
  <2>5. OnlyOpen({})'
    BY <2>3, <2>4 DEF OnlyOpen, Quiet, Filled
  <2>6. events' = <<used + 1>> /\ used + 1 \in 1 .. used' /\ orders'[used + 1].kind = "ENTRY"
    BY <1>2, <2>1, <2>2, <2>3 DEF Enter, Quiet, Filled
  <2>7. /\ trade' \in pending' /\ held' = EntryQty /\ pos' = NoPosition /\ eng' = trade'
        /\ ws' = 0 /\ pp' = NoProtection
    BY <1>2 DEF Enter, Quiet, EntryQty
  <2> QED BY <2>5, <2>6, <2>7 DEF Cycle, Entered
<1>3. CASE \E t \in Trades : PendingExpires(t)
  BY <1>3 DEF PendingExpires, Quiet, OnlyOpen, Cycle
<1> QED BY <1>2, <1>3, QuietMoves

\* The stream handler's finalization: nothing is refused.
LEMMA EnteredPlaces ==
  ASSUME ConstantsAssumption, Undisturbed, TInv, OneTrade, Entered, WsFinalizes
  PROVE  /\ used \in Nat /\ used' = used + 3 /\ used + 3 <= MaxOrders
         /\ orders'[used + 1] = Opened("STOP", trade, 0)
         /\ orders'[used + 2] = Opened("TP1", trade, Tp1Qty)
         /\ orders'[used + 3] = Opened("TP2", trade, Tp2Qty)
         /\ \A i \in OrderIds : i \notin {used + 1, used + 2, used + 3} => orders'[i] = orders[i]
         /\ pos'.sl = used + 1 /\ pos'.tp = used + 2 /\ pos'.tp2 = used + 3 /\ pos'.tsl = 0
         /\ pos'.tp1 = FALSE /\ pos'.be = FALSE /\ pos'.orig = EntryQty /\ pos'.qty = EntryQty
         /\ pos' # NoPosition /\ pp' = pp
         /\ trade' = trade /\ ws' = 0 /\ events' = <<>> /\ held' = EntryQty
         /\ closes' = closes /\ reason' = reason
<1>1. ws = trade /\ trade \in Trades /\ events = <<>> /\ held = 4 /\ used \in Nat /\ MaxOrders \in Nat
  BY Basics DEF WsFinalizes, Entered, OneTrade, TInv, Trades, EntryQty
<1>2. ~StopRefused /\ \A c \in BOOLEAN : ~TakeProfitRefused(ws, c)
  <2>1. FaultIfNot(FALSE) = 1
    BY <1>1 DEF FaultIfNot
  <2>2. ~Fail(1) /\ ~Fail(1 + 0) /\ ~Fail(1 + 1)
    BY NothingFails
  <2> QED BY <2>1, <2>2 DEF StopRefused, TakeProfitRefused
<1>3. Activated(trade, TRUE)
  <2>1. PICK tp2 \in BOOLEAN : Activated(trade, tp2)
    BY <1>1, <1>2 DEF WsFinalizes, Finalized
  <2>2. FaultIfNot(tp2) \in Nat /\ Fail(FaultIfNot(tp2))
    BY <2>1 DEF Activated, FaultIfNot
  <2>3. tp2
    BY <1>1, <2>2, NothingFails DEF FaultIfNot
  <2> QED BY <2>1, <2>3
<1> DEFINE new == <<Opened("STOP", trade, 0), Opened("TP1", trade, Tp1Qty)>>
                  \o <<Opened("TP2", trade, Tp2Qty)>>
<1>4. /\ Len(new) = 3 /\ new[1] = Opened("STOP", trade, 0)
      /\ new[2] = Opened("TP1", trade, Tp1Qty) /\ new[3] = Opened("TP2", trade, Tp2Qty)
  OBVIOUS
<1>5. /\ orders' = Accepted(new) /\ used' = used + Len(new) /\ used + Len(new) <= MaxOrders
      /\ pos' = [Stub(trade) EXCEPT !.sl = used + 1, !.tp = used + 2, !.tp2 = used + 3]
      /\ pp' = pp
  BY <1>3 DEF Activated
<1> HIDE DEF new
<1>6. /\ used' = used + 3 /\ used + 3 <= MaxOrders
      /\ orders'[used + 1] = Opened("STOP", trade, 0)
      /\ orders'[used + 2] = Opened("TP1", trade, Tp1Qty)
      /\ orders'[used + 3] = Opened("TP2", trade, Tp2Qty)
      /\ \A i \in OrderIds : i \notin {used + 1, used + 2, used + 3} => orders'[i] = orders[i]
  <2>1. \A i \in OrderIds :
          orders'[i] = IF i \in used + 1 .. used + 3 THEN new[i - used] ELSE orders[i]
    BY <1>4, <1>5 DEF Accepted
  <2>2. used + 1 \in OrderIds /\ used + 2 \in OrderIds /\ used + 3 \in OrderIds
    BY <1>1, <1>4, <1>5 DEF OrderIds
  <2>3. \A i \in OrderIds : i \in used + 1 .. used + 3 <=> i \in {used + 1, used + 2, used + 3}
    BY <1>1 DEF OrderIds
  <2>4. (used + 1) - used = 1 /\ (used + 2) - used = 2 /\ (used + 3) - used = 3
    BY <1>1
  <2>5. /\ orders'[used + 1] = new[1] /\ orders'[used + 2] = new[2] /\ orders'[used + 3] = new[3]
    BY <2>1, <2>2, <2>3, <2>4
  <2>6. \A i \in OrderIds : i \notin {used + 1, used + 2, used + 3} => orders'[i] = orders[i]
    BY <2>1, <2>3
  <2> QED BY <1>4, <1>5, <2>5, <2>6
<1>7. /\ pos'.sl = used + 1 /\ pos'.tp = used + 2 /\ pos'.tp2 = used + 3 /\ pos'.tsl = 0
      /\ pos'.tp1 = FALSE /\ pos'.be = FALSE /\ pos'.orig = EntryQty /\ pos'.qty = EntryQty /\ pos' # NoPosition
  BY <1>5 DEF Stub, NoPosition
<1>8. /\ trade' = trade /\ ws' = 0 /\ events' = <<>> /\ held' = EntryQty
      /\ closes' = closes /\ reason' = reason
  BY <1>1 DEF WsFinalizes, Finalized, EntryQty
<1> QED BY <1>1, <1>5, <1>6, <1>7, <1>8

LEMMA EnteredFinalizes ==
  ASSUME ConstantsAssumption, Undisturbed, TInv, OneTrade, pp = NoProtection, Entered, WsFinalizes
  PROVE  pp' = NoProtection /\ Live'
<1>1. /\ used \in Nat /\ used' = used + 3 /\ trade' = trade /\ trade \in Trades
      /\ pos'.sl = used + 1 /\ pos'.tp = used + 2 /\ pos'.tp2 = used + 3 /\ pos'.tsl = 0
      /\ pos'.tp1 = FALSE /\ pos'.orig = EntryQty /\ pos'.qty = EntryQty /\ pos' # NoPosition
      /\ ws' = 0 /\ pp' = NoProtection /\ events' = <<>> /\ held' = EntryQty
  BY EnteredPlaces DEF Entered, TInv
<1>2. /\ orders'[used + 1] = Opened("STOP", trade, 0)
      /\ orders'[used + 2] = Opened("TP1", trade, Tp1Qty)
      /\ orders'[used + 3] = Opened("TP2", trade, Tp2Qty)
      /\ \A i \in OrderIds : i \notin {used + 1, used + 2, used + 3} => orders'[i] = orders[i]
  BY EnteredPlaces
<1>3. Named(pos)' = {used + 1, used + 2, used + 3}
  BY <1>1 DEF Named
<1>4. OnlyOpen(Named(pos))'
  BY <1>1, <1>2, <1>3 DEF OnlyOpen, Entered
<1>5. Protected'
  BY <1>1, <1>2, <1>4 DEF Protected, Names, Opened, Entered, Trades
<1>6. Untouched'
  BY <1>1, <1>2 DEF Untouched, IsOpen, Opened
<1> QED BY <1>1, <1>5, <1>6 DEF Live, Stage

LEMMA EnteredMoves ==
  ASSUME ConstantsAssumption, Undisturbed, TInv, OneTrade, pp = NoProtection, Entered, Next
  PROVE  EnterReturns \/ WsReadsPending \/ WsFinalizes
<1>1. ~Delivered /\ held > 0 /\ trade \in Trades
  <2>1. trade \in Trades /\ trade # 0 /\ held > 0
    BY DEF Entered, TInv, Trades, EntryQty
  <2>2. \A i \in 1 .. used : <<i>> # <<>>
    OBVIOUS
  <2>3. CASE ws = trade
    BY <2>1, <2>3 DEF Delivered
  <2>4. CASE \E i \in 1 .. used : events = <<i>>
    BY <2>1, <2>2, <2>4 DEF Delivered
  <2> QED BY <2>3, <2>4 DEF Entered
<1>2. ~Exchange
  <2>1. \A i \in OrderIds : ~Executes(i) /\ ~Expires(i)
    BY DEF Entered, Executes, Expires, IsOpen, OnlyOpen
  <2>2. ~ClosedByHand
    BY NobodyCloses
  <2>3. ~EventLost
    BY NobodyCloses
  <2> QED BY <2>1, <2>2, <2>3 DEF Exchange
<1>3. ~Check
  BY <1>1 DEF Check, CheckRetries, CheckGivesUp, CheckBreakeven, Aged, Entered, Undisturbed, IsStub, Stub
<1>4. ~Sweep
  BY <1>1, SweepFrame DEF Waited, Undisturbed
<1>5. ~Unlocked
  BY DEF Unlocked, Undisturbed
<1>6. ~Enter /\ ~EnterErrs /\ \A t \in Trades : ~PendingExpires(t)
  BY <1>1, NothingFails DEF Enter, EnterErrs, Cooled, PendingExpires, Waited, Undisturbed
<1>7. ~Fill
  BY DEF Fill, Handling, Entered, Event
<1> QED BY <1>2, <1>3, <1>4, <1>5, <1>6, <1>7
        DEF Next, Engine, UserData, WsTp1, WsTp1Closes, WsTp2, WsTrailingSl, WsHardSl,
            WsForceClosed, WsUntracked, WsIgnored

LEMMA EnteredStep ==
  ASSUME ConstantsAssumption, Undisturbed, TInv, OneTrade, pp = NoProtection, Entered, Next
  PROVE  Cycle'
<1> USE DEF cache, exchange
<1>1. CASE EnterReturns
  <2>1. pos' = Stub(trade) /\ eng' = 0 /\ pp' = NoProtection
    BY <1>1 DEF EnterReturns, Entered, OneTrade, Stub, NoPosition
  <2>2. Entered'
    BY <1>1, <2>1 DEF EnterReturns, Entered, OnlyOpen
  <2> QED BY <2>1, <2>2 DEF Cycle
<1>2. CASE WsReadsPending
  <2>1. PICK i \in 1 .. used : events = <<i>> /\ orders[i].kind = "ENTRY"
    BY <1>2 DEF WsReadsPending, Handling, Entered
  <2>2. Event = i /\ 1 \in DOMAIN events /\ events[1] = i /\ Tail(events) = <<>>
    BY <2>1 DEF Event
  <2>3. orders[i].trade = trade
    BY <2>1, <2>2 DEF OneTrade, EventsInOrder
  <2>4. ws' = trade /\ events' = <<>> /\ pp' = NoProtection
    BY <1>2, <2>2, <2>3 DEF WsReadsPending, Entered
  <2>5. UNCHANGED <<trade, pending, held, orders, pos, eng>>
    BY <1>2 DEF WsReadsPending
  <2>6. OnlyOpen({})'
    BY <2>5 DEF Entered, OnlyOpen
  <2>7. Entered'
    BY <2>4, <2>5, <2>6 DEF Entered
  <2> QED BY <2>4, <2>7 DEF Cycle
<1>3. CASE WsFinalizes
  BY <1>3, EnteredFinalizes DEF Cycle
<1> QED BY <1>1, <1>2, <1>3, EnteredMoves

-----------------------------------------------------------------------------
(* The protected position.                                                 *)

\* What the stream has to say next is about an order the position names.
LEMMA LiveEvent ==
  ASSUME ConstantsAssumption, TInv, Live, events # <<>>
  PROVE  /\ Event \in Named(pos) /\ orders[Event].kind # "ENTRY" /\ eng = 0 /\ held # EntryQty
         /\ pos.tp1 => Event # pos.tp
         /\ Event = pos.tp => HalfTaken \/ BothTaken
         /\ Event = pos.sl => StoppedOut
         /\ Event = pos.tp2 => RestTaken
         /\ Event = pos.tsl => RestStopped
<1> USE DEF EntryQty, Tp1Qty
<1>1. \A i, j : Head(<<i>>) = i /\ Head(<<i, j>>) = i /\ <<i>> # <<>>
  OBVIOUS
<1>2. Protected
  BY DEF Live
<1>3. CASE HalfTaken
  BY <1>1, <1>2, <1>3, Roles DEF HalfTaken, Protected, Named, Names, Event
<1>7. CASE BothTaken
  BY <1>1, <1>2, <1>7, Roles DEF BothTaken, Protected, Named, Names, Event
<1>4. CASE StoppedOut
  BY <1>1, <1>2, <1>4, Roles DEF StoppedOut, Protected, Named, Names, Event
<1>5. CASE RestTaken
  BY <1>1, <1>2, <1>5, Roles DEF RestTaken, Protected, Named, Names, Event
<1>6. CASE RestStopped
  BY <1>1, <1>2, <1>6, Roles DEF RestStopped, Protected, Named, Names, Event
<1> QED BY <1>3, <1>4, <1>5, <1>6, <1>7 DEF Live, Stage, Untouched, Trailing

\* What can happen to it at all.
LEMMA LiveMoves ==
  ASSUME ConstantsAssumption, Undisturbed, TInv, pp = NoProtection, Live, Next
  PROVE  \/ \E i \in OrderIds : Executes(i) \/ Expires(i)
         \/ EnterReturns
         \/ \E t \in Trades : PendingExpires(t)
         \/ \E stopped \in BOOLEAN : WsTp1(stopped)
         \/ WsTp2 \/ WsTrailingSl \/ WsHardSl
         \/ \E placed \in BOOLEAN : CheckBreakeven(placed)
<1>1. Protected /\ pos # NoPosition /\ pos.tp # 0 /\ pos.tp2 # 0 /\ ws = 0
  BY Roles DEF Live, Protected
<1>2. ~ClosedByHand
  BY NobodyCloses
<1>3. ~EventLost
  BY NobodyCloses
<1>4. ~Enter
  BY <1>1 DEF Enter
<1>5. ~EnterErrs
  BY NothingFails DEF EnterErrs
<1>6. ~WsReadsPending /\ ~WsFinalizes
  BY <1>1, LiveEvent DEF WsReadsPending, WsFinalizes, Handling
<1>7. ~WsTp1Closes /\ ~WsForceClosed /\ ~WsUntracked /\ ~WsIgnored
  BY <1>1, LiveEvent DEF WsTp1Closes, WsForceClosed, WsUntracked, WsIgnored, Fill, Handling
<1>8. \A stop, tp, tp2 \in BOOLEAN : ~CheckRetries(stop, tp, tp2)
  BY DEF CheckRetries
<1>9. \A ok \in BOOLEAN : ~CheckGivesUp(ok)
  BY DEF CheckGivesUp
<1>10. ~Sweep
  BY <1>1, SweepFrame DEF IsStub
<1>11. ~Unlocked
  BY DEF Unlocked, Undisturbed
<1> QED BY <1>2, <1>3, <1>4, <1>5, <1>6, <1>7, <1>8, <1>9, <1>10, <1>11
        DEF Next, Exchange, Engine, UserData, Check

\* A protected position stays one while the orders it names keep their roles.
LEMMA ProtectedKept ==
  ASSUME ConstantsAssumption, TInv, Orderly, Protected, pos' = pos, trade' = trade, ws' = 0,
         eng' \in {0, eng},
         orders'[pos.tp].qty = orders[pos.tp].qty, orders'[pos.tp2].qty = orders[pos.tp2].qty,
         \A i \in OrderIds : orders'[i].st = "open" => orders[i].st = "open"
  PROVE  Protected'
<1>1. \A i \in 1 .. used : /\ orders'[i].kind = orders[i].kind /\ orders'[i].trade = orders[i].trade
                           /\ i \in 1 .. used'
  BY Basics DEF Orderly, Same, Numbered, Ref
<1>2. \A i, k : Names(i, k) => Names(i, k)'
  BY <1>1 DEF Names
<1>3. OnlyOpen(Named(pos))'
  BY DEF OnlyOpen, Protected, Named
<1>4. ~IsOpen(pos.tp) => ~IsOpen(pos.tp)'
  BY Roles DEF IsOpen
<1> QED BY <1>2, <1>3, <1>4 DEF Protected

\* An order of the position executes.
LEMMA LiveExecutes ==
  ASSUME ConstantsAssumption, Undisturbed, TInv, Orderly, Live, NEW i \in OrderIds, Executes(i)
  PROVE  Live'
<1> USE DEF EntryQty, Tp1Qty, Tp2Qty
<1>1. /\ Protected /\ pos \in Position /\ held > 0 /\ eng = 0 /\ IsOpen(i)
      /\ pos.tp \in OrderIds /\ pos.tp2 \in OrderIds /\ pos.tp # pos.tp2
  BY Roles DEF Executes, Undisturbed, Live
<1>2. i \in Named(pos)
  BY <1>1 DEF IsOpen, Protected, OnlyOpen
<1>3. /\ pos' = pos /\ trade' = trade /\ eng' = 0 /\ ws' = 0 /\ events' = Append(events, i)
  BY <1>1 DEF Executes, cache, Protected
<1>4. /\ orders'[i].st = "filled" /\ i # 0
      /\ orders'[i].kind = orders[i].kind
      /\ orders[i].kind # "STOP" => /\ orders'[i].qty = Least(orders[i].qty, held)
                                    /\ held' = held - Least(orders[i].qty, held)
      /\ orders[i].kind = "STOP" => held' = 0
      /\ \A j \in OrderIds \ {i} : orders'[j] = orders[j]
  BY ExecutedOrders
<1>5. ~IsOpen(i)'
  BY <1>4 DEF IsOpen
<1>6. \A j \in OrderIds : j # i => (IsOpen(j)' <=> IsOpen(j))
  BY <1>4 DEF IsOpen
<1>7. held \in {2, 4}
  BY <1>1 DEF Live, Stage, Untouched, HalfTaken, BothTaken, StoppedOut, Trailing, RestTaken, RestStopped
<1>8. /\ orders'[pos.tp].qty = orders[pos.tp].qty /\ orders'[pos.tp2].qty = orders[pos.tp2].qty
      /\ i \in {pos.tp, pos.tp2} => held' = held - 2
  BY <1>1, <1>4, <1>7 DEF Protected, Names, Least
<1>9. Protected'
  BY <1>1, <1>3, <1>4, <1>8, ProtectedKept DEF IsOpen
<1>10. CASE Untouched
  <2>1. pos.sl \in OrderIds /\ pos.sl # pos.tp /\ pos.sl # pos.tp2 /\ ~pos.tp1 /\ pos.tsl = 0
    BY <1>1, <1>10, Roles DEF Untouched, Protected
  <2>2. events' = <<i>>
    BY <1>3, <1>10 DEF Untouched
  <2>3. CASE i = pos.sl
    <3>1. orders[i].kind = "STOP"
      BY <1>1, <2>1, <2>3 DEF Protected, Names
    <3> QED BY <1>3, <1>4, <1>5, <1>9, <2>1, <2>2, <2>3, <3>1 DEF Live, Stage, StoppedOut
  <2>4. CASE i = pos.tp
    BY <1>1, <1>3, <1>5, <1>6, <1>8, <1>9, <1>10, <2>1, <2>2, <2>4
       DEF Live, Stage, HalfTaken, Untouched
  <2>5. CASE i = pos.tp2
    <3>1. orders[i].kind = "TP2" /\ orders[pos.tp].st = "open" /\ orders[pos.tp].kind = "TP1"
          /\ orders[pos.tp].trade = orders[i].trade
      BY <1>1, <1>10, <2>5 DEF Protected, Names, Untouched, IsOpen
    <3> QED BY <1>1, <3>1 DEF Executes
  <2> QED BY <1>2, <1>4, <2>1, <2>3, <2>4, <2>5 DEF Named
<1>11. CASE HalfTaken
  <2>1. pos.sl \in OrderIds /\ pos.sl # pos.tp2 /\ ~pos.tp1 /\ pos.tsl = 0
    BY <1>1, <1>11, Roles DEF HalfTaken, Protected
  <2>2. events = <<pos.tp>> /\ events' = <<pos.tp, i>> /\ held = 2
    <3>1. Append(<<pos.tp>>, i) = <<pos.tp, i>>
      BY <1>1, Two
    <3> QED BY <1>3, <1>11, <3>1 DEF HalfTaken
  <2>3. i # pos.sl
    <3>1. 1 \in DOMAIN events /\ events[1] = pos.tp /\ orders[pos.tp].kind = "TP1"
      BY <1>1, <2>2 DEF Protected, Names
    <3>2. orders[pos.sl].kind = "STOP"
      BY <1>1, <2>1 DEF Protected, Names
    <3> QED BY <3>1, <3>2 DEF Executes, Reported, Undisturbed
  <2>4. i = pos.tp2
    BY <1>1, <1>2, <1>4, <1>11, <2>1, <2>3 DEF Named, HalfTaken
  <2>5. ~IsOpen(pos.tp)' /\ ~IsOpen(pos.tp2)'
    BY <1>1, <1>3, <1>5, <1>6, <1>11, <2>4 DEF HalfTaken
  <2>6. events' = <<pos'.tp, pos'.tp2>>
    BY <1>3, <2>2, <2>4
  <2>7. held' = 0 /\ ~pos'.tp1
    BY <1>3, <1>8, <2>1, <2>2, <2>4
  <2> QED BY <1>3, <1>9, <2>5, <2>6, <2>7 DEF Live, Stage, BothTaken
<1>12. CASE Trailing
  <2>1. pos.tsl \in OrderIds /\ pos.tsl # pos.tp2 /\ pos.tp1 /\ pos.sl = 0
    BY <1>1, <1>12, Roles DEF Trailing, Protected, IsOpen
  <2>2. events' = <<i>> /\ held = 2
    BY <1>3, <1>12 DEF Trailing
  <2>3. CASE i = pos.tsl
    <3>1. orders[i].kind = "STOP"
      BY <1>1, <1>4, <2>1, <2>3 DEF Protected, Names
    <3> QED BY <1>3, <1>4, <1>5, <1>9, <2>1, <2>2, <2>3, <3>1 DEF Live, Stage, RestStopped
  <2>4. CASE i = pos.tp2
    BY <1>3, <1>5, <1>8, <1>9, <2>1, <2>2, <2>4 DEF Live, Stage, RestTaken
  <2>5. i # pos.tp
    BY <1>1, <2>1 DEF Protected
  <2> QED BY <1>2, <1>4, <2>1, <2>3, <2>4, <2>5 DEF Named
<1> QED BY <1>1, <1>10, <1>11, <1>12 DEF Live, Stage, BothTaken, StoppedOut, RestTaken, RestStopped

\* With nothing left to close the exchange drops an order.
LEMMA LiveExpires ==
  ASSUME ConstantsAssumption, Undisturbed, TInv, Orderly, Live, NEW i \in OrderIds, Expires(i)
  PROVE  Live'
<1>1. /\ Protected /\ pos \in Position /\ held = 0
      /\ pos.tp \in OrderIds /\ pos.tp2 \in OrderIds
  BY Roles DEF Expires, Live
<1>2. pos' = pos /\ trade' = trade /\ eng' = eng /\ ws' = 0 /\ events' = events /\ held' = 0 /\ used' = used
  BY <1>1 DEF Expires, cache, Protected
<1>3. orders' = Cancelled({i})
  BY DEF Expires
<1>4. \A j \in OrderIds : /\ orders'[j].st = "open" => orders[j].st = "open"
                          /\ j \in 1 .. used => orders'[j].qty = orders[j].qty
  BY <1>3, CancelledOrders
<1>5. \A j \in OrderIds : IsOpen(j)' => IsOpen(j)
  BY <1>4 DEF IsOpen
<1>6. orders'[pos.tp].qty = orders[pos.tp].qty /\ orders'[pos.tp2].qty = orders[pos.tp2].qty
  BY <1>1, <1>4 DEF Protected, Names
<1>7. Protected'
  BY <1>1, <1>2, <1>4, <1>6, ProtectedKept
<1>8. BothTaken => BothTaken'
  BY <1>1, <1>2, <1>5 DEF BothTaken
<1>9. StoppedOut => StoppedOut'
  BY <1>1, <1>2, <1>5, Roles DEF StoppedOut
<1>10. RestTaken => RestTaken'
  BY <1>1, <1>2, <1>5 DEF RestTaken
<1>11. RestStopped => RestStopped'
  BY <1>1, <1>2, <1>5, Roles DEF RestStopped
<1> QED BY <1>1, <1>7, <1>8, <1>9, <1>10, <1>11
        DEF Live, Stage, Untouched, HalfTaken, Trailing, EntryQty, Tp1Qty

\* The stop is moved to the entry price before TP1's fill is handled.
LEMMA LiveBreakeven ==
  ASSUME ConstantsAssumption, Undisturbed, TInv, OneTrade, Orderly, Live,
         NEW placed \in BOOLEAN, CheckBreakeven(placed)
  PROVE  Live'
<1>1. /\ Protected /\ pos \in Position /\ ~pos.tp1 /\ pos.tsl = 0 /\ used \in Nat /\ held \in Nat
      /\ pos.tp \in OrderIds /\ pos.tp2 \in OrderIds /\ pos.sl \in OrderIds
      /\ pos.tp # pos.sl /\ pos.tp2 # pos.sl
      /\ pos.tp \in 1 .. used /\ pos.tp2 \in 1 .. used /\ pos.sl \in 1 .. used
  BY Roles, Counters DEF CheckBreakeven, Live, Protected, Names
<1>2. /\ orders' = IF placed THEN [Cancelled({pos.sl}) EXCEPT ![used + 1] = EntryStop(pos.trade)]
                             ELSE Cancelled({pos.sl})
      /\ held > 0 => placed
  <2>1. PICK missed \in Missed(Replaced(pos)) :
          /\ Fail(Cardinality(missed) + FaultIfNot(placed))
          /\ orders' = IF placed THEN [Cancelled(Replaced(pos) \ missed)
                                         EXCEPT ![used + 1] = EntryStop(pos.trade)]
                                 ELSE Cancelled(Replaced(pos) \ missed)
    BY DEF CheckBreakeven
  <2>2. Replaced(pos) = {pos.sl} /\ Replaced(pos) \in SUBSET Ref /\ FaultIfNot(placed) \in Nat
    BY <1>1 DEF Replaced, Position, FaultIfNot
  <2>3. missed = {} /\ FaultIfNot(placed) = 0
    BY <2>1, <2>2, NothingMissed
  <2>4. Replaced(pos) \ missed = {pos.sl}
    BY <2>2, <2>3
  <2>5. held > 0 => placed
    BY <1>1, <2>3 DEF FaultIfNot
  <2> QED BY <2>1, <2>4, <2>5
<1>3. /\ trade' = trade /\ eng' = eng /\ ws' = 0 /\ events' = events /\ held' = held
      /\ used' = (IF placed THEN used + 1 ELSE used)
      /\ placed => used + 1 \in OrderIds
  BY <1>1, Basics DEF CheckBreakeven, Protected, OrderIds
<1>4. /\ pos' # NoPosition /\ pos'.tp = pos.tp /\ pos'.tp2 = pos.tp2 /\ pos'.tsl = 0 /\ ~pos'.tp1
      /\ pos'.orig = pos.orig /\ pos'.qty = pos.qty
      /\ pos'.sl = IF placed THEN used + 1 ELSE pos.sl
  <2>1. CASE placed
    <3>1. pos' = [pos EXCEPT !.sl = used + 1, !.be = TRUE]
      BY <2>1 DEF CheckBreakeven
    <3> QED BY <1>1, <2>1, <3>1 DEF Position, NoPosition
  <2>2. CASE ~placed
    BY <1>1, <2>2 DEF CheckBreakeven
  <2> QED BY <2>1, <2>2
<1>5. Cancelled({pos.sl}) \in [OrderIds -> Placed \cup {NoOrder}]
  BY NumberedCancelled DEF TInv, Numbered, Orders
<1>6. \A j \in OrderIds :
        LET o == Cancelled({pos.sl})[j] IN
        /\ o.st = "open" => orders[j].st = "open" /\ j # pos.sl
        /\ j # pos.sl => o = orders[j]
  BY CancelledOrders
<1>7. /\ \A j \in OrderIds : j \in 1 .. used => orders'[j] = Cancelled({pos.sl})[j]
      /\ \A j \in OrderIds : ~(placed /\ j = used + 1) => orders'[j] = Cancelled({pos.sl})[j]
      /\ placed => orders'[used + 1] = Opened("STOP", trade, 0)
  <2>1. pos.trade = trade
    BY <1>1 DEF Protected, OneTrade
  <2> QED BY <1>1, <1>2, <1>3, <1>5, <2>1 DEF EntryStop
<1>8. orders'[pos.tp] = orders[pos.tp] /\ orders'[pos.tp2] = orders[pos.tp2]
  BY <1>1, <1>6, <1>7
<1>9. Protected'
  <2>1. \A i \in 1 .. used : /\ orders'[i].kind = orders[i].kind /\ orders'[i].trade = orders[i].trade
                             /\ i \in 1 .. used'
    BY <1>1, <1>3 DEF Orderly, Same
  <2>2. Names(pos.tp, "TP1")' /\ Names(pos.tp2, "TP2")'
    BY <1>1, <1>3, <1>4, <2>1 DEF Names, Protected
  <2>3. Names(pos.sl, "STOP")'
    BY <1>1, <1>3, <1>4, <1>7, <2>1 DEF Names, Protected, Opened
  <2>4. OnlyOpen(Named(pos))'
    <3> SUFFICES ASSUME NEW j \in OrderIds, orders'[j].st = "open"
                 PROVE  j \in Named(pos')
      BY DEF OnlyOpen
    <3>1. CASE placed /\ j = used + 1
      BY <1>1, <1>4, <3>1 DEF Named
    <3>2. CASE ~(placed /\ j = used + 1)
      <4>1. orders[j].st = "open" /\ j # pos.sl
        BY <1>6, <1>7, <3>2
      <4>2. j \in {pos.tp, pos.tp2, pos.tsl} /\ j # 0
        BY <1>1, <4>1 DEF Protected, OnlyOpen, Named
      <4> QED BY <1>1, <1>4, <4>2 DEF Named
    <3> QED BY <3>1, <3>2
  <2> QED BY <1>1, <1>3, <1>4, <1>8, <2>2, <2>3, <2>4 DEF Protected
<1>10. held > 0 => IsOpen(pos.sl)'
  BY <1>1, <1>2, <1>4, <1>7 DEF IsOpen, Opened
<1>11. (IsOpen(pos.tp)' <=> IsOpen(pos.tp)) /\ (IsOpen(pos.tp2)' <=> IsOpen(pos.tp2))
  BY <1>4, <1>8 DEF IsOpen
<1>12. ~StoppedOut
  <2>1. SUFFICES ASSUME events = <<pos.sl>>
                 PROVE  FALSE
    BY DEF StoppedOut
  <2>2. 1 \in DOMAIN events /\ orders[events[1]].kind = "STOP"
    BY <1>1, <2>1 DEF Protected, Names
  <2> QED BY <2>2 DEF CheckBreakeven, Reported, Undisturbed
<1>13. CASE Untouched
  BY <1>3, <1>4, <1>9, <1>10, <1>11, <1>13 DEF Untouched, Live, Stage, EntryQty
<1>14. CASE HalfTaken
  BY <1>3, <1>4, <1>9, <1>10, <1>11, <1>14 DEF HalfTaken, Live, Stage, EntryQty, Tp1Qty
<1>15. CASE BothTaken
  BY <1>3, <1>4, <1>9, <1>11, <1>15 DEF BothTaken, Live, Stage
<1> QED BY <1>1, <1>12, <1>13, <1>14, <1>15 DEF Live, Stage, Trailing, RestTaken, RestStopped

\* TP1's fill is handled.
LEMMA LiveTp1 ==
  ASSUME ConstantsAssumption, Undisturbed, TInv, OneTrade, Orderly, Live,
         NEW stopped \in BOOLEAN, WsTp1(stopped)
  PROVE  Live'
<1> USE DEF EntryQty, Tp1Qty
<1>1. /\ Protected /\ pos \in Position /\ ~pos.tp1 /\ pos.tsl = 0 /\ used \in Nat /\ held \in Nat
      /\ pos.tp \in OrderIds /\ pos.tp2 \in OrderIds /\ pos.sl \in OrderIds
      /\ pos.tp # pos.sl /\ pos.tp2 # pos.sl /\ pos.tp # pos.tp2
      /\ pos.tp \in 1 .. used /\ pos.tp2 \in 1 .. used
      /\ HalfTaken \/ BothTaken
  BY Roles, Counters, LiveEvent DEF WsTp1, Fill, Handling, Live, Protected, Names
<1>2. /\ orders' = IF stopped THEN [Cancelled({pos.sl}) EXCEPT ![used + 1] = EntryStop(pos.trade)]
                              ELSE Cancelled({pos.sl})
      /\ used' = (IF stopped THEN used + 1 ELSE used)
      /\ stopped => used < MaxOrders
      /\ held > 0 => stopped
  <2>1. PICK missed \in Missed(Replaced(pos)) :
          /\ Fail(Cardinality(missed) + FaultIfNot(stopped))
          /\ orders' = IF stopped THEN [Cancelled(Replaced(pos) \ missed)
                                          EXCEPT ![used + 1] = EntryStop(pos.trade)]
                                  ELSE Cancelled(Replaced(pos) \ missed)
          /\ used' = IF stopped THEN used + 1 ELSE used
          /\ stopped => used < MaxOrders
    BY DEF WsTp1
  <2>2. Replaced(pos) = {pos.sl} /\ Replaced(pos) \in SUBSET Ref /\ FaultIfNot(stopped) \in Nat
    BY <1>1 DEF Replaced, Position, FaultIfNot
  <2>3. missed = {} /\ FaultIfNot(stopped) = 0
    BY <2>1, <2>2, NothingMissed
  <2>4. Replaced(pos) \ missed = {pos.sl}
    BY <2>2, <2>3
  <2>5. held > 0 => stopped
    BY <1>1, <2>3 DEF FaultIfNot
  <2> QED BY <2>1, <2>4, <2>5
<1>3. /\ trade' = trade /\ eng' = 0 /\ ws' = 0 /\ events' = Tail(events) /\ held' = held
      /\ stopped => used + 1 \in OrderIds
  BY <1>1, <1>2, Basics DEF WsTp1, Fill, Protected, OrderIds, HalfTaken, BothTaken
<1>4. /\ pos' # NoPosition /\ pos'.tp = pos.tp /\ pos'.tp2 = pos.tp2 /\ pos'.sl = 0 /\ pos'.tp1
      /\ pos'.orig = pos.orig /\ pos'.qty = EntryQty - Tp1Qty
      /\ pos'.tsl = IF stopped THEN used + 1 ELSE 0
  <2>1. PICK b : pos' = [pos EXCEPT !.tp1 = TRUE, !.sl = 0,
                                    !.tsl = IF stopped THEN used + 1 ELSE @, !.be = b,
                                    !.qty = pos.orig - orders[Event].qty]
    BY DEF WsTp1
  <2>2. pos.orig = EntryQty /\ orders[Event].qty = Tp1Qty
    BY <1>1 DEF WsTp1, Protected
  <2> QED BY <1>1, <2>1, <2>2 DEF Position, NoPosition
<1>5. Cancelled({pos.sl}) \in [OrderIds -> Placed \cup {NoOrder}]
  BY NumberedCancelled DEF TInv, Numbered, Orders
<1>6. \A j \in OrderIds :
        LET o == Cancelled({pos.sl})[j] IN
        /\ o.st = "open" => orders[j].st = "open" /\ j # pos.sl
        /\ j # pos.sl => o = orders[j]
  BY CancelledOrders
<1>7. /\ \A j \in OrderIds : ~(stopped /\ j = used + 1) => orders'[j] = Cancelled({pos.sl})[j]
      /\ stopped => orders'[used + 1] = Opened("STOP", trade, 0)
  <2>1. pos.trade = trade
    BY <1>1 DEF Protected, OneTrade
  <2> QED BY <1>1, <1>2, <1>3, <1>5, <2>1 DEF EntryStop
<1>8. orders'[pos.tp] = orders[pos.tp] /\ orders'[pos.tp2] = orders[pos.tp2]
  <2>1. pos.tp # used + 1 /\ pos.tp2 # used + 1
    BY <1>1
  <2> QED BY <1>1, <1>6, <1>7, <2>1
<1>9. (IsOpen(pos.tp)' <=> IsOpen(pos.tp)) /\ (IsOpen(pos.tp2)' <=> IsOpen(pos.tp2))
  BY <1>4, <1>8 DEF IsOpen
<1>10. ~IsOpen(pos.tp)
  BY <1>1 DEF HalfTaken, BothTaken
<1>11. Protected'
  <2>1. \A i \in 1 .. used : /\ orders'[i].kind = orders[i].kind /\ orders'[i].trade = orders[i].trade
                             /\ i \in 1 .. used'
    BY <1>1 DEF Orderly, Same, Numbered, Ref
  <2>2. Names(pos.tp, "TP1")' /\ Names(pos.tp2, "TP2")'
    BY <1>1, <1>3, <1>4, <2>1 DEF Names, Protected
  <2>3. stopped => Names(pos.tsl, "STOP")'
    BY <1>1, <1>2, <1>3, <1>4, <1>7 DEF Names, Opened
  <2>4. OnlyOpen(Named(pos))'
    <3> SUFFICES ASSUME NEW j \in OrderIds, orders'[j].st = "open"
                 PROVE  j \in Named(pos')
      BY DEF OnlyOpen
    <3>1. CASE stopped /\ j = used + 1
      BY <1>1, <1>4, <3>1 DEF Named
    <3>2. CASE ~(stopped /\ j = used + 1)
      <4>1. orders[j].st = "open" /\ j # pos.sl
        BY <1>6, <1>7, <3>2
      <4>2. j \in {pos.tp, pos.tp2, pos.tsl} /\ j # 0
        BY <1>1, <4>1 DEF Protected, OnlyOpen, Named
      <4> QED BY <1>1, <1>4, <4>2 DEF Named
    <3> QED BY <3>1, <3>2
  <2> QED BY <1>1, <1>3, <1>4, <1>8, <1>9, <1>10, <2>2, <2>3, <2>4 DEF Protected
<1>12. CASE HalfTaken
  <2>1. stopped /\ events' = <<>>
    <3>1. \A a : Tail(<<a>>) = <<>>
      OBVIOUS
    <3> QED BY <1>2, <1>3, <1>12, <3>1 DEF HalfTaken
  <2>2. IsOpen(pos.tsl)'
    BY <1>1, <1>4, <1>7, <2>1 DEF IsOpen, Opened
  <2> QED BY <1>3, <1>4, <1>9, <1>11, <1>12, <2>1, <2>2 DEF HalfTaken, Live, Stage, Trailing
<1>13. CASE BothTaken
  <2>1. events' = <<pos'.tp2>>
    BY <1>1, <1>3, <1>4, <1>13, Two DEF BothTaken
  <2> QED BY <1>3, <1>4, <1>9, <1>11, <1>13, <2>1 DEF BothTaken, Live, Stage, RestTaken
<1> QED BY <1>1, <1>12, <1>13

\* The fill that ends the trade is handled: what is still open is cancelled.
LEMMA LiveCloses ==
  ASSUME ConstantsAssumption, Undisturbed, TInv, pp = NoProtection, Live,
         NEW ids \in SUBSET Ref, NEW r, Fill, Closes(ids, r), OnlyOpen(ids),
         NEW e, events = <<e>>, held = 0, eng = 0
  PROVE  Quiet' /\ pp' = NoProtection
<1>1. orders' = Cancelled(ids)
  <2>1. PICK missed \in Missed(ids) : orders' = Cancelled(ids \ missed) /\ Fail(Cardinality(missed))
    BY DEF Closes
  <2>2. Cardinality(missed) \in Nat
    BY MissedCount
  <2>3. Fail(Cardinality(missed) + 0)
    BY <2>1, <2>2
  <2>4. missed = {}
    BY <2>3, NothingMissed
  <2> QED BY <2>1, <2>4
<1>2. OnlyOpen({})'
  BY <1>1, CancelledOrders DEF OnlyOpen
<1>3. events' = <<>>
  <2>1. \A a : Tail(<<a>>) = <<>>
    OBVIOUS
  <2> QED BY <2>1 DEF Fill
<1>4. pos' = NoPosition /\ pp' = pp /\ UNCHANGED <<held, eng, ws>>
  BY DEF Closes, Persisted, Removed
<1>5. ws = 0
  BY DEF Live, Protected
<1> QED BY <1>2, <1>3, <1>4, <1>5 DEF Quiet

LEMMA LiveEnds ==
  ASSUME ConstantsAssumption, Undisturbed, TInv, pp = NoProtection, Live,
         WsTp2 \/ WsTrailingSl \/ WsHardSl
  PROVE  Quiet' /\ pp' = NoProtection
<1>1. /\ Protected /\ pos \in Position /\ OnlyOpen(Named(pos)) /\ Fill /\ events # <<>> /\ eng = 0
      /\ pos.tp # 0 /\ pos.tp2 # 0
  BY Roles, LiveEvent DEF WsTp2, WsTrailingSl, WsHardSl, Live, Protected, Fill, Handling
<1>2. \A i \in OrderIds : orders[i].st = "open" => i \in Named(pos) /\ IsOpen(i)
  BY <1>1 DEF OnlyOpen, Named, IsOpen
<1>3. /\ {pos.tsl} \in SUBSET Ref /\ {pos.tp2} \in SUBSET Ref /\ Siblings(pos) \in SUBSET Ref
  BY <1>1 DEF Position, Siblings
<1>4. CASE WsTp2
  <2>1. RestTaken /\ Closes({pos.tsl}, "TP2")
    BY <1>1, <1>4, LiveEvent DEF WsTp2
  <2>2. OnlyOpen({pos.tsl})
    BY <1>1, <1>2, <2>1 DEF RestTaken, OnlyOpen, Named, Protected
  <2> QED BY <1>1, <1>3, <2>1, <2>2, LiveCloses DEF RestTaken
<1>5. CASE WsTrailingSl
  <2>1. RestStopped /\ Closes({pos.tp2}, "TP_TRAIL")
    BY <1>1, <1>5, LiveEvent DEF WsTrailingSl
  <2>2. OnlyOpen({pos.tp2})
    BY <1>1, <1>2, <2>1 DEF RestStopped, OnlyOpen, Named, Protected
  <2> QED BY <1>1, <1>3, <2>1, <2>2, LiveCloses DEF RestStopped
<1>6. CASE WsHardSl
  <2>1. StoppedOut /\ \E r : Closes(Siblings(pos), r)
    BY <1>1, <1>6, LiveEvent DEF WsHardSl
  <2>2. OnlyOpen(Siblings(pos))
    BY <1>1, <1>2, <2>1 DEF StoppedOut, OnlyOpen, Named, Protected, Siblings
  <2> QED BY <1>1, <1>3, <2>1, <2>2, LiveCloses DEF StoppedOut
<1> QED BY <1>4, <1>5, <1>6

LEMMA LiveStep ==
  ASSUME ConstantsAssumption, Undisturbed, TInv, OneTrade, Orderly, pp = NoProtection, Live, Next
  PROVE  Cycle'
<1>1. ASSUME UNCHANGED <<orders, used, held, events, pos, pp, trade, ws>>, eng' \in {0, eng}
      PROVE  Cycle'
  <2>1. Protected'
    BY <1>1, ProtectedKept DEF Live, Protected
  <2>2. Stage'
    BY <1>1 DEF Live, Stage, Untouched, HalfTaken, BothTaken, StoppedOut, Trailing, RestTaken,
                RestStopped, IsOpen
  <2> QED BY <1>1, <2>1, <2>2 DEF Cycle, Live
<1>2. ASSUME NEW i \in OrderIds, Executes(i) \/ Expires(i)
      PROVE  Cycle'
  BY <1>2, LiveExecutes, LiveExpires DEF Cycle, Executes, Expires, cache
<1>3. CASE EnterReturns
  <2>1. pos # NoPosition
    BY DEF Live, Protected
  <2> QED BY <1>1, <1>3, <2>1 DEF EnterReturns, exchange
<1>4. CASE \E t \in Trades : PendingExpires(t)
  BY <1>1, <1>4 DEF PendingExpires, exchange
<1>5. ASSUME NEW stopped \in BOOLEAN, WsTp1(stopped)
      PROVE  Cycle'
  BY <1>5, LiveTp1 DEF Cycle, WsTp1
<1>6. CASE WsTp2 \/ WsTrailingSl \/ WsHardSl
  BY <1>6, LiveEnds DEF Cycle
<1>7. ASSUME NEW placed \in BOOLEAN, CheckBreakeven(placed)
      PROVE  Cycle'
  BY <1>7, LiveBreakeven DEF Cycle, CheckBreakeven
<1> QED BY <1>2, <1>3, <1>4, <1>5, <1>6, <1>7, LiveMoves

-----------------------------------------------------------------------------
(* The cycle, and what follows from it.                                    *)

LEMMA NextCycle ==
  ASSUME ConstantsAssumption, Undisturbed, TInv, OneTrade, Cycle, [Next]_vars
  PROVE  Cycle'
<1>1. CASE Next
  <2>1. Orderly
    BY NextType
  <2> QED BY <1>1, <2>1, QuietStep, EnteredStep, LiveStep DEF Cycle
<1>2. CASE UNCHANGED vars
  BY <1>2 DEF vars, exchange, cache, Cycle, Quiet, Entered, Live, Protected, Names, OnlyOpen, IsOpen,
              Stage, Untouched, HalfTaken, BothTaken, StoppedOut, Trailing, RestTaken, RestStopped
<1> QED BY <1>1, <1>2

LEMMA InitCycle == ASSUME ConstantsAssumption, Init PROVE Cycle
BY DEF Init, Cycle, Quiet, OnlyOpen, NoOrder

\* Calls that failed stay failed, lost events lost.
LEMMA FaultsGrow ==
  ASSUME ConstantsAssumption, UnlockedLoops = {}, TInv, Next
  PROVE  faults' >= faults /\ lost' >= lost
<1>1. faults \in Nat /\ lost \in Nat /\ \A n \in Nat : Fail(n) => faults' >= faults
  BY Counters DEF TInv, Fail, ConstantsAssumption
<1>2. \A b \in BOOLEAN : FaultIfNot(b) \in Nat
  BY DEF FaultIfNot
<1>3. ASSUME NEW ids \in SUBSET Ref, NEW n \in Nat,
             \E missed \in Missed(ids) : Fail(Cardinality(missed) + n)
      PROVE  faults' >= faults
  BY <1>1, <1>3, MissedCount
<1>4. CASE Exchange
  <2>1. ASSUME NEW i \in OrderIds, Executes(i) \/ Expires(i)
        PROVE  faults' = faults /\ lost' = lost
    BY <2>1 DEF Executes, Expires
  <2>2. ClosedByHand => faults' = faults /\ lost' = lost
    BY DEF ClosedByHand
  <2>3. EventLost => faults' = faults /\ lost' = lost + 1
    BY DEF EventLost
  <2> QED BY <1>1, <1>4, <2>1, <2>2, <2>3 DEF Exchange
<1>5. Engine => faults' >= faults /\ lost' >= lost
  BY <1>1 DEF Engine, Enter, EnterReturns, EnterErrs, PendingExpires
<1>6. ASSUME NEW t, Finalized(t)
      PROVE  faults' >= faults
  <2>1. CASE StopRefused
    BY <1>1, <2>1 DEF StopRefused, FaultIfNot
  <2>2. ASSUME NEW c \in BOOLEAN, TakeProfitRefused(t, c)
        PROVE  faults' >= faults
    BY <1>1, <2>2 DEF TakeProfitRefused, FaultIfNot
  <2>3. ASSUME NEW tp2 \in BOOLEAN, Activated(t, tp2)
        PROVE  faults' >= faults
    BY <1>1, <2>3 DEF Activated, FaultIfNot
  <2> QED BY <1>6, <2>1, <2>2, <2>3 DEF Finalized
<1>7. CASE UserData
  <2>1. WsReadsPending \/ WsIgnored => faults' >= faults /\ lost' >= lost
    BY <1>1 DEF WsReadsPending, WsIgnored
  <2>2. WsFinalizes => faults' >= faults /\ lost' >= lost
    BY <1>1, <1>6 DEF WsFinalizes
  <2>3. ASSUME NEW stopped \in BOOLEAN, WsTp1(stopped)
        PROVE  faults' >= faults /\ lost' >= lost
    <3>1. Replaced(pos) \in SUBSET Ref /\ FaultIfNot(stopped) \in Nat
      BY <2>3 DEF Replaced, WsTp1, TInv, Position, FaultIfNot
    <3>2. \E missed \in Missed(Replaced(pos)) : Fail(Cardinality(missed) + FaultIfNot(stopped))
      BY <2>3 DEF WsTp1
    <3> QED BY <1>1, <1>3, <2>3, <3>1, <3>2 DEF WsTp1
  <2>4. ASSUME NEW ids \in SUBSET Ref, NEW r, Closes(ids, r)
        PROVE  faults' >= faults /\ lost' >= lost
    <3>1. \E missed \in Missed(ids) : Fail(Cardinality(missed))
      BY <2>4 DEF Closes
    <3>2. \E missed \in Missed(ids) : Fail(Cardinality(missed) + 0)
      BY <3>1, MissedCount
    <3> QED BY <1>1, <1>3, <2>4, <3>2 DEF Closes
  <2>5. ASSUME WsTp1Closes \/ WsTp2 \/ WsTrailingSl \/ WsHardSl \/ WsForceClosed \/ WsUntracked
        PROVE  faults' >= faults /\ lost' >= lost
    <3>1. pos \in Position
      BY <2>5 DEF WsTp1Closes, WsTp2, WsTrailingSl, WsHardSl, WsForceClosed, WsUntracked, TInv
    <3>2. /\ {pos.sl, pos.tsl} \in SUBSET Ref /\ {pos.tsl} \in SUBSET Ref /\ {pos.tp2} \in SUBSET Ref
          /\ Siblings(pos) \in SUBSET Ref /\ {} \in SUBSET Ref
      BY <3>1 DEF Position, Siblings
    <3> QED BY <2>4, <2>5, <3>2
            DEF WsTp1Closes, WsTp2, WsTrailingSl, WsHardSl, WsForceClosed, WsUntracked
  <2> QED BY <1>7, <2>1, <2>2, <2>3, <2>5 DEF UserData
<1>8. CASE Check
  <2>1. ASSUME NEW stop \in BOOLEAN, NEW tp \in BOOLEAN, NEW tp2 \in BOOLEAN,
               CheckRetries(stop, tp, tp2)
        PROVE  faults' >= faults /\ lost' >= lost
    BY <1>1, <2>1 DEF CheckRetries, FaultIfNot
  <2>2. ASSUME NEW ok \in BOOLEAN, CheckGivesUp(ok)
        PROVE  faults' >= faults /\ lost' >= lost
    <3>1. CASE ok
      <4>1. \E missed \in Missed(Named(pos)) : Fail(Cardinality(missed))
        BY <2>2, <3>1 DEF CheckGivesUp
      <4>2. pos \in Position
        BY <2>2 DEF CheckGivesUp, TInv
      <4>3. \E missed \in Missed(Named(pos)) : Fail(Cardinality(missed) + 0)
        BY <4>1, <4>2, MissedCount, NamedType
      <4> QED BY <1>1, <1>3, <2>2, <4>2, <4>3, NamedType DEF CheckGivesUp
    <3>2. CASE ~ok
      BY <1>1, <2>2, <3>2 DEF CheckGivesUp, ForceFault
    <3> QED BY <3>1, <3>2
  <2>3. ASSUME NEW placed \in BOOLEAN, CheckBreakeven(placed)
        PROVE  faults' >= faults /\ lost' >= lost
    <3>1. Replaced(pos) \in SUBSET Ref /\ FaultIfNot(placed) \in Nat
      BY <2>3 DEF Replaced, CheckBreakeven, TInv, Position, FaultIfNot
    <3>2. \E missed \in Missed(Replaced(pos)) : Fail(Cardinality(missed) + FaultIfNot(placed))
      BY <2>3 DEF CheckBreakeven
    <3> QED BY <1>1, <1>3, <2>3, <3>1, <3>2 DEF CheckBreakeven
  <2> QED BY <1>8, <2>1, <2>2, <2>3 DEF Check
<1>9. CASE Sweep
  <2>1. SweepFinalizes => faults' >= faults /\ lost' >= lost
    BY <1>1, <1>6 DEF SweepFinalizes
  <2>2. SweepDropsStub => faults' >= faults /\ lost' >= lost
    BY <1>1 DEF SweepDropsStub
  <2>3. ASSUME NEW known \in BOOLEAN, NEW stop \in BOOLEAN, NEW tp \in BOOLEAN,
               SweepProtects(known, stop, tp)
        PROVE  faults' >= faults /\ lost' >= lost
    BY <1>1, <2>3 DEF SweepProtects, FaultIfNot
  <2> QED BY <1>9, <2>1, <2>2, <2>3 DEF Sweep
<1> QED BY <1>4, <1>5, <1>7, <1>8, <1>9 DEF Next, Unlocked

LEMMA CalmBefore ==
  ASSUME ConstantsAssumption, UnlockedLoops = {}, TInv, [Next]_vars, Calm'
  PROVE  Calm
<1>1. faults' >= faults /\ lost' >= lost /\ faults \in Nat /\ lost \in Nat
  BY FaultsGrow DEF vars, TInv, ConstantsAssumption
<1>2. Orderly
  BY NextType
<1>3. \A i \in 1 .. used : orders'[i].kind = orders[i].kind /\ i \in 1 .. used'
  BY <1>2, Basics DEF Orderly, Same, Numbered, Ref
<1> QED BY <1>1, <1>3 DEF Calm

LEMMA CycleInvariant ==
  ASSUME Prompt, UnlockedLoops = {}
  PROVE  Spec => [](TInv /\ OneTrade /\ (Calm => Cycle))
<1>1. Timely
  BY DEF Timely
<1>2. Init => Cycle
  BY InitCycle, ConstantsAssumption
<1>3. (TInv /\ OneTrade /\ Recorded) /\ (Calm => Cycle) /\ [Next]_vars => (Calm => Cycle)'
  BY NextCycle, CalmBefore, ConstantsAssumption DEF Undisturbed
<1> QED BY <1>1, <1>2, <1>3, OnceInvariant, PTL DEF Spec

LEMMA CycleNamesAll ==
  ASSUME ConstantsAssumption, TInv, Cycle
  PROVE  NoStrayOrders /\ CacheBacked /\ NeverNaked
<1> USE DEF EntryQty, Tp1Qty
<1>1. CASE Quiet
  BY <1>1 DEF Quiet, NoStrayOrders, CacheBacked, NeverNaked
<1>2. CASE Entered
  <2>1. NoStrayOrders
    BY <1>2 DEF Entered, NoStrayOrders, OnlyOpen, IsOpen
  <2>2. ~Delivered
    <3>1. trade \in Trades /\ trade # 0
      BY <1>2 DEF Entered, TInv, Trades
    <3>2. \A i \in 1 .. used : <<i>> # <<>>
      OBVIOUS
    <3>3. CASE ws = trade
      BY <3>1, <3>3 DEF Delivered
    <3>4. CASE \E i \in 1 .. used : events = <<i>>
      BY <3>2, <3>4 DEF Delivered
    <3> QED BY <1>2, <3>3, <3>4 DEF Entered
  <2> QED BY <2>1, <2>2 DEF CacheBacked, NeverNaked, Delivered
<1>3. CASE Live
  <2>1. Protected /\ pos # NoPosition /\ pos.tp \in OrderIds
    BY <1>3, Roles DEF Live, Protected
  <2>2. NoStrayOrders
    BY <2>1 DEF Protected, NoStrayOrders, OnlyOpen, IsOpen
  <2>3. \A a, b : <<a>> # <<>> /\ <<a, b>> # <<>>
    OBVIOUS
  <2>4. Untouched => CacheBacked /\ NeverNaked
    BY <2>1, Roles DEF Untouched, CacheBacked, NeverNaked, Stopped, Protected, Names
  <2>5. Trailing => CacheBacked /\ NeverNaked
    BY <2>1, Roles DEF Trailing, CacheBacked, NeverNaked, Stopped, Protected, Names, IsOpen
  <2>6. HalfTaken \/ BothTaken \/ StoppedOut \/ RestTaken \/ RestStopped => CacheBacked /\ NeverNaked
    BY <2>3 DEF HalfTaken, BothTaken, StoppedOut, RestTaken, RestStopped, CacheBacked, NeverNaked, Delivered
  <2> QED BY <1>3, <2>2, <2>4, <2>5, <2>6 DEF Live, Stage
<1> QED BY <1>1, <1>2, <1>3 DEF Cycle

\* Only the handlers of a reducing fill persist a result.
LEMMA ClosersOnly ==
  ASSUME Undisturbed, Next
  PROVE  closes' = closes \/ (Fill /\ pos # NoPosition)
<1> USE DEF history
<1>1. Exchange => closes' = closes
  BY DEF Exchange, Executes, Expires, ClosedByHand, EventLost
<1>2. Engine => closes' = closes
  BY DEF Engine, Enter, EnterReturns, EnterErrs, PendingExpires
<1>3. UserData => closes' = closes \/ (Fill /\ pos # NoPosition)
  BY DEF UserData, WsReadsPending, WsFinalizes, Finalized, WsTp1, WsTp1Closes, WsTp2, WsTrailingSl,
         WsHardSl, WsForceClosed, WsUntracked, WsIgnored
<1>4. Check => closes' = closes
  BY CheckFrame
<1>5. Sweep => closes' = closes
  BY SweepFrame
<1>6. ~Unlocked
  BY DEF Unlocked, Undisturbed
<1> QED BY <1>1, <1>2, <1>3, <1>4, <1>5, <1>6 DEF Next

LEMMA CloseIsClean ==
  ASSUME ConstantsAssumption, Undisturbed, TInv, Cycle, [Next]_vars
  PROVE  closes' = closes \/ OnlyOpen({})'
<1>1. CASE UNCHANGED vars
  BY <1>1 DEF vars, history
<1>2. CASE Next /\ (Quiet \/ Entered)
  <2>1. ~(Fill /\ pos # NoPosition)
    BY <1>2 DEF Quiet, Entered, Fill, Handling, Event
  <2> QED BY <1>2, <2>1, ClosersOnly
<1>3. CASE Next /\ Live
  <2>1. CASE WsTp2 \/ WsTrailingSl \/ WsHardSl
    BY <1>3, <2>1, LiveEnds DEF Cycle, Quiet
  <2>2. CASE ~(WsTp2 \/ WsTrailingSl \/ WsHardSl)
    BY <1>3, <2>2, LiveMoves
       DEF Cycle, Executes, Expires, EnterReturns, PendingExpires, WsTp1, CheckBreakeven, history
  <2> QED BY <2>1, <2>2
<1> QED BY <1>1, <1>2, <1>3 DEF Cycle

LEMMA CalmIsSafe ==
  ASSUME Prompt, UnlockedLoops = {}
  PROVE  Spec => [](Calm => NoStrayOrders /\ CacheBacked /\ NeverNaked)
<1>1. TInv /\ (Calm => Cycle) => (Calm => NoStrayOrders /\ CacheBacked /\ NeverNaked)
  BY CycleNamesAll, ConstantsAssumption
<1> QED BY <1>1, CycleInvariant, PTL

\* As long as nothing has gone wrong, over any number of trades, a live
\* position has its stop, or somebody is bound to place it: the handler whose
\* fill is on the way, the sweep.
THEOREM CycleIsSafe ==
  ASSUME Prompt, UnlockedLoops = {}
  PROVE  Spec => [](Calm => NeverNaked)
BY CalmIsSafe, PTL

\* And the position in the cache names every open order: no fill is taken
\* for a close by hand because its order was replaced or forgotten.
THEOREM CycleNamesOrders ==
  ASSUME Prompt, UnlockedLoops = {}
  PROVE  Spec => [](Calm => NoStrayOrders)
BY CalmIsSafe, PTL

\* And with nothing on its way or being handled, the cache holds a position
\* exactly when the exchange does.
THEOREM CycleIsBacked ==
  ASSUME Prompt, UnlockedLoops = {}
  PROVE  Spec => [](Calm => CacheBacked)
BY CalmIsSafe, PTL

\* And when a trade's result is persisted, no order of it is left open: each
\* ending cancels just the orders the handlers before it have left.
THEOREM ClosesClean ==
  ASSUME Prompt, UnlockedLoops = {}
  PROVE  Spec /\ []Calm => CleanClose
<1> DEFINE Clean == \A t \in Trades : closes'[t] > closes[t] =>
                      \A i \in OrderIds : orders'[i].st # "open"
<1>1. TInv /\ Calm /\ Calm' /\ (Calm => Cycle) /\ [Next]_vars => [Clean]_vars
  <2> SUFFICES ASSUME TInv, Calm, Calm', Cycle, [Next]_vars
               PROVE  Clean
    OBVIOUS
  <2>1. CASE OnlyOpen({})'
    BY <2>1 DEF OnlyOpen
  <2>2. CASE closes' = closes
    BY <2>2 DEF TInv
  <2> QED BY <2>1, <2>2, CloseIsClean, ConstantsAssumption DEF Undisturbed
<1> HIDE DEF Clean
<1>2. Spec /\ []Calm => [][Clean]_vars
  BY <1>1, CycleInvariant, PTL DEF Spec
<1> QED BY <1>2 DEF Clean, CleanClose

-----------------------------------------------------------------------------
(* The refinement of the ledger.  The fills the exchange knows of are those *)
(* the position and the stream know of, and the position's break-even flag *)
(* is up exactly when its stop has been moved.                             *)

\* What the position and the stream know of the trade's fills.
Taken ==
  {k \in Kinds \ {"ENTRY"} : \/ pos.tp1 /\ k = "TP1"
                            \/ \E n \in DOMAIN events : orders[events[n]].kind = k}

InAccount ==
  /\ \A i \in 1 .. used : orders[i].trade <= trade
  /\ Quiet => trade = 0 \/ closes[trade] = 1
  /\ Entered => Fills = {} /\ Own("STOP") = {}
  /\ Live => Fills = Taken /\ (~pos.tp1 => (pos.be <=> StopMoved))

LEMMA OwnKept ==
  ASSUME ConstantsAssumption, TInv, Orderly, trade' = trade, NEW k
  PROVE  /\ Own(k) = {i \in Own(k)' : i \in 1 .. used}
         /\ Own(k)' \in SUBSET (1 .. used') /\ used \in Nat /\ used' \in Nat /\ used <= used'
BY Basics DEF Own, Orderly, Same, Numbered, Ref

\* Orders of an older trade stay that, and new ones are of the last one.
LEMMA OwnersKept ==
  ASSUME ConstantsAssumption, TInv, Orderly, trade' \in {trade, trade + 1}, InAccount,
         \A i \in 1 .. used' : i > used => orders'[i].trade = trade'
  PROVE  \A i \in 1 .. used' : orders'[i].trade <= trade'
<1>1. /\ used \in Nat /\ used' \in Nat /\ used <= used' /\ trade \in Nat
      /\ \A i \in 1 .. used : orders'[i].trade = orders[i].trade
  BY Basics DEF Orderly, Same, Numbered, Ref, TInv
<1>2. \A i \in 1 .. used : orders[i].trade \in Nat /\ orders[i].trade <= trade
  BY Basics DEF InAccount, Placed, Order, Trades
<1> QED BY <1>1, <1>2

\* The fills change only when an order fills.
LEMMA FillsKept ==
  ASSUME ConstantsAssumption, TInv, Orderly, trade' = trade,
         \A i \in 1 .. used : orders'[i].st = "filled" <=> orders[i].st = "filled",
         \A i \in 1 .. used' : i > used => orders'[i].st # "filled"
  PROVE  Fills' = Fills
<1>1. ASSUME NEW k \in Kinds
      PROVE  (\E i \in Own(k) : orders[i].st = "filled")' <=> \E i \in Own(k) : orders[i].st = "filled"
  <2>1. /\ Own(k) = {i \in Own(k)' : i \in 1 .. used} /\ Own(k)' \in SUBSET (1 .. used')
        /\ used \in Nat /\ used' \in Nat /\ used <= used'
    BY OwnKept
  <2> QED BY <2>1
<1> QED BY <1>1 DEF Fills

LEMMA CancelledFills ==
  ASSUME ConstantsAssumption, TInv, NEW ids
  PROVE  \A i \in OrderIds : Cancelled(ids)[i].st = "filled" <=> orders[i].st = "filled"
<1> TAKE i \in OrderIds
<1>1. CASE i \in ids /\ IsOpen(i)
  <2>1. orders[i] \in Placed /\ Cancelled(ids)[i] = [orders[i] EXCEPT !.st = "cancelled"]
    BY <1>1, Basics DEF Cancelled
  <2> QED BY <1>1, <2>1 DEF Placed, Order, IsOpen
<1>2. CASE ~(i \in ids /\ IsOpen(i))
  BY <1>2 DEF Cancelled
<1> QED BY <1>1, <1>2

\* Orders are cancelled and a stop placed, or not.
LEMMA ReplacementKeeps ==
  ASSUME ConstantsAssumption, TInv, Orderly, InAccount, trade' = trade, trade \in Trades,
         NEW ids, NEW placed \in BOOLEAN, placed => used < MaxOrders,
         orders' = IF placed THEN [Cancelled(ids) EXCEPT ![used + 1] = EntryStop(trade)]
                             ELSE Cancelled(ids),
         used' = IF placed THEN used + 1 ELSE used
  PROVE  /\ Fills' = Fills
         /\ \A i \in 1 .. used' : orders'[i].trade <= trade'
         /\ Own("STOP")' = IF placed THEN Own("STOP") \cup {used + 1} ELSE Own("STOP")
<1>1. /\ used \in Nat /\ MaxOrders \in Nat /\ used <= MaxOrders
      /\ Cancelled(ids) \in [OrderIds -> Placed \cup {NoOrder}]
  BY Basics, NumberedCancelled DEF TInv, Numbered, Orders
<1>2. /\ \A i \in OrderIds : i <= used => orders'[i] = Cancelled(ids)[i]
      /\ placed => orders'[used + 1] = Opened("STOP", trade, 0)
  BY <1>1 DEF EntryStop, OrderIds
<1>3. \A i \in 1 .. used : i \in OrderIds /\ i <= used
  BY <1>1 DEF OrderIds
<1>4. \A i \in 1 .. used' : i > used => placed /\ i = used + 1
  BY <1>1
<1>5. Fills' = Fills
  BY <1>2, <1>3, <1>4, CancelledFills, FillsKept DEF Opened
<1>6. \A i \in 1 .. used' : orders'[i].trade <= trade'
  BY <1>2, <1>4, OwnersKept DEF Opened
<1>7. Own("STOP")' = IF placed THEN Own("STOP") \cup {used + 1} ELSE Own("STOP")
  <2>1. Own("STOP") = {i \in Own("STOP")' : i \in 1 .. used} /\ Own("STOP")' \in SUBSET (1 .. used')
    BY OwnKept
  <2>2. placed => used + 1 \in Own("STOP")'
    BY <1>1, <1>2 DEF Own, Opened
  <2> QED BY <1>1, <1>4, <2>1, <2>2
<1> QED BY <1>5, <1>6, <1>7

\* Steps the ledger does not see.
LEMMA LedgerStutters ==
  ASSUME UNCHANGED <<trade, held, closes, reason>>, Fills' = Fills, StopMoved' = StopMoved
  PROVE  [Ledger!LedgerNext]_(Ledger!ledgerVars)
BY DEF Ledger!ledgerVars

LEMMA SameAccount ==
  ASSUME UNCHANGED <<orders, used, trade>>
  PROVE  Fills' = Fills /\ Own("STOP")' = Own("STOP") /\ StopMoved' = StopMoved
BY DEF Fills, Own, StopMoved

LEMMA QuietLedger ==
  ASSUME ConstantsAssumption, Undisturbed, TInv, OneTrade, Orderly, InAccount, Quiet, Next
  PROVE  InAccount' /\ [Ledger!LedgerNext]_(Ledger!ledgerVars)
<1> USE DEF cache, exchange, history
<1>1. CASE Enter
  <2>1. /\ used \in Nat /\ used' = used + 1 /\ trade \in Nat /\ trade' = trade + 1
        /\ orders'[used + 1] = Filled("ENTRY", trade + 1, EntryQty)
        /\ pos' = NoPosition /\ held' = EntryQty /\ UNCHANGED <<closes, reason>>
    BY <1>1, Basics, AcceptedOne DEF Enter, Quiet, TInv, EntryQty
  <2>2. \A i \in 1 .. used' : orders'[i].trade <= trade'
    BY <2>1, OwnersKept DEF Filled
  <2>3. \A i \in 1 .. used' : orders'[i].trade = trade' => i = used + 1
    <3>1. \A i \in 1 .. used : /\ orders'[i].trade = orders[i].trade
                               /\ orders[i].trade \in Nat /\ orders[i].trade <= trade
      BY Basics DEF InAccount, Orderly, Same, Placed, Order, Trades
    <3> QED BY <2>1, <3>1
  <2>4. orders'[used + 1].kind = "ENTRY"
    BY <2>1 DEF Filled
  <2>5. \A k \in Kinds \ {"ENTRY"} : Own(k)' = {}
    BY <2>3, <2>4 DEF Own
  <2>6. Fills' = {} /\ Own("STOP")' = {} /\ StopMoved' = FALSE
    BY <2>5 DEF Fills, Kinds, StopMoved
  <2>7. ~Quiet' /\ ~Live'
    BY <2>1 DEF Quiet, Live, Protected, EntryQty
  <2>8. Ledger!Opens
    BY <1>1, <2>1, <2>6 DEF Ledger!Opens, Enter, Quiet, InAccount
  <2> QED BY <2>2, <2>6, <2>7, <2>8 DEF InAccount, Ledger!LedgerNext
<1>2. CASE \E t \in Trades : PendingExpires(t)
  <2>1. UNCHANGED <<orders, used, trade, held, closes, reason, pos>>
    BY <1>2 DEF PendingExpires
  <2>2. ~Entered' /\ ~Live'
    BY <2>1 DEF Quiet, Entered, Live, Protected, EntryQty
  <2>3. Quiet' => Quiet
    BY <1>2 DEF PendingExpires, Quiet, OnlyOpen
  <2> QED BY <2>1, <2>2, <2>3, SameAccount, LedgerStutters DEF InAccount
<1> QED BY <1>1, <1>2, QuietMoves

LEMMA EnteredLedger ==
  ASSUME ConstantsAssumption, Undisturbed, TInv, OneTrade, Orderly, pp = NoProtection,
         InAccount, Entered, Next
  PROVE  InAccount' /\ [Ledger!LedgerNext]_(Ledger!ledgerVars)
<1> USE DEF cache, exchange, history
<1>1. CASE EnterReturns \/ WsReadsPending
  <2>1. UNCHANGED <<orders, used, trade, held, closes, reason>>
    BY <1>1 DEF EnterReturns, WsReadsPending
  <2>2. pos' = NoPosition \/ pos' = Stub(trade)
    BY <1>1 DEF EnterReturns, WsReadsPending, Entered, OneTrade
  <2>3. ~Live'
    BY <2>2 DEF Live, Protected, Names, Stub
  <2>4. ~Quiet'
    BY <2>1 DEF Entered, Quiet, EntryQty
  <2> QED BY <2>1, <2>3, <2>4, SameAccount, LedgerStutters DEF InAccount
<1>2. CASE WsFinalizes
  <2>1. /\ used \in Nat /\ used' = used + 3 /\ used + 3 <= MaxOrders
        /\ orders'[used + 1] = Opened("STOP", trade, 0)
        /\ orders'[used + 2] = Opened("TP1", trade, Tp1Qty)
        /\ orders'[used + 3] = Opened("TP2", trade, Tp2Qty)
        /\ \A i \in OrderIds : i \notin {used + 1, used + 2, used + 3} => orders'[i] = orders[i]
        /\ pos'.sl = used + 1 /\ pos'.tp = used + 2 /\ pos'.tp1 = FALSE /\ pos'.be = FALSE
        /\ pos' # NoPosition
        /\ trade' = trade /\ events' = <<>> /\ held' = EntryQty
        /\ closes' = closes /\ reason' = reason
    BY <1>2, EnteredPlaces
  <2>2. \A i \in 1 .. used' : i > used => i \in {used + 1, used + 2, used + 3}
    BY <2>1
  <2>3. \A i \in 1 .. used : i \in OrderIds /\ i \notin {used + 1, used + 2, used + 3}
    BY <2>1 DEF OrderIds
  <2>4. Fills' = {}
    BY <2>1, <2>2, <2>3, FillsKept DEF Opened, InAccount
  <2>5. \A i \in 1 .. used' : orders'[i].trade <= trade'
    BY <2>1, <2>2, OwnersKept DEF Opened
  <2>6. Own("STOP")' = {used + 1}
    <3>1. Own("STOP") = {i \in Own("STOP")' : i \in 1 .. used} /\ Own("STOP")' \in SUBSET (1 .. used')
      BY <2>1, OwnKept
    <3>2. Own("STOP") = {}
      BY DEF InAccount
    <3>3. used + 1 \in Own("STOP")' /\ used + 2 \notin Own("STOP")' /\ used + 3 \notin Own("STOP")'
      BY <2>1 DEF Own, Opened
    <3> QED BY <2>1, <2>2, <3>1, <3>2, <3>3
  <2>7. StopMoved' = FALSE /\ StopMoved = FALSE
    BY <2>6 DEF StopMoved, InAccount
  <2>8. Taken' = {}
    BY <2>1 DEF Taken
  <2>9. ~Quiet' /\ ~Entered'
    BY <2>1 DEF Quiet, Entered, Stub
  <2>10. held' = held /\ Fills = {}
    BY <2>1 DEF Entered, InAccount
  <2> QED BY <2>1, <2>4, <2>5, <2>7, <2>8, <2>9, <2>10, LedgerStutters DEF InAccount
<1> QED BY <1>1, <1>2, EnteredMoves

\* The trade under way has no result yet.
LEMMA LiveUnrecorded ==
  ASSUME ConstantsAssumption, TInv, OneTrade, Recorded, Live
  PROVE  trade \in Trades /\ trade > 0 /\ pos \in Position /\ pos.trade = trade /\ closes[trade] = 0
<1>1. trade \in Trades /\ pos \in Position /\ pos.trade = trade /\ pos # NoPosition
  BY DEF Live, Protected, OneTrade, TInv, Position
<1>2. closes[trade] \in Nat /\ closes[trade] <= 1 /\ closes[trade] # 1
  BY <1>1 DEF Recorded, Over, TInv
<1> QED BY <1>1, <1>2 DEF Trades

\* While the position stays and its stage is one of a protected one.
LEMMA StillLive == ASSUME pos' # NoPosition, pos'.tp # 0 PROVE ~Quiet' /\ ~Entered'
BY DEF Quiet, Entered, Stub

\* An order that executes is the ledger's next fill.
LEMMA ExecutesLedger ==
  ASSUME ConstantsAssumption, Undisturbed, TInv, OneTrade, Orderly, InAccount, Live,
         NEW i \in OrderIds, Executes(i)
  PROVE  InAccount' /\ [Ledger!LedgerNext]_(Ledger!ledgerVars)
<1> USE DEF EntryQty, Tp1Qty, Tp2Qty, cache, history
<1>1. /\ Protected /\ pos \in Position /\ IsOpen(i) /\ held > 0 /\ pos # NoPosition
      /\ pos.tp \in OrderIds /\ pos.tp2 \in OrderIds /\ pos.tp # pos.tp2 /\ pos.tp # 0
      /\ used \in Nat /\ MaxOrders \in Nat /\ used <= MaxOrders
  BY Roles, Basics DEF Live, Protected, Executes
<1>2. /\ i \in 1 .. used /\ used' = used /\ i # 0
      /\ orders'[i].st = "filled"
      /\ orders'[i].kind = orders[i].kind /\ orders'[i].trade = orders[i].trade
      /\ orders[i].kind # "STOP" => held' = held - Least(orders[i].qty, held)
      /\ orders[i].kind = "STOP" => held' = 0
      /\ \A j \in OrderIds \ {i} : orders'[j] = orders[j]
  BY ExecutedOrders
<1>3. /\ UNCHANGED <<pos, trade, closes, reason>> /\ events' = Append(events, i)
  BY DEF Executes
<1>4. i \in Named(pos) /\ orders[i].kind \in {"STOP", "TP1", "TP2"} /\ orders[i].trade = trade
  <2>1. i \in Named(pos)
    BY <1>1 DEF IsOpen, Protected, OnlyOpen
  <2> QED BY <1>1, <2>1 DEF Named, Protected, Names
<1>5. Fills' = Fills \cup {orders[i].kind}
  <2>1. ASSUME NEW k \in Kinds
        PROVE  Own(k)' = Own(k)
    BY <1>2, <1>3, OwnKept
  <2>2. i \in Own(orders[i].kind)
    BY <1>2, <1>4 DEF Own
  <2>3. ASSUME NEW k \in Kinds
        PROVE  (\E j \in Own(k) : orders[j].st = "filled")' <=>
                 (\E j \in Own(k) : orders[j].st = "filled") \/ k = orders[i].kind
    <3>1. \A j \in Own(k) : j \in OrderIds /\ orders[j].kind = k
      BY <1>1 DEF Own, OrderIds
    <3> QED BY <1>2, <2>1, <2>2, <3>1
  <2> QED BY <1>4, <2>3 DEF Fills, Kinds
<1>6. Taken' = Taken \cup {orders[i].kind}
  <2>1. events \in Seq(1 .. used) /\ Len(events) \in Nat /\ DOMAIN events = 1 .. Len(events)
    BY LenProperties DEF TInv
  <2>2. /\ DOMAIN events' = 1 .. Len(events) + 1 /\ events'[Len(events) + 1] = i
        /\ \A n \in DOMAIN events : events'[n] = events[n]
    BY <1>2, <1>3, <2>1, AppendProperties, LenProperties
  <2>3. \A n \in DOMAIN events' : n \in DOMAIN events \/ n = Len(events) + 1
    BY <2>1, <2>2
  <2>4. \A n \in DOMAIN events : n \in DOMAIN events' /\ Len(events) + 1 \in DOMAIN events'
    BY <2>1, <2>2
  <2>5. Len(events) + 1 \in DOMAIN events'
    BY <2>1, <2>2
  <2>6. \A n \in DOMAIN events : orders'[events'[n]].kind = orders[events[n]].kind
    BY <2>2, KindsKept
  <2>7. orders'[events'[Len(events) + 1]].kind = orders[i].kind
    BY <1>2, <2>2
  <2>8. \A k : (\E n \in DOMAIN events' : orders'[events'[n]].kind = k) <=>
                 (\E n \in DOMAIN events : orders[events[n]].kind = k) \/ k = orders[i].kind
    BY <2>3, <2>4, <2>5, <2>6, <2>7
  <2> QED BY <1>3, <1>4, <2>8 DEF Taken, Kinds
<1>7. StopMoved' = StopMoved
  <2>1. Own("STOP")' = Own("STOP")
    BY <1>2, <1>3, OwnKept
  <2> QED BY <2>1 DEF StopMoved
<1>8. \A j \in 1 .. used' : orders'[j].trade <= trade'
  BY <1>1, <1>2, <1>3, OwnersKept
<1>9. InAccount'
  BY <1>1, <1>3, <1>5, <1>6, <1>7, <1>8, StillLive DEF InAccount
<1>10. Fills = Taken
  BY DEF InAccount
<1>11. CASE i = pos.tp
  <2>1. Untouched
    BY <1>1, <1>11 DEF Live, Stage, HalfTaken, BothTaken, StoppedOut, Trailing, RestTaken,
                       RestStopped, Protected
  <2>2. Fills = {}
    BY <1>10, <2>1 DEF Taken, Untouched
  <2>3. held = 4 /\ held' = 2 /\ orders[i].kind = "TP1"
    BY <1>1, <1>2, <1>11, <2>1 DEF Untouched, Protected, Names, Least
  <2>4. Ledger!TakesHalf
    BY <1>3, <1>5, <1>7, <2>2, <2>3 DEF Ledger!TakesHalf, Ledger!Reduced
  <2> QED BY <1>9, <2>4 DEF Ledger!LedgerNext
<1>12. CASE i = pos.tp2
  <2>1. orders[i].kind = "TP2" /\ orders[pos.tp].kind = "TP1" /\ orders[pos.tp].trade = orders[i].trade
    BY <1>1, <1>12 DEF Protected, Names
  <2>2. ~IsOpen(pos.tp)
    BY <1>1, <2>1 DEF Executes, IsOpen
  <2>3. (HalfTaken \/ Trailing) /\ held = 2
    BY <1>1, <2>2 DEF Live, Stage, Untouched, HalfTaken, Trailing, BothTaken, StoppedOut, RestTaken,
                      RestStopped
  <2>4. Fills = {"TP1"}
    <3>1. CASE HalfTaken
      <4>1. ~pos.tp1 /\ events = <<pos.tp>>
        BY <3>1 DEF HalfTaken
      <4>2. DOMAIN events = {1} /\ events[1] = pos.tp
        BY <4>1
      <4> QED BY <1>10, <2>1, <4>1, <4>2 DEF Taken, Kinds
    <3>2. CASE Trailing
      BY <1>10, <3>2 DEF Taken, Trailing, Kinds
    <3> QED BY <2>3, <3>1, <3>2
  <2>5. held' = 0
    BY <1>1, <1>2, <1>12, <2>1, <2>3 DEF Protected, Least
  <2>6. Ledger!TakesRest
    BY <1>3, <1>5, <1>7, <2>1, <2>3, <2>4, <2>5 DEF Ledger!TakesRest, Ledger!Reduced
  <2> QED BY <1>9, <2>6 DEF Ledger!LedgerNext
<1>13. CASE i \in {pos.sl, pos.tsl}
  <2>1. orders[i].kind = "STOP" /\ held' = 0
    BY <1>1, <1>2, <1>13 DEF Protected, Names
  <2>2. \A n \in DOMAIN events : orders[events[n]].kind \notin {"TP1", "TP2"}
    BY <2>1 DEF Executes, Reported, Undisturbed
  <2>3. events = <<>> \/ \E e : events = <<e>> /\ e = pos.tp
    BY <1>1 DEF Live, Stage, Untouched, HalfTaken, Trailing, BothTaken, StoppedOut, RestTaken, RestStopped
  <2>4. events = <<>>
    <3>1. ASSUME NEW e, events = <<e>>, e = pos.tp
          PROVE  FALSE
      <4>1. 1 \in DOMAIN events /\ events[1] = pos.tp
        BY <3>1
      <4> QED BY <1>1, <2>2, <4>1 DEF Protected, Names
    <3> QED BY <2>3, <3>1
  <2>5. Fills \subseteq {"TP1"}
    BY <1>10, <2>4 DEF Taken
  <2>6. Ledger!StopsOut
    <3>1. held' = held - held
      BY <2>1 DEF TInv
    <3> QED BY <1>1, <1>3, <1>5, <1>7, <2>1, <2>5, <3>1 DEF Ledger!StopsOut, Ledger!Reduced
  <2> QED BY <1>9, <2>6 DEF Ledger!LedgerNext
<1> QED BY <1>4, <1>11, <1>12, <1>13 DEF Named

\* The exchange drops an order, the engine returns, a pending entry expires.
LEMMA AsideLedger ==
  ASSUME ConstantsAssumption, Undisturbed, TInv, OneTrade, Orderly, InAccount, Live,
         \/ \E i \in OrderIds : Expires(i)
         \/ EnterReturns
         \/ \E t \in Trades : PendingExpires(t)
  PROVE  InAccount' /\ [Ledger!LedgerNext]_(Ledger!ledgerVars)
<1> USE DEF exchange, cache, history
<1>1. /\ pos \in Position /\ pos # NoPosition /\ pos.tp # 0
      /\ \A i \in 1 .. used : i \in OrderIds
  BY Roles, Basics DEF Live, Protected, OrderIds
<1>2. UNCHANGED <<used, trade, held, events, pos, closes, reason>>
  BY <1>1 DEF Expires, EnterReturns, PendingExpires
<1>3. \A i \in 1 .. used : orders'[i].st = "filled" <=> orders[i].st = "filled"
  BY <1>1, CancelledFills DEF Expires, EnterReturns, PendingExpires
<1>4. \A i \in 1 .. used' : i <= used
  BY <1>2
<1>5. Fills' = Fills
  BY <1>2, <1>3, <1>4, Basics, FillsKept
<1>6. Own("STOP")' = Own("STOP")
  BY <1>2, OwnKept
<1>7. StopMoved' = StopMoved
  BY <1>6 DEF StopMoved
<1>8. Taken' = Taken
  <2>1. \A n \in DOMAIN events : orders'[events[n]].kind = orders[events[n]].kind
    BY KindsKept
  <2> QED BY <1>2, <2>1 DEF Taken
<1>9. \A i \in 1 .. used' : orders'[i].trade <= trade'
  BY <1>2, <1>4, Basics, OwnersKept
<1> QED BY <1>1, <1>2, <1>5, <1>7, <1>8, <1>9, StillLive, LedgerStutters DEF InAccount

\* The stop is replaced: the ledger's stop moves, or has moved before.
LEMMA ReplacesLedger ==
  ASSUME ConstantsAssumption, TInv, OneTrade, Recorded, Orderly, InAccount, Live,
         ~pos.tp1, "STOP" \notin Fills, NEW ids, NEW placed \in BOOLEAN, placed => used < MaxOrders,
         orders' = IF placed THEN [Cancelled(ids) EXCEPT ![used + 1] = EntryStop(pos.trade)]
                             ELSE Cancelled(ids),
         used' = (IF placed THEN used + 1 ELSE used),
         UNCHANGED <<trade, held, closes, reason>>
  PROVE  /\ Fills' = Fills /\ \A i \in 1 .. used' : orders'[i].trade <= trade'
         /\ StopMoved' = (StopMoved \/ placed)
         /\ [Ledger!LedgerNext]_(Ledger!ledgerVars)
<1>1. /\ trade \in Trades /\ trade > 0 /\ pos.trade = trade /\ closes[trade] = 0
      /\ used \in Nat /\ pos.sl \in 1 .. used /\ pos.sl \in Own("STOP")
  BY LiveUnrecorded, Basics DEF Live, Protected, Names, Own
<1>2. /\ Fills' = Fills /\ \A i \in 1 .. used' : orders'[i].trade <= trade'
      /\ Own("STOP")' = IF placed THEN Own("STOP") \cup {used + 1} ELSE Own("STOP")
  BY <1>1, ReplacementKeeps
<1>3. placed => StopMoved'
  BY <1>1, <1>2 DEF StopMoved
<1>4. ~placed => StopMoved' = StopMoved
  BY <1>2 DEF StopMoved
<1>5. StopMoved' \in BOOLEAN /\ StopMoved \in BOOLEAN
  BY DEF StopMoved
<1>6. StopMoved' = (StopMoved \/ placed)
  BY <1>3, <1>4, <1>5
<1>7. CASE StopMoved' = StopMoved
  BY <1>2, <1>6, <1>7, LedgerStutters
<1>8. CASE StopMoved' # StopMoved
  <2>1. StopMoved' = TRUE /\ ~StopMoved
    BY <1>5, <1>6, <1>8
  <2>2. Ledger!Moves
    BY <1>1, <1>2, <2>1 DEF Ledger!Moves
  <2> QED BY <1>2, <1>6, <2>2 DEF Ledger!LedgerNext
<1> QED BY <1>7, <1>8

LEMMA BreakevenLedger ==
  ASSUME ConstantsAssumption, Undisturbed, TInv, OneTrade, Recorded, Orderly, InAccount, Live,
         NEW placed \in BOOLEAN, CheckBreakeven(placed)
  PROVE  InAccount' /\ [Ledger!LedgerNext]_(Ledger!ledgerVars)
<1>1. /\ pos \in Position /\ pos # NoPosition /\ pos.tp # 0 /\ ~pos.tp1 /\ ~pos.be
      /\ UNCHANGED <<trade, held, events, closes, reason>>
      /\ used' = (IF placed THEN used + 1 ELSE used) /\ (placed => used < MaxOrders)
  BY Roles DEF Live, Protected, CheckBreakeven, history
<1>2. PICK missed \in Missed(Replaced(pos)) :
        orders' = IF placed THEN [Cancelled(Replaced(pos) \ missed)
                                    EXCEPT ![used + 1] = EntryStop(pos.trade)]
                            ELSE Cancelled(Replaced(pos) \ missed)
  BY DEF CheckBreakeven
<1>3. Fills = Taken /\ ~StopMoved
  BY <1>1 DEF InAccount
<1>4. "STOP" \notin Fills
  BY <1>1, <1>3 DEF CheckBreakeven, Reported, Undisturbed, Taken
<1>5. /\ Fills' = Fills /\ \A i \in 1 .. used' : orders'[i].trade <= trade'
      /\ StopMoved' = (StopMoved \/ placed)
      /\ [Ledger!LedgerNext]_(Ledger!ledgerVars)
  BY <1>1, <1>2, <1>4, ReplacesLedger
<1>6. /\ pos' # NoPosition /\ pos'.tp = pos.tp /\ pos'.tp1 = pos.tp1
      /\ pos'.be = IF placed THEN TRUE ELSE pos.be
  <2>1. CASE placed
    <3>1. pos' = [pos EXCEPT !.sl = used + 1, !.be = TRUE]
      BY <2>1 DEF CheckBreakeven
    <3> QED BY <1>1, <2>1, <3>1 DEF Position, NoPosition
  <2>2. CASE ~placed
    BY <1>1, <2>2 DEF CheckBreakeven
  <2> QED BY <2>1, <2>2
<1>7. Taken' = Taken
  <2>1. \A n \in DOMAIN events : orders'[events[n]].kind = orders[events[n]].kind
    BY KindsKept
  <2> QED BY <1>1, <1>6, <2>1 DEF Taken
<1>8. pos'.be <=> StopMoved'
  BY <1>1, <1>3, <1>5, <1>6
<1> QED BY <1>1, <1>3, <1>5, <1>6, <1>7, <1>8, StillLive DEF InAccount

LEMMA Tp1Ledger ==
  ASSUME ConstantsAssumption, Undisturbed, TInv, OneTrade, Recorded, Orderly, InAccount, Live,
         NEW stopped \in BOOLEAN, WsTp1(stopped)
  PROVE  InAccount' /\ [Ledger!LedgerNext]_(Ledger!ledgerVars)
<1>1. /\ Protected /\ pos \in Position /\ pos # NoPosition /\ pos.tp # 0 /\ ~pos.tp1
      /\ pos.tp \in 1 .. used /\ pos.tp2 \in 1 .. used
      /\ orders[pos.tp].kind = "TP1" /\ orders[pos.tp2].kind = "TP2"
      /\ UNCHANGED <<trade, held, closes, reason>> /\ events' = Tail(events)
      /\ HalfTaken \/ BothTaken
  BY Roles, LiveEvent DEF Live, Protected, Names, WsTp1, Fill, Handling, history
<1>2. PICK missed \in Missed(Replaced(pos)) :
        /\ orders' = IF stopped THEN [Cancelled(Replaced(pos) \ missed)
                                        EXCEPT ![used + 1] = EntryStop(pos.trade)]
                                ELSE Cancelled(Replaced(pos) \ missed)
        /\ used' = IF stopped THEN used + 1 ELSE used
        /\ stopped => used < MaxOrders
  BY DEF WsTp1
<1>3. /\ pos' # NoPosition /\ pos'.tp = pos.tp /\ pos'.tp1 = TRUE
  <2>1. PICK b, l, q : pos' = [pos EXCEPT !.tp1 = TRUE, !.sl = 0, !.tsl = l, !.be = b, !.qty = q]
    BY DEF WsTp1
  <2> QED BY <1>1, <2>1 DEF Position, NoPosition
<1>4. \A n \in DOMAIN events : orders'[events[n]].kind = orders[events[n]].kind
  BY KindsKept
<1>5. Taken' = Taken /\ "STOP" \notin Taken
  <2>1. CASE HalfTaken
    <3>1. events = <<pos.tp>> /\ events' = <<>>
      BY <1>1, <2>1 DEF HalfTaken
    <3>2. DOMAIN events = {1} /\ events[1] = pos.tp /\ DOMAIN events' = {}
      BY <3>1
    <3>3. Taken = {"TP1"}
      BY <1>1, <3>2 DEF Taken, Kinds
    <3>4. Taken' = {"TP1"}
      BY <1>3, <3>2 DEF Taken, Kinds
    <3> QED BY <3>3, <3>4
  <2>2. CASE BothTaken
    <3>1. events = <<pos.tp, pos.tp2>> /\ events' = <<pos.tp2>>
      BY <1>1, <2>2, Two DEF BothTaken
    <3>2. /\ DOMAIN events = {1, 2} /\ events[1] = pos.tp /\ events[2] = pos.tp2
          /\ DOMAIN events' = {1} /\ events'[1] = pos.tp2
      BY <3>1
    <3>3. Taken = {"TP1", "TP2"}
      BY <1>1, <3>2 DEF Taken, Kinds
    <3>4. orders'[events'[1]].kind = "TP2"
      <4>1. 2 \in DOMAIN events /\ events'[1] = events[2] /\ events[2] = pos.tp2
        BY <3>2
      <4>2. orders'[events[2]].kind = orders[events[2]].kind
        BY <1>4, <4>1
      <4> QED BY <1>1, <4>1, <4>2
    <3>5. Taken' = {"TP1", "TP2"}
      BY <1>3, <3>2, <3>4 DEF Taken, Kinds
    <3> QED BY <3>3, <3>5
  <2> QED BY <1>1, <2>1, <2>2
<1>6. Fills = Taken
  BY DEF InAccount
<1>7. /\ Fills' = Fills /\ \A i \in 1 .. used' : orders'[i].trade <= trade'
      /\ [Ledger!LedgerNext]_(Ledger!ledgerVars)
  BY <1>1, <1>2, <1>5, <1>6, ReplacesLedger
<1> QED BY <1>1, <1>3, <1>5, <1>6, <1>7, StillLive DEF InAccount

\* The fill that ends the trade is handled: the result is what the fills are.
LEMMA EndsLedger ==
  ASSUME ConstantsAssumption, Undisturbed, TInv, OneTrade, Recorded, Orderly, InAccount, Live,
         NEW ids, NEW r, Fill, Closes(ids, r), held = 0, r = Ledger!Reason
  PROVE  InAccount' /\ [Ledger!LedgerNext]_(Ledger!ledgerVars)
<1>1. /\ trade \in Trades /\ trade > 0 /\ pos.trade = trade /\ closes[trade] = 0
      /\ used \in Nat /\ \A i \in 1 .. used : i \in OrderIds
  BY LiveUnrecorded, Basics DEF OrderIds
<1>2. /\ UNCHANGED <<used, held, trade>> /\ pos' = NoPosition
      /\ closes' = [closes EXCEPT ![trade] = @ + 1] /\ reason' = [reason EXCEPT ![trade] = r]
  BY <1>1 DEF Closes, Persisted, Removed
<1>3. PICK missed : orders' = Cancelled(ids \ missed)
  BY DEF Closes
<1>4. /\ closes' = [closes EXCEPT ![trade] = 1] /\ closes'[trade] = 1
  BY <1>1, <1>2 DEF TInv
<1>5. Fills' = Fills
  <2>1. \A i \in 1 .. used : orders'[i].st = "filled" <=> orders[i].st = "filled"
    BY <1>1, <1>3, CancelledFills
  <2> QED BY <1>1, <1>2, <2>1, FillsKept
<1>6. StopMoved' = StopMoved
  <2>1. Own("STOP")' = Own("STOP")
    BY <1>1, <1>2, OwnKept
  <2> QED BY <2>1 DEF StopMoved
<1>7. \A i \in 1 .. used' : orders'[i].trade <= trade'
  BY <1>1, <1>2, OwnersKept
<1>8. ~Entered' /\ ~Live'
  BY <1>2 DEF Entered, Live, Protected, EntryQty
<1>9. Ledger!Records
  BY <1>1, <1>2, <1>4, <1>5, <1>6 DEF Ledger!Records
<1> QED BY <1>2, <1>4, <1>7, <1>8, <1>9 DEF InAccount, Ledger!LedgerNext

LEMMA ClosingLedger ==
  ASSUME ConstantsAssumption, Undisturbed, TInv, OneTrade, Recorded, Orderly, InAccount, Live,
         WsTp2 \/ WsTrailingSl \/ WsHardSl
  PROVE  InAccount' /\ [Ledger!LedgerNext]_(Ledger!ledgerVars)
<1>1. /\ Protected /\ pos # NoPosition /\ Fill /\ events # <<>>
      /\ orders[pos.tp].kind = "TP1" /\ orders[pos.tp2].kind = "TP2"
  BY DEF WsTp2, WsTrailingSl, WsHardSl, Live, Protected, Names, Fill, Handling
<1>2. Fills = Taken
  BY DEF InAccount
<1>3. CASE WsTp2
  <2>1. RestTaken /\ Closes({pos.tsl}, "TP2")
    BY <1>1, <1>3, LiveEvent DEF WsTp2
  <2>2. DOMAIN events = {1} /\ events[1] = pos.tp2 /\ pos.tp1
    BY <2>1 DEF RestTaken
  <2>3. Fills = {"TP1", "TP2"}
    BY <1>1, <1>2, <2>2 DEF Taken, Kinds
  <2>4. Ledger!Reason = "TP2"
    BY <2>3 DEF Ledger!Reason
  <2> QED BY <1>1, <2>1, <2>4, EndsLedger DEF RestTaken
<1>4. CASE WsTrailingSl
  <2>1. RestStopped /\ Closes({pos.tp2}, "TP_TRAIL")
    BY <1>1, <1>4, LiveEvent DEF WsTrailingSl
  <2>2. DOMAIN events = {1} /\ events[1] = pos.tsl /\ orders[pos.tsl].kind = "STOP" /\ pos.tp1
    BY <1>1, <2>1 DEF RestStopped, Protected, Names
  <2>3. Fills = {"TP1", "STOP"}
    BY <1>2, <2>2 DEF Taken, Kinds
  <2>4. Ledger!Reason = "TP_TRAIL"
    BY <2>3 DEF Ledger!Reason
  <2> QED BY <1>1, <2>1, <2>4, EndsLedger DEF RestStopped
<1>5. CASE WsHardSl
  <2>1. StoppedOut /\ Closes(Siblings(pos), IF pos.be THEN "BREAKEVEN_SL" ELSE "HARD_SL")
    BY <1>1, <1>5, LiveEvent DEF WsHardSl
  <2>2. DOMAIN events = {1} /\ events[1] = pos.sl /\ orders[pos.sl].kind = "STOP" /\ ~pos.tp1
    BY <1>1, <2>1 DEF StoppedOut, Protected, Names
  <2>3. Fills = {"STOP"} /\ (pos.be <=> StopMoved)
    BY <1>2, <2>2 DEF Taken, Kinds, InAccount
  <2>4. Ledger!Reason = IF pos.be THEN "BREAKEVEN_SL" ELSE "HARD_SL"
    BY <2>3 DEF Ledger!Reason
  <2> QED BY <1>1, <2>1, <2>4, EndsLedger DEF StoppedOut
<1> QED BY <1>3, <1>4, <1>5

LEMMA NextLedger ==
  ASSUME ConstantsAssumption, Undisturbed, TInv, OneTrade, Recorded, Cycle, InAccount, [Next]_vars
  PROVE  InAccount' /\ [Ledger!LedgerNext]_(Ledger!ledgerVars)
<1>1. CASE Next
  <2>1. Orderly
    BY <1>1, NextType
  <2>2. CASE Live
    BY <1>1, <2>1, <2>2, LiveMoves, ExecutesLedger, AsideLedger, Tp1Ledger, BreakevenLedger,
       ClosingLedger DEF Cycle
  <2> QED BY <1>1, <2>1, <2>2, QuietLedger, EnteredLedger DEF Cycle
<1>2. CASE UNCHANGED vars
  <2>1. UNCHANGED <<orders, used, trade, held, closes, reason>>
    BY <1>2 DEF vars, exchange, history
  <2>2. InAccount'
    BY <1>2 DEF vars, exchange, cache, history, InAccount, Quiet, Entered, Live, Protected, Names,
       OnlyOpen, IsOpen, Stage, Untouched, HalfTaken, BothTaken, StoppedOut, Trailing, RestTaken,
       RestStopped, Fills, Own, StopMoved, Taken
  <2> QED BY <2>1, <2>2, SameAccount, LedgerStutters
<1> QED BY <1>1, <1>2

LEMMA InitLedger == ASSUME ConstantsAssumption, Init PROVE InAccount /\ Ledger!LedgerInit
<1>1. used = 0 /\ trade = 0 /\ pos = NoPosition /\ held = 0
  BY DEF Init
<1>2. \A k : Own(k) = {}
  BY <1>1 DEF Own
<1>3. Fills = {} /\ StopMoved = FALSE
  BY <1>2 DEF Fills, StopMoved
<1>4. ~Entered /\ ~Live
  BY <1>1 DEF Entered, Live, Protected, EntryQty
<1>5. InAccount
  BY <1>1, <1>4 DEF InAccount
<1> QED BY <1>3, <1>5 DEF Init, Ledger!LedgerInit, Trades

\* As long as nothing has gone wrong the position manager keeps the ledger:
\* one trade after the other, each recorded once and before the next, for the
\* reason that its orders' fills are.
THEOREM ImplementsTradeLedger ==
  ASSUME Prompt, UnlockedLoops = {}
  PROVE  Spec /\ []Calm => ImplementsLedger
<1>1. Timely
  BY DEF Timely
<1>2. Init => InAccount /\ Ledger!LedgerInit
  BY InitLedger, ConstantsAssumption
<1>3. (TInv /\ OneTrade /\ (Calm => Cycle)) /\ (TInv /\ OneTrade /\ Recorded)
        /\ Calm /\ Calm' /\ InAccount /\ [Next]_vars
        => InAccount' /\ [Ledger!LedgerNext]_(Ledger!ledgerVars)
  BY NextLedger, ConstantsAssumption DEF Undisturbed
<1> QED BY <1>1, <1>2, <1>3, CycleInvariant, OnceInvariant, PTL
        DEF Spec, ImplementsLedger, Ledger!LedgerSpec
=============================================================================
