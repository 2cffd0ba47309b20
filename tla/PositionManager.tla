--------------------------- MODULE PositionManager ---------------------------
(***************************************************************************)
(* The life of one symbol's short position: the entry order and its stub   *)
(* (internal/execution/engine.go), its protection, fills, retries, repair  *)
(* and closing (internal/execution/position_manager.go), the Redis records *)
(* it lives in (internal/storage/redis.go), and the exchange.              *)
(*                                                                         *)
(* check, HandleUserDataEvent and repairUnprotectedPosition hold the       *)
(* symbol's lock: each is one action, together with the exchange calls it  *)
(* makes.  The pre-settlement and funding-avoidance loops, the engine and  *)
(* the look-up of a pending entry take no lock: they read in one action    *)
(* and act on what they read in later ones.                                *)
(***************************************************************************)
EXTENDS Integers, Sequences, FiniteSets

CONSTANTS
  UnlockedLoops, (* the loops that take an interest in the position: the      *)
                 (* pre-settlement loop skips those entered after settlement *)
  Prompt,        (* no answer or event of the exchange is slower than the    *)
                 (* waits the code has for it                                *)
  DeepFunding,   (* the funding rate at entry is below -1%                    *)
  MaxRetries,    (* maxProtectionRetries                                     *)
  MaxTrades,     (* bound: entries in a behaviour                            *)
  MaxOrders,     (* bound: orders the exchange accepts in a behaviour        *)
  MaxFaults,     (* bound: exchange calls that fail                          *)
  MaxLost,       (* bound: fill events the stream loses                      *)
  MaxManual      (* bound: closes by hand                                    *)

ASSUME ConstantsAssumption ==
  /\ UnlockedLoops \subseteq {"preSettlement", "avoidance"}
  /\ {Prompt, DeepFunding} \subseteq BOOLEAN
  /\ {MaxRetries, MaxTrades, MaxOrders, MaxFaults, MaxLost, MaxManual} \subseteq Nat

Trades == 1 .. MaxTrades
OrderIds == 1 .. MaxOrders

\* Quantities in quarters of an entry: TP1SizePct is 50, and so is the part
\* of an emergency TP1 that a widened one keeps.
EntryQty == 4
Tp1Qty == 2
Tp2Qty == 2

\* What the exchange knows of an order.  A FILLED order's qty is what it
\* filled.  Stop orders have closePosition set, so their qty says nothing.
Kinds == {"ENTRY", "STOP", "TP1", "TP2", "FORCE", "MANUAL"}
Order == [kind: Kinds, trade: Trades, qty: Nat,
          st: {"open", "filled", "cancelled"}]
NoOrder == [st |-> "none"]

\* domain.Position: the trade, the orders it names (0: the empty id), what
\* has happened to it, and its quantities.
Ref == 0 .. MaxOrders
Position == [trade: Trades, sl: Ref, tp: Ref, tp2: Ref, tsl: Ref,
             tp1: BOOLEAN, be: BOOLEAN, wide: BOOLEAN, fee: BOOLEAN,
             qty: Int, orig: Nat]
NoPosition == [trade |-> 0]

\* The position the engine writes when its order is placed, and what
\* isUnprotectedStub recognises.
Stub(t) == [trade |-> t, sl |-> 0, tp |-> 0, tp2 |-> 0, tsl |-> 0,
            tp1 |-> FALSE, be |-> FALSE, wide |-> FALSE, fee |-> FALSE,
            qty |-> EntryQty, orig |-> EntryQty]

IsStub(p) == p # NoPosition /\ p.sl = 0 /\ p.tp = 0

\* domain.PendingProtection: what is missing, TP1's and TP2's quantities,
\* and the attempts made.
Protection == [sl: BOOLEAN, tp: BOOLEAN, q1: Nat, q2: Nat,
               retries: 0 .. MaxRetries]
NoProtection == [retries |-> MaxRetries + 1]

CloseReasons == {"TP2", "TP_TRAIL", "HARD_SL", "BREAKEVEN_SL", "FORCE_CLOSE", "MANUAL"}

VARIABLES
  orders, used,  (* the exchange's orders, and how many there are            *)
  held,          (* the short position the account holds                     *)
  events,        (* the user data stream: fills not yet delivered, in order  *)
  pos,           (* the symbol's entry in the positions hash                 *)
  pending,       (* the trades with a PendingEntry                           *)
  pp,            (* the symbol's PendingProtection                           *)
  fclose,        (* pendingForceClose                                        *)
  trade,         (* the last trade entered                                   *)
  eng,           (* the trade whose entry order the engine waits for         *)
  ws,            (* the trade whose pending entry the stream handler read    *)
  at, snap,      (* where each unlocked loop is, and the position it read    *)
  faults, lost,  (* exchange calls failed, events lost                       *)
  inserts,       (* trade records written, per trade                         *)
  closes, reason (* results persisted per trade, and the last one's reason   *)

exchange == <<orders, used, held, events>>
cache    == <<pos, pending, pp>>
loops    == <<at, snap>>
history  == <<inserts, closes, reason>>
vars == <<exchange, cache, fclose, trade, eng, ws, loops, faults, lost, history>>

Init ==
  /\ orders = [i \in OrderIds |-> NoOrder] /\ used = 0 /\ held = 0 /\ events = <<>>
  /\ pos = NoPosition /\ pending = {} /\ pp = NoProtection /\ fclose = 0
  /\ trade = 0 /\ eng = 0 /\ ws = 0
  /\ at = [l \in UnlockedLoops |-> "idle"]
  /\ snap = [l \in UnlockedLoops |-> NoPosition]
  /\ faults = 0 /\ lost = 0
  /\ inserts = [t \in Trades |-> 0] /\ closes = [t \in Trades |-> 0]
  /\ reason = [t \in Trades |-> "NONE"]

-----------------------------------------------------------------------------
(* Exchange calls.                                                         *)

Least(a, b) == IF a < b THEN a ELSE b

IsOpen(i) == i # 0 /\ orders[i].st = "open"

Opened(k, t, q) == [kind |-> k, trade |-> t, qty |-> q, st |-> "open"]
Filled(k, t, q) == [kind |-> k, trade |-> t, qty |-> q, st |-> "filled"]

\* The orders after those of new are accepted, in that order.
Accepted(new) ==
  [i \in OrderIds |-> IF i \in used + 1 .. used + Len(new) THEN new[i - used] ELSE orders[i]]

\* The orders after those of ids are cancelled.  The exchange answers with
\* an error when one is not open; every caller carries on.
Cancelled(ids) ==
  [i \in OrderIds |-> IF i \in ids /\ IsOpen(i) THEN [orders[i] EXCEPT !.st = "cancelled"]
                                               ELSE orders[i]]

\* n calls of the action fail although nothing is wrong with them.
Fail(n) == faults + n <= MaxFaults /\ faults' = faults + n

\* Cancellations of ids of which those in missed fail.
Missed(ids) == SUBSET {i \in ids : IsOpen(i)}

\* What a placement that was not accepted uses up.  With no position to close
\* the exchange refuses a reduce-only limit order anyway, and it may refuse
\* a stop order.
FaultIfNot(ok) == IF ok \/ held = 0 THEN 0 ELSE 1

\* The waits: the sweep leaves a stub alone for 30 seconds, its pending entry
\* lives for 70, a position's stop is not moved for ten minutes, in which the
\* sweep has come by, and a closed symbol is not entered for 20.  The answer
\* to an entry order does not outlast the position, and the price does not
\* swing between a take-profit and a stop before the stream reports the first.
Delivered == events = <<>> /\ ws = 0
Waited == Prompt => Delivered
Aged == Prompt => ~IsStub(pos)
Reported(kinds) == Prompt => \A n \in DOMAIN events : orders[events[n]].kind \notin kinds
Cooled == Prompt => Delivered /\ \A l \in UnlockedLoops : at[l] = "idle"

-----------------------------------------------------------------------------
(* The exchange, and what it tells the bot: external.                      *)

\* An open order executes.  TP2 is priced below the TP1 of its trade.
Executes(i) ==
  /\ IsOpen(i) /\ held > 0
  /\ Prompt => eng = 0
  /\ orders[i].kind = "STOP" => Reported({"TP1", "TP2"})
  /\ orders[i].kind = "TP2" =>
       ~\E j \in OrderIds : /\ orders[j].st = "open" /\ orders[j].kind = "TP1"
                            /\ orders[j].trade = orders[i].trade
  /\ LET q == IF orders[i].kind = "STOP" THEN held ELSE Least(orders[i].qty, held)
     IN /\ orders' = [orders EXCEPT ![i].st = "filled", ![i].qty = q]
        /\ held' = held - q
  /\ events' = Append(events, i)
  /\ UNCHANGED <<used, cache, fclose, trade, eng, ws, loops, faults, lost, history>>

\* The exchange may drop an order that has no position left to close.
Expires(i) ==
  /\ IsOpen(i) /\ held = 0
  /\ orders' = Cancelled({i})
  /\ UNCHANGED <<used, held, events, cache, fclose, trade, eng, ws, loops, faults, lost, history>>

\* The account's owner closes the position by hand.
ClosedByHand ==
  /\ held > 0 /\ used < MaxOrders /\ trade > 0
  /\ Prompt => eng = 0
  /\ Cardinality({i \in 1 .. used : orders[i].kind = "MANUAL"}) < MaxManual
  /\ orders' = Accepted(<<Filled("MANUAL", trade, held)>>)
  /\ used' = used + 1 /\ held' = 0
  /\ events' = Append(events, used + 1)
  /\ UNCHANGED <<cache, fclose, trade, eng, ws, loops, faults, lost, history>>

\* The stream reconnects and an event is lost.  An event is as good as lost
\* when its handler meets a Redis error or an entry's average price of zero.
EventLost ==
  /\ events # <<>> /\ lost < MaxLost
  /\ events' = Tail(events) /\ lost' = lost + 1
  /\ UNCHANGED <<orders, used, held, cache, fclose, trade, eng, ws, loops, faults, history>>

-----------------------------------------------------------------------------
(* The execution engine: execute, from the pending entry on.               *)

\* The pending entry is stored, the entry order placed, and it fills.
Enter ==
  /\ eng = 0 /\ pos = NoPosition /\ Cooled
  /\ trade < MaxTrades /\ used < MaxOrders
  /\ trade' = trade + 1 /\ eng' = trade + 1
  /\ pending' = pending \cup {trade + 1}
  /\ orders' = Accepted(<<Filled("ENTRY", trade + 1, EntryQty)>>)
  /\ used' = used + 1
  /\ held' = held + EntryQty
  /\ events' = Append(events, used + 1)
  /\ UNCHANGED <<pos, pp, fclose, ws, loops, faults, lost, history>>

\* (An order refused at once leaves everything as it was.)

\* PlaceMarketOrder returned: the stub is written if there is no position.
EnterReturns ==
  /\ eng # 0
  /\ pos' = IF pos = NoPosition THEN Stub(eng) ELSE pos
  /\ eng' = 0
  /\ UNCHANGED <<exchange, pending, pp, fclose, trade, ws, loops, faults, lost, history>>

\* It returned an error, a timeout for one, although the order was executed.
EnterErrs ==
  /\ eng # 0
  /\ pending' = pending \ {eng}
  /\ eng' = 0
  /\ Fail(1)
  /\ UNCHANGED <<exchange, pos, pp, fclose, trade, ws, loops, lost, history>>

\* The PendingEntry's 70 seconds are over.
PendingExpires(t) ==
  /\ t \in pending /\ Waited
  /\ pending' = pending \ {t}
  /\ UNCHANGED <<exchange, pos, pp, fclose, trade, eng, ws, loops, faults, lost, history>>

-----------------------------------------------------------------------------
(* finalizeSLTP, called with the symbol's lock held.                       *)

\* mutant: only the take-profits are retried
FullNoStop == [sl |-> FALSE, tp |-> TRUE, q1 |-> Tp1Qty, q2 |-> Tp2Qty, retries |-> 0]

Full == [sl |-> TRUE, tp |-> TRUE, q1 |-> Tp1Qty, q2 |-> Tp2Qty, retries |-> 0]

\* The stop is refused: nothing is activated, a retry is scheduled.
StopRefused ==
  /\ Fail(FaultIfNot(FALSE))
  /\ pp' = Full
  /\ UNCHANGED <<orders, used, pos, pending, inserts>>

\* TP1 is refused: the stop is cancelled again so that both are retried.
TakeProfitRefused(t, cancelled) ==
  LET stop == Opened("STOP", t, 0) IN
  /\ used < MaxOrders
  /\ Fail(FaultIfNot(FALSE) + IF cancelled THEN 0 ELSE 1)
  /\ orders' = Accepted(<<IF cancelled THEN [stop EXCEPT !.st = "cancelled"] ELSE stop>>)
  /\ used' = used + 1
  /\ pp' = Full
  /\ UNCHANGED <<pos, pending, inserts>>

\* Both are placed, TP2 or not: the trade is recorded and the position is
\* written over whatever the cache holds.
Activated(t, tp2) ==
  LET new == <<Opened("STOP", t, 0), Opened("TP1", t, Tp1Qty)>>
             \o (IF tp2 THEN <<Opened("TP2", t, Tp2Qty)>> ELSE <<>>)
  IN
  /\ held > 0
  /\ used + Len(new) <= MaxOrders
  /\ Fail(FaultIfNot(tp2))
  /\ orders' = Accepted(new) /\ used' = used + Len(new)
  /\ inserts' = [inserts EXCEPT ![t] = @ + 1]
  /\ pos' = [Stub(t) EXCEPT !.sl = used + 1, !.tp = used + 2,
                            !.tp2 = IF tp2 THEN used + 3 ELSE 0]
  /\ pending' = pending \ {t}
  /\ UNCHANGED pp

Finalized(t) ==
  /\ \/ StopRefused
     \/ \E c \in BOOLEAN : TakeProfitRefused(t, c)
     \/ \E tp2 \in BOOLEAN : Activated(t, tp2)
  /\ UNCHANGED <<held, events, closes, reason>>

-----------------------------------------------------------------------------
(* persistClose and forceClose.                                            *)

\* mutant: the position stays in the cache
NotRemoved == pos

\* RemovePosition
Removed == NoPosition

\* mutant: the new stop is caught by the cancellation of the old one
EntryStopCancelled(t) == [Opened("STOP", t, 0) EXCEPT !.st = "cancelled"]

\* The stop at the entry price, and the order it replaces.
EntryStop(t) == Opened("STOP", t, 0)

\* mutant: the old stop stays
ReplacedNone(p) == {}

Replaced(p) == {p.sl}

\* mutant: TP2 is forgotten
SiblingsTp1Only(p) == {p.tp}

\* The orders handleHardSLFill cancels.
Siblings(p) == {p.tp, p.tp2}

\* mutant: one attempt too many
ExhaustedLate(p) == p.retries > MaxRetries

Exhausted(p) == p.retries >= MaxRetries

\* persistClose: the result is stored and the position removed.
Persisted(p, r) ==
  /\ closes' = [closes EXCEPT ![p.trade] = @ + 1]
  /\ reason' = [reason EXCEPT ![p.trade] = r]
  /\ pos' = Removed
  /\ UNCHANGED <<pending, pp, inserts>>

\* The order ids a position names.
Named(p) == {p.sl, p.tp, p.tp2, p.tsl} \ {0}

\* The first half of forceClose, for the caller's copy p of the position: the
\* id is stored, the reduce-only market order placed, which fills, or refused.
ForcePlaced(p, ok) ==
  IF ok
  THEN LET q == Least(p.qty, held) IN
       /\ q > 0 /\ used < MaxOrders
       /\ Prompt => eng = 0
       /\ fclose' = used + 1
       /\ used' = used + 1 /\ held' = held - q
       /\ events' = Append(events, used + 1)
  ELSE /\ fclose' = 0
       /\ UNCHANGED <<used, held, events>>

ForceOrder(p, os) ==
  [os EXCEPT ![used + 1] = Filled("FORCE", p.trade, Least(p.qty, held))]

\* A market order of nothing, or against no position, is refused anyway.
ForceFault(p, ok) == IF ok \/ held = 0 \/ p.qty = 0 THEN 0 ELSE 1

-----------------------------------------------------------------------------
(* The user data stream: HandleUserDataEvent, one event after the other.   *)

Event == Head(events)

Handling(kinds) == ws = 0 /\ events # <<>> /\ orders[Event].kind \in kinds

\* An entry's fill: the pending entry is read before the lock is taken.
WsReadsPending ==
  /\ Handling({"ENTRY"})
  /\ events' = Tail(events)
  /\ ws' = IF orders[Event].trade \in pending THEN orders[Event].trade ELSE 0
  /\ UNCHANGED <<orders, used, held, cache, fclose, trade, eng, loops, faults, lost, history>>

WsFinalizes ==
  /\ ws # 0
  /\ Finalized(ws)
  /\ ws' = 0
  /\ UNCHANGED <<fclose, trade, eng, loops, lost>>

\* A reducing fill, with a position in the cache.
Fill == Handling(Kinds \ {"ENTRY"}) /\ events' = Tail(events)

\* handleTP1Fill with a TP2 order to follow: a stop at the entry price
\* replaces the stop.  It may fail: the position is kept without.
WsTp1(stopped) ==
  /\ Fill /\ pos # NoPosition
  /\ Event = pos.tp /\ ~pos.tp1 /\ pos.tp2 # 0
  /\ \E missed \in Missed(Replaced(pos)) :
       LET os == Cancelled(Replaced(pos) \ missed) IN
       /\ Fail(Cardinality(missed) + FaultIfNot(stopped))
       /\ IF stopped
          THEN /\ used < MaxOrders
               /\ orders' = [os EXCEPT ![used + 1] = EntryStop(pos.trade)]
               /\ used' = used + 1
          ELSE orders' = os /\ UNCHANGED used
  /\ pos' = [pos EXCEPT !.tp1 = TRUE, !.sl = 0,
                        !.tsl = IF stopped THEN used + 1 ELSE @,
                        !.be = @ \/ stopped,
                        !.qty = pos.orig - orders[Event].qty]
  /\ UNCHANGED <<held, pending, pp, fclose, trade, eng, ws, loops, lost, history>>

\* A fill that ends the trade: the orders of ids are cancelled, the result r
\* is persisted.
Closes(ids, r) ==
  /\ \E missed \in Missed(ids) :
       /\ orders' = Cancelled(ids \ missed)
       /\ Fail(Cardinality(missed))
  /\ Persisted(pos, r)
  /\ UNCHANGED <<used, held, trade, eng, ws, loops, lost>>

\* handleTP1Fill without a TP2 order: the position counts as fully closed.
WsTp1Closes ==
  /\ Fill /\ pos # NoPosition
  /\ Event = pos.tp /\ ~pos.tp1 /\ pos.tp2 = 0
  /\ Closes({pos.sl, pos.tsl}, "TP2")
  /\ UNCHANGED fclose

\* mutant: the fill is handled only before TP1's
WsTp2BeforeTp1 ==
  /\ Fill /\ pos # NoPosition
  /\ Event = pos.tp2 /\ ~pos.tp1
  /\ Closes({pos.tsl}, "TP2")
  /\ UNCHANGED fclose

WsTp2 ==
  /\ Fill /\ pos # NoPosition
  /\ Event = pos.tp2 /\ Event # pos.tp
  /\ Closes({pos.tsl}, "TP2")
  /\ UNCHANGED fclose

WsTrailingSl ==
  /\ Fill /\ pos # NoPosition
  /\ Event = pos.tsl /\ Event \notin {pos.tp, pos.tp2}
  /\ Closes({pos.tp2}, "TP_TRAIL")
  /\ UNCHANGED fclose

\* mutant: the break-even flag is not looked at
WsHardSlUnmoved ==
  /\ Fill /\ pos # NoPosition
  /\ Event = pos.sl /\ Event \notin {pos.tp, pos.tp2, pos.tsl}
  /\ Closes(Siblings(pos), "HARD_SL")
  /\ UNCHANGED fclose

WsHardSl ==
  /\ Fill /\ pos # NoPosition
  /\ Event = pos.sl /\ Event \notin {pos.tp, pos.tp2, pos.tsl}
  /\ Closes(Siblings(pos), IF pos.be THEN "BREAKEVEN_SL" ELSE "HARD_SL")
  /\ UNCHANGED fclose

WsForceClosed ==
  /\ Fill /\ pos # NoPosition
  /\ Event \notin Named(pos) /\ Event = fclose
  /\ Closes({}, "FORCE_CLOSE")
  /\ fclose' = 0

\* A reduce-only fill of an order the position does not name counts as a
\* close by hand.  The stream may not call a stop's fill reduce-only.
WsUntracked ==
  /\ Fill /\ pos # NoPosition
  /\ Event \notin Named(pos) /\ Event # fclose
  /\ Closes({}, "MANUAL")
  /\ UNCHANGED fclose

WsIgnored ==
  /\ Fill
  /\ \/ pos = NoPosition
     \/ pos # NoPosition /\ Event = pos.tp /\ pos.tp1
     \/ pos # NoPosition /\ Event \notin Named(pos) /\ orders[Event].kind = "STOP"
  /\ UNCHANGED <<orders, used, held, cache, fclose, trade, eng, ws, loops, faults, lost, history>>

-----------------------------------------------------------------------------
(* The one-second loop: check, and retryProtection within it.              *)

\* retryProtection: the missing stop, then TP1 with TP2 behind it, is placed
\* again, for whatever position the symbol has now.
CheckRetries(stop, tp, tp2) ==
  /\ pos # NoPosition /\ pp # NoProtection /\ ~Exhausted(pp)
  /\ stop => pp.sl
  /\ tp => pp.tp /\ held > 0
  /\ tp2 => tp /\ pp.q2 > 0
  /\ LET stops == IF stop THEN <<Opened("STOP", pos.trade, 0)>> ELSE <<>>
         tps   == IF tp THEN <<Opened("TP1", pos.trade, pp.q1)>> ELSE <<>>
         tp2s  == IF tp2 THEN <<Opened("TP2", pos.trade, pp.q2)>> ELSE <<>>
         n     == used + Len(stops)
     IN
     /\ n + Len(tps \o tp2s) <= MaxOrders
     /\ orders' = Accepted(stops \o tps \o tp2s)
     /\ used' = n + Len(tps \o tp2s)
     /\ pos' = [pos EXCEPT !.sl = IF stop THEN n ELSE @,
                           !.tp = IF tp THEN n + 1 ELSE @,
                           !.tp2 = IF tp2 THEN n + 2 ELSE @]
  /\ Fail((IF pp.sl THEN FaultIfNot(stop) ELSE 0) + (IF pp.tp THEN FaultIfNot(tp) ELSE 0)
          + IF tp /\ pp.q2 > 0 THEN FaultIfNot(tp2) ELSE 0)
  /\ pp' = IF (pp.sl => stop) /\ (pp.tp => tp)
           THEN NoProtection
           ELSE [pp EXCEPT !.sl = @ /\ ~stop, !.tp = @ /\ ~tp, !.retries = @ + 1]
  /\ UNCHANGED <<held, events, pending, fclose, trade, eng, ws, loops, lost, history>>

\* After MaxRetries attempts the position is closed at the market.
CheckGivesUp(ok) ==
  /\ pos # NoPosition /\ pp # NoProtection /\ Exhausted(pp)
  /\ ForcePlaced(pos, ok)
  /\ IF ok
     THEN \E missed \in Missed(Named(pos)) :
            /\ orders' = ForceOrder(pos, Cancelled(Named(pos) \ missed))
            /\ Fail(Cardinality(missed))
     ELSE orders' = orders /\ Fail(ForceFault(pos, ok))
  /\ pp' = NoProtection
  /\ UNCHANGED <<pos, pending, trade, eng, ws, loops, lost, history>>

\* The price has moved far enough: the stop is replaced by one at the entry
\* price.  When placing fails the position still names the cancelled one.
CheckBreakeven(placed) ==
  /\ pos # NoPosition /\ ~pos.be /\ ~pos.tp1
  /\ Aged /\ Reported({"STOP"})
  /\ placed => used < MaxOrders
  /\ \E missed \in Missed(Replaced(pos)) :
       LET os == Cancelled(Replaced(pos) \ missed) IN
       /\ Fail(Cardinality(missed) + FaultIfNot(placed))
       /\ orders' = IF placed THEN [os EXCEPT ![used + 1] = EntryStop(pos.trade)]
                              ELSE os
  /\ used' = IF placed THEN used + 1 ELSE used
  /\ pos' = IF placed THEN [pos EXCEPT !.sl = used + 1, !.be = TRUE] ELSE pos
  /\ UNCHANGED <<held, events, pending, pp, fclose, trade, eng, ws, loops, lost, history>>

-----------------------------------------------------------------------------
(* The protection sweep: repairUnprotectedPosition.                        *)

\* The stub's fill was never confirmed but its pending entry is still there.
SweepFinalizes ==
  /\ IsStub(pos) /\ Waited /\ pos.trade \in pending
  /\ Finalized(pos.trade)
  /\ UNCHANGED <<fclose, trade, eng, ws, loops, lost>>

\* mutant: the stub is left in the cache
SweepKeepsStub ==
  /\ IsStub(pos) /\ Waited /\ pos.trade \notin pending
  /\ held = 0
  /\ UNCHANGED vars

\* emergencyProtect: the exchange has no position, the stub is dropped.
SweepDropsStub ==
  /\ IsStub(pos) /\ Waited /\ pos.trade \notin pending
  /\ held = 0
  /\ pos' = NoPosition
  /\ UNCHANGED <<exchange, pending, pp, fclose, trade, eng, ws, loops, faults, lost, history>>

\* emergencyProtect: a stop and a TP1 for the whole position; what is refused
\* is left to retryProtection.  The exchange may not say how much it holds.
SweepProtects(known, stop, tp) ==
  /\ IsStub(pos) /\ Waited /\ pos.trade \notin pending
  /\ known => held > 0
  /\ tp => held > 0
  /\ LET q     == IF known THEN held ELSE pos.orig
         stops == IF stop THEN <<Opened("STOP", pos.trade, 0)>> ELSE <<>>
         tps   == IF tp THEN <<Opened("TP1", pos.trade, q)>> ELSE <<>>
         n     == used + Len(stops)
     IN
     /\ n + Len(tps) <= MaxOrders
     /\ orders' = Accepted(stops \o tps)
     /\ used' = n + Len(tps)
     /\ pos' = [pos EXCEPT !.sl = IF stop THEN n ELSE @, !.tp = IF tp THEN n + 1 ELSE @,
                           !.qty = q, !.orig = q]
     /\ pp' = IF stop /\ tp THEN pp
              ELSE [sl |-> ~stop, tp |-> ~tp, q1 |-> q, q2 |-> 0, retries |-> 0]
  /\ Fail((IF known THEN 0 ELSE 1) + FaultIfNot(stop) + FaultIfNot(tp))
  /\ inserts' = [inserts EXCEPT ![pos.trade] = @ + 1]
  /\ UNCHANGED <<held, events, pending, fclose, trade, eng, ws, loops, lost, closes, reason>>

-----------------------------------------------------------------------------
(* The loops that take no lock.                                            *)

\* GetActivePositions.
LoopReads(l) ==
  /\ at[l] = "idle" /\ pos # NoPosition
  /\ at' = [at EXCEPT ![l] = "read"] /\ snap' = [snap EXCEPT ![l] = pos]
  /\ UNCHANGED <<exchange, cache, fclose, trade, eng, ws, faults, lost, history>>

LoopEnds(l) == at' = [at EXCEPT ![l] = "idle"] /\ snap' = [snap EXCEPT ![l] = NoPosition]

\* The snapshot asks for nothing, or its moment has not come.
LoopIdles(l) ==
  /\ at[l] = "read"
  /\ LoopEnds(l)
  /\ UNCHANGED <<exchange, cache, fclose, trade, eng, ws, faults, lost, history>>

\* checkPreSettlement closes a position that lost more than the funding fee
\* and has not had its TP1; checkFundingAvoidance one past a settlement.
LoopCloses(l, ok) ==
  /\ at[l] = "read"
  /\ IF l = "preSettlement" THEN ~snap[l].tp1
     ELSE snap[l].fee \/ "preSettlement" \notin UnlockedLoops
  /\ ForcePlaced(snap[l], ok)
  /\ IF ok THEN /\ orders' = ForceOrder(snap[l], orders)
                /\ at' = [at EXCEPT ![l] = "cancel"] /\ UNCHANGED snap
           ELSE UNCHANGED orders /\ LoopEnds(l)
  /\ Fail(ForceFault(snap[l], ok))
  /\ UNCHANGED <<cache, trade, eng, ws, lost, history>>

\* The second half of its forceClose: the orders its snapshot names.
LoopCancels(l) ==
  /\ at[l] = "cancel"
  /\ \E missed \in Missed(Named(snap[l])) :
       /\ orders' = Cancelled(Named(snap[l]) \ missed)
       /\ Fail(Cardinality(missed))
  /\ LoopEnds(l)
  /\ UNCHANGED <<used, held, events, cache, fclose, trade, eng, ws, lost, history>>

\* widenTP, with TP2 (c2: cancelled, p2: placed again) before TP1 (c1, p1).
\* A failure leaves the cache as it was, whatever the exchange did already.
LoopWidens(c2, p2, c1, p1) ==
  LET s    == snap["preSettlement"]
      adj  == c2 /\ ~DeepFunding
      tp2s == IF p2 THEN <<Opened("TP2", s.trade, Tp2Qty)>> ELSE <<>>
      tp1q == IF DeepFunding THEN s.orig ELSE s.orig \div 2
      tp1s == IF p1 THEN <<Opened("TP1", s.trade, tp1q)>> ELSE <<>>
      n    == used + Len(tp2s \o tp1s)
  IN
  /\ at["preSettlement"] = "read"
  /\ ~s.tp1 /\ ~s.wide /\ s.tp # 0
  /\ c2 => IsOpen(s.tp2)
  /\ p2 => adj /\ held > 0
  /\ c1 => IsOpen(s.tp)
  /\ p1 => c1 /\ held > 0
  /\ n <= MaxOrders
  /\ Fail((IF IsOpen(s.tp2) /\ ~c2 THEN 1 ELSE 0) + (IF adj THEN FaultIfNot(p2) ELSE 0)
          + (IF IsOpen(s.tp) /\ ~c1 THEN 1 ELSE 0) + (IF c1 THEN FaultIfNot(p1) ELSE 0))
  /\ LET gone == {i \in {s.tp2, s.tp} : (i = s.tp2 /\ c2) \/ (i = s.tp /\ c1)} IN
     orders' = [i \in OrderIds |-> IF i > used THEN Accepted(tp2s \o tp1s)[i]
                                               ELSE Cancelled(gone)[i]]
  /\ used' = n
  /\ IF p1
     THEN /\ snap' = [snap EXCEPT !["preSettlement"] =
                        [s EXCEPT !.tp2 = IF p2 THEN used + 1 ELSE IF c2 THEN 0 ELSE @,
                                  !.tp = n, !.wide = TRUE]]
          /\ at' = [at EXCEPT !["preSettlement"] = "write"]
     ELSE LoopEnds("preSettlement")
  /\ UNCHANGED <<held, events, cache, fclose, trade, eng, ws, lost, history>>

\* SetActivePosition of the loop's own copy, whatever the cache holds by now.
LoopWrites(p) ==
  /\ pos' = p
  /\ LoopEnds("preSettlement")
  /\ UNCHANGED <<exchange, pending, pp, fclose, trade, eng, ws, faults, lost, history>>

WidenedWritten ==
  /\ at["preSettlement"] = "write"
  /\ LoopWrites(snap["preSettlement"])

\* A handler that holds the lock read the position before that write and
\* writes it after.
WidenedOverwritten ==
  /\ at["preSettlement"] = "write" /\ pos # NoPosition
  /\ LoopEnds("preSettlement")
  /\ UNCHANGED <<exchange, cache, fclose, trade, eng, ws, faults, lost, history>>

\* onSettlementPassed: the fee is marked as paid in what was read.
SettlementWritten ==
  /\ at["preSettlement"] = "read" /\ ~snap["preSettlement"].fee
  /\ LoopWrites([snap["preSettlement"] EXCEPT !.fee = TRUE])

-----------------------------------------------------------------------------
Exchange == ClosedByHand \/ EventLost \/ \E i \in OrderIds : Executes(i) \/ Expires(i)

Engine == Enter \/ EnterReturns \/ EnterErrs \/ \E t \in Trades : PendingExpires(t)

UserData ==
  \/ WsReadsPending \/ WsFinalizes
  \/ \E stopped \in BOOLEAN : WsTp1(stopped)
  \/ WsTp1Closes \/ WsTp2 \/ WsTrailingSl \/ WsHardSl
  \/ WsForceClosed \/ WsUntracked \/ WsIgnored

Check ==
  \/ \E stop, tp, tp2 \in BOOLEAN : CheckRetries(stop, tp, tp2)
  \/ \E ok \in BOOLEAN : CheckGivesUp(ok) \/ CheckBreakeven(ok)

Sweep ==
  \/ SweepFinalizes \/ SweepDropsStub
  \/ \E known, stop, tp \in BOOLEAN : SweepProtects(known, stop, tp)

Unlocked ==
  \/ \E l \in UnlockedLoops :
       \/ LoopReads(l) \/ LoopIdles(l) \/ LoopCancels(l)
       \/ \E ok \in BOOLEAN : LoopCloses(l, ok)
  \/ /\ "preSettlement" \in UnlockedLoops
     /\ \/ \E c2, p2, c1, p1 \in BOOLEAN : LoopWidens(c2, p2, c1, p1)
        \/ WidenedWritten \/ WidenedOverwritten \/ SettlementWritten

Next == Exchange \/ Engine \/ UserData \/ Check \/ Sweep \/ Unlocked

Spec == Init /\ [][Next]_vars

\* The stream's handler and the sweep's ticker run for ever, the entry order's
\* call has a timeout, Redis expires keys, and the price does not stay clear
\* of every order for ever.
Fairness ==
  /\ WF_vars(UserData) /\ WF_vars(Sweep)
  /\ WF_vars(EnterReturns \/ EnterErrs)
  /\ WF_vars(\E t \in Trades : PendingExpires(t))
  /\ WF_vars(\E i \in OrderIds : Executes(i))

FairSpec == Spec /\ Fairness

-----------------------------------------------------------------------------
(* Properties.                                                             *)

\* Every variable has its type.
TypeOK ==
  /\ orders \in [OrderIds -> Order \cup {NoOrder}] /\ used \in Ref
  /\ held \in Nat /\ events \in Seq(OrderIds)
  /\ pos \in Position \cup {NoPosition}
  /\ pending \subseteq Trades
  /\ pp \in Protection \cup {NoProtection}
  /\ fclose \in Ref
  /\ trade \in 0 .. MaxTrades /\ eng \in 0 .. MaxTrades /\ ws \in 0 .. MaxTrades
  /\ at \in [UnlockedLoops -> {"idle", "read", "cancel", "write"}]
  /\ snap \in [UnlockedLoops -> Position \cup {NoPosition}]
  /\ faults \in 0 .. MaxFaults /\ lost \in 0 .. MaxLost
  /\ inserts \in [Trades -> Nat] /\ closes \in [Trades -> Nat]
  /\ reason \in [Trades -> CloseReasons \cup {"NONE"}]

Stopped == \E i \in OrderIds : IsOpen(i) /\ orders[i].kind = "STOP"

\* A live position is never without a stop unless somebody is bound to act:
\* its fill is on the way, the sweep or retryProtection has it.  Stops are
\* cancelled and placed again by four handlers, two of them on a stale copy.
NeverNaked ==
  held > 0 => \/ Stopped
              \/ events # <<>> \/ ws # 0 \/ eng # 0
              \/ IsStub(pos) \/ pp # NoProtection

\* A trade's result is persisted at most once, although a fill may find its
\* order unknown, replaced or named by another role, and a stub may be
\* written after the fill (persistClose is called from six handlers).
ClosedOnce == \A t \in Trades : closes[t] <= 1

\* A position that never got its stop stays with retryProtection until it is
\* stopped or closed, as long as no more calls fail than the retries and the
\* finalization before them take.  (One more failure, of the emergency close
\* itself, and nothing remembers it: position_manager.go:797-798.)
RetryBudget ==
  /\ faults <= MaxRetries + 1
  /\ held > 0 /\ pos # NoPosition /\ pos.sl = 0 /\ ~pos.tp1
  => IsStub(pos) \/ (pp # NoProtection /\ pp.sl)

\* A stub is protected or dropped in the end, even if the stream loses its
\* fill and exchange calls fail.
StubRepaired == IsStub(pos) ~> ~IsStub(pos)

\* When a trade ends nothing is left behind at the exchange that could act on
\* the symbol's next position.  Each ending cancels only some of the orders
\* and relies on earlier handlers for the others.
CleanClose ==
  [][\A t \in Trades : closes'[t] > closes[t] => \A i \in OrderIds : orders'[i].st # "open"]_vars

\* The position in the cache names every open order, so that no fill of the
\* bot's own is taken for a close by hand.
NoStrayOrders ==
  pos # NoPosition => \A i \in OrderIds : IsOpen(i) => i \in Named(pos)

\* With nothing under way, the cache holds a position exactly when the
\* exchange does.
CacheBacked == Delivered /\ eng = 0 => (pos # NoPosition <=> held > 0)

\* Every entry's result is persisted in the end.
EveryEntryRecorded == \A t \in Trades : trade = t ~> closes[t] = 1

\* The account the exchange's orders give of the trade: the kinds of its fills
\* but the entry's, and whether a second stop has been accepted, which is at
\* the entry price.
Own(k) == {i \in 1 .. used : orders[i].trade = trade /\ orders[i].kind = k}
Fills == {k \in Kinds \ {"ENTRY"} : \E i \in Own(k) : orders[i].st = "filled"}
StopMoved == \E i, j \in Own("STOP") : i # j

Ledger == INSTANCE TradeLedger WITH
  Qty <- EntryQty, Half <- Tp1Qty,
  current <- trade, left <- held, fills <- Fills, moved <- StopMoved,
  recorded <- closes, why <- reason

\* One trade after the other, each with one result, whose reason is what its
\* orders' fills amount to: the handlers tell it from the position's copy of
\* order ids and flags, through every replacement of the stop.
ImplementsLedger == Ledger!LedgerSpec

\* phase_7.md:21: a fill whose order's call failed is caught by the pending
\* entry, and the position is known.
EntryCaught ==
  held > 0 /\ Delivered /\ eng = 0 => pos # NoPosition \/ \E t \in Trades : closes[t] > 0
=============================================================================
