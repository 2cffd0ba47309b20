------------------------------- MODULE Recovery -------------------------------
(***************************************************************************)
(* PositionManager with a process that may die, and the reconciliation at  *)
(* its start (internal/execution/reconciler.go).  The process dies between *)
(* two steps or within a handler, after some of its calls and before it    *)
(* writes the cache.  What it had in memory and the events of the stream   *)
(* until its next connection are lost; Redis and the exchange go on.       *)
(* Reconcile runs before any other goroutine (internal/app/app.go:376).    *)
(***************************************************************************)
EXTENDS PositionManager

CONSTANT MaxCrashes  (* bound: deaths of the process *)

ASSUME CrashesAssumption == MaxCrashes \in Nat

VARIABLES
  proc,     (* "up", "down", reconciling after having "read", not yet       *)
            (* connected to the stream after having "reconciled"            *)
  found,    (* what the exchange told: the position's quantity and the open *)
            (* orders.  Stops are algo orders, which are not listed there   *)
  crashes,
  rehydrated  (* the trades rehydratePosition made up                        *)

recVars == <<vars, proc, found, crashes, rehydrated>>

NothingFound == [held |-> 0, limits |-> {}]

RecInit ==
  /\ Init
  /\ proc = "up" /\ found = NothingFound /\ crashes = 0 /\ rehydrated = {}

-----------------------------------------------------------------------------
(* The process dies.                                                       *)

\* Its memory: the engine's call, the stream's handler, the loops' copies,
\* pendingForceClose, the events received.
Dies ==
  /\ proc = "up" /\ crashes < MaxCrashes
  /\ proc' = "down" /\ crashes' = crashes + 1
  /\ eng' = 0 /\ ws' = 0 /\ fclose' = 0 /\ events' = <<>>
  /\ at' = [l \in UnlockedLoops |-> "idle"]
  /\ snap' = [l \in UnlockedLoops |-> NoPosition]
  /\ UNCHANGED <<held, cache, trade, faults, lost, found, rehydrated>>

DiesIdle == Dies /\ UNCHANGED <<orders, used, history>>

\* Within finalizeSLTP: n orders are placed, the trade may be recorded.
DiesFinalizing(t, n, recorded) ==
  /\ Dies /\ held > 0 /\ used + n <= MaxOrders
  /\ \/ ws = t
     \/ IsStub(pos) /\ pos.trade = t /\ t \in pending /\ Waited
  /\ recorded => n = 3
  /\ LET new == <<Opened("STOP", t, 0), Opened("TP1", t, Tp1Qty), Opened("TP2", t, Tp2Qty)>>
     IN orders' = Accepted(SubSeq(new, 1, n))
  /\ used' = used + n
  /\ inserts' = IF recorded THEN [inserts EXCEPT ![t] = @ + 1] ELSE inserts
  /\ UNCHANGED <<closes, reason>>

\* Within handleTP1Fill or check, while the stop is being replaced.
DiesReplacing(placed) ==
  /\ Dies /\ pos # NoPosition
  /\ \/ Handling({"TP1"}) /\ Event = pos.tp /\ ~pos.tp1 /\ pos.tp2 # 0
     \/ ~pos.be /\ ~pos.tp1 /\ Aged
  /\ placed => used < MaxOrders
  /\ orders' = IF placed THEN [Cancelled(Replaced(pos)) EXCEPT ![used + 1] = EntryStop(pos.trade)]
                         ELSE Cancelled(Replaced(pos))
  /\ used' = IF placed THEN used + 1 ELSE used
  /\ UNCHANGED history

\* What the handler of the fill that ends the trade cancels and persists.
Ending ==
  CASE Event = pos.tp  -> [ids |-> {pos.sl, pos.tsl}, reason |-> "TP2"]
    [] Event = pos.tp2 -> [ids |-> {pos.tsl}, reason |-> "TP2"]
    [] Event = pos.tsl -> [ids |-> {pos.tp2}, reason |-> "TP_TRAIL"]
    [] Event = pos.sl  -> [ids |-> Siblings(pos),
                           reason |-> IF pos.be THEN "BREAKEVEN_SL" ELSE "HARD_SL"]
    [] OTHER           -> [ids |-> {},
                           reason |-> IF Event = fclose THEN "FORCE_CLOSE" ELSE "MANUAL"]

\* Within that handler: some of the orders are cancelled, or all of them are
\* and persistClose stored the result; the position is still cached.
DiesClosing(stored) ==
  /\ Dies /\ Handling(Kinds \ {"ENTRY"}) /\ pos # NoPosition
  /\ Event = pos.tp => ~pos.tp1 /\ pos.tp2 = 0
  /\ \E done \in SUBSET Ending.ids :
       /\ stored => done = Ending.ids
       /\ orders' = Cancelled(done)
  /\ closes' = IF stored THEN [closes EXCEPT ![pos.trade] = @ + 1] ELSE closes
  /\ reason' = IF stored THEN [reason EXCEPT ![pos.trade] = Ending.reason] ELSE reason
  /\ UNCHANGED <<used, inserts>>

-----------------------------------------------------------------------------
(* Reconcile.                                                              *)

\* It asks the exchange for positions and open orders; nothing else of the
\* process runs, so the cache it reads stays as it is.
Reads ==
  /\ proc = "down" /\ proc' = "read"
  /\ found' = [held |-> held,
               limits |-> {i \in OrderIds : IsOpen(i) /\ orders[i].kind \in {"TP1", "TP2"}}]
  /\ UNCHANGED <<vars, crashes, rehydrated>>

\* It cannot: the start goes on without.
ReadFails ==
  /\ proc = "down" /\ proc' = "reconciled"
  /\ Fail(1)
  /\ UNCHANGED <<exchange, cache, fclose, trade, eng, ws, loops, lost, history,
                 found, crashes, rehydrated>>

Reconciles ==
  /\ proc = "read" /\ proc' = "reconciled" /\ found' = NothingFound
  /\ UNCHANGED <<held, events, pending, pp, fclose, eng, ws, loops, lost, crashes>>

\* Nothing on either side.
Agrees ==
  /\ Reconciles
  /\ found.held = 0 /\ pos = NoPosition
  /\ UNCHANGED <<orders, used, pos, trade, faults, history, rehydrated>>

\* A refused stop is no fault if another one stands: the exchange may insist
\* on a single one.
StopFault(ok) == IF \E i \in OrderIds : IsOpen(i) /\ orders[i].kind = "STOP"
                 THEN 0 ELSE FaultIfNot(ok)

\* Case 1, rehydratePosition: a new trade for the orphan.  An open limit
\* order is taken for its stop, and TP1 is placed in any case.
Rehydrates(stop, tp) ==
  /\ Reconciles
  /\ found.held > 0 /\ pos = NoPosition /\ trade < MaxTrades
  /\ stop => found.limits = {}
  /\ tp => held > 0
  /\ LET t     == trade + 1
         stops == IF stop THEN <<Opened("STOP", t, 0)>> ELSE <<>>
         tps   == IF tp THEN <<Opened("TP1", t, found.held \div 2)>> ELSE <<>>
         n     == used + Len(stops)
     IN
     /\ n + Len(tps) <= MaxOrders
     /\ orders' = Accepted(stops \o tps)
     /\ used' = n + Len(tps)
     /\ \E sl \in IF stop THEN {n} ELSE IF found.limits = {} THEN {0} ELSE found.limits :
          pos' = [Stub(t) EXCEPT !.sl = sl, !.tp = IF tp THEN n + 1 ELSE 0,
                                 !.qty = found.held, !.orig = found.held]
     /\ trade' = t
     /\ rehydrated' = rehydrated \cup {t}
     /\ inserts' = [inserts EXCEPT ![t] = @ + 1]
  /\ Fail((IF found.limits = {} THEN StopFault(stop) ELSE 0) + FaultIfNot(tp))
  /\ UNCHANGED <<closes, reason>>

\* mutant: an order the cache names is there
MissingIfUnnamed(id) == id = 0

\* verifyProtection looks for the client id it has cached among the numeric
\* ids of the open orders, and never finds it.
Missing(id) == TRUE

\* Case 3, replaceMissingOrders: the stop, then TP1 for the whole quantity.
\* What is there is not cancelled (it is not found either).  After a refusal
\* the cache is left as it was.  A stub has no prices to place them at.
Replaces(stop, tp) ==
  LET needsSL == Missing(pos.sl)
      needsTP == Missing(pos.tp)
      stops == IF stop THEN <<Opened("STOP", pos.trade, 0)>> ELSE <<>>
      tps   == IF tp THEN <<Opened("TP1", pos.trade, pos.orig)>> ELSE <<>>
      n     == used + Len(stops)
      failed == (needsSL /\ ~stop) \/ (needsTP /\ ~tp)
  IN
  /\ Reconciles
  /\ found.held > 0 /\ pos # NoPosition
  /\ stop => needsSL /\ ~IsStub(pos)
  /\ tp => needsTP /\ ~IsStub(pos) /\ held > 0 /\ (needsSL => stop)
  /\ n + Len(tps) <= MaxOrders
  /\ orders' = Accepted(stops \o tps)
  /\ used' = n + Len(tps)
  /\ pos' = IF failed THEN pos
            ELSE [pos EXCEPT !.sl = IF stop THEN n ELSE @, !.tp = IF tp THEN n + 1 ELSE @]
  /\ Fail(IF IsStub(pos) THEN 0
          ELSE IF needsSL /\ ~stop THEN StopFault(stop)
          ELSE IF needsTP THEN FaultIfNot(tp) ELSE 0)
  /\ UNCHANGED <<trade, history, rehydrated>>

\* mutant: the position stays in the cache
NotCleaned == pos

\* mutant: its trade id is cleared, the record stays
HalfCleaned == [pos EXCEPT !.trade = 0]

Cleaned == NoPosition

\* Case 2, cleanupStalePosition: the trade counts as closed by hand.
CleansUp ==
  /\ Reconciles
  /\ found.held = 0 /\ pos # NoPosition
  /\ pos' = Cleaned
  /\ closes' = [closes EXCEPT ![pos.trade] = @ + 1]
  /\ reason' = [reason EXCEPT ![pos.trade] = "MANUAL"]
  /\ UNCHANGED <<orders, used, trade, faults, inserts, rehydrated>>

\* The stream connects: what happened before is not told.
Connects ==
  /\ proc = "reconciled" /\ proc' = "up"
  /\ events' = <<>>
  /\ UNCHANGED <<orders, used, held, cache, fclose, trade, eng, ws, loops, faults, lost,
                 history, found, crashes, rehydrated>>

-----------------------------------------------------------------------------
Dying ==
  \/ DiesIdle
  \/ \E t \in Trades, n \in 1 .. 3, recorded \in BOOLEAN : DiesFinalizing(t, n, recorded)
  \/ \E placed \in BOOLEAN : DiesReplacing(placed)
  \/ \E stored \in BOOLEAN : DiesClosing(stored)

Reconcile ==
  \/ Reads \/ ReadFails \/ Agrees \/ CleansUp
  \/ \E stop, tp \in BOOLEAN : Rehydrates(stop, tp) \/ Replaces(stop, tp)

\* PositionManager's own steps, and what goes on without the process: the
\* exchange, and Redis expiring keys.
Runs ==
  /\ \/ proc = "up" /\ Next
     \/ proc # "up" /\ (Exchange \/ \E t \in Trades : PendingExpires(t))
  /\ UNCHANGED <<proc, found, crashes, rehydrated>>

RecNext == Dying \/ Reconcile \/ Connects \/ Runs

RecSpec == RecInit /\ [][RecNext]_recVars

-----------------------------------------------------------------------------
(* Properties.                                                             *)

\* Every variable has its type.
RecTypeOK ==
  /\ TypeOK
  /\ proc \in {"up", "down", "read", "reconciled"}
  /\ found \in [held: Nat, limits: SUBSET OrderIds]
  /\ crashes \in 0 .. MaxCrashes
  /\ rehydrated \subseteq Trades

Finishes == proc = "read" /\ proc' = "reconciled"

\* After a reconciliation in which no call failed, a position that the exchange
\* did not close meanwhile is in the cache, and it has a stop or it is a stub
\* the sweep will find: wherever the process died, within the replacement of
\* a stop or with some of the orders of an entry placed.
RestartProtects ==
  [][Finishes /\ faults' = 0 /\ held > 0 =>
       /\ pos' # NoPosition
       /\ Stopped' \/ IsStub(pos')]_recVars

\* It leaves a position in the cache exactly when the exchange holds one,
\* whichever fills were never told, unless that changes while it runs.
RestartAgrees ==
  [][Finishes /\ held = found.held => (pos' # NoPosition <=> held' > 0)]_recVars

\* Death and restart leave no live position naked for good: what NeverNaked
\* says holds again once the stream is connected.  It ends with a trade that
\* rehydratePosition made up: that one has no TP2, so that the fill of half of
\* it counts as its close.
NeverNakedAfterRestart ==
  proc = "up" /\ faults = 0 => NeverNaked \/ \E t \in rehydrated : closes[t] > 0
=============================================================================
