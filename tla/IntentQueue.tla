----------------------------- MODULE IntentQueue -----------------------------
(***************************************************************************)
(* The intent queue (internal/intent/queue.go) and the two goroutines that *)
(* use it around a funding settlement T:                                   *)
(*                                                                         *)
(*   - the scheduler (internal/scheduler/scheduler.go), which every second *)
(*     ticks or clears the queue and then runs scanFn (internal/app/       *)
(*     scan.go), all in one goroutine;                                     *)
(*   - the AfterTrigger (internal/execution/after_trigger.go), which peeks *)
(*     at the queue at T-2m and claims the best intent at T+3s.            *)
(*                                                                         *)
(* A step that holds q.mu is one action.  The queue releases q.mu while an *)
(* intent executes, so an execution is a state of its goroutine, and the   *)
(* clock may advance in it by any number of phases.                        *)
(***************************************************************************)
EXTENDS Naturals, FiniteSets

CONSTANTS
  Symbols,      (* the symbols the scanner proposes                          *)
  Confidences,  (* the LLM's confidence in a proposal: larger is better      *)
  MaxIntents,   (* bound: intents proposed in a behaviour                    *)
  MaxCycles     (* bound: funding cycles in a behaviour                      *)

ASSUME ConstantsAssumption ==
  /\ Symbols # {}
  /\ Confidences # {} /\ Confidences \subseteq Nat
  /\ MaxIntents \in Nat \ {0}
  /\ MaxCycles \in Nat \ {0}

-----------------------------------------------------------------------------
(* Time.  A cycle runs from one settlement to the next; its phases are:    *)
(*   EARLY   T-30m .. T-20m   FRONTRUN window, before frontrunFireWindow   *)
(*   FIRE    T-20m .. T-6m    FRONTRUN window, intents may fire            *)
(*   LATE    T-6m  .. T-30s   LAST_MINUTE window                           *)
(*   FREEZE  T-30s .. T       LAST_MINUTE window, no new scan              *)
(*   AFTER   T     .. T+1m    AFTER window                                 *)
(*   NONE    the hours until the next T-30m                                *)

Phases == {"EARLY", "FIRE", "LATE", "FREEZE", "AFTER", "NONE"}

PhaseAfter(p) ==
  CASE p = "EARLY"  -> "FIRE"
    [] p = "FIRE"   -> "LATE"
    [] p = "LATE"   -> "FREEZE"
    [] p = "FREEZE" -> "AFTER"
    [] p = "AFTER"  -> "NONE"
    [] p = "NONE"   -> "EARLY"

Windows == {"FRONTRUN", "LAST_MINUTE", "AFTER"}

\* CurrentWindow: WindowNone is the one phase that belongs to no window.
WindowOf(p) ==
  CASE p \in {"EARLY", "FIRE"}  -> "FRONTRUN"
    [] p \in {"LATE", "FREEZE"} -> "LAST_MINUTE"
    [] p = "AFTER"              -> "AFTER"
    [] p = "NONE"               -> "NONE"

\* windowRank and modeRank: a decision's entry mode is named like a window.
Rank(w) ==
  CASE w = "FRONTRUN"    -> 0
    [] w = "LAST_MINUTE" -> 1
    [] w = "AFTER"       -> 2
    [] w = "NONE"        -> 3

-----------------------------------------------------------------------------
Ids == 1 .. MaxIntents

\* A TradeIntent.  cycle stands for ExpiresAt, one minute after the
\* settlement of that cycle.  An intent is pending exactly as long as it is
\* in the queue: the code marks it FIRED and removes it in one step.
Intent == [id: Ids, sym: Symbols, mode: Windows, conf: Confidences, cycle: 1 .. MaxCycles]

NoIntent == [id |-> 0]

VARIABLES
  phase, cycle,  (* the clock                                                *)
  cleared,       (* the queue was cleared in this NONE phase                 *)
  queue,         (* q.intents                                                *)
  fired,         (* q.firedInWindow                                          *)
  nextId,        (* the identity of the next intent                          *)
  spc,           (* where the scheduler goroutine is                         *)
  swin,          (* the window it computed when its tick began               *)
  todo, cur,     (* its snapshot of eligible intents, the one it executes    *)
  fromScan,      (* the tick under way was called by scanFn                  *)
  tpc,           (* where the AfterTrigger goroutine is                      *)
  tdue,          (* the cycle whose settlement its timer is armed for        *)
  tcur,          (* the intent it executes                                   *)
  schedRuns, trigRuns, (* how often each goroutine executed each intent      *)
  opened         (* executions of this cycle not skipped, per window         *)

clockVars == <<phase, cycle, cleared>>
queueVars == <<queue, fired, nextId>>
schedVars == <<spc, swin, todo, cur, fromScan>>
trigVars  == <<tpc, tdue, tcur>>
history   == <<schedRuns, trigRuns, opened>>
vars == <<clockVars, queueVars, schedVars, trigVars, history>>

Zero == [w \in Windows |-> 0]

Init ==
  /\ phase \in Phases /\ cycle = 1 /\ cleared = FALSE
  /\ queue = {} /\ fired = Zero /\ nextId = 1
  /\ spc = "idle" /\ swin = "NONE" /\ todo = {} /\ cur = NoIntent /\ fromScan = FALSE
  /\ tpc = "asleep" /\ tdue = 0 /\ tcur = NoIntent
  /\ schedRuns = [i \in Ids |-> 0] /\ trigRuns = [i \in Ids |-> 0]
  /\ opened = Zero

-----------------------------------------------------------------------------
(* The queue's helpers.                                                    *)

\* mutant: the comparison the wrong way round
WindowReadyReversed(w, mode) == w \in Windows /\ Rank(w) <= Rank(mode)

WindowReady(w, mode) == w \in Windows /\ Rank(w) >= Rank(mode)

\* An intent expires one minute after the settlement of its cycle.
Expired(i) == i.cycle < cycle \/ (i.cycle = cycle /\ phase = "NONE")

\* What expireLocked keeps.
Live == {i \in queue : ~Expired(i)}

Eligible(q, w) == {i \in q : WindowReady(w, i.mode)}

\* An intent no other of S beats: the queue is sorted by confidence, and
\* sort.Slice leaves the order of equal ones open.
IsBest(i, S) == i \in S /\ \A j \in S : j.conf <= i.conf

\* mutant: the intent handed over stays in the queue
WithoutNone(q, i) == q

\* removeByIndexLocked
Without(q, i) == q \ {i}

\* mutant: a proposal joins the one it should replace
WithoutNoSymbol(q, s) == q

\* The queue without the symbol's pending intent: what CancelBySymbol leaves,
\* and what Enqueue adds the symbol's latest proposal to.
WithoutSymbol(q, s) == {i \in q : i.sym # s}

\* mutant: an execution that is not counted
Uncounted(w) == fired

Counted(w) == [fired EXCEPT ![w] = @ + 1]

\* mutant: the clearing resets the counters only
StillQueued == queue

\* What ClearAfterSettlement leaves in the queue.
Emptied == {}

\* How many executions a window admits before its ticks do nothing.
Limit(w) == IF w = "AFTER" THEN 1 ELSE 2

\* Tick finds something to fire: below the limit, and FRONTRUN only within
\* frontrunFireWindow of the settlement.
MayFire(w) ==
  /\ w \in Windows
  /\ fired[w] < Limit(w)
  /\ w = "FRONTRUN" => phase # "EARLY"

-----------------------------------------------------------------------------
(* The clock.                                                              *)

\* Hours pass between the AFTER window and the next FRONTRUN window: every
\* call of the scheduler has returned (they have timeouts of a minute at
\* most) and one of its ticks has cleared the queue; the AfterTrigger's
\* timer for the settlement behind is not hours late.
HoursPass ==
  /\ spc = "idle" /\ cleared
  /\ tpc # "exec"
  /\ ~(tpc = "armed" /\ tdue <= cycle)

Advance ==
  /\ phase # "NONE"
  /\ phase' = PhaseAfter(phase)
  /\ UNCHANGED <<cycle, cleared, queueVars, schedVars, trigVars, history>>

NextCycle ==
  /\ phase = "NONE" /\ HoursPass
  /\ cycle < MaxCycles
  /\ phase' = PhaseAfter(phase)
  /\ cycle' = cycle + 1
  /\ cleared' = FALSE
  /\ opened' = Zero
  /\ UNCHANGED <<queueVars, schedVars, trigVars, schedRuns, trigRuns>>

-----------------------------------------------------------------------------
(* The scheduler's goroutine.                                              *)

\* tick computes the window; its use of it may come late.
SchedWake ==
  /\ spc = "idle" /\ phase # "NONE"
  /\ spc' = "tick" /\ swin' = WindowOf(phase)
  /\ fromScan' = FALSE
  /\ UNCHANGED <<clockVars, queueVars, todo, cur, trigVars, history>>

\* Outside every window a tick is ClearAfterSettlement and nothing else.
SchedClear ==
  /\ spc = "idle" /\ phase = "NONE"
  /\ queue' = Emptied /\ fired' = Zero
  /\ cleared' = TRUE
  /\ UNCHANGED <<phase, cycle, nextId, schedVars, trigVars, history>>

\* Where the goroutine goes when a tick of the queue ends.
AfterTick == IF fromScan THEN "idle" ELSE "gate"

\* The loop of a tick hands i over: FIRED, removed, q.mu released.
HandOver(i, rest, q) ==
  /\ queue' = Without(q, i)
  /\ todo' = rest \ {i} /\ cur' = i
  /\ spc' = "exec"
  /\ schedRuns' = [schedRuns EXCEPT ![i.id] = @ + 1]

\* Queue.Tick: expired intents go, then the best eligible one is handed over.
SchedTickFires ==
  /\ spc \in {"tick", "scanTick"}
  /\ MayFire(swin)
  /\ \E i \in Live : /\ IsBest(i, Eligible(Live, swin))
                     /\ HandOver(i, Eligible(Live, swin), Live)
  /\ UNCHANGED <<clockVars, fired, nextId, swin, fromScan, trigVars, trigRuns, opened>>

SchedTickIdles ==
  /\ spc \in {"tick", "scanTick"}
  /\ ~MayFire(swin) \/ Eligible(Live, swin) = {}
  /\ queue' = Live
  /\ spc' = AfterTick
  /\ UNCHANGED <<clockVars, fired, nextId, swin, todo, cur, fromScan, trigVars, history>>

\* execFn returns anything but ErrSkipped: the window counts it and the tick
\* ends, whether the order was placed or failed.
SchedExecuted ==
  /\ spc = "exec"
  /\ fired' = Counted(swin)
  /\ opened' = [opened EXCEPT ![swin] = @ + 1]
  /\ todo' = {} /\ cur' = NoIntent
  /\ spc' = AfterTick
  /\ UNCHANGED <<clockVars, queue, nextId, swin, fromScan, trigVars, schedRuns, trigRuns>>

\* execFn returns ErrSkipped: the loop goes on with the next intent of the
\* snapshot.  Neither its status nor the window's count is looked at again.
SchedSkippedNext ==
  /\ spc = "exec"
  /\ \E i \in todo : IsBest(i, todo) /\ HandOver(i, todo, queue)
  /\ UNCHANGED <<clockVars, fired, nextId, swin, fromScan, trigVars, trigRuns, opened>>

SchedSkippedLast ==
  /\ spc = "exec" /\ todo = {}
  /\ cur' = NoIntent
  /\ spc' = AfterTick
  /\ UNCHANGED <<clockVars, queueVars, swin, todo, fromScan, trigVars, history>>

\* After the tick: no scan in the AFTER window, none in the last 30 seconds,
\* none without the slot's scheduler lock.
SchedScans ==
  /\ spc = "gate"
  /\ swin # "AFTER" /\ phase # "FREEZE"
  /\ spc' = "scan"
  /\ UNCHANGED <<clockVars, queueVars, swin, todo, cur, fromScan, trigVars, history>>

SchedRests ==
  /\ spc \in {"gate", "scan"}
  /\ spc' = "idle"
  /\ UNCHANGED <<clockVars, queueVars, swin, todo, cur, fromScan, trigVars, history>>

\* The LLM's answer to a scan.  A FRONTRUN scan asks it from T-20m on.
Asked == spc = "scan" /\ (swin = "FRONTRUN" => phase # "EARLY")

\* SKIP: past FRONTRUN the pending intent of the top candidate is cancelled.
ScanCancels(s) ==
  /\ Asked /\ swin # "FRONTRUN"
  /\ queue' = WithoutSymbol(queue, s)
  /\ spc' = "idle"
  /\ UNCHANGED <<clockVars, fired, nextId, swin, todo, cur, fromScan, trigVars, history>>

\* OPEN: Enqueue replaces the symbol's pending intent; a Tick follows.
ScanEnqueues(s, m, c) ==
  /\ Asked /\ nextId <= MaxIntents
  /\ queue' = WithoutSymbol(queue, s)
               \cup {[id |-> nextId, sym |-> s, mode |-> m, conf |-> c, cycle |-> cycle]}
  /\ nextId' = nextId + 1
  /\ spc' = "scanTick" /\ fromScan' = TRUE
  /\ UNCHANGED <<clockVars, fired, swin, todo, cur, trigVars, history>>

-----------------------------------------------------------------------------
(* The AfterTrigger's goroutine.                                           *)

\* mutant: a settlement two cycles off
DueCyclesFar == {cycle + 2}

\* It wakes at T-2m and, in the hour that follows T, whenever its loop comes
\* round.  Peeking takes nothing; the timer is set to 3s after the symbol's
\* own next settlement, which may be one further off.
DueCycles == {k \in {cycle, cycle + 1} : k = cycle => phase \in {"LATE", "FREEZE"}}

TrigArms ==
  /\ tpc = "asleep" /\ phase \notin {"EARLY", "FIRE"}
  /\ fired["AFTER"] < 1 /\ Eligible(queue, "AFTER") # {}
  /\ tdue' \in DueCycles
  /\ tpc' = "armed"
  /\ UNCHANGED <<clockVars, queueVars, schedVars, tcur, history>>

Due == tpc = "armed" /\ cycle = tdue /\ phase \in {"AFTER", "NONE"}

\* ClaimAfterIntent: found, marked fired and removed under one lock.
TrigClaims ==
  /\ Due /\ fired["AFTER"] < 1
  /\ \E i \in queue :
       /\ IsBest(i, Eligible(queue, "AFTER"))
       /\ queue' = Without(queue, i)
       /\ tcur' = i
       /\ trigRuns' = [trigRuns EXCEPT ![i.id] = @ + 1]
  /\ fired' = Counted("AFTER")
  /\ opened' = [opened EXCEPT !["AFTER"] = @ + 1]
  /\ tpc' = "exec"
  /\ UNCHANGED <<clockVars, nextId, schedVars, tdue, schedRuns>>

TrigFindsNone ==
  /\ Due
  /\ fired["AFTER"] >= 1 \/ Eligible(queue, "AFTER") = {}
  /\ tpc' = "asleep"
  /\ UNCHANGED <<clockVars, queueVars, schedVars, tdue, tcur, history>>

TrigExecuted ==
  /\ tpc = "exec"
  /\ tpc' = "asleep" /\ tcur' = NoIntent
  /\ UNCHANGED <<clockVars, queueVars, schedVars, tdue, history>>

-----------------------------------------------------------------------------
Scan == \E s \in Symbols :
          \/ ScanCancels(s)
          \/ \E m \in Windows, c \in Confidences : ScanEnqueues(s, m, c)

Sched ==
  \/ SchedWake \/ SchedClear
  \/ SchedTickFires \/ SchedTickIdles
  \/ SchedExecuted \/ SchedSkippedNext \/ SchedSkippedLast
  \/ SchedScans \/ SchedRests \/ Scan

Trig == TrigArms \/ TrigClaims \/ TrigFindsNone \/ TrigExecuted

Next == Advance \/ NextCycle \/ Sched \/ Trig

\* The scheduler's goroutine is never starved for ever (its ticker fires
\* every second, its calls have timeouts) and time passes.
Fairness == WF_vars(Sched) /\ WF_vars(Advance)

Spec == Init /\ [][Next]_vars
FairSpec == Spec /\ Fairness

-----------------------------------------------------------------------------
(* Properties.                                                             *)

\* Every variable has its type.
TypeOK ==
  /\ phase \in Phases /\ cycle \in 1 .. MaxCycles /\ cleared \in BOOLEAN
  /\ queue \subseteq Intent
  /\ fired \in [Windows -> Nat] /\ opened \in [Windows -> Nat]
  /\ nextId \in 1 .. MaxIntents + 1
  /\ spc \in {"idle", "tick", "exec", "gate", "scan", "scanTick"}
  /\ swin \in Windows \cup {"NONE"}
  /\ todo \subseteq Intent
  /\ cur \in Intent \cup {NoIntent}
  /\ fromScan \in BOOLEAN
  /\ tpc \in {"asleep", "armed", "exec"}
  /\ tdue \in 0 .. MaxCycles + 1
  /\ tcur \in Intent \cup {NoIntent}
  /\ schedRuns \in [Ids -> Nat] /\ trigRuns \in [Ids -> Nat]

\* No window of a cycle opens more than two positions, whatever the ticks,
\* the scans' own ticks and the AfterTrigger interleave to: in AFTER one by
\* each goroutine, since the scheduler counts its execution only when it
\* returns (queue.go:229) and the AfterTrigger when it claims (queue.go:163).
WindowBudget == \A w \in Windows : opened[w] <= 2

\* Neither goroutine executes an intent twice, however executions that are
\* skipped, replaced proposals and claims interleave.
OncePerGoroutine == \A i \in Ids : schedRuns[i] <= 1 /\ trigRuns[i] <= 1

\* The queue never holds two intents for one symbol (queue.go:46-48), so
\* two goroutines that each take one cannot take the same symbol's.
OneIntentPerSymbol == \A i, j \in queue : i.sym = j.sym => i = j

Starts(before, after) == after # before /\ after # NoIntent

\* No intent is executed before the window it is meant for, although the
\* scheduler works with a window it computed earlier and a scan takes long.
NeverEarly ==
  [][/\ Starts(cur, cur')   => Rank(cur'.mode)  <= Rank(WindowOf(phase))
     /\ Starts(tcur, tcur') => Rank(tcur'.mode) <= Rank(WindowOf(phase))]_vars

\* No intent outlives its cycle: what the LLM proposed for one settlement is
\* never executed around another one.
NeverInLaterCycle ==
  [][/\ Starts(cur, cur')   => cur'.cycle  = cycle
     /\ Starts(tcur, tcur') => tcur'.cycle = cycle]_vars

\* Every intent leaves the queue: executed, replaced, cancelled, expired or
\* cleared.
EveryIntentLeaves ==
  \A n \in Ids : (\E i \in queue : i.id = n) ~> ~(\E i \in queue : i.id = n)
=============================================================================
