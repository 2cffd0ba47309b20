-------------------------- MODULE IntentQueueProofs --------------------------
(***************************************************************************)
(* The safety properties of IntentQueue, for every set of symbols and      *)
(* confidences and every number of intents and cycles.                     *)
(*                                                                         *)
(* IInv is the inductive invariant.  Its parts say why the properties      *)
(* hold: nothing survives the clearing of the queue, a goroutine that      *)
(* executes was let in by a counter that has moved at most once since, an  *)
(* intent that can still be handed over has not been, and all that is      *)
(* queued or in a snapshot belongs to the current cycle.                   *)
(***************************************************************************)
EXTENDS IntentQueue, TLAPS

-----------------------------------------------------------------------------
(* The inductive invariant.                                                *)

\* What may still be handed over.
Waiting == queue \cup todo

\* Only an execution has a snapshot.
SnapshotInUse == spc # "exec" => todo = {}

\* Between the clearing and the next cycle nothing is queued, counted or
\* under way.
ClearedIsEmpty ==
  cleared => phase = "NONE" /\ spc = "idle" /\ queue = {} /\ fired = Zero

\* The counters that admit executions count exactly those of this cycle.
CountersAreTrue == ~cleared => opened = fired

\* Since the scheduler was let in, at most the AfterTrigger was counted.
AdmittedBelowLimit == spc = "exec" => swin \in Windows /\ fired[swin] <= 1

\* An intent is known by its id, and what waits has not been executed.
FreshIds ==
  /\ \A i \in Waiting : i.id < nextId
  /\ \A i, j \in Waiting : i.id = j.id => i = j

NotYetRun ==
  /\ \A i \in Waiting : schedRuns[i.id] = 0
  /\ \A i \in queue : trigRuns[i.id] = 0
  /\ \A n \in Ids : n >= nextId => schedRuns[n] = 0 /\ trigRuns[n] = 0

\* All that waits was proposed in this cycle.
OfThisCycle == \A i \in Waiting : i.cycle = cycle

\* The window the scheduler works with has come, and its snapshot fits it.
WindowHasCome ==
  /\ spc # "idle" => Rank(swin) <= Rank(WindowOf(phase))
  /\ \A i \in todo : WindowReady(swin, i.mode)

IInv ==
  /\ TypeOK
  /\ SnapshotInUse /\ ClearedIsEmpty /\ CountersAreTrue /\ AdmittedBelowLimit
  /\ WindowBudget
  /\ OneIntentPerSymbol
  /\ FreshIds /\ NotYetRun /\ OncePerGoroutine
  /\ OfThisCycle
  /\ WindowHasCome

-----------------------------------------------------------------------------
(* Type correctness.                                                       *)

LEMMA InitTypeOK == Init => TypeOK
<1> SUFFICES ASSUME Init PROVE TypeOK
  OBVIOUS
<1>1. /\ cycle \in 1 .. MaxCycles /\ tdue \in 0 .. MaxCycles + 1
      /\ nextId \in 1 .. MaxIntents + 1
  BY ConstantsAssumption DEF ConstantsAssumption, Init
<1>2. /\ fired \in [Windows -> Nat] /\ opened \in [Windows -> Nat]
      /\ schedRuns \in [Ids -> Nat] /\ trigRuns \in [Ids -> Nat]
  BY DEF Init, Zero
<1> QED
  BY <1>1, <1>2 DEF Init, TypeOK

\* A counter incremented anywhere is still a counter.
LEMMA CountedType ==
  ASSUME NEW S, NEW f \in [S -> Nat], NEW x
  PROVE  [f EXCEPT ![x] = @ + 1] \in [S -> Nat]
<1>1. CASE x \in S
  <2>1. f[x] + 1 \in Nat
    BY <1>1
  <2> QED
    BY <1>1, <2>1
<1>2. CASE x \notin S
  BY <1>2
<1> QED
  BY <1>1, <1>2

LEMMA NextTypeOK == TypeOK /\ [Next]_vars => TypeOK'
<1> SUFFICES ASSUME TypeOK, [Next]_vars PROVE TypeOK'
  OBVIOUS
<1> USE ConstantsAssumption DEF ConstantsAssumption
<1>1. CASE Advance
  BY <1>1 DEF TypeOK, Advance, PhaseAfter, Phases, queueVars, schedVars, trigVars, history
<1>2. CASE NextCycle
  <2>1. /\ cycle' \in 1 .. MaxCycles /\ tdue' \in 0 .. MaxCycles + 1
    BY <1>2 DEF TypeOK, NextCycle, trigVars
  <2>2. opened' \in [Windows -> Nat] /\ phase' \in Phases
    BY <1>2 DEF NextCycle, Zero, PhaseAfter, Phases
  <2> QED
    BY <1>2, <2>1, <2>2 DEF TypeOK, NextCycle, queueVars, schedVars, trigVars
<1>3. CASE Sched
  <2>1. CASE SchedWake
    BY <2>1 DEF TypeOK, SchedWake, WindowOf, Windows, Phases,
                clockVars, queueVars, trigVars, history
  <2>2. CASE SchedClear
    BY <2>2 DEF TypeOK, SchedClear, Emptied, Zero, schedVars, trigVars, history
  <2>3. CASE SchedTickFires
    BY <2>3 DEF TypeOK, SchedTickFires, HandOver, Without, Live, Eligible, IsBest,
                Intent, clockVars, trigVars
  <2>4. CASE SchedTickIdles
    BY <2>4 DEF TypeOK, SchedTickIdles, AfterTick, Live, clockVars, trigVars, history
  <2>5. CASE SchedExecuted
    <3>1. fired' \in [Windows -> Nat] /\ opened' \in [Windows -> Nat]
      BY <2>5, CountedType DEF TypeOK, SchedExecuted, Counted
    <3> QED
      BY <2>5, <3>1 DEF TypeOK, SchedExecuted, AfterTick, clockVars, trigVars
  <2>6. CASE SchedSkippedNext
    BY <2>6 DEF TypeOK, SchedSkippedNext, HandOver, Without, IsBest, Intent,
                clockVars, trigVars
  <2>7. CASE SchedSkippedLast
    BY <2>7 DEF TypeOK, SchedSkippedLast, AfterTick, clockVars, queueVars, trigVars, history
  <2>8. CASE SchedScans \/ SchedRests
    BY <2>8 DEF TypeOK, SchedScans, SchedRests, clockVars, queueVars, trigVars, history
  <2>9. ASSUME NEW s \in Symbols, ScanCancels(s) PROVE TypeOK'
    BY <2>9 DEF TypeOK, ScanCancels, WithoutSymbol, clockVars, trigVars, history
  <2>10. ASSUME NEW s \in Symbols, NEW m \in Windows, NEW c \in Confidences,
                ScanEnqueues(s, m, c)
         PROVE  TypeOK'
    <3>1. nextId' \in 1 .. MaxIntents + 1 /\ nextId \in Ids
      BY <2>10 DEF TypeOK, ScanEnqueues, Ids
    <3>2. [id |-> nextId, sym |-> s, mode |-> m, conf |-> c, cycle |-> cycle] \in Intent
      BY <2>10, <3>1 DEF TypeOK, Intent
    <3>3. queue' \subseteq Intent
      BY <2>10, <3>2 DEF TypeOK, ScanEnqueues, WithoutSymbol
    <3> QED
      BY <2>10, <3>1, <3>3 DEF TypeOK, ScanEnqueues, clockVars, trigVars, history
  <2> QED
    BY <1>3, <2>1, <2>2, <2>3, <2>4, <2>5, <2>6, <2>7, <2>8, <2>9, <2>10 DEF Sched, Scan
<1>4. CASE Trig
  <2>1. CASE TrigArms
    BY <2>1 DEF TypeOK, TrigArms, DueCycles, clockVars, queueVars, schedVars, history
  <2>2. CASE TrigClaims
    <3>1. fired' \in [Windows -> Nat] /\ opened' \in [Windows -> Nat]
      BY <2>2, CountedType DEF TypeOK, TrigClaims, Counted
    <3>2. trigRuns' \in [Ids -> Nat]
      BY <2>2, CountedType DEF TypeOK, TrigClaims
    <3> QED
      BY <2>2, <3>1, <3>2 DEF TypeOK, TrigClaims, Without, clockVars, schedVars
  <2>3. CASE TrigFindsNone \/ TrigExecuted
    BY <2>3 DEF TypeOK, TrigFindsNone, TrigExecuted, clockVars, queueVars, schedVars, history
  <2> QED
    BY <1>4, <2>1, <2>2, <2>3 DEF Trig
<1>5. CASE UNCHANGED vars
  BY <1>5 DEF TypeOK, vars, clockVars, queueVars, schedVars, trigVars, history
<1> QED
  BY <1>1, <1>2, <1>3, <1>4, <1>5 DEF Next

\* Every variable has its type in every behaviour of the specification.
THEOREM TypeCorrect == Spec => []TypeOK
<1>1. Init => TypeOK
  BY InitTypeOK
<1>2. TypeOK /\ [Next]_vars => TypeOK'
  BY NextTypeOK
<1> QED
  BY <1>1, <1>2, PTL DEF Spec

-----------------------------------------------------------------------------
(* The counters.                                                           *)

Accounts == ClearedIsEmpty /\ CountersAreTrue /\ AdmittedBelowLimit /\ WindowBudget

LEMMA InitAccounts == Init => SnapshotInUse /\ Accounts
BY DEF Init, Zero, SnapshotInUse, Accounts, ClearedIsEmpty, CountersAreTrue,
       AdmittedBelowLimit, WindowBudget

LEMMA NextSnapshotInUse == SnapshotInUse /\ [Next]_vars => SnapshotInUse'
BY DEF SnapshotInUse, Next, Advance, NextCycle, Sched, SchedWake, SchedClear, SchedTickFires,
       HandOver, SchedTickIdles, AfterTick, SchedExecuted, SchedSkippedNext, SchedSkippedLast,
       SchedScans, SchedRests, Scan, Asked, ScanCancels, ScanEnqueues,
       Trig, TrigArms, TrigClaims, TrigFindsNone, TrigExecuted,
       vars, clockVars, queueVars, schedVars, trigVars, history

\* An execution moves the counter of its window and the count of executions
\* together, and is let in below two.
LEMMA Counting ==
  ASSUME NEW f \in [Windows -> Nat], NEW w \in Windows, f[w] <= 1,
         \A v \in Windows : f[v] <= 2
  PROVE  \A v \in Windows : [f EXCEPT ![w] = @ + 1][v] <= 2
OBVIOUS

LEMMA NextAccounts ==
  TypeOK /\ SnapshotInUse /\ Accounts /\ [Next]_vars => Accounts'
<1> SUFFICES ASSUME TypeOK, SnapshotInUse, Accounts, [Next]_vars PROVE Accounts'
  OBVIOUS
<1> USE DEF Accounts, ClearedIsEmpty, CountersAreTrue, AdmittedBelowLimit, WindowBudget
<1>1. CASE Advance
  BY <1>1 DEF Advance, queueVars, schedVars, history
<1>2. CASE NextCycle
  BY <1>2 DEF NextCycle, HoursPass, Zero, queueVars, schedVars
<1>3. CASE SchedWake \/ SchedScans \/ SchedRests
  BY <1>3 DEF SchedWake, SchedScans, SchedRests, clockVars, queueVars, history
<1>4. CASE SchedClear
  BY <1>4 DEF SchedClear, Emptied, schedVars, history
<1>5. CASE SchedTickFires
  <2>1. swin \in Windows /\ fired[swin] <= 1
    BY <1>5 DEF TypeOK, SchedTickFires, MayFire, Limit
  <2> QED
    BY <1>5, <2>1 DEF SchedTickFires, HandOver, clockVars
<1>6. CASE SchedTickIdles \/ SchedSkippedLast
  BY <1>6 DEF SchedTickIdles, SchedSkippedLast, AfterTick, clockVars, queueVars, history
<1>7. CASE SchedExecuted
  <2>1. ~cleared /\ opened = fired /\ swin \in Windows /\ fired[swin] <= 1
    BY <1>7 DEF SchedExecuted
  <2>2. \A v \in Windows : opened'[v] <= 2
    BY <1>7, <2>1, Counting DEF TypeOK, SchedExecuted
  <2> QED
    BY <1>7, <2>1, <2>2 DEF SchedExecuted, Counted, AfterTick, clockVars
<1>8. CASE SchedSkippedNext
  BY <1>8 DEF SchedSkippedNext, HandOver, clockVars
<1>9. ASSUME NEW s \in Symbols, ScanCancels(s) PROVE Accounts'
  BY <1>9 DEF ScanCancels, Asked, clockVars, history
<1>10. ASSUME NEW s \in Symbols, NEW m \in Windows, NEW c \in Confidences,
              ScanEnqueues(s, m, c)
       PROVE  Accounts'
  BY <1>10 DEF ScanEnqueues, Asked, clockVars, history
<1>11. CASE TrigArms \/ TrigFindsNone \/ TrigExecuted
  BY <1>11 DEF TrigArms, TrigFindsNone, TrigExecuted, clockVars, queueVars, schedVars, history
<1>12. CASE TrigClaims
  <2>1. ~cleared
    <3>1. queue # {}
      BY <1>12 DEF TrigClaims
    <3> QED
      BY <3>1
  <2>2. fired["AFTER"] = 0 /\ "AFTER" \in Windows
    BY <1>12 DEF TypeOK, TrigClaims, Windows
  <2>3. \A v \in Windows : opened'[v] <= 2
    BY <1>12, <2>1, <2>2, Counting DEF TypeOK, TrigClaims
  <2>4. opened' = fired'
    BY <1>12, <2>1 DEF TrigClaims, Counted
  <2>5. ASSUME spc = "exec" PROVE fired'[swin] <= 1
    <3>1. CASE swin = "AFTER"
      BY <1>12, <2>2, <2>5, <3>1 DEF TypeOK, TrigClaims, Counted
    <3>2. CASE swin # "AFTER"
      BY <1>12, <2>2, <2>5, <3>2 DEF TypeOK, TrigClaims, Counted
    <3> QED
      BY <3>1, <3>2
  <2> QED
    BY <1>12, <2>1, <2>3, <2>4, <2>5 DEF TrigClaims, clockVars, schedVars
<1>13. CASE UNCHANGED vars
  BY <1>13 DEF vars, clockVars, queueVars, schedVars, history
<1> QED
  BY <1>1, <1>2, <1>3, <1>4, <1>5, <1>6, <1>7, <1>8, <1>9, <1>10, <1>11, <1>12, <1>13
     DEF Next, Sched, Scan, Trig

-----------------------------------------------------------------------------
(* What waits in the queue and in the snapshot.                            *)

\* Every step keeps, takes from, or adds one new intent to what waits.  The
\* queue and the snapshot only grow by a proposal and by a tick's snapshot of
\* the queue.
LEMMA WaitingGrows ==
  ASSUME TypeOK, [Next]_vars
  PROVE  /\ todo' \subseteq Waiting
         /\ \/ queue' \subseteq queue /\ nextId' = nextId
            \/ \E s \in Symbols, m \in Windows, c \in Confidences : ScanEnqueues(s, m, c)
BY DEF Waiting, Next, Advance, NextCycle, Sched, SchedWake, SchedClear, Emptied, SchedTickFires,
       HandOver, Without, Live, Eligible, SchedTickIdles, SchedExecuted, SchedSkippedNext,
       SchedSkippedLast, SchedScans, SchedRests, Scan, ScanCancels, ScanEnqueues, WithoutSymbol,
       Trig, TrigArms, TrigClaims, TrigFindsNone, TrigExecuted,
       vars, clockVars, queueVars, schedVars, trigVars, history

LEMMA InitWaiting ==
  Init => OneIntentPerSymbol /\ FreshIds /\ NotYetRun /\ OncePerGoroutine /\ OfThisCycle
BY DEF Init, Waiting, OneIntentPerSymbol, FreshIds, NotYetRun, OncePerGoroutine, OfThisCycle

LEMMA NextOneIntentPerSymbol ==
  TypeOK /\ OneIntentPerSymbol /\ [Next]_vars => OneIntentPerSymbol'
<1> SUFFICES ASSUME TypeOK, OneIntentPerSymbol, [Next]_vars PROVE OneIntentPerSymbol'
  OBVIOUS
<1>1. CASE queue' \subseteq queue
  BY <1>1 DEF OneIntentPerSymbol
<1>2. ASSUME NEW s \in Symbols, NEW m \in Windows, NEW c \in Confidences,
             ScanEnqueues(s, m, c)
      PROVE  OneIntentPerSymbol'
  BY <1>2 DEF OneIntentPerSymbol, ScanEnqueues, WithoutSymbol
<1> QED
  BY <1>1, <1>2, WaitingGrows

LEMMA NextOfThisCycle ==
  TypeOK /\ SnapshotInUse /\ ClearedIsEmpty /\ OfThisCycle /\ [Next]_vars => OfThisCycle'
<1> SUFFICES ASSUME TypeOK, SnapshotInUse, ClearedIsEmpty, OfThisCycle, [Next]_vars
             PROVE  OfThisCycle'
  OBVIOUS
<1>1. CASE NextCycle
  BY <1>1 DEF NextCycle, HoursPass, SnapshotInUse, ClearedIsEmpty, OfThisCycle, Waiting,
              queueVars, schedVars
<1>2. ASSUME NEW s \in Symbols, NEW m \in Windows, NEW c \in Confidences,
             ScanEnqueues(s, m, c)
      PROVE  OfThisCycle'
  BY <1>2, WaitingGrows DEF OfThisCycle, Waiting, ScanEnqueues, WithoutSymbol, clockVars
<1>3. CASE queue' \subseteq queue /\ ~NextCycle
  <2>1. cycle' = cycle
    BY <1>3 DEF Next, Advance, Sched, SchedWake, SchedClear, SchedTickFires, SchedTickIdles,
       SchedExecuted, SchedSkippedNext, SchedSkippedLast, SchedScans, SchedRests,
       Scan, ScanCancels, ScanEnqueues, Trig, TrigArms, TrigClaims, TrigFindsNone,
       TrigExecuted, vars, clockVars
  <2> QED
    BY <1>3, <2>1, WaitingGrows DEF OfThisCycle, Waiting
<1> QED
  BY <1>1, <1>2, <1>3, WaitingGrows

-----------------------------------------------------------------------------
(* Executions of one intent.                                               *)

Identity == FreshIds /\ NotYetRun /\ OncePerGoroutine

\* A hand-over by the scheduler: what waits afterwards waited before and is
\* another intent.
LEMMA HandOverIdentity ==
  ASSUME TypeOK, Identity, NEW i \in Waiting,
         Waiting' \subseteq Waiting \ {i}, queue' \subseteq queue,
         schedRuns' = [schedRuns EXCEPT ![i.id] = @ + 1],
         UNCHANGED <<nextId, trigRuns>>
  PROVE  Identity'
<1> USE DEF Identity, FreshIds, NotYetRun, OncePerGoroutine
<1>1. i.id \in Ids /\ schedRuns[i.id] = 0 /\ i.id < nextId
  BY DEF TypeOK, Waiting, Intent
<1>2. schedRuns'[i.id] = 1 /\ \A n \in Ids : n # i.id => schedRuns'[n] = schedRuns[n]
  BY <1>1 DEF TypeOK
<1>3. \A j \in Waiting' : j.id # i.id /\ j.id \in Ids
  BY DEF TypeOK, Waiting, Intent
<1>4. FreshIds'
  OBVIOUS
<1>5. NotYetRun'
  <2>1. \A j \in Waiting' : schedRuns'[j.id] = 0
    BY <1>2, <1>3
  <2>2. \A n \in Ids : n >= nextId => n # i.id
    BY <1>1 DEF TypeOK, Ids
  <2> QED
    BY <1>2, <2>1, <2>2
<1>6. OncePerGoroutine'
  <2>1. \A n \in Ids : schedRuns'[n] <= 1
    BY <1>2
  <2> QED
    BY <2>1
<1> QED
  BY <1>4, <1>5, <1>6

LEMMA NextIdentity == TypeOK /\ SnapshotInUse /\ Identity /\ [Next]_vars => Identity'
<1> SUFFICES ASSUME TypeOK, SnapshotInUse, Identity, [Next]_vars PROVE Identity'
  OBVIOUS
<1> USE DEF Identity, FreshIds, NotYetRun, OncePerGoroutine
<1>1. CASE SchedTickFires
  <2>1. PICK i \in Live : /\ IsBest(i, Eligible(Live, swin))
                          /\ HandOver(i, Eligible(Live, swin), Live)
    BY <1>1 DEF SchedTickFires
  <2>2. /\ i \in Waiting /\ queue' \subseteq queue
        /\ Waiting' \subseteq Waiting \ {i}
    BY <2>1 DEF HandOver, Without, Live, Eligible, Waiting
  <2> QED
    BY <1>1, <2>1, <2>2, HandOverIdentity DEF SchedTickFires, HandOver
<1>2. CASE SchedSkippedNext
  <2>1. PICK i \in todo : HandOver(i, todo, queue)
    BY <1>2 DEF SchedSkippedNext
  <2>2. /\ i \in Waiting /\ queue' \subseteq queue
        /\ Waiting' \subseteq Waiting \ {i}
    BY <2>1 DEF HandOver, Without, Waiting
  <2> QED
    BY <1>2, <2>1, <2>2, HandOverIdentity DEF SchedSkippedNext, HandOver
<1>3. CASE TrigClaims
  <2>1. PICK i \in queue : /\ queue' = Without(queue, i)
                           /\ trigRuns' = [trigRuns EXCEPT ![i.id] = @ + 1]
    BY <1>3 DEF TrigClaims
  <2>2. i.id \in Ids /\ trigRuns[i.id] = 0 /\ i.id < nextId
    BY DEF TypeOK, Waiting, Intent
  <2>3. /\ trigRuns'[i.id] = 1
        /\ \A n \in Ids : n # i.id => trigRuns'[n] = trigRuns[n]
    BY <2>1, <2>2 DEF TypeOK
  <2>4. \A j \in queue' : j \in queue /\ j.id # i.id /\ j.id \in Ids
    BY <2>1 DEF TypeOK, Without, Waiting, Intent
  <2>5. todo' = todo /\ nextId' = nextId /\ schedRuns' = schedRuns
    BY <1>3 DEF TrigClaims, schedVars
  <2>6. nextId' = nextId /\ Waiting' \subseteq Waiting
    BY <1>3, <2>4, <2>5 DEF TrigClaims, Waiting
  <2>7. FreshIds'
    BY <2>6
  <2>8. NotYetRun'
    <3>1. \A j \in Waiting' : schedRuns'[j.id] = 0
      BY <2>5, <2>6
    <3>2. \A j \in queue' : trigRuns'[j.id] = 0
      BY <2>3, <2>4
    <3>3. \A n \in Ids : n >= nextId => n # i.id
      BY <2>2 DEF TypeOK, Ids
    <3> QED
      BY <2>3, <2>5, <2>6, <3>1, <3>2, <3>3
  <2>9. OncePerGoroutine'
    <3>1. \A n \in Ids : trigRuns'[n] <= 1
      BY <2>3
    <3> QED
      BY <2>5, <3>1
  <2> QED
    BY <2>7, <2>8, <2>9
<1>4. ASSUME NEW s \in Symbols, NEW m \in Windows, NEW c \in Confidences,
             ScanEnqueues(s, m, c)
      PROVE  Identity'
  <2>1. todo = {} /\ todo' = {}
    BY <1>4 DEF ScanEnqueues, Asked, SnapshotInUse
  <2>2. /\ nextId \in Ids /\ nextId' = nextId + 1
        /\ schedRuns' = schedRuns /\ trigRuns' = trigRuns
    BY <1>4 DEF ScanEnqueues, TypeOK, Ids, history
  <2>3. \A j \in queue' : \/ j \in queue
                          \/ j = [id |-> nextId, sym |-> s, mode |-> m, conf |-> c,
                                  cycle |-> cycle]
    BY <1>4 DEF ScanEnqueues, WithoutSymbol
  <2>4. \A j \in queue : j.id \in Ids /\ j.id < nextId
    BY DEF TypeOK, Waiting, Intent
  <2>5. \A j \in queue' : (j \in queue /\ j.id < nextId) \/ j.id = nextId
    BY <2>3, <2>4
  <2>6. FreshIds'
    <3>1. \A i \in Waiting' : i.id < nextId'
      BY <2>1, <2>2, <2>4, <2>5 DEF Waiting, Ids
    <3>2. \A i, j \in queue' : i.id = j.id => i = j
      <4> TAKE i, j \in queue'
      <4>1. CASE i.id = nextId
        BY <2>2, <2>3, <2>4, <4>1 DEF Ids
      <4>2. CASE i.id # nextId
        <5>1. i \in queue /\ (j \in queue \/ j.id = nextId)
          BY <2>5, <4>2
        <5> QED BY <4>2, <5>1 DEF Waiting
      <4> QED BY <4>1, <4>2
    <3> QED BY <2>1, <3>1, <3>2 DEF Waiting
  <2>7. NotYetRun'
    BY <2>1, <2>2, <2>4, <2>5 DEF Waiting, TypeOK, Ids
  <2> QED
    BY <2>2, <2>6, <2>7
<1>5. CASE /\ ~SchedTickFires /\ ~SchedSkippedNext /\ ~TrigClaims
           /\ ~\E s \in Symbols, m \in Windows, c \in Confidences : ScanEnqueues(s, m, c)
  <2>1. UNCHANGED <<nextId, schedRuns, trigRuns>> /\ queue' \subseteq queue
    BY <1>5, WaitingGrows
    DEF Next, Advance, NextCycle, Sched, SchedWake, SchedClear, SchedTickIdles,
        SchedExecuted, SchedSkippedLast, SchedScans, SchedRests, Scan, ScanCancels,
        Trig, TrigArms, TrigFindsNone, TrigExecuted,
        vars, clockVars, queueVars, schedVars, trigVars, history
  <2>2. Waiting' \subseteq Waiting
    BY <2>1, WaitingGrows DEF Waiting
  <2> QED
    BY <2>1, <2>2
<1> QED
  BY <1>1, <1>2, <1>3, <1>4, <1>5

-----------------------------------------------------------------------------
(* Windows.                                                                *)

\* A cycle's windows come in the order of their ranks.
LEMMA WindowsInOrder ==
  ASSUME phase \in Phases
  PROVE  /\ Rank(WindowOf(phase)) \in Nat
         /\ phase # "NONE" => Rank(WindowOf(phase)) <= Rank(WindowOf(PhaseAfter(phase)))
BY DEF Phases, WindowOf, Rank, PhaseAfter

LEMMA NextWindowHasCome ==
  TypeOK /\ SnapshotInUse /\ WindowHasCome /\ [Next]_vars => WindowHasCome'
<1> SUFFICES ASSUME TypeOK, SnapshotInUse, WindowHasCome, [Next]_vars PROVE WindowHasCome'
  OBVIOUS
<1> USE DEF WindowHasCome
<1>1. phase \in Phases /\ swin \in Windows \cup {"NONE"}
  BY DEF TypeOK
<1>2. Rank(swin) \in Nat
  BY <1>1 DEF Windows, Rank
<1>3. CASE Advance
  <2>1. UNCHANGED <<spc, swin, todo>> /\ phase # "NONE" /\ phase' = PhaseAfter(phase)
    BY <1>3 DEF Advance, schedVars
  <2>2. Rank(WindowOf(phase')) \in Nat
    BY <1>1, <2>1 DEF Phases, PhaseAfter, WindowOf, Rank
  <2>3. Rank(WindowOf(phase)) <= Rank(WindowOf(phase'))
    BY <1>1, <2>1, WindowsInOrder
  <2>4. spc # "idle" => Rank(swin) <= Rank(WindowOf(phase'))
    BY <1>1, <1>2, <2>2, <2>3, WindowsInOrder
  <2> QED
    BY <2>1, <2>4
<1>4. CASE NextCycle
  BY <1>4 DEF NextCycle, HoursPass, SnapshotInUse, schedVars
<1>5. CASE SchedWake
  BY <1>1, <1>5, WindowsInOrder DEF SchedWake, SnapshotInUse, clockVars
<1>6. CASE SchedTickFires
  BY <1>6 DEF SchedTickFires, HandOver, Eligible, clockVars
<1>7. CASE /\ ~Advance /\ ~NextCycle /\ ~SchedWake /\ ~SchedTickFires
  <2>1. /\ UNCHANGED <<phase, swin>> /\ todo' \subseteq todo
        /\ spc' # "idle" => spc # "idle"
    BY <1>7 DEF Next, Sched, SchedClear, SchedTickIdles, SchedExecuted, SchedSkippedNext,
       HandOver, SchedSkippedLast, AfterTick, SchedScans, SchedRests, Scan, Asked,
       ScanCancels, ScanEnqueues, Trig, TrigArms, TrigClaims, TrigFindsNone, TrigExecuted,
       vars, clockVars, queueVars, schedVars, trigVars, history
  <2> QED
    BY <2>1
<1> QED
  BY <1>3, <1>4, <1>5, <1>6, <1>7

-----------------------------------------------------------------------------
(* The theorems.                                                           *)

LEMMA Inductive == Spec => []IInv
<1>1. Init => IInv
  BY InitTypeOK, InitAccounts, InitWaiting
     DEF Init, IInv, Accounts, WindowHasCome
<1>2. IInv /\ [Next]_vars => IInv'
  BY NextTypeOK, NextSnapshotInUse, NextAccounts, NextOneIntentPerSymbol, NextIdentity,
     NextOfThisCycle, NextWindowHasCome
     DEF IInv, Accounts, Identity
<1> QED
  BY <1>1, <1>2, PTL DEF Spec

\* No window of a cycle opens more than two positions (queue.go:98-104, 163,
\* 194-201 and 229).
THEOREM AtMostTwoPerWindow == Spec => []WindowBudget
<1>1. IInv => WindowBudget
  BY DEF IInv
<1> QED
  BY <1>1, Inductive, PTL

\* No goroutine executes an intent twice (queue.go:126-143 and 149-165).
THEOREM NoGoroutineRepeats == Spec => []OncePerGoroutine
<1>1. IInv => OncePerGoroutine
  BY DEF IInv
<1> QED
  BY <1>1, Inductive, PTL

\* The queue holds one intent for a symbol at most (queue.go:46-78).
THEOREM LatestProposalWins == Spec => []OneIntentPerSymbol
<1>1. IInv => OneIntentPerSymbol
  BY DEF IInv
<1> QED
  BY <1>1, Inductive, PTL

\* A step that starts an execution takes an intent that waited.
LEMMA StartsFromWaiting ==
  ASSUME TypeOK, [Next]_vars
  PROVE  /\ Starts(cur, cur') =>
              /\ spc' = "exec" /\ UNCHANGED <<phase, cycle, swin>>
              /\ cur' \in Waiting
              /\ spc # "idle" /\ (cur' \in todo \/ WindowReady(swin, cur'.mode))
         /\ Starts(tcur, tcur') =>
              /\ tcur' \in queue
              /\ phase \in {"AFTER", "NONE"} /\ WindowReady("AFTER", tcur'.mode)
BY DEF Starts, Waiting, Live, Eligible, IsBest, Due, Next, Advance, NextCycle, Sched, SchedWake,
       SchedClear, SchedTickFires, HandOver, SchedTickIdles, SchedExecuted, SchedSkippedNext,
       SchedSkippedLast, SchedScans, SchedRests, Scan, ScanCancels, ScanEnqueues,
       Trig, TrigArms, TrigClaims, TrigFindsNone, TrigExecuted,
       vars, clockVars, queueVars, schedVars, trigVars, history

\* No intent is executed around a settlement it was not proposed for
\* (queue.go:253-265 and 341-350).
THEOREM NoIntentOutlivesItsCycle == Spec => NeverInLaterCycle
<1> DEFINE A == /\ Starts(cur, cur')   => cur'.cycle  = cycle
                /\ Starts(tcur, tcur') => tcur'.cycle = cycle
<1>1. IInv /\ [Next]_vars => [A]_vars
  BY StartsFromWaiting DEF IInv, OfThisCycle, Waiting
<1> QED
  BY <1>1, Inductive, PTL DEF Spec, NeverInLaterCycle

\* No intent is executed before its window (queue.go:352-372), although the
\* scheduler's window may be a scan's time old.
THEOREM NoIntentIsEarly == Spec => NeverEarly
<1> DEFINE A == /\ Starts(cur, cur')   => Rank(cur'.mode)  <= Rank(WindowOf(phase))
                /\ Starts(tcur, tcur') => Rank(tcur'.mode) <= Rank(WindowOf(phase))
<1>1. ASSUME IInv, [Next]_vars PROVE A
  <2>1. \A m \in Windows : Rank(m) \in Nat
    BY DEF Windows, Rank
  <2>2. phase \in Phases /\ \A i \in Waiting : i.mode \in Windows
    BY <1>1 DEF IInv, TypeOK, Waiting, Intent
  <2>3. ASSUME Starts(cur, cur') PROVE Rank(cur'.mode) <= Rank(WindowOf(phase))
    <3>1. /\ WindowReady(swin, cur'.mode) /\ cur'.mode \in Windows
          /\ Rank(swin) <= Rank(WindowOf(phase))
      BY <1>1, <2>2, <2>3, StartsFromWaiting DEF IInv, WindowHasCome
    <3> QED
      BY <2>1, <2>2, <3>1, WindowsInOrder DEF WindowReady
  <2>4. ASSUME Starts(tcur, tcur') PROVE Rank(tcur'.mode) <= Rank(WindowOf(phase))
    <3>1. /\ WindowReady("AFTER", tcur'.mode) /\ tcur'.mode \in Windows
          /\ phase \in {"AFTER", "NONE"}
      BY <1>1, <2>2, <2>4, StartsFromWaiting DEF IInv, Waiting
    <3>2. Rank("AFTER") <= Rank(WindowOf(phase))
      BY <3>1 DEF Rank, WindowOf
    <3> QED
      BY <2>1, <2>2, <3>1, <3>2, WindowsInOrder DEF WindowReady
  <2> QED
    BY <2>3, <2>4
<1>2. IInv /\ [Next]_vars => [A]_vars
  BY <1>1
<1> QED
  BY <1>2, Inductive, PTL DEF Spec, NeverEarly
=============================================================================
