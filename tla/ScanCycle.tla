------------------------------ MODULE ScanCycle ------------------------------
(***************************************************************************)
(* The scans of a funding cycle (scanFn, internal/app/scan.go): what they  *)
(* may put before the LLM, what its answer changes, and the cooldowns that *)
(* keep a symbol from being put before it again.                           *)
(*                                                                         *)
(* The scheduler's goroutine scans; the other goroutines execute the       *)
(* intents a scan queues and close positions (persistClose, internal/      *)
(* execution/position_manager.go) between any two of its steps.  Cooldowns *)
(* are keys of Redis that expire: they outlive a restart, the queue and    *)
(* the record of the last call do not.                                     *)
(***************************************************************************)
EXTENDS Integers, FiniteSets

CONSTANTS
  Symbols,        (* what the funding scanner proposes                       *)
  Scores,         (* composite scores                                        *)
  Trends,         (* BTC's trends                                            *)
  TopN,           (* llm.top_candidates                                      *)
  MaxPositions,   (* trading.max_positions                                   *)
  (* Durations, in units of 30 seconds where the code's are to be met:       *)
  Settlement,     (* from the opening of the window to T: 30 minutes         *)
  Late,           (* LAST_MINUTE: 6 minutes                                  *)
  EarlyGate,      (* the LLM is asked from T-20m on                          *)
  Freeze,         (* no scan in the last 30 seconds                          *)
  Close,          (* T+1m, when the AFTER window ends                        *)
  BaseCooldown,   (* symbolCooldownDurationLLM: 10 minutes                   *)
  ExtraCooldown,  (* what a decision to open adds: 10 minutes                *)
  CloseCooldown,  (* after a close: 20 minutes                               *)
  CallCooldown,   (* llm.call_cooldown_secs: 3 minutes                       *)
  LeastFrontrun,  (* the shortest cooldown of a FRONTRUN skip: 1 minute      *)
  LeastLate,      (* ... and of a LAST_MINUTE skip: 30 seconds               *)
  NoSymbol, NoCall

ASSUME ConstantsAssumption ==
  /\ NoSymbol \notin Symbols
  /\ Scores \subseteq Int
  /\ TopN \in Nat /\ MaxPositions \in Nat
  /\ Settlement \in Nat /\ Late \in Nat /\ EarlyGate \in Nat /\ Close \in Nat
  /\ Freeze \in Nat \ {0}
  /\ BaseCooldown \in Nat \ {0} /\ ExtraCooldown \in Nat /\ CloseCooldown \in Nat \ {0}
  /\ CallCooldown \in Nat
  /\ LeastFrontrun \in Nat \ {0} /\ LeastLate \in Nat \ {0}

\* What the cooldowns are long enough for: from the early gate on, one of a
\* decision and one of a close both last until the settlement.  In the code
\* both are exactly as long as the gate is early.
ASSUME CooldownsReachSettlement ==
  /\ EarlyGate <= BaseCooldown + ExtraCooldown
  /\ EarlyGate <= CloseCooldown
  /\ Late <= EarlyGate

Windows == {"FRONTRUN", "LAST_MINUTE"}
Ages == {"none", "young", "old"}

\* No scan begins after the settlement.
WindowOf(t) == IF Settlement - t > Late THEN "FRONTRUN" ELSE "LAST_MINUTE"

VARIABLES
  now,       (* units since the window opened                                *)
  pc,        (* where the scan is                                            *)
  label,     (* the window its tick computed                                 *)
  cand,      (* its candidates so far                                        *)
  top, first, score, trend, (* what it asks the LLM about                    *)
  lastCall,  (* a.lastLLMCall                                                *)
  cooldown,  (* when each symbol's cooldown expires, 0 when it has none      *)
  queue,     (* the symbols with a queued intent                             *)
  positions, (* the cached positions, old ones of an earlier cycle           *)
  closing,   (* young ones removed, the cooldown not yet set                 *)
  proposals  (* how often the LLM decided to open each symbol in this cycle  *)

inputs   == <<label, cand, top, first, score, trend>>
scanVars == <<pc, inputs, lastCall>>
bookVars == <<queue, positions, closing>>
vars == <<now, scanVars, cooldown, bookVars, proposals>>

Nobody == [s \in Symbols |-> 0]

Init ==
  /\ now = 0
  /\ pc = "idle" /\ label = "FRONTRUN"
  /\ cand = {} /\ top = {} /\ first = NoSymbol /\ score = << >> /\ trend \in Trends
  /\ lastCall = NoCall
  /\ cooldown = Nobody
  /\ queue = {} /\ closing = {}
  /\ positions \in [Symbols -> {"none", "old"}]
  /\ proposals = Nobody

Later(a, b) == IF a > b THEN a ELSE b

Open == {s \in Symbols : positions[s] # "none"}

-----------------------------------------------------------------------------
(* The clock.                                                              *)

\* A unit passes, and keys expire.  The two reads of Redis at the beginning
\* of a scan take no unit.
Passes ==
  /\ now < Settlement + Close
  /\ pc \notin {"begun", "free"}
  /\ now' = now + 1
  /\ cooldown' = [s \in Symbols |-> IF cooldown[s] > now + 1 THEN cooldown[s] ELSE 0]
  /\ UNCHANGED <<scanVars, bookVars, proposals>>

\* The hours to the next cycle: no scan and no close lasts that long, the
\* queue is cleared, every cooldown expires, positions are no longer young.
HoursPass ==
  /\ now = Settlement + Close
  /\ pc = "idle" /\ closing = {}
  /\ now' = 0
  /\ cooldown' = Nobody /\ proposals' = Nobody
  /\ queue' = {}
  /\ positions' = [s \in Symbols |-> IF positions[s] = "none" THEN "none" ELSE "old"]
  /\ lastCall' = IF lastCall = NoCall THEN NoCall
                 ELSE [lastCall EXCEPT !.until = 0, !.current = FALSE]
  /\ UNCHANGED <<pc, inputs, closing>>

-----------------------------------------------------------------------------
(* A scan, until it asks the LLM.                                          *)

Rests ==
  /\ pc' = "idle"
  /\ cand' = {} /\ top' = {} /\ first' = NoSymbol /\ score' = << >>
  /\ UNCHANGED <<label, trend>>

\* A FRONTRUN scan forgets the call of an earlier cycle.
Remembered(w) ==
  IF lastCall # NoCall /\ w = "FRONTRUN" /\ ~lastCall.current THEN NoCall ELSE lastCall

Recent(call) == call # NoCall /\ now < call.until

\* PreCheck; the kill switch and the losses are the entry gate's.
Refused(halted) == halted \/ Cardinality(Open) >= MaxPositions

\* On a restricted day nothing below happens.
ScanBegins ==
  /\ pc = "idle" /\ now < Settlement - Freeze
  /\ label' = WindowOf(now)
  /\ lastCall' = Remembered(WindowOf(now))
  /\ \E halted \in BOOLEAN :
       pc' = IF Recent(Remembered(WindowOf(now))) \/ Refused(halted) THEN "idle" ELSE "begun"
  /\ UNCHANGED <<now, cand, top, first, score, trend, cooldown, bookVars, proposals>>

\* The scanner's candidates without those with a position ...
OccupiedRead ==
  /\ pc = "begun"
  /\ \E C \in SUBSET Symbols : cand' = C \ Open
  /\ pc' = "free"
  /\ UNCHANGED <<now, label, top, first, score, trend, lastCall, cooldown, bookVars, proposals>>

Rested == {s \in cand : cooldown[s] = 0}

\* ... and without those on cooldown.
CooldownsRead ==
  /\ pc = "free"
  /\ cand' = Rested
  /\ pc' = "filtered"
  /\ UNCHANGED <<now, label, top, first, score, trend, lastCall, cooldown, bookVars, proposals>>

\* Volume, order book, stale and confluence gates, or errors, leave nobody;
\* or it is a FRONTRUN scan and still early.
GivesUp ==
  /\ pc = "filtered"
  /\ Rests
  /\ UNCHANGED <<now, lastCall, cooldown, bookVars, proposals>>

GateOpen == label = "FRONTRUN" => Settlement - now <= EarlyGate

\* The best TopN of those scored.
IsTop(T, S, f) ==
  /\ T # {} /\ T \subseteq S
  /\ Cardinality(T) = IF Cardinality(S) < TopN THEN Cardinality(S) ELSE TopN
  /\ \A s \in T, r \in S \ T : f[r] <= f[s]

\* The last call had the same inputs: its selected symbol's score is
\* compared with the best candidate's.
Unchanged(best, tr) ==
  /\ lastCall # NoCall
  /\ lastCall.label = label /\ lastCall.score = best /\ lastCall.trend = tr

Asks ==
  /\ pc = "filtered" /\ GateOpen
  /\ \E S \in SUBSET cand, tr \in Trends :
       \E f \in [S -> Scores] :
         \E T \in SUBSET S :
           \E s \in T :
             /\ IsTop(T, S, f) /\ \A r \in T : f[r] <= f[s]
             /\ ~Unchanged(f[s], tr)
             /\ top' = T /\ first' = s /\ score' = [r \in T |-> f[r]] /\ trend' = tr
  /\ cand' = {}
  /\ pc' = "asked"
  /\ UNCHANGED <<now, label, lastCall, cooldown, bookVars, proposals>>

-----------------------------------------------------------------------------
(* The LLM's answer.                                                       *)

\* The call is remembered with the score of the symbol it names, 0 if none.
Call(sc) == [label |-> label, score |-> sc, trend |-> trend,
             until |-> now + CallCooldown, current |-> TRUE]

\* mutant: only until the next window begins, which may be now
BareExpiry == IF label = "FRONTRUN" THEN Settlement - Late ELSE Settlement

\* Until the next window begins, but for a while at least.  In the hour
\* after T NextFundingTime is still T.
SkipExpiry ==
  IF label = "FRONTRUN" THEN Later(Settlement - Late, now + LeastFrontrun)
                        ELSE Later(Settlement, now + LeastLate)

\* mutant: a decision to open adds nothing
ShortExpiry == now + BaseCooldown

OpenExpiry == now + BaseCooldown + ExtraCooldown

\* SKIP, too low a confidence, an unknown symbol, no answer at all: all that
\* were asked about rest until the next window, and past FRONTRUN the best
\* one's queued intent is cancelled.
Skips ==
  /\ pc = "asked"
  /\ \E sc \in {score[s] : s \in top} \cup {0} : lastCall' = Call(sc)
  /\ cooldown' = [s \in Symbols |-> IF s \in top THEN SkipExpiry ELSE cooldown[s]]
  /\ queue' = IF label = "FRONTRUN" THEN queue ELSE queue \ {first}
  /\ Rests
  /\ UNCHANGED <<now, positions, closing, proposals>>

\* OPEN_SHORT: the symbol rests, and is queued unless the confidence is
\* worth no size (confidenceToSize).
Proposes(s, sized) ==
  /\ pc = "asked" /\ s \in top
  /\ lastCall' = Call(score[s])
  /\ cooldown' = [cooldown EXCEPT ![s] = OpenExpiry]
  /\ queue' = IF sized THEN queue \cup {s} ELSE queue
  /\ proposals' = [proposals EXCEPT ![s] = @ + 1]
  /\ Rests
  /\ UNCHANGED <<now, positions, closing>>

-----------------------------------------------------------------------------
(* The other goroutines.                                                   *)

\* A queued intent is executed, with or without a position to show for it.
Executed(s, opened) ==
  /\ s \in queue
  /\ queue' = queue \ {s}
  /\ positions' = IF opened /\ positions[s] = "none"
                    THEN [positions EXCEPT ![s] = "young"] ELSE positions
  /\ UNCHANGED <<now, scanVars, cooldown, closing, proposals>>

\* persistClose removes the position, then sets a cooldown unless the
\* position is more than three hours old.
Closes(s) ==
  /\ positions[s] # "none"
  /\ positions' = [positions EXCEPT ![s] = "none"]
  /\ closing' = IF positions[s] = "young" THEN closing \cup {s} ELSE closing
  /\ UNCHANGED <<now, scanVars, cooldown, queue, proposals>>

ClosedSets(s) ==
  /\ s \in closing
  /\ closing' = closing \ {s}
  /\ cooldown' = [cooldown EXCEPT ![s] = now + CloseCooldown]
  /\ UNCHANGED <<now, scanVars, queue, positions, proposals>>

\* The process dies and starts again.
Restarts ==
  /\ Rests
  /\ lastCall' = NoCall
  /\ queue' = {} /\ closing' = {}
  /\ UNCHANGED <<now, cooldown, positions, proposals>>

-----------------------------------------------------------------------------
Scan ==
  \/ ScanBegins \/ OccupiedRead \/ CooldownsRead \/ GivesUp \/ Asks
  \/ Skips
  \/ \E s \in Symbols, sized \in BOOLEAN : Proposes(s, sized)

Others ==
  \/ \E s \in Symbols : \/ \E opened \in BOOLEAN : Executed(s, opened)
                        \/ Closes(s) \/ ClosedSets(s)
  \/ Restarts

Next == Passes \/ HoursPass \/ Scan \/ Others

Spec == Init /\ [][Next]_vars

-----------------------------------------------------------------------------
(* Properties.                                                             *)

\* Every variable has its type, what was proposed was proposed from the gate
\* on, and no cooldown is one that has expired.
TypeOK ==
  /\ now \in 0 .. Settlement + Close
  /\ pc \in {"idle", "begun", "free", "filtered", "asked"}
  /\ label \in Windows
  /\ cand \subseteq Symbols /\ top \subseteq Symbols
  /\ first \in Symbols \cup {NoSymbol}
  /\ cooldown \in [Symbols -> Nat]
  /\ \A s \in Symbols : cooldown[s] # 0 => cooldown[s] > now
  /\ queue \subseteq Symbols /\ closing \subseteq Symbols
  /\ positions \in [Symbols -> Ages]
  /\ proposals \in [Symbols -> Nat]

\* A symbol the LLM decided to open is not put before it again in the cycle,
\* whatever is executed, closed, skipped or restarted meanwhile.  So no
\* second scan replaces a queued intent or doubles a position, and the
\* cancellation after a late SKIP (scan.go:637) finds nothing.  It rests on
\* cooldowns exactly as long as the gate is early (scan.go:27 and :409,
\* position_manager.go:1102).
NeverReconsidered ==
  pc = "asked" => \A s \in top : proposals[s] = 0 /\ s \notin queue

=============================================================================
