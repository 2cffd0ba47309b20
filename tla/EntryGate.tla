------------------------------ MODULE EntryGate ------------------------------
(***************************************************************************)
(* From a due intent to a position: the two goroutines that execute        *)
(* intents and everything they ask on the way.                             *)
(*                                                                         *)
(*   - the scheduler's goroutine runs IntentHandler.Fire (internal/        *)
(*     execution/intent_handler.go);                                       *)
(*   - the AfterTrigger's runs AfterExecutionStrategy.Execute (after_      *)
(*     strategy.go);                                                       *)
(*   - both end in ExecutionEngine.execute (engine.go), which reads the    *)
(*     kill switch, the positions, the losses and the balance in turn,     *)
(*     sends the order and only then writes the position;                  *)
(*   - meanwhile fills are handled and positions close (position_          *)
(*     manager.go), feeds trip the kill switch, days end and the process   *)
(*     may die.                                                            *)
(*                                                                         *)
(* Every read or write of the shared cache is a step of its own: between   *)
(* two of them the other goroutine, and everything else, may move.         *)
(***************************************************************************)
EXTENDS Integers, FiniteSets

CONSTANTS
  Symbols,          (* the symbols traded                                    *)
  Scores,           (* composite scores of intents                           *)
  MaxPositions,     (* trading.max_positions                                 *)
  MaxDailyLosses,   (* risk.max_daily_losses                                 *)
  MinScore,         (* scoring.min_score                                     *)
  MinScoreOverride, (* scoring.min_score_override, 0 when it is off          *)
  MaxLosses,        (* bound: losses on one day                              *)
  NoSymbol          (* the symbol of a goroutine at rest                     *)

ASSUME ConstantsAssumption ==
  /\ IsFiniteSet(Symbols) /\ NoSymbol \notin Symbols
  /\ Scores \subseteq Int
  /\ MaxPositions \in Nat /\ MaxDailyLosses \in Nat
  /\ MinScore \in Int /\ MinScoreOverride \in Int
  /\ MaxLosses \in Nat

Modes == {"FRONTRUN", "LAST_MINUTE", "AFTER"}
Workers == {"scheduler", "trigger"}

\* What a goroutine does next: the checks before the engine ("fire"), the
\* engine's reads in their order, the order, the write of the position.
\* From "losses" on it has seen the positions.
Admitted == {"losses", "balance", "order", "stub"}
Steps == {"idle", "fire", "kill", "positions"} \cup Admitted

VARIABLES
  step,      (* what each goroutine does next                                *)
  sym,       (* the symbol of the intent it executes                         *)
  positions, (* the symbols of the cached positions                          *)
  strays,    (* those of them no execution of this process was admitted for  *)
  losses,    (* today's loss counter                                         *)
  uncounted, (* losing positions removed whose loss is not yet counted       *)
  kill,      (* the kill switch                                              *)
  counted,   (* the goroutine's last read of the counter succeeded           *)
  afterKill, (* orders it sent with the kill switch on                       *)
  afterLimit (* orders it sent today with too many losses, their number read *)

flow    == <<step, sym>>
account == <<positions, strays, losses, uncounted, kill>>
history == <<counted, afterKill, afterLimit>>
vars    == <<flow, account, history>>

None == [w \in Workers |-> 0]

Init ==
  /\ step = [w \in Workers |-> "idle"]
  /\ sym = [w \in Workers |-> NoSymbol]
  /\ positions = {} /\ strays = {}
  /\ losses = 0 /\ uncounted = 0 /\ kill = FALSE
  /\ counted = [w \in Workers |-> FALSE]
  /\ afterKill = None /\ afterLimit = None

GoesTo(w, p) ==
  /\ step' = [step EXCEPT ![w] = p]
  /\ UNCHANGED sym

\* mutant: an execution that ends keeps its symbol
AtRestNamed(w) ==
  /\ step' = [step EXCEPT ![w] = "idle"]
  /\ UNCHANGED sym

\* An execution ends, whether it opened a position or was refused.
AtRest(w) ==
  /\ step' = [step EXCEPT ![w] = "idle"]
  /\ sym' = [sym EXCEPT ![w] = NoSymbol]

-----------------------------------------------------------------------------
(* The checks before the engine.                                           *)

\* EvaluateCandidate's first guard: the override admits a lower score.
ScoreTooLow(score) ==
  score < MinScore /\ ~(MinScoreOverride > 0 /\ score >= MinScoreOverride)

\* Its others depend on the market of the moment alone.
RiskRejects(score, wideATR, breakout) == ScoreTooLow(score) \/ wideATR \/ breakout

\* What comes before it: Fire looks at the mode of the scheduler's intent
\* (its minScore is the override, app.go:356), the trigger at the price.
RejectedBefore(w, mode, score, stale) ==
  IF w = "scheduler" THEN mode = "LAST_MINUTE" /\ score < MinScoreOverride ELSE stale

\* The queue hands an intent over, or the trigger has claimed it.
HandedOver(w, s) ==
  /\ step[w] = "idle"
  /\ step' = [step EXCEPT ![w] = "fire"]
  /\ sym' = [sym EXCEPT ![w] = s]
  /\ UNCHANGED <<account, history>>

Screened(w, mode, score) ==
  /\ step[w] = "fire"
  /\ \E wideATR, breakout, stale \in BOOLEAN :
       IF RejectedBefore(w, mode, score, stale) \/ RiskRejects(score, wideATR, breakout)
         THEN AtRest(w) ELSE GoesTo(w, "kill")
  /\ UNCHANGED <<account, history>>

-----------------------------------------------------------------------------
(* ExecutionEngine.execute.                                                *)

\* mutant: the limit off by one more
FullByOneMore == Cardinality(positions) > MaxPositions + 1

\* The engine's limit, which is not the risk engine's (>=).
Full == Cardinality(positions) > MaxPositions

\* mutant: a symbol of the book is no obstacle
BlocksWhenFull(s) == Full

Blocks(s) == Full \/ s \in positions

TooManyLosses == losses > MaxDailyLosses

\* mutant: an error of the read lets the trade pass
KillReadOpen(w) ==
  /\ step[w] = "kill"
  /\ AtRest(w) \/ GoesTo(w, "positions")
  /\ UNCHANGED <<account, history>>

\* The kill switch is read; an error of the read counts as on.
KillRead(w) ==
  /\ step[w] = "kill"
  /\ AtRest(w) \/ (~kill /\ GoesTo(w, "positions"))
  /\ UNCHANGED <<account, history>>

\* The positions are read; an error ends the execution.
PositionsRead(w) ==
  /\ step[w] = "positions"
  /\ AtRest(w) \/ (~Blocks(sym[w]) /\ GoesTo(w, "losses"))
  /\ UNCHANGED <<account, history>>

\* The losses are read ...
LossesRead(w) ==
  /\ step[w] = "losses"
  /\ IF TooManyLosses THEN AtRest(w) ELSE GoesTo(w, "balance")
  /\ counted' = [counted EXCEPT ![w] = TRUE]
  /\ UNCHANGED <<account, afterKill, afterLimit>>

\* ... or an error of the read lets the trade pass.
LossesUnknown(w) ==
  /\ step[w] = "losses"
  /\ GoesTo(w, "balance")
  /\ counted' = [counted EXCEPT ![w] = FALSE]
  /\ UNCHANGED <<account, afterKill, afterLimit>>

\* The balance, from the cache or the exchange, is missing or too small.
BalanceRefuses(w) ==
  /\ step[w] = "balance"
  /\ AtRest(w)
  /\ UNCHANGED <<account, history>>

BalanceSuffices(w) ==
  /\ step[w] = "balance"
  /\ GoesTo(w, "order")
  /\ UNCHANGED <<account, history>>

Counting(f, w, on) == [f EXCEPT ![w] = IF on THEN @ + 1 ELSE @]

OrderPlaced(w) ==
  /\ step[w] = "order"
  /\ GoesTo(w, "stub")
  /\ afterKill' = Counting(afterKill, w, kill)
  /\ afterLimit' = Counting(afterLimit, w, TooManyLosses /\ counted[w])
  /\ UNCHANGED <<account, counted>>

\* An error ends the execution; what the exchange did with the order, and
\* how that comes back as a stray, is the position manager's and recovery's.
OrderFails(w) ==
  /\ step[w] = "order"
  /\ AtRest(w)
  /\ UNCHANGED <<account, history>>

\* SetActivePositionIfAbsent; its error is logged.
StubWritten(w) ==
  /\ step[w] = "stub"
  /\ positions' = positions \cup {sym[w]}
  /\ AtRest(w)
  /\ UNCHANGED <<strays, losses, uncounted, kill, history>>

StubFails(w) ==
  /\ step[w] = "stub"
  /\ AtRest(w)
  /\ UNCHANGED <<account, history>>

-----------------------------------------------------------------------------
(* What happens meanwhile.                                                 *)

\* The order's fill is handled before the stub: finalizeSLTP writes the
\* position.  After the stub it overwrites it.
FillHandled(w) ==
  /\ step[w] = "stub"
  /\ positions' = positions \cup {sym[w]}
  /\ UNCHANGED <<flow, strays, losses, uncounted, kill, history>>

\* A position in the cache that no execution was admitted for: one written
\* back from a copy after it was closed, or rehydrated at startup.
StrayAppears(s) ==
  /\ positions' = positions \cup {s} /\ strays' = strays \cup {s}
  /\ UNCHANGED <<flow, losses, uncounted, kill, history>>

\* persistClose removes the position ...
Closes(s, loss) ==
  /\ s \in positions
  /\ loss => losses + uncounted < MaxLosses
  /\ positions' = positions \ {s} /\ strays' = strays \ {s}
  /\ uncounted' = IF loss THEN uncounted + 1 ELSE uncounted
  /\ UNCHANGED <<flow, losses, kill, history>>

\* ... then counts the loss, on the day it is by then.
LossCounted ==
  /\ uncounted > 0
  /\ uncounted' = uncounted - 1 /\ losses' = losses + 1
  /\ UNCHANGED <<flow, positions, strays, kill, history>>

\* The counter's key carries the date.
DayEnds ==
  /\ losses' = 0
  /\ afterLimit' = None
  /\ UNCHANGED <<flow, positions, strays, uncounted, kill, counted, afterKill>>

\* A feed reports too many failures.  Nothing in the code resets the switch.
Killed ==
  /\ kill' = TRUE
  /\ UNCHANGED <<flow, positions, strays, losses, uncounted, history>>

\* The process dies and starts again: the executions and the losses not yet
\* counted are gone, what Redis holds is not.
Restarts ==
  /\ step' = [w \in Workers |-> "idle"]
  /\ sym' = [w \in Workers |-> NoSymbol]
  /\ uncounted' = 0
  /\ UNCHANGED <<positions, strays, losses, kill, history>>

-----------------------------------------------------------------------------
Executes(w) ==
  \/ \E s \in Symbols : HandedOver(w, s)
  \/ \E mode \in Modes, score \in Scores : Screened(w, mode, score)
  \/ KillRead(w) \/ PositionsRead(w) \/ LossesRead(w) \/ LossesUnknown(w)
  \/ BalanceRefuses(w) \/ BalanceSuffices(w)
  \/ OrderPlaced(w) \/ OrderFails(w)
  \/ StubWritten(w) \/ StubFails(w)
  \/ FillHandled(w)

Meanwhile ==
  \/ \E s \in Symbols : StrayAppears(s) \/ \E loss \in BOOLEAN : Closes(s, loss)
  \/ LossCounted \/ DayEnds \/ Killed \/ Restarts

Next == (\E w \in Workers : Executes(w)) \/ Meanwhile

Spec == Init /\ [][Next]_vars

-----------------------------------------------------------------------------
(* Properties.                                                             *)

\* Every variable has its type; a goroutine has a symbol exactly while it
\* executes an intent, and every stray is a cached position.
TypeOK ==
  /\ step \in [Workers -> Steps]
  /\ sym \in [Workers -> Symbols \cup {NoSymbol}]
  /\ \A w \in Workers : sym[w] = NoSymbol <=> step[w] = "idle"
  /\ positions \subseteq Symbols /\ strays \subseteq positions
  /\ losses \in Nat /\ uncounted \in Nat /\ losses + uncounted <= MaxLosses
  /\ kill \in BOOLEAN
  /\ counted \in [Workers -> BOOLEAN]
  /\ afterKill \in [Workers -> Nat] /\ afterLimit \in [Workers -> Nat]

\* The symbol whose way to the cache only the order's outcome can stop.
HeldSymbol == [w \in Workers |-> IF step[w] \in Admitted THEN sym[w] ELSE NoSymbol]

Book == INSTANCE Admission WITH
          Limit <- MaxPositions, book <- positions, held <- HeldSymbol

\* The engine implements the book (engine.go:122-135 to :227): whatever the
\* goroutines interleave to, each was admitted to a book no larger than
\* MaxPositions that did not hold its symbol.
ImplementsBook == Book!BookSpec

\* trading.max_positions against engine.go:126, which compares with >, reads
\* several calls before it writes and runs in two goroutines: the positions
\* cached or on their way, strays aside, exceed the configured maximum by no
\* more than two.
PositionBound ==
  Cardinality(Book!Claimed) <= MaxPositions + 2

\* The limits are read once, several calls before the order (engine.go:118,
\* :137, :190).  Once the kill switch is on, or the day has too many losses,
\* a goroutine sends at most one more order, the one whose reads were behind
\* it, until the day ends; reads of the losses that fail are excepted.
LimitsStop == \A w \in Workers : afterKill[w] <= 1 /\ afterLimit[w] <= 1

=============================================================================
