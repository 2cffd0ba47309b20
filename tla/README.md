# Formal model of the funding-rate bot

The bot shorts perpetual futures around Binance's funding settlements.  An LLM
proposes trades minutes ahead; a queue holds the proposals until their window;
the execution engine sells; the position manager protects, adjusts and closes
the position, driven by the exchange's fill events, by several timers and by
records in Redis.  This directory models the parts in which goroutines,
partial failures, event order and restarts decide whether money is at risk: the
scans of a funding cycle, the intent queue with its two executing goroutines,
their way through the limits to an order, the life of a position, its recovery
when the process has died, and the feed of candles; and, as pure computations
over what the feed brings, the candle patterns and the score.

| file | what it is |
|---|---|
| `IntentQueue.tla` | the queue, the scheduler, the scans and the after-trigger |
| `MCIntentQueue.tla`, `IntentQueue.cfg` | its model-checked instance |
| `IntentQueueProofs.tla` | its theorems, checked by TLAPS for all constants |
| `PositionManager.tla` | entry, protection, fills, repair and closing of a symbol's position |
| `TradeLedger.tla` | the abstract account of trades that it implements |
| `MCPositionManager.tla`, `Position*.cfg` | its model-checked instances |
| `PositionManagerProofs.tla` | its theorems |
| `Recovery.tla` | the position manager with a process that dies, and the reconciliation at its start |
| `MCRecovery.tla`, `Recovery.cfg` | its model-checked instance |
| `RecoveryProofs.tla` | its theorems, on top of those of the position manager |
| `Admission.tla` | the abstract book that the entry path implements |
| `EntryGate.tla`, `MCEntryGate.tla`, `EntryGate.cfg` | the way of an intent through every check to an order |
| `EntryGateProofs.tla` | its theorems, the refinement and the book's bound among them |
| `ScanCycle.tla`, `MCScanCycle.tla`, `ScanCycle.cfg` | the scans of a funding cycle, their cooldowns and the LLM's answers |
| `ScanCycleProofs.tla` | its theorems |
| `MarketFeed.tla`, `MCMarketFeed.tla`, `MarketFeed.cfg`, `FeedKillSwitch.cfg` | connection, window manager and candle store |
| `MarketFeedProofs.tla` | its theorems |
| `CandlePatterns.tla`, `MCCandlePatterns.tla`, `CandlePatterns.cfg` | what is read out of closed candles |
| `CandlePatternsProofs.tla` | its theorems |
| `Scoring.tla`, `MCScoring.tla`, `Scoring.cfg` | the composite score of a candidate |
| `ScoringProofs.tla` | its theorems |
| `PROJECT.json` | runs, mutants, map from definitions to source lines, hazards |

All paths below are relative to `src/internal/` unless they start with `docs/`
or `config/`.

## 1. Inventory

### Components

| component | code | state | operations | correct when |
|---|---|---|---|---|
| Intent queue | `intent/queue.go`, `intent/intent.go` | intents, executions per window, time of the last frontrun execution; one mutex | Enqueue, Tick, CancelBySymbol, ClaimAfterIntent, ClearAfterSettlement | executions per window are bounded, nothing runs twice, early or a cycle late, nothing stays for ever |
| Scheduler | `scheduler/*.go` | next settlement seen, flags of the loop | tick every second: clear after a settlement, tick the queue, gate, scan, tick again | the window handed to the queue is never ahead of the clock |
| After trigger | `execution/after_trigger.go` | the settlement it sleeps for, clock offset, order book | arm before a settlement, wake behind it, claim and execute | claims only intents of the settlement it is armed for |
| Scan pipeline | `app/scan.go` | the last LLM call; cooldowns in Redis | filter, score, ask the LLM, set cooldowns, cancel and enqueue intents | follows the LLM's answer; what it decided to open is not asked about again in the cycle |
| Intent handler and risk | `execution/intent_handler.go`, `execution/after_strategy.go`, `risk/*` | drawdown and loss counters in Redis | check at fire time, set leverage, execute | limits hold whoever executes |
| Execution engine | `execution/engine.go` | pending entries, the stub of a position | execute: limits, pending entry, market order, stub | a short position is known to the bot as soon as it may exist |
| Position manager | `execution/position_manager.go` | a lock per symbol, pendingForceClose; positions, pending protections, pending entries in Redis | check (1 s), fill events, retries, breakeven, pre-settlement (10 s), funding avoidance (minute 55), protection sweep (60 s) | no position without a stop that nobody is about to repair; each trade recorded once; nothing left behind at the exchange |
| Reconciler | `execution/reconciler.go` | none | at start: compare Redis with the exchange, rehydrate, re-protect, record closes | afterwards the two agree |
| Redis cache | `storage/redis.go` | positions hash, pending entries (TTL 70 s), protections, cooldowns, kill switch | get, set, set if absent, remove | - |
| User data stream and other WebSockets | `exchange/binance_ws.go`, `app/websocket.go`, `exchange/stream_router.go` | connection, failures, subscriptions | connect, read, detect staleness, back off, kill switch | reconnects; gives up only on a lasting failure |
| REST client, executors | `exchange/binance_client.go`, `execution/*_executor.go` | clock offset | signed calls | - |
| Window market data manager | `app/websocket.go`, `app/pollers.go` | the window's watchlist | open, backfill, subscribe, unsubscribe, purge | what a window's readers see is of this window, in order, and closed before the last |
| Market caches | `market/*.go` | bounded candle series, funding, tickers, OI | update, get, purge | ordered, bounded, no stale value taken for a fresh one |
| Scanner, scoring, indicators | `scanner/`, `scoring/`, `indicator/` | weights | pure computations | what speaks against a trade never helps it; swing highs do not repaint; mirrored detectors agree |
| LLM | `llm/*` | token bucket | ask, parse, map | at most maxRPM calls a minute |
| Memory, repositories | `memory/*`, `storage/*_repo.go` | Postgres | record and retrieve trades | an outcome finds its entry |
| Wiring, config | `app/app.go`, `config/*` | shared config, reloaded every 60 min | start goroutines | - |
| Notification, telemetry, summary, dashboard | `notify/`, `telemetry/`, `summary/`, `dashboard/` | none that trading reads | report | - |

### How they interact

`app.Run` (`app/app.go:370-416`) reconciles and then starts the goroutines.
Those that matter for trading state:

* the **scheduler** calls the queue's `Tick`, runs the scan itself (one
  goroutine, so ticks and scans alternate) and through `execFn` calls intent
  handler, risk engine and execution engine;
* the **after trigger** claims one intent from the same queue and calls the
  same engine;
* the **user data stream** hands fills to `HandleUserDataEvent`, one at a time;
* the **position manager's** ticker calls `check` per position; the **sweep**,
  the **pre-settlement loop** and the **avoidance loop** walk the positions
  on tickers of their own.

The queue has a mutex it releases while it executes.  The position manager has
a mutex per symbol, held by `check`, the stream handler (after its look-up of
the pending entry) and the sweep's repair, and not held by the pre-settlement
and avoidance loops or by the engine.  Redis is shared by all of them; its
records are read, changed in memory and written back whole.

### What is hard here

The full list, each hazard at its line with the properties that cover it, is in
`PROJECT.json`.  The groups:

* work done outside a lock on a snapshot taken under it (queue loop, the two
  loops without a lock, the pending entry's look-up);
* two executors of one queue;
* calls whose outcome is unknown or that fail half way through a handler that
  places and cancels several orders;
* fill events before, after or without the record they belong to;
* records with and without a lifetime (70 s pending entry, protection without
  one) against timers of 30 s and 60 s;
* restart between any two steps;
* a connection that is silent but not broken, calls on it without a deadline, and
  requests sent while it is being replaced.

## 2. `IntentQueue`

### State and actions

Time is a `cycle` and a `phase` in it: `NONE`, `FRONTRUN`, `LAST_MINUTE`,
`AFTER` (`scheduler/window.go`).  `Advance` and `NextCycle` move it on; they are
the clock.  An intent keeps symbol, window, confidence, the cycle it was
proposed in and an identity (its pointer in the code).

| TLA+ | code |
|---|---|
| `queue`, `fired` | `Queue.intents`, `Queue.firedInWindow` |
| `SchedWake`, `SchedClear`, `SchedScans`, `SchedRests` | `Scheduler.tick` |
| `SchedTickFires`, `SchedTickIdles` | `Queue.Tick` up to the unlock before `execFn` |
| `SchedExecuted`, `SchedSkippedNext`, `SchedSkippedLast` | what follows the relock: success or error, or `ErrSkipped` and the next of the snapshot |
| `ScanCancels`, `ScanEnqueues` | `CancelBySymbol` and `Enqueue` as `scanFn` calls them |
| `TrigArms`, `TrigClaims`, `TrigFindsNone`, `TrigExecuted` | `AfterTrigger.Run` and `ClaimAfterIntent` |
| `todo`, `cur`, `tcur` | the snapshot being iterated and the intents being executed |
| `opened`, `schedRuns`, `trigRuns` | history: executions admitted per window, runs of an intent per goroutine |

Simplifications: the throttle of frontrun executions (5 min) and the fire window
(20 min) allow or forbid a frontrun execution at any tick; equal confidences
are taken in either order; an execution is either counted or skipped, with the
engine's reasons abstracted.  What a scan asks about is any subset the early
returns allow.  No phase is longer than needed: every interleaving of clock and
goroutines is allowed, except that the model gives each cycle's `NONE` phase
(hours long) time for the scheduler's clearing and for the end of an execution
(seconds); this assumption is the guard of `NextCycle`.

### Runs

`IntentQueue.cfg`: two symbols, two confidences, three intents, two cycles
(`MaxIntents`, `MaxCycles`), 325 thousand states.  Three intents are what it
takes to have one executing, one waiting in the snapshot and one replacing or
claimed; two cycles are what it takes to carry something over.

| property | says |
|---|---|
| `TypeOK` | types |
| `WindowBudget` | no window opens more than two positions |
| `OncePerGoroutine` | no goroutine executes an intent twice |
| `OneIntentPerSymbol` | the queue holds one intent per symbol |
| `NeverEarly` | no execution starts before the intent's window |
| `NeverInLaterCycle` | no execution starts in a later cycle than the proposal's |
| `EveryIntentLeaves` | every intent leaves the queue |

Fairness (`FairSpec`): weak fairness of the scheduler's goroutine, which a
ticker wakes each second and whose calls have timeouts, and of the clock.  The
after trigger gets none; nothing relies on it (`after_trigger.go:40-41` has the
scheduler as its fallback).

### What is proved

`IntentQueueProofs` proves, for every set of symbols and confidences and every
bound, `Spec => []TypeOK`, `[]WindowBudget`, `[]OncePerGoroutine`,
`[]OneIntentPerSymbol`, and the action properties `NeverInLaterCycle` and
`NeverEarly`.  The only assumptions are those on the constants.

None of the invariants is inductive alone.  `IInv` adds:

* `SnapshotInUse`, `NotYetRun`, `FreshIds`: which program counter uses the
  snapshot, that what waits in it has not run, and that no intent carries an
  identity that is still to be given.  They carry `OncePerGoroutine`: an intent
  that was executed has left the queue for good, because identities are new.
* `CountersAreTrue`, `AdmittedBelowLimit`: what the window counters owe to the
  executions under way.  An execution of the scheduler is admitted below the
  limit but counted at its end, the trigger's is counted at once; so `opened`
  exceeds `fired` by at most the one under way.  They carry `WindowBudget`.
* `ClearedIsEmpty`, `OfThisCycle`: after a settlement's clearing queue and
  snapshot hold nothing of the old cycle.  They carry `NeverInLaterCycle`.
* `WindowHasCome`: the window the scheduler works with is not ahead of the
  clock.  It carries `NeverEarly`.

TLC checks `IInv` on the instance above too.  The proof goes action by action,
with lemmas for the actions that share an argument.  `EveryIntentLeaves` needs
fairness and stays with TLC.

## 3. `PositionManager`

### State and actions

One symbol.  `orders` are the exchange's orders with kind and state, `held` the
short position, `events` the fills on their way (in order).  `pos`, `pending`
and `pp` are the Redis records, `fclose` is `pendingForceClose`.  `eng`, `ws`
and `at`/`snap` are where the engine, the stream handler and the two loops
without a lock are between their steps.  `inserts`, `closes` and `reason` record
what is persisted.

| TLA+ | code |
|---|---|
| `Enter`, `EnterReturns`, `EnterErrs` | `ExecutionEngine.execute`: order sent, answer with the stub, error |
| `PendingExpires` | the pending entry's TTL |
| `Finalized`, made of `Full`, `StopRefused`, `TakeProfitRefused`, `Activated` | `finalizeSLTP` |
| `WsReadsPending`, `WsFinalizes` | the look-up before the lock; the work after it |
| `WsTp1`, `WsTp1Closes`, `WsTp2`, `WsTrailingSl`, `WsHardSl`, `WsForceClosed`, `WsUntracked`, `WsIgnored` | `HandleUserDataEvent`'s roles of a fill |
| `CheckRetries`, `CheckGivesUp`, `CheckBreakeven` | `check` with `retryProtection` |
| `SweepFinalizes`, `SweepDropsStub`, `SweepProtects` | `repairUnprotectedPosition`, `emergencyProtect` |
| `LoopReads`, `LoopIdles`, `LoopCloses`, `LoopCancels`, `LoopWidens`, `LoopWrites` | `checkPreSettlement`, `widenTP`, `onSettlementPassed`, `checkFundingAvoidance` |
| `Executes`, `Expires`, `ClosedByHand`, `EventLost` | the exchange, its owner and the stream (external) |

**Atomicity.** A handler that holds the symbol's lock is one action, exchange
calls included: what it places can execute only afterwards, and its event is
handled after the lock is released.  A loop without the lock reads in one
action and acts in later ones; the force close of such a loop is split between
its order and its cancellations.  `check`'s retry and breakeven parts are two
actions, which allows more interleavings than the code has.

**Failures.** A call that fails is one not performed, except the entry order's,
which may err after it was executed (`EnterErrs`).  The number of failing calls,
lost events and closes by hand is bounded by `MaxFaults`, `MaxLost`,
`MaxManual`.  Errors of Redis are left out.

**Time.** With `Prompt` TRUE an answer or event is not slower than the waits the
code has for it: the sweep's 30 s of grace, the 70 s of the pending entry, the
10 min of a breakeven's age, and a new entry 20 min after a close (the cooldown
of a position that was open for 3 h or more is zero; the model assumes the
events of the old trade are delivered by then).  With `Prompt` FALSE all of
these may be outrun.

**Data.** Quantities are quarters of an entry: TP1's share is 50 %
(`config/config.yaml`), an emergency TP1 widens to one half of that.  Prices are
left out: which protective order executes is free, as long as it is open.

### Runs

| run | instance | checks |
|---|---|---|
| `PositionLoops` | one trade, both loops without a lock, a close by hand, no failing call, 8 orders; 401 thousand states | `NeverNaked` |
| `PositionFaults` | one trade, three failing calls, a lost event, a close by hand, handlers with the lock, 10 orders; 561 thousand states | `TypeOK`, `ClosedOnce`, `RetryBudget`, `StubRepaired` |
| `PositionSequence` | three trades after one another, no failures, 18 orders | `NoStrayOrders`, `CacheBacked`, `CleanClose`, `EveryEntryRecorded`, `ImplementsLedger` |
| `PositionEntryLost` | one failing call | `EntryCaught` is violated |

`NeverNaked` is about stale copies and so runs with the loops and without
failures; a stop that is refused is `RetryBudget`'s and `StubRepaired`'s subject.
`MaxRetries` is 1 where the code has 5: the loop's shape is the same, and three
failures suffice to use the retries up and go beyond.  The bounds on orders are
above what one trade's handlers can place in those instances.  Three trades are
one more than it takes for one trade's leftovers to meet the next.

`ImplementsLedger` is the refinement of `TradeLedger`, which knows nothing of
orders, ids and flags: a trade is opened, reduced by half, by the rest, or by its
stop, the stop is moved once, and a result is recorded when nothing is left,
before the next trade opens, with the reason that the fills amount to.  The
mapping reads what is left from the exchange's position, the fills from the
trade's filled orders, the move from the number of its stops, result and reason
from what is persisted.  The handlers have none of these: they tell the reason
from the cached position's ids and flags (`position_manager.go:522-562`, `:1032`).

Deadlock is not checked in these runs: after its last trade a behaviour ends.

Fairness: the stream's handler, the sweep's ticker, the engine's answer (its
call has a timeout), the pending entry's expiry, and the exchange executing
some order in the end.  `check` needs none: its retries are covered by the
sweep for stubs, and `StubRepaired` is about those.

`PositionEntryLost` shows that an entry whose call errs but was executed is not
caught by the pending entry, which the error path removes (`engine.go:198-199`);
`docs/phase_7.md:21` says it is.

### What is proved

`PositionManagerProofs` proves, for every number of trades, orders, retries,
failing calls, lost events and closes by hand:

| theorem | establishes | supposes |
|---|---|---|
| `TypeCorrect` | `[]TypeOK` | nothing |
| `ClosesOnce` | `[]ClosedOnce` | `Prompt`; the pre-settlement loop leaves the symbol alone |
| `RetriesKeepAtIt` | `[]RetryBudget` | the same, and that an entry finds no holding and no record of an earlier trade (`FreshEntry`) |
| `FirstTradeRetries` | `[]RetryBudget` | the same with one trade, and nothing of its entries |
| `CycleIsSafe` | `NeverNaked` while `Calm` | `Prompt`; no loop works without the lock |
| `CycleNamesOrders` | `NoStrayOrders` while `Calm` | the same |
| `CycleIsBacked` | `CacheBacked` while `Calm` | the same |
| `ClosesClean` | `CleanClose`, in behaviours that are always `Calm` | the same |
| `ImplementsTradeLedger` | `ImplementsLedger`, in behaviours that are always `Calm` | the same |

`Calm` says that no call has failed, no event was lost and nobody has closed by
hand: the conditions of `PositionSequence`, which checks the same properties on
three trades.  The hypotheses are needed, as TLC shows when they are
dropped in `PositionFaults`: with `Prompt` FALSE the engine's stub comes back after
the end and the next unknown fill is taken for a second close by hand; so it is
with a position that the pre-settlement loop writes back; and a second trade
entered over the record that the first has left is given up after fewer failures
than the budget, which `FreshEntry` excludes.

The argument, in the order of the module:

* `TInv` is `TypeOK` with what the handlers rely on: ids are given in order, an
  event is of an order that was placed, a loop under way has read a position, and
  nothing but stops and take-profits rests at the exchange.
* `OneTrade` and `Recorded` carry `ClosedOnce`: engine, stream handler and cache
  work on the last trade entered, whose entry event can only be the first on its
  way; once a result is persisted nothing is left that could bring its position
  back (no position, no stub to come, no entry to finalize).
* `Retried` carries `RetryBudget`: what the emergency close buys is all that is
  held, and each attempt at a missing stop that has not succeeded has failed, so
  that a record with n attempts has cost more than n failures.
* `Cycle` carries the rest.  A trade is quiet, entered, or live, and a live one
  at one of seven stages (untouched, half taken, both taken, stopped out,
  trailing, rest taken, rest stopped), each of which fixes what is open at the
  exchange, what is on its way, and what the cache names.  A step leads from one
  stage to another; the invariants are read off the stages.
* `InAccount` carries the refinement on top of `Cycle`: which kinds of orders of
  the trade have filled follows from the stage and the event on its way (`Taken`),
  and before TP1 the break-even flag is set exactly when the trade has two stops.
  Each step of `Next` is then one step of the ledger or leaves it alone
  (`QuietLedger`, `EnteredLedger`, and a lemma for each handler of a live trade).

TLC finds `TInv`, `OneTrade`, `Recorded` and `Retried` to hold on `PositionFaults`,
and `Calm => Cycle` on `PositionSequence`.  Proving led to one correction of the
model: a force close is sent only behind the answer of the
entry (`ForcePlaced`), which the waits give it with `Prompt`.

Not proved: `NeverNaked` with the two loops without a lock (`PositionLoops`) and
`NoStrayOrders`, `CacheBacked` after failures, where they do not hold; and the
liveness properties.

## 4. `Recovery`

### State and actions

`Recovery` extends `PositionManager`; its steps happen while `proc` is `"up"`.
The process may die between two steps (`DiesIdle`) or within a handler, after
some of its calls and before it writes the cache: `DiesFinalizing`
(`finalizeSLTP`), `DiesReplacing` (the stop in `handleTP1Fill` and `check`),
`DiesClosing` (the handlers that end a trade, around `persistClose`).  What was
in memory is lost, and so are the fills until the stream's next connection
(`Connects`).  Meanwhile the exchange executes orders and Redis expires keys.

| TLA+ | code |
|---|---|
| `Reads`, `ReadFails` | the two queries of `Reconcile`, their failure (`app/app.go:376-381`) |
| `Rehydrates` | Case 1, `rehydratePosition` |
| `Replaces`, `Missing` | Case 3, `replaceMissingOrders` and `verifyProtection` |
| `CleansUp`, `Agrees` | Case 2, `cleanupStalePosition`; nothing to do |
| `Connects` | the goroutines start (`app/app.go:396-415`) |

Between `Reads` and the actions on what was read the exchange goes on, so each
case works on a possibly stale answer.  Stops are conditional orders, which the
list of open orders does not contain; a stop beside an existing one may be
refused without this counting as a failure.  `Missing` is constantly TRUE, as
`verifyProtection` looks a client id up among numeric ids.  Left out: a death
within `retryProtection`, `emergencyProtect`, `forceClose` or `Reconcile`.

### Runs

`Recovery.cfg`: three trades (one may be the rehydrated one), 8 orders (an entry
with its four and two of a restart, and the next entry), one death, one failing
call, the handlers with the lock, 2.8 million states.

| property | says |
|---|---|
| `RecTypeOK` | types |
| `RestartProtects` | reconciliation without failing calls leaves a position that is still held in the cache, with a stop or as a stub the sweep finds |
| `RestartAgrees` | cache and exchange agree afterwards unless the exchange moved meanwhile |
| `NeverNakedAfterRestart` | `NeverNaked` holds again after death and restart, until a rehydrated trade closes |

`RestartProtects` and `NeverNakedAfterRestart` suppose that no call failed in the
behaviour: a failed cancellation leaves an order behind, which the restart may
take for a stop (section 9).  The exception in `NeverNakedAfterRestart`: a
rehydrated position has a TP1 for half and no TP2, so that TP1's fill is taken
for the whole position's.

Deadlock is not checked: a behaviour ends after its last trade.  No liveness is
checked here, and no fairness assumed.

### What is proved

`RecoveryProofs` builds on `PositionManagerProofs`:

* `RecTypeCorrect`: `[]RecTypeOK`, wherever and however often the process dies.
  `RecInv` adds to `TInv` that the exchange only takes from the position while
  Reconcile works on what it has read.
* `AgreesAfterRestart`: `RestartAgrees`, without any hypothesis: whatever was lost
  before, and whichever calls of the reconciliation fail.
* `ProtectsAfterRestart`: `RestartProtects` for the first death, if nothing else
  has gone wrong before it (`Calm`, `Prompt`, no loop without the lock).  Up to the
  death the behaviour is one of `PositionManager`, and `Cycle` says at which stage
  it is cut; `FirstRestart` keeps from there to the end of the reconciliation that
  a position missing in the cache has a stop, or no take-profit that
  `rehydratePosition` could take for one (`Repairable`).
* `NeverNakedAgain`: `NeverNakedAfterRestart` under the same hypotheses, for every
  step after the death, over any number of later trades.

The stages of `Cycle` do not survive a death: fills are never told, orders are
left that nobody names, and Reconcile places a second stop and a second TP1 for
the whole quantity.  So `NeverNakedAgain` rests on an invariant of its own,
`Guarded`, a weaker one that a handler working on an outdated position keeps as
well.  A position that is held is in one of these situations (`Situated`):

* `Spare`: a stop is open that the cached position does not name.  No handler
  cancels it (`Careful`: only orders the position names are cancelled, and it
  comes to name only new ones), so it stands until the position is gone.
* `Bare`: a stub with nothing in the book, which the sweep finds; `Entering`: an
  entry whose fill the stream's handler has still to finalize.
* `Kept`: the cached position's ids are of orders of the right kinds, its open
  take-profits buy all that is held, and its stop is open, or the one behind TP1
  with no more than TP1's half left.  As the take-profits buy at least what is held,
  a fill that ends the trade in the cache either ends it at the exchange or leaves
  its stop behind, which then is a `Spare` one.
* `Made`: a rehydrated position with a stop of its own.
* `Cut` and `Orphan`, until Reconcile has worked: a `Kept` position that lost its
  stop in the replacement, and one the cache does not know.

`Told` (what the stream has still to tell has happened, and a stop's fill is told
of a position that is gone) and `Retrying` (a retry's orders have a finalization's
quantities) complete it.  `FirstDeathGuarded` enters it from `Cycle`, one death
within each handler at a time; `DownKept`, `ReconcileGuards`, `ConnectsGuards` and
`UpKept` keep it, unless a rehydrated trade closes (`Excused`, which stays true).
TLC finds `crashes = 1 /\ Calm => Excused \/ Guarded` to hold on `Recovery`.

With `MaxCrashes` 1 and no lost events or closes by hand, as in `Recovery.cfg`, the
hypotheses hold of every behaviour.  A second death, and events lost or closes by
hand before the first, are neither proved nor in the run.

## 5. `EntryGate` and `Admission`

### State and actions

Two goroutines execute intents: the scheduler, through the queue, and the after
trigger.  `EntryGate` has each of them walk the checks between an intent and an
order, one action per read of shared state, with the other one and everything
else in between.  `step` is where a goroutine is, `positions` the keys of the
positions hash, `losses` the day's counter, `kill` the kill switch.

| TLA+ | code |
|---|---|
| `HandedOver` | `execFn`, `AfterTrigger.Run`: the intent is taken |
| `Screened` | `IntentHandler.Fire` and `after_strategy.go`, then `risk.Engine.EvaluateCandidate` |
| `KillRead`, `PositionsRead`, `LossesRead`, `LossesUnknown`, `BalanceRefuses`, `BalanceSuffices` | `ExecutionEngine.execute` up to the order, with its errors (`engine.go:116-176`) |
| `OrderPlaced`, `OrderFails`, `StubWritten`, `StubFails` | the order and what follows it (`engine.go:185-241`) |
| `FillHandled` | the fill's handler writes the position before the stub is |
| `Closes`, `LossCounted`, `DayEnds` | `persistClose`: removal, then the counter, whose key has the date |
| `Killed`, `Restarts`, `StrayAppears` | a feed's kill switch; the process; a position written back after its close or rehydrated |

The market's readings are free, as is the price since the claim; sizing, leverage
and the order's data are left out.  A loss that is not counted when the process
dies is lost, as in the code.  What the exchange did with an order whose call
errs is the subject of `PositionManager` and `Recovery`; here it may come back as
a stray.

`Admission` is what the path promises whatever it checks besides: a book of
symbols, workers that are admitted for a symbol when the book is not over its
limit and does not hold it, and enter it later.  `ImplementsBook` is the
refinement: `book` is `positions`, a worker holds its symbol from its look at the
positions to the write of its stub.

### Run

`EntryGate.cfg`: `MaxPositions` 1 and four symbols, one more than can be
claimed by admission; no loss allowed and one possible; scores below, between
and above the two minima; symmetry over the symbols, which nothing tells apart.
263 thousand states.

| property | says |
|---|---|
| `TypeOK` | types; a goroutine has a symbol exactly while it executes |
| `PositionBound` | cached positions and those on their way, strays aside, exceed `MaxPositions` by two at most |
| `LimitsStop` | after the kill switch, or too many losses, each goroutine sends one more order at most |
| `ImplementsBook` | the refinement of `Admission` |

`PositionBound` is what holds, not what the configuration's name suggests:
`engine.go:126` compares with `>`, `risk/engine.go:68` with `>=`, and two
goroutines can look before either writes.

### What is proved

`EntryGateProofs` proves, for every `MaxPositions` and every finite set of symbols:

* `TypeCorrect`, and `LimitsStopOrders`, whose strengthening `GInv` says that a
  goroutine past a read has sent nothing since the limit, since the read came
  before it;
* `Implementation`, step by step, each action an action of the book or a stutter;
* `BookBounded`, of the book alone: `Claimed`, the book and what is held, strays
  aside, never exceeds the limit by more than the number of workers.  With the
  types it is inductive: an admission is made to a book within the limit, beside
  which at most one symbol per worker is held (a surjection from workers to held
  symbols), and no other step claims a symbol;
* `PositionsBounded`, from the last two.

## 6. `ScanCycle`

### State and actions

A scan (`scanFn`, `app/scan.go`) chooses what the LLM is asked about, and the
answer sets cooldowns, cancels and enqueues.  Time counts units from the
window's opening to T+1 min.  `cooldown` holds the expiry of each symbol's key in
Redis, `lastCall` is `App.lastLLMCall`, `queue` the symbols with an intent.

| TLA+ | code |
|---|---|
| `ScanBegins` | call cooldown, forgotten calls, `PreCheck` (`scan.go:303-350`) |
| `OccupiedRead`, `CooldownsRead` | the scanner's candidates without positions, without cooldowns |
| `GivesUp`, `Asks` | the gates in between; the early gate (`scan.go:409`), the best `TopN`, the unchanged-input check |
| `Skips`, `Proposes` | what an answer changes, errors and unusable answers being skips |
| `Executed`, `Closes`, `ClosedSets` | intents executed; `persistClose`'s removal and, a step later, its cooldown |
| `Passes`, `HoursPass`, `Restarts` | keys expire; the next cycle; memory is lost, Redis's keys are not |

The funding scanner's and the confluence gates' choice is any subset; scores are
free at every scan.  The two reads at a scan's beginning are assumed not to
take a unit (30 s).  Errors of Redis when a cooldown is read or written are left
out: the code then lets the symbol through (`scan.go:91-94`), and
`NeverReconsidered` would not hold.

### Run

`ScanCycle.cfg`: three symbols of which two are asked about, two scores and two
trends, durations in the code's order with both cooldowns exactly as long as
the gate is early; symmetry over the symbols; 605 thousand states.

`NeverReconsidered`: a symbol the LLM decided to open is not put before it again
in the cycle, and has no queued intent when it is asked about.  Many mechanisms
could break it: the cooldown expires before the settlement, or is overwritten by
the shorter one of a close or a skip; a position closes between the two reads; a
restart forgets the queue.  As a consequence the cancellation after a late SKIP
(`scan.go:637`) never finds an intent.

### What is proved

`ScanCycleProofs` proves `ScanTypeCorrect` and `ProposedOnce`, for every set of
symbols, scores and all durations under `ConstantsAssumption` and
`CooldownsReachSettlement` (`EarlyGate` within `BaseCooldown + ExtraCooldown` and
`CloseCooldown`, `Late` within `EarlyGate`).  The strengthening `SInv`: what was
proposed was so behind the gate and rests until the settlement; the reads of a
scan are over before it; so nobody proposed is among a scan's candidates past
its reads, nor among those asked about; and what is queued was proposed.

## 7. `MarketFeed`

### State and actions

One connection (`kind` chooses the window's data, the mark price's or the
user's), the router, the window's manager and the candle store.

| TLA+ | code |
|---|---|
| `DialFails`, `Connects`, `Resubscribes`, `ResubscribeFails`, `Failed` | `Run`, `connect` (`exchange/binance_ws.go:75-133`) |
| `Reads`, `Blocked` | the goroutine of `readLoop` and its send to `readCh` (`:142-154`) |
| `Dispatches`, `ReadFails`, `GoesStale`, `Pings` | the cases of `readLoop`'s select (`:156-193`) |
| `PingFails`, `run = "ping"` | the call of `Ping` inside the select (`:172`) |
| `Handle`, `detectStreamType` | `dispatch`, `StreamRouter.Handle`, `handleKline`, `CandleStore.Update` |
| `WindowOpens`, `Backfills`, `FetchKlines`, `Seeds` | `windowMarketDataManager`, `backfillCandles`, `FetchKlines` with its look at the clock, `SeedCandles` |
| `Subscribes`, `SubscribeSent`, `Unsubscribes`, `UnsubscribeSent` | `Subscribe`, `Unsubscribe`: the list under the lock, the request without it |
| `Purges` | `PurgeSymbol`, one after another |
| `NetworkFails`, `SilenceNoticed`, `Streams`, `Tells`, `CandleCloses`, `Latest` | network and exchange (external) |

One timeframe stands for the five, and time is counted in its candles.
`connect` copies the subscriptions under the lock and sends them outside it, as
do the manager's requests, so both orders happen.  A candle's message goes from
the wire through the reader and `readCh` to `dispatch`, where it is routed by
its stream's name; the name of a candle's stream ends in the timeframe, so that
the router drops it.  While `run` is `"ping"` none of the select's cases is
taken: the reader alone moves, until `readCh` is full.  The exchange answers a
fetch with the forming candle last, and `FetchKlines` drops what its own, later
look at the clock finds open.  What a reader asks for (`GetLimit`: 100 and 105)
may be more than is fetched (99), and no relation between the two is assumed.

### Runs

`MarketFeed.cfg`: one symbol, all three kinds, two windows, two faults, a candle
that closes, two messages on the wire, a `readCh` of one, fetches of three and
views of four; 84 thousand states.  Two windows are what it takes to carry
something over, two faults to fail during the recovery, two messages more than
a pong to fill `readCh` and block its reader.

| property | says |
|---|---|
| `SeriesOrdered` | a reader sees candles without a gap, each once, in order, and closed ones before the last, which the indicators drop; amid seeding and purging too |
| `NothingCarriedOver` | a series is empty before its backfill and from its purge on, whatever messages come late |
| `StreamsHeal` | a wanted stream is in the end sent, whatever fails, unless `Run` hangs for ever |
| `PingsReturn` | a `Ping` returns, unless its connection fails or its reader is blocked |
| `NeverSilentForever` | a connection that is dead, or silent while it should speak, is replaced, or the kill switch is on, unless `Run` hangs for ever |

`Hung` names the calls that have no deadline: `Ping` whose pong will not be read,
and a request on a connection that is only silent (`:172`, `:275`, both on the
application's context).  The exception `<>[]Hung` is needed: without it TLC
violates `StreamsHeal` and `NeverSilentForever` with a connection that turns
silent during a `Ping`, and, without any fault, a `Ping` never returns when more
messages than `readCh` holds come before the pong.  Section 9 says what the
documents promise.  Anything else that would keep a connection silent or a
stream unsent is excluded: a request lost to a replaced connection, a
half-open one, a stale ticker that rests.

Fairness: weak, for the dial (faults are bounded, a dial tried for ever succeeds
at last), for the reader and for requests on a connection that answers or is
known to be lost; strong for the cases of the select, of which Go takes any that is
ready with equal chance, so that a case ready again and again is taken.  The
stale ticker's case is one of them when nothing is under way any more: nothing
dispatched for ever is nothing for longer than the timeout.  No fairness for what
has no deadline: `PingFails`, and requests on a silent connection; nor does
the system have to notice a half-open connection (`SilenceNoticed`).

`FeedKillSwitch.cfg` shows a disagreement with `docs/phase1.md:915-916`: the
counter is never reset by a connection that worked (`binance_ws.go:82`, the
reset at `:102` is never reached), so that failures which are not consecutive set
the kill switch.

Deadlock is not checked: at the bounds a behaviour ends.

### What is proved

`MarketFeedProofs` proves the three invariants of the run, for every finite set
of symbols, every number of windows, faults and messages, every capacity of
`readCh`, every limit of a reader and every fetch no longer than the store's bound
(`FeedAssumption`): `FeedTypeCorrect`, `ReadersSeeOrder`, `WindowsStartClean`.
`FInv` consists of

* `FeedTypes` and `Phased`: types, and what the manager's phases say of its lists;
* `Answered`: an answer under way is consecutive and of a symbol not yet seeded;
* `Series`: for the symbol being seeded, what is stored and what waits are together
  one whole fetch; every other series is a whole fetch or empty;
* `NothingCarriedOver` itself.

`NothingRouted` is where the router comes in: whatever is dispatched leaves the
store as it is.  `FetchSteps` has the two outcomes of the look at the clock, and
`SeedSteps` the store's update, which appends as each seeded candle is newer than
the last (`UpdateAppends`).

## 8. `CandlePatterns` and `Scoring`

Pure computations, as operators over a state machine that feeds them: candles
that close, signals that appear.  Prices, volumes and scores are integers, and
comparisons with fractions are multiplied out.

`CandlePatterns` has both sets of detectors of `indicator/candle_pattern.go` with
their trends, structure breaks, strengths and volume's adjustment, and the swing
highs and divergences of `rsi_divergence.go`.  The RSI series of a scan is computed
as the code does, by Wilder's averages that start anew at the first of the last
`Period + Lookback + Buffer` candles (`Scanned`), to a thousandth of a price and a
hundredth of a point where the code has floating-point numbers.
`CandlePatterns.cfg`: hourly candles, four histories (a rise, a fall, two with
three swing highs over differing peaks of the RSI) continued by three candles of
eight shapes and two volumes; 17 thousand states, among them divergences of every
strength.  `Lookback` is 16 where the code has 80, `Period` 3 for 14 and `Buffer` 1
for 10, so that the windows move.  The sizes of a swing and of the RSI's radius
are the code's.

* `MirrorsAgree`: detectors written twice, once upside down, see the same thing
  in mirrored candles.  Those whose bounds differ on purpose are not compared.
* `NoRepaint`: a swing high once found stays one until the window has moved on,
  and only the newest candle that can be judged becomes one.

Nothing of the kind holds of divergences: as the averages start anew with every
candle, the RSI's peak at an old swing moves with each one, and a divergence may
vanish while its swings are in the window.

`CandlePatternsProofs` proves all of them and `TypeOK` for candles of any history,
price and volume, for every length of window and size of swing (`PatternsAssumption`;
`EnclosesAssumption`: a candle's low and high enclose its open and close):
`PatternsTypeCorrect`, `MirrorImages` and `SwingsDoNotRepaint`.  The invariant is
that the series consists of candles; what carries the
proofs are lemmas about the operators: a closed candle leaves what lies before it
in place (`StepExtends`), and each of a candle's measures is turned into its
counterpart by mirroring the candle.

`Scoring` has the whole scorer (`scoring/scorer.go`) with the default
configuration's tiers and weights.  `Scoring.cfg`: two timeframes, four bearish
patterns with both synergies among them, two bullish ones, two markets with the
best and the worst readings.

* `PenaltiesNeverHelp`: bullish signals and momentum never raise score or size,
  also of a negative score.
* `SameTimeframeNeverHurts`: another bearish signal on a timeframe already hit
  never lowers the score, although it moves numerator, synergy and bonuses.

Readings lie between -10^6 and 10^6 (`Infinity` stands for the bound a tier does
not have), and every pattern has a weight (`WeightedAssumption`; the maps at
`scorer.go:24` and `:35` cover both detectors).  Under these two assumptions
`ScoringProofs` proves, for any readings and any number of signals:

* `ScoreTypeCorrect`: there is always a score, which needs a tier for every
  reading in each of the six categories, and the size is one of the tiers';
* `PenaltiesOnlyCost` and `ConfirmationNeverHurts`: the two properties of the run.

The invariant `SInv` says that the signals are finitely many and that score and
size are those of the snapshot.  The rest is about operators.  The sums over sets
of signals are the library's recursive function, which takes an element of its
choice; since no induction over sets is at hand, each law is proved by a smallest
counterexample: a set of naturals has a least element (`Least`, from
`NaturalsInduction`), so a family of finite sets has a smallest member
(`Smallest`), and a law that fails for it holds without one of its elements.
`SumAdds` is what is needed of them: a further signal adds its points to the sum.
Then each step of the score keeps the order: division, caps and bonuses
(`CandlePointsGrow`), the bullish steps (`PenaltyGrows`), the momentum's fractions
whatever the sign (`DiscountMonotone`) and the tiers of sizes (`SizeMonotone`).

Deadlock is not checked in either: at the bounds a behaviour ends.

## 9. Observations without a run

Queue and position:

* An intent in the scheduler's snapshot that the after trigger claims while the
  scheduler executes another one is executed by both (`queue.go:207`);
  `after_trigger.go:39-40` and `docs/phase_8.md:419` promise otherwise.  The
  engine's look at the positions makes the second order unlikely.
* `queue.go:194-197` allows two executions in LAST_MINUTE where `queue.go:22`
  and `docs/phase_3.md:871-872` promise one; `WindowBudget` has the bound that
  holds.
* If TP2 is refused when the position opens (`position_manager.go:673`), TP1's
  fill is taken for a full close (`:911`): half of it stays open, without a stop
  or a record.
* The sweep and the stream handler can finalize the same entry, since the handler
  reads the pending entry before the lock (`:486`, `:504`; the sweep's comment at
  `:1534-1536` guards its own side only).
* `CleanClose` does not hold with `Prompt` FALSE: a double finalization leaves the
  first set of orders behind (`docs/phase_5.md:1354` speaks of orphan orders).
* The sweep's grace (30 s) plus its interval (60 s) exceed the pending entry's
  life (70 s), so its first tier often finds no pending entry
  (`config/config.yaml:120-121`); the emergency tier then acts.
* After the last retry the protection record goes even if the emergency close
  was refused (`position_manager.go:794-798`): nothing remembers the position
  until a restart.  `RetryBudget` states the exact budget.
* The record of missing orders belongs to the symbol, and only `retryProtection`
  removes it (`:148`, `:798`, `:870`).  When the sweep finalizes the position after
  the stream's handler could not, the record stays, and further refusals end in the
  emergency close of a position that is protected, where `docs/phase_7.md:276` has
  it "avoid unprotected exposure".  The sweep comes 30 s after the entry and the
  retries take 25 s, so it takes a fill handled some seconds late, or a check
  skipped for want of a price.  A record that outlives its trade (closed by hand
  before the retries were used up) is continued for the symbol's next entry, which
  is given up sooner.
* A stub written behind the end of its trade, or a closed position written back by
  `widenTP`, takes the symbol's next unknown fill for its own close: the trade is
  persisted a second time (`:1280`; `ClosesOnce` states what excludes it).
* After TP1, a refused breakeven stop is logged only (`position_manager.go:926`).
* `widenTP` on a position that the emergency tier protected puts back a TP1 of
  half the quantity only.
* `config.go:433` and `:444` force the avoidance loop and the sweep on, whatever
  the file says.
* `after_trigger.go:95-97` speaks of T-3m, the code arms at T-30s;
  `docs/phase_8.md:420` has an expiry check that `ClaimAfterIntent` lacks
  (harmless: `NeverInLaterCycle` is proved without it).
* A death between storing a result and removing the position makes the restart
  store MANUAL and a PnL of 0 over it (`position_manager.go:1066-1094`,
  `reconciler.go:377-388`): `ClosedOnce` does not hold across a restart.
* Case 3 places TP1 for the whole quantity (`reconciler.go:350`), whatever has
  been filled; when it fills before TP2 the cache keeps a position that is gone.
* A stub in Case 3 has no prices: its stop is refused and the sweep repairs it.
* A trade closed by hand leaves its take-profits open (`recordManualClose`
  cancels nothing); after a death behind the next entry `rehydratePosition` takes
  one for the stop (`reconciler.go:162`) and places none, where
  `docs/phase_7.md:312` has it place the missing ones.
* `verifyProtection` looks client ids up among numeric ids, so that a restart
  places the orders of a protected position again (`reconciler.go:263`), where
  `:317` wants to avoid duplicates.

Entry and scan:

* The engine does not look at the symbol's cooldown, and `PreCheck`'s comment
  lists one that its code has not.
* An error, timeout, rate limit or unusable answer of the LLM is a SKIP: all top
  candidates rest until the next window.
* `lastLLMCall.score` is the selected symbol's, and is compared with the best
  candidate's.
* The day's losses are counted anew from 00:00 UTC, which is a settlement; an
  error of the read lets the trade pass (`engine.go:137`).
* Between the removal of a closed position and its cooldown a scan may ask about
  the symbol, if no decision of this cycle covers it.
* `scan.go:336-342` checks for an AFTER window in which the scheduler never scans.

Feed:

* The candles' streams never reach the store: messages of `/market/stream` have no
  `e` of their own, and the router knows a candle's stream by a name that ends in
  `kline`, while `X@kline_5m` ends in the timeframe (`binance_ws.go:196-210`,
  `stream_router.go:73-81`).  `app/pollers.go:48-49` has the candles "stay fresh off
  the live WS feed", `docs/phase1.md:504-511` draws the way to `handleKline`.  A
  window's readers see the backfill's candles, to the end of the window.
* It is also what keeps late messages of an earlier window out: with routing
  corrected, `SeriesOrdered` and `NothingCarriedOver` fail (the mutant
  `detectStreamTypeInside`), as messages under way behind the UNSUBSCRIBE, or sent
  again by a reconnection that copied the subscriptions before it, are stored after
  the purge.
* A fetch of 100 brings 99 closed candles (`binance_client.go:324-326`).  The readers
  drop the last one as the forming one (`indicator.go:82-85`, `:108-109`), which it
  is not: patterns and divergences never look at the newest closed candle.
* `FetchKlines` looks at the clock behind the answer (`:320`): a candle that closes
  between the two is seeded as closed with the values it had while forming, where
  `:303` has "only closed candles are returned".
* `Ping` is called inside `readLoop`'s select on the application's context
  (`:171-174`).  While it waits neither the stale ticker nor a failed read is looked
  at, so that "Force reconnect after N without messages"
  (`docs/phase1.md:1037`, also `:918`) does not hold of a
  connection that turns silent during a `Ping`; and that "the WS ping/pong is the
  real liveness check" of the user's stream (`app/app.go:286-287`) rests on the
  library's giving up by itself.
* When more messages than `readCh` holds (64) come while `Ping` waits, the reader
  blocks at `:152` and the pong is not read: neither loop nor reader goes on.  The
  same send leaves a reader behind for ever whose loop has ended.

Scoring and indicators:

* The third divergence tier bears the first one's condition (`scorer.go:339`):
  two MEDIUM divergences score 0, less than one
  (`docs/rsi_divergence_design.md:171-185`).
* `evalInterpolated` ramps from the tier before at the far end: a funding rate of
  exactly -0.5 % scores 0.
* Without a spike the volume's value -1 falls into the second tier (0.50); the
  fallback 0.30 is never reached (`scorer.go:204`).
* A weak bearish signal on a new timeframe can lower the candles' score, as the
  strongest possible one there enters the scale.
* `DetectRSIDivergence` wants 104 closed candles (`rsi_divergence.go:39`) of a series
  that holds 99 and is read without its last (`indicator.go:107-109`): it returns
  nothing, in any scan.
* The two momentum penalties never meet: they need an RSI7 above 57 and below 50.

## 10. What is proved, only model-checked, not modelled

Proved for all constants, with the inductive invariants described above:

* `IntentQueueProofs` (six properties), `EntryGateProofs` (the four properties of the
  run, and the abstract book's bound), `ScanCycleProofs` (the two properties of the
  run), `MarketFeedProofs` (its three invariants), `CandlePatternsProofs` (the three
  properties of the run) and `ScoringProofs` (the three of the run), from the
  assumptions on the constants, which TLC evaluates in the runs.
* `PositionManagerProofs` (eight properties) and `RecoveryProofs` (the four of the run),
  the stronger ones under the hypotheses stated in sections 3 and 4, which are those of the runs
  or narrower; each is a hypothesis of the theorem, none an assumption of the module.

Only model-checked:

* liveness (`EveryIntentLeaves`, `StubRepaired`, `EveryEntryRecorded`, `StreamsHeal`,
  `PingsReturn`, `NeverSilentForever`), which TLAPS does not reach;
* `NeverNaked` with the two loops without a lock, which needs the stages of a trade
  with a stale copy at each of them.

Not modelled: paper mode; the LLM's force-SL (disabled in the config); errors of
Redis beyond the reads of the entry path; drawdown (commented out in the code);
the backoff's length; the listen key; the rate limiter; one widening that
straddles a settlement; clock arithmetic within a phase.  Pure I/O (REST, SQL,
prompts, dashboards, notifications) and the other floating-point recurrences (ATR, RSI readings)
are out of TLC's reach; `PROJECT.json` lists each component with its status.

## 11. Plan

Done: queue, position with its abstract ledger, recovery, entry path with its abstract book, scans, feed,
patterns and score, and the theorems above.  In the order of what is at stake,
what is left:

1. `NeverNaked` with the avoidance loop: its order and its cancellations are two
   steps, each possible at every stage.
2. Deaths within `retryProtection`, `emergencyProtect`, `forceClose` and
   `Reconcile`.
3. Pure algorithms: `FundingWindow` (settlement and window of a clock time),
   `RateLimiter`, the pre-settlement threshold.
4. Paper mode and the memory engine's race of entry and outcome.
