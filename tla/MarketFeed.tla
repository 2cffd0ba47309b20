------------------------------ MODULE MarketFeed ------------------------------
(***************************************************************************)
(* Where the candles come from: one WebSocket connection with its          *)
(* subscriptions, its read loop and its reconnections                      *)
(* (internal/exchange/binance_ws.go), the router of its messages           *)
(* (stream_router.go), the window's manager that fetches a watchlist's      *)
(* candles, subscribes to their streams and purges them when the window    *)
(* closes (internal/app), and the candle store (internal/market).          *)
(*                                                                         *)
(* One timeframe stands for the five, and time is counted in its candles.   *)
(***************************************************************************)
EXTENDS Integers, Sequences, FiniteSets, SequencesExt

CONSTANTS
  Symbols,     (* the symbols                                                *)
  Kinds,       (* the connections: "data", "price" or "user"                 *)
  MaxFailures, (* MaxReconnectFailures                                       *)
  ChanCap,     (* the capacity of readCh                                     *)
  FetchLimit,  (* candles a REST call brings, the forming one included       *)
  GetLimit,    (* candles a reader asks for                                  *)
  MaxSeries,   (* maxCandlesPerSeries                                        *)
  MaxTime,     (* bound: candles that close                                  *)
  MaxWindows,  (* bound: funding windows                                     *)
  MaxFaults,   (* bound: connections that fail, dials that fail              *)
  MaxWire      (* bound: messages on their way                               *)

ASSUME FeedAssumption ==
  /\ IsFiniteSet(Symbols) /\ Kinds \subseteq {"data", "price", "user"}
  /\ {MaxTime, MaxWindows, MaxFaults, MaxWire} \subseteq Nat
  /\ {MaxFailures, ChanCap, FetchLimit, GetLimit, MaxSeries} \subseteq Nat \ {0}
  /\ FetchLimit <= MaxSeries

VARIABLES
  kind,      (* which connection this is                                     *)
  run,       (* where Run is: "dial", "resubscribe", "read" (readLoop's      *)
             (* select), "ping" (its call of Ping) or "stopped"              *)
  conn,      (* w.conn: "nil", "open", "silent" (half open) or "dead"        *)
  subs,      (* w.subscriptions                                              *)
  copied,    (* the subscriptions connect has copied                         *)
  failures,  (* w.failures                                                   *)
  kill,      (* the kill switch                                              *)
  server,    (* the streams the exchange sends on the connection             *)
  wire,      (* frames on their way to the connection's reader               *)
  readCh,    (* readCh, then the message its reader waits to put there       *)
  phase,     (* the manager: "idle", "backfill", "send", "open",             *)
             (* "close" or "purge"                                           *)
  list,      (* the window's watchlist                                       *)
  todo,      (* its symbols the current step has yet to treat                *)
  answer,    (* the candles the exchange answered a fetch with               *)
  batch,     (* fetched candles that are being seeded                        *)
  store,     (* CandleStore.data                                             *)
  now,       (* the candle that is forming                                   *)
  windows, faults,                 (* counters behind the bounds             *)
  row        (* history: failures since the connection last worked           *)

connVars == <<run, conn, subs, copied, failures, kill, server, wire, readCh>>
managerVars == <<phase, list, todo, answer, batch, windows>>
vars == <<kind, connVars, managerVars, store, now, faults, row>>

Candles == [sym: Symbols, t: Nat, final: BOOLEAN]

\* A candle's message or another, and a pong.
Messages == [type: {"other"}] \cup [type: {"kline"}, candle: Candles]
Frames == [type: {"pong"}] \cup Messages

-----------------------------------------------------------------------------
(* The candle store.                                                       *)

\* Update: the last candle is replaced by one of the same time, another is
\* appended, whatever its time.
Update(s, c) ==
  IF s # <<>> /\ Last(s).t = c.t THEN [s EXCEPT ![Len(s)] = c]
  ELSE LET t == Append(s, c) IN
       IF Len(t) > MaxSeries THEN SubSeq(t, Len(t) + 1 - MaxSeries, Len(t)) ELSE t

Get(s, limit) == IF Len(s) <= limit THEN s ELSE SubSeq(s, Len(s) + 1 - limit, Len(s))

-----------------------------------------------------------------------------
(* The router: names of streams are split at "@" and "_".                   *)

KlineStream(s) == <<s, "kline", "5m">>

\* mutant: a candle stream is known by what follows the symbol
detectStreamTypeInside(stream) == IF stream[2] = "kline" THEN "kline" ELSE "other"

\* detectStreamType looks at what a name ends in.
detectStreamType(stream) == IF Last(stream) = "kline" THEN "kline" ELSE "other"

\* dispatch and StreamRouter.Handle: a combined stream's message has no "e" of
\* its own and is routed by its stream's name; what is left is dropped.
Handle(m) ==
  IF m.type = "kline" /\ detectStreamType(KlineStream(m.candle.sym)) = "kline"
  THEN store' = [store EXCEPT ![m.candle.sym] = Update(@, m.candle)]
  ELSE UNCHANGED store

-----------------------------------------------------------------------------
(* The connection.                                                         *)

\* mutant: the window's connection may set the kill switch too
FailedKills ==
  /\ row' = row + 1 /\ failures' = failures + 1
  /\ IF failures' < MaxFailures THEN run' = "dial" /\ UNCHANGED kill
     ELSE run' = "stopped" /\ kill' = TRUE
  /\ copied' = {} /\ server' = {} /\ wire' = <<>> /\ readCh' = <<>>
  /\ UNCHANGED <<kind, subs, managerVars, store, now>>

\* What Run does when connect returns, which it only does with an error: the
\* count of failures is never reset by a connection that worked.
Failed ==
  /\ row' = row + 1
  /\ IF failures + 1 < MaxFailures
     THEN failures' = failures + 1 /\ run' = "dial" /\ UNCHANGED kill
     ELSE IF kind = "data"
     THEN failures' = 0 /\ run' = "dial" /\ UNCHANGED kill
     ELSE failures' = failures + 1 /\ run' = "stopped" /\ kill' = TRUE
  /\ copied' = {} /\ server' = {} /\ wire' = <<>> /\ readCh' = <<>>
  /\ UNCHANGED <<kind, subs, managerVars, store, now>>

DialFails ==
  /\ run = "dial" /\ faults < MaxFaults /\ faults' = faults + 1
  /\ UNCHANGED conn
  /\ Failed

\* mutant: the subscriptions are not copied
ConnectsBare ==
  /\ run = "dial"
  /\ conn' = "open" /\ copied' = {} /\ run' = "read" /\ row' = 0
  /\ UNCHANGED <<kind, subs, failures, kill, server, wire, readCh, managerVars, store, now, faults>>

\* connect: the new connection and the copy of the subscriptions in one lock.
Connects ==
  /\ run = "dial"
  /\ conn' = "open" /\ copied' = subs
  /\ run' = IF subs = {} THEN "read" ELSE "resubscribe"
  /\ row' = IF subs = {} THEN 0 ELSE row
  /\ UNCHANGED <<kind, subs, failures, kill, server, wire, readCh, managerVars, store, now, faults>>

\* connect: the copy is sent without the lock; the manager may have sent
\* requests of its own since.
Resubscribes ==
  /\ run = "resubscribe" /\ conn # "dead"
  /\ server' = IF conn = "open" THEN server \cup copied ELSE server
  /\ copied' = {} /\ run' = "read" /\ row' = 0
  /\ UNCHANGED <<kind, conn, subs, failures, kill, wire, readCh, managerVars, store, now, faults>>

ResubscribeFails ==
  /\ run = "resubscribe" /\ conn = "dead"
  /\ conn' = "nil" /\ UNCHANGED faults
  /\ Failed

\* readLoop's goroutine waits in its send to readCh, and reads nothing.
Blocked == Len(readCh) > ChanCap

\* mutant: only the loop reads, between its other cases
ReadsInSelect ==
  /\ run = "read" /\ wire # <<>> /\ ~Blocked
  /\ wire' = Tail(wire)
  /\ readCh' = IF Head(wire).type = "pong" THEN readCh ELSE Append(readCh, Head(wire))
  /\ UNCHANGED <<kind, run, conn, subs, copied, failures, kill, server, managerVars, store, now, faults, row>>

\* readLoop's goroutine reads on: what it reads goes to readCh, and a pong to
\* the Ping that waits for it.
Reads ==
  /\ run \in {"read", "ping"} /\ wire # <<>> /\ ~Blocked
  /\ wire' = Tail(wire)
  /\ IF Head(wire).type = "pong"
     THEN run' = "read" /\ UNCHANGED readCh
     ELSE readCh' = Append(readCh, Head(wire)) /\ UNCHANGED run
  /\ UNCHANGED <<kind, conn, subs, copied, failures, kill, server, managerVars, store, now, faults, row>>

\* readLoop's select: a message.
Dispatches ==
  /\ run = "read" /\ readCh # <<>>
  /\ Handle(Head(readCh))
  /\ readCh' = Tail(readCh)
  /\ UNCHANGED <<kind, run, conn, subs, copied, failures, kill, server, wire, managerVars, now, faults, row>>

\* readLoop's select: the goroutine's read has failed.
ReadFails ==
  /\ run = "read" /\ conn = "dead" /\ ~Blocked
  /\ UNCHANGED <<conn, faults>>
  /\ Failed

\* mutant: a stream that may rest is never stale
GoesStaleUnlessIdle ==
  /\ run = "read" /\ kind = "price"
  /\ conn' = "dead" /\ UNCHANGED faults
  /\ Failed

\* The stale ticker looks at the connection: the window's streams may rest
\* while nothing is subscribed, the user's always.
Watched == kind = "price" \/ (kind = "data" /\ subs # {})

\* readLoop's select: nothing was dispatched for too long.  How long a step
\* takes is left open: a Ping, or the hours before a window, may be the reason.
GoesStale ==
  /\ run = "read" /\ Watched
  /\ conn' = "dead" /\ UNCHANGED faults
  /\ Failed

\* readLoop's select: the ping ticker.  Ping waits for the pong, and nothing
\* else of the select is looked at; an open connection's exchange answers.
Pings ==
  /\ run = "read" /\ run' = "ping"
  /\ wire' = IF conn = "open" THEN Append(wire, [type |-> "pong"]) ELSE wire
  /\ UNCHANGED <<kind, conn, subs, copied, failures, kill, server, readCh, managerVars, store, now,
                 faults, row>>

\* Ping returns an error: when it does is up to the library.
PingFails ==
  /\ run = "ping" /\ conn = "dead"
  /\ UNCHANGED <<conn, faults>>
  /\ Failed

-----------------------------------------------------------------------------
(* The network and the exchange.                                           *)

\* The connection is lost, at once or without notice, with what was on its way
\* or after it.
NetworkFails ==
  /\ conn \in {"open", "silent"} /\ faults < MaxFaults /\ faults' = faults + 1
  /\ conn' \in {"dead", "silent"} \ {conn}
  /\ server' = {} /\ wire' \in {wire, <<>>}
  /\ UNCHANGED <<kind, run, subs, copied, failures, kill, readCh, managerVars, store, now, row>>

\* The system gives a connection up that answers no more.
SilenceNoticed ==
  /\ conn = "silent" /\ conn' = "dead"
  /\ UNCHANGED <<kind, run, subs, copied, failures, kill, server, wire, readCh, managerVars, store,
                 now, faults, row>>

Sends(m) ==
  /\ conn = "open" /\ Len(wire) < MaxWire
  /\ wire' = Append(wire, m)
  /\ UNCHANGED <<kind, run, conn, subs, copied, failures, kill, server, readCh, managerVars, store,
                 now, faults, row>>

\* A stream's message: the forming candle, whose last message is one of these.
Streams(s) ==
  /\ s \in server
  /\ Sends([type |-> "kline", candle |-> [sym |-> s, t |-> now, final |-> FALSE]])

\* Mark prices and events of orders; the answers to the window's requests are
\* dropped as its streams' messages are.
Tells ==
  /\ kind # "data"
  /\ Sends([type |-> "other"])

CandleCloses ==
  /\ now < MaxTime /\ now' = now + 1
  /\ UNCHANGED <<kind, connVars, managerVars, store, faults, row>>

-----------------------------------------------------------------------------
(* The window's manager.                                                   *)

WindowOpens(watched) ==
  /\ kind = "data" /\ phase = "idle" /\ windows < MaxWindows
  /\ windows' = windows + 1
  /\ list' = watched /\ todo' = watched /\ phase' = "backfill"
  /\ UNCHANGED <<kind, connVars, answer, batch, store, now, faults, row>>

\* The exchange's answer: the last candles, of which the last is forming.
Latest(s) == [i \in 1 .. FetchLimit |->
                [sym |-> s, t |-> now - FetchLimit + i, final |-> i < FetchLimit]]

\* backfillCandles: a symbol's call is answered, or the last attempt fails.
Backfills(s) ==
  /\ phase = "backfill" /\ answer = <<>> /\ batch = <<>> /\ s \in todo
  /\ \/ answer' = Latest(s) /\ UNCHANGED todo
     \/ UNCHANGED answer /\ todo' = todo \ {s}
  /\ UNCHANGED <<kind, connVars, phase, list, batch, windows, store, now, faults, row>>

\* FetchKlines skips the open candle by the clock after the answer.
FetchKlines ==
  /\ answer # <<>>
  /\ batch' = IF Last(answer).t >= now THEN Front(answer) ELSE answer
  /\ answer' = <<>> /\ todo' = todo \ {Last(answer).sym}
  /\ UNCHANGED <<kind, connVars, phase, list, windows, store, now, faults, row>>

\* SeedCandles: one Update, and one lock, for each candle.
Seeds ==
  /\ batch # <<>>
  /\ store' = [store EXCEPT ![Head(batch).sym] = Update(@, Head(batch))]
  /\ batch' = Tail(batch)
  /\ UNCHANGED <<kind, connVars, phase, list, todo, answer, windows, now, faults, row>>

\* Subscribe, under its lock: the streams that are new are wanted from now on.
Subscribes ==
  /\ phase = "backfill" /\ answer = <<>> /\ batch = <<>> /\ todo = {}
  /\ subs' = subs \cup list
  /\ todo' = list \ subs
  /\ phase' = IF conn = "nil" \/ todo' = {} THEN "open" ELSE "send"
  /\ UNCHANGED <<kind, run, conn, copied, failures, kill, server, wire, readCh, list, answer, batch,
                 windows, store, now, faults, row>>

\* Subscribe, after it: on the connection there is now; an error is logged.
SubscribeSent ==
  /\ phase = "send"
  /\ server' = IF conn = "open" THEN server \cup todo ELSE server
  /\ phase' = "open" /\ todo' = {}
  /\ UNCHANGED <<kind, run, conn, subs, copied, failures, kill, wire, readCh, list, answer, batch,
                 windows, store, now, faults, row>>

\* Unsubscribe, under its lock.
Unsubscribes ==
  /\ phase = "open"
  /\ subs' = subs \ list
  /\ phase' = IF conn = "nil" THEN "purge" ELSE "close"
  /\ todo' = list
  /\ UNCHANGED <<kind, run, conn, copied, failures, kill, server, wire, readCh, list, answer, batch,
                 windows, store, now, faults, row>>

\* Unsubscribe, after it.
UnsubscribeSent ==
  /\ phase = "close"
  /\ server' = IF conn = "open" THEN server \ list ELSE server
  /\ phase' = "purge"
  /\ UNCHANGED <<kind, run, conn, subs, copied, failures, kill, wire, readCh, list, todo, answer,
                 batch, windows, store, now, faults, row>>

\* mutant: a series that was being read is left
PurgesNothing(s) ==
  /\ phase = "purge" /\ s \in todo
  /\ todo' = todo \ {s}
  /\ IF todo' = {} THEN phase' = "idle" /\ list' = {} ELSE UNCHANGED <<phase, list>>
  /\ UNCHANGED <<kind, connVars, answer, batch, windows, store, now, faults, row>>

\* PurgeSymbol, one after another; the window is over after the last.
Purges(s) ==
  /\ phase = "purge" /\ s \in todo
  /\ store' = [store EXCEPT ![s] = <<>>]
  /\ todo' = todo \ {s}
  /\ IF todo' = {} THEN phase' = "idle" /\ list' = {} ELSE UNCHANGED <<phase, list>>
  /\ UNCHANGED <<kind, connVars, answer, batch, windows, now, faults, row>>

-----------------------------------------------------------------------------

Init ==
  /\ kind \in Kinds
  /\ run = "dial" /\ conn = "nil" /\ subs = {} /\ copied = {} /\ failures = 0 /\ kill = FALSE
  /\ server = {} /\ wire = <<>> /\ readCh = <<>>
  /\ phase = "idle" /\ list = {} /\ todo = {} /\ answer = <<>> /\ batch = <<>> /\ windows = 0
  /\ store = [s \in Symbols |-> <<>>]
  /\ now = FetchLimit /\ faults = 0 /\ row = 0

Connection ==
  \/ DialFails \/ Connects \/ Resubscribes \/ ResubscribeFails
  \/ Reads \/ Dispatches \/ ReadFails \/ GoesStale \/ Pings \/ PingFails

Environment ==
  \/ NetworkFails \/ SilenceNoticed \/ CandleCloses
  \/ Tells \/ \E s \in Symbols : Streams(s)

Manager ==
  \/ \E watched \in SUBSET Symbols \ {{}} : WindowOpens(watched)
  \/ \E s \in Symbols : Backfills(s) \/ Purges(s)
  \/ FetchKlines \/ Seeds \/ Subscribes \/ SubscribeSent \/ Unsubscribes \/ UnsubscribeSent

Next == Connection \/ Environment \/ Manager

\* A dial that is tried often enough succeeds, the goroutine reads on, and
\* select takes each of its cases that is ready again and again; nothing to
\* dispatch for ever is nothing for too long.  Calls without a deadline may
\* hang: no Ping need fail, and a request is only sent for certain on a
\* connection that answers or is known to be lost.  That the system notices a
\* half-open connection is not assumed either.
Fairness ==
  /\ WF_vars(Connects) /\ WF_vars(Reads)
  /\ WF_vars(conn # "silent" /\ Resubscribes) /\ WF_vars(ResubscribeFails)
  /\ WF_vars(conn # "silent" /\ SubscribeSent)
  /\ SF_vars(Dispatches) /\ SF_vars(ReadFails)
  /\ SF_vars(wire = <<>> /\ readCh = <<>> /\ GoesStale)

Spec == Init /\ [][Next]_vars /\ Fairness

-----------------------------------------------------------------------------
(* Properties.                                                             *)

\* Types; Run has stopped exactly when it has set the kill switch, which the
\* window's connection never does (binance_ws.go:82-92); readCh holds no more
\* than fits.
TypeOK ==
  /\ kind \in Kinds
  /\ run \in {"dial", "resubscribe", "read", "ping", "stopped"}
  /\ conn \in {"nil", "open", "silent", "dead"}
  /\ {subs, copied, server, list, todo} \subseteq SUBSET Symbols
  /\ failures \in 0 .. MaxFailures /\ kill \in BOOLEAN
  /\ wire \in Seq(Frames) /\ readCh \in Seq(Messages) /\ Len(readCh) <= ChanCap + 1
  /\ answer \in Seq(Candles) /\ batch \in Seq(Candles)
  /\ phase \in {"idle", "backfill", "send", "open", "close", "purge"}
  /\ store \in [Symbols -> Seq(Candles)] /\ \A s \in Symbols : Len(store[s]) <= MaxSeries
  /\ (run = "stopped") = kill /\ (kill => kind # "data")

\* What a reader of a symbol is given, whatever limit it asks with.
View(s) == Get(store[s], GetLimit)

\* Whenever a reader looks, amid the seeding and the purging too, it is given
\* candles without a gap, each once and in the order of time, and closed ones
\* before the last, which the indicators drop as the forming one
\* (indicator.go:82-85); the last may have closed only between the exchange's
\* answer and the look at the clock (binance_client.go:322-326).  Outside the
\* backfill a series is the whole of one fetch or empty, although the store
\* appends whatever comes (candle_store.go:30-44) and the window before may
\* have fetched the same symbol.
SeriesOrdered ==
  \A s \in Symbols :
    /\ \A i \in 1 .. Len(View(s)) - 1 : View(s)[i].final /\ View(s)[i + 1].t = View(s)[i].t + 1
    /\ phase # "backfill" => Len(store[s]) \in {0, FetchLimit - 1, FetchLimit}

\* No symbol carries data into the next window (websocket.go:50-52): a series
\* is empty before its backfill, from its purge on and for a symbol that is not
\* watched, although messages of the window before are handled after its purge
\* and during the next backfill: some are under way behind the UNSUBSCRIBE, and
\* a reconnection may send an older copy of the subscriptions after it
\* (binance_ws.go:113-128, :233-254).  What keeps them out of the store is that
\* the router knows no candle's message (stream_router.go:73-81).
NothingCarriedOver ==
  \A s \in Symbols :
    s \notin list \/ (phase \in {"backfill", "purge"} /\ (s \in todo) = (phase = "backfill"))
      => store[s] = <<>>

\* Run hangs in a call without a deadline: a Ping whose pong will not be read,
\* or a request on a connection that is only silent (binance_ws.go:172, :275).
Hung ==
  \/ run = "ping" /\ (conn # "open" \/ Blocked)
  \/ run = "resubscribe" /\ conn = "silent"

\* A Ping returns, unless its connection fails meanwhile or more messages come
\* before the pong than readCh has room for: the reader then waits for the
\* loop, and the loop for the pong (binance_ws.go:142-154, :171-174).
PingsReturn == run = "ping" ~> (run # "ping" \/ conn # "open" \/ Blocked)

\* A stream that is wanted is in the end sent, however often the connection
\* fails and whenever it is replaced: a failed request is only logged
\* (websocket.go:35-37), and made good by the next connection
\* (binance_ws.go:113-128, :212-232).  The only thing that can prevent it is
\* that Run hangs for ever in a call without a deadline.
StreamsHeal ==
  \/ <>[]Hung
  \/ \A s \in Symbols : s \in subs ~> (s \in server \/ s \notin subs)

\* A connection that breaks is replaced, and one that is only silent too while
\* it is expected to speak, or the kill switch is on: the bot does not go on
\* trading on prices that stand still (binance_ws.go:75-104, :176-191).  The
\* only exception is that Run hangs for ever in a call without a deadline:
\* behind a Ping neither the stale ticker nor a failed read is looked at.
NeverSilentForever ==
  \/ <>[]Hung
  \/ /\ conn = "dead" ~> (conn = "open" \/ kill)
     /\ (conn = "silent" /\ Watched) ~> (conn = "open" \/ kill \/ ~Watched)

\* docs/phase1.md:915-916: the kill switch is set after "5 consecutive
\* failures", and a "successful reconnect" resets the counter
\* (binance_ws.go:82-87).
KillSwitchIsConsecutive == kill => row >= MaxFailures
=============================================================================
