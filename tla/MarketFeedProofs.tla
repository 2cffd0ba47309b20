--------------------------- MODULE MarketFeedProofs ---------------------------
(***************************************************************************)
(* Theorems about MarketFeed, for every number of symbols, windows, faults *)
(* and messages on the wire, every capacity of readCh, and every length of *)
(* fetch, view and series.                                                 *)
(***************************************************************************)
EXTENDS MarketFeed, SequenceTheorems, TLAPS

-----------------------------------------------------------------------------
(* The inductive invariant.                                                *)

\* Types, and what Run's place says about its count of failures.
FeedTypes ==
  /\ TypeOK
  /\ now \in Nat /\ now >= FetchLimit
  /\ run # "stopped" => failures < MaxFailures

\* What the manager's phases say about its lists.
Phased ==
  /\ answer # <<>> => phase = "backfill" /\ batch = <<>>
  /\ batch # <<>> => phase = "backfill"
  /\ phase = "idle" => list = {}
  /\ phase = "close" => todo = list
  /\ todo \subseteq list

\* Closed candles before the last, without a gap.
Consecutive(q) == \A i \in 1 .. Len(q) - 1 : q[i].final /\ q[i + 1].t = q[i].t + 1

\* What one fetch brings.
Whole(q) == Len(q) \in {FetchLimit - 1, FetchLimit} /\ Consecutive(q)

OfOne(q, s) == \A i \in 1 .. Len(q) : q[i].sym = s

\* An answer is of a symbol whose backfill is under way.
Answered ==
  answer # <<>> =>
    /\ Len(answer) = FetchLimit /\ Consecutive(answer)
    /\ Last(answer).sym \in todo /\ OfOne(answer, Last(answer).sym)

\* The symbols whose candles are being stored: what is stored and what waits
\* are one fetch.  The other series are the whole of one, or empty.
Filling(s) == batch # <<>> /\ Head(batch).sym = s
Seeding(s) == s \in list \ todo /\ OfOne(batch, s) /\ Whole(store[s] \o batch)
Settled(s) == store[s] = <<>> \/ Whole(store[s])

Series ==
  /\ \A s \in Symbols : Filling(s) => Seeding(s)
  /\ \A s \in Symbols : ~Filling(s) => Settled(s)

FInv == FeedTypes /\ Phased /\ Answered /\ Series /\ NothingCarriedOver

-----------------------------------------------------------------------------
(* Candles and their series.                                               *)

LEMMA Parts ==
  ASSUME NEW q \in Seq(Candles)
  PROVE  /\ Len(q) \in Nat /\ DOMAIN q = 1 .. Len(q) /\ (q # <<>> <=> Len(q) > 0)
         /\ \A i \in 1 .. Len(q) :
              q[i] \in Candles /\ q[i].sym \in Symbols /\ q[i].t \in Nat /\ q[i].final \in BOOLEAN
<1>1. Len(q) \in Nat /\ DOMAIN q = 1 .. Len(q) /\ (q # <<>> <=> Len(q) > 0)
  BY LenProperties, EmptySeq
<1>2. \A i \in 1 .. Len(q) : q[i] \in Candles
  BY ElementOfSeq
<1> QED BY <1>1, <1>2 DEF Candles

LEMMA Rest ==
  ASSUME NEW q \in Seq(Candles), q # <<>>
  PROVE  /\ Head(q) = q[1] /\ Head(q) \in Candles /\ Len(q) > 0
         /\ Tail(q) \in Seq(Candles) /\ Len(Tail(q)) = Len(q) - 1
         /\ \A i \in 1 .. Len(q) - 1 : Tail(q)[i] = q[i + 1]
  BY HeadTailProperties, LenProperties, EmptySeq

\* A later candle is added to a series that is not full.
LEMMA UpdateAppends ==
  ASSUME FeedAssumption, NEW q \in Seq(Candles), NEW c \in Candles, Len(q) < MaxSeries,
         q # <<>> => q[Len(q)].t # c.t
  PROVE  Update(q, c) = Append(q, c)
<1>1. MaxSeries \in Nat /\ Len(q) \in Nat
  BY LenProperties DEF FeedAssumption
<1>2. Len(Append(q, c)) = Len(q) + 1
  BY AppendProperties
<1>3. ~(Len(Append(q, c)) > MaxSeries)
  BY <1>1, <1>2
<1> QED BY <1>3 DEF Update, Last

\* The first of the candles that wait becomes the last that is stored.
LEMMA MovesOn ==
  ASSUME NEW q \in Seq(Candles), NEW b \in Seq(Candles), b # <<>>
  PROVE  Append(q, Head(b)) \o Tail(b) = q \o b
<1> DEFINE x == Append(q, Head(b))
           r == Tail(b)
<1>1. /\ Head(b) = b[1] /\ Head(b) \in Candles /\ r \in Seq(Candles) /\ Len(r) = Len(b) - 1
      /\ \A i \in 1 .. Len(b) - 1 : r[i] = b[i + 1]
  BY Rest
<1>2. Len(q) \in Nat /\ Len(b) \in Nat /\ Len(b) > 0
  BY Parts
<1>3. /\ x \in Seq(Candles) /\ Len(x) = Len(q) + 1 /\ x[Len(q) + 1] = b[1]
      /\ \A i \in 1 .. Len(q) : x[i] = q[i]
  BY <1>1, AppendProperties
<1> HIDE DEF x, r
<1>4. /\ x \o r \in Seq(Candles) /\ Len(x \o r) = Len(x) + Len(r)
      /\ \A i \in 1 .. Len(x) + Len(r) :
           (x \o r)[i] = IF i <= Len(x) THEN x[i] ELSE r[i - Len(x)]
  BY <1>1, <1>3, ConcatProperties
<1>5. /\ q \o b \in Seq(Candles) /\ Len(q \o b) = Len(q) + Len(b)
      /\ \A i \in 1 .. Len(q) + Len(b) :
           (q \o b)[i] = IF i <= Len(q) THEN q[i] ELSE b[i - Len(q)]
  BY ConcatProperties
<1>6. Len(x) + Len(r) = Len(q) + Len(b)
  BY <1>1, <1>2, <1>3
<1>7. ASSUME NEW i \in 1 .. Len(q) + Len(b)
      PROVE  (x \o r)[i] = (q \o b)[i]
  <2>1. CASE i \in 1 .. Len(q)
    <3>1. i <= Len(x) /\ i <= Len(q)
      BY <1>2, <1>3, <2>1
    <3> QED BY <1>3, <1>4, <1>5, <1>6, <2>1, <3>1
  <2>2. CASE i = Len(q) + 1
    <3>1. i <= Len(x) /\ ~(i <= Len(q)) /\ i - Len(q) = 1
      BY <1>2, <1>3, <2>2
    <3> QED BY <1>3, <1>4, <1>5, <1>6, <2>2, <3>1
  <2>3. CASE i > Len(q) + 1
    <3>1. /\ ~(i <= Len(x)) /\ ~(i <= Len(q)) /\ i - Len(x) \in 1 .. Len(b) - 1
          /\ (i - Len(x)) + 1 = i - Len(q)
      BY <1>2, <1>3, <2>3
    <3>2. (x \o r)[i] = r[i - Len(x)] /\ (q \o b)[i] = b[i - Len(q)]
      BY <1>4, <1>5, <1>6, <3>1
    <3> QED BY <1>1, <3>1, <3>2
  <2>4. i \in 1 .. Len(q) \/ i = Len(q) + 1 \/ i > Len(q) + 1
    BY <1>2
  <2> QED BY <2>1, <2>2, <2>3, <2>4
<1> QED BY <1>4, <1>5, <1>6, <1>7, SeqEqual DEF x, r

\* The first candles of a series without a gap are one.
LEMMA FirstOnes ==
  ASSUME NEW q \in Seq(Candles), NEW b \in Seq(Candles), Consecutive(q \o b)
  PROVE  /\ Consecutive(q)
         /\ q # <<>> /\ b # <<>> => q[Len(q)].final /\ b[1].t = q[Len(q)].t + 1
<1>1. Len(q) \in Nat /\ Len(b) \in Nat /\ (q # <<>> <=> Len(q) > 0) /\ (b # <<>> <=> Len(b) > 0)
  BY Parts
<1>2. /\ Len(q \o b) = Len(q) + Len(b)
      /\ \A i \in 1 .. Len(q) + Len(b) :
           (q \o b)[i] = IF i <= Len(q) THEN q[i] ELSE b[i - Len(q)]
  BY ConcatProperties
<1>3. \A i \in 1 .. Len(q) + Len(b) - 1 :
        (q \o b)[i].final /\ (q \o b)[i + 1].t = (q \o b)[i].t + 1
  <2> DEFINE w == q \o b
  <2>1. \A i \in 1 .. Len(w) - 1 : w[i].final /\ w[i + 1].t = w[i].t + 1
    BY DEF Consecutive
  <2>2. Len(w) = Len(q) + Len(b)
    BY <1>2
  <2> HIDE DEF w
  <2>3. \A i \in 1 .. Len(q) + Len(b) - 1 : w[i].final /\ w[i + 1].t = w[i].t + 1
    BY ONLY <2>1, <2>2
  <2> QED BY <2>3 DEF w
<1>4. ASSUME NEW i \in 1 .. Len(q) - 1
      PROVE  q[i].final /\ q[i + 1].t = q[i].t + 1
  <2>1. /\ i \in 1 .. Len(q) + Len(b) - 1 /\ i \in 1 .. Len(q) + Len(b)
        /\ i + 1 \in 1 .. Len(q) + Len(b) /\ i <= Len(q) /\ i + 1 <= Len(q)
    BY <1>1
  <2> QED BY <1>2, <1>3, <2>1
<1>5. ASSUME q # <<>>, b # <<>>
      PROVE  q[Len(q)].final /\ b[1].t = q[Len(q)].t + 1
  <2>1. /\ Len(q) \in 1 .. Len(q) + Len(b) - 1 /\ Len(q) \in 1 .. Len(q) + Len(b)
        /\ Len(q) + 1 \in 1 .. Len(q) + Len(b) /\ Len(q) <= Len(q) /\ ~(Len(q) + 1 <= Len(q))
        /\ Len(q) + 1 - Len(q) = 1
    BY <1>1, <1>5
  <2> QED BY <1>2, <1>3, <2>1
<1> QED BY <1>4, <1>5 DEF Consecutive

\* The router drops a candle's message: its stream's name ends in the timeframe.
LEMMA NothingRouted ==
  ASSUME NEW m, Handle(m)
  PROVE  UNCHANGED store
<1>1. \A s : Last(KlineStream(s)) = "5m"
  BY DEF Last, KlineStream
<1> QED BY <1>1 DEF Handle, detectStreamType

-----------------------------------------------------------------------------
(* Types.                                                                  *)

LEMMA FailedTypes ==
  ASSUME FeedAssumption, FeedTypes, Failed, run # "stopped",
         conn' \in {"nil", "open", "silent", "dead"}
  PROVE  FeedTypes'
<1>1. MaxFailures \in Nat \ {0} /\ ChanCap \in Nat
  BY DEF FeedAssumption
<1>2. failures \in 0 .. MaxFailures /\ failures < MaxFailures /\ ~kill
  BY DEF FeedTypes, TypeOK
<1>3. /\ run' \in {"dial", "stopped"} /\ failures' \in 0 .. MaxFailures
      /\ run' # "stopped" => failures' < MaxFailures
  BY <1>1, <1>2 DEF Failed
<1>4. kill' \in BOOLEAN /\ (run' = "stopped") = kill' /\ (kill' => kind # "data")
  <2>1. kill \in BOOLEAN
    BY DEF FeedTypes, TypeOK
  <2>2. \/ run' = "dial" /\ kill' = kill
        \/ run' = "stopped" /\ kill' = TRUE /\ kind # "data"
    BY DEF Failed
  <2>3. CASE run' = "dial" /\ kill' = kill
    <3>1. ~(run' = "stopped") /\ kill' = FALSE
      BY <1>2, <2>1, <2>3
    <3> QED BY <3>1, Zenon
  <2>4. CASE run' = "stopped" /\ kill' = TRUE /\ kind # "data"
    BY <2>4, Zenon
  <2> QED BY <2>2, <2>3, <2>4
<1>5. /\ copied' = {} /\ server' = {} /\ wire' = <<>> /\ readCh' = <<>>
      /\ UNCHANGED <<kind, subs, managerVars, store, now>>
  BY DEF Failed
<1>6. <<>> \in Seq(Frames) /\ <<>> \in Seq(Messages) /\ Len(<<>>) <= ChanCap + 1
  BY <1>1
<1> QED BY <1>3, <1>4, <1>5, <1>6 DEF FeedTypes, TypeOK, managerVars

LEMMA ConnectionTypes ==
  ASSUME FeedAssumption, FeedTypes, Connection
  PROVE  FeedTypes'
<1>1. CASE DialFails \/ ResubscribeFails \/ ReadFails \/ GoesStale \/ PingFails
  <2>1. Failed /\ run # "stopped" /\ conn' \in {"nil", "open", "silent", "dead"}
    BY <1>1 DEF DialFails, ResubscribeFails, ReadFails, GoesStale, PingFails, FeedTypes, TypeOK
  <2> QED BY <2>1, FailedTypes
<1>2. CASE Connects
  BY <1>2 DEF Connects, FeedTypes, TypeOK, managerVars
<1>3. CASE Resubscribes
  BY <1>3 DEF Resubscribes, FeedTypes, TypeOK, managerVars
<1>4. CASE Reads
  <2>1. Head(wire) \in Frames /\ Tail(wire) \in Seq(Frames)
    BY <1>4, HeadTailProperties DEF Reads, FeedTypes, TypeOK
  <2>2. CASE Head(wire).type = "pong"
    BY <1>4, <2>1, <2>2 DEF Reads, FeedTypes, TypeOK, managerVars
  <2>3. CASE Head(wire).type # "pong"
    <3>1. Head(wire) \in Messages
      BY <2>1, <2>3 DEF Frames
    <3>2. readCh \in Seq(Messages) /\ Len(readCh) \in Nat /\ ChanCap \in Nat
      BY LenProperties DEF FeedTypes, TypeOK, FeedAssumption
    <3>3. readCh' = Append(readCh, Head(wire)) /\ ~(Len(readCh) > ChanCap)
      BY <1>4, <2>3 DEF Reads, Blocked
    <3>4. readCh' \in Seq(Messages) /\ Len(readCh') = Len(readCh) + 1
      BY <3>1, <3>2, <3>3, AppendProperties
    <3>5. Len(readCh') <= ChanCap + 1
      BY <3>2, <3>3, <3>4
    <3> QED BY <1>4, <2>1, <2>3, <3>4, <3>5 DEF Reads, FeedTypes, TypeOK, managerVars
  <2> QED BY <2>2, <2>3
<1>5. CASE Dispatches
  <2>1. readCh' \in Seq(Messages) /\ Len(readCh') <= ChanCap + 1
    <3>1. readCh \in Seq(Messages) /\ readCh # <<>> /\ readCh' = Tail(readCh) /\ Len(readCh) <= ChanCap + 1
      BY <1>5 DEF Dispatches, FeedTypes, TypeOK
    <3>2. Len(readCh) \in Nat /\ ChanCap \in Nat
      BY <3>1, LenProperties DEF FeedAssumption
    <3>3. Tail(readCh) \in Seq(Messages) /\ Len(Tail(readCh)) = Len(readCh) - 1
      BY <3>1, HeadTailProperties
    <3> QED BY <3>1, <3>2, <3>3
  <2>2. UNCHANGED store
    BY <1>5, NothingRouted DEF Dispatches
  <2> QED BY <1>5, <2>1, <2>2 DEF Dispatches, FeedTypes, TypeOK, managerVars
<1>6. CASE Pings
  <2>1. wire' \in Seq(Frames)
    <3>1. [type |-> "pong"] \in Frames
      BY DEF Frames
    <3>2. wire \in Seq(Frames)
      BY DEF FeedTypes, TypeOK
    <3>3. Append(wire, [type |-> "pong"]) \in Seq(Frames)
      BY <3>1, <3>2, AppendProperties
    <3> QED BY <1>6, <3>2, <3>3 DEF Pings
  <2> QED BY <1>6, <2>1 DEF Pings, FeedTypes, TypeOK, managerVars
<1> QED BY <1>1, <1>2, <1>3, <1>4, <1>5, <1>6 DEF Connection

LEMMA EnvironmentTypes ==
  ASSUME FeedAssumption, FeedTypes, Environment
  PROVE  FeedTypes'
<1>1. CASE NetworkFails
  <2>1. wire' \in Seq(Frames)
    <3>1. wire \in Seq(Frames) /\ <<>> \in Seq(Frames)
      BY DEF FeedTypes, TypeOK
    <3> QED BY <1>1, <3>1 DEF NetworkFails
  <2> QED BY <1>1, <2>1 DEF NetworkFails, FeedTypes, TypeOK, managerVars
<1>2. CASE SilenceNoticed
  BY <1>2 DEF SilenceNoticed, FeedTypes, TypeOK, managerVars
<1>3. ASSUME NEW m \in Frames, Sends(m)
      PROVE  FeedTypes'
  <2>1. wire' \in Seq(Frames)
    BY <1>3, AppendProperties DEF Sends, FeedTypes, TypeOK
  <2> QED BY <1>3, <2>1 DEF Sends, FeedTypes, TypeOK, managerVars
<1>4. CASE Tells
  <2>1. [type |-> "other"] \in Frames
    BY DEF Frames, Messages
  <2> QED BY <1>3, <1>4, <2>1 DEF Tells
<1>5. ASSUME NEW s \in Symbols, Streams(s)
      PROVE  FeedTypes'
  <2>1. [sym |-> s, t |-> now, final |-> FALSE] \in Candles
    BY DEF Candles, FeedTypes
  <2>2. [type |-> "kline", candle |-> [sym |-> s, t |-> now, final |-> FALSE]] \in Frames
    BY <2>1 DEF Frames, Messages
  <2> QED BY <1>3, <1>5, <2>2 DEF Streams
<1>6. CASE CandleCloses
  <2>1. FetchLimit \in Nat /\ now \in Nat /\ now' = now + 1 /\ now >= FetchLimit
    BY <1>6 DEF CandleCloses, FeedTypes, FeedAssumption
  <2>2. now' \in Nat /\ now' >= FetchLimit
    BY ONLY <2>1
  <2> QED BY <1>6, <2>2 DEF CandleCloses, FeedTypes, TypeOK, connVars, managerVars
<1> QED BY <1>1, <1>2, <1>4, <1>5, <1>6 DEF Environment

\* What a symbol's fetch brings.
LEMMA LatestIs ==
  ASSUME FeedAssumption, FeedTypes, NEW s \in Symbols
  PROVE  /\ Latest(s) \in Seq(Candles) /\ Len(Latest(s)) = FetchLimit /\ Latest(s) # <<>>
         /\ Consecutive(Latest(s)) /\ OfOne(Latest(s), s)
<1> DEFINE q == Latest(s)
<1>1. FetchLimit \in Nat \ {0} /\ now \in Nat /\ now >= FetchLimit
  BY DEF FeedAssumption, FeedTypes
<1>2. \A i \in 1 .. FetchLimit :
        q[i] = [sym |-> s, t |-> now - FetchLimit + i, final |-> i < FetchLimit]
  BY DEF Latest
<1>3. q \in [1 .. FetchLimit -> Candles]
  <2>1. \A i \in 1 .. FetchLimit : now - FetchLimit + i \in Nat /\ (i < FetchLimit) \in BOOLEAN
    BY <1>1
  <2>2. \A i \in 1 .. FetchLimit :
          [sym |-> s, t |-> now - FetchLimit + i, final |-> i < FetchLimit] \in Candles
    BY <2>1 DEF Candles
  <2> QED BY <2>2 DEF Latest
<1>4. q \in Seq(Candles)
  BY <1>1, <1>3, SeqDef
<1>5. Len(q) = FetchLimit
  BY <1>1, <1>3, <1>4, LenProperties
<1> HIDE DEF q
<1>6. ASSUME NEW i \in 1 .. Len(q) - 1
      PROVE  q[i].final /\ q[i + 1].t = q[i].t + 1
  <2>1. i \in 1 .. FetchLimit /\ i + 1 \in 1 .. FetchLimit /\ i < FetchLimit
    BY <1>1, <1>5
  <2>2. /\ q[i] = [sym |-> s, t |-> now - FetchLimit + i, final |-> i < FetchLimit]
        /\ q[i + 1] = [sym |-> s, t |-> now - FetchLimit + (i + 1), final |-> i + 1 < FetchLimit]
    BY <1>2, <2>1
  <2>4. q[i].t = now - FetchLimit + i /\ q[i + 1].t = now - FetchLimit + (i + 1)
    BY ONLY <2>2
  <2>5. q[i].final
    <3>1. q[i].final = (i < FetchLimit)
      BY ONLY <2>2
    <3> QED BY <2>1, <3>1
  <2>3. now - FetchLimit + (i + 1) = (now - FetchLimit + i) + 1
    BY <1>1
  <2> QED BY <2>3, <2>4, <2>5
<1>7. \A i \in 1 .. Len(q) : q[i].sym = s
  BY <1>2, <1>5
<1>8. q # <<>>
  BY <1>1, <1>4, <1>5, Parts
<1> QED BY <1>4, <1>5, <1>6, <1>7, <1>8 DEF q, Consecutive, OfOne

\* What FetchKlines makes of it: all of it, or all but the last candle.
LEMMA FrontIs ==
  ASSUME FeedAssumption, FeedTypes, Answered, answer # <<>>,
         NEW b, b \in {Front(answer), answer}
  PROVE  /\ b \in Seq(Candles) /\ Whole(b) /\ OfOne(b, Last(answer).sym)
         /\ Last(answer).sym \in Symbols
<1> DEFINE q == answer
           s == Last(answer).sym
<1>1. /\ q \in Seq(Candles) /\ Len(q) = FetchLimit /\ FetchLimit \in Nat \ {0}
      /\ Consecutive(q) /\ OfOne(q, s) /\ s \in Symbols
  BY DEF FeedAssumption, FeedTypes, TypeOK, Answered
<1>2. CASE b = q
  BY <1>1, <1>2 DEF Whole
<1>3. CASE b = Front(q)
  <2>1. b = SubSeq(q, 1, Len(q) - 1)
    BY <1>3 DEF Front
  <2>2. \A i \in 1 .. Len(q) - 1 : q[i] \in Candles
    BY <1>1, Parts
  <2>3. Len(q) - 1 \in Int /\ 1 \in Int /\ Len(q) - 1 - 1 + 1 = Len(q) - 1
    BY <1>1
  <2> HIDE DEF q, s
  <2>4. /\ b \in Seq(Candles) /\ Len(b) = Len(q) - 1
        /\ \A i \in 1 .. Len(q) - 1 : b[i] = q[i]
    <3>1. /\ SubSeq(q, 1, Len(q) - 1) \in Seq(Candles)
          /\ Len(SubSeq(q, 1, Len(q) - 1)) = IF 1 <= Len(q) - 1 THEN Len(q) - 1 - 1 + 1 ELSE 0
          /\ \A i \in 1 .. Len(q) - 1 - 1 + 1 : SubSeq(q, 1, Len(q) - 1)[i] = q[1 + i - 1]
      BY ONLY <2>2, <2>3, SubSeqProperties
    <3>2. Len(b) = Len(q) - 1
      BY <1>1, <2>1, <3>1
    <3>3. ASSUME NEW i \in 1 .. Len(q) - 1
          PROVE  b[i] = q[i]
      <4>1. 1 + i - 1 = i /\ i \in 1 .. Len(q) - 1 - 1 + 1
        BY <2>3
      <4> QED BY <2>1, <3>1, <4>1
    <3> QED BY <2>1, <3>1, <3>2, <3>3
  <2>5. Consecutive(b)
    <3> SUFFICES ASSUME NEW i \in 1 .. Len(b) - 1
                 PROVE  b[i].final /\ b[i + 1].t = b[i].t + 1
      BY DEF Consecutive
    <3>1. i \in 1 .. Len(q) - 1 /\ i + 1 \in 1 .. Len(q) - 1
      BY <1>1, <2>4
    <3> QED BY <1>1, <2>4, <3>1 DEF Consecutive
  <2>6. OfOne(b, s)
    <3>1. \A i \in 1 .. Len(q) - 1 : i \in 1 .. Len(q)
      BY <1>1
    <3> QED BY <1>1, <2>4, <3>1 DEF OfOne
  <2>7. Len(b) = FetchLimit - 1
    BY <1>1, <2>4
  <2> QED BY <1>1, <2>4, <2>5, <2>6, <2>7 DEF Whole, q, s
<1> QED BY <1>2, <1>3 DEF q

\* Where a candle is seeded: behind those of its fetch that are stored.
LEMMA SeedsOne ==
  ASSUME FeedAssumption, FeedTypes, Phased, Series, Seeds
  PROVE  LET s == Head(batch).sym IN
         /\ s \in list \ todo /\ OfOne(batch, s) /\ s \in Symbols
         /\ batch \in Seq(Candles) /\ batch # <<>> /\ batch' = Tail(batch)
         /\ store'[s] \in Seq(Candles) /\ Len(store'[s]) <= MaxSeries
         /\ store'[s] \o batch' = store[s] \o batch /\ Whole(store[s] \o batch)
         /\ store' \in [Symbols -> Seq(Candles)]
         /\ \A r \in Symbols \ {s} : store'[r] = store[r]
<1> DEFINE s == Head(batch).sym
           c == Head(batch)
           q == store[s]
<1>1. /\ batch \in Seq(Candles) /\ batch # <<>> /\ batch' = Tail(batch)
      /\ store' = [store EXCEPT ![s] = Update(@, c)] /\ store \in [Symbols -> Seq(Candles)]
  BY DEF Seeds, FeedTypes, TypeOK
<1>2. c = batch[1] /\ c \in Candles /\ s \in Symbols
  BY <1>1, Rest DEF Candles
<1>3. s \in list \ todo /\ OfOne(batch, s) /\ Whole(q \o batch)
  BY <1>1, <1>2 DEF Series, Filling, Seeding
<1>4. q \in Seq(Candles) /\ Len(q) \in Nat /\ Len(batch) \in Nat /\ Len(batch) > 0
  BY <1>1, <1>2, Parts
<1> HIDE DEF c, q, s
<1>5. Len(q) < MaxSeries
  <2>1. Len(q) + Len(batch) \in {FetchLimit - 1, FetchLimit}
    BY <1>1, <1>3, <1>4, ConcatProperties DEF Whole
  <2>2. FetchLimit \in Nat /\ MaxSeries \in Nat /\ FetchLimit <= MaxSeries
    BY DEF FeedAssumption
  <2> QED BY <1>4, <2>1, <2>2
<1>6. q # <<>> => q[Len(q)].t # c.t
  <2> SUFFICES ASSUME q # <<>>
               PROVE  q[Len(q)].t # c.t
    OBVIOUS
  <2>1. c.t = q[Len(q)].t + 1
    BY <1>1, <1>2, <1>3, <1>4, FirstOnes DEF Whole
  <2>2. q[Len(q)].t \in Nat
    <3>1. Len(q) \in 1 .. Len(q)
      BY <1>4, Parts
    <3> QED BY <1>4, <3>1, Parts
  <2> QED BY <2>1, <2>2
<1>7. Update(q, c) = Append(q, c)
  BY <1>2, <1>4, <1>5, <1>6, UpdateAppends
<1>8. Append(q, c) \in Seq(Candles) /\ Len(Append(q, c)) = Len(q) + 1
  BY <1>2, <1>4, AppendProperties
<1>9. Append(q, c) \o Tail(batch) = q \o batch
  BY <1>1, <1>4, MovesOn DEF c
<1>10. /\ store'[s] = Append(q, c) /\ \A r \in Symbols \ {s} : store'[r] = store[r]
       /\ store' \in [Symbols -> Seq(Candles)]
  BY <1>1, <1>2, <1>7, <1>8 DEF q
<1>11. Len(q) + 1 <= MaxSeries
  <2>1. MaxSeries \in Nat
    BY DEF FeedAssumption
  <2> QED BY <1>4, <1>5, <2>1
<1> QED BY <1>1, <1>2, <1>3, <1>8, <1>9, <1>10, <1>11 DEF s, q

LEMMA ManagerTypes ==
  ASSUME FeedAssumption, FeedTypes, Phased, Answered, Series, Manager
  PROVE  FeedTypes'
<1>1. ASSUME NEW watched \in SUBSET Symbols, WindowOpens(watched)
      PROVE  FeedTypes'
  BY <1>1 DEF WindowOpens, FeedTypes, TypeOK, connVars
<1>2. ASSUME NEW s \in Symbols, Backfills(s)
      PROVE  FeedTypes'
  <2>1. answer' \in Seq(Candles)
    BY <1>2, LatestIs DEF Backfills, FeedTypes, TypeOK
  <2>2. todo' \subseteq Symbols
    BY <1>2 DEF Backfills, FeedTypes, TypeOK
  <2> QED BY <1>2, <2>1, <2>2 DEF Backfills, FeedTypes, TypeOK, connVars
<1>3. CASE FetchKlines
  <2>1. batch' \in {Front(answer), answer} /\ answer # <<>> /\ answer' = <<>>
    BY <1>3 DEF FetchKlines
  <2>2. batch' \in Seq(Candles) /\ answer' \in Seq(Candles)
    BY <2>1, FrontIs
  <2> QED BY <1>3, <2>2 DEF FetchKlines, FeedTypes, TypeOK, connVars
<1>4. CASE Seeds
  <2>1. batch' \in Seq(Candles)
    BY <1>4, SeedsOne, Rest
  <2>2. store' \in [Symbols -> Seq(Candles)] /\ \A s \in Symbols : Len(store'[s]) <= MaxSeries
    BY <1>4, SeedsOne DEF FeedTypes, TypeOK
  <2> QED BY <1>4, <2>1, <2>2 DEF Seeds, FeedTypes, TypeOK, connVars
<1>5. CASE Subscribes
  BY <1>5 DEF Subscribes, FeedTypes, TypeOK
<1>6. CASE SubscribeSent
  BY <1>6 DEF SubscribeSent, FeedTypes, TypeOK
<1>7. CASE Unsubscribes
  BY <1>7 DEF Unsubscribes, FeedTypes, TypeOK
<1>8. CASE UnsubscribeSent
  BY <1>8 DEF UnsubscribeSent, FeedTypes, TypeOK
<1>9. ASSUME NEW s \in Symbols, Purges(s)
      PROVE  FeedTypes'
  <2>1. store' \in [Symbols -> Seq(Candles)] /\ \A x \in Symbols : Len(store'[x]) <= MaxSeries
    <3>1. <<>> \in Seq(Candles) /\ Len(<<>>) = 0 /\ MaxSeries \in Nat
      BY DEF FeedAssumption
    <3>2. store \in [Symbols -> Seq(Candles)] /\ \A x \in Symbols : Len(store[x]) <= MaxSeries
      BY DEF FeedTypes, TypeOK
    <3>3. \A x \in Symbols : store'[x] = IF x = s THEN <<>> ELSE store[x]
      BY <1>9, <3>2 DEF Purges
    <3>4. store' = [store EXCEPT ![s] = <<>>]
      BY <1>9 DEF Purges
    <3> QED BY <3>1, <3>2, <3>3, <3>4
  <2> QED BY <1>9, <2>1 DEF Purges, FeedTypes, TypeOK, connVars
<1> QED BY <1>1, <1>2, <1>3, <1>4, <1>5, <1>6, <1>7, <1>8, <1>9 DEF Manager

-----------------------------------------------------------------------------
(* The manager's steps.                                                    *)

\* What a step that leaves the manager and the store alone keeps.
LEMMA Aside ==
  ASSUME Phased, Answered, Series, NothingCarriedOver, UNCHANGED <<managerVars, store>>
  PROVE  Phased' /\ Answered' /\ Series' /\ NothingCarriedOver'
<1>1. UNCHANGED <<phase, list, todo, answer, batch, store>>
  BY DEF managerVars
<1>2. Phased'
  BY <1>1 DEF Phased
<1>3. Answered'
  BY <1>1 DEF Answered, Consecutive, OfOne
<1>4. Series'
  <2>1. \A s \in Symbols : Filling(s)' = Filling(s)
    BY <1>1 DEF Filling
  <2>2. \A s \in Symbols : Seeding(s) => Seeding(s)'
    BY <1>1 DEF Seeding, Whole, Consecutive, OfOne
  <2>3. \A s \in Symbols : Settled(s) => Settled(s)'
    BY <1>1 DEF Settled, Whole, Consecutive
  <2> QED BY <2>1, <2>2, <2>3 DEF Series
<1>5. NothingCarriedOver'
  BY <1>1 DEF NothingCarriedOver
<1> QED BY <1>2, <1>3, <1>4, <1>5

LEMMA OthersAside ==
  ASSUME Connection \/ Environment
  PROVE  UNCHANGED <<managerVars, store>>
<1>1. CASE DialFails \/ ResubscribeFails \/ ReadFails \/ GoesStale \/ PingFails
  BY <1>1 DEF DialFails, ResubscribeFails, ReadFails, GoesStale, PingFails, Failed
<1>2. CASE Connects \/ Resubscribes \/ Reads \/ Pings
  BY <1>2 DEF Connects, Resubscribes, Reads, Pings
<1>3. CASE Dispatches
  BY <1>3, NothingRouted DEF Dispatches
<1>4. CASE Environment
  BY <1>4 DEF Environment, NetworkFails, SilenceNoticed, CandleCloses, Tells, Streams, Sends
<1> QED BY <1>1, <1>2, <1>3, <1>4 DEF Connection

\* A step of the manager that leaves the store and the fetch alone.
LEMMA StoreAside ==
  ASSUME Series, Answered, batch = <<>>, UNCHANGED <<store, batch>>, answer' = <<>>
  PROVE  Series' /\ Answered'
<1>1. \A s \in Symbols : ~Filling(s) /\ Settled(s) /\ ~Filling(s)'
  BY DEF Series, Filling
<1>2. \A s \in Symbols : Settled(s)'
  BY <1>1 DEF Settled, Whole, Consecutive
<1> QED BY <1>1, <1>2 DEF Series, Answered

LEMMA FetchSteps ==
  ASSUME FeedAssumption, FeedTypes, Phased, Answered, Series, NothingCarriedOver,
         FetchKlines \/ \E s \in Symbols : Backfills(s)
  PROVE  Phased' /\ Answered' /\ Series' /\ NothingCarriedOver'
<1>1. ASSUME NEW s \in Symbols, Backfills(s)
      PROVE  Phased' /\ Answered' /\ Series' /\ NothingCarriedOver'
  <2>1. /\ phase = "backfill" /\ answer = <<>> /\ batch = <<>> /\ s \in todo
        /\ UNCHANGED <<phase, list, batch, store>> /\ todo' \subseteq todo
        /\ (answer' = Latest(s) /\ todo' = todo) \/ answer' = <<>>
    BY <1>1 DEF Backfills
  <2>2. Phased'
    BY <2>1 DEF Phased
  <2>3. \A r \in Symbols : ~Filling(r) /\ Settled(r) /\ ~Filling(r)'
    BY <2>1 DEF Series, Filling
  <2>4. Series'
    BY <2>1, <2>3 DEF Series, Settled, Whole, Consecutive
  <2>5. NothingCarriedOver'
    BY <2>1 DEF NothingCarriedOver
  <2>6. Answered'
    <3>1. CASE answer' = <<>>
      BY <3>1 DEF Answered
    <3>2. CASE answer' = Latest(s) /\ todo' = todo
      <4>1. /\ Latest(s) \in Seq(Candles) /\ Len(Latest(s)) = FetchLimit
            /\ Consecutive(Latest(s)) /\ OfOne(Latest(s), s) /\ FetchLimit \in Nat \ {0}
        BY LatestIs DEF FeedAssumption
      <4>2. Last(Latest(s)).sym = s
        <5>1. FetchLimit \in 1 .. FetchLimit
          BY <4>1
        <5> QED BY <4>1, <5>1 DEF Last, OfOne
      <4>3. Consecutive(answer') /\ Len(answer') = FetchLimit /\ OfOne(answer', s)
        BY <3>2, <4>1
      <4>4. Last(answer').sym = s /\ s \in todo'
        BY <2>1, <3>2, <4>2
      <4> QED BY <4>3, <4>4 DEF Answered, Consecutive, OfOne
    <3> QED BY <2>1, <3>1, <3>2
  <2> QED BY <2>2, <2>4, <2>5, <2>6
<1>2. CASE FetchKlines
  <2> DEFINE s == Last(answer).sym
  <2>1. /\ answer # <<>> /\ batch' \in {Front(answer), answer} /\ answer' = <<>>
        /\ todo' = todo \ {s} /\ UNCHANGED <<phase, list, store>>
    BY <1>2 DEF FetchKlines
  <2>2. phase = "backfill" /\ batch = <<>> /\ s \in todo /\ todo \subseteq list
    BY <2>1 DEF Phased, Answered
  <2>3. batch' \in Seq(Candles) /\ Whole(batch') /\ OfOne(batch', s) /\ s \in Symbols
    BY <2>1, FrontIs
  <2>4. store[s] = <<>>
    BY <2>2, <2>3 DEF NothingCarriedOver
  <2> HIDE DEF s
  <2>5. Phased'
    BY <2>1, <2>2 DEF Phased
  <2>6. Answered'
    BY <2>1 DEF Answered
  <2>7. NothingCarriedOver'
    BY <2>1, <2>2 DEF NothingCarriedOver
  <2>8. ASSUME NEW r \in Symbols, Filling(r)'
        PROVE  Seeding(r)'
    <3>1. batch' # <<>> /\ Head(batch').sym = r
      BY <2>8 DEF Filling
    <3>2. Head(batch') = batch'[1] /\ 1 \in 1 .. Len(batch')
      BY <2>3, <3>1, Rest, Parts
    <3>3. r = s
      BY <2>3, <3>1, <3>2 DEF OfOne
    <3>4. store'[r] \o batch' = batch'
      BY <2>1, <2>3, <2>4, <3>3, ConcatEmptySeq
    <3>5. r \in list' \ todo' /\ OfOne(batch', r) /\ Whole(store'[r] \o batch')
      BY <2>1, <2>2, <2>3, <3>3, <3>4
    <3> QED BY <3>5 DEF Seeding, OfOne, Whole, Consecutive
  <2>9. \A r \in Symbols : Settled(r)'
    <3>1. \A r \in Symbols : Settled(r)
      BY <2>2 DEF Series, Filling
    <3> QED BY <2>1, <3>1 DEF Settled, Whole, Consecutive
  <2> QED BY <2>5, <2>6, <2>7, <2>8, <2>9 DEF Series
<1> QED BY <1>1, <1>2

LEMMA SeedSteps ==
  ASSUME FeedAssumption, FeedTypes, Phased, Answered, Series, NothingCarriedOver, Seeds
  PROVE  Phased' /\ Answered' /\ Series' /\ NothingCarriedOver'
<1> DEFINE s == Head(batch).sym
<1>1. /\ s \in list \ todo /\ OfOne(batch, s) /\ s \in Symbols
      /\ batch \in Seq(Candles) /\ batch # <<>> /\ batch' = Tail(batch)
      /\ store'[s] \in Seq(Candles)
      /\ store'[s] \o batch' = store[s] \o batch /\ Whole(store[s] \o batch)
      /\ \A r \in Symbols \ {s} : store'[r] = store[r]
  BY SeedsOne
<1>2. UNCHANGED <<phase, list, todo, answer>>
  BY DEF Seeds
<1>3. phase = "backfill" /\ answer = <<>>
  BY <1>1 DEF Phased
<1>4. \A r \in Symbols \ {s} : Settled(r)
  BY DEF Series, Filling
<1> HIDE DEF s
<1>5. Phased' /\ Answered'
  BY <1>2, <1>3 DEF Phased, Answered
<1>6. NothingCarriedOver'
  BY <1>1, <1>2, <1>3 DEF NothingCarriedOver
<1>7. OfOne(batch', s) /\ (batch' # <<>> => Head(batch').sym = s)
  <2>1. /\ batch' \in Seq(Candles) /\ Len(batch') = Len(batch) - 1 /\ Len(batch) \in Nat
        /\ \A i \in 1 .. Len(batch) - 1 : batch'[i] = batch[i + 1] /\ i + 1 \in 1 .. Len(batch)
    BY <1>1, Rest, Parts
  <2>2. OfOne(batch', s)
    BY <1>1, <2>1 DEF OfOne
  <2>3. batch' # <<>> => Head(batch') = batch'[1] /\ 1 \in 1 .. Len(batch')
    BY <2>1, Rest, Parts
  <2> QED BY <2>2, <2>3 DEF OfOne
<1>8. ASSUME NEW r \in Symbols, Filling(r)'
      PROVE  Seeding(r)'
  <2>1. r = s
    BY <1>7, <1>8 DEF Filling
  <2>2. r \in list' \ todo' /\ OfOne(batch', r) /\ Whole(store'[r] \o batch')
    BY <1>1, <1>2, <1>7, <2>1
  <2> QED BY <2>2 DEF Seeding, OfOne, Whole, Consecutive
<1>9. ASSUME NEW r \in Symbols, ~Filling(r)'
      PROVE  Settled(r)'
  <2>1. CASE r = s
    <3>1. batch' = <<>>
      BY <1>7, <1>9, <2>1 DEF Filling
    <3>2. store'[s] \o batch' = store'[s]
      BY <1>1, <3>1, ConcatEmptySeq
    <3>3. Whole(store'[r])
      BY <1>1, <2>1, <3>2
    <3> QED BY <3>3 DEF Settled, Whole, Consecutive
  <2>2. CASE r # s
    <3>1. store'[r] = store[r] /\ Settled(r)
      BY <1>1, <1>4, <2>2
    <3> QED BY <3>1 DEF Settled, Whole, Consecutive
  <2> QED BY <2>1, <2>2
<1> QED BY <1>5, <1>6, <1>8, <1>9 DEF Series

LEMMA WindowSteps ==
  ASSUME FeedAssumption, FeedTypes, Phased, Answered, Series, NothingCarriedOver,
         \/ \E watched \in SUBSET Symbols : WindowOpens(watched)
         \/ Subscribes \/ SubscribeSent \/ Unsubscribes \/ UnsubscribeSent
  PROVE  Phased' /\ Answered' /\ Series' /\ NothingCarriedOver'
<1>1. ASSUME NEW watched \in SUBSET Symbols, WindowOpens(watched)
      PROVE  Phased' /\ Answered' /\ Series' /\ NothingCarriedOver'
  <2>1. /\ phase = "idle" /\ phase' = "backfill" /\ list' = watched /\ todo' = watched
        /\ UNCHANGED <<answer, batch, store>>
    BY <1>1 DEF WindowOpens
  <2>2. list = {} /\ answer = <<>> /\ batch = <<>>
    BY <2>1 DEF Phased
  <2>3. Phased'
    BY <2>1, <2>2 DEF Phased
  <2>4. NothingCarriedOver'
    BY <2>1, <2>2 DEF NothingCarriedOver
  <2> QED BY <2>1, <2>2, <2>3, <2>4, StoreAside
<1>2. CASE Subscribes \/ SubscribeSent \/ Unsubscribes \/ UnsubscribeSent
  <2>1. UNCHANGED <<list, answer, batch, store>> /\ todo' \subseteq list /\ phase' # "idle"
    BY <1>2 DEF Subscribes, SubscribeSent, Unsubscribes, UnsubscribeSent, Phased
  <2>2. answer = <<>> /\ batch = <<>> /\ phase' # "backfill"
    BY <1>2 DEF Subscribes, SubscribeSent, Unsubscribes, UnsubscribeSent, Phased
  <2>3. phase' \in {"close", "purge"} => todo' = list
    BY <1>2 DEF Subscribes, SubscribeSent, Unsubscribes, UnsubscribeSent, Phased
  <2>4. Phased'
    BY <2>1, <2>2, <2>3 DEF Phased
  <2>5. NothingCarriedOver'
    BY <2>1, <2>2, <2>3 DEF NothingCarriedOver
  <2> QED BY <2>1, <2>2, <2>4, <2>5, StoreAside
<1> QED BY <1>1, <1>2

LEMMA PurgeSteps ==
  ASSUME FeedAssumption, FeedTypes, Phased, Answered, Series, NothingCarriedOver,
         NEW s \in Symbols, Purges(s)
  PROVE  Phased' /\ Answered' /\ Series' /\ NothingCarriedOver'
<1>1. /\ phase = "purge" /\ store' = [store EXCEPT ![s] = <<>>] /\ todo' = todo \ {s}
      /\ UNCHANGED <<answer, batch>>
      /\ \/ todo' = {} /\ phase' = "idle" /\ list' = {}
         \/ todo' # {} /\ UNCHANGED <<phase, list>>
  BY DEF Purges
<1>2. answer = <<>> /\ batch = <<>> /\ todo \subseteq list
  BY <1>1 DEF Phased
<1>3. store \in [Symbols -> Seq(Candles)]
  BY DEF FeedTypes, TypeOK
<1>4. store'[s] = <<>> /\ \A r \in Symbols \ {s} : store'[r] = store[r]
  BY <1>1, <1>3
<1>5. Phased'
  BY <1>1, <1>2 DEF Phased
<1>6. Answered'
  BY <1>1, <1>2 DEF Answered
<1>7. NothingCarriedOver'
  BY <1>1, <1>4 DEF NothingCarriedOver
<1>8. Series'
  <2>1. \A r \in Symbols : Settled(r) /\ ~Filling(r)'
    BY <1>1, <1>2 DEF Series, Filling
  <2>2. \A r \in Symbols : Settled(r)'
    <3> TAKE r \in Symbols
    <3>1. store'[r] = <<>> \/ (store'[r] = store[r] /\ Settled(r))
      BY <1>4, <2>1
    <3> QED BY <3>1 DEF Settled, Whole, Consecutive
  <2> QED BY <2>1, <2>2 DEF Series
<1> QED BY <1>5, <1>6, <1>7, <1>8

-----------------------------------------------------------------------------
(* The invariant.                                                          *)

LEMMA InitFeed ==
  ASSUME FeedAssumption, Init
  PROVE  FInv
<1>1. <<>> \in Seq(Candles) /\ <<>> \in Seq(Frames) /\ <<>> \in Seq(Messages) /\ Len(<<>>) = 0
  OBVIOUS
<1>2. {FetchLimit, MaxSeries, MaxFailures, ChanCap} \subseteq Nat \ {0}
  BY DEF FeedAssumption
<1>3. FeedTypes
  <2>1. store \in [Symbols -> Seq(Candles)] /\ \A s \in Symbols : Len(store[s]) <= MaxSeries
    BY <1>1, <1>2 DEF Init
  <2>2. kill = FALSE /\ run = "dial"
    BY DEF Init
  <2>3. (run = "stopped") = kill /\ (kill => kind # "data") /\ kill \in BOOLEAN
    BY <2>2, Zenon
  <2>4. readCh \in Seq(Messages) /\ Len(readCh) <= ChanCap + 1
    BY <1>1, <1>2 DEF Init
  <2> QED BY <1>1, <1>2, <2>1, <2>3, <2>4 DEF Init, FeedTypes, TypeOK
<1>4. Phased /\ Answered
  BY DEF Init, Phased, Answered
<1>5. Series
  BY DEF Init, Series, Filling, Settled
<1>6. NothingCarriedOver
  BY DEF Init, NothingCarriedOver
<1> QED BY <1>3, <1>4, <1>5, <1>6 DEF FInv

LEMMA NextFeed ==
  ASSUME FeedAssumption, FInv, [Next]_vars
  PROVE  FInv'
<1>0. FeedTypes /\ Phased /\ Answered /\ Series /\ NothingCarriedOver
  BY DEF FInv
<1>1. CASE Connection \/ Environment
  <2>1. FeedTypes'
    BY <1>0, <1>1, ConnectionTypes, EnvironmentTypes
  <2>2. UNCHANGED <<managerVars, store>>
    BY <1>1, OthersAside
  <2> QED BY <1>0, <2>1, <2>2, Aside DEF FInv
<1>2. CASE Manager
  <2>1. FeedTypes'
    BY <1>0, <1>2, ManagerTypes
  <2>2. Phased' /\ Answered' /\ Series' /\ NothingCarriedOver'
    BY <1>0, <1>2, FetchSteps, SeedSteps, WindowSteps, PurgeSteps DEF Manager
  <2> QED BY <2>1, <2>2 DEF FInv
<1>3. CASE UNCHANGED vars
  <2>1. UNCHANGED <<kind, run, conn, subs, copied, failures, kill, server, wire, readCh, phase, list,
                    todo, answer, batch, windows, store, now, faults, row>>
    BY <1>3 DEF vars, connVars, managerVars
  <2>2. FeedTypes'
    BY <1>0, <2>1 DEF FeedTypes, TypeOK
  <2> QED BY <1>0, <1>3, <2>2, Aside DEF FInv, vars
<1> QED BY <1>1, <1>2, <1>3 DEF Next

LEMMA FeedInvariant == Spec => []FInv
  BY FeedAssumption, InitFeed, NextFeed, PTL DEF Spec

\* TypeOK holds: every series stays within its limit, readCh within its
\* capacity and the one message its reader waits with, and Run has stopped
\* exactly when it has set the kill switch, which the window's connection never
\* does (binance_ws.go:75-104, :142-154, candle_store.go:30-44).
THEOREM FeedTypeCorrect == Spec => []TypeOK
<1>1. FInv => TypeOK
  BY DEF FInv, FeedTypes
<1> QED BY <1>1, FeedInvariant, PTL

\* NothingCarriedOver holds: before its backfill, from its purge on and
\* while it is not watched a symbol has no candles, whatever messages of an
\* earlier window are still handled (websocket.go:50-69).
THEOREM WindowsStartClean == Spec => []NothingCarriedOver
<1>1. FInv => NothingCarriedOver
  BY DEF FInv
<1> QED BY <1>1, FeedInvariant, PTL

-----------------------------------------------------------------------------
(* What a reader sees.                                                     *)

\* The last candles of a series without a gap are one.
LEMMA ViewIs ==
  ASSUME FeedAssumption, NEW q \in Seq(Candles), Consecutive(q)
  PROVE  Consecutive(Get(q, GetLimit))
<1> DEFINE l == Len(q)
           a == l + 1 - GetLimit
           v == SubSeq(q, a, l)
<1>1. GetLimit \in Nat \ {0} /\ l \in Nat
  BY Parts DEF FeedAssumption
<1>2. CASE l <= GetLimit
  BY <1>2 DEF Get
<1>3. CASE ~(l <= GetLimit)
  <2>1. Get(q, GetLimit) = v
    BY <1>3 DEF Get
  <2>2. a \in Int /\ l \in Int /\ a <= l /\ l - a + 1 = GetLimit /\ a \in 1 .. l
    BY <1>1, <1>3
  <2>3. \A i \in a .. l : q[i] \in Candles
    <3>1. \A i \in a .. l : i \in 1 .. Len(q)
      BY <1>1, <2>2
    <3> QED BY <3>1, Parts
  <2> HIDE DEF a, l
  <2>4. Len(v) = GetLimit /\ \A i \in 1 .. GetLimit : v[i] = q[a + i - 1]
    <3>1. /\ Len(v) = IF a <= l THEN l - a + 1 ELSE 0
          /\ \A i \in 1 .. l - a + 1 : v[i] = q[a + i - 1]
      BY ONLY <2>2, <2>3, SubSeqProperties
    <3> QED BY <2>2, <3>1
  <2> HIDE DEF v
  <2>5. ASSUME NEW i \in 1 .. Len(v) - 1
        PROVE  v[i].final /\ v[i + 1].t = v[i].t + 1
    <3>1. /\ i \in 1 .. GetLimit /\ i + 1 \in 1 .. GetLimit
          /\ a + i - 1 \in 1 .. l - 1 /\ a + (i + 1) - 1 = (a + i - 1) + 1
      <4>1. i \in 1 .. GetLimit - 1
        BY <2>4
      <4> QED BY ONLY <1>1, <2>2, <4>1
    <3>2. v[i] = q[a + i - 1] /\ v[i + 1] = q[(a + i - 1) + 1]
      BY <2>4, <3>1
    <3>3. \A j \in 1 .. l - 1 : q[j].final /\ q[j + 1].t = q[j].t + 1
      BY DEF Consecutive, l
    <3> QED BY <3>1, <3>2, <3>3
  <2> QED BY <2>1, <2>5 DEF Consecutive
<1> QED BY <1>2, <1>3

\* SeriesOrdered holds: whenever it looks, and with whatever limit, a reader is
\* given candles in order and without a gap, closed ones before the last;
\* outside the backfill, those of one fetch or none (candle_store.go:30-63,
\* binance_client.go:322-343).
THEOREM ReadersSeeOrder == Spec => []SeriesOrdered
<1>1. ASSUME FInv, NEW s \in Symbols
      PROVE  /\ \A i \in 1 .. Len(View(s)) - 1 :
                  View(s)[i].final /\ View(s)[i + 1].t = View(s)[i].t + 1
             /\ phase # "backfill" => Len(store[s]) \in {0, FetchLimit - 1, FetchLimit}
  <2>1. FeedTypes /\ Phased /\ Series
    BY <1>1 DEF FInv
  <2>2. store[s] \in Seq(Candles) /\ batch \in Seq(Candles)
    BY <2>1 DEF FeedTypes, TypeOK
  <2>3. Consecutive(store[s])
    <3>1. CASE Filling(s)
      BY <2>1, <2>2, <3>1, FirstOnes DEF Series, Seeding, Whole
    <3>2. CASE ~Filling(s)
      <4>1. store[s] = <<>> \/ Consecutive(store[s])
        BY <2>1, <3>2 DEF Series, Settled, Whole
      <4>2. CASE store[s] = <<>>
        BY <4>2 DEF Consecutive
      <4> QED BY <4>1, <4>2
    <3> QED BY <3>1, <3>2
  <2>4. Consecutive(View(s))
    BY <2>2, <2>3, FeedAssumption, ViewIs DEF View
  <2>5. phase # "backfill" => Settled(s)
    BY <2>1 DEF Phased, Series, Filling
  <2>6. Settled(s) => Len(store[s]) \in {0, FetchLimit - 1, FetchLimit}
    BY DEF Settled, Whole
  <2> QED BY <2>4, <2>5, <2>6 DEF Consecutive
<1>2. FInv => SeriesOrdered
  BY <1>1 DEF SeriesOrdered
<1> QED BY <1>2, FeedInvariant, PTL
=============================================================================
