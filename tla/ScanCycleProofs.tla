--------------------------- MODULE ScanCycleProofs ---------------------------
(***************************************************************************)
(* The LLM never reconsiders a symbol it decided to open in the cycle, for *)
(* every set of symbols and all durations that CooldownsReachSettlement    *)
(* admits.  SInv is the inductive invariant: what was proposed is on       *)
(* cooldown up to the settlement, the reads of a scan are over before it,  *)
(* and so nobody proposed is among its candidates.                         *)
(***************************************************************************)
EXTENDS ScanCycle, TLAPS

\* What was proposed was so behind the early gate, and rests until T.
RestsUntilSettlement ==
  \A s \in Symbols : proposals[s] # 0 =>
    /\ Settlement - now <= EarlyGate
    /\ now < Settlement => cooldown[s] >= Settlement

\* The reads of a scan are made before T.
ReadsInTime == pc \in {"begun", "free"} => now < Settlement

\* A late label was given late, and the LLM is asked behind the gate.
LabelIsTrue ==
  /\ pc # "idle" /\ label = "LAST_MINUTE" => Settlement - now <= Late
  /\ pc = "asked" => Settlement - now <= EarlyGate

\* Past the reads nobody proposed is left.
NobodyProposed ==
  /\ pc = "filtered" => \A s \in cand : proposals[s] = 0
  /\ pc = "asked" => \A s \in top : proposals[s] = 0

\* An intent is queued for a proposal only.
QueuedIsProposed == \A s \in queue : proposals[s] # 0

SInv ==
  /\ TypeOK
  /\ RestsUntilSettlement /\ ReadsInTime /\ LabelIsTrue
  /\ NobodyProposed /\ QueuedIsProposed

LEMMA InitSInv == ASSUME Init PROVE SInv
<1> USE ConstantsAssumption DEF Init, Nobody
<1>1. TypeOK
  BY DEF TypeOK, Windows, Ages
<1>2. RestsUntilSettlement /\ ReadsInTime /\ LabelIsTrue
  BY DEF RestsUntilSettlement, ReadsInTime, LabelIsTrue
<1>3. NobodyProposed /\ QueuedIsProposed
  BY DEF NobodyProposed, QueuedIsProposed
<1> QED BY <1>1, <1>2, <1>3 DEF SInv

-----------------------------------------------------------------------------
(* The clock.                                                              *)

LEMMA PassesSInv == ASSUME SInv, Passes PROVE SInv'
<1> USE ConstantsAssumption, CooldownsReachSettlement
    DEF SInv, Passes, scanVars, inputs, bookVars
<1>1. TypeOK'
  BY DEF TypeOK
<1>2. RestsUntilSettlement'
  <2> SUFFICES ASSUME NEW s \in Symbols, proposals[s] # 0
               PROVE  /\ Settlement - now' <= EarlyGate
                      /\ now' < Settlement => cooldown'[s] >= Settlement
    BY DEF RestsUntilSettlement
  <2>1. Settlement - now <= EarlyGate /\ (now < Settlement => cooldown[s] >= Settlement)
    BY DEF RestsUntilSettlement
  <2>2. now \in Nat /\ now' = now + 1 /\ cooldown[s] \in Nat
    BY DEF TypeOK
  <2>3. cooldown'[s] = IF cooldown[s] > now + 1 THEN cooldown[s] ELSE 0
    BY DEF TypeOK
  <2> QED BY <2>1, <2>2, <2>3
<1>3. ReadsInTime' /\ LabelIsTrue'
  BY DEF ReadsInTime, LabelIsTrue, TypeOK
<1>4. NobodyProposed' /\ QueuedIsProposed'
  BY DEF NobodyProposed, QueuedIsProposed
<1> QED BY <1>1, <1>2, <1>3, <1>4

LEMMA HoursPassSInv == ASSUME SInv, HoursPass PROVE SInv'
<1> USE ConstantsAssumption DEF SInv, HoursPass, inputs, Nobody
<1>1. TypeOK'
  BY DEF TypeOK, Ages
<1>2. RestsUntilSettlement' /\ ReadsInTime' /\ LabelIsTrue'
  BY DEF RestsUntilSettlement, ReadsInTime, LabelIsTrue
<1>3. NobodyProposed' /\ QueuedIsProposed'
  BY DEF NobodyProposed, QueuedIsProposed
<1> QED BY <1>1, <1>2, <1>3

-----------------------------------------------------------------------------
(* The scan.                                                               *)

LEMMA BeforeAskingSInv ==
  ASSUME SInv, ScanBegins \/ OccupiedRead \/ CooldownsRead \/ GivesUp
  PROVE  SInv'
<1> USE ConstantsAssumption DEF SInv, bookVars
<1>1. CASE ScanBegins
  <2>1. TypeOK'
    BY <1>1 DEF ScanBegins, TypeOK, WindowOf, Windows
  <2>2. RestsUntilSettlement' /\ NobodyProposed' /\ QueuedIsProposed'
    BY <1>1 DEF ScanBegins, RestsUntilSettlement, NobodyProposed, QueuedIsProposed
  <2>3. ReadsInTime'
    BY <1>1 DEF ScanBegins, ReadsInTime, TypeOK
  <2>4. LabelIsTrue'
    BY <1>1 DEF ScanBegins, LabelIsTrue, WindowOf, TypeOK
  <2> QED BY <2>1, <2>2, <2>3, <2>4
<1>2. CASE OccupiedRead
  BY <1>2 DEF OccupiedRead, TypeOK, RestsUntilSettlement, ReadsInTime, LabelIsTrue,
     NobodyProposed, QueuedIsProposed
<1>3. CASE CooldownsRead
  <2>1. \A s \in cand' : proposals[s] = 0
    <3> SUFFICES ASSUME NEW s \in cand, cooldown[s] = 0, proposals[s] # 0
                 PROVE  FALSE
      BY <1>3 DEF CooldownsRead, Rested
    <3>1. now < Settlement
      BY <1>3 DEF CooldownsRead, ReadsInTime
    <3>2. cooldown[s] >= Settlement
      BY <3>1 DEF RestsUntilSettlement, TypeOK
    <3> QED BY <3>1, <3>2 DEF TypeOK
  <2>2. TypeOK'
    BY <1>3 DEF CooldownsRead, Rested, TypeOK
  <2>3. RestsUntilSettlement' /\ ReadsInTime' /\ LabelIsTrue' /\ QueuedIsProposed'
    BY <1>3 DEF CooldownsRead, RestsUntilSettlement, ReadsInTime, LabelIsTrue,
       QueuedIsProposed
  <2>4. NobodyProposed'
    BY <1>3, <2>1 DEF CooldownsRead, NobodyProposed
  <2> QED BY <2>2, <2>3, <2>4
<1>4. CASE GivesUp
  BY <1>4 DEF GivesUp, Rests, TypeOK, RestsUntilSettlement, ReadsInTime, LabelIsTrue,
     NobodyProposed, QueuedIsProposed
<1> QED BY <1>1, <1>2, <1>3, <1>4

LEMMA AsksSInv == ASSUME SInv, Asks PROVE SInv'
<1> USE ConstantsAssumption DEF SInv, bookVars
<1>1. top' \subseteq cand /\ first' \in top'
  BY DEF Asks
<1>2. Settlement - now <= EarlyGate
  <2>1. CASE label = "FRONTRUN"
    BY <2>1 DEF Asks, GateOpen
  <2>2. CASE label = "LAST_MINUTE"
    BY <2>2, CooldownsReachSettlement DEF Asks, LabelIsTrue, TypeOK
  <2> QED BY <2>1, <2>2 DEF TypeOK, Windows
<1>3. /\ pc = "filtered" /\ pc' = "asked" /\ cand' = {}
      /\ UNCHANGED <<now, label, cooldown, queue, positions, closing, proposals>>
  BY DEF Asks
<1>4. TypeOK'
  BY <1>1, <1>3 DEF TypeOK
<1>5. RestsUntilSettlement' /\ ReadsInTime' /\ LabelIsTrue'
  BY <1>2, <1>3 DEF RestsUntilSettlement, ReadsInTime, LabelIsTrue
<1>6. NobodyProposed' /\ QueuedIsProposed'
  BY <1>1, <1>3 DEF NobodyProposed, QueuedIsProposed
<1> QED BY <1>4, <1>5, <1>6

LEMMA SkipsSInv == ASSUME SInv, Skips PROVE SInv'
<1> USE ConstantsAssumption DEF SInv
<1>1. /\ pc = "asked" /\ pc' = "idle" /\ cand' = {} /\ top' = {} /\ first' = NoSymbol
      /\ cooldown' = [s \in Symbols |-> IF s \in top THEN SkipExpiry ELSE cooldown[s]]
      /\ queue' \subseteq queue
      /\ UNCHANGED <<now, label, positions, closing, proposals>>
  BY DEF Skips, Rests
<1>2. SkipExpiry \in Nat /\ SkipExpiry > now
  BY DEF SkipExpiry, Later, TypeOK
<1>3. TypeOK'
  BY <1>1, <1>2 DEF TypeOK
<1>4. RestsUntilSettlement'
  BY <1>1 DEF RestsUntilSettlement, NobodyProposed
<1>5. ReadsInTime' /\ LabelIsTrue' /\ NobodyProposed' /\ QueuedIsProposed'
  BY <1>1 DEF ReadsInTime, LabelIsTrue, NobodyProposed, QueuedIsProposed
<1> QED BY <1>3, <1>4, <1>5

LEMMA ProposesSInv ==
  ASSUME SInv, NEW s \in Symbols, NEW sized \in BOOLEAN, Proposes(s, sized)
  PROVE  SInv'
<1> USE ConstantsAssumption DEF SInv
<1>1. /\ pc = "asked" /\ pc' = "idle" /\ cand' = {} /\ top' = {} /\ first' = NoSymbol
      /\ cooldown' = [cooldown EXCEPT ![s] = OpenExpiry]
      /\ queue' \subseteq queue \cup {s}
      /\ proposals' = [proposals EXCEPT ![s] = @ + 1]
      /\ UNCHANGED <<now, label, positions, closing>>
  BY DEF Proposes, Rests
<1>2. OpenExpiry \in Nat /\ OpenExpiry > now /\ Settlement - now <= EarlyGate
  BY <1>1 DEF OpenExpiry, LabelIsTrue, TypeOK
<1>3. OpenExpiry >= Settlement
  BY <1>2, CooldownsReachSettlement DEF OpenExpiry, TypeOK
<1>4. TypeOK'
  BY <1>1, <1>2 DEF TypeOK
<1>5. RestsUntilSettlement'
  BY <1>1, <1>2, <1>3 DEF RestsUntilSettlement, TypeOK
<1>6. ReadsInTime' /\ LabelIsTrue' /\ NobodyProposed'
  BY <1>1 DEF ReadsInTime, LabelIsTrue, NobodyProposed
<1>7. QueuedIsProposed'
  BY <1>1 DEF QueuedIsProposed, TypeOK
<1> QED BY <1>4, <1>5, <1>6, <1>7

-----------------------------------------------------------------------------
(* The other goroutines.                                                   *)

LEMMA OthersSInv == ASSUME SInv, Others PROVE SInv'
<1> USE ConstantsAssumption DEF SInv, scanVars, inputs, bookVars
<1>1. ASSUME NEW s \in Symbols, NEW opened \in BOOLEAN, Executed(s, opened)
      PROVE  SInv'
  <2>1. positions' \in [Symbols -> Ages]
    BY <1>1 DEF Executed, TypeOK, Ages
  <2>2. TypeOK'
    BY <1>1, <2>1 DEF Executed, TypeOK
  <2> QED BY <1>1, <2>2 DEF Executed, RestsUntilSettlement, ReadsInTime, LabelIsTrue,
             NobodyProposed, QueuedIsProposed
<1>2. ASSUME NEW s \in Symbols, Closes(s)
      PROVE  SInv'
  <2>1. TypeOK'
    BY <1>2 DEF Closes, TypeOK, Ages
  <2> QED BY <1>2, <2>1 DEF Closes, RestsUntilSettlement, ReadsInTime, LabelIsTrue,
             NobodyProposed, QueuedIsProposed
<1>3. ASSUME NEW s \in Symbols, ClosedSets(s)
      PROVE  SInv'
  <2>1. TypeOK'
    BY <1>3 DEF ClosedSets, TypeOK
  <2>2. RestsUntilSettlement'
    BY <1>3, CooldownsReachSettlement DEF ClosedSets, RestsUntilSettlement, TypeOK
  <2> QED BY <1>3, <2>1, <2>2 DEF ClosedSets, ReadsInTime, LabelIsTrue,
             NobodyProposed, QueuedIsProposed
<1>4. CASE Restarts
  BY <1>4 DEF Restarts, Rests, TypeOK, RestsUntilSettlement, ReadsInTime, LabelIsTrue,
     NobodyProposed, QueuedIsProposed
<1> QED BY <1>1, <1>2, <1>3, <1>4 DEF Others

LEMMA NextSInv == ASSUME SInv, [Next]_vars PROVE SInv'
<1>1. CASE UNCHANGED vars
  BY <1>1 DEF vars, scanVars, inputs, bookVars, SInv, TypeOK, RestsUntilSettlement,
     ReadsInTime, LabelIsTrue, NobodyProposed, QueuedIsProposed
<1>2. CASE Scan
  BY <1>2, BeforeAskingSInv, AsksSInv, SkipsSInv, ProposesSInv DEF Scan
<1> QED BY <1>1, <1>2, PassesSInv, HoursPassSInv, OthersSInv DEF Next

-----------------------------------------------------------------------------

\* Every variable keeps its type; no cooldown outlives its expiry.
THEOREM ScanTypeCorrect == Spec => []TypeOK
<1>1. SInv => TypeOK
  BY DEF SInv
<1> QED BY <1>1, InitSInv, NextSInv, PTL DEF Spec

\* What was proposed is not asked about again in its cycle.
THEOREM ProposedOnce == Spec => []NeverReconsidered
<1>1. SInv => NeverReconsidered
  BY DEF SInv, NobodyProposed, QueuedIsProposed, NeverReconsidered
<1> QED BY <1>1, InitSInv, NextSInv, PTL DEF Spec

=============================================================================
