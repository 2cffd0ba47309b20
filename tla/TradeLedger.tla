------------------------------ MODULE TradeLedger ------------------------------
(***************************************************************************)
(* What the position manager promises for a symbol, whatever orders it     *)
(* takes: an account of trades, one after the other.  Half of a trade is   *)
(* taken at its first target and the rest at the second, or its stop takes *)
(* what is left; the stop is moved to the entry price on the way.  When    *)
(* nothing is left the result is recorded, once, with the reason that      *)
(* these fills are, and only then is the next trade opened.                *)
(***************************************************************************)
EXTENDS Integers

CONSTANTS
  MaxTrades, (* bound: trades opened                                         *)
  Qty,       (* what a trade opens with                                      *)
  Half       (* what its first target takes                                  *)

VARIABLES
  current,   (* the last trade opened, 0 before the first                    *)
  left,      (* what is left of it                                           *)
  fills,     (* how it was reduced so far                                    *)
  moved,     (* its stop was moved to the entry price                        *)
  recorded,  (* results recorded, per trade                                  *)
  why        (* the reason of the last one                                   *)

ledgerVars == <<current, left, fills, moved, recorded, why>>

LedgerInit ==
  /\ current = 0 /\ left = 0 /\ fills = {} /\ moved = FALSE
  /\ recorded = [t \in 1 .. MaxTrades |-> 0]
  /\ why = [t \in 1 .. MaxTrades |-> "NONE"]

\* The first trade, or one after a trade with its result.
Opens ==
  /\ current < MaxTrades /\ left = 0
  /\ current > 0 => recorded[current] = 1
  /\ current' = current + 1 /\ left' = Qty /\ fills' = {} /\ moved' = FALSE
  /\ UNCHANGED <<recorded, why>>

Reduced(by, kind) ==
  /\ left' = left - by /\ fills' = fills \cup {kind}
  /\ UNCHANGED <<current, moved, recorded, why>>

TakesHalf == left = Qty /\ fills = {} /\ Reduced(Half, "TP1")
TakesRest == left = Qty - Half /\ fills = {"TP1"} /\ Reduced(Qty - Half, "TP2")
StopsOut  == left > 0 /\ fills \subseteq {"TP1"} /\ Reduced(left, "STOP")

\* The stop is moved once, and not after it has filled.
Moves ==
  /\ ~moved /\ "STOP" \notin fills /\ current > 0 /\ recorded[current] = 0
  /\ moved' = TRUE
  /\ UNCHANGED <<current, left, fills, recorded, why>>

\* What the fills of a trade amount to.
Reason ==
  CASE "TP2" \in fills -> "TP2"
    [] "STOP" \in fills /\ "TP1" \in fills -> "TP_TRAIL"
    [] "STOP" \in fills /\ "TP1" \notin fills /\ moved -> "BREAKEVEN_SL"
    [] OTHER -> "HARD_SL"

Records ==
  /\ left = 0 /\ current > 0 /\ recorded[current] = 0
  /\ recorded' = [recorded EXCEPT ![current] = 1]
  /\ why' = [why EXCEPT ![current] = Reason]
  /\ UNCHANGED <<current, left, fills, moved>>

LedgerNext ==
  \/ Opens \/ TakesHalf \/ TakesRest \/ StopsOut \/ Moves \/ Records

LedgerSpec == LedgerInit /\ [][LedgerNext]_ledgerVars
=============================================================================
