----------------------------- MODULE MCEntryGate -----------------------------
(* EntryGate on a small instance: one position allowed and four symbols,   *)
(* one more than the book can ever claim by admission; no loss allowed     *)
(* and one possible; scores below, between and above the two minima.       *)
EXTENDS EntryGate, TLC

CONSTANTS s1, s2, s3, s4

MCSymbols == {s1, s2, s3, s4}
MCScores == {40, 45, 50}
Interchangeable == Permutations(MCSymbols)
=============================================================================
