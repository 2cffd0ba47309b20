----------------------------- MODULE MCScanCycle -----------------------------
(* ScanCycle on a small instance: three symbols of which two are asked     *)
(* about, two scores and two trends, so that the inputs of a call both     *)
(* change and repeat, and durations in the code's order, the cooldowns     *)
(* exactly as long as the gate is early.                                   *)
EXTENDS ScanCycle, TLC

CONSTANTS s1, s2, s3

MCSymbols == {s1, s2, s3}
MCScores == {47, 60}
MCTrends == {"bullish", "bearish"}
Interchangeable == Permutations(MCSymbols)
=============================================================================
