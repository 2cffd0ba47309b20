---------------------------- MODULE MCIntentQueue ----------------------------
(* IntentQueue on a small instance: two symbols that compete for the same  *)
(* window, two confidences, so that equal ones and a better latecomer both *)
(* occur, and three intents, one more than any window executes.            *)
EXTENDS IntentQueue

CONSTANTS s1, s2

MCSymbols == {s1, s2}
MCConfidences == {70, 80}
=============================================================================
