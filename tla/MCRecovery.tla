----------------------------- MODULE MCRecovery -----------------------------
(* Recovery on small instances, without the loops that take no lock.       *)
EXTENDS Recovery

LockedOnly == {}
=============================================================================
