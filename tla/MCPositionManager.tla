-------------------------- MODULE MCPositionManager --------------------------
(* PositionManager on small instances: which of the loops without a lock    *)
(* take an interest in the position.                                       *)
EXTENDS PositionManager

LockedOnly == {}
BothLoops == {"preSettlement", "avoidance"}
=============================================================================
