--------------------------- MODULE MCRolloutLease ---------------------------
(***************************************************************************)
(* A small instance of RolloutLease: three contenders, and a process that  *)
(* is started with the number of a once a is dead.                         *)
(***************************************************************************)
EXTENDS RolloutLease

CONSTANTS a, b, c, e

MCProc == {a, b, c, e}
ReusedPid == [p \in MCProc |-> IF p = e THEN a ELSE p]
=============================================================================
