----------------------------- MODULE MCGateway -----------------------------
(***************************************************************************)
(* Small instances of Gateway: requests that compete for one service.      *)
(***************************************************************************)
EXTENDS Gateway

CONSTANTS r1, r2, s1

MCServiceOf == [r \in Request |-> s1]
=============================================================================
