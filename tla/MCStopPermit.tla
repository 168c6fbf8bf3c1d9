---------------------------- MODULE MCStopPermit ----------------------------
(***************************************************************************)
(* Model checking of StopPermit: two issuances and two consumptions of one *)
(* permit.                                                                 *)
(***************************************************************************)
EXTENDS StopPermit

CONSTANTS i1, i2, c1, c2, p

MCIssuer   == {i1, i2}
MCConsumer == {c1, c2}
OnePermit  == [c \in MCIssuer \cup MCConsumer |-> p]
=============================================================================
