--------------------------- MODULE MCTokenStore ---------------------------
(***************************************************************************)
(* Small instances of TokenStore: the gateway, whose instance verifies,    *)
(* and a command line.  The call named "own" revokes through the gateway's *)
(* instance, "ext" through the command line's.                             *)
(***************************************************************************)
EXTENDS TokenStore, TLC

CONSTANTS gateway, cli, old, new, v1, v2, v3, own, ext, issue

Calls == Permutations({v1, v2, v3})

MCAt == [c \in Verify \cup Mutation |-> IF c = ext THEN cli ELSE gateway]
MCOf == [c \in Verify \cup Mutation |-> IF c = issue THEN new ELSE old]
=============================================================================
