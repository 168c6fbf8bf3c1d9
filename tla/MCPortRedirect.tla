--------------------------- MODULE MCPortRedirect ---------------------------
(***************************************************************************)
(* Small instances of PortRedirect: two helpers and one cutover script.    *)
(* The tables at the beginning are an empty host's, one with the previous  *)
(* redirects, one with all or half of the owned ones, and two that a       *)
(* helper has to refuse.                                                   *)
(***************************************************************************)
EXTENDS PortRedirect

CONSTANTS h1, h2, script, A, B

MCRendered == [p \in Proc |-> IF p = h2 THEN {A, B} ELSE {A}]

Redirects(d) ==
    {[chain |-> s[1], ports |-> {s[2]}, by |-> d, handle |-> Index(s)] : s \in Slot}
Half(d) == {r \in Redirects(d) : r.chain = "OUTPUT"}
Both(b) == [c \in Chain |-> b]

MCBoot ==
    {[rules |-> {}, base |-> Both("none"), competing |-> FALSE],
     [rules |-> {}, base |-> [c \in Chain |-> IF c = "OUTPUT" THEN "other" ELSE "nat"],
      competing |-> FALSE],
     [rules |-> Redirects(A), base |-> Both("nat"), competing |-> TRUE]}
    \cup {[rules |-> rs, base |-> Both("nat"), competing |-> FALSE] :
             rs \in {Redirects("plain"), Redirects(A), Half(A)}}
=============================================================================
