---------------------------- MODULE MCNpmRelease ----------------------------
(***************************************************************************)
(* Two clones, two versions after the first, three runs and two changes by *)
(* the users between them.                                                 *)
(***************************************************************************)
EXTENDS NpmRelease, TLC

CONSTANTS c1, c2
MCClone == {c1, c2}
CloneSymmetry == Permutations(MCClone)
=============================================================================
