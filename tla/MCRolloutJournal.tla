--------------------------- MODULE MCRolloutJournal ---------------------------
(***************************************************************************)
(* Model checking of RolloutJournal: process instances that one after the  *)
(* other create, open, advance, crash and lose power, and two controllers  *)
(* with different plans that meet at one path.                             *)
(***************************************************************************)
EXTENDS RolloutJournal, FiniteSets, TLC

\* Instances and authorities are interchangeable.
Interchangeable == Permutations(Proc) \cup Permutations(Authority)
=============================================================================
