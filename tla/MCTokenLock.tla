---------------------------- MODULE MCTokenLock ----------------------------
(***************************************************************************)
(* Small instances of TokenLock.                                           *)
(***************************************************************************)
EXTENDS TokenLock, TLC

CONSTANTS p1, d1

\* The processes are alike but for p1, whose calls may fail.
Alike == Permutations(Proc \ {p1}) \cup Permutations(Inode)

\* What p1 has left where it died, as owner of the lock, as its reaper or as
\* both: a directory with either file missing, empty or complete.
AbandonedInit ==
    /\ dead = {p1}
    /\ pc = [p \in Proc |-> IF p = p1 THEN "failed" ELSE "start"]
    /\ after = [p \in Proc |-> "failed"]
    /\ made = [p \in Proc |-> NoDir]
    /\ seen = [p \in Proc |-> NoView]
    /\ lock = d1
    /\ alloc = {d1}
    /\ \E f, g \in {NoFile, Draft(p1), Full(p1)} :
          /\ owner = [d \in Inode |-> IF d = d1 THEN f ELSE NoFile]
          /\ mark = [d \in Inode |-> IF d = d1 THEN g ELSE NoFile]
    /\ old = FALSE
    /\ markOld = FALSE
    /\ tomb = [d \in Inode |-> NoDir]
    /\ base = [p \in Proc |-> {}]
    /\ store = {}
    /\ acked = {}

\* The first case of the test "orphaned stale and dead-owner locks recover
\* without weakening file mode": an empty directory.
OrphanedSpec ==
    AbandonedInit /\ Empty(d1) /\ [][Next]_vars /\ Fairness

AbandonedSpec == AbandonedInit /\ [][Next]_vars /\ Fairness
=============================================================================
