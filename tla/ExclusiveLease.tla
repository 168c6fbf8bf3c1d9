--------------------------- MODULE ExclusiveLease ---------------------------
(***************************************************************************)
(* What the rollout lease promises its users (docs/rollout-safety.md,      *)
(* "Durable journal boundary"): an exclusive cross-process lease.  Process *)
(* instances start once and die once; at most one of them, alive, holds    *)
(* the lease; it keeps it until it gives it back or dies.                  *)
(*                                                                         *)
(* RolloutLease implements this promise with directories and link-once     *)
(* files; RolloutJournal is built on it.                                   *)
(***************************************************************************)
CONSTANTS Proc,   \* process instances: one pid with one start time each
          NoProc

ASSUME NoProcAssumption == NoProc \notin Proc

VARIABLES status,  \* status[p]: has the instance started, has it ended
          holder   \* the live instance that holds the lease, or NoProc

leaseVars == <<status, holder>>

Statuses == {"unborn", "live", "dead"}

LeaseTypeOK ==
    /\ status \in [Proc -> Statuses]
    /\ holder \in Proc \cup {NoProc}

LeaseInit ==
    /\ status = [p \in Proc |-> "unborn"]
    /\ holder = NoProc

Start(p) ==
    /\ status[p] = "unborn"
    /\ status' = [status EXCEPT ![p] = "live"]
    /\ UNCHANGED holder

Acquire(p) ==
    /\ status[p] = "live"
    /\ holder = NoProc
    /\ holder' = p
    /\ UNCHANGED status

Release(p) ==
    /\ holder = p
    /\ holder' = NoProc
    /\ UNCHANGED status

\* A dead instance runs no instruction any more, so it holds nothing.
Die(p) ==
    /\ status[p] = "live"
    /\ status' = [status EXCEPT ![p] = "dead"]
    /\ holder' = IF holder = p THEN NoProc ELSE holder

LeaseNext == \E p \in Proc : Start(p) \/ Acquire(p) \/ Release(p) \/ Die(p)

LeaseSpec == LeaseInit /\ [][LeaseNext]_leaseVars
=============================================================================
