----------------------------- MODULE SerialStore -----------------------------
(***************************************************************************)
(* What the lock of src/token-store.js promises the mutations of the store *)
(* (tests: "twenty concurrent CLI token issues retain every digest", "an   *)
(* issue and revoke from pre-opened child processes merge under one        *)
(* lock"): one process at a time replaces the file; it adds its record to  *)
(* what the file holds and takes nothing away; and a process that is told  *)
(* of its success has its record in the file and has left the lock.        *)
(*                                                                         *)
(* TokenLock implements this with a directory, owner.json, .reap and       *)
(* tombstones; TokenStore is built on it.                                  *)
(***************************************************************************)
CONSTANTS Proc,    \* process instances, each with one issue or revoke
          NoProc

VARIABLES holder,  \* the process that may replace the file, or NoProc
          store,   \* whose records are in the file
          acked    \* the processes that were told of their success

serialVars == <<holder, store, acked>>

SerialInit ==
    /\ holder = NoProc
    /\ store = {}
    /\ acked = {}

Enter(p) ==
    /\ holder = NoProc
    /\ holder' = p
    /\ UNCHANGED <<store, acked>>

Write(p) ==
    /\ holder = p
    /\ store' = store \cup {p}
    /\ UNCHANGED <<holder, acked>>

\* By the release of the lock, by a failure or by death.
Leave(p) ==
    /\ holder = p
    /\ holder' = NoProc
    /\ UNCHANGED <<store, acked>>

Tell(p) ==
    /\ holder # p
    /\ p \in store
    /\ acked' = acked \cup {p}
    /\ UNCHANGED <<holder, store>>

SerialNext == \E p \in Proc : Enter(p) \/ Write(p) \/ Leave(p) \/ Tell(p)

SerialSpec == SerialInit /\ [][SerialNext]_serialVars
=============================================================================
