------------------------------ MODULE TokenLock ------------------------------
(***************************************************************************)
(* The lock of the token store (src/token-store.js: acquireLock, reapLock, *)
(* quarantineStaleLock, releaseLock) and what it is for: each mutation     *)
(* reads the store, adds its record and replaces the file.                 *)
(*                                                                         *)
(* The lock is a directory that holds owner.json; a contender that takes   *)
(* it for abandoned marks it with .reap and renames it to a tombstone that *)
(* is named after its inode and kept.  A step is one system call on these  *)
(* names; processes may be slow or die between any two, and calls may      *)
(* fail.                                                                   *)
(*                                                                         *)
(* Time is what the code makes of it: old and markOld say that the lock    *)
(* and its marker were last modified LOCK_STALE_MS ago.  If Prompt, no     *)
(* live process takes that long between making the lock and naming its     *)
(* owner, between creating a marker and writing it, or between the lstat   *)
(* of what it inspects and its look at the clock.  If Steady, nobody dies  *)
(* after it has taken its marker back and before those who have read the   *)
(* marker have looked whether it lives.                                    *)
(*                                                                         *)
(* Simplifications.  A process makes one mutation; all are on one Linux    *)
(* host, so that lockOwnerIsAlive is exact.  The store is the set of       *)
(* processes whose record it holds.                                        *)
(***************************************************************************)
EXTENDS FiniteSets

CONSTANTS Proc,      \* process instances, each with one issue or revoke
          NoProc,
          Inode,     \* inode numbers of directories
          NoDir,
          Mortal,    \* the processes that may die
          Flaky,     \* the processes whose system calls may fail
          Prompt,    \* is no live process slow where the age of the lock counts
          Reuse,     \* may an inode number that somebody has inspected be reused
          Steady,    \* does no reaper die where it counts that it lives
          Patient    \* does no process reach the deadline of acquireLock

ASSUME LockConstants ==
    /\ NoProc \notin Proc
    /\ NoDir \notin Inode
    /\ Mortal \subseteq Proc
    /\ Flaky \subseteq Proc
    /\ Prompt \in BOOLEAN
    /\ Reuse \in BOOLEAN
    /\ Steady \in BOOLEAN
    /\ Patient \in BOOLEAN

VARIABLES
    dead,     \* the processes that have died
    pc,       \* pc[p]: where p is
    after,    \* after[p]: where p goes on when what it cleans up is cleaned up
    made,     \* made[p]: the directory that p takes for the one it made
    seen,     \* seen[p]: what inspectLock has reported to p
    lock,     \* the directory the lock path names, or NoDir
    alloc,    \* the directories that exist
    owner,    \* owner[d]: the owner.json in d, or NoFile
    mark,     \* mark[d]: the .reap in d, or NoFile
    old,      \* is the directory at the path older than LOCK_STALE_MS
    markOld,  \* is its .reap
    tomb,     \* tomb[i]: the directory at the tombstone name of inode i, or NoDir
    base,     \* base[p]: the store as p has read it under the lock
    store,    \* the store: whose records are in the file
    acked     \* the processes that were told of their success

dirs == <<lock, alloc, owner, mark, old, markOld, tomb>>
data == <<base, store, acked>>
vars == <<dead, pc, after, made, seen, dirs, data>>

\* A file exists from its creation on and names its process once it is written.
File   == [by: Proc, full: BOOLEAN]
NoFile == [by |-> NoProc, full |-> FALSE]
Draft(p) == [by |-> p, full |-> FALSE]
Full(p)  == [by |-> p, full |-> TRUE]

\* What readLockOwner and readReapOwner make of a file: nobody, until written.
Named(f) == IF f.full THEN f.by ELSE NoProc

\* What is remembered of a lock: its inode, its age, its owner; then of a marker
\* that stands in the way its reaper and its age.
Seen   == [dir: Inode \cup {NoDir}, old: BOOLEAN, owner: Proc \cup {NoProc},
           mark: Proc \cup {NoProc}, markOld: BOOLEAN]
NoView == [dir |-> NoDir, old |-> FALSE, owner |-> NoProc,
           mark |-> NoProc, markOld |-> FALSE]

Holding == {"reload", "persist", "release", "relUnlink"}
Labels  == {"start", "mkdir", "stat", "openOwner", "writeOwner", "check", "clean",
            "cleanOwned", "cleanUnlink", "cleanRmdir", "inspect", "readOwner", "judge",
            "reapOpen", "reapWrite", "readMark", "judgeMark", "quarantine", "recheck",
            "rename", "unmark", "unlinkMark", "wait", "relRmdir", "done", "failed"}
           \cup Holding

Live(p) == p \notin dead
Empty(d) == owner[d] = NoFile /\ mark[d] = NoFile

\* lockOwnerIsAlive: no for a dead owner, yes for a live one, and null when the
\* file names nobody: then the age decides.
Abandoned(q, isOld) == q \in dead \/ (q = NoProc /\ (isOld \/ ~Prompt))
InUse(q, isOld) == q \notin dead /\ ~(q = NoProc /\ isOld)

Goto(p, label) == pc' = [pc EXCEPT ![p] = label]
Then(p, label, next) == Goto(p, label) /\ after' = [after EXCEPT ![p] = next]
KeepView == UNCHANGED <<dead, made, seen>>

\* A new or removed entry renews the modification time of a directory.
Touch == old' = FALSE

(***************************************************************************)
(* acquireLock: the path is free                                           *)
(***************************************************************************)
Begin(p) ==
    /\ pc[p] = "start"
    /\ Goto(p, "mkdir")
    /\ KeepView /\ UNCHANGED <<after, dirs, data>>

Reaping == {"readOwner", "judge", "reapOpen", "reapWrite", "readMark", "judgeMark",
            "quarantine", "recheck", "rename", "unmark", "unlinkMark"}
Inspected(d) == \E p \in Proc : Live(p) /\ pc[p] \in Reaping /\ seen[p].dir = d

Mkdir(p) ==
    /\ pc[p] = "mkdir"
    /\ IF lock = NoDir
       THEN \E d \in Inode \ alloc :
              /\ Reuse \/ ~Inspected(d)
              /\ lock' = d
              /\ alloc' = alloc \cup {d}
              /\ owner' = [owner EXCEPT ![d] = NoFile]
              /\ mark' = [mark EXCEPT ![d] = NoFile]
              /\ Touch
              /\ markOld' = FALSE
              /\ Goto(p, "stat")
       ELSE Goto(p, "inspect") /\ UNCHANGED <<lock, alloc, owner, mark, old, markOld>>
    /\ KeepView /\ UNCHANGED <<after, tomb, data>>

Stat(p) ==
    /\ pc[p] = "stat"
    /\ made' = [made EXCEPT ![p] = lock]
    /\ Goto(p, IF lock = NoDir THEN "failed" ELSE "openOwner")
    /\ UNCHANGED <<after, dead, seen, dirs, data>>

\* owner.json is created with O_EXCL.  EEXIST ends in a new look at the lock.
OpenOwner(p) ==
    /\ pc[p] = "openOwner"
    /\ IF lock # NoDir /\ owner[lock] = NoFile
       THEN /\ owner' = [owner EXCEPT ![lock] = Draft(p)]
            /\ Touch
            /\ Goto(p, "writeOwner")
            /\ UNCHANGED after
       ELSE /\ Then(p, "clean", IF lock = NoDir THEN "failed" ELSE "inspect")
            /\ UNCHANGED <<owner, old>>
    /\ KeepView /\ UNCHANGED <<lock, alloc, mark, markOld, tomb, data>>

\* The file is written wherever its directory has gone.
WriteOwner(p) ==
    /\ pc[p] = "writeOwner"
    /\ owner' = [d \in Inode |-> IF owner[d] = Draft(p) THEN Full(p) ELSE owner[d]]
    /\ Goto(p, "check")
    /\ KeepView /\ UNCHANGED <<after, lock, alloc, mark, old, markOld, tomb, data>>

OwnsLock(p) == lock # NoDir /\ lock = made[p] /\ owner[lock] = Full(p)

Check(p) ==
    /\ pc[p] = "check"
    /\ IF OwnsLock(p)
       THEN Goto(p, "reload") /\ UNCHANGED after
       ELSE Then(p, "cleanOwned", "failed")
    /\ KeepView /\ UNCHANGED <<dirs, data>>

(***************************************************************************)
(* cleanupCreatedLock                                                      *)
(***************************************************************************)
\* Mutant: the clean-up does not look whose lock it is.
CleanForces(p) ==
    /\ pc[p] = "clean"
    /\ Goto(p, "cleanUnlink")
    /\ KeepView /\ UNCHANGED <<after, dirs, data>>

\* owner.json was not written: the directory goes if it names no owner ...
Clean(p) ==
    /\ pc[p] = "clean"
    /\ Goto(p, IF lock # NoDir /\ lock = made[p] /\ Named(owner[lock]) = NoProc
               THEN "cleanRmdir" ELSE after[p])
    /\ KeepView /\ UNCHANGED <<after, dirs, data>>

\* ... or it was: both go if the owner is still this one.
CleanOwned(p) ==
    /\ pc[p] = "cleanOwned"
    /\ Goto(p, IF OwnsLock(p) THEN "cleanUnlink" ELSE after[p])
    /\ KeepView /\ UNCHANGED <<after, dirs, data>>

\* unlink of owner.json, by path, here and in releaseLock.
UnlinkOwner(p) ==
    /\ pc[p] \in {"cleanUnlink", "relUnlink"}
    /\ IF lock # NoDir /\ owner[lock] # NoFile
       THEN /\ owner' = [owner EXCEPT ![lock] = NoFile]
            /\ Touch
            /\ Goto(p, IF pc[p] = "relUnlink" THEN "relRmdir" ELSE "cleanRmdir")
       ELSE Goto(p, after[p]) /\ UNCHANGED <<owner, old>>
    /\ acked' = IF pc'[p] = "done" THEN acked \cup {p} ELSE acked
    /\ KeepView /\ UNCHANGED <<after, lock, alloc, mark, markOld, tomb, base, store>>

\* rmdir removes whatever empty directory the path names; failures are ignored.
RmdirLock(p) ==
    /\ pc[p] \in {"cleanRmdir", "relRmdir"}
    /\ IF lock # NoDir /\ Empty(lock)
       THEN lock' = NoDir /\ alloc' = alloc \ {lock} /\ Touch
       ELSE UNCHANGED <<lock, alloc, old>>
    /\ Goto(p, after[p])
    /\ acked' = IF after[p] = "done" THEN acked \cup {p} ELSE acked
    /\ KeepView /\ UNCHANGED <<after, owner, mark, markOld, tomb, base, store>>

(***************************************************************************)
(* acquireLock: the path exists                                            *)
(***************************************************************************)
\* inspectLock: lstat ...
Inspect(p) ==
    /\ pc[p] = "inspect"
    /\ IF lock = NoDir
       THEN Goto(p, "wait") /\ UNCHANGED seen
       ELSE /\ seen' = [seen EXCEPT ![p] = [NoView EXCEPT !.dir = lock,
                                                          !.old = old]]
            /\ Goto(p, "readOwner")
    /\ UNCHANGED <<after, dead, made, dirs, data>>

\* ... and readLockOwner, of whatever the path names by now.
ReadOwner(p) ==
    /\ pc[p] = "readOwner"
    /\ seen' = [seen EXCEPT ![p].owner = IF lock = NoDir THEN NoProc ELSE Named(owner[lock])]
    /\ Goto(p, "judge")
    /\ UNCHANGED <<after, dead, made, dirs, data>>

\* Mutant: the age of the directory decides, whether its owner lives or not.
JudgeByAge(p) ==
    /\ pc[p] = "judge"
    /\ Goto(p, IF seen[p].old THEN "reapOpen" ELSE "wait")
    /\ KeepView /\ UNCHANGED <<after, dirs, data>>

\* reapLock: is the lock abandoned?
Judge(p) ==
    /\ pc[p] = "judge"
    /\ \/ Abandoned(seen[p].owner, seen[p].old) /\ Goto(p, "reapOpen")
       \/ InUse(seen[p].owner, seen[p].old) /\ Goto(p, "wait")
    /\ KeepView /\ UNCHANGED <<after, dirs, data>>

\* .reap is created with O_EXCL.
ReapOpen(p) ==
    /\ pc[p] = "reapOpen"
    /\ IF lock # NoDir /\ mark[lock] = NoFile
       THEN /\ mark' = [mark EXCEPT ![lock] = Draft(p)]
            /\ Touch
            /\ markOld' = FALSE
            /\ Goto(p, "reapWrite")
       ELSE /\ Goto(p, IF lock = NoDir THEN "wait" ELSE "readMark")
            /\ UNCHANGED <<mark, old, markOld>>
    /\ KeepView /\ UNCHANGED <<after, lock, alloc, owner, tomb, data>>

ReapWrite(p) ==
    /\ pc[p] = "reapWrite"
    /\ mark' = [d \in Inode |-> IF mark[d] = Draft(p) THEN Full(p) ELSE mark[d]]
    /\ markOld' = (markOld /\ mark' = mark)
    /\ Goto(p, "quarantine")
    /\ KeepView /\ UNCHANGED <<after, lock, alloc, owner, old, tomb, data>>

\* readReapOwner, of a marker that is not one's own ...
ReadMark(p) ==
    /\ pc[p] = "readMark"
    /\ IF lock = NoDir \/ mark[lock] = NoFile
       THEN Goto(p, "wait") /\ UNCHANGED seen
       ELSE /\ seen' = [seen EXCEPT ![p].mark = Named(mark[lock]),
                                    ![p].markOld = markOld]
            /\ Goto(p, "judgeMark")
    /\ UNCHANGED <<after, dead, made, dirs, data>>

\* Mutant: no marker is ever disregarded.
JudgeMarkNever(p) ==
    /\ pc[p] = "judgeMark"
    /\ seen' = [seen EXCEPT ![p].mark = NoProc, ![p].markOld = FALSE]
    /\ Goto(p, "wait")
    /\ UNCHANGED <<after, dead, made, dirs, data>>

\* ... which stands in the way unless its reaper has abandoned it.
JudgeMark(p) ==
    /\ pc[p] = "judgeMark"
    /\ seen' = [seen EXCEPT ![p].mark = NoProc, ![p].markOld = FALSE]
    /\ \/ Abandoned(seen[p].mark, seen[p].markOld) /\ Goto(p, "quarantine")
       \/ InUse(seen[p].mark, seen[p].markOld) /\ Goto(p, "wait")
    /\ UNCHANGED <<after, dead, made, dirs, data>>

\* quarantineStaleLock: the directory is still the inspected one ...
Quarantine(p) ==
    /\ pc[p] = "quarantine"
    /\ IF lock # NoDir /\ lock = seen[p].dir
       THEN Goto(p, "recheck") /\ UNCHANGED after
       ELSE Then(p, "unmark", "wait")
    /\ KeepView /\ UNCHANGED <<dirs, data>>

\* ... its owner too ...
Recheck(p) ==
    /\ pc[p] = "recheck"
    /\ IF seen[p].owner = (IF lock = NoDir THEN NoProc ELSE Named(owner[lock]))
       THEN Goto(p, "rename") /\ UNCHANGED after
       ELSE Then(p, "unmark", "wait")
    /\ KeepView /\ UNCHANGED <<dirs, data>>

\* ... and whatever the path names moves to the tombstone of the inspected
\* inode, unless that exists and is not empty.
Rename(p) ==
    /\ pc[p] = "rename"
    /\ LET buried == tomb[seen[p].dir]
       IN IF lock # NoDir /\ (buried = NoDir \/ Empty(buried))
          THEN /\ lock' = NoDir /\ Touch /\ markOld' = FALSE
               /\ alloc' = alloc \ {buried}
               /\ tomb' = [tomb EXCEPT ![seen[p].dir] = lock]
               /\ Then(p, "unmark", IF lock = seen[p].dir THEN "mkdir" ELSE "failed")
          ELSE Then(p, "unmark", "wait") /\ UNCHANGED <<lock, alloc, old, markOld, tomb>>
    /\ KeepView /\ UNCHANGED <<owner, mark, data>>

\* The finally block of reapLock looks whether its marker is there and takes back
\* what is there.
Unmark(p) ==
    /\ pc[p] = "unmark"
    /\ Goto(p, IF lock # NoDir /\ mark[lock].by = p THEN "unlinkMark" ELSE after[p])
    /\ KeepView /\ UNCHANGED <<after, dirs, data>>

UnlinkMark(p) ==
    /\ pc[p] = "unlinkMark"
    /\ IF lock # NoDir /\ mark[lock] # NoFile
       THEN mark' = [mark EXCEPT ![lock] = NoFile] /\ Touch /\ markOld' = FALSE
       ELSE UNCHANGED <<mark, old, markOld>>
    /\ Goto(p, after[p])
    /\ KeepView /\ UNCHANGED <<after, lock, alloc, owner, tomb, data>>

\* A moment's delay and another round, or the deadline.
Wait(p) ==
    /\ pc[p] = "wait"
    /\ \/ Goto(p, "mkdir")
       \/ ~Patient /\ Goto(p, "failed")
    /\ KeepView /\ UNCHANGED <<after, dirs, data>>

(***************************************************************************)
(* mutate: reload, the operation with its persist, release                 *)
(***************************************************************************)
\* Mutant: a mutation starts from what the process has cached.
ReloadSkipped(p) ==
    /\ pc[p] = "reload"
    /\ Goto(p, "persist")
    /\ KeepView /\ UNCHANGED <<after, dirs, data>>

Reload(p) ==
    /\ pc[p] = "reload"
    /\ base' = [base EXCEPT ![p] = store]
    /\ Goto(p, "persist")
    /\ KeepView /\ UNCHANGED <<after, dirs, store, acked>>

Persist(p) ==
    /\ pc[p] = "persist"
    /\ store' = base[p] \cup {p}
    /\ Then(p, "release", "done")
    /\ KeepView /\ UNCHANGED <<dirs, base, acked>>

\* releaseLock leaves a lock that is not its own any more alone.
Release(p) ==
    /\ pc[p] = "release"
    /\ Goto(p, IF OwnsLock(p) THEN "relUnlink" ELSE after[p])
    /\ acked' = IF pc'[p] = "done" THEN acked \cup {p} ELSE acked
    /\ KeepView /\ UNCHANGED <<after, dirs, base, store>>

(***************************************************************************)
(* Failing system calls, death and time                                    *)
(***************************************************************************)
Fail(p) ==
    /\ p \in Flaky
    /\ \/ pc[p] \in {"openOwner", "writeOwner"} /\ Then(p, "clean", "failed")
       \/ pc[p] = "check" /\ Then(p, "cleanOwned", "failed")
       \/ /\ pc[p] \in {"clean", "cleanOwned", "cleanUnlink", "cleanRmdir"}
          /\ Goto(p, after[p]) /\ UNCHANGED after
       \/ /\ pc[p] \in {"mkdir", "stat", "inspect", "readOwner", "reapOpen", "reapWrite",
                        "readMark", "unmark", "unlinkMark", "release", "relUnlink",
                        "relRmdir"}
          /\ Goto(p, "failed") /\ UNCHANGED after
       \/ pc[p] \in {"quarantine", "recheck", "rename"} /\ Then(p, "unmark", "failed")
       \/ pc[p] \in {"reload", "persist"} /\ Then(p, "release", "failed")
    /\ KeepView /\ UNCHANGED <<dirs, data>>

\* A file is written, or the store replaced, and the sync that follows fails.
FailWritten(p) ==
    /\ p \in Flaky
    /\ \/ /\ pc[p] = "writeOwner"
          /\ owner' = [d \in Inode |-> IF owner[d] = Draft(p) THEN Full(p) ELSE owner[d]]
          /\ Then(p, "clean", "failed")
          /\ UNCHANGED <<mark, store>>
       \/ /\ pc[p] = "reapWrite"
          /\ mark' = [d \in Inode |-> IF mark[d] = Draft(p) THEN Full(p) ELSE mark[d]]
          /\ Goto(p, "failed")
          /\ UNCHANGED <<after, owner, store>>
       \/ /\ pc[p] = "persist"
          /\ store' = base[p] \cup {p}
          /\ Then(p, "release", "failed")
          /\ UNCHANGED <<owner, mark>>
    /\ KeepView /\ UNCHANGED <<lock, alloc, old, markOld, tomb, base, acked>>

Die(p) ==
    /\ p \in Mortal
    /\ Live(p)
    /\ Steady => \A q \in Proc : Live(q) /\ pc[q] = "judgeMark" /\ seen[q].mark = p
                    /\ lock = seen[q].dir => mark[lock].by = p
    /\ dead' = dead \cup {p}
    /\ Goto(p, IF pc[p] = "done" THEN "done" ELSE "failed")
    /\ UNCHANGED <<after, made, seen, dirs, data>>

\* Where a live process must be quick for the age of the lock to tell anything.
Hasty == {"stat", "openOwner", "writeOwner"}

Age ==
    /\ lock # NoDir /\ ~old
    /\ Prompt => \A p \in Proc : Live(p) => pc[p] \notin Hasty
    /\ old' = TRUE
    /\ UNCHANGED <<after, dead, pc, made, seen, lock, alloc, owner, mark, markOld, tomb, data>>

AgeMark ==
    /\ lock # NoDir /\ mark[lock] # NoFile /\ ~markOld
    /\ Prompt => \A p \in Proc : Live(p) => pc[p] # "reapWrite"
    /\ markOld' = TRUE
    /\ UNCHANGED <<after, dead, pc, made, seen, lock, alloc, owner, mark, old, tomb, data>>

Progress(p) ==
    /\ Live(p)
    /\ \/ Mkdir(p) \/ Stat(p) \/ OpenOwner(p) \/ WriteOwner(p) \/ Check(p)
       \/ Clean(p) \/ CleanOwned(p) \/ UnlinkOwner(p) \/ RmdirLock(p)
       \/ Inspect(p) \/ ReadOwner(p) \/ Judge(p) \/ ReapOpen(p) \/ ReapWrite(p)
       \/ ReadMark(p) \/ JudgeMark(p) \/ Quarantine(p) \/ Recheck(p) \/ Rename(p)
       \/ Unmark(p) \/ UnlinkMark(p) \/ Wait(p)
       \/ Reload(p) \/ Persist(p) \/ Release(p)

Next ==
    \/ \E p \in Proc : \/ Live(p) /\ (Begin(p) \/ Fail(p) \/ FailWritten(p))
                       \/ Die(p)
                       \/ Progress(p)
    \/ Age \/ AgeMark

Init ==
    /\ dead = {}
    /\ pc = [p \in Proc |-> "start"]
    /\ after = [p \in Proc |-> "failed"]
    /\ made = [p \in Proc |-> NoDir]
    /\ seen = [p \in Proc |-> NoView]
    /\ lock = NoDir
    /\ alloc = {}
    /\ owner = [d \in Inode |-> NoFile]
    /\ mark = [d \in Inode |-> NoFile]
    /\ old = FALSE
    /\ markOld = FALSE
    /\ tomb = [d \in Inode |-> NoDir]
    /\ base = [p \in Proc |-> {}]
    /\ store = {}
    /\ acked = {}

Spec == Init /\ [][Next]_vars

\* A process goes on with what it has begun, and time passes.
Fairness ==
    /\ \A p \in Proc : WF_vars(Progress(p))
    /\ WF_vars(Age) /\ WF_vars(AgeMark)

-----------------------------------------------------------------------------
(***************************************************************************)
(* Properties                                                              *)
(***************************************************************************)
\* Between acquireLock and the unlink of releaseLock a live process has its
\* directory at the path and its owner.json in it, and hence is alone.
HolderBacked ==
    \A p \in Proc : pc[p] \in Holding => OwnsLock(p)

\* The process that has the lock: at most one, as the next property says.
Holder == IF \E p \in Proc : pc[p] \in Holding
          THEN CHOOSE p \in Proc : pc[p] \in Holding ELSE NoProc

Promise == INSTANCE SerialStore WITH holder <- Holder

\* Tests: "twenty concurrent CLI token issues retain every digest", "an issue
\* and revoke from pre-opened child processes merge under one lock".  Mutations
\* enter the lock one at a time, each adds its record to the store as it is, and
\* whoever is told of its success has its record there: the names, files and
\* tombstones keep the promise of SerialStore.
MutationsAreSerial == Promise!SerialSpec

\* Comment of quarantineStaleLock: the retained tombstone "prevents a delayed
\* competing reaper from moving a newly created successor lock by pathname".
\* A directory moves to a tombstone only if no live process owns it.
LiveLockStays ==
    [][lock # NoDir /\ lock' # lock /\ (\E i \in Inode : tomb'[i] = lock)
         => Named(owner[lock]) \in dead \cup {NoProc}]_vars

\* Comment of quarantineStaleLock: the tombstone "is deliberately retained.  It
\* prevents a delayed competing reaper from moving a newly created successor lock
\* by pathname after this stale directory has been quarantined".  Nothing is
\* moved to the place of a directory that is in quarantine.
TombstonesStay ==
    [][\A i \in Inode : tomb[i] # NoDir => tomb'[i] = tomb[i]]_vars

\* Test: "orphaned stale and dead-owner locks recover without weakening file
\* mode".  Nothing that a process leaves behind where it dies keeps the others
\* out for ever: a process that may wait as long as it likes ends some day.
NobodyIsLockedOut == \A p \in Proc : pc[p] = "mkdir" ~> pc[p] \in {"done", "failed"}
=============================================================================
