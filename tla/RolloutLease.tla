---------------------------- MODULE RolloutLease ----------------------------
(***************************************************************************)
(* The cross-process lease of the rollout journal (src/rollout-journal.js),*)
(* at the level of its system calls.  The lease is a directory at one      *)
(* path, `<state>.lease`, that holds owner.json while the lease is held    *)
(* and reaper.json while a contender is reclaiming it.                     *)
(*                                                                         *)
(* A step is one system call that changes the file system, or one          *)
(* inspection (inspectLease, an lstat) whose result is compared and acted  *)
(* upon.  Any other process, or the death of this one, may come between    *)
(* two steps.  An inspection is one step although inspectLease makes       *)
(* several calls: everything it reports is compared again by Confirm, at a *)
(* time when the directory cannot move (LateReaperPinned).                  *)
(*                                                                         *)
(* Simplifications.  A process instance is a member of Proc; its start     *)
(* ticks are its own, its pid may be used again after its death.  Inode    *)
(* numbers are used again as soon as a directory is removed.  File modes,  *)
(* ownership, link counts and the fsync calls are left out: nothing but    *)
(* this code writes below the 0700 parent.  The verifyOwnerDead callback   *)
(* is the application's and may answer anything in VerifierAnswers; {FALSE}*)
(* stands for an absent callback as well.                                  *)
(***************************************************************************)
EXTENDS Naturals

CONSTANTS Proc,            \* process instances
          NoProc,
          Pid,             \* process numbers
          PidOf,           \* the number the kernel gives to each instance
          Contender,       \* the instances that use the journal
          Mortal,          \* the instances that may die
          Flaky,           \* the instances whose system calls may fail
          Inode,           \* inode numbers of directories
          NoDir,
          VerifierAnswers, \* what the verifyOwnerDead callback may answer
          MaxAttempts,     \* attempts of one acquireLease call (the code: 8)
          MaxAcquire       \* acquireLease calls of one instance (a bound)

ASSUME LeaseConstants ==
    /\ NoProc \notin Proc
    /\ NoDir \notin Inode
    /\ PidOf \in [Proc -> Pid]
    /\ Contender \subseteq Proc
    /\ Mortal \subseteq Proc
    /\ Flaky \subseteq Proc
    /\ VerifierAnswers \subseteq BOOLEAN
    /\ MaxAttempts \in Nat \ {0}
    /\ MaxAcquire \in Nat

VARIABLES
    status,   \* status[p]: "unborn", "live" or "dead"
    pc,       \* pc[p]: where p is in acquireLease, quarantineStaleLease, release
    serial,   \* serial[p]: p's acquireLease calls so far; makes ownerId unique
    attempt,  \* attempt[p]: the loop counter of acquireLease
    view,     \* view[p]: directory identity and owner that p remembers
    lease,    \* the directory the lease path names, or NoDir
    alloc,    \* the directories that exist, at the path or as tombstones
    owner,    \* owner[d]: the owner.json in d, or NoOwner
    reaper    \* reaper[d]: the instance whose reaper.json is in d, or NoProc

fs   == <<lease, alloc, owner, reaper>>
vars == <<status, pc, serial, attempt, view, lease, alloc, owner, reaper>>

(***************************************************************************)
(* Records                                                                 *)
(***************************************************************************)
\* owner.json exists, empty, from its creation to its one write: full tells.
OwnerFile == [proc: Proc, serial: Nat, full: BOOLEAN]
NoOwner   == [proc |-> NoProc, serial |-> 0, full |-> FALSE]
OwnerSlot == OwnerFile \cup {NoOwner}

Me(p)    == [proc |-> p, serial |-> serial[p], full |-> TRUE]
Draft(p) == [proc |-> p, serial |-> serial[p], full |-> FALSE]

View   == [dir: Inode \cup {NoDir}, owner: OwnerSlot]
NoView == [dir |-> NoDir, owner |-> NoOwner]

\* Inside acquireLease with the directory made by this call.
Creating  == {"stat", "openOwner", "writeOwner", "verify", "dropOwner", "dropDir"}
\* Inside quarantineStaleLease, before and after reaper.json is written.
Suspecting == {"ticks", "recheck", "openReaper"}
Reaping    == {"confirm", "rename", "dropReaperRetry", "dropReaperFail"}
Releasing  == {"relUnlink", "relRmdir"}
Labels == {"idle", "mkdir", "inspect", "held", "bury"}
            \cup Creating \cup Suspecting \cup Reaping \cup Releasing

Live(p) == status[p] = "live"

(***************************************************************************)
(* What a process can find out                                             *)
(***************************************************************************)
Empty(d) == owner[d] = NoOwner /\ reaper[d] = NoProc

\* isExactHeldLease: a complete owner.json and nothing else.
ExactlyHeld(d) == owner[d].full /\ reaper[d] = NoProc

\* The checks of RolloutLease.assertOwned: same directory, same owner, exact.
Owns(p) ==
    /\ lease = view[p].dir
    /\ lease # NoDir
    /\ owner[lease] = view[p].owner
    /\ ExactlyHeld(lease)

\* /proc/<pid>/stat: the live instance that runs under number n, if any.
Observed(n) == {q \in Proc : Live(q) /\ PidOf[q] = n}

\* Mutant: a process with the recorded number is taken for the recorded one.
SameTicksPidOnly(q) == Observed(PidOf[q]) # {}

\* The start ticks read for q's number are the ones recorded for q.
SameTicks(q) == q \in Observed(PidOf[q])

(***************************************************************************)
(* Steps of one process                                                    *)
(***************************************************************************)
Goto(p, label) == pc' = [pc EXCEPT ![p] = label]

\* Move on with what p remembers; a call that ends forgets it.
Step(p, label) ==
    /\ Goto(p, label)
    /\ view' = IF label = "idle" THEN [view EXCEPT ![p] = NoView] ELSE view
    /\ UNCHANGED <<status, serial, attempt>>

\* The next round of acquireLease's loop, or its failure after the last.
Retry(p) ==
    /\ attempt' = [attempt EXCEPT ![p] = @ + 1]
    /\ view' = [view EXCEPT ![p] = NoView]
    /\ Goto(p, IF attempt[p] + 1 < MaxAttempts THEN "mkdir" ELSE "idle")
    /\ UNCHANGED <<status, serial>>

BeginAcquire(p) ==
    /\ p \in Contender
    /\ pc[p] = "idle"
    /\ serial[p] < MaxAcquire
    /\ serial' = [serial EXCEPT ![p] = @ + 1]
    /\ attempt' = [attempt EXCEPT ![p] = 0]
    /\ Goto(p, "mkdir")
    /\ UNCHANGED <<status, view, fs>>

Mkdir(p) ==
    /\ pc[p] = "mkdir"
    /\ IF lease = NoDir
       THEN \E d \in Inode \ alloc :
              /\ lease' = d
              /\ alloc' = alloc \cup {d}
              /\ owner' = [owner EXCEPT ![d] = NoOwner]
              /\ reaper' = [reaper EXCEPT ![d] = NoProc]
              /\ Step(p, "stat")
       ELSE Step(p, "inspect") /\ UNCHANGED fs

\* chmod and assertPrivateDirectory go through the path, not the inode.
Stat(p) ==
    /\ pc[p] = "stat"
    /\ IF lease = NoDir
       THEN Step(p, "idle")
       ELSE /\ view' = [view EXCEPT ![p] = [dir |-> lease, owner |-> Me(p)]]
            /\ Goto(p, "openOwner")
            /\ UNCHANGED <<status, serial, attempt>>
    /\ UNCHANGED fs

\* writeLeaseRecord creates owner.json with O_EXCL.  ClaimBacked says that
\* the create cannot fail; were it to, the call would give up its directory.
OpenOwner(p) ==
    /\ pc[p] = "openOwner"
    /\ IF lease # NoDir /\ owner[lease] = NoOwner
       THEN /\ owner' = [owner EXCEPT ![lease] = Draft(p)]
            /\ Step(p, "writeOwner")
       ELSE Step(p, "dropDir") /\ UNCHANGED owner
    /\ UNCHANGED <<lease, alloc, reaper>>

WriteOwner(p) ==
    /\ pc[p] = "writeOwner"
    /\ owner' = [owner EXCEPT ![view[p].dir] = Me(p)]
    /\ Step(p, "verify")
    /\ UNCHANGED <<lease, alloc, reaper>>

\* acquireLease returns a handle only if its lease is exactly as it wrote it.
Verify(p) ==
    /\ pc[p] = "verify"
    /\ Step(p, IF Owns(p) THEN "held" ELSE "dropOwner")
    /\ UNCHANGED fs

\* removeOwnedFile(owner.json) on the way out of a failed acquisition.
DropOwner(p) ==
    /\ pc[p] = "dropOwner"
    /\ owner' = IF lease # NoDir /\ owner[lease] = view[p].owner
                THEN [owner EXCEPT ![lease] = NoOwner]
                ELSE owner
    /\ Step(p, "dropDir")
    /\ UNCHANGED <<lease, alloc, reaper>>

\* rmdir removes an empty directory and fails on any other.
Rmdir ==
    IF lease # NoDir /\ Empty(lease)
    THEN lease' = NoDir /\ alloc' = alloc \ {lease}
    ELSE UNCHANGED <<lease, alloc>>

\* rmdir, if the path still names our inode; its failure is ignored.
DropDir(p) ==
    /\ pc[p] = "dropDir"
    /\ IF lease = view[p].dir THEN Rmdir ELSE UNCHANGED <<lease, alloc>>
    /\ Step(p, "idle")
    /\ UNCHANGED <<owner, reaper>>

(***************************************************************************)
(* The path exists: quarantineStaleLease                                   *)
(***************************************************************************)
\* inspectLease, and the first check of quarantineStaleLease: a lease without
\* a complete owner, or one that is being reclaimed, is refused.
Inspect(p) ==
    /\ pc[p] = "inspect"
    /\ IF lease = NoDir THEN Retry(p)
       ELSE IF ~ExactlyHeld(lease) THEN Step(p, "idle")
       ELSE /\ view' = [view EXCEPT ![p] = [dir |-> lease, owner |-> owner[lease]]]
            /\ Goto(p, "ticks")
            /\ UNCHANGED <<status, serial, attempt>>
    /\ UNCHANGED fs

\* Mutant: the callback alone decides.
TicksTrusting(p) ==
    /\ pc[p] = "ticks"
    /\ \E verified \in VerifierAnswers :
           Step(p, IF verified THEN "recheck" ELSE "idle")
    /\ UNCHANGED fs

\* The recorded process instance, then the callback's answer.
Ticks(p) ==
    /\ pc[p] = "ticks"
    /\ IF SameTicks(view[p].owner.proc)
       THEN Step(p, "idle")
       ELSE \E verified \in VerifierAnswers :
              Step(p, IF verified THEN "recheck" ELSE "idle")
    /\ UNCHANGED fs

\* beforeReaper: still the directory and the owner of the first inspection.
Recheck(p) ==
    /\ pc[p] = "recheck"
    /\ IF Owns(p) THEN Step(p, "openReaper") ELSE Retry(p)
    /\ UNCHANGED fs

\* Mutant: reaper.json is created without O_EXCL.
OpenReaperShared(p) ==
    /\ pc[p] = "openReaper"
    /\ IF lease # NoDir
       THEN reaper' = [reaper EXCEPT ![lease] = p] /\ Step(p, "confirm")
       ELSE Step(p, "idle") /\ UNCHANGED reaper
    /\ UNCHANGED <<lease, alloc, owner>>

\* reaper.json is created with O_EXCL below whatever the path names by now,
\* which may be the lease of a successor.
OpenReaper(p) ==
    /\ pc[p] = "openReaper"
    /\ IF lease # NoDir /\ reaper[lease] = NoProc
       THEN reaper' = [reaper EXCEPT ![lease] = p] /\ Step(p, "confirm")
       ELSE Step(p, "idle") /\ UNCHANGED reaper
    /\ UNCHANGED <<lease, alloc, owner>>

\* Mutant: the inspection before reaper.json was written is relied upon.
ConfirmBlind(p) ==
    /\ pc[p] = "confirm"
    /\ Step(p, "rename")
    /\ UNCHANGED fs

Confirm(p) ==
    /\ pc[p] = "confirm"
    /\ Step(p, IF lease # view[p].dir THEN "dropReaperRetry"
               ELSE IF owner[lease] = view[p].owner THEN "rename"
               ELSE "dropReaperFail")
    /\ UNCHANGED fs

\* The rename to a tombstone nobody else knows; the moved inode is compared.
Rename(p) ==
    /\ pc[p] = "rename"
    /\ lease' = NoDir
    /\ IF lease = NoDir THEN Step(p, "dropReaperRetry")
       ELSE Step(p, IF lease = view[p].dir THEN "bury" ELSE "idle")
    /\ UNCHANGED <<alloc, owner, reaper>>

\* unlink owner.json, unlink reaper.json, rmdir of the private tombstone.
Bury(p) ==
    /\ pc[p] = "bury"
    /\ owner' = [owner EXCEPT ![view[p].dir] = NoOwner]
    /\ reaper' = [reaper EXCEPT ![view[p].dir] = NoProc]
    /\ alloc' = alloc \ {view[p].dir}
    /\ Retry(p)
    /\ UNCHANGED lease

\* The finally block: take reaper.json back if the lease was not moved, then
\* go on with the next attempt (return false) or fail (throw).
DropReaper(p) ==
    /\ pc[p] \in {"dropReaperRetry", "dropReaperFail"}
    /\ reaper' = IF lease # NoDir /\ reaper[lease] = p
                 THEN [reaper EXCEPT ![lease] = NoProc]
                 ELSE reaper
    /\ IF pc[p] = "dropReaperRetry" THEN Retry(p) ELSE Step(p, "idle")
    /\ UNCHANGED <<lease, alloc, owner>>

(***************************************************************************)
(* RolloutLease.release                                                    *)
(***************************************************************************)
\* A lease that is not exactly ours any more is left alone, in silence.
Release(p) ==
    /\ pc[p] = "held"
    /\ Step(p, IF Owns(p) THEN "relUnlink" ELSE "idle")
    /\ UNCHANGED fs

RelUnlink(p) ==
    /\ pc[p] = "relUnlink"
    /\ IF lease = NoDir
       THEN Step(p, "idle") /\ UNCHANGED owner
       ELSE /\ owner' = [owner EXCEPT ![lease] = NoOwner]
            /\ Step(p, "relRmdir")
    /\ UNCHANGED <<lease, alloc, reaper>>

RelRmdir(p) ==
    /\ pc[p] = "relRmdir"
    /\ Rmdir
    /\ Step(p, "idle")
    /\ UNCHANGED <<owner, reaper>>

(***************************************************************************)
(* Failing system calls                                                    *)
(***************************************************************************)
\* An error that ends the call and leaves the files as they are: of release
\* (the lease counts as released), or where the code has no way back.
FailAtOnce(p) ==
    /\ pc[p] \in {"mkdir", "stat", "dropOwner", "dropDir", "inspect"} \cup Suspecting
                  \cup Releasing
                  \cup {"held", "bury", "dropReaperRetry", "dropReaperFail"}
    /\ Step(p, "idle")
    /\ UNCHANGED fs

\* writeLeaseRecord(owner.json) does not return: its file, if any, stays, as it
\* is removed only when its metadata are known.
FailOwner(p) ==
    /\ \/ pc[p] = "openOwner" /\ UNCHANGED owner
       \/ /\ pc[p] = "writeOwner"
          /\ \/ UNCHANGED owner
             \/ owner' = [owner EXCEPT ![view[p].dir] = Me(p)]
    /\ Step(p, "dropDir")
    /\ UNCHANGED <<lease, alloc, reaper>>

\* writeLeaseRecord(reaper.json) has made the file and does not return, so that
\* it stays, or it returns and the fsync fails.
FailReaper(p) ==
    /\ pc[p] = "openReaper"
    /\ lease # NoDir
    /\ reaper[lease] = NoProc
    /\ reaper' = [reaper EXCEPT ![lease] = p]
    /\ \E label \in {"idle", "dropReaperFail"} : Step(p, label)
    /\ UNCHANGED <<lease, alloc, owner>>

\* The way out undoes what the call has done.
FailUndoing(p) ==
    /\ \/ pc[p] = "verify" /\ Step(p, "dropOwner")
       \/ pc[p] \in {"confirm", "rename"} /\ Step(p, "dropReaperFail")
    /\ UNCHANGED fs

Fail(p) ==
    /\ p \in Flaky
    /\ FailAtOnce(p) \/ FailOwner(p) \/ FailReaper(p) \/ FailUndoing(p)

(***************************************************************************)
(* Process instances start and die                                         *)
(***************************************************************************)
\* The kernel gives a number to one live instance at a time.
Start(p) ==
    /\ status[p] = "unborn"
    /\ \A q \in Proc : Live(q) => PidOf[q] # PidOf[p]
    /\ status' = [status EXCEPT ![p] = "live"]
    /\ UNCHANGED <<pc, serial, attempt, view, fs>>

\* Death at any point leaves the files as they are and nothing else.
Die(p) ==
    /\ p \in Mortal
    /\ Live(p)
    /\ status' = [status EXCEPT ![p] = "dead"]
    /\ pc' = [pc EXCEPT ![p] = "idle"]
    /\ view' = [view EXCEPT ![p] = NoView]
    /\ UNCHANGED <<serial, attempt, fs>>

\* What p does once it is inside acquireLease or release, to the end.
Progress(p) ==
    /\ Live(p)
    /\ \/ Mkdir(p) \/ Stat(p) \/ OpenOwner(p) \/ WriteOwner(p) \/ Verify(p)
       \/ DropOwner(p) \/ DropDir(p)
       \/ Inspect(p) \/ Ticks(p) \/ Recheck(p) \/ OpenReaper(p) \/ Confirm(p)
       \/ Rename(p) \/ Bury(p) \/ DropReaper(p)
       \/ RelUnlink(p) \/ RelRmdir(p)

Next ==
    \E p \in Proc :
        \/ Start(p)
        \/ Die(p)
        \/ Live(p) /\ (BeginAcquire(p) \/ Release(p) \/ Fail(p))
        \/ Progress(p)

Init ==
    /\ status = [p \in Proc |-> "unborn"]
    /\ pc = [p \in Proc |-> "idle"]
    /\ serial = [p \in Proc |-> 0]
    /\ attempt = [p \in Proc |-> 0]
    /\ view = [p \in Proc |-> NoView]
    /\ lease = NoDir
    /\ alloc = {}
    /\ owner = [d \in Inode |-> NoOwner]
    /\ reaper = [d \in Inode |-> NoProc]

Spec == Init /\ [][Next]_vars

\* A live instance's event loop runs: what it has begun goes on.
FairSpec == Spec /\ \A p \in Proc : WF_vars(Progress(p))

-----------------------------------------------------------------------------
(***************************************************************************)
(* Types and the inductive invariant                                       *)
(***************************************************************************)
\* Every variable has its type, and no call makes more attempts than allowed.
LeaseTypeOK ==
    /\ status \in [Proc -> {"unborn", "live", "dead"}]
    /\ pc \in [Proc -> Labels]
    /\ serial \in [Proc -> Nat]
    /\ attempt \in [Proc -> 0 .. MaxAttempts]
    /\ view \in [Proc -> View]
    /\ lease \in Inode \cup {NoDir}
    /\ alloc \in SUBSET Inode
    /\ owner \in [Inode -> OwnerSlot]
    /\ reaper \in [Inode -> Proc \cup {NoProc}]

\* The labels at which p has made the directory at the lease path its own.
Claiming == Creating \cup Releasing \cup {"held"}

\* Only live instances are inside a call, and none is past its last attempt.
OnlyLiveRun ==
    \A p \in Proc : pc[p] # "idle" => Live(p) /\ attempt[p] < MaxAttempts

\* An owner record names an instance that has started: not alive, it is dead.
Started(o) == o = NoOwner \/ status[o.proc] \in {"live", "dead"}

OwnersStarted ==
    /\ \A d \in Inode : Started(owner[d])
    /\ \A p \in Proc : Started(view[p].owner)

\* From mkdir to the end of release the path names the claimant's directory,
\* and owner.json is as the claimant left it.
ClaimBacked ==
    \A p \in Proc : pc[p] \in Claiming =>
        /\ lease # NoDir
        /\ pc[p] # "stat" => view[p] = [dir |-> lease, owner |-> Me(p)]
        /\ pc[p] \in {"stat", "openOwner", "relRmdir"} => owner[lease] = NoOwner
        /\ pc[p] = "dropDir" => owner[lease] \in {NoOwner, Draft(p), Me(p)}
        /\ pc[p] = "writeOwner" => owner[lease] = Draft(p)
        /\ pc[p] \in {"verify", "dropOwner", "held", "relUnlink"}
             => owner[lease] = Me(p)

OneClaimant ==
    \A p, q \in Proc : pc[p] \in Claiming /\ pc[q] \in Claiming => p = q

\* Past the check of the start ticks the suspected owner is dead for good.
SuspectIsDead ==
    \A p \in Proc : pc[p] \in Suspecting \cup Reaping =>
        /\ view[p].owner.full
        /\ pc[p] # "ticks" => status[view[p].owner.proc] = "dead"

\* The directory that holds p's reaper.json, be it the suspected one or the
\* lease of a successor, stays at the path until p takes the file back; p
\* renames it only when it is the suspected one with the suspected owner.
LateReaperPinned ==
    \A p \in Proc :
        /\ pc[p] \in Reaping => lease # NoDir /\ reaper[lease] = p
        /\ pc[p] = "rename" => lease = view[p].dir /\ owner[lease] = view[p].owner

TombstonesPrivate ==
    \A p \in Proc : pc[p] = "bury" =>
        /\ view[p].dir \in alloc \ {lease}
        /\ \A q \in Proc : pc[q] = "bury" /\ view[q].dir = view[p].dir => p = q

\* The inductive invariant: from mkdir to the end of release no other process
\* moves, removes or rewrites the claimant's directory, because a reaper moves
\* a directory only while its own reaper.json holds it at the path and only
\* when its owner is an instance that has died.
LeaseInv ==
    /\ lease # NoDir => lease \in alloc
    /\ OnlyLiveRun
    /\ OwnersStarted
    /\ ClaimBacked
    /\ OneClaimant
    /\ SuspectIsDead
    /\ LateReaperPinned
    /\ TombstonesPrivate

(***************************************************************************)
(* Properties                                                              *)
(***************************************************************************)
\* Docs: "an exclusive cross-process lease".  A handle that acquireLease has
\* returned stays backed by its directory and its owner.json until its holder
\* releases it or dies, so a check of assertOwned cannot go stale before the
\* rename that follows it, whatever contenders and late reapers do.
HandleBacked ==
    \A p \in Proc : pc[p] = "held" =>
        /\ lease # NoDir
        /\ lease = view[p].dir
        /\ owner[lease] = Me(p)

\* Docs: "A live exact PID/start-ticks instance cannot be reclaimed even if a
\* callback attempts to permit it".  A lease directory is moved away from the
\* path only when the instance named by its owner.json is dead.
LiveNeverReclaimed ==
    [][lease # NoDir /\ lease' = NoDir /\ lease \in alloc'
         => \E q \in Proc : q = owner[lease].proc /\ status[q] = "dead"]_vars

\* A lease that nobody can complete or take down: its owner.json is missing or
\* incomplete and no one is writing it, or its reaper.json was left behind by a
\* reaper that died or whose call has failed.
Wedged ==
    /\ lease # NoDir
    /\ \/ ~owner[lease].full /\ \A p \in Proc : pc[p] \notin Claiming
       \/ \E p \in Proc : reaper[lease] = p /\ pc[p] \notin Reaping

\* Docs: "Lease reclamation is fail closed".  A crash or an error inside
\* acquireLease, release or quarantineStaleLease may leave a lease that is not
\* exact; such a lease is never taken over, it stays as it is for an operator
\* to look at.
FailClosed == [][Wedged => Wedged' /\ lease' = lease]_vars

\* The lease as its users see it.
Holder ==
    IF \E p \in Proc : pc[p] = "held" THEN CHOOSE p \in Proc : pc[p] = "held"
    ELSE NoProc

Promise == INSTANCE ExclusiveLease WITH holder <- Holder

\* The directories and files keep the promise of ExclusiveLease.
KeepsPromise == Promise!LeaseSpec

\* Docs: "a present PID with different start ticks represents reuse of the
\* number and not the recorded process".  A contender that finds the complete
\* lease of a dead instance and no other contender at work gets it, if the
\* callback agrees, also when the dead owner's number belongs to another live
\* process by then.
Alone(p) ==
    \A r \in Contender \ {p} :
        status[r] = "dead" \/ (pc[r] = "idle" /\ serial[r] = MaxAcquire)

StaleLeaseReclaimed ==
    \A p \in Contender \ (Mortal \cup Flaky), q \in Proc :
        (/\ pc[p] = "mkdir" /\ attempt[p] = 0 /\ Live(p)
         /\ lease # NoDir
         /\ ExactlyHeld(lease)
         /\ owner[lease].proc = q /\ status[q] = "dead"
         /\ Alone(p))
        ~> pc[p] = "held"
=============================================================================
