------------------------- MODULE RolloutLeaseProofs -------------------------
(***************************************************************************)
(* Proofs about RolloutLease for any number of process instances, process  *)
(* numbers, inode numbers, attempts and acquireLease calls, and whatever   *)
(* the verifyOwnerDead callback answers.                                   *)
(***************************************************************************)
EXTENDS RolloutLease, TLAPS

USE LeaseConstants

LEMMA InitTypeOK == Init => LeaseTypeOK
  BY DEF Init, LeaseTypeOK, Labels, View, NoView, OwnerSlot

LEMMA MeIsOwner ==
    ASSUME LeaseTypeOK, NEW p \in Proc
    PROVE  Me(p) \in OwnerSlot /\ Draft(p) \in OwnerSlot
  BY DEF LeaseTypeOK, Me, Draft, OwnerSlot, OwnerFile

LEMMA NextTypeOK == LeaseTypeOK /\ OnlyLiveRun /\ [Next]_vars => LeaseTypeOK'
  <1> SUFFICES ASSUME LeaseTypeOK, OnlyLiveRun, [Next]_vars
               PROVE  LeaseTypeOK'
    OBVIOUS
  <1> USE DEF LeaseTypeOK
  <1>u. CASE UNCHANGED vars
    BY <1>u DEF vars
  <1>n. ASSUME NEW p \in Proc,
               \/ Start(p)
               \/ Die(p)
               \/ Live(p) /\ (BeginAcquire(p) \/ Release(p) \/ Fail(p))
               \/ Progress(p)
        PROVE  LeaseTypeOK'
    <2>0. Me(p) \in OwnerSlot /\ Draft(p) \in OwnerSlot
      BY MeIsOwner
    <2>1. NoOwner \in OwnerSlot /\ NoView \in View
      BY DEF OwnerSlot, View, NoView
    <2>2. pc[p] # "idle" => attempt[p] + 1 \in 0 .. MaxAttempts
      BY DEF OnlyLiveRun
    <2>3. ASSUME NEW l \in Labels, Step(p, l)
          PROVE  /\ pc' \in [Proc -> Labels] /\ view' \in [Proc -> View]
                 /\ UNCHANGED <<status, serial, attempt>>
      BY <2>1, <2>3 DEF Step, Goto
    <2>4. ASSUME Retry(p), pc[p] # "idle"
          PROVE  /\ pc' \in [Proc -> Labels] /\ view' \in [Proc -> View]
                 /\ attempt' \in [Proc -> 0 .. MaxAttempts]
                 /\ UNCHANGED <<status, serial>>
      BY <2>1, <2>2, <2>4 DEF Retry, Goto, Labels
    <2> USE DEF fs
    <2>5. CASE Start(p)
      BY <2>5 DEF Start
    <2>6. CASE Die(p)
      BY <2>6, <2>1 DEF Die, Labels
    <2>7. CASE BeginAcquire(p)
      BY <2>7 DEF BeginAcquire, Goto, Labels
    <2>8. CASE Release(p)
      BY <2>8, <2>3 DEF Release, Labels, Releasing
    <2>9. CASE Mkdir(p)
      <3>1. \A l \in {"stat", "inspect"} : l \in Labels
        BY DEF Labels, Creating
      <3> QED
        BY <2>9, <2>3, <2>1, <3>1 DEF Mkdir
    <2>10. CASE Stat(p)
      <3>1. \A l \in {"idle", "openOwner"} : l \in Labels
        BY DEF Labels, Creating
      <3>2. CASE lease = NoDir
        BY <2>10, <2>3, <3>1, <3>2 DEF Stat
      <3>3. CASE lease # NoDir
        <4>1. [dir |-> lease, owner |-> Me(p)] \in View
          BY <2>0, <3>3 DEF View
        <4> QED
          BY <2>10, <3>1, <3>3, <4>1 DEF Stat, Goto
      <3> QED
        BY <3>2, <3>3
    <2>11. CASE OpenOwner(p)
      BY <2>11, <2>3, <2>0 DEF OpenOwner, Labels, Creating
    <2>12. CASE WriteOwner(p)
      BY <2>12, <2>3, <2>0 DEF WriteOwner, Labels, Creating
    <2>13. CASE Verify(p)
      BY <2>13, <2>3 DEF Verify, Labels, Creating
    <2>14. CASE DropOwner(p)
      BY <2>14, <2>3, <2>1 DEF DropOwner, Labels, Creating
    <2>15. CASE DropDir(p)
      BY <2>15, <2>3 DEF DropDir, Labels, Rmdir
    <2>16. CASE Inspect(p)
      <3>1. \A l \in {"idle", "ticks"} : l \in Labels
        BY DEF Labels, Suspecting
      <3>2. CASE lease = NoDir
        BY <2>16, <2>4, <3>2 DEF Inspect
      <3>3. CASE lease # NoDir /\ ~ExactlyHeld(lease)
        BY <2>16, <2>3, <3>1, <3>3 DEF Inspect
      <3>4. CASE lease # NoDir /\ ExactlyHeld(lease)
        <4>1. [dir |-> lease, owner |-> owner[lease]] \in View
          BY <3>4 DEF View
        <4> QED
          BY <2>16, <3>1, <3>4, <4>1 DEF Inspect, Goto
      <3> QED
        BY <3>2, <3>3, <3>4
    <2>17. CASE Ticks(p)
      BY <2>17, <2>3 DEF Ticks, Labels, Suspecting
    <2>18. CASE Recheck(p)
      BY <2>18, <2>3, <2>4 DEF Recheck, Labels, Suspecting
    <2>19. CASE OpenReaper(p)
      BY <2>19, <2>3 DEF OpenReaper, Labels, Reaping
    <2>20. CASE Confirm(p)
      BY <2>20, <2>3 DEF Confirm, Labels, Reaping
    <2>21. CASE Rename(p)
      BY <2>21, <2>3 DEF Rename, Labels, Reaping
    <2>22. CASE Bury(p)
      BY <2>22, <2>4, <2>1 DEF Bury
    <2>23. CASE DropReaper(p)
      BY <2>23, <2>3, <2>4 DEF DropReaper, Labels
    <2>24. CASE RelUnlink(p)
      BY <2>24, <2>3, <2>1 DEF RelUnlink, Labels, Releasing
    <2>25. CASE RelRmdir(p)
      BY <2>25, <2>3 DEF RelRmdir, Labels, Rmdir
    <2>26. CASE FailAtOnce(p)
      BY <2>26, <2>3 DEF FailAtOnce, Labels
    <2>27. CASE FailOwner(p)
      BY <2>27, <2>3, <2>0 DEF FailOwner, Labels, Creating
    <2>28. CASE FailReaper(p)
      <3>1. \A l \in {"idle", "dropReaperFail"} : l \in Labels
        BY DEF Labels, Reaping
      <3> QED
        BY <2>28, <2>3, <3>1 DEF FailReaper
    <2>29. CASE FailUndoing(p)
      BY <2>29, <2>3 DEF FailUndoing, Labels, Creating, Reaping
    <2> QED
      BY <1>n, <2>5, <2>6, <2>7, <2>8, <2>9, <2>10, <2>11, <2>12, <2>13, <2>14,
         <2>15, <2>16, <2>17, <2>18, <2>19, <2>20, <2>21, <2>22, <2>23, <2>24,
         <2>25, <2>26, <2>27, <2>28, <2>29 DEF Progress, Fail
  <1> QED
    BY <1>u, <1>n DEF Next

-----------------------------------------------------------------------------
(***************************************************************************)
(* What a step of p may do, to itself and to the others                    *)
(***************************************************************************)
\* A step of p that is not its start or its death.
Act(p) == Live(p) /\ (BeginAcquire(p) \/ Release(p) \/ Fail(p) \/ Progress(p))

Actions(p) ==
    \/ BeginAcquire(p) \/ Release(p)
    \/ Mkdir(p) \/ Stat(p) \/ OpenOwner(p) \/ WriteOwner(p) \/ Verify(p)
    \/ DropOwner(p) \/ DropDir(p)
    \/ Inspect(p) \/ Ticks(p) \/ Recheck(p) \/ OpenReaper(p) \/ Confirm(p)
    \/ Rename(p) \/ Bury(p) \/ DropReaper(p)
    \/ RelUnlink(p) \/ RelRmdir(p)
    \/ FailAtOnce(p) \/ FailOwner(p) \/ FailReaper(p) \/ FailUndoing(p)

LEMMA ActIsAction ==
    ASSUME NEW p, Act(p)
    PROVE  Actions(p) /\ Live(p)
  BY DEF Act, Actions, Progress, Fail

\* A step of p leaves alone what any other process is doing and remembers.
LEMMA OthersUntouched ==
    ASSUME LeaseTypeOK, NEW p \in Proc, Act(p)
    PROVE  /\ status' = status
           /\ \A q \in Proc \ {p} :
                /\ pc'[q] = pc[q]
                /\ view'[q] = view[q]
                /\ serial'[q] = serial[q]
                /\ attempt'[q] = attempt[q]
  <1> USE DEF LeaseTypeOK, Step, Retry, Goto
  <1>1. CASE BeginAcquire(p) \/ Release(p) \/ Mkdir(p) \/ Stat(p)
    BY <1>1 DEF BeginAcquire, Release, Mkdir, Stat
  <1>2. CASE OpenOwner(p) \/ WriteOwner(p) \/ Verify(p) \/ DropOwner(p) \/ DropDir(p)
    BY <1>2 DEF OpenOwner, WriteOwner, Verify, DropOwner, DropDir
  <1>3. CASE Inspect(p) \/ Ticks(p) \/ Recheck(p) \/ OpenReaper(p) \/ Confirm(p)
    BY <1>3 DEF Inspect, Ticks, Recheck, OpenReaper, Confirm
  <1>4. CASE Rename(p) \/ Bury(p) \/ DropReaper(p) \/ RelUnlink(p) \/ RelRmdir(p)
    BY <1>4 DEF Rename, Bury, DropReaper, RelUnlink, RelRmdir
  <1>5. CASE FailAtOnce(p) \/ FailOwner(p) \/ FailReaper(p) \/ FailUndoing(p)
    BY <1>5 DEF FailAtOnce, FailOwner, FailReaper, FailUndoing
  <1> QED
    BY ActIsAction, <1>1, <1>2, <1>3, <1>4, <1>5 DEF Actions

\* Only owner records of p itself appear, and p remembers only records that
\* it wrote or that it read from a directory.
LEMMA OwnersFromFiles ==
    ASSUME LeaseTypeOK, NEW p \in Proc, Act(p)
    PROVE  /\ \A d \in Inode : owner'[d] \in {owner[d], NoOwner, Me(p), Draft(p)}
           /\ view'[p].owner \in {view[p].owner, NoOwner, Me(p)}
                                   \cup {owner[d] : d \in Inode}
  <1> USE DEF LeaseTypeOK, Step, Retry, Goto, fs, NoView
  <1>1. CASE BeginAcquire(p) \/ Release(p) \/ Mkdir(p)
    BY <1>1 DEF BeginAcquire, Release, Mkdir
  <1>2. CASE Stat(p)
    BY <1>2 DEF Stat
  <1>3. CASE OpenOwner(p) \/ WriteOwner(p) \/ DropOwner(p)
    BY <1>3 DEF OpenOwner, WriteOwner, DropOwner
  <1>4. CASE Verify(p) \/ DropDir(p) \/ Ticks(p) \/ Recheck(p) \/ OpenReaper(p)
    BY <1>4 DEF Verify, DropDir, Ticks, Recheck, OpenReaper
  <1>5. CASE Inspect(p)
    BY <1>5 DEF Inspect
  <1>6. CASE Confirm(p) \/ Rename(p) \/ DropReaper(p)
    BY <1>6 DEF Confirm, Rename, DropReaper
  <1>7. CASE Bury(p) \/ RelUnlink(p) \/ RelRmdir(p)
    BY <1>7 DEF Bury, RelUnlink, RelRmdir
  <1>8. CASE FailAtOnce(p) \/ FailOwner(p) \/ FailReaper(p) \/ FailUndoing(p)
    BY <1>8 DEF FailAtOnce, FailOwner, FailReaper, FailUndoing
  <1> QED
    BY ActIsAction, <1>1, <1>2, <1>3, <1>4, <1>5, <1>6, <1>7, <1>8 DEF Actions

\* While q claims the lease directory no other process moves or removes it,
\* or touches the owner.json in it.
LEMMA ClaimRespected ==
    ASSUME LeaseTypeOK, LeaseInv, NEW p \in Proc, Act(p),
           NEW q \in Proc \ {p}, pc[q] \in Claiming
    PROVE  lease' = lease /\ owner'[lease] = owner[lease]
  <1>0. lease # NoDir /\ pc[p] \notin Claiming
    BY DEF LeaseInv, ClaimBacked, OneClaimant
  <1>1. ~ (owner[lease].full /\ status[owner[lease].proc] = "dead")
    <2>1. owner[lease] \in {NoOwner, Draft(q), Me(q)}
      BY DEF LeaseInv, ClaimBacked, Claiming, Creating, Releasing
    <2>2. status[q] = "live"
      BY DEF LeaseInv, OnlyLiveRun, Live, Claiming, Creating, Releasing
    <2> QED
      BY <2>1, <2>2 DEF Me, Draft, NoOwner
  <1>2. ~ Rename(p)
    BY <1>1 DEF LeaseInv, SuspectIsDead, LateReaperPinned, Rename, Reaping
  <1>3. Bury(p) => owner'[lease] = owner[lease] /\ lease' = lease
    BY <1>0 DEF Bury, LeaseInv, TombstonesPrivate, LeaseTypeOK
  <1>4. CASE BeginAcquire(p) \/ Mkdir(p) \/ Inspect(p) \/ Ticks(p) \/ Recheck(p)
             \/ OpenReaper(p) \/ Confirm(p) \/ DropReaper(p)
    BY <1>0, <1>4 DEF BeginAcquire, Mkdir, Inspect, Ticks, Recheck, OpenReaper,
                      Confirm, DropReaper, fs
  <1>5. ~ (Release(p) \/ Stat(p) \/ OpenOwner(p) \/ WriteOwner(p) \/ Verify(p)
             \/ DropOwner(p) \/ DropDir(p) \/ RelUnlink(p) \/ RelRmdir(p) \/ FailOwner(p))
    BY <1>0 DEF FailOwner, Release, Stat, OpenOwner, WriteOwner, Verify, DropOwner, DropDir,
                RelUnlink, RelRmdir, Claiming, Creating, Releasing
  <1>6. CASE FailAtOnce(p) \/ FailReaper(p) \/ FailUndoing(p)
    BY <1>0, <1>6 DEF FailAtOnce, FailReaper, FailUndoing, fs
  <1> QED
    BY ActIsAction, <1>2, <1>3, <1>4, <1>5, <1>6 DEF Actions

\* While q's reaper.json is in the lease directory no other process moves or
\* removes the directory, or takes the file away.
LEMMA ReaperRespected ==
    ASSUME LeaseTypeOK, LeaseInv, NEW p \in Proc, Act(p),
           NEW q \in Proc \ {p}, pc[q] \in Reaping
    PROVE  lease' = lease /\ reaper'[lease] = reaper[lease]
  <1>0. lease # NoDir /\ reaper[lease] = q /\ q # NoProc
    BY DEF LeaseInv, LateReaperPinned
  <1>1. ~ Rename(p)
    BY <1>0 DEF LeaseInv, LateReaperPinned, Rename, Reaping
  <1>2. Bury(p) => reaper'[lease] = reaper[lease] /\ lease' = lease
    BY <1>0 DEF Bury, LeaseInv, TombstonesPrivate, LeaseTypeOK
  <1>3. DropDir(p) \/ RelRmdir(p) => UNCHANGED <<lease, reaper>>
    BY <1>0 DEF DropDir, RelRmdir, Rmdir, Empty
  <1>4. CASE BeginAcquire(p) \/ Release(p) \/ Mkdir(p) \/ Stat(p) \/ OpenOwner(p)
             \/ WriteOwner(p) \/ Verify(p) \/ DropOwner(p) \/ RelUnlink(p)
    BY <1>0, <1>4 DEF BeginAcquire, Release, Mkdir, Stat, OpenOwner, WriteOwner,
                      Verify, DropOwner, RelUnlink, fs
  <1>5. CASE Inspect(p) \/ Ticks(p) \/ Recheck(p) \/ OpenReaper(p) \/ Confirm(p)
             \/ DropReaper(p)
    BY <1>0, <1>5 DEF Inspect, Ticks, Recheck, OpenReaper, Confirm, DropReaper, fs
  <1>6. CASE FailAtOnce(p) \/ FailOwner(p) \/ FailReaper(p) \/ FailUndoing(p)
    BY <1>0, <1>6 DEF FailAtOnce, FailOwner, FailReaper, FailUndoing, fs
  <1> QED
    BY ActIsAction, <1>1, <1>2, <1>3, <1>4, <1>5, <1>6 DEF Actions

-----------------------------------------------------------------------------
(***************************************************************************)
(* Every step preserves the inductive invariant                            *)
(***************************************************************************)
LEMMA ActPreserves ==
    ASSUME LeaseTypeOK, LeaseTypeOK', LeaseInv, NEW p \in Proc, Act(p)
    PROVE  LeaseInv'
  <1>o. /\ status' = status
        /\ \A q \in Proc \ {p} :
             /\ pc'[q] = pc[q]
             /\ view'[q] = view[q]
             /\ serial'[q] = serial[q]
             /\ attempt'[q] = attempt[q]
    BY OthersUntouched
  <1>a. Actions(p) /\ Live(p)
    BY ActIsAction
  <1> USE DEF LeaseTypeOK, Step, Retry, Goto, fs
  <1>1. (lease # NoDir => lease \in alloc)'
    <2>1. CASE BeginAcquire(p) \/ Release(p) \/ Mkdir(p) \/ Stat(p) \/ OpenOwner(p)
               \/ WriteOwner(p) \/ Verify(p) \/ DropOwner(p) \/ DropDir(p)
      BY <2>1 DEF BeginAcquire, Release, Mkdir, Stat, OpenOwner, WriteOwner, Verify,
                  DropOwner, DropDir, Rmdir, LeaseInv
    <2>2. CASE Inspect(p) \/ Ticks(p) \/ Recheck(p) \/ OpenReaper(p) \/ Confirm(p)
      BY <2>2 DEF Inspect, Ticks, Recheck, OpenReaper, Confirm, LeaseInv
    <2>3. CASE Rename(p) \/ DropReaper(p) \/ RelUnlink(p) \/ RelRmdir(p)
      BY <2>3 DEF Rename, DropReaper, RelUnlink, RelRmdir, Rmdir, LeaseInv
    <2>4. CASE Bury(p)
      BY <2>4 DEF Bury, LeaseInv, TombstonesPrivate
    <2>5. CASE FailAtOnce(p) \/ FailOwner(p) \/ FailReaper(p) \/ FailUndoing(p)
      BY <2>5 DEF FailAtOnce, FailOwner, FailReaper, FailUndoing, LeaseInv
    <2> QED
      BY <1>a, <2>1, <2>2, <2>3, <2>4, <2>5 DEF Actions
  <1>2. OnlyLiveRun'
    <2>1. pc'[p] # "idle" => attempt'[p] < MaxAttempts
      <3>1. pc[p] # "idle" => attempt[p] < MaxAttempts
        BY DEF LeaseInv, OnlyLiveRun
      <3>2. CASE BeginAcquire(p) \/ Retry(p)
        BY <3>2 DEF BeginAcquire
      <3>3. CASE attempt' = attempt /\ pc[p] # "idle"
        BY <3>1, <3>3
      <3>4. BeginAcquire(p) \/ Retry(p) \/ (attempt' = attempt /\ pc[p] # "idle")
        BY <1>a DEF Actions, Release, Mkdir, Stat, OpenOwner, WriteOwner, Verify,
           DropOwner, DropDir, Inspect, Ticks, Recheck, OpenReaper, Confirm,
           Rename, Bury, DropReaper, RelUnlink, RelRmdir, FailAtOnce, FailOwner,
           FailReaper, FailUndoing, Suspecting, Releasing
      <3> QED
        BY <3>2, <3>3, <3>4
    <2> QED
      BY <1>o, <1>a, <2>1 DEF LeaseInv, OnlyLiveRun, Live
  <1>3. OwnersStarted'
    <2>1. /\ \A d \in Inode : owner'[d] \in {owner[d], NoOwner, Me(p), Draft(p)}
          /\ view'[p].owner \in {view[p].owner, NoOwner, Me(p)}
                                  \cup {owner[d] : d \in Inode}
      BY OwnersFromFiles
    <2>2. /\ Started(NoOwner) /\ Started(Me(p)) /\ Started(Draft(p))
          /\ \A o : Started(o)' <=> Started(o)
      BY <1>a, <1>o DEF Started, Me, Draft, Live
    <2>3. ASSUME NEW d \in Inode PROVE Started(owner[d])'
      BY <2>1, <2>2 DEF LeaseInv, OwnersStarted
    <2>4. ASSUME NEW q \in Proc PROVE Started(view[q].owner)'
      BY <1>o, <2>1, <2>2 DEF LeaseInv, OwnersStarted
    <2> QED
      BY <2>3, <2>4 DEF OwnersStarted
  <1>4. ASSUME NEW q \in Proc \ {p}, pc'[q] \in Claiming
        PROVE  /\ lease' = lease
               /\ owner'[lease] = owner[lease]
               /\ pc[q] \in Claiming
    BY <1>4, <1>o, ClaimRespected
  <1>5. ClaimBacked'
    <2>1. ASSUME NEW q \in Proc \ {p}, pc'[q] \in Claiming
          PROVE  Me(q)' = Me(q) /\ Draft(q)' = Draft(q)
      BY <1>o DEF Me, Draft
    <2>2. (Me(p)' = Me(p) /\ Draft(p)' = Draft(p)) \/ BeginAcquire(p)
      BY <1>a DEF Actions, Me, Draft, Release, Mkdir, Stat, OpenOwner, WriteOwner,
         Verify, DropOwner, DropDir, Inspect, Ticks, Recheck, OpenReaper, Confirm,
         Rename, Bury, DropReaper, RelUnlink, RelRmdir, FailAtOnce, FailOwner,
         FailReaper, FailUndoing
    <2> DEFINE Backed(q) ==
          pc[q] \in Claiming =>
            /\ lease # NoDir
            /\ pc[q] # "stat" => view[q] = [dir |-> lease, owner |-> Me(q)]
            /\ pc[q] \in {"stat", "openOwner", "relRmdir"} => owner[lease] = NoOwner
            /\ pc[q] = "dropDir" => owner[lease] \in {NoOwner, Draft(q), Me(q)}
            /\ pc[q] = "writeOwner" => owner[lease] = Draft(q)
            /\ pc[q] \in {"verify", "dropOwner", "held", "relUnlink"}
                 => owner[lease] = Me(q)
    <2>3. Backed(p)
      BY DEF LeaseInv, ClaimBacked
    <2>4. ASSUME NEW q \in Proc \ {p} PROVE Backed(q)'
      BY <1>4, <1>o, <2>1, <2>4 DEF LeaseInv, ClaimBacked
    <2>5. Backed(p)'
      <3> USE DEF Claiming, Creating, Releasing
      <3>1. CASE Mkdir(p)
        BY <3>1 DEF Mkdir
      <3>2. CASE Stat(p)
        BY <3>2, <2>2, <2>3 DEF Stat, BeginAcquire
      <3>3. CASE OpenOwner(p)
        BY <3>3, <2>2, <2>3 DEF OpenOwner, BeginAcquire
      <3>4. CASE WriteOwner(p)
        BY <3>4, <2>2, <2>3 DEF WriteOwner, BeginAcquire
      <3>5. CASE Verify(p) \/ Release(p)
        BY <3>5, <2>2, <2>3 DEF Verify, Release, BeginAcquire
      <3>6. CASE DropOwner(p) \/ RelUnlink(p)
        BY <3>6, <2>2, <2>3 DEF DropOwner, RelUnlink, BeginAcquire
      <3>7. CASE BeginAcquire(p) \/ DropDir(p) \/ RelRmdir(p)
        BY <3>7 DEF BeginAcquire, DropDir, RelRmdir
      <3>8. CASE Inspect(p) \/ Ticks(p) \/ Recheck(p) \/ OpenReaper(p) \/ Confirm(p)
        BY <3>8 DEF Inspect, Ticks, Recheck, OpenReaper, Confirm
      <3>9. CASE Rename(p) \/ Bury(p) \/ DropReaper(p)
        BY <3>9 DEF Rename, Bury, DropReaper
      <3>10. CASE FailAtOnce(p) \/ FailReaper(p) \/ FailUndoing(p)
        BY <3>10, <2>2, <2>3 DEF FailAtOnce, FailReaper, FailUndoing, BeginAcquire
      <3>11. CASE FailOwner(p)
        BY <3>11, <2>2, <2>3 DEF FailOwner, BeginAcquire
      <3> QED
        BY <1>a, <3>1, <3>2, <3>3, <3>4, <3>5, <3>6, <3>7, <3>8, <3>9, <3>10, <3>11
           DEF Actions
    <2> QED
      BY <2>4, <2>5 DEF ClaimBacked
  <1>6. OneClaimant'
    <2>1. pc'[p] \in Claiming => pc[p] \in Claiming \/ lease = NoDir
      <3> USE DEF Claiming, Creating, Releasing
      <3>1. CASE BeginAcquire(p) \/ Mkdir(p)
        BY <3>1 DEF BeginAcquire, Mkdir
      <3>2. CASE Inspect(p) \/ Ticks(p) \/ Recheck(p) \/ OpenReaper(p) \/ Confirm(p)
        BY <3>2 DEF Inspect, Ticks, Recheck, OpenReaper, Confirm
      <3>3. CASE Rename(p) \/ Bury(p) \/ DropReaper(p)
        BY <3>3 DEF Rename, Bury, DropReaper
      <3> QED
        BY <1>a, <3>1, <3>2, <3>3 DEF Actions, Release, Stat, OpenOwner, WriteOwner,
           Verify, DropOwner, DropDir, RelUnlink, RelRmdir, FailAtOnce, FailOwner,
           FailReaper, FailUndoing
    <2>2. ASSUME NEW q \in Proc \ {p}, pc'[q] \in Claiming
          PROVE  pc'[p] \notin Claiming
      BY <1>4, <2>1, <2>2 DEF LeaseInv, OneClaimant, ClaimBacked
    <2> QED
      BY <1>4, <2>2 DEF LeaseInv, OneClaimant
  <1>7. SuspectIsDead'
    <2>1. ASSUME pc'[p] \in Suspecting \cup Reaping
          PROVE  /\ view'[p].owner.full
                 /\ pc'[p] # "ticks" => status[view'[p].owner.proc] = "dead"
      <3> USE DEF Suspecting, Reaping
      <3>1. CASE Inspect(p)
        BY <2>1, <3>1 DEF Inspect, ExactlyHeld
      <3>2. CASE Ticks(p)
        <4>1. pc[p] = "ticks" /\ view[p].owner.full
          BY <3>2 DEF Ticks, LeaseInv, SuspectIsDead
        <4>2. pc'[p] # "ticks" /\ view' = view /\ ~ SameTicks(view[p].owner.proc)
          BY <2>1, <3>2 DEF Ticks
        <4>3. view[p].owner.proc \in Proc
          BY <4>1 DEF View, OwnerSlot, OwnerFile, NoOwner
        <4>4. status[view[p].owner.proc] # "live"
          BY <4>2, <4>3 DEF SameTicks, Observed, Live
        <4>5. Started(view[p].owner) /\ view[p].owner # NoOwner
          BY <4>1 DEF LeaseInv, OwnersStarted, NoOwner
        <4> QED
          BY <4>1, <4>2, <4>4, <4>5 DEF Started
      <3>3. CASE Recheck(p) \/ OpenReaper(p) \/ Confirm(p) \/ Rename(p)
        BY <2>1, <3>3 DEF Recheck, OpenReaper, Confirm, Rename, LeaseInv, SuspectIsDead
      <3>4. CASE Bury(p) \/ DropReaper(p) \/ BeginAcquire(p) \/ Release(p) \/ Mkdir(p)
        BY <2>1, <3>4 DEF Bury, DropReaper, BeginAcquire, Release, Mkdir
      <3>5. CASE Stat(p) \/ OpenOwner(p) \/ WriteOwner(p) \/ Verify(p) \/ DropOwner(p)
                 \/ DropDir(p) \/ RelUnlink(p) \/ RelRmdir(p)
        BY <2>1, <3>5 DEF Stat, OpenOwner, WriteOwner, Verify, DropOwner, DropDir,
                          RelUnlink, RelRmdir
      <3>6. CASE FailAtOnce(p) \/ FailOwner(p) \/ FailReaper(p) \/ FailUndoing(p)
        BY <2>1, <3>6 DEF FailAtOnce, FailOwner, FailReaper, FailUndoing, LeaseInv,
           SuspectIsDead
      <3> QED
        BY <1>a, <3>1, <3>2, <3>3, <3>4, <3>5, <3>6 DEF Actions
    <2> QED
      BY <1>o, <2>1 DEF LeaseInv, SuspectIsDead
  <1>8. LateReaperPinned'
    <2>1. ASSUME NEW q \in Proc \ {p}, pc'[q] \in Reaping
          PROVE  /\ lease' # NoDir /\ reaper'[lease'] = q
                 /\ pc'[q] = "rename" =>
                      lease' = view'[q].dir /\ owner'[lease'] = view'[q].owner
      <3>1. lease' = lease /\ reaper'[lease] = reaper[lease] /\ pc[q] \in Reaping
        BY <1>o, <2>1, ReaperRespected
      <3>2. lease # NoDir /\ reaper[lease] = q
        BY <3>1 DEF LeaseInv, LateReaperPinned
      <3>3. CASE pc[q] = "rename"
        <4>1. /\ lease = view[q].dir /\ owner[lease] = view[q].owner
              /\ owner[lease].full /\ status[owner[lease].proc] = "dead"
          BY <3>3 DEF LeaseInv, LateReaperPinned, SuspectIsDead, Reaping
        <4>2. pc[p] \notin Claiming
          <5>1. pc[p] \in Claiming => owner[lease] \in {NoOwner, Draft(p), Me(p)}
            BY DEF LeaseInv, ClaimBacked, Claiming, Creating, Releasing
          <5> QED
            BY <4>1, <5>1, <1>a DEF Me, Draft, NoOwner, Live
        <4>3. owner'[lease] = owner[lease]
          <5>1. CASE Bury(p)
            BY <5>1, <3>2 DEF Bury, LeaseInv, TombstonesPrivate
          <5>2. CASE Mkdir(p)
            BY <5>2, <3>2 DEF Mkdir
          <5>3. CASE owner' = owner
            BY <5>3
          <5>4. Bury(p) \/ Mkdir(p) \/ owner' = owner
            BY <1>a, <4>2 DEF Actions, BeginAcquire, Release, Stat, OpenOwner,
               WriteOwner, Verify, DropOwner, DropDir, Inspect, Ticks, Recheck,
               OpenReaper, Confirm, Rename, DropReaper, RelUnlink, RelRmdir,
               FailAtOnce, FailOwner, FailReaper, FailUndoing,
               Claiming, Creating, Releasing
          <5> QED
            BY <5>1, <5>2, <5>3, <5>4
        <4> QED
          BY <1>o, <3>1, <3>2, <4>1, <4>3
      <3> QED
        BY <1>o, <3>1, <3>2, <3>3
    <2>2. ASSUME pc'[p] \in Reaping
          PROVE  /\ lease' # NoDir /\ reaper'[lease'] = p
                 /\ pc'[p] = "rename" =>
                      lease' = view'[p].dir /\ owner'[lease'] = view'[p].owner
      <3> USE DEF Reaping
      <3>1. CASE OpenReaper(p)
        BY <2>2, <3>1 DEF OpenReaper
      <3>2. CASE Confirm(p)
        BY <2>2, <3>2 DEF Confirm, LeaseInv, LateReaperPinned
      <3>3. CASE Rename(p)
        BY <2>2, <3>3 DEF Rename, LeaseInv, LateReaperPinned
      <3>4. CASE Bury(p) \/ DropReaper(p) \/ BeginAcquire(p) \/ Release(p) \/ Mkdir(p)
                 \/ Stat(p) \/ OpenOwner(p) \/ WriteOwner(p) \/ Verify(p)
        BY <2>2, <3>4 DEF Bury, DropReaper, BeginAcquire, Release, Mkdir, Stat,
                          OpenOwner, WriteOwner, Verify
      <3>5. CASE DropOwner(p) \/ DropDir(p) \/ RelUnlink(p) \/ RelRmdir(p)
                 \/ Inspect(p) \/ Ticks(p) \/ Recheck(p)
        BY <2>2, <3>5 DEF DropOwner, DropDir, RelUnlink, RelRmdir, Inspect, Ticks,
                          Recheck
      <3>6. CASE FailAtOnce(p) \/ FailOwner(p) \/ FailReaper(p) \/ FailUndoing(p)
        BY <2>2, <3>6 DEF FailAtOnce, FailOwner, FailReaper, FailUndoing, LeaseInv,
           LateReaperPinned
      <3> QED
        BY <1>a, <3>1, <3>2, <3>3, <3>4, <3>5, <3>6 DEF Actions
    <2>3. ASSUME NEW q \in Proc
          PROVE  /\ pc'[q] \in Reaping => lease' # NoDir /\ reaper'[lease'] = q
                 /\ pc'[q] = "rename" =>
                      lease' = view'[q].dir /\ owner'[lease'] = view'[q].owner
      <3>1. pc'[q] = "rename" => pc'[q] \in Reaping
        BY DEF Reaping
      <3>2. CASE q = p
        BY <2>2, <3>1, <3>2
      <3>3. CASE q # p
        BY <2>1, <3>1, <3>3
      <3> QED
        BY <3>2, <3>3
    <2> QED
      BY <2>3 DEF LateReaperPinned
  <1>9. TombstonesPrivate'
    <2>1. ASSUME NEW q \in Proc, pc'[q] = "bury", ~ Rename(p) \/ q # p
          PROVE  pc[q] = "bury" /\ view'[q] = view[q] /\ ~ (Bury(p) /\ q = p)
      <3>1. CASE q # p
        BY <1>o, <2>1, <3>1
      <3>2. CASE q = p
        BY <1>a, <2>1, <3>2 DEF Actions, BeginAcquire, Release, Mkdir, Stat, OpenOwner,
           WriteOwner, Verify, DropOwner, DropDir, Inspect, Ticks, Recheck,
           OpenReaper, Confirm, Bury, DropReaper, RelUnlink, RelRmdir, FailAtOnce,
           FailOwner, FailReaper, FailUndoing
      <3> QED
        BY <3>1, <3>2
    <2>2. CASE Rename(p)
      BY <1>o, <2>1, <2>2 DEF Rename, LeaseInv, TombstonesPrivate
    <2>3. CASE Bury(p)
      BY <2>1, <2>3 DEF Bury, LeaseInv, TombstonesPrivate, Rename
    <2>4. CASE Mkdir(p)
      BY <2>1, <2>4 DEF Mkdir, LeaseInv, TombstonesPrivate, Rename
    <2>5. CASE DropDir(p) \/ RelRmdir(p)
      BY <2>1, <2>5 DEF DropDir, RelRmdir, Rmdir, LeaseInv, TombstonesPrivate, Rename
    <2>6. CASE UNCHANGED <<lease, alloc>> /\ ~ Rename(p)
      BY <2>1, <2>6 DEF LeaseInv, TombstonesPrivate
    <2> QED
      BY <1>a, <2>2, <2>3, <2>4, <2>5, <2>6 DEF Actions, BeginAcquire, Release, Stat,
         OpenOwner, WriteOwner, Verify, DropOwner, Inspect, Ticks, Recheck,
         OpenReaper, Confirm, DropReaper, RelUnlink, Rename, FailAtOnce, FailOwner,
         FailReaper, FailUndoing, Suspecting, Releasing
  <1> QED
    BY <1>1, <1>2, <1>3, <1>5, <1>6, <1>7, <1>8, <1>9 DEF LeaseInv

LEMMA StartPreserves ==
    ASSUME LeaseTypeOK, LeaseInv, NEW p \in Proc, Start(p)
    PROVE  LeaseInv'
  <1> USE DEF LeaseTypeOK, LeaseInv, Start, fs
  <1>0. /\ UNCHANGED <<pc, serial, attempt, view, lease, alloc, owner, reaper>>
        /\ status[p] = "unborn"
        /\ status'[p] = "live"
        /\ \A q \in Proc \ {p} : status'[q] = status[q]
    OBVIOUS
  <1>1. OnlyLiveRun'
    BY <1>0 DEF OnlyLiveRun, Live
  <1>2. OwnersStarted'
    <2>1. ASSUME NEW o \in OwnerSlot, Started(o) PROVE Started(o)'
      BY <1>0, <2>1 DEF Started, OwnerSlot, OwnerFile
    <2> QED
      BY <1>0, <2>1 DEF OwnersStarted, View
  <1>3. ClaimBacked' /\ OneClaimant' /\ LateReaperPinned' /\ TombstonesPrivate'
    BY <1>0 DEF ClaimBacked, OneClaimant, LateReaperPinned, TombstonesPrivate, Me, Draft
  <1>4. SuspectIsDead'
    BY <1>0 DEF SuspectIsDead, OwnersStarted, Started
  <1> QED
    BY <1>0, <1>1, <1>2, <1>3, <1>4

\* The death of p may strike inside a claim or while its reaper.json is out:
\* it then no longer claims or reaps, and the files stay as they are.
LEMMA DiePreserves ==
    ASSUME LeaseTypeOK, LeaseInv, NEW p \in Proc, Die(p)
    PROVE  LeaseInv'
  <1> USE DEF LeaseTypeOK, LeaseInv, Die, fs
  <1>0. /\ UNCHANGED <<serial, attempt, lease, alloc, owner, reaper>>
        /\ status'[p] = "dead" /\ pc'[p] = "idle" /\ view'[p] = NoView
        /\ \A q \in Proc \ {p} :
             status'[q] = status[q] /\ pc'[q] = pc[q] /\ view'[q] = view[q]
    OBVIOUS
  <1>1. OnlyLiveRun'
    BY <1>0 DEF OnlyLiveRun, Live
  <1>2. OwnersStarted'
    <2>1. ASSUME NEW o \in OwnerSlot, Started(o) PROVE Started(o)'
      BY <1>0, <2>1 DEF Started, OwnerSlot, OwnerFile
    <2>2. ASSUME NEW d \in Inode PROVE Started(owner[d])'
      BY <1>0, <2>1 DEF OwnersStarted
    <2>3. ASSUME NEW q \in Proc PROVE Started(view[q].owner)'
      <3>1. CASE q = p
        BY <1>0, <3>1 DEF Started, NoView
      <3>2. CASE q # p
        BY <1>0, <2>1, <3>2 DEF OwnersStarted, View
      <3> QED
        BY <3>1, <3>2
    <2> QED
      BY <2>2, <2>3 DEF OwnersStarted
  <1>3. ClaimBacked'
    <2>1. ASSUME NEW q \in Proc, pc'[q] \in Claiming
          PROVE  /\ pc'[q] = pc[q] /\ view'[q] = view[q]
                 /\ Me(q)' = Me(q) /\ Draft(q)' = Draft(q)
      BY <1>0, <2>1 DEF Claiming, Creating, Releasing, Me, Draft
    <2>2. ASSUME NEW q \in Proc, pc'[q] \in Claiming
          PROVE  /\ lease' # NoDir
                 /\ pc'[q] # "stat" => view'[q] = [dir |-> lease', owner |-> Me(q)']
                 /\ pc'[q] \in {"stat", "openOwner", "relRmdir"}
                      => owner'[lease'] = NoOwner
                 /\ pc'[q] = "dropDir"
                      => owner'[lease'] \in {NoOwner, Draft(q)', Me(q)'}
                 /\ pc'[q] = "writeOwner" => owner'[lease'] = Draft(q)'
                 /\ pc'[q] \in {"verify", "dropOwner", "held", "relUnlink"}
                      => owner'[lease'] = Me(q)'
      BY <1>0, <2>1, <2>2 DEF ClaimBacked
    <2> QED
      BY <2>2 DEF ClaimBacked
  <1>4. OneClaimant'
    BY <1>0 DEF OneClaimant, Claiming, Creating, Releasing
  <1>5. SuspectIsDead'
    BY <1>0, <1>1 DEF SuspectIsDead, Suspecting, Reaping
  <1>6. LateReaperPinned' /\ TombstonesPrivate'
    BY <1>0 DEF LateReaperPinned, TombstonesPrivate, Reaping
  <1> QED
    BY <1>0, <1>1, <1>2, <1>3, <1>4, <1>5, <1>6

LEMMA InitInv == Init => LeaseInv
  BY DEF Init, LeaseInv, OnlyLiveRun, OwnersStarted, Started, ClaimBacked, OneClaimant,
     SuspectIsDead, LateReaperPinned, TombstonesPrivate, NoView, Claiming, Creating,
     Releasing, Suspecting, Reaping

LEMMA NextInv == LeaseTypeOK /\ LeaseInv /\ [Next]_vars => LeaseTypeOK' /\ LeaseInv'
  <1> SUFFICES ASSUME LeaseTypeOK, LeaseInv, [Next]_vars
               PROVE  LeaseTypeOK' /\ LeaseInv'
    OBVIOUS
  <1>1. LeaseTypeOK'
    BY NextTypeOK DEF LeaseInv
  <1>2. CASE UNCHANGED vars
    <2> USE <1>2 DEF vars, LeaseInv
    <2>1. OnlyLiveRun' /\ OwnersStarted'
      BY DEF OnlyLiveRun, Live, OwnersStarted, Started
    <2>2. ClaimBacked'
      BY DEF ClaimBacked, Me, Draft
    <2>3. OneClaimant' /\ SuspectIsDead' /\ LateReaperPinned' /\ TombstonesPrivate'
      BY DEF OneClaimant, SuspectIsDead, LateReaperPinned, TombstonesPrivate
    <2>4. (lease # NoDir => lease \in alloc)'
      OBVIOUS
    <2> QED
      BY <1>1, <2>1, <2>2, <2>3, <2>4
  <1>3. ASSUME NEW p \in Proc, Start(p) \/ Die(p) \/ Act(p)
        PROVE  LeaseInv'
    BY <1>1, <1>3, StartPreserves, DiePreserves, ActPreserves
  <1> QED
    BY <1>1, <1>2, <1>3 DEF Next, Act, Progress

-----------------------------------------------------------------------------
\* Whatever the number of contenders, however late they are and whatever the
\* callback answers, the inductive invariant holds in every reachable state.
THEOREM LeaseInvariant == Spec => [](LeaseTypeOK /\ LeaseInv)
  BY InitTypeOK, InitInv, NextInv, PTL DEF Spec

\* A returned handle stays backed by its directory and owner.json until it is
\* released or its process dies: what assertOwned has found stays true until
\* the link or rename of writeState that follows it.
THEOREM HandleStaysBacked == Spec => []HandleBacked
  <1>1. LeaseTypeOK /\ LeaseInv => HandleBacked
    <2> SUFFICES ASSUME LeaseInv, NEW p \in Proc, pc[p] = "held"
                 PROVE  lease # NoDir /\ lease = view[p].dir /\ owner[lease] = Me(p)
      BY DEF HandleBacked
    <2>1. view[p] = [dir |-> lease, owner |-> Me(p)]
      BY DEF LeaseInv, ClaimBacked, Claiming
    <2> QED
      BY <2>1 DEF LeaseInv, ClaimBacked, Claiming
  <1> QED
    BY <1>1, LeaseInvariant, PTL

\* Docs: "A live exact PID/start-ticks instance cannot be reclaimed even if a
\* callback attempts to permit it".
THEOREM LiveIsNeverReclaimed == Spec => LiveNeverReclaimed
  <1> DEFINE Moved == lease # NoDir /\ lease' = NoDir /\ lease \in alloc'
             OwnerDead == \E q \in Proc : q = owner[lease].proc /\ status[q] = "dead"
  <1>1. LeaseTypeOK /\ LeaseInv /\ [Next]_vars => (Moved => OwnerDead)
    <2> SUFFICES ASSUME LeaseTypeOK, LeaseInv, [Next]_vars, Moved
                 PROVE  OwnerDead
      OBVIOUS
    <2>1. PICK p \in Proc : Rename(p)
      <3>1. ASSUME NEW p \in Proc, Start(p) \/ Die(p)
            PROVE  FALSE
        BY <3>1 DEF Start, Die, fs
      <3>2. ASSUME NEW p \in Proc, Act(p), ~ Rename(p)
            PROVE  FALSE
        <4>1. ~ (DropDir(p) \/ RelRmdir(p) \/ Mkdir(p))
          BY DEF DropDir, RelRmdir, Rmdir, Mkdir, fs, LeaseTypeOK
        <4> QED
          BY <3>2, <4>1, ActIsAction DEF Actions, BeginAcquire, Release, Stat,
             OpenOwner, WriteOwner, Verify, DropOwner, Inspect, Ticks, Recheck,
             OpenReaper, Confirm, Bury, DropReaper, RelUnlink, FailAtOnce, FailOwner,
             FailReaper, FailUndoing, fs
      <3> QED
        BY <3>1, <3>2 DEF Next, Act, Progress, vars
    <2>2. /\ owner[lease].full
          /\ status[owner[lease].proc] = "dead"
      BY <2>1 DEF Rename, LeaseInv, LateReaperPinned, SuspectIsDead, Reaping
    <2>3. owner[lease].proc \in Proc
      BY <2>2 DEF LeaseTypeOK, OwnerSlot, OwnerFile, NoOwner
    <2> QED
      BY <2>2, <2>3
  <1> QED
    BY <1>1, LeaseInvariant, PTL DEF Spec, LiveNeverReclaimed

\* A lease that a crash or an error has left incomplete, or with a reaper.json
\* that no reaper is going to remove, is never taken over, completed or removed.
THEOREM WedgedStaysForever == Spec => FailClosed
  <1>1. LeaseTypeOK /\ LeaseInv /\ [Next]_vars => (Wedged => Wedged' /\ lease' = lease)
    <2> SUFFICES ASSUME LeaseTypeOK, LeaseInv, [Next]_vars, Wedged
                 PROVE  Wedged' /\ lease' = lease
      OBVIOUS
    <2>1. CASE UNCHANGED vars
      BY <2>1 DEF vars, Wedged
    <2>2. ASSUME NEW p \in Proc, Start(p)
          PROVE  Wedged' /\ lease' = lease
      BY <2>2 DEF Start, fs, Wedged, LeaseTypeOK
    <2>3. ASSUME NEW p \in Proc, Die(p)
          PROVE  Wedged' /\ lease' = lease
      BY <2>3 DEF Die, fs, Wedged, LeaseTypeOK, Claiming, Creating, Releasing, Reaping
    <2>4. ASSUME NEW p \in Proc, Act(p)
          PROVE  Wedged' /\ lease' = lease
      <3>0. /\ status' = status /\ status[p] = "live" /\ lease # NoDir
            /\ \A q \in Proc \ {p} : pc'[q] = pc[q]
            /\ Actions(p)
        BY <2>4, OthersUntouched, ActIsAction DEF Act, Live, Wedged
      <3>1. CASE ~ owner[lease].full /\ \A q \in Proc : pc[q] \notin Claiming
        <4>1. ~ Rename(p)
          BY <3>1 DEF Rename, LeaseInv, LateReaperPinned, SuspectIsDead, Reaping
        <4>2. Bury(p) => owner'[lease] = owner[lease] /\ lease' = lease /\ pc'[p] \notin Claiming
          BY <3>0 DEF Bury, LeaseInv, TombstonesPrivate, LeaseTypeOK, Retry, Goto,
             Claiming, Creating, Releasing
        <4>3. CASE UNCHANGED <<lease, owner>> /\ pc'[p] \notin Claiming
          BY <3>0, <3>1, <4>3 DEF Wedged
        <4>4. BeginAcquire(p) \/ Mkdir(p) \/ Inspect(p) \/ Ticks(p) \/ Recheck(p)
                \/ OpenReaper(p) \/ Confirm(p) \/ DropReaper(p) \/ Bury(p)
                \/ FailAtOnce(p) \/ FailReaper(p) \/ FailUndoing(p)
          BY <3>0, <3>1, <4>1 DEF Actions, Release, Stat, OpenOwner, WriteOwner, Verify,
             DropOwner, DropDir, RelUnlink, RelRmdir, FailOwner, Claiming, Creating,
             Releasing
        <4>5. CASE BeginAcquire(p) \/ Mkdir(p) \/ Inspect(p) \/ Ticks(p) \/ Recheck(p)
          BY <3>0, <4>3, <4>5 DEF BeginAcquire, Mkdir, Inspect, Ticks, Recheck, fs, Step,
             Retry, Goto, LeaseTypeOK, Claiming, Creating, Releasing
        <4>6. CASE OpenReaper(p) \/ Confirm(p) \/ DropReaper(p)
          BY <3>0, <4>3, <4>6 DEF OpenReaper, Confirm, DropReaper, fs, Step,
             Retry, Goto, LeaseTypeOK, Claiming, Creating, Releasing
        <4>7. CASE FailAtOnce(p) \/ FailReaper(p) \/ FailUndoing(p)
          BY <3>0, <3>1, <4>3, <4>7 DEF FailAtOnce, FailReaper, FailUndoing, fs, Step,
             Goto, LeaseTypeOK, Claiming, Creating, Releasing
        <4> QED
          BY <3>0, <3>1, <4>2, <4>4, <4>5, <4>6, <4>7 DEF Wedged
      <3>2. ASSUME NEW q \in Proc, reaper[lease] = q, pc[q] \notin Reaping
            PROVE  Wedged' /\ lease' = lease
        <4>0. reaper[lease] # NoProc
          BY <3>2
        <4>1. ~ Rename(p) /\ ~ FailReaper(p)
          BY <3>2, <4>0 DEF Rename, FailReaper, LeaseInv, LateReaperPinned, Reaping
        <4>r. DropReaper(p) => p # q
          BY <3>2 DEF DropReaper, Reaping
        <4>s. OpenReaper(p) => UNCHANGED <<lease, reaper>> /\ pc'[p] = "idle"
          BY <3>0, <4>0 DEF OpenReaper, Step, Goto, LeaseTypeOK
        <4>2. Bury(p) => reaper'[lease] = reaper[lease] /\ lease' = lease
          BY <3>0 DEF Bury, LeaseInv, TombstonesPrivate, LeaseTypeOK
        <4>3. DropDir(p) \/ RelRmdir(p) => UNCHANGED <<lease, reaper>>
          BY <4>0 DEF DropDir, RelRmdir, Rmdir, Empty
        <4>4. DropReaper(p) => UNCHANGED <<lease, reaper>>
          BY <3>2, <4>r DEF DropReaper
        <4>5. lease' = lease /\ reaper'[lease] = reaper[lease]
          BY <3>0, <4>1, <4>2, <4>3, <4>4, <4>s DEF Actions, BeginAcquire, Release,
             Mkdir, Stat, OpenOwner, WriteOwner, Verify, DropOwner, Inspect, Ticks,
             Recheck, Confirm, RelUnlink, FailAtOnce, FailOwner, FailUndoing, fs
        \* A reaper enters only by creating a file that is not there.
        <4>6. pc'[q] \notin Reaping
          <5>1. CASE q # p
            BY <3>0, <3>2, <5>1
          <5>2. CASE q = p
            <6>1. CASE OpenReaper(p)
              BY <4>s, <5>2, <6>1 DEF Reaping
            <6>2. CASE BeginAcquire(p) \/ Release(p) \/ Mkdir(p) \/ Stat(p) \/ OpenOwner(p)
                       \/ WriteOwner(p) \/ Verify(p) \/ DropOwner(p) \/ DropDir(p)
              BY <5>2, <6>2 DEF BeginAcquire, Release, Mkdir, Stat, OpenOwner, WriteOwner,
                 Verify, DropOwner, DropDir, Step, Goto, LeaseTypeOK, Reaping
            <6>3. CASE Inspect(p) \/ Ticks(p) \/ Recheck(p) \/ Bury(p) \/ RelUnlink(p)
                       \/ RelRmdir(p)
              BY <5>2, <6>3 DEF Inspect, Ticks, Recheck, Bury, RelUnlink, RelRmdir, Step,
                 Retry, Goto, LeaseTypeOK, Reaping
            <6>4. CASE FailAtOnce(p) \/ FailOwner(p) \/ FailUndoing(p)
              BY <3>2, <5>2, <6>4 DEF FailAtOnce, FailOwner, FailUndoing, Step, Goto,
                 LeaseTypeOK, Reaping
            <6>5. ~ Confirm(p)
              BY <3>2, <5>2 DEF Confirm, Reaping
            <6> QED
              BY <3>0, <4>1, <4>r, <5>2, <6>1, <6>2, <6>3, <6>4, <6>5 DEF Actions
          <5> QED
            BY <5>1, <5>2
        <4> QED
          BY <3>0, <3>2, <4>5, <4>6 DEF Wedged
      <3> QED
        BY <3>1, <3>2 DEF Wedged
    <2> QED
      BY <2>1, <2>2, <2>3, <2>4 DEF Next, Act, Progress
  <1> QED
    BY <1>1, LeaseInvariant, PTL DEF Spec, FailClosed

-----------------------------------------------------------------------------
(***************************************************************************)
(* RolloutLease implements ExclusiveLease                                  *)
(***************************************************************************)
LEMMA HolderIsUnique ==
    ASSUME OneClaimant
    PROVE  /\ \A p \in Proc : pc[p] = "held" => Holder = p
           /\ (\A p \in Proc : pc[p] # "held") => Holder = NoProc
  <1>1. ASSUME NEW p \in Proc, NEW q \in Proc, pc[p] = "held", pc[q] = "held"
        PROVE  p = q
    BY <1>1 DEF OneClaimant, Claiming
  <1> QED
    BY <1>1 DEF Holder

LEMMA NextHolderIsUnique ==
    ASSUME OneClaimant'
    PROVE  /\ \A p \in Proc : pc'[p] = "held" => Holder' = p
           /\ (\A p \in Proc : pc'[p] # "held") => Holder' = NoProc
  <1>1. ASSUME NEW p \in Proc, NEW q \in Proc, pc'[p] = "held", pc'[q] = "held"
        PROVE  p = q
    BY <1>1 DEF OneClaimant, Claiming
  <1> QED
    BY <1>1 DEF Holder

\* The directories, owner.json and reaper.json of the code implement the
\* exclusive lease: only a live instance acquires it, only when no live one
\* holds it, and it leaves its holder by release or by death.
THEOREM LeaseKeepsPromise == Spec => KeepsPromise
  <1>1. Init => Promise!LeaseInit
    BY DEF Init, Promise!LeaseInit, Holder
  <1>2. LeaseTypeOK /\ LeaseInv /\ LeaseInv' /\ [Next]_vars
          => [Promise!LeaseNext]_(Promise!leaseVars)
    <2> SUFFICES ASSUME LeaseTypeOK, LeaseInv, LeaseInv', [Next]_vars
                 PROVE  [Promise!LeaseNext]_(Promise!leaseVars)
      OBVIOUS
    <2>0. OneClaimant /\ OneClaimant'
      BY DEF LeaseInv
    <2>a. /\ \A p \in Proc : pc[p] = "held" => Holder = p
          /\ (\A p \in Proc : pc[p] # "held") => Holder = NoProc
      BY <2>0, HolderIsUnique
    <2>b. /\ \A p \in Proc : pc'[p] = "held" => Holder' = p
          /\ (\A p \in Proc : pc'[p] # "held") => Holder' = NoProc
      BY <2>0, NextHolderIsUnique
    <2>1. CASE UNCHANGED vars
      BY <2>1 DEF vars, Promise!leaseVars, Holder
    <2>2. ASSUME NEW p \in Proc, Start(p) PROVE Promise!Start(p)
      BY <2>2 DEF Start, Promise!Start, Holder
    <2>3. ASSUME NEW p \in Proc, Die(p) PROVE Promise!Die(p)
      <3>1. /\ status[p] = "live"
            /\ status' = [status EXCEPT ![p] = "dead"]
            /\ pc'[p] = "idle" /\ \A q \in Proc \ {p} : pc'[q] = pc[q]
        BY <2>3 DEF Die, Live, LeaseTypeOK
      <3>2. Holder' = IF Holder = p THEN NoProc ELSE Holder
        BY <2>a, <2>b, <3>1
      <3> QED
        BY <3>1, <3>2 DEF Promise!Die
    <2>4. ASSUME NEW p \in Proc, Act(p)
          PROVE  \/ Promise!Acquire(p) \/ Promise!Release(p)
                 \/ UNCHANGED Promise!leaseVars
      <3>0. /\ status' = status /\ status[p] = "live"
            /\ \A q \in Proc \ {p} : pc'[q] = pc[q]
        BY <2>4, OthersUntouched DEF Act, Live
      <3>1. CASE pc[p] = "held" /\ pc'[p] # "held"
        BY <2>a, <2>b, <3>0, <3>1, <2>0 DEF OneClaimant, Claiming, Promise!Release
      <3>2. CASE pc[p] # "held" /\ pc'[p] = "held"
        <4>1. Verify(p)
          BY <2>4, <3>2, ActIsAction DEF Actions, BeginAcquire, Release, Mkdir, Stat,
             OpenOwner, WriteOwner, DropOwner, DropDir, Inspect, Ticks, Recheck,
             OpenReaper, Confirm, Rename, Bury, DropReaper, RelUnlink, RelRmdir,
             FailAtOnce, FailOwner, FailReaper, FailUndoing, Step, Retry, Goto,
             LeaseTypeOK
        <4>2. pc[p] \in Claiming
          BY <4>1 DEF Verify, Claiming, Creating
        <4>3. \A q \in Proc : pc[q] # "held"
          BY <2>0, <3>2, <4>2 DEF OneClaimant, Claiming
        <4> QED
          BY <2>a, <2>b, <3>0, <3>2, <4>3 DEF Promise!Acquire
      <3>3. CASE (pc[p] = "held") <=> (pc'[p] = "held")
        <4>1. Holder' = Holder
          BY <2>a, <2>b, <3>0, <3>3
        <4> QED
          BY <3>0, <4>1 DEF Promise!leaseVars
      <3> QED
        BY <3>1, <3>2, <3>3
    <2> QED
      BY <2>1, <2>2, <2>3, <2>4 DEF Next, Act, Progress, Promise!LeaseNext
  <1> QED
    BY <1>1, <1>2, LeaseInvariant, PTL DEF Spec, KeepsPromise, Promise!LeaseSpec
=============================================================================
