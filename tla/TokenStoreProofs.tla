-------------------------- MODULE TokenStoreProofs --------------------------
(***************************************************************************)
(* The safety of TokenStore, for any instances, tokens and calls.          *)
(*                                                                         *)
(* LockInv says which calls may touch an instance, FileInv relates caches  *)
(* and snapshots to the file, OwnInv and FreshInv say what a cache knows   *)
(* of revocations: those of its own instance at once, those of others      *)
(* after an interval.                                                      *)
(***************************************************************************)
EXTENDS TokenStore, FiniteSetTheorems, TLAPS

TypeInv ==
    /\ file \in Records
    /\ version \in Nat
    /\ lock \in Mutation \cup {Nobody}
    /\ records \in [Store -> Records]
    /\ known \in [Store -> Nat]
    /\ next \in [Store -> Nat]
    /\ refresh \in [Store -> {"none", "inspect", "same", "open", "read"}]
    /\ snap \in [Store -> [records : Records, version : Nat]]
    /\ mutating \in [Store -> Mutation \cup {Nobody}]
    /\ call \in [Verify \cup Mutation -> VerifyStage \cup MutationStage]
    /\ \A v \in Verify : call[v] \in VerifyStage
    /\ \A m \in Mutation : call[m] \in MutationStage
    /\ now \in 0 .. MaxTime
    /\ born \in [Verify -> [time : 0 .. MaxTime, own : BOOLEAN]]
    /\ acked \in [Token -> 0 .. Never]

Reloaded == {"renaming", "syncing", "changed", "unchanged", "broken"}
Locked == Reloaded \cup {"reloading", "unread"}
Active == Locked \cup {"settling", "locking"}

\* A mutation under way is that of its instance; from acquireLock to the release
\* it holds the lock, and no refresh of its instance is in flight.
LockInv ==
    /\ \A m \in Mutation : call[m] \in Locked => lock = m
    /\ \A m \in Mutation : call[m] \in Active => mutating[At[m]] = m
    /\ \A p \in Store : mutating[p] # Nobody =>
           At[mutating[p]] = p /\ call[mutating[p]] \in Active
    /\ \A m \in Mutation :
           call[m] \in Locked \cup {"locking"} => refresh[At[m]] = "none"

-----------------------------------------------------------------------------
\* What the actions of verification leave alone.
LEMMA SettledFrame ==
    ASSUME TypeInv, NEW p \in Store, NEW recs \in Records, NEW fp \in Nat,
           NEW verdict \in [Verify -> VerifyStage],
           Settled(p, recs, fp, verdict)
    PROVE  TypeInv' /\ \A m \in Mutation : call'[m] = call[m]
<1>1. \A m \in Mutation : m \notin Waiting(p) /\ call'[m] = call[m]
  BY StoreConstants DEF TypeInv, Settled, Waiting, Mutation
<1>2. \A v \in Verify : call'[v] \in VerifyStage
  BY DEF TypeInv, Settled
<1>3. call' \in [Verify \cup Mutation -> VerifyStage \cup MutationStage]
  BY <1>1, <1>2 DEF TypeInv, Settled
<1>4. NoSnapshot \in [records : Records, version : Nat]
  BY DEF NoSnapshot, Records, Empty, Status
<1> QED
  BY <1>1, <1>2, <1>3, <1>4 DEF TypeInv, Settled, disk, ghosts

\* A verdict is the end of a verification.
LEMMA VerdictType == \A recs, v : Verdict(recs, v) \in VerifyStage
BY DEF Verdict, VerifyStage

\* The initial state has its type.
LEMMA TypeInit == Init => TypeInv
<1> SUFFICES ASSUME Init PROVE TypeInv
  OBVIOUS
<1>1. NoSnapshot \in [records : Records, version : Nat] /\ file \in Records
  BY DEF Init, NoSnapshot, Records, Empty, Status
<1>6. version \in Nat /\ now \in 0 .. MaxTime /\ next \in [Store -> Nat]
  BY StoreConstants DEF Init
<1>2. known \in [Store -> Nat] /\ records \in [Store -> Records]
  <2>1. known = [p \in Store |-> version] /\ records = [p \in Store |-> file]
    BY DEF Init
  <2> QED
    BY <1>1, <1>6, <2>1
<1>3. /\ lock \in Mutation \cup {Nobody}
      /\ refresh \in [Store -> {"none", "inspect", "same", "open", "read"}]
      /\ snap \in [Store -> [records : Records, version : Nat]]
      /\ mutating \in [Store -> Mutation \cup {Nobody}]
  BY <1>1 DEF Init
<1>4. /\ call \in [Verify \cup Mutation -> VerifyStage \cup MutationStage]
      /\ \A v \in Verify : call[v] \in VerifyStage
      /\ \A m \in Mutation : call[m] \in MutationStage
  BY DEF Init, VerifyStage, MutationStage
<1>5. /\ born \in [Verify -> [time : 0 .. MaxTime, own : BOOLEAN]]
      /\ acked \in [Token -> 0 .. Never]
  BY StoreConstants DEF Init, Never
<1> QED
  BY <1>1, <1>6, <1>2, <1>3, <1>4, <1>5 DEF TypeInv

\* Every step keeps the types, and verification does not touch mutations.
LEMMA VerifyFrame ==
    ASSUME TypeInv,
           \/ \E v \in Verify : BeginVerify(v)
           \/ \E p \in Store : Refreshing(p)
    PROVE  /\ TypeInv'
           /\ \A m \in Mutation : call'[m] = call[m]
           /\ UNCHANGED <<file, version, lock, mutating, now, acked>>
<1> USE StoreConstants
<1>1. ASSUME NEW v \in Verify, BeginVerify(v)
      PROVE  /\ TypeInv' /\ (\A m \in Mutation : call'[m] = call[m])
             /\ UNCHANGED <<file, version, lock, mutating, now, acked>>
  <2>1. At[v] \in Store /\ v \notin Mutation
    BY DEF Mutation
  <2>2. call' \in [Verify \cup Mutation -> VerifyStage \cup MutationStage]
        /\ (\A m \in Mutation : call'[m] = call[m])
        /\ (\A w \in Verify : call'[w] \in VerifyStage)
    <3>1. ASSUME NEW x \in VerifyStage, call' = [call EXCEPT ![v] = x]
          PROVE  call' \in [Verify \cup Mutation -> VerifyStage \cup MutationStage]
                 /\ (\A m \in Mutation : call'[m] = call[m])
                 /\ (\A w \in Verify : call'[w] \in VerifyStage)
      BY <2>1, <3>1 DEF TypeInv
    <3>2. \E x \in VerifyStage : call' = [call EXCEPT ![v] = x]
      BY <1>1, VerdictType DEF BeginVerify, LookUp, VerifyStage
    <3> QED
      BY <3>1, <3>2
  <2>3. /\ next' \in [Store -> Nat]
        /\ refresh' \in [Store -> {"none", "inspect", "same", "open", "read"}]
    <3>1. CASE UNCHANGED <<next, refresh>>
      BY <3>1 DEF TypeInv
    <3>2. CASE /\ next' = [next EXCEPT ![At[v]] = now + Interval]
               /\ refresh' = [refresh EXCEPT ![At[v]] = "inspect"]
      BY <2>1, <3>2 DEF TypeInv
    <3> QED
      BY <1>1, <3>1, <3>2 DEF BeginVerify, LookUp
  <2>4. born' \in [Verify -> [time : 0 .. MaxTime, own : BOOLEAN]]
    BY <1>1 DEF BeginVerify, TypeInv, OwnRevoked
  <2> QED
    BY <1>1, <2>2, <2>3, <2>4 DEF BeginVerify, TypeInv, disk, cache
<1>2. ASSUME NEW p \in Store, Inspect(p) \/ OpenSnapshot(p)
      PROVE  /\ TypeInv' /\ (\A m \in Mutation : call'[m] = call[m])
             /\ UNCHANGED <<file, version, lock, mutating, now, acked>>
  <2>1. /\ refresh' \in [Store -> {"none", "inspect", "same", "open", "read"}]
        /\ snap' \in [Store -> [records : Records, version : Nat]]
    <3>1. CASE /\ refresh' = [refresh EXCEPT ![p] =
                                  IF version = known[p] THEN "same" ELSE "open"]
               /\ snap' = snap
      BY <3>1 DEF TypeInv
    <3>2. CASE /\ refresh' = [refresh EXCEPT ![p] = "read"]
               /\ snap' = [snap EXCEPT ![p] = [records |-> file, version |-> version]]
      <4>1. [records |-> file, version |-> version] \in [records : Records, version : Nat]
        BY DEF TypeInv
      <4> QED
        BY <3>2, <4>1 DEF TypeInv
    <3> QED
      BY <1>2, <3>1, <3>2 DEF Inspect, OpenSnapshot
  <2>2. UNCHANGED <<file, version, lock, records, known, next, mutating, call, now, born, acked>>
    BY <1>2 DEF Inspect, OpenSnapshot, disk, cache, ghosts
  <2> QED
    BY <2>1, <2>2 DEF TypeInv
<1>3. ASSUME NEW p \in Store, RefreshEnds(p) \/ RefreshFails(p)
      PROVE  /\ TypeInv' /\ (\A m \in Mutation : call'[m] = call[m])
             /\ UNCHANGED <<file, version, lock, mutating, now, acked>>
  <2>1. \E recs \in Records, fp \in Nat, verdict \in [Verify -> VerifyStage] :
            Settled(p, recs, fp, verdict)
    <3>1. Empty \in Records /\ "failed" \in VerifyStage
      BY DEF Empty, Records, Status, VerifyStage
    <3>2. /\ records[p] \in Records /\ known[p] \in Nat
          /\ snap[p].records \in Records /\ snap[p].version \in Nat
      BY DEF TypeInv
    <3>3. CASE RefreshEnds(p)
      BY <3>2, <3>3, VerdictType DEF RefreshEnds
    <3>4. CASE RefreshFails(p)
      BY <3>1, <3>4 DEF RefreshFails
    <3> QED
      BY <1>3, <3>3, <3>4
  <2>2. PICK recs \in Records, fp \in Nat, verdict \in [Verify -> VerifyStage] :
            Settled(p, recs, fp, verdict)
    BY <2>1
  <2> QED
    BY <2>2, SettledFrame DEF Settled, disk, ghosts
<1> QED
  BY <1>1, <1>2, <1>3 DEF Refreshing

\* Issuing, revoking and undoing make records of records.
LEMMA RecordOps ==
    ASSUME NEW recs \in Records, NEW m \in Mutation
    PROVE  Applied(m, recs) \in Records /\ Undone(m, recs) \in Records
BY StoreConstants DEF Applied, Undone, Records, Status

\* Every step of a mutation keeps the types and moves no other call.
LEMMA MutateFrame ==
    ASSUME TypeInv, NEW m \in Mutation, BeginMutation(m) \/ Progress(m)
    PROVE  /\ TypeInv'
           /\ \E s \in MutationStage : call' = [call EXCEPT ![m] = s]
           /\ UNCHANGED <<refresh, snap, now, born>>
<1> USE StoreConstants
<1>0. /\ m \notin Verify /\ At[m] \in Store /\ Of[m] \in Token
      /\ file \in Records /\ records[At[m]] \in Records
  BY DEF TypeInv, Mutation
<1>1. \E s \in MutationStage : call' = [call EXCEPT ![m] = s]
  BY DEF BeginMutation, Progress, Settle, Acquire, LockFails, Reload, ReloadFails, Rename, Sync,
         PersistFails, Release, MutationStage
<1>2. /\ call' \in [Verify \cup Mutation -> VerifyStage \cup MutationStage]
      /\ \A v \in Verify : call'[v] \in VerifyStage
      /\ \A n \in Mutation : call'[n] \in MutationStage
  BY <1>0, <1>1 DEF TypeInv
<1>3. UNCHANGED <<refresh, snap, now, born>>
  BY DEF BeginMutation, Progress, Settle, Acquire, LockFails, Reload, ReloadFails, Rename, Sync,
         PersistFails, Release, reading, ghosts
<1>4. \/ UNCHANGED <<next, mutating>>
      \/ UNCHANGED next /\ mutating' = [mutating EXCEPT ![At[m]] = m]
      \/ Unmutate(m)
  BY DEF BeginMutation, Progress, Settle, Acquire, LockFails, Reload, ReloadFails, Rename, Sync,
         PersistFails, Release
<1>5. next' \in [Store -> Nat] /\ mutating' \in [Store -> Mutation \cup {Nobody}]
  <2>1. now + Interval \in Nat
    BY DEF TypeInv
  <2>2. CASE Unmutate(m)
    BY <1>0, <2>1, <2>2 DEF TypeInv, Unmutate
  <2>3. CASE ~Unmutate(m)
    BY <1>0, <1>4, <2>3 DEF TypeInv
  <2> QED
    BY <2>2, <2>3
<1>6. lock' \in Mutation \cup {Nobody}
  BY DEF BeginMutation, Progress, Settle, Acquire, LockFails, Reload, ReloadFails, Rename, Sync,
         PersistFails, Release, TypeInv
<1>7. \/ UNCHANGED acked
      \/ acked' = [acked EXCEPT ![Of[m]] = now]
  BY DEF BeginMutation, Progress, Settle, Acquire, LockFails, Reload, ReloadFails, Rename, Sync,
         PersistFails, Release, ghosts
<1>8. acked' \in [Token -> 0 .. Never]
  <2>1. now \in 0 .. Never
    BY DEF TypeInv, Never
  <2> QED
    BY <1>0, <1>7, <2>1 DEF TypeInv
<1>9. \/ UNCHANGED <<file, version>>
      \/ file' = records[At[m]] /\ version' = version + 1
  BY DEF BeginMutation, Progress, Settle, Acquire, LockFails, Reload, ReloadFails, Rename, Sync,
         PersistFails, Release, disk
<1>10. file' \in Records /\ version' \in Nat
  BY <1>0, <1>9 DEF TypeInv
<1>11. \E recs \in Records : records' = [records EXCEPT ![At[m]] = recs]
  <2>1. CASE UNCHANGED records
    BY <1>0, <2>1 DEF TypeInv
  <2>2. CASE Reload(m)
    BY <1>0, <2>2, RecordOps DEF Reload
  <2>3. CASE PersistFails(m)
    BY <1>0, <2>3, RecordOps DEF PersistFails, TypeInv
  <2> QED
    BY <2>1, <2>2, <2>3 DEF BeginMutation, Progress, Settle, Acquire, LockFails, ReloadFails,
       Rename, Sync, Release, cache
<1>12. UNCHANGED known \/ known' = [known EXCEPT ![At[m]] = version]
  BY DEF BeginMutation, Progress, Settle, Acquire, LockFails, Reload, ReloadFails, Rename, Sync,
         PersistFails, Release, cache
<1>13. records' \in [Store -> Records] /\ known' \in [Store -> Nat]
  BY <1>0, <1>11, <1>12 DEF TypeInv
<1> QED
  BY <1>1, <1>2, <1>3, <1>5, <1>6, <1>8, <1>10, <1>13 DEF TypeInv

\* The passing of time keeps the types.
LEMMA TickFrame == ASSUME TypeInv, Tick PROVE TypeInv' /\ now' = now + 1
BY StoreConstants DEF Tick, TypeInv, disk, cache, reading, ghosts

-----------------------------------------------------------------------------
\* Verification keeps LockInv: it begins a refresh only where no mutation is under way.
LEMMA LockVerify ==
    ASSUME TypeInv, LockInv,
           \/ \E v \in Verify : BeginVerify(v)
           \/ \E p \in Store : Refreshing(p)
    PROVE  LockInv'
<1>1. \A m \in Mutation : At[m] \in Store /\ m # Nobody
  BY StoreConstants DEF Mutation
<1>2. (\A m \in Mutation : call'[m] = call[m]) /\ UNCHANGED <<lock, mutating>>
  BY VerifyFrame
<1>3. ASSUME NEW p \in Store, refresh[p] = "none", refresh'[p] # "none"
      PROVE  mutating[p] = Nobody
  <2>1. CASE \E v \in Verify : BeginVerify(v)
    <3>1. PICK v \in Verify : BeginVerify(v)
      BY <2>1
    <3>2. At[v] \in Store
      BY StoreConstants
    <3> QED
      BY <1>3, <3>1, <3>2 DEF BeginVerify, LookUp, TypeInv
  <2>2. CASE \E q \in Store : Refreshing(q)
    BY <1>3, <2>2 DEF Refreshing, Inspect, OpenSnapshot, RefreshEnds, RefreshFails, Settled, TypeInv
  <2> QED
    BY <2>1, <2>2
<1>4. ASSUME NEW m \in Mutation, call[m] \in Locked \cup {"locking"}
      PROVE  refresh'[At[m]] = "none"
  BY <1>1, <1>3, <1>4 DEF LockInv, Active
<1>5. \A p \in Store : mutating[p] # Nobody => mutating[p] \in Mutation
  BY DEF TypeInv
<1> QED
  BY <1>1, <1>2, <1>4, <1>5 DEF LockInv

\* A mutation keeps LockInv.
LEMMA LockMutate ==
    ASSUME TypeInv, LockInv, NEW m \in Mutation, BeginMutation(m) \/ Progress(m)
    PROVE  LockInv'
<1>1. \A n \in Mutation : At[n] \in Store /\ n # Nobody
  BY StoreConstants DEF Mutation
<1>2. /\ call \in [Verify \cup Mutation -> VerifyStage \cup MutationStage]
      /\ mutating \in [Store -> Mutation \cup {Nobody}]
  BY DEF TypeInv
<1>3. CASE BeginMutation(m)
  BY <1>1, <1>2, <1>3 DEF LockInv, BeginMutation, Active, Locked, Reloaded, reading
<1>4. CASE Settle(m)
  BY <1>1, <1>2, <1>4 DEF LockInv, Settle, Active, Locked, Reloaded, reading
<1>5. CASE Acquire(m)
  BY <1>1, <1>2, <1>5 DEF LockInv, Acquire, Active, Locked, Reloaded, reading
<1>6. CASE LockFails(m)
  BY <1>1, <1>2, <1>6 DEF LockInv, LockFails, Unmutate, Active, Locked, Reloaded, reading
<1>7. CASE Reload(m) \/ ReloadFails(m) \/ Rename(m) \/ Sync(m) \/ PersistFails(m)
  <2>1. /\ call[m] \in Locked
        /\ \E s \in Reloaded \cup {"unread"} : call' = [call EXCEPT ![m] = s]
        /\ UNCHANGED <<lock, mutating, refresh>>
    BY <1>7 DEF Reload, ReloadFails, Rename, Sync, PersistFails, Locked, Reloaded, reading
  <2> QED
    BY <1>1, <1>2, <2>1 DEF LockInv, Active, Locked, Reloaded
<1>8. CASE Release(m)
  <2>1. /\ call[m] \in Locked /\ lock = m /\ UNCHANGED refresh
        /\ \E s \in {"done", "none", "failed", "missed"} : call' = [call EXCEPT ![m] = s]
        /\ mutating' = [mutating EXCEPT ![At[m]] = Nobody]
    BY <1>8 DEF LockInv, Release, Unmutate, Locked, Reloaded, reading
  <2>2. \A n \in Mutation : n # m => call[n] \notin Locked
    BY <2>1 DEF LockInv
  <2> QED
    BY <1>1, <1>2, <2>1, <2>2 DEF LockInv, Active, Locked, Reloaded
<1> QED
  BY <1>3, <1>4, <1>5, <1>6, <1>7, <1>8 DEF Progress

-----------------------------------------------------------------------------
\* Caches and snapshots that pass for current are current; a mutation that is about
\* to be persisted is the file and its change; what has been persisted stays.
CachesInv ==
    /\ \A p \in Store : known[p] <= version
    /\ \A p \in Store : known[p] = version /\ (mutating[p] = Nobody \/ call[mutating[p]] # "renaming")
                            => records[p] = file
    /\ \A p \in Store : refresh[p] = "read" =>
           snap[p].version <= version /\ (snap[p].version = version => snap[p].records = file)
    /\ version = 0 => file = Empty

PersistInv ==
    /\ \A m \in Mutation : call[m] = "renaming" =>
           Applies(m, file) /\ records[At[m]] = Applied(m, file) /\ known[At[m]] = version
    /\ \A m \in Mutation : call[m] = "syncing" =>
           records[At[m]] = file /\ known[At[m]] # version
    /\ \A m \in Mutation : call[m] \in {"changed", "unchanged"} => records[At[m]] = file

StaysInv ==
    /\ \A m \in Issue : call[m] \in {"idle", "settling", "locking", "reloading", "renaming"} =>
           file[Of[m]] = "absent"
    /\ \A m \in Issue : call[m] \in {"syncing", "changed", "done"} => file[Of[m]] # "absent"
    /\ \A m \in Revoke : call[m] \in {"syncing", "changed", "done"} => file[Of[m]] = "revoked"
    /\ \A t \in Token : acked[t] # Never => file[t] = "revoked"

FileInv == CachesInv /\ PersistInv /\ StaysInv

\* What is undone was not there before.
LEMMA UndoneApplied ==
    ASSUME NEW recs \in Records, NEW m \in Mutation,
           recs[Of[m]] = IF m \in Issue THEN "absent" ELSE "valid"
    PROVE  Undone(m, Applied(m, recs)) = recs
BY StoreConstants DEF Undone, Applied, Records, Mutation

\* The token of a mutation that changes something has the state that it undoes to.
LEMMA AppliesTo ==
    ASSUME StaysInv, NEW m \in Mutation, Applies(m, file), call[m] \in {"reloading", "renaming"}
    PROVE  file[Of[m]] = IF m \in Issue THEN "absent" ELSE "valid"
BY DEF StaysInv, Applies, Mutation

\* Verification keeps FileInv.
LEMMA FileVerify ==
    ASSUME TypeInv, LockInv, FileInv,
           \/ \E v \in Verify : BeginVerify(v)
           \/ \E p \in Store : Refreshing(p)
    PROVE  FileInv'
<1>1. /\ \A m \in Mutation : call'[m] = call[m]
      /\ UNCHANGED <<file, version, lock, mutating, now, acked>>
  BY VerifyFrame
<1>2. StaysInv'
  BY <1>1 DEF FileInv, StaysInv, Mutation
<1>3. \A m \in Mutation : At[m] \in Store /\ m # Nobody
  BY StoreConstants DEF Mutation
<1>4. \A p \in Store : mutating[p] # Nobody => mutating[p] \in Mutation
  BY DEF TypeInv
<1>5. CASE UNCHANGED <<records, known>>
  <2>1. \A p \in Store : refresh'[p] = "read" =>
            \/ refresh[p] = "read" /\ snap'[p] = snap[p]
            \/ snap'[p] = [records |-> file, version |-> version]
    <3>1. CASE \E v \in Verify : BeginVerify(v)
      <4>1. PICK v \in Verify : BeginVerify(v)
        BY <3>1
      <4>2. At[v] \in Store
        BY StoreConstants
      <4> QED
        BY <4>1, <4>2 DEF BeginVerify, LookUp, TypeInv
    <3>2. CASE \E q \in Store : Refreshing(q)
      BY <3>2 DEF Refreshing, Inspect, OpenSnapshot, RefreshEnds, RefreshFails, Settled, TypeInv
    <3> QED
      BY <3>1, <3>2
  <2>2. version \in Nat
    BY DEF TypeInv
  <2>3. CachesInv'
    BY <1>1, <1>4, <1>5, <2>1, <2>2 DEF FileInv, CachesInv
  <2>4. PersistInv'
    BY <1>1, <1>5 DEF FileInv, PersistInv, Applies, Applied
  <2> QED
    BY <1>2, <2>3, <2>4 DEF FileInv
<1>6. ASSUME NEW p \in Store, NEW recs, NEW fp \in Nat, NEW verdict,
             Settled(p, recs, fp, verdict), refresh[p] # "none",
             fp <= version, fp = version => recs = file
      PROVE  FileInv'
  <2>1. /\ records' = [records EXCEPT ![p] = recs] /\ known' = [known EXCEPT ![p] = fp]
        /\ refresh' = [refresh EXCEPT ![p] = "none"] /\ snap' = [snap EXCEPT ![p] = NoSnapshot]
    BY <1>6 DEF Settled
  <2>2. CachesInv'
    BY <1>1, <1>4, <1>6, <2>1 DEF FileInv, CachesInv, TypeInv
  <2>3. \A m \in Mutation : call[m] \in Locked => At[m] # p
    BY <1>6 DEF LockInv
  <2>4. PersistInv'
    BY <1>1, <1>3, <2>1, <2>3 DEF FileInv, PersistInv, Applies, Applied, TypeInv, Locked, Reloaded
  <2> QED
    BY <1>2, <2>2, <2>4 DEF FileInv
<1>7. ASSUME NEW p \in Store, RefreshEnds(p) PROVE FileInv'
  <2>1. CASE refresh[p] = "same"
    <3>1. UNCHANGED <<records, known>>
      BY <1>7, <2>1 DEF RefreshEnds, Settled, TypeInv
    <3> QED
      BY <1>5, <3>1
  <2>2. CASE refresh[p] = "read"
    <3>1. /\ Settled(p, snap[p].records, snap[p].version,
                     [v \in Verify |-> Verdict(snap[p].records, v)])
          /\ snap[p].version \in Nat
      BY <1>7, <2>2 DEF RefreshEnds, TypeInv
    <3>2. /\ snap[p].version <= version
          /\ snap[p].version = version => snap[p].records = file
      BY <2>2 DEF FileInv, CachesInv
    <3> QED
      BY <1>6, <2>2, <3>1, <3>2
  <2> QED
    BY <1>7, <2>1, <2>2 DEF RefreshEnds
<1>8. ASSUME NEW p \in Store, RefreshFails(p) PROVE FileInv'
  <2>1. Settled(p, Empty, 0, [v \in Verify |-> "failed"]) /\ refresh[p] # "none"
    BY <1>8 DEF RefreshFails
  <2>2. 0 <= version /\ (0 = version => Empty = file)
    BY DEF FileInv, CachesInv, TypeInv
  <2> QED
    BY <1>6, <2>1, <2>2
<1>9. CASE \E v \in Verify : BeginVerify(v)
  BY <1>5, <1>9 DEF BeginVerify, cache
<1>10. CASE \E p \in Store : Inspect(p) \/ OpenSnapshot(p)
  BY <1>5, <1>10 DEF Inspect, OpenSnapshot, cache
<1> QED
  BY <1>7, <1>8, <1>9, <1>10 DEF Refreshing

\* A step of a mutation that leaves the file and the caches alone keeps FileInv, if
\* what the new stage says of them is so.
LEMMA StageKeeps ==
    ASSUME TypeInv, LockInv, FileInv, NEW m \in Mutation, NEW s \in MutationStage,
           call' = [call EXCEPT ![m] = s], s # "renaming", s # "syncing",
           call[m] # "renaming", call[m] \in Active \cup {"idle"},
           UNCHANGED <<file, version, records, known, refresh, snap>>,
           s \in {"changed", "unchanged"} => records[At[m]] = file,
           s \in {"idle", "settling", "locking", "reloading"} =>
               call[m] \in {"idle", "settling", "locking", "reloading"},
           s \in {"changed", "done"} => call[m] \in {"syncing", "changed"},
           \A p \in Store : mutating'[p] = mutating[p] \/ (p = At[m] /\ mutating'[p] \in {m, Nobody}),
           call[m] = "idle" => mutating[At[m]] = Nobody,
           \A t \in Token : acked'[t] # Never => acked[t] # Never \/ file[t] = "revoked"
    PROVE  FileInv'
<1>0. /\ call \in [Verify \cup Mutation -> VerifyStage \cup MutationStage]
      /\ At[m] \in Store /\ m # Nobody
      /\ \A n \in Mutation : At[n] \in Store /\ n # Nobody
      /\ \A p \in Store : mutating[p] # Nobody => mutating[p] \in Mutation
  BY StoreConstants DEF TypeInv, Mutation
<1>1. /\ \A n \in Mutation : n # m => call'[n] = call[n]
      /\ call'[m] = s
  BY <1>0 DEF Mutation
<1>2. ASSUME NEW p \in Store, known[p] = version,
             mutating'[p] = Nobody \/ call'[mutating'[p]] # "renaming"
      PROVE  records[p] = file
  <2>1. CASE p = At[m]
    <3>1. mutating[p] = Nobody \/ mutating[p] = m
      BY <1>0, <2>1 DEF LockInv
    <3> QED
      BY <1>2, <3>1 DEF FileInv, CachesInv
  <2>2. CASE p # At[m]
    <3>1. mutating[p] # m
      BY <1>0, <2>2 DEF LockInv
    <3>2. mutating'[p] = mutating[p]
      BY <2>2
    <3> QED
      BY <1>0, <1>1, <1>2, <3>1, <3>2 DEF FileInv, CachesInv
  <2> QED
    BY <2>1, <2>2
<1>3. CachesInv'
  BY <1>2 DEF FileInv, CachesInv
<1>4. PersistInv'
  BY <1>1 DEF FileInv, PersistInv, Applies, Applied
<1>5. StaysInv'
  BY <1>1 DEF FileInv, StaysInv, Mutation
<1> QED
  BY <1>3, <1>4, <1>5 DEF FileInv

\* A mutation keeps FileInv.
LEMMA FileMutate ==
    ASSUME TypeInv, LockInv, FileInv, NEW m \in Mutation, BeginMutation(m) \/ Progress(m)
    PROVE  FileInv'
<1>0. /\ call \in [Verify \cup Mutation -> VerifyStage \cup MutationStage]
      /\ mutating \in [Store -> Mutation \cup {Nobody}]
      /\ records \in [Store -> Records] /\ known \in [Store -> Nat] /\ version \in Nat
      /\ file \in Records
      /\ At[m] \in Store /\ Of[m] \in Token /\ m # Nobody
      /\ \A n \in Mutation : At[n] \in Store /\ Of[n] \in Token /\ n # Nobody
  BY StoreConstants DEF TypeInv, Mutation
<1> DEFINE Others == \A n \in Mutation \ {m} : call[n] \notin Locked
<1>1. call[m] \in Locked => Others /\ mutating[At[m]] = m
  BY DEF LockInv, Active
<1>2. CASE BeginMutation(m)
  <2>1. "settling" \in MutationStage
    BY DEF MutationStage
  <2> QED
    BY <1>0, <1>2, <2>1, StageKeeps DEF BeginMutation, disk, cache, reading, ghosts
<1>3. CASE Settle(m)
  <2>1. "locking" \in MutationStage /\ "settling" \in Active
    BY DEF MutationStage, Active
  <2> QED
    BY <1>0, <1>3, <2>1, StageKeeps DEF Settle, disk, cache, reading, ghosts
<1>4. CASE Acquire(m)
  <2>1. "reloading" \in MutationStage /\ "locking" \in Active
    BY DEF MutationStage, Active
  <2> QED
    BY <1>0, <1>4, <2>1, StageKeeps DEF Acquire, disk, cache, reading, ghosts
<1>5. CASE LockFails(m)
  <2>1. "missed" \in MutationStage /\ "locking" \in Active
    BY DEF MutationStage, Active
  <2> QED
    BY <1>0, <1>5, <2>1, StageKeeps DEF LockFails, Unmutate, disk, cache, reading, ghosts
<1>6. CASE ReloadFails(m)
  <2>1. "unread" \in MutationStage /\ "reloading" \in Active
    BY DEF MutationStage, Active, Locked
  <2> QED
    BY <1>0, <1>6, <2>1, StageKeeps DEF ReloadFails, disk, cache, reading, ghosts
<1>7. CASE Release(m)
  <2>1. /\ call[m] \in {"changed", "unchanged", "broken", "unread"} /\ call[m] \in Active
        /\ UNCHANGED <<file, version, records, known, refresh, snap>>
        /\ mutating' = [mutating EXCEPT ![At[m]] = Nobody]
    BY <1>7 DEF Release, Unmutate, Active, Locked, Reloaded, disk, cache, reading
  <2>2. \A t \in Token : acked'[t] # Never => acked[t] # Never \/ file[t] = "revoked"
    <3>1. CASE UNCHANGED acked
      BY <3>1
    <3>2. CASE m \in Revoke /\ call[m] = "changed" /\ acked' = [acked EXCEPT ![Of[m]] = now]
      BY <1>0, <3>2 DEF FileInv, StaysInv, TypeInv
    <3> QED
      BY <1>7, <3>1, <3>2 DEF Release
  <2>3. \E s \in {"done", "none", "failed", "missed"} :
            call' = [call EXCEPT ![m] = s] /\ (s = "done" => call[m] = "changed")
    BY <1>7 DEF Release
  <2>4. {"done", "none", "failed", "missed"} \subseteq MutationStage
    BY DEF MutationStage
  <2>5. \A p \in Store : mutating'[p] = mutating[p] \/ (p = At[m] /\ mutating'[p] \in {m, Nobody})
    BY <1>0, <2>1
  <2> QED
    BY <2>1, <2>2, <2>3, <2>4, <2>5, StageKeeps
<1>8. CASE Reload(m)
  <2>1. /\ call[m] = "reloading" /\ Others /\ mutating[At[m]] = m
        /\ UNCHANGED <<file, version, refresh, snap, mutating, acked>>
        /\ known' = [known EXCEPT ![At[m]] = version]
    BY <1>1, <1>8 DEF Reload, Locked, disk, reading, ghosts
  <2>2. \/ /\ Applies(m, file) /\ call' = [call EXCEPT ![m] = "renaming"]
           /\ records' = [records EXCEPT ![At[m]] = Applied(m, file)]
        \/ /\ call' = [call EXCEPT ![m] = "unchanged"]
           /\ records' = [records EXCEPT ![At[m]] = file]
    BY <1>8 DEF Reload
  <2>3. \A n \in Mutation : n # m => call'[n] = call[n] /\ call[n] \notin Locked
    BY <1>0, <2>1, <2>2 DEF Mutation
  <2>4. call'[m] \in {"renaming", "unchanged"}
    BY <1>0, <2>2 DEF Mutation
  <2>5. CachesInv'
    <3>1. ASSUME NEW p \in Store, known'[p] = version,
                 mutating[p] = Nobody \/ call'[mutating[p]] # "renaming"
          PROVE  records'[p] = file
      <4>1. CASE p = At[m]
        <5>1. call'[m] = "unchanged"
          BY <1>0, <2>1, <2>4, <3>1, <4>1
        <5> QED
          BY <1>0, <2>2, <4>1, <5>1
      <4>2. CASE p # At[m]
        <5>1. /\ known'[p] = known[p] /\ records'[p] = records[p]
              /\ mutating[p] # m
              /\ mutating[p] # Nobody => call'[mutating[p]] = call[mutating[p]]
          BY <1>0, <2>1, <2>2, <2>3, <4>2 DEF LockInv
        <5> QED
          BY <3>1, <5>1 DEF FileInv, CachesInv
      <4> QED
        BY <4>1, <4>2
    <3> QED
      BY <1>0, <2>1, <3>1 DEF FileInv, CachesInv
  <2>6. PersistInv'
    BY <1>0, <2>1, <2>2, <2>3 DEF PersistInv, Locked, Reloaded, Applies, Applied, Mutation
  <2>7. StaysInv'
    BY <2>1, <2>3, <2>4 DEF FileInv, StaysInv, Mutation
  <2> QED
    BY <2>5, <2>6, <2>7 DEF FileInv
<1>9. CASE Rename(m)
  <2>1. /\ call[m] = "renaming" /\ Others /\ mutating[At[m]] = m
        /\ UNCHANGED <<records, known, refresh, snap, mutating, acked>>
        /\ version' = version + 1 /\ file' = Applied(m, file) /\ file' = records[At[m]]
        /\ Applies(m, file) /\ call' = [call EXCEPT ![m] = "syncing"]
    BY <1>1, <1>9 DEF Rename, Locked, Reloaded, cache, reading, ghosts, FileInv, PersistInv
  <2>2. \A n \in Mutation : n # m => call'[n] = call[n] /\ call[n] \notin Locked
    BY <1>0, <2>1 DEF Mutation
  <2>3. call'[m] = "syncing"
    BY <1>0, <2>1 DEF Mutation
  <2>4. /\ file[Of[m]] = (IF m \in Issue THEN "absent" ELSE "valid")
        /\ \A t \in Token : file'[t] =
               IF t = Of[m] THEN (IF m \in Issue THEN "valid" ELSE "revoked") ELSE file[t]
    <3>1. file[Of[m]] = (IF m \in Issue THEN "absent" ELSE "valid")
      BY <2>1, AppliesTo DEF FileInv
    <3> QED
      BY <1>0, <2>1, <3>1 DEF Applied, Records
  <2>5. CachesInv'
    <3>1. \A p \in Store : known[p] <= version /\ known[p] \in Nat
      BY <1>0 DEF FileInv, CachesInv
    <3>2. \A p \in Store : refresh[p] = "read" =>
              snap[p].version <= version /\ snap[p].version \in Nat
      BY DEF FileInv, CachesInv, TypeInv
    <3> QED
      BY <1>0, <2>1, <3>1, <3>2 DEF CachesInv
  <2>6. PersistInv'
    <3>1. known[At[m]] <= version
      BY <1>0 DEF FileInv, CachesInv
    <3> QED
      BY <1>0, <2>1, <2>2, <2>3, <3>1 DEF PersistInv, Locked, Reloaded
  <2>7. StaysInv'
    <3>1. \A n \in Issue \ {m} :
              call'[n] \in {"idle", "settling", "locking", "reloading", "renaming"} =>
                  Of[n] # Of[m]
      <4>1. \A n \in Issue \ {m} :
                call'[n] \in {"idle", "settling", "locking", "reloading", "renaming"} =>
                    file[Of[n]] = "absent"
        BY <2>2 DEF FileInv, StaysInv, Mutation
      <4> QED
        BY <2>4, <4>1, FreshTokens
    <3>2. m \in Issue => m \notin Revoke
      BY StoreConstants
    <3> QED
      BY <1>0, <2>1, <2>2, <2>3, <2>4, <3>1, <3>2 DEF FileInv, StaysInv, Mutation
  <2> QED
    BY <2>5, <2>6, <2>7 DEF FileInv
<1>10. CASE Sync(m)
  <2>1. /\ call[m] = "syncing" /\ Others /\ mutating[At[m]] = m
        /\ UNCHANGED <<file, version, records, refresh, snap, mutating, acked>>
        /\ known' = [known EXCEPT ![At[m]] = version]
        /\ records[At[m]] = file /\ call' = [call EXCEPT ![m] = "changed"]
    BY <1>1, <1>10 DEF Sync, Locked, Reloaded, disk, reading, ghosts, FileInv, PersistInv
  <2>2. \A n \in Mutation : n # m => call'[n] = call[n] /\ call[n] \notin Locked
    BY <1>0, <2>1 DEF Mutation
  <2>3. call'[m] = "changed"
    BY <1>0, <2>1 DEF Mutation
  <2>4. CachesInv'
    <3>1. ASSUME NEW p \in Store, p # At[m]
          PROVE  /\ mutating[p] # m /\ known'[p] = known[p]
                 /\ mutating[p] # Nobody => call'[mutating[p]] = call[mutating[p]]
      BY <1>0, <2>1, <2>2, <3>1 DEF LockInv
    <3>2. known'[At[m]] = version /\ records[At[m]] = file
      BY <1>0, <2>1
    <3> QED
      BY <1>0, <2>1, <3>1, <3>2 DEF FileInv, CachesInv
  <2>5. PersistInv'
    BY <1>0, <2>1, <2>2, <2>3 DEF PersistInv, Locked, Reloaded
  <2>6. StaysInv'
    BY <2>1, <2>2, <2>3 DEF FileInv, StaysInv, Mutation
  <2> QED
    BY <2>4, <2>5, <2>6 DEF FileInv
<1>11. CASE PersistFails(m)
  <2>1. /\ call[m] \in {"renaming", "syncing"} /\ Others /\ mutating[At[m]] = m
        /\ UNCHANGED <<file, version, known, refresh, snap, mutating, acked>>
        /\ records' = [records EXCEPT ![At[m]] = Undone(m, records[At[m]])]
        /\ call' = [call EXCEPT ![m] = "broken"]
    BY <1>1, <1>11 DEF PersistFails, Locked, Reloaded, disk, reading, ghosts
  <2>2. \A n \in Mutation : n # m => call'[n] = call[n] /\ call[n] \notin Locked
    BY <1>0, <2>1 DEF Mutation
  <2>3. call'[m] = "broken"
    BY <1>0, <2>1 DEF Mutation
  <2>4. known[At[m]] = version => records'[At[m]] = file
    <3>1. CASE call[m] = "renaming"
      <4>1. Applies(m, file) /\ records[At[m]] = Applied(m, file)
        BY <3>1 DEF FileInv, PersistInv
      <4>2. file[Of[m]] = IF m \in Issue THEN "absent" ELSE "valid"
        BY <3>1, <4>1, AppliesTo DEF FileInv
      <4> QED
        BY <1>0, <2>1, <4>1, <4>2, UndoneApplied
    <3>2. CASE call[m] = "syncing"
      BY <3>2 DEF FileInv, PersistInv
    <3> QED
      BY <2>1, <3>1, <3>2
  <2>5. CachesInv'
    <3>1. ASSUME NEW p \in Store, p # At[m]
          PROVE  /\ mutating[p] # m /\ records'[p] = records[p]
                 /\ mutating[p] # Nobody => call'[mutating[p]] = call[mutating[p]]
      BY <1>0, <2>1, <2>2, <3>1 DEF LockInv
    <3> QED
      BY <1>0, <2>1, <2>4, <3>1 DEF FileInv, CachesInv
  <2>6. PersistInv'
    BY <1>0, <2>1, <2>2, <2>3 DEF PersistInv, Locked, Reloaded
  <2>7. StaysInv'
    BY <2>1, <2>2, <2>3 DEF FileInv, StaysInv, Mutation
  <2> QED
    BY <2>5, <2>6, <2>7 DEF FileInv
<1> QED
  BY <1>2, <1>3, <1>4, <1>5, <1>6, <1>7, <1>8, <1>9, <1>10, <1>11 DEF Progress
-----------------------------------------------------------------------------
\* Time, and whatever leaves all but time alone, keeps both.
LEMMA TickKeeps ==
    ASSUME TypeInv, LockInv, FileInv, Tick \/ UNCHANGED vars
    PROVE  TypeInv' /\ LockInv' /\ FileInv'
<1>1. TypeInv'
  BY TickFrame DEF vars, TypeInv
<1>2. UNCHANGED <<file, version, lock, records, known, refresh, snap, mutating, call, acked>>
  BY DEF vars, Tick, disk, cache, reading, ghosts
<1>3. LockInv'
  BY <1>2 DEF LockInv
<1>4. CachesInv'
  BY <1>2 DEF FileInv, CachesInv
<1>5. PersistInv' /\ StaysInv'
  BY <1>2 DEF FileInv, PersistInv, StaysInv, Applies, Applied
<1> QED
  BY <1>1, <1>3, <1>4, <1>5 DEF FileInv

\* At the beginning every cache is the file and nothing is under way.
LEMMA LockFileInit == Init => LockInv /\ FileInv
<1> SUFFICES ASSUME Init PROVE LockInv /\ FileInv
  OBVIOUS
<1>1. \A m \in Mutation : call[m] = "idle"
  BY DEF Init
<1>2. \A p \in Store : mutating[p] = Nobody /\ refresh[p] = "none" /\ records[p] = file
                       /\ known[p] = version
  BY DEF Init
<1>3. LockInv
  BY <1>1, <1>2 DEF LockInv, Active, Locked, Reloaded
<1>4. CachesInv
  <2>1. version \in Nat
    BY DEF Init
  <2>2. version = 0 => file = Empty
    BY DEF Init, Empty
  <2> QED
    BY <1>2, <2>1, <2>2 DEF CachesInv
<1>5. PersistInv
  BY <1>1 DEF PersistInv
<1>6. StaysInv
  <2>1. \A m \in Issue : file[Of[m]] = "absent"
    BY FreshTokens, StoreConstants DEF Init, Mutation
  <2>2. \A t \in Token : acked[t] = Never
    BY DEF Init
  <2> QED
    BY <1>1, <2>1, <2>2 DEF StaysInv, Mutation
<1> QED
  BY <1>3, <1>4, <1>5, <1>6 DEF FileInv

StoreInv == TypeInv /\ LockInv /\ FileInv

\* The invariant holds always, whatever fails and however long refreshes take.
THEOREM StoreInvariant == Spec => []StoreInv
<1>1. Init => StoreInv
  BY TypeInit, LockFileInit DEF StoreInv
<1>2. StoreInv /\ [Next]_vars => StoreInv'
  <2> SUFFICES ASSUME StoreInv, [Next]_vars PROVE StoreInv'
    OBVIOUS
  <2>1. CASE \/ \E v \in Verify : BeginVerify(v)
             \/ \E p \in Store : Refreshing(p)
    BY <2>1, VerifyFrame, LockVerify, FileVerify DEF StoreInv
  <2>2. ASSUME NEW m \in Mutation, BeginMutation(m) \/ Progress(m) PROVE StoreInv'
    BY <2>2, MutateFrame, LockMutate, FileMutate DEF StoreInv
  <2>3. CASE Tick \/ UNCHANGED vars
    BY <2>3, TickKeeps DEF StoreInv
  <2> QED
    BY <2>1, <2>2, <2>3 DEF Next
<1> QED
  BY <1>1, <1>2, PTL DEF Spec

\* A cache that passes for current holds what the file holds, whatever failed on
\* the way.
THEOREM CachesAreHonest == Spec => []CacheHonest
<1>1. StoreInv => CacheHonest
  BY DEF StoreInv, FileInv, CachesInv, CacheHonest
<1> QED
  BY <1>1, StoreInvariant, PTL

\* What issue and revoke have acknowledged is in the file and stays there.
THEOREM AcknowledgedStays == Spec => []AckedStays
<1>1. StoreInv => AckedStays
  BY DEF StoreInv, FileInv, StaysInv, AckedStays
<1> QED
  BY <1>1, StoreInvariant, PTL
-----------------------------------------------------------------------------
\* What an instance has revoked is valid neither in its cache nor in a snapshot that
\* would replace it; a second revocation of the token cannot come near the file.
OwnInv ==
    /\ \A m \in Revoke : call[m] = "done" =>
           /\ records[At[m]][Of[m]] # "valid"
           /\ refresh[At[m]] = "read" => snap[At[m]].records[Of[m]] # "valid"
    /\ \A m \in Revoke, n \in Revoke :
           call[m] = "done" /\ call[n] = "syncing" => Of[m] # Of[n]
    /\ \A v \in Verify : born[v].own => OwnRevoked(At[v], Of[v]) /\ call[v] # "accepted"

\* What verification does to the cache, the snapshot and the calls of an instance.
LEMMA VerifyShape ==
    ASSUME TypeInv,
           \/ \E v \in Verify : BeginVerify(v)
           \/ \E p \in Store : Refreshing(p)
    PROVE  /\ \A p \in Store :
                  \/ records'[p] = records[p]
                  \/ records'[p] = Empty
                  \/ refresh[p] = "read" /\ records'[p] = snap[p].records
           /\ \A p \in Store : refresh'[p] = "read" =>
                  \/ refresh[p] = "read" /\ snap'[p] = snap[p]
                  \/ snap'[p] = [records |-> file, version |-> version]
           /\ \A v \in Verify :
                  \/ born'[v] = born[v]
                  \/ born'[v].time = now /\ (born'[v].own <=> OwnRevoked(At[v], Of[v]))
           /\ \A v \in Verify : call'[v] = "accepted" /\ call[v] # "accepted" =>
                  \/ /\ mutating[At[v]] = Nobody /\ records[At[v]][Of[v]] = "valid"
                     /\ call[v] = "idle" /\ refresh[At[v]] = "none" /\ now < next[At[v]]
                     /\ born'[v].time = now
                  \/ /\ refresh[At[v]] = "same" /\ records[At[v]][Of[v]] = "valid"
                     /\ born'[v] = born[v] /\ call[v] # "idle"
                  \/ /\ refresh[At[v]] = "read" /\ snap[At[v]].records[Of[v]] = "valid"
                     /\ born'[v] = born[v] /\ call[v] # "idle"
<1> USE StoreConstants
<1>1. ASSUME NEW w \in Verify, BeginVerify(w)
      PROVE  /\ UNCHANGED <<records, snap>>
             /\ \A p \in Store : refresh'[p] = "read" => refresh[p] = "read"
             /\ born' = [born EXCEPT ![w] = [time |-> now, own |-> OwnRevoked(At[w], Of[w])]]
             /\ \A v \in Verify : call'[v] = "accepted" /\ call[v] # "accepted" =>
                    /\ v = w /\ call[v] = "idle" /\ mutating[At[v]] = Nobody
                    /\ records[At[v]][Of[v]] = "valid"
                    /\ refresh[At[v]] = "none" /\ now < next[At[v]]
  BY <1>1 DEF BeginVerify, LookUp, TypeInv, Verdict, cache
<1>2. ASSUME NEW q \in Store, Inspect(q) \/ OpenSnapshot(q)
      PROVE  /\ UNCHANGED <<records, born, call>>
             /\ \A p \in Store : refresh'[p] = "read" =>
                    \/ refresh[p] = "read" /\ snap'[p] = snap[p]
                    \/ snap'[p] = [records |-> file, version |-> version]
  BY <1>2 DEF Inspect, OpenSnapshot, TypeInv, cache, ghosts
<1>3. ASSUME NEW q \in Store, NEW recs, NEW fp, NEW verdict, Settled(q, recs, fp, verdict)
      PROVE  /\ records'[q] = recs /\ \A p \in Store \ {q} : records'[p] = records[p]
             /\ \A p \in Store : refresh'[p] = "read" => refresh[p] = "read" /\ snap'[p] = snap[p]
             /\ born' = born
             /\ \A v \in Verify : call'[v] # call[v] =>
                    At[v] = q /\ call'[v] = verdict[v] /\ call[v] # "idle"
  BY <1>3 DEF Settled, Waiting, TypeInv, ghosts
<1>4. CASE \E w \in Verify : BeginVerify(w)
  <2>1. PICK w \in Verify : BeginVerify(w)
    BY <1>4
  <2>2. \A v \in Verify :
            \/ born'[v] = born[v]
            \/ born'[v].time = now /\ (born'[v].own <=> OwnRevoked(At[v], Of[v]))
    <3>1. OwnRevoked(At[w], Of[w]) \in BOOLEAN
      BY DEF OwnRevoked
    <3>2. ASSUME NEW b \in BOOLEAN, born' = [born EXCEPT ![w] = [time |-> now, own |-> b]]
          PROVE  /\ \A v \in Verify \ {w} : born'[v] = born[v]
                 /\ born'[w].time = now /\ born'[w].own = b
      BY <3>2 DEF TypeInv
    <3>3. born' = [born EXCEPT ![w] = [time |-> now, own |-> OwnRevoked(At[w], Of[w])]]
      BY <1>1, <2>1
    <3>4. /\ \A v \in Verify \ {w} : born'[v] = born[v]
          /\ born'[w].time = now /\ born'[w].own = OwnRevoked(At[w], Of[w])
      BY <3>1, <3>2, <3>3
    <3>5. born'[w].own <=> OwnRevoked(At[w], Of[w])
      BY <3>1, <3>4
    <3> QED
      BY <3>4, <3>5
  <2>3. born'[w].time = now
    BY <1>1, <2>1 DEF TypeInv
  <2> QED
    BY <1>1, <2>1, <2>2, <2>3
<1>5. CASE \E q \in Store : Inspect(q) \/ OpenSnapshot(q)
  BY <1>2, <1>5
<1>6. CASE \E q \in Store : RefreshEnds(q)
  <2>1. PICK q \in Store : RefreshEnds(q)
    BY <1>6
  <2>2. CASE refresh[q] = "same"
    <3>1. Settled(q, records[q], known[q], [v \in Verify |-> Verdict(records[q], v)])
      BY <2>1, <2>2 DEF RefreshEnds
    <3>2. \A v \in Verify : call'[v] # call[v] =>
              At[v] = q /\ call'[v] = Verdict(records[q], v) /\ call[v] # "idle"
      BY <1>3, <3>1
    <3> QED
      BY <1>3, <2>2, <3>1, <3>2 DEF Verdict
  <2>3. CASE refresh[q] = "read"
    <3>1. Settled(q, snap[q].records, snap[q].version,
                  [v \in Verify |-> Verdict(snap[q].records, v)])
      BY <2>1, <2>3 DEF RefreshEnds
    <3>2. \A v \in Verify : call'[v] # call[v] =>
              At[v] = q /\ call'[v] = Verdict(snap[q].records, v) /\ call[v] # "idle"
      BY <1>3, <3>1
    <3> QED
      BY <1>3, <2>3, <3>1, <3>2 DEF Verdict
  <2> QED
    BY <2>1, <2>2, <2>3 DEF RefreshEnds
<1>7. CASE \E q \in Store : RefreshFails(q)
  <2>1. PICK q \in Store : Settled(q, Empty, 0, [v \in Verify |-> "failed"])
    BY <1>7 DEF RefreshFails
  <2>2. \A v \in Verify : call'[v] # call[v] => call'[v] = "failed"
    BY <1>3, <2>1
  <2> QED
    BY <1>3, <2>1, <2>2
<1> QED
  BY <1>4, <1>5, <1>6, <1>7 DEF Refreshing

\* Verification keeps OwnInv.
LEMMA OwnVerify ==
    ASSUME StoreInv, OwnInv,
           \/ \E v \in Verify : BeginVerify(v)
           \/ \E p \in Store : Refreshing(p)
    PROVE  OwnInv'
<1> USE StoreConstants DEF StoreInv
<1>1. /\ \A m \in Mutation : call'[m] = call[m]
      /\ UNCHANGED <<file, mutating, now>>
  BY VerifyFrame
<1>2. ASSUME NEW m \in Revoke, call[m] = "done"
      PROVE  /\ records'[At[m]][Of[m]] # "valid"
             /\ refresh'[At[m]] = "read" => snap'[At[m]].records[Of[m]] # "valid"
  <2>1. At[m] \in Store /\ Of[m] \in Token /\ file[Of[m]] = "revoked"
    BY <1>2 DEF FileInv, StaysInv, Mutation
  <2>2. Empty[Of[m]] # "valid"
    BY <2>1 DEF Empty
  <2> QED
    BY <1>2, <2>1, <2>2, VerifyShape DEF OwnInv
<1>3. \A p, t : OwnRevoked(p, t) => OwnRevoked(p, t)'
  BY <1>1 DEF OwnRevoked, Mutation
<1>4. ASSUME NEW v \in Verify, born'[v].own
      PROVE  OwnRevoked(At[v], Of[v])' /\ call'[v] # "accepted"
  <2>1. OwnRevoked(At[v], Of[v])
    <3>1. CASE born'[v] = born[v]
      BY <1>4, <3>1 DEF OwnInv
    <3>2. CASE born'[v].own <=> OwnRevoked(At[v], Of[v])
      BY <1>4, <3>2
    <3> QED
      BY <3>1, <3>2, VerifyShape
  <2>2. PICK m \in Revoke : At[m] = At[v] /\ Of[m] = Of[v] /\ call[m] = "done"
    BY <2>1 DEF OwnRevoked
  <2>3. /\ records[At[v]][Of[v]] # "valid"
        /\ refresh[At[v]] = "read" => snap[At[v]].records[Of[v]] # "valid"
    BY <2>2 DEF OwnInv
  <2>4. call[v] = "accepted" => born'[v] # born[v]
    BY <1>4 DEF OwnInv
  <2>5. call[v] = "accepted" => born'[v] = born[v]
    BY DEF BeginVerify, Refreshing, Inspect, OpenSnapshot, RefreshEnds, RefreshFails, Settled,
           ghosts, TypeInv
  <2> QED
    BY <1>3, <2>1, <2>3, <2>4, <2>5, VerifyShape
<1> QED
  BY <1>1, <1>2, <1>4 DEF OwnInv, Mutation

\* A mutation keeps OwnInv.
LEMMA OwnMutate ==
    ASSUME StoreInv, OwnInv, NEW n \in Mutation, BeginMutation(n) \/ Progress(n)
    PROVE  OwnInv'
<1> USE StoreConstants DEF StoreInv
<1>1. PICK s \in MutationStage : call' = [call EXCEPT ![n] = s]
  BY MutateFrame
<1>2. UNCHANGED <<refresh, snap, born>> /\ n \notin Verify
  BY MutateFrame DEF Mutation
<1>3. \A c \in Verify \cup Mutation : c # n => call'[c] = call[c]
  BY <1>1 DEF TypeInv
<1>4. call[n] # "done" /\ (call[n] = "syncing" => call'[n] # "syncing")
  BY <1>1 DEF BeginMutation, Progress, Settle, Acquire, LockFails, Reload, ReloadFails, Rename,
     Sync, PersistFails, Release, TypeInv, Mutation
<1>5. \A m \in Mutation : At[m] \in Store /\ Of[m] \in Token
  BY DEF Mutation
<1>6. \A m \in Revoke : call[m] = "done" => file[Of[m]] = "revoked" /\ m # n
  BY <1>4 DEF FileInv, StaysInv
<1>7. ASSUME NEW m \in Revoke, call[m] = "done"
      PROVE  records'[At[m]][Of[m]] # "valid"
  <2>1. records[At[m]][Of[m]] # "valid"
    BY <1>7 DEF OwnInv
  <2>2. CASE Reload(n)
    <3>1. n \in Issue => file[Of[n]] = "absent"
      BY <2>2 DEF Reload, FileInv, StaysInv
    <3>2. n \in Issue => Of[n] # Of[m]
      BY <1>6, <1>7, <3>1
    <3>3. Applied(n, file)[Of[m]] # "valid" /\ file[Of[m]] # "valid"
      BY <1>5, <1>6, <1>7, <3>2 DEF Applied, TypeInv, Records, Mutation
    <3> QED
      BY <1>5, <2>1, <2>2, <3>3 DEF Reload, TypeInv, Mutation
  <2>3. CASE PersistFails(n)
    <3>1. n \in Revoke => Of[n] # Of[m]
      <4>1. CASE call[n] = "renaming"
        <5>1. Applies(n, file)
          BY <4>1 DEF FileInv, PersistInv
        <5> QED
          BY <1>6, <1>7, <5>1 DEF Applies, Mutation
      <4>2. CASE call[n] = "syncing"
        BY <1>7, <4>2 DEF OwnInv
      <4> QED
        BY <2>3, <4>1, <4>2 DEF PersistFails
    <3>2. At[n] = At[m] => Undone(n, records[At[m]])[Of[m]] # "valid"
      <4>1. records[At[m]] \in Records
        BY <1>5 DEF TypeInv, Mutation
      <4> QED
        BY <1>5, <2>1, <3>1, <4>1 DEF Undone, Records, Mutation
    <3> QED
      BY <1>5, <2>1, <2>3, <3>2 DEF PersistFails, TypeInv, Mutation
  <2>4. CASE UNCHANGED records
    BY <2>1, <2>4
  <2> QED
    BY <2>2, <2>3, <2>4 DEF BeginMutation, Progress, Settle, Acquire, LockFails, ReloadFails,
       Rename, Sync, Release, cache
<1>8. ASSUME n \in Revoke, call'[n] = "done"
      PROVE  records'[At[n]][Of[n]] # "valid" /\ refresh[At[n]] # "read"
  <2>1. call[n] = "changed" /\ UNCHANGED records
    BY <1>4, <1>8 DEF BeginMutation, Progress, Settle, Acquire, LockFails, Reload, ReloadFails,
       Rename, Sync, PersistFails, Release, TypeInv, Mutation, cache
  <2>2. records[At[n]] = file /\ file[Of[n]] = "revoked"
    BY <1>8, <2>1 DEF FileInv, PersistInv, StaysInv
  <2>3. refresh[At[n]] = "none"
    BY <2>1 DEF LockInv, Locked, Reloaded
  <2> QED
    BY <2>1, <2>2, <2>3
<1>9. ASSUME NEW m \in Revoke, NEW k \in Revoke, call'[m] = "done", call'[k] = "syncing"
      PROVE  Of[m] # Of[k]
  <2>1. CASE m = n
    <3>1. call[n] \in Locked
      BY <1>4, <1>9, <2>1 DEF BeginMutation, Progress, Settle, Acquire, LockFails, Reload,
         ReloadFails, Rename, Sync, PersistFails, Release, TypeInv, Mutation, Locked, Reloaded
    <3>2. k # n /\ call[k] \in Locked
      BY <1>3, <1>9, <2>1 DEF Mutation, Locked, Reloaded
    <3> QED
      BY <3>1, <3>2 DEF LockInv, Mutation
  <2>2. CASE m # n /\ k = n
    <3>1. Rename(n)
      BY <1>4, <1>9, <2>2 DEF BeginMutation, Progress, Settle, Acquire, LockFails, Reload,
         ReloadFails, Sync, PersistFails, Release, TypeInv, Mutation
    <3>2. Applies(n, file)
      BY <3>1 DEF Rename, FileInv, PersistInv
    <3>3. file[Of[m]] = "revoked"
      BY <1>3, <1>6, <1>9, <2>2 DEF Mutation
    <3> QED
      BY <2>2, <3>2, <3>3 DEF Applies
  <2>3. CASE m # n /\ k # n
    BY <1>3, <1>9, <2>3 DEF OwnInv, Mutation
  <2> QED
    BY <2>1, <2>2, <2>3
<1>10. \A v \in Verify : born[v].own => OwnRevoked(At[v], Of[v])' /\ call'[v] # "accepted"
  BY <1>2, <1>3, <1>4 DEF OwnInv, OwnRevoked, Mutation
<1>11. \A m \in Revoke : call'[m] = "done" =>
           /\ records'[At[m]][Of[m]] # "valid"
           /\ refresh'[At[m]] = "read" => snap'[At[m]].records[Of[m]] # "valid"
  BY <1>2, <1>3, <1>7, <1>8 DEF OwnInv, Mutation
<1> QED
  BY <1>2, <1>9, <1>10, <1>11 DEF OwnInv

\* An instance honours what it has revoked from the moment it acknowledges it.
THEOREM OwnRevocationsHold == Spec => []OwnRevocationHolds
<1>1. Init => OwnInv
  BY StoreConstants DEF Init, OwnInv, Mutation
<1>2. StoreInv /\ OwnInv /\ [Next]_vars => OwnInv'
  <2> SUFFICES ASSUME StoreInv, OwnInv, [Next]_vars PROVE OwnInv'
    OBVIOUS
  <2>1. CASE \/ \E v \in Verify : BeginVerify(v)
             \/ \E p \in Store : Refreshing(p)
    BY <2>1, OwnVerify
  <2>2. ASSUME NEW m \in Mutation, BeginMutation(m) \/ Progress(m) PROVE OwnInv'
    BY <2>2, OwnMutate
  <2>3. CASE Tick \/ UNCHANGED vars
    BY <2>3 DEF Tick, vars, cache, reading, ghosts, OwnInv, OwnRevoked
  <2> QED
    BY <2>1, <2>2, <2>3 DEF Next
<1>3. OwnInv => OwnRevocationHolds
  BY DEF OwnInv, OwnRevocationHolds
<1> QED
  BY <1>1, <1>2, <1>3, StoreInvariant, PTL DEF Spec
-----------------------------------------------------------------------------
\* The time at which a cache is next refreshed bounds how long ago a token that it
\* takes for valid can have been revoked.  A token whose revocation is acknowledged
\* is not valid to a mutation that has reloaded.
FreshInv ==
    /\ \A p \in Store : next[p] <= now + Interval
    /\ \A p \in Store : refresh[p] # "none" => now <= next[p]
    /\ \A v \in Verify : born[v].time <= now
    /\ \A m \in Revoke : call[m] = "syncing" => acked[Of[m]] = Never
    /\ \A m \in Mutation, t \in Token :
           call[m] \in Reloaded /\ acked[t] # Never => records[At[m]][t] # "valid"
    /\ \A p \in Store, t \in Token :
           refresh[p] \in {"none", "same"} /\ acked[t] # Never /\ records[p][t] = "valid"
               => next[p] <= acked[t] + Interval \/ Missed(p)
    /\ \A p \in Store, t \in Token :
           refresh[p] = "read" /\ acked[t] # Never /\ snap[p].records[t] = "valid"
               => next[p] <= acked[t] + Interval \/ Missed(p)
    /\ NoBypass

\* What verification does to the refresh of an instance.
LEMMA RefreshShape ==
    ASSUME TypeInv, NEW p \in Store,
           \/ \E v \in Verify : BeginVerify(v)
           \/ \E q \in Store : Refreshing(q)
    PROVE  /\ \/ next'[p] = next[p] /\ (refresh'[p] # "none" => refresh[p] # "none")
              \/ next'[p] = now + Interval /\ refresh'[p] = "inspect"
           /\ refresh'[p] \in {"none", "same"} =>
                  \/ refresh[p] \in {"none", "same"} /\ records'[p] = records[p]
                  \/ refresh[p] = "read" /\ records'[p] = snap[p].records
                  \/ records'[p] = Empty
                  \/ /\ refresh[p] = "inspect" /\ known[p] = version
                     /\ records'[p] = records[p]
<1>1. CASE \E v \in Verify : BeginVerify(v)
  <2>1. PICK v \in Verify : BeginVerify(v)
    BY <1>1
  <2>2. At[v] \in Store
    BY StoreConstants
  <2> QED
    BY <2>1, <2>2 DEF BeginVerify, LookUp, TypeInv, cache
<1>2. CASE \E q \in Store : Refreshing(q)
  <2>1. PICK q \in Store : Refreshing(q)
    BY <1>2
  <2>2. CASE Inspect(q) \/ OpenSnapshot(q)
    BY <2>2 DEF Inspect, OpenSnapshot, TypeInv, cache
  <2>3. CASE RefreshEnds(q) \/ RefreshFails(q)
    BY <2>3 DEF RefreshEnds, RefreshFails, Settled, TypeInv
  <2> QED
    BY <2>1, <2>2, <2>3 DEF Refreshing
<1> QED
  BY <1>1, <1>2

\* Verification keeps FreshInv.
LEMMA FreshVerify ==
    ASSUME StoreInv, FreshInv,
           \/ \E v \in Verify : BeginVerify(v)
           \/ \E p \in Store : Refreshing(p)
    PROVE  FreshInv'
<1> USE StoreConstants DEF StoreInv
<1>1. /\ \A m \in Mutation : call'[m] = call[m]
      /\ UNCHANGED <<file, mutating, now, acked>>
  BY VerifyFrame
<1>2. /\ now \in Nat /\ next \in [Store -> Nat] /\ acked \in [Token -> 0 .. Never]
      /\ \A v \in Verify : At[v] \in Store /\ Of[v] \in Token /\ born[v].time \in Nat
      /\ \A m \in Mutation : At[m] \in Store
      /\ \A t \in Token : acked[t] \in Nat
      /\ Interval \in Nat
  BY DEF TypeInv, Mutation, Never
<1>m. \A p \in Store : Missed(p)' <=> Missed(p)
  BY <1>1 DEF Missed
<1>3. \A t \in Token : acked[t] # Never => file[t] # "valid" /\ Empty[t] # "valid"
  BY DEF FileInv, StaysInv, Empty
<1>4. ASSUME NEW p \in Store
      PROVE  /\ next'[p] <= now + Interval
             /\ refresh'[p] # "none" => now <= next'[p]
  BY <1>2, RefreshShape DEF FreshInv
<1>5. ASSUME NEW p \in Store, NEW t \in Token, refresh'[p] \in {"none", "same"},
             acked[t] # Never, records'[p][t] = "valid"
      PROVE  next'[p] <= acked[t] + Interval \/ Missed(p)'
  <2>1. next'[p] = next[p]
    BY <1>5, RefreshShape
  <2>2. ASSUME refresh[p] = "inspect", known[p] = version PROVE records[p] = file
    <3>1. mutating[p] # Nobody => mutating[p] \in Mutation /\ At[mutating[p]] = p
      BY DEF TypeInv, LockInv
    <3>2. mutating[p] # Nobody => call[mutating[p]] # "renaming"
      BY <2>2, <3>1 DEF LockInv, Locked, Reloaded
    <3> QED
      BY <2>2, <3>2 DEF FileInv, CachesInv
  <2> QED
    BY <1>m, <1>3, <1>5, <2>1, <2>2, RefreshShape DEF FreshInv
<1>6. ASSUME NEW p \in Store, NEW t \in Token, refresh'[p] = "read",
             acked[t] # Never, snap'[p].records[t] = "valid"
      PROVE  next'[p] <= acked[t] + Interval \/ Missed(p)'
  <2>1. next'[p] = next[p]
    BY <1>6, RefreshShape
  <2> QED
    BY <1>m, <1>3, <1>6, <2>1, VerifyShape DEF FreshInv
<1>7. ASSUME NEW m \in Mutation, NEW t \in Token, call[m] \in Reloaded, acked[t] # Never
      PROVE  records'[At[m]][t] # "valid"
  <2>1. refresh[At[m]] = "none"
    BY <1>7 DEF LockInv, Locked
  <2> QED
    BY <1>2, <1>3, <1>7, <2>1, VerifyShape DEF FreshInv
<1>8. \A v \in Verify : born'[v].time <= now
  BY <1>2, VerifyShape DEF FreshInv
<1>9. ASSUME NEW v \in Verify, call'[v] = "accepted"
      PROVE  born'[v].time <= acked[Of[v]] + Interval \/ Missed(At[v])'
  <2>1. CASE acked[Of[v]] = Never
    <3>1. born'[v].time \in 0 .. MaxTime
      BY VerifyFrame DEF TypeInv
    <3> QED
      BY <1>2, <2>1, <3>1 DEF Never
  <2>2. CASE acked[Of[v]] # Never /\ call[v] # "accepted"
    BY <1>m, <1>2, <1>8, <1>9, <2>2, VerifyShape DEF FreshInv
  <2>3. CASE call[v] = "accepted"
    <3>1. born'[v] = born[v]
      BY <2>3 DEF BeginVerify, Refreshing, Inspect, OpenSnapshot, RefreshEnds, RefreshFails,
         Settled, ghosts, TypeInv
    <3> QED
      BY <1>m, <2>3, <3>1 DEF FreshInv, NoBypass
  <2> QED
    BY <2>1, <2>2, <2>3
<1> QED
  BY <1>1, <1>4, <1>5, <1>6, <1>7, <1>8, <1>9 DEF FreshInv, NoBypass, Mutation

\* A mutation keeps FreshInv, whether it reads the file or misses it.
LEMMA FreshMutate ==
    ASSUME StoreInv, FreshInv, NEW n \in Mutation, BeginMutation(n) \/ Progress(n)
    PROVE  FreshInv'
<1> USE StoreConstants DEF StoreInv
<1>1. PICK s \in MutationStage : call' = [call EXCEPT ![n] = s]
  BY MutateFrame
<1>2. UNCHANGED <<refresh, snap, now, born>> /\ n \notin Verify
  BY MutateFrame DEF Mutation
<1>3. /\ \A c \in Verify \cup Mutation : c # n => call'[c] = call[c]
      /\ call'[n] = s
  BY <1>1 DEF TypeInv, Mutation
<1>4. /\ now \in Nat /\ now < Never /\ next \in [Store -> Nat]
      /\ \A v \in Verify : At[v] \in Store /\ Of[v] \in Token /\ born[v].time \in Nat
      /\ \A m \in Mutation : At[m] \in Store /\ Of[m] \in Token
      /\ \A t \in Token : acked[t] \in Nat
      /\ Interval \in Nat
  BY DEF TypeInv, Mutation, Never
<1>5. \A t \in Token : acked[t] # Never => file[t] = "revoked"
  BY DEF FileInv, StaysInv
<1>m. /\ \A p \in Store : Missed(p) => Missed(p)'
      /\ s = "missed" => Missed(At[n])'
  <2>1. call[n] # "missed"
    BY DEF BeginMutation, Progress, Settle, Acquire, LockFails, Reload, ReloadFails, Rename, Sync,
       PersistFails, Release
  <2> QED
    BY <1>3, <2>1 DEF Missed
<1>l. LockFails(n) => UNCHANGED <<records, acked>>
  BY DEF LockFails, cache, ghosts
<1>r. Release(n) => call[n] \in Locked
  BY DEF Release, Locked, Reloaded
<1>6. \/ Release(n) \/ LockFails(n)
      \/ UNCHANGED <<next, acked>>
  BY DEF BeginMutation, Progress, Settle, Acquire, LockFails, Reload, ReloadFails, Rename, Sync,
         PersistFails, ghosts
<1>7. \A t \in Token : acked'[t] = acked[t] \/ (acked[t] = Never /\ acked'[t] = now)
  BY <1>4, <1>6, <1>l DEF Release, TypeInv
\* The records of an instance that reloads, or undoes what it could not persist.
<1>8. ASSUME NEW p \in Store, NEW t \in Token, acked[t] # Never, records'[p][t] = "valid"
      PROVE  records[p][t] = "valid" /\ (p = At[n] => ~Reload(n))
  <2>1. CASE Reload(n)
    <3>1. n \in Issue => file[Of[n]] = "absent"
      BY <2>1 DEF Reload, FileInv, StaysInv
    <3>2. Applied(n, file)[t] # "valid" /\ file[t] # "valid"
      BY <1>4, <1>5, <1>8, <3>1 DEF Applied, TypeInv, Records, Mutation
    <3> QED
      BY <1>4, <1>8, <2>1, <3>2 DEF Reload, TypeInv
  <2>2. CASE PersistFails(n)
    <3>1. n \in Revoke => Of[n] # t
      <4>1. CASE call[n] = "renaming"
        <5>1. Applies(n, file)
          BY <4>1 DEF FileInv, PersistInv
        <5> QED
          BY <1>5, <1>8, <5>1 DEF Applies, Mutation
      <4>2. CASE call[n] = "syncing"
        BY <1>8, <4>2 DEF FreshInv
      <4> QED
        BY <2>2, <4>1, <4>2 DEF PersistFails
    <3>2. Undone(n, records[At[n]])[t] = "valid" => records[At[n]][t] = "valid"
      <4>1. records[At[n]] \in Records
        BY <1>4 DEF TypeInv
      <4> QED
        BY <1>4, <3>1, <4>1 DEF Undone, Records, Mutation
    <3>3. ~Reload(n)
      BY <2>2 DEF Reload, PersistFails
    <3> QED
      BY <1>4, <1>8, <2>2, <3>2, <3>3 DEF PersistFails, TypeInv
  <2>3. CASE UNCHANGED records /\ ~Reload(n)
    BY <1>8, <2>3
  <2> QED
    BY <2>1, <2>2, <2>3 DEF BeginMutation, Progress, Settle, Acquire, LockFails, ReloadFails,
       Rename, Sync, Release, cache
\* What ends without having read the file is the only end that may leave an old
\* record in the cache.
<1>9. ASSUME Release(n) \/ LockFails(n)
      PROVE  /\ call[n] \in Reloaded \/ s = "missed"
             /\ refresh[At[n]] = "none" /\ UNCHANGED records
             /\ next' = [next EXCEPT ![At[n]] = now + Interval]
  <2>1. n \in DOMAIN call
    BY DEF TypeInv, Mutation
  <2>2. CASE Release(n)
    BY <1>3, <2>1, <2>2 DEF Release, Unmutate, Reloaded, LockInv, Locked, cache
  <2>3. CASE LockFails(n)
    BY <1>3, <2>1, <2>3 DEF LockFails, Unmutate, LockInv, cache
  <2> QED
    BY <1>9, <2>2, <2>3
<1>10. ASSUME NEW p \in Store
       PROVE  /\ next'[p] <= now + Interval
              /\ next'[p] = next[p] \/ (p = At[n] /\ (Release(n) \/ LockFails(n)))
              /\ refresh[p] # "none" => now <= next'[p]
  BY <1>4, <1>6, <1>9 DEF FreshInv
<1>11. \A m \in Revoke : call'[m] = "syncing" => acked'[Of[m]] = Never
  <2>1. ASSUME NEW m \in Revoke, call'[m] = "syncing", m # n PROVE acked'[Of[m]] = Never
    <3>1. call[m] = "syncing"
      BY <1>3, <2>1 DEF Mutation
    <3>2. ~Release(n)
      BY <1>r, <2>1, <3>1 DEF LockInv, Locked, Reloaded, Mutation
    <3> QED
      BY <1>6, <1>l, <3>1, <3>2 DEF FreshInv
  <2>2. ASSUME n \in Revoke, call'[n] = "syncing" PROVE acked'[Of[n]] = Never
    <3>1. Rename(n)
      BY <1>3, <2>2 DEF BeginMutation, Progress, Settle, Acquire, LockFails, Reload,
         ReloadFails, Sync, PersistFails, Release, TypeInv, Mutation
    <3>2. Applies(n, file) /\ UNCHANGED acked
      BY <3>1 DEF Rename, FileInv, PersistInv, ghosts
    <3> QED
      BY <1>4, <1>5, <2>2, <3>2 DEF Applies, Mutation
  <2> QED
    BY <2>1, <2>2
<1>12. ASSUME NEW m \in Mutation, NEW t \in Token, call'[m] \in Reloaded, acked'[t] # Never
       PROVE  records'[At[m]][t] # "valid"
  <2>1. CASE m = n
    <3>1. ~Release(n)
      BY <1>3, <1>12, <2>1 DEF Release, Reloaded, TypeInv, Mutation
    <3>2. acked[t] # Never
      BY <1>6, <1>l, <1>12, <3>1
    <3>3. call[n] \in Reloaded \/ Reload(n)
      BY <1>3, <1>12, <2>1 DEF BeginMutation, Progress, Settle, Acquire, LockFails,
         ReloadFails, Rename, Sync, PersistFails, Release, Reloaded, TypeInv, Mutation
    <3> QED
      BY <1>4, <1>8, <2>1, <3>2, <3>3 DEF FreshInv
  <2>2. CASE m # n
    <3>1. call[m] \in Reloaded
      BY <1>3, <1>12, <2>2
    <3>2. call[n] \notin Locked
      BY <2>2, <3>1 DEF LockInv, Locked
    <3>3. ~Release(n)
      BY <1>r, <3>2
    <3> QED
      BY <1>4, <1>6, <1>8, <1>l, <1>12, <3>1, <3>3 DEF FreshInv
  <2> QED
    BY <2>1, <2>2
<1>13. ASSUME NEW p \in Store, NEW t \in Token, refresh[p] \in {"none", "same"},
              acked'[t] # Never, records'[p][t] = "valid"
       PROVE  next'[p] <= acked'[t] + Interval \/ Missed(p)'
  <2>1. CASE acked[t] = Never
    BY <1>4, <1>7, <1>10, <1>13, <2>1
  <2>2. CASE acked[t] # Never
    <3>1. acked'[t] = acked[t] /\ records[p][t] = "valid"
      BY <1>7, <1>8, <1>13, <2>2
    <3>2. CASE p = At[n] /\ (Release(n) \/ LockFails(n))
      <4>1. call[n] \notin Reloaded
        BY <2>2, <3>1, <3>2 DEF FreshInv
      <4> QED
        BY <1>9, <1>m, <3>2, <4>1
    <3>3. CASE next'[p] = next[p]
      BY <1>13, <1>m, <3>1, <3>3, <2>2 DEF FreshInv
    <3> QED
      BY <1>10, <1>13, <3>2, <3>3
  <2> QED
    BY <2>1, <2>2
<1>14. ASSUME NEW p \in Store, NEW t \in Token, refresh[p] = "read",
              acked'[t] # Never, snap[p].records[t] = "valid"
       PROVE  next'[p] <= acked'[t] + Interval \/ Missed(p)'
  <2>1. next'[p] = next[p]
    BY <1>9, <1>10, <1>14
  <2> QED
    BY <1>4, <1>7, <1>10, <1>14, <1>m, <2>1 DEF FreshInv
<1>15. \A v \in Verify : call'[v] = "accepted" =>
           born[v].time <= acked'[Of[v]] + Interval \/ Missed(At[v])'
  BY <1>2, <1>3, <1>4, <1>7, <1>m DEF FreshInv, NoBypass
<1>16. \A v \in Verify : born[v].time <= now
  BY DEF FreshInv
<1> QED
  BY <1>2, <1>10, <1>11, <1>12, <1>13, <1>14, <1>15, <1>16 DEF FreshInv, NoBypass

\* Where refreshes are prompt, a verification that begins more than an interval
\* after a revocation was acknowledged, by whichever instance, does not accept the
\* token, unless a mutation of its instance has ended without reading the file.
THEOREM NoTokenOutlivesItsRevocation ==
    ASSUME Prompt
    PROVE  Spec => []NoBypass
<1>1. Init => FreshInv
  <2>1. Init => \A t \in Token : acked[t] = Never
    BY DEF Init
  <2> QED
    BY <2>1, StoreConstants DEF Init, FreshInv, NoBypass, Mutation, Reloaded
<1>2. StoreInv /\ FreshInv /\ [Next]_vars => FreshInv'
  <2> SUFFICES ASSUME StoreInv, FreshInv, [Next]_vars PROVE FreshInv'
    OBVIOUS
  <2>1. CASE \/ \E v \in Verify : BeginVerify(v)
             \/ \E p \in Store : Refreshing(p)
    BY <2>1, FreshVerify
  <2>2. ASSUME NEW m \in Mutation, BeginMutation(m) \/ Progress(m) PROVE FreshInv'
    BY <2>2, FreshMutate
  <2>3. CASE Tick \/ UNCHANGED vars
    <3>1. /\ UNCHANGED <<records, next, refresh, snap, call, born, acked>>
          /\ now' = now \/ (now' = now + 1 /\ \A p \in Store : refresh[p] # "none" => now < next[p])
      BY <2>3 DEF Tick, vars, cache, reading, ghosts
    <3>2. /\ now \in Nat /\ Interval \in Nat /\ \A p \in Store : next[p] \in Nat
          /\ \A v \in Verify : born[v].time \in Nat
      BY StoreConstants DEF StoreInv, TypeInv
    <3>3. /\ \A p \in Store : next[p] <= now' + Interval
          /\ \A p \in Store : refresh[p] # "none" => now' <= next[p]
          /\ \A v \in Verify : born[v].time <= now'
      BY <3>1, <3>2 DEF FreshInv
    <3> QED
      BY <3>1, <3>3 DEF FreshInv, NoBypass, Never, Missed
  <2> QED
    BY <2>1, <2>2, <2>3 DEF Next
<1>3. FreshInv => NoBypass
  BY DEF FreshInv
<1> QED
  BY <1>1, <1>2, <1>3, StoreInvariant, PTL DEF Spec

-----------------------------------------------------------------------------
\* The calls of p that are at a stage.
In(p, s) == {v \in Verify : At[v] = p /\ call[v] = s}

\* WaitersBounded, by the calls of each stage.
Counted(p) ==
    /\ waiters[p] = Cardinality(In(p, "waiting"))
    /\ waiters[p] <= IF refresh[p] = "none" THEN 0 ELSE MaxWaiters
    /\ Cardinality(In(p, "refreshing")) = IF refresh[p] = "none" THEN 0 ELSE 1

WaitInv == waiters \in [Store -> Nat] /\ \A p \in Store : Counted(p)

LEMMA WaitersAre == WaitInv => WaitersBounded
<1>1. ASSUME NEW p \in Store
      PROVE  /\ {v \in Waiting(p) : call[v] = "waiting"} = In(p, "waiting")
             /\ {v \in Waiting(p) : call[v] = "refreshing"} = In(p, "refreshing")
  BY DEF Waiting, In
<1> QED
  BY <1>1 DEF WaitersBounded, WaitInv, Counted

\* What a step leaves as it is counts as it did.
LEMMA SameWaiters ==
    ASSUME NEW p \in Store, Counted(p), waiters'[p] = waiters[p],
           \A v \in Verify : At[v] = p => call'[v] = call[v],
           refresh'[p] = "none" <=> refresh[p] = "none"
    PROVE  Counted(p)'
<1>1. In(p, "waiting")' = In(p, "waiting") /\ In(p, "refreshing")' = In(p, "refreshing")
  BY DEF In
<1> QED
  BY <1>1 DEF Counted

LEMMA WaitersBegin ==
    ASSUME TypeInv, IsFiniteSet(Verify), WaitInv, NEW v \in Verify, BeginVerify(v)
    PROVE  WaitInv'
<1> USE StoreConstants
<1> DEFINE p == At[v]
<1>1. p \in Store /\ call[v] = "idle" /\ waiters[p] \in Nat /\ Counted(p)
  BY DEF BeginVerify, WaitInv
<1>2. ASSUME NEW q \in Store \ {p} PROVE Counted(q)'
  <2>1. waiters'[q] = waiters[q] /\ refresh'[q] = refresh[q]
    BY <1>1 DEF BeginVerify, LookUp, WaitInv, TypeInv
  <2>2. \A w \in Verify : At[w] = q => call'[w] = call[w]
    BY DEF BeginVerify, LookUp, TypeInv
  <2> QED
    BY <2>1, <2>2, SameWaiters DEF WaitInv
<1>3. ASSUME NEW s \in {"waiting", "refreshing"}, NEW x, call' = [call EXCEPT ![v] = x]
      PROVE  /\ x # s => In(p, s)' = In(p, s)
             /\ x = s => Cardinality(In(p, s)') = Cardinality(In(p, s)) + 1
             /\ Cardinality(In(p, s)) \in Nat
  <2>1. call'[v] = x /\ (\A w \in Verify \ {v} : call'[w] = call[w])
    BY <1>3 DEF TypeInv
  <2>2. x # s => In(p, s)' = In(p, s)
    BY <1>1, <2>1 DEF In
  <2>3. x = s => In(p, s)' = In(p, s) \cup {v}
    BY <1>1, <2>1 DEF In
  <2>4. v \notin In(p, s)
    BY <1>1 DEF In
  <2>5. IsFiniteSet(In(p, s))
    BY FS_Subset DEF In
  <2> QED
    BY <2>2, <2>3, <2>4, <2>5, FS_AddElement, FS_CardinalityType
<1>4. waiters' \in [Store -> Nat] /\ Counted(p)'
  <2>1. CASE /\ refresh[p] # "none" /\ ~Full(p)
             /\ call' = [call EXCEPT ![v] = "waiting"]
             /\ waiters' = [waiters EXCEPT ![p] = @ + 1]
             /\ UNCHANGED refresh
    <3>1. waiters' \in [Store -> Nat] /\ waiters'[p] = waiters[p] + 1
      BY <1>1, <2>1 DEF WaitInv
    <3>2. waiters'[p] <= MaxWaiters
      BY <1>1, <2>1, <3>1 DEF Full
    <3>3. Cardinality(In(p, "waiting")') = Cardinality(In(p, "waiting")) + 1
      BY <1>3, <2>1
    <3>4. In(p, "refreshing")' = In(p, "refreshing")
      BY <1>1, <2>1 DEF In, TypeInv
    <3>5. /\ waiters'[p] = Cardinality(In(p, "waiting")')
          /\ Cardinality(In(p, "refreshing")') = 1
          /\ refresh'[p] # "none"
      BY <1>1, <2>1, <3>1, <3>3, <3>4 DEF Counted
    <3> HIDE DEF p
    <3> QED
      BY <3>1, <3>2, <3>5 DEF Counted
  <2>2. CASE /\ refresh[p] = "none" /\ UNCHANGED waiters
             /\ call' = [call EXCEPT ![v] = "refreshing"]
             /\ refresh' = [refresh EXCEPT ![p] = "inspect"]
    <3>1. Cardinality(In(p, "refreshing")') = Cardinality(In(p, "refreshing")) + 1
      BY <1>3, <2>2
    <3>2. In(p, "waiting")' = In(p, "waiting")
      BY <1>3, <2>2
    <3>3. refresh'[p] = "inspect"
      BY <1>1, <2>2 DEF TypeInv
    <3> QED
      BY <1>1, <2>2, <3>1, <3>2, <3>3 DEF Counted, WaitInv
  <2>3. CASE /\ UNCHANGED <<refresh, waiters>>
             /\ \E x \in {"accepted", "denied"} : call' = [call EXCEPT ![v] = x]
    <3>1. In(p, "refreshing")' = In(p, "refreshing") /\ In(p, "waiting")' = In(p, "waiting")
      BY <1>3, <2>3
    <3> QED
      BY <1>1, <2>3, <3>1 DEF Counted, WaitInv
  <2> QED
    BY <2>1, <2>2, <2>3 DEF BeginVerify, LookUp, Verdict
<1> QED
  BY <1>1, <1>2, <1>4 DEF WaitInv

LEMMA WaitersSettled ==
    ASSUME TypeInv, IsFiniteSet(Verify), WaitInv, NEW p \in Store, refresh[p] # "none",
           NEW recs, NEW fp, NEW verdict, Settled(p, recs, fp, verdict),
           \A v \in Verify : verdict[v] \in {"accepted", "denied", "failed"}
    PROVE  WaitInv'
<1>1. In(p, "waiting")' = {} /\ In(p, "refreshing")' = {}
  BY DEF In, Settled, Waiting, TypeInv
<1>2. Leaving(p) = waiters[p] /\ waiters[p] \in Nat
  <2>1. {v \in Waiting(p) : call[v] = "waiting"} = In(p, "waiting")
    BY DEF Waiting, In
  <2> QED
    BY <2>1 DEF Leaving, WaitInv, Counted
<1>3. waiters' \in [Store -> Nat] /\ waiters'[p] = 0 /\ refresh'[p] = "none"
  BY <1>2 DEF Settled, WaitInv, TypeInv
<1>4. Counted(p)'
  BY <1>1, <1>3, FS_EmptySet DEF Counted
<1>5. ASSUME NEW q \in Store \ {p} PROVE Counted(q)'
  <2>1. waiters'[q] = waiters[q] /\ refresh'[q] = refresh[q]
    BY DEF Settled, WaitInv, TypeInv
  <2>2. \A w \in Verify : At[w] = q => call'[w] = call[w]
    BY DEF Settled, Waiting, TypeInv
  <2> QED
    BY <2>1, <2>2, SameWaiters DEF WaitInv
<1> QED
  BY <1>3, <1>4, <1>5 DEF WaitInv

LEMMA WaitersStep ==
    ASSUME TypeInv, IsFiniteSet(Verify), WaitInv, [Next]_vars
    PROVE  WaitInv'
<1>1. ASSUME NEW v \in Verify, BeginVerify(v) PROVE WaitInv'
  BY <1>1, WaitersBegin
<1>2. ASSUME NEW p \in Store, RefreshEnds(p) \/ RefreshFails(p) PROVE WaitInv'
  <2>1. \A rs : \A v \in Verify : Verdict(rs, v) \in {"accepted", "denied", "failed"}
    BY DEF Verdict
  <2>2. CASE refresh[p] = "same"
             /\ Settled(p, records[p], known[p], [v \in Verify |-> Verdict(records[p], v)])
    BY <2>1, <2>2, WaitersSettled
  <2>3. CASE refresh[p] = "read"
             /\ Settled(p, snap[p].records, snap[p].version,
                        [v \in Verify |-> Verdict(snap[p].records, v)])
    BY <2>1, <2>3, WaitersSettled
  <2>4. CASE refresh[p] # "none" /\ Settled(p, Empty, 0, [v \in Verify |-> "failed"])
    BY <2>4, WaitersSettled
  <2> QED
    BY <1>2, <2>2, <2>3, <2>4 DEF RefreshEnds, RefreshFails
<1>3. ASSUME UNCHANGED waiters, \A v \in Verify : call'[v] = call[v],
             \A p \in Store : refresh'[p] = "none" <=> refresh[p] = "none"
      PROVE  WaitInv'
  <2>1. ASSUME NEW p \in Store PROVE Counted(p)'
    BY <1>3, SameWaiters DEF WaitInv
  <2> QED
    BY <1>3, <2>1 DEF WaitInv
<1>4. ASSUME NEW p \in Store, Inspect(p) \/ OpenSnapshot(p) PROVE WaitInv'
  BY <1>3, <1>4 DEF Inspect, OpenSnapshot, TypeInv
<1>5. ASSUME NEW m \in Mutation, BeginMutation(m) \/ Progress(m) PROVE WaitInv'
  <2>1. /\ \E s \in MutationStage : call' = [call EXCEPT ![m] = s]
        /\ UNCHANGED refresh
    BY <1>5, MutateFrame
  <2>2. m \notin Verify
    BY StoreConstants DEF Mutation
  <2>3. UNCHANGED waiters
    BY <1>5 DEF BeginMutation, Progress, Settle, Acquire, LockFails, Reload, ReloadFails, Rename,
                Sync, PersistFails, Release, reading
  <2> QED
    BY <1>3, <2>1, <2>2, <2>3 DEF TypeInv
<1>6. CASE Tick \/ UNCHANGED vars
  BY <1>3, <1>6 DEF Tick, vars, reading
<1> QED
  BY <1>1, <1>2, <1>4, <1>5, <1>6 DEF Next, Refreshing

\* No more than MaxWaiters calls wait for a refresh besides the one that began
\* it, the counter of each instance counts them, and nobody waits, or is counted,
\* when no refresh is in flight, for any finite number of verifications.
THEOREM WaitersAreBounded ==
    ASSUME IsFiniteSet(Verify)
    PROVE  Spec => []WaitersBounded
<1>1. Init => WaitInv
  <2> SUFFICES ASSUME Init PROVE WaitInv
    OBVIOUS
  <2>1. ASSUME NEW p \in Store PROVE Counted(p)
    <3>1. In(p, "waiting") = {} /\ In(p, "refreshing") = {}
      BY DEF Init, In
    <3>2. waiters[p] = 0 /\ refresh[p] = "none"
      BY DEF Init
    <3> QED
      BY <3>1, <3>2, FS_EmptySet DEF Counted
  <2>2. waiters \in [Store -> Nat]
    BY DEF Init
  <2> QED
    BY <2>1, <2>2 DEF WaitInv
<1>2. TypeInv /\ WaitInv /\ [Next]_vars => WaitInv'
  BY WaitersStep
<1>3. StoreInv => TypeInv
  BY DEF StoreInv
<1> QED
  BY <1>1, <1>2, <1>3, WaitersAre, StoreInvariant, PTL DEF Spec
=============================================================================
