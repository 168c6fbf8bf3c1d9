--------------------------- MODULE TokenLockProofs ---------------------------
(***************************************************************************)
(* Mutual exclusion by the lock of the token store, for any number of      *)
(* processes and directories, whoever dies and whatever call fails.        *)
(*                                                                         *)
(* HoldInv says what is to be shown: from the look of acquireLock at its   *)
(* own owner.json to the unlink of releaseLock, the path names the         *)
(* holder's directory and its owner.json is in it.  Only a rename of a     *)
(* reaper can disturb that.  MarkInv and Sound are about reapers.  A       *)
(* directory at the path in which there is a marker stays there until the  *)
(* one rename: its owner cannot remove it and a tombstone that is not      *)
(* empty cannot be replaced.  While the path names what a reaper has       *)
(* inspected, what the reaper has concluded is so; its owner is dead, or   *)
(* nobody is named and the directory is old, which by AgeInv no creator    *)
(* that is alive lets it become.                                           *)
(*                                                                         *)
(* Three assumptions are needed; README.md says what happens without each. *)
(* Prompt is for AgeInv.  Without Reuse a directory that is seen again is  *)
(* the one that was seen.  Steady is for a reaper that goes on with the    *)
(* marker of another one: the marker is there as long as the reaper        *)
(* concludes from it.                                                      *)
(***************************************************************************)
EXTENDS TokenLock, TLAPS

(***************************************************************************)
(* The invariant                                                           *)
(***************************************************************************)
Where == Inode \cup {NoDir}
Slots == File \cup {NoFile}

ProcType ==
    /\ dead \subseteq Proc
    /\ pc \in [Proc -> Labels]
    /\ after \in [Proc -> Labels]
    /\ made \in [Proc -> Where]
    /\ seen \in [Proc -> Seen]
DirType ==
    /\ lock \in Where
    /\ alloc \subseteq Inode
    /\ tomb \in [Inode -> Where]
FileType ==
    /\ owner \in [Inode -> Slots]
    /\ mark \in [Inode -> Slots]
    /\ old \in BOOLEAN /\ markOld \in BOOLEAN
StoreType ==
    /\ base \in [Proc -> SUBSET Proc]
    /\ store \subseteq Proc
    /\ acked \subseteq Proc

TypeInv == ProcType /\ DirType /\ FileType /\ StoreType

\* p has ended, or was never anything else.
Over(p) == pc[p] \in {"done", "failed"}
Judged  == {"reapOpen", "reapWrite", "readMark", "judgeMark", "quarantine", "recheck", "rename"}
Marked  == {"quarantine", "recheck", "rename", "unmark", "unlinkMark"}
Entitled == Holding \cup {"cleanUnlink"}

\* Directories: the one at the path exists and is in no tombstone, and a
\* tombstone holds the directory it is named after.
DirInv ==
    /\ lock # NoDir => lock \in alloc
    /\ \A i \in Inode : tomb[i] # NoDir => tomb[i] = i /\ i \in alloc /\ lock # i

\* A process that has died is over; a reaper has seen a directory.
ProcInv ==
    \A p \in Proc : /\ p \in dead => Over(p)
                    /\ pc[p] \in Reaping => seen[p].dir # NoDir
                    /\ after[p] = "done" => p \in store
                    /\ after[p] \in {"failed", "inspect", "wait", "mkdir", "done"}

\* Whoever may still make the directory at the path its own is too quick for
\* the directory to become old.
AgeInv ==
    /\ old /\ lock # NoDir => \A p \in Proc : pc[p] \notin Hasty
    /\ markOld /\ lock # NoDir /\ mark[lock] # NoFile /\ ~mark[lock].full => Over(mark[lock].by)

\* A marker at the path is somebody's who will take it back or is over.
MarkInv ==
    /\ lock # NoDir /\ mark[lock] # NoFile =>
          LET x == mark[lock].by IN Over(x) \/ pc[x] \in {"reapWrite"} \cup Marked
    /\ \A p \in Proc : ~Over(p) /\ pc[p] # "reapWrite" => \A d \in Inode : mark[d] # Draft(p)
    /\ \A p \in Proc : pc[p] = "unlinkMark" => lock # NoDir /\ mark[lock].by = p

\* What the directory that p has inspected is like while the path names it.
Sound(p) ==
    LET d == seen[p].dir IN
    /\ seen[p].old => \A q \in Proc : pc[q] \notin Hasty
    /\ pc[p] = "reapWrite" => mark[d] = Draft(p)
    /\ pc[p] = "judgeMark" /\ seen[p].mark \in dead => mark[d].by = seen[p].mark
    /\ pc[p] = "judgeMark" /\ seen[p].mark = NoProc /\ seen[p].markOld =>
          mark[d] # NoFile /\ Over(mark[d].by)
    /\ pc[p] \in {"quarantine", "recheck", "rename"} =>
          mark[d] # NoFile /\ (mark[d].by = p \/ Over(mark[d].by))
    /\ pc[p] = "rename" => Named(owner[d]) = seen[p].owner

\* While the path names what a reaper has inspected, what it has found is so.
ReapInv ==
    \A p \in Proc :
        /\ pc[p] \in Reaping /\ lock = seen[p].dir => Sound(p)
        /\ pc[p] \in Judged =>
              seen[p].owner \in dead \/ (seen[p].owner = NoProc /\ seen[p].old)
        /\ pc[p] \in {"recheck", "rename"} =>
              \/ lock = seen[p].dir
              \/ tomb[seen[p].dir] # NoDir /\ mark[seen[p].dir] # NoFile

\* Whoever has the lock has it at the path, and writes what it has read.
HoldInv ==
    /\ \A p \in Proc : pc[p] \in Entitled => OwnsLock(p)
    /\ \A p \in Proc : pc[p] = "persist" => base[p] = store

LockInv ==
    /\ TypeInv /\ DirInv /\ ProcInv /\ AgeInv /\ MarkInv /\ ReapInv /\ HoldInv
    /\ acked \subseteq store

USE LockConstants

-----------------------------------------------------------------------------
LEMMA InitInv == Init => LockInv
<1> SUFFICES ASSUME Init PROVE LockInv
    OBVIOUS
<1> USE DEF Init
<1>1. NoFile \in Slots /\ NoView \in Seen
    BY DEF Slots, NoView, Seen
<1>2. TypeInv
    BY <1>1 DEF TypeInv, ProcType, DirType, FileType, StoreType, Where, Labels
<1>3. DirInv /\ ProcInv /\ AgeInv
    BY DEF DirInv, ProcInv, AgeInv, Reaping
<1>4. MarkInv
    BY DEF MarkInv, Draft, NoFile
<1>5. ReapInv /\ HoldInv
    BY DEF ReapInv, HoldInv, Reaping, Judged, Entitled, Holding
<1> QED
    BY <1>2, <1>3, <1>4, <1>5 DEF LockInv

-----------------------------------------------------------------------------
\* What a process may do.
Act(p) ==
    \/ Begin(p) \/ Fail(p) \/ FailWritten(p)
    \/ Mkdir(p) \/ Stat(p) \/ OpenOwner(p) \/ WriteOwner(p) \/ Check(p)
    \/ Clean(p) \/ CleanOwned(p) \/ UnlinkOwner(p) \/ RmdirLock(p)
    \/ Inspect(p) \/ ReadOwner(p) \/ Judge(p) \/ ReapOpen(p) \/ ReapWrite(p)
    \/ ReadMark(p) \/ JudgeMark(p) \/ Quarantine(p) \/ Recheck(p) \/ Rename(p)
    \/ Unmark(p) \/ UnlinkMark(p) \/ Wait(p)
    \/ Reload(p) \/ Persist(p) \/ Release(p)

LEMMA NextCases ==
    ASSUME Next
    PROVE  Age \/ AgeMark \/ \E p \in Proc : Die(p) \/ (Live(p) /\ Act(p))
BY DEF Next, Progress, Act

\* Actions that leave the directories alone.
Still(p) ==
    \/ Begin(p) \/ Stat(p) \/ Check(p) \/ Clean(p) \/ CleanOwned(p) \/ Inspect(p) \/ ReadOwner(p)
    \/ Judge(p) \/ ReadMark(p) \/ JudgeMark(p) \/ Quarantine(p) \/ Recheck(p) \/ Unmark(p)
    \/ Wait(p) \/ Reload(p) \/ Persist(p) \/ Release(p) \/ Fail(p)

LEMMA StillDirs ==
    ASSUME NEW p \in Proc, Still(p) \/ Die(p) PROVE UNCHANGED dirs
BY DEF Still, Begin, Stat, Check, Clean, CleanOwned, Inspect, ReadOwner, Judge, ReadMark, JudgeMark,
       Quarantine, Recheck, Unmark, Wait, Reload, Persist, Release, Fail, Die, KeepView, dirs

LEMMA TypeStep ==
    ASSUME TypeInv, [Next]_vars PROVE TypeInv'
<1> USE DEF TypeInv
<1>1. CASE UNCHANGED vars
    BY <1>1 DEF vars, dirs, data, ProcType, DirType, FileType, StoreType
<1>2. CASE Age \/ AgeMark
    BY <1>2 DEF Age, AgeMark, data, ProcType, DirType, FileType, StoreType
<1>3. ASSUME NEW p \in Proc, Act(p) \/ Die(p) PROVE TypeInv'
  <2>1. Draft(p) \in Slots /\ Full(p) \in Slots /\ NoFile \in Slots
    BY DEF Draft, Full, Slots, File
  <2>2. \A f \in Slots : Named(f) \in Proc \cup {NoProc}
    BY DEF Slots, File, NoFile, Named
  <2>3. CASE Still(p) \/ Die(p)
    <3> USE DEF Goto, Then, KeepView, Where
    <3>1. DirType' /\ FileType'
      BY <2>3, StillDirs DEF dirs, DirType, FileType
    <3>2. ProcType'
      <4> USE DEF ProcType
      <4>1. CASE Begin(p) \/ Stat(p) \/ Check(p) \/ Clean(p) \/ CleanOwned(p) \/ Judge(p) \/ Quarantine(p)
                 \/ Recheck(p) \/ Unmark(p) \/ Wait(p)
        <5>1. made' \in [Proc -> Inode \cup {NoDir}] /\ UNCHANGED <<dead, seen>>
          BY <4>1 DEF Begin, Stat, Check, Clean, CleanOwned, Judge, Quarantine, Recheck, Unmark, Wait, DirType
        <5>2. pc' \in [Proc -> Labels] /\ after' \in [Proc -> Labels]
          BY <4>1 DEF Begin, Stat, Check, Clean, CleanOwned, Judge, Quarantine, Recheck, Unmark, Wait,
                      Labels, Holding
        <5> QED
          BY <5>1, <5>2
      <4>2. CASE Inspect(p) \/ ReadOwner(p) \/ ReadMark(p) \/ JudgeMark(p)
        <5>1. seen' \in [Proc -> Seen]
          <6>0. seen[p] \in Seen
            OBVIOUS
          <6>1. CASE Inspect(p)
            <7>1. [NoView EXCEPT !.dir = lock, !.old = old] \in Seen
              BY DEF NoView, Seen, DirType, FileType
            <7> QED
              BY <6>1, <7>1 DEF Inspect
          <6>2. CASE ReadOwner(p)
            <7> DEFINE v == [seen[p] EXCEPT !.owner = IF lock = NoDir THEN NoProc ELSE Named(owner[lock])]
            <7>1. v \in Seen
              BY <6>0, <2>2 DEF Seen, DirType, FileType
            <7>2. seen' = [seen EXCEPT ![p] = v]
              BY <6>2 DEF ReadOwner
            <7> HIDE DEF v
            <7> QED
              BY <7>1, <7>2
          <6>3. CASE ReadMark(p)
            <7> DEFINE v == [seen[p] EXCEPT !.mark = Named(mark[lock]), !.markOld = markOld]
            <7>1. lock # NoDir => v \in Seen
              BY <6>0, <2>2 DEF Seen, DirType, FileType
            <7>2. lock = NoDir => seen' = seen
              BY <6>3 DEF ReadMark
            <7>3. seen' = seen \/ seen' = [seen EXCEPT ![p] = v]
              BY <6>3 DEF ReadMark
            <7> HIDE DEF v
            <7> QED
              BY <7>1, <7>2, <7>3
          <6>4. CASE JudgeMark(p)
            <7> DEFINE v == [seen[p] EXCEPT !.mark = NoProc, !.markOld = FALSE]
            <7>1. v \in Seen
              BY <6>0 DEF Seen
            <7>2. seen' = [seen EXCEPT ![p] = v]
              BY <6>4 DEF JudgeMark
            <7> HIDE DEF v
            <7> QED
              BY <7>1, <7>2
          <6> QED
            BY <4>2, <6>1, <6>2, <6>3, <6>4
        <5> QED
          BY <4>2, <5>1 DEF Inspect, ReadOwner, ReadMark, JudgeMark, Labels
      <4>3. CASE Reload(p) \/ Persist(p) \/ Release(p) \/ Fail(p) \/ Die(p)
        BY <4>3 DEF Reload, Persist, Release, Fail, Die, Labels, Holding
      <4> QED
        BY <2>3, <4>1, <4>2, <4>3 DEF Still
    <3>3. StoreType'
      BY <2>3 DEF StoreType, Still, Begin, Stat, Check, Clean, CleanOwned, Inspect, ReadOwner, Judge,
                  ReadMark, JudgeMark, Quarantine, Recheck, Unmark, Wait, Reload, Persist, Release,
                  Fail, Die, data
    <3> QED
      BY <3>1, <3>2, <3>3
  <2>4. CASE ~(Still(p) \/ Die(p))
    <3>1. \/ Mkdir(p) \/ OpenOwner(p) \/ WriteOwner(p) \/ UnlinkOwner(p) \/ RmdirLock(p) \/ ReapOpen(p)
          \/ ReapWrite(p) \/ Rename(p) \/ UnlinkMark(p) \/ FailWritten(p)
      BY <1>3, <2>4 DEF Act, Still
    <3> USE <3>1 DEF Mkdir, OpenOwner, WriteOwner, UnlinkOwner, RmdirLock, ReapOpen, ReapWrite, Rename,
                     UnlinkMark, FailWritten
    <3>2. ProcType'
      BY DEF ProcType, Goto, Then, KeepView, Labels, Holding
    <3>3. DirType'
      BY DEF DirType, Where
    <3>4. FileType'
      <4>1. owner' \in [Inode -> Slots]
        BY <2>1 DEF FileType, DirType, Where
      <4>2. mark' \in [Inode -> Slots]
        BY <2>1 DEF FileType, DirType, Where
      <4>3. old' \in BOOLEAN
        BY DEF FileType, Touch
      <4>4. markOld' \in BOOLEAN
        BY DEF FileType
      <4> QED
        BY <4>1, <4>2, <4>3, <4>4 DEF FileType
    <3>5. StoreType'
      BY DEF StoreType, data
    <3> QED
      BY <3>2, <3>3, <3>4, <3>5
  <2> QED
    BY <2>3, <2>4
<1> QED
    BY <1>1, <1>2, <1>3, NextCases

-----------------------------------------------------------------------------
(***************************************************************************)
(* What a step may change                                                  *)
(***************************************************************************)
\* A process changes nothing of another one.
LEMMA Others ==
    ASSUME TypeInv, NEW p \in Proc, Act(p) \/ Die(p), NEW q \in Proc, q # p
    PROVE  /\ pc'[q] = pc[q] /\ after'[q] = after[q] /\ made'[q] = made[q] /\ seen'[q] = seen[q]
           /\ base'[q] = base[q]
<1> USE DEF TypeInv, ProcType, StoreType, Goto, Then, KeepView, data
<1>1. CASE Still(p) \/ Die(p)
    BY <1>1 DEF Still, Begin, Stat, Check, Clean, CleanOwned, Inspect, ReadOwner, Judge, ReadMark,
                JudgeMark, Quarantine, Recheck, Unmark, Wait, Reload, Persist, Release, Fail, Die
<1>2. CASE ~(Still(p) \/ Die(p))
    BY <1>2 DEF Act, Still, Mkdir, OpenOwner, WriteOwner, UnlinkOwner, RmdirLock, ReapOpen,
                ReapWrite, Rename, UnlinkMark, FailWritten
<1> QED
    BY <1>1, <1>2

\* A process that is over stays so, and only Die changes who is dead.
LEMMA Ends ==
    ASSUME TypeInv, NEW p \in Proc
    PROVE  /\ Act(p) => ~Over(p) /\ dead' = dead
           /\ Die(p) => Over(p)' /\ dead' = dead \cup {p}
<1> USE DEF TypeInv, ProcType, Goto, Then, KeepView, Over
<1>1. ASSUME Still(p) PROVE ~Over(p) /\ dead' = dead
    BY <1>1 DEF Still, Begin, Stat, Check, Clean, CleanOwned, Inspect, ReadOwner, Judge, ReadMark,
                JudgeMark, Quarantine, Recheck, Unmark, Wait, Reload, Persist, Release, Fail
<1>2. ASSUME Act(p), ~Still(p) PROVE ~Over(p) /\ dead' = dead
    BY <1>2 DEF Act, Still, Mkdir, OpenOwner, WriteOwner, UnlinkOwner, RmdirLock, ReapOpen,
                ReapWrite, Rename, UnlinkMark, FailWritten
<1> QED
    BY <1>1, <1>2 DEF Die

LEMMA OverStays ==
    ASSUME TypeInv, NEW p \in Proc, Act(p) \/ Die(p), NEW q \in Proc, Over(q)
    PROVE  Over(q)'
<1>1. CASE q = p
    BY <1>1, Ends
<1>2. CASE q # p
    BY <1>2, Others DEF Over
<1> QED
    BY <1>1, <1>2

\* A rename moves the inspected directory, and nobody owns it.
LEMMA RenameEffect ==
    ASSUME LockInv, NEW p \in Proc, Rename(p)
    PROVE  \/ UNCHANGED <<lock, alloc, tomb>>
           \/ /\ lock # NoDir /\ lock = seen[p].dir /\ lock' = NoDir
              /\ alloc' = alloc /\ tomb' = [tomb EXCEPT ![lock] = lock]
              /\ pc[p] = "rename" /\ Named(owner[lock]) \in dead \cup {NoProc}
<1>1. CASE lock # NoDir /\ (tomb[seen[p].dir] = NoDir \/ Empty(tomb[seen[p].dir]))
  <2>1. pc[p] = "rename" /\ seen[p].dir \in Inode
    BY DEF Rename, LockInv, ProcInv, Reaping, TypeInv, ProcType, Seen
  <2>2. lock = seen[p].dir
    BY <1>1, <2>1 DEF LockInv, ReapInv, DirInv, Empty
  <2>3. tomb[lock] = NoDir
    BY <1>1, <2>1, <2>2 DEF LockInv, DirInv
  <2>4. NoDir \notin alloc
    BY DEF LockInv, TypeInv, DirType
  <2>5. Named(owner[lock]) = seen[p].owner
    BY <2>1, <2>2 DEF LockInv, ReapInv, Sound, Reaping
  <2>6. seen[p].owner \in dead \/ seen[p].owner = NoProc
    BY <2>1 DEF LockInv, ReapInv, Judged
  <2>7. lock' = NoDir /\ alloc' = alloc \ {tomb[seen[p].dir]} /\ tomb' = [tomb EXCEPT ![seen[p].dir] = lock]
    BY <1>1 DEF Rename
  <2> QED
    BY <1>1, <2>1, <2>2, <2>3, <2>4, <2>5, <2>6, <2>7
<1>2. CASE ~(lock # NoDir /\ (tomb[seen[p].dir] = NoDir \/ Empty(tomb[seen[p].dir])))
    BY <1>2 DEF Rename
<1> QED
    BY <1>1, <1>2

\* The path: mkdir takes it, rmdir and rename give it up.
Takes(p) ==
    /\ pc[p] = "mkdir" /\ pc'[p] = "stat" /\ lock = NoDir
    /\ lock' \in Inode \ alloc /\ ~Inspected(lock') /\ alloc' = alloc \cup {lock'} /\ tomb' = tomb
    /\ owner' = [owner EXCEPT ![lock'] = NoFile] /\ mark' = [mark EXCEPT ![lock'] = NoFile]
    /\ ~old' /\ ~markOld'

Removes ==
    /\ lock # NoDir /\ Empty(lock)
    /\ lock' = NoDir /\ alloc' = alloc \ {lock} /\ tomb' = tomb
    /\ owner' = owner /\ mark' = mark

Moves(p) ==
    /\ pc[p] = "rename" /\ lock # NoDir /\ lock = seen[p].dir
    /\ Named(owner[lock]) \in dead \cup {NoProc}
    /\ lock' = NoDir /\ alloc' = alloc /\ tomb' = [tomb EXCEPT ![lock] = lock]
    /\ owner' = owner /\ mark' = mark

LEMMA PathEffect ==
    ASSUME LockInv, ~Reuse, NEW p \in Proc, Act(p) \/ Die(p)
    PROVE  UNCHANGED <<lock, alloc, tomb>> \/ Takes(p) \/ Removes \/ Moves(p)
<1>1. CASE Still(p) \/ Die(p)
    BY <1>1, StillDirs DEF dirs
<1>2. CASE Mkdir(p)
    BY <1>2 DEF Mkdir, Takes, Goto, Touch, LockInv, TypeInv, ProcType
<1>3. CASE RmdirLock(p)
    BY <1>3 DEF RmdirLock, Removes
<1>4. CASE Rename(p)
    BY <1>4, RenameEffect DEF Rename, Moves
<1>5. CASE OpenOwner(p) \/ WriteOwner(p) \/ UnlinkOwner(p) \/ ReapOpen(p) \/ ReapWrite(p)
           \/ UnlinkMark(p) \/ FailWritten(p)
    BY <1>5 DEF OpenOwner, WriteOwner, UnlinkOwner, ReapOpen, ReapWrite, UnlinkMark, FailWritten
<1> QED
    BY <1>1, <1>2, <1>3, <1>4, <1>5 DEF Act, Still

\* Files: owner.json is created, written and unlinked by whoever it names.
LEMMA OwnerEffect ==
    ASSUME LockInv, ~Reuse, NEW p \in Proc, Act(p) \/ Die(p), NEW d \in Inode
    PROVE  \/ owner'[d] = owner[d]
           \/ Takes(p) /\ d = lock'
           \/ /\ pc[p] = "openOwner" /\ pc'[p] = "writeOwner" /\ d = lock /\ ~old'
              /\ owner[d] = NoFile /\ owner'[d] = Draft(p)
           \/ /\ pc[p] = "writeOwner" /\ pc'[p] \in {"check", "clean"}
              /\ owner[d] = Draft(p) /\ owner'[d] = Full(p)
           \/ /\ pc[p] \in Entitled /\ pc'[p] \in {"relRmdir", "cleanRmdir"} /\ d = lock
              /\ owner[d] = Full(p) /\ owner'[d] = NoFile
<1> USE DEF LockInv, TypeInv, ProcType, FileType, DirType, Where, Goto, Then
<1>1. CASE Still(p) \/ Die(p)
    BY <1>1, StillDirs DEF dirs
<1>2. CASE Mkdir(p) \/ RmdirLock(p) \/ Rename(p)
  <2>1. Takes(p) \/ owner' = owner
    BY <1>2, PathEffect DEF Mkdir, RmdirLock, Rename, Takes, Removes, Moves, Touch
  <2> QED
    BY <2>1 DEF Takes
<1>3. CASE OpenOwner(p)
    BY <1>3 DEF OpenOwner, Touch
<1>4. CASE WriteOwner(p) \/ FailWritten(p)
    BY <1>4 DEF WriteOwner, FailWritten
<1>5. CASE UnlinkOwner(p)
  <2>1. pc[p] \in Entitled /\ OwnsLock(p)
    BY <1>5 DEF UnlinkOwner, Entitled, Holding, HoldInv
  <2> QED
    BY <1>5, <2>1 DEF UnlinkOwner, OwnsLock
<1>6. CASE ReapOpen(p) \/ ReapWrite(p) \/ UnlinkMark(p)
    BY <1>6 DEF ReapOpen, ReapWrite, UnlinkMark
<1> QED
    BY <1>1, <1>2, <1>3, <1>4, <1>5, <1>6 DEF Act, Still

\* So is .reap.
LEMMA MarkEffect ==
    ASSUME LockInv, ~Reuse, NEW p \in Proc, Act(p) \/ Die(p), NEW d \in Inode
    PROVE  \/ mark'[d] = mark[d]
           \/ Takes(p) /\ d = lock'
           \/ /\ pc[p] = "reapOpen" /\ pc'[p] = "reapWrite" /\ d = lock /\ ~markOld'
              /\ mark[d] = NoFile /\ mark'[d] = Draft(p)
           \/ /\ pc[p] = "reapWrite" /\ pc'[p] \in {"quarantine", "failed"}
              /\ mark[d] = Draft(p) /\ mark'[d] = Full(p)
           \/ /\ pc[p] = "unlinkMark" /\ pc'[p] = after[p] /\ d = lock
              /\ mark[d].by = p /\ mark'[d] = NoFile
<1> USE DEF LockInv, TypeInv, ProcType, FileType, DirType, Where, Goto, Then
<1>1. CASE Still(p) \/ Die(p)
    BY <1>1, StillDirs DEF dirs
<1>2. CASE Mkdir(p) \/ RmdirLock(p) \/ Rename(p)
  <2>1. Takes(p) \/ mark' = mark
    BY <1>2, PathEffect DEF Mkdir, RmdirLock, Rename, Takes, Removes, Moves, Touch
  <2> QED
    BY <2>1 DEF Takes
<1>3. CASE OpenOwner(p) \/ WriteOwner(p) \/ UnlinkOwner(p)
    BY <1>3 DEF OpenOwner, WriteOwner, UnlinkOwner
<1>4. CASE ReapOpen(p)
    BY <1>4 DEF ReapOpen
<1>5. CASE ReapWrite(p) \/ FailWritten(p)
    BY <1>5 DEF ReapWrite, FailWritten
<1>6. CASE UnlinkMark(p)
    BY <1>6 DEF UnlinkMark, MarkInv
<1> QED
    BY <1>1, <1>2, <1>3, <1>4, <1>5, <1>6 DEF Act, Still

\* No process makes anything older, and only mkdir makes one hasty.
LEMMA AgeEffect ==
    ASSUME LockInv, NEW p \in Proc, Act(p) \/ Die(p)
    PROVE  /\ old' => old
           /\ markOld' => markOld
           /\ pc'[p] \in Hasty => pc[p] \in Hasty \/ (pc[p] = "mkdir" /\ lock = NoDir)
           /\ pc[p] = "mkdir" /\ pc'[p] = "stat" => ~old'
<1> USE DEF LockInv, TypeInv, ProcType, FileType, Goto, Then, Hasty, Touch
<1>1. CASE Still(p) \/ Die(p)
  <2>1. old' = old /\ markOld' = markOld
    BY <1>1, StillDirs DEF dirs
  <2>2. after[p] \notin Hasty
    BY DEF ProcInv
  <2>3. pc'[p] \in Hasty => pc[p] \in Hasty
    BY <1>1, <2>2 DEF Still, Begin, Stat, Check, Clean, CleanOwned, Inspect, ReadOwner, Judge, ReadMark,
                JudgeMark, Quarantine, Recheck, Unmark, Wait, Reload, Persist, Release, Fail, Die
  <2>4. ~(pc[p] = "mkdir" /\ pc'[p] = "stat")
    BY <1>1, <2>3 DEF Still, Begin, Stat, Check, Clean, CleanOwned, Inspect, ReadOwner, Judge, ReadMark,
                JudgeMark, Quarantine, Recheck, Unmark, Wait, Reload, Persist, Release, Fail, Die
  <2> QED
    BY <2>1, <2>3, <2>4
<1>2. CASE ~(Still(p) \/ Die(p))
  <2>1. \/ Mkdir(p) \/ OpenOwner(p) \/ WriteOwner(p) \/ UnlinkOwner(p) \/ RmdirLock(p) \/ ReapOpen(p)
        \/ ReapWrite(p) \/ Rename(p) \/ UnlinkMark(p) \/ FailWritten(p)
    BY <1>2 DEF Act, Still
  <2> USE <2>1 DEF Mkdir, OpenOwner, WriteOwner, UnlinkOwner, RmdirLock, ReapOpen, ReapWrite, Rename,
                   UnlinkMark, FailWritten
  <2>2. after[p] \notin Hasty
    BY DEF ProcInv
  <2>3. (old' => old) /\ (markOld' => markOld)
    OBVIOUS
  <2>4. pc'[p] \in Hasty => pc[p] \in Hasty \/ (pc[p] = "mkdir" /\ lock = NoDir)
    BY <2>2
  <2>5. pc[p] = "mkdir" /\ pc'[p] = "stat" => ~old'
    OBVIOUS
  <2> QED
    BY <2>3, <2>4, <2>5
<1> QED
    BY <1>1, <1>2

-----------------------------------------------------------------------------
(***************************************************************************)
(* Directories and processes                                               *)
(***************************************************************************)
Step(p) == Die(p) \/ (Live(p) /\ Act(p))

LEMMA DirStep ==
    ASSUME LockInv, ~Reuse, NEW p \in Proc, Act(p) \/ Die(p)
    PROVE  DirInv'
<1> USE DEF LockInv, DirInv, TypeInv, DirType, Where
<1>1. CASE UNCHANGED <<lock, alloc, tomb>>
    BY <1>1
<1>2. CASE Takes(p)
    BY <1>2 DEF Takes
<1>3. CASE Removes
    BY <1>3 DEF Removes
<1>4. CASE Moves(p)
    BY <1>4 DEF Moves
<1> QED
    BY <1>1, <1>2, <1>3, <1>4, PathEffect

\* The store only grows: whoever replaces it has read it since it last changed.
LEMMA StoreEffect ==
    ASSUME LockInv, NEW p \in Proc, Act(p) \/ Die(p)
    PROVE  /\ store \subseteq store'
           /\ store' # store => /\ store' = store \cup {p} /\ acked' = acked
                               /\ pc[p] = "persist" /\ pc'[p] = "release"
           /\ after'[p] = "done" => p \in store'
           /\ acked' = acked \/ (acked' = acked \cup {p} /\ p \in store /\ store' = store)
<1> USE DEF LockInv, ProcInv, HoldInv, TypeInv, ProcType, StoreType, Goto, Then, KeepView, data
<1>1. CASE Persist(p) \/ FailWritten(p)
    BY <1>1 DEF Persist, FailWritten
<1>2. CASE UnlinkOwner(p) \/ RmdirLock(p) \/ Release(p)
  <2>1. store' = store /\ after' = after
    BY <1>2 DEF UnlinkOwner, RmdirLock, Release
  <2>2. acked' = acked \/ (acked' = acked \cup {p} /\ after[p] = "done")
    BY <1>2 DEF UnlinkOwner, RmdirLock, Release
  <2> QED
    BY <2>1, <2>2
<1>3. CASE ~(Persist(p) \/ FailWritten(p) \/ UnlinkOwner(p) \/ RmdirLock(p) \/ Release(p))
  <2>1. store' = store /\ acked' = acked
    BY <1>3 DEF Act, Begin, Stat, Check, Clean, CleanOwned, Inspect, ReadOwner, Judge, ReadMark, JudgeMark,
              Quarantine, Recheck, Unmark, Wait, Reload, Fail, Die, Mkdir, OpenOwner, WriteOwner,
              ReapOpen, ReapWrite, Rename, UnlinkMark
  <2>2. after'[p] = "done" => after[p] = "done"
    BY <1>3 DEF Act, Begin, Stat, Check, Clean, CleanOwned, Inspect, ReadOwner, Judge, ReadMark, JudgeMark,
              Quarantine, Recheck, Unmark, Wait, Reload, Fail, Die, Mkdir, OpenOwner, WriteOwner,
              ReapOpen, ReapWrite, Rename, UnlinkMark
  <2> QED
    BY <2>1, <2>2
<1> QED
    BY <1>1, <1>2, <1>3

\* A process that begins to inspect a lock sees the directory at the path.
LEMMA ViewEffect ==
    ASSUME LockInv, NEW p \in Proc, Act(p) \/ Die(p)
    PROVE  /\ \/ /\ seen'[p].dir = seen[p].dir /\ seen'[p].old = seen[p].old
                 /\ pc'[p] \in Reaping => pc[p] \in Reaping
              \/ /\ pc[p] = "inspect" /\ pc'[p] = "readOwner" /\ lock # NoDir /\ UNCHANGED dirs
                 /\ seen'[p].dir = lock /\ seen'[p].old = old
           /\ after'[p] \in {"failed", "inspect", "wait", "mkdir", "done"}
<1> USE DEF LockInv, TypeInv, ProcType, ProcInv, Goto, Then, KeepView, Reaping
<1>0. seen[p] \in Seen
    OBVIOUS
<1>1. CASE Inspect(p)
  <2>1. pc[p] = "inspect" /\ UNCHANGED <<dirs, after>>
    BY <1>1 DEF Inspect
  <2>2. CASE lock = NoDir
    BY <1>1, <2>1, <2>2 DEF Inspect
  <2>3. CASE lock # NoDir
    <3>1. seen'[p] = [NoView EXCEPT !.dir = lock, !.old = old] /\ pc'[p] = "readOwner"
      BY <1>1, <2>3 DEF Inspect
    <3>2. seen'[p].dir = lock /\ seen'[p].old = old
      BY <3>1 DEF NoView
    <3> QED
      BY <2>1, <2>3, <3>1, <3>2
  <2> QED
    BY <2>2, <2>3
<1>2. CASE ReadOwner(p) \/ ReadMark(p) \/ JudgeMark(p)
    BY <1>0, <1>2 DEF ReadOwner, ReadMark, JudgeMark, Seen
<1>3. CASE ~(Inspect(p) \/ ReadOwner(p) \/ ReadMark(p) \/ JudgeMark(p))
  <2>1. seen' = seen
    BY <1>3 DEF Act, Begin, Stat, Check, Clean, CleanOwned, Judge, Quarantine, Recheck, Unmark, Wait, Reload,
              Persist, Release, Fail, FailWritten, Die, Mkdir, OpenOwner, WriteOwner, UnlinkOwner,
              RmdirLock, ReapOpen, ReapWrite, Rename, UnlinkMark
  <2>2. after'[p] \in {"failed", "inspect", "wait", "mkdir", "done"}
    BY <1>3 DEF Act, Begin, Stat, Check, Clean, CleanOwned, Judge, Quarantine, Recheck, Unmark, Wait, Reload,
              Persist, Release, Fail, FailWritten, Die, Mkdir, OpenOwner, WriteOwner, UnlinkOwner,
              RmdirLock, ReapOpen, ReapWrite, Rename, UnlinkMark
  <2>3. pc'[p] \in Reaping => pc[p] \in Reaping
    BY <1>3 DEF Act, Begin, Stat, Check, Clean, CleanOwned, Judge, Quarantine, Recheck, Unmark, Wait, Reload,
              Persist, Release, Fail, FailWritten, Die, Mkdir, OpenOwner, WriteOwner, UnlinkOwner,
              RmdirLock, ReapOpen, ReapWrite, Rename, UnlinkMark
  <2> QED
    BY <2>1, <2>2, <2>3
<1> QED
    BY <1>1, <1>2, <1>3

LEMMA ProcStep ==
    ASSUME LockInv, NEW p \in Proc, Step(p)
    PROVE  ProcInv'
<1> USE DEF LockInv
<1>0. Act(p) \/ Die(p)
    BY DEF Step
<1> SUFFICES ASSUME NEW q \in Proc
             PROVE  /\ q \in dead' => Over(q)'
                    /\ pc'[q] \in Reaping => seen'[q].dir # NoDir
                    /\ after'[q] = "done" => q \in store'
                    /\ after'[q] \in {"failed", "inspect", "wait", "mkdir", "done"}
    BY DEF ProcInv
<1>1. q \in dead' => Over(q)'
    BY <1>0, Ends, OverStays DEF Step, Live, ProcInv
<1>2. CASE q = p
    BY <1>0, <1>1, <1>2, ViewEffect, StoreEffect DEF ProcInv
<1>3. CASE q # p
    BY <1>0, <1>1, <1>3, Others, StoreEffect DEF ProcInv
<1> QED
    BY <1>2, <1>3

LEMMA AgeStep ==
    ASSUME LockInv, ~Reuse, NEW p \in Proc, Step(p)
    PROVE  AgeInv'
<1> USE DEF LockInv, AgeInv
<1>0. Act(p) \/ Die(p)
    BY DEF Step
<1> SUFFICES ASSUME lock' # NoDir
             PROVE  /\ old' => \A q \in Proc : pc'[q] \notin Hasty
                    /\ markOld' /\ mark'[lock'] # NoFile /\ ~mark'[lock'].full =>
                           pc'[mark'[lock'].by] \in {"done", "failed"}
    BY DEF Over
<1>1. CASE lock = NoDir
  <2>1. Takes(p)
    BY <1>0, <1>1, PathEffect DEF Removes, Moves
  <2> QED
    BY <2>1 DEF Takes
<1>2. CASE lock # NoDir
  <2>1. lock' = lock /\ lock \in Inode
    BY <1>0, <1>2, PathEffect DEF Takes, Removes, Moves, TypeInv, DirType, Where
  <2>2. ASSUME old', NEW q \in Proc PROVE pc'[q] \notin Hasty
    BY <1>0, <1>2, <2>2, AgeEffect, Others
  <2>3. ASSUME markOld', mark'[lock'] # NoFile, ~mark'[lock'].full
               PROVE  pc'[mark'[lock'].by] \in {"done", "failed"}
    <3>1. markOld /\ ~Takes(p)
      BY <1>0, <1>2, <2>3, AgeEffect DEF Takes
    <3>2. mark'[lock] = mark[lock]
      <4>1. mark'[lock] # NoFile /\ ~mark'[lock].full
        BY <2>1, <2>3
      <4>2. mark'[lock] # Full(p)
        BY <4>1 DEF Full
      <4> QED
        BY <1>0, <2>1, <2>3, <3>1, <4>1, <4>2, MarkEffect
    <3>3. mark[lock].by \in Proc
      BY <2>1, <2>3, <3>2 DEF TypeInv, FileType, Slots, File
    <3> QED
      BY <1>0, <1>2, <2>1, <2>3, <3>1, <3>2, <3>3, OverStays DEF Over
  <2> QED
    BY <2>2, <2>3
<1> QED
    BY <1>1, <1>2

\* Who has marked the directory at the path goes on to take its marker back, or is over.
LEMMA MarkerStays ==
    ASSUME LockInv, ~Reuse, NEW p \in Proc, Act(p) \/ Die(p), lock # NoDir, mark[lock].by = p,
           pc[p] = "reapWrite" \/ pc[p] \in Marked
    PROVE  \/ Over(p)' \/ pc'[p] \in {"reapWrite"} \cup Marked
           \/ lock' = NoDir \/ mark'[lock] = NoFile
<1> USE DEF LockInv, TypeInv, ProcType, DirType, FileType, Where, Marked, Goto, Then
<1>1. CASE UnlinkMark(p)
    BY <1>1 DEF UnlinkMark, NoFile
<1>2. CASE Die(p) \/ Fail(p) \/ FailWritten(p)
    BY <1>2, Ends DEF Fail, FailWritten, Over
<1>3. CASE ReapWrite(p) \/ Quarantine(p) \/ Recheck(p) \/ Rename(p) \/ Unmark(p)
    BY <1>3 DEF ReapWrite, Quarantine, Recheck, Rename, Unmark
<1>4. \/ Die(p) \/ Fail(p) \/ FailWritten(p) \/ UnlinkMark(p)
      \/ ReapWrite(p) \/ Quarantine(p) \/ Recheck(p) \/ Rename(p) \/ Unmark(p)
    BY DEF Act, Begin, Stat, Check, Clean, CleanOwned, Judge, Wait, Reload, Persist, Release, Mkdir, OpenOwner,
           WriteOwner, UnlinkOwner, RmdirLock, ReapOpen, Inspect, ReadOwner, ReadMark, JudgeMark
<1> QED
    BY <1>1, <1>2, <1>3, <1>4

\* A reaper that goes on has written its marker.
LEMMA DraftEnds ==
    ASSUME LockInv, NEW p \in Proc, Act(p) \/ Die(p), pc[p] = "reapWrite"
    PROVE  Over(p)' \/ \A d \in Inode : mark'[d] # Draft(p)
<1> USE DEF LockInv, TypeInv, ProcType, Goto, Then, Over
<1>1. CASE ReapWrite(p)
    BY <1>1 DEF ReapWrite, Draft, Full
<1>2. CASE Die(p) \/ Fail(p) \/ FailWritten(p)
    BY <1>2, Ends DEF Fail, FailWritten
<1>3. Die(p) \/ Fail(p) \/ FailWritten(p) \/ ReapWrite(p)
    BY DEF Act, Begin, Stat, Check, Clean, CleanOwned, Judge, Wait, Reload, Persist, Release, Mkdir, OpenOwner,
           WriteOwner, UnlinkOwner, RmdirLock, ReapOpen, Inspect, ReadOwner, ReadMark, JudgeMark,
           Quarantine, Recheck, Rename, Unmark, UnlinkMark
<1> QED
    BY <1>1, <1>2, <1>3

LEMMA MarkStep ==
    ASSUME LockInv, ~Reuse, NEW p \in Proc, Step(p)
    PROVE  MarkInv'
<1> USE DEF LockInv
<1>0. Act(p) \/ Die(p)
    BY DEF Step
<1>a. mark \in [Inode -> Slots] /\ lock \in Inode \cup {NoDir}
    BY DEF TypeInv, DirType, FileType, Where
<1>b. /\ \A q \in Proc : Draft(q).by = q /\ Full(q).by = q /\ Draft(q) # NoFile /\ Full(q) # NoFile
      /\ \A q, r \in Proc : Draft(q) # Full(r) /\ (Draft(q) = Draft(r) => q = r)
      /\ NoFile.by \notin Proc
    BY DEF Draft, Full, NoFile
<1>1. ASSUME lock' # NoDir, mark'[lock'] # NoFile, NEW x \in Proc, x = mark'[lock'].by
      PROVE  Over(x)' \/ pc'[x] \in {"reapWrite"} \cup Marked
  <2>1. ~Takes(p) /\ lock' = lock /\ lock \in Inode
    BY <1>0, <1>1, <1>a, PathEffect DEF Takes, Removes, Moves
  <2>2. CASE mark'[lock] = mark[lock]
    <3>1. Over(x) \/ pc[x] \in {"reapWrite"} \cup Marked
      BY <1>1, <2>1, <2>2 DEF MarkInv
    <3> QED
      BY <1>0, <1>1, <2>1, <2>2, <3>1, OverStays, Others, MarkerStays
  <2>3. CASE mark'[lock] # mark[lock]
    <3>1. x = p /\ pc'[p] \in {"reapWrite", "quarantine", "failed"}
      BY <1>0, <1>1, <1>b, <2>1, <2>3, MarkEffect
    <3> QED
      BY <3>1 DEF Over, Marked
  <2> QED
    BY <2>2, <2>3
<1>2. ASSUME NEW q \in Proc, ~Over(q)', pc'[q] # "reapWrite", NEW d \in Inode
      PROVE  mark'[d] # Draft(q)
  <2>1. CASE mark'[d] = mark[d]
    <3>1. CASE Over(q)
      BY <1>0, <1>2, <3>1, OverStays
    <3>2. CASE pc[q] = "reapWrite"
      BY <1>0, <1>2, <3>2, Others, DraftEnds
    <3> QED
      BY <2>1, <3>1, <3>2 DEF MarkInv
  <2>2. CASE mark'[d] # mark[d]
    <3>1. Takes(p) /\ d = lock' => mark'[d] = NoFile
      BY <1>a DEF Takes
    <3> QED
      BY <1>0, <1>2, <1>b, <2>2, <3>1, MarkEffect
  <2> QED
    BY <2>1, <2>2
<1>3. ASSUME NEW q \in Proc, pc'[q] = "unlinkMark"
      PROVE  lock' # NoDir /\ mark'[lock'].by = q
  <2>1. CASE q = p
    <3>1. Unmark(p)
      BY <1>0, <1>3, <2>1, Ends DEF ProcInv, Over, Act, Begin, Stat, Check, Clean, CleanOwned, Judge, Wait,
             Reload, Persist, Release, Mkdir, OpenOwner, WriteOwner, UnlinkOwner, RmdirLock, ReapOpen,
             ReapWrite, Inspect, ReadOwner, ReadMark, JudgeMark, Quarantine, Recheck, Rename, UnlinkMark,
             Fail, FailWritten, Goto, Then, TypeInv, ProcType
    <3>2. UNCHANGED dirs /\ lock # NoDir /\ mark[lock].by = p
      BY <1>3, <2>1, <3>1 DEF Unmark, ProcInv, Goto, TypeInv, ProcType
    <3> QED
      BY <2>1, <3>2 DEF dirs
  <2>2. CASE q # p
    <3>1. pc[q] = "unlinkMark" /\ lock # NoDir /\ lock \in Inode /\ mark[lock].by = q
      BY <1>0, <1>3, <1>a, <2>2, Others DEF MarkInv
    <3>2. mark[lock] # NoFile
      BY <1>b, <3>1
    <3>3. ~Moves(p)
      <4>1. SUFFICES ASSUME Moves(p) PROVE FALSE
        OBVIOUS
      <4>2. mark[lock].by = p \/ Over(mark[lock].by)
        BY <4>1 DEF Moves, ReapInv, Sound, Reaping
      <4> QED
        BY <2>2, <3>1, <4>2 DEF Over
    <3>4. lock' = lock /\ ~Takes(p)
      BY <1>0, <3>1, <3>2, <3>3, PathEffect DEF Takes, Removes, Empty
    <3>5. mark'[lock].by = mark[lock].by
      BY <1>0, <1>b, <2>2, <3>1, <3>2, <3>4, MarkEffect
    <3> QED
      BY <3>1, <3>4, <3>5
  <2> QED
    BY <2>1, <2>2
<1>4. lock' # NoDir /\ mark'[lock'] # NoFile => mark'[lock'].by \in Proc
  <2>1. TypeInv'
    BY <1>0, TypeStep DEF Step, Next, Progress, Act
  <2> QED
    BY <2>1 DEF TypeInv, DirType, FileType, Where, Slots, File
<1> QED
    BY <1>1, <1>2, <1>3, <1>4 DEF MarkInv, Over

-----------------------------------------------------------------------------
(***************************************************************************)
(* Holding                                                                 *)
(***************************************************************************)
\* Two processes never hold the lock.
LEMMA OneHolder ==
    ASSUME HoldInv, NEW p \in Proc, pc[p] \in Entitled, NEW q \in Proc, pc[q] \in Entitled
    PROVE  p = q
<1>1. owner[lock] = Full(p) /\ owner[lock] = Full(q)
    BY DEF HoldInv, OwnsLock
<1>2. Full(p).by = p /\ Full(q).by = q
    BY DEF Full
<1> QED
    BY <1>1, <1>2

\* Only a look at the lock that finds it one's own entitles.
LEMMA Entitles ==
    ASSUME LockInv, NEW p \in Proc, Act(p) \/ Die(p), pc'[p] \in Entitled
    PROVE  /\ OwnsLock(p) /\ UNCHANGED dirs /\ made' = made
           /\ pc'[p] = "persist" => base'[p] = store /\ store' = store
<1> USE DEF LockInv, TypeInv, ProcType, StoreType, ProcInv, Entitled, Holding, Goto, Then, KeepView
<1>1. CASE Check(p) \/ CleanOwned(p)
    BY <1>1 DEF Check, CleanOwned
<1>2. CASE Reload(p) \/ Persist(p) \/ Release(p)
    BY <1>2 DEF Reload, Persist, Release, HoldInv, data
<1>3. CASE Fail(p) \/ FailWritten(p)
  <2>1. pc[p] \in Entitled /\ pc'[p] = "release" /\ UNCHANGED dirs /\ made' = made
    BY <1>3 DEF Fail, FailWritten, dirs
  <2> QED
    BY <2>1 DEF HoldInv
<1>4. CASE ~(Check(p) \/ CleanOwned(p) \/ Reload(p) \/ Persist(p) \/ Release(p) \/ Fail(p) \/ FailWritten(p))
    BY <1>4 DEF Act, Begin, Stat, Clean, Judge, Wait, Mkdir, OpenOwner, WriteOwner, UnlinkOwner, RmdirLock,
             ReapOpen, ReapWrite, Inspect, ReadOwner, ReadMark, JudgeMark, Quarantine, Recheck, Rename,
             Unmark, UnlinkMark, Die
<1> QED
    BY <1>1, <1>2, <1>3, <1>4

LEMMA HoldStep ==
    ASSUME LockInv, ~Reuse, NEW p \in Proc, Step(p)
    PROVE  HoldInv'
<1> USE DEF LockInv
<1>0. Act(p) \/ Die(p)
    BY DEF Step
<1>1. ASSUME NEW q \in Proc, pc'[q] \in Entitled PROVE OwnsLock(q)'
  <2>1. CASE q = p
    BY <1>0, <1>1, <2>1, Entitles DEF dirs, OwnsLock
  <2>2. CASE q # p
    <3>1. pc[q] \in Entitled /\ made'[q] = made[q]
      BY <1>0, <1>1, <2>2, Others
    <3>2. lock # NoDir /\ lock = made[q] /\ owner[lock] = Full(q)
      BY <3>1 DEF HoldInv, OwnsLock
    <3>3. lock \in Inode /\ ~Empty(lock) /\ Named(owner[lock]) = q /\ q \notin dead
      BY <3>1, <3>2 DEF TypeInv, DirType, Where, Empty, Full, NoFile, Named, ProcInv, Over, Entitled, Holding
    <3>4. lock' = lock /\ ~Takes(p)
      BY <1>0, <3>2, <3>3, PathEffect DEF Takes, Removes, Moves
    <3>5. owner'[lock] = owner[lock]
      <4>1. Full(q) # NoFile /\ Full(q) # Draft(p) /\ Full(q) # Full(p)
        BY <2>2 DEF Full, Draft, NoFile
      <4> QED
        BY <1>0, <3>2, <3>3, <3>4, <4>1, OwnerEffect
    <3> QED
      BY <3>1, <3>2, <3>4, <3>5 DEF OwnsLock
  <2> QED
    BY <2>1, <2>2
<1>2. ASSUME NEW q \in Proc, pc'[q] = "persist" PROVE base'[q] = store'
  <2>1. CASE q = p
    BY <1>0, <1>2, <2>1, Entitles DEF Entitled, Holding
  <2>2. CASE q # p
    <3>1. pc[q] = "persist" /\ base'[q] = base[q]
      BY <1>0, <1>2, <2>2, Others
    <3>2. store' = store
      BY <1>0, <2>2, <3>1, StoreEffect, OneHolder DEF Entitled, Holding
    <3> QED
      BY <3>1, <3>2 DEF HoldInv
  <2> QED
    BY <2>1, <2>2
<1> QED
    BY <1>1, <1>2 DEF HoldInv

-----------------------------------------------------------------------------
(***************************************************************************)
(* Reaping                                                                 *)
(***************************************************************************)
\* A directory that a live process inspects does not come back to the path.
LEMMA NoReturn ==
    ASSUME LockInv, ~Reuse, NEW p \in Proc, Step(p), NEW q \in Proc, pc[q] \in Reaping, pc'[q] \in Reaping,
           lock' = seen[q].dir
    PROVE  lock = seen[q].dir /\ lock \in Inode /\ ~Takes(p)
<1> USE DEF LockInv
<1>1. seen[q].dir # NoDir /\ q \notin dead
    BY DEF ProcInv, Over, Reaping
<1>2. ~Takes(p)
    BY <1>1 DEF Takes, Inspected, Live
<1>3. lock' = lock
    BY <1>1, <1>2, PathEffect DEF Removes, Moves, Step
<1> QED
    BY <1>1, <1>2, <1>3 DEF TypeInv, DirType, Where

\* What a process has found stays so while another one acts.
LEMMA SoundStays ==
    ASSUME LockInv, ~Reuse, Steady, NEW p \in Proc, Step(p), NEW q \in Proc, q # p, pc[q] \in Reaping,
           lock' = seen[q].dir
    PROVE  Sound(q)'
<1> DEFINE d == seen[q].dir
<1> USE DEF LockInv
<1>0. Act(p) \/ Die(p)
    BY DEF Step
<1>1. pc'[q] = pc[q] /\ seen'[q] = seen[q]
    BY <1>0, Others
<1>2. lock = d /\ lock' = d /\ d \in Inode /\ d # NoDir /\ ~Takes(p)
    BY <1>1, NoReturn
<1>3. Sound(q)
    BY <1>2 DEF ReapInv
<1>b. /\ Draft(p) # NoFile /\ Full(p) # NoFile /\ Draft(p) # Draft(q) /\ Draft(p) # Full(p)
      /\ Draft(p).by = p /\ Draft(q).by = q /\ Full(p).by = p /\ NoFile.by = NoProc /\ p # NoProc /\ q # NoProc
    BY DEF Draft, Full, NoFile
<1>c. /\ Named(NoFile) = NoProc /\ Named(Draft(p)) = NoProc /\ Named(Full(p)) = p
    BY DEF Named, NoFile, Draft, Full
<1>d. p \notin dead
    BY DEF Step, Die, Live
\* The marker changes only if it is p's.
<1>4. mark'[d] # mark[d] => mark[d] = NoFile \/ (mark[d].by = p /\ ~Over(p))
    BY <1>0, <1>2, <1>b, MarkEffect DEF Over
<1>5. mark[d] # NoFile /\ Over(mark[d].by) => mark'[d] = mark[d] /\ pc'[mark[d].by] \in {"done", "failed"}
  <2>1. mark[d] # NoFile => mark[d].by \in Proc
    BY <1>2 DEF TypeInv, FileType, Slots, File
  <2> QED
    BY <1>0, <1>4, <2>1, OverStays DEF Over
<1>6. seen[q].old => \A r \in Proc : pc'[r] \notin Hasty
  <2>1. ASSUME seen[q].old, NEW r \in Proc PROVE pc'[r] \notin Hasty
    <3>1. pc[r] \notin Hasty
      BY <1>3, <2>1 DEF Sound
    <3> QED
      BY <1>0, <1>2, <3>1, AgeEffect, Others
  <2> QED
    BY <2>1
<1>7. pc[q] = "reapWrite" => mark'[d] = Draft(q)
    BY <1>3, <1>4, <1>b DEF Sound, Draft, NoFile
<1>8. pc[q] = "judgeMark" /\ seen[q].mark \in dead' => mark'[d].by = seen[q].mark
  <2> SUFFICES ASSUME pc[q] = "judgeMark", seen[q].mark \in dead'
               PROVE  mark'[d].by = seen[q].mark
    OBVIOUS
  <2>1. CASE seen[q].mark \in dead
    <3>1. mark[d].by = seen[q].mark /\ seen[q].mark # p /\ seen[q].mark # NoProc
      BY <1>3, <1>d, <2>1 DEF Sound, TypeInv, ProcType
    <3>2. mark[d] # NoFile
      BY <1>b, <3>1
    <3> QED
      BY <1>4, <3>1, <3>2
  <2>2. CASE seen[q].mark \notin dead
    <3>1. Die(p) /\ seen[q].mark = p
      BY <1>0, <2>2, Ends
    <3>2. Live(q)
      BY DEF ProcInv, Over, Reaping, Live
    <3>3. mark[lock].by = p
      BY <1>2, <3>1, <3>2 DEF Die
    <3>4. mark' = mark
      BY <3>1 DEF Die, dirs
    <3> QED
      BY <1>2, <3>1, <3>3, <3>4
  <2> QED
    BY <2>1, <2>2
<1>9. pc[q] = "judgeMark" /\ seen[q].mark = NoProc /\ seen[q].markOld =>
         mark'[d] # NoFile /\ pc'[mark'[d].by] \in {"done", "failed"}
    BY <1>3, <1>5 DEF Sound, Over
<1>10. pc[q] \in {"quarantine", "recheck", "rename"} =>
          mark'[d] # NoFile /\ (mark'[d].by = q \/ pc'[mark'[d].by] \in {"done", "failed"})
    BY <1>3, <1>4, <1>5 DEF Sound, Over
<1>11. pc[q] = "rename" => Named(owner'[d]) = seen[q].owner
  <2> SUFFICES ASSUME pc[q] = "rename" PROVE Named(owner'[d]) = seen[q].owner
    OBVIOUS
  <2>1. Named(owner[d]) = seen[q].owner
    BY <1>3 DEF Sound
  <2>2. seen[q].owner \in dead \/ (seen[q].owner = NoProc /\ seen[q].old)
    BY DEF ReapInv, Judged
  <2>3. ~(pc[p] = "writeOwner" /\ owner[d] = Draft(p))
    <3>1. owner[d] = Draft(p) => seen[q].old
      BY <1>c, <2>1, <2>2 DEF TypeInv, ProcType
    <3> QED
      BY <1>3, <3>1 DEF Sound, Hasty
  <2>4. ~(owner[d] = Full(p))
    BY <1>b, <1>c, <1>d, <2>1, <2>2
  <2> QED
    BY <1>0, <1>2, <1>c, <2>1, <2>3, <2>4, OwnerEffect
<1> QED
    BY <1>1, <1>6, <1>7, <1>8, <1>9, <1>10, <1>11 DEF Sound, Over, Draft

\* So are the two other parts of ReapInv.
ReapRest(p) ==
    /\ pc[p] \in Judged => seen[p].owner \in dead \/ (seen[p].owner = NoProc /\ seen[p].old)
    /\ pc[p] \in {"recheck", "rename"} =>
          lock = seen[p].dir \/ (tomb[seen[p].dir] # NoDir /\ mark[seen[p].dir] # NoFile)

LEMMA RestStays ==
    ASSUME LockInv, ~Reuse, NEW p \in Proc, Step(p), NEW q \in Proc, q # p
    PROVE  ReapRest(q)'
<1> DEFINE d == seen[q].dir
<1> USE DEF LockInv
<1>0. Act(p) \/ Die(p)
    BY DEF Step
<1>1. pc'[q] = pc[q] /\ seen'[q] = seen[q]
    BY <1>0, Others
<1>2. dead \subseteq dead'
    BY <1>0, Ends
<1>3. ASSUME pc[q] \in {"recheck", "rename"}
      PROVE  lock' = d \/ (tomb'[d] # NoDir /\ mark'[d] # NoFile)
  <2>1. d \in Inode
    BY <1>3 DEF ProcInv, TypeInv, ProcType, Seen, Reaping
  <2>2. CASE lock = d
    <3>1. mark[d] # NoFile
      BY <1>3, <2>2 DEF ReapInv, Sound, Reaping
    <3>2. ~Takes(p) /\ ~Removes
      BY <2>1, <2>2, <3>1 DEF Takes, Removes, Empty
    <3>3. CASE Moves(p)
      BY <2>1, <2>2, <3>1, <3>3 DEF Moves, TypeInv, DirType
    <3> QED
      BY <1>0, <2>2, <3>2, <3>3, PathEffect
  <2>3. CASE lock # d
    <3>1. tomb[d] = d /\ mark[d] # NoFile /\ d \in alloc /\ d # NoDir
      BY <1>3, <2>1, <2>3 DEF ReapInv, DirInv
    <3>2. tomb'[d] # NoDir
      BY <1>0, <2>1, <3>1, PathEffect DEF Takes, Removes, Moves, TypeInv, DirType
    <3>3. mark'[d] # NoFile
      <4>1. Full(p) # NoFile
        BY DEF Full, NoFile
      <4> QED
        BY <1>0, <2>1, <2>3, <3>1, <4>1, MarkEffect DEF Takes
    <3> QED
      BY <3>2, <3>3
  <2> QED
    BY <2>2, <2>3
<1>4. pc[q] \in Judged => seen[q].owner \in dead' \/ (seen[q].owner = NoProc /\ seen[q].old)
    BY <1>2 DEF ReapInv
<1> QED
    BY <1>1, <1>3, <1>4 DEF ReapRest

\* What a reaper does itself.
LEMMA ReapActs ==
    ASSUME LockInv, NEW p \in Proc, Act(p), pc[p] \in Reaping, pc'[p] \in Reaping
    PROVE  \/ ReadOwner(p) \/ Judge(p) \/ ReapOpen(p) \/ ReapWrite(p) \/ ReadMark(p) \/ JudgeMark(p)
           \/ Quarantine(p) \/ Recheck(p)
           \/ pc'[p] \in {"unmark", "unlinkMark"} /\ seen' = seen
<1> USE DEF LockInv, TypeInv, ProcType, Goto, Then, KeepView, Reaping
<1>1. CASE Rename(p) \/ Unmark(p)
    BY <1>1 DEF Rename, Unmark, ProcInv
<1>2. CASE Fail(p) \/ FailWritten(p)
    BY <1>2 DEF Fail, FailWritten, ProcInv
<1>3. ~UnlinkMark(p)
    BY DEF UnlinkMark, ProcInv
<1> QED
    BY <1>1, <1>2, <1>3 DEF Act, Begin, Stat, Check, Clean, CleanOwned, Wait, Reload, Persist, Release, Mkdir,
           OpenOwner, WriteOwner, UnlinkOwner, RmdirLock, Inspect

LEMMA OwnStep ==
    ASSUME LockInv, Prompt, ~Reuse, NEW p \in Proc, Step(p), pc'[p] \in Reaping
    PROVE  /\ lock' = seen'[p].dir => Sound(p)'
           /\ ReapRest(p)'
<1> DEFINE d == seen[p].dir
<1> USE DEF LockInv
<1>0. Act(p) /\ Live(p)
    BY Ends DEF Step, Over, Reaping
<1>a. /\ pc \in [Proc -> Labels] /\ seen[p] \in Seen /\ NoProc \notin dead
      /\ lock \in Inode \cup {NoDir} /\ mark \in [Inode -> Slots] /\ owner \in [Inode -> Slots]
    BY DEF TypeInv, ProcType, DirType, FileType, Where
<1>1. CASE pc[p] \notin Reaping
  <2>1. pc'[p] = "readOwner" /\ UNCHANGED dirs /\ lock # NoDir /\ seen'[p].old = old
    BY <1>0, <1>1, ViewEffect
  <2>2. old => \A r \in Proc : pc'[r] \notin Hasty
    BY <1>0, <2>1, Others DEF AgeInv, Hasty
  <2> QED
    BY <2>1, <2>2 DEF Sound, ReapRest, Judged
<1>2. CASE pc[p] \in Reaping
  <2>1. seen'[p].dir = d /\ seen'[p].old = seen[p].old
    BY <1>0, <1>2, ViewEffect DEF Reaping
  <2>2. lock' = d => lock = d /\ d \in Inode /\ Sound(p)
    BY <1>2, NoReturn DEF ReapInv
  <2>3. lock' = d /\ seen[p].old => \A r \in Proc : pc'[r] \notin Hasty
    BY <1>0, <2>2, Others DEF Sound, Hasty, Reaping
  <2>4. ReapRest(p)
    BY DEF ReapInv, ReapRest
  <2> USE DEF Goto, KeepView
  <2>5. CASE ReadOwner(p)
    <3>1. pc'[p] = "judge"
      BY <1>a, <2>5 DEF ReadOwner
    <3> QED
      BY <2>1, <2>3, <3>1 DEF Sound, ReapRest, Judged
  <2>6. CASE Judge(p)
    <3>1. pc'[p] \in {"reapOpen", "wait"} /\ seen' = seen /\ dead' = dead
      BY <1>a, <2>6 DEF Judge
    <3>2. pc'[p] = "reapOpen" /\ Abandoned(seen[p].owner, seen[p].old)
      BY <1>a, <2>6, <3>1 DEF Judge, Reaping
    <3> QED
      BY <2>1, <2>3, <3>1, <3>2 DEF Sound, ReapRest, Judged, Abandoned
  <2>7. CASE ReapOpen(p)
    <3>1. pc'[p] \in {"reapWrite", "readMark"} /\ seen' = seen /\ dead' = dead
      BY <1>a, <2>7 DEF ReapOpen, Reaping
    <3>2. pc'[p] = "reapWrite" => mark'[lock] = Draft(p)
      BY <1>a, <2>7 DEF ReapOpen
    <3>3. pc[p] \in Judged
      BY <2>7 DEF ReapOpen, Judged
    <3>4. Draft(p)' = Draft(p)
      BY DEF Draft
    <3> QED
      BY <2>2, <2>3, <2>4, <3>1, <3>2, <3>3, <3>4 DEF Sound, ReapRest, Judged
  <2>8. CASE ReapWrite(p)
    <3>1. pc[p] = "reapWrite" /\ pc'[p] = "quarantine" /\ seen' = seen /\ dead' = dead
      BY <1>a, <2>8 DEF ReapWrite
    <3>2. lock' = d => mark'[d] = Full(p)
      BY <2>2, <2>8, <3>1 DEF ReapWrite, Sound
    <3>3. Full(p) # NoFile /\ Full(p).by = p
      BY DEF Full, NoFile
    <3> QED
      BY <2>3, <2>4, <3>1, <3>2, <3>3 DEF Sound, ReapRest, Judged
  <2>9. CASE ReadMark(p)
    <3>1. /\ pc[p] = "readMark" /\ pc'[p] = "judgeMark" /\ dead' = dead /\ UNCHANGED dirs
          /\ lock # NoDir /\ mark[lock] # NoFile
      BY <1>a, <2>9 DEF ReadMark, Reaping
    <3>2. seen'[p].mark = Named(mark[lock]) /\ seen'[p].markOld = markOld /\ seen'[p].owner = seen[p].owner
      BY <1>a, <2>9, <3>1 DEF ReadMark, TypeInv, ProcType, Seen
    <3>3. lock' = lock /\ mark' = mark
      BY <3>1 DEF dirs
    <3>4. Named(mark[lock]) \in dead => mark[lock].by = Named(mark[lock])
      BY <1>a DEF Named
    <3>5. Named(mark[lock]) = NoProc /\ markOld => pc'[mark[lock].by] \in {"done", "failed"}
      <4>1. mark[lock].by \in Proc
        BY <1>a, <3>1 DEF Slots, File
      <4>2. Named(mark[lock]) = NoProc => ~mark[lock].full
        BY <4>1 DEF Named
      <4>3. Named(mark[lock]) = NoProc /\ markOld => Over(mark[lock].by)
        BY <3>1, <4>2 DEF AgeInv
      <4> QED
        BY <1>0, <4>1, <4>3, OverStays DEF Over
    <3>6. lock' = d => Sound(p)'
      BY <2>1, <2>3, <3>1, <3>2, <3>3, <3>4, <3>5 DEF Sound, Over
    <3> QED
      BY <2>1, <2>4, <3>1, <3>2, <3>6 DEF ReapRest, Judged
  <2>10. CASE JudgeMark(p)
    <3>1. /\ pc[p] = "judgeMark" /\ pc'[p] = "quarantine" /\ dead' = dead /\ UNCHANGED dirs
          /\ Abandoned(seen[p].mark, seen[p].markOld)
      BY <1>a, <2>10 DEF JudgeMark, Reaping
    <3>2. seen'[p].owner = seen[p].owner
      BY <1>a, <2>10 DEF JudgeMark, TypeInv, ProcType, Seen
    <3>3. lock' = lock /\ mark' = mark
      BY <3>1 DEF dirs
    <3>4. lock' = d => mark[d] # NoFile /\ Over(mark[d].by)
      <4>1. SUFFICES ASSUME lock' = d PROVE mark[d] # NoFile /\ Over(mark[d].by)
        OBVIOUS
      <4>2. CASE seen[p].mark \in dead
        <5>1. mark[d].by \in dead
          BY <2>2, <3>1, <4>1, <4>2 DEF Sound
        <5> QED
          BY <1>a, <5>1 DEF ProcInv, NoFile, TypeInv, ProcType
      <4>3. CASE seen[p].mark \notin dead
        BY <2>2, <3>1, <4>1, <4>3 DEF Sound, Abandoned
      <4> QED
        BY <4>2, <4>3
    <3>5. lock' = d => pc'[mark[d].by] \in {"done", "failed"}
      <4>1. lock' = d => mark[d].by \in Proc
        BY <1>a, <2>2, <3>4 DEF Slots, File
      <4> QED
        BY <1>0, <3>4, <4>1, OverStays DEF Over
    <3>6. lock' = d => Sound(p)'
      BY <2>1, <2>3, <3>1, <3>3, <3>4, <3>5 DEF Sound, Over
    <3> QED
      BY <2>1, <2>4, <3>1, <3>2, <3>6 DEF ReapRest, Judged
  <2>11. CASE Quarantine(p) /\ pc'[p] = "recheck"
    <3>1. pc[p] = "quarantine" /\ seen' = seen /\ dead' = dead /\ UNCHANGED dirs /\ lock = d
      BY <1>a, <2>11 DEF Quarantine, Then
    <3>2. lock' = lock /\ mark' = mark
      BY <3>1 DEF dirs
    <3>3. Sound(p)'
      <4>1. mark[d] # NoFile /\ (mark[d].by = p \/ Over(mark[d].by)) /\ d \in Inode
        BY <2>2, <3>1, <3>2 DEF Sound
      <4>2. mark[d].by \in Proc
        BY <1>a, <4>1 DEF Slots, File
      <4>3. mark[d].by = p \/ pc'[mark[d].by] \in {"done", "failed"}
        BY <1>0, <4>1, <4>2, OverStays DEF Over
      <4> QED
        BY <2>3, <2>11, <3>1, <3>2, <4>1, <4>3 DEF Sound, Over
    <3> QED
      BY <2>4, <2>11, <3>1, <3>2, <3>3 DEF ReapRest, Judged
  <2>12. CASE Recheck(p) /\ pc'[p] = "rename"
    <3>1. pc[p] = "recheck" /\ seen' = seen /\ dead' = dead /\ UNCHANGED dirs
      BY <1>a, <2>12 DEF Recheck, Then
    <3>2. lock' = lock /\ mark' = mark /\ owner' = owner /\ tomb' = tomb
      BY <3>1 DEF dirs
    <3>3. lock = d => Named(owner[d]) = seen[p].owner
      BY <1>a, <2>2, <2>12, <3>1, <3>2 DEF Recheck, Then, ProcInv
    <3>4. lock' = d => Sound(p)'
      <4> SUFFICES ASSUME lock = d PROVE Sound(p)'
        BY <3>2
      <4>1. mark[d] # NoFile /\ (mark[d].by = p \/ Over(mark[d].by)) /\ d \in Inode
        BY <2>2, <3>1, <3>2 DEF Sound
      <4>2. mark[d].by \in Proc
        BY <1>a, <4>1 DEF Slots, File
      <4>3. mark[d].by = p \/ pc'[mark[d].by] \in {"done", "failed"}
        BY <1>0, <4>1, <4>2, OverStays DEF Over
      <4>4. pc'[p] = "rename" /\ seen'[p] = seen[p]
        BY <2>12, <3>1
      <4> QED
        BY <2>3, <3>2, <3>3, <4>1, <4>3, <4>4 DEF Sound, Over
    <3> QED
      BY <2>4, <2>12, <3>1, <3>2, <3>4 DEF ReapRest, Judged
  <2>13. CASE pc'[p] \in {"unmark", "unlinkMark"}
    BY <2>1, <2>3, <2>13 DEF Sound, ReapRest, Judged
  <2>14. Quarantine(p) => pc'[p] \in {"recheck", "unmark"}
    BY <1>a DEF Quarantine, Then
  <2>15. Recheck(p) => pc'[p] \in {"rename", "unmark"}
    BY <1>a DEF Recheck, Then
  <2> QED
    BY <1>0, <1>2, <2>5, <2>6, <2>7, <2>8, <2>9, <2>10, <2>11, <2>12, <2>13, <2>14, <2>15, ReapActs
<1> QED
    BY <1>1, <1>2

-----------------------------------------------------------------------------
(***************************************************************************)
(* The invariant and what it implies                                       *)
(***************************************************************************)
LEMMA ReapStep ==
    ASSUME LockInv, Prompt, ~Reuse, Steady, NEW p \in Proc, Step(p)
    PROVE  ReapInv'
<1>1. ASSUME NEW q \in Proc
      PROVE  /\ pc'[q] \in Reaping /\ lock' = seen'[q].dir => Sound(q)'
             /\ ReapRest(q)'
  <2>1. CASE q # p
    <3>1. pc'[q] = pc[q] /\ seen'[q] = seen[q]
      BY <2>1, Others DEF Step, LockInv
    <3> QED
      BY <2>1, <3>1, SoundStays, RestStays
  <2>2. CASE q = p
    <3>1. ReapRest(p)' \/ pc'[p] \in Reaping
      BY DEF ReapRest, Reaping, Judged
    <3> QED
      BY <2>2, <3>1, OwnStep
  <2> QED
    BY <2>1, <2>2
<1> QED
    BY <1>1 DEF ReapInv, ReapRest

\* Time makes nothing old that somebody is still about to make its own.
LEMMA TimeStep ==
    ASSUME LockInv, Prompt, Age \/ AgeMark
    PROVE  LockInv'
<1> USE DEF LockInv
<1>1. /\ UNCHANGED <<after, dead, pc, made, seen, lock, alloc, owner, mark, tomb, data>>
      /\ UNCHANGED <<base, store, acked>>
    BY DEF Age, AgeMark, data
<1>2. TypeInv'
    BY TypeStep DEF Next
<1>3. DirInv' /\ ProcInv' /\ MarkInv' /\ HoldInv' /\ (acked \subseteq store)'
    BY <1>1 DEF DirInv, ProcInv, MarkInv, HoldInv, OwnsLock, Over
<1>4. AgeInv'
  <2>1. \A p \in Proc : p \in dead => Over(p)
    BY DEF ProcInv
  <2>2. CASE Age
    <3>1. \A p \in Proc : pc[p] \notin Hasty
      BY <2>1, <2>2 DEF Age, Live, Over, Hasty
    <3> QED
      BY <1>1, <2>2, <3>1 DEF Age, AgeInv, Over
  <2>3. CASE AgeMark
    <3>1. mark[lock] # NoFile /\ mark[lock] \in Slots /\ lock \in Inode
      BY <2>3 DEF AgeMark, TypeInv, FileType, DirType, Where
    <3>2. mark[lock].by \in Proc /\ (~mark[lock].full => mark[lock] = Draft(mark[lock].by))
      BY <3>1 DEF Slots, File, Draft
    <3>3. ~mark[lock].full => Over(mark[lock].by)
      <4>1. ~mark[lock].full => Over(mark[lock].by) \/ pc[mark[lock].by] = "reapWrite"
        BY <3>1, <3>2 DEF MarkInv
      <4>2. pc[mark[lock].by] = "reapWrite" => Over(mark[lock].by)
        BY <2>1, <2>3, <3>2 DEF AgeMark, Live
      <4> QED
        BY <4>1, <4>2
    <3> QED
      BY <1>1, <2>3, <3>3 DEF AgeMark, AgeInv, Over
  <2> QED
    BY <2>2, <2>3
<1>5. ReapInv'
    BY <1>1 DEF ReapInv, Sound, Over
<1> QED
    BY <1>2, <1>3, <1>4, <1>5

\* Whatever happens, and in whichever order, nothing breaks the invariant.
LEMMA LockStep ==
    ASSUME LockInv, [Next]_vars, Prompt, ~Reuse, Steady
    PROVE  LockInv'
<1>1. CASE UNCHANGED vars
    BY <1>1 DEF vars, dirs, data, LockInv, TypeInv, ProcType, DirType, FileType, StoreType, DirInv, ProcInv,
                AgeInv, MarkInv, ReapInv, HoldInv, Sound, Over, OwnsLock
<1>2. CASE Age \/ AgeMark
    BY <1>2, TimeStep
<1>3. ASSUME NEW p \in Proc, Step(p) PROVE LockInv'
  <2>0. Act(p) \/ Die(p)
    BY <1>3 DEF Step
  <2>1. TypeInv'
    BY <1>3, <2>0, TypeStep DEF LockInv, Step, Next, Progress, Act
  <2>2. DirInv' /\ ProcInv' /\ AgeInv' /\ MarkInv' /\ ReapInv' /\ HoldInv'
    BY <1>3, <2>0, DirStep, ProcStep, AgeStep, MarkStep, ReapStep, HoldStep
  <2>3. (acked \subseteq store)'
    BY <2>0, StoreEffect DEF LockInv
  <2> QED
    BY <2>1, <2>2, <2>3 DEF LockInv
<1> QED
    BY <1>1, <1>2, <1>3, NextCases DEF Step

\* Under the three assumptions the lock is exclusive, for any number of
\* processes and directories, whoever dies and whatever call fails.
THEOREM LockInvariant ==
    ASSUME Prompt, ~Reuse, Steady
    PROVE  Spec => []LockInv
<1>1. Init => LockInv
    BY InitInv
<1>2. LockInv /\ [Next]_vars => LockInv'
    BY LockStep
<1> QED
    BY <1>1, <1>2, PTL DEF Spec

\* Every state is of the declared types; no assumption is needed for that.
THEOREM LockTypes == Spec => []TypeInv
<1>1. Init => TypeInv
    BY InitInv DEF LockInv
<1>2. TypeInv /\ [Next]_vars => TypeInv'
    BY TypeStep
<1> QED
    BY <1>1, <1>2, PTL DEF Spec

\* acquireLock to releaseLock: the lock at the path is the holder's.
THEOREM HoldersAreBacked ==
    ASSUME Prompt, ~Reuse, Steady
    PROVE  Spec => []HolderBacked
<1>1. LockInv => HolderBacked
    BY DEF LockInv, HoldInv, HolderBacked, Entitled
<1> QED
    BY <1>1, LockInvariant, PTL

\* Mutual exclusion between the mutations of the store.
Exclusive == \A p, q \in Proc : pc[p] \in Holding /\ pc[q] \in Holding => p = q

\* No two processes are between acquireLock and the unlink of releaseLock.
THEOREM LockExcludes ==
    ASSUME Prompt, ~Reuse, Steady
    PROVE  Spec => []Exclusive
<1>1. LockInv => Exclusive
    BY OneHolder DEF LockInv, Exclusive, Entitled
<1> QED
    BY <1>1, LockInvariant, PTL

\* quarantineStaleLock: no rename moves the lock of a live process.
THEOREM LiveLocksStay ==
    ASSUME Prompt, ~Reuse, Steady
    PROVE  Spec => LiveLockStays
<1> DEFINE Moved == lock # NoDir /\ lock' # lock /\ (\E i \in Inode : tomb'[i] = lock)
                       => Named(owner[lock]) \in dead \cup {NoProc}
<1>1. LockInv /\ [Next]_vars => [Moved]_vars
  <2>1. SUFFICES ASSUME LockInv, Next, lock # NoDir, lock' # lock, NEW i \in Inode, tomb'[i] = lock
                 PROVE  Named(owner[lock]) \in dead \cup {NoProc}
    OBVIOUS
  <2>2. PICK p \in Proc : Act(p) \/ Die(p)
    BY <2>1, NextCases DEF Age, AgeMark
  <2>3. ~Removes
    <3>1. tomb'[i] # tomb[i]
      BY <2>1 DEF LockInv, DirInv
    <3> QED
      BY <3>1 DEF Removes
  <2> QED
    BY <2>1, <2>2, <2>3, PathEffect DEF Takes, Moves
<1> QED
    BY <1>1, LockInvariant, PTL DEF Spec, LiveLockStays

-----------------------------------------------------------------------------
(***************************************************************************)
(* TokenLock implements SerialStore                                        *)
(***************************************************************************)
\* Where at most one process has the lock, Holder is that one.
LEMMA TheHolder ==
    ASSUME NEW at, \A p, q \in Proc : at[p] \in Holding /\ at[q] \in Holding => p = q,
           NEW h, h = IF \E p \in Proc : at[p] \in Holding
                      THEN CHOOSE p \in Proc : at[p] \in Holding ELSE NoProc
    PROVE  /\ \A p \in Proc : h = p <=> at[p] \in Holding
           /\ h = NoProc <=> \A p \in Proc : at[p] \notin Holding
<1>1. CASE \E p \in Proc : at[p] \in Holding
  <2>1. PICK p \in Proc : at[p] \in Holding
    BY <1>1
  <2>2. h \in Proc /\ at[h] \in Holding
    BY <2>1
  <2> QED
    BY <2>1, <2>2
<1>2. CASE ~\E p \in Proc : at[p] \in Holding
    BY <1>2
<1> QED
    BY <1>1, <1>2

\* Nobody enters the lock while another process has it.
LEMMA StaysExclusive ==
    ASSUME LockInv, NEW p \in Proc, Act(p) \/ Die(p)
    PROVE  Exclusive'
<1> SUFFICES ASSUME NEW q \in Proc, q # p, pc'[p] \in Holding, pc'[q] \in Holding
             PROVE  FALSE
  <2>1. ASSUME NEW x \in Proc, x # p PROVE pc'[x] = pc[x]
    BY <2>1, Others DEF LockInv
  <2> QED
    BY <2>1, OneHolder DEF LockInv, Exclusive, Entitled
<1>1. OwnsLock(p)
    BY Entitles DEF Entitled
<1>2. OwnsLock(q)
    BY Others DEF LockInv, HoldInv, Entitled
<1>3. Full(p).by = p /\ Full(q).by = q
    BY DEF Full
<1> QED
    BY <1>1, <1>2, <1>3 DEF OwnsLock

\* A process is told when it has left the lock, and comes into it with nothing done.
LEMMA TellEffect ==
    ASSUME LockInv, NEW p \in Proc, Act(p) \/ Die(p), acked' # acked
    PROVE  pc[p] \notin Holding /\ pc'[p] \notin Holding
<1> USE DEF LockInv, TypeInv, ProcType, DirType, ProcInv, Goto, Then, KeepView, data
<1>1. CASE UnlinkOwner(p)
  <2>1. pc[p] # "relUnlink"
    <3>1. pc[p] = "relUnlink" => lock # NoDir /\ owner[lock] = Full(p)
      BY DEF HoldInv, Entitled, Holding, OwnsLock
    <3>2. Full(p) # NoFile
      BY DEF Full, NoFile
    <3> QED
      BY <1>1, <3>1, <3>2 DEF UnlinkOwner
  <2> QED
    BY <1>1, <2>1 DEF UnlinkOwner, Holding
<1>2. CASE RmdirLock(p)
    BY <1>2 DEF RmdirLock, Holding
<1>3. CASE Release(p)
  <2>1. OwnsLock(p)
    BY <1>3 DEF Release, HoldInv, Entitled, Holding
  <2> QED
    BY <1>3, <2>1 DEF Release
<1>4. CASE ~(UnlinkOwner(p) \/ RmdirLock(p) \/ Release(p))
    BY <1>4 DEF Act, Begin, Stat, Check, Clean, CleanOwned, Inspect, ReadOwner, Judge, ReadMark, JudgeMark,
              Quarantine, Recheck, Unmark, Wait, Reload, Fail, Die, Mkdir, OpenOwner, WriteOwner,
              ReapOpen, ReapWrite, Rename, UnlinkMark, Persist, FailWritten
<1> QED
    BY <1>1, <1>2, <1>3, <1>4

\* What a process does is a step of SerialStore or changes nothing there.
LEMMA SerialStep ==
    ASSUME LockInv, NEW p \in Proc, Act(p) \/ Die(p)
    PROVE  [Promise!SerialNext]_(Promise!serialVars)
<1>1. Exclusive /\ Exclusive'
    BY OneHolder, StaysExclusive DEF LockInv, Exclusive, Entitled
<1>2. /\ \A q \in Proc : Holder = q <=> pc[q] \in Holding
      /\ Holder = NoProc <=> \A q \in Proc : pc[q] \notin Holding
    BY <1>1, TheHolder DEF Exclusive, Holder
<1>3. /\ \A q \in Proc : Holder' = q <=> pc'[q] \in Holding
      /\ Holder' = NoProc <=> \A q \in Proc : pc'[q] \notin Holding
    BY <1>1, TheHolder DEF Exclusive, Holder
<1>4. ASSUME NEW q \in Proc, q # p PROVE pc'[q] = pc[q]
    BY <1>4, Others DEF LockInv
<1>5. Holder \in Proc \cup {NoProc} /\ Holder' \in Proc \cup {NoProc}
    BY DEF Holder
<1>6. CASE store' # store
  <2>1. store' = store \cup {p} /\ acked' = acked /\ Holder = p /\ Holder' = p
    BY <1>2, <1>3, <1>6, StoreEffect DEF Holding
  <2> QED
    BY <2>1 DEF Promise!SerialNext, Promise!Write
<1>7. CASE store' = store /\ acked' # acked
  <2>1. acked' = acked \cup {p} /\ p \in store
    BY <1>7, StoreEffect
  <2>2. Holder # p /\ Holder' # p
    BY <1>2, <1>3, <1>7, TellEffect
  <2>3. Holder' = Holder
    BY <1>2, <1>3, <1>4, <1>5, <2>2
  <2> QED
    BY <1>7, <2>1, <2>2, <2>3 DEF Promise!SerialNext, Promise!Tell
<1>8. CASE store' = store /\ acked' = acked
  <2>1. CASE pc[p] \in Holding /\ pc'[p] \in Holding
    BY <1>2, <1>3, <1>8, <2>1 DEF Promise!serialVars
  <2>2. CASE pc[p] \in Holding /\ pc'[p] \notin Holding
    <3>1. Holder = p /\ Holder' = NoProc
      BY <1>2, <1>3, <1>4, <2>2
    <3> QED
      BY <1>8, <3>1 DEF Promise!SerialNext, Promise!Leave
  <2>3. CASE pc[p] \notin Holding /\ pc'[p] \in Holding
    <3>1. Holder = NoProc /\ Holder' = p
      BY <1>1, <1>2, <1>3, <1>4, <2>3 DEF Exclusive
    <3> QED
      BY <1>8, <3>1 DEF Promise!SerialNext, Promise!Enter
  <2>4. CASE pc[p] \notin Holding /\ pc'[p] \notin Holding
    <3>1. Holder' = Holder
      BY <1>2, <1>3, <1>4, <1>5, <2>4
    <3> QED
      BY <1>8, <3>1 DEF Promise!serialVars
  <2> QED
    BY <2>1, <2>2, <2>3, <2>4
<1> QED
    BY <1>6, <1>7, <1>8

\* acquireLock, mutate and releaseLock keep the promise of SerialStore: mutations
\* follow one another, and each adds to what the one before it has left.
THEOREM LockKeepsPromise ==
    ASSUME Prompt, ~Reuse, Steady
    PROVE  Spec => MutationsAreSerial
<1>1. Init => Promise!SerialInit
    BY DEF Init, Promise!SerialInit, Holder, Holding
<1>2. LockInv /\ [Next]_vars => [Promise!SerialNext]_(Promise!serialVars)
  <2>1. CASE UNCHANGED vars
    BY <2>1 DEF vars, data, Promise!serialVars, Holder
  <2>2. CASE Age \/ AgeMark
    BY <2>2 DEF Age, AgeMark, data, Promise!serialVars, Holder
  <2>3. ASSUME LockInv, NEW p \in Proc, Act(p) \/ Die(p)
        PROVE  [Promise!SerialNext]_(Promise!serialVars)
    BY <2>3, SerialStep
  <2> QED
    BY <2>1, <2>2, <2>3, NextCases
<1> QED
    BY <1>1, <1>2, LockInvariant, PTL DEF Spec, MutationsAreSerial, Promise!SerialSpec

\* No record of which a process was told is ever lost by another mutation.
RetainsEvery == acked \subseteq store

\* mutate, tests "twenty concurrent CLI token issues retain every digest".
THEOREM RecordsAreRetained ==
    ASSUME Prompt, ~Reuse, Steady
    PROVE  Spec => []RetainsEvery
<1>1. LockInv => RetainsEvery
    BY DEF LockInv, RetainsEvery
<1> QED
    BY <1>1, LockInvariant, PTL
=============================================================================
