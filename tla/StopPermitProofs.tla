-------------------------- MODULE StopPermitProofs --------------------------
(***************************************************************************)
(* Proofs about StopPermit, for any number of overlapping issuances and    *)
(* consumptions and for any assignment of permits to them.                 *)
(***************************************************************************)
EXTENDS StopPermit, TLAPS

USE PermitConstants

LEMMA InitInv == Init => PermitTypeOK /\ PermitInv
  BY DEF Init, PermitTypeOK, PermitInv, Call, Dir, NoFiles, Labels, Linked, Spent, Created,
     Checked, Durable, IssueSteps, ConsumeSteps

-----------------------------------------------------------------------------
(***************************************************************************)
(* Type correctness                                                        *)
(***************************************************************************)
LEMMA DirChanges ==
    ASSUME NEW d \in Dir, NEW f \in Issuer \cup {NoFile}
    PROVE  /\ [d EXCEPT !.active = f] \in Dir
           /\ [d EXCEPT !.active = f].active = f
           /\ [d EXCEPT !.active = f].spent = d.spent
           /\ [d EXCEPT !.spent = f] \in Dir
           /\ [d EXCEPT !.spent = f].spent = f
           /\ [d EXCEPT !.spent = f].active = d.active
  BY DEF Dir

LEMMA StepTypeOK ==
    ASSUME PermitTypeOK, PermitInv, NEW c \in Call, Step(c)
    PROVE  PermitTypeOK'
  <1> USE DEF PermitTypeOK, Labels, IssueSteps, ConsumeSteps, Ended, Goto, KeepFiles,
     KeepRecords, KeepSeen, KeepWorld
  <1>0. /\ dir.active \in Issuer \cup {NoFile}
        /\ dir.spent \in Issuer \cup {NoFile}
    BY DEF Dir
  <1>1. pc' \in [Call -> Labels]
    BY DEF Step, IssueBegin, IssueOpen, IssueSpent1, IssueWrite, IssueSyncFile,
       IssueSpent2, IssueReread, IssueSync, IssueReturn, IssueDrop, IssueError,
       ConsumeBegin, ExistsStat, ExistsRead, ReadActive, Link, SyncLink, ReadLinked,
       Unlink, SyncUnlink, ReadSpent, CleanUp, SyncRemoval, Verify, Identify, VerifyAgain,
       ConsumeError, IssueCheck
  <1>2. dir' \in Dir /\ survivors' \subseteq Dir
    <2>0. \A f \in Issuer \cup {NoFile} :
             [dir EXCEPT !.active = f] \in Dir /\ [dir EXCEPT !.spent = f] \in Dir
      BY DirChanges
    <2>1. CASE IssueOpen(c)
      <3>1. c \in Issuer
        BY <2>1 DEF IssueOpen, PermitInv
      <3>2. [dir EXCEPT !.active = c] \in Dir
        BY <2>0, <3>1
      <3>3. UNCHANGED <<dir, survivors>> \/ SetDir([dir EXCEPT !.active = c])
        BY <2>1 DEF IssueOpen
      <3> QED
        BY <3>2, <3>3 DEF SetDir
    <2>2. CASE IssueDrop(c) \/ Unlink(c) \/ CleanUp(c)
      <3>1. [dir EXCEPT !.active = NoFile] \in Dir
        BY <2>0
      <3>2. \/ UNCHANGED <<dir, survivors>>
            \/ SetDir([dir EXCEPT !.active = NoFile])
        BY <2>2 DEF IssueDrop, Unlink, CleanUp, UnlinkActive
      <3> QED
        BY <3>1, <3>2 DEF SetDir
    <2>3. CASE Link(c)
      <3>1. [dir EXCEPT !.spent = dir.active] \in Dir
        BY <1>0, <2>0
      <3> QED
        BY <2>3, <3>1 DEF Link, SetDir
    <2> QED
      BY <2>1, <2>2, <2>3 DEF Step, IssueBegin, IssueSpent1, IssueWrite, IssueSyncFile,
         IssueSpent2, IssueReread, IssueSync, IssueReturn, IssueError, ConsumeBegin,
         ExistsStat, ExistsRead, ReadActive, SyncLink, ReadLinked, SyncUnlink, ReadSpent,
         Verify, Identify, VerifyAgain, ConsumeError, SyncRemoval, IssueCheck, Fsync
  <1>3. /\ seen' \in [Call -> Issuer \cup {NoFile}]
        /\ count' \in [Call -> 0 .. 2]
        /\ attempt' \in [Call -> 0 .. 4]
    <2>1. CASE ExistsStat(c)
      BY <2>1 DEF ExistsStat, LinksOf
    <2>2. CASE ExistsRead(c)
      <3>1. attempt[c] \in 0 .. 3
        BY <2>2 DEF ExistsRead, PermitInv
      <3> QED
        BY <2>2, <3>1 DEF ExistsRead
    <2>3. CASE ReadActive(c)
      BY <1>0, <2>3 DEF ReadActive
    <2> QED
      BY <2>1, <2>2, <2>3 DEF Step, IssueBegin, IssueOpen, IssueSpent1, IssueWrite,
         IssueSyncFile, IssueSpent2, IssueReread, IssueSync, IssueReturn, IssueDrop,
         IssueError, ConsumeBegin, Link, SyncLink, ReadLinked, Unlink, SyncUnlink,
         ReadSpent, CleanUp, SyncRemoval, Verify, Identify, VerifyAgain, ConsumeError,
         IssueCheck
  <1>4. written' \subseteq Issuer /\ synced' \subseteq Issuer
    BY DEF Step, IssueBegin, IssueOpen, IssueSpent1, IssueWrite, IssueSyncFile,
       IssueSpent2, IssueReread, IssueSync, IssueReturn, IssueDrop, IssueError,
       ConsumeBegin, ExistsStat, ExistsRead, ReadActive, Link, SyncLink, ReadLinked,
       Unlink, SyncUnlink, ReadSpent, CleanUp, SyncRemoval, Verify, Identify, VerifyAgain,
       ConsumeError, IssueCheck, PermitInv
  <1>5. now' = now /\ running' = running
    BY DEF Step, IssueBegin, IssueOpen, IssueSpent1, IssueWrite, IssueSyncFile,
       IssueSpent2, IssueReread, IssueSync, IssueReturn, IssueDrop, IssueError,
       ConsumeBegin, ExistsStat, ExistsRead, ReadActive, Link, SyncLink, ReadLinked,
       Unlink, SyncUnlink, ReadSpent, CleanUp, SyncRemoval, Verify, Identify, VerifyAgain,
       ConsumeError, IssueCheck
  <1> QED
    BY <1>1, <1>2, <1>3, <1>4, <1>5

-----------------------------------------------------------------------------
(***************************************************************************)
(* The invariant                                                           *)
(***************************************************************************)
\* A step of a call leaves every other call where it is.
LEMMA OthersStay ==
    ASSUME PermitTypeOK, NEW c \in Call, Step(c), NEW d \in Call, d # c
    PROVE  /\ pc'[d] = pc[d] /\ seen'[d] = seen[d] /\ attempt'[d] = attempt[d]
           /\ synced \subseteq synced'
  BY DEF PermitTypeOK, Goto, KeepSeen, KeepFiles, KeepRecords, Step, IssueBegin,
     IssueOpen, IssueSpent1, IssueWrite, IssueSyncFile, IssueSpent2, IssueReread,
     IssueSync, IssueReturn, IssueDrop, IssueError, ConsumeBegin, ExistsStat, ExistsRead,
     ReadActive, Link, SyncLink, ReadLinked, Unlink, SyncUnlink, ReadSpent, CleanUp,
     SyncRemoval, Verify, Identify, VerifyAgain, ConsumeError, IssueCheck

\* What a step may do to the directory.  Only the name active is ever removed,
\* and spent is given only to the active file.
DirMoves(c) ==
    /\ \/ UNCHANGED dir
       \/ /\ pc[c] = "open" /\ dir.active = NoFile
          /\ dir'.active = c /\ dir'.spent = dir.spent
       \/ /\ pc[c] = "link" /\ dir.active # NoFile /\ dir.spent = NoFile
          /\ dir'.active = dir.active /\ dir'.spent = dir.active
       \/ /\ pc[c] \in {"dropFalse", "dropThrow", "unlink", "cleanUp"}
          /\ dir'.active = NoFile /\ dir'.spent = dir.spent
    /\ dir' \in survivors'
    /\ \A s \in survivors' : s \in survivors \/ s = dir'

LEMMA StepMovesDir ==
    ASSUME PermitTypeOK, PermitInv, NEW c \in Call, Step(c)
    PROVE  DirMoves(c)
  <1>1. \/ UNCHANGED <<dir, survivors>>
        \/ UNCHANGED dir /\ survivors' = {dir}
        \/ pc[c] = "open" /\ dir.active = NoFile /\ SetDir([dir EXCEPT !.active = c])
        \/ /\ pc[c] = "link" /\ dir.active # NoFile /\ dir.spent = NoFile
           /\ SetDir([dir EXCEPT !.spent = dir.active])
        \/ /\ pc[c] \in {"dropFalse", "dropThrow", "unlink", "cleanUp"}
           /\ SetDir([dir EXCEPT !.active = NoFile])
    BY DEF Step, IssueBegin, IssueOpen, IssueSpent1, IssueWrite, IssueSyncFile,
       IssueSpent2, IssueReread, IssueSync, IssueReturn, IssueDrop, IssueError,
       ConsumeBegin, ExistsStat, ExistsRead, ReadActive, Link, SyncLink, ReadLinked,
       Unlink, SyncUnlink, ReadSpent, CleanUp, SyncRemoval, Verify, Identify, VerifyAgain,
       ConsumeError, IssueCheck, KeepFiles, KeepRecords, Fsync, UnlinkActive
  <1>2. /\ dir \in Dir /\ dir \in survivors
        /\ dir.active \in Issuer \cup {NoFile}
        /\ pc[c] = "open" => c \in Issuer
    BY DEF PermitTypeOK, PermitInv, Dir, IssueSteps
  <1>3. ASSUME NEW f \in Issuer \cup {NoFile}
        PROVE  /\ [dir EXCEPT !.active = f].active = f
               /\ [dir EXCEPT !.active = f].spent = dir.spent
               /\ [dir EXCEPT !.spent = f].spent = f
               /\ [dir EXCEPT !.spent = f].active = dir.active
    BY <1>2, DirChanges
  <1>4. CASE UNCHANGED dir
    BY <1>1, <1>2, <1>4 DEF DirMoves, SetDir
  <1>5. CASE pc[c] = "open" /\ dir.active = NoFile /\ SetDir([dir EXCEPT !.active = c])
    BY <1>2, <1>3, <1>5 DEF DirMoves, SetDir
  <1>6. CASE /\ pc[c] = "link" /\ dir.active # NoFile /\ dir.spent = NoFile
             /\ SetDir([dir EXCEPT !.spent = dir.active])
    BY <1>2, <1>3, <1>6 DEF DirMoves, SetDir
  <1>7. CASE /\ pc[c] \in {"dropFalse", "dropThrow", "unlink", "cleanUp"}
             /\ SetDir([dir EXCEPT !.active = NoFile])
    BY <1>2, <1>3, <1>7 DEF DirMoves, SetDir
  <1> QED
    BY <1>1, <1>4, <1>5, <1>6, <1>7

\* What a call needs in order to be where it is.
ConsumerSafe(c) ==
    /\ pc[c] \in Linked => dir.spent # NoFile
    /\ pc[c] = "readLinked" => \A d \in survivors : d.spent = dir.spent
    /\ pc[c] \in Spent =>
          seen[c] # NoFile /\ Holds(seen[c], c) /\ \A d \in survivors : d.spent = seen[c]

IssuerSafe(c) ==
    /\ pc[c] \in Created => dir.active = c \/ dir.spent # NoFile
    /\ pc[c] \in Checked => Keeps(dir, c)
    /\ pc[c] \in Checked \cup {"spent2"} => c \in synced
    /\ pc[c] \in Durable => \A d \in survivors : Keeps(d, c)

\* The steps of other calls do not take it away.
LEMMA OthersSafe ==
    ASSUME PermitTypeOK, PermitInv, NEW c \in Call, Step(c), NEW x \in Call, x # c
    PROVE  /\ x \in Consumer => ConsumerSafe(x)'
           /\ x \in Issuer => IssuerSafe(x)'
  <1>1. pc'[x] = pc[x] /\ seen'[x] = seen[x] /\ synced \subseteq synced'
    BY OthersStay
  <1>2. DirMoves(c)
    BY StepMovesDir
  <1>3. CASE x \in Consumer
    <2>1. ConsumerSafe(x)
      BY <1>3 DEF PermitInv, ConsumerSafe
    <2> QED
      BY <1>1, <1>2, <1>3, <2>1 DEF DirMoves, ConsumerSafe, PermitInv, Linked, Spent, Holds
  <1>4. CASE x \in Issuer
    <2>1. IssuerSafe(x)
      BY <1>4 DEF PermitInv, IssuerSafe
    <2>2. /\ pc[c] = "open" => c \in Issuer
          /\ pc[c] \in {"dropFalse", "dropThrow"} =>
                c \in Issuer /\ (dir.active = c \/ dir.spent # NoFile)
          /\ pc[c] \in {"unlink", "cleanUp"} => dir.spent # NoFile
      BY DEF PermitInv, IssueSteps, ConsumeSteps, Linked, Spent, Created
    <2> QED
      BY <1>1, <1>2, <1>4, <2>1, <2>2 DEF DirMoves, IssuerSafe, Keeps, PermitInv
  <1> QED
    BY <1>3, <1>4

\* A consumption earns its next label.
LEMMA ConsumerEarns ==
    ASSUME PermitTypeOK, PermitInv, NEW c \in Consumer, Step(c)
    PROVE  ConsumerSafe(c)'
  <1>1. ConsumerSafe(c) /\ c \in Call /\ dir \in survivors /\ c \notin Issuer
    BY DEF PermitInv, ConsumerSafe, Call
  <1>2. DirMoves(c)
    BY <1>1, StepMovesDir
  <1>3. pc[c] \in {"begin"} \cup ConsumeSteps \cup Ended
    BY <1>1 DEF PermitTypeOK, PermitInv, Labels
  <1>4. CASE SyncLink(c)
    BY <1>1, <1>4 DEF SyncLink, Fsync, Goto, KeepSeen, ConsumerSafe, Linked, Spent,
       PermitTypeOK
  <1>5. CASE ReadLinked(c)
    BY <1>1, <1>5 DEF ReadLinked, ReadsRecord, Goto, KeepSeen, KeepFiles, KeepRecords,
       ConsumerSafe, Linked, Spent, PermitTypeOK, Holds
  <1>6. CASE Link(c)
    <2>1. dir \in Dir /\ dir.active \in Issuer \cup {NoFile}
      BY DEF PermitTypeOK, Dir
    <2>2. [dir EXCEPT !.spent = dir.active].spent = dir.active
      BY <2>1, DirChanges
    <2>3. pc'[c] = "refused" \/ (pc'[c] = "syncLink" /\ dir'.spent # NoFile)
      BY <1>1, <1>6, <2>2 DEF Link, Goto, SetDir, PermitTypeOK
    <2> QED
      BY <2>3 DEF ConsumerSafe, Linked, Spent
  <1>7. CASE \/ Unlink(c) \/ SyncUnlink(c) \/ ReadSpent(c) \/ CleanUp(c) \/ Verify(c)
             \/ Identify(c) \/ VerifyAgain(c) \/ SyncRemoval(c)
    BY <1>1, <1>2, <1>7 DEF Unlink, SyncUnlink, ReadSpent, CleanUp, SyncRemoval, Verify,
       Identify, VerifyAgain, DirMoves, Goto, KeepSeen, ConsumerSafe, Linked, Spent,
       PermitTypeOK, Holds
  <1>8. CASE ConsumeError(c)
    BY <1>1, <1>8 DEF ConsumeError, Goto, KeepSeen, KeepFiles, KeepRecords, ConsumerSafe,
       Linked, Spent, PermitTypeOK
  <1>9. CASE ConsumeBegin(c) \/ ExistsStat(c) \/ ExistsRead(c) \/ ReadActive(c)
    <2>1. pc'[c] \notin Linked
      BY <1>1, <1>9 DEF ConsumeBegin, ExistsStat, ExistsRead, ReadActive, Goto,
         PermitTypeOK, Linked
    <2> QED
      BY <2>1 DEF ConsumerSafe, Linked, Spent
  <1> QED
    BY <1>1, <1>3, <1>4, <1>5, <1>6, <1>7, <1>8, <1>9 DEF Step, IssueBegin, IssueOpen,
       IssueSpent1, IssueWrite, IssueSyncFile, IssueSpent2, IssueReread, IssueSync,
       IssueReturn, IssueDrop, IssueError, IssueCheck, ConsumeSteps, Ended

\* An issuance earns its next label.
LEMMA IssuerEarns ==
    ASSUME PermitTypeOK, PermitInv, NEW c \in Issuer, Step(c)
    PROVE  IssuerSafe(c)'
  <1>1. IssuerSafe(c) /\ c \in Call /\ dir \in survivors /\ c \notin Consumer
    BY DEF PermitInv, IssuerSafe, Call
  <1>2. DirMoves(c)
    BY <1>1, StepMovesDir
  <1>3. pc[c] \in {"begin"} \cup IssueSteps \cup Ended
    BY <1>1 DEF PermitTypeOK, PermitInv, Labels
  <1>4. CASE IssueOpen(c)
    <2>1. [dir EXCEPT !.active = c].active = c
      BY DirChanges DEF PermitTypeOK
    <2>2. pc'[c] = "refused" \/ (pc'[c] = "spent1" /\ dir'.active = c)
      BY <1>1, <1>4, <2>1 DEF IssueOpen, Goto, SetDir, PermitTypeOK
    <2> QED
      BY <2>2 DEF IssuerSafe, Created, Checked, Durable, IssueSteps
  <1>5. CASE IssueSpent1(c) \/ IssueSpent2(c)
    BY <1>1, <1>5 DEF IssueSpent1, IssueSpent2, IssueCheck, Goto, KeepFiles, KeepRecords,
       IssuerSafe, Created, Checked, Durable, IssueSteps, PermitTypeOK, Keeps
  <1>6. CASE IssueSync(c)
    BY <1>1, <1>6 DEF IssueSync, Fsync, Goto, KeepRecords, IssuerSafe, Created, Checked,
       Durable, IssueSteps, PermitTypeOK, Keeps
  <1>7. CASE IssueBegin(c) \/ IssueReread(c) \/ IssueReturn(c) \/ IssueError(c)
    BY <1>1, <1>7 DEF IssueBegin, IssueReread, IssueReturn, IssueError, Goto, KeepFiles,
       KeepRecords, IssuerSafe, Created, Checked, Durable, IssueSteps, PermitTypeOK, Keeps
  <1>8. CASE IssueWrite(c) \/ IssueSyncFile(c)
    BY <1>1, <1>8 DEF IssueWrite, IssueSyncFile, Goto, IssuerSafe, Created, Checked,
       Durable, IssueSteps, PermitTypeOK, Keeps
  <1>9. CASE IssueDrop(c) \/ SyncRemoval(c)
    <2>1. pc'[c] \notin Created \cup Checked \cup Durable
      BY <1>1, <1>9 DEF IssueDrop, SyncRemoval, Goto, PermitTypeOK, Created, Checked,
         Durable, IssueSteps
    <2> QED
      BY <2>1 DEF IssuerSafe, Created, IssueSteps
  <1> QED
    BY <1>1, <1>3, <1>4, <1>5, <1>6, <1>7, <1>8, <1>9 DEF Step, ConsumeBegin, ExistsStat,
       ExistsRead, ReadActive, Link, SyncLink, ReadLinked, Unlink, SyncUnlink, ReadSpent,
       CleanUp, Verify, Identify, VerifyAgain, ConsumeError, IssueSteps, ConsumeSteps, Ended

LEMMA StepInv ==
    ASSUME PermitTypeOK, PermitInv, NEW c \in Call, Step(c)
    PROVE  PermitInv'
  <1>1. dir' \in survivors'
    BY StepMovesDir DEF DirMoves
  <1>2. \A x \in Consumer : ConsumerSafe(x)'
    <2> SUFFICES ASSUME NEW x \in Consumer PROVE ConsumerSafe(x)'
      OBVIOUS
    <2> QED
      BY OthersSafe, ConsumerEarns DEF Call
  <1>3. \A x \in Issuer : IssuerSafe(x)'
    <2> SUFFICES ASSUME NEW x \in Issuer PROVE IssuerSafe(x)'
      OBVIOUS
    <2> QED
      BY OthersSafe, IssuerEarns DEF Call
  <1>4. \A x \in Call : x # c => pc'[x] = pc[x] /\ attempt'[x] = attempt[x]
    BY OthersStay
  \* Roles and attempts.
  <1>5. /\ \A x \in Call : attempt'[x] < 4 \/ pc'[x] = "failed"
        /\ \A x \in Call : pc'[x] \in IssueSteps \cup {"issued"} => x \in Issuer
        /\ \A x \in Call : pc'[x] \in ConsumeSteps \cup {"authorized"} => x \in Consumer
    <2>1. /\ attempt'[c] < 4 \/ pc'[c] = "failed"
          /\ pc'[c] \in IssueSteps \cup {"issued"} => c \in Issuer
          /\ pc'[c] \in ConsumeSteps \cup {"authorized"} => c \in Consumer
      BY DEF PermitTypeOK, PermitInv, Goto, KeepSeen, Labels, IssueSteps, ConsumeSteps,
         Ended, Step, IssueBegin, IssueOpen, IssueSpent1, IssueWrite, IssueSyncFile,
         IssueSpent2, IssueReread, IssueSync, IssueReturn, IssueDrop, IssueError,
         ConsumeBegin, ExistsStat, ExistsRead, ReadActive, Link, SyncLink, ReadLinked,
         Unlink, SyncUnlink, ReadSpent, CleanUp, SyncRemoval, Verify, Identify, VerifyAgain,
         ConsumeError, IssueCheck
    <2> QED
      BY <1>4, <2>1 DEF PermitInv
  \* Only one call links, as it must find no spent record.
  <1>6. ASSUME NEW x \in Consumer, NEW y \in Consumer, pc'[x] \in Linked, pc'[y] \in Linked
        PROVE  x = y
    <2>1. x \in Call /\ y \in Call
      BY DEF Call
    <2>2. CASE Link(c)
      <3>1. \A z \in Consumer : pc[z] \notin Linked \/ pc'[c] \notin Linked
        BY <2>2 DEF Link, PermitInv, Goto, PermitTypeOK, Linked
      <3> QED
        BY <1>4, <1>6, <2>1, <2>2, <3>1 DEF Link, PermitInv, Goto, PermitTypeOK, Linked
    <2>3. CASE ~Link(c)
      <3>1. pc'[c] \in Linked => pc[c] \in Linked
        BY <2>3 DEF PermitTypeOK, Goto, Linked, ConsumeSteps, Step, IssueBegin, IssueOpen,
           IssueSpent1, IssueWrite, IssueSyncFile, IssueSpent2, IssueReread, IssueSync,
           IssueReturn, IssueDrop, IssueError, ConsumeBegin, ExistsStat, ExistsRead,
           ReadActive, SyncLink, ReadLinked, Unlink, SyncUnlink, ReadSpent, CleanUp,
           SyncRemoval, Verify, Identify, VerifyAgain, ConsumeError, IssueCheck
      <3> QED
        BY <1>4, <1>6, <2>1, <3>1 DEF PermitInv
    <2> QED
      BY <2>2, <2>3
  <1> QED
    BY <1>1, <1>2, <1>3, <1>5, <1>6 DEF PermitInv, ConsumerSafe, IssuerSafe

LEMMA CrashInv ==
    ASSUME PermitTypeOK, PermitInv, NEW c \in Call, Crash(c)
    PROVE  PermitTypeOK' /\ PermitInv'
  <1>1. /\ pc' \in [Call -> Labels]
        /\ pc'[c] = "failed" /\ \A x \in Call : x # c => pc'[x] = pc[x]
    BY DEF Crash, Goto, PermitTypeOK, Labels, Ended
  <1>2. PermitTypeOK'
    BY <1>1 DEF Crash, PermitTypeOK, KeepFiles, KeepRecords, KeepSeen, KeepWorld
  <1>3. \A x \in Call : pc'[x] = pc[x] \/ pc'[x] = "failed"
    BY <1>1
  <1> QED
    BY <1>2, <1>3 DEF Crash, PermitInv, KeepFiles, KeepRecords, KeepSeen, Call, Linked,
       Spent, Created, Checked, Durable, IssueSteps, ConsumeSteps, Holds, Keeps

\* A power failure ends every call in progress: what remains to be shown is that
\* issued and spent permits were durable.
LEMMA PowerFailureInv ==
    ASSUME PermitTypeOK, PermitInv, PowerFailure
    PROVE  PermitTypeOK' /\ PermitInv'
  <1>1. \A x \in Call : \/ pc'[x] = pc[x] /\ pc[x] \in {"begin"} \cup Ended
                        \/ pc'[x] = "failed"
    BY DEF PowerFailure
  <1>2. PermitTypeOK'
    <2>1. pc' \in [Call -> Labels]
      BY DEF PowerFailure, PermitTypeOK, Labels, Ended
    <2> QED
      BY <2>1 DEF PowerFailure, PermitTypeOK
  <1>3. dir' \in survivors /\ survivors' = {dir'} /\ UNCHANGED <<seen, attempt, synced>>
    BY DEF PowerFailure
  <1> QED
    BY <1>1, <1>2, <1>3 DEF PermitInv, Call, Linked, Spent, Created, Checked, Durable,
       IssueSteps, ConsumeSteps, Ended, Holds, Keeps

LEMMA NextInv ==
    PermitTypeOK /\ PermitInv /\ [Next]_vars => PermitTypeOK' /\ PermitInv'
  <1> SUFFICES ASSUME PermitTypeOK, PermitInv, [Next]_vars
               PROVE  PermitTypeOK' /\ PermitInv'
    OBVIOUS
  <1>1. CASE \E c \in Call : Step(c) \/ Crash(c)
    BY <1>1, StepTypeOK, StepInv, CrashInv
  <1>2. CASE PowerFailure
    BY <1>2, PowerFailureInv
  <1>3. CASE Tick \/ Exit \/ UNCHANGED vars
    <2>1. UNCHANGED <<pc, seen, count, attempt, dir, survivors, written, synced>>
      BY <1>3 DEF Tick, Exit, vars, KeepFiles, KeepRecords
    <2>2. now' \in 0 .. MaxTime
      <3>1. now' = now \/ (now < MaxTime /\ now' = now + 1)
        BY <1>3 DEF Tick, Exit, vars
      <3> QED
        BY <3>1 DEF PermitTypeOK
    <2>3. running' \in BOOLEAN
      BY <1>3 DEF Tick, Exit, vars, PermitTypeOK
    <2> QED
      BY <2>1, <2>2, <2>3 DEF PermitTypeOK, PermitInv, Holds, Keeps
  <1> QED
    BY <1>1, <1>2, <1>3 DEF Next

-----------------------------------------------------------------------------
(***************************************************************************)
(* Theorems                                                                *)
(***************************************************************************)
\* Type correctness and the inductive invariant of the store (the O_EXCL create,
\* the link that fails if spent exists, and the fsync that follows each).
THEOREM PermitInvariant == Spec => [](PermitTypeOK /\ PermitInv)
  BY InitInv, NextInv, PTL DEF Spec

\* At most one consumption is ever authorized, and its permit is spent for good.
THEOREM OnlyOneIsAuthorized == Spec => [](OneAuthorization /\ AuthorizationSpent)
  <1>1. PermitTypeOK /\ PermitInv => OneAuthorization /\ AuthorizationSpent
    BY DEF PermitInv, OneAuthorization, AuthorizationSpent, Linked, Spent, Holds
  <1> QED
    BY <1>1, PermitInvariant, PTL

\* At most one issuance of a nonce ever succeeds, and what it issued waits in
\* the store until it is consumed.
THEOREM OnlyOneIsIssued == Spec => [](IssuedOnce /\ IssuedStays)
  <1>1. PermitTypeOK /\ PermitInv => IssuedOnce /\ IssuedStays
    BY DEF PermitInv, IssuedOnce, IssuedStays, Checked, Durable, Keeps, PermitTypeOK, Dir
  <1> QED
    BY <1>1, PermitInvariant, PTL

\* A consumption overtaken by the expiry, or by the end of the process before
\* the process was verified, is never authorized.
THEOREM StaleIsNeverAuthorized == Spec => NoStaleAuthorization
  <1>1. PermitTypeOK /\ [Next]_vars => [\A c \in Consumer : Doomed(c) => Doomed(c)']_vars
    <2> SUFFICES ASSUME PermitTypeOK, Next, NEW c \in Consumer, Doomed(c)
                 PROVE  Doomed(c)'
      BY DEF vars
    <2>0. c \in Call
      BY DEF Call
    <2>1. CASE \E x \in Call : Step(x)
      <3> PICK x \in Call : Step(x)
        BY <2>1
      <3>1. UNCHANGED <<now, running>>
        BY DEF KeepWorld, Step, IssueBegin, IssueOpen, IssueSpent1, IssueWrite,
           IssueSyncFile, IssueSpent2, IssueReread, IssueSync, IssueReturn, IssueDrop,
           IssueError, ConsumeBegin, ExistsStat, ExistsRead, ReadActive, Link, SyncLink,
           ReadLinked, Unlink, SyncUnlink, ReadSpent, CleanUp, SyncRemoval, Verify,
           Identify, VerifyAgain, ConsumeError, IssueCheck
      <3>2. CASE x # c
        BY <2>0, <3>1, <3>2, OthersStay DEF Doomed, Unexpired
      <3>3. CASE x = c
        <4>1. pc'[c] = "authorized" => VerifyAgain(c)
          BY <2>0, <3>3 DEF PermitTypeOK, Goto, Doomed, Step, IssueBegin, IssueOpen,
             IssueSpent1, IssueWrite, IssueSyncFile, IssueSpent2, IssueReread, IssueSync,
             IssueReturn, IssueDrop, IssueError, ConsumeBegin, ExistsStat, ExistsRead,
             ReadActive, Link, SyncLink, ReadLinked, Unlink, SyncUnlink, ReadSpent,
             CleanUp, SyncRemoval, Verify, Identify, ConsumeError, IssueCheck
        <4>2. pc'[c] = "verifyAgain" => Identify(c)
          BY <2>0, <3>3 DEF PermitTypeOK, Goto, Step, IssueBegin, IssueOpen, IssueSpent1,
             IssueWrite, IssueSyncFile, IssueSpent2, IssueReread, IssueSync, IssueReturn,
             IssueDrop, IssueError, ConsumeBegin, ExistsStat, ExistsRead, ReadActive,
             Link, SyncLink, ReadLinked, Unlink, SyncUnlink, ReadSpent, CleanUp,
             SyncRemoval, Verify, VerifyAgain, ConsumeError, IssueCheck
        <4> QED
          BY <2>0, <3>1, <4>1, <4>2 DEF Doomed, Unexpired, VerifyAgain, Identify, Goto,
             PermitTypeOK
      <3> QED
        BY <3>2, <3>3
    <2>2. CASE \E x \in Call : Crash(x)
      BY <2>0, <2>2 DEF Crash, Goto, KeepWorld, Doomed, Unexpired, PermitTypeOK
    <2>3. CASE PowerFailure
      BY <2>0, <2>3 DEF PowerFailure, Doomed, Unexpired, Ended
    <2>4. CASE Tick
      BY <2>0, <2>4 DEF Tick, Doomed, Unexpired, PermitTypeOK
    <2>5. CASE Exit
      BY <2>0, <2>5 DEF Exit, Doomed, Unexpired
    <2> QED
      BY <2>1, <2>2, <2>3, <2>4, <2>5 DEF Next
  <1> QED
    BY <1>1, PermitInvariant, PTL DEF Spec, NoStaleAuthorization
=============================================================================
