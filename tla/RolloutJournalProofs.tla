------------------------ MODULE RolloutJournalProofs ------------------------
(***************************************************************************)
(* Proofs about RolloutRecord and RolloutJournal, for phase ladders of any *)
(* length, any number of process instances and any number of plans.        *)
(***************************************************************************)
EXTENDS RolloutJournal, TLAPS

USE RecordConstants, NoProcAssumption

-----------------------------------------------------------------------------
(***************************************************************************)
(* Records and their history                                               *)
(***************************************************************************)
LEMMA InitialValid ==
    ASSUME NEW a \in Authority
    PROVE  /\ Initial(a) \in Record
           /\ Valid(Initial(a))
           /\ Initial(a).authority = a
           /\ Initial(a).seq = 0
  BY DEF Initial, Valid, Record, Reachable, ReceiptValid, Terminal

LEMMA RecordUpdated ==
    ASSUME NEW r \in Record, NEW seq \in Nat
    PROVE  /\ \A act \in 0 .. LastActivation : [r EXCEPT !.act = act, !.seq = seq] \in Record
           /\ \A rb \in 0 .. LastRollback + 1 : [r EXCEPT !.rb = rb, !.seq = seq] \in Record
           /\ \A outcome \in Outcomes \cup {"none"}, n \in Nat :
                /\ [r EXCEPT !.outcome = outcome, !.seq = seq, !.receiptSeq = n] \in Record
                /\ [r EXCEPT !.outcome = outcome, !.receiptSeq = n, !.seq = seq] \in Record
  BY DEF Record

\* What each transition publishes is a record that follows its predecessor.
LEMMA TransitionsFollow ==
    ASSUME NEW r \in Record, NEW s, NEW from, NEW to, NEW outcome \in Outcomes
    PROVE  /\ AdvancesActivation(r, s, from, to) =>
                 ActivationAdvanced(r, to) \in Record /\ Follows(r, ActivationAdvanced(r, to))
           /\ BeginsRollback(r, s, from) =>
                 RollbackBegun(r) \in Record /\ Follows(r, RollbackBegun(r))
           /\ AdvancesRollback(r, s, from, to) =>
                 RollbackAdvanced(r, to) \in Record /\ Follows(r, RollbackAdvanced(r, to))
           /\ Finalizes(r, s, outcome) =>
                 Finalized(r, outcome) \in Record /\ Follows(r, Finalized(r, outcome))
  <1>0. /\ r.seq \in Nat /\ r.seq + 1 \in Nat
        /\ 1 \in 0 .. LastRollback + 1
        /\ outcome \in Outcomes \cup {"none"} /\ outcome # "none"
    BY DEF Record, Outcomes
  <1>1. ASSUME AdvancesActivation(r, s, from, to)
        PROVE  ActivationAdvanced(r, to) \in Record /\ Follows(r, ActivationAdvanced(r, to))
    <2>1. to \in 0 .. LastActivation
      BY <1>1 DEF AdvancesActivation
    <2>2. ActivationAdvanced(r, to) \in Record
      BY <1>0, <2>1, RecordUpdated DEF ActivationAdvanced
    <2> QED
      BY <1>1, <2>2 DEF AdvancesActivation, ActivationAdvanced, Follows, Mutable, Terminal,
         Record
  <1>2. ASSUME BeginsRollback(r, s, from)
        PROVE  RollbackBegun(r) \in Record /\ Follows(r, RollbackBegun(r))
    <2>1. RollbackBegun(r) \in Record
      BY <1>0, RecordUpdated DEF RollbackBegun
    <2> QED
      BY <1>2, <2>1 DEF BeginsRollback, RollbackBegun, Follows, Mutable, Terminal, Record
  <1>3. ASSUME AdvancesRollback(r, s, from, to)
        PROVE  RollbackAdvanced(r, to) \in Record /\ Follows(r, RollbackAdvanced(r, to))
    <2>1. to \in 0 .. LastRollback + 1
      BY <1>3 DEF AdvancesRollback
    <2>2. RollbackAdvanced(r, to) \in Record
      BY <1>0, <2>1, RecordUpdated DEF RollbackAdvanced
    <2> QED
      BY <1>3, <2>2 DEF AdvancesRollback, RollbackAdvanced, Follows, Mutable, Terminal,
         Record
  <1>4. ASSUME Finalizes(r, s, outcome)
        PROVE  Finalized(r, outcome) \in Record /\ Follows(r, Finalized(r, outcome))
    <2>1. Finalized(r, outcome) \in Record
      BY <1>0, RecordUpdated DEF Finalized
    <2> QED
      BY <1>0, <1>4, <2>1 DEF Finalizes, Finalized, Follows, Mutable, Terminal, Record
  <1> QED
    BY <1>1, <1>2, <1>3, <1>4

\* The instance of DurableRecord speaks of the same records.
LEMMA SameOperators ==
    /\ Promise!Record = Record
    /\ \A r : Promise!Valid(r) <=> Valid(r)
    /\ \A a : Promise!Initial(a) = Initial(a)
    /\ \A r, t : /\ Promise!Precedes(r, t) <=> Precedes(r, t)
                 /\ Promise!Follows(r, t) <=> Follows(r, t)
  BY DEF Promise!Record, Record, Promise!Valid, Valid, Promise!Initial, Initial,
     Promise!Precedes, Precedes, Promise!Follows, Follows, Promise!Terminal, Terminal,
     Promise!Outcomes, Outcomes, Promise!Reachable, Reachable, Promise!ReceiptValid,
     ReceiptValid, Promise!ActivationAccepted, ActivationAccepted,
     Promise!RollbackAccepted, RollbackAccepted

LEMMA PrecedesReflexive == \A r : Precedes(r, r)
  BY DEF Precedes

\* A transition extends the history.
LEMMA PrecedesFollows ==
    ASSUME NEW r \in Record, NEW t \in Record, NEW u \in Record,
           Precedes(r, t), Follows(t, u)
    PROVE  Precedes(r, u)
  BY DEF Record, Precedes, Follows, Terminal

\* The record at the end of a history tells the whole of it: a valid record is
\* the initial one or follows exactly one valid record.  So what validateState
\* accepts are the shapes the transitions reach, and no other.
THEOREM HistoryIsDetermined ==
    ASSUME NEW t, Valid(t)
    PROVE  /\ t = Initial(t.authority) \/ \E r \in Record : Valid(r) /\ Follows(r, t)
           /\ \A r, s \in Record :
                Valid(r) /\ Valid(s) /\ Follows(r, t) /\ Follows(s, t) => r = s
  <1> USE DEF Valid, Record, Reachable, ReceiptValid, Terminal, Follows,
              ActivationAccepted, RollbackAccepted, Outcomes
  <1>1. t = Initial(t.authority) \/ \E r \in Record : Valid(r) /\ Follows(r, t)
    <2>1. CASE Terminal(t)
      <3> DEFINE r == [t EXCEPT !.outcome = "none", !.receiptSeq = 0, !.seq = t.act + t.rb]
      <3>1. r \in Record /\ Valid(r) /\ Follows(r, t)
        <4>1. t.act + t.rb \in Nat /\ 0 \in Nat /\ t \in Record
          OBVIOUS
        <4>2. r \in Record
          BY <4>1, RecordUpdated
        <4> QED
          BY <2>1, <4>2
      <3> QED
        BY <3>1
    <2>2. CASE ~Terminal(t) /\ t.rb > 0
      <3> DEFINE r == [t EXCEPT !.rb = t.rb - 1, !.seq = t.seq - 1]
      <3>1. r \in Record /\ Valid(r) /\ Follows(r, t)
        <4>1. /\ t.rb - 1 \in 0 .. LastRollback + 1 /\ t.seq - 1 \in Nat
          BY <2>2
        <4>2. r \in Record
          BY <4>1, RecordUpdated
        <4> QED
          BY <2>2, <4>2
      <3> QED
        BY <3>1
    <2>3. CASE ~Terminal(t) /\ t.rb = 0 /\ t.act > 0
      <3> DEFINE r == [t EXCEPT !.act = t.act - 1, !.seq = t.seq - 1]
      <3>1. r \in Record /\ Valid(r) /\ Follows(r, t)
        <4>1. /\ t.act - 1 \in 0 .. LastActivation /\ t.seq - 1 \in Nat
          BY <2>3
        <4>2. r \in Record
          BY <4>1, RecordUpdated
        <4> QED
          BY <2>3, <4>2
      <3> QED
        BY <3>1
    <2>4. CASE ~Terminal(t) /\ t.rb = 0 /\ t.act = 0
      BY <2>4 DEF Initial
    <2> QED
      BY <2>1, <2>2, <2>3, <2>4
  <1>2. ASSUME NEW r \in Record, NEW s \in Record,
               Valid(r), Valid(s), Follows(r, t), Follows(s, t)
        PROVE  r = s
    <2>1. /\ r.authority = s.authority /\ r.seq = s.seq
          /\ r.outcome = "none" /\ s.outcome = "none"
          /\ r.receiptSeq = 0 /\ s.receiptSeq = 0
      BY <1>2
    <2>2. r.act = s.act /\ r.rb = s.rb
      BY <1>2
    <2> QED
      BY <2>1, <2>2
  <1> QED
    BY <1>1, <1>2

-----------------------------------------------------------------------------
(***************************************************************************)
(* What a step of p does                                                   *)
(***************************************************************************)
USE DEF NoEntry

\* The lease leaves room for one handle: the others are closed, before p's
\* step and after it.
LEMMA StepFrame ==
    ASSUME JournalTypeOK, LeaseMatchesHandle, NEW p \in Proc, Step(p)
    PROVE  /\ \A q \in Proc \ {p} : jpc[q] = "closed" /\ jpc'[q] = "closed"
           /\ holder' = p <=> jpc'[p] # "closed"
           /\ holder' \in {p, NoProc}
  <1> USE DEF JournalTypeOK, LeaseTypeOK, LeaseMatchesHandle, Goto, leaseVars
  <1>1. CASE CreateJournal(p) \/ OpenJournal(p)
    <2>1. holder = NoProc /\ holder' = p
      BY <1>1 DEF CreateJournal, OpenJournal, Begin, Acquire
    <2> QED
      BY <1>1, <2>1 DEF CreateJournal, OpenJournal, Begin
  <1>2. CASE Close(p) /\ jpc[p] # "closed"
    BY <1>2 DEF Close, Release
  <1>3. CASE jpc[p] # "closed" /\ holder' = holder
             /\ \E l \in JournalLabels \ {"closed"} : Goto(p, l)
    BY <1>3
  <1>4. CASE OpenRead(p) \/ CreatePreflight(p) \/ Link(p) \/ SyncLink(p)
             \/ UnlinkTemp(p) \/ SyncUnlink(p) \/ ReadCreated(p) \/ GiveUp(p)
    BY <1>2, <1>3, <1>4 DEF OpenRead, CreatePreflight, Link, SyncLink, UnlinkTemp,
       SyncUnlink, ReadCreated, GiveUp, JournalLabels, CreateSteps
  <1>5. CASE AdvanceActivation(p) \/ BeginRollback(p) \/ AdvanceRollback(p) \/ Finalize(p)
    BY <1>3, <1>5 DEF AdvanceActivation, BeginRollback, AdvanceRollback, Finalize, CanAsk,
       Ask, JournalLabels, PublishSteps
  <1>6. CASE Publish(p) \/ RenameRecord(p) \/ SyncRename(p) \/ ReadBack(p) \/ FailPublish(p)
    BY <1>3, <1>6 DEF Publish, RenameRecord, SyncRename, ReadBack, FailPublish, Settle,
       JournalLabels, PublishSteps
  <1>7. CASE ReleaseJournal(p)
    BY <1>2, <1>7 DEF ReleaseJournal
  <1> QED
    BY <1>1, <1>4, <1>5, <1>6, <1>7 DEF Step

\* The ways in which the path, the disk and what was acknowledged change.
Quiet   == UNCHANGED <<disk, survivors, acked>>
Synced  == Fsync /\ UNCHANGED acked
Created == /\ disk = NoEntry
           /\ \E a \in Authority : Put([record |-> Initial(a), links |-> 2])
           /\ UNCHANGED acked
Cleaned == /\ disk \in Entry
           /\ Valid(DiskRecord)
           /\ Put([record |-> DiskRecord, links |-> 1])
           /\ UNCHANGED acked
Moved   == /\ disk \in Entry
           /\ \E r \in Record :
                Valid(r) /\ Follows(DiskRecord, r) /\ Put([record |-> r, links |-> 1])
           /\ UNCHANGED acked
Acked   == /\ disk \in Entry
           /\ survivors = {disk}
           /\ acked' = DiskRecord
           /\ UNCHANGED <<disk, survivors>>

LEMMA EntryWithOneLink ==
    ASSUME NEW r \in Record, NEW n \in {1, 2}
    PROVE  /\ [record |-> r, links |-> n] \in Entry
           /\ [[record |-> r, links |-> n] EXCEPT !.links = 1] = [record |-> r, links |-> 1]
  BY DEF Entry

LEMMA DiskMoves ==
    ASSUME JournalTypeOK, JournalInv, NEW p \in Proc, Step(p)
    PROVE  Quiet \/ Synced \/ Created \/ Cleaned \/ Moved \/ Acked
  <1> USE DEF JournalTypeOK, JournalInv
  <1>1. CASE CreateJournal(p) \/ OpenJournal(p) \/ OpenRead(p) \/ CreatePreflight(p)
             \/ AdvanceActivation(p) \/ BeginRollback(p) \/ AdvanceRollback(p)
             \/ Finalize(p) \/ Publish(p) \/ FailPublish(p) \/ ReleaseJournal(p)
    BY <1>1 DEF CreateJournal, OpenJournal, Begin, OpenRead, CreatePreflight,
       AdvanceActivation, BeginRollback, AdvanceRollback, Finalize, Ask, Publish,
       FailPublish, Settle, ReleaseJournal, Quiet
  <1>2. CASE SyncLink(p) \/ SyncUnlink(p) \/ SyncRename(p)
    BY <1>2 DEF SyncLink, SyncUnlink, SyncRename, Synced
  <1>3. CASE Link(p)
    <2>1. jpc[p] = "link" /\ disk = NoEntry
      BY <1>3 DEF Link, EntryInPlace
    <2>2. binding[p] \in Authority
      BY <2>1 DEF EntryInPlace, CreateSteps
    <2> QED
      BY <1>3, <2>1, <2>2 DEF Link, Created
  <1>4. CASE UnlinkTemp(p) \/ (GiveUp(p) /\ ~ Quiet)
    <2>1. jpc[p] \in {"syncLink", "unlinkTemp"} /\ Put([disk EXCEPT !.links = 1])
          /\ UNCHANGED acked
      BY <1>4 DEF UnlinkTemp, GiveUp, Quiet
    <2>2. disk = [record |-> Initial(binding[p]), links |-> 2] /\ binding[p] \in Authority
      BY <2>1 DEF EntryInPlace, CreateSteps
    <2>3. /\ Valid(Initial(binding[p])) /\ disk \in Entry
          /\ [disk EXCEPT !.links = 1] = [record |-> Initial(binding[p]), links |-> 1]
      BY <2>2, InitialValid, EntryWithOneLink
    <2> QED
      BY <2>1, <2>2, <2>3 DEF Cleaned, DiskRecord
  <1>5. CASE RenameRecord(p)
    <2>1. jpc[p] = "rename" /\ Put([record |-> request[p].record, links |-> 1])
          /\ UNCHANGED acked
      BY <1>5 DEF RenameRecord
    <2>2. Mine(p) /\ Follows(DiskRecord, request[p].record) /\ Valid(request[p].record)
      BY <2>1 DEF HandleReadable, ReplacesExpected, EntryInPlace, PublishSteps
    <2>3. disk \in Entry /\ request[p].record \in Record
      BY <2>2 DEF Mine, Readable, Valid
    <2> QED
      BY <2>1, <2>2, <2>3 DEF Moved
  <1>6. CASE ReadBack(p)
    BY <1>6 DEF ReadBack, Settle, Readable, EntryInPlace, Acked
  <1>7. CASE ReadCreated(p)
    BY <1>7 DEF ReadCreated, Mine, Readable, EntryInPlace, Acked, Quiet
  <1> QED
    BY <1>1, <1>2, <1>3, <1>4, <1>5, <1>6, <1>7 DEF Step

-----------------------------------------------------------------------------
(***************************************************************************)
(* The inductive invariant                                                 *)
(***************************************************************************)
\* A transition keeps what was acknowledged, a reader of the same entry too.
LEMMA DiskPreserves ==
    ASSUME JournalTypeOK, AckedSurvives, SurvivorsAreHistory,
           Quiet \/ Synced \/ Created \/ Cleaned \/ Moved \/ Acked
    PROVE  /\ AckedSurvives' /\ SurvivorsAreHistory'
           /\ disk' \in Entry \cup {NoEntry}
           /\ \A e \in survivors' : e \in Entry \cup {NoEntry}
           /\ acked' \in Record \cup {NoRecord}
  <1> USE DEF JournalTypeOK, AckedSurvives, SurvivorsAreHistory, Promise!KeepsAcked,
              DiskRecord
  <1>0. /\ \A e \in Entry : e.record \in Record /\ e.record # NoRecord /\ e # NoEntry
        /\ \A r, t : Promise!Precedes(r, t) <=> Precedes(r, t)
    BY SameOperators DEF Entry
  <1>1. CASE Quiet
    BY <1>1 DEF Quiet
  <1>2. CASE Synced
    BY <1>2, PrecedesReflexive DEF Synced, Fsync
  <1>3. CASE Created
    <2>1. PICK a \in Authority : Put([record |-> Initial(a), links |-> 2])
      BY <1>3 DEF Created
    <2> DEFINE e == [record |-> Initial(a), links |-> 2]
    <2>2. e \in Entry /\ Valid(e.record) /\ e.links = 2 /\ acked = NoRecord
          /\ Precedes(e.record, e.record) /\ survivors' = survivors \cup {e} /\ disk' = e
      BY <1>0, <1>3, <2>1, InitialValid, EntryWithOneLink, PrecedesReflexive
         DEF Created, Put
    <2>3. acked' = NoRecord /\ \A f \in survivors : f = NoEntry
      BY <1>3, <2>2 DEF Created
    <2> HIDE DEF e
    <2> QED
      BY <1>0, <2>2, <2>3
  <1>4. CASE Cleaned
    <2> DEFINE e == [record |-> disk.record, links |-> 1]
    <2>1. e \in Entry /\ e.record = disk.record /\ e.links = 1 /\ disk' = e
          /\ survivors' = survivors \cup {e} /\ acked' = acked /\ Valid(e.record)
      BY <1>0, <1>4, EntryWithOneLink DEF Cleaned, Put
    <2>2. Precedes(e.record, e.record) /\ disk # NoEntry
      BY <1>0, <1>4, PrecedesReflexive DEF Cleaned
    <2> HIDE DEF e
    <2> QED
      BY <1>0, <2>1, <2>2
  <1>5. CASE Moved
    <2>1. PICK r \in Record : /\ Valid(r) /\ Follows(disk.record, r)
                              /\ Put([record |-> r, links |-> 1])
      BY <1>5 DEF Moved
    <2> DEFINE e == [record |-> r, links |-> 1]
    <2>2. e \in Entry /\ e.record = r /\ e.links = 1 /\ disk' = e
          /\ survivors' = survivors \cup {e} /\ acked' = acked
      BY <1>5, <2>1, EntryWithOneLink DEF Moved, Put
    <2>3. disk \in Entry /\ disk # NoEntry
      BY <1>0, <1>5 DEF Moved
    <2>4. \A f \in survivors : f # NoEntry => Precedes(f.record, r)
      BY <1>0, <2>1, <2>3, PrecedesFollows
    <2>5. acked # NoRecord => Precedes(acked, r)
      BY <1>0, <2>1, <2>3, PrecedesFollows
    <2> HIDE DEF e
    <2> QED
      BY <1>0, <2>1, <2>2, <2>4, <2>5, PrecedesReflexive
  <1>6. CASE Acked
    BY <1>0, <1>6, PrecedesReflexive DEF Acked
  <1> QED
    BY <1>1, <1>2, <1>3, <1>4, <1>5, <1>6

\* p's own part of the invariant.
Handled(p) ==
    /\ jpc[p] \in {"publish", "rename"} =>
         /\ DiskRecord.seq = request[p].expected
         /\ Follows(DiskRecord, request[p].record)
    /\ jpc[p] \in {"ready"} \cup PublishSteps => Mine(p)
    /\ jpc[p] \in CreateSteps => binding[p] \in Authority
    /\ jpc[p] = "link" => disk = NoEntry
    /\ jpc[p] \in {"syncLink", "unlinkTemp"} =>
          disk = [record |-> Initial(binding[p]), links |-> 2]
    /\ jpc[p] \in {"syncUnlink", "readCreated"} =>
          disk = [record |-> Initial(binding[p]), links |-> 1]
    /\ jpc[p] \in {"unlinkTemp", "readCreated", "readBack"} => survivors = {disk}
    /\ jpc[p] = "rename" => Valid(request[p].record)

LEMMA HandledIsAll ==
    (\A p \in Proc : Handled(p)) <=> ReplacesExpected /\ HandleReadable /\ EntryInPlace
  BY DEF Handled, ReplacesExpected, HandleReadable, EntryInPlace

LEMMA HandledIsAllNext ==
    (\A p \in Proc : Handled(p)') <=> ReplacesExpected' /\ HandleReadable' /\ EntryInPlace'
  BY DEF Handled, ReplacesExpected, HandleReadable, EntryInPlace

LEMMA ClosedIsHandled ==
    ASSUME NEW p \in Proc, jpc'[p] = "closed"
    PROVE  Handled(p)'
  BY DEF Handled, PublishSteps, CreateSteps

LEMMA StepHandles ==
    ASSUME JournalTypeOK, JournalInv, NEW p \in Proc, Step(p)
    PROVE  Handled(p)'
  <1>h. Handled(p)
    BY HandledIsAll DEF JournalInv
  <1> USE DEF JournalTypeOK, Goto
  <1>1. CASE CreateJournal(p)
    BY <1>1 DEF CreateJournal, Begin, Handled, CreateSteps, PublishSteps
  <1>2. CASE OpenJournal(p)
    BY <1>2 DEF OpenJournal, Begin, Handled, CreateSteps, PublishSteps
  <1>3. CASE Close(p)
    BY <1>3, ClosedIsHandled DEF Close
  <1>4. CASE (OpenRead(p) \/ CreatePreflight(p) \/ ReadCreated(p)) /\ ~ Close(p)
    <2>1. CASE CreatePreflight(p)
      BY <1>4, <1>h, <2>1 DEF CreatePreflight, Handled, CreateSteps, PublishSteps
    <2>2. CASE OpenRead(p) \/ ReadCreated(p)
      <3>1. /\ jpc'[p] = "ready" /\ Mine(p) /\ UNCHANGED <<binding, disk>>
        BY <1>4, <2>2 DEF OpenRead, ReadCreated
      <3>2. Mine(p)'
        BY <3>1 DEF Mine, DiskRecord
      <3> QED
        BY <3>1, <3>2 DEF Handled, CreateSteps, PublishSteps
    <2> QED
      BY <1>4, <2>1, <2>2
  <1>5. CASE Link(p) /\ ~ Close(p)
    BY <1>5, <1>h DEF Link, Put, Handled, CreateSteps, PublishSteps
  <1>6. CASE SyncLink(p) \/ SyncUnlink(p)
    BY <1>6, <1>h DEF SyncLink, SyncUnlink, Fsync, Handled, CreateSteps, PublishSteps
  <1>7. CASE UnlinkTemp(p)
    <2>1. /\ jpc[p] = "unlinkTemp" /\ disk' = [disk EXCEPT !.links = 1]
          /\ disk = [record |-> Initial(binding[p]), links |-> 2]
          /\ binding[p] \in Authority /\ jpc'[p] = "syncUnlink" /\ binding' = binding
      BY <1>7, <1>h DEF UnlinkTemp, Put, Handled, CreateSteps
    <2>2. disk' = [record |-> Initial(binding[p]), links |-> 1]
      BY <2>1
    <2> QED
      BY <2>1, <2>2 DEF Handled, CreateSteps, PublishSteps
  <1>8. CASE \E expected \in Nat, record \in Record :
               /\ jpc[p] = "ready" /\ Ask(p, expected, record)
               /\ DiskRecord.seq = expected /\ Follows(DiskRecord, record)
    <2>1. PICK expected \in Nat, record \in Record :
               /\ jpc[p] = "ready" /\ Ask(p, expected, record)
               /\ DiskRecord.seq = expected /\ Follows(DiskRecord, record)
      BY <1>8
    <2>2. /\ jpc'[p] = "publish" /\ binding' = binding /\ disk' = disk
          /\ request'[p].expected = expected /\ request'[p].record = record
      BY <2>1 DEF Ask
    <2>3. Mine(p)
      BY <1>h, <2>1 DEF Handled
    <2>4. DiskRecord' = DiskRecord /\ Mine(p)'
      BY <2>2, <2>3 DEF DiskRecord, Mine
    <2> QED
      BY <2>1, <2>2, <2>4 DEF Handled, CreateSteps, PublishSteps
  <1>9. CASE AdvanceActivation(p) \/ BeginRollback(p) \/ AdvanceRollback(p) \/ Finalize(p)
    <2>1. jpc[p] = "ready" /\ DiskRecord \in Record
      BY <1>9 DEF AdvanceActivation, BeginRollback, AdvanceRollback, Finalize, CanAsk,
         Mine, Readable, Valid, DiskRecord
    <2>2. Sequences \subseteq Nat /\ Outcomes # {}
      BY DEF Sequences, Outcomes
    <2>3. CASE AdvanceActivation(p)
      <3>1. PICK s \in Sequences, from \in Phases, to \in Phases :
              /\ AdvancesActivation(DiskRecord, s, from, to)
              /\ Ask(p, s, ActivationAdvanced(DiskRecord, to))
        BY <2>3 DEF AdvanceActivation
      <3>2. DiskRecord.seq = s /\ s \in Nat
        BY <2>2, <3>1 DEF AdvancesActivation, Mutable
      <3> QED
        BY <1>8, <2>1, <2>2, <3>1, <3>2, TransitionsFollow
    <2>4. CASE BeginRollback(p)
      <3>1. PICK s \in Sequences, from \in Phases :
              /\ BeginsRollback(DiskRecord, s, from)
              /\ Ask(p, s, RollbackBegun(DiskRecord))
        BY <2>4 DEF BeginRollback
      <3>2. DiskRecord.seq = s /\ s \in Nat
        BY <2>2, <3>1 DEF BeginsRollback, Mutable
      <3> QED
        BY <1>8, <2>1, <2>2, <3>1, <3>2, TransitionsFollow
    <2>5. CASE AdvanceRollback(p)
      <3>1. PICK s \in Sequences, from \in Phases, to \in Phases :
              /\ AdvancesRollback(DiskRecord, s, from, to)
              /\ Ask(p, s, RollbackAdvanced(DiskRecord, to))
        BY <2>5 DEF AdvanceRollback
      <3>2. DiskRecord.seq = s /\ s \in Nat
        BY <2>2, <3>1 DEF AdvancesRollback, Mutable
      <3> QED
        BY <1>8, <2>1, <2>2, <3>1, <3>2, TransitionsFollow
    <2>6. CASE Finalize(p)
      <3>1. PICK s \in Sequences, outcome \in Outcomes :
              /\ Finalizes(DiskRecord, s, outcome)
              /\ Ask(p, s, Finalized(DiskRecord, outcome))
        BY <2>6 DEF Finalize
      <3>2. DiskRecord.seq = s /\ s \in Nat
        BY <2>2, <3>1 DEF Finalizes, Mutable
      <3> QED
        BY <1>8, <2>1, <3>1, <3>2, TransitionsFollow
    <2> QED
      BY <1>9, <2>3, <2>4, <2>5, <2>6
  <1>10. CASE Publish(p)
    <2>1. /\ jpc[p] = "publish" /\ jpc'[p] = "rename" /\ Valid(request[p].record)
          /\ UNCHANGED <<binding, request, disk>>
      BY <1>10 DEF Publish
    <2>2. DiskRecord' = DiskRecord /\ (Mine(p) => Mine(p)')
      BY <2>1 DEF DiskRecord, Mine
    <2> QED
      BY <1>h, <2>1, <2>2 DEF Handled, CreateSteps, PublishSteps
  <1>11. CASE RenameRecord(p)
    <2>1. /\ jpc[p] = "rename" /\ jpc'[p] = "syncRename" /\ binding' = binding
          /\ disk' = [record |-> request[p].record, links |-> 1]
      BY <1>11 DEF RenameRecord, Put
    <2>2. /\ Valid(request[p].record) /\ Mine(p) /\ Follows(DiskRecord, request[p].record)
      BY <1>h, <2>1 DEF Handled, PublishSteps
    <2>3. Mine(p)'
      BY <2>1, <2>2 DEF Mine, Readable, DiskRecord, Follows
    <2> QED
      BY <2>1, <2>3 DEF Handled, CreateSteps, PublishSteps
  <1>12. CASE SyncRename(p) \/ ReadBack(p) \/ FailPublish(p)
    <2>1. /\ jpc[p] \in PublishSteps /\ jpc'[p] \in {"readBack", "ready"}
          /\ UNCHANGED <<binding, disk>>
          /\ jpc'[p] = "readBack" => survivors' = {disk}
      BY <1>12 DEF SyncRename, ReadBack, FailPublish, Settle, Fsync, PublishSteps
    <2>2. Mine(p) /\ (Mine(p) => Mine(p)')
      BY <1>h, <2>1 DEF Handled, Mine, DiskRecord
    <2> QED
      BY <2>1, <2>2 DEF Handled, CreateSteps, PublishSteps
  <1> QED
    BY <1>1, <1>2, <1>3, <1>4, <1>5, <1>6, <1>7, <1>9, <1>10, <1>11, <1>12
       DEF Step, GiveUp, ReleaseJournal

LEMMA InitInv == Init => JournalTypeOK /\ JournalInv
  <1> SUFFICES ASSUME Init
               PROVE  JournalTypeOK /\ JournalInv
    OBVIOUS
  <1> USE DEF Init, LeaseInit, DiskRecord
  <1>1. JournalTypeOK
    BY DEF JournalTypeOK, LeaseTypeOK, Statuses, JournalLabels
  <1>2. ReplacesExpected /\ HandleReadable /\ EntryInPlace
    BY DEF ReplacesExpected, HandleReadable, EntryInPlace, CreateSteps, PublishSteps
  <1>3. LeaseMatchesHandle /\ AckedSurvives /\ SurvivorsAreHistory
    BY DEF LeaseMatchesHandle, AckedSurvives, SurvivorsAreHistory, Promise!KeepsAcked
  <1> QED
    BY <1>1, <1>2, <1>3 DEF JournalInv

LEMMA StepTypeOK ==
    ASSUME JournalTypeOK, JournalInv, NEW p \in Proc, Step(p)
    PROVE  /\ LeaseTypeOK'
           /\ jpc' \in [Proc -> JournalLabels]
           /\ binding' \in [Proc -> Authority \cup {NoBinding}]
           /\ request' \in [Proc -> Request \cup {NoRequest}]
  <1> USE DEF JournalTypeOK, LeaseTypeOK, leaseVars
  <1>0. /\ CreateSteps \subseteq JournalLabels /\ PublishSteps \subseteq JournalLabels
        /\ {"closed", "opening", "ready"} \subseteq JournalLabels
        /\ \A l \in JournalLabels : Goto(p, l) => jpc' \in [Proc -> JournalLabels]
    BY DEF JournalLabels, Goto
  <1>1. CASE CreateJournal(p) \/ OpenJournal(p)
    BY <1>0, <1>1 DEF CreateJournal, OpenJournal, Begin, Acquire, CreateSteps
  <1>2. CASE Close(p)
    BY <1>0, <1>2 DEF Close, Release
  <1>3. CASE (OpenRead(p) \/ CreatePreflight(p) \/ Link(p) \/ ReadCreated(p)) /\ ~ Close(p)
    BY <1>0, <1>3 DEF OpenRead, CreatePreflight, Link, ReadCreated, CreateSteps
  <1>4. CASE SyncLink(p) \/ UnlinkTemp(p) \/ SyncUnlink(p)
    BY <1>0, <1>4 DEF SyncLink, UnlinkTemp, SyncUnlink, CreateSteps
  <1>5. CASE \E expected \in Nat, record \in Record : Ask(p, expected, record)
    <2>1. PICK expected \in Nat, record \in Record : Ask(p, expected, record)
      BY <1>5
    <2>2. [expected |-> expected, record |-> record] \in Request
      BY DEF Request
    <2> QED
      BY <1>0, <2>1, <2>2 DEF Ask, PublishSteps
  <1>6. CASE AdvanceActivation(p) \/ BeginRollback(p) \/ AdvanceRollback(p) \/ Finalize(p)
    <2>1. DiskRecord \in Record
      BY <1>6 DEF AdvanceActivation, BeginRollback, AdvanceRollback, Finalize, CanAsk,
         Mine, Readable, Valid, DiskRecord
    <2>2. Sequences \subseteq Nat /\ "failed" \in Outcomes
      BY DEF Sequences, Outcomes
    <2>3. CASE AdvanceActivation(p)
      BY <1>5, <2>1, <2>2, <2>3, TransitionsFollow DEF AdvanceActivation
    <2>4. CASE BeginRollback(p)
      BY <1>5, <2>1, <2>2, <2>4, TransitionsFollow DEF BeginRollback
    <2>5. CASE AdvanceRollback(p)
      BY <1>5, <2>1, <2>2, <2>5, TransitionsFollow DEF AdvanceRollback
    <2>6. CASE Finalize(p)
      BY <1>5, <2>1, <2>2, <2>6, TransitionsFollow DEF Finalize
    <2> QED
      BY <1>6, <2>3, <2>4, <2>5, <2>6
  <1>7. CASE Publish(p) \/ RenameRecord(p) \/ SyncRename(p)
    BY <1>0, <1>7 DEF Publish, RenameRecord, SyncRename, PublishSteps
  <1>8. CASE ReadBack(p) \/ FailPublish(p)
    BY <1>0, <1>8 DEF ReadBack, FailPublish, Settle
  <1> QED
    BY <1>1, <1>2, <1>3, <1>4, <1>6, <1>7, <1>8 DEF Step, GiveUp, ReleaseJournal

LEMMA StepInv ==
    ASSUME JournalTypeOK, JournalInv, NEW p \in Proc, Step(p)
    PROVE  JournalTypeOK' /\ JournalInv'
  <1>1. /\ \A q \in Proc \ {p} : jpc[q] = "closed" /\ jpc'[q] = "closed"
        /\ holder' = p <=> jpc'[p] # "closed"
        /\ holder' \in {p, NoProc}
    BY StepFrame DEF JournalInv
  <1>2. LeaseMatchesHandle'
    BY <1>1 DEF LeaseMatchesHandle
  <1>3. ReplacesExpected' /\ HandleReadable' /\ EntryInPlace'
    BY <1>1, ClosedIsHandled, StepHandles, HandledIsAllNext
  <1>4. /\ AckedSurvives' /\ SurvivorsAreHistory'
        /\ disk' \in Entry \cup {NoEntry}
        /\ \A e \in survivors' : e \in Entry \cup {NoEntry}
        /\ acked' \in Record \cup {NoRecord}
    BY DiskMoves, DiskPreserves DEF JournalInv
  <1>5. JournalTypeOK'
    BY <1>4, StepTypeOK DEF JournalTypeOK
  <1> QED
    BY <1>2, <1>3, <1>4, <1>5 DEF JournalInv

LEMMA CrashInv ==
    ASSUME JournalTypeOK, JournalInv, NEW p \in Proc, Crash(p)
    PROVE  JournalTypeOK' /\ JournalInv'
  <1> USE DEF JournalTypeOK, LeaseTypeOK, Crash, Die, Goto
  <1>1. /\ UNCHANGED <<disk, survivors, acked>>
        /\ jpc'[p] = "closed"
        /\ \A q \in Proc \ {p} : /\ jpc'[q] = jpc[q] /\ binding'[q] = binding[q]
                                 /\ request'[q] = request[q]
        /\ holder' = IF holder = p THEN NoProc ELSE holder
    OBVIOUS
  <1>2. JournalTypeOK'
    BY DEF Statuses, JournalLabels
  <1>3. LeaseMatchesHandle'
    BY <1>1 DEF JournalInv, LeaseMatchesHandle
  <1>4. ASSUME NEW q \in Proc PROVE Handled(q)'
    <2>1. CASE q = p
      BY <1>1, <2>1, ClosedIsHandled
    <2>2. CASE q # p
      <3>1. Handled(q)
        BY HandledIsAll DEF JournalInv
      <3> QED
        BY <1>1, <2>2, <3>1 DEF Handled, Mine, DiskRecord
    <2> QED
      BY <2>1, <2>2
  <1>5. AckedSurvives' /\ SurvivorsAreHistory'
    BY <1>1, DiskPreserves DEF JournalInv, Quiet
  <1> QED
    BY <1>2, <1>3, <1>4, <1>5, HandledIsAllNext DEF JournalInv

\* Whichever entry the disk shows after a power failure, it keeps what was
\* acknowledged and is on the way to what was at the path.
LEMMA PowerFailureInv ==
    ASSUME JournalTypeOK, JournalInv, PowerFailure
    PROVE  JournalTypeOK' /\ JournalInv'
  <1> USE DEF JournalTypeOK, PowerFailure
  <1>1. JournalTypeOK'
    BY DEF LeaseTypeOK, Statuses, JournalLabels
  <1>2. LeaseMatchesHandle'
    BY DEF LeaseMatchesHandle
  <1>3. \A q \in Proc : jpc'[q] = "closed"
    OBVIOUS
  <1>4. ReplacesExpected' /\ HandleReadable' /\ EntryInPlace'
    BY <1>3, ClosedIsHandled, HandledIsAllNext
  <1>5. disk' \in survivors /\ survivors' = {disk'} /\ acked' = acked
    OBVIOUS
  <1>6. AckedSurvives'
    BY <1>5 DEF JournalInv, AckedSurvives, DiskRecord, Promise!KeepsAcked
  <1>7. SurvivorsAreHistory'
    BY <1>5, PrecedesReflexive DEF JournalInv, SurvivorsAreHistory, DiskRecord
  <1> QED
    BY <1>1, <1>2, <1>4, <1>6, <1>7 DEF JournalInv

LEMMA NextInv == JournalTypeOK /\ JournalInv /\ [Next]_vars => JournalTypeOK' /\ JournalInv'
  <1> SUFFICES ASSUME JournalTypeOK, JournalInv, [Next]_vars
               PROVE  JournalTypeOK' /\ JournalInv'
    OBVIOUS
  <1>1. CASE UNCHANGED <<jpc, binding, request, disk, survivors, acked, holder>>
             /\ LeaseTypeOK'
    <2>1. JournalTypeOK' /\ LeaseMatchesHandle'
      BY <1>1 DEF JournalTypeOK, JournalInv, LeaseMatchesHandle
    <2>2. ASSUME NEW q \in Proc PROVE Handled(q)'
      <3>1. Handled(q)
        BY HandledIsAll DEF JournalInv
      <3> QED
        BY <1>1, <3>1 DEF Handled, Mine, DiskRecord
    <2>3. AckedSurvives' /\ SurvivorsAreHistory'
      BY <1>1, DiskPreserves DEF JournalInv, Quiet
    <2> QED
      BY <2>1, <2>2, <2>3, HandledIsAllNext DEF JournalInv
  <1>2. CASE UNCHANGED vars
    BY <1>1, <1>2 DEF vars, leaseVars, journalVars, JournalTypeOK, LeaseTypeOK
  <1>3. ASSUME NEW p \in Proc, StartProcess(p)
        PROVE  JournalTypeOK' /\ JournalInv'
    BY <1>1, <1>3 DEF StartProcess, Start, journalVars, JournalTypeOK, LeaseTypeOK, Statuses
  <1> QED
    BY <1>2, <1>3, StepInv, CrashInv, PowerFailureInv DEF Next

-----------------------------------------------------------------------------
\* The inductive invariant holds in every reachable state, however the steps of
\* the processes, their deaths, failed calls and power failures interleave.
THEOREM JournalInvariant == Spec => [](JournalTypeOK /\ JournalInv)
  BY InitInv, NextInv, PTL DEF Spec

\* Nothing that a create, advance, rollback or finalize has returned is lost.
THEOREM AcknowledgedSurvives == Spec => []AckedSurvives
  <1>1. JournalTypeOK /\ JournalInv => AckedSurvives
    BY DEF JournalInv
  <1> QED
    BY <1>1, JournalInvariant, PTL

\* A publication replaces the record its caller has named, and no other.
THEOREM NoUpdateLost == Spec => []ReplacesExpected
  <1>1. JournalTypeOK /\ JournalInv => ReplacesExpected
    BY DEF JournalInv
  <1> QED
    BY <1>1, JournalInvariant, PTL

\* A handle never stands upon the half-created record of a crash.
THEOREM HandlesAreReadable == Spec => []HandleReadable
  <1>1. JournalTypeOK /\ JournalInv => HandleReadable
    BY DEF JournalInv
  <1> QED
    BY <1>1, JournalInvariant, PTL

\* No sequence of legal calls, failures and crashes leads to a record that
\* validateState refuses.
THEOREM RecordsStayLegal == Spec => []JournalTypeOK
  <1>1. JournalTypeOK /\ JournalInv => JournalTypeOK
    OBVIOUS
  <1> QED
    BY <1>1, JournalInvariant, PTL

\* The leased, linked, renamed and fsynced file implements DurableRecord.
THEOREM JournalKeepsPromise == Spec => KeepsPromise
  <1> USE DEF DiskRecord
  <1>1. Init => Promise!DurableInit
    BY DEF Init, Promise!DurableInit
  <1>2. JournalTypeOK /\ JournalInv /\ [Next]_vars
          => [Promise!DurableNext]_(Promise!recordVars)
    <2> SUFFICES ASSUME JournalTypeOK, JournalInv, [Next]_vars
                 PROVE  [Promise!DurableNext]_(Promise!recordVars)
      OBVIOUS
    <2>0. \A e \in Entry : e.record \in Record /\ e.record # NoRecord
      BY DEF Entry
    <2>1. CASE UNCHANGED <<disk, acked>>
      BY <2>1 DEF Promise!recordVars
    <2>2. ASSUME NEW p \in Proc, Step(p)
          PROVE  [Promise!DurableNext]_(Promise!recordVars)
      <3>1. CASE Quiet \/ Synced
        BY <2>1, <3>1 DEF Quiet, Synced, Fsync
      <3>2. CASE Created
        BY <3>2, SameOperators DEF Created, Put, Promise!DurableNext, Promise!Create
      <3>3. CASE Cleaned
        BY <3>3 DEF Cleaned, Put, Promise!recordVars
      <3>4. CASE Moved
        <4>1. PICK r \in Record : /\ Valid(r) /\ Follows(disk.record, r)
                                  /\ disk'.record = r
          BY <3>4 DEF Moved, Put
        <4>2. disk.record # NoRecord /\ acked' = acked
          BY <2>0, <3>4 DEF Moved
        <4> QED
          BY <4>1, <4>2, SameOperators DEF Promise!DurableNext, Promise!Advance
      <3>5. CASE Acked
        BY <2>0, <3>5 DEF Acked, Promise!DurableNext, Promise!Acknowledge
      <3> QED
        BY <2>2, <3>1, <3>2, <3>3, <3>4, <3>5, DiskMoves
    <2>3. ASSUME PowerFailure
          PROVE  [Promise!DurableNext]_(Promise!recordVars)
      <3>1. disk' \in survivors /\ acked' = acked
        BY <2>3 DEF PowerFailure
      <3>2. /\ Promise!KeepsAcked(disk'.record)
            /\ disk'.record # NoRecord => /\ disk'.record \in Record
                                          /\ Precedes(disk'.record, disk.record)
        BY <2>0, <3>1 DEF JournalTypeOK, JournalInv, AckedSurvives, SurvivorsAreHistory
      <3>3. CASE disk.record = NoRecord
        <4>1. disk' = disk
          BY <2>0, <3>1, <3>3 DEF JournalTypeOK, JournalInv, SurvivorsAreHistory
        <4> QED
          BY <2>1, <3>1, <4>1
      <3>4. CASE disk.record # NoRecord
        BY <3>1, <3>2, <3>4, SameOperators
           DEF Promise!DurableNext, Promise!Lose
      <3> QED
        BY <3>3, <3>4
    <2> QED
      BY <2>1, <2>2, <2>3 DEF Next, vars, journalVars, StartProcess, Crash
  <1> QED
    BY <1>1, <1>2, JournalInvariant, PTL DEF Spec, KeepsPromise, Promise!DurableSpec
=============================================================================
