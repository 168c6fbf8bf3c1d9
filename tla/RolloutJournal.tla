--------------------------- MODULE RolloutJournal ---------------------------
(***************************************************************************)
(* The rollout journal (src/rollout-journal.js): handles that are created  *)
(* or opened under the exclusive lease, and the publication of a record    *)
(* through a private temporary file, link or rename, and fsync.            *)
(*                                                                         *)
(* The lease is the one RolloutLease implements; here it is used through   *)
(* its promise, ExclusiveLease.  A step is one system call that changes    *)
(* the record's directory entry, or a check whose result a later step      *)
(* relies upon.  Every call may fail instead (I/O, or an assertOwned that  *)
(* sees the reaper.json of a late contender), processes may die and the    *)
(* power may fail between any two steps.                                   *)
(*                                                                         *)
(* Simplifications.  The temporary file is written, fsynced and removed    *)
(* out of everybody's sight.  Until the directory is fsynced a power       *)
(* failure may reveal any of the entries the path had since the last       *)
(* fsync.  inspect and inspectRolloutJournal change nothing and are left   *)
(* out.                                                                    *)
(***************************************************************************)
EXTENDS RolloutRecord, ExclusiveLease

VARIABLES
    jpc,        \* jpc[p]: where p is in its use of the journal
    binding,    \* binding[p]: the authority that p's handle was opened with
    request,    \* request[p]: the publication p is working on, or NoRequest
    disk,       \* what the path names: an entry, or NoEntry
    survivors,  \* the entries a power failure may reveal
    acked       \* the last record that a call returned as published

journalVars == <<jpc, binding, request, disk, survivors, acked>>
vars == <<leaseVars, journalVars>>

\* A record file; it has a second link from link(temporary) to its unlink.
Entry   == [record: Record, links: {1, 2}]
NoEntry == [record |-> NoRecord, links |-> 0]

Request   == [expected: Nat, record: Record]
NoRequest == [expected |-> 0, record |-> NoRecord]
NoBinding == "none"

CreateSteps  == {"preflight", "link", "syncLink", "unlinkTemp", "syncUnlink", "readCreated"}
PublishSteps == {"publish", "rename", "syncRename", "readBack"}
JournalLabels == {"closed", "opening", "ready"} \cup CreateSteps \cup PublishSteps

Goto(p, label) == jpc' = [jpc EXCEPT ![p] = label]

DiskRecord == disk.record

\* readState: a record with one link that validateState accepts, whose
\* authority is the one the handle asks for.
Readable(e) == e.links = 1 /\ Valid(e.record)
Mine(p)     == Readable(disk) /\ DiskRecord.authority = binding[p]

\* assertOwned: by ExclusiveLease, an owner stays one until it releases.
Owned(p) == holder = p

(***************************************************************************)
(* How the path and the disk change                                        *)
(***************************************************************************)
\* A new entry at the path, in memory only.
Put(e) ==
    /\ disk' = e
    /\ survivors' = survivors \cup {e}

\* Mutant: the directory is not fsynced.
FsyncForgotten == UNCHANGED <<disk, survivors>>

Fsync ==
    /\ survivors' = {disk}
    /\ UNCHANGED disk

(***************************************************************************)
(* createRolloutJournal and openRolloutJournal                             *)
(***************************************************************************)
Begin(p, label) ==
    /\ jpc[p] = "closed"
    /\ Acquire(p)
    /\ \E a \in Authority : binding' = [binding EXCEPT ![p] = a]
    /\ Goto(p, label)
    /\ UNCHANGED <<request, disk, survivors, acked>>

CreateJournal(p) == Begin(p, "preflight")
OpenJournal(p)   == Begin(p, "opening")

\* The end of a handle, or of a create or open that failed.
Close(p) ==
    /\ Release(p)
    /\ Goto(p, "closed")
    /\ binding' = [binding EXCEPT ![p] = NoBinding]
    /\ UNCHANGED request

\* Mutant: the link count of the record is not looked at.
OpenReadAnyLinks(p) ==
    /\ jpc[p] = "opening"
    /\ IF disk # NoEntry /\ DiskRecord.authority = binding[p]
       THEN Goto(p, "ready") /\ UNCHANGED <<leaseVars, binding, request>>
       ELSE Close(p)
    /\ UNCHANGED <<disk, survivors, acked>>

OpenRead(p) ==
    /\ jpc[p] = "opening"
    /\ IF Mine(p)
       THEN Goto(p, "ready") /\ UNCHANGED <<leaseVars, binding, request>>
       ELSE Close(p)
    /\ UNCHANGED <<disk, survivors, acked>>

\* writeState with createOnly, up to the check of the lease: an entry at the
\* path, of whatever kind, ends the creation.
CreatePreflight(p) ==
    /\ jpc[p] = "preflight"
    /\ IF disk = NoEntry /\ Owned(p)
       THEN Goto(p, "link") /\ UNCHANGED <<leaseVars, binding, request>>
       ELSE Close(p)
    /\ UNCHANGED <<disk, survivors, acked>>

\* link(temporary, path) fails where the path exists.
Link(p) ==
    /\ jpc[p] = "link"
    /\ IF disk = NoEntry
       THEN /\ Put([record |-> Initial(binding[p]), links |-> 2])
            /\ Goto(p, "syncLink")
            /\ UNCHANGED <<leaseVars, binding, request>>
       ELSE Close(p) /\ UNCHANGED <<disk, survivors>>
    /\ UNCHANGED acked

SyncLink(p) ==
    /\ jpc[p] = "syncLink"
    /\ Fsync
    /\ Goto(p, "unlinkTemp")
    /\ UNCHANGED <<leaseVars, binding, request, acked>>

UnlinkTemp(p) ==
    /\ jpc[p] = "unlinkTemp"
    /\ Put([disk EXCEPT !.links = 1])
    /\ Goto(p, "syncUnlink")
    /\ UNCHANGED <<leaseVars, binding, request, acked>>

SyncUnlink(p) ==
    /\ jpc[p] = "syncUnlink"
    /\ Fsync
    /\ Goto(p, "readCreated")
    /\ UNCHANGED <<leaseVars, binding, request, acked>>

\* readState and assertBinding, then the handle is returned.
ReadCreated(p) ==
    /\ jpc[p] = "readCreated"
    /\ IF Mine(p)
       THEN /\ Goto(p, "ready")
            /\ acked' = DiskRecord
            /\ UNCHANGED <<leaseVars, binding, request>>
       ELSE Close(p) /\ UNCHANGED acked
    /\ UNCHANGED <<disk, survivors>>

\* A step of the creation or of the opening fails.  On its way out writeState
\* unlinks the temporary file that link has made public, which may fail too.
GiveUp(p) ==
    /\ jpc[p] \in CreateSteps \cup {"opening"}
    /\ \/ jpc[p] \in {"syncLink", "unlinkTemp"} /\ Put([disk EXCEPT !.links = 1])
       \/ UNCHANGED <<disk, survivors>>
    /\ Close(p)
    /\ UNCHANGED acked

(***************************************************************************)
(* advanceActivation, beginRollback, advanceRollback, finalize             *)
(***************************************************************************)
\* readOwned, the checks of the call, and the record it is going to publish.
\* withMutation refuses a second call before this one has ended.
Ask(p, expected, record) ==
    /\ request' = [request EXCEPT ![p] = [expected |-> expected, record |-> record]]
    /\ Goto(p, "publish")
    /\ UNCHANGED <<leaseVars, binding, disk, survivors, acked>>

CanAsk(p) == jpc[p] = "ready" /\ Owned(p) /\ Mine(p)

Sequences == 0 .. LastActivation + LastRollback + 2
Phases    == 0 .. LastActivation + LastRollback + 2

AdvanceActivation(p) ==
    /\ CanAsk(p)
    /\ \E s \in Sequences, from, to \in Phases :
         /\ AdvancesActivation(DiskRecord, s, from, to)
         /\ Ask(p, s, ActivationAdvanced(DiskRecord, to))

BeginRollback(p) ==
    /\ CanAsk(p)
    /\ \E s \in Sequences, from \in Phases :
         /\ BeginsRollback(DiskRecord, s, from)
         /\ Ask(p, s, RollbackBegun(DiskRecord))

AdvanceRollback(p) ==
    /\ CanAsk(p)
    /\ \E s \in Sequences, from, to \in Phases :
         /\ AdvancesRollback(DiskRecord, s, from, to)
         /\ Ask(p, s, RollbackAdvanced(DiskRecord, to))

Finalize(p) ==
    /\ CanAsk(p)
    /\ \E s \in Sequences, outcome \in Outcomes :
         /\ Finalizes(DiskRecord, s, outcome)
         /\ Ask(p, s, Finalized(DiskRecord, outcome))

(***************************************************************************)
(* publish: writeState without createOnly                                  *)
(***************************************************************************)
\* assertOwned, validateState, the existing entry, the temporary file, and
\* assertOwned once more.
Publish(p) ==
    /\ jpc[p] = "publish"
    /\ Owned(p)
    /\ Valid(request[p].record)
    /\ disk # NoEntry
    /\ disk.links = 1
    /\ Goto(p, "rename")
    /\ UNCHANGED <<leaseVars, binding, request, disk, survivors, acked>>

RenameRecord(p) ==
    /\ jpc[p] = "rename"
    /\ Put([record |-> request[p].record, links |-> 1])
    /\ Goto(p, "syncRename")
    /\ UNCHANGED <<leaseVars, binding, request, acked>>

SyncRename(p) ==
    /\ jpc[p] = "syncRename"
    /\ Fsync
    /\ Goto(p, "readBack")
    /\ UNCHANGED <<leaseVars, binding, request, acked>>

Settle(p) ==
    /\ Goto(p, "ready")
    /\ request' = [request EXCEPT ![p] = NoRequest]
    /\ UNCHANGED <<leaseVars, binding, disk, survivors>>

\* readState and the last assertOwned; the call returns what it has read.
ReadBack(p) ==
    /\ jpc[p] = "readBack"
    /\ Readable(disk)
    /\ Owned(p)
    /\ acked' = DiskRecord
    /\ Settle(p)

\* The call fails, before or after the rename, and the handle stays usable.
FailPublish(p) ==
    /\ jpc[p] \in PublishSteps
    /\ Settle(p)
    /\ UNCHANGED acked

ReleaseJournal(p) ==
    /\ jpc[p] = "ready"
    /\ Close(p)
    /\ UNCHANGED <<disk, survivors, acked>>

(***************************************************************************)
(* Processes and power                                                     *)
(***************************************************************************)
StartProcess(p) == Start(p) /\ UNCHANGED journalVars

Crash(p) ==
    /\ Die(p)
    /\ Goto(p, "closed")
    /\ binding' = [binding EXCEPT ![p] = NoBinding]
    /\ request' = [request EXCEPT ![p] = NoRequest]
    /\ UNCHANGED <<disk, survivors, acked>>

\* Every live process dies, and of the entries since the last fsync one is
\* found at the path.
PowerFailure ==
    /\ \E p \in Proc : status[p] = "live"
    /\ status' = [p \in Proc |-> IF status[p] = "live" THEN "dead" ELSE status[p]]
    /\ holder' = NoProc
    /\ jpc' = [p \in Proc |-> "closed"]
    /\ binding' = [p \in Proc |-> NoBinding]
    /\ request' = [p \in Proc |-> NoRequest]
    /\ disk' \in survivors
    /\ survivors' = {disk'}
    /\ UNCHANGED acked

Step(p) ==
    \/ CreateJournal(p) \/ OpenJournal(p)
    \/ OpenRead(p) \/ CreatePreflight(p) \/ Link(p) \/ SyncLink(p) \/ UnlinkTemp(p)
    \/ SyncUnlink(p) \/ ReadCreated(p) \/ GiveUp(p)
    \/ AdvanceActivation(p) \/ BeginRollback(p) \/ AdvanceRollback(p) \/ Finalize(p)
    \/ Publish(p) \/ RenameRecord(p) \/ SyncRename(p) \/ ReadBack(p) \/ FailPublish(p)
    \/ ReleaseJournal(p)

Next ==
    \/ \E p \in Proc : StartProcess(p) \/ Crash(p) \/ Step(p)
    \/ PowerFailure

Init ==
    /\ LeaseInit
    /\ jpc = [p \in Proc |-> "closed"]
    /\ binding = [p \in Proc |-> NoBinding]
    /\ request = [p \in Proc |-> NoRequest]
    /\ disk = NoEntry
    /\ survivors = {NoEntry}
    /\ acked = NoRecord

Spec == Init /\ [][Next]_vars

\* The journal as a controller sees it.
Promise == INSTANCE DurableRecord WITH record <- DiskRecord

-----------------------------------------------------------------------------
(***************************************************************************)
(* Types and the inductive invariant                                       *)
(***************************************************************************)
\* Every variable has its type; in particular no request and no entry holds a
\* phase beyond its ladder.
JournalTypeOK ==
    /\ LeaseTypeOK
    /\ jpc \in [Proc -> JournalLabels]
    /\ binding \in [Proc -> Authority \cup {NoBinding}]
    /\ request \in [Proc -> Request \cup {NoRequest}]
    /\ disk \in Entry \cup {NoEntry}
    /\ \A e \in survivors : e \in Entry \cup {NoEntry}
    /\ acked \in Record \cup {NoRecord}

\* The lease is held while a handle is open or being opened, and only then:
\* no failed create or open leaks it, and no handle outlives it.
LeaseMatchesHandle ==
    \A p \in Proc : holder = p <=> jpc[p] # "closed"

\* Docs: "sequence compare-and-swap".  From the checks of a call to its rename
\* the path holds the record whose sequence the caller has named, and the
\* record to be published follows it: no update is lost and none is based on a
\* record that the caller has not seen, whichever calls, of whichever process,
\* have failed before or after their rename.
ReplacesExpected ==
    \A p \in Proc : jpc[p] \in {"publish", "rename"} =>
        /\ DiskRecord.seq = request[p].expected
        /\ Follows(DiskRecord, request[p].record)

\* An open handle finds a complete record of its own authority at the path,
\* never the half-created one, with two links, that a crash between the link
\* and the unlink of create leaves behind.
HandleReadable ==
    \A p \in Proc : jpc[p] \in {"ready"} \cup PublishSteps => Mine(p)

\* What a creation or a publication has put at the path, and has fsynced.
EntryInPlace ==
    \A p \in Proc :
        /\ jpc[p] \in CreateSteps => binding[p] \in Authority
        /\ jpc[p] = "link" => disk = NoEntry
        /\ jpc[p] \in {"syncLink", "unlinkTemp"} =>
              disk = [record |-> Initial(binding[p]), links |-> 2]
        /\ jpc[p] \in {"syncUnlink", "readCreated"} =>
              disk = [record |-> Initial(binding[p]), links |-> 1]
        /\ jpc[p] \in {"unlinkTemp", "readCreated", "readBack"} => survivors = {disk}
        /\ jpc[p] = "rename" => Valid(request[p].record)

\* Docs: "durable publication".  Whatever a create, advance, rollback or
\* finalize has returned is at the path or in the past of what is, and would be
\* after a power failure at any moment.
AckedSurvives ==
    /\ Promise!KeepsAcked(DiskRecord)
    /\ \A e \in survivors : Promise!KeepsAcked(e.record)

\* What a power failure may reveal is on the way to what is at the path.
SurvivorsAreHistory ==
    /\ disk \in survivors
    /\ \A e \in survivors :
          /\ e # NoEntry => Valid(e.record) /\ e.links # 0
          /\ e # NoEntry => disk # NoEntry /\ Precedes(e.record, DiskRecord)

JournalInv ==
    /\ LeaseMatchesHandle
    /\ ReplacesExpected
    /\ HandleReadable
    /\ EntryInPlace
    /\ AckedSurvives
    /\ SurvivorsAreHistory

\* The leased, renamed and fsynced file keeps the promise of DurableRecord:
\* created once, moved only along legal transitions, terminal once and for all,
\* and taken back by a power failure no further than what was acknowledged.
KeepsPromise == Promise!DurableSpec
=============================================================================
