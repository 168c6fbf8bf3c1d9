----------------------------- MODULE StopPermit -----------------------------
(***************************************************************************)
(* One-shot stop permits (src/rollout-authority.js): issueStopPermit and   *)
(* consumeStopPermit on a FileStopPermitStore, for the permits of one      *)
(* nonce.  Nonces do not interact: the store keeps `<hash>.permit` (here:  *)
(* active) and `<hash>.spent` (here: spent) for each of them.              *)
(*                                                                         *)
(* A call of either function is a member of Issuer or Consumer; calls may  *)
(* be in one process or in several, on one store instance or several, as   *)
(* the instances share nothing but the directory.  A step is one system    *)
(* call on the two names, or one check whose outcome the call acts upon.   *)
(* Calls may fail or die, and the power may fail, between any two steps.   *)
(*                                                                         *)
(* Simplifications.  A file is known by the issue call that created it, so *)
(* inode numbers are not used again.  A record is written by one call; a   *)
(* power failure may take it back until the file is fsynced.  The          *)
(* directory, the shape of claims and records, modes and owners are        *)
(* checked by the code and left out; so are links and files that are not   *)
(* made by this code.                                                      *)
(***************************************************************************)
EXTENDS Naturals

CONSTANTS Issuer,     \* calls of issueStopPermit with the nonce
          Consumer,   \* calls of consumeStopPermit with the nonce
          Permit,     \* the permits that may carry the nonce
          PermitOf,   \* the permit each call issues or consumes
          NoFile,
          Expires,    \* the time at which the permits expire
          MaxTime     \* the clock stops here (a bound)

Call == Issuer \cup Consumer

ASSUME PermitConstants ==
    /\ Issuer \cap Consumer = {}
    /\ PermitOf \in [Call -> Permit]
    /\ NoFile \notin Issuer
    /\ Expires \in Nat
    /\ MaxTime \in Nat

VARIABLES
    pc,         \* pc[c]: where call c is
    seen,       \* seen[c]: the active file that c has read, or NoFile
    count,      \* count[c]: the link count of spent that c has been told
    attempt,    \* attempt[c]: the loop counter of consumptionExists
    dir,        \* the files that the names active and spent lead to
    survivors,  \* the values of dir that a power failure may reveal
    written,    \* the files that hold their record; the others are empty
    synced,     \* the files whose record a power failure leaves in place
    now,        \* the time
    running     \* is the process that the permits may stop still running

vars == <<pc, seen, count, attempt, dir, survivors, written, synced, now, running>>

Dir == [active: Issuer \cup {NoFile}, spent: Issuer \cup {NoFile}]
NoFiles == [active |-> NoFile, spent |-> NoFile]

IssueSteps == {"open", "spent1", "write", "syncFile", "spent2", "reread", "sync",
               "issueTime", "dropFalse", "dropSync", "dropThrow"}
ConsumeSteps == {"existsStat", "existsRead", "readActive", "againStat", "againRead",
                 "link", "syncLink", "readLinked", "unlink", "syncUnlink", "readSpent",
                 "cleanUp", "cleanSync", "verify", "identify", "verifyAgain"}
Ended == {"issued", "authorized", "refused", "failed"}
Labels == {"begin"} \cup IssueSteps \cup ConsumeSteps \cup Ended

(***************************************************************************)
(* The store's files                                                       *)
(***************************************************************************)
LinksOf(f) == (IF dir.active = f THEN 1 ELSE 0) + (IF dir.spent = f THEN 1 ELSE 0)

\* readRecordFile finds a record with the given number of links.
ReadsRecord(f, n) == f # NoFile /\ f \in written /\ LinksOf(f) = n

\* sameStoreRecord: a file holds the record of its issuer's permit.
Holds(f, c) == PermitOf[f] = PermitOf[c]

\* A change of the directory, in memory only.
SetDir(d) ==
    /\ dir' = d
    /\ survivors' = survivors \cup {d}

\* Mutant: the directory is not fsynced.
FsyncForgotten == UNCHANGED <<dir, survivors>>

Fsync ==
    /\ survivors' = {dir}
    /\ UNCHANGED dir

\* unlink(active), whatever it leads to.
UnlinkActive == SetDir([dir EXCEPT !.active = NoFile])

Goto(c, label) == pc' = [pc EXCEPT ![c] = label]
KeepRecords == UNCHANGED <<written, synced>>
KeepFiles == UNCHANGED <<dir, survivors>> /\ KeepRecords
KeepSeen  == UNCHANGED <<seen, count, attempt>>
KeepWorld == UNCHANGED <<now, running>>

\* assertPermitTime.  Permits are valid from the start: only expiry is modelled.
Unexpired == now < Expires

(***************************************************************************)
(* issueStopPermit                                                         *)
(***************************************************************************)
IssueBegin(c) ==
    /\ c \in Issuer /\ pc[c] = "begin"
    /\ Goto(c, IF Unexpired THEN "open" ELSE "failed")
    /\ KeepFiles /\ KeepSeen /\ KeepWorld

\* Mutant: a failed creation removes the file as if it were the call's own.
IssueOpenUnowned(c) ==
    /\ pc[c] = "open"
    /\ IF dir.active = NoFile
       THEN SetDir([dir EXCEPT !.active = c]) /\ Goto(c, "spent1")
       ELSE UNCHANGED <<dir, survivors>> /\ Goto(c, "dropThrow")
    /\ KeepRecords /\ KeepSeen /\ KeepWorld

\* The active file is created with O_EXCL.
IssueOpen(c) ==
    /\ pc[c] = "open"
    /\ IF dir.active = NoFile
       THEN SetDir([dir EXCEPT !.active = c]) /\ Goto(c, "spent1")
       ELSE UNCHANGED <<dir, survivors>> /\ Goto(c, "refused")
    /\ KeepRecords /\ KeepSeen /\ KeepWorld

\* spentRecord: no spent file, a spent record, or one that cannot be read
\* because its consumption is not complete.
IssueCheck(c, here, next) ==
    /\ pc[c] = here
    /\ Goto(c, IF dir.spent = NoFile THEN next
               ELSE IF ReadsRecord(dir.spent, 1) THEN "dropFalse" ELSE "dropThrow")
    /\ KeepFiles /\ KeepSeen /\ KeepWorld

IssueSpent1(c) == IssueCheck(c, "spent1", "write")
IssueSpent2(c) == IssueCheck(c, "spent2", "reread")

IssueWrite(c) ==
    /\ pc[c] = "write"
    /\ written' = written \cup {c}
    /\ Goto(c, "syncFile")
    /\ UNCHANGED <<dir, survivors, synced>> /\ KeepSeen /\ KeepWorld

IssueSyncFile(c) ==
    /\ pc[c] = "syncFile"
    /\ synced' = synced \cup {c}
    /\ Goto(c, "spent2")
    /\ UNCHANGED <<dir, survivors, written>> /\ KeepSeen /\ KeepWorld

IssueReread(c) ==
    /\ pc[c] = "reread"
    /\ Goto(c, IF dir.active = c /\ ReadsRecord(c, 1) THEN "sync" ELSE "dropThrow")
    /\ KeepFiles /\ KeepSeen /\ KeepWorld

IssueSync(c) ==
    /\ pc[c] = "sync"
    /\ Fsync
    /\ Goto(c, "issueTime")
    /\ KeepRecords /\ KeepSeen /\ KeepWorld

\* A permit that has expired meanwhile is not returned; its file stays.
IssueReturn(c) ==
    /\ pc[c] = "issueTime"
    /\ Goto(c, IF Unexpired THEN "issued" ELSE "failed")
    /\ KeepFiles /\ KeepSeen /\ KeepWorld

\* The active name is taken away, by path, before the call returns false or
\* throws; the directory is fsynced only in the first case.
IssueDrop(c) ==
    /\ \/ pc[c] = "dropFalse" /\ Goto(c, "dropSync")
       \/ pc[c] = "dropThrow" /\ Goto(c, "failed")
    /\ UnlinkActive
    /\ KeepRecords /\ KeepSeen /\ KeepWorld

\* A system call of the issuance fails.
IssueError(c) ==
    /\ pc[c] \in {"spent1", "write", "syncFile", "spent2", "reread", "sync"}
    /\ Goto(c, "dropThrow")
    /\ KeepFiles /\ KeepSeen /\ KeepWorld

(***************************************************************************)
(* consumeStopPermit                                                       *)
(***************************************************************************)
\* Claims, time, process identity and time again, before the store is asked.
ConsumeBegin(c) ==
    /\ c \in Consumer /\ pc[c] = "begin"
    /\ Goto(c, IF Unexpired /\ running THEN "existsStat" ELSE "failed")
    /\ KeepFiles /\ KeepSeen /\ KeepWorld

\* consumptionExists asks for spent's link count ...
ExistsStat(c) ==
    /\ pc[c] \in {"existsStat", "againStat"}
    /\ LET first == pc[c] = "existsStat"
       IN IF dir.spent = NoFile
          THEN /\ Goto(c, IF first THEN "readActive" ELSE "failed")
               /\ attempt' = [attempt EXCEPT ![c] = 0]
               /\ UNCHANGED count
          ELSE /\ Goto(c, IF first THEN "existsRead" ELSE "againRead")
               /\ count' = [count EXCEPT ![c] = LinksOf(dir.spent)]
               /\ UNCHANGED attempt
    /\ KeepFiles /\ UNCHANGED seen /\ KeepWorld

\* ... and reads what it should then find; the fourth disagreement is an error.
ExistsRead(c) ==
    /\ pc[c] \in {"existsRead", "againRead"}
    /\ count' = [count EXCEPT ![c] = 0]
    /\ IF ReadsRecord(dir.spent, count[c])
       THEN /\ Goto(c, IF Holds(dir.spent, c) THEN "refused" ELSE "failed")
            /\ attempt' = [attempt EXCEPT ![c] = 0]
       ELSE /\ Goto(c, IF attempt[c] = 3 THEN "failed"
                       ELSE IF pc[c] = "existsRead" THEN "existsStat" ELSE "againStat")
            /\ attempt' = [attempt EXCEPT ![c] = @ + 1]
    /\ KeepFiles /\ UNCHANGED seen /\ KeepWorld

\* A file that is still empty or already linked sends the call back to
\* consumptionExists.
ReadActive(c) ==
    /\ pc[c] = "readActive"
    /\ LET f == dir.active
       IN \/ f = NoFile /\ Goto(c, "refused") /\ UNCHANGED seen
          \/ f # NoFile /\ ~ReadsRecord(f, 1) /\ Goto(c, "againStat") /\ UNCHANGED seen
          \/ ReadsRecord(f, 1) /\ ~Holds(f, c) /\ Goto(c, "failed") /\ UNCHANGED seen
          \/ /\ ReadsRecord(f, 1) /\ Holds(f, c)
             /\ Goto(c, "link")
             /\ seen' = [seen EXCEPT ![c] = f]
    /\ KeepFiles /\ UNCHANGED <<count, attempt>> /\ KeepWorld

\* link(active, spent) decides which call consumes: it fails if spent exists.
Link(c) ==
    /\ pc[c] = "link"
    /\ IF dir.active # NoFile /\ dir.spent = NoFile
       THEN SetDir([dir EXCEPT !.spent = dir.active]) /\ Goto(c, "syncLink")
       ELSE UNCHANGED <<dir, survivors>> /\ Goto(c, "refused")
    /\ KeepRecords /\ KeepSeen /\ KeepWorld

SyncLink(c) ==
    /\ pc[c] = "syncLink"
    /\ Fsync
    /\ Goto(c, "readLinked")
    /\ KeepRecords /\ KeepSeen /\ KeepWorld

\* The file that was linked is the one that was read, and still the permit's.
ReadLinked(c) ==
    /\ pc[c] = "readLinked"
    /\ Goto(c, IF ReadsRecord(dir.spent, 2) /\ dir.spent = seen[c] /\ Holds(dir.spent, c)
               THEN "unlink" ELSE "cleanUp")
    /\ KeepFiles /\ KeepSeen /\ KeepWorld

Unlink(c) ==
    /\ pc[c] = "unlink"
    /\ IF dir.active = NoFile
       THEN UNCHANGED <<dir, survivors>> /\ Goto(c, "cleanUp")
       ELSE UnlinkActive /\ Goto(c, "syncUnlink")
    /\ KeepRecords /\ KeepSeen /\ KeepWorld

SyncUnlink(c) ==
    /\ pc[c] = "syncUnlink"
    /\ Fsync
    /\ Goto(c, "readSpent")
    /\ KeepRecords /\ KeepSeen /\ KeepWorld

ReadSpent(c) ==
    /\ pc[c] = "readSpent"
    /\ Goto(c, IF ReadsRecord(dir.spent, 1) /\ dir.spent = seen[c] /\ Holds(dir.spent, c)
               THEN "verify" ELSE "failed")
    /\ KeepFiles /\ KeepSeen /\ KeepWorld

\* The finally block: linked, but active was not removed.
CleanUp(c) ==
    /\ pc[c] = "cleanUp"
    /\ UnlinkActive
    /\ Goto(c, "cleanSync")
    /\ KeepRecords /\ KeepSeen /\ KeepWorld

\* The fsync at the end of either finally block.
SyncRemoval(c) ==
    /\ \/ pc[c] = "dropSync" /\ Goto(c, "refused")
       \/ pc[c] = "cleanSync" /\ Goto(c, "failed")
    /\ Fsync
    /\ KeepRecords /\ KeepSeen /\ KeepWorld

Verify(c) ==
    /\ pc[c] = "verify"
    /\ Goto(c, IF Unexpired THEN "identify" ELSE "failed")
    /\ KeepFiles /\ KeepSeen /\ KeepWorld

\* Mutant: the process is not looked at again after the consumption.
IdentifyBlind(c) ==
    /\ pc[c] = "identify"
    /\ Goto(c, "verifyAgain")
    /\ KeepFiles /\ KeepSeen /\ KeepWorld

Identify(c) ==
    /\ pc[c] = "identify"
    /\ Goto(c, IF running THEN "verifyAgain" ELSE "failed")
    /\ KeepFiles /\ KeepSeen /\ KeepWorld

VerifyAgain(c) ==
    /\ pc[c] = "verifyAgain"
    /\ Goto(c, IF Unexpired THEN "authorized" ELSE "failed")
    /\ KeepFiles /\ KeepSeen /\ KeepWorld

\* A system call of the consumption fails, before or after the link.
ConsumeError(c) ==
    /\ pc[c] \in ConsumeSteps \ {"cleanUp"}
    /\ Goto(c, IF pc[c] \in {"syncLink", "readLinked", "unlink"} THEN "cleanUp"
               ELSE "failed")
    /\ KeepFiles /\ KeepSeen /\ KeepWorld

(***************************************************************************)
(* The world                                                               *)
(***************************************************************************)
\* The process of a call dies.
Crash(c) ==
    /\ pc[c] \notin Ended \cup {"begin"}
    /\ Goto(c, "failed")
    /\ KeepFiles /\ KeepSeen /\ KeepWorld

\* Every call in progress dies, the directory is as it was at some time since
\* its last fsync, and records that were not fsynced may be gone.  Process
\* numbers and start ticks both count from the boot, so the process of the
\* permits may seem to be running again.
PowerFailure ==
    /\ pc' = [c \in Call |-> IF pc[c] \in Ended \cup {"begin"} THEN pc[c] ELSE "failed"]
    /\ dir' \in survivors
    /\ survivors' = {dir'}
    /\ written' \in {w \in SUBSET written : synced \subseteq w}
    /\ UNCHANGED <<seen, count, attempt, synced, now, running>>

Tick ==
    /\ now < MaxTime
    /\ now' = now + 1
    /\ UNCHANGED <<pc, seen, count, attempt, running>> /\ KeepFiles

\* The process exits; a successor under its number has other start ticks.
Exit ==
    /\ running
    /\ running' = FALSE
    /\ UNCHANGED <<pc, seen, count, attempt, now>> /\ KeepFiles

Step(c) ==
    \/ IssueBegin(c) \/ IssueOpen(c) \/ IssueSpent1(c) \/ IssueWrite(c)
    \/ IssueSyncFile(c) \/ IssueSpent2(c) \/ IssueReread(c) \/ IssueSync(c)
    \/ IssueReturn(c) \/ IssueDrop(c) \/ IssueError(c)
    \/ ConsumeBegin(c) \/ ExistsStat(c) \/ ExistsRead(c) \/ ReadActive(c) \/ Link(c)
    \/ SyncLink(c) \/ ReadLinked(c) \/ Unlink(c) \/ SyncUnlink(c) \/ ReadSpent(c)
    \/ CleanUp(c) \/ Verify(c) \/ Identify(c) \/ VerifyAgain(c) \/ ConsumeError(c)
    \/ SyncRemoval(c)

Next ==
    \/ \E c \in Call : Step(c) \/ Crash(c)
    \/ PowerFailure \/ Tick \/ Exit

Init ==
    /\ pc = [c \in Call |-> "begin"]
    /\ seen = [c \in Call |-> NoFile]
    /\ count = [c \in Call |-> 0]
    /\ attempt = [c \in Call |-> 0]
    /\ dir = NoFiles
    /\ survivors = {NoFiles}
    /\ written = {}
    /\ synced = {}
    /\ now = 0
    /\ running = TRUE

Spec == Init /\ [][Next]_vars

-----------------------------------------------------------------------------
(***************************************************************************)
(* Properties                                                              *)
(***************************************************************************)
\* Every variable has its type; consumptionExists makes four attempts.
PermitTypeOK ==
    /\ pc \in [Call -> Labels]
    /\ seen \in [Call -> Issuer \cup {NoFile}]
    /\ count \in [Call -> 0 .. 2]
    /\ attempt \in [Call -> 0 .. 4]
    /\ dir \in Dir
    /\ survivors \subseteq Dir
    /\ written \subseteq Issuer
    /\ synced \subseteq Issuer
    /\ now \in 0 .. MaxTime
    /\ running \in BOOLEAN

\* Docs: a stop permit "can be consumed only once".  Of all the calls that ever
\* consume a permit of the nonce, at most one is authorized to stop, whatever
\* issuances overlap with them, which calls fail or die, and whatever a power
\* failure takes back.
OneAuthorization ==
    \A c, d \in Consumer : pc[c] = "authorized" /\ pc[d] = "authorized" => c = d

\* The permit of an authorization is spent for good: the spent record of the
\* very file that was read is there, after a power failure too.
AuthorizationSpent ==
    \A c \in Consumer : pc[c] = "authorized" =>
        \A d \in survivors : d.spent = seen[c] /\ Holds(d.spent, c)

\* Tests: "concurrent issuance cannot reuse a nonce".  Of all the calls that
\* issue a permit with the nonce at most one succeeds, also after the permit of
\* the first was consumed.
IssuedOnce ==
    \A c, d \in Issuer : pc[c] = "issued" /\ pc[d] = "issued" => c = d

\* A permit that was issued waits in the store, through power failures and the
\* failures of other calls, with its name and its record, until the very permit is
\* consumed; it never waits beside one that was.
IssuedStays ==
    \A c \in Issuer : pc[c] = "issued" =>
        /\ c \in synced
        /\ \A d \in survivors : d.spent = c \/ (d.active = c /\ d.spent = NoFile)

\* The labels at which a call has linked the spent record, and those at which
\* it has found it, after the fsync, to be the file it had read.
Linked == {"syncLink", "readLinked", "cleanUp", "unlink", "syncUnlink", "readSpent",
           "verify", "identify", "verifyAgain", "authorized"}
Spent  == Linked \ {"syncLink", "readLinked", "cleanUp"}

\* Issuances that have created the active file and have not given it up for
\* good, those that have then found no spent record, and those that have
\* fsynced the directory.
Created == IssueSteps \ {"open", "dropSync"}
Checked == {"reread", "sync", "issueTime", "issued"}
Durable == {"issueTime", "issued"}

\* The file of an issuance waits in d, or is the one that was consumed.
Keeps(d, c) == d.spent = c \/ (d.active = c /\ d.spent = NoFile)

\* The inductive invariant.  Consumers: the spent record, once linked, is never
\* replaced, and it is durable before the call that linked it goes on.
\* Issuers: a call removes only its own file, or one that comes too late since
\* there is a spent record; so what was checked, and then made durable, stays.
PermitInv ==
    /\ dir \in survivors
    /\ \A c \in Consumer : pc[c] \in Linked => dir.spent # NoFile
    /\ \A c \in Consumer : pc[c] = "readLinked" =>
          \A d \in survivors : d.spent = dir.spent
    /\ \A c \in Consumer : pc[c] \in Spent =>
          seen[c] # NoFile /\ Holds(seen[c], c) /\ \A d \in survivors : d.spent = seen[c]
    /\ \A c, d \in Consumer : pc[c] \in Linked /\ pc[d] \in Linked => c = d
    /\ \A c \in Issuer : pc[c] \in Created => dir.active = c \/ dir.spent # NoFile
    /\ \A c \in Issuer : pc[c] \in Checked => Keeps(dir, c)
    /\ \A c \in Issuer : pc[c] \in Checked \cup {"spent2"} => c \in synced
    /\ \A c \in Issuer : pc[c] \in Durable => \A d \in survivors : Keeps(d, c)
    /\ \A c \in Call : attempt[c] < 4 \/ pc[c] = "failed"
    /\ \A c \in Call : pc[c] \in IssueSteps \cup {"issued"} => c \in Issuer
    /\ \A c \in Call : pc[c] \in ConsumeSteps \cup {"authorized"} => c \in Consumer

\* A consumption that has not been authorized before the permit expired, or
\* that had not verified the process before the process was gone ...
Doomed(c) ==
    /\ pc[c] # "authorized"
    /\ ~Unexpired \/ (~running /\ pc[c] # "verifyAgain")

\* ... never will be.  Tests: "expiry reached during durable consumption cannot
\* produce a stop authorization" and "process replacement during durable
\* consumption cannot produce a stop authorization".
NoStaleAuthorization ==
    [][\A c \in Consumer : Doomed(c) => Doomed(c)']_vars
=============================================================================
