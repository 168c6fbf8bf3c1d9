# TLA+ specifications of LazyEdge

LazyEdge publishes services of private machines through a small edge host. It
is a Node.js package (`src/`, about 9300 lines) with a command line that renders
SSH, Caddy and systemd configuration, two HTTP gateways that carry the traffic,
a store of bearer tokens, and a library for rollouts: a journal that only one
controller at a time may move, and permits that authorize one stop of one
process. It renders shell programs that change a host, and has a script that
releases it.

These modules specify the parts of it whose correctness depends on the order in
which several processes, callbacks, commands and crashes act, and two functions
whose verdict the rest relies on. TLC checks the former on small instances;
TLAPS proves the main safety properties for all values of the constants. `PROJECT.json` lists the runs, the mutations of the model each
property was tested against, the source lines of every definition, the hazards
that the properties are for, and the theorems.

## 1. The system

| Component | Source | State | Operations | Interacts with |
|---|---|---|---|---|
| Rollout lease | `rollout-journal.js` 271-292, 550-882 | directory `<state>.lease` with `owner.json`, `reaper.json`; tombstones | `acquireLease`, `quarantineStaleLease`, `assertOwned`, `release` | other processes through the file system; `/proc`; the application's `verifyOwnerDead` |
| Rollout journal | `rollout-journal.js` 206-269, 399-548, 884-1201 | one JSON record, its temporary files | `createRolloutJournal`, `openRolloutJournal`, `advanceActivation`, `beginRollback`, `advanceRollback`, `finalize`, `inspect`, `release` | holds the lease for the life of a handle |
| Stop permits | `rollout-authority.js` | per nonce `<hash>.permit` and `<hash>.spent` | `issueStopPermit`, `consumeStopPermit`, `FileStopPermitStore` | several processes, several store instances; the clock; `/proc` |
| Token lock | `token-store.js` 284-608 | directory `tokens.json.lock` with `owner.json`, `.reap`; tombstones | `acquireLock`, `inspectLock`, `reapLock`, `quarantineStaleLock`, `cleanupCreatedLock`, `releaseLock` | other processes through the file system; `/proc` |
| Token store | `token-store.js` | `tokens.json`, the cache of each process | `issue`, `verify`, `revoke`, `list` | command line and edge gateway share the file |
| Edge gateway | `edge-server.js`, `http-policy.js`, `proxy.js` | concurrency counter, requests in flight | a request's policy, bearer check, slot, proxying; shutdown | token store; worker gateway |
| Worker gateway | `worker-server.js`, `proxy.js` | requests in flight | the same for the private side | upstream services |
| HTTP policy | `http-policy.js` | none | a host, a method and a path to a service and a reason | the two gateways; the manifest |
| Node admission | `node-admission.js` | none | two documents of a node and the time to a verdict | the gateway of the application |
| Port redirect | `systemd.js` 300-640 | the table `ip nat` of nftables, `operation.lock`, through a rendered helper | `start`, `stop`, `status` | the cutover scripts, other managers of the firewall |
| Route cutover | `caddy.js` | the same table, through two rendered scripts; Caddy configuration | `apply`, `rollback`; render | the port redirect |
| Account bootstrap | `accounts.js` | `authorized_keys`, an include of sshd, through a rendered script | one transaction with a trap that undoes it | sshd |
| npm release | `scripts/npm-release.mjs` | three files with the version, a commit, a tag; the remote, the registry | a release, its dry run, its recovery | git, npm, the user's own work |
| Desired state | `config.js`, `state.js`, `runtime-config.js` | manifest, plan, written files | normalise, plan, atomic write | everything that is rendered |
| Rollout contract | `rollout-contract.js`, `rollout-cli.js` | none | manifests to digests and plans | the rollout controller |
| Doctor, SSH renderer, validation, command line | `doctor.js`, `openssh.js`, `security.js`, `cli.js`, `index.js` | none of their own | probes, text, checks | all of the above |

What is hard in it, and what makes it correct:

* **Lease.** Processes die between any two system calls; a contender that has
  been delayed acts on a directory that is no longer the one it looked at; PIDs
  and inode numbers are used again. Correct means: at most one live holder; a
  live holder's lease is never moved; a stale one is; a lease that a crash has
  left incomplete is left to the operator.
* **Journal.** Publication is temporary file, rename, fsync; each may fail or be
  the last thing that happens. Correct means: no update is lost, none is based on
  an unseen record, the recorded history is legal, and what was returned to a
  caller survives a power failure.
* **Stop permits.** Issuance and consumption of a nonce overlap, from several
  processes, on two names of one file. Correct means: a permit authorizes at most
  once, the fact that it did is durable, and neither expiry nor the replacement of
  the process can be overtaken.
* **Token lock.** Like the lease, but automatic: a contender itself decides that
  a lock is abandoned, by the death of its owner or, when no owner is named yet,
  by an age of five seconds. Correct means: no token or revocation that was
  acknowledged gets lost; what a dead process leaves behind delays the others
  and does not stop them.
* **Token store.** A cache that trusts a fingerprint for 100 ms, a bounded number
  of waiters, a mutation that suspends verification. Correct means: an accepted
  token is valid in a recent state of the file; a failure denies.
* **Gateways.** Clients leave at any `await`. Correct means: every slot taken is
  given back, exactly once, and every request gets an end.
* **Port redirect and cutover.** The table is looked at in several calls and
  changed in one; others change it in between, and an interruption undoes nothing.
  Correct means: no port is redirected twice, no rule of others is touched, the
  four redirects of a manifest come and go together, and what the helper answers
  is so.
* **Account bootstrap.** Any command may fail, a signal may come at any moment.
  Correct means: a run either commits or leaves the host as it was.
* **npm release.** Two repositories, a registry that takes its time, answers that
  are lost, and a user who works on after a failure. Correct means: what is
  published is what is tagged, what is pushed is published, and a failed run is
  either without a trace or can be resumed.
* **HTTP policy, node admission.** Functions, but of many conditions whose
  combination matters. Correct means: one service for a request, the same
  answer at both ends, no way to a private service; no node admitted on old or
  foreign evidence.

## 2. Modules

| Module | What it is |
|---|---|
| `ExclusiveLease` | what the lease promises: process instances, at most one live holder |
| `RolloutLease` | the lease, system call by system call; implements `ExclusiveLease` |
| `RolloutLeaseProofs` | its invariant, safety properties and refinement, proved |
| `RolloutRecord` | the journal's record: validity, transitions, the order of history |
| `DurableRecord` | what the journal promises a controller |
| `RolloutJournal` | handles and publication on top of `ExclusiveLease`; implements `DurableRecord` |
| `RolloutJournalProofs` | its invariant, properties and refinement, proved |
| `StopPermit` | issuance and consumption of the permits of one nonce |
| `StopPermitProofs` | its invariant and properties, proved |
| `SerialStore` | what the lock of the token store promises the mutations: one at a time, none lost |
| `TokenLock` | that lock, system call by system call; implements `SerialStore` |
| `TokenLockProofs` | its invariant, mutual exclusion and the refinement, proved |
| `TokenStore` | caches, refreshes and mutations of several instances over one file of tokens |
| `TokenStoreProofs` | its invariants and safety properties, proved |
| `Gateway` | the requests of a gateway: admission, slot, proxying, end; shutdown |
| `GatewayProofs` | its invariant and safety properties, proved; theorems about `Manifest` and `NodeAdmission` |
| `PortRedirect` | the redirect helper and the two cutover scripts over one table of nftables |
| `PortRedirectProofs` | its invariants and all its properties, proved |
| `NpmRelease` | the release script in several clones, with remote, registry and users |
| `Bootstrap` | the bootstrap script and its trap, command by command |
| `ScriptProofs` | the invariant and properties of `NpmRelease`, and what `Bootstrap` does keep, proved |
| `Manifest` | what `normalizeManifest` accepts, and the policies compiled from it, as operators |
| `NodeAdmission` | what an admitted node has shown, as operators |
| `MC...` | small instances of the modules for TLC |

`RolloutJournal` EXTENDS `ExclusiveLease`, the promise, and not `RolloutLease`,
the directories: that the one implements the other is a property of
`RolloutLease` (`KeepsPromise`, checked and proved). So the two detailed state
spaces are never multiplied. `TokenStore` and `TokenLock` are divided in the same way:
`TokenStore` has the lock as a variable with one holder at a time, or a timeout,
and `TokenLock` shows under which assumptions the directories provide that: it implements
`SerialStore` (`MutationsAreSerial`, checked and proved). `Gateway`
knows the token store as a verification that takes its time and may answer no. `Manifest` is what
the constants of `Gateway` and `PortRedirect` stand for: distinct services and ports. All stay close to the code: a label of `pc` or
`jpc` is a place between two system calls, an action is what happens from one
label to the next.

### RolloutLease

`lease` is the directory that the path names, `alloc` the directories that
exist, `owner[d]` and `reaper[d]` the files in directory `d`; `view[p]` is what
process `p` remembers (the inode of its directory or of the one it suspects, and
the owner it wrote or read). `owner.json` is created (`OpenOwner`) and written
(`WriteOwner`) in two steps, so that a reader may find it incomplete. The loop of
`acquireLease` is `Mkdir`, `Stat`, `OpenOwner`, `WriteOwner`, `Verify` when the
path is free, and `Inspect`, `Ticks`, `Recheck`, `OpenReaper`, `Confirm`,
`Rename`, `Bury` when it is not; `DropOwner`, `DropDir`, `DropReaper` are its
`catch` and `finally` blocks, `Release`, `RelUnlink`, `RelRmdir` the release.

Three things make the module worth having. `Die` may strike anywhere. `Fail`
lets any system call of a `Flaky` process fail, with the code's way out. And
inode and process numbers are used again: `Mkdir` takes any number that is not in
use, and `PidOf` may map two instances to one number.

An inspection (`inspectLease`: several calls) is one step. What it reports is
acted upon only after `Confirm`, which looks again while `reaper.json` lies in the
directory; `LateReaperPinned`, part of the invariant, says that the directory does
not move in that time, and so a torn inspection can only make the code give up.

### RolloutRecord, RolloutJournal

A phase is a number, a plan digest and an operation ID together are an
`Authority`, a terminal receipt is its outcome and its sequence. `Valid` is
`validateState` with `validateReceipt`. The four mutations are pairs: a guard
(`AdvancesActivation`) and the record it publishes (`ActivationAdvanced`).

`disk` is what the path names, as a record and its link count; `survivors` are
the entries that a power failure may reveal: all since the last fsync of the
directory. `acked` is the last record that a call has returned. A creation goes
through `CreatePreflight`, `Link`, `SyncLink`, `UnlinkTemp`, `SyncUnlink`,
`ReadCreated`; a publication through `Publish`, `RenameRecord`, `SyncRename`,
`ReadBack`; `GiveUp` and `FailPublish` let each of these fail. `assertOwned` is
`holder = p`, which is what `ExclusiveLease` provides; that it may also fail for a
holder, while a late `reaper.json` lies in its lease, is covered by the failing
calls.

### StopPermit

The permits of different nonces do not touch the same files, so the module is
about one nonce. `dir` holds the two names, `written` the files that hold their
record, `synced` those whose record is safe; `survivors` is as above. A member of
`Issuer` or `Consumer` is one call of `issueStopPermit` or `consumeStopPermit`,
in any process, through any store instance. Two permits with the same nonce are
possible (`PermitOf`), as the nonce may be given by the caller.

`consumptionExists` is two steps, the `lstat` (`ExistsStat`) and the reads it
expects to agree with it (`ExistsRead`), four times at most. Every other system
call on the two names is a step.

### TokenLock

Its shape is that of `RolloutLease`: `lock` is the directory the path names,
`owner[d]` and `mark[d]` its two files, `tomb[i]` what has been moved to the
tombstone name of inode `i`. `pc` walks through `acquireLock` (`Mkdir`, `Stat`,
`OpenOwner`, `WriteOwner`, `Check`), a mutation (`Reload`, `Persist`) and
`releaseLock` (`Release`, `UnlinkOwner`, `RmdirLock`), and through `inspectLock`
(`Inspect`, `ReadOwner`), `reapLock` (`Judge`, `ReapOpen`, `ReapWrite`, `ReadMark`,
`JudgeMark`, `Unmark`, `UnlinkMark`) and `quarantineStaleLock` (`Quarantine`,
`Recheck`, `Rename`) when the path exists. A death is decided at another moment
than the one at which the file was read, and so reading and judging are two steps.
`Check` and `Release` look at the directory and at its owner in one step: a
directory never comes back to the path, so the second look implies the first.

The code decides by age and by who is alive, and so the model has three assumptions that
can be switched off. With `Prompt` no live process takes `LOCK_STALE_MS` in one of four short
stretches that the module names. Without `Reuse` the file system does not give an
inode number to a new directory while some contender remembers it (tmpfs and btrfs
never do, ext4 does). With `Steady` no reaper ends just after it has taken its marker back,
while another one that has read the marker is about to ask whether it lives. None of them is
something that the code sees to; section 3 says what happens without each.

### TokenStore

`file` and `version` are the file and its fingerprint; `records[p]`, `known[p]`,
`next[p]`, `waiters[p]`, `refresh[p]` and `mutating[p]` the fields of instance `p`;
`call[c]` is where a call of `verify`, `issue` or `revoke` is, or how it has ended.
The event loop gives the granularity: an action reaches from one await of the file
system to the next, and all who wait for a promise go on in the same action
(`Settled`). A refresh is `BeginVerify`, `Inspect`, `OpenSnapshot`, `RefreshEnds` or
`RefreshFails`; a mutation is `BeginMutation`, `Settle` (it waits for a refresh in
flight), `Acquire`, `Reload`, `Rename`, `Sync`, `Release`, and each stage in `MayFail`
may fail, with what the code's `catch` and `finally` blocks undo. A mutation whose
lock or reload has failed is `missed`: it has read nothing, and yet postpones the next
refresh (778-781). `born` and `acked` are history: when a verification began, when a revocation was first acknowledged.

### Gateway

`ex[r]` is the exchange of request `r`: `stage` is where its handler is, `client` and
`body` what the connection does, `reply` and `flushed` the response, `up` and `incoming`
the upstream request and its response. `slots[s]` is the counter of a service, `server`
the listener. An action is one callback of the event loop. `Arrive` is the handler up to its first await
(at the edge, `Verified` requests, the verification of a token) and `Answer` what
follows; `Admit` compares the counter of the service with its limit and starts
`proxyHttpRequest`, which listens from then on. `Receive`, `Chunk`, `BodyEnd`, `Flush` and `Leave`
(with `Vanish`) are the client's side, `UpHead`, `UpEnd`, `UpBreak`, `UpFail` the
upstream's, `Settle` the end of the promise with the `finally` block that gives the
slot back. `Close` and `Closed` are the shutdown. With `Verified = {}` it is the
worker, whose handler does not wait before it takes the slot.

### PortRedirect

`rules` is the table with the handles the kernel has given, `base[c]` its two chains.
`at[p]` is the next call of `nft` of program `p`; the helper walks from `Flock` through
`ListRuleset` and two `ListChain` (`load_snapshots`) to `Decide`, and on to `Install`, `Withdraw`
or an answer; a start that has nothing to change or has changed something lists all again.
`Judge` is what `inspect_snapshot`, `validate_base_chain` and `validate_ruleset_topology` make of
a listing. A batch is one transaction (`Install`, `Withdraw`, `Replace`), which the kernel refuses
when a handle has gone (`Reject`). The scripts read one chain at a time (`Find`) and take no lock.
`Foreign` is everybody else, `Misread` a listing that fails: the helper takes it for a chain that
is not there. `Fail` may strike anywhere and undoes nothing, as the code does.

`crossed` and `quiet` are history and say what the code cannot know. A run is crossed when
somebody who does not wait for its lock has changed the table while it ran; `docs/operations.md`
112 asks for other managers to be quiescent, and `quiet` is that.

### NpmRelease

`commits` is the object store, `head`, `tree` and `tags` a clone, `origin` the remote; `registry`
is what npm has accepted and `shown` what it shows. An action is one command. `Publish` and `Push`
may have their effect and report an error. Where a command fails decides what follows
(`Fail`): the files are written back up to the tests, the user is told to retry from the tag on,
and between the two, in `git add`, `commit` and `tag`, neither happens (`unmade`). The user's own
`UserCommit`, `Discard`, `Pull` and `Reset` come between runs.

### Bootstrap

`keys` and `include` are the two files, `flag` the variables of the script that its trap goes by,
`at` the next command. An assignment is a command of its own, as a signal may come between an `mv`
and the assignment that records it. `Exit` runs the trap (`Undo`, `Retest`, `Reread`, `Rekey`,
`Clear`), and `Kill` ends it too.

### Manifest, NodeAdmission

Operators on records, without state. `Accepted` is `normalizeManifest` as far as it relates fields
to each other; `Claimants`, `EdgeService`, `EdgeReason`, `WorkerReason` are what `compileHttpPolicy`
and the worker's policy answer. `Admissible` is the chain of assertions of
`probeLocalLlmAdmission`, each conjunct a part of it.

## 3. Runs

| Run | Instance | Properties | Distinct states |
|---|---|---|---|
| `lease` | 3 contenders, 2 mortal, one of them flaky, a process with a dead one's number, 2 inodes, 2 acquisitions each, 2 attempts, fair | `HandleBacked`, `LiveNeverReclaimed`, `FailClosed`, `KeepsPromise`, `StaleLeaseReclaimed` | 349,072 |
| `journal` | 3 processes, 2 authorities, 4 activation and 3 rollback phases | `JournalTypeOK`, `ReplacesExpected`, `HandleReadable`, `AckedSurvives`, `KeepsPromise` | 43,138 |
| `permit` | 2 issuances and 2 consumptions of one permit | `OneAuthorization`, `IssuedStays`, `NoStaleAuthorization` | 1,390,284 |
| `token_lock` | 3 processes, all mortal, one flaky, 3 inodes, prompt, no reuse | `HolderBacked`, `LiveLockStays`, `MutationsAreSerial` | 3,192,829 |
| `token_lock_abandoned` | 2 contenders, one mortal, after a dead owner or reaper, fair | `NobodyIsLockedOut` | 306,408 |
| `token_lock_tombstone` | 3 contenders, one mortal and flaky, at an empty stale lock, prompt, no reuse | `TombstonesStay` is violated | - |
| `token_store` | 2 instances, 3 verifications, a revocation at each, an issuance; prompt refreshes, every stage may fail | `CacheHonest`, `AckedStays`, `NoBypass`, `OwnRevocationHolds`, `WaitersBounded` | about 5.6 million |
| `gateway` | 2 requests for one slot, one of them verified, fair | `LoadBounded`, `OversizeNeverPasses`, `SlotsCounted`, `SlotsInUse`, `QuietWhenClosed`, `EveryoneAnswered`, `CancellationArrives`, `CloseEnds` | 12,396 |
| `gateway_edge_leave` | 2 verified requests, a client that leaves meanwhile, fair | `SlotsReturned` is violated | - |
| `port_redirect` | 2 helpers, one of them for one of two manifests, a script, 6 tables to begin with, 3 events | `OwnedOnce`, `OthersStay`, `AllOrNone`, `YesIsTrue`, `NoIsTrue` | about 650,000 |
| `npm_release` | 2 clones, 2 versions to release, 3 runs, 2 changes by users | `PublishedIsTagged`, `PushedIsInstallable`, `PushedOnMain`, `RetryIsEnough`, `NoResidue` | about 1.4 million |
| `bootstrap` | 1 run over any two files | `RefusedStays` is violated | - |

`TokenLock` has its assumptions as constants. The passing runs make the first two; what they are
worth can be seen by switching one off in `TokenLock.cfg`. Without `Prompt`, `MutationsAreSerial` fails: a creator
stalls for five seconds between `mkdir` and the end of the write of `owner.json`; a contender takes
the lock for abandoned, marks it, finds it still without an owner in `quarantineStaleLock` (434-439)
and is about to rename it (446) when the creator goes on, writes its name, finds that all is well
(575-580) and enters. The rename takes the directory away from under it, a third process acquires
the lock, and one of two acknowledged records is lost. With `Reuse`, `LiveLockStays` fails: a holder
of more than five seconds releases the lock while a contender is between `lstat` and the look at
`owner.json` (417); the contender sees an old lock without an owner, the next directory has the same
inode number, and all its checks pass. The tombstone name keeps a reaper from moving a successor
after a directory was quarantined, not after it was released.

`Steady` makes no difference to three processes that find no lock at the beginning, and
`token_lock` does without it. `token_lock_tombstone` shows why the proofs need it. A reaper that
meets the marker of another one reads it (`token-store.js` 486), asks a moment later whether its
writer lives (489), and then goes on without a marker of its own. If the writer has failed, taken
its marker back (506-507) and ended in between, two such reapers of an empty lock both go on. The
first renames it and, as `rename` replaces an empty directory, its tombstone protects nothing: the
second renames the lock that the first has made meanwhile over it. The code notices that
afterwards (452) and reports it. The comment (441-443) says that the tombstone prevents this.
The window is short and two processes must be in it. A fourth process can get the lock in the same
way while a holder is between the `unlink` and the `rmdir` of its release for five seconds.

`NoBypass` makes one exception. A revocation at the command line is acknowledged while a
mutation of the gateway's instance waits for the lock; the mutation fails (its deadline is ten
seconds), its `finally` block (778-781) sets `nextRefreshAt` as if it had reloaded, and for another
interval `verify` answers from the records from before. `Missed` names such mutations, which the
run includes and the property excepts. `Prompt` is the other condition: a
verification that joins a refresh gets what that refresh has opened, however long ago, so that without a
bound on a refresh there is no bound on the age of its answer.

`gateway_edge_leave`: while `verify` is awaited (`edge-server.js` 208) the client leaves.
Its `aborted` and `close` events are over when `proxyHttpRequest` registers its
listeners, the promise never settles, and the `finally` block (251-253) that decrements the
counter never runs. The worker takes the slot in the same turn of the event loop in
which the request arrives and is not concerned (`SlotsInUse`, checked and proved).

`port_redirect` counts an answer only where the run is not crossed, and single copies only where
others are `quiet`, since the code promises no more. What happens otherwise can be read off the model:
a listing that fails is taken for an empty chain, so that a start adds a second copy of what it has
not seen and then refuses it (exit 4) without taking it out; a cutover script that runs beside the
stop of a helper can leave a part of the four; an `apply` beside redirects that are owned already
doubles them. `OthersStay` holds without any such condition.

`npm_release` shows that the checkpoint is worth its name for the clone that made it. It says
nothing across clones about the tag: if two clones commit the same version and the first publishes,
the second may recover, find the version published, and push its own tag for it
(`PublishedIsTagged` is about the clone that has published).

`bootstrap`: `had_previous=0` means "there was no include" to the trap (182) and "nobody has looked
yet" to the script. A run that refuses a symbolic link (209, 224) ends in the trap, which removes an
include that was there before; so does any failure before 229. What the script does keep is proved.

What the properties say is in the comments above them. Each of them was
violated by at least one of the mutants in `PROJECT.json`.

**Bounds.** Three contenders are a holder, a reaper and either a second reaper or
the successor whose lease a late reaper finds; two directories are the old lease or its
tombstone and the new lease, and a number is free again when a directory is removed.
`MaxAttempts` is 2 where the code has 8:
the counter only ends the loop, and two rounds are enough for a round to start on
a lease that has changed. The callback says that the owner is dead whenever it is asked, which is the
hardest case; that it may also say no is left to the proofs. `MaxAcquire = 2` lets a process that has failed or
released come back. The phase ladders are shortened (9 and 7 phases in the code):
the transitions depend on a phase being the first, the last or neither. Two
issuances and two consumptions are the smallest number for which one nonce is
reused and contested, and that two permits have the same nonce is left to the proofs; the clock needs two values, before and after the expiry.
The proofs hold without any of these bounds.

In `token_lock` three processes are a creator that dies or fails, a reaper and a successor;
`token_lock_abandoned` begins with everything a dead process may have left, its
owner file and its marker each missing, empty or complete, and so has four. A
process makes one mutation; one that comes back is another process.

In `port_redirect` two helpers and a script are two that wait for each other and one that does
not; events are runs begun and changes by others, and three of them are a run, another that meets
it half-way, and a change at any point of either, or what an interrupted run has left and a run
that meets it. The tables to begin with are an empty host's, one with the previous
redirects, one with all and one with half of the owned ones, and two that the helper must refuse.
In `npm_release` three runs are a failed one, a recovery and a competing one; two changes are one in
each clone or two between a failure and its recovery. In `bootstrap` one run is enough for the
refusal; the proofs hold for any number.

In `token_store` one instance verifies and one stands for the other processes. Three
verifications are one that refreshes, one that waits and one too many
(`MaxWaiters = 1` for 32). An interval is one unit of time; with `MaxTime = 3` a
verification can begin more than an interval after a revocation and still meet a
refresh that began before. In `gateway` two
requests compete for one slot, the smallest number for which a limit, a refusal and a
slot that is kept make a difference; one of them waits for a verification, as at the edge,
and the other does not, as at the worker. Bodies exceed their limit with the second chunk.
Services share nothing but the listener, and the proofs hold for any number of them.

**Fairness** is assumed in the runs with liveness properties, and in `token_lock_tombstone`, which
does not depend on it. In `lease` and the two runs of an abandoned token lock:
`WF_vars(Progress(p))`, for each process, and in the latter that time passes
(`WF_vars(Age)`, `WF_vars(AgeMark)`) and that no contender reaches its deadline
(`Patient`: the deadline, ten seconds, is twice the age at which a lock is stale). An instance that is live and inside a call has an event loop that runs,
and none of the calls waits for anything: each action of `Progress` is enabled as
long as the process is at its label. No fairness is assumed for the beginning of
a call, a release, a start, a failure or a death. `gateway` and `gateway_edge_leave` assume that verifications answer, responses are flushed, an upstream
request does something or runs into its timeout, and `close` destroys the
connections (`closeAllConnections`); nothing is assumed of a client that sends a body or of an upstream
that streams one. `PortRedirect`, `NpmRelease` and `Bootstrap` state none: a program may be killed at
any command and nothing restarts it, so that no progress is promised.

`CHECK_DEADLOCK FALSE` is set in all runs: processes end, calls return, and the
bounded number of them is used up.

## 4. Proofs

All constants are arbitrary, under the assumptions that their modules name
(`LeaseConstants`, `NoProcAssumption`, `RecordConstants`, `PermitConstants`, `LockConstants`,
`StoreConstants`, `FreshTokens`, `GatewayConstants`, `RedirectConstants`, `BootOnce`).

* **Lease** (`RolloutLeaseProofs`). `LeaseInv` is inductive together with the
  types. Its core is `ClaimBacked`: from `mkdir` to the end of `release`, the path
  names the claimant's directory and `owner.json` is as the claimant left it. A
  directory leaves the path only by the rmdir of its claimant or by the rename of
  a reaper, and a reaper renames only after `Confirm`: `LateReaperPinned` says that
  its `reaper.json` pins the directory at the path (nobody can remove a directory
  that is not empty, and nobody else renames one that is not exactly held), and
  `SuspectIsDead` that the owner it compares is dead and hence no claimant. The
  theorems `HandleStaysBacked`, `LiveIsNeverReclaimed`, `WedgedStaysForever` and the
  refinement `LeaseKeepsPromise` follow from it.
* **Journal** (`RolloutJournalProofs`). `HistoryIsDetermined`: a valid record is
  initial or follows exactly one valid record, so its shape determines its past.
  `JournalInv` relates a publication in progress to the record at the path
  (`ReplacesExpected`), and everything a power failure may reveal to what was
  acknowledged (`SurvivorsAreHistory`, `AckedSurvives`). `Precedes` is shown to be a
  transitive order to which every transition adds at the end; with it
  `JournalKeepsPromise` maps each step to a step of `DurableRecord` or a stutter.
* **Stop permits** (`StopPermitProofs`). `StepMovesDir`: a step only removes the
  name active, or creates it where it is free, or gives the name spent, where it is
  free, to the active file. So `spent`, once linked, stays; a consumer that has
  fsynced and compared it owns the only authorization (`OnlyOneIsAuthorized`). On
  the issuing side a call removes active only if the file is its own or a spent
  record exists, and therefore what was checked and fsynced stays
  (`OnlyOneIsIssued`, which states `IssuedStays`: the file of a successful issuance has the
  name active and nothing is spent, or it has itself become the spent record). `StaleIsNeverAuthorized` follows step by step.

* **Token lock** (`TokenLockProofs`), under `Prompt`, `Steady` and without `Reuse`. `LockInv` has
  the shape of `LeaseInv`, with the age in the place of the callback. `HoldInv` is the goal: whoever
  has the lock has it at the path, with its own `owner.json`, and what it is about to write is the
  store and its own record. Only a rename could disturb that. `MarkInv` and `Sound` say what a
  reaper knows while the path names the directory it has inspected: a marker is in it, its own or
  that of somebody who has ended and will not take it back; so nobody can remove the directory, and
  nobody can replace its tombstone. A reaper's inspection names a dead owner, or nobody
  and an old directory, and by `AgeInv` no live creator lets its directory become old. The
  theorems are `LockExcludes`, which is what `TokenStore` assumes of the lock, `HoldersAreBacked`,
  `LiveLocksStay`, and the refinement `LockKeepsPromise`: a process that comes into the lock finds nobody
  there (`StaysExclusive`), what it writes is the store and its record (`StoreEffect`), and it is told
  only after it has left (`TellEffect`); so each step is one of `SerialStore` or a stutter.
  `RecordsAreRetained` follows from the same invariant. `LockTypes` needs no assumption.
* **Token store** (`TokenStoreProofs`). `LockInv`: a mutation from `acquireLock` to its
  release holds the lock, and no refresh of its instance is in flight. With it
  `FileInv`: a snapshot or cache with the fingerprint of the file is the file, except
  between `Reload` and `Rename`, where the cache is the file and one change
  (`PersistInv`), which is why what `PersistFails` undoes is again the file; and what
  was acknowledged is in the file, since every write starts from it (`StaysInv`).
  `OwnInv` adds that an instance holds a token it has revoked for valid neither in its
  cache nor in a snapshot that would replace it. `FreshInv`, under `Prompt` and with
  mutations that reload, is the argument about time: if a cache takes a token for
  valid whose revocation was acknowledged at `a`, then its next refresh is due at
  `a + Interval` at the latest, or a mutation of its instance has missed the file.
  `WaitInv` is about the counter of waiters, and assumes that verifications are finite in number.
* **Gateway** (`GatewayProofs`). `GatewayInv`, besides the types, has four parts: the counter of a
  service is the number of handlers between `Admit` and `Settle` (`SlotsBalance`), what an
  exchange may look like by itself, whatever the others do (`Sound`), after `Closed`
  nothing is connected (`ClosedIsQuiet`), and a slot without a verification before it is held
  for a client that is there (`Present`), which the verified requests of the edge lack.
* **Port redirect** (`PortRedirectProofs`). `LookInv`: from a listing to the batch of a start the
  slots that it has seen free are free. The lock keeps other helpers from filling them, and a cutover,
  which takes no lock, puts a rule only where it takes one out, and finds none in a free slot.
  `FoundInv`: a rule that a script has found is alone in its slot for as long as it is there. So what a
  batch adds is alone (`PortsRedirectedOnce`). `OthersRulesStay` needs neither: the kernel gives no
  handle twice, and so what is deleted by handle is the rule that was listed. `KnowInv` is about a
  run that is not crossed: what it has listed is still so, as the other helpers wait for its lock.
  Its decisions are therefore about the table as it is, which gives `YesCanBeBelieved`; its batch
  completes exactly what was missing (`InstallCompletes`) and takes out all there was, which, with
  `FoundInv` for the cutovers, gives `RedirectsComeTogether`; and when start looks again, what the first look has
  found or its batch has made is there, so that it refuses only an obstruction or duplicates
  (`NoCanBeBelieved`).
* **npm release** (`ScriptProofs`). `NpmInv`: `Knows` says what a run may rely on at each command (the
  files it would write back are those of the commit; from the tag on, the worktree is the version,
  and the tag names the head), `TagInv` that every tag names a release commit of its version. What
  a run that failed promises follows (`RetryIsPossible`, `FailureLeavesNothing`), and what is on the
  remote (`PublishedStaysTagged`, `PushedCanBeInstalled`). `TagsStayOnMain` is about the history of a
  commit, which is recursive. What such a function computes cannot be proved by induction here; instead
  the invariant says that there is exactly one function that satisfies the equations for the commits
  made so far, and that it is transitive (`PastInv`), and each `Append` is shown to keep that.
* **Account bootstrap** (`ScriptProofs`). `ReadyInv` says what is in place at each command,
  `RestoreInv` that a flag that is set has its copy in the stage. From it follow what a success means,
  that what was saved comes back, and that sshd reads only what its test accepts. `RefusedStays`
  does not follow: a flag that is not set says nothing about the file.
* **HTTP policy and admission** (`GatewayProofs`). Facts about operators, for any manifest and any
  documents: `OneClaimant` from the rule that no two services claim one method and path of one host;
  `AllowedEndToEnd` from it and the ports, which are distinct among all that binds one on the edge;
  `PrivateStaysPrivate`; `AdmittedIsTested`, in which the age of a canary is bounded by that of the oldest
  one, the receipt's age by the tolerance; and `SlowAnswerIsStale`: the clock is read before two
  fetches that may take thirty seconds and compared with a tolerance of five.

The inductive invariants were checked with TLC on the instances of the runs before they
were proved, except `PastInv`, which speaks of all functions. That the hypotheses of the theorems about admission can be met was checked with TLC on one accepted
manifest and one admissible node at the edge of its tolerance.

The types and some smaller facts (`LeaseTypeOK`, `LeaseMatchesHandle`, `PermitTypeOK`, `IssuedOnce`,
`AuthorizationSpent`, `GatewayTypeOK`) are parts of the proved invariants and have no run of their own.

Model-checked only: the liveness properties (`StaleLeaseReclaimed`, `NobodyIsLockedOut`,
`EveryoneAnswered`, `CancellationArrives`, `CloseEnds`), which are out of the prover's
reach. Every other property of a passing run is a theorem.

## 5. Simplifications

* Users, groups, modes, symbolic links and the canonical form of paths are checked
  by the code at each step and left out: the models assume that nothing but this
  code writes below the private directories.
* The lease's own fsyncs are left out: after a power failure every recorded owner
  is dead, and a lease that is missing, complete or incomplete is treated as such.
* JSON, schemas, digests and timestamps are left out; a record is what its
  validation tells apart.
* `FileStopPermitStore.open`, `inspect` and `inspectRolloutJournal` change nothing
  that the models keep.
* In `TokenLock` all processes are on one host with `/proc`, so that
  `lockOwnerIsAlive` answers exactly; for an owner on another host it answers
  neither, as for a file that names nobody. The inode of a marker, which
  `reapLock` compares before it removes it, is its reaper.
* In `TokenStore` digest, set, scope and expiry of a token are part of its record,
  looked up at the same moment; a fingerprint is the number of a version. Calls that
  `#serialize` has queued begin in any order. A store without a file is left out: it has
  one instance and no refresh. `list` only reads.
* In `Gateway` the decision of host, method, path and scope is a constant of a request; a
  connection carries one request; back-pressure between the two sockets, headers and the
  text of errors are left out.
* Process start ticks identify an instance. After a reboot they count from zero
  again; an instance with the same number and ticks as one before the power failure
  would be taken for it, by the code too.
* In `PortRedirect` a rule is what the helper can prove of it; the check of a batch is part of its
  application. The runtime directory is there: that systemd makes it anew, with another
  `operation.lock`, while a helper still runs by hand, is left out.
* In `NpmRelease` writing the three files back does not fail, and nobody works in a clone while the
  helper runs there (CONTRIBUTING.md 19-40 asks for a clean worktree).
* In `Bootstrap` a copy beside its target and the `mv` are one step.
* `Manifest` takes hosts, paths and methods as normalised and listeners as ports: the code accepts
  127.0.0.1 with an explicit port only.

**Not modelled.** The rollout contract, the doctor, the SSH and Caddy renderers, the validation
helpers and the command line: they have no state and no order of events, turn values into text or
verdicts, and what matters about them (quoting, spelling, wording) is what a model leaves out.
`atomicWrite` of `state.js` has no reader or second writer that runs beside it. The units of systemd
are text. The bodies that proxies carry, back-pressure and pipelining are left out of `Gateway`.

## 6. Plan

The components with state are modelled, and their safety properties are proved. To follow, in
this order:

1. `Relay`: an edge and a worker in a row, the client of the one being the upstream of
   the other: cancellation, oversized bodies and shutdown across both.
2. Theorems that join modules which are now joined by what their constants mean: the ports of
   `PortRedirect` and the services of `Gateway` as those of an accepted `Manifest`.
3. `TokenStore` over `SerialStore` instead of a lock variable of its own, as `RolloutJournal` is
   over `ExclusiveLease`.
4. The two hazards of the journal that no property covers (`rollout-journal.js` 1162, 1172): a
   creation or an opening that fails half-way, and what a reader may see that is not durable.
