---------------------------- MODULE TokenStore ----------------------------
(***************************************************************************)
(* The class TokenStore of src/token-store.js: the instances of several    *)
(* processes, each with a cache of the records, over one file of tokens.   *)
(*                                                                         *)
(* An action is what an instance does from one await of the file system to *)
(* the next.  The event loop runs it, with everything that waits for the   *)
(* same promise, before it turns to anything else.                         *)
(*                                                                         *)
(* The lock is a variable here, what TokenLock shows of it: one holder at  *)
(* a time, or a timeout.                                                   *)
(*                                                                         *)
(* Simplifications.  A token is its record: digest, set, scope and expiry  *)
(* are looked up in it at the same moment.  A fingerprint is the number of *)
(* the version that the file has, 0 without a file.  Time is counted in    *)
(* units that divide STORE_REFRESH_INTERVAL_MS.                            *)
(***************************************************************************)
EXTENDS Naturals, FiniteSets

CONSTANTS Store,       \* the instances of TokenStore, in as many processes
          Token,
          Stored,      \* the tokens that are in the file at the beginning
          Verify,      \* calls of verify
          Issue,       \* calls of issue
          Revoke,      \* calls of revoke
          At,          \* At[c]: the instance whose method call c is
          Of,          \* Of[c]: the token that call c is about
          Interval,    \* STORE_REFRESH_INTERVAL_MS
          MaxWaiters,  \* STORE_REFRESH_MAX_WAITERS
          MayFail,     \* the stages that may fail
          Prompt,      \* a refresh takes no more than an interval
          MaxTime,     \* bound on time
          Nobody

Mutation == Issue \cup Revoke
Stages == {"refresh", "lock", "reload", "persist", "release"}

ASSUME StoreConstants ==
    /\ Stored \subseteq Token
    /\ Verify \cap Mutation = {} /\ Issue \cap Revoke = {}
    /\ At \in [Verify \cup Mutation -> Store]
    /\ Of \in [Verify \cup Mutation -> Token]
    /\ Interval \in Nat \ {0} /\ MaxWaiters \in Nat /\ MaxTime \in Nat
    /\ MayFail \subseteq Stages
    /\ Prompt \in BOOLEAN
    /\ Nobody \notin Mutation

\* A token is drawn at random by the call that issues it.
ASSUME FreshTokens ==
    \A m \in Issue : /\ Of[m] \notin Stored
                     /\ \A n \in Issue \ {m} : Of[n] # Of[m]

VARIABLES
    file,       \* the records that the file holds
    version,    \* its fingerprint
    lock,       \* the mutation that holds the lock
    records,    \* records[p]: this.records
    known,      \* known[p]: this.fingerprint
    next,       \* next[p]: this.nextRefreshAt
    waiters,    \* waiters[p]: this.refreshWaiters
    refresh,    \* refresh[p]: where the refresh in flight is
    snap,       \* snap[p]: what readStoreSnapshot has opened
    mutating,   \* mutating[p]: the mutation under way
    call,       \* call[c]: where a call is or how it has ended
    now,
    born,       \* born[v]: when a verification began, and whether its own
                \* instance had acknowledged the revocation by then
    acked       \* acked[t]: when the revocation of t was first acknowledged

vars == <<file, version, lock, records, known, next, waiters, refresh, snap, mutating, call,
          now, born, acked>>
disk == <<file, version>>
cache == <<records, known>>
reading == <<waiters, refresh, snap>>
ghosts == <<born, acked>>

Status == {"absent", "valid", "revoked"}
Empty == [t \in Token |-> "absent"]
NoSnapshot == [records |-> Empty, version |-> 0]
Never == MaxTime + 1

VerifyStage == {"idle", "refreshing", "waiting", "accepted", "denied", "failed"}
MutationStage == {"idle", "settling", "locking", "reloading", "renaming", "syncing",
                  "changed", "unchanged", "broken", "unread", "done", "none", "failed",
                  "missed"}

\* Calls of verify that wait for the refresh of p.
Waiting(p) == {v \in Verify : At[v] = p /\ call[v] \in {"refreshing", "waiting"}}

(***************************************************************************)
(* verify and #refreshIfDue                                                *)
(***************************************************************************)
Verdict(recs, v) == IF recs[Of[v]] = "valid" THEN "accepted" ELSE "denied"

OwnRevoked(p, t) == \E m \in Revoke : At[m] = p /\ Of[m] = t /\ call[m] = "done"

Full(p) == waiters[p] >= MaxWaiters

\* verify, up to its first await or its end, while no mutation is under way.
LookUp(v, p) ==
    \/ /\ refresh[p] # "none" /\ Full(p)
       /\ call' = [call EXCEPT ![v] = "denied"]
       /\ UNCHANGED <<next, refresh, waiters>>
    \/ /\ refresh[p] # "none" /\ ~Full(p)
       /\ call' = [call EXCEPT ![v] = "waiting"]
       /\ waiters' = [waiters EXCEPT ![p] = @ + 1]
       /\ UNCHANGED <<next, refresh>>
    \/ /\ refresh[p] = "none" /\ now < next[p]
       /\ call' = [call EXCEPT ![v] = Verdict(records[p], v)]
       /\ UNCHANGED <<next, refresh, waiters>>
    \/ /\ refresh[p] = "none" /\ now >= next[p]
       /\ call' = [call EXCEPT ![v] = "refreshing"]
       /\ next' = [next EXCEPT ![p] = now + Interval]
       /\ refresh' = [refresh EXCEPT ![p] = "inspect"]
       /\ UNCHANGED waiters

\* A call of verify with a token of valid shape.
BeginVerify(v) ==
    /\ call[v] = "idle"
    /\ born' = [born EXCEPT ![v] = [time |-> now, own |-> OwnRevoked(At[v], Of[v])]]
    /\ \/ /\ mutating[At[v]] # Nobody
          /\ call' = [call EXCEPT ![v] = "denied"]
          /\ UNCHANGED <<next, refresh, waiters>>
       \/ /\ mutating[At[v]] = Nobody
          /\ LookUp(v, At[v])
    /\ UNCHANGED <<disk, lock, cache, snap, mutating, now, acked>>

\* inspectStoreFingerprint looks at the file.
Inspect(p) ==
    /\ refresh[p] = "inspect"
    /\ refresh' = [refresh EXCEPT ![p] = IF version = known[p] THEN "same" ELSE "open"]
    /\ UNCHANGED <<disk, lock, cache, next, waiters, snap, mutating, call, now, ghosts>>

\* readStoreSnapshot opens the file; what it has opened does not change any more.
OpenSnapshot(p) ==
    /\ refresh[p] = "open"
    /\ snap' = [snap EXCEPT ![p] = [records |-> file, version |-> version]]
    /\ refresh' = [refresh EXCEPT ![p] = "read"]
    /\ UNCHANGED <<disk, lock, cache, next, waiters, mutating, call, now, ghosts>>

\* How many decrement the counter.
Leaving(p) == Cardinality({v \in Waiting(p) : call[v] = "waiting"})

\* The refresh is over, and so is the wait of all who waited for it.
Settled(p, recs, fp, verdict) ==
    /\ records' = [records EXCEPT ![p] = recs]
    /\ known' = [known EXCEPT ![p] = fp]
    /\ call' = [c \in DOMAIN call |-> IF c \in Waiting(p) THEN verdict[c] ELSE call[c]]
    /\ waiters' = [waiters EXCEPT ![p] = @ - Leaving(p)]
    /\ refresh' = [refresh EXCEPT ![p] = "none"]
    /\ snap' = [snap EXCEPT ![p] = NoSnapshot]
    /\ UNCHANGED <<disk, lock, next, mutating, now, ghosts>>

RefreshEnds(p) ==
    \/ /\ refresh[p] = "same"
       /\ Settled(p, records[p], known[p], [v \in Verify |-> Verdict(records[p], v)])
    \/ /\ refresh[p] = "read"
       /\ Settled(p, snap[p].records, snap[p].version,
                  [v \in Verify |-> Verdict(snap[p].records, v)])

\* Mutant: a refresh that fails leaves the records as they are.
RefreshFailsOpen(p) ==
    /\ "refresh" \in MayFail
    /\ refresh[p] \in {"inspect", "open", "read"}
    /\ Settled(p, records[p], known[p], [v \in Verify |-> Verdict(records[p], v)])

\* Mutant: nobody but the call that began the refresh hears of its failure.
RefreshFailsAlone(p) ==
    /\ "refresh" \in MayFail
    /\ refresh[p] \in {"inspect", "open", "read"}
    /\ Settled(p, Empty, 0, [v \in Verify |-> IF call[v] = "refreshing" THEN "failed" ELSE call[v]])

\* A refresh that fails forgets the records and fails all who waited.
RefreshFails(p) ==
    /\ "refresh" \in MayFail
    /\ refresh[p] \in {"inspect", "open", "read"}
    /\ Settled(p, Empty, 0, [v \in Verify |-> "failed"])

(***************************************************************************)
(* issue and revoke: #mutate                                               *)
(***************************************************************************)
\* #serialize: one mutation of an instance at a time.
BeginMutation(m) ==
    /\ call[m] = "idle"
    /\ mutating[At[m]] = Nobody
    /\ mutating' = [mutating EXCEPT ![At[m]] = m]
    /\ call' = [call EXCEPT ![m] = "settling"]
    /\ UNCHANGED <<disk, lock, cache, next, reading, now, ghosts>>

\* Mutant: a mutation does not wait for a refresh in flight.
Overtake(m) ==
    /\ call[m] = "settling"
    /\ call' = [call EXCEPT ![m] = "locking"]
    /\ UNCHANGED <<disk, lock, cache, next, reading, mutating, now, ghosts>>

\* A refresh in flight is waited for; its failure does not matter.
Settle(m) ==
    /\ call[m] = "settling"
    /\ refresh[At[m]] = "none"
    /\ call' = [call EXCEPT ![m] = "locking"]
    /\ UNCHANGED <<disk, lock, cache, next, reading, mutating, now, ghosts>>

\* acquireLock
Acquire(m) ==
    /\ call[m] = "locking"
    /\ lock = Nobody
    /\ lock' = m
    /\ call' = [call EXCEPT ![m] = "reloading"]
    /\ UNCHANGED <<disk, cache, next, reading, mutating, now, ghosts>>

\* The finally block of #mutate.
Unmutate(m) ==
    /\ next' = [next EXCEPT ![At[m]] = now + Interval]
    /\ mutating' = [mutating EXCEPT ![At[m]] = Nobody]

\* acquireLock gives up at its deadline, or fails.
LockFails(m) ==
    /\ "lock" \in MayFail
    /\ call[m] = "locking"
    /\ call' = [call EXCEPT ![m] = "missed"]
    /\ Unmutate(m)
    /\ UNCHANGED <<disk, lock, cache, reading, now, ghosts>>

\* Does call m have something to do in these records?
Applies(m, recs) == m \in Issue \/ recs[Of[m]] = "valid"

Applied(m, recs) == [recs EXCEPT ![Of[m]] = IF m \in Issue THEN "valid" ELSE "revoked"]

\* What the catch blocks of issue and revoke make of it.
Undone(m, recs) == [recs EXCEPT ![Of[m]] = IF m \in Issue THEN "absent" ELSE "valid"]

\* Mutant: the mutation is applied to the records in the cache.
ReloadNothing(m) ==
    /\ call[m] = "reloading"
    /\ LET p == At[m]
       IN IF Applies(m, records[p])
          THEN /\ records' = [records EXCEPT ![p] = Applied(m, @)]
               /\ call' = [call EXCEPT ![m] = "renaming"]
          ELSE UNCHANGED records /\ call' = [call EXCEPT ![m] = "unchanged"]
    /\ UNCHANGED <<disk, lock, known, next, reading, mutating, now, ghosts>>

\* #reload under the lock, and the operation up to #persist.
Reload(m) ==
    /\ call[m] = "reloading"
    /\ known' = [known EXCEPT ![At[m]] = version]
    /\ IF Applies(m, file)
       THEN /\ records' = [records EXCEPT ![At[m]] = Applied(m, file)]
            /\ call' = [call EXCEPT ![m] = "renaming"]
       ELSE /\ records' = [records EXCEPT ![At[m]] = file]
            /\ call' = [call EXCEPT ![m] = "unchanged"]
    /\ UNCHANGED <<disk, lock, next, reading, mutating, now, ghosts>>

ReloadFails(m) ==
    /\ "reload" \in MayFail
    /\ call[m] = "reloading"
    /\ call' = [call EXCEPT ![m] = "unread"]
    /\ UNCHANGED <<disk, lock, cache, next, reading, mutating, now, ghosts>>

\* #persist: the records of the instance become the file.
Rename(m) ==
    /\ call[m] = "renaming"
    /\ file' = records[At[m]]
    /\ version' = version + 1
    /\ call' = [call EXCEPT ![m] = "syncing"]
    /\ UNCHANGED <<lock, cache, next, reading, mutating, now, ghosts>>

\* The directory is synchronised and the new fingerprint taken.
Sync(m) ==
    /\ call[m] = "syncing"
    /\ known' = [known EXCEPT ![At[m]] = version]
    /\ call' = [call EXCEPT ![m] = "changed"]
    /\ UNCHANGED <<disk, lock, records, next, reading, mutating, now, ghosts>>

\* Mutant: what has not been persisted stays in the records.
PersistFailsKept(m) ==
    /\ "persist" \in MayFail
    /\ call[m] \in {"renaming", "syncing"}
    /\ call' = [call EXCEPT ![m] = "broken"]
    /\ UNCHANGED <<disk, lock, cache, next, reading, mutating, now, ghosts>>

PersistFails(m) ==
    /\ "persist" \in MayFail
    /\ call[m] \in {"renaming", "syncing"}
    /\ records' = [records EXCEPT ![At[m]] = Undone(m, @)]
    /\ call' = [call EXCEPT ![m] = "broken"]
    /\ UNCHANGED <<disk, lock, known, next, reading, mutating, now, ghosts>>

\* The lock is released, and the call returns or throws.
Release(m) ==
    /\ call[m] \in {"changed", "unchanged", "broken", "unread"}
    /\ Unmutate(m)
    /\ \/ /\ call[m] = "changed" /\ lock' = Nobody
          /\ call' = [call EXCEPT ![m] = "done"]
          /\ acked' = IF m \in Revoke /\ acked[Of[m]] = Never
                      THEN [acked EXCEPT ![Of[m]] = now] ELSE acked
       \/ /\ call[m] = "unchanged" /\ lock' = Nobody
          /\ call' = [call EXCEPT ![m] = "none"]
          /\ UNCHANGED acked
       \/ /\ call[m] = "broken" /\ lock' = Nobody
          /\ call' = [call EXCEPT ![m] = "failed"]
          /\ UNCHANGED acked
       \/ /\ call[m] = "unread" /\ lock' = Nobody
          /\ call' = [call EXCEPT ![m] = "missed"]
          /\ UNCHANGED acked
       \/ /\ "release" \in MayFail /\ lock' \in {lock, Nobody}
          /\ call' = [call EXCEPT ![m] = IF @ = "unread" THEN "missed" ELSE "failed"]
          /\ UNCHANGED acked
    /\ UNCHANGED <<disk, cache, reading, now, born>>

(***************************************************************************)
(* Time                                                                    *)
(***************************************************************************)
Tick ==
    /\ now < MaxTime
    /\ Prompt => \A p \in Store : refresh[p] # "none" => now < next[p]
    /\ now' = now + 1
    /\ UNCHANGED <<disk, lock, cache, next, reading, mutating, call, ghosts>>

-----------------------------------------------------------------------------
\* Every instance has just been opened; an empty store has no file.
Init ==
    /\ file = [t \in Token |-> IF t \in Stored THEN "valid" ELSE "absent"]
    /\ version = IF Stored = {} THEN 0 ELSE 1
    /\ lock = Nobody
    /\ records = [p \in Store |-> file]
    /\ known = [p \in Store |-> version]
    /\ next = [p \in Store |-> Interval]
    /\ waiters = [p \in Store |-> 0]
    /\ refresh = [p \in Store |-> "none"]
    /\ snap = [p \in Store |-> NoSnapshot]
    /\ mutating = [p \in Store |-> Nobody]
    /\ call = [c \in Verify \cup Mutation |-> "idle"]
    /\ now = 0
    /\ born = [v \in Verify |-> [time |-> 0, own |-> FALSE]]
    /\ acked = [t \in Token |-> Never]

Refreshing(p) == Inspect(p) \/ OpenSnapshot(p) \/ RefreshEnds(p) \/ RefreshFails(p)

Progress(m) ==
    \/ Settle(m) \/ Acquire(m) \/ LockFails(m)
    \/ Reload(m) \/ ReloadFails(m) \/ Rename(m) \/ Sync(m) \/ PersistFails(m) \/ Release(m)

Next ==
    \/ \E v \in Verify : BeginVerify(v)
    \/ \E p \in Store : Refreshing(p)
    \/ \E m \in Mutation : BeginMutation(m) \/ Progress(m)
    \/ Tick

Spec == Init /\ [][Next]_vars

-----------------------------------------------------------------------------
(***************************************************************************)
(* Properties                                                              *)
(***************************************************************************)
Records == [Token -> Status]

\* A cache whose fingerprint is that of the file holds what the file holds, whatever
\* failed on the way: otherwise no refresh would ever correct it.
CacheHonest ==
    \A p \in Store : mutating[p] = Nobody /\ known[p] = version => records[p] = file

\* Test: "an issue and revoke from pre-opened child processes merge under one lock".
\* What a call has acknowledged is in the file and stays there, whatever other
\* instances write over it.
AckedStays ==
    /\ \A t \in Token : acked[t] # Never => file[t] = "revoked"
    /\ \A m \in Issue : call[m] = "done" => file[Of[m]] # "absent"

\* A mutation of the instance has ended without the lock, or without reading the
\* file: it has postponed the next refresh and knows nothing new.
Missed(p) == \E m \in Mutation : At[m] = p /\ call[m] = "missed"

\* Test: "a concurrent verification burst cannot bypass an external revoke".  A
\* verification that begins more than an interval after a revocation was
\* acknowledged, by any instance, does not accept the token, unless a mutation of
\* its own instance has missed the file.
NoBypass ==
    \A v \in Verify : call[v] = "accepted" =>
        born[v].time <= acked[Of[v]] + Interval \/ Missed(At[v])

\* An instance honours its own revocations from the moment it acknowledges them,
\* also when an older refresh ends later or later ones fail.
OwnRevocationHolds == \A v \in Verify : born[v].own => call[v] # "accepted"

\* Test: "valid-shaped floods coalesce refresh".  No more than MaxWaiters calls
\* wait for the refresh in flight, besides the one that began it, and the counter
\* does not drift; nobody waits, or is counted, when no refresh is in flight.
WaitersBounded ==
    \A p \in Store :
        /\ waiters[p] = Cardinality({v \in Waiting(p) : call[v] = "waiting"})
        /\ waiters[p] <= IF refresh[p] = "none" THEN 0 ELSE MaxWaiters
        /\ Cardinality({v \in Waiting(p) : call[v] = "refreshing"})
               = IF refresh[p] = "none" THEN 0 ELSE 1
=============================================================================
