----------------------------- MODULE ScriptProofs -----------------------------
(***************************************************************************)
(* The safety of the release script (NpmRelease), for any clones, versions *)
(* and bounds, and of the bootstrap script (Bootstrap), for any contents   *)
(* of its two files: two programs that change what is there command by     *)
(* command and undo it when one fails.                                     *)
(*                                                                         *)
(* NpmInv.  Knows is what the release script may rely on at each command,  *)
(* TagInv that a tag, wherever it is, names a release commit of its        *)
(* version.  History is recursive over parents; that there is one such     *)
(* function for the commits of a state, and that it is transitive, is part *)
(* of the invariant (PastInv), as each new commit keeps it so.             *)
(***************************************************************************)
EXTENDS NpmRelease, SequenceTheorems, TLAPS

\* The constants and variables of the bootstrap script; at, runs and MaxRuns serve both.
CONSTANTS Content, Valid
VARIABLES keys, include, loaded, stage, flag, before, status

Boot == INSTANCE Bootstrap

FileSet == [package : Version, lock : Version, citation : Version]
CommitSet == [files : FileSet, parent : Nat, release : BOOLEAN]
JobSet == [target : Version, recovery : BOOLEAN, dry : BOOLEAN, existing : BOOLEAN,
           original : FileSet]
Making == {"package", "citation", "lock", "check"}
Made == {"publish", "verify", "push", "retry"}
Command == Ended \cup Making \cup Made \cup {"view", "test", "commit", "tag"}

TypeInv ==
    /\ commits \in Seq(CommitSet)
    /\ head \in [Clone -> 1 .. Len(commits)]
    /\ tree \in [Clone -> FileSet]
    /\ tags \in [Clone -> [Version -> 0 .. Len(commits)]]
    /\ origin \in [main : 1 .. Len(commits), tags : [Version -> 0 .. Len(commits)]]
    /\ registry \in [Version -> [commit : 0 .. Len(commits), by : Clone \cup {Nobody}]]
    /\ at \in [Clone -> Command]
    /\ job \in [Clone -> JobSet]

(***************************************************************************)
(* The history of a commit                                                 *)
(***************************************************************************)
\* f gives each commit itself and those before it.
IsPast(f, cs) == f = [i \in 0 .. Len(cs) |-> IF i = 0 THEN {} ELSE {i} \cup f[cs[i].parent]]
Past(cs) == CHOOSE f : IsPast(f, cs)

\* There is one such function, whatever has been committed, and it is transitive.
\* No induction over commits is needed: every Append keeps this.
PastInv(cs) ==
    /\ \A i \in 1 .. Len(cs) : cs[i].parent \in 0 .. i - 1
    /\ \E f : IsPast(f, cs)
    /\ \A f, g : IsPast(f, cs) /\ IsPast(g, cs) => f = g
    /\ \A a, b \in 0 .. Len(cs) : a \in Past(cs)[b] => Past(cs)[a] \subseteq Past(cs)[b]
    /\ \A b \in 0 .. Len(cs) : Past(cs)[b] \subseteq 0 .. b

LEMMA HistoryIsPast == \A k : History(k) = Past(commits)[k]
BY DEF History, Past, IsPast

LEMMA PastEquations ==
    ASSUME NEW cs \in Seq(CommitSet), PastInv(cs)
    PROVE  /\ IsPast(Past(cs), cs)
           /\ Past(cs)[0] = {}
           /\ \A i \in 1 .. Len(cs) : Past(cs)[i] = {i} \cup Past(cs)[cs[i].parent]
<1>1. IsPast(Past(cs), cs)
    BY DEF PastInv, Past
<1> DEFINE f == Past(cs)
<1>2. f = [i \in 0 .. Len(cs) |-> IF i = 0 THEN {} ELSE {i} \cup f[cs[i].parent]]
    BY <1>1 DEF IsPast
<1> HIDE DEF f
<1>3. Len(cs) \in Nat
    OBVIOUS
<1>4. f[0] = {} /\ \A i \in 1 .. Len(cs) : f[i] = {i} \cup f[cs[i].parent]
    BY <1>2, <1>3
<1> QED
    BY <1>1, <1>4 DEF f

LEMMA PastGrows ==
    ASSUME NEW cs \in Seq(CommitSet), PastInv(cs), NEW x \in CommitSet, x.parent \in 1 .. Len(cs)
    PROVE  /\ PastInv(Append(cs, x))
           /\ \A k \in 0 .. Len(cs) : Past(Append(cs, x))[k] = Past(cs)[k]
           /\ Past(Append(cs, x))[Len(cs) + 1] = {Len(cs) + 1} \cup Past(cs)[x.parent]
<1> DEFINE ds == Append(cs, x)
           n == Len(cs)
           old == Past(cs)
           new == [i \in 0 .. n + 1 |-> IF i = n + 1 THEN {i} \cup old[x.parent] ELSE old[i]]
<1>1. /\ n \in Nat /\ Len(ds) = n + 1 /\ ds[n + 1] = x /\ ds \in Seq(CommitSet)
      /\ \A i \in 1 .. n : ds[i] = cs[i]
    OBVIOUS
<1>2. \A i \in 1 .. n + 1 : ds[i].parent \in 0 .. i - 1
    BY <1>1 DEF PastInv
<1>3. old[0] = {} /\ \A i \in 1 .. n : old[i] = {i} \cup old[cs[i].parent]
    BY PastEquations
<1> HIDE DEF ds, old
<1>4. \A i \in 0 .. n + 1 : new[i] = IF i = 0 THEN {} ELSE {i} \cup new[ds[i].parent]
  <2> TAKE i \in 0 .. n + 1
  <2>1. CASE i = 0
    BY <1>1, <1>3, <2>1
  <2>2. CASE i \in 1 .. n
    <3>1. new[i] = old[i] /\ old[i] = {i} \cup old[cs[i].parent] /\ ds[i] = cs[i]
      BY <1>1, <1>3, <2>2
    <3>2. ds[i].parent \in 0 .. n
      BY <1>1, <1>2, <2>2
    <3>3. new[ds[i].parent] = old[ds[i].parent]
      BY <1>1, <3>2
    <3> HIDE DEF new
    <3> QED
      BY <2>2, <3>1, <3>3
  <2>3. CASE i = n + 1
    BY <1>1, <2>3
  <2> QED
    BY <1>1, <2>1, <2>2, <2>3
<1>5. IsPast(new, ds)
    BY <1>1, <1>4 DEF IsPast
<1>6. ASSUME NEW f, IsPast(f, ds) PROVE f = new
  <2>1. f = [i \in 0 .. n + 1 |-> IF i = 0 THEN {} ELSE {i} \cup f[ds[i].parent]]
    BY <1>1, <1>6 DEF IsPast
  <2> DEFINE g == [i \in 0 .. n |-> f[i]]
  <2>2. \A i \in 0 .. n : g[i] = IF i = 0 THEN {} ELSE {i} \cup g[cs[i].parent]
    <3> TAKE i \in 0 .. n
    <3>1. i \in 0 .. n + 1 /\ f[i] = IF i = 0 THEN {} ELSE {i} \cup f[ds[i].parent]
      BY <1>1, <2>1
    <3>2. i # 0 => ds[i] = cs[i] /\ ds[i].parent \in 0 .. n
      BY <1>1, <1>2
    <3> QED
      BY <3>1, <3>2
  <2>3. IsPast(g, cs)
    BY <2>2 DEF IsPast
  <2>4. g = old
    BY <2>3, PastEquations DEF PastInv, old
  <2>5. \A i \in 0 .. n : f[i] = old[i]
    BY <2>4
  <2>6. f[n + 1] = {n + 1} \cup f[x.parent]
    BY <1>1, <2>1
  <2>7. f[n + 1] = {n + 1} \cup old[x.parent]
    BY <1>1, <2>5, <2>6
  <2>8. \A i \in 0 .. n + 1 : f[i] = IF i = n + 1 THEN {i} \cup old[x.parent] ELSE old[i]
    <3> TAKE i \in 0 .. n + 1
    <3>1. i \in 0 .. n \/ i = n + 1
      BY <1>1
    <3>2. CASE i \in 0 .. n
      BY <1>1, <2>5, <3>2
    <3>3. CASE i = n + 1
      BY <2>7, <3>3
    <3> QED
      BY <3>1, <3>2, <3>3
  <2>9. f = [i \in 0 .. n + 1 |-> f[i]]
    BY <2>1
  <2> QED
    BY <2>8, <2>9
<1>7. Past(ds) = new
    BY <1>5, <1>6 DEF Past
<1>8. \A b \in 0 .. n + 1 : new[b] \subseteq 0 .. b
    BY <1>1 DEF PastInv, old
<1>9. ASSUME NEW a \in 0 .. n + 1, NEW b \in 0 .. n + 1, a \in new[b] PROVE new[a] \subseteq new[b]
    BY <1>1, <1>8, <1>9 DEF PastInv, old
<1>10. PastInv(ds)
    BY <1>1, <1>2, <1>5, <1>6, <1>7, <1>8, <1>9 DEF PastInv
<1> QED
    BY <1>1, <1>7, <1>10 DEF ds, old

-----------------------------------------------------------------------------
(***************************************************************************)
(* The release helper                                                      *)
(***************************************************************************)
ReleaseOf(k, v) == commits[k].release /\ commits[k].files = Files(v)

\* A tag, here or on the remote, names a release commit of its version.
TagInv ==
    /\ \A c \in Clone, v \in Version : tags[c][v] # 0 => ReleaseOf(tags[c][v], v)
    /\ \A v \in Version : origin.tags[v] # 0 => ReleaseOf(origin.tags[v], v) /\ v \in shown
    /\ PublishedIsTagged

\* What the helper knows at each of its commands.
Knows(c) ==
    LET v == job[c].target IN
    /\ at[c] \in {"view", "test", "package", "failed"} => Clean(c)
    /\ at[c] \in {"view", "test"} /\ job[c].recovery => tree[c] = Files(v) /\ tags[c][v] = head[c]
    /\ at[c] = "test" => job[c].dry \/ job[c].recovery
    /\ at[c] \in {"view"} \cup Making => job[c].original = commits[head[c]].files
    /\ at[c] \in {"citation", "lock", "check", "commit"} => tree[c].package = v
    /\ at[c] \in {"lock", "check", "commit"} => tree[c].citation = v
    /\ at[c] \in {"check", "commit"} => tree[c].lock = v
    /\ at[c] = "tag" => tree[c] = Files(v) /\ ReleaseOf(head[c], v)
    /\ at[c] \in Made => tree[c] = Files(v) /\ tags[c][v] = head[c]
    /\ at[c] = "push" => v \in shown

RunInv == \A c \in Clone : Knows(c)

NpmInv == TypeInv /\ PastInv(commits) /\ TagInv /\ RunInv /\ PushedOnMain

\* Files that are all of one version.
LEMMA SameFiles ==
    /\ \A v \in Version : Files(v) \in FileSet
    /\ \A f \in FileSet : Consistent(f) => f = Files(f.package)
    /\ \A f \in FileSet, v \in Version : f.package = v /\ f.lock = v /\ f.citation = v => f = Files(v)
BY DEF Files, FileSet, Consistent

\* What a clone does with its commits.
Commits(c) ==
    \E x \in CommitSet : /\ x.parent = head[c]
                         /\ commits' = Append(commits, x)
                         /\ head' = [head EXCEPT ![c] = Len(commits) + 1]

LEMMA TypeStep ==
    ASSUME TypeInv, [Next]_vars
    PROVE  TypeInv'
<1> USE DEF TypeInv
<1>0. Len(commits) \in Nat /\ \A k \in 1 .. Len(commits) : commits[k] \in CommitSet
    OBVIOUS
<1>1. CASE UNCHANGED vars
    BY <1>1 DEF vars
<1>2. ASSUME NEW v \in Version, Show(v) PROVE TypeInv'
    BY <1>2 DEF Show, local, bounds
<1>3. ASSUME NEW c \in Clone, Commit(c) \/ UserCommit(c) PROVE TypeInv'
  <2>1. PICK x : /\ commits' = Append(commits, x) /\ x \in CommitSet
                 /\ head' = [head EXCEPT ![c] = Len(commits')]
    <3>1. [files |-> tree[c], parent |-> head[c], release |-> TRUE] \in CommitSet
      BY <1>0 DEF CommitSet
    <3>2. [files |-> tree[c], parent |-> head[c], release |-> FALSE] \in CommitSet
      BY <1>0 DEF CommitSet
    <3> QED
      BY <1>3, <3>1, <3>2 DEF Commit, UserCommit
  <2>2. commits' \in Seq(CommitSet) /\ Len(commits') = Len(commits) + 1
    BY <2>1
  <2>3. 1 .. Len(commits) \subseteq 1 .. Len(commits') /\ 0 .. Len(commits) \subseteq 0 .. Len(commits')
        /\ Len(commits') \in 1 .. Len(commits')
    BY <1>0, <2>2
  <2>4. UNCHANGED <<tree, tags, origin, registry, job>> /\ at' \in [Clone -> Command]
    BY <1>3 DEF Commit, UserCommit, Keep, GoOn, Change, remote, Command, Ended
  <2>5. head' \in [Clone -> 1 .. Len(commits')]
    BY <2>1, <2>3
  <2>6. tags \in [Clone -> [Version -> 0 .. Len(commits')]]
    BY <2>3
  <2>7. origin \in [main : 1 .. Len(commits'), tags : [Version -> 0 .. Len(commits')]]
    BY <2>3
  <2>8. registry \in [Version -> [commit : 0 .. Len(commits'), by : Clone \cup {Nobody}]]
    BY <2>3
  <2> QED
    BY <2>2, <2>4, <2>5, <2>6, <2>7, <2>8
<1>4. ASSUME NEW c \in Clone, Fetch(c) PROVE TypeInv'
  <2>1. commits[origin.main] \in CommitSet
    BY <1>0
  <2>2. tags' \in [Clone -> [Version -> 0 .. Len(commits)]]
    BY <1>4 DEF Fetch
  <2> QED
    BY <1>4, <2>1, <2>2 DEF Fetch, Change, remote, GoOn, Command, Ended, CommitSet
<1>5. ASSUME NEW c \in Clone, View(c) \/ Test(c) \/ Edit(c, "package", "citation") \/ Edit(c, "citation", "lock")
                              \/ Edit(c, "lock", "check") \/ Check(c) \/ Verify(c) \/ Fail(c) \/ Kill(c)
                              \/ Discard(c)
      PROVE TypeInv'
  <2>1. UNCHANGED <<commits, head, tags, origin, registry>>
    BY <1>5 DEF View, Test, Edit, Check, Verify, Fail, Kill, Discard, Change, local, remote
  <2>2. at' \in [Clone -> Command]
    BY <1>5 DEF View, Test, Edit, Check, Verify, Fail, Kill, Discard, Change, GoOn, Command, Ended, Making, Made
  <2>3. job' \in [Clone -> JobSet]
    <3>1. CASE job' = job
      BY <3>1
    <3>2. CASE View(c)
      <4> DEFINE j == [job[c] EXCEPT !.existing = job[c].target \in shown]
      <4>1. j \in JobSet
        <5>1. \A b \in BOOLEAN : [job[c] EXCEPT !.existing = b] \in JobSet
          BY DEF JobSet
        <5>2. (job[c].target \in shown) \in BOOLEAN
          OBVIOUS
        <5> QED
          BY <5>1, <5>2, Zenon
      <4>2. job' = [job EXCEPT ![c] = j]
        BY <3>2 DEF View
      <4> HIDE DEF j
      <4> QED
        BY <4>1, <4>2
    <3> QED
      BY <1>5, <3>1, <3>2 DEF Test, Edit, Check, Verify, Fail, Kill, Discard, Change, Keep
  <2>4. tree' \in [Clone -> FileSet]
    <3>1. CASE tree' = tree
      BY <3>1
    <3>2. ASSUME NEW f \in FileSet, tree' = [tree EXCEPT ![c] = f] PROVE tree' \in [Clone -> FileSet]
      BY <3>2
    <3>3. \A v \in Version : /\ [tree[c] EXCEPT !.package = v] \in FileSet
                             /\ [tree[c] EXCEPT !.citation = v] \in FileSet
                             /\ [tree[c] EXCEPT !.lock = v] \in FileSet
      BY DEF FileSet
    <3>4. job[c].target \in Version /\ job[c].original \in FileSet /\ commits[head[c]].files \in FileSet
      BY <1>0 DEF JobSet, CommitSet
    <3>5. CASE Edit(c, "package", "citation")
      BY <3>2, <3>3, <3>4, <3>5 DEF Edit
    <3>6. CASE Edit(c, "citation", "lock")
      BY <3>2, <3>3, <3>4, <3>6 DEF Edit
    <3>7. CASE Edit(c, "lock", "check")
      BY <3>2, <3>3, <3>4, <3>7 DEF Edit
    <3>8. CASE Fail(c)
      BY <3>1, <3>2, <3>4, <3>8 DEF Fail
    <3>9. CASE Discard(c)
      BY <3>2, <3>4, <3>9 DEF Discard
    <3> QED
      BY <1>5, <3>1, <3>5, <3>6, <3>7, <3>8, <3>9 DEF View, Test, Check, Verify, Kill
  <2> QED
    BY <2>1, <2>2, <2>3, <2>4
<1>6. ASSUME NEW c \in Clone, NEW target \in Version, NEW recovery \in BOOLEAN, NEW dry \in BOOLEAN,
             Begin(c, target, recovery, dry)
      PROVE  TypeInv'
  <2>1. [target |-> target, recovery |-> recovery, dry |-> dry, existing |-> FALSE, original |-> tree[c]]
           \in JobSet
    BY DEF JobSet
  <2> QED
    BY <1>6, <2>1 DEF Begin, local, remote, GoOn, Command
<1>7. ASSUME NEW c \in Clone, Tag(c) PROVE TypeInv'
  <2>1. tags' \in [Clone -> [Version -> 0 .. Len(commits)]]
    <3>1. job[c].target \in Version /\ head[c] \in 0 .. Len(commits)
      BY <1>0 DEF JobSet
    <3> QED
      BY <1>7, <3>1 DEF Tag
  <2> QED
    BY <1>7, <2>1 DEF Tag, Keep, remote, GoOn, Command, Made
<1>8. ASSUME NEW c \in Clone, Publish(c) PROVE TypeInv'
  <2>1. [commit |-> head[c], by |-> c] \in [commit : 0 .. Len(commits), by : Clone \cup {Nobody}]
    BY <1>0
  <2>2. at' \in [Clone -> Command]
    BY <1>8 DEF Publish, GoOn, Command, Made
  <2> QED
    BY <1>8, <2>1, <2>2 DEF Publish, Keep, local
<1>9. ASSUME NEW c \in Clone, Push(c) PROVE TypeInv'
  <2> DEFINE ts == [origin.tags EXCEPT ![job[c].target] = tags[c][job[c].target]]
  <2>1. job[c].target \in Version
    BY DEF JobSet
  <2>2. ts \in [Version -> 0 .. Len(commits)]
    BY <2>1
  <2>3. origin' = [main |-> head[c], tags |-> ts]
    BY <1>9 DEF Push
  <2>4. at' \in [Clone -> Command]
    BY <1>9 DEF Push, GoOn, Command, Ended, Made
  <2> HIDE DEF ts
  <2>5. origin' \in [main : 1 .. Len(commits), tags : [Version -> 0 .. Len(commits)]]
    BY <2>2, <2>3
  <2> QED
    BY <1>9, <2>4, <2>5 DEF Push, Keep, local
<1> QED
    BY <1>1, <1>2, <1>3, <1>4, <1>5, <1>6, <1>7, <1>8, <1>9 DEF Next, Pull, Reset

-----------------------------------------------------------------------------
\* What may happen in a clone.
Acts(c) ==
    \/ \E target \in Version, recovery, dry \in BOOLEAN : Begin(c, target, recovery, dry)
    \/ View(c) \/ Test(c)
    \/ Edit(c, "package", "citation") \/ Edit(c, "citation", "lock") \/ Edit(c, "lock", "check")
    \/ Check(c) \/ Commit(c) \/ Tag(c) \/ Publish(c) \/ Verify(c) \/ Push(c)
    \/ Fail(c) \/ Kill(c)
    \/ UserCommit(c) \/ Discard(c) \/ Pull(c) \/ Reset(c)

LEMMA NextCases ==
    ASSUME [Next]_vars
    PROVE  UNCHANGED vars \/ (\E c \in Clone : Acts(c)) \/ (\E v \in Version : Show(v))
BY DEF Next, Acts

\* A clone is worked in by itself.
LEMMA Frame ==
    ASSUME TypeInv, NEW c \in Clone, Acts(c), NEW d \in Clone, d # c
    PROVE  /\ tree'[d] = tree[d] /\ tags'[d] = tags[d] /\ head'[d] = head[d]
           /\ at'[d] = at[d] /\ job'[d] = job[d]
<1> USE DEF TypeInv, GoOn, Keep, local, remote, bounds
<1>1. CASE \E target \in Version, recovery, dry \in BOOLEAN : Begin(c, target, recovery, dry)
    BY <1>1 DEF Begin
<1>2. CASE View(c) \/ Test(c) \/ Check(c) \/ Verify(c) \/ Publish(c) \/ Push(c) \/ Kill(c) \/ Fail(c)
    BY <1>2 DEF View, Test, Check, Verify, Publish, Push, Kill, Fail
<1>3. CASE Edit(c, "package", "citation") \/ Edit(c, "citation", "lock") \/ Edit(c, "lock", "check")
    BY <1>3 DEF Edit
<1>4. CASE Commit(c) \/ Tag(c) \/ UserCommit(c) \/ Discard(c)
    BY <1>4 DEF Commit, Tag, UserCommit, Discard, Change
<1>5. CASE Pull(c) \/ Reset(c)
    BY <1>5 DEF Pull, Reset, Fetch, Change
<1> QED
    BY <1>1, <1>2, <1>3, <1>4, <1>5 DEF Acts

\* Commits are added, on top of what is checked out.
LEMMA CommitsGrow ==
    ASSUME TypeInv, NEW c \in Clone, Acts(c)
    PROVE  commits' = commits \/ Commits(c)
<1> USE DEF TypeInv
<1>1. CASE Commit(c) \/ UserCommit(c)
  <2>1. [files |-> tree[c], parent |-> head[c], release |-> TRUE] \in CommitSet
    BY DEF CommitSet
  <2>2. [files |-> tree[c], parent |-> head[c], release |-> FALSE] \in CommitSet
    BY DEF CommitSet
  <2>3. \A x \in CommitSet : Len(Append(commits, x)) = Len(commits) + 1
    OBVIOUS
  <2> QED
    BY <1>1, <2>1, <2>2, <2>3 DEF Commit, UserCommit, Commits
<1>2. CASE ~(Commit(c) \/ UserCommit(c))
    BY <1>2 DEF Acts, Begin, View, Test, Edit, Check, Tag, Publish, Verify, Push, Fail, Kill, Discard, Pull,
                Reset, Fetch, local
<1> QED
    BY <1>1, <1>2

LEMMA CommitsStay ==
    ASSUME TypeInv, NEW c \in Clone, Acts(c)
    PROVE  /\ \A k \in 1 .. Len(commits) : commits'[k] = commits[k]
           /\ Len(commits') \in Nat /\ Len(commits) <= Len(commits')
           /\ shown' = shown
<1>1. shown' = shown
    BY DEF Acts, Begin, View, Test, Edit, Check, Tag, Publish, Verify, Push, Fail, Kill, Discard, Pull,
           Reset, Fetch, Commit, UserCommit, Change, remote
<1>2. CASE commits' = commits
    BY <1>1, <1>2 DEF TypeInv
<1>3. CASE Commits(c)
    BY <1>1, <1>3 DEF TypeInv, Commits
<1> QED
    BY <1>2, <1>3, CommitsGrow

LEMMA PastStep ==
    ASSUME NpmInv, NEW c \in Clone, Acts(c)
    PROVE  /\ PastInv(commits')
           /\ \A k \in 0 .. Len(commits) : Past(commits')[k] = Past(commits)[k]
<1>1. CASE commits' = commits
    BY <1>1 DEF NpmInv
<1>2. CASE Commits(c)
    BY <1>2, PastGrows DEF NpmInv, TypeInv, Commits
<1> QED
    BY <1>1, <1>2, CommitsGrow DEF NpmInv

-----------------------------------------------------------------------------
LEMMA RunOthers ==
    ASSUME NpmInv, NEW c \in Clone, Acts(c), NEW d \in Clone, d # c
    PROVE  Knows(d)'
<1>1. /\ tree'[d] = tree[d] /\ tags'[d] = tags[d] /\ head'[d] = head[d]
      /\ at'[d] = at[d] /\ job'[d] = job[d] /\ shown' = shown
      /\ commits'[head[d]] = commits[head[d]]
    BY Frame, CommitsStay DEF NpmInv, TypeInv
<1> QED
    BY <1>1 DEF NpmInv, RunInv, Knows, Clean, ReleaseOf, Files

LEMMA RunOwn ==
    ASSUME NpmInv, NEW c \in Clone, Acts(c)
    PROVE  Knows(c)'
<1> DEFINE v == job[c].target
<1> USE DEF NpmInv, TypeInv, GoOn, Keep, local, remote, bounds
<1>0. /\ v \in Version /\ tree[c] \in FileSet /\ head[c] \in 1 .. Len(commits)
      /\ Knows(c) /\ TypeInv'
    BY TypeStep DEF JobSet, RunInv, Next, Acts
<1>1. ASSUME NEW target \in Version, NEW recovery \in BOOLEAN, NEW dry \in BOOLEAN,
             Begin(c, target, recovery, dry)
      PROVE  Knows(c)'
  <2>1. /\ UNCHANGED <<commits, head, tags, tree>> /\ at'[c] = "view" /\ Clean(c) /\ Consistent(tree[c])
        /\ job'[c] = [target |-> target, recovery |-> recovery, dry |-> dry, existing |-> FALSE,
                      original |-> tree[c]]
        /\ recovery => target = tree[c].package /\ Recoverable(c, target)
    BY <1>1 DEF Begin
  <2>2. tree[c] = Files(tree[c].package)
    BY <1>0, <2>1, SameFiles
  <2> QED
    BY <2>1, <2>2 DEF Knows, Clean, Recoverable, Making, Made, Files
<1>2. CASE View(c) \/ Test(c)
  <2>1. /\ UNCHANGED <<commits, head, tags, tree, shown>>
        /\ at[c] \in {"view", "test"}
        /\ job'[c].target = v /\ job'[c].recovery = job[c].recovery /\ job'[c].dry = job[c].dry
        /\ job'[c].original = job[c].original
    BY <1>2 DEF View, Test, JobSet
  <2>2. \/ at'[c] = "test" /\ (job[c].recovery \/ job[c].dry) /\ at[c] = "view"
        \/ at'[c] = "package" /\ at[c] = "view"
        \/ at'[c] = "ok"
        \/ at'[c] \in {"verify", "publish"} /\ ~job[c].dry /\ at[c] = "test"
    BY <1>2 DEF View, Test
  <2> QED
    BY <1>0, <2>1, <2>2 DEF Knows, Clean, Making, Made, Files
<1>3. CASE Edit(c, "package", "citation")
    BY <1>0, <1>3 DEF Edit, Knows, FileSet, Making, Made
<1>4. CASE Edit(c, "citation", "lock")
    BY <1>0, <1>4 DEF Edit, Knows, FileSet, Making, Made
<1>5. CASE Edit(c, "lock", "check")
    BY <1>0, <1>5 DEF Edit, Knows, FileSet, Making, Made
<1>6. CASE Check(c)
    BY <1>0, <1>6 DEF Check, Knows, Making, Made
<1>7. CASE Commit(c)
  <2> DEFINE x == [files |-> tree[c], parent |-> head[c], release |-> TRUE]
  <2>1. x \in CommitSet
    BY <1>0 DEF CommitSet
  <2>2. /\ commits' = Append(commits, x) /\ head'[c] = Len(commits') /\ at'[c] = "tag" /\ UNCHANGED <<tree, job>>
        /\ at[c] = "commit"
    BY <1>7 DEF Commit
  <2>3. commits'[head'[c]] = x
    BY <2>1, <2>2
  <2>4. tree[c] = Files(v)
    BY <1>0, <2>2, SameFiles DEF Knows
  <2> QED
    BY <2>2, <2>3, <2>4 DEF Knows, ReleaseOf, Making, Made, Files
<1>8. CASE Tag(c)
    BY <1>0, <1>8 DEF Tag, Knows, Making, Made, Files
<1>9. CASE Publish(c) \/ Verify(c) \/ Push(c)
  <2>1. /\ UNCHANGED <<commits, head, tags, tree, job, shown>>
        /\ at[c] \in Made /\ at'[c] \in {"verify", "retry", "push", "ok"}
        /\ at'[c] = "push" => v \in shown
    BY <1>9 DEF Publish, Verify, Push, Made
  <2> QED
    BY <1>0, <2>1 DEF Knows, Making, Made, Files
<1>10. CASE Fail(c)
  <2>1. /\ UNCHANGED <<commits, head, tags, job, shown>>
        /\ at'[c] \in {"failed", "unmade", "retry"}
        /\ at'[c] = "failed" => \/ tree'[c] = tree[c] /\ at[c] \in {"view", "test"}
                                \/ tree'[c] = job[c].original /\ at[c] \in Making
        /\ at'[c] = "retry" => tree'[c] = tree[c] /\ at[c] \in Made
    BY <1>10 DEF Fail, Making, Made
  <2> QED
    BY <1>0, <2>1 DEF Knows, Clean, Making, Made, Files
<1>11. CASE Kill(c) \/ UserCommit(c) \/ Discard(c) \/ Pull(c) \/ Reset(c)
  <2>1. at'[c] \in {"killed", "idle"}
    BY <1>11 DEF Kill, UserCommit, Discard, Pull, Reset, Fetch, Change
  <2> QED
    BY <2>1 DEF Knows, Making, Made
<1> QED
    BY <1>1, <1>2, <1>3, <1>4, <1>5, <1>6, <1>7, <1>8, <1>9, <1>10, <1>11 DEF Acts

\* A tag that is there stays, and a new one comes from the remote or from a release.
LEMMA TagsGrow ==
    ASSUME NpmInv, NEW c \in Clone, Acts(c), NEW v \in Version
    PROVE  /\ tags[c][v] # 0 => tags'[c][v] = tags[c][v]
           /\ \/ tags'[c][v] \in {tags[c][v], origin.tags[v]}
              \/ tags'[c][v] = head[c] /\ ReleaseOf(head[c], v) /\ commits' = commits
<1> USE DEF NpmInv, TypeInv
<1>1. CASE Tag(c)
  <2>1. Knows(c) /\ at[c] = "tag" /\ tags[c][job[c].target] = 0 /\ commits' = commits
        /\ tags' = [tags EXCEPT ![c][job[c].target] = head[c]]
    BY <1>1 DEF RunInv, Tag
  <2> QED
    BY <2>1 DEF Knows
<1>2. CASE Pull(c) \/ Reset(c)
    BY <1>2 DEF Pull, Reset, Fetch
<1>3. CASE ~(Tag(c) \/ Pull(c) \/ Reset(c))
    BY <1>3 DEF Acts, Begin, View, Test, Edit, Check, Commit, UserCommit, Publish, Verify, Push, Fail, Kill,
                Discard, local
<1> QED
    BY <1>1, <1>2, <1>3

\* What a push sends is the release it has made.
LEMMA PushEffect ==
    ASSUME NpmInv, NEW c \in Clone, Acts(c)
    PROVE  \/ origin' = origin
           \/ /\ commits' = commits /\ origin'.main = head[c] /\ origin.main \in Past(commits)[head[c]]
              /\ \E t \in shown \cap Version :
                    /\ origin'.tags = [origin.tags EXCEPT ![t] = head[c]]
                    /\ ReleaseOf(head[c], t)
<1> USE DEF NpmInv, TypeInv
<1>1. CASE Push(c)
  <2> DEFINE t == job[c].target
  <2>1. /\ t \in Version /\ t \in shown /\ tags[c][t] = head[c] /\ ReleaseOf(head[c], t)
    BY <1>1 DEF Push, RunInv, Knows, Made, JobSet, TagInv
  <2>2. /\ origin' = [main |-> head[c], tags |-> [origin.tags EXCEPT ![t] = tags[c][t]]]
        /\ commits' = commits /\ origin.main \in History(head[c])
    BY <1>1 DEF Push, local
  <2> QED
    BY <2>1, <2>2, HistoryIsPast
<1>2. CASE ~Push(c)
    BY <1>2 DEF Acts, Begin, View, Test, Edit, Check, Commit, UserCommit, Publish, Verify, Tag, Fail, Kill,
                Discard, Pull, Reset, Fetch, Change, remote
<1> QED
    BY <1>1, <1>2

LEMMA TagStep ==
    ASSUME NpmInv, NEW c \in Clone, Acts(c)
    PROVE  TagInv'
<1> USE DEF NpmInv, TypeInv
<1>1. ASSUME NEW k \in 1 .. Len(commits), NEW v \in Version, ReleaseOf(k, v)
      PROVE  commits'[k].release /\ commits'[k].files = Files(v)
    BY <1>1, CommitsStay DEF ReleaseOf
<1>2. ASSUME NEW d \in Clone, NEW v \in Version, tags'[d][v] # 0
      PROVE  commits'[tags'[d][v]].release /\ commits'[tags'[d][v]].files = Files(v)
  <2>1. \/ tags'[d][v] \in {tags[d][v], origin.tags[v]}
        \/ tags'[d][v] = head[c] /\ ReleaseOf(head[c], v)
    <3>1. CASE d = c
      BY <3>1, TagsGrow
    <3>2. CASE d # c
      BY <3>2, Frame
    <3> QED
      BY <3>1, <3>2
  <2>2. ReleaseOf(tags'[d][v], v)
    BY <1>2, <2>1 DEF TagInv
  <2>3. tags'[d][v] \in 1 .. Len(commits)
    BY <1>2, <2>1
  <2> QED
    BY <1>1, <2>2, <2>3
<1>3. ASSUME NEW v \in Version, origin'.tags[v] # 0
      PROVE  commits'[origin'.tags[v]].release /\ commits'[origin'.tags[v]].files = Files(v) /\ v \in shown'
  <2>1. origin'.tags[v] = origin.tags[v] \/ (origin'.tags[v] = head[c] /\ ReleaseOf(head[c], v) /\ v \in shown)
    BY PushEffect
  <2>2. ReleaseOf(origin'.tags[v], v) /\ v \in shown
    BY <1>3, <2>1 DEF TagInv
  <2>3. origin'.tags[v] \in 1 .. Len(commits)
    BY <1>3, <2>1
  <2> QED
    BY <1>1, <2>2, <2>3, CommitsStay
<1>4. ASSUME NEW v \in Version, registry'[v].commit # 0
      PROVE  /\ commits'[registry'[v].commit].release /\ commits'[registry'[v].commit].files = Files(v)
             /\ registry'[v].by # Nobody => tags'[registry'[v].by][v] = registry'[v].commit
  <2>1. CASE registry'[v] = registry[v]
    <3>1. /\ ReleaseOf(registry[v].commit, v) /\ registry[v].commit \in 1 .. Len(commits)
          /\ registry[v].by # Nobody =>
                registry[v].by \in Clone /\ tags[registry[v].by][v] = registry[v].commit
      BY <1>4, <2>1 DEF TagInv, PublishedIsTagged, ReleaseOf
    <3>2. \A d \in Clone : tags[d][v] # 0 => tags'[d][v] = tags[d][v]
      BY TagsGrow, Frame
    <3> QED
      BY <1>1, <1>4, <2>1, <3>1, <3>2
  <2>2. CASE registry'[v] # registry[v]
    <3>1. Publish(c)
      BY <2>2 DEF Acts, Begin, View, Test, Edit, Check, Commit, UserCommit, Push, Verify, Tag, Fail, Kill,
                  Discard, Pull, Reset, Fetch, Change, remote
    <3>2. /\ registry' = [registry EXCEPT ![tree[c].package] = [commit |-> head[c], by |-> c]]
          /\ UNCHANGED <<commits, tags>> /\ at[c] = "publish"
      BY <3>1 DEF Publish, local
    <3>3. v = tree[c].package /\ registry'[v] = [commit |-> head[c], by |-> c]
      BY <2>2, <3>2
    <3>4. tree[c] = Files(job[c].target) /\ tags[c][job[c].target] = head[c] /\ job[c].target \in Version
      BY <3>2 DEF RunInv, Knows, Made, JobSet
    <3>5. v = job[c].target /\ ReleaseOf(head[c], v)
      <4>1. v = job[c].target
        BY <3>3, <3>4 DEF Files
      <4>2. tags[c][v] = head[c] /\ head[c] # 0
        BY <3>4, <4>1
      <4> QED
        BY <4>1, <4>2 DEF TagInv
    <3> QED
      BY <3>2, <3>3, <3>4, <3>5 DEF ReleaseOf
  <2> QED
    BY <2>1, <2>2
<1>5. \A v \in Version : Files(v)' = Files(v)
    BY DEF Files
<1> QED
    BY <1>2, <1>3, <1>4, <1>5 DEF TagInv, PublishedIsTagged, ReleaseOf

\* The tags of the remote stay on its main: a push advances it.
LEMMA MainStep ==
    ASSUME NpmInv, NEW c \in Clone, Acts(c)
    PROVE  PushedOnMain'
<1> USE DEF NpmInv, TypeInv
<1>1. ASSUME NEW v \in Version, origin'.tags[v] # 0
      PROVE  origin'.tags[v] \in Past(commits')[origin'.main]
  <2>1. CASE origin' = origin
    <3>1. origin.tags[v] \in Past(commits)[origin.main]
      BY <1>1, <2>1, HistoryIsPast DEF PushedOnMain
    <3> QED
      BY <2>1, <3>1, PastStep
  <2>2. CASE origin' # origin
    <3>1. PICK t \in shown \cap Version :
             /\ commits' = commits /\ origin'.main = head[c] /\ origin.main \in Past(commits)[head[c]]
             /\ origin'.tags = [origin.tags EXCEPT ![t] = head[c]]
      BY <2>2, PushEffect
    <3>2. CASE v = t
      BY <3>1, <3>2, PastEquations
    <3>3. CASE v # t
      <4>1. origin'.tags[v] = origin.tags[v]
        BY <3>1, <3>3
      <4>2. origin.tags[v] \in Past(commits)[origin.main]
        BY <1>1, <4>1, HistoryIsPast DEF PushedOnMain
      <4>3. Past(commits)[origin.main] \subseteq Past(commits)[head[c]]
        <5>1. origin.main \in 0 .. Len(commits) /\ head[c] \in 0 .. Len(commits)
          OBVIOUS
        <5> QED
          BY <3>1, <5>1 DEF PastInv
      <4> QED
        BY <3>1, <4>1, <4>2, <4>3
    <3> QED
      BY <3>2, <3>3
  <2> QED
    BY <2>1, <2>2
<1>2. \A k : History(k)' = Past(commits')[k]
    BY DEF History, Past, IsPast
<1>3. TagInv'
    BY TagStep
<1> QED
    BY <1>1, <1>2, <1>3 DEF PushedOnMain, TagInv, ReleaseOf

-----------------------------------------------------------------------------
LEMMA NpmInit == Init => NpmInv
<1> SUFFICES ASSUME Init PROVE NpmInv
    OBVIOUS
<1> USE DEF Init
<1>0. 1 \in Version /\ MaxVersion \in Nat
    BY ReleaseConstants DEF Version
<1> DEFINE x == [files |-> Files(1), parent |-> 0, release |-> TRUE]
<1>1. x \in CommitSet /\ commits = <<x>>
    BY <1>0, SameFiles DEF CommitSet
<1>2. commits \in Seq(CommitSet) /\ Len(commits) = 1 /\ commits[1] = x
    BY <1>1
<1> HIDE DEF x
<1>3. NoJob \in JobSet
    BY <1>0, SameFiles DEF NoJob, JobSet
<1>4. TypeInv
  <2>1. registry \in [Version -> [commit : 0 .. 1, by : Clone \cup {Nobody}]]
    OBVIOUS
  <2>2. origin \in [main : 1 .. 1, tags : [Version -> 0 .. 1]]
    OBVIOUS
  <2> QED
    BY <1>0, <1>2, <1>3, <2>1, <2>2, SameFiles DEF TypeInv, Command, Ended
<1>5. PastInv(commits) /\ Past(commits)[1] = {1}
  <2> DEFINE f == [i \in 0 .. 1 |-> IF i = 0 THEN {} ELSE {1}]
  <2>1. \A g : IsPast(g, commits) <=> g = [i \in 0 .. 1 |-> IF i = 0 THEN {} ELSE {i} \cup g[commits[i].parent]]
    BY <1>2 DEF IsPast
  <2>2. commits[1].parent = 0
    BY <1>2 DEF x
  <2>a. \A i \in 0 .. 1 : i = 0 \/ i = 1
    OBVIOUS
  <2>3. \A i \in 0 .. 1 : f[i] = IF i = 0 THEN {} ELSE {i} \cup f[commits[i].parent]
    <3> TAKE i \in 0 .. 1
    <3>1. f[0] = {} /\ f[1] = {1}
      OBVIOUS
    <3> HIDE DEF f
    <3> QED
      BY <2>2, <2>a, <3>1
  <2>4. IsPast(f, commits)
    <3>1. f = [i \in 0 .. 1 |-> f[i]]
      OBVIOUS
    <3> HIDE DEF f
    <3>2. f = [i \in 0 .. 1 |-> IF i = 0 THEN {} ELSE {i} \cup f[commits[i].parent]]
      BY <2>3, <3>1
    <3> QED
      BY <2>1, <3>2
  <2>5. ASSUME NEW g, IsPast(g, commits) PROVE g = f
    <3>1. g = [i \in 0 .. 1 |-> IF i = 0 THEN {} ELSE {i} \cup g[commits[i].parent]]
      BY <2>1, <2>5
    <3>2. g[0] = {} /\ g[1] = {1} \cup g[0]
      BY <2>2, <3>1
    <3>3. \A i \in 0 .. 1 : g[i] = IF i = 0 THEN {} ELSE {1}
      BY <2>a, <3>2
    <3>4. g = [i \in 0 .. 1 |-> g[i]]
      BY <3>1
    <3> QED
      BY <3>3, <3>4
  <2>6. Past(commits) = f
    BY <2>4, <2>5 DEF Past
  <2>7. \A i \in 1 .. Len(commits) : commits[i].parent \in 0 .. i - 1
    BY <1>2, <2>2
  <2>8. f[0] = {} /\ f[1] = {1}
    OBVIOUS
  <2> HIDE DEF f
  <2>9. \A b \in 0 .. Len(commits) : b = 0 \/ b = 1
    BY <1>2
  <2> QED
    BY <2>4, <2>5, <2>6, <2>7, <2>8, <2>9 DEF PastInv
<1>6. ReleaseOf(1, 1)
    BY <1>2 DEF ReleaseOf, x
<1>7. TagInv
    BY <1>0, <1>6 DEF TagInv, PublishedIsTagged, ReleaseOf
<1>8. RunInv
    BY DEF RunInv, Knows, Making, Made
<1>9. PushedOnMain
    BY <1>5, <1>6, HistoryIsPast DEF PushedOnMain, ReleaseOf
<1> QED
    BY <1>4, <1>5, <1>7, <1>8, <1>9 DEF NpmInv

LEMMA NpmStep ==
    ASSUME NpmInv, [Next]_vars
    PROVE  NpmInv'
<1>0. TypeInv'
    BY TypeStep DEF NpmInv
<1>a. ASSUME UNCHANGED <<commits, head, tree, tags, origin, registry, at, job>>, shown \subseteq shown'
      PROVE  NpmInv'
  <2>1. PastInv(commits')
    BY <1>a DEF NpmInv
  <2>2. TagInv' /\ RunInv'
    BY <1>a DEF NpmInv, TagInv, RunInv, Knows, ReleaseOf, Files, Clean, PublishedIsTagged
  <2>3. PushedOnMain'
    BY <1>a DEF NpmInv, PushedOnMain, History, Files
  <2> QED
    BY <1>0, <2>1, <2>2, <2>3 DEF NpmInv, PastInv, Past, IsPast
<1>1. CASE UNCHANGED vars
    BY <1>1, <1>a DEF vars
<1>2. ASSUME NEW v \in Version, Show(v) PROVE NpmInv'
    BY <1>2, <1>a DEF Show, local
<1>3. ASSUME NEW c \in Clone, Acts(c) PROVE NpmInv'
  <2>1. RunInv'
    BY <1>3, RunOwn, RunOthers DEF RunInv, NpmInv
  <2>2. PastInv(commits')
    BY <1>3, PastStep
  <2> QED
    BY <1>0, <1>3, <2>1, <2>2, TagStep, MainStep DEF NpmInv, PastInv, Past, IsPast
<1> QED
    BY <1>1, <1>2, <1>3, NextCases

\* The invariant of the release helper: whatever fails or is killed, in any number
\* of clones at the same time.
THEOREM ReleaseInvariant == Spec => []NpmInv
BY NpmInit, NpmStep, PTL DEF Spec

\* publish: what a version is published as is its release commit, and its tag stays there.
THEOREM PublishedStaysTagged == Spec => []PublishedIsTagged
<1>1. NpmInv => PublishedIsTagged
    BY DEF NpmInv, TagInv
<1> QED
    BY <1>1, ReleaseInvariant, PTL

\* push: only what the registry shows is announced by a tag.
THEOREM PushedCanBeInstalled == Spec => []PushedIsInstallable
<1>1. NpmInv => PushedIsInstallable
    BY DEF NpmInv, TagInv, PushedIsInstallable
<1> QED
    BY <1>1, ReleaseInvariant, PTL

\* push --atomic: a tag of the remote is a release on its main.
THEOREM TagsStayOnMain == Spec => []PushedOnMain
<1>1. NpmInv => PushedOnMain
    BY DEF NpmInv
<1> QED
    BY <1>1, ReleaseInvariant, PTL

\* The retry that the helper advises is not refused by what it checks first.
THEOREM RetryIsPossible == Spec => []RetryIsEnough
<1>1. ASSUME NpmInv, NEW c \in Clone, at[c] = "retry"
      PROVE  Clean(c) /\ Consistent(tree[c]) /\ Recoverable(c, job[c].target)
  <2> DEFINE v == job[c].target
  <2>1. /\ tree[c] = Files(v) /\ tags[c][v] = head[c] /\ v \in Version /\ head[c] # 0
    BY <1>1 DEF NpmInv, TypeInv, RunInv, Knows, Made, JobSet
  <2>2. ReleaseOf(head[c], v)
    <3>1. tags[c][v] # 0 => ReleaseOf(tags[c][v], v)
      BY <1>1, <2>1 DEF NpmInv, TagInv
    <3> QED
      BY <2>1, <3>1
  <2> QED
    BY <2>1, <2>2 DEF ReleaseOf, Clean, Consistent, Recoverable, Files
<1>2. NpmInv => RetryIsEnough
    BY <1>1 DEF RetryIsEnough
<1> QED
    BY <1>2, ReleaseInvariant, PTL

\* A run that fails before it commits has put the three files back.
THEOREM FailureLeavesNothing == Spec => []NoResidue
<1>1. NpmInv => NoResidue
    BY DEF NpmInv, RunInv, Knows, NoResidue
<1> QED
    BY <1>1, ReleaseInvariant, PTL

-----------------------------------------------------------------------------
(***************************************************************************)
(* The bootstrap script.  RestoreInv relates the copies and the flags to   *)
(* the files at each command, ReadyInv the files to what sshd has read.    *)
(***************************************************************************)
Early == {"keys", "save_keys", "had_keys", "move_keys"}
Middle == {"keys_moved", "include", "save_include", "had_include", "move_include"}
Late == {"test", "reload", "commit", "echo"}
Undoing == {"retest", "reread", "rekey"}

BootType ==
    /\ at \in Boot!Ended \cup Early \cup Middle \cup Late \cup Boot!InTrap
    /\ status \in {"ok", "failed", "refused"}
    /\ flag \in [had_keys : BOOLEAN, changed : BOOLEAN, had_include : BOOLEAN, committed : BOOLEAN]
    /\ keys \in Boot!File /\ include \in Boot!File
    /\ stage \in [keys : Boot!File, include : Boot!File]

RestoreInv ==
    /\ at \in Early => keys = before.keys /\ ~flag.changed /\ ~flag.committed
    /\ at \in Early \cup {"keys_moved", "include", "save_include"} =>
          include = before.include /\ ~flag.had_include
    /\ at \in {"had_include", "move_include"} => include = before.include
    /\ at \in {"keys", "save_keys"} => ~flag.had_keys
    /\ at = "had_keys" => stage.keys = before.keys
    /\ at = "had_include" => stage.include = before.include
    /\ at \in {"move_keys", "keys_moved"} => flag.had_keys \/ before.keys = "absent"
    /\ flag.changed => flag.had_keys \/ before.keys = "absent"
    /\ at \notin Boot!Ended /\ flag.had_keys => stage.keys = before.keys
    /\ at \notin Boot!Ended /\ flag.had_include => stage.include = before.include
    /\ at \in Undoing \cup {"clear", "failed", "refused"} /\ ~flag.committed /\ flag.had_include =>
          include = before.include
    /\ at \in {"clear", "failed", "refused"} /\ ~flag.committed /\ flag.changed =>
          keys = before.keys

ReadyInv ==
    /\ at \in Middle \cup Late => keys = "new"
    /\ at \in Late => include = "new"
    /\ at \in {"reload", "reread"} => include \in Valid
    /\ at \in {"commit", "echo"} => loaded = "new"
    /\ at \notin {"echo", "clear"} \cup Boot!Ended => ~flag.committed
    /\ at = "echo" => flag.committed
    /\ flag.committed => keys = "new" /\ include = "new" /\ loaded = "new"
    /\ at \in Undoing \cup {"undo"} => status # "ok"
    /\ at = "clear" /\ status = "ok" => flag.committed
    /\ at = "ok" => flag.committed

ScriptInv == BootType /\ RestoreInv /\ ReadyInv

LEMMA BootInit == Boot!Init => ScriptInv
BY DEF Boot!Init, ScriptInv, BootType, RestoreInv, ReadyInv, Boot!Ended, Boot!InTrap, Early, Middle, Late,
       Undoing, Boot!NoFlag, Boot!NoStage, Boot!File

\* Every step keeps the invariant.
LEMMA BootStep == ScriptInv /\ [Boot!Next]_(Boot!vars) => ScriptInv'
<1> SUFFICES ASSUME ScriptInv, [Boot!Next]_(Boot!vars) PROVE ScriptInv'
    OBVIOUS
<1> USE DEF ScriptInv, BootType, RestoreInv, ReadyInv, Boot!Ended, Boot!InTrap, Early, Middle, Late, Undoing,
            Boot!files, Boot!run, Boot!File
<1>1. CASE Boot!Begin
    BY <1>1 DEF Boot!Begin, Boot!NoFlag, Boot!NoStage
<1>2. CASE Boot!Look("keys", keys, "save_keys", "move_keys") \/ Boot!Look("include", include, "save_include", "move_include")
    BY <1>2 DEF Boot!Look, Boot!Exit
<1>3. CASE Boot!Save("save_keys", "keys", keys, "had_keys") \/ Boot!Save("save_include", "include", include, "had_include")
    BY <1>3 DEF Boot!Save
<1>4. CASE Boot!Set("had_keys", "had_keys", "move_keys") \/ Boot!Set("keys_moved", "changed", "include")
    BY <1>4 DEF Boot!Set
<1>5. CASE Boot!Set("had_include", "had_include", "move_include") \/ Boot!Set("commit", "committed", "echo")
    BY <1>5 DEF Boot!Set
<1>6. CASE Boot!MoveKeys \/ Boot!MoveInclude
    BY <1>6 DEF Boot!MoveKeys, Boot!MoveInclude
<1>7. CASE Boot!Test \/ Boot!Reload \/ Boot!Retest \/ Boot!Reread
    BY <1>7 DEF Boot!Test, Boot!Reload, Boot!Retest, Boot!Reread
<1>8. CASE Boot!Interrupt \/ Boot!Announce
    BY <1>8 DEF Boot!Interrupt, Boot!Announce, Boot!Exit
<1>9. CASE Boot!Undo
    BY <1>9 DEF Boot!Undo
<1>10. CASE Boot!Rekey
    BY <1>10 DEF Boot!Rekey
<1>11. CASE Boot!Clear \/ Boot!Kill
    BY <1>11 DEF Boot!Clear, Boot!Kill, Boot!NoStage
<1>12. CASE UNCHANGED Boot!vars
    BY <1>12 DEF Boot!vars
<1> QED
    BY <1>1, <1>2, <1>3, <1>4, <1>5, <1>6, <1>7, <1>8, <1>9, <1>10, <1>11, <1>12 DEF Boot!Next

LEMMA ScriptInvariant == Boot!Spec => []ScriptInv
BY BootInit, BootStep, PTL DEF Boot!Spec

\* A run that ends well has both files in place, and sshd has read them.
THEOREM SuccessReachesSshd == Boot!Spec => []Boot!SuccessIsLoaded
<1>1. ScriptInv => Boot!SuccessIsLoaded
    BY DEF ScriptInv, ReadyInv, Boot!SuccessIsLoaded
<1> QED
    BY <1>1, ScriptInvariant, PTL

\* A run that fails before it has committed, unless it is killed, puts back what
\* it has saved, and the keys if it knows that it has moved them.
THEOREM SavedComesBack == Boot!Spec => []Boot!SavedIsRestored
<1>1. ScriptInv => Boot!SavedIsRestored
    BY DEF ScriptInv, RestoreInv, Boot!SavedIsRestored
<1> QED
    BY <1>1, ScriptInvariant, PTL

\* sshd reads no include that its test has not accepted.
THEOREM OnlyTestedIsLoaded == Boot!Spec => Boot!LoadedIsTested
<1>1. ScriptInv /\ [Boot!Next]_(Boot!vars) => [loaded' # loaded => loaded' \in Valid]_(Boot!vars)
  <2> SUFFICES ASSUME ScriptInv, Boot!Next, loaded' # loaded PROVE loaded' \in Valid
    BY DEF Boot!vars
  <2>1. Boot!Reload \/ Boot!Reread
    BY DEF Boot!Next, Boot!files, Boot!Begin, Boot!Look, Boot!Exit, Boot!Save, Boot!Set, Boot!MoveKeys, Boot!MoveInclude, Boot!Test, Boot!Interrupt,
           Boot!Announce, Boot!Undo, Boot!Retest, Boot!Rekey, Boot!Clear, Boot!Kill
  <2> QED
    BY <2>1 DEF Boot!Reload, Boot!Reread, ScriptInv, ReadyInv
<1> QED
    BY <1>1, ScriptInvariant, PTL DEF Boot!Spec, Boot!LoadedIsTested
=============================================================================
