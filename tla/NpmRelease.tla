----------------------------- MODULE NpmRelease -----------------------------
(***************************************************************************)
(* The release helper, scripts/npm-release.mjs: runs of it in some clones  *)
(* of the repository, which share a remote and the npm registry.           *)
(*                                                                         *)
(* An action is one external command with the code up to the next one, or  *)
(* one file written.  Every command may fail, the answer of a publication  *)
(* or a push may be lost, the helper may be killed, and the registry takes *)
(* its time to show what it has accepted.  Between runs the user commits,  *)
(* discards, pulls and resets.                                             *)
(*                                                                         *)
(* Simplifications.  Versions are numbers.  Of the tree only the three     *)
(* files that carry the version are kept, the rest is the commit.  Nobody  *)
(* works in a clone while the helper runs there, and main is checked out.  *)
(***************************************************************************)
EXTENDS Naturals, Sequences

CONSTANTS Clone,
          MaxVersion,
          MaxRuns,      \* bound on the runs of the helper
          MaxChanges,   \* bound on what the user does between them
          Nobody

Version == 1 .. MaxVersion

ASSUME ReleaseConstants ==
    MaxVersion \in Nat \ {0} /\ MaxRuns \in Nat /\ MaxChanges \in Nat /\ Nobody \notin Clone

VARIABLES
    commits,    \* all commits: the files, the parent, whether "Release v..." is the subject
    head,       \* head[c]: the commit that main of clone c is at
    tree,       \* tree[c]: the versions in the three files of the worktree
    tags,       \* tags[c][v]: the commit that tag v names in clone c, or 0
    origin,     \* main and the tags of the remote
    registry,   \* registry[v]: the commit published as version v, by which clone
    shown,      \* the versions that the registry shows
    at,         \* at[c]: the next command of the helper in c, or how it has ended
    job,        \* job[c]: what it has been asked for and has read
    runs, changes

vars == <<commits, head, tree, tags, origin, registry, shown, at, job, runs, changes>>
local == <<commits, head, tags>>
remote == <<origin, registry, shown>>
bounds == <<runs, changes>>

Files(v) == [package |-> v, lock |-> v, citation |-> v]
Clean(c) == tree[c] = commits[head[c]].files
Consistent(f) == f.lock = f.package /\ f.citation = f.package

NoJob == [target |-> 1, recovery |-> FALSE, dry |-> FALSE, existing |-> FALSE,
          original |-> Files(1)]
Ended == {"idle", "ok", "failed", "unmade", "retry", "killed"}

\* The commit k and all before it.
History(k) == LET past[i \in 0 .. Len(commits)] ==
                      IF i = 0 THEN {} ELSE {i} \cup past[commits[i].parent]
              IN past[k]

(***************************************************************************)
(* A run of the helper                                                     *)
(***************************************************************************)
GoOn(c, next) == at' = [at EXCEPT ![c] = next]
Keep(c) == UNCHANGED <<job, bounds>>

\* Mutant: recovery of whatever is checked out.
RecoverableAny(c, v) == tags[c][v] # 0

\* Recovery wants the tag at HEAD, and HEAD to be the release commit.
Recoverable(c, v) ==
    /\ tags[c][v] = head[c]
    /\ commits[head[c]].release /\ commits[head[c]].files.package = v

\* A wanted version, or "current" for the recovery of the one checked out.
Begin(c, target, recovery, dry) ==
    /\ at[c] \in Ended /\ runs < MaxRuns
    /\ Clean(c) /\ Consistent(tree[c])
    /\ IF recovery THEN target = tree[c].package /\ Recoverable(c, target)
                   ELSE target > tree[c].package
    /\ job' = [job EXCEPT ![c] = [target |-> target, recovery |-> recovery, dry |-> dry,
                                  existing |-> FALSE, original |-> tree[c]]]
    /\ GoOn(c, "view")
    /\ runs' = runs + 1
    /\ UNCHANGED <<local, tree, remote, changes>>

\* Whether the version is published; a version not shown yet counts as not.
View(c) ==
    LET existing == job[c].target \in shown
    IN /\ at[c] = "view" /\ (existing => job[c].recovery)
       /\ job' = [job EXCEPT ![c].existing = existing]
       /\ GoOn(c, IF job[c].recovery \/ job[c].dry THEN "test" ELSE "package")
       /\ UNCHANGED <<local, tree, remote, bounds>>

\* A dry run and a recovery test what is checked out.
Test(c) ==
    /\ at[c] = "test"
    /\ GoOn(c, IF job[c].dry THEN "ok" ELSE IF job[c].existing THEN "verify" ELSE "publish")
    /\ Keep(c) /\ UNCHANGED <<local, tree, remote>>

\* The helper brings the three files to the wanted version, one by one ...
Edit(c, file, next) ==
    /\ at[c] = file
    /\ tree' = [tree EXCEPT ![c][file] = job[c].target]
    /\ GoOn(c, next)
    /\ Keep(c) /\ UNCHANGED <<local, remote>>

\* ... and tests the result, ...
Check(c) ==
    /\ at[c] = "check"
    /\ tree[c].lock = tree[c].package
    /\ GoOn(c, "commit")
    /\ Keep(c) /\ UNCHANGED <<local, tree, remote>>

\* ... which it commits ...
Commit(c) ==
    /\ at[c] = "commit"
    /\ commits' = Append(commits, [files |-> tree[c], parent |-> head[c], release |-> TRUE])
    /\ head' = [head EXCEPT ![c] = Len(commits')]
    /\ GoOn(c, "tag")
    /\ Keep(c) /\ UNCHANGED <<tags, tree, remote>>

\* Mutant: an old tag of that name is moved out of the way only if it is in it.
TagLax(c) ==
    /\ at[c] = "tag"
    /\ tags' = IF tags[c][job[c].target] = 0
               THEN [tags EXCEPT ![c][job[c].target] = head[c]] ELSE tags
    /\ GoOn(c, "publish")
    /\ Keep(c) /\ UNCHANGED <<commits, head, tree, remote>>

\* ... and tags, unless there is such a tag.
Tag(c) ==
    /\ at[c] = "tag" /\ tags[c][job[c].target] = 0
    /\ tags' = [tags EXCEPT ![c][job[c].target] = head[c]]
    /\ GoOn(c, "publish")
    /\ Keep(c) /\ UNCHANGED <<commits, head, tree, remote>>

\* The registry takes a version once.  Its answer may not arrive.
Publish(c) ==
    LET v == tree[c].package
    IN /\ at[c] = "publish" /\ registry[v].commit = 0
       /\ registry' = [registry EXCEPT ![v] = [commit |-> head[c], by |-> c]]
       /\ \E next \in {"verify", "retry"} : GoOn(c, next)
       /\ Keep(c) /\ UNCHANGED <<local, tree, origin, shown>>

\* Mutant: what npm has taken need not be looked at.
VerifyNot(c) ==
    /\ at[c] = "verify"
    /\ GoOn(c, "push")
    /\ Keep(c) /\ UNCHANGED <<local, tree, remote>>

\* The version is shown and can be installed.
Verify(c) ==
    /\ at[c] = "verify" /\ job[c].target \in shown
    /\ GoOn(c, "push")
    /\ Keep(c) /\ UNCHANGED <<local, tree, remote>>

\* Mutant: the tag is pushed even if main is refused.
PushLoose(c) ==
    LET v == job[c].target
    IN /\ at[c] = "push"
       /\ origin.tags[v] \in {0, tags[c][v]}
       /\ origin' = [main |-> IF origin.main \in History(head[c]) THEN head[c] ELSE origin.main,
                     tags |-> [origin.tags EXCEPT ![v] = tags[c][v]]]
       /\ \E next \in {"ok", "retry"} : GoOn(c, next)
       /\ Keep(c) /\ UNCHANGED <<local, tree, registry, shown>>

\* The remote takes main and the tag, or neither: main only if it advances.
Push(c) ==
    LET v == job[c].target
    IN /\ at[c] = "push"
       /\ origin.main \in History(head[c]) /\ origin.tags[v] \in {0, tags[c][v]}
       /\ origin' = [main |-> head[c], tags |-> [origin.tags EXCEPT ![v] = tags[c][v]]]
       /\ \E next \in {"ok", "retry"} : GoOn(c, next)
       /\ Keep(c) /\ UNCHANGED <<local, tree, registry, shown>>

\* Mutant: the lock file is not put back.
FailLock(c) ==
    /\ at[c] \notin Ended
    /\ \/ /\ at[c] \in {"view", "test"}
          /\ GoOn(c, "failed") /\ UNCHANGED tree
       \/ /\ at[c] \in {"package", "citation", "lock", "check"}
          /\ tree' = [tree EXCEPT ![c] = [job[c].original EXCEPT !.lock = tree[c].lock]]
          /\ GoOn(c, "failed")
       \/ /\ at[c] \in {"commit", "tag"}
          /\ GoOn(c, "unmade") /\ UNCHANGED tree
       \/ /\ at[c] \in {"publish", "verify", "push"}
          /\ GoOn(c, "retry") /\ UNCHANGED tree
    /\ Keep(c) /\ UNCHANGED <<local, remote>>

\* Mutant: from the commit on, the checkpoint is thought to be there.
FailEarly(c) ==
    /\ at[c] \notin Ended
    /\ \/ /\ at[c] \in {"view", "test"}
          /\ GoOn(c, "failed") /\ UNCHANGED tree
       \/ /\ at[c] \in {"package", "citation", "lock", "check"}
          /\ tree' = [tree EXCEPT ![c] = job[c].original]
          /\ GoOn(c, "failed")
       \/ /\ at[c] \in {"commit", "tag", "publish", "verify", "push"}
          /\ GoOn(c, "retry") /\ UNCHANGED tree
    /\ Keep(c) /\ UNCHANGED <<local, remote>>

\* A command fails.  Up to the tests the files are put back, from the tag on
\* the user is told to retry, and between the two nothing is done.
Fail(c) ==
    /\ at[c] \notin Ended
    /\ \/ /\ at[c] \in {"view", "test"}
          /\ GoOn(c, "failed") /\ UNCHANGED tree
       \/ /\ at[c] \in {"package", "citation", "lock", "check"}
          /\ tree' = [tree EXCEPT ![c] = job[c].original]
          /\ GoOn(c, "failed")
       \/ /\ at[c] \in {"commit", "tag"}
          /\ GoOn(c, "unmade") /\ UNCHANGED tree
       \/ /\ at[c] \in {"publish", "verify", "push"}
          /\ GoOn(c, "retry") /\ UNCHANGED tree
    /\ Keep(c) /\ UNCHANGED <<local, remote>>

Kill(c) ==
    /\ at[c] \notin Ended
    /\ GoOn(c, "killed")
    /\ Keep(c) /\ UNCHANGED <<local, tree, remote>>

(***************************************************************************)
(* The registry and the user                                               *)
(***************************************************************************)
Show(v) ==
    /\ registry[v].commit # 0 /\ v \notin shown
    /\ shown' = shown \cup {v}
    /\ UNCHANGED <<local, tree, origin, registry, at, job, bounds>>

Change(c) ==
    /\ at[c] \in Ended /\ changes < MaxChanges
    /\ changes' = changes + 1
    /\ GoOn(c, "idle")
    /\ UNCHANGED <<remote, job, runs>>

\* The user commits what is there, along with other work.
UserCommit(c) ==
    /\ commits' = Append(commits, [files |-> tree[c], parent |-> head[c], release |-> FALSE])
    /\ head' = [head EXCEPT ![c] = Len(commits')]
    /\ Change(c) /\ UNCHANGED <<tags, tree>>

Discard(c) ==
    /\ ~Clean(c)
    /\ tree' = [tree EXCEPT ![c] = commits[head[c]].files]
    /\ Change(c) /\ UNCHANGED local

\* Takes what the remote has; a tag that is there stays where it is.
Fetch(c) ==
    /\ head' = [head EXCEPT ![c] = origin.main]
    /\ tree' = [tree EXCEPT ![c] = commits[origin.main].files]
    /\ tags' = [tags EXCEPT ![c] = [v \in Version |-> IF @[v] = 0 THEN origin.tags[v] ELSE @[v]]]
    /\ Change(c) /\ UNCHANGED commits

Pull(c) == Clean(c) /\ head[c] \in History(origin.main) \ {origin.main} /\ Fetch(c)

\* git fetch and git reset --hard: gives up what has not been pushed.
Reset(c) == head[c] # origin.main /\ Fetch(c)

(***************************************************************************)
(* Specification                                                           *)
(***************************************************************************)
\* Version 1 has been released.
Init ==
    /\ commits = <<[files |-> Files(1), parent |-> 0, release |-> TRUE]>>
    /\ head = [c \in Clone |-> 1]
    /\ tree = [c \in Clone |-> Files(1)]
    /\ tags = [c \in Clone |-> [v \in Version |-> IF v = 1 THEN 1 ELSE 0]]
    /\ origin = [main |-> 1, tags |-> [v \in Version |-> IF v = 1 THEN 1 ELSE 0]]
    /\ registry = [v \in Version |-> [commit |-> IF v = 1 THEN 1 ELSE 0, by |-> Nobody]]
    /\ shown = {1}
    /\ at = [c \in Clone |-> "idle"]
    /\ job = [c \in Clone |-> NoJob]
    /\ runs = 0 /\ changes = 0

Next ==
    \/ \E c \in Clone :
          \/ \E target \in Version, recovery, dry \in BOOLEAN : Begin(c, target, recovery, dry)
          \/ View(c) \/ Test(c)
          \/ Edit(c, "package", "citation") \/ Edit(c, "citation", "lock") \/ Edit(c, "lock", "check")
          \/ Check(c) \/ Commit(c) \/ Tag(c) \/ Publish(c) \/ Verify(c) \/ Push(c)
          \/ Fail(c) \/ Kill(c)
          \/ UserCommit(c) \/ Discard(c) \/ Pull(c) \/ Reset(c)
    \/ \E v \in Version : Show(v)

Spec == Init /\ [][Next]_vars

(***************************************************************************)
(* Properties                                                              *)
(***************************************************************************)
\* What is published as a version is a release commit of that version, and the
\* tag of the clone that has published it names that commit, whatever the user
\* has committed or reset between a failure and its recovery.
PublishedIsTagged ==
    \A v \in Version : LET p == registry[v] IN
        p.commit # 0 => /\ commits[p.commit].release /\ commits[p.commit].files = Files(v)
                        /\ p.by # Nobody => tags[p.by][v] = p.commit

\* A version that the remote has a tag for can be installed.
PushedIsInstallable == \A v \in Version : origin.tags[v] # 0 => v \in shown

\* The tags of the remote are release commits on its main, also when two
\* clones release at the same time and one of them is behind.
PushedOnMain ==
    \A v \in Version : LET k == origin.tags[v] IN
        k # 0 => k \in History(origin.main) /\ commits[k].release /\ commits[k].files = Files(v)

\* When the helper says that the release remains committed and tagged and that
\* publish:npm:current resumes it, nothing that this checks stands against it.
RetryIsEnough ==
    \A c \in Clone : at[c] = "retry" =>
        Clean(c) /\ Consistent(tree[c]) /\ Recoverable(c, job[c].target)

\* A run that fails before it commits leaves the three files as they were.
NoResidue == \A c \in Clone : at[c] = "failed" => Clean(c)
=============================================================================
