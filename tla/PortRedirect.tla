---------------------------- MODULE PortRedirect ----------------------------
(***************************************************************************)
(* The shell programs that LazyEdge renders for the redirects of ports 80  *)
(* and 443: the helper of renderPortRedirectHelper (src/systemd.js), with  *)
(* its actions start, stop and status, and the two cutover scripts of      *)
(* natScript (src/caddy.js), on one table "ip nat" of nftables.            *)
(*                                                                         *)
(* An action is one call of nft with what the shell makes of its answer.   *)
(* A batch is one transaction of the kernel.  Helpers exclude each other   *)
(* by a file lock, the scripts take no lock, and other managers of the     *)
(* firewall do what they like.                                             *)
(*                                                                         *)
(* Simplifications.  The table is there when one of its chains is.  The    *)
(* check of a batch is part of its application, which fails for the same   *)
(* reasons.  A rule is the set of those public ports that it may match,    *)
(* for all that the helper can prove; counters are left out.               *)
(***************************************************************************)
EXTENDS Naturals, FiniteSets

CONSTANTS Helper,      \* runs of the helper, one at a time each
          Script,      \* runs of the cutover scripts, likewise
          Digest,      \* ownership tags, one for every manifest
          Rendered,    \* Rendered[p]: the tags that program p may be rendered with
          Boot,        \* the tables that there may be at the beginning
          MaxEvents,   \* bound on runs and on changes by others
          Nobody

Proc == Helper \cup Script
Chain == {"PREROUTING", "OUTPUT"}
Port == {80, 443}
Slot == Chain \X Port

\* The order of the four specifications; gives handles to what a batch adds.
Index(s) == (IF s[1] = "OUTPUT" THEN 2 ELSE 0) + (IF s[2] = 443 THEN 1 ELSE 0)

\* "plain" is an exact redirect to the previous port, "foreign" anything else.
Maker == Digest \cup {"plain", "foreign"}
Base == {"none", "nat", "other"}
Rule == [chain : Chain, ports : SUBSET Port, by : Maker, handle : Nat]

\* Two redirects, of LazyEdge or of its predecessor, for one port of a chain.
SameSlot(r1, r2) ==
    /\ r1.by # "foreign" /\ r2.by # "foreign"
    /\ r1.chain = r2.chain /\ r1.ports = r2.ports

ASSUME RedirectConstants ==
    /\ Helper \cap Script = {} /\ Nobody \notin Proc
    /\ Digest \cap {"plain", "foreign"} = {}
    /\ Rendered \in [Proc -> SUBSET Digest]
    /\ MaxEvents \in Nat

\* To begin with no port of a chain is redirected by two managers.
ASSUME BootOnce ==
    \A t \in Boot : /\ t.rules \subseteq Rule /\ \A r \in t.rules : r.handle < 4
                   /\ t.base \in [Chain -> Base] /\ t.competing \in BOOLEAN
                   /\ \A r1, r2 \in t.rules : SameSlot(r1, r2) => r1 = r2

VARIABLES
    rules,      \* the rules of the table
    base,       \* base[c]: whether the chain is there, and as it has to be
    competing,  \* another base chain has one of the two hooks
    fresh,      \* no handle from here on has been given
    lock,       \* who has the lock of operation.lock
    job,        \* job[p]: what program p does, for the owner of which tag
    at,         \* at[p]: the chain or call that is next, or how p has ended
    seen,       \* seen[p]: the listings that helper p has
    found,      \* found[p]: the rules that script p has found for the slots
    events,     \* runs begun and changes made by others
    quiet,      \* no other has changed the table during a run or restored
                \* what LazyEdge has replaced, and no listing has failed
    crossed     \* the runs during which the table was misread, or changed by
                \* others or by a program that does not wait for their lock

vars == <<rules, base, competing, fresh, lock, job, at, seen, found, events, quiet,
          crossed>>
table == <<rules, base, competing, fresh>>
memory == <<seen, found>>
ghosts == <<quiet, crossed>>

Ended == {"idle", "ok", "refused", "failed"}
Running == {p \in Proc : at[p] \notin Ended}

\* Programs that have looked at the table and have not ended.
Engaged == {p \in Running : at[p] # "flock"}

Exact(rs, c, port, by) == {r \in rs : r.chain = c /\ r.ports = {port} /\ r.by = by}
InChain(c) == {r \in rules : r.chain = c}
Unlisted == [base |-> "none", rules |-> {}]
NoView == [again |-> FALSE, competing |-> FALSE, chain |-> [c \in Chain |-> Unlisted]]

\* start looks at the table again.
Afresh == [NoView EXCEPT !.again = TRUE]
NoJob == [action |-> "none", tag |-> Nobody]
NotFound == [looked |-> 0, rule |-> [s \in Slot |-> {}]]

(***************************************************************************)
(* What the helper concludes from its listings v, with tag d               *)
(***************************************************************************)
Owned(v, d, s) == Exact(v.chain[s[1]].rules, s[1], s[2], d)
Missing(v, d) == {s \in Slot : Owned(v, d, s) = {}}
Duplicated(v, d) == \E s \in Slot : Cardinality(Owned(v, d, s)) > 1

\* Mutant: a redirect of the helper itself counts as in its way.
OverlapsSelf(v, d) == \E c \in Chain : \E r \in v.chain[c].rules : r.ports # {}

\* A rule that is not the helper's own and not provably disjoint.
Overlaps(v, d) == \E c \in Chain : \E r \in v.chain[c].rules : r.by # d /\ r.ports # {}

Compatible(v, d) ==
    /\ ~v.competing
    /\ \A c \in Chain : v.chain[c].base # "other"
    /\ ~Overlaps(v, d) /\ ~Duplicated(v, d)

\* Mutant: a look at the helper's own rules is enough.
CompleteOwn(v, d) ==
    /\ Missing(v, d) = {}
    /\ \A c \in Chain : v.chain[c].base = "nat"

Complete(v, d) ==
    /\ Compatible(v, d) /\ Missing(v, d) = {}
    /\ \A c \in Chain : v.chain[c].base = "nat"

\* Where the listings v lead helper p.
Judge(p, v) ==
    LET d == job[p].tag
    IN CASE job[p].action = "stop" -> IF Duplicated(v, d) THEN "refused"
                               ELSE IF Missing(v, d) = Slot THEN "ok" ELSE "batch"
         [] job[p].action = "start" /\ ~v.again -> IF ~Compatible(v, d) THEN "refused"
                               ELSE IF Complete(v, d) THEN "ruleset" ELSE "batch"
         [] OTHER -> IF Complete(v, d) THEN "ok" ELSE "refused"

(***************************************************************************)
(* Programs begin and end                                                  *)
(***************************************************************************)
Begin(p, action, tag) ==
    /\ at[p] \in Ended /\ events < MaxEvents
    /\ at' = [at EXCEPT ![p] = IF p \in Helper THEN "flock" ELSE "find"]
    /\ job' = [job EXCEPT ![p] = [action |-> action, tag |-> tag]]
    /\ events' = events + 1
    /\ crossed' = crossed \ {p}
    /\ UNCHANGED <<table, lock, memory, quiet>>

\* The kernel closes the file of the lock, however the program ends.
End(p, how) ==
    /\ at' = [at EXCEPT ![p] = how]
    /\ lock' = IF lock = p THEN Nobody ELSE lock
    /\ seen' = [seen EXCEPT ![p] = NoView]
    /\ found' = [found EXCEPT ![p] = NotFound]
    /\ job' = [job EXCEPT ![p] = NoJob]
    /\ UNCHANGED <<events>>

GoOn(p, next) ==
    /\ at' = [at EXCEPT ![p] = next]
    /\ UNCHANGED <<job, events>>

\* A call of nft fails, a signal arrives or the program is killed.  Nothing
\* is undone.
Fail(p) ==
    /\ p \in Running
    /\ End(p, "failed")
    /\ UNCHANGED <<table, ghosts>>

(***************************************************************************)
(* The helper                                                              *)
(***************************************************************************)
\* Mutant: a lock that nobody waits for.
FlockShared(p) ==
    /\ at[p] = "flock"
    /\ GoOn(p, "ruleset")
    /\ UNCHANGED <<table, lock, memory, ghosts>>

Flock(p) ==
    /\ at[p] = "flock" /\ lock = Nobody
    /\ lock' = p
    /\ GoOn(p, "ruleset")
    /\ UNCHANGED <<table, memory, ghosts>>

\* load_snapshots lists the ruleset, which shows competing chains.
ListRuleset(p) ==
    /\ at[p] = "ruleset"
    /\ seen' = [seen EXCEPT ![p] = [@ EXCEPT !.competing = competing]]
    /\ GoOn(p, "PREROUTING")
    /\ UNCHANGED <<table, lock, found, ghosts>>

\* With the listings v of both chains the helper decides.
Decide(p, v) ==
    LET next == Judge(p, v)
    IN \/ /\ next \in Ended
          /\ End(p, next)
       \/ /\ next \notin Ended
          /\ seen' = [seen EXCEPT ![p] = IF next = "ruleset" THEN Afresh ELSE v]
          /\ GoOn(p, next)
          /\ UNCHANGED <<lock, found>>

\* load_snapshots lists a chain.
Listed(p, listing) ==
    LET v == [again |-> seen[p].again, competing |-> seen[p].competing,
              chain |-> [seen[p].chain EXCEPT ![at[p]] = listing]]
    IN \/ /\ at[p] = "PREROUTING"
          /\ seen' = [seen EXCEPT ![p] = v]
          /\ GoOn(p, "OUTPUT")
          /\ UNCHANGED <<lock, found>>
       \/ /\ at[p] = "OUTPUT"
          /\ Decide(p, v)

ListChain(p) ==
    /\ at[p] \in Chain
    /\ Listed(p, [base |-> base[at[p]], rules |-> InChain(at[p])])
    /\ UNCHANGED <<table, ghosts>>

\* A listing that fails counts as a chain that is not there.
Misread(p) ==
    /\ at[p] \in Chain /\ base[at[p]] # "none"
    /\ Listed(p, Unlisted)
    /\ quiet' = FALSE
    /\ crossed' = crossed \cup {p}
    /\ UNCHANGED table

\* Mutant: a batch for every rule.
AddedOne(p) == {[chain |-> s[1], ports |-> {s[2]}, by |-> job[p].tag, handle |-> fresh] :
                   s \in {CHOOSE s \in Missing(seen[p], job[p].tag) : TRUE}}

\* What the batch of start adds.
Added(p) == {[chain |-> s[1], ports |-> {s[2]}, by |-> job[p].tag, handle |-> fresh + Index(s)] :
                s \in Missing(seen[p], job[p].tag)}

\* The transaction of start: the chains that were not there, and the rules.
Install(p) ==
    /\ at[p] = "batch" /\ job[p].action = "start"
    /\ \A c \in Chain : base[c] = "nat" \/ (base[c] = "none" /\ seen[p].chain[c].base = "none")
    /\ rules' = rules \cup Added(p)
    /\ base' = [c \in Chain |-> "nat"]
    /\ fresh' = fresh + 4
    /\ seen' = [seen EXCEPT ![p] = Afresh]
    /\ GoOn(p, "ruleset")
    /\ crossed' = crossed \cup (Engaged \cap Script)
    /\ UNCHANGED <<competing, lock, found, quiet>>

\* Mutant: stop takes out whatever redirects the ports.
DoomedAny(p) == {r \in UNION {seen[p].chain[c].rules : c \in Chain} : r.ports # {}}

\* What the batch of stop deletes, by its handles.
Doomed(p) == UNION {Owned(seen[p], job[p].tag, s) : s \in Slot}

Withdraw(p) ==
    /\ at[p] = "batch" /\ job[p].action = "stop"
    /\ Doomed(p) \subseteq rules
    /\ rules' = rules \ Doomed(p)
    /\ End(p, "ok")
    /\ crossed' = crossed \cup (Engaged \cap Script)
    /\ UNCHANGED <<base, competing, fresh, quiet>>

\* The kernel refuses the batch of which a handle or a chain has gone.
Reject(p) ==
    /\ at[p] = "batch"
    /\ End(p, "failed")
    /\ UNCHANGED <<table, ghosts>>

(***************************************************************************)
(* The cutover scripts                                                     *)
(***************************************************************************)
From(p) == IF job[p].action = "apply" THEN "plain" ELSE job[p].tag
To(p) == IF job[p].action = "apply" THEN job[p].tag ELSE "plain"

\* find_handle lists the chain of the next slot; after the last one every
\* slot must have shown one rule.
Find(p) ==
    LET slot == CHOOSE s \in Slot : Index(s) = found[p].looked
        match == Exact(rules, slot[1], slot[2], From(p))
        now == [looked |-> found[p].looked + 1,
                rule |-> [found[p].rule EXCEPT ![slot] = match]]
    IN /\ at[p] = "find" /\ base[slot[1]] # "none"
       /\ \/ /\ now.looked = 4 /\ \E s \in Slot : Cardinality(now.rule[s]) # 1
             /\ End(p, "refused")
          \/ /\ now.looked < 4 \/ \A s \in Slot : Cardinality(now.rule[s]) = 1
             /\ found' = [found EXCEPT ![p] = now]
             /\ GoOn(p, IF now.looked = 4 THEN "replace" ELSE "find")
             /\ UNCHANGED <<lock, seen>>
       /\ UNCHANGED <<table, ghosts>>

Replaced(p) == UNION {found[p].rule[s] : s \in Slot}

\* The kernel gives new handles to what replaces them.
Substitutes(p) ==
    {[chain |-> s[1], ports |-> {s[2]}, by |-> To(p), handle |-> fresh + Index(s)] : s \in Slot}

Replace(p) ==
    /\ at[p] = "replace"
    /\ Replaced(p) \subseteq rules
    /\ rules' = (rules \ Replaced(p)) \cup Substitutes(p)
    /\ fresh' = fresh + 4
    /\ End(p, "ok")
    /\ crossed' = crossed \cup (Engaged \ {p})
    /\ UNCHANGED <<base, competing, quiet>>

(***************************************************************************)
(* Other managers of the firewall                                          *)
(***************************************************************************)
Disturb(calm) ==
    /\ events < MaxEvents
    /\ events' = events + 1
    /\ quiet' = (quiet /\ calm /\ Engaged = {})
    /\ crossed' = crossed \cup Engaged
    /\ UNCHANGED <<lock, job, at, memory>>

AddRule(c, ports) ==
    /\ base[c] # "none"
    /\ rules' = rules \cup {[chain |-> c, ports |-> ports, by |-> "foreign", handle |-> fresh]}
    /\ fresh' = fresh + 4
    /\ Disturb(TRUE) /\ UNCHANGED <<base, competing>>

DeleteRule(r) ==
    /\ rules' = rules \ {r}
    /\ Disturb(TRUE) /\ UNCHANGED <<base, competing, fresh>>

\* The redirects to the previous ports are loaded from where they were saved;
\* a manager that does so beside those of LazyEdge is not quiet.
Reload ==
    /\ base' = [c \in Chain |-> IF base[c] = "none" THEN "nat" ELSE base[c]]
    /\ rules' = rules \cup {[chain |-> s[1], ports |-> {s[2]}, by |-> "plain",
                             handle |-> fresh + Index(s)] : s \in Slot}
    /\ fresh' = fresh + 4
    /\ Disturb(\A r \in rules : r.by \notin Digest) /\ UNCHANGED competing

Compete ==
    /\ competing' = ~competing
    /\ Disturb(TRUE) /\ UNCHANGED <<rules, base, fresh>>

Foreign ==
    \/ \E c \in Chain, ports \in {{}, Port} : AddRule(c, ports)
    \/ \E r \in rules : DeleteRule(r)
    \/ Reload
    \/ Compete

(***************************************************************************)
(* Specification                                                           *)
(***************************************************************************)
Init ==
    /\ \E t \in Boot : rules = t.rules /\ base = t.base /\ competing = t.competing
    /\ fresh = 4
    /\ lock = Nobody
    /\ job = [p \in Proc |-> NoJob]
    /\ at = [p \in Proc |-> "idle"]
    /\ seen = [p \in Proc |-> NoView]
    /\ found = [p \in Proc |-> NotFound]
    /\ events = 0
    /\ quiet = TRUE /\ crossed = {}

Next ==
    \/ \E p \in Helper : \/ \E tag \in Rendered[p] : \E action \in {"start", "stop", "status"} :
                               Begin(p, action, tag)
                         \/ Flock(p) \/ ListRuleset(p) \/ ListChain(p) \/ Misread(p)
                         \/ Install(p) \/ Withdraw(p) \/ Reject(p)
    \/ \E p \in Script : \/ \E tag \in Rendered[p] : \E action \in {"apply", "rollback"} :
                               Begin(p, action, tag)
                         \/ Find(p) \/ Replace(p)
    \/ \E p \in Proc : Fail(p)
    \/ Foreign

Spec == Init /\ [][Next]_vars

(***************************************************************************)
(* Properties                                                              *)
(***************************************************************************)
Full(d) == \A s \in Slot : Cardinality(Exact(rules, s[1], s[2], d)) = 1

Doubled(d) == \E s \in Slot : Cardinality(Exact(rules, s[1], s[2], d)) > 1

\* Something is in the way of the redirects of d.
Obstructed(d) ==
    \/ competing \/ \E c \in Chain : base[c] = "other"
    \/ \E r \in rules : r.by # d /\ r.ports # {}

\* Helpers of one manifest or of two and the cutover scripts never redirect
\* one port of one chain twice, nor one that the previous rules redirect, as
\* long as other managers keep quiet and no listing is taken for an empty one.
OwnedOnce ==
    quiet => \A r1, r2 \in rules :
                SameSlot(r1, r2) => r1 = r2 \/ (r1.by = "plain" /\ r2.by = "plain")

\* Program p, rendered for d, changes the rules in a step.
Writes(p, d) == job[p].tag = d /\ at'[p] # at[p] /\ rules' # rules

\* Program p, rendered for d, ends in a step, and nothing has crossed it.
Answers(p, d, answer) ==
    p \notin crossed' /\ job[p].tag = d /\ at[p] \notin Ended /\ at'[p] = answer

\* No batch touches a rule of another manager, of another manifest, or, when a
\* helper sends it, the previous redirects: whatever has changed since the
\* handles were read.
OthersStay ==
    [][\A p \in Proc, d \in Digest : Writes(p, d) =>
          \A r \in rules \cup rules' :
              \/ r.by = d \/ (p \in Script /\ r.by = "plain")
              \/ r \in rules <=> r \in rules']_vars

\* The four redirects of a manifest appear and disappear together: where other
\* managers are quiet, a batch of a run that only fellow helpers could have
\* disturbed leaves all four of them, once each, or none.
AllOrNone ==
    [][quiet => \A p \in Proc \ crossed, d \in Digest : Writes(p, d) =>
          Full(d)' \/ (\A s \in Slot : Exact(rules', s[1], s[2], d) = {})]_vars

\* When start or status say yes, the four redirects are there and nothing is
\* in their way, at the moment when the lock is given back.
YesIsTrue ==
    [][\A p \in Helper, d \in Digest :
          Answers(p, d, "ok") /\ job[p].action # "stop" => Full(d)' /\ ~Obstructed(d)']_vars

\* start converges: it refuses only what is in its way, so that it completes
\* what an interruption or others have left of the four redirects; stop
\* refuses nothing but duplicates.
NoIsTrue ==
    [][\A p \in Helper, d \in Digest : Answers(p, d, "refused") =>
          /\ job[p].action = "start" => Obstructed(d) \/ Doubled(d)
          /\ job[p].action = "stop" => Doubled(d)]_vars
=============================================================================
