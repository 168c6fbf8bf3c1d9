------------------------- MODULE PortRedirectProofs -------------------------
(***************************************************************************)
(* No port is redirected twice, no rule of others is touched, the four     *)
(* redirects of a manifest come and go together, and what the helper       *)
(* answers is so, for any helpers, scripts, manifests and bounds.          *)
(*                                                                         *)
(* LookInv: from a listing to its batch the lock keeps other helpers away, *)
(* and a cutover, which takes no lock, finds nothing to replace in a slot  *)
(* that start has seen free.  FoundInv: a rule that a script has found is  *)
(* alone in its slot for as long as it is there.                           *)
(*                                                                         *)
(* KnowInv: what a helper has listed is still so while nobody has crossed  *)
(* it, since the other helpers wait for its lock.  Then a decision is one  *)
(* about the table as it is (Informed), a batch completes what its listing *)
(* lacked (InstallCompletes), and the second look of start finds what the  *)
(* first one has found or the batch has put there.                         *)
(***************************************************************************)
EXTENDS PortRedirect, FiniteSetTheorems, TLAPS

Places == Ended \cup Chain \cup {"flock", "ruleset", "batch", "find", "replace"}
Locked == Chain \cup {"ruleset", "batch"}
Job == [action : {"none", "start", "stop", "status", "apply", "rollback"},
        tag : Digest \cup {Nobody}]
View == [again : BOOLEAN, competing : BOOLEAN,
         chain : [Chain -> [base : Base, rules : SUBSET Rule]]]

TypeInv ==
    /\ rules \subseteq Rule /\ base \in [Chain -> Base] /\ competing \in BOOLEAN
    /\ fresh \in Nat /\ \A r \in rules : r.handle < fresh
    /\ lock \in Proc \cup {Nobody}
    /\ job \in [Proc -> Job]
    /\ at \in [Proc -> Places]
    /\ seen \in [Proc -> View]
    /\ found \in [Proc -> [looked : Nat, rule : [Slot -> SUBSET Rule]]]
    /\ quiet \in BOOLEAN

\* A slot of the rules rs in which nothing is redirected.
Free(rs, s) == \A r \in rs : ~(r.chain = s[1] /\ r.ports = {s[2]} /\ r.by # "foreign")

ProgramInv ==
    \A p \in Proc : /\ at[p] \in Locked => lock = p /\ p \in Helper
                    /\ at[p] \notin Ended => job[p].tag \in Digest

LookInv ==
    quiet => \A p \in Proc : job[p].action = "start" =>
        /\ at[p] = "OUTPUT" => \A n \in Port :
              Free(seen[p].chain["PREROUTING"].rules, <<"PREROUTING", n>>)
                  => Free(rules, <<"PREROUTING", n>>)
        /\ at[p] = "batch" => \A s \in Missing(seen[p], job[p].tag) : Free(rules, s)

FoundInv ==
    \A p \in Proc, s \in Slot :
        /\ at[p] \notin {"find", "replace"} => found[p].rule[s] = {}
        /\ at[p] = "replace" => found[p].rule[s] # {}
        /\ \A r \in found[p].rule[s] :
              /\ r.chain = s[1] /\ r.ports = {s[2]} /\ r.by # "foreign" /\ r.handle < fresh
              /\ quiet /\ r \in rules => \A r2 \in rules : SameSlot(r, r2) => r2 \in found[p].rule[s]

RedirectInv == TypeInv /\ ProgramInv /\ LookInv /\ FoundInv /\ OwnedOnce

USE RedirectConstants

LEMMA IndexType == ASSUME NEW s \in Slot PROVE Index(s) \in 0 .. 3
BY DEF Slot, Index, Chain, Port

LEMMA InitInv == Init => RedirectInv
<1> SUFFICES ASSUME Init PROVE RedirectInv
    OBVIOUS
<1> PICK t \in Boot : rules = t.rules /\ base = t.base /\ competing = t.competing
    BY DEF Init
<1>1. /\ t.rules \subseteq Rule /\ \A r \in t.rules : r.handle < 4
      /\ t.base \in [Chain -> Base] /\ t.competing \in BOOLEAN
      /\ \A r1, r2 \in t.rules : SameSlot(r1, r2) => r1 = r2
    BY BootOnce
<1>2. TypeInv
  <2>1. job \in [Proc -> Job] /\ at \in [Proc -> Places]
    BY DEF Init, Job, NoJob, Places, Ended
  <2>2. seen \in [Proc -> View]
    BY DEF Init, View, NoView, Unlisted, Base
  <2>3. found \in [Proc -> [looked : Nat, rule : [Slot -> SUBSET Rule]]]
    BY DEF Init, NotFound
  <2> QED
    BY <1>1, <2>1, <2>2, <2>3 DEF Init, TypeInv
<1>3. ProgramInv /\ LookInv /\ FoundInv
    BY DEF Init, ProgramInv, LookInv, FoundInv, Locked, Chain, Ended, NoJob, NotFound
<1>4. OwnedOnce
    BY <1>1 DEF OwnedOnce
<1> QED
    BY <1>2, <1>3, <1>4 DEF RedirectInv

---------------------------------------------------------------------------
\* What a program may do.
ProgramStep(p) ==
    \/ \E action \in {"start", "stop", "status", "apply", "rollback"}, tag \in Digest :
          Begin(p, action, tag)
    \/ (Flock(p) /\ p \in Helper) \/ ListRuleset(p) \/ ListChain(p) \/ Misread(p)
    \/ Install(p) \/ Withdraw(p) \/ Reject(p) \/ Find(p) \/ Replace(p) \/ Fail(p)

OthersStep ==
    \/ \E c \in Chain, ports \in {{}, Port} : AddRule(c, ports)
    \/ \E r \in rules : DeleteRule(r)
    \/ Reload
    \/ Compete

LEMMA NextCases ==
    ASSUME Next PROVE OthersStep \/ \E p \in Proc : ProgramStep(p)
<1>1. \A p \in Proc : Rendered[p] \subseteq Digest
    OBVIOUS
<1> QED
    BY <1>1 DEF Next, OthersStep, ProgramStep, Foreign, Proc

\* New rules are rules.
LEMMA NewRules ==
    ASSUME TypeInv, ProgramInv, NEW p \in Proc, at[p] \notin Ended
    PROVE  /\ Added(p) \subseteq Rule /\ Substitutes(p) \subseteq Rule
           /\ \A r \in Added(p) \cup Substitutes(p) :
                 /\ r.handle >= fresh /\ r.handle < fresh + 4
                 /\ r.by # "foreign"
           /\ \A r \in Added(p) : \E s \in Missing(seen[p], job[p].tag) :
                 s \in Slot /\ r.chain = s[1] /\ r.ports = {s[2]}
           /\ \A r \in Substitutes(p) : \E s \in Slot : r.chain = s[1] /\ r.ports = {s[2]}
<1>1. job[p].tag \in Digest /\ To(p) \in Maker \ {"foreign"} /\ job[p].tag \in Maker \ {"foreign"}
    BY DEF ProgramInv, To, Maker
<1>2. Missing(seen[p], job[p].tag) \subseteq Slot
    BY DEF Missing
<1>3. \A s \in Slot : fresh + Index(s) \in Nat /\ fresh + Index(s) >= fresh
                      /\ fresh + Index(s) < fresh + 4
    BY IndexType DEF TypeInv
<1>4. \A s \in Slot : s[1] \in Chain /\ {s[2]} \subseteq Port
    BY DEF Slot
<1> QED
    BY <1>1, <1>2, <1>3, <1>4 DEF Added, Substitutes, Rule

LEMMA EndType ==
    ASSUME TypeInv, NEW p \in Proc, NEW how \in Ended, End(p, how)
    PROVE  /\ lock' \in Proc \cup {Nobody} /\ job' \in [Proc -> Job]
           /\ at' \in [Proc -> Places] /\ seen' \in [Proc -> View]
           /\ found' \in [Proc -> [looked : Nat, rule : [Slot -> SUBSET Rule]]]
<1>1. NoJob \in Job /\ NoView \in View /\ how \in Places
    BY DEF NoJob, Job, NoView, View, Unlisted, Base, Places
<1>2. NotFound \in [looked : Nat, rule : [Slot -> SUBSET Rule]]
    BY DEF NotFound
<1> QED
    BY <1>1, <1>2 DEF TypeInv, End

LEMMA JudgeRange ==
    ASSUME NEW p \in Proc, NEW v PROVE Judge(p, v) \in Ended \cup {"ruleset", "batch"}
BY DEF Judge, Ended

LEMMA ListedType ==
    ASSUME TypeInv, NEW p \in Proc, at[p] \in Chain,
           NEW listing \in [base : Base, rules : SUBSET Rule], Listed(p, listing)
    PROVE  /\ lock' \in Proc \cup {Nobody} /\ job' \in [Proc -> Job]
           /\ at' \in [Proc -> Places] /\ seen' \in [Proc -> View]
           /\ found' \in [Proc -> [looked : Nat, rule : [Slot -> SUBSET Rule]]]
<1> DEFINE v == [again |-> seen[p].again, competing |-> seen[p].competing,
                 chain |-> [seen[p].chain EXCEPT ![at[p]] = listing]]
<1>1. v \in View
    BY DEF TypeInv, View
<1>2. Judge(p, v) \in Ended \cup {"ruleset", "batch"} /\ Afresh \in View
  <2> HIDE DEF v
  <2> QED
    BY JudgeRange DEF Afresh, NoView, View, Unlisted, Base
<1>3. \/ at[p] = "PREROUTING" /\ seen' = [seen EXCEPT ![p] = v] /\ GoOn(p, "OUTPUT")
         /\ UNCHANGED <<lock, found>>
      \/ at[p] = "OUTPUT" /\ Decide(p, v)
    BY DEF Listed
<1> HIDE DEF v
<1> USE DEF TypeInv
<1>4. CASE at[p] = "PREROUTING"
  <2>1. /\ seen' = [seen EXCEPT ![p] = v] /\ at' = [at EXCEPT ![p] = "OUTPUT"]
        /\ UNCHANGED <<lock, found, job>>
    BY <1>3, <1>4 DEF GoOn
  <2> QED
    BY <1>1, <2>1 DEF Places, Chain
<1>5. CASE Judge(p, v) \in Ended /\ Decide(p, v)
    BY <1>5, EndType DEF Decide
<1>6. CASE Judge(p, v) \notin Ended /\ Decide(p, v)
  <2>1. /\ seen' = [seen EXCEPT ![p] = IF Judge(p, v) = "ruleset" THEN Afresh ELSE v]
        /\ at' = [at EXCEPT ![p] = Judge(p, v)] /\ UNCHANGED <<lock, found, job>>
    BY <1>6 DEF Decide, GoOn
  <2> QED
    BY <1>1, <1>2, <2>1 DEF Places
<1> QED
    BY <1>3, <1>4, <1>5, <1>6

\* Every step keeps the types.
LEMMA TypeStep ==
    ASSUME RedirectInv, [Next]_vars PROVE TypeInv'
<1> USE DEF RedirectInv
<1>0. CASE UNCHANGED vars
    BY <1>0 DEF TypeInv, vars
<1>1. CASE OthersStep
  <2>1. \A s \in Slot : /\ fresh + Index(s) \in Nat /\ fresh + Index(s) < fresh + 4
                        /\ s[1] \in Chain /\ {s[2]} \subseteq Port
    BY IndexType DEF TypeInv, Slot
  <2> USE DEF Disturb, TypeInv, memory
  <2>2. CASE \E c \in Chain, ports \in {{}, Port} : AddRule(c, ports)
    BY <2>2 DEF AddRule, Rule, Maker
  <2>3. CASE \E r \in rules : DeleteRule(r)
    BY <2>3 DEF DeleteRule
  <2>4. CASE Reload
    BY <2>1, <2>4 DEF Reload, Rule, Maker, Base
  <2>5. CASE Compete
    BY <2>5 DEF Compete
  <2> QED
    BY <1>1, <2>2, <2>3, <2>4, <2>5 DEF OthersStep
<1>2. ASSUME NEW p \in Proc, ProgramStep(p) PROVE TypeInv'
  <2> USE DEF table, memory, ghosts
  <2>1. ASSUME NEW action \in {"start", "stop", "status", "apply", "rollback"}, NEW tag \in Digest,
               Begin(p, action, tag)
        PROVE  TypeInv'
    BY <2>1 DEF Begin, TypeInv, Job, Places
  <2>2. CASE Flock(p)
    BY <2>2 DEF Flock, GoOn, TypeInv, Places
  <2>3. CASE ListRuleset(p)
    BY <2>3 DEF ListRuleset, GoOn, TypeInv, Places, View, Chain
  <2>4. CASE ListChain(p)
    <3>1. at[p] \in Chain /\ [base |-> base[at[p]], rules |-> InChain(at[p])] \in [base : Base, rules : SUBSET Rule]
      BY <2>4 DEF ListChain, TypeInv, InChain
    <3> QED
      BY <2>4, <3>1, ListedType DEF ListChain, TypeInv
  <2>5. CASE Misread(p)
    <3>1. at[p] \in Chain /\ Unlisted \in [base : Base, rules : SUBSET Rule]
      BY <2>5 DEF Misread, Unlisted, Base
    <3> QED
      BY <2>5, <3>1, ListedType DEF Misread, TypeInv
  <2>6. CASE Install(p)
    <3>1. Afresh \in View
      BY DEF Afresh, NoView, View, Unlisted, Base
    <3>2. at[p] \notin Ended
      BY <2>6 DEF Install, Ended
    <3>3. /\ rules' = rules \cup Added(p) /\ fresh' = fresh + 4
          /\ base' = [c \in Chain |-> "nat"] /\ seen' = [seen EXCEPT ![p] = Afresh]
          /\ at' = [at EXCEPT ![p] = "ruleset"] /\ UNCHANGED <<competing, lock, found, quiet, job>>
      BY <2>6 DEF Install, GoOn
    <3>4. /\ Added(p) \subseteq Rule
          /\ \A r \in Added(p) : r.handle < fresh + 4
      BY <3>2, NewRules
    <3>5. \A r \in rules : r.handle < fresh + 4
      BY DEF TypeInv, Rule
    <3> QED
      BY <3>1, <3>3, <3>4, <3>5 DEF TypeInv, Places, Base
  <2>7. CASE Withdraw(p)
    BY <2>7, EndType DEF Withdraw, TypeInv, Ended
  <2>8. CASE Reject(p)
    BY <2>8, EndType DEF Reject, TypeInv, Ended
  <2>9. CASE Find(p)
    <3> DEFINE slot == CHOOSE s \in Slot : Index(s) = found[p].looked
               now == [looked |-> found[p].looked + 1,
                       rule |-> [found[p].rule EXCEPT ![slot] = Exact(rules, slot[1], slot[2], From(p))]]
    <3>1. now \in [looked : Nat, rule : [Slot -> SUBSET Rule]]
      <4>1. Exact(rules, slot[1], slot[2], From(p)) \subseteq Rule
        BY DEF TypeInv, Exact
      <4>2. found[p].looked \in Nat /\ found[p].rule \in [Slot -> SUBSET Rule]
        BY DEF TypeInv
      <4> DEFINE match == Exact(rules, slot[1], slot[2], From(p))
                 rule == [found[p].rule EXCEPT ![slot] = match]
      <4>3. rule \in [Slot -> SUBSET Rule]
        <5> HIDE DEF match, slot
        <5> QED
          BY <4>1, <4>2 DEF match
      <4> QED
        BY <4>2, <4>3
    <3>2. \/ End(p, "refused")
          \/ /\ found' = [found EXCEPT ![p] = now]
             /\ GoOn(p, IF now.looked = 4 THEN "replace" ELSE "find")
             /\ UNCHANGED <<lock, seen>>
      BY <2>9 DEF Find
    <3>3. UNCHANGED <<rules, base, competing, fresh, quiet>>
      BY <2>9 DEF Find
    <3> HIDE DEF now
    <3>4. CASE End(p, "refused")
      BY <3>3, <3>4, EndType DEF TypeInv, Ended
    <3>5. CASE ~End(p, "refused")
      <4>1. /\ found' = [found EXCEPT ![p] = now] /\ UNCHANGED <<lock, seen, job>>
            /\ \E next \in {"replace", "find"} : at' = [at EXCEPT ![p] = next]
        BY <3>2, <3>5 DEF GoOn
      <4> QED
        BY <3>1, <3>3, <4>1 DEF TypeInv, Places
    <3> QED
      BY <3>4, <3>5
  <2>10. CASE Replace(p)
    <3>1. at[p] \notin Ended
      BY <2>10 DEF Replace, Ended
    <3>2. /\ rules' = (rules \ Replaced(p)) \cup Substitutes(p) /\ fresh' = fresh + 4
          /\ End(p, "ok") /\ UNCHANGED <<base, competing, quiet>>
      BY <2>10 DEF Replace
    <3>3. Substitutes(p) \subseteq Rule /\ \A r \in Substitutes(p) : r.handle < fresh + 4
      BY <3>1, NewRules
    <3>4. \A r \in rules : r.handle < fresh + 4
      BY DEF TypeInv, Rule
    <3>5. "ok" \in Ended
      BY DEF Ended
    <3> QED
      BY <3>2, <3>3, <3>4, <3>5, EndType DEF TypeInv
  <2>11. CASE Fail(p)
    BY <2>11, EndType DEF Fail, TypeInv, Ended
  <2> QED
    BY <1>2, <2>1, <2>2, <2>3, <2>4, <2>5, <2>6, <2>7, <2>8, <2>9, <2>10, <2>11 DEF ProgramStep
<1> QED
    BY <1>0, <1>1, <1>2, NextCases

---------------------------------------------------------------------------
\* A listing of the chain where p is moves p on by one of these.
LEMMA ListedMoves ==
    ASSUME TypeInv, NEW p \in Proc, at[p] \in Chain, NEW listing, Listed(p, listing)
    PROVE  \/ \E how \in Ended : End(p, how)
           \/ \E next \in {"OUTPUT", "ruleset", "batch"} : \E w :
                 /\ at' = [at EXCEPT ![p] = next] /\ seen' = [seen EXCEPT ![p] = w]
                 /\ UNCHANGED <<lock, found, job>>
<1> DEFINE v == [again |-> seen[p].again, competing |-> seen[p].competing,
                 chain |-> [seen[p].chain EXCEPT ![at[p]] = listing]]
<1>1. \/ at[p] = "PREROUTING" /\ seen' = [seen EXCEPT ![p] = v] /\ GoOn(p, "OUTPUT")
         /\ UNCHANGED <<lock, found>>
      \/ Decide(p, v)
    BY DEF Listed
<1> HIDE DEF v
<1>2. Judge(p, v) \in Ended \cup {"ruleset", "batch"}
    BY JudgeRange
<1>3. CASE at[p] = "PREROUTING" /\ seen' = [seen EXCEPT ![p] = v] /\ GoOn(p, "OUTPUT")
           /\ UNCHANGED <<lock, found>>
    BY <1>3 DEF GoOn
<1>4. CASE Decide(p, v) /\ Judge(p, v) \in Ended
    BY <1>4 DEF Decide
<1>5. CASE Decide(p, v) /\ Judge(p, v) \notin Ended
  <2>1. \E w : seen' = [seen EXCEPT ![p] = w]
    BY <1>5 DEF Decide
  <2>2. at' = [at EXCEPT ![p] = Judge(p, v)] /\ UNCHANGED <<lock, found, job>>
    BY <1>5 DEF Decide, GoOn
  <2> QED
    BY <1>2, <1>5, <2>1, <2>2
<1> QED
    BY <1>1, <1>3, <1>4, <1>5

\* A step of a program leaves the memory of the others alone.
LEMMA Local ==
    ASSUME TypeInv, NEW p \in Proc, ProgramStep(p)
    PROVE  /\ \A q \in Proc \ {p} : /\ at'[q] = at[q] /\ job'[q] = job[q]
                                    /\ seen'[q] = seen[q] /\ found'[q] = found[q]
                                    /\ lock = q => lock' = q
           /\ quiet' => quiet
           /\ at'[p] \notin Ended => at[p] \in Ended \/ job'[p] = job[p]
<1> USE DEF TypeInv, memory, ghosts
<1>1. ASSUME NEW action \in {"start", "stop", "status", "apply", "rollback"}, NEW tag \in Digest,
             Begin(p, action, tag)
      PROVE  /\ \A q \in Proc \ {p} : /\ at'[q] = at[q] /\ job'[q] = job[q]
                                      /\ seen'[q] = seen[q] /\ found'[q] = found[q]
                                      /\ lock = q => lock' = q
             /\ quiet' = quiet /\ at[p] \in Ended
    BY <1>1 DEF Begin
<1>2. ASSUME NEW how \in Ended, End(p, how), quiet' => quiet
      PROVE  /\ \A q \in Proc \ {p} : /\ at'[q] = at[q] /\ job'[q] = job[q]
                                      /\ seen'[q] = seen[q] /\ found'[q] = found[q]
                                      /\ lock = q => lock' = q
             /\ at'[p] \in Ended
    BY <1>2 DEF End
<1>4. CASE Flock(p) \/ ListRuleset(p) \/ Install(p)
    BY <1>4 DEF Flock, ListRuleset, Install, GoOn
<1>5. CASE ListChain(p) \/ Misread(p)
  <2>1. at[p] \in Chain /\ \E listing : Listed(p, listing)
    BY <1>5 DEF ListChain, Misread
  <2>2. quiet' => quiet
    BY <1>5 DEF ListChain, Misread
  <2>3. \/ \E how \in Ended : End(p, how)
        \/ \E next, v : /\ at' = [at EXCEPT ![p] = next] /\ seen' = [seen EXCEPT ![p] = v]
                        /\ UNCHANGED <<lock, found, job>>
    BY <2>1, ListedMoves
  <2> QED
    BY <1>2, <2>2, <2>3
<1>6. CASE Withdraw(p) \/ Reject(p) \/ Replace(p) \/ Fail(p)
  <2>1. quiet' = quiet /\ \E how \in Ended : End(p, how)
    BY <1>6 DEF Withdraw, Reject, Replace, Fail, Ended
  <2> QED
    BY <1>2, <2>1
<1>7. CASE Find(p)
  <2>1. quiet' = quiet
    BY <1>7 DEF Find
  <2>2. \/ End(p, "refused")
        \/ \E f, next : found' = [found EXCEPT ![p] = f] /\ GoOn(p, next) /\ seen' = seen
                        /\ lock' = lock
    BY <1>7 DEF Find
  <2>3. CASE End(p, "refused")
    BY <1>2, <2>1, <2>3 DEF Ended
  <2>4. CASE \E f, next : /\ found' = [found EXCEPT ![p] = f] /\ GoOn(p, next) /\ seen' = seen
                          /\ lock' = lock
    BY <2>1, <2>4 DEF GoOn
  <2> QED
    BY <2>2, <2>3, <2>4
<1> QED
    BY <1>1, <1>2, <1>4, <1>5, <1>6, <1>7 DEF ProgramStep

LEMMA ProgramInvStep ==
    ASSUME RedirectInv, [Next]_vars PROVE ProgramInv'
<1> USE DEF RedirectInv
<1>0. CASE UNCHANGED vars
    BY <1>0 DEF ProgramInv, vars
<1>1. CASE OthersStep
    BY <1>1 DEF OthersStep, AddRule, DeleteRule, Reload, Compete, Disturb, ProgramInv
<1>2. ASSUME NEW p \in Proc, ProgramStep(p) PROVE ProgramInv'
  <2>1. \A q \in Proc \ {p} : /\ at'[q] \in Locked => lock' = q /\ q \in Helper
                              /\ at'[q] \notin Ended => job'[q].tag \in Digest
    BY <1>2, Local DEF ProgramInv
  <2> USE DEF Places, Locked, Ended, Chain, TypeInv, ProgramInv
  <2> SUFFICES /\ at'[p] \in Locked => lock' = p /\ p \in Helper
               /\ at'[p] \notin Ended => job'[p].tag \in Digest
    BY <2>1
  <2>2. ASSUME NEW action \in {"start", "stop", "status", "apply", "rollback"}, NEW tag \in Digest,
               Begin(p, action, tag)
        PROVE  at'[p] \notin Locked /\ job'[p].tag \in Digest
    BY <2>2 DEF Begin
  <2>3. ASSUME NEW how \in Ended, End(p, how)
        PROVE  at'[p] \in Ended
    BY <2>3 DEF End
  <2>4. CASE Flock(p) /\ p \in Helper
    BY <2>4 DEF Flock, GoOn
  <2>5. CASE ListRuleset(p) \/ Install(p)
    BY <2>5 DEF ListRuleset, Install, GoOn
  <2>6. CASE ListChain(p) \/ Misread(p)
    <3>1. at[p] \in Chain /\ \E listing : Listed(p, listing)
      BY <2>6 DEF ListChain, Misread
    <3>2. \/ \E how \in Ended : End(p, how)
          \/ \E next \in {"OUTPUT", "ruleset", "batch"} :
                at' = [at EXCEPT ![p] = next] /\ lock' = lock /\ job' = job
      BY <3>1, ListedMoves
    <3> QED
      BY <2>3, <3>1, <3>2
  <2>7. CASE Withdraw(p) \/ Reject(p) \/ Replace(p) \/ Fail(p)
    <3>1. \E how \in Ended : End(p, how)
      BY <2>7 DEF Withdraw, Reject, Replace, Fail
    <3> QED
      BY <2>3, <3>1
  <2>8. CASE Find(p)
    <3>1. at[p] = "find" /\ (End(p, "refused") \/ \E next \in {"replace", "find"} : GoOn(p, next))
      BY <2>8 DEF Find
    <3> QED
      BY <2>3, <3>1 DEF GoOn
  <2> QED
    BY <1>2, <2>2, <2>3, <2>4, <2>5, <2>6, <2>7, <2>8 DEF ProgramStep
<1> QED
    BY <1>0, <1>1, <1>2, NextCases

---------------------------------------------------------------------------
\* What a step of a program makes of the rules.
LEMMA RulesMove ==
    ASSUME TypeInv, NEW p \in Proc, ProgramStep(p)
    PROVE  /\ rules' \subseteq rules \/ Install(p) \/ Replace(p)
           /\ fresh' \in Nat /\ fresh' >= fresh
<1> USE DEF TypeInv, table
<1>1. CASE \E action \in {"start", "stop", "status", "apply", "rollback"}, tag \in Digest :
              Begin(p, action, tag)
    BY <1>1 DEF Begin
<1>2. CASE Flock(p) \/ ListRuleset(p) \/ ListChain(p) \/ Misread(p) \/ Reject(p) \/ Find(p) \/ Fail(p)
    BY <1>2 DEF Flock, ListRuleset, ListChain, Misread, Reject, Find, Fail
<1>3. CASE Install(p) \/ Replace(p)
    BY <1>3 DEF Install, Replace
<1>4. CASE Withdraw(p)
    BY <1>4 DEF Withdraw
<1> QED
    BY <1>1, <1>2, <1>3, <1>4 DEF ProgramStep

\* start adds rules where nothing is redirected.
LEMMA InstallRoom ==
    ASSUME RedirectInv, quiet, NEW p \in Proc, Install(p), NEW r \in rules, NEW r2 \in Added(p)
    PROVE  ~SameSlot(r, r2)
<1>1. at[p] = "batch" /\ job[p].action = "start"
    BY DEF Install
<1>2. PICK s \in Missing(seen[p], job[p].tag) : s \in Slot /\ r2.chain = s[1] /\ r2.ports = {s[2]}
    BY <1>1, NewRules DEF RedirectInv, Ended
<1>3. Free(rules, s)
    BY <1>1, <1>2 DEF RedirectInv, LookInv
<1> QED
    BY <1>2, <1>3 DEF Free, SameSlot

\* A cutover finds a rule in every slot and takes out all that redirect there.
LEMMA ReplaceFound ==
    ASSUME RedirectInv, NEW p \in Proc, Replace(p), NEW s \in Slot
    PROVE  /\ ~Free(rules, s)
           /\ quiet => \A r \in rules :
                 r.chain = s[1] /\ r.ports = {s[2]} /\ r.by # "foreign" => r \in Replaced(p)
<1>1. at[p] = "replace" /\ Replaced(p) \subseteq rules
    BY DEF Replace
<1>2. PICK r3 \in found[p].rule[s] : r3.chain = s[1] /\ r3.ports = {s[2]} /\ r3.by # "foreign"
    BY <1>1 DEF RedirectInv, FoundInv
<1>3. r3 \in rules
    BY <1>1, <1>2 DEF Replaced
<1>4. quiet => \A r \in rules : SameSlot(r3, r) => r \in found[p].rule[s]
    BY <1>2, <1>3 DEF RedirectInv, FoundInv
<1>5. Free(rules, s) = FALSE
    BY <1>2, <1>3 DEF Free
<1> QED
    BY <1>2, <1>4, <1>5 DEF SameSlot, Replaced

LEMMA ReplaceRoom ==
    ASSUME RedirectInv, quiet, NEW p \in Proc, Replace(p), NEW r \in rules \ Replaced(p),
           NEW r2 \in Substitutes(p)
    PROVE  ~SameSlot(r, r2)
<1>1. PICK s \in Slot : r2.chain = s[1] /\ r2.ports = {s[2]}
    BY NewRules DEF RedirectInv, Replace, Ended
<1> QED
    BY <1>1, ReplaceFound DEF SameSlot

LEMMA Twins ==
    ASSUME NEW p \in Proc, NEW rs \in {Added(p), Substitutes(p)}, NEW r \in rs, NEW r2 \in rs,
           SameSlot(r, r2)
    PROVE  r = r2
<1>1. \E by : \A q \in rs : \E s \in Slot :
         q = [chain |-> s[1], ports |-> {s[2]}, by |-> by, handle |-> fresh + Index(s)]
    BY DEF Added, Substitutes, Missing
<1>2. PICK by : \A q \in rs : \E s \in Slot :
         q = [chain |-> s[1], ports |-> {s[2]}, by |-> by, handle |-> fresh + Index(s)]
    BY <1>1
<1>3. PICK s \in Slot, s2 \in Slot :
         /\ r = [chain |-> s[1], ports |-> {s[2]}, by |-> by, handle |-> fresh + Index(s)]
         /\ r2 = [chain |-> s2[1], ports |-> {s2[2]}, by |-> by, handle |-> fresh + Index(s2)]
    BY <1>2
<1>4. s[1] = s2[1] /\ s[2] = s2[2]
    BY <1>3 DEF SameSlot
<1>5. s = s2
    BY <1>4 DEF Slot
<1> QED
    BY <1>3, <1>5

\* Where others are quiet, no program is between a look at the table and its end.
LEMMA QuietOthers ==
    ASSUME OthersStep, quiet'
    PROVE  /\ quiet /\ at' = at /\ found' = found /\ job' = job /\ seen' = seen
           /\ \A p \in Proc : at[p] \in Ended \cup {"flock"}
<1>1. \E calm : quiet' = (quiet /\ calm /\ Engaged = {}) /\ UNCHANGED <<lock, job, at, memory>>
    BY DEF OthersStep, AddRule, DeleteRule, Reload, Compete, Disturb
<1> QED
    BY <1>1 DEF memory, Engaged, Running

LEMMA OnceStep ==
    ASSUME RedirectInv, [Next]_vars PROVE OwnedOnce'
<1> USE DEF RedirectInv
<1> SUFFICES ASSUME quiet', NEW r1 \in rules', NEW r2 \in rules', SameSlot(r1, r2)
             PROVE  r1 = r2 \/ (r1.by = "plain" /\ r2.by = "plain")
  BY DEF OwnedOnce, SameSlot
<1>0. ASSUME quiet, r1 \in rules, r2 \in rules
      PROVE  r1 = r2 \/ (r1.by = "plain" /\ r2.by = "plain")
    BY <1>0 DEF OwnedOnce
<1>1. CASE UNCHANGED vars
    BY <1>0, <1>1 DEF vars
<1>2. CASE OthersStep
  <2>1. quiet
    BY <1>2, QuietOthers
  <2>2. CASE \E c \in Chain, ports \in {{}, Port} : AddRule(c, ports)
    BY <1>0, <2>1, <2>2 DEF AddRule, SameSlot
  <2>3. CASE (\E r \in rules : DeleteRule(r)) \/ Compete
    BY <1>0, <2>1, <2>3 DEF DeleteRule, Compete
  <2>4. CASE Reload
    <3>1. \A r \in rules : r.by \in {"plain", "foreign"}
      BY <2>4 DEF Reload, Disturb, TypeInv, Rule, Maker
    <3>2. \A r \in rules' : r.by \in {"plain", "foreign"}
      BY <2>4, <3>1 DEF Reload
    <3> QED
      BY <3>2 DEF SameSlot
  <2> QED
    BY <1>2, <2>2, <2>3, <2>4 DEF OthersStep
<1>3. ASSUME NEW p \in Proc, ProgramStep(p)
      PROVE  r1 = r2 \/ (r1.by = "plain" /\ r2.by = "plain")
  <2>1. quiet
    BY <1>3, Local
  <2>2. CASE rules' \subseteq rules
    BY <1>0, <2>1, <2>2
  <2>3. CASE Install(p)
    <3>1. rules' = rules \cup Added(p)
      BY <2>3 DEF Install
    <3>2. SameSlot(r2, r1)
      BY DEF SameSlot
    <3> QED
      BY <1>0, <2>1, <2>3, <3>1, <3>2, InstallRoom, Twins
  <2>4. CASE Replace(p)
    <3>1. rules' = (rules \ Replaced(p)) \cup Substitutes(p)
      BY <2>4 DEF Replace
    <3>2. SameSlot(r2, r1)
      BY DEF SameSlot
    <3> QED
      BY <1>0, <2>1, <2>4, <3>1, <3>2, ReplaceRoom, Twins
  <2> QED
    BY <1>3, <2>2, <2>3, <2>4, RulesMove
<1> QED
    BY <1>1, <1>2, <1>3, NextCases

LEMMA FoundStep ==
    ASSUME RedirectInv, [Next]_vars PROVE FoundInv'
<1> USE DEF RedirectInv
<1>1. CASE UNCHANGED vars
    BY <1>1 DEF FoundInv, SameSlot, vars
<1>2. CASE OthersStep
  <2>1. at' = at /\ found' = found
    BY <1>2 DEF OthersStep, AddRule, DeleteRule, Reload, Compete, Disturb, memory
  <2>2. fresh' \in Nat /\ fresh' >= fresh
    <3>1. fresh' \in {fresh, fresh + 4}
      BY <1>2 DEF OthersStep, AddRule, DeleteRule, Reload, Compete
    <3> QED
      BY <3>1 DEF TypeInv
  <2>3. \A p \in Proc, s \in Slot : found[p].rule[s] \subseteq Rule
    BY DEF TypeInv
  <2>4. quiet' => \A p \in Proc, s \in Slot : found[p].rule[s] = {}
    BY <1>2, QuietOthers DEF FoundInv, Ended
  <2> QED
    BY <2>1, <2>2, <2>3, <2>4 DEF FoundInv, Rule, TypeInv
<1>3. ASSUME NEW p \in Proc, ProgramStep(p) PROVE FoundInv'
  <2>1. (quiet' => quiet) /\ fresh' \in Nat /\ fresh' >= fresh
    BY <1>3, Local, RulesMove
  <2>2. \A q \in Proc, s \in Slot : \A r \in found[q].rule[s] :
           /\ r.chain = s[1] /\ r.ports = {s[2]} /\ r.by # "foreign" /\ r.handle < fresh'
           /\ quiet' /\ r \in rules' =>
                 \A r2 \in rules' : SameSlot(r, r2) => r2 \in found[q].rule[s]
    <3> SUFFICES ASSUME NEW q \in Proc, NEW s \in Slot, NEW r \in found[q].rule[s]
                 PROVE  /\ r.chain = s[1] /\ r.ports = {s[2]} /\ r.by # "foreign" /\ r.handle < fresh'
                        /\ quiet' /\ r \in rules' =>
                              \A r2 \in rules' : SameSlot(r, r2) => r2 \in found[q].rule[s]
      OBVIOUS
    <3>1. /\ r.chain = s[1] /\ r.ports = {s[2]} /\ r.by # "foreign" /\ r.handle < fresh
          /\ quiet /\ r \in rules => \A r2 \in rules : SameSlot(r, r2) => r2 \in found[q].rule[s]
      BY DEF FoundInv
    <3>2. r.handle \in Nat /\ fresh \in Nat
      BY DEF TypeInv, Rule
    <3>3. ASSUME quiet', r \in rules', NEW r2 \in rules', SameSlot(r, r2)
          PROVE  r2 \in found[q].rule[s]
      <4>1. CASE rules' \subseteq rules
        BY <2>1, <3>1, <3>3, <4>1
      <4>2. CASE Install(p)
        <5>1. rules' = rules \cup Added(p) /\ \A n \in Added(p) : n.handle >= fresh
          BY <4>2, NewRules DEF Install, Ended
        <5>2. r \in rules
          BY <3>1, <3>2, <3>3, <5>1
        <5> QED
          BY <2>1, <3>1, <3>3, <4>2, <5>1, <5>2, InstallRoom
      <4>3. CASE Replace(p)
        <5>1. /\ rules' = (rules \ Replaced(p)) \cup Substitutes(p)
              /\ \A n \in Substitutes(p) : n.handle >= fresh
          BY <4>3, NewRules DEF Replace, Ended
        <5>2. r \in rules \ Replaced(p)
          BY <3>1, <3>2, <3>3, <5>1
        <5> QED
          BY <2>1, <3>1, <3>3, <4>3, <5>1, <5>2, ReplaceRoom
      <4> QED
        BY <1>3, <4>1, <4>2, <4>3, RulesMove
    <3> QED
      BY <2>1, <3>1, <3>2, <3>3
  <2>3. \A q \in Proc \ {p} : at'[q] = at[q] /\ found'[q] = found[q]
    BY <1>3, Local
  <2> DEFINE Ok(f) == \A s \in Slot :
                 /\ at'[p] \notin {"find", "replace"} => f.rule[s] = {}
                 /\ at'[p] = "replace" => f.rule[s] # {}
                 /\ \A r \in f.rule[s] :
                       /\ r.chain = s[1] /\ r.ports = {s[2]} /\ r.by # "foreign"
                       /\ r.handle < fresh'
                       /\ quiet' /\ r \in rules' =>
                             \A r2 \in rules' : SameSlot(r, r2) => r2 \in f.rule[s]
  <2>4. SUFFICES Ok(found'[p])
    <3> HIDE DEF Ok
    <3>1. \A q \in Proc \ {p}, s \in Slot :
             /\ at'[q] \notin {"find", "replace"} => found'[q].rule[s] = {}
             /\ at'[q] = "replace" => found'[q].rule[s] # {}
      BY <2>3 DEF FoundInv
    <3> QED
      BY <2>2, <2>3, <2>4, <3>1 DEF Ok, FoundInv, SameSlot
  <2>5. ASSUME found'[p] = found[p],
               at'[p] \notin {"find", "replace"} => at[p] \notin {"find", "replace"},
               at'[p] # "replace"
        PROVE  Ok(found'[p])
    BY <2>2, <2>5 DEF FoundInv
  <2>6. ASSUME NEW how \in Ended, End(p, how) PROVE Ok(found'[p])
    BY <2>6 DEF End, Ended, NotFound, TypeInv
  <2> HIDE DEF Ok
  <2>7. CASE \E action \in {"start", "stop", "status", "apply", "rollback"}, tag \in Digest :
               Begin(p, action, tag)
    BY <2>5, <2>7 DEF Begin, memory, TypeInv, Ended
  <2>8. CASE Flock(p) \/ ListRuleset(p) \/ Install(p)
    BY <2>5, <2>8 DEF Flock, ListRuleset, Install, GoOn, memory, TypeInv
  <2>9. CASE ListChain(p) \/ Misread(p)
    <3>1. at[p] \in Chain /\ \E listing : Listed(p, listing)
      BY <2>9 DEF ListChain, Misread
    <3>2. \/ \E how \in Ended : End(p, how)
          \/ \E next \in {"OUTPUT", "ruleset", "batch"} :
                at' = [at EXCEPT ![p] = next] /\ found' = found
      BY <3>1, ListedMoves
    <3> QED
      BY <2>5, <2>6, <3>1, <3>2 DEF Chain, TypeInv
  <2>10. CASE Withdraw(p) \/ Reject(p) \/ Replace(p) \/ Fail(p)
    <3>1. \E how \in Ended : End(p, how)
      BY <2>10 DEF Withdraw, Reject, Replace, Fail, Ended
    <3> QED
      BY <2>6, <3>1
  <2>11. CASE Find(p)
    <3> DEFINE slot == CHOOSE s \in Slot : Index(s) = found[p].looked
               match == Exact(rules, slot[1], slot[2], From(p))
               now == [looked |-> found[p].looked + 1,
                       rule |-> [found[p].rule EXCEPT ![slot] = match]]
    <3>1. /\ at[p] = "find" /\ UNCHANGED <<rules, fresh, quiet>>
          /\ \/ End(p, "refused")
             \/ /\ found' = [found EXCEPT ![p] = now]
                /\ now.looked = 4 => \A s \in Slot : Cardinality(now.rule[s]) = 1
                /\ at' = [at EXCEPT ![p] = IF now.looked = 4 THEN "replace" ELSE "find"]
      BY <2>11 DEF Find, GoOn, table, ghosts
    <3>2. CASE End(p, "refused")
      BY <2>6, <3>2 DEF Ended
    <3>3. \A s \in Slot : now.rule[s] = found[p].rule[s] \/ (s = slot /\ now.rule[s] = match)
      BY DEF TypeInv
    <3>4. \A s \in Slot : s = slot => \A r \in match :
             /\ r.chain = s[1] /\ r.ports = {s[2]} /\ r.by # "foreign" /\ r.handle < fresh
             /\ quiet => \A r2 \in rules : SameSlot(r, r2) => r2 \in match
      <4>1. From(p) # "foreign"
        BY <3>1 DEF From, ProgramInv, Ended
      <4> HIDE DEF slot
      <4> QED
        BY <4>1 DEF Exact, TypeInv, OwnedOnce, SameSlot
    <3> HIDE DEF now, match, slot
    <3>5. CASE ~End(p, "refused")
      <4>1. /\ found'[p] = now /\ rules' = rules /\ fresh' = fresh /\ quiet' = quiet
            /\ at'[p] \in {"find", "replace"}
            /\ at'[p] = "replace" => \A s \in Slot : Cardinality(now.rule[s]) = 1
        BY <3>1, <3>5 DEF TypeInv
      <4>2. at'[p] = "replace" => \A s \in Slot : now.rule[s] # {}
        <5>1. \A S : Cardinality(S) = 1 => S # {}
          BY FS_EmptySet
        <5> QED
          BY <4>1, <5>1
      <4>3. \A s \in Slot : \A r \in now.rule[s] :
               /\ r.chain = s[1] /\ r.ports = {s[2]} /\ r.by # "foreign" /\ r.handle < fresh
               /\ quiet /\ r \in rules =>
                     \A r2 \in rules : SameSlot(r, r2) => r2 \in now.rule[s]
        BY <3>3, <3>4 DEF FoundInv
      <4> QED
        BY <4>1, <4>2, <4>3 DEF Ok
    <3> QED
      BY <3>2, <3>5
  <2> QED
    BY <1>3, <2>7, <2>8, <2>9, <2>10, <2>11 DEF ProgramStep
<1> QED
    BY <1>1, <1>2, <1>3, NextCases

\* What start sees in the way in a listing is in the way.
LEMMA SeenFree ==
    ASSUME NEW v, NEW d, Compatible(v, d), NEW s \in Missing(v, d)
    PROVE  s \in Slot /\ Free(v.chain[s[1]].rules, s)
BY DEF Compatible, Overlaps, Missing, Owned, Exact, Free, Slot

LEMMA LookStep ==
    ASSUME RedirectInv, [Next]_vars PROVE LookInv'
<1> USE DEF RedirectInv
<1> DEFINE Fine(q) ==
        job[q].action = "start" =>
        /\ at[q] = "OUTPUT" => \A n \in Port :
              Free(seen[q].chain["PREROUTING"].rules, <<"PREROUTING", n>>)
                  => Free(rules, <<"PREROUTING", n>>)
        /\ at[q] = "batch" => \A s \in Missing(seen[q], job[q].tag) : Free(rules, s)
<1>0. quiet => \A q \in Proc : Fine(q)
    BY DEF LookInv
<1> SUFFICES ASSUME quiet', NEW q \in Proc, job'[q].action = "start"
             PROVE  /\ at'[q] = "OUTPUT" => \A n \in Port :
                          Free(seen'[q].chain["PREROUTING"].rules, <<"PREROUTING", n>>)
                              => Free(rules', <<"PREROUTING", n>>)
                    /\ at'[q] = "batch" =>
                          \A s \in Missing(seen'[q], job'[q].tag) : Free(rules', s)
    BY DEF LookInv, Free, Missing, Owned, Exact
<1>1. CASE UNCHANGED vars
    BY <1>0, <1>1 DEF vars
<1>2. CASE OthersStep
    BY <1>2, QuietOthers DEF Ended
<1>3. ASSUME NEW p \in Proc \ {q}, ProgramStep(p)
      PROVE  /\ at'[q] = "OUTPUT" => \A n \in Port :
                   Free(seen'[q].chain["PREROUTING"].rules, <<"PREROUTING", n>>)
                       => Free(rules', <<"PREROUTING", n>>)
             /\ at'[q] = "batch" => \A s \in Missing(seen'[q], job'[q].tag) : Free(rules', s)
  <2>1. quiet /\ Fine(q) /\ at'[q] = at[q] /\ job'[q] = job[q] /\ seen'[q] = seen[q]
    BY <1>0, <1>3, Local
  <2>2. CASE rules' \subseteq rules
    BY <2>1, <2>2 DEF Free
  <2>3. CASE Install(p)
    <3>1. at[q] \notin {"OUTPUT", "batch"}
      BY <1>3, <2>3 DEF Install, ProgramInv, Locked, Chain
    <3> QED
      BY <2>1, <3>1
  <2>4. CASE Replace(p)
    <3>1. \A s \in Slot : ~Free(rules, s)
      BY <1>3, <2>4, ReplaceFound
    <3>2. \A n \in Port : <<"PREROUTING", n>> \in Slot
      BY DEF Slot, Chain
    <3>3. Missing(seen[q], job[q].tag) \subseteq Slot
      BY DEF Missing
    <3> QED
      BY <2>1, <3>1, <3>2, <3>3
  <2> QED
    BY <1>3, <2>2, <2>3, <2>4, RulesMove
<1>4. CASE ProgramStep(q) /\ at'[q] \in {"OUTPUT", "batch"}
  <2>0. /\ ~\E how \in Ended : End(q, how)
        /\ \A next \in {"flock", "find", "replace", "ruleset", "PREROUTING"} : ~GoOn(q, next)
    BY <1>4 DEF End, GoOn, Ended, TypeInv
  <2>1. ~\E action \in {"start", "stop", "status", "apply", "rollback"}, tag \in Digest :
           Begin(q, action, tag)
    BY <1>4 DEF Begin, TypeInv
  <2>2. ~(Withdraw(q) \/ Reject(q) \/ Replace(q) \/ Fail(q))
    BY <2>0 DEF Withdraw, Reject, Replace, Fail, Ended
  <2>3. ~(Flock(q) \/ ListRuleset(q) \/ Install(q) \/ Find(q))
    BY <2>0 DEF Flock, ListRuleset, Install, Find, Ended
  <2>4. ListChain(q)
    BY <1>4, <2>1, <2>2, <2>3 DEF ProgramStep, Misread
  <2> DEFINE listing == [base |-> base[at[q]], rules |-> InChain(at[q])]
             v == [again |-> seen[q].again, competing |-> seen[q].competing,
                   chain |-> [seen[q].chain EXCEPT ![at[q]] = listing]]
  <2>5. /\ at[q] \in Chain /\ rules' = rules /\ quiet
        /\ \/ at[q] = "PREROUTING" /\ seen' = [seen EXCEPT ![q] = v] /\ GoOn(q, "OUTPUT")
           \/ at[q] = "OUTPUT" /\ Decide(q, v)
    BY <2>4 DEF ListChain, Listed, table, ghosts
  <2>6. v.chain[at[q]].rules = InChain(at[q])
        /\ \A c \in Chain \ {at[q]} : v.chain[c] = seen[q].chain[c]
    BY <2>5 DEF TypeInv, View
  <2> HIDE DEF v
  <2>7. \A c \in Chain, n \in Port : Free(InChain(c), <<c, n>>) => Free(rules, <<c, n>>)
    BY DEF Free, InChain
  <2>8. CASE at[q] = "PREROUTING" /\ seen' = [seen EXCEPT ![q] = v] /\ GoOn(q, "OUTPUT")
    BY <2>5, <2>6, <2>7, <2>8 DEF TypeInv, GoOn, Chain
  <2>9. CASE at[q] = "OUTPUT" /\ Decide(q, v)
    <3>1. /\ GoOn(q, Judge(q, v))
          /\ seen' = [seen EXCEPT ![q] = IF Judge(q, v) = "ruleset" THEN Afresh ELSE v]
          /\ Judge(q, v) \notin Ended
      BY <2>0, <2>9 DEF Decide
    <3>2. at'[q] = Judge(q, v) /\ job' = job
      BY <3>1 DEF GoOn, TypeInv
    <3>3. Judge(q, v) = "batch" /\ seen'[q] = v
      BY <1>4, <3>1, <3>2, JudgeRange DEF TypeInv, Ended
    <3>4. Compatible(v, job[q].tag)
      BY <3>2, <3>3 DEF Judge
    <3>5. ASSUME NEW s \in Missing(v, job[q].tag) PROVE Free(rules, s)
      <4>1. s \in Slot /\ Free(v.chain[s[1]].rules, s)
        BY <3>4, SeenFree
      <4>2. s = <<s[1], s[2]>> /\ s[1] \in Chain /\ s[2] \in Port
        BY <4>1 DEF Slot
      <4>3. CASE s[1] = "OUTPUT"
        BY <2>6, <2>7, <2>9, <4>1, <4>2, <4>3
      <4>4. CASE s[1] = "PREROUTING"
        <5>1. v.chain["PREROUTING"] = seen[q].chain["PREROUTING"]
          BY <2>6, <2>9 DEF Chain
        <5>2. Free(seen[q].chain["PREROUTING"].rules, <<"PREROUTING", s[2]>>)
          BY <4>1, <4>2, <4>4, <5>1
        <5>3. job[q].action = "start" /\ at[q] = "OUTPUT"
          BY <2>9, <3>2
        <5>4. Free(rules, <<"PREROUTING", s[2]>>)
          BY <1>0, <2>5, <4>2, <5>2, <5>3
        <5> QED
          BY <4>2, <4>4, <5>4
      <4> QED
        BY <4>2, <4>3, <4>4 DEF Chain
    <3> QED
      BY <2>5, <3>2, <3>3, <3>5
  <2> QED
    BY <2>5, <2>8, <2>9
<1>5. CASE ProgramStep(q) /\ at'[q] \notin {"OUTPUT", "batch"}
    BY <1>5
<1> QED
    BY <1>1, <1>2, <1>3, <1>4, <1>5, NextCases

\* Helpers of one manifest or of two and the cutover scripts never redirect
\* one port of one chain twice, nor one that the previous rules redirect, as
\* long as other managers keep quiet and no listing is taken for an empty one.
THEOREM PortsRedirectedOnce == Spec => []OwnedOnce
<1>1. RedirectInv /\ [Next]_vars => RedirectInv'
    BY TypeStep, ProgramInvStep, LookStep, FoundStep, OnceStep DEF RedirectInv
<1> QED
    BY InitInv, <1>1, PTL DEF Spec, RedirectInv

---------------------------------------------------------------------------
\* A cutover finds rules of its two managers only.
ScriptInv ==
    \A p \in Proc : at[p] \in {"find", "replace"} =>
        /\ p \in Script
        /\ \A s \in Slot : \A r \in found[p].rule[s] : r.by \in {"plain", job[p].tag}

LEMMA ScriptInvStep ==
    ASSUME RedirectInv, ScriptInv, [Next]_vars PROVE ScriptInv'
<1> USE DEF RedirectInv, TypeInv
<1>1. CASE UNCHANGED vars
    BY <1>1 DEF ScriptInv, vars
<1>2. CASE OthersStep
    BY <1>2 DEF OthersStep, AddRule, DeleteRule, Reload, Compete, Disturb, memory, ScriptInv
<1>3. ASSUME NEW p \in Proc, ProgramStep(p) PROVE ScriptInv'
  <2> SUFFICES ASSUME at'[p] \in {"find", "replace"}
               PROVE  /\ p \in Script
                      /\ \A s \in Slot : \A r \in found'[p].rule[s] : r.by \in {"plain", job'[p].tag}
    BY <1>3, Local DEF ScriptInv
  <2>0. /\ ~\E how \in Ended : End(p, how)
        /\ \A next \in {"ruleset", "PREROUTING"} : ~GoOn(p, next)
    BY DEF End, GoOn, Ended
  <2>1. CASE \E action \in {"start", "stop", "status", "apply", "rollback"}, tag \in Digest :
               Begin(p, action, tag)
    <3>1. found'[p] = found[p] /\ at[p] \in Ended /\ p \in Script
      BY <2>1 DEF Begin, memory, Proc
    <3> QED
      BY <3>1 DEF FoundInv, Ended
  <2>2. CASE Find(p)
    <3> DEFINE slot == CHOOSE s \in Slot : Index(s) = found[p].looked
               match == Exact(rules, slot[1], slot[2], From(p))
               now == [looked |-> found[p].looked + 1,
                       rule |-> [found[p].rule EXCEPT ![slot] = match]]
    <3>1. at[p] = "find" /\ found' = [found EXCEPT ![p] = now] /\ job' = job
      BY <2>0, <2>2 DEF Find, GoOn, Ended
    <3>2. \A r \in match : r.by \in {"plain", job[p].tag}
      BY DEF Exact, From
    <3>3. \A s \in Slot : now.rule[s] = found[p].rule[s] \/ now.rule[s] = match
      OBVIOUS
    <3> HIDE DEF now, match, slot
    <3> QED
      BY <3>1, <3>2, <3>3 DEF ScriptInv
  <2>3. ~(Withdraw(p) \/ Reject(p) \/ Replace(p) \/ Fail(p))
    BY <2>0 DEF Withdraw, Reject, Replace, Fail, Ended
  <2>4. ~(Flock(p) \/ ListRuleset(p) \/ Install(p))
    BY <2>0 DEF Flock, ListRuleset, Install
  <2>5. ~(ListChain(p) \/ Misread(p))
    <3> SUFFICES ASSUME at[p] \in Chain, \E listing : Listed(p, listing) PROVE FALSE
      BY DEF ListChain, Misread
    <3>1. \/ \E how \in Ended : End(p, how)
          \/ \E next \in {"OUTPUT", "ruleset", "batch"} : at' = [at EXCEPT ![p] = next]
      BY ListedMoves
    <3> QED
      BY <2>0, <3>1
  <2> QED
    BY <1>3, <2>1, <2>2, <2>3, <2>4, <2>5 DEF ProgramStep
<1> QED
    BY <1>1, <1>2, <1>3, NextCases

\* No batch touches a rule of another manager, of another manifest, or, when a
\* helper sends it, the previous redirects: whatever has changed since the
\* handles were read.
THEOREM OthersRulesStay == Spec => OthersStay
<1> DEFINE Kept == \A p \in Proc, d \in Digest : Writes(p, d) =>
          \A r \in rules \cup rules' :
              \/ r.by = d \/ (p \in Script /\ r.by = "plain")
              \/ r \in rules <=> r \in rules'
<1>1. RedirectInv /\ [Next]_vars => RedirectInv'
    BY TypeStep, ProgramInvStep, LookStep, FoundStep, OnceStep DEF RedirectInv
<1>2. Init => ScriptInv
    BY DEF Init, ScriptInv
<1>3. ASSUME RedirectInv, ScriptInv, [Next]_vars PROVE [Kept]_vars
  <2> USE DEF RedirectInv
  <2> SUFFICES ASSUME NEW p \in Proc, NEW d \in Digest, Writes(p, d), NEW r \in rules \cup rules'
               PROVE  \/ r.by = d \/ (p \in Script /\ r.by = "plain")
                      \/ r \in rules <=> r \in rules'
    OBVIOUS
  <2>1. job[p].tag = d /\ at'[p] # at[p] /\ rules' # rules
    BY DEF Writes
  <2>2. ProgramStep(p)
    <3>1. ~(UNCHANGED vars) /\ ~OthersStep
      BY <2>1 DEF vars, OthersStep, AddRule, DeleteRule, Reload, Compete, Disturb
    <3>2. PICK q \in Proc : ProgramStep(q)
      BY <1>3, <3>1, NextCases
    <3> QED
      BY <1>3, <2>1, <3>2, Local
  <2>3. CASE Install(p)
    BY <2>1, <2>3 DEF Install, Added
  <2>4. CASE Replace(p)
    <3>1. at[p] = "replace" /\ p \in Script
      BY <1>3, <2>4 DEF Replace, ScriptInv
    <3>2. \A n \in Replaced(p) \cup Substitutes(p) : n.by \in {"plain", d}
      BY <1>3, <2>1, <3>1 DEF Replaced, Substitutes, To, ScriptInv
    <3> QED
      BY <2>4, <3>1, <3>2 DEF Replace
  <2>5. CASE Withdraw(p)
    BY <2>1, <2>5 DEF Withdraw, Doomed, Owned, Exact
  <2>6. CASE Install(p) \/ Replace(p) \/ Withdraw(p) \/ rules' = rules
    BY <2>1, <2>3, <2>4, <2>5, <2>6
  <2>7. CASE \E action \in {"start", "stop", "status", "apply", "rollback"}, tag \in Digest :
               Begin(p, action, tag)
    BY <2>1, <2>7 DEF Begin, table
  <2>8. CASE Flock(p) \/ ListRuleset(p) \/ ListChain(p) \/ Misread(p) \/ Reject(p) \/ Find(p) \/ Fail(p)
    BY <2>1, <2>8 DEF Flock, ListRuleset, ListChain, Misread, Reject, Find, Fail, table
  <2> QED
    BY <2>2, <2>6, <2>7, <2>8 DEF ProgramStep
<1> QED
    BY InitInv, <1>1, <1>2, <1>3, ScriptInvStep, PTL DEF Spec, OthersStay

---------------------------------------------------------------------------
\* What a run that nobody has crossed knows.
Listing(c) == [base |-> base[c], rules |-> InChain(c)]

\* The redirects of d are there, perhaps more than once.
Whole(d) ==
    /\ \A c \in Chain : base[c] = "nat"
    /\ \A s \in Slot : Exact(rules, s[1], s[2], d) # {}

\* A helper looks again after it has locked and before it sends a batch, and
\* its start sends one only when it has seen nothing in the way.
ViewInv ==
    \A p \in Proc :
        /\ at[p] \notin Locked => ~seen[p].again
        /\ at[p] = "batch" /\ job[p].action = "start" => Compatible(seen[p], job[p].tag)

\* What an uncrossed helper has listed is still so, and when start looks again
\* its redirects are there.
KnowInv ==
    \A p \in Proc \ crossed : at[p] \in Locked =>
        /\ at[p] # "ruleset" => seen[p].competing = competing
        /\ at[p] \in {"OUTPUT", "batch"} =>
              seen[p].chain["PREROUTING"] = Listing("PREROUTING")
        /\ at[p] = "batch" => seen[p].chain["OUTPUT"] = Listing("OUTPUT")
        /\ seen[p].again => Whole(job[p].tag)

\* Only three steps of programs change the table, and with them whoever is
\* engaged but does not wait for the same lock is crossed.
LEMMA TableMoves ==
    ASSUME TypeInv, NEW p \in Proc, ProgramStep(p)
    PROVE  /\ UNCHANGED table \/ Install(p) \/ Withdraw(p) \/ Replace(p)
           /\ crossed \ {p} \subseteq crossed'
           /\ Replace(p) => Engaged \ {p} \subseteq crossed'
<1>1. CASE \E action \in {"start", "stop", "status", "apply", "rollback"}, tag \in Digest :
              Begin(p, action, tag)
    BY <1>1 DEF Begin, Replace, Ended
<1>2. CASE Flock(p) \/ ListRuleset(p) \/ ListChain(p) \/ Reject(p) \/ Find(p) \/ Fail(p)
    BY <1>2 DEF Flock, ListRuleset, ListChain, Reject, Find, Fail, ghosts, Replace, Chain, Running, Ended
<1>3. CASE Misread(p)
    BY <1>3 DEF Misread, Replace, Chain
<1>4. CASE Install(p) \/ Withdraw(p) \/ Replace(p)
    BY <1>4 DEF Install, Withdraw, Replace
<1> QED
    BY <1>1, <1>2, <1>3, <1>4 DEF ProgramStep

\* A step of another program leaves the table as an uncrossed helper knows it.
LEMMA OthersKeepTable ==
    ASSUME TypeInv, ProgramInv, NEW p \in Proc, ProgramStep(p),
           NEW q \in (Proc \ {p}) \ crossed', at[q] \in Locked
    PROVE  UNCHANGED table /\ q \notin crossed
<1>1. lock = q /\ at[q] \notin Ended \cup {"flock"}
    BY DEF ProgramInv, Locked, Chain, Ended
<1>2. ~Install(p) /\ ~Withdraw(p)
    BY <1>1 DEF Install, Withdraw, ProgramInv, Locked
<1>3. q \in Engaged
    BY <1>1 DEF Engaged, Running
<1> QED
    BY <1>2, <1>3, TableMoves

\* A listing of a chain that is true, added to what is known.
LEMMA ListChainMoves ==
    ASSUME TypeInv, NEW p \in Proc, ListChain(p)
    PROVE  \E v \in View :
              /\ v.again = seen[p].again /\ v.competing = seen[p].competing
              /\ v.chain[at[p]] = Listing(at[p])
              /\ \A c \in Chain \ {at[p]} : v.chain[c] = seen[p].chain[c]
              /\ \/ /\ at[p] = "PREROUTING" /\ at' = [at EXCEPT ![p] = "OUTPUT"]
                    /\ seen' = [seen EXCEPT ![p] = v] /\ job' = job
                 \/ at[p] = "OUTPUT" /\ Decide(p, v)
<1> DEFINE listing == [base |-> base[at[p]], rules |-> InChain(at[p])]
           v == [again |-> seen[p].again, competing |-> seen[p].competing,
                 chain |-> [seen[p].chain EXCEPT ![at[p]] = listing]]
<1>1. at[p] \in Chain /\ Listed(p, listing)
    BY DEF ListChain
<1>2. listing \in [base : Base, rules : SUBSET Rule]
    BY <1>1 DEF TypeInv, InChain
<1>3. v \in View /\ v.chain[at[p]] = Listing(at[p])
      /\ \A c \in Chain \ {at[p]} : v.chain[c] = seen[p].chain[c]
    BY <1>1, <1>2 DEF TypeInv, View, Listing
<1>4. \/ /\ at[p] = "PREROUTING" /\ at' = [at EXCEPT ![p] = "OUTPUT"]
         /\ seen' = [seen EXCEPT ![p] = v] /\ job' = job
      \/ at[p] = "OUTPUT" /\ Decide(p, v)
    BY <1>1 DEF Listed, GoOn
<1>5. v.again = seen[p].again /\ v.competing = seen[p].competing
    OBVIOUS
<1> QED
    BY <1>3, <1>4, <1>5

\* How a decision goes on.
LEMMA DecideMoves ==
    ASSUME TypeInv, NEW p \in Proc, NEW v, Decide(p, v)
    PROVE  \/ Judge(p, v) \in Ended /\ End(p, Judge(p, v))
           \/ /\ Judge(p, v) = "ruleset" /\ at' = [at EXCEPT ![p] = "ruleset"]
              /\ seen' = [seen EXCEPT ![p] = Afresh] /\ job' = job
           \/ /\ Judge(p, v) = "batch" /\ at' = [at EXCEPT ![p] = "batch"]
              /\ seen' = [seen EXCEPT ![p] = v] /\ job' = job
<1>1. Judge(p, v) \in Ended \cup {"ruleset", "batch"}
    BY JudgeRange
<1> QED
    BY <1>1 DEF Decide, GoOn, Ended

LEMMA JudgeSays ==
    ASSUME NEW p \in Proc, NEW v
    PROVE  /\ Judge(p, v) = "ruleset" => ~v.again /\ Complete(v, job[p].tag)
           /\ Judge(p, v) = "batch" /\ job[p].action = "start" =>
                 ~v.again /\ Compatible(v, job[p].tag)
           /\ Judge(p, v) = "ok" /\ job[p].action # "stop" => Complete(v, job[p].tag)
           /\ Judge(p, v) = "refused" /\ job[p].action = "stop" => Duplicated(v, job[p].tag)
           /\ Judge(p, v) = "refused" /\ job[p].action = "start" =>
                 \/ ~Compatible(v, job[p].tag)
                 \/ v.again /\ ~Complete(v, job[p].tag)
BY DEF Judge

LEMMA ViewStep ==
    ASSUME TypeInv, ViewInv, [Next]_vars PROVE ViewInv'
<1> USE DEF TypeInv
<1> DEFINE Fine(place, work, v) ==
        /\ place \notin Locked => ~v.again
        /\ place = "batch" /\ work.action = "start" => Compatible(v, work.tag)
<1>0. \A q \in Proc : Fine(at[q], job[q], seen[q])
    BY DEF ViewInv
<1> SUFFICES \A q \in Proc : Fine(at'[q], job'[q], seen'[q])
    BY DEF ViewInv, Compatible, Overlaps, Duplicated, Owned, Exact
<1>1. CASE UNCHANGED <<at, job, seen>>
  <2> HIDE DEF Fine
  <2> QED
    BY <1>0, <1>1
<1>2. CASE OthersStep
    BY <1>1, <1>2 DEF OthersStep, AddRule, DeleteRule, Reload, Compete, Disturb, memory
<1>3. ASSUME NEW p \in Proc, ProgramStep(p)
      PROVE  \A q \in Proc : Fine(at'[q], job'[q], seen'[q])
  <2>1. Fine(at[p], job[p], seen[p])
    BY <1>0
  <2> SUFFICES Fine(at'[p], job'[p], seen'[p])
    <3> HIDE DEF Fine
    <3>1. \A q \in Proc \ {p} : Fine(at'[q], job'[q], seen'[q])
      BY <1>0, <1>3, Local
    <3> QED
      BY <3>1
  <2>2. ASSUME NEW how \in Ended, End(p, how) PROVE Fine(at'[p], job'[p], seen'[p])
    BY <2>2 DEF End, NoView, Ended
  <2>3. ASSUME at'[p] # "batch", seen'[p].again => at'[p] \in Locked
        PROVE  Fine(at'[p], job'[p], seen'[p])
    BY <2>3
  <2>4. CASE \E action \in {"start", "stop", "status", "apply", "rollback"}, tag \in Digest :
                Begin(p, action, tag)
    <3>1. at'[p] # "batch" /\ seen'[p] = seen[p] /\ at[p] \in Ended
      BY <2>4 DEF Begin, memory
    <3> QED
      BY <2>1, <2>3, <3>1 DEF Locked, Chain, Ended
  <2>5. CASE Flock(p) \/ ListRuleset(p) \/ Install(p)
    <3>1. at'[p] \in {"ruleset", "PREROUTING"}
      BY <2>5 DEF Flock, ListRuleset, Install, GoOn
    <3> QED
      BY <2>3, <3>1 DEF Locked, Chain
  <2>6. CASE Find(p)
    <3>1. CASE End(p, "refused")
      BY <2>2, <3>1 DEF Ended
    <3>2. CASE ~End(p, "refused")
      <4>1. at[p] = "find" /\ seen'[p] = seen[p] /\ at'[p] \in {"find", "replace"}
        BY <2>6, <3>2 DEF Find, GoOn
      <4> QED
        BY <2>1, <2>3, <4>1 DEF Locked, Chain
    <3> QED
      BY <3>1, <3>2
  <2>7. CASE Withdraw(p) \/ Reject(p) \/ Replace(p) \/ Fail(p)
    <3>1. \E how \in Ended : End(p, how)
      BY <2>7 DEF Withdraw, Reject, Replace, Fail, Ended
    <3> QED
      BY <2>2, <3>1
  <2>8. CASE ListChain(p) \/ Misread(p)
    <3>1. at[p] \in Chain /\ \E listing : Listed(p, listing)
      BY <2>8 DEF ListChain, Misread
    <3>2. \/ at'[p] = "OUTPUT"
          \/ \E v : Decide(p, v)
      BY <3>1 DEF Listed, GoOn, Chain
    <3>3. ASSUME NEW v, Decide(p, v) PROVE Fine(at'[p], job'[p], seen'[p])
      <4>1. CASE Judge(p, v) \in Ended /\ End(p, Judge(p, v))
        BY <2>2, <4>1
      <4>2. CASE at' = [at EXCEPT ![p] = "ruleset"]
        BY <2>3, <4>2 DEF Locked
      <4>3. CASE /\ Judge(p, v) = "batch" /\ at' = [at EXCEPT ![p] = "batch"]
                 /\ seen' = [seen EXCEPT ![p] = v] /\ job' = job
        <5>1. job[p].action = "start" => Compatible(v, job[p].tag)
          BY <4>3, JudgeSays
        <5> QED
          BY <4>3, <5>1 DEF Locked
      <4> QED
        BY <3>3, <4>1, <4>2, <4>3, DecideMoves
    <3> QED
      BY <2>3, <3>2, <3>3 DEF Locked, Chain
  <2> QED
    BY <1>3, <2>4, <2>5, <2>6, <2>7, <2>8 DEF ProgramStep
<1>4. CASE UNCHANGED vars
    BY <1>1, <1>4 DEF vars
<1> QED
    BY <1>2, <1>3, <1>4, NextCases

\* What the listings of an uncrossed helper show of the table.
Known(v) ==
    /\ v.competing = competing
    /\ \A c \in Chain : v.chain[c] = Listing(c)

\* True listings, field by field.
LEMMA KnownBase ==
    ASSUME NEW v, Known(v)
    PROVE  /\ v.competing = competing
           /\ \A c \in Chain : v.chain[c].base = base[c] /\ v.chain[c].rules = InChain(c)
<1> SUFFICES ASSUME NEW c \in Chain
             PROVE  v.chain[c].base = base[c] /\ v.chain[c].rules = InChain(c)
    BY DEF Known
<1>1. v.chain[c] = [base |-> base[c], rules |-> InChain(c)]
    BY DEF Known, Listing
<1> QED
    BY <1>1

\* True listings find the redirects that are there.
LEMMA KnownOwned ==
    ASSUME NEW v, Known(v), NEW d, NEW s \in Slot
    PROVE  Owned(v, d, s) = Exact(rules, s[1], s[2], d)
<1>1. s[1] \in Chain
    BY DEF Slot
<1>2. v.chain[s[1]].rules = {r \in rules : r.chain = s[1]}
    BY <1>1, KnownBase DEF InChain
<1> QED
    BY <1>2 DEF Owned, Exact

\* An uncrossed helper decides by the table as it is.
LEMMA Informed ==
    ASSUME TypeInv, KnowInv, NEW p \in Proc \ crossed, ListChain(p), at[p] = "OUTPUT"
    PROVE  \E v \in View : /\ Known(v) /\ v.again = seen[p].again /\ Decide(p, v)
<1>1. PICK v \in View :
         /\ v.again = seen[p].again /\ v.competing = seen[p].competing
         /\ v.chain["OUTPUT"] = Listing("OUTPUT")
         /\ v.chain["PREROUTING"] = seen[p].chain["PREROUTING"]
         /\ Decide(p, v)
    BY ListChainMoves DEF Chain
<1>2. seen[p].competing = competing /\ seen[p].chain["PREROUTING"] = Listing("PREROUTING")
    BY DEF KnowInv, Locked, Chain
<1> QED
    BY <1>1, <1>2 DEF Known, Chain

LEMMA KnowStep ==
    ASSUME TypeInv, ProgramInv, ViewInv, KnowInv, [Next]_vars PROVE KnowInv'
<1> USE DEF TypeInv
<1> DEFINE Knows(q) ==
        /\ at[q] # "ruleset" => seen[q].competing = competing
        /\ at[q] \in {"OUTPUT", "batch"} =>
              seen[q].chain["PREROUTING"] = Listing("PREROUTING")
        /\ at[q] = "batch" => seen[q].chain["OUTPUT"] = Listing("OUTPUT")
        /\ seen[q].again => Whole(job[q].tag)
<1> SUFFICES ASSUME NEW q \in Proc, q \notin crossed', at'[q] \in Locked
             PROVE  /\ at'[q] # "ruleset" => seen'[q].competing = competing'
                    /\ at'[q] \in {"OUTPUT", "batch"} =>
                          seen'[q].chain["PREROUTING"] = Listing("PREROUTING")'
                    /\ at'[q] = "batch" => seen'[q].chain["OUTPUT"] = Listing("OUTPUT")'
                    /\ seen'[q].again =>
                          /\ \A c \in Chain : base'[c] = "nat"
                          /\ \A s \in Slot : Exact(rules', s[1], s[2], job'[q].tag) # {}
    BY DEF KnowInv, Whole, Exact
<1>0. q \notin crossed /\ at[q] \in Locked => Knows(q)
    BY DEF KnowInv
<1>1. CASE UNCHANGED <<table, at, seen, job>> /\ crossed' = crossed
    BY <1>0, <1>1 DEF table, Listing, InChain, Whole
<1>2. CASE OthersStep
  <2>1. at' = at /\ crossed' = crossed \cup Engaged
    BY <1>2 DEF OthersStep, AddRule, DeleteRule, Reload, Compete, Disturb
  <2> QED
    BY <2>1 DEF Engaged, Running, Locked, Chain, Ended
<1>3. ASSUME NEW p \in Proc \ {q}, ProgramStep(p) PROVE UNCHANGED table /\ q \notin crossed
  <2>1. at'[q] = at[q]
    BY <1>3, Local
  <2> QED
    BY <1>3, <2>1, OthersKeepTable
<1>4. ASSUME NEW p \in Proc \ {q}, ProgramStep(p)
      PROVE  UNCHANGED table /\ Knows(q) /\ at'[q] = at[q] /\ seen'[q] = seen[q] /\ job'[q] = job[q]
  <2> HIDE DEF Knows
  <2>1. at'[q] = at[q] /\ seen'[q] = seen[q] /\ job'[q] = job[q]
    BY <1>4, Local
  <2> QED
    BY <1>0, <1>3, <1>4, <2>1
<1>5. ASSUME ProgramStep(q)
      PROVE  \/ Flock(q) \/ ListRuleset(q) \/ ListChain(q) \/ Install(q)
  <2>1. ~\E how \in Ended : End(q, how)
    BY DEF End, Ended, Locked, Chain
  <2>2. ~\E action \in {"start", "stop", "status", "apply", "rollback"}, tag \in Digest :
           Begin(q, action, tag)
    BY DEF Begin, Locked, Chain
  <2>3. ~(Withdraw(q) \/ Reject(q) \/ Replace(q) \/ Fail(q))
    BY <2>1 DEF Withdraw, Reject, Replace, Fail, Ended
  <2>4. ~Find(q)
    BY <2>1 DEF Find, GoOn, Ended, Locked, Chain
  <2>5. ~Misread(q)
    BY DEF Misread
  <2> QED
    BY <1>5, <2>2, <2>3, <2>4, <2>5 DEF ProgramStep
<1>6. CASE Flock(q)
  <2>1. at'[q] = "ruleset" /\ seen'[q] = seen[q] /\ at[q] = "flock"
    BY <1>6 DEF Flock, GoOn, memory
  <2> QED
    BY <2>1 DEF ViewInv, Locked, Chain
<1>7. CASE ListRuleset(q)
  <2>1. /\ at[q] = "ruleset" /\ at'[q] = "PREROUTING" /\ seen'[q].competing = competing
        /\ seen'[q].again = seen[q].again /\ UNCHANGED <<table, job>> /\ crossed' = crossed
    BY <1>7 DEF ListRuleset, GoOn, ghosts, View
  <2> QED
    BY <1>0, <2>1 DEF table, Whole, Locked
<1>8. CASE ListChain(q)
  <2>0. UNCHANGED <<table, ghosts>> /\ at[q] \in Locked /\ at[q] # "ruleset"
    BY <1>8 DEF ListChain, Locked, Chain
  <2>1. q \notin crossed /\ Knows(q)
    BY <1>0, <2>0 DEF ghosts
  <2>2. CASE at[q] = "PREROUTING"
    <3>1. PICK v \in View : /\ v.again = seen[q].again /\ v.competing = seen[q].competing
                            /\ v.chain["PREROUTING"] = Listing("PREROUTING")
                            /\ at' = [at EXCEPT ![q] = "OUTPUT"]
                            /\ seen' = [seen EXCEPT ![q] = v] /\ job' = job
      BY <1>8, <2>2, ListChainMoves
    <3> QED
      BY <2>0, <2>1, <2>2, <3>1 DEF table, Listing, InChain, Whole
  <2>3. CASE at[q] = "OUTPUT"
    <3>1. PICK v \in View : Known(v) /\ v.again = seen[q].again /\ Decide(q, v)
      BY <1>8, <2>1, <2>3, Informed
    <3>2. ~(Judge(q, v) \in Ended /\ End(q, Judge(q, v)))
      BY DEF End, Ended, Locked, Chain
    <3>3. CASE /\ Judge(q, v) = "ruleset" /\ at' = [at EXCEPT ![q] = "ruleset"]
               /\ seen' = [seen EXCEPT ![q] = Afresh] /\ job' = job
      <4>1. Complete(v, job[q].tag)
        BY <3>3, JudgeSays
      <4>2. \A s \in Slot : Exact(rules, s[1], s[2], job[q].tag) # {}
        BY <3>1, <4>1, KnownOwned DEF Complete, Missing
      <4>3. \A c \in Chain : base[c] = "nat"
        BY <3>1, <4>1, KnownBase DEF Complete
      <4> QED
        BY <2>0, <3>3, <4>2, <4>3 DEF table
    <3>4. CASE /\ Judge(q, v) = "batch" /\ at' = [at EXCEPT ![q] = "batch"]
               /\ seen' = [seen EXCEPT ![q] = v] /\ job' = job
      BY <2>0, <2>1, <3>1, <3>4 DEF table, Known, Listing, InChain, Whole, Chain
    <3> QED
      BY <3>1, <3>2, <3>3, <3>4, DecideMoves
  <2> QED
    BY <1>8, <2>2, <2>3 DEF ListChain, Chain
<1>9. CASE Install(q)
  <2>1. /\ at[q] = "batch" /\ rules' = rules \cup Added(q) /\ base' = [c \in Chain |-> "nat"]
        /\ at'[q] = "ruleset" /\ job' = job /\ crossed \subseteq crossed'
    BY <1>9 DEF Install, GoOn
  <2>2. Known(seen[q])
    BY <1>0, <2>1 DEF Locked, Known, Chain
  <2>3. ASSUME NEW s \in Slot PROVE Exact(rules', s[1], s[2], job'[q].tag) # {}
    <3>1. CASE s \in Missing(seen[q], job[q].tag)
      <4> DEFINE r == [chain |-> s[1], ports |-> {s[2]}, by |-> job[q].tag,
                       handle |-> fresh + Index(s)]
      <4>1. r \in Added(q) /\ r.chain = s[1] /\ r.ports = {s[2]} /\ r.by = job[q].tag
        BY <3>1 DEF Added
      <4> HIDE DEF r
      <4> QED
        BY <2>1, <4>1 DEF Exact
    <3>2. CASE s \notin Missing(seen[q], job[q].tag)
      <4>1. Exact(rules, s[1], s[2], job[q].tag) # {}
        BY <2>2, <3>2, KnownOwned DEF Missing
      <4> QED
        BY <2>1, <4>1 DEF Exact
    <3> QED
      BY <3>1, <3>2
  <2> QED
    BY <2>1, <2>3
<1>10. CASE UNCHANGED vars
    BY <1>1, <1>10 DEF vars, table
<1>11. ASSUME NEW p \in Proc \ {q}, ProgramStep(p)
       PROVE  /\ at'[q] # "ruleset" => seen'[q].competing = competing'
              /\ at'[q] \in {"OUTPUT", "batch"} =>
                    seen'[q].chain["PREROUTING"] = Listing("PREROUTING")'
              /\ at'[q] = "batch" => seen'[q].chain["OUTPUT"] = Listing("OUTPUT")'
              /\ seen'[q].again =>
                    /\ \A c \in Chain : base'[c] = "nat"
                    /\ \A s \in Slot : Exact(rules', s[1], s[2], job'[q].tag) # {}
    BY <1>4, <1>11 DEF table, Listing, InChain, Whole
<1> QED
    BY <1>2, <1>5, <1>6, <1>7, <1>8, <1>9, <1>10, <1>11, NextCases

---------------------------------------------------------------------------
\* Everything that has been shown of the states.
AnswerInv == RedirectInv /\ ScriptInv /\ ViewInv /\ KnowInv

LEMMA AnswerInvariant == Spec => []AnswerInv
<1>1. Init => ScriptInv /\ ViewInv /\ KnowInv
    BY DEF Init, ScriptInv, ViewInv, KnowInv, NoView, Locked, Chain
<1>2. AnswerInv /\ [Next]_vars => AnswerInv'
  <2>1. RedirectInv /\ [Next]_vars => RedirectInv'
    BY TypeStep, ProgramInvStep, LookStep, FoundStep, OnceStep DEF RedirectInv
  <2> QED
    BY <2>1, ScriptInvStep, ViewStep, KnowStep DEF AnswerInv, RedirectInv
<1> QED
    BY InitInv, <1>1, <1>2, PTL DEF Spec, AnswerInv

\* Handles are numbers below fresh, and so alike rules are finite in number.
LEMMA ExactFinite ==
    ASSUME TypeInv, NEW c, NEW n, NEW by
    PROVE  IsFiniteSet(Exact(rules, c, n, by))
<1> DEFINE S == Exact(rules, c, n, by)
           T == 0 .. (fresh - 1)
           f == [r \in S |-> r.handle]
<1>1. \A r \in S : /\ r \in Rule /\ r.handle \in T
                    /\ r.chain = c /\ r.ports = {n} /\ r.by = by
    BY DEF Exact, TypeInv, Rule
<1>2. ASSUME NEW r1 \in S, NEW r2 \in S, r1.handle = r2.handle PROVE r1 = r2
    BY <1>1, <1>2 DEF Rule
<1>3. IsFiniteSet(T)
    BY FS_Interval DEF TypeInv
<1> HIDE DEF S, T
<1>4. f \in Injection(S, T)
    BY <1>1, <1>2 DEF Injection, IsInjective
<1> HIDE DEF f
<1>5. IsFiniteSet(S)
    BY <1>3, <1>4, FS_Injection
<1> QED
    BY <1>5 DEF S

\* A finite set that is neither empty nor has two members has one.
LEMMA OneOrMore ==
    ASSUME NEW S, IsFiniteSet(S), S # {}, ~(Cardinality(S) > 1)
    PROVE  Cardinality(S) = 1
<1>1. Cardinality(S) \in Nat /\ Cardinality(S) # 0
    BY FS_CardinalityType, FS_EmptySet
<1> QED
    BY <1>1

\* Another program leaves the place of p alone.
LEMMA OwnStep ==
    ASSUME TypeInv, [Next]_vars, NEW p \in Proc, at'[p] # at[p]
    PROVE  ProgramStep(p)
<1>1. ~(UNCHANGED vars) /\ ~OthersStep
    BY DEF vars, OthersStep, AddRule, DeleteRule, Reload, Compete, Disturb
<1>2. PICK q \in Proc : ProgramStep(q)
    BY <1>1, NextCases
<1> QED
    BY <1>2, Local

\* What helper p answers by itself.
LEMMA AnswerMoves ==
    ASSUME TypeInv, ScriptInv, NEW p \in Helper, ProgramStep(p), p \notin crossed',
           at[p] \notin Ended, at'[p] \in {"ok", "refused"}
    PROVE  \/ at'[p] = "ok" /\ job[p].action = "stop"
           \/ ListChain(p) /\ at[p] = "OUTPUT" /\ p \notin crossed
<1> USE DEF TypeInv, Ended
<1>0. p \in Proc /\ ~Find(p) /\ ~Replace(p)
    BY DEF ScriptInv, Find, Replace, Proc
<1>1. ~\E action \in {"start", "stop", "status", "apply", "rollback"}, tag \in Digest :
         Begin(p, action, tag)
    BY DEF Begin
<1>2. ~(Flock(p) \/ ListRuleset(p) \/ Install(p) \/ Misread(p))
    BY <1>0 DEF Flock, ListRuleset, Install, Misread, GoOn
<1>3. ~(Reject(p) \/ Fail(p))
    BY <1>0 DEF Reject, Fail, End
<1>4. CASE Withdraw(p)
    BY <1>0, <1>4 DEF Withdraw, End
<1>5. CASE ListChain(p)
  <2>1. at[p] = "OUTPUT"
    BY <1>0, <1>5, ListChainMoves
  <2> QED
    BY <1>5, <2>1 DEF ListChain, ghosts
<1> QED
    BY <1>0, <1>1, <1>2, <1>3, <1>4, <1>5 DEF ProgramStep

\* When start or status say yes, the four redirects are there and nothing is
\* in their way, at the moment when the lock is given back.
THEOREM YesCanBeBelieved == Spec => YesIsTrue
<1> DEFINE Yes == \A p \in Helper, d \in Digest :
                     Answers(p, d, "ok") /\ job[p].action # "stop" => Full(d)' /\ ~Obstructed(d)'
<1>1. ASSUME AnswerInv, [Next]_vars PROVE [Yes]_vars
  <2> USE DEF AnswerInv, RedirectInv
  <2> SUFFICES ASSUME NEW p \in Helper, NEW d \in Digest, Answers(p, d, "ok"),
                      job[p].action # "stop"
               PROVE  Full(d)' /\ ~Obstructed(d)'
    OBVIOUS
  <2>1. p \in Proc /\ job[p].tag = d /\ at[p] \notin Ended /\ at'[p] = "ok" /\ p \notin crossed'
    BY DEF Answers, Proc
  <2>2. ListChain(p) /\ at[p] = "OUTPUT" /\ p \notin crossed
    BY <1>1, <2>1, OwnStep, AnswerMoves DEF Ended
  <2>3. PICK v \in View : Known(v) /\ Decide(p, v)
    BY <1>1, <2>1, <2>2, Informed
  <2>4. Judge(p, v) = "ok"
    BY <1>1, <2>1, <2>3, DecideMoves DEF End, TypeInv
  <2>5. Complete(v, d)
    BY <2>1, <2>4, JudgeSays
  <2>6. UNCHANGED table
    BY <2>2 DEF ListChain
  <2>7. ASSUME NEW s \in Slot PROVE Cardinality(Exact(rules, s[1], s[2], d)) = 1
    <3>1. Owned(v, d, s) # {} /\ ~(Cardinality(Owned(v, d, s)) > 1)
      BY <2>5 DEF Complete, Compatible, Missing, Duplicated
    <3> QED
      BY <1>1, <2>3, <3>1, KnownOwned, ExactFinite, OneOrMore
  <2>8. ~competing /\ \A c \in Chain : base[c] = "nat"
    BY <2>3, <2>5, KnownBase DEF Complete, Compatible
  <2>9. \A r \in rules : r.by # d => r.ports = {}
    BY <1>1, <2>3, <2>5, KnownBase DEF Complete, Compatible, Overlaps, InChain, TypeInv, Rule
  <2> QED
    BY <2>6, <2>7, <2>8, <2>9 DEF Full, Obstructed, table
<1> QED
    BY AnswerInvariant, <1>1, PTL DEF Spec, YesIsTrue

\* start converges: it refuses only what is in its way, so that it completes
\* what an interruption or others have left of the four redirects; stop
\* refuses nothing but duplicates.
THEOREM NoCanBeBelieved == Spec => NoIsTrue
<1> DEFINE No == \A p \in Helper, d \in Digest : Answers(p, d, "refused") =>
                    /\ job[p].action = "start" => Obstructed(d) \/ Doubled(d)
                    /\ job[p].action = "stop" => Doubled(d)
<1>1. ASSUME AnswerInv, [Next]_vars PROVE [No]_vars
  <2> USE DEF AnswerInv, RedirectInv
  <2> SUFFICES ASSUME NEW p \in Helper, NEW d \in Digest, Answers(p, d, "refused")
               PROVE  /\ job[p].action = "start" => Obstructed(d) \/ Doubled(d)
                      /\ job[p].action = "stop" => Doubled(d)
    OBVIOUS
  <2>1. p \in Proc /\ job[p].tag = d /\ at[p] \notin Ended /\ at'[p] = "refused" /\ p \notin crossed'
    BY DEF Answers, Proc
  <2>2. ListChain(p) /\ at[p] = "OUTPUT" /\ p \notin crossed
    BY <1>1, <2>1, OwnStep, AnswerMoves DEF Ended
  <2>3. PICK v \in View : Known(v) /\ v.again = seen[p].again /\ Decide(p, v)
    BY <1>1, <2>1, <2>2, Informed
  <2>4. Judge(p, v) = "refused"
    BY <1>1, <2>1, <2>3, DecideMoves DEF End, TypeInv
  <2>5. Duplicated(v, d) => Doubled(d)
    BY <2>3, KnownOwned DEF Duplicated, Doubled
  <2>6. ~Compatible(v, d) => Obstructed(d) \/ Doubled(d)
    <3>1. Overlaps(v, d) => Obstructed(d)
      BY <2>3, KnownBase DEF Overlaps, InChain, Obstructed
    <3>2. v.competing \/ (\E c \in Chain : v.chain[c].base = "other") => Obstructed(d)
      BY <2>3, KnownBase DEF Obstructed
    <3> QED
      BY <2>5, <3>1, <3>2 DEF Compatible
  <2>7. v.again => Complete(v, d) \/ ~Compatible(v, d)
    <3> SUFFICES ASSUME v.again PROVE Missing(v, d) = {} /\ \A c \in Chain : v.chain[c].base = "nat"
      BY DEF Complete
    <3>1. Whole(d)
      BY <1>1, <2>1, <2>2, <2>3 DEF KnowInv, Locked, Chain
    <3> QED
      BY <2>3, <3>1, KnownOwned, KnownBase DEF Whole, Missing
  <2> QED
    BY <2>1, <2>4, <2>5, <2>6, <2>7, JudgeSays
<1> QED
    BY AnswerInvariant, <1>1, PTL DEF Spec, NoIsTrue

\* A batch of an uncrossed start completes the four redirects.
LEMMA InstallCompletes ==
    ASSUME AnswerInv, NEW p \in Proc \ crossed, Install(p), NEW s \in Slot
    PROVE  Cardinality(Exact(rules', s[1], s[2], job[p].tag)) = 1
<1> USE DEF AnswerInv, RedirectInv
<1> DEFINE d == job[p].tag
           new == [chain |-> s[1], ports |-> {s[2]}, by |-> d, handle |-> fresh + Index(s)]
<1>1. at[p] = "batch" /\ job[p].action = "start" /\ rules' = rules \cup Added(p)
    BY DEF Install
<1>2. Known(seen[p]) /\ Compatible(seen[p], d)
    BY <1>1 DEF KnowInv, ViewInv, Known, Locked, Chain
<1>3. Exact(rules, s[1], s[2], d) = Owned(seen[p], d, s)
    BY <1>2, KnownOwned
<1>4. CASE s \in Missing(seen[p], d)
  <2>1. new \in Added(p)
    BY <1>4 DEF Added
  <2>2. ASSUME NEW r \in Added(p), r.chain = s[1], r.ports = {s[2]} PROVE r = new
    BY <2>1, <2>2, Twins, <1>1, NewRules DEF SameSlot, Ended
  <2>3. new.chain = s[1] /\ new.ports = {s[2]} /\ new.by = d
    OBVIOUS
  <2>4. Exact(rules, s[1], s[2], d) = {}
    BY <1>3, <1>4 DEF Missing
  <2> HIDE DEF new
  <2>5. Exact(rules', s[1], s[2], d) = {new}
    BY <1>1, <2>1, <2>2, <2>3, <2>4 DEF Exact
  <2> QED
    BY <2>5, FS_Singleton
<1>5. CASE s \notin Missing(seen[p], d)
  <2>1. ASSUME NEW r \in Added(p) PROVE ~(r.chain = s[1] /\ r.ports = {s[2]})
    <3>1. PICK s2 \in Missing(seen[p], d) : s2 \in Slot /\ r.chain = s2[1] /\ r.ports = {s2[2]}
      BY <1>1, NewRules DEF Ended
    <3> QED
      BY <1>5, <3>1 DEF Slot
  <2>2. Exact(rules', s[1], s[2], d) = Exact(rules, s[1], s[2], d)
    BY <1>1, <2>1 DEF Exact
  <2>3. Owned(seen[p], d, s) # {} /\ ~(Cardinality(Owned(seen[p], d, s)) > 1)
    BY <1>2, <1>5 DEF Missing, Compatible, Duplicated
  <2> QED
    BY <1>3, <2>2, <2>3, ExactFinite, OneOrMore
<1> QED
    BY <1>4, <1>5

\* A cutover puts one of its own in each slot, or leaves none of them.
LEMMA ReplaceCompletes ==
    ASSUME AnswerInv, quiet, NEW p \in Proc, Replace(p), NEW s \in Slot
    PROVE  IF job[p].action = "apply"
           THEN Cardinality(Exact(rules', s[1], s[2], job[p].tag)) = 1
           ELSE Exact(rules', s[1], s[2], job[p].tag) = {}
<1> USE DEF AnswerInv, RedirectInv
<1> DEFINE d == job[p].tag
           new == [chain |-> s[1], ports |-> {s[2]}, by |-> To(p), handle |-> fresh + Index(s)]
<1>1. at[p] = "replace" /\ rules' = (rules \ Replaced(p)) \cup Substitutes(p)
    BY DEF Replace
<1>2. d \in Digest /\ d \notin {"plain", "foreign"}
    BY <1>1 DEF ProgramInv, Ended
<1>3. ASSUME NEW r \in rules \ Replaced(p) PROVE ~(r.chain = s[1] /\ r.ports = {s[2]} /\ r.by = d)
    BY <1>2, ReplaceFound
<1>4. new \in Substitutes(p) /\ new.chain = s[1] /\ new.ports = {s[2]} /\ new.by = To(p)
    BY DEF Substitutes
<1>5. ASSUME NEW r \in Substitutes(p), r.chain = s[1], r.ports = {s[2]} PROVE r = new
  <2>1. r.by # "foreign" /\ new.by # "foreign"
    BY <1>1, <1>4, NewRules DEF Ended
  <2> QED
    BY <1>4, <1>5, <2>1, Twins DEF SameSlot
<1>6. \A r \in Substitutes(p) : r.by = To(p)
    BY DEF Substitutes
<1> HIDE DEF new
<1>7. CASE job[p].action = "apply"
  <2>1. To(p) = d
    BY <1>7 DEF To
  <2>2. Exact(rules', s[1], s[2], d) = {new}
    BY <1>1, <1>3, <1>4, <1>5, <2>1 DEF Exact
  <2> QED
    BY <1>7, <2>2, FS_Singleton
<1>8. CASE job[p].action # "apply"
  <2>1. To(p) = "plain"
    BY <1>8 DEF To
  <2>2. Exact(rules', s[1], s[2], d) = {}
    BY <1>1, <1>2, <1>3, <1>6, <2>1 DEF Exact
  <2> QED
    BY <1>8, <2>2
<1> QED
    BY <1>7, <1>8

\* The four redirects of a manifest appear and disappear together: where other
\* managers are quiet, a batch of a run that only fellow helpers could have
\* disturbed leaves all four of them, once each, or none.
THEOREM RedirectsComeTogether == Spec => AllOrNone
<1> DEFINE Together == quiet => \A p \in Proc \ crossed, d \in Digest : Writes(p, d) =>
          Full(d)' \/ (\A s \in Slot : Exact(rules', s[1], s[2], d) = {})
<1>1. ASSUME AnswerInv, [Next]_vars PROVE [Together]_vars
  <2> USE DEF AnswerInv, RedirectInv
  <2> SUFFICES ASSUME quiet, NEW p \in Proc \ crossed, NEW d \in Digest, Writes(p, d)
               PROVE  Full(d)' \/ (\A s \in Slot : Exact(rules', s[1], s[2], d) = {})
    OBVIOUS
  <2>1. ProgramStep(p) /\ job[p].tag = d /\ ~UNCHANGED table
    BY <1>1, OwnStep DEF Writes, table
  <2>2. CASE Install(p)
    BY <1>1, <2>1, <2>2, InstallCompletes DEF Full
  <2>3. CASE Replace(p)
    BY <1>1, <2>1, <2>3, ReplaceCompletes DEF Full
  <2>4. CASE Withdraw(p)
    <3>1. Known(seen[p]) /\ rules' = rules \ Doomed(p)
      BY <1>1, <2>4 DEF Withdraw, KnowInv, Known, Locked, Chain
    <3>2. \A s \in Slot : Exact(rules, s[1], s[2], d) \subseteq Doomed(p)
      BY <2>1, <3>1, KnownOwned DEF Doomed
    <3> QED
      BY <3>1, <3>2 DEF Exact
  <2> QED
    BY <1>1, <2>1, <2>2, <2>3, <2>4, TableMoves
<1> QED
    BY AnswerInvariant, <1>1, PTL DEF Spec, AllOrNone
=============================================================================
