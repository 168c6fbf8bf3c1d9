---------------------------- MODULE NodeAdmission ----------------------------
(***************************************************************************)
(* What src/node-admission.js wants of the two documents of a LocalLLM     *)
(* node, /readyz and its capabilities, before a gateway admits it.         *)
(* Operators on the documents, read at the time now; there is no state.    *)
(*                                                                         *)
(* Simplifications.  A time is a number of milliseconds.  The checks that  *)
(* compare one field with a constant are in the fields ready and passed,   *)
(* those of shape and length are left out.                                 *)
(***************************************************************************)
EXTENDS Integers, Sequences

CONSTANTS Role, Alias, Model, Digest, Release, Version, Protocol,
          RoleAlias,          \* the alias of each role
          RequiredProtocols

Second == 1000
Tolerance == 5 * Second

\* The bounds of max_age, in seconds: a minute and a week.
MinAge == 60
MaxAge == 604800

\* A required model and what it resolves to.
Requirement == [id : Model, resolved : Model, available : BOOLEAN]

Readyz == [ready : BOOLEAN, version : Version, required : Seq(Requirement)]

\* The result of one role's canary.
Evidence == [role : Role, alias : Alias, passed : BOOLEAN, model : Model, digest : Digest,
             time : Int]

\* The receipt of the canaries.
Receipt == [passed : BOOLEAN, release : Release, time : Int, max_age : Int, age : Int,
            required_roles : Seq(Role), roles : Seq(Evidence)]

Capabilities ==
    [ready : BOOLEAN, version : Version, release : Release,
     required : Seq(Requirement), protocols : SUBSET Protocol, functional : Receipt,
     models : Seq([id : Model, digest : Digest, aliases : SUBSET Alias])]

RequirementsOk(rs) ==
    /\ \A i \in DOMAIN rs : rs[i].available
    /\ \A i, j \in DOMAIN rs : rs[i].id = rs[j].id => i = j

Resolutions(rs) == {<<rs[i].id, rs[i].resolved>> : i \in DOMAIN rs}

IdentityOk(r, c) ==
    /\ r.ready /\ c.ready /\ c.version = r.version
    /\ RequirementsOk(r.required) /\ RequirementsOk(c.required)
    /\ Resolutions(r.required) = Resolutions(c.required)
    /\ RequiredProtocols \subseteq c.protocols

\* It is about the release that runs.
ReceiptOk(c, now) ==
    LET f == c.functional
    IN /\ f.passed /\ f.release = c.release
       /\ f.max_age \in MinAge .. MaxAge /\ f.age \in 0 .. f.max_age
       /\ f.time <= now + Tolerance

RolesOk(c) ==
    LET f == c.functional
    IN /\ f.required_roles # <<>>
       /\ \A i, j \in DOMAIN f.required_roles : f.required_roles[i] = f.required_roles[j] => i = j
       /\ \A i, j \in DOMAIN f.roles : f.roles[i].role = f.roles[j].role => i = j
       /\ \A i \in DOMAIN f.roles : f.roles[i].passed /\ f.roles[i].alias = RoleAlias[f.roles[i].role]
       /\ \A k \in DOMAIN f.required_roles : \E i \in DOMAIN f.roles :
             f.roles[i].role = f.required_roles[k]

\* The numbers of the results of the required roles.
RequiredEvidence(c) ==
    {i \in DOMAIN c.functional.roles : \E k \in DOMAIN c.functional.required_roles :
        c.functional.roles[i].role = c.functional.required_roles[k]}

\* Whole seconds, and none for what lies ahead.
AgeAt(now, time) == IF now < time THEN 0 ELSE (now - time) \div Second

Apart(a, b) == IF a < b THEN b - a ELSE a - b

\* The oldest of the required results is fresh enough, and as old as is said.
TimesOk(c, now) ==
    LET f == c.functional
        evidence == RequiredEvidence(c)
    IN /\ \A i \in evidence : f.roles[i].time <= now + Tolerance /\ f.roles[i].time <= f.time
       /\ \E o \in evidence :
             /\ \A i \in evidence : f.roles[o].time <= f.roles[i].time
             /\ AgeAt(now, f.roles[o].time) <= f.max_age
             /\ Apart(AgeAt(now, f.roles[o].time), f.age) * Second <= Tolerance

\* The models that a result is about.
Matching(c, e) ==
    {k \in DOMAIN c.models : /\ c.models[k].id = e.model /\ c.models[k].digest = e.digest
                             /\ e.alias \in c.models[k].aliases}

ProvenanceOk(c) ==
    \A i \in RequiredEvidence(c) : \E k \in DOMAIN c.models :
        Matching(c, c.functional.roles[i]) = {k}

Admissible(r, c, now) ==
    IdentityOk(r, c) /\ ReceiptOk(c, now) /\ RolesOk(c) /\ TimesOk(c, now) /\ ProvenanceOk(c)
=============================================================================
