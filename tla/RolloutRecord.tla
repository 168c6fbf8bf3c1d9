--------------------------- MODULE RolloutRecord ---------------------------
(***************************************************************************)
(* The record of the rollout journal (src/rollout-journal.js): its shape,  *)
(* the transitions its API allows and the history a stored record implies. *)
(*                                                                         *)
(* A phase is its index in EDGE_ROLLOUT_ACTIVATION_PHASES, 0 ..            *)
(* LastActivation, or one more than its index in                           *)
(* EDGE_ROLLOUT_ROLLBACK_PHASES, with 0 for a rollbackPhase of null.  The  *)
(* plan digest and the operation ID, which only ever travel together, are  *)
(* one authority.  A terminal receipt is its outcome and its sequence; its *)
(* other fields repeat the record's.  Timestamps, schemas and JSON are     *)
(* left out.                                                               *)
(***************************************************************************)
EXTENDS Integers

CONSTANTS Authority,       \* pairs of a plan digest and an operation ID
          NoRecord,
          LastActivation,  \* index of the last activation phase (the code: 8)
          LastRollback     \* index of the last rollback phase (the code: 6)

Outcomes == {"committed", "rolled-back", "failed"}

Record == [authority: Authority,
           act: 0 .. LastActivation,
           rb: 0 .. LastRollback + 1,
           outcome: Outcomes \cup {"none"},
           receiptSeq: Nat,
           seq: Nat]

ASSUME RecordConstants ==
    /\ LastActivation \in Nat
    /\ LastRollback \in Nat
    /\ NoRecord \notin Record

ActivationAccepted(r) == r.act = LastActivation
RollbackAccepted(r)   == r.rb = LastRollback + 1
Terminal(r)           == r.outcome # "none"

(***************************************************************************)
(* validateState and validateReceipt: what readState accepts               *)
(***************************************************************************)
Reachable(r) == r.seq = r.act + r.rb + (IF Terminal(r) THEN 1 ELSE 0)

ReceiptValid(r) ==
    /\ r.receiptSeq = IF Terminal(r) THEN r.seq ELSE 0
    /\ r.outcome = "committed" => ActivationAccepted(r) /\ r.rb = 0
    /\ r.outcome = "rolled-back" => RollbackAccepted(r)

Valid(r) == r \in Record /\ Reachable(r) /\ ReceiptValid(r)

(***************************************************************************)
(* The transitions.  s is the expectedSequence of the call, from and to    *)
(* its phases; the record that results is published as a whole.            *)
(***************************************************************************)
Initial(a) ==
    [authority |-> a, act |-> 0, rb |-> 0, outcome |-> "none", receiptSeq |-> 0,
     seq |-> 0]

\* Mutant: the sequence compare-and-swap is forgotten.
MutableAnySequence(r, s) == ~Terminal(r)

\* assertMutable and assertSequence.
Mutable(r, s) == ~Terminal(r) /\ r.seq = s

\* Mutant: activation goes on after the rollback has begun.
AdvancesActivationAlways(r, s, from, to) ==
    /\ Mutable(r, s)
    /\ r.act = from
    /\ to = from + 1
    /\ to \in 0 .. LastActivation

AdvancesActivation(r, s, from, to) ==
    /\ Mutable(r, s)
    /\ r.rb = 0
    /\ r.act = from
    /\ to = from + 1
    /\ to \in 0 .. LastActivation
ActivationAdvanced(r, to) == [r EXCEPT !.act = to, !.seq = @ + 1]

BeginsRollback(r, s, from) ==
    /\ Mutable(r, s)
    /\ r.rb = 0
    /\ r.act = from
RollbackBegun(r) == [r EXCEPT !.rb = 1, !.seq = @ + 1]

\* Mutant: the phase after the last one is not refused.
AdvancesRollbackPastEnd(r, s, from, to) ==
    /\ Mutable(r, s)
    /\ r.rb = from
    /\ from > 0
    /\ to = from + 1

\* A phase of null is no index, so it is neither advanced from nor to.
AdvancesRollback(r, s, from, to) ==
    /\ Mutable(r, s)
    /\ r.rb = from
    /\ from > 0
    /\ to = from + 1
    /\ to \in 1 .. LastRollback + 1
RollbackAdvanced(r, to) == [r EXCEPT !.rb = to, !.seq = @ + 1]

Finalizes(r, s, outcome) ==
    /\ Mutable(r, s)
    /\ outcome = "committed" => ActivationAccepted(r) /\ r.rb = 0
    /\ outcome = "rolled-back" => RollbackAccepted(r)
Finalized(r, outcome) ==
    [r EXCEPT !.outcome = outcome, !.seq = @ + 1, !.receiptSeq = r.seq + 1]

(***************************************************************************)
(* History                                                                 *)
(***************************************************************************)
\* t follows r by one transition.
Follows(r, t) ==
    /\ t.authority = r.authority
    /\ t.seq = r.seq + 1
    /\ ~Terminal(r)
    /\ \/ t.act = r.act + 1 /\ t.rb = r.rb /\ r.rb = 0 /\ ~Terminal(t)
       \/ t.act = r.act /\ t.rb = r.rb + 1 /\ ~Terminal(t)
       \/ t.act = r.act /\ t.rb = r.rb /\ Terminal(t)

\* r is t, or the journal passed through r on its way to t: activation first,
\* then rollback, the receipt last.
Precedes(r, t) ==
    \/ r = t
    \/ /\ r.authority = t.authority
       /\ ~Terminal(r)
       /\ r.seq < t.seq
       /\ r.act <= t.act
       /\ r.rb <= t.rb
       /\ r.rb > 0 => r.act = t.act
=============================================================================
