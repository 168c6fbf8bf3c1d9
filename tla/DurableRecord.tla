--------------------------- MODULE DurableRecord ---------------------------
(***************************************************************************)
(* What the rollout journal promises a controller (docs/rollout-safety.md, *)
(* "Durable journal boundary"): one record that is created once, moves     *)
(* only by legal transitions, ends with its terminal receipt, and of which *)
(* a power failure takes back nothing that a call has returned.            *)
(*                                                                         *)
(* RolloutJournal implements this promise with a leased, renamed and       *)
(* fsynced file.                                                           *)
(***************************************************************************)
EXTENDS RolloutRecord

VARIABLES record,  \* the journal's record, or NoRecord
          acked    \* the last record that a call returned as published

recordVars == <<record, acked>>

\* Everything acknowledged is part of the history of r.
KeepsAcked(r) == acked # NoRecord => r # NoRecord /\ Precedes(acked, r)

DurableInit == record = NoRecord /\ acked = NoRecord

Create ==
    /\ record = NoRecord
    /\ \E a \in Authority : record' = Initial(a)
    /\ UNCHANGED acked

Advance ==
    /\ record # NoRecord
    /\ record' \in Record
    /\ Valid(record')
    /\ Follows(record, record')
    /\ UNCHANGED acked

Acknowledge ==
    /\ record # NoRecord
    /\ acked' = record
    /\ UNCHANGED record

\* A power failure may take back steps that were not acknowledged yet.
Lose ==
    /\ record # NoRecord
    /\ KeepsAcked(record')
    /\ record' # NoRecord => record' \in Record /\ Precedes(record', record)
    /\ UNCHANGED acked

DurableNext == Create \/ Advance \/ Acknowledge \/ Lose

DurableSpec == DurableInit /\ [][DurableNext]_recordVars
=============================================================================
