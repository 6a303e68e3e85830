----------------------------- MODULE RecordLog -----------------------------
(***************************************************************************)
(* The log of one node as its finite-state machine and Replication see it: *)
(* the sequence of the records that fsm.applyAppend appended, which        *)
(* nothing but the Reset of fsm.Restore takes from it.                     *)
(***************************************************************************)
EXTENDS Sequences

CONSTANT Value

VARIABLE log

Init == log = << >>

Reset == log' = << >>

Next == (\E v \in Value : log' = Append(log, v)) \/ Reset

Spec == Init /\ [][Next]_log
=============================================================================
