----------------------------- MODULE SharedLog -----------------------------
(***************************************************************************)
(* What DistributedLog promises the gRPC server and its clients: one log   *)
(* that grows at its end, of which every node has a part that only grows.  *)
(* A produce call is answered on the node that took it, with the offset    *)
(* its record has in the log, when the node's part reaches that offset; a  *)
(* call that was turned away leaves no record, and one that failed may     *)
(* still leave one, later.  There is no leader, election or crash at this  *)
(* level: Replication implements it.                                       *)
(***************************************************************************)
EXTENDS Integers, Sequences, Functions

CONSTANTS Node, Call

VARIABLES
    log,        \* the calls whose records are in the log, in order
    view,       \* the part of it each node has
    call        \* what became of each call

vars == <<log, view, call>>

New          == [is |-> "new"]
Waiting(n)   == [is |-> "waiting", at |-> n]
Done(n, off) == [is |-> "done", at |-> n, offset |-> off]
Rejected     == [is |-> "rejected"]
Failed       == [is |-> "failed"]

Init ==
    /\ log = << >>
    /\ view = [n \in Node |-> << >>]
    /\ call = [c \in Call |-> New]

Take(c, n) ==
    /\ call[c] = New
    /\ call' = [call EXCEPT ![c] = Waiting(n)]
    /\ UNCHANGED <<log, view>>

Reject(c) ==
    /\ call[c] = New
    /\ call' = [call EXCEPT ![c] = Rejected]
    /\ UNCHANGED <<log, view>>

(* The record of a call that waits, or that failed, gets the next offset. *)
Enter(c) ==
    /\ call[c].is \in {"waiting", "failed"}
    /\ c \notin Range(log)
    /\ log' = Append(log, c)
    /\ UNCHANGED <<view, call>>

(* Node n comes to the next record, and answers the call that waits there. *)
See(n) ==
    LET off == Len(view[n])
        c == log[off + 1]
    IN  /\ off < Len(log)
        /\ view' = [view EXCEPT ![n] = Append(@, c)]
        /\ call' = IF call[c] = Waiting(n)
                   THEN [call EXCEPT ![c] = Done(n, off)] ELSE call
        /\ UNCHANGED log

Fail(calls) ==
    /\ \A c \in calls : call[c].is = "waiting"
    /\ call' = [c \in Call |-> IF c \in calls THEN Failed ELSE call[c]]
    /\ UNCHANGED <<log, view>>

Next ==
    \/ \E c \in Call, n \in Node : Take(c, n)
    \/ \E c \in Call : Reject(c) \/ Enter(c)
    \/ \E n \in Node : See(n)
    \/ \E calls \in SUBSET Call : Fail(calls)

Spec == Init /\ [][Next]_vars

-----------------------------------------------------------------------------

(* The calls that were answered with a greater offset than c was. *)
Following(c) ==
    {d \in Call : /\ call[c].is = "done" /\ call[d].is = "done"
                  /\ call[c].offset < call[d].offset}

(* A produce call that begins after another returned its offset gets a     *)
(* greater one (DistributedLog.Append), through any nodes.                 *)
RealTimeOrder ==
    \A c, d \in Call :
        [](call[c].is = "done" /\ call[d] = New =>
              [](call[d].is = "done" => d \in Following(c)))
=============================================================================
