----------------------------- MODULE OffsetLog -----------------------------
(***************************************************************************)
(* What internal/log.Log promises its callers (server.CommitLog, the       *)
(* finite-state machine and Raft's log store): a map from consecutive      *)
(* offsets to records.  A record, once appended, is read back unchanged    *)
(* until the front of the log is compacted away or the log is deleted;     *)
(* closing and reopening the log are not visible at this level.            *)
(***************************************************************************)
EXTENDS Integers

CONSTANTS Value, InitialOffset, MaxOffset

VARIABLES
    log,        \* the records that can be read, by offset
    next,       \* the offset the next record gets
    removed     \* the log was deleted from the disk

vars == <<log, next, removed>>

Nothing == [off \in {} |-> 0]

Init ==
    /\ log = Nothing
    /\ next = InitialOffset
    /\ removed = FALSE

Append(v) ==
    /\ ~removed
    /\ next < MaxOffset
    /\ log' = [off \in DOMAIN log \cup {next} |-> IF off = next THEN v ELSE log[off]]
    /\ next' = next + 1
    /\ UNCHANGED removed

(* Some offsets up to lowest are dropped, and none that follows a kept one. *)
Compact(lowest) ==
    /\ ~removed
    /\ lowest + 1 < next
    /\ \E kept \in SUBSET DOMAIN log :
          /\ \A off \in DOMAIN log : off > lowest => off \in kept
          /\ \A off \in kept : \A later \in DOMAIN log : later >= off => later \in kept
          /\ log' = [off \in kept |-> log[off]]
    /\ UNCHANGED <<next, removed>>

Remove ==
    /\ ~removed
    /\ removed' = TRUE
    /\ log' = Nothing
    /\ next' = InitialOffset

(* A new log is made in place of the deleted one. *)
Recreate ==
    /\ removed
    /\ removed' = FALSE
    /\ UNCHANGED <<log, next>>

Next ==
    \/ \E v \in Value : Append(v)
    \/ \E lowest \in 0..MaxOffset : Compact(lowest)
    \/ Remove
    \/ Recreate

Spec == Init /\ [][Next]_vars
=============================================================================
