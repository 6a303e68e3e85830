---------------------------- MODULE RaftLogStore ----------------------------
(***************************************************************************)
(* logStore of internal/log/distributed.go: a CommitLog, beginning at      *)
(* offset 1, in which Raft keeps its entries.  Raft numbers the entries    *)
(* itself and expects to find entry i under index i.  It stores entries at *)
(* the end, in batches; deletes a prefix behind a snapshot; and, on a      *)
(* follower whose last entries differ from the leader's, deletes those and *)
(* stores the leader's in their place.  Nothing closes this log.           *)
(* setupRaft sets its InitialOffset to 1, the index of Raft's first entry. *)
(***************************************************************************)
EXTENDS CommitLog, Sequences

CONSTANT MaxBatch       \* bound: entries Raft stores at once

VARIABLES
    entry,      \* external: what Raft has stored and not deleted, by index
    lastIndex,  \* external: the index of the last entry, as Raft knows it
    batch,      \* the entries StoreLogs was called with
    stored      \* how many of them its loop has appended

storeVars == <<entry, lastIndex, batch, stored>>
allVars == <<vars, storeVars>>

StoreInit ==
    /\ Init
    /\ entry = [i \in {} |-> EOF]
    /\ lastIndex = HighestOffset
    /\ batch = << >>
    /\ stored = 0

(* FirstIndex and LastIndex. *)
FirstIndex == LowestOffset
LastIndex == HighestOffset

(* What GetLog finds under an index. *)
GetLog(i) == IF i \in Window THEN ReadValue(i) ELSE EOF

(* Raft calls StoreLogs, which ignores the entries' own indexes. *)
StoreLogs(values) ==
    /\ batch = << >>
    /\ lastIndex + Len(values) < MaxOffset
    /\ batch' = values
    /\ stored' = 0
    /\ UNCHANGED <<vars, entry, lastIndex>>

(* An append of its loop; after the last one Raft takes them as stored. *)
StoreNext(n) ==
    LET v == batch[stored + 1]
        last == stored + 1 = Len(batch)
    IN  /\ batch # << >>
        /\ AppendStay(v, n) \/ AppendRoll(v, n)
        /\ stored' = stored + 1
        /\ batch' = IF last THEN << >> ELSE batch
        /\ lastIndex' = IF last THEN lastIndex + Len(batch) ELSE lastIndex
        /\ entry' = IF last
                    THEN [i \in DOMAIN entry \cup lastIndex + 1..lastIndex + Len(batch) |->
                             IF i > lastIndex THEN batch[i - lastIndex] ELSE entry[i]]
                    ELSE entry

(* An append fails: StoreLogs returns the error, and Raft takes none of    *)
(* the batch as stored.                                                    *)
StoreFails(n) ==
    /\ batch # << >>
    /\ AppendEOF(batch[stored + 1], n)
    /\ batch' = << >>
    /\ UNCHANGED <<entry, lastIndex, stored>>

(* DeleteRange calls Truncate(max), whatever min is. *)
DeleteRange(min, max) ==
    /\ batch = << >>
    /\ Truncate(max)
    /\ entry' = [i \in DOMAIN entry \ min..max |-> entry[i]]
    /\ UNCHANGED <<batch, stored>>

(* Behind a snapshot Raft keeps trailing entries. *)
DeletePrefix(max) ==
    /\ max < lastIndex
    /\ DeleteRange(FirstIndex, max)
    /\ UNCHANGED lastIndex

DeleteSuffix(min) ==
    /\ DeleteRange(min, lastIndex)
    /\ lastIndex' = min - 1

(* What Raft does on a node whose entries never differ from a leader's.    *)
ConflictFreeNext ==
    \/ \E k \in 1..MaxOffset :
          k <= MaxBatch /\ \E values \in [1..k -> Value] : StoreLogs(values)
    \/ \E n \in PayloadLen : StoreNext(n) \/ StoreFails(n)
    \/ \E i \in DOMAIN entry : DeletePrefix(i)
    \/ \E i \in DOMAIN entry : Read(i) /\ UNCHANGED storeVars

ConflictFreeSpec == StoreInit /\ [][ConflictFreeNext]_allVars

StoreNextState == ConflictFreeNext \/ \E i \in DOMAIN entry : DeleteSuffix(i)

StoreSpec == StoreInit /\ [][StoreNextState]_allVars

-----------------------------------------------------------------------------

(* An entry that Raft stored and did not delete is found under its index,  *)
(* through batches that fail, compactions and conflicts: logStore is the   *)
(* "log store where Raft stores the commands" (notes/Service               *)
(* cordination.md).                                                        *)
StoredIsFound == \A i \in DOMAIN entry : GetLog(i) = entry[i]

(* Between two calls of StoreLogs the last index that logStore reports is  *)
(* the one Raft gives its next entry after, also when no entry is left in  *)
(* the active segment, and no entry lies below the first index: Raft reads *)
(* both when it starts and when it compacts.                               *)
EndsAgree ==
    batch = << >> =>
        /\ LastIndex = lastIndex
        /\ DOMAIN entry \subseteq FirstIndex..LastIndex
=============================================================================
