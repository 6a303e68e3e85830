---------------------------- MODULE FsmSnapshot ----------------------------
(***************************************************************************)
(* The log in which a node keeps its clients' records (DistributedLog.log  *)
(* in internal/log/distributed.go): a CommitLog that fsm.applyAppend       *)
(* appends to and DistributedLog.Read reads, that DistributedLog.Close     *)
(* closes and setupLog opens again, and its snapshots.  No one truncates   *)
(* it.  Raft calls fsm.Snapshot between two calls of fsm.Apply, again and  *)
(* again, and snapshot.Persist in a goroutine of its own, while records    *)
(* are appended and read.  It calls fsm.Restore with the last snapshot     *)
(* when the node starts again (NewRaft), and with another node's when that *)
(* is sent (InstallSnapshot).                                              *)
(*                                                                         *)
(* Persist copies with io.Copy, which prefers WriteTo to Read: the readers *)
(* embed the store and through it the os.File, whose WriteTo they have.    *)
(* It reads from the file's own position, not from originReader.off, and   *)
(* does not flush the store's buffer.  What a full buffer writes by itself *)
(* is not modelled, so a frame is copied whole or not at all; nor is what  *)
(* an append to the closed files of a deleted log does.                    *)
(***************************************************************************)
EXTENDS CommitLog, Sequences

CONSTANT None       \* no Persist is under way

ASSUME NoneAssumption == \A bases \in SUBSET Offset : None # bases

VARIABLES
    position,   \* the own position of each store's file
    readers,    \* the segments Persist has still to copy, or None
    due,        \* the offsets readable when Snapshot was called
    copied,     \* the frames Persist has copied so far
    snapshot,   \* the last whole snapshot: its frames, and the offsets it lacks
    restored    \* NewRaft has restored what there was to restore

snapshotVars == <<readers, due, copied, snapshot>>
allVars == <<vars, position, snapshotVars, restored>>

Offsets(frames) == {f.off : f \in frames}

SnapshotInit ==
    /\ Init
    /\ position = [b \in Offset |-> 0]
    /\ readers = None
    /\ due = {}
    /\ copied = {}
    /\ snapshot = [image |-> {}, missing |-> {}]
    /\ restored = TRUE

(* Files are opened to append: a write leaves the position at the end.     *)
PositionAfter(b) == IF store'[b].file = store[b].file THEN position[b] ELSE store'[b].file

AppendOrRead ==
    \/ \E v \in Value, n \in PayloadLen :
          AppendStay(v, n) \/ AppendRoll(v, n) \/ AppendEOF(v, n)
    \/ \E off \in Offset : Read(off)

(* Mutant: a log that was not restored is in use. *)
UseLogEarly ==
    /\ AppendOrRead
    /\ position' = [b \in Offset |-> PositionAfter(b)]
    /\ UNCHANGED <<snapshotVars, restored>>

(* fsm.applyAppend and the server's reads, at any time. *)
UseLog ==
    /\ restored
    /\ AppendOrRead
    /\ position' = [b \in Offset |-> PositionAfter(b)]
    /\ UNCHANGED <<snapshotVars, restored>>

Snapshot ==
    /\ ~closed /\ restored /\ readers = None
    /\ readers' = segments
    /\ due' = Window
    /\ UNCHANGED <<vars, position, copied, snapshot, restored>>

(* What the WriteTo of b's file yields. *)
FileRest(b) == {f \in store[b].frames : position[b] <= f.pos /\ f.pos < store[b].file}

(* Persist copies the next reader of the MultiReader; after the last one   *)
(* the sink is closed, and the snapshot is there in place of the old one.  *)
Persist ==
    LET b == Min(readers)
        frames == copied \cup FileRest(b)
    IN  /\ readers # None /\ ~closed
        /\ position' = [position EXCEPT ![b] = store[b].file]
        /\ \/ /\ readers # {b}
              /\ readers' = readers \ {b}
              /\ copied' = frames
              /\ UNCHANGED <<due, snapshot>>
           \/ /\ readers = {b}
              /\ readers' = None /\ due' = {} /\ copied' = {}
              /\ snapshot' = [image |-> frames, missing |-> due \ Offsets(frames)]
        /\ UNCHANGED <<vars, restored>>

(* The log was deleted under Persist: a closed file cannot be read, and    *)
(* the sink is cancelled.                                                  *)
PersistFails ==
    /\ readers # None /\ closed
    /\ readers' = None /\ due' = {} /\ copied' = {}
    /\ UNCHANGED <<vars, position, snapshot, restored>>

(* fsm.Restore of the frames of a snapshot: without a record its loop ends *)
(* at once; with records it calls Reset, which deletes the log and fails.  *)
RestoreFrames(frames) ==
    /\ IF frames = {} THEN UNCHANGED vars ELSE Remove
    /\ position' = [b \in Offset |-> PositionAfter(b)]

(* The node shuts down (Raft waits for a snapshot half-way) or starts.     *)
Restart ==
    /\ readers = None
    /\ Close \/ Open
    /\ position' = [b \in Offset |-> 0]
    /\ restored' = FALSE
    /\ UNCHANGED snapshotVars

(* NewRaft restores the last snapshot, if there is one. *)
Restore ==
    /\ ~closed /\ ~restored
    /\ RestoreFrames(snapshot.image)
    /\ restored' = TRUE
    /\ UNCHANGED snapshotVars

(* Raft has stored another node's snapshot in place of its own.  Which     *)
(* records that holds makes no difference, only whether it holds any.      *)
Install ==
    \E frames \in {{}} \cup {{[pos |-> 0, off |-> InitialOffset, val |-> v]} : v \in Value} :
        /\ ~closed /\ restored
        /\ RestoreFrames(frames)
        /\ snapshot' = [image |-> frames, missing |-> {}]
        /\ UNCHANGED <<readers, due, copied, restored>>

SnapshotNext ==
    UseLog \/ Snapshot \/ Persist \/ PersistFails \/ Restart \/ Restore \/ Install

SnapshotSpec == SnapshotInit /\ [][SnapshotNext]_allVars

-----------------------------------------------------------------------------

(* Every offset that Append ever returned can be read, and no other: no    *)
(* roll, failed append, flush or restart makes a gap or loses an end, and  *)
(* fsm.Restore leaves nothing half deleted.                                *)
NothingLost == DOMAIN Contents = InitialOffset..(NextOffset - 1)

(* The records in the order of their offsets. *)
Records ==
    LET record == Contents
    IN  [i \in 1..(NextOffset - InitialOffset) |-> record[InitialOffset + i - 1]]

Sequence == INSTANCE RecordLog WITH log <- Records

(* The segmented log of a node, with its segments, buffers, snapshots and  *)
(* restarts, is a plain sequence that grows at its end or is reset.        *)
ImplementsRecordLog == Sequence!Spec

(* Only fsm.Restore ever takes a record away or puts another in its place: *)
(* in between, a node's log is what Replication takes it for.              *)
RecordsStay ==
    [][~(Restore \/ Install) =>
          \A off \in Readable :
              off \in Readable' /\ ReadValue(off)' = ReadValue(off)]_allVars

(* What Persist copies while records are appended and refused, segments    *)
(* roll and buffers are flushed is never at odds with the log: an offset   *)
(* that both have is the same record, later, after more snapshots and      *)
(* after restarts as well.  Nor is a snapshot that was installed: no       *)
(* record is ever appended to a log that one with records has emptied.     *)
ImageAgrees ==
    \A f \in copied \cup snapshot.image : f.off \in Readable => Contents[f.off] = f.val

(* A snapshot can stand for the log: once Persist has finished, it holds   *)
(* every record that could be read when fsm.Snapshot was called.           *)
(* Log.Reader is there to "support snapshots + restore a log" (log.go,     *)
(* above Reader).                                                          *)
SnapshotHoldsApplied == snapshot.missing = {}

(* The other half: fsm.Restore leaves the log with the snapshot's records. *)
RestoreKeepsApplied == restored => Offsets(snapshot.image) \subseteq Readable
=============================================================================
