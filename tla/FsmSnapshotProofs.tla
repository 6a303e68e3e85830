------------------------- MODULE FsmSnapshotProofs -------------------------
(***************************************************************************)
(* A node's log of client records is a sequence, for every size of record, *)
(* segment and index, an unaligned one included; only fsm.Restore takes it *)
(* away, and a snapshot of it is never at odds with it.                    *)
(***************************************************************************)
EXTENDS FsmSnapshot, CommitLogProofs

(* The log has its files, and its records are those of all offsets from    *)
(* the first to the next one.                                              *)
UInv ==
    /\ IInv /\ dir # {}
    /\ NothingLost
    /\ NextOffset \in Nat /\ InitialOffset <= NextOffset

(* Every record that can be read stays where it is. *)
Stay == \A off \in Readable : off \in Readable' /\ ReadValue(off)' = ReadValue(off)

LEMMA InitUInv == Init => UInv
<1> SUFFICES ASSUME Init PROVE UInv
  OBVIOUS
<1>1. IInv
  BY InitIInv
<1>2. Promise!Init /\ InitialOffset \in Nat
  BY InitImplements, CommitLogAssumption
<1>3. DOMAIN Contents = {} /\ NextOffset = InitialOffset
  BY <1>2 DEF Promise!Init, Promise!Nothing
<1>4. dir # {}
  BY <1>1, OpenHasFiles DEF Init, IInv
<1> QED
  BY <1>1, <1>2, <1>3, <1>4 DEF UInv, NothingLost

(* The next record comes at the end of the sequence. *)
LEMMA AppendKeepsUInv ==
    ASSUME UInv, IInv', dir' # {}, NEW v \in Value, Promise!Append(v)
    PROVE  UInv' /\ Stay /\ Records' = Append(Records, v)
<1> DEFINE next == NextOffset
           first == InitialOffset
<1>1. /\ first \in Nat /\ next \in Nat /\ first <= next
      /\ DOMAIN Contents = first..(next - 1)
  BY CommitLogAssumption DEF UInv, NothingLost
<1>2. /\ NextOffset' = next + 1
      /\ Contents' = [off \in DOMAIN Contents \cup {next} |->
                         IF off = next THEN v ELSE Contents[off]]
  BY DEF Promise!Append
<1>3. UInv'
  <2>1. DOMAIN Contents' = first..(next + 1 - 1)
    BY <1>1, <1>2
  <2> QED
    BY <1>1, <1>2, <2>1 DEF UInv, NothingLost
<1>4. Records' = Append(Records, v)
  <2> DEFINE n == next - first
             S == {Contents[off] : off \in DOMAIN Contents} \cup {v}
             r == [i \in 1..n |-> Contents[first + i - 1]]
             s == [i \in 1..(n + 1) |-> Contents'[first + i - 1]]
  <2>1. Records = r /\ Records' = s
    BY <1>1, <1>2 DEF Records
  <2>2. n \in Nat
    BY <1>1
  <2>3. ASSUME NEW i \in 1..n
        PROVE  /\ r[i] \in S /\ s[i] = r[i]
    <3>1. first + i - 1 \in DOMAIN Contents /\ first + i - 1 # next
      BY <1>1
    <3> QED
      BY <1>1, <1>2, <3>1
  <2>4. s[n + 1] = v
    <3>1. first + (n + 1) - 1 = next /\ n + 1 \in 1..(n + 1)
      BY <1>1
    <3> QED
      BY <1>2, <3>1
  <2>5. DOMAIN r = 1..n /\ DOMAIN s = 1..(n + 1)
    OBVIOUS
  <2> HIDE DEF n, S, r, s
  <2>6. r \in Seq(S) /\ Len(r) = n /\ v \in S
    <3>1. v \in S
      BY DEF S
    <3>2. r = [i \in 1..n |-> r[i]]
      BY DEF r
    <3>3. r \in [1..n -> S]
      BY <2>3, <3>2
    <3> QED
      BY <2>2, <2>5, <3>1, <3>3
  <2>7. s \in Seq(S) /\ Len(s) = n + 1
    <3>1. \A i \in 1..(n + 1) : s[i] \in S
      BY <2>2, <2>3, <2>4, <2>6
    <3> QED
      BY <2>2, <2>5, <3>1 DEF s
  <2>8. s = Append(r, v)
    BY <2>2, <2>3, <2>4, <2>6, <2>7
  <2> QED
    BY <2>1, <2>8
<1>5. Stay
  <2>1. ASSUME NEW off \in Readable
        PROVE  off \in DOMAIN Contents' /\ Contents'[off] = Contents[off]
    <3>1. off \in DOMAIN Contents
      BY DEF Contents
    <3>2. off # next
      BY <1>1, <3>1
    <3> QED
      BY <1>2, <3>1, <3>2
  <2> QED
    BY <2>1 DEF Stay, Contents
<1> QED
  BY <1>3, <1>4, <1>5

(* What no reader of the log can see leaves the sequence as it is. *)
LEMMA UnseenKeepsUInv ==
    ASSUME UInv, IInv', dir' # {}, UNCHANGED <<Contents, NextOffset, Removed>>
    PROVE  UInv'
  BY DEF UInv, NothingLost

LEMMA UnseenStays ==
    ASSUME UNCHANGED <<Contents, NextOffset, Removed>>
    PROVE  Stay /\ Records' = Records
<1>1. DOMAIN Contents = Readable /\ DOMAIN Contents' = Readable'
  BY DEF Contents
<1>2. \A off \in Readable : Contents[off] = ReadValue(off) /\ Contents'[off] = ReadValue(off)'
  BY <1>1 DEF Contents
<1> QED
  BY <1>1, <1>2 DEF Stay, Records

-----------------------------------------------------------------------------
(* The snapshot of a log is never at odds with it.                         *)

(* fsm.Restore of a snapshot with records has deleted the log, and what    *)
(* was made in its place is not restored: Restore would delete it again.   *)
Emptied ==
    /\ Readable = {} /\ NextOffset = InitialOffset
    /\ snapshot.image # {} /\ (Removed \/ ~restored)

(* A frame that was copied is what its offset reads as, or was refused:    *)
(* then no record is ever appended again.                                  *)
ImageOK(f) ==
    \/ f.off \in Readable /\ Contents[f.off] = f.val
    \/ f.off = NextOffset /\ IndexFull(index[activeSegment])

Frames == copied \cup snapshot.image

FramesOK == \A f \in Frames : ImageOK(f)

PInv ==
    /\ IInv
    /\ Emptied \/ (UInv /\ FramesOK)
    /\ readers # None =>
          readers # {} /\ ((readers \subseteq segments /\ ~closed) \/ Removed)
    /\ ~restored => readers = None

(* The next offset cannot be read yet. *)
LEMMA NextUnread ==
    ASSUME IInv, dir # {}
    PROVE  NextOffset \notin Readable
<1> SUFFICES ASSUME NextOffset \in Window PROVE FALSE
  BY DEF Readable
<1> DEFINE next == nextOffset[activeSegment]
<1>1. NextOffset = next
  BY DEF NextOffset, Removed
<1>2. PICK b \in segments : Holds(b, next)
  BY <1>1 DEF Window
<1>3. b \in Nat /\ activeSegment \in Nat /\ next \in Nat /\ nextOffset[b] \in Nat
  BY OffsetsAreNat DEF IInv
<1>4. activeSegment <= next /\ b <= activeSegment
  BY DEF IInv, TypeOK, SegmentsTile, SegmentsOK, SegmentOK
<1>5. CASE b = activeSegment
  BY <1>2, <1>3, <1>5 DEF Holds
<1>6. CASE b # activeSegment
  <2>1. nextOffset[b] <= activeSegment
    BY <1>3, <1>4, <1>6 DEF IInv, TypeOK, SegmentsTile
  <2> QED
    BY <1>2, <1>3, <1>4, <2>1 DEF Holds
<1> QED
  BY <1>5, <1>6

(* What Persist copies is in the log, or was refused. *)
LEMMA FramesAreOK ==
    ASSUME IInv, dir # {}, NEW b \in segments, NEW f \in store[b].frames
    PROVE  ImageOK(f)
<1>1. CASE b = activeSegment /\ f.off = nextOffset[b] /\ IndexFull(index[b])
  BY <1>1 DEF ImageOK, NextOffset, Removed
<1>2. CASE Holds(b, f.off) /\ index[b].entry[f.off - b].pos = f.pos
  <2>1. f.off \in Offset
    BY DEF IInv, TypeOK, StoreState, Frame
  <2>2. ReadValue(f.off) = f.val
    BY <1>2, <2>1, ReadValueIs DEF ReadsFrames
  <2>3. f.off \in Readable
    BY <1>2, <2>1 DEF Readable, Removed, Window
  <2> QED
    BY <2>2, <2>3 DEF ImageOK, Contents
<1> QED
  BY <1>1, <1>2, FramesAre

(* An append changes no record, and none follows a refused one. *)
LEMMA AppendKeepsImage ==
    ASSUME IInv, dir # {}, NEW v, Promise!Append(v),
           ~IndexFull(index[activeSegment]), NEW f, ImageOK(f)
    PROVE  ImageOK(f)'
<1>1. f.off \in Readable /\ Contents[f.off] = f.val
  BY DEF ImageOK
<1>2. f.off # NextOffset
  BY <1>1, NextUnread
<1>3. /\ DOMAIN Contents = Readable /\ DOMAIN Contents' = Readable'
      /\ Contents' = [off \in DOMAIN Contents \cup {NextOffset} |->
                         IF off = NextOffset THEN v ELSE Contents[off]]
  BY DEF Promise!Append, Contents
<1> QED
  BY <1>1, <1>2, <1>3 DEF ImageOK

(* What no reader of the log can see leaves the image as it was. *)
LEMMA UnseenKeepsImage ==
    ASSUME UNCHANGED <<Contents, NextOffset, Removed>>,
           IndexFull(index[activeSegment])' = IndexFull(index[activeSegment]),
           NEW f, ImageOK(f)
    PROVE  ImageOK(f)'
<1>1. DOMAIN Contents = Readable /\ DOMAIN Contents' = Readable'
  BY DEF Contents
<1> QED
  BY <1>1 DEF ImageOK

LEMMA StutterUnseen ==
    ASSUME UNCHANGED vars
    PROVE  /\ UNCHANGED <<Contents, NextOffset, Removed>>
           /\ IndexFull(index[activeSegment])' = IndexFull(index[activeSegment])
  BY DEF vars, Contents, Readable, Window, Holds, ReadValue, Owner, CanRead, HasEntry,
         FramesAt, FrameOf, NextOffset, Removed, IndexFull

(* An append puts one record at the end; a failed one, or a read, is not   *)
(* seen.                                                                   *)
LEMMA UseLogStep ==
    ASSUME PInv, IInv', (dir # {} => ReadsFrames)', UseLog
    PROVE  PInv' /\ Stay /\ [Sequence!Next]_Records
<1>1. UNCHANGED <<readers, Frames, restored>> /\ AppendOrRead /\ restored /\ IInv
  BY DEF UseLog, snapshotVars, PInv, Frames
<1>2. ~closed /\ closed' = closed /\ segments \subseteq segments'
  BY <1>1 DEF AppendOrRead, AppendStay, AppendRoll, AppendEOF, CanAppend, Read
<1>3. dir # {} /\ dir' # {}
  BY <1>1, <1>2, OpenHasFiles, OpenHasFilesAfter DEF IInv
<1>4. UInv /\ FramesOK
  BY <1>1, <1>3 DEF PInv, Emptied, Removed
<1>5. ASSUME UNCHANGED <<Contents, NextOffset, Removed>>, UNCHANGED <<index, activeSegment>>
      PROVE  UInv' /\ Stay /\ [Sequence!Next]_Records /\ \A f \in Frames : ImageOK(f)'
  <2>1. IndexFull(index[activeSegment])' = IndexFull(index[activeSegment])
    BY <1>5 DEF IndexFull
  <2> QED
    BY <1>3, <1>4, <1>5, <2>1, UnseenKeepsUInv, UnseenStays, UnseenKeepsImage DEF FramesOK
<1>6. UInv' /\ Stay /\ [Sequence!Next]_Records /\ \A f \in Frames : ImageOK(f)'
  <2>1. ASSUME NEW v \in Value, NEW n \in PayloadLen, AppendStay(v, n) \/ AppendRoll(v, n)
        PROVE  UInv' /\ Stay /\ [Sequence!Next]_Records /\ \A f \in Frames : ImageOK(f)'
    <3>1. Promise!Append(v)
      BY <1>1, <1>3, <2>1, AppendImplements
    <3>2. ~IndexFull(index[activeSegment])
      BY <2>1 DEF AppendStay, AppendRoll
    <3>3. \A f \in Frames : ImageOK(f)'
      BY <1>1, <1>3, <1>4, <3>1, <3>2, AppendKeepsImage DEF FramesOK
    <3>4. UInv' /\ Stay /\ Records' = Append(Records, v)
      BY <1>3, <1>4, <3>1, AppendKeepsUInv
    <3> QED
      BY <3>3, <3>4 DEF Sequence!Next
  <2>2. ASSUME NEW v \in Value, NEW n \in PayloadLen, AppendEOF(v, n)
        PROVE  UNCHANGED <<Contents, NextOffset, Removed>> /\ UNCHANGED <<index, activeSegment>>
    BY <1>1, <2>2, AppendEOFUnseen DEF AppendEOF
  <2>3. ASSUME NEW off \in Offset, Read(off)
        PROVE  UNCHANGED <<Contents, NextOffset, Removed>> /\ UNCHANGED <<index, activeSegment>>
    BY <1>1, <2>3, ReadUnseen DEF Read
  <2> QED
    BY <1>1, <1>5, <2>1, <2>2, <2>3 DEF AppendOrRead
<1>7. FramesOK'
  BY <1>1, <1>6 DEF FramesOK
<1> QED
  BY <1>1, <1>2, <1>3, <1>6, <1>7 DEF PInv, Removed

(* What leaves the log alone leaves its records and the image's frames.    *)
LEMMA StutterKeeps ==
    ASSUME IInv', UNCHANGED vars
    PROVE  /\ UInv => UInv'
           /\ \A f : ImageOK(f) => ImageOK(f)'
           /\ Readable' = Readable /\ NextOffset' = NextOffset /\ Removed' = Removed
           /\ Stay /\ [Sequence!Next]_Records
<1>1. DOMAIN Contents = Readable /\ DOMAIN Contents' = Readable'
  BY DEF Contents
<1>2. UNCHANGED <<Contents, NextOffset, Removed>>
  BY StutterUnseen
<1>3. UInv => UInv'
  BY <1>2, UnseenKeepsUInv DEF UInv, vars
<1>4. \A f : ImageOK(f) => ImageOK(f)'
  BY StutterUnseen, UnseenKeepsImage
<1> QED
  BY <1>1, <1>2, <1>3, <1>4, UnseenStays

LEMMA SnapshotKeepsPInv ==
    ASSUME PInv, IInv', Snapshot
    PROVE  PInv'
<1>1. UNCHANGED vars /\ UNCHANGED <<Frames, restored>> /\ ~closed /\ restored
  BY DEF Snapshot, Frames
<1>2. UInv /\ FramesOK
  BY <1>1, OpenHasFiles DEF PInv, IInv, Emptied, Removed
<1>3. UInv' /\ FramesOK'
  BY <1>1, <1>2, StutterKeeps DEF FramesOK
<1>4. readers' = segments /\ segments # {}
  BY DEF Snapshot, PInv, IInv, TypeOK
<1> QED
  BY <1>1, <1>3, <1>4 DEF PInv, vars

(* What Persist copies of the next segment is in the log, or was refused.  *)
LEMMA PersistKeepsPInv ==
    ASSUME PInv, IInv', Persist
    PROVE  PInv'
<1> DEFINE b == Min(readers)
<1>1. /\ UNCHANGED vars /\ UNCHANGED restored /\ readers # None /\ ~closed
      /\ Frames' \subseteq Frames \cup FileRest(b)
      /\ readers' = None \/ (readers' = readers \ {b} /\ readers # {b})
  BY DEF Persist, Frames
<1>2. readers \subseteq segments /\ readers # {} /\ IInv /\ restored
  BY <1>1 DEF PInv, Removed
<1>3. b \in segments /\ b \in readers
  <2>1. readers \subseteq Nat
    BY <1>2, OffsetsAreNat DEF IInv
  <2>2. b \in readers
    BY <1>2, <2>1, LeastIs DEF Min
  <2> QED
    BY <1>2, <2>2
<1>4. UInv /\ dir # {} /\ FramesOK
  BY <1>1, <1>2, OpenHasFiles DEF PInv, IInv, Emptied, Removed
<1>5. \A f \in Frames' : ImageOK(f)
  BY <1>1, <1>2, <1>3, <1>4, FramesAreOK DEF FileRest, FramesOK
<1>6. UInv' /\ FramesOK'
  BY <1>1, <1>4, <1>5, StutterKeeps DEF FramesOK
<1>7. readers' # None => readers' # {} /\ readers' \subseteq segments' /\ ~closed'
  <2>1. ASSUME readers' # None PROVE readers \ {b} # {}
    BY <1>1, <1>3, <2>1
  <2> QED
    BY <1>1, <1>2, <2>1 DEF vars
<1> QED
  BY <1>1, <1>2, <1>6, <1>7 DEF PInv

(* A Persist that gives up leaves the old snapshot. *)
LEMMA PersistFailsKeepsPInv ==
    ASSUME PInv, IInv', PersistFails
    PROVE  PInv'
<1>1. /\ UNCHANGED vars /\ UNCHANGED <<snapshot, restored>> /\ readers' = None
      /\ Frames' \subseteq Frames
  BY DEF PersistFails, Frames
<1>2. ASSUME Emptied PROVE Emptied'
  BY <1>1, <1>2, StutterKeeps DEF Emptied
<1>3. ASSUME UInv, FramesOK PROVE UInv' /\ FramesOK'
  BY <1>1, <1>3, StutterKeeps DEF FramesOK
<1> QED
  BY <1>1, <1>2, <1>3 DEF PInv

(* Closing and opening are not seen.  A log that was made in place of a    *)
(* deleted one is not restored yet.                                        *)
LEMMA RestartStep ==
    ASSUME PInv, IInv', (dir # {} => ReadsFrames)', Restart
    PROVE  PInv' /\ Stay /\ [Sequence!Next]_Records
<1>1. /\ readers = None /\ readers' = None /\ (Close \/ Open) /\ IInv
      /\ restored' = FALSE /\ UNCHANGED <<snapshot, Frames>>
  BY DEF Restart, snapshotVars, PInv, Frames
<1>3. Promise!Recreate \/ UNCHANGED <<Contents, NextOffset, Removed>>
  BY <1>1, OpenImplements, CloseUnseen
<1>4. Contents' = Contents /\ NextOffset' = NextOffset
  BY <1>3 DEF Promise!Recreate
<1>5. DOMAIN Contents = Readable /\ DOMAIN Contents' = Readable'
  BY DEF Contents
<1>6. Stay /\ Records' = Records
  <2>1. \A off \in Readable : Contents[off] = ReadValue(off) /\ Contents'[off] = ReadValue(off)'
    BY <1>4, <1>5 DEF Contents
  <2> QED
    BY <1>4, <1>5, <2>1 DEF Stay, Records
<1>7. CASE Emptied
  BY <1>1, <1>4, <1>5, <1>6, <1>7 DEF PInv, Emptied
<1>8. CASE UInv /\ FramesOK
  <2>1. UNCHANGED <<Contents, NextOffset, Removed>> /\ dir # {}
    BY <1>3, <1>8 DEF Promise!Recreate, Removed, UInv
  <2>2. dir' = dir /\ IndexFull(index[activeSegment])' = IndexFull(index[activeSegment])
    <3>1. CASE Close
      BY <1>1, <3>1, IndexCloseIs DEF Close, IInv, TypeOK, IndexFull
    <3>2. CASE Open
      BY <1>1, <2>1, <3>2, OpenRestores DEF IInv, TypeOK, IndexFull
    <3> QED
      BY <1>1, <3>1, <3>2
  <2>3. FramesOK'
    BY <1>1, <1>8, <2>1, <2>2, UnseenKeepsImage DEF FramesOK
  <2>4. UInv'
    BY <1>8, <2>1, <2>2, UnseenKeepsUInv
  <2> QED
    BY <1>1, <1>6, <2>3, <2>4 DEF PInv
<1> QED
  BY <1>7, <1>8 DEF PInv

(* fsm.Restore leaves the log alone or deletes all of it. *)
LEMMA RemoveEmpties ==
    ASSUME Remove
    PROVE  /\ Removed' /\ Readable' = {} /\ NextOffset' = InitialOffset
           /\ [Sequence!Next]_Records
<1>1. Removed' /\ Readable' = {} /\ NextOffset' = InitialOffset
  BY DEF Remove, Removed, Readable, NextOffset
<1>2. Records' = << >>
  BY <1>1, CommitLogAssumption DEF Records
<1> QED
  BY <1>1, <1>2 DEF Sequence!Next, Sequence!Reset

LEMMA RestoreStep ==
    ASSUME PInv, IInv', Restore
    PROVE  PInv' /\ [Sequence!Next]_Records
<1>1. /\ ~closed /\ ~restored /\ restored' /\ UNCHANGED <<readers, snapshot, Frames>>
      /\ IF snapshot.image = {} THEN UNCHANGED vars ELSE Remove
  BY DEF Restore, RestoreFrames, snapshotVars, Frames
<1>2. readers' = None /\ IInv
  BY <1>1 DEF PInv
<1>3. CASE snapshot.image = {}
  <2>1. UInv /\ FramesOK
    BY <1>3 DEF PInv, Emptied
  <2>2. UInv' /\ FramesOK' /\ [Sequence!Next]_Records
    BY <1>1, <1>3, <2>1, StutterKeeps DEF FramesOK
  <2> QED
    BY <1>1, <1>2, <2>2 DEF PInv
<1>4. CASE snapshot.image # {}
  BY <1>1, <1>2, <1>4, RemoveEmpties DEF PInv, Emptied
<1> QED
  BY <1>3, <1>4

LEMMA InstallStep ==
    ASSUME PInv, IInv', Install
    PROVE  PInv' /\ [Sequence!Next]_Records
<1>1. PICK frames :
         /\ ~closed /\ restored /\ UNCHANGED <<readers, copied, restored>>
         /\ snapshot' = [image |-> frames, missing |-> {}]
         /\ IF frames = {} THEN UNCHANGED vars ELSE Remove
  BY DEF Install, RestoreFrames
<1>2. snapshot'.image = frames
  BY <1>1
<1>3. UInv /\ FramesOK /\ ~Removed
  BY <1>1 DEF PInv, Emptied, Removed
<1>4. CASE frames = {}
  <2>1. Frames' \subseteq Frames
    BY <1>1, <1>2, <1>4 DEF Frames
  <2>2. UInv' /\ FramesOK' /\ [Sequence!Next]_Records
    BY <1>1, <1>3, <1>4, <2>1, StutterKeeps DEF FramesOK
  <2> QED
    BY <1>1, <1>3, <1>4, <2>2 DEF PInv, vars
<1>5. CASE frames # {}
  <2>1. Emptied' /\ Removed' /\ [Sequence!Next]_Records
    BY <1>1, <1>2, <1>5, RemoveEmpties DEF Emptied
  <2> QED
    BY <1>1, <2>1 DEF PInv
<1> QED
  BY <1>4, <1>5

LEMMA StutterKeepsPInv ==
    ASSUME PInv, IInv', UNCHANGED allVars
    PROVE  PInv'
<1>1. UNCHANGED vars /\ UNCHANGED <<readers, snapshot, Frames, restored, segments, closed>>
  BY DEF allVars, snapshotVars, vars, Frames
<1>2. ASSUME Emptied PROVE Emptied'
  BY <1>1, <1>2, StutterKeeps DEF Emptied
<1>3. ASSUME UInv, FramesOK PROVE UInv' /\ FramesOK'
  BY <1>1, <1>3, StutterKeeps DEF FramesOK
<1>4. Removed' = Removed
  BY <1>1, StutterKeeps
<1> QED
  BY <1>1, <1>2, <1>3, <1>4 DEF PInv

(* Each step appends one record, resets the log or is not seen, and only   *)
(* fsm.Restore takes records away.                                         *)
LEMMA SnapshotStep ==
    ASSUME PInv, IInv', (dir # {} => ReadsFrames)', [SnapshotNext]_allVars
    PROVE  PInv' /\ (~(Restore \/ Install) => Stay) /\ [Sequence!Next]_Records
<1>1. CASE UseLog
  BY <1>1, UseLogStep
<1>2. CASE Snapshot
  BY <1>2, SnapshotKeepsPInv, StutterKeeps DEF Snapshot
<1>3. CASE Persist
  BY <1>3, PersistKeepsPInv, StutterKeeps DEF Persist
<1>4. CASE Restart
  BY <1>4, RestartStep
<1>5. CASE Restore
  BY <1>5, RestoreStep
<1>6. CASE PersistFails
  BY <1>6, PersistFailsKeepsPInv, StutterKeeps DEF PersistFails
<1>7. CASE Install
  BY <1>7, InstallStep
<1>8. CASE UNCHANGED allVars
  BY <1>8, StutterKeepsPInv, StutterKeeps DEF allVars
<1> QED
  BY <1>1, <1>2, <1>3, <1>4, <1>5, <1>6, <1>7, <1>8 DEF SnapshotNext

(* Each step of the node's log is one of CommitLog, or leaves it alone.    *)
LEMMA SnapshotStepsLog ==
    ASSUME [SnapshotNext]_allVars
    PROVE  [Next]_vars
<1>1. CASE UseLog
  BY <1>1 DEF UseLog, AppendOrRead, Next
<1>2. CASE Snapshot
  BY <1>2 DEF Snapshot
<1>3. CASE Persist
  BY <1>3 DEF Persist
<1>4. CASE Restart
  BY <1>4 DEF Restart, Next
<1>5. CASE Restore
  BY <1>5 DEF Restore, RestoreFrames, Next
<1>6. CASE PersistFails
  BY <1>6 DEF PersistFails
<1>7. CASE Install
  BY <1>7 DEF Install, RestoreFrames, Next
<1>8. CASE UNCHANGED allVars
  BY <1>8 DEF allVars
<1> QED
  BY <1>1, <1>2, <1>3, <1>4, <1>5, <1>6, <1>7, <1>8 DEF SnapshotNext

LEMMA InitPInv == SnapshotInit => PInv
<1> SUFFICES ASSUME SnapshotInit PROVE PInv
  OBVIOUS
<1>1. UInv
  BY InitUInv DEF SnapshotInit
<1> QED
  BY <1>1 DEF SnapshotInit, PInv, UInv, FramesOK, Frames

LEMMA PInvHolds == SnapshotSpec => []PInv
<1>1. PInv => IInv
  BY DEF PInv
<1>2. IInv /\ [SnapshotNext]_allVars => IInv'
  BY SnapshotStepsLog, IInvInductive
<1>3. IInv => (dir # {} => ReadsFrames)
  BY ReadValueIs
<1>4. PInv /\ IInv' /\ (dir # {} => ReadsFrames)' /\ [SnapshotNext]_allVars => PInv'
  BY SnapshotStep
<1> QED
  BY <1>1, <1>2, <1>3, <1>4, InitPInv, PTL DEF SnapshotSpec

-----------------------------------------------------------------------------
(* Theorems *)

(* The log a node keeps for its clients is a CommitLog, so all that is     *)
(* proved of CommitLog holds of it.                                        *)
THEOREM NodeLogIsCommitLog == SnapshotSpec => Spec
<1>1. SnapshotInit => Init
  BY DEF SnapshotInit
<1> QED
  BY <1>1, SnapshotStepsLog, PTL DEF SnapshotSpec, Spec

(* Every offset given out can be read, in every state. *)
THEOREM NothingEverLost == SnapshotSpec => []NothingLost
<1>1. PInv => NothingLost
  <2>1. ASSUME Emptied PROVE NothingLost
    BY <2>1, CommitLogAssumption DEF Emptied, NothingLost, Contents
  <2> QED
    BY <2>1 DEF PInv, UInv
<1> QED
  BY <1>1, PInvHolds, PTL

(* A node's log is a sequence that grows at its end or is reset. *)
THEOREM NodeLogImplementsRecordLog == SnapshotSpec => ImplementsRecordLog
<1>1. SnapshotInit => Sequence!Init
  <2> SUFFICES ASSUME Init PROVE Records = << >>
    BY DEF Sequence!Init, SnapshotInit
  <2>1. NextOffset = InitialOffset /\ InitialOffset \in Nat
    BY InitImplements, CommitLogAssumption DEF Promise!Init
  <2> QED
    BY <2>1 DEF Records
<1>2. PInv => IInv
  BY DEF PInv
<1>3. IInv => (dir # {} => ReadsFrames)
  BY ReadValueIs
<1>4. PInv /\ IInv' /\ (dir # {} => ReadsFrames)' /\ [SnapshotNext]_allVars
        => [Sequence!Next]_Records
  BY SnapshotStep
<1> QED
  BY <1>1, <1>2, <1>3, <1>4, PInvHolds, PTL
     DEF SnapshotSpec, ImplementsRecordLog, Sequence!Spec

(* Only fsm.Restore takes records from a node's log. *)
THEOREM RecordsAlwaysStay == SnapshotSpec => RecordsStay
<1>1. PInv => IInv
  BY DEF PInv
<1>2. IInv => (dir # {} => ReadsFrames)
  BY ReadValueIs
<1>3. PInv /\ IInv' /\ (dir # {} => ReadsFrames)' /\ [SnapshotNext]_allVars
        => [~(Restore \/ Install) => \A off \in Readable :
                off \in Readable' /\ ReadValue(off)' = ReadValue(off)]_allVars
  BY SnapshotStep DEF Stay
<1> QED
  BY <1>1, <1>2, <1>3, PInvHolds, PTL DEF SnapshotSpec, RecordsStay

(* What Persist copies is never at odds with the log, whatever was     *)
(* appended, refused, flushed, closed and opened since it was taken.       *)
THEOREM SnapshotsAlwaysAgree == SnapshotSpec => []ImageAgrees
<1>1. PInv => ImageAgrees
  <2> SUFFICES ASSUME PInv, NEW f \in Frames, f.off \in Readable
               PROVE  Contents[f.off] = f.val
    BY DEF ImageAgrees, Frames
  <2>1. IInv /\ dir # {} /\ ImageOK(f)
    BY DEF PInv, Emptied, UInv, FramesOK
  <2>2. f.off # NextOffset
    BY <2>1, NextUnread
  <2> QED
    BY <2>1, <2>2 DEF ImageOK
<1> QED
  BY <1>1, PInvHolds, PTL
=============================================================================
