------------------------- MODULE RaftLogStoreProofs -------------------------
(***************************************************************************)
(* Raft finds its entries in the commit log under the indexes it gave      *)
(* them, as long as no entry conflicts with a leader's.  StoreLogs may     *)
(* fail with a part of its batch appended: what follows that part is never *)
(* stored, since an index that is full stays full.  The last index is then *)
(* no longer Raft's; it is when no batch fails half-way, because the index *)
(* of the log is aligned or because entries come one by one.               *)
(***************************************************************************)
EXTENDS RaftLogStore, CommitLogProofs

NoPartialBatch == MaxIndexBytes % entWidth = 0 \/ MaxBatch = 1

(* The entries of the current batch that are in the log already. *)
InHand == IF batch = << >> THEN 0 ELSE stored

StoreTypeOK ==
    /\ batch \in Seq(Value) /\ (batch # << >> => Len(batch) <= MaxBatch)
    /\ stored \in Nat
    /\ batch # << >> => stored < Len(batch)
    /\ lastIndex \in Nat
    /\ DOMAIN entry \subseteq 1..lastIndex

(* The log goes on where Raft's last entry is, the current batch apart.    *)
NextIsAfter == nextOffset[activeSegment] = lastIndex + 1 + InHand

(* Only where an append failed may it have gone further, and then for good.*)
LogGoesOn ==
    /\ lastIndex + 1 + InHand <= nextOffset[activeSegment]
    /\ NextIsAfter \/ IndexFull(index[activeSegment])

(* What Raft stored, and the current batch so far, can be read. *)
EntriesIn(log) ==
    \A i \in DOMAIN entry : i \in DOMAIN log /\ log[i] = entry[i]

BatchIn(log) ==
    \A k \in 1..InHand : lastIndex + k \in DOMAIN log /\ log[lastIndex + k] = batch[k]

QInv ==
    /\ IInv /\ ~closed
    /\ StoreTypeOK
    /\ LogGoesOn
    /\ EntriesIn(Contents)
    /\ BatchIn(Contents)

-----------------------------------------------------------------------------

(* The log is open: its abstract state is that of its active segment.      *)
LEMMA OpenIs ==
    ASSUME IInv, ~closed
    PROVE  /\ dir # {} /\ ~Removed
           /\ NextOffset = nextOffset[activeSegment]
           /\ DOMAIN Contents = Window
           /\ \A i \in Window : Contents[i] = ReadValue(i)
           /\ ActiveStarts /\ activeSegment \in Nat /\ nextOffset[activeSegment] \in Nat
<1>1. dir # {} /\ ~Removed
  BY OpenHasFiles DEF IInv, Removed
<1>2. ActiveStarts
  BY <1>1 DEF IInv, TypeOK, SegmentsOK, SegmentOK, ActiveStarts
<1> QED
  BY <1>1, <1>2, OffsetsAreNat DEF NextOffset, Contents, Readable, IInv

(* The highest offset is the one before the next, also right after a roll. *)
LEMMA HighestIs ==
    ASSUME IInv
    PROVE  HighestOffset = IF nextOffset[activeSegment] = 0 THEN 0
                           ELSE nextOffset[activeSegment] - 1
<1>1. segments \subseteq Int /\ activeSegment \in segments
  BY OffsetsAreNat DEF IInv, TypeOK
<1>2. \A b \in segments : activeSegment >= b
  BY OffsetsAreNat DEF IInv, SegmentsTile
<1>3. Max(segments) = activeSegment
  BY <1>1, <1>2, MaxIs
<1> QED
  BY <1>3 DEF HighestOffset

LEMMA InitQInv ==
    ASSUME InitialOffset = 1, StoreInit
    PROVE  QInv /\ NextIsAfter
<1>1. Init /\ IInv
  BY InitIInv DEF StoreInit
<1>2. ~closed /\ nextOffset[activeSegment] = 1
  BY <1>1, CommitLogAssumption DEF Init, Offset
<1>3. lastIndex = 0
  BY <1>1, <1>2, HighestIs DEF StoreInit
<1>4. StoreTypeOK
  BY <1>3 DEF StoreInit, StoreTypeOK
<1>5. NextIsAfter /\ LogGoesOn
  BY <1>2, <1>3 DEF StoreInit, NextIsAfter, LogGoesOn, InHand
<1>6. EntriesIn(Contents) /\ BatchIn(Contents)
  BY DEF StoreInit, EntriesIn, BatchIn, InHand
<1> QED
  BY <1>1, <1>2, <1>4, <1>5, <1>6 DEF QInv

(* A step of the log that no reader sees, and that leaves Raft's side and   *)
(* the batch alone.                                                        *)
LEMMA UnseenKeepsQInv ==
    ASSUME QInv, IInv', ~closed', NEW k \in Nat, k = InHand, InHand' = k,
           UNCHANGED <<Contents, nextOffset, activeSegment, index>>,
           UNCHANGED <<entry, lastIndex, batch>>, StoreTypeOK'
    PROVE  QInv' /\ (NextIsAfter => NextIsAfter')
<1>1. LogGoesOn' /\ (NextIsAfter => NextIsAfter')
  BY DEF QInv, LogGoesOn, NextIsAfter, IndexFull
<1>2. EntriesIn(Contents)' /\ BatchIn(Contents)'
  BY DEF QInv, EntriesIn, BatchIn
<1> QED
  BY <1>1, <1>2 DEF QInv

LEMMA StoreLogsKeepsQInv ==
    ASSUME QInv, NEW values \in Seq(Value), Len(values) > 0, Len(values) <= MaxBatch,
           StoreLogs(values)
    PROVE  QInv' /\ (NextIsAfter => NextIsAfter')
<1>1. IInv' /\ ~closed'
  BY DEF QInv, StoreLogs, vars, IInv, TypeOK, SegmentsTile, FilesMatch, SegmentsOK,
         ClosedFiles, ActiveNotMaxed, RefusedAtEnd
<1>2. InHand = 0 /\ InHand' = 0
  BY DEF StoreLogs, InHand
<1>3. StoreTypeOK'
  BY DEF QInv, StoreTypeOK, StoreLogs
<1>4. LogGoesOn' /\ (NextIsAfter => NextIsAfter')
  BY <1>2 DEF QInv, LogGoesOn, NextIsAfter, StoreLogs, vars, IndexFull
<1>5. Contents' = Contents
  BY DEF StoreLogs, vars, Contents, Readable, Window, Holds, ReadValue, Owner, CanRead,
         HasEntry, FramesAt, FrameOf, Removed
<1>6. EntriesIn(Contents)' /\ BatchIn(Contents)'
  BY <1>2, <1>5 DEF QInv, EntriesIn, BatchIn, StoreLogs
<1> QED
  BY <1>1, <1>3, <1>4, <1>6 DEF QInv

(* An append of the loop puts one entry more of the batch at the end; the  *)
(* last one makes all of them entries of Raft.                             *)
LEMMA StoreNextKeepsQInv ==
    ASSUME QInv, IInv', (dir # {} => ReadsFrames)', NEW n \in PayloadLen, StoreNext(n)
    PROVE  QInv' /\ NextIsAfter'
<1> DEFINE v == batch[stored + 1]
           next == lastIndex + 1 + stored
<1>1. /\ batch \in Seq(Value) /\ batch # << >> /\ stored \in Nat /\ lastIndex \in Nat
      /\ Len(batch) \in Nat /\ stored + 1 <= Len(batch) /\ v \in Value
      /\ InHand = stored
      /\ DOMAIN entry \subseteq 1..lastIndex
  BY DEF StoreNext, QInv, StoreTypeOK, InHand
<1>2. /\ AppendStay(v, n) \/ AppendRoll(v, n)
      /\ stored' = stored + 1
  BY DEF StoreNext
<1>3. ~closed'
  BY <1>2 DEF QInv, AppendStay, AppendRoll
<1>4. /\ NextOffset = next /\ NextOffset' = nextOffset'[activeSegment']
  <2>1. NextOffset = nextOffset[activeSegment]
    BY OpenIs DEF QInv
  <2> QED
    BY <1>1, <1>2, <1>3, <2>1
       DEF NextOffset, Removed, QInv, LogGoesOn, NextIsAfter, AppendStay, AppendRoll
<1>5. Promise!Append(v)
  <2>1. dir' # {}
    BY <1>3, OpenHasFilesAfter DEF IInv
  <2> QED
    BY <1>1, <1>2, <2>1, AppendImplements DEF QInv
<1>6. /\ nextOffset'[activeSegment'] = next + 1
      /\ Contents' = [off \in DOMAIN Contents \cup {next} |->
                         IF off = next THEN v ELSE Contents[off]]
  BY <1>4, <1>5 DEF Promise!Append
<1> HIDE DEF v, next
<1>7. /\ next \in DOMAIN Contents' /\ Contents'[next] = v
      /\ \A off \in DOMAIN Contents : off # next =>
            off \in DOMAIN Contents' /\ Contents'[off] = Contents[off]
  BY <1>6
<1>8. \A i \in DOMAIN entry : i \in DOMAIN Contents' /\ Contents'[i] = entry[i]
  <2> SUFFICES ASSUME NEW i \in DOMAIN entry
               PROVE  i \in DOMAIN Contents' /\ Contents'[i] = entry[i]
    OBVIOUS
  <2>1. i \in DOMAIN Contents /\ Contents[i] = entry[i]
    BY DEF QInv, EntriesIn
  <2>2. i # next
    BY <1>1 DEF next
  <2> QED
    BY <1>7, <2>1, <2>2
<1>9. \A k \in 1..(stored + 1) :
          lastIndex + k \in DOMAIN Contents' /\ Contents'[lastIndex + k] = batch[k]
  <2> SUFFICES ASSUME NEW k \in 1..(stored + 1)
               PROVE  lastIndex + k \in DOMAIN Contents' /\ Contents'[lastIndex + k] = batch[k]
    OBVIOUS
  <2>1. CASE k = stored + 1
    <3>1. lastIndex + k = next
      BY <1>1, <2>1 DEF next
    <3> QED
      BY <1>7, <2>1, <3>1 DEF v
  <2>2. CASE k # stored + 1
    <3>1. k \in 1..stored /\ lastIndex + k # next
      BY <1>1, <2>2 DEF next
    <3>2. lastIndex + k \in DOMAIN Contents /\ Contents[lastIndex + k] = batch[k]
      BY <1>1, <3>1 DEF QInv, BatchIn
    <3> QED
      BY <1>7, <3>1, <3>2
  <2> QED
    BY <2>1, <2>2
<1>10. CASE stored + 1 = Len(batch)
  <2>1. /\ batch' = << >> /\ lastIndex' = lastIndex + Len(batch) /\ InHand' = 0
        /\ entry' = [i \in DOMAIN entry \cup lastIndex + 1..lastIndex + Len(batch) |->
                        IF i > lastIndex THEN batch[i - lastIndex] ELSE entry[i]]
    BY <1>1, <1>10 DEF StoreNext, InHand
  <2>2. StoreTypeOK'
    <3>1. DOMAIN entry' \subseteq 1..lastIndex'
      BY <1>1, <2>1
    <3>2. batch' = << >> /\ batch' \in Seq(Value)
      BY <2>1
    <3>3. stored' \in Nat /\ lastIndex' \in Nat
      BY <1>1, <1>2, <2>1
    <3> QED
      BY <3>1, <3>2, <3>3 DEF StoreTypeOK
  <2>3. NextIsAfter'
    <3>1. nextOffset'[activeSegment'] = next + 1
      BY <1>6
    <3>2. InHand' = 0 /\ lastIndex' = lastIndex + stored + 1
      BY <1>1, <1>10, <2>1
    <3> QED
      BY <1>1, <3>1, <3>2 DEF NextIsAfter, next
  <2>6. LogGoesOn'
    BY <1>1, <1>6, <1>10, <2>1, <2>3 DEF LogGoesOn, next
  <2>4. EntriesIn(Contents)'
    <3> SUFFICES ASSUME NEW i \in DOMAIN entry'
                 PROVE  i \in DOMAIN Contents' /\ Contents'[i] = entry'[i]
      BY DEF EntriesIn
    <3>1. CASE i \in DOMAIN entry
      <4>1. ~(i > lastIndex)
        BY <1>1, <3>1
      <4> QED
        BY <1>8, <2>1, <3>1, <4>1
    <3>2. CASE i \in lastIndex + 1..lastIndex + Len(batch)
      <4> DEFINE k == i - lastIndex
      <4>1. k \in 1..(stored + 1) /\ i = lastIndex + k /\ i > lastIndex
        BY <1>1, <1>10, <3>2
      <4>2. entry'[i] = batch[k]
        BY <2>1, <3>2, <4>1
      <4> QED
        BY <1>9, <4>1, <4>2
    <3> QED
      BY <2>1, <3>1, <3>2
  <2>5. BatchIn(Contents)'
    BY <2>1 DEF BatchIn
  <2> QED
    BY <1>3, <2>2, <2>3, <2>4, <2>5, <2>6 DEF QInv
<1>11. CASE stored + 1 # Len(batch)
  <2>1. batch' = batch /\ lastIndex' = lastIndex /\ entry' = entry /\ InHand' = stored + 1
    BY <1>1, <1>11 DEF StoreNext, InHand
  <2>2. StoreTypeOK'
    BY <1>1, <1>2, <1>11, <2>1 DEF StoreTypeOK, QInv
  <2>3. NextIsAfter'
    BY <1>1, <1>6, <2>1 DEF NextIsAfter, next
  <2>6. LogGoesOn'
    BY <1>1, <1>6, <2>1, <2>3 DEF LogGoesOn, next
  <2>4. EntriesIn(Contents)' /\ BatchIn(Contents)'
    BY <1>8, <1>9, <2>1 DEF EntriesIn, BatchIn
  <2> QED
    BY <1>3, <2>2, <2>3, <2>4, <2>6 DEF QInv
<1> QED
  BY <1>10, <1>11

(* A failed append is the last one: the index stays full, and the part of  *)
(* the batch before it is behind all that Raft takes as stored.            *)
LEMMA StoreFailsKeepsQInv ==
    ASSUME QInv, IInv', (dir # {} => ReadsFrames)', NEW n \in PayloadLen, StoreFails(n)
    PROVE  QInv'
<1> DEFINE v == batch[stored + 1]
<1>1. /\ batch # << >> /\ stored < Len(batch) /\ v \in Value /\ stored \in Nat
      /\ InHand = stored /\ lastIndex \in Nat /\ AppendEOF(v, n)
  BY DEF StoreFails, QInv, StoreTypeOK, InHand
<1>2. /\ ~closed' /\ UNCHANGED <<nextOffset, activeSegment, index>>
      /\ IndexFull(index[activeSegment])
  BY <1>1 DEF AppendEOF, QInv
<1>3. batch' = << >> /\ InHand' = 0 /\ UNCHANGED <<entry, lastIndex>>
  BY DEF StoreFails, InHand
<1>4. Contents' = Contents
  BY <1>1, AppendEOFUnseen DEF QInv
<1>5. StoreTypeOK'
  BY DEF StoreFails, QInv, StoreTypeOK
<1>6. LogGoesOn'
  <2>1. nextOffset[activeSegment] \in Nat
    BY OpenIs DEF QInv
  <2>2. lastIndex + 1 + stored <= nextOffset[activeSegment]
    BY <1>1 DEF QInv, LogGoesOn
  <2> QED
    BY <1>1, <1>2, <1>3, <2>1, <2>2 DEF LogGoesOn, IndexFull
<1>7. EntriesIn(Contents)' /\ BatchIn(Contents)'
  BY <1>3, <1>4 DEF QInv, EntriesIn, BatchIn
<1> QED
  BY <1>2, <1>5, <1>6, <1>7 DEF QInv

(* Where no batch fails half-way, nothing of it is in the log.             *)
LEMMA StoreFailsKeepsEnd ==
    ASSUME NoPartialBatch, QInv, NextIsAfter, NEW n \in PayloadLen, StoreFails(n)
    PROVE  NextIsAfter'
<1> DEFINE v == batch[stored + 1]
<1>1. batch # << >> /\ stored < Len(batch) /\ stored \in Nat /\ AppendEOF(v, n)
  BY DEF StoreFails, QInv, StoreTypeOK
<1>2. MaxIndexBytes % entWidth # 0
  <2>1. IInv /\ MaxIndexBytes % entWidth = 0 /\ ~closed => ~IndexFull(index[activeSegment])
    BY IInvHasRoom DEF ActiveHasRoom
  <2> QED
    BY <1>1, <2>1 DEF QInv, AppendEOF
<1>3. stored = 0
  BY <1>1, <1>2 DEF NoPartialBatch, QInv, StoreTypeOK
<1>4. InHand = 0 /\ InHand' = 0
  BY <1>3 DEF StoreFails, InHand
<1> QED
  BY <1>1, <1>4 DEF NextIsAfter, StoreFails, AppendEOF

(* What is left of Raft's entries after a compaction is above max, where   *)
(* Truncate removes nothing.                                               *)
LEMMA DeletePrefixKeepsQInv ==
    ASSUME QInv, IInv', (dir # {} => ReadsFrames)', NEW max \in DOMAIN entry,
           DeletePrefix(max)
    PROVE  QInv' /\ (NextIsAfter => NextIsAfter')
<1>1. /\ batch = << >> /\ InHand = 0 /\ InHand' = 0 /\ lastIndex \in Nat
      /\ Truncate(max) /\ max < lastIndex
      /\ entry' = [i \in DOMAIN entry \ FirstIndex..max |-> entry[i]]
      /\ UNCHANGED <<batch, stored, lastIndex>>
  BY DEF DeletePrefix, DeleteRange, InHand, QInv, StoreTypeOK
<1>2. /\ max \in Offset /\ max \in Nat
      /\ DOMAIN entry \subseteq DOMAIN Contents /\ DOMAIN Contents = Window
      /\ DOMAIN entry \subseteq 1..lastIndex
      /\ nextOffset[activeSegment] \in Nat /\ lastIndex + 1 <= nextOffset[activeSegment]
  BY <1>1, OpenIs DEF QInv, EntriesIn, LogGoesOn, StoreTypeOK, Window
<1>3. Compact(max)
  BY <1>1, <1>2 DEF Compact
<1>4. /\ ~closed' /\ UNCHANGED <<activeSegment, nextOffset>>
      /\ index'[activeSegment] = index[activeSegment]
  BY <1>1 DEF Truncate, QInv, IInv, TypeOK
<1>5. Promise!Compact(max)
  <2>1. dir' # {}
    BY <1>4, OpenHasFilesAfter DEF IInv
  <2> QED
    BY <1>2, <1>3, <2>1, CompactImplements DEF QInv
<1>6. \A off \in DOMAIN Contents : off > max =>
          off \in DOMAIN Contents' /\ Contents'[off] = Contents[off]
  BY <1>5 DEF Promise!Compact
<1>7. EntriesIn(Contents)'
  <2> SUFFICES ASSUME NEW i \in DOMAIN entry'
               PROVE  i \in DOMAIN Contents' /\ Contents'[i] = entry'[i]
    BY DEF EntriesIn
  <2>1. i \in DOMAIN entry /\ i \notin FirstIndex..max /\ entry'[i] = entry[i]
    BY <1>1
  <2>2. LowestOffset <= i /\ LowestOffset \in Nat
    <3>1. i \in Window
      BY <1>2, <2>1
    <3>2. LowestOffset \in Window /\ Window \subseteq LowestOffset..HighestOffset
      BY <3>1, EndsReadable, OpenIs DEF QInv
    <3> QED
      BY <3>1, <3>2, CommitLogAssumption DEF Window, Offset
  <2>3. i > max
    BY <1>2, <2>1, <2>2 DEF FirstIndex
  <2> QED
    BY <1>6, <2>1, <2>3 DEF QInv, EntriesIn
<1>8. StoreTypeOK'
  BY <1>1 DEF QInv, StoreTypeOK
<1>9. (NextIsAfter => NextIsAfter') /\ LogGoesOn' /\ BatchIn(Contents)'
  BY <1>1, <1>4 DEF QInv, NextIsAfter, LogGoesOn, IndexFull, BatchIn
<1> QED
  BY <1>4, <1>7, <1>8, <1>9 DEF QInv

(* Every step of Raft is a step of the log or leaves it as it is. *)
LEMMA ConflictFreeStep ==
    ASSUME QInv, [ConflictFreeNext]_allVars
    PROVE  [Next]_vars
<1>1. ASSUME NEW n \in PayloadLen, StoreNext(n) \/ StoreFails(n)
      PROVE  Next
  <2>1. batch[stored + 1] \in Value
    BY <1>1 DEF StoreNext, StoreFails, QInv, StoreTypeOK
  <2> QED
    BY <1>1, <2>1 DEF StoreNext, StoreFails, Next
<1>2. ASSUME NEW i \in DOMAIN entry, DeletePrefix(i)
      PROVE  Next
  <2>1. /\ batch = << >> /\ Truncate(i) /\ i < lastIndex
        /\ lastIndex \in Nat /\ i \in Nat /\ i \in Offset
        /\ nextOffset[activeSegment] \in Nat /\ lastIndex + 1 <= nextOffset[activeSegment]
    BY <1>2, OpenIs DEF DeletePrefix, DeleteRange, QInv, StoreTypeOK, LogGoesOn, InHand,
                        EntriesIn, Window
  <2>2. Compact(i)
    BY <2>1 DEF Compact
  <2> QED
    BY <2>1, <2>2 DEF Next
<1>3. ASSUME NEW i \in DOMAIN entry, Read(i)
      PROVE  Next
  <2>1. i \in Offset
    BY <1>3 DEF Read, Window
  <2> QED
    BY <1>3, <2>1 DEF Next
<1>4. ASSUME NEW values, StoreLogs(values) PROVE UNCHANGED vars
  BY <1>4 DEF StoreLogs
<1>5. CASE UNCHANGED allVars
  BY <1>5 DEF allVars
<1> QED
  BY <1>1, <1>2, <1>3, <1>4, <1>5 DEF ConflictFreeNext

LEMMA QInvInductive ==
    ASSUME QInv, IInv', (dir # {} => ReadsFrames)', [ConflictFreeNext]_allVars
    PROVE  QInv' /\ (NoPartialBatch /\ NextIsAfter => NextIsAfter')
<1>1. ASSUME NEW k \in 1..MaxOffset, k <= MaxBatch, NEW values \in [1..k -> Value],
             StoreLogs(values)
      PROVE  QInv' /\ (NextIsAfter => NextIsAfter')
  <2>1. values \in Seq(Value) /\ Len(values) = k
    BY CommitLogAssumption
  <2> QED
    BY <1>1, <2>1, StoreLogsKeepsQInv
<1>2. ASSUME NEW i \in DOMAIN entry, Read(i), UNCHANGED storeVars
      PROVE  QInv' /\ (NextIsAfter => NextIsAfter')
  <2>1. i \in Offset
    BY <1>2 DEF Read, Window
  <2>2. UNCHANGED <<Contents, nextOffset, activeSegment, index>>
    BY <1>2, <2>1, ReadUnseen DEF QInv, Read
  <2>3. ~closed' /\ InHand' = InHand /\ InHand \in Nat /\ StoreTypeOK'
    BY <1>2 DEF Read, storeVars, InHand, QInv, StoreTypeOK
  <2> QED
    BY <1>2, <2>2, <2>3, UnseenKeepsQInv DEF storeVars
<1>3. CASE UNCHANGED allVars
  <2>1. UNCHANGED <<Contents, nextOffset, activeSegment, index>>
    BY <1>3 DEF allVars, vars, Contents, Readable, Window, Holds, ReadValue, Owner, CanRead,
                HasEntry, FramesAt, FrameOf, Removed
  <2>2. ~closed' /\ InHand' = InHand /\ InHand \in Nat /\ StoreTypeOK'
    BY <1>3 DEF allVars, vars, storeVars, InHand, QInv, StoreTypeOK
  <2> QED
    BY <1>3, <2>1, <2>2, UnseenKeepsQInv DEF allVars, storeVars
<1> QED
  BY <1>1, <1>2, <1>3, StoreNextKeepsQInv, StoreFailsKeepsQInv, StoreFailsKeepsEnd,
     DeletePrefixKeepsQInv DEF ConflictFreeNext

(* The invariant of the log and that of Raft's entries hold together. *)
LEMMA QInvHolds ==
    ASSUME InitialOffset = 1
    PROVE  ConflictFreeSpec => []QInv /\ (NoPartialBatch => []NextIsAfter)
<1>1. QInv /\ [ConflictFreeNext]_allVars => IInv'
  BY ConflictFreeStep, IInvInductive DEF QInv
<1>2. QInv /\ IInv' /\ (dir # {} => ReadsFrames)' /\ [ConflictFreeNext]_allVars
        => QInv' /\ (NoPartialBatch /\ NextIsAfter => NextIsAfter')
  BY QInvInductive
<1>3. IInv => (dir # {} => ReadsFrames)
  BY ReadValueIs
<1>4. NoPartialBatch => NoPartialBatch'
  BY DEF NoPartialBatch
<1> QED
  BY <1>1, <1>2, <1>3, <1>4, InitQInv, PTL DEF ConflictFreeSpec

(* Raft finds every entry it stored and did not delete under its index,    *)
(* whatever batches, rolls, compactions and failed appends came before, at *)
(* every size of segment and index.                                        *)
THEOREM StoredAlwaysFound ==
    ASSUME InitialOffset = 1
    PROVE  ConflictFreeSpec => []StoredIsFound
<1>1. QInv => StoredIsFound
  BY OpenIs DEF QInv, EntriesIn, StoredIsFound, GetLog
<1> QED
  BY <1>1, QInvHolds, PTL

(* FirstIndex and LastIndex agree with what Raft believes. *)
THEOREM EndsAlwaysAgree ==
    ASSUME InitialOffset = 1, NoPartialBatch
    PROVE  ConflictFreeSpec => []EndsAgree
<1>1. QInv /\ NextIsAfter => EndsAgree
  <2> SUFFICES ASSUME QInv, NextIsAfter, batch = << >>
               PROVE  /\ LastIndex = lastIndex
                      /\ DOMAIN entry \subseteq FirstIndex..LastIndex
    BY DEF EndsAgree
  <2>1. LastIndex = lastIndex
    BY HighestIs DEF QInv, StoreTypeOK, NextIsAfter, InHand, LastIndex
  <2>2. DOMAIN entry \subseteq Window
    BY OpenIs DEF QInv, EntriesIn
  <2>3. Window # {} => Window \subseteq LowestOffset..HighestOffset
    BY EndsReadable, OpenIs DEF QInv
  <2> QED
    BY <2>1, <2>2, <2>3 DEF FirstIndex, LastIndex
<1> QED
  BY <1>1, QInvHolds, PTL

(* Raft uses the log as CommitLog allows, so all that is proved of it      *)
(* holds of Raft's log.                                                    *)
THEOREM ConflictFreeIsLog ==
    ASSUME InitialOffset = 1
    PROVE  ConflictFreeSpec => Spec
<1>1. QInv /\ [ConflictFreeNext]_allVars => [Next]_vars
  BY ConflictFreeStep
<1>2. StoreInit => Init
  BY DEF StoreInit
<1> QED
  BY <1>1, <1>2, QInvHolds, PTL DEF ConflictFreeSpec, Spec
=============================================================================
