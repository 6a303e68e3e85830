-------------------------- MODULE CommitLogProofs --------------------------
(***************************************************************************)
(* Proofs about CommitLog: an inductive invariant and what follows.        *)
(***************************************************************************)
EXTENDS CommitLog, TLAPS, WellFoundedInduction

(* A log's files are its segments' files, until the log is removed. *)
FilesMatch == dir = segments \X Ext \/ (closed /\ dir = {})

(* What is true of a segment with base offset b, next offset next, store s *)
(* and index x: the index has one entry for each offset, each entry leads  *)
(* to the frame of its offset, frames do not start at the same position,   *)
(* and a frame that no entry leads to came when the index was full.        *)
Indexed(f, b, next, x) ==
    f.off \in b..(next - 1) /\ x.entry[f.off - b].pos = f.pos

SegmentOK(b, next, s, x) ==
    /\ b <= next
    /\ x.size = entWidth * (next - b)
    /\ \A off \in b..(next - 1) :
          /\ x.entry[off - b].off = off - b
          /\ \E f \in s.frames : f.pos = x.entry[off - b].pos /\ f.off = off
    /\ \A f \in s.frames :
          /\ f.pos < s.size
          /\ \A g \in s.frames : f.pos = g.pos => f = g
    /\ \A f \in s.frames :
          Indexed(f, b, next, x) \/ (f.off = next /\ IndexFull(x))

SegmentsOK == \A b \in segments : SegmentOK(b, nextOffset[b], store[b], index[b])

(* Close leaves the files as long as their contents. *)
ClosedFiles ==
    closed => \A b \in segments :
        index[b].file = index[b].size /\ store[b].file = store[b].size

(* An active segment is never maxed out by its index: Append rolls first. *)
ActiveNotMaxed == index[activeSegment].size < MaxIndexBytes

(* Only the active segment holds frames that its index refused. *)
RefusedAtEnd ==
    \A b \in segments \ {activeSegment} : \A f \in store[b].frames : f.off # nextOffset[b]

IInv ==
    /\ TypeOK
    /\ SegmentsTile
    /\ FilesMatch
    /\ dir # {} => SegmentsOK /\ ClosedFiles /\ ActiveNotMaxed /\ RefusedAtEnd

-----------------------------------------------------------------------------
(* Lemmas about the operators *)

(* A maximum is the only member of the set that is above all others. *)
LEMMA MaxIs ==
    ASSUME NEW S, S \subseteq Int, NEW m \in S, \A x \in S : m >= x
    PROVE  Max(S) = m
<1>1. \A y \in S : (\A x \in S : y >= x) => y = m
  OBVIOUS
<1> QED
  BY <1>1 DEF Max

(* A set of numbers has a least one, and a bounded set a greatest. *)
LEMMA LeastIs ==
    ASSUME NEW S, S \subseteq Nat, S # {}
    PROVE  \E m \in S : \A x \in S : m <= x
<1> DEFINE R == OpToRel(<, Nat)
<1>1. IsWellFoundedOn(R, Nat)
  BY NatLessThanWellFounded
<1>2. \A x, y \in Nat : x < y => <<x, y>> \in R
  BY DEF OpToRel
<1> HIDE DEF R
<1>3. PICK m \in S : \A y \in S : <<y, m>> \notin R
  BY <1>1, WFMin
<1>4. \A y \in S : ~(y < m) /\ y \in Nat /\ m \in Nat
  BY <1>2, <1>3
<1>5. \A y \in S : m <= y
  BY <1>4
<1> QED
  BY <1>5

LEMMA GreatestIs ==
    ASSUME NEW N \in Nat, NEW S, S \subseteq 0..N, S # {}
    PROVE  \E m \in S : \A x \in S : m >= x
<1> DEFINE T == {N - x : x \in S}
<1>1. T \subseteq Nat
  <2>1. \A x \in S : N - x \in Nat
    OBVIOUS
  <2> QED
    BY <2>1
<1>2. T # {}
  OBVIOUS
<1> HIDE DEF T
<1>3. PICK t \in T : \A u \in T : t <= u
  BY <1>1, <1>2, LeastIs
<1>4. PICK m \in S : t = N - m
  BY DEF T
<1>5. \A x \in S : N - m <= N - x
  BY <1>3, <1>4 DEF T
<1>6. \A x \in S : m >= x
  BY <1>5
<1> QED
  BY <1>6

(* Slots are the relative offsets below MaxIndexBytes \div entWidth. *)
LEMMA SlotIs ==
    ASSUME NEW i \in Nat, (i + 1) * entWidth <= MaxIndexBytes
    PROVE  i \in Slot
  BY CommitLogAssumption DEF Slot, entWidth

(* setup opens each segment once when each has exactly its two files. *)
LEMMA SetupFindsSegments ==
    ASSUME segments \subseteq Offset, dir = segments \X Ext
    PROVE  SetupBases = segments
<1>1. ASSUME NEW b \in Offset
      PROVE  ({b} \X Ext) \cap dir # {} => b \in segments
  OBVIOUS
<1>2. ASSUME NEW b \in segments
      PROVE  {b} \X Ext \subseteq dir
  OBVIOUS
<1>3. ASSUME NEW b \in Offset, {b} \X Ext \subseteq dir
      PROVE  b \in segments
  <2>1. <<b, "store">> \in {b} \X Ext
    BY DEF Ext
  <2> QED
    BY <1>3, <2>1
<1> QED
  BY <1>1, <1>2, <1>3, Zenon DEF SetupBases

(* setup finds nothing in an empty directory. *)
LEMMA SetupFindsNothing ==
    ASSUME dir = {}
    PROVE  SetupBases = {}
<1>1. ASSUME NEW b \in Offset
      PROVE  ~({b} \X Ext \subseteq dir)
  <2>1. <<b, "store">> \in {b} \X Ext
    BY DEF Ext
  <2> QED
    BY <2>1
<1>2. ASSUME NEW b \in Offset
      PROVE  ({b} \X Ext) \cap dir = {}
  OBVIOUS
<1> QED
  BY <1>1, <1>2, Zenon DEF SetupBases

(* What the operations of store.go do to a store. *)
LEMMA EmptyStoreIs ==
    /\ EmptyStore \in StoreState
    /\ EmptyStore.frames = {} /\ EmptyStore.size = 0 /\ EmptyStore.file = 0
  BY DEF EmptyStore, StoreState

LEMMA StoreOpenIs ==
    ASSUME NEW s \in StoreState
    PROVE  /\ StoreOpen(s) \in StoreState
           /\ StoreOpen(s).frames = s.frames
           /\ StoreOpen(s).size = s.file
           /\ StoreOpen(s).file = s.file
  BY DEF StoreOpen, StoreState

LEMMA StoreFlushIs ==
    ASSUME NEW s \in StoreState
    PROVE  /\ StoreFlush(s) \in StoreState
           /\ StoreFlush(s).frames = s.frames
           /\ StoreFlush(s).size = s.size
           /\ StoreFlush(s).file = s.size
  BY DEF StoreFlush, StoreState

LEMMA StoreAppendIs ==
    ASSUME NEW s \in StoreState, NEW off \in Offset, NEW v \in Value, NEW n \in Nat
    PROVE  /\ StoreAppend(s, off, v, n) \in StoreState
           /\ StoreAppend(s, off, v, n).frames =
                 s.frames \cup {[pos |-> s.size, off |-> off, val |-> v]}
           /\ StoreAppend(s, off, v, n).size = s.size + lenWidth + n
           /\ StoreAppend(s, off, v, n).file = s.file
<1>1. [pos |-> s.size, off |-> off, val |-> v] \in Frame
  BY DEF Frame, StoreState
<1>2. s.size + lenWidth + n \in Nat
  BY DEF StoreState, lenWidth
<1> QED
  BY <1>1, <1>2 DEF StoreAppend, StoreState

(* What the operations of index.go do to an index. *)
LEMMA EmptyIndexIs ==
    /\ EmptyIndex \in IndexState
    /\ EmptyIndex.size = 0 /\ EmptyIndex.file = 0
  BY CommitLogAssumption DEF EmptyIndex, IndexState, ZeroEntry, Entry, entWidth

LEMMA IndexOpenIs ==
    ASSUME NEW x \in IndexState
    PROVE  /\ IndexOpen(x) \in IndexState
           /\ IndexOpen(x).entry = x.entry
           /\ IndexOpen(x).size = x.file
           /\ IndexOpen(x).file = MaxIndexBytes
<1>1. MaxIndexBytes \in 0..MaxIndexBytes
  BY CommitLogAssumption
<1> QED
  BY <1>1 DEF IndexOpen, IndexState

LEMMA IndexCloseIs ==
    ASSUME NEW x \in IndexState
    PROVE  /\ IndexClose(x) \in IndexState
           /\ IndexClose(x).entry = x.entry
           /\ IndexClose(x).size = x.size
           /\ IndexClose(x).file = x.size
  BY DEF IndexClose, IndexState

LEMMA IndexWriteIs ==
    ASSUME NEW x \in IndexState, NEW k \in Nat, x.size = entWidth * k,
           ~IndexFull(x), NEW off \in Nat, NEW pos \in Nat
    PROVE  /\ IndexWrite(x, off, pos) \in IndexState
           /\ IndexWrite(x, off, pos).entry[k].off = off
           /\ IndexWrite(x, off, pos).entry[k].pos = pos
           /\ \A i \in Slot : i # k => IndexWrite(x, off, pos).entry[i] = x.entry[i]
           /\ IndexWrite(x, off, pos).size = x.size + entWidth
           /\ IndexWrite(x, off, pos).file = x.file
           /\ k \in Slot
<1>1. x.size \div entWidth = k
  BY DEF entWidth
<1>2. (k + 1) * entWidth <= MaxIndexBytes
  BY CommitLogAssumption DEF IndexFull, IndexState, entWidth
<1>3. k \in Slot
  BY <1>2, SlotIs
<1>4. [off |-> off, pos |-> pos] \in Entry
  BY DEF Entry
<1>5. x.size + entWidth \in 0..MaxIndexBytes
  BY CommitLogAssumption DEF IndexFull, IndexState, entWidth
<1> QED
  BY <1>1, <1>3, <1>4, <1>5 DEF IndexWrite, IndexState

-----------------------------------------------------------------------------
(* Lemmas about one segment *)

(* A new segment. *)
LEMMA EmptySegmentOK ==
    ASSUME NEW b \in Nat
    PROVE  SegmentOK(b, b, EmptyStore, IndexOpen(EmptyIndex))
  BY EmptyStoreIs, EmptyIndexIs, IndexOpenIs DEF SegmentOK, entWidth

(* Flushing, closing and opening keep what SegmentOK speaks of. *)
LEMMA SameSegmentOK ==
    ASSUME NEW b, NEW next, NEW s, NEW x, NEW t, NEW y, SegmentOK(b, next, s, x),
           t.frames = s.frames, t.size = s.size, y.entry = x.entry, y.size = x.size
    PROVE  SegmentOK(b, next, t, y)
  BY DEF SegmentOK, Indexed, IndexFull

(* newSegment finds the next offset in the last entry of the index. *)
LEMMA RecoversNext ==
    ASSUME NEW b \in Nat, NEW next \in Nat, NEW s, NEW x \in IndexState,
           SegmentOK(b, next, s, x)
    PROVE  RecoveredNext(b, x) = next
<1>1. x.size = entWidth * (next - b) /\ b <= next
  BY DEF SegmentOK
<1>2. CASE x.size = 0
  BY <1>1, <1>2 DEF RecoveredNext, entWidth
<1>3. CASE x.size # 0
  <2>1. x.size \div entWidth - 1 = next - 1 - b /\ next - 1 \in b..(next - 1)
    BY <1>1, <1>3 DEF entWidth
  <2>2. x.entry[next - 1 - b].off = next - 1 - b
    BY <2>1 DEF SegmentOK
  <2> QED
    BY <1>3, <2>1, <2>2 DEF RecoveredNext, LastEntry
<1> QED
  BY <1>2, <1>3

(* A frame appended to a store leaves the frames apart. *)
LEMMA AppendKeepsApart ==
    ASSUME NEW s \in StoreState, NEW off \in Offset, NEW v \in Value, NEW n \in Nat,
           \A f, g \in s.frames : f.pos < s.size /\ (f.pos = g.pos => f = g),
           NEW t, t = StoreAppend(s, off, v, n)
    PROVE  \A f, g \in t.frames : f.pos < t.size /\ (f.pos = g.pos => f = g)
<1> DEFINE r == [pos |-> s.size, off |-> off, val |-> v]
<1>1. t.frames = s.frames \cup {r} /\ t.size = s.size + lenWidth + n
  BY StoreAppendIs
<1>2. s.size \in Nat /\ \A f \in s.frames : f.pos \in Nat
  BY DEF StoreState, Frame
<1>3. r.pos = s.size
  OBVIOUS
<1>4. \A f \in t.frames : f.pos < t.size
  BY <1>1, <1>2, <1>3 DEF lenWidth
<1>5. \A f \in s.frames : f.pos # r.pos
  BY <1>2, <1>3
<1> HIDE DEF r
<1> QED
  BY <1>1, <1>4, <1>5

(* A record appended to a segment whose index has room: segment.Append.    *)
LEMMA AppendKeepsSegmentOK ==
    ASSUME NEW b \in Nat, NEW next \in Offset, next \in Nat,
           NEW s \in StoreState, NEW x \in IndexState, SegmentOK(b, next, s, x),
           ~IndexFull(x), NEW v \in Value, NEW n \in Nat,
           NEW t, t = StoreAppend(s, next, v, n),
           NEW y, y = IndexWrite(x, next - b, s.size)
    PROVE  /\ SegmentOK(b, next + 1, t, y)
           /\ \A f \in t.frames : Indexed(f, b, next + 1, y)
           /\ t \in StoreState /\ y \in IndexState
<1> DEFINE r == [pos |-> s.size, off |-> next, val |-> v]
           k == next - b
<1>1. /\ t \in StoreState
      /\ t.frames = s.frames \cup {r} /\ t.size = s.size + lenWidth + n
  BY StoreAppendIs
<1>2. /\ b <= next /\ k \in Nat /\ x.size = entWidth * k
      /\ s.size \in Nat
  BY DEF SegmentOK, StoreState
<1>3. /\ y \in IndexState /\ k \in Slot
      /\ y.entry[k].off = k /\ y.entry[k].pos = s.size
      /\ \A i \in Slot : i # k => y.entry[i] = x.entry[i]
      /\ y.size = x.size + entWidth
  BY <1>2, IndexWriteIs
<1>4. /\ y.entry[k].off = k /\ y.entry[k].pos = s.size
      /\ \A i \in 0..(k - 1) : y.entry[i] = x.entry[i]
  <2>1. \A i \in 0..(k - 1) : i \in Slot /\ i # k
    BY <1>2, <1>3, CommitLogAssumption DEF Slot, entWidth
  <2> QED
    BY <1>3, <2>1
<1>5. b <= next + 1 /\ y.size = entWidth * (next + 1 - b)
  BY <1>2, <1>3 DEF entWidth
<1>6. r \in t.frames /\ r.pos = s.size /\ r.off = next
  BY <1>1
<1> HIDE DEF r
<1>7. ASSUME NEW off \in b..next
      PROVE  /\ y.entry[off - b].off = off - b
             /\ \E f \in t.frames : f.pos = y.entry[off - b].pos /\ f.off = off
  <2>1. CASE off = next
    BY <1>4, <1>6, <2>1
  <2>2. CASE off # next
    <3>1. off \in b..(next - 1) /\ off - b \in 0..(k - 1)
      BY <2>2
    <3>2. y.entry[off - b] = x.entry[off - b]
      BY <1>4, <3>1
    <3>3. PICK f \in s.frames : f.pos = x.entry[off - b].pos /\ f.off = off
      BY <3>1 DEF SegmentOK
    <3>4. x.entry[off - b].off = off - b
      BY <3>1 DEF SegmentOK
    <3> QED
      BY <1>1, <3>2, <3>3, <3>4
  <2> QED
    BY <2>1, <2>2
<1>8. \A f, g \in t.frames : f.pos < t.size /\ (f.pos = g.pos => f = g)
  BY AppendKeepsApart DEF SegmentOK
<1>9. ASSUME NEW f \in t.frames
      PROVE  f.off \in b..next /\ y.entry[f.off - b].pos = f.pos
  <2>1. CASE f = r
    BY <1>2, <1>4, <1>6, <2>1
  <2>2. CASE f \in s.frames
    <3>1. f.off \in b..(next - 1) /\ x.entry[f.off - b].pos = f.pos
      BY <2>2 DEF SegmentOK, Indexed
    <3>2. f.off \in b..next /\ f.off - b \in 0..(k - 1)
      BY <3>1
    <3> QED
      BY <1>4, <3>1, <3>2
  <2> QED
    BY <1>1, <2>1, <2>2
<1>10. next + 1 - 1 = next
  OBVIOUS
<1> QED
  BY <1>1, <1>3, <1>5, <1>7, <1>8, <1>9, <1>10 DEF SegmentOK, Indexed

-----------------------------------------------------------------------------
(* The invariant holds initially and every action preserves it. *)

(* Offsets are numbers. *)
LEMMA OffsetsAreNat ==
    ASSUME TypeOK
    PROVE  /\ \A b \in Offset : b \in Nat /\ nextOffset[b] \in Offset /\ nextOffset[b] \in Nat
           /\ \A b \in segments : b \in Offset
           /\ activeSegment \in Offset
<1>1. \A b \in Offset : b \in Nat
  BY CommitLogAssumption DEF Offset
<1> QED
  BY <1>1 DEF TypeOK

(* The files of an open log are those of its segments. *)
LEMMA OpenHasFiles ==
    ASSUME TypeOK, FilesMatch, ~closed
    PROVE  dir = segments \X Ext /\ dir # {}
<1>1. dir = segments \X Ext
  BY DEF FilesMatch
<1>2. <<activeSegment, "store">> \in dir
  BY <1>1 DEF TypeOK, Ext
<1> QED
  BY <1>1, <1>2

(* OpenHasFiles, of the state a step leads to. *)
LEMMA OpenHasFilesAfter ==
    ASSUME TypeOK', FilesMatch', ~closed'
    PROVE  dir' # {}
<1>1. dir' = segments' \X Ext
  BY DEF FilesMatch
<1>2. <<activeSegment', "store">> \in dir'
  BY <1>1 DEF TypeOK, Ext
<1> QED
  BY <1>2

(* At most one segment holds an offset, and Log.Read finds it. *)
LEMMA OwnerIs ==
    ASSUME TypeOK, SegmentsTile, NEW off \in Offset, NEW b \in segments, Holds(b, off)
    PROVE  Owner(off) = b
<1>1. \A c \in segments : Holds(c, off) => c = b
  <2> SUFFICES ASSUME NEW c \in segments, Holds(c, off) PROVE c = b
    OBVIOUS
  <2>1. /\ b \in Nat /\ c \in Nat /\ off \in Nat
        /\ nextOffset[b] \in Nat /\ nextOffset[c] \in Nat
    BY OffsetsAreNat
  <2>2. ~(b < c) /\ ~(c < b)
    BY <2>1 DEF SegmentsTile, Holds
  <2> QED
    BY <2>1, <2>2
<1>2. b <= b
  BY OffsetsAreNat
<1> QED
  BY <1>1, <1>2 DEF Owner

(* NewLog on an empty directory. *)
LEMMA InitIInv == Init => IInv
<1> SUFFICES ASSUME Init PROVE IInv
  OBVIOUS
<1>1. InitialOffset \in Offset /\ Offset \subseteq Nat
  BY CommitLogAssumption DEF Offset
<1>2. /\ IndexOpen(EmptyIndex) \in IndexState
      /\ IndexOpen(EmptyIndex).size = 0
  BY EmptyIndexIs, IndexOpenIs
<1>3. TypeOK
  BY <1>1, <1>2, EmptyStoreIs, EmptyIndexIs DEF Init, TypeOK, Ext
<1>4. SegmentsTile
  BY <1>1 DEF Init, SegmentsTile
<1>5. FilesMatch
  BY DEF Init, FilesMatch
<1>6. SegmentsOK
  BY <1>1, EmptySegmentOK DEF Init, SegmentsOK
<1>7. ClosedFiles /\ ActiveNotMaxed /\ RefusedAtEnd
  BY <1>1, <1>2, CommitLogAssumption
     DEF Init, ClosedFiles, ActiveNotMaxed, RefusedAtEnd, entWidth
<1> QED
  BY <1>3, <1>4, <1>5, <1>6, <1>7 DEF IInv

(* Flushing a store changes nothing the invariant speaks of while the log  *)
(* is open.                                                                *)
LEMMA FlushKeepsIInv ==
    ASSUME IInv, ~closed, NEW c \in Offset,
           store' = [store EXCEPT ![c] = StoreFlush(@)],
           UNCHANGED <<segments, activeSegment, nextOffset, index, dir, closed>>
    PROVE  IInv'
<1>1. store \in [Offset -> StoreState] /\ segments \subseteq Offset
  BY DEF IInv, TypeOK
<1>2. /\ store' \in [Offset -> StoreState]
      /\ \A b \in Offset : /\ store'[b].frames = store[b].frames
                            /\ store'[b].size = store[b].size
  BY <1>1, StoreFlushIs
<1>3. TypeOK'
  BY <1>2 DEF IInv, TypeOK
<1>4. SegmentsTile' /\ FilesMatch'
  BY DEF IInv, SegmentsTile, FilesMatch
<1>5. dir # {} => SegmentsOK'
  BY <1>1, <1>2, SameSegmentOK DEF IInv, SegmentsOK
<1>6. dir # {} => ClosedFiles' /\ ActiveNotMaxed' /\ RefusedAtEnd'
  BY <1>1, <1>2 DEF IInv, ClosedFiles, ActiveNotMaxed, RefusedAtEnd
<1> QED
  BY <1>3, <1>4, <1>5, <1>6 DEF IInv

(* Removing files leaves only the type and the shape of the segment list.  *)
LEMMA RemoveKeepsIInv == IInv /\ Remove => IInv'
<1> SUFFICES ASSUME IInv, Remove PROVE IInv'
  OBVIOUS
<1>1. TypeOK'
  BY EmptyStoreIs, EmptyIndexIs DEF IInv, TypeOK, Remove
<1>2. SegmentsTile' /\ FilesMatch'
  BY DEF IInv, SegmentsTile, FilesMatch, Remove
<1> QED
  BY <1>1, <1>2 DEF IInv, Remove

(* Close flushes the stores and cuts the index files back to their entries. *)
LEMMA CloseKeepsIInv == IInv /\ Close => IInv'
<1> SUFFICES ASSUME IInv, Close PROVE IInv'
  OBVIOUS
<1>1. /\ store \in [Offset -> StoreState] /\ index \in [Offset -> IndexState]
      /\ segments \subseteq Offset /\ activeSegment \in segments
  BY DEF IInv, TypeOK
<1>2. \A b \in Offset :
        /\ store'[b] \in StoreState
        /\ store'[b].frames = store[b].frames
        /\ store'[b].size = store[b].size
        /\ b \in segments => store'[b].file = store'[b].size
  BY <1>1, StoreFlushIs DEF Close
<1>3. \A b \in Offset :
        /\ index'[b] \in IndexState
        /\ index'[b].entry = index[b].entry
        /\ index'[b].size = index[b].size
        /\ b \in segments => index'[b].file = index'[b].size
  BY <1>1, IndexCloseIs DEF Close
<1>4. TypeOK'
  BY <1>2, <1>3 DEF IInv, TypeOK, Close
<1>5. SegmentsTile' /\ FilesMatch'
  BY DEF IInv, SegmentsTile, FilesMatch, Close
<1>6. dir # {} => SegmentsOK'
  BY <1>1, <1>2, <1>3, SameSegmentOK DEF IInv, SegmentsOK, Close
<1>7. dir # {} => ClosedFiles' /\ ActiveNotMaxed' /\ RefusedAtEnd'
  BY <1>1, <1>2, <1>3 DEF IInv, ClosedFiles, ActiveNotMaxed, RefusedAtEnd, Close
<1> QED
  BY <1>4, <1>5, <1>6, <1>7 DEF IInv, Close

(* Compaction drops segments from the front only, and never the active one. *)
LEMMA CompactKeepsIInv ==
    ASSUME IInv, NEW lowest \in Offset, Compact(lowest)
    PROVE  IInv'
<1> DEFINE gone == {b \in segments : nextOffset[b] <= lowest + 1}
<1>1. /\ store \in [Offset -> StoreState] /\ index \in [Offset -> IndexState]
      /\ segments \subseteq Offset /\ activeSegment \in segments
      /\ \A b \in Offset : b \in Nat /\ nextOffset[b] \in Nat
      /\ lowest \in Nat
  BY OffsetsAreNat, CommitLogAssumption DEF IInv, TypeOK, Offset
<1>2. /\ ~closed /\ segments' = segments \ gone
      /\ dir' = dir \ (gone \X Ext)
      /\ activeSegment' = activeSegment /\ nextOffset' = nextOffset
      /\ closed' = closed
  BY DEF Compact, Truncate
<1>3. activeSegment \in segments'
  BY <1>1, <1>2 DEF Compact
<1>4. \A b \in segments' : store'[b] = store[b] /\ index'[b] = index[b]
  BY <1>1, <1>2 DEF Compact, Truncate
<1>5. TypeOK'
  <2>1. store' \in [Offset -> StoreState] /\ index' \in [Offset -> IndexState]
    BY <1>1, EmptyStoreIs, EmptyIndexIs DEF Compact, Truncate
  <2>2. segments' \subseteq Offset /\ dir' \subseteq Offset \X Ext
    BY <1>1, <1>2 DEF IInv, TypeOK
  <2> QED
    BY <1>2, <1>3, <2>1, <2>2 DEF IInv, TypeOK
<1>6. SegmentsTile'
  <2>1. ASSUME NEW b \in segments' \ {activeSegment}
        PROVE  b < nextOffset[b] /\ nextOffset[b] \in segments'
    <3>1. b < nextOffset[b] /\ nextOffset[b] \in segments
      BY <1>2, <2>1 DEF IInv, SegmentsTile
    <3>2. nextOffset[b] > lowest + 1
      BY <1>1, <1>2, <2>1
    <3>3. nextOffset[nextOffset[b]] > lowest + 1
      <4>1. CASE nextOffset[b] = activeSegment
        BY <4>1, <1>1 DEF Compact
      <4>2. CASE nextOffset[b] # activeSegment
        <5>1. nextOffset[b] < nextOffset[nextOffset[b]]
          BY <3>1, <4>2 DEF IInv, SegmentsTile
        <5>2. nextOffset[b] \in Nat /\ nextOffset[nextOffset[b]] \in Nat
          BY <1>1, <3>1
        <5> QED
          BY <1>1, <3>2, <5>1, <5>2
      <4> QED
        BY <4>1, <4>2
    <3> QED
      BY <1>1, <1>2, <3>1, <3>3
  <2> QED
    BY <1>2, <2>1 DEF IInv, SegmentsTile
<1>7. FilesMatch' /\ dir # {}
  <2>1. dir = segments \X Ext /\ dir # {}
    BY <1>2, OpenHasFiles DEF IInv
  <2>2. dir' = segments' \X Ext
    BY <1>2, <2>1
  <2> QED
    BY <2>1, <2>2 DEF FilesMatch
<1>8. SegmentsOK'
  BY <1>2, <1>4, <1>7 DEF IInv, SegmentsOK
<1>9. ClosedFiles' /\ ActiveNotMaxed' /\ RefusedAtEnd'
  BY <1>2, <1>3, <1>4, <1>7 DEF IInv, ClosedFiles, ActiveNotMaxed, RefusedAtEnd
<1> QED
  BY <1>5, <1>6, <1>7, <1>8, <1>9 DEF IInv

(* A failed append adds a frame that no entry leads to. *)
LEMMA AppendEOFKeepsIInv ==
    ASSUME IInv, NEW v \in Value, NEW n \in PayloadLen, AppendEOF(v, n)
    PROVE  IInv'
<1> DEFINE a == activeSegment
           next == nextOffset[a]
           t == AppendedStore(v, n)
<1>1. /\ store \in [Offset -> StoreState] /\ index \in [Offset -> IndexState]
      /\ store[a] \in StoreState
      /\ segments \subseteq Offset /\ a \in segments /\ a \in Offset
      /\ next \in Offset /\ n \in Nat /\ a \in Nat /\ next \in Nat
  BY CommitLogAssumption, OffsetsAreNat DEF IInv, TypeOK
<1>2. /\ ~closed
      /\ store' = [store EXCEPT ![a] = t]
      /\ UNCHANGED <<segments, activeSegment, nextOffset, index, dir, closed>>
  BY DEF AppendEOF, CanAppend
<1>3. dir # {}
  BY <1>2, OpenHasFiles DEF IInv
<1>4. SegmentOK(a, next, store[a], index[a]) /\ ActiveNotMaxed
  BY <1>1, <1>3 DEF IInv, SegmentsOK
<1>5. /\ t \in StoreState
      /\ t.frames = store[a].frames
                       \cup {[pos |-> store[a].size, off |-> next, val |-> v]}
  BY <1>1, StoreAppendIs DEF AppendedStore
<1>6. IndexFull(index[a])
  BY DEF AppendEOF
<1>7. SegmentOK(a, next, t, index[a])
  <2>1. \A f, g \in t.frames : f.pos < t.size /\ (f.pos = g.pos => f = g)
    BY <1>1, <1>4, AppendKeepsApart DEF SegmentOK, AppendedStore
  <2> HIDE DEF t, a, next
  <2> QED
    BY <1>4, <1>5, <1>6, <2>1 DEF SegmentOK
<1>8. TypeOK'
  BY <1>1, <1>2, <1>5 DEF IInv, TypeOK
<1>9. SegmentsTile' /\ FilesMatch'
  BY <1>2 DEF IInv, SegmentsTile, FilesMatch
<1>10. SegmentsOK'
  BY <1>1, <1>2, <1>3, <1>7 DEF IInv, SegmentsOK
<1>11. ActiveNotMaxed' /\ ClosedFiles' /\ RefusedAtEnd'
  BY <1>1, <1>2, <1>3, <1>4 DEF IInv, ActiveNotMaxed, ClosedFiles, RefusedAtEnd
<1> QED
  BY <1>8, <1>9, <1>10, <1>11 DEF IInv

(* The active segment after an append whose index had room. *)
LEMMA AppendedIs ==
    ASSUME IInv, NEW v \in Value, NEW n \in PayloadLen, CanAppend,
           ~IndexFull(index[activeSegment])
    PROVE  /\ AppendedStore(v, n) \in StoreState
           /\ AppendedIndex \in IndexState
           /\ SegmentOK(activeSegment, nextOffset[activeSegment] + 1,
                        AppendedStore(v, n), AppendedIndex)
           /\ \A f \in AppendedStore(v, n).frames :
                 Indexed(f, activeSegment, nextOffset[activeSegment] + 1, AppendedIndex)
           /\ nextOffset[activeSegment] + 1 \in Offset
           /\ dir = segments \X Ext /\ dir # {} /\ closed = FALSE
<1> DEFINE a == activeSegment
           next == nextOffset[a]
<1>1. /\ store[a] \in StoreState /\ index[a] \in IndexState
      /\ a \in segments /\ a \in Offset
      /\ next \in Offset /\ n \in Nat /\ a \in Nat /\ next \in Nat
  BY CommitLogAssumption, OffsetsAreNat DEF IInv, TypeOK
<1>2. dir = segments \X Ext /\ dir # {} /\ closed = FALSE
  BY OpenHasFiles DEF IInv, CanAppend, TypeOK
<1>3. SegmentOK(a, next, store[a], index[a])
  BY <1>1, <1>2 DEF IInv, SegmentsOK
<1>4. next + 1 \in Offset
  BY <1>1, CommitLogAssumption DEF CanAppend, Offset
<1>5. /\ SegmentOK(a, next + 1, AppendedStore(v, n), AppendedIndex)
      /\ \A f \in AppendedStore(v, n).frames : Indexed(f, a, next + 1, AppendedIndex)
      /\ AppendedStore(v, n) \in StoreState
      /\ AppendedIndex \in IndexState
  BY <1>1, <1>3, AppendKeepsSegmentOK DEF AppendedStore, AppendedIndex
<1> QED
  BY <1>2, <1>4, <1>5

(* An append that leaves room in the active segment. *)
LEMMA AppendStayKeepsIInv ==
    ASSUME IInv, NEW v \in Value, NEW n \in PayloadLen, AppendStay(v, n)
    PROVE  IInv'
<1> DEFINE a == activeSegment
           next == nextOffset[a]
           t == AppendedStore(v, n)
           y == AppendedIndex
<1>1. /\ store \in [Offset -> StoreState] /\ index \in [Offset -> IndexState]
      /\ segments \subseteq Offset /\ a \in segments /\ a \in Offset
      /\ nextOffset \in [Offset -> Offset]
      /\ \A b \in Offset : b \in Nat /\ nextOffset[b] \in Nat
  BY CommitLogAssumption, OffsetsAreNat DEF IInv, TypeOK
<1>2. /\ store' = [store EXCEPT ![a] = t]
      /\ index' = [index EXCEPT ![a] = y]
      /\ nextOffset' = [nextOffset EXCEPT ![a] = next + 1]
      /\ UNCHANGED <<segments, activeSegment, dir, closed>>
      /\ ~IsMaxed(t, y)
  BY DEF AppendStay
<1>3. /\ t \in StoreState /\ y \in IndexState /\ SegmentOK(a, next + 1, t, y)
      /\ next + 1 \in Offset /\ dir # {} /\ closed = FALSE
  BY AppendedIs DEF AppendStay
<1> HIDE DEF t, y
<1>4. TypeOK'
  BY <1>1, <1>2, <1>3 DEF IInv, TypeOK
<1>5. SegmentsTile'
  <2>1. \A b \in segments : b # a => nextOffset'[b] = nextOffset[b]
    BY <1>1, <1>2
  <2>2. \A b, c \in segments : b < c => b # a
    BY <1>1 DEF IInv, SegmentsTile
  <2> QED
    BY <1>2, <2>1, <2>2 DEF IInv, SegmentsTile
<1>6. FilesMatch'
  BY <1>2 DEF IInv, FilesMatch
<1>7. SegmentsOK'
  BY <1>1, <1>2, <1>3 DEF IInv, SegmentsOK
<1>8. ActiveNotMaxed' /\ ClosedFiles' /\ RefusedAtEnd'
  <2>1. y.size < MaxIndexBytes
    BY <1>2, <1>3, CommitLogAssumption DEF IsMaxed, IndexState
  <2> QED
    BY <1>1, <1>2, <1>3, <2>1 DEF IInv, ActiveNotMaxed, ClosedFiles, RefusedAtEnd
<1> QED
  BY <1>4, <1>5, <1>6, <1>7, <1>8 DEF IInv

(* An append that maxes the active segment out, and the new segment after. *)
LEMMA AppendRollKeepsIInv ==
    ASSUME IInv, NEW v \in Value, NEW n \in PayloadLen, AppendRoll(v, n)
    PROVE  IInv'
<1> DEFINE a == activeSegment
           new == nextOffset[a] + 1
           t == AppendedStore(v, n)
           y == AppendedIndex
           x == IndexOpen(EmptyIndex)
<1>1. /\ store \in [Offset -> StoreState] /\ index \in [Offset -> IndexState]
      /\ segments \subseteq Offset /\ a \in segments /\ a \in Offset
      /\ nextOffset \in [Offset -> Offset]
      /\ \A b \in Offset : b \in Nat /\ nextOffset[b] \in Nat
  BY CommitLogAssumption, OffsetsAreNat DEF IInv, TypeOK
<1>2. /\ t \in StoreState /\ y \in IndexState /\ SegmentOK(a, new, t, y)
      /\ \A f \in t.frames : Indexed(f, a, new, y)
      /\ new \in Offset /\ new \in Nat
      /\ dir = segments \X Ext /\ dir # {} /\ closed = FALSE
  BY <1>1, AppendedIs DEF AppendRoll
<1>3. a < new /\ \A b \in segments : b < new
  BY <1>1, <1>2 DEF SegmentOK, IInv, SegmentsTile, SegmentsOK
<1>4. OpenedStore(new) = EmptyStore /\ OpenedIndex(new) = x
  BY <1>1, <1>2, <1>3 DEF OpenedStore, OpenedIndex
<1>5. x \in IndexState /\ x.size = 0 /\ RecoveredNext(new, x) = new
  BY EmptyIndexIs, IndexOpenIs DEF RecoveredNext
<1>6. /\ store' = [store EXCEPT ![a] = t, ![new] = EmptyStore]
      /\ index' = [index EXCEPT ![a] = y, ![new] = x]
      /\ nextOffset' = [nextOffset EXCEPT ![a] = new, ![new] = new]
      /\ segments' = segments \cup {new} /\ activeSegment' = new
      /\ dir' = dir \cup {new} \X Ext /\ closed' = closed
  BY <1>4, <1>5 DEF AppendRoll, NextBase
<1> HIDE DEF t, y, x, new
<1>7. /\ nextOffset'[a] = new /\ nextOffset'[new] = new
      /\ store'[a] = t /\ store'[new] = EmptyStore
      /\ index'[a] = y /\ index'[new] = x
      /\ \A b \in segments : b # a => /\ nextOffset'[b] = nextOffset[b]
                                      /\ store'[b] = store[b] /\ index'[b] = index[b]
  BY <1>1, <1>2, <1>3, <1>6
<1>8. TypeOK'
  BY <1>1, <1>2, <1>5, <1>6, EmptyStoreIs DEF IInv, TypeOK
<1>9. SegmentsTile'
  <2>1. ASSUME NEW b \in segments' \ {new}
        PROVE  b < nextOffset'[b] /\ nextOffset'[b] \in segments'
    <3>1. CASE b = a
      BY <1>3, <1>6, <1>7, <3>1
    <3>2. CASE b # a
      <4>1. b \in segments /\ nextOffset'[b] = nextOffset[b]
        BY <1>6, <1>7, <3>2
      <4>2. b < nextOffset[b] /\ nextOffset[b] \in segments
        BY <3>2, <4>1 DEF IInv, SegmentsTile
      <4> QED
        BY <1>6, <4>1, <4>2
    <3> QED
      BY <3>1, <3>2
  <2>2. ASSUME NEW b \in segments', NEW c \in segments', b < c
        PROVE  nextOffset'[b] <= c
    <3>1. b # new
      BY <1>1, <1>2, <1>3, <1>6, <2>2
    <3>2. CASE b = a
      <4>1. c = new
        BY <1>1, <1>6, <2>2, <3>2 DEF IInv, SegmentsTile
      <4> QED
        BY <1>2, <1>7, <3>2, <4>1
    <3>3. CASE b # a /\ c = new
      <4>1. nextOffset[b] \in segments
        BY <1>6, <3>1, <3>3 DEF IInv, SegmentsTile
      <4> QED
        BY <1>1, <1>2, <1>3, <1>6, <1>7, <3>1, <3>3, <4>1
    <3>4. CASE b # a /\ c # new
      BY <1>6, <1>7, <2>2, <3>1, <3>4 DEF IInv, SegmentsTile
    <3> QED
      BY <3>2, <3>3, <3>4
  <2>3. \A b \in segments' : b <= new
    BY <1>1, <1>2, <1>3, <1>6
  <2> QED
    BY <1>6, <2>1, <2>2, <2>3 DEF SegmentsTile
<1>10. FilesMatch'
  BY <1>2, <1>6 DEF FilesMatch
<1>11. SegmentsOK'
  <2>1. SegmentOK(new, new, EmptyStore, x)
    BY <1>2, EmptySegmentOK DEF x
  <2> QED
    BY <1>2, <1>6, <1>7, <2>1 DEF IInv, SegmentsOK
<1>13. RefusedAtEnd'
  <2> SUFFICES ASSUME NEW b \in segments, NEW f \in store'[b].frames
               PROVE  f.off # nextOffset'[b]
    BY <1>6 DEF RefusedAtEnd
  <2>1. CASE b = a
    <3>1. f.off \in a..(new - 1)
      BY <1>2, <1>7, <2>1 DEF Indexed
    <3> QED
      BY <1>1, <1>2, <1>7, <2>1, <3>1
  <2>2. CASE b # a
    BY <1>2, <1>7, <2>2 DEF IInv, RefusedAtEnd
  <2> QED
    BY <2>1, <2>2
<1>12. ActiveNotMaxed' /\ ClosedFiles'
  <2>1. 0 < MaxIndexBytes
    BY CommitLogAssumption DEF entWidth
  <2>2. ActiveNotMaxed'
    <3>1. activeSegment' = new /\ index'[new] = x
      BY <1>6, <1>7
    <3> QED
      BY <1>5, <2>1, <3>1 DEF ActiveNotMaxed
  <2>3. ClosedFiles'
    BY <1>2, <1>6, Zenon DEF ClosedFiles
  <2> QED
    BY <2>2, <2>3
<1> QED
  BY <1>8, <1>9, <1>10, <1>11, <1>12, <1>13 DEF IInv

(* NewLog on the directory of a closed log rebuilds what was in memory.    *)
LEMMA OpenRestores ==
    ASSUME IInv, Open, dir # {}
    PROVE  /\ segments' = segments /\ activeSegment' = activeSegment /\ dir' = dir
           /\ \A b \in segments :
                 /\ nextOffset'[b] = nextOffset[b]
                 /\ store'[b] \in StoreState /\ index'[b] \in IndexState
                 /\ store'[b].frames = store[b].frames /\ store'[b].size = store[b].size
                 /\ index'[b].entry = index[b].entry /\ index'[b].size = index[b].size
<1> DEFINE bases == IF SetupBases = {} THEN {InitialOffset} ELSE SetupBases
<1>1. /\ store \in [Offset -> StoreState] /\ index \in [Offset -> IndexState]
      /\ segments \subseteq Offset /\ activeSegment \in segments
      /\ \A b \in Offset : b \in Nat /\ nextOffset[b] \in Nat
  BY OffsetsAreNat DEF IInv, TypeOK
<1>2. /\ closed
      /\ segments' = bases /\ activeSegment' = Max(bases)
      /\ dir' = dir \cup bases \X Ext
      /\ store' = [b \in Offset |-> IF b \in bases THEN OpenedStore(b) ELSE store[b]]
      /\ index' = [b \in Offset |-> IF b \in bases THEN OpenedIndex(b) ELSE index[b]]
      /\ nextOffset' = [b \in Offset |->
            IF b \in bases THEN RecoveredNext(b, OpenedIndex(b)) ELSE nextOffset[b]]
  BY DEF Open
<1> HIDE DEF bases
<1>3. dir = segments \X Ext
  BY DEF IInv, FilesMatch
<1>4. bases = segments
  BY <1>1, <1>3, SetupFindsSegments DEF bases
<1>5. Max(segments) = activeSegment
  BY <1>1, MaxIs DEF IInv, SegmentsTile
<1>6. ASSUME NEW b \in segments
      PROVE  /\ store'[b] \in StoreState /\ index'[b] \in IndexState
             /\ store'[b].frames = store[b].frames /\ store'[b].size = store[b].size
             /\ index'[b].entry = index[b].entry /\ index'[b].size = index[b].size
  <2>1. <<b, "store">> \in dir /\ <<b, "index">> \in dir
    BY <1>3 DEF Ext
  <2>2. store'[b] = StoreOpen(store[b]) /\ index'[b] = IndexOpen(index[b])
    BY <1>1, <1>2, <1>4, <2>1 DEF OpenedStore, OpenedIndex
  <2>3. store[b].file = store[b].size /\ index[b].file = index[b].size
    BY <1>2 DEF IInv, ClosedFiles
  <2> QED
    BY <1>1, <2>2, <2>3, StoreOpenIs, IndexOpenIs
<1>7. ASSUME NEW b \in segments
      PROVE  nextOffset'[b] = nextOffset[b]
  <2>1. SegmentOK(b, nextOffset[b], store'[b], index'[b])
    BY <1>6, SameSegmentOK DEF IInv, SegmentsOK
  <2>2. nextOffset'[b] = RecoveredNext(b, index'[b])
    BY <1>1, <1>2, <1>4
  <2> QED
    BY <1>1, <1>6, <2>1, <2>2, RecoversNext
<1> QED
  BY <1>2, <1>3, <1>4, <1>5, <1>6, <1>7

(* NewLog on the directory of a closed log, or on a new directory. *)
LEMMA OpenKeepsIInv == IInv /\ Open => IInv'
<1> SUFFICES ASSUME IInv, Open PROVE IInv'
  OBVIOUS
<1> DEFINE bases == IF SetupBases = {} THEN {InitialOffset} ELSE SetupBases
<1>1. /\ store \in [Offset -> StoreState] /\ index \in [Offset -> IndexState]
      /\ segments \subseteq Offset /\ activeSegment \in segments
      /\ nextOffset \in [Offset -> Offset] /\ dir \subseteq Offset \X Ext
      /\ \A b \in Offset : b \in Nat /\ nextOffset[b] \in Nat
  BY OffsetsAreNat DEF IInv, TypeOK
<1>2. /\ closed /\ closed' = FALSE
      /\ segments' = bases /\ activeSegment' = Max(bases)
      /\ dir' = dir \cup bases \X Ext
      /\ store' = [b \in Offset |-> IF b \in bases THEN OpenedStore(b) ELSE store[b]]
      /\ index' = [b \in Offset |-> IF b \in bases THEN OpenedIndex(b) ELSE index[b]]
      /\ nextOffset' = [b \in Offset |->
            IF b \in bases THEN RecoveredNext(b, OpenedIndex(b)) ELSE nextOffset[b]]
  BY DEF Open
<1> HIDE DEF bases
<1>3. CASE dir = {}
  <2> DEFINE x == IndexOpen(EmptyIndex)
             i == InitialOffset
  <2>1. i \in Offset /\ i \in Nat
    BY CommitLogAssumption DEF Offset
  <2>2. bases = {i}
    BY <1>3, SetupFindsNothing DEF bases
  <2>3. OpenedStore(i) = EmptyStore /\ OpenedIndex(i) = x
    BY <1>3 DEF OpenedStore, OpenedIndex
  <2>4. x \in IndexState /\ x.size = 0 /\ RecoveredNext(i, x) = i
    BY EmptyIndexIs, IndexOpenIs DEF RecoveredNext
  <2>5. Max(bases) = i
    BY <2>1, <2>2, MaxIs
  <2> HIDE DEF x, i
  <2>6. /\ segments' = {i} /\ activeSegment' = i /\ nextOffset'[i] = i
        /\ store'[i] = EmptyStore /\ index'[i] = x
        /\ dir' = {i} \X Ext
    BY <1>2, <1>3, <2>1, <2>2, <2>3, <2>4, <2>5
  <2>7. TypeOK'
    BY <1>1, <1>2, <2>1, <2>2, <2>3, <2>4, <2>6, EmptyStoreIs DEF TypeOK
  <2>8. SegmentsTile'
    BY <2>1, <2>6 DEF SegmentsTile
  <2>9. FilesMatch'
    BY <2>6 DEF FilesMatch
  <2>10. SegmentsOK'
    BY <2>1, <2>6, EmptySegmentOK DEF SegmentsOK, x
  <2>11. ActiveNotMaxed' /\ RefusedAtEnd'
    BY <2>4, <2>6, CommitLogAssumption DEF ActiveNotMaxed, RefusedAtEnd, entWidth
  <2>12. ClosedFiles'
    BY <1>2, Zenon DEF ClosedFiles
  <2> QED
    BY <2>7, <2>8, <2>9, <2>10, <2>11, <2>12 DEF IInv
<1>4. CASE dir # {}
  <2>1. dir = segments \X Ext
    BY <1>4 DEF IInv, FilesMatch
  <2>2. /\ segments' = segments /\ activeSegment' = activeSegment /\ dir' = dir
        /\ \A b \in segments :
              /\ nextOffset'[b] = nextOffset[b]
              /\ store'[b] \in StoreState /\ index'[b] \in IndexState
              /\ store'[b].frames = store[b].frames /\ store'[b].size = store[b].size
              /\ index'[b].entry = index[b].entry /\ index'[b].size = index[b].size
    BY <1>4, OpenRestores
  <2>3. TypeOK'
    <3>1. /\ store' \in [Offset -> StoreState] /\ index' \in [Offset -> IndexState]
          /\ nextOffset' \in [Offset -> Offset]
      BY <1>1, <1>2, <2>2
    <3> QED
      BY <1>1, <1>2, <2>2, <3>1 DEF TypeOK
  <2>4. SegmentsTile'
    BY <2>2 DEF IInv, SegmentsTile
  <2>5. FilesMatch'
    BY <2>1, <2>2 DEF FilesMatch
  <2>6. SegmentsOK'
    BY <1>4, <2>2, SameSegmentOK DEF IInv, SegmentsOK
  <2>7. ActiveNotMaxed' /\ RefusedAtEnd'
    BY <1>1, <1>4, <2>2 DEF IInv, ActiveNotMaxed, RefusedAtEnd
  <2>8. ClosedFiles'
    BY <1>2, Zenon DEF ClosedFiles
  <2> QED
    BY <2>3, <2>4, <2>5, <2>6, <2>7, <2>8 DEF IInv
<1> QED
  BY <1>3, <1>4

-----------------------------------------------------------------------------
(* Theorems *)

(* The invariant is inductive. *)
LEMMA IInvInductive == IInv /\ [Next]_vars => IInv'
<1> SUFFICES ASSUME IInv, [Next]_vars PROVE IInv'
  OBVIOUS
<1>1. ASSUME NEW v \in Value, NEW n \in PayloadLen,
             AppendStay(v, n) \/ AppendRoll(v, n) \/ AppendEOF(v, n)
      PROVE  IInv'
  BY <1>1, AppendStayKeepsIInv, AppendRollKeepsIInv, AppendEOFKeepsIInv
<1>2. ASSUME NEW off \in Offset, Read(off)
      PROVE  IInv'
  <2>1. Owner(off) \in Offset
    <3>1. PICK b \in segments : Holds(b, off)
      BY <1>2 DEF Read, Window
    <3>2. Owner(off) = b
      BY <3>1, OwnerIs DEF IInv
    <3> QED
      BY <3>2 DEF IInv, TypeOK
  <2> QED
    BY <1>2, <2>1, FlushKeepsIInv DEF Read
<1>3. ASSUME NEW b \in segments, ReaderRead(b)
      PROVE  IInv'
  BY <1>3, FlushKeepsIInv DEF ReaderRead, IInv, TypeOK
<1>4. ASSUME NEW lowest \in Offset, Compact(lowest)
      PROVE  IInv'
  BY <1>4, CompactKeepsIInv
<1>5. CASE Close
  BY <1>5, CloseKeepsIInv
<1>6. CASE Remove
  BY <1>6, RemoveKeepsIInv
<1>7. CASE Open
  BY <1>7, OpenKeepsIInv
<1>8. CASE UNCHANGED vars
  BY <1>8 DEF vars, IInv, TypeOK, SegmentsTile, FilesMatch, SegmentsOK, ClosedFiles,
              ActiveNotMaxed, RefusedAtEnd
<1> QED
  BY <1>1, <1>2, <1>3, <1>4, <1>5, <1>6, <1>7, <1>8 DEF Next

(* The invariant holds in every state. *)
LEMMA IInvHolds == Spec => []IInv
  BY InitIInv, IInvInductive, PTL DEF Spec

(* Every variable of the log keeps its type. *)
THEOREM TypeCorrect == Spec => []TypeOK
<1>1. IInv => TypeOK
  BY DEF IInv
<1> QED
  BY <1>1, IInvHolds, PTL

(* Segments never leave a gap and never overlap. *)
THEOREM SegmentsAlwaysTile == Spec => []SegmentsTile
<1>1. IInv => SegmentsTile
  BY DEF IInv
<1> QED
  BY <1>1, IInvHolds, PTL

(* Reading an offset finds the record appended with it. *)
LEMMA IInvReadsOwnRecord == IInv => ReadsOwnRecord
<1> SUFFICES ASSUME IInv, NEW b \in segments, NEW off \in Offset,
                    dir # {}, Holds(b, off)
             PROVE  CanRead(b, off) /\ FrameOf(b, off).off = off
  BY DEF ReadsOwnRecord
<1>1. SegmentOK(b, nextOffset[b], store[b], index[b])
  BY DEF IInv, SegmentsOK
<1>2. b \in Nat /\ off \in Nat /\ nextOffset[b] \in Nat
  BY OffsetsAreNat DEF IInv
<1>3. off \in b..(nextOffset[b] - 1)
  BY <1>2 DEF Holds
<1>4. HasEntry(index[b], off - b)
  BY <1>1, <1>2, <1>3 DEF SegmentOK, HasEntry, entWidth
<1>5. PICK f \in store[b].frames : f.pos = index[b].entry[off - b].pos /\ f.off = off
  BY <1>1, <1>3 DEF SegmentOK
<1>6. FramesAt(b, off) = {f}
  BY <1>1, <1>5 DEF FramesAt, SegmentOK
<1> QED
  BY <1>4, <1>5, <1>6 DEF CanRead, FrameOf

(* So every readable offset leads to its own record, in every state. *)
THEOREM ReadsAlwaysOwnRecord == Spec => []ReadsOwnRecord
  BY IInvReadsOwnRecord, IInvHolds, PTL

(* With an aligned index an append always has room for its entry. *)
LEMMA IInvHasRoom == IInv => ActiveHasRoom
<1> SUFFICES ASSUME IInv, MaxIndexBytes % entWidth = 0, ~closed
             PROVE  ~IndexFull(index[activeSegment])
  BY DEF ActiveHasRoom
<1>1. dir # {}
  BY OpenHasFiles DEF IInv
<1>2. /\ index[activeSegment].size = entWidth * (nextOffset[activeSegment] - activeSegment)
      /\ index[activeSegment].size < MaxIndexBytes
  BY <1>1 DEF IInv, TypeOK, SegmentsOK, SegmentOK, ActiveNotMaxed
<1>3. activeSegment \in Nat /\ nextOffset[activeSegment] \in Nat
  BY OffsetsAreNat DEF IInv
<1> QED
  BY <1>2, <1>3, CommitLogAssumption DEF IndexFull, entWidth

(* So no append of the log's history ever failed. *)
THEOREM ActiveAlwaysHasRoom == Spec => []ActiveHasRoom
  BY IInvHasRoom, IInvHolds, PTL

(* A frame of a store is what its offset reads as, or one that was refused *)
(* when the index of the active segment was full.                          *)
LEMMA FramesAre ==
    ASSUME IInv, dir # {}, NEW b \in segments, NEW f \in store[b].frames
    PROVE  \/ /\ Holds(b, f.off) /\ f = FrameOf(b, f.off)
              /\ index[b].entry[f.off - b].pos = f.pos
           \/ /\ b = activeSegment /\ f.off = nextOffset[b]
              /\ IndexFull(index[b])
<1>1. SegmentOK(b, nextOffset[b], store[b], index[b]) /\ RefusedAtEnd
  BY DEF IInv, SegmentsOK
<1>2. b \in Nat /\ nextOffset[b] \in Nat
  BY OffsetsAreNat DEF IInv
<1>3. CASE Indexed(f, b, nextOffset[b], index[b])
  <2>1. Holds(b, f.off) /\ index[b].entry[f.off - b].pos = f.pos
    BY <1>2, <1>3 DEF Indexed, Holds
  <2>2. FramesAt(b, f.off) = {f}
    BY <1>1, <2>1 DEF FramesAt, SegmentOK
  <2> QED
    BY <2>1, <2>2 DEF FrameOf
<1>4. CASE ~Indexed(f, b, nextOffset[b], index[b])
  <2>1. f.off = nextOffset[b] /\ IndexFull(index[b])
    BY <1>1, <1>4 DEF SegmentOK
  <2> QED
    BY <1>1, <2>1 DEF RefusedAtEnd
<1> QED
  BY <1>3, <1>4

(* The stream of Log.Reader has every record of the log under its offset,  *)
(* at every size of segment and index, and besides only refused ones.      *)
THEOREM StreamAlwaysHoldsLog == Spec => []StreamHoldsLog
<1>1. IInv => StreamHoldsLog
  BY FramesAre DEF StreamHoldsLog
<1> QED
  BY <1>1, IInvHolds, PTL

(* With an aligned index no frame is refused, in the log or closed.        *)
LEMMA AlignedFramesHeld ==
    ASSUME IInv, dir # {}, MaxIndexBytes % entWidth = 0,
           NEW b \in segments, NEW f \in store[b].frames
    PROVE  Holds(b, f.off) /\ index[b].entry[f.off - b].pos = f.pos
<1>1. ~IndexFull(index[activeSegment])
  <2>1. /\ index[activeSegment].size = entWidth * (nextOffset[activeSegment] - activeSegment)
        /\ index[activeSegment].size < MaxIndexBytes
    BY DEF IInv, TypeOK, SegmentsOK, SegmentOK, ActiveNotMaxed
  <2>2. activeSegment \in Nat /\ nextOffset[activeSegment] \in Nat
    BY OffsetsAreNat DEF IInv
  <2> QED
    BY <2>1, <2>2, CommitLogAssumption DEF IndexFull, entWidth
<1> QED
  BY <1>1, FramesAre

(* So Log.Reader then reads the records of the log only. *)
THEOREM StreamIsAlwaysLog == Spec => []StreamIsLog
<1>1. IInv => StreamIsLog
  BY AlignedFramesHeld DEF StreamIsLog
<1> QED
  BY <1>1, IInvHolds, PTL

(* Reopening a closed log rebuilds its segments from the files. *)
THEOREM ReopenAlwaysRestores == Spec => ReopenRestores
<1>1. IInv /\ [Next]_vars =>
        [closed /\ ~closed' /\ dir # {} =>
            /\ segments' = segments
            /\ activeSegment' = activeSegment
            /\ \A b \in segments : nextOffset'[b] = nextOffset[b]]_vars
  <2> SUFFICES ASSUME IInv, Next, closed, ~closed', dir # {}
               PROVE  /\ segments' = segments
                      /\ activeSegment' = activeSegment
                      /\ \A b \in segments : nextOffset'[b] = nextOffset[b]
    OBVIOUS
  <2>1. Open
    BY DEF Next, AppendStay, AppendRoll, AppendEOF, CanAppend, Read, ReaderRead,
           Compact, Truncate, Close, Remove
  <2> QED
    BY <2>1, OpenRestores DEF IInv
<1> QED
  BY <1>1, IInvHolds, PTL DEF Spec, ReopenRestores

(* With an aligned index an append never finds the active segment's index  *)
(* full without the segment being maxed out, so no append is refused for   *)
(* ever: the disagreement with segment_test.go needs an unaligned index.   *)
THEOREM AlignedNeverWedges ==
    ASSUME MaxIndexBytes % entWidth = 0
    PROVE  Spec => []EOFMeansMaxed
<1>1. ActiveHasRoom => EOFMeansMaxed
  BY DEF ActiveHasRoom, EOFMeansMaxed
<1> QED
  BY <1>1, ActiveAlwaysHasRoom, PTL

(* With an aligned index a log that was closed reopens every segment past  *)
(* all the records its store holds: what the crash run refutes needs a     *)
(* process that dies before Close.                                         *)
THEOREM ReopenAlwaysPastRecords ==
    ASSUME MaxIndexBytes % entWidth = 0
    PROVE  Spec => ReopenPastEveryRecord
<1>1. IInv' /\ [Next]_vars =>
        [closed /\ ~closed' =>
            \A b \in segments' : \A f \in store'[b].frames : f.off < nextOffset'[b]]_vars
  <2>1. IInv /\ ~closed => \A b \in segments : \A f \in store[b].frames : f.off < nextOffset[b]
    BY AlignedFramesHeld, OpenHasFiles DEF Holds, IInv
  <2> SUFFICES ASSUME IInv', ~closed'
               PROVE  \A b \in segments' : \A f \in store'[b].frames : f.off < nextOffset'[b]
    OBVIOUS
  <2>2. (IInv /\ ~closed => \A b \in segments : \A f \in store[b].frames : f.off < nextOffset[b])'
    BY <2>1, PTL
  <2> QED
    BY <2>2
<1>2. IInv /\ [Next]_vars => IInv'
  BY IInvInductive
<1> QED
  BY <1>1, <1>2, IInvHolds, PTL DEF Spec, ReopenPastEveryRecord

-----------------------------------------------------------------------------
(* The log implements OffsetLog. *)

(* What a read of the log returns, in terms of the frames and entries. *)
ReadsFrames ==
    \A b \in segments : \A off \in Offset : \A f \in store[b].frames :
        Holds(b, off) /\ f.pos = index[b].entry[off - b].pos => ReadValue(off) = f.val

LEMMA ReadValueIs == IInv /\ dir # {} => ReadsFrames
<1> SUFFICES ASSUME IInv, dir # {}, NEW b \in segments, NEW off \in Offset,
                    NEW f \in store[b].frames,
                    Holds(b, off), f.pos = index[b].entry[off - b].pos
             PROVE  ReadValue(off) = f.val
  BY DEF ReadsFrames
<1>1. Owner(off) = b
  BY OwnerIs DEF IInv
<1>2. CanRead(b, off)
  BY IInvReadsOwnRecord DEF ReadsOwnRecord
<1>3. FramesAt(b, off) = {f}
  BY DEF FramesAt, IInv, SegmentsOK, SegmentOK
<1>4. FrameOf(b, off) = f
  BY <1>3 DEF FrameOf
<1> QED
  BY <1>1, <1>2, <1>4 DEF ReadValue

(* Every offset of the window has such a frame. *)
LEMMA WindowHasFrames ==
    ASSUME IInv, dir # {}, NEW b \in segments, NEW off \in Offset, Holds(b, off)
    PROVE  \E f \in store[b].frames : f.pos = index[b].entry[off - b].pos
<1>1. SegmentOK(b, nextOffset[b], store[b], index[b])
  BY DEF IInv, SegmentsOK
<1>2. off \in b..(nextOffset[b] - 1)
  BY OffsetsAreNat DEF IInv, Holds
<1> QED
  BY <1>1, <1>2 DEF SegmentOK

(* A segment whose range, frames and entries stay reads as before. *)
LEMMA ReadsSame ==
    ASSUME IInv, dir # {}, ReadsFrames', NEW b \in segments, b \in segments',
           NEW off \in Offset, Holds(b, off), Holds(b, off)',
           store[b].frames \subseteq store'[b].frames,
           index'[b].entry[off - b] = index[b].entry[off - b]
    PROVE  ReadValue(off)' = ReadValue(off)
<1>1. PICK f \in store[b].frames : f.pos = index[b].entry[off - b].pos
  BY WindowHasFrames
<1>2. ReadValue(off) = f.val
  BY <1>1, ReadValueIs DEF ReadsFrames
<1>3. ReadValue(off)' = f.val
  BY <1>1 DEF ReadsFrames
<1> QED
  BY <1>2, <1>3

(* A step that keeps the segments, their ranges, frames and entries is not *)
(* visible to a reader.                                                    *)
LEMMA UnseenStep ==
    ASSUME IInv, dir # {}, dir' # {}, ReadsFrames', segments' = segments,
           activeSegment' = activeSegment,
           \A b \in segments : /\ nextOffset'[b] = nextOffset[b]
                               /\ store[b].frames \subseteq store'[b].frames
                               /\ index'[b].entry = index[b].entry
    PROVE  UNCHANGED <<Contents, NextOffset, Removed>>
<1>1. ~Removed /\ ~Removed'
  BY DEF Removed
<1>2. \A b \in segments : \A off \in Offset : Holds(b, off)' <=> Holds(b, off)
  BY DEF Holds
<1>3. Readable = Window /\ Readable' = Window /\ Window \subseteq Offset
  BY <1>1, <1>2 DEF Readable, Window
<1>4. ASSUME NEW off \in Window
      PROVE  ReadValue(off)' = ReadValue(off)
  <2>1. PICK b \in segments : Holds(b, off)
    BY DEF Window
  <2> QED
    BY <1>2, <1>3, <2>1, ReadsSame
<1>5. Contents' = Contents
  BY <1>3, <1>4 DEF Contents
<1>6. NextOffset' = NextOffset
  BY <1>1 DEF NextOffset, IInv, TypeOK
<1>7. Removed' = Removed
  BY DEF Removed
<1> QED
  BY <1>5, <1>6, <1>7

(* What an append writes to the active segment. *)
LEMMA AppendedHas ==
    ASSUME IInv, NEW v \in Value, NEW n \in PayloadLen, CanAppend,
           ~IndexFull(index[activeSegment]),
           NEW a, a = activeSegment, NEW next, next = nextOffset[a],
           NEW r, r = [pos |-> store[a].size, off |-> next, val |-> v]
    PROVE  /\ AppendedStore(v, n).frames = store[a].frames \cup {r}
           /\ AppendedIndex.entry[next - a].pos = r.pos
           /\ \A off \in a..(next - 1) :
                 AppendedIndex.entry[off - a] = index[a].entry[off - a]
<1>1. /\ store[a] \in StoreState /\ index[a] \in IndexState /\ a \in segments
      /\ a \in Nat /\ next \in Nat /\ next \in Offset /\ n \in Nat
  BY CommitLogAssumption, OffsetsAreNat DEF IInv, TypeOK
<1>2. SegmentOK(a, next, store[a], index[a])
  BY <1>1, OpenHasFiles DEF IInv, SegmentsOK, CanAppend
<1>3. StoreAppend(store[a], next, v, n).frames = store[a].frames \cup {r}
  BY <1>1, StoreAppendIs
<1>4. /\ next - a \in Nat /\ index[a].size = entWidth * (next - a) /\ store[a].size \in Nat
      /\ ~IndexFull(index[a])
  BY <1>1, <1>2 DEF SegmentOK, StoreState
<1>5. /\ next - a \in Slot
      /\ IndexWrite(index[a], next - a, store[a].size).entry[next - a].pos = store[a].size
      /\ \A i \in Slot : i # next - a =>
            IndexWrite(index[a], next - a, store[a].size).entry[i] = index[a].entry[i]
  <2> DEFINE x == index[a]
             k == next - a
             p == store[a].size
  <2>1. x \in IndexState /\ k \in Nat /\ x.size = entWidth * k /\ ~IndexFull(x) /\ p \in Nat
    BY <1>1, <1>4
  <2> HIDE DEF x, k, p
  <2>2. k \in Slot
    BY <2>1, IndexWriteIs
  <2>3. IndexWrite(x, k, p).entry[k].pos = p
    BY <2>1, IndexWriteIs
  <2>4. \A i \in Slot : i # k => IndexWrite(x, k, p).entry[i] = x.entry[i]
    BY <2>1, IndexWriteIs
  <2> QED
    BY <2>2, <2>3, <2>4 DEF x, k, p
<1>6. \A off \in a..(next - 1) : off - a \in Slot /\ off - a # next - a
  BY <1>1, <1>4, <1>5, CommitLogAssumption DEF Slot, entWidth
<1> QED
  BY <1>3, <1>5, <1>6 DEF AppendedStore, AppendedIndex

(* An append leaves the other segments alone, adds one record to the       *)
(* active one, and any segment it makes is empty.                          *)
LEMMA AppendChanges ==
    ASSUME IInv, IInv', NEW v \in Value, NEW n \in PayloadLen,
           AppendStay(v, n) \/ AppendRoll(v, n),
           NEW a, a = activeSegment, NEW next, next = nextOffset[a]
    PROVE  /\ segments \subseteq segments'
           /\ nextOffset'[a] = next + 1 /\ nextOffset'[activeSegment'] = next + 1
           /\ store'[a] = AppendedStore(v, n) /\ index'[a] = AppendedIndex
           /\ \A b \in segments \ {a} :
                 /\ nextOffset'[b] = nextOffset[b]
                 /\ store'[b] = store[b] /\ index'[b] = index[b]
           /\ \A b \in segments' \ segments : nextOffset'[b] = b
<1>1. /\ store \in [Offset -> StoreState] /\ index \in [Offset -> IndexState]
      /\ segments \subseteq Offset /\ a \in segments /\ a \in Offset
      /\ nextOffset \in [Offset -> Offset]
      /\ \A b \in Offset : b \in Nat /\ nextOffset[b] \in Nat
  BY CommitLogAssumption, OffsetsAreNat DEF IInv, TypeOK
<1>2. CASE AppendStay(v, n)
  BY <1>1, <1>2 DEF AppendStay
<1>3. CASE AppendRoll(v, n)
  <2> DEFINE new == next + 1
  <2>1. new \in Offset /\ dir = segments \X Ext
    BY <1>3, AppendedIs DEF AppendRoll
  <2>2. \A b \in segments : b < new
    <3>1. SegmentOK(a, new, AppendedStore(v, n), AppendedIndex)
      BY <1>3, AppendedIs DEF AppendRoll
    <3>2. a <= next /\ a \in Nat /\ next \in Nat
      BY <1>1, <1>3, OpenHasFiles DEF IInv, SegmentsOK, SegmentOK, AppendRoll, CanAppend
    <3> QED
      BY <1>1, <3>2 DEF IInv, SegmentsTile
  <2>3. OpenedStore(new) = EmptyStore /\ OpenedIndex(new) = IndexOpen(EmptyIndex)
    BY <1>1, <2>1, <2>2 DEF OpenedStore, OpenedIndex
  <2>4. RecoveredNext(new, OpenedIndex(new)) = new
    BY <2>3, EmptyIndexIs, IndexOpenIs DEF RecoveredNext
  <2>5. /\ store' = [store EXCEPT ![a] = AppendedStore(v, n), ![new] = OpenedStore(new)]
        /\ index' = [index EXCEPT ![a] = AppendedIndex, ![new] = OpenedIndex(new)]
        /\ nextOffset' = [nextOffset EXCEPT ![a] = new, ![new] = new]
        /\ segments' = segments \cup {new} /\ activeSegment' = new
    BY <1>3, <2>4 DEF AppendRoll, NextBase
  <2>6. new # a /\ \A b \in segments : b # new
    BY <1>1, <2>1, <2>2
  <2> HIDE DEF new
  <2>7. segments' \ segments = {new}
    BY <2>5, <2>6
  <2>8. nextOffset'[a] = new /\ nextOffset'[new] = new
    BY <1>1, <2>1, <2>5, <2>6
  <2>9. store'[a] = AppendedStore(v, n) /\ index'[a] = AppendedIndex
    BY <1>1, <2>1, <2>5, <2>6
  <2>10. ASSUME NEW b \in segments \ {a}
         PROVE  /\ nextOffset'[b] = nextOffset[b]
                /\ store'[b] = store[b] /\ index'[b] = index[b]
    BY <1>1, <2>1, <2>5, <2>6
  <2> QED
    BY <2>5, <2>7, <2>8, <2>9, <2>10 DEF new
<1> QED
  BY <1>2, <1>3

(* An append adds one record at the next offset, rolled or not. *)
LEMMA AppendImplements ==
    ASSUME IInv, IInv', ReadsFrames', NEW v \in Value, NEW n \in PayloadLen,
           AppendStay(v, n) \/ AppendRoll(v, n),
           NEW a, a = activeSegment, NEW next, next = nextOffset[a],
           NEW r, r = [pos |-> store[a].size, off |-> next, val |-> v]
    PROVE  Promise!Append(v)
<1>1. /\ segments \subseteq Offset /\ a \in segments /\ a \in Offset
      /\ next \in Offset /\ segments' \subseteq Offset
      /\ \A b \in Offset : b \in Nat /\ nextOffset[b] \in Nat
  BY OffsetsAreNat DEF IInv, TypeOK
<1>2. CanAppend /\ ~IndexFull(index[a]) /\ closed' = closed
  BY DEF AppendStay, AppendRoll
<1>3. dir # {} /\ dir' # {} /\ ~closed /\ ~closed'
  BY <1>2, OpenHasFiles DEF CanAppend, IInv, AppendStay, AppendRoll
<1>4. ~Removed /\ ~Removed' /\ NextOffset = next /\ NextOffset' = next + 1
  BY <1>3, AppendChanges DEF Removed, NextOffset
<1>5. /\ AppendedStore(v, n).frames = store[a].frames \cup {r}
      /\ AppendedIndex.entry[next - a].pos = r.pos
      /\ \A off \in a..(next - 1) :
            AppendedIndex.entry[off - a] = index[a].entry[off - a]
  BY <1>2, AppendedHas
<1>6. /\ segments \subseteq segments' /\ nextOffset'[a] = next + 1
      /\ store'[a] = AppendedStore(v, n) /\ index'[a] = AppendedIndex
      /\ \A b \in segments \ {a} :
            /\ nextOffset'[b] = nextOffset[b]
            /\ store'[b] = store[b] /\ index'[b] = index[b]
      /\ \A b \in segments' \ segments : nextOffset'[b] = b
  BY AppendChanges
<1>7. a <= next
  BY <1>1, <1>3 DEF IInv, SegmentsOK, SegmentOK
<1>8. r \in store'[a].frames /\ r.val = v
  BY <1>5, <1>6
<1>9. ASSUME NEW off \in Window
      PROVE  off \in Window' /\ ReadValue(off)' = ReadValue(off) /\ off # next
  <2>1. PICK b \in segments : Holds(b, off)
    BY DEF Window
  <2>2. off \in Offset /\ off \in Nat /\ b \in Nat /\ nextOffset[b] \in Nat /\ next \in Nat
    BY <1>1 DEF Window
  <2>3. nextOffset[b] <= next
    BY <1>1, <2>2, <1>7 DEF IInv, SegmentsTile
  <2>4. CASE b = a
    <3>1. Holds(b, off)' /\ off \in a..(next - 1)
      BY <1>6, <2>1, <2>2, <2>4 DEF Holds
    <3> QED
      BY <1>3, <1>5, <1>6, <2>1, <2>2, <2>4, <3>1, ReadsSame DEF Window
  <2>5. CASE b # a
    <3>1. Holds(b, off)' /\ off < next
      BY <1>6, <2>1, <2>2, <2>3, <2>5 DEF Holds
    <3> QED
      BY <1>3, <1>6, <2>1, <2>2, <2>5, <3>1, ReadsSame DEF Window
  <2> QED
    BY <2>4, <2>5
<1>10. next \in Window' /\ ReadValue(next)' = v
  <2>1. Holds(a, next)'
    BY <1>1, <1>6, <1>7 DEF Holds
  <2>2. next \in Offset /\ a \in segments'
    BY <1>1, <1>6
  <2>3. index'[a].entry[next - a].pos = r.pos
    BY <1>5, <1>6
  <2>4. ReadValue(next)' = v
    BY <1>8, <2>1, <2>2, <2>3 DEF ReadsFrames
  <2> QED
    BY <2>1, <2>2, <2>4 DEF Window
<1>11. ASSUME NEW off \in Window', off # next
       PROVE  off \in Window
  <2>1. PICK b \in segments' : Holds(b, off)'
    BY DEF Window
  <2>2. off \in Offset /\ off \in Nat /\ b \in Nat /\ next \in Nat /\ b \in Offset
    BY <1>1 DEF Window
  <2>3. b \in segments
    BY <1>6, <2>1, <2>2 DEF Holds
  <2>4. Holds(b, off)
    BY <1>6, <1>11, <2>1, <2>2, <2>3 DEF Holds
  <2> QED
    BY <2>2, <2>3, <2>4 DEF Window
<1>12. Contents' = [off \in Window \cup {next} |-> IF off = next THEN v ELSE ReadValue(off)]
  <2>1. Readable' = Window \cup {next}
    BY <1>4, <1>9, <1>10, <1>11 DEF Readable
  <2>2. \A off \in Window \cup {next} :
          ReadValue(off)' = IF off = next THEN v ELSE ReadValue(off)
    BY <1>9, <1>10
  <2> QED
    BY <2>1, <2>2 DEF Contents
<1>13. Contents = [off \in Window |-> ReadValue(off)]
  BY <1>4 DEF Contents, Readable
<1>14. Contents' = [off \in DOMAIN Contents \cup {next} |->
                      IF off = next THEN v ELSE Contents[off]]
  BY <1>12, <1>13
<1>15. next < MaxOffset /\ Removed' = Removed
  BY <1>2, <1>4 DEF CanAppend, Removed
<1> QED
  BY <1>4, <1>14, <1>15 DEF Promise!Append

(* Compaction keeps every offset above lowest and everything after a kept  *)
(* offset.                                                                 *)
LEMMA CompactImplements ==
    ASSUME IInv, IInv', ReadsFrames', NEW lowest \in Offset, Compact(lowest)
    PROVE  Promise!Compact(lowest)
<1>1. /\ segments \subseteq Offset /\ activeSegment \in segments /\ lowest \in Nat
      /\ \A b \in Offset : b \in Nat /\ nextOffset[b] \in Nat
  BY OffsetsAreNat, CommitLogAssumption DEF IInv, TypeOK, Offset
<1>2. /\ ~closed /\ closed' = closed
      /\ nextOffset' = nextOffset /\ activeSegment' = activeSegment
      /\ lowest + 1 < nextOffset[activeSegment]
      /\ segments' = segments \ {b \in segments : nextOffset[b] <= lowest + 1}
  BY DEF Compact, Truncate
<1>3. \A b \in segments' : store'[b] = store[b] /\ index'[b] = index[b]
  BY <1>1, <1>2 DEF Compact, Truncate
<1>4. dir # {} /\ dir' # {} /\ ~Removed /\ ~Removed'
  BY <1>2, OpenHasFiles, OpenHasFilesAfter DEF IInv, Removed
<1>5. \A b \in segments : \A off \in Offset : Holds(b, off)' <=> Holds(b, off)
  BY <1>2 DEF Holds
<1>6. Contents = [off \in Window |-> ReadValue(off)] /\ DOMAIN Contents = Window
  BY <1>4 DEF Contents, Readable
<1>7. Window' \subseteq Window
  BY <1>2, <1>5 DEF Window
<1>8. \A off \in Window' : ReadValue(off)' = ReadValue(off)
  <2> SUFFICES ASSUME NEW off \in Window'
               PROVE  ReadValue(off)' = ReadValue(off)
    OBVIOUS
  <2>1. PICK b \in segments' : Holds(b, off)'
    BY DEF Window
  <2>2. b \in segments /\ off \in Offset
    BY <1>2 DEF Window
  <2> QED
    BY <1>3, <1>4, <1>5, <2>1, <2>2, ReadsSame
<1>9. Contents' = [off \in Window' |-> Contents[off]]
  BY <1>4, <1>6, <1>7, <1>8 DEF Contents, Readable
<1>10. ASSUME NEW off \in Window, off > lowest
       PROVE  off \in Window'
  <2>1. PICK b \in segments : Holds(b, off)
    BY DEF Window
  <2>2. off \in Offset /\ off \in Nat /\ b \in Nat /\ nextOffset[b] \in Nat
    BY <1>1 DEF Window
  <2>3. ~(nextOffset[b] <= lowest + 1)
    BY <1>1, <1>10, <2>1, <2>2 DEF Holds
  <2> QED
    BY <1>2, <1>5, <2>1, <2>2, <2>3 DEF Window
<1>11. ASSUME NEW off \in Window', NEW later \in Window, later >= off
       PROVE  later \in Window'
  <2>1. PICK b \in segments' : Holds(b, off)'
    BY DEF Window
  <2>2. PICK c \in segments : Holds(c, later)
    BY DEF Window
  <2>3. /\ b \in segments /\ off \in Offset /\ later \in Offset
        /\ off \in Nat /\ later \in Nat /\ b \in Nat /\ c \in Nat
        /\ nextOffset[b] \in Nat /\ nextOffset[c] \in Nat
    BY <1>1, <1>2 DEF Window
  <2>4. b <= off /\ off < nextOffset[b] /\ c <= later /\ later < nextOffset[c]
    BY <1>5, <2>1, <2>2, <2>3 DEF Holds
  <2>5. ~(nextOffset[b] <= lowest + 1)
    BY <1>2
  <2>6. c >= b
    BY <1>11, <2>3, <2>4 DEF IInv, SegmentsTile
  <2>7. ~(nextOffset[c] <= lowest + 1)
    <3>1. CASE c = b
      BY <2>5, <3>1
    <3>2. CASE b < c
      BY <1>1, <2>3, <2>4, <2>5, <3>2 DEF IInv, SegmentsTile
    <3> QED
      BY <2>3, <2>6, <3>1, <3>2
  <2> QED
    BY <1>2, <1>5, <2>2, <2>3, <2>7 DEF Window
<1>12. UNCHANGED <<NextOffset, Removed>> /\ lowest + 1 < NextOffset
  BY <1>2, <1>4 DEF NextOffset, Removed
<1>13. /\ Window' \in SUBSET DOMAIN Contents
       /\ \A off \in DOMAIN Contents : off > lowest => off \in Window'
       /\ \A off \in Window' : \A later \in DOMAIN Contents : later >= off => later \in Window'
  BY <1>6, <1>7, <1>10, <1>11
<1> QED
  BY <1>4, <1>9, <1>12, <1>13 DEF Promise!Compact

(* Opening is unseen, unless the directory was removed: then it makes a    *)
(* new, empty log.                                                         *)
LEMMA OpenImplements ==
    ASSUME IInv, IInv', (dir # {} => ReadsFrames)', Open
    PROVE  Promise!Recreate \/ UNCHANGED <<Contents, NextOffset, Removed>>
<1>1. closed /\ ~closed' /\ dir' # {}
  BY OpenHasFilesAfter DEF Open, IInv
<1>2. CASE dir # {}
  <2>1. /\ segments' = segments /\ activeSegment' = activeSegment
        /\ \A b \in segments : /\ nextOffset'[b] = nextOffset[b]
                               /\ store[b].frames \subseteq store'[b].frames
                               /\ index'[b].entry = index[b].entry
    BY <1>2, OpenRestores
  <2> QED
    BY <1>1, <1>2, <2>1, UnseenStep
<1>3. CASE dir = {}
  <2>1. SetupBases = {} /\ InitialOffset \in Offset /\ InitialOffset \in Nat
    BY <1>3, SetupFindsNothing, CommitLogAssumption DEF Offset
  <2>2. segments' = {InitialOffset} /\ activeSegment' = InitialOffset
    <3>1. Max({InitialOffset}) = InitialOffset
      BY <2>1, MaxIs
    <3> QED
      BY <2>1, <3>1 DEF Open
  <2>3. nextOffset'[InitialOffset] = InitialOffset
    <3>1. OpenedIndex(InitialOffset) = IndexOpen(EmptyIndex)
      BY <1>3 DEF OpenedIndex
    <3>2. RecoveredNext(InitialOffset, OpenedIndex(InitialOffset)) = InitialOffset
      BY <3>1, EmptyIndexIs, IndexOpenIs DEF RecoveredNext
    <3> QED
      BY <2>1, <3>2 DEF Open
  <2>4. Removed /\ Removed' = FALSE
    BY <1>1, <1>3 DEF Removed
  <2>5. Window' = {}
    BY <2>1, <2>2, <2>3 DEF Window, Holds, Offset
  <2>6. Contents' = Contents
    BY <2>4, <2>5 DEF Contents, Readable
  <2>7. NextOffset' = NextOffset
    BY <2>2, <2>3, <2>4 DEF NextOffset
  <2> QED
    BY <2>4, <2>6, <2>7 DEF Promise!Recreate
<1> QED
  BY <1>2, <1>3

(* The initial state is that of an empty log. *)
LEMMA InitImplements == Init => Promise!Init
<1> SUFFICES ASSUME Init PROVE Promise!Init
  OBVIOUS
<1>1. InitialOffset \in Offset /\ InitialOffset \in Nat
  BY CommitLogAssumption DEF Offset
<1>2. ~Removed /\ Removed \in BOOLEAN
  BY DEF Init, Removed
<1>3. Window = {}
  BY <1>1, CommitLogAssumption DEF Init, Window, Holds, Offset
<1>4. Contents = [off \in {} |-> 0]
  BY <1>2, <1>3 DEF Contents, Readable
<1>5. NextOffset = InitialOffset
  BY <1>1, <1>2 DEF Init, NextOffset
<1> QED
  BY <1>2, <1>4, <1>5 DEF Promise!Init, Promise!Nothing

(* No reader can see a step that changes stores only and drops no frame:   *)
(* a flush, and an append that failed after it wrote the frame.            *)
LEMMA StoreStepUnseen ==
    ASSUME IInv, IInv', (dir # {} => ReadsFrames)', ~closed,
           UNCHANGED <<segments, activeSegment, nextOffset, index, dir, closed>>,
           \A b \in segments : store[b].frames \subseteq store'[b].frames
    PROVE  UNCHANGED <<Contents, NextOffset, Removed>>
  BY OpenHasFiles, OpenHasFilesAfter, UnseenStep DEF IInv

LEMMA AppendEOFUnseen ==
    ASSUME IInv, IInv', (dir # {} => ReadsFrames)',
           NEW v \in Value, NEW n \in PayloadLen, AppendEOF(v, n)
    PROVE  UNCHANGED <<Contents, NextOffset, Removed>>
<1>1. store[activeSegment] \in StoreState /\ nextOffset[activeSegment] \in Offset /\ n \in Nat
  BY CommitLogAssumption DEF IInv, TypeOK
<1>2. store[activeSegment].frames \subseteq AppendedStore(v, n).frames
  BY <1>1, StoreAppendIs DEF AppendedStore
<1>3. \A b \in segments : store[b].frames \subseteq store'[b].frames
  BY <1>2 DEF AppendEOF, IInv, TypeOK
<1> QED
  BY <1>3, StoreStepUnseen DEF AppendEOF, CanAppend

LEMMA FlushUnseen ==
    ASSUME IInv, IInv', (dir # {} => ReadsFrames)', NEW c \in Offset, ~closed,
           store' = [store EXCEPT ![c] = StoreFlush(@)],
           UNCHANGED <<segments, activeSegment, nextOffset, index, dir, closed>>
    PROVE  UNCHANGED <<Contents, NextOffset, Removed>>
<1>1. \A b \in segments : store[b].frames \subseteq store'[b].frames
  BY StoreFlushIs DEF IInv, TypeOK
<1> QED
  BY <1>1, StoreStepUnseen

LEMMA ReadUnseen ==
    ASSUME IInv, IInv', (dir # {} => ReadsFrames)', NEW off \in Offset, Read(off)
    PROVE  UNCHANGED <<Contents, NextOffset, Removed>>
<1>1. PICK b \in segments : Holds(b, off)
  BY DEF Read, Window
<1>2. Owner(off) = b
  BY <1>1, OwnerIs DEF IInv
<1>3. Owner(off) \in Offset
  BY <1>2 DEF IInv, TypeOK
<1> QED
  BY <1>3, FlushUnseen DEF Read

LEMMA CloseUnseen ==
    ASSUME IInv, IInv', (dir # {} => ReadsFrames)', Close
    PROVE  UNCHANGED <<Contents, NextOffset, Removed>>
<1>1. dir # {} /\ dir' = dir
  BY OpenHasFiles DEF Close, IInv
<1>2. /\ segments' = segments /\ activeSegment' = activeSegment /\ nextOffset' = nextOffset
      /\ \A b \in segments : /\ store[b].frames \subseteq store'[b].frames
                             /\ index'[b].entry = index[b].entry
  BY StoreFlushIs, IndexCloseIs DEF Close, IInv, TypeOK
<1> QED
  BY <1>1, <1>2, UnseenStep

(* Every step is a step of OffsetLog or leaves it unchanged. *)
LEMMA StepImplements ==
    ASSUME IInv, IInv', (dir # {} => ReadsFrames)', [Next]_vars
    PROVE  [Promise!Next]_<<Contents, NextOffset, Removed>>
<1>1. ASSUME NEW v \in Value, NEW n \in PayloadLen, AppendStay(v, n) \/ AppendRoll(v, n)
      PROVE  Promise!Append(v)
  <2>1. dir' # {}
    BY <1>1, OpenHasFilesAfter DEF IInv, AppendStay, AppendRoll, CanAppend
  <2> QED
    BY <1>1, <2>1, AppendImplements
<1>2. ASSUME NEW v \in Value, NEW n \in PayloadLen, AppendEOF(v, n)
      PROVE  UNCHANGED <<Contents, NextOffset, Removed>>
  BY <1>2, AppendEOFUnseen
<1>3. ASSUME NEW off \in Offset, Read(off)
      PROVE  UNCHANGED <<Contents, NextOffset, Removed>>
  BY <1>3, ReadUnseen
<1>4. ASSUME NEW c \in Offset, store' = [store EXCEPT ![c] = StoreFlush(@)], ~closed,
             UNCHANGED <<segments, activeSegment, nextOffset, index, dir, closed>>
      PROVE  UNCHANGED <<Contents, NextOffset, Removed>>
  BY <1>4, FlushUnseen
<1>5. ASSUME NEW b \in segments, ReaderRead(b)
      PROVE  UNCHANGED <<Contents, NextOffset, Removed>>
  BY <1>4, <1>5 DEF ReaderRead, IInv, TypeOK
<1>6. ASSUME NEW lowest \in Offset, Compact(lowest)
      PROVE  Promise!Compact(lowest)
  <2>1. dir' # {}
    BY <1>6, OpenHasFilesAfter DEF IInv, Compact, Truncate
  <2> QED
    BY <1>6, <2>1, CompactImplements
<1>7. CASE Close
  BY <1>7, CloseUnseen
<1>8. CASE Remove
  <2>1. ~Removed /\ Removed'
    BY <1>8, OpenHasFiles DEF Remove, IInv, Removed
  <2>2. Contents' = [off \in {} |-> 0] /\ NextOffset' = InitialOffset
    BY <2>1 DEF Contents, Readable, NextOffset
  <2> QED
    BY <2>1, <2>2 DEF Promise!Next, Promise!Remove, Promise!Nothing
<1>9. CASE Open
  BY <1>9, OpenImplements DEF Promise!Next
<1>10. CASE UNCHANGED vars
  BY <1>10 DEF vars, Contents, Readable, Window, Holds, ReadValue, Owner, CanRead, HasEntry,
               FramesAt, FrameOf, NextOffset, Removed
<1>11. \A lowest \in Offset : Promise!Compact(lowest) => Promise!Next
  BY DEF Promise!Next, Offset
<1>12. \A v \in Value : Promise!Append(v) => Promise!Next
  BY DEF Promise!Next
<1> QED
  BY <1>1, <1>2, <1>3, <1>5, <1>6, <1>6, <1>7, <1>8, <1>9, <1>10, <1>11, <1>12 DEF Next

(* The segmented log implements the map from offsets to records, for every *)
(* record size, segment size and index size.                               *)
THEOREM LogImplementsOffsetLog == Spec => ImplementsOffsetLog
<1>1. IInv => (dir # {} => ReadsFrames)
  BY ReadValueIs
<1>2. IInv /\ IInv' /\ (dir # {} => ReadsFrames)' /\ [Next]_vars =>
        [Promise!Next]_<<Contents, NextOffset, Removed>>
  BY StepImplements
<1> QED
  BY <1>1, <1>2, InitImplements, IInvHolds, PTL
     DEF Spec, ImplementsOffsetLog, Promise!Spec, Promise!vars

-----------------------------------------------------------------------------
(* The ends of the log. *)

(* A segment never ends below its base, also after the files are gone. *)
ActiveStarts == activeSegment <= nextOffset[activeSegment]

LEMMA ActiveStartsHolds == Spec => []ActiveStarts
<1>1. Init => ActiveStarts
  BY CommitLogAssumption DEF Init, ActiveStarts, Offset
<1>2. IInv /\ IInv' /\ ActiveStarts /\ [Next]_vars => ActiveStarts'
  <2> SUFFICES ASSUME IInv, IInv', ActiveStarts, [Next]_vars PROVE ActiveStarts'
    OBVIOUS
  <2>1. CASE dir' # {}
    BY <2>1 DEF IInv, TypeOK, SegmentsOK, SegmentOK, ActiveStarts
  <2>2. CASE dir' = {}
    <3>1. closed'
      BY <2>2, OpenHasFilesAfter DEF IInv
    <3>2. \/ Close \/ Remove \/ UNCHANGED vars
      BY <3>1 DEF Next, AppendStay, AppendRoll, AppendEOF, CanAppend, Read, ReaderRead,
                  Compact, Truncate, Open
    <3>3. UNCHANGED <<activeSegment, nextOffset>>
      BY <3>2 DEF Close, Remove, vars
    <3> QED
      BY <3>3 DEF ActiveStarts
  <2> QED
    BY <2>1, <2>2
<1> QED
  BY <1>1, <1>2, IInvHolds, PTL DEF Spec

(* The least base is the lowest offset, and the offset before the next one *)
(* is the highest, whether it is in the active segment or the one before.  *)
LEMMA EndsReadable ==
    ASSUME IInv, ActiveStarts, Window # {}
    PROVE  /\ LowestOffset \in Window /\ HighestOffset \in Window
           /\ Window \subseteq LowestOffset..HighestOffset
<1> DEFINE next == nextOffset[activeSegment]
<1>1. /\ \A b \in segments : b \in Nat /\ b \in Offset /\ nextOffset[b] \in Nat
      /\ \A off \in Offset : off \in Nat
      /\ activeSegment \in segments /\ activeSegment \in Nat /\ next \in Nat
      /\ next \in Offset /\ activeSegment <= next
  BY OffsetsAreNat DEF IInv, TypeOK, ActiveStarts
<1>2. PICK off0 \in Offset : \E b \in segments : Holds(b, off0)
  BY DEF Window
<1>3. PICK b0 \in segments : Holds(b0, off0)
  BY <1>2
<1>4. Max(segments) = activeSegment
  <2>1. segments \subseteq Int /\ \A b \in segments : activeSegment >= b
    BY <1>1 DEF IInv, SegmentsTile
  <2> QED
    BY <1>1, <2>1, MaxIs
<1>5. /\ LowestOffset \in segments
      /\ \A b \in segments : LowestOffset <= b
  <2>1. \E m \in segments : \A b \in segments : m <= b
    BY <1>1, LeastIs
  <2> QED
    BY <2>1 DEF LowestOffset, Min
<1>6. ASSUME NEW b \in segments, NEW off \in Offset, Holds(b, off)
      PROVE  off < next /\ LowestOffset <= off
  <2>1. b = activeSegment \/ (b < activeSegment /\ nextOffset[b] <= activeSegment)
    BY <1>1, <1>6 DEF IInv, SegmentsTile
  <2> QED
    BY <1>1, <1>5, <1>6, <2>1 DEF Holds
<1>7. HighestOffset = next - 1 /\ next - 1 \in Offset /\ next - 1 \in Nat
  <2>1. next # 0
    BY <1>1, <1>2, <1>3, <1>6
  <2> QED
    BY <1>1, <1>4, <2>1, CommitLogAssumption DEF HighestOffset, Offset
<1>8. LowestOffset \in Window
  <2>1. LowestOffset < nextOffset[LowestOffset]
    <3>1. CASE LowestOffset = activeSegment
      <4>1. b0 = activeSegment
        BY <1>1, <1>5, <3>1 DEF IInv, SegmentsTile
      <4> QED
        BY <1>1, <1>3, <3>1, <4>1 DEF Holds
    <3>2. CASE LowestOffset # activeSegment
      BY <1>5, <3>2 DEF IInv, SegmentsTile
    <3> QED
      BY <3>1, <3>2
  <2> QED
    BY <1>1, <1>5, <2>1 DEF Window, Holds
<1>9. HighestOffset \in Window
  <2>1. CASE activeSegment < next
    BY <1>1, <1>7, <2>1 DEF Window, Holds
  <2>2. CASE activeSegment = next
    <3> DEFINE S == segments \ {activeSegment}
    <3>1. b0 \in S
      BY <1>1, <1>3, <2>2 DEF Holds
    <3>2. S \subseteq 0..MaxOffset /\ MaxOffset \in Nat
      BY CommitLogAssumption DEF IInv, TypeOK, Offset
    <3>3. PICK c \in S : \A b \in S : c >= b
      BY <3>1, <3>2, GreatestIs
    <3>4. c < nextOffset[c] /\ nextOffset[c] \in segments
      BY <3>3 DEF IInv, SegmentsTile
    <3>5. nextOffset[c] = activeSegment
      BY <1>1, <3>3, <3>4
    <3> QED
      BY <1>1, <1>7, <2>2, <3>3, <3>4, <3>5 DEF Window, Holds
  <2> QED
    BY <1>1, <2>1, <2>2
<1>10. ASSUME NEW off \in Window PROVE off \in LowestOffset..HighestOffset
  <2>1. PICK b \in segments : Holds(b, off) /\ off \in Offset
    BY <1>10 DEF Window
  <2>2. off < next /\ LowestOffset <= off
    BY <1>6, <2>1
  <2>3. off \in Nat /\ LowestOffset \in Nat
    BY <1>1, <1>5, <2>1
  <2> QED
    BY <1>1, <1>7, <2>2, <2>3
<1> QED
  BY <1>8, <1>9, <1>10

(* The lowest and the highest offset the log reports can be read. *)
THEOREM EndsAlwaysReadable == Spec => []EndsAreReadable
<1>1. IInv /\ ActiveStarts => EndsAreReadable
  BY EndsReadable DEF EndsAreReadable
<1> QED
  BY <1>1, IInvHolds, ActiveStartsHolds, PTL
=============================================================================
