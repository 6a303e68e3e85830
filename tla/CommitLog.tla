----------------------------- MODULE CommitLog -----------------------------
(***************************************************************************)
(* The segmented commit log of internal/log: store.go, index.go,           *)
(* segment.go and log.go.  A Log is a list of segments; a segment with     *)
(* base offset b owns two files, b.store (framed records) and b.index      *)
(* (fixed-width entries mapping a relative offset to a byte position).     *)
(*                                                                         *)
(* Every exported operation of Log holds l.mu, so each is one action.      *)
(*                                                                         *)
(* Abstractions.  The list l.segments is the set of its base offsets: it   *)
(* is always appended to in ascending order, so its first and last element *)
(* are the least and the greatest base.  A marshalled record is the record *)
(* [off, val] together with a length taken from PayloadLen.  A store is    *)
(* the set of its frames, each with the byte position it starts at; index  *)
(* entries are the slots of the memory map, zero until written.            *)
(***************************************************************************)
EXTENDS Integers, FiniteSets, FiniteSetsExt

CONSTANTS
    Value,          \* record payloads
    PayloadLen,     \* lengths, in bytes, a marshalled record can have
    MaxStoreBytes,  \* Config.Segment.MaxStoreBytes, after NewLog's default
    MaxIndexBytes,  \* Config.Segment.MaxIndexBytes, after NewLog's default
    InitialOffset,  \* Config.Segment.InitialOffset
    MaxOffset,      \* bound: no record is appended at or above this offset
    MaxStoreSize,   \* bound: no record is refused by a store of this many bytes
    EOF             \* io.EOF, what a read past the end of a file returns

lenWidth == 8       \* bytes of the length header of a frame
entWidth == 12      \* offWidth + posWidth, bytes of an index entry

ASSUME CommitLogAssumption ==
    /\ PayloadLen \subseteq Nat
    /\ MaxStoreBytes \in Nat \ {0}
    /\ MaxIndexBytes \in Nat /\ MaxIndexBytes >= entWidth
    /\ MaxOffset \in Nat /\ MaxStoreSize \in Nat
    /\ InitialOffset \in 0..MaxOffset
    /\ EOF \notin Value

Offset == 0..MaxOffset
Slot   == 0..(MaxIndexBytes \div entWidth - 1)
Ext    == {"store", "index"}
Frame  == [pos : Nat, off : Offset, val : Value]
Entry  == [off : Nat, pos : Nat]

VARIABLES
    segments,       \* l.segments, as the set of base offsets
    activeSegment,  \* l.activeSegment, by its base offset
    nextOffset,     \* segment.nextOffset, by base
    store,          \* segment.store, by base, with the file behind it
    index,          \* segment.index, by base, with the file behind it
    dir,            \* the files of l.Dir, as pairs <<base, extension>>
    closed          \* the Log was closed

vars == <<segments, activeSegment, nextOffset, store, index, dir, closed>>

-----------------------------------------------------------------------------
(* store.go *)

(* frames: the records written so far; size: store.size; file: how many    *)
(* bytes have left the bufio buffer for the file.                          *)
StoreState == [frames : SUBSET Frame, size : Nat, file : Nat]
EmptyStore == [frames |-> {}, size |-> 0, file |-> 0]

StoreOpen(s)  == [s EXCEPT !.size = s.file]
StoreFlush(s) == [s EXCEPT !.file = s.size]

StoreAppend(s, off, v, n) ==
    [s EXCEPT !.frames = @ \cup {[pos |-> s.size, off |-> off, val |-> v]},
              !.size = s.size + lenWidth + n]

-----------------------------------------------------------------------------
(* index.go *)

(* entry: the slots of the memory map; size: index.size, in bytes;         *)
(* file: the length of the file, grown to MaxIndexBytes while it is open.  *)
IndexState == [entry : [Slot -> Entry], size : 0..MaxIndexBytes, file : 0..MaxIndexBytes]
ZeroEntry  == [off |-> 0, pos |-> 0]
EmptyIndex == [entry |-> [i \in Slot |-> ZeroEntry], size |-> 0, file |-> 0]

IndexOpen(x)  == [x EXCEPT !.size = x.file, !.file = MaxIndexBytes]
(* Mutant: the index file is left padded. *)
IndexCloseNoTruncate(x) == x
IndexClose(x) == [x EXCEPT !.file = x.size]

IndexFull(x) == MaxIndexBytes < x.size + entWidth

IndexWrite(x, off, pos) ==
    [x EXCEPT !.entry[x.size \div entWidth] = [off |-> off, pos |-> pos],
              !.size = x.size + entWidth]

(* The bounds check of index.Read. *)
HasEntry(x, i) == (i + 1) * entWidth <= x.size

LastEntry(x) == x.entry[x.size \div entWidth - 1]

-----------------------------------------------------------------------------
(* segment.go *)

(* Mutant: without the 1. *)
RecoveredNextNoOne(b, x) == IF x.size = 0 THEN b ELSE b + LastEntry(x).off

(* The next offset newSegment derives from the index, by index.Read(-1).   *)
RecoveredNext(b, x) == IF x.size = 0 THEN b ELSE b + LastEntry(x).off + 1

(* Mutants: the index is not looked at; a limit must be exceeded. *)
IsMaxedByStore(s, x) == s.size >= MaxStoreBytes
IsMaxedStrict(s, x) == s.size > MaxStoreBytes \/ x.size > MaxIndexBytes

IsMaxed(s, x) == s.size >= MaxStoreBytes \/ x.size >= MaxIndexBytes

(* newSegment opens b's files if they exist and creates them otherwise.    *)
OpenedStore(b) == IF <<b, "store">> \in dir THEN StoreOpen(store[b]) ELSE EmptyStore
OpenedIndex(b) == IndexOpen(IF <<b, "index">> \in dir THEN index[b] ELSE EmptyIndex)

-----------------------------------------------------------------------------
(* log.go: reading *)

Holds(b, off) == b <= off /\ off < nextOffset[b]

(* The offsets for which the loop of Log.Read finds a segment. *)
Window == {off \in Offset : \E b \in segments : Holds(b, off)}

(* The segment the loop finds first. *)
Owner(off) ==
    CHOOSE b \in segments :
        /\ Holds(b, off)
        /\ \A c \in segments : Holds(c, off) => b <= c

(* The frames at the position that segment b's index gives for off. *)
FramesAt(b, off) == {f \in store[b].frames : f.pos = index[b].entry[off - b].pos}

CanRead(b, off) == HasEntry(index[b], off - b) /\ FramesAt(b, off) # {}

FrameOf(b, off) == CHOOSE f \in FramesAt(b, off) : TRUE

(* What Log.Read returns for an offset of the window. *)
ReadValue(off) ==
    LET b == Owner(off)
    IN  IF CanRead(b, off) THEN FrameOf(b, off).val ELSE EOF

LowestOffset == Min(segments)

(* Mutant: without the 1. *)
HighestOffsetNext == nextOffset[Max(segments)]

HighestOffset ==
    LET next == nextOffset[Max(segments)] IN IF next = 0 THEN 0 ELSE next - 1

-----------------------------------------------------------------------------
(* log.go: setup *)

(* setup sorts the bases of all file names and opens every second one, so  *)
(* a base that has both files is opened once, and a base with one file     *)
(* only if an even number of names sorts before it.                        *)
NamesBelow(b) == {f \in dir : f[1] < b}

SetupBases ==
    {b \in Offset :
        \/ {b} \X Ext \subseteq dir
        \/ ({b} \X Ext) \cap dir # {} /\ Cardinality(NamesBelow(b)) % 2 = 0}

Init ==
    /\ segments = {InitialOffset}
    /\ activeSegment = InitialOffset
    /\ nextOffset = [b \in Offset |-> b]
    /\ store = [b \in Offset |-> EmptyStore]
    /\ index = [b \in Offset |->
                  IF b = InitialOffset THEN IndexOpen(EmptyIndex) ELSE EmptyIndex]
    /\ dir = {InitialOffset} \X Ext
    /\ closed = FALSE

(* NewLog on a directory that already holds files. *)
Open ==
    LET bases == IF SetupBases = {} THEN {InitialOffset} ELSE SetupBases
    IN  /\ closed
        /\ closed' = FALSE
        /\ segments' = bases
        /\ activeSegment' = Max(bases)
        /\ store' = [b \in Offset |-> IF b \in bases THEN OpenedStore(b) ELSE store[b]]
        /\ index' = [b \in Offset |-> IF b \in bases THEN OpenedIndex(b) ELSE index[b]]
        /\ nextOffset' = [b \in Offset |->
              IF b \in bases THEN RecoveredNext(b, OpenedIndex(b)) ELSE nextOffset[b]]
        /\ dir' = dir \cup bases \X Ext

-----------------------------------------------------------------------------
(* log.go: appending *)

(* The active segment's store and index after segment.Append succeeded. *)
AppendedStore(v, n) ==
    StoreAppend(store[activeSegment], nextOffset[activeSegment], v, n)

(* Mutant: the position after the record rather than before it. *)
AppendedIndexLate ==
    IndexWrite(index[activeSegment], nextOffset[activeSegment] - activeSegment,
               store[activeSegment].size + lenWidth)

AppendedIndex ==
    IndexWrite(index[activeSegment],
               nextOffset[activeSegment] - activeSegment, store[activeSegment].size)

(* Mutant: the new segment starts at the record just written. *)
NextBaseEarly == nextOffset[activeSegment]

(* The base offset of the segment that follows a maxed out one: off + 1. *)
NextBase == nextOffset[activeSegment] + 1

CanAppend == ~closed /\ nextOffset[activeSegment] < MaxOffset

(* The record fits and the segment has room left. *)
AppendStay(v, n) ==
    /\ CanAppend /\ ~IndexFull(index[activeSegment])
    /\ ~IsMaxed(AppendedStore(v, n), AppendedIndex)
    /\ store' = [store EXCEPT ![activeSegment] = AppendedStore(v, n)]
    /\ index' = [index EXCEPT ![activeSegment] = AppendedIndex]
    /\ nextOffset' = [nextOffset EXCEPT ![activeSegment] = @ + 1]
    /\ UNCHANGED <<segments, activeSegment, dir, closed>>

(* The record maxes the segment out: a new segment becomes active. *)
AppendRoll(v, n) ==
    LET new == NextBase
    IN  /\ CanAppend /\ ~IndexFull(index[activeSegment])
        /\ IsMaxed(AppendedStore(v, n), AppendedIndex)
        /\ store' = [store EXCEPT ![activeSegment] = AppendedStore(v, n),
                                  ![new] = OpenedStore(new)]
        /\ index' = [index EXCEPT ![activeSegment] = AppendedIndex,
                                  ![new] = OpenedIndex(new)]
        /\ nextOffset' = [nextOffset EXCEPT
                            ![activeSegment] = @ + 1,
                            ![new] = RecoveredNext(new, OpenedIndex(new))]
        /\ segments' = segments \cup {new}
        /\ activeSegment' = new
        /\ dir' = dir \cup {new} \X Ext
        /\ UNCHANGED closed

(* The index has no room: Append returns io.EOF, with the record already   *)
(* in the store.                                                           *)
AppendEOF(v, n) ==
    /\ CanAppend /\ IndexFull(index[activeSegment])
    /\ store[activeSegment].size < MaxStoreSize
    /\ store' = [store EXCEPT ![activeSegment] = AppendedStore(v, n)]
    /\ UNCHANGED <<segments, activeSegment, nextOffset, index, dir, closed>>

-----------------------------------------------------------------------------
(* log.go: the other operations *)

(* A Read that finds its segment flushes the segment's store. *)
Read(off) ==
    /\ ~closed
    /\ off \in Window
    /\ store' = [store EXCEPT ![Owner(off)] = StoreFlush(@)]
    /\ UNCHANGED <<segments, activeSegment, nextOffset, index, dir, closed>>

(* originReader.Read streams bytes through store.ReadAt, which flushes. *)
ReaderRead(b) ==
    /\ ~closed
    /\ store' = [store EXCEPT ![b] = StoreFlush(@)]
    /\ UNCHANGED <<segments, activeSegment, nextOffset, index, dir, closed>>

(* Mutants: the end of a segment is off by one; the base is compared.      *)
TruncateOneMore(lowest) ==
    LET gone == {b \in segments : nextOffset[b] <= lowest + 2}
    IN  /\ ~closed
        /\ segments' = segments \ gone
        /\ dir' = dir \ (gone \X Ext)
        /\ UNCHANGED <<activeSegment, nextOffset, store, index, closed>>

TruncateByBase(lowest) ==
    LET gone == {b \in segments \ {activeSegment} : b <= lowest}
    IN  /\ ~closed
        /\ segments' = segments \ gone
        /\ dir' = dir \ (gone \X Ext)
        /\ UNCHANGED <<activeSegment, nextOffset, store, index, closed>>

(* Removes every segment that ends at or below lowest + 1.  The object of  *)
(* a removed active segment stays referenced by l.activeSegment.           *)
Truncate(lowest) ==
    LET gone == {b \in segments : nextOffset[b] <= lowest + 1}
    IN  /\ ~closed
        /\ segments' = segments \ gone
        /\ dir' = dir \ (gone \X Ext)
        /\ store' = [b \in Offset |->
              IF b \in gone \ {activeSegment} THEN EmptyStore ELSE store[b]]
        /\ index' = [b \in Offset |->
              IF b \in gone \ {activeSegment} THEN EmptyIndex ELSE index[b]]
        /\ UNCHANGED <<activeSegment, nextOffset, closed>>

(* logStore.DeleteRange as Raft calls it to compact the log behind a       *)
(* snapshot: it keeps trailing entries, so the last one survives.          *)
Compact(lowest) ==
    /\ lowest + 1 < nextOffset[activeSegment]
    /\ Truncate(lowest)

Close ==
    /\ ~closed
    /\ closed' = TRUE
    /\ store' = [b \in Offset |-> IF b \in segments THEN StoreFlush(store[b]) ELSE store[b]]
    /\ index' = [b \in Offset |-> IF b \in segments THEN IndexClose(index[b]) ELSE index[b]]
    /\ UNCHANGED <<segments, activeSegment, nextOffset, dir>>

(* Remove closes the segments and deletes l.Dir.  Reset ends in the same   *)
(* state: the setup it calls next fails, for the directory is gone.  Only  *)
(* a later NewLog, on a directory made anew, gives a usable log.           *)
Remove ==
    /\ ~closed
    /\ closed' = TRUE
    /\ dir' = {}
    /\ store' = [b \in Offset |-> EmptyStore]
    /\ index' = [b \in Offset |-> EmptyIndex]
    /\ UNCHANGED <<segments, activeSegment, nextOffset>>

-----------------------------------------------------------------------------

Next ==
    \/ \E v \in Value, n \in PayloadLen :
          AppendStay(v, n) \/ AppendRoll(v, n) \/ AppendEOF(v, n)
    \/ \E off \in Offset : Read(off)
    \/ \E b \in segments : ReaderRead(b)
    \/ \E lowest \in Offset : Compact(lowest)
    \/ Close
    \/ Remove
    \/ Open

Spec == Init /\ [][Next]_vars

-----------------------------------------------------------------------------
(* Properties *)

(* Every variable has its type; a log that is open has its active segment  *)
(* in its list (newSegment in log.go appends to the list and points to it).*)
TypeOK ==
    /\ segments \subseteq Offset
    /\ activeSegment \in segments
    /\ nextOffset \in [Offset -> Offset]
    /\ store \in [Offset -> StoreState]
    /\ index \in [Offset -> IndexState]
    /\ dir \subseteq Offset \X Ext
    /\ closed \in BOOLEAN

(* The segments cover the offsets from the lowest to the next one without  *)
(* a gap or an overlap, and only the active segment can be empty: so the   *)
(* linear search of Log.Read finds one owner, across rolls, restarts and   *)
(* truncations.                                                            *)
SegmentsTile ==
    /\ \A b \in segments \ {activeSegment} :
          b < nextOffset[b] /\ nextOffset[b] \in segments
    /\ \A b, c \in segments : b < c => nextOffset[b] <= c
    /\ \A b \in segments : b <= activeSegment

(* Every offset in a segment's range leads, through the index, to a whole  *)
(* frame of its store that holds the record appended with that offset      *)
(* (segment.Read).                                                         *)
ReadsOwnRecord ==
    \A b \in segments :
      \A off \in Offset :
        (dir # {} /\ Holds(b, off)) =>
            /\ CanRead(b, off)
            /\ FrameOf(b, off).off = off

(* LowestOffset and HighestOffset, which Raft takes as the first and last  *)
(* index of its log, are the ends of what can be read, also right after a  *)
(* roll, when the active segment is empty, and after a compaction.         *)
EndsAreReadable ==
    Window # {} => /\ LowestOffset \in Window /\ HighestOffset \in Window
                   /\ Window \subseteq LowestOffset..HighestOffset

(* The active segment always has room for one more entry, so an append can *)
(* only fail for reasons outside the log.  True when MaxIndexBytes is a    *)
(* multiple of entWidth: then IsMaxed rolls before index.Write runs out.   *)
ActiveHasRoom ==
    MaxIndexBytes % entWidth = 0 /\ ~closed => ~IndexFull(index[activeSegment])

(* Under the same condition the bytes that Read of Log.Reader streams are  *)
(* exactly the records that can be read: no store keeps a frame that no    *)
(* index entry leads to.                                                   *)
StreamIsLog ==
    MaxIndexBytes % entWidth = 0 /\ dir # {} =>
      \A b \in segments :
        \A f \in store[b].frames :
            Holds(b, f.off) /\ index[b].entry[f.off - b].pos = f.pos

(* Whatever appends failed, the bytes that Read of Log.Reader streams hold *)
(* each offset of the log once, in the frame that Log.Read finds.  The     *)
(* other frames were refused: they are in the active segment, under the    *)
(* offset that no append has returned.                                     *)
StreamHoldsLog ==
    dir # {} =>
      \A b \in segments :
        \A f \in store[b].frames :
            \/ Holds(b, f.off) /\ f = FrameOf(b, f.off)
            \/ b = activeSegment /\ f.off = nextOffset[b]

(* NewLog on the directory of a closed log rebuilds the segments, the      *)
(* active one and every next offset from the files alone.                  *)
ReopenRestores ==
    [][closed /\ ~closed' /\ dir # {} =>
          /\ segments' = segments
          /\ activeSegment' = activeSegment
          /\ \A b \in segments : nextOffset'[b] = nextOffset[b]]_vars

(* A reopened segment's next offset is past every record its store holds,  *)
(* so that no append gives out an offset a second time.  This is why, says *)
(* its comment, newSegment (segment.go:62-64) derives the next offset from *)
(* the last index entry.                                                   *)
ReopenPastEveryRecord ==
    [][closed /\ ~closed' =>
          \A b \in segments' : \A f \in store'[b].frames : f.off < nextOffset'[b]]_vars

(* A segment that refuses a record because its index is full is maxed out, *)
(* so that Log.Append moves on to a new one.  This is what segment_test.go *)
(* expects after an append returned io.EOF (lines 42-44).                  *)
EOFMeansMaxed ==
    ~closed /\ IndexFull(index[activeSegment]) =>
        IsMaxed(store[activeSegment], index[activeSegment])

-----------------------------------------------------------------------------
(* The log implements OffsetLog: what can be read through the index is the *)
(* abstract map, and a deleted log is empty.                               *)

Removed == closed /\ dir = {}

Readable == IF Removed THEN {} ELSE Window

Contents == [off \in Readable |-> ReadValue(off)]

NextOffset == IF Removed THEN InitialOffset ELSE nextOffset[activeSegment]

Promise == INSTANCE OffsetLog WITH
    log <- Contents, next <- NextOffset, removed <- Removed

(* The segmented log behaves as OffsetLog: appends at the next offset,     *)
(* reads back what was appended, compacts only from the front, and a       *)
(* restart changes nothing.                                                *)
ImplementsOffsetLog == Promise!Spec
=============================================================================
