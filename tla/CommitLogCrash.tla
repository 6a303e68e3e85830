-------------------------- MODULE CommitLogCrash --------------------------
(***************************************************************************)
(* CommitLog when its process can die.  index.Close is what cuts an index  *)
(* file back to its entries, and store.Close what flushes a store's        *)
(* buffer; a process that is killed runs neither.                          *)
(***************************************************************************)
EXTENDS CommitLog

(* The frames still in the bufio buffer are lost.  The memory map is       *)
(* shared with the file, so the entries are in the file, but the file      *)
(* keeps the length newIndex gave it.                                      *)
OnDisk(s) == [s EXCEPT !.frames = {f \in @ : f.pos < s.file}, !.size = s.file]

Crash ==
    /\ ~closed
    /\ closed' = TRUE
    /\ store' = [b \in Offset |-> IF b \in segments THEN OnDisk(store[b]) ELSE store[b]]
    /\ UNCHANGED <<segments, activeSegment, nextOffset, index, dir>>

CrashNext == Next \/ Crash

CrashSpec == Init /\ [][CrashNext]_vars
=============================================================================
