---------------------------- MODULE MCCommitLog ----------------------------
(* CommitLog for TLC. *)
EXTENDS CommitLog, TLC

(* Frames of 13 bytes, the shortest a record with a value can have past   *)
(* offset 0, and of 50: under MaxStoreBytes = 48 one long record maxes a   *)
(* segment out by its store, three short ones a 36 byte index, and two     *)
(* short ones fill a 30 byte index and do not max it out.                  *)
MCPayloadLen == {5, 42}

(* The log never looks into a value. *)
MCSymmetry == Permutations(Value)
=============================================================================
