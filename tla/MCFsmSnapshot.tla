---------------------------- MODULE MCFsmSnapshot ----------------------------
(* FsmSnapshot for TLC. *)
EXTENDS FsmSnapshot, TLC

(* Frames of 13 and of 28 bytes: one long one maxes a store of 28 bytes    *)
(* out, two short ones a 24 byte index, so three records make up to four   *)
(* segments; in 30 and 40 bytes two short ones fill the index and do not   *)
(* max it out.                                                             *)
MCPayloadLen == {5, 20}

(* The log never looks into a value. *)
MCSymmetry == Permutations(Value)
=============================================================================
