--------------------------- MODULE MCRaftLogStore ---------------------------
(* RaftLogStore for TLC. *)
EXTENDS RaftLogStore

(* Frames of 13 and of 28 bytes: two short ones fill a 30 byte index before *)
(* a store of 40 bytes is maxed out, a short and a long one do not.        *)
MCPayloadLen == {5, 20}
=============================================================================
