-------------------------- MODULE MCCommitLogCrash --------------------------
(* CommitLogCrash for TLC. *)
EXTENDS CommitLogCrash

MCPayloadLen == {5}
=============================================================================
