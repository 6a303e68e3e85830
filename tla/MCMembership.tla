---------------------------- MODULE MCMembership ----------------------------
(* Membership for TLC. *)
EXTENDS Membership, TLC

CONSTANTS n1, n2, n3, n4

(* n3 may come back under a new address; n4 is to replace it under its old one. *)
MCrpcAddr ==
    [n \in Node |-> CASE n = n1 -> {1} [] n = n2 -> {2} [] n = n3 -> {3, 4} [] OTHER -> {3}]
MCAddr == 1..4

(* The bootstrap node alone, and with the two that joined it. *)
MCAlone == n1 :> 1
MCJoined == n1 :> 1 @@ n2 :> 2 @@ n3 :> 3
MCFormedLarge == {MCJoined}
MCFormed == {MCAlone, MCJoined}
=============================================================================
