------------------------------ MODULE MCAgent ------------------------------
(* Agent, with the streams of two nodes, for TLC. *)
EXTENDS Agent

CONSTANTS n1, n2, p1, p2, s1, s2

MCCall == Producer \X (1..MaxRequests)

(* One stream of each kind on each node; s2 begins at the second record. *)
MCat == [s \in Producer \cup Consumer |-> IF s \in {p1, s1} THEN n1 ELSE n2]
MCfrom == [s \in Consumer |-> IF s = s1 THEN 0 ELSE 1]
=============================================================================
