------------------------- MODULE MCReplicatedInsert -------------------------
(* Two replicas and two clients that insert the same block, so that they race for it; with
   two faults a repeated INSERT, a crash during a fetch and a fetch that fails meet.  One of
   the clients repeats its INSERT on either replica, the other one always on the second. *)
EXTENDS ReplicatedInsert

CONSTANTS r1, r2, c1, c2

SameBlock == [c \in {c1, c2} |-> "b"]
OneBlock  == [c \in {c1} |-> "b"]

TwoReach == [c \in {c1, c2} |-> IF c = c1 THEN {r1, r2} ELSE {r2}]
OneReach == [c \in {c1} |-> {r1, r2}]
=============================================================================
