------------------------------ MODULE MCRooms -------------------------------
(* Rooms on small instances. *)
EXTENDS Rooms, TLC

CONSTANTS u1, u2, s1, s2, r1, r2, r3, r4

Interchangeable == Permutations({r1, r2, r3, r4}) \cup Permutations({u1, u2})

(* As many requests of each kind as there are, and just those of a game of *)
(* one player in two rooms.                                                *)
AnyAsks == [op \in Ops |-> 4]
FewAsks == [op \in Ops |-> IF op \in {"create", "enter"} THEN 2
                          ELSE IF op \in {"leave", "destroy"} THEN 1 ELSE 0]
=============================================================================
