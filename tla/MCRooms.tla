------------------------------- MODULE MCRooms -------------------------------
(***************************************************************************)
(* Instances of Rooms for TLC: two join requests from one address to room  *)
(* r1, two admin requests about r1 and r2, one socket that may present what *)
(* token it gets for either.                                               *)
(***************************************************************************)
EXTENDS Rooms, TLC

CONSTANTS j1, j2, a1, a2, s1, r1, r2, k1

(* One attempt a window. *)
One == [s \in Scopes |-> 1]

RoomOfScope == [s \in Scopes |-> r1]

(* Requests of a kind are alike. *)
Symmetry == Permutations(Callers) \cup Permutations(Admins)

==============================================================================
