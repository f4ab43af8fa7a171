---------------------------- MODULE MCRateLimiter ----------------------------
(***************************************************************************)
(* Instances of RateLimiter for TLC: two threads, two scopes.              *)
(***************************************************************************)
EXTENDS RateLimiter, TLC

CONSTANTS t1, t2, a1, a2

(* Two attempts a window on one scope, one on the other. *)
TwoAndOne == [s \in Scopes |-> IF s = a1 THEN 2 ELSE 1]

(* Threads are alike. *)
Symmetry == Permutations(Callers)

==============================================================================
