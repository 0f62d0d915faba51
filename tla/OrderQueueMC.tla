---------------------------- MODULE OrderQueueMC ----------------------------
(* Two orders of one user and one of another. *)
EXTENDS OrderQueue

CONSTANTS u1, u2, k1, k2, none

M(u, n) == [user |-> u, n |-> n]

MCMessages == {M(u1, 1), M(u1, 2), M(u2, 1)}
=============================================================================
