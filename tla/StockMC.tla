------------------------------ MODULE StockMC ------------------------------
(* Instances of Stock for TLC: two orders that compete for one product. *)
EXTENDS Stock, TLC

CONSTANTS p1, p2, o1, o2

MCQty == o1 :> (p1 :> 1 @@ p2 :> 0) @@ o2 :> (p1 :> 1 @@ p2 :> 1)

(* p2 has no stock row until an administrator adds one, and may be deleted. *)
OneInStock == p1 :> 1

C(op, o, n) == [op |-> op, order |-> o, by |-> n]

(* A reservation per order, and confirms and restores that are repeated.   *)
MCCalls ==
    {C("create", o, 1) : o \in Orders}
        \cup {C("confirm", o1, n) : n \in 1..2} \cup {C("restore", o1, n) : n \in 1..2}
        \cup {C("confirm", o2, 1)}
=============================================================================
