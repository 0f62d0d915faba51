---------------------------- MODULE OrderSagaMC ----------------------------
(* Instances of OrderSaga for TLC. *)
EXTENDS OrderSaga, TLC

CONSTANTS p1, p2, p3, o1, o2, o3, none

R(k, o, n) == [kind |-> k, order |-> o, n |-> n]

(* Two orders for the last unit; the customer of the first is impatient    *)
(* and repeats completes and cancels.  The third order is for a product    *)
(* without stock, perhaps deleted.                                         *)
OverlapRequests ==
    {R("initiate", o, 1) : o \in Orders} \cup {R("complete", o2, 1)}
        \cup {R(k, o1, n) : k \in {"complete", "cancel"}, n \in 1..2}

RetriedRequests ==
    {R("initiate", o1, 1), R("complete", o1, 1), R("complete", o1, 2), R("cancel", o1, 1)}

BothInitiated == {R("initiate", o, 1) : o \in Orders}

OneQty == o1 :> (p1 :> 1 @@ p2 :> 1)
BothQty == o1 :> (p1 :> 1 @@ p2 :> 0) @@ o2 :> (p1 :> 1 @@ p2 :> 1)
RivalQty ==
    o1 :> (p1 :> 1 @@ p2 :> 0 @@ p3 :> 0) @@ o2 :> (p1 :> 1 @@ p2 :> 1 @@ p3 :> 0)
        @@ o3 :> (p1 :> 0 @@ p2 :> 0 @@ p3 :> 1)
Scarce == p1 :> 1 @@ p2 :> 1
Ample == p1 :> 2 @@ p2 :> 1
=============================================================================
