---------------------------- MODULE StockLedger ----------------------------
(***************************************************************************)
(* What the stock module promises its clients, free of transactions: every *)
(* operation is atomic, an order is reserved only from stock that nobody   *)
(* else holds, and a quantity moves once out of the stock and once back.   *)
(***************************************************************************)
EXTENDS Integers, FiniteSets, FiniteSetsExt

CONSTANTS Products, Orders, Qty

VARIABLES stock, resv, expired

vars == <<stock, resv, expired>>

Held(p) ==
    MapThenSumSet(LAMBDA o : Qty[o][p], {o \in Orders : resv[o] = "PENDING" /\ o \notin expired})

Init ==
    /\ stock \in [Products -> Nat]
    /\ resv = [o \in Orders |-> "NONE"]
    /\ expired = {}

Move(o, from, to) == resv[o] = from /\ resv' = [resv EXCEPT ![o] = to]

Reserve(o) ==
    /\ Move(o, "NONE", "PENDING")
    /\ \A p \in Products : Qty[o][p] > 0 => Held(p) + Qty[o][p] <= stock[p]
    /\ UNCHANGED <<stock, expired>>

Confirm(o) ==
    /\ Move(o, "PENDING", "CONFIRMED")
    /\ stock' = [p \in Products |-> stock[p] - Qty[o][p]]
    /\ UNCHANGED expired

Restore(o) ==
    /\ Move(o, "CONFIRMED", "RELEASED")
    /\ stock' = [p \in Products |-> stock[p] + Qty[o][p]]
    /\ UNCHANGED expired

Lapse(o) ==
    /\ resv[o] = "PENDING" /\ o \notin expired
    /\ expired' = expired \cup {o}
    /\ UNCHANGED <<stock, resv>>

(* An administrator sets a quantity; what is reserved is not looked at.    *)
Adjust(p) ==
    /\ stock'[p] \in Nat
    /\ stock' = [stock EXCEPT ![p] = stock'[p]]
    /\ UNCHANGED <<resv, expired>>

Next ==
    \/ \E o \in Orders : Reserve(o) \/ Confirm(o) \/ Restore(o) \/ Lapse(o)
    \/ \E p \in Products : Adjust(p)

Spec == Init /\ [][Next]_vars
=============================================================================
