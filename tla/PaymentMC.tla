----------------------------- MODULE PaymentMC -----------------------------
(* Every operation twice on the payment of one order, once on another. *)
EXTENDS Payment, Integers

CONSTANTS o1, o2

C(op, o, n) == [op |-> op, order |-> o, by |-> n]

MCCalls ==
    {C("create", o, 1) : o \in Orders}
        \cup {C(op, o1, n) : op \in {"confirm", "cancel", "fail"}, n \in 1..2}
        \cup {C(op, o2, 1) : op \in {"confirm", "fail"}}
=============================================================================
