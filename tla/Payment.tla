------------------------------ MODULE Payment ------------------------------
(***************************************************************************)
(* The payment service (PaymentService of apps/payment): the status of the *)
(* payment of every order and the gRPC calls that change it.               *)
(*                                                                         *)
(* confirm, cancel and fail share one shape.  A transaction finds the      *)
(* payment by its id and the status the operation starts from, a snapshot  *)
(* read without a lock, and then saves the new status: the UPDATE that     *)
(* save issues names the id only, so it overwrites whatever status was     *)
(* committed since the find.                                               *)
(*                                                                         *)
(* createPayment runs once per order id, so the order id stands for the    *)
(* payment id.                                                             *)
(***************************************************************************)
CONSTANTS
    Orders,     \* order ids; each names the payment made for it
    Calls       \* the gRPC calls that clients may make

ASSUME CallsAssumption ==
    /\ \A c \in Calls : c.op \in {"create", "confirm", "cancel", "fail"} /\ c.order \in Orders
    /\ \A c, d \in Calls :
          c.op = "create" /\ d.op = "create" /\ c.order = d.order => c = d

VARIABLES
    pay,    \* status of the payment of an order, NONE before createPayment
    at      \* how far each call has come

vars == <<pay, at>>

Running == {"begun", "found"}

TypeOK ==
    /\ pay \in [Orders -> {"NONE", "PENDING", "SUCCESS", "CANCELED", "FAILED"}]
    /\ at \in [Calls -> Running \cup {"idle", "ok", "err"}]

Init ==
    /\ pay = [o \in Orders |-> "NONE"]
    /\ at = [c \in Calls |-> "idle"]

-----------------------------------------------------------------------------
(* The status an operation looks for, and the one it saves.                *)
From(op) == IF op = "confirm" THEN "PENDING" ELSE "SUCCESS"
To(op) == CASE op = "confirm" -> "SUCCESS" [] op = "cancel" -> "CANCELED" [] OTHER -> "FAILED"

Goto(c, a) == at' = [at EXCEPT ![c] = a]

Begin(c) == at[c] = "idle" /\ Goto(c, "begun") /\ UNCHANGED pay

Create(c) ==
    /\ c.op = "create" /\ at[c] = "begun"
    /\ pay' = [pay EXCEPT ![c.order] = "PENDING"]
    /\ Goto(c, "ok")

(* Mutant of Find: the payment is found by its id, whatever its status.    *)
FindAnyStatus(c) ==
    /\ c.op # "create" /\ at[c] = "begun"
    /\ Goto(c, IF pay[c.order] # "NONE" THEN "found" ELSE "err")
    /\ UNCHANGED pay

Find(c) ==
    /\ c.op # "create" /\ at[c] = "begun"
    /\ Goto(c, IF pay[c.order] = From(c.op) THEN "found" ELSE "err")
    /\ UNCHANGED pay

Save(c) ==
    /\ c.op # "create" /\ at[c] = "found"
    /\ pay' = [pay EXCEPT ![c.order] = To(c.op)]
    /\ Goto(c, "ok")

(* A query of the transaction fails: rollbackTransaction and an error reply. *)
(* The findOne after the commit may fail too; its caller then gets an error *)
(* for what was saved, which is a lost reply (OrderSaga!LoseReply).         *)
Abort(c) == at[c] \in Running /\ Goto(c, "err") /\ UNCHANGED pay

CallStep(c) == Create(c) \/ Find(c) \/ Save(c)

-----------------------------------------------------------------------------
(* Clients that never have two calls for one payment in progress.          *)
BeginSerial(c) ==
    /\ \A d \in Calls \ {c} : d.order = c.order => at[d] \notin Running
    /\ Begin(c)

Next == \E c \in Calls : BeginSerial(c) \/ CallStep(c) \/ Abort(c)

Spec == Init /\ [][Next]_vars

-----------------------------------------------------------------------------
(* The life of a payment: money is taken from a pending payment only and   *)
(* given back from a successful one only, and what was given back or has   *)
(* failed stays so (confirmPayment, cancelPayment, failPayment).           *)
Lifecycle ==
    [][\A o \in Orders : pay'[o] # pay[o] =>
          <<pay[o], pay'[o]>> \in {<<"NONE", "PENDING">>, <<"PENDING", "SUCCESS">>,
                                  <<"SUCCESS", "CANCELED">>, <<"SUCCESS", "FAILED">>}]_pay
=============================================================================
