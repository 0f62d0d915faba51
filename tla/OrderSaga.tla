----------------------------- MODULE OrderSaga -----------------------------
(***************************************************************************)
(* The order service (OrderService of apps/order) with the two services it *)
(* calls: initiate, complete and cancel an order.                          *)
(*                                                                         *)
(* A request is one run of processInitiateOrder, completeOrder or          *)
(* cancelOrder.  Each holds one MySQL transaction on the order database    *)
(* open while it waits for the stock and payment services, which commit on *)
(* their own.  The UPDATE of an order row locks that row until the commit  *)
(* or rollback; a find is a snapshot read and waits for nobody.            *)
(*                                                                         *)
(* A request makes each kind of call at most once, so the pair of the      *)
(* operation and the request names a call of Stock or of Payment.  A reply *)
(* may be lost, and then the callee goes on while the request continues.   *)
(*                                                                         *)
(* Left out: updateOrderStatusById, which no controller calls, the reads,  *)
(* and requests that name an order of another user.  The order queue with  *)
(* its lock per user is abstracted to the number of its consumers.         *)
(***************************************************************************)
EXTENDS Integers, FiniteSets, FiniteSetsExt

CONSTANTS
    Products, Orders, Qty, InitialStock,    \* as in Stock
    Requests,       \* the requests that clients may send
    Consumers,      \* instances that read the order queue, one message each
    Connections,    \* bound: size of the order service's database pool
    PaysLate,       \* whether a reservation may expire
    MaxFaults,      \* bound: failures of a query, a reply or an instance
    NoRequest       \* nobody, as the holder of a row lock

(* An initiate names the order id that its save will generate.             *)
ASSUME RequestsAssumption ==
    /\ \A r \in Requests : r.kind \in {"initiate", "complete", "cancel"} /\ r.order \in Orders
    /\ \A r, q \in Requests :
          r.kind = "initiate" /\ q.kind = "initiate" /\ r.order = q.order => r = q
    /\ NoRequest \notin Requests

ASSUME OrderItems ==
    /\ Qty \in [Orders -> [Products -> Nat]]
    /\ \A o \in Orders : \E p \in Products : Qty[o][p] > 0
    /\ DOMAIN InitialStock \subseteq Products
    /\ \A p \in DOMAIN InitialStock : InitialStock[p] \in Nat

ASSUME BoundsAssumption ==
    Consumers \in Nat /\ Connections \in Nat /\ MaxFaults \in Nat /\ PaysLate \in BOOLEAN

Initiates == {r \in Requests : r.kind = "initiate"}
Completes == {r \in Requests : r.kind = "complete"}
Cancels == {r \in Requests : r.kind = "cancel"}

Call(op, r) == [op |-> op, order |-> r.order, by |-> r]

StockCalls ==
    {Call("create", r) : r \in Initiates} \cup {Call("confirm", r) : r \in Completes}
        \cup {Call("restore", r) : r \in Completes \cup Cancels}

PaymentCalls ==
    {Call("create", r) : r \in Initiates} \cup {Call("confirm", r) : r \in Completes}
        \cup {Call("cancel", r) : r \in Completes \cup Cancels}

VARIABLES
    catalog, stocked, stock, resv, expired, stockAt,    \* Stock
    pay, payAt,                                         \* Payment
    ord,        \* committed status of every order, NONE before the insert
    lock,       \* the request whose transaction locks the row of an order
    paid,       \* the requests whose local paymentId is set
    pc,         \* where each request is
    faults      \* failures so far

stockVars == <<catalog, stocked, stock, resv, expired, stockAt>>
payVars == <<pay, payAt>>
vars == <<stockVars, payVars, ord, lock, paid, pc, faults>>

S == INSTANCE Stock WITH Calls <- StockCalls, at <- stockAt, Quantities <- {}
P == INSTANCE Payment WITH Calls <- PaymentCalls, at <- payAt

(* Waiting for a reply of Stock, of Payment, and neither.                  *)
AtStock == {"reserving", "confirming", "restoring", "undoing"}
AtPayment == {"paying", "charging", "canceling", "refunding"}
InFlight == AtStock \cup AtPayment \cup {"found", "charged", "failing", "committed"}
Finished == {"done", "failed", "dead"}

OrderStatuses ==
    {"NONE", "PAYMENT_PENDING", "PAYMENT_SUCCESS", "PAYMENT_FAILED", "PAYMENT_CANCELED"}

TypeOK ==
    /\ S!TypeOK
    /\ P!TypeOK
    /\ ord \in [Orders -> OrderStatuses]
    /\ lock \in [Orders -> Requests \cup {NoRequest}]
    /\ paid \subseteq Requests
    /\ pc \in [Requests -> InFlight \cup Finished \cup {"idle"}]
    /\ faults \in 0 .. MaxFaults

Init ==
    /\ S!Init
    /\ P!Init
    /\ ord = [o \in Orders |-> "NONE"]
    /\ lock = [o \in Orders |-> NoRequest]
    /\ paid = {}
    /\ pc = [r \in Requests |-> "idle"]
    /\ faults = 0

-----------------------------------------------------------------------------
Goto(r, l) == pc' = [pc EXCEPT ![r] = l]

SetOrder(r, s) == ord' = [ord EXCEPT ![r.order] = s]

Acquire(r) == lock[r.order] = NoRequest /\ lock' = [lock EXCEPT ![r.order] = r]
Release(r) == lock' = [lock EXCEPT ![r.order] = NoRequest]

CallStock(op, r) == S!Begin(Call(op, r))
CallPayment(op, r) == P!Begin(Call(op, r))

StockReply(op, r) == stockAt[Call(op, r)]
PaymentReply(op, r) == payAt[Call(op, r)]

-----------------------------------------------------------------------------
(* createQueryRunner().connect() takes a connection of the pool, which has *)
(* a fixed size; release() in the finally block gives it back.  A request  *)
(* that finds none waits, without a limit.                                 *)
ConnectionFree == Cardinality({r \in Requests : pc[r] \in InFlight}) < Connections

(* The queue gives a consumer no message before the last one is acked.     *)
ConsumerFree == Cardinality({r \in Initiates : pc[r] \in InFlight}) < Consumers

(* getProductsByIds answers with as many products as there are items.      *)
ItemsFound(r) == S!Items(r.order) \subseteq catalog

(* processInitiateOrder, from taking the message to the reservation call:  *)
(* getProductsByIds finds every item, the order row is inserted.           *)
Reserve(r) ==
    /\ r \in Initiates /\ pc[r] = "idle"
    /\ ConsumerFree /\ ConnectionFree
    /\ ItemsFound(r)
    /\ CallStock("create", r)
    /\ Goto(r, "reserving")
    /\ UNCHANGED <<payVars, ord, lock, paid, faults>>

(* total !== items.length: the transaction is rolled back, nothing called. *)
RejectItems(r) ==
    /\ r \in Initiates /\ pc[r] = "idle"
    /\ ConsumerFree /\ ConnectionFree
    /\ ~ ItemsFound(r)
    /\ Goto(r, "failed")
    /\ UNCHANGED <<stockVars, payVars, ord, lock, paid, faults>>

CreatePayment(r) ==
    /\ r \in Initiates /\ pc[r] = "reserving" /\ StockReply("create", r) = "ok"
    /\ CallPayment("create", r)
    /\ Goto(r, "paying")
    /\ UNCHANGED <<stockVars, ord, lock, paid, faults>>

(* The order row with its paymentId becomes visible; lock and ack follow.  *)
CommitInitiate(r) ==
    /\ r \in Initiates /\ pc[r] = "paying" /\ PaymentReply("create", r) = "ok"
    /\ SetOrder(r, "PAYMENT_PENDING")
    /\ Goto(r, "done")
    /\ UNCHANGED <<stockVars, payVars, lock, paid, faults>>

(* An error reply rolls the order back and releases nothing elsewhere.     *)
InitiateFails(r) ==
    /\ r \in Initiates
    /\ \/ pc[r] = "reserving" /\ StockReply("create", r) = "err"
       \/ pc[r] = "paying" /\ PaymentReply("create", r) = "err"
    /\ Goto(r, "failed")
    /\ UNCHANGED <<stockVars, payVars, ord, lock, paid, faults>>

-----------------------------------------------------------------------------
(* A client names an order it was told of, so one that is committed.       *)
FindToComplete(r) ==
    /\ r \in Completes /\ pc[r] = "idle" /\ ord[r.order] # "NONE"
    /\ ConnectionFree
    /\ Goto(r, IF ord[r.order] = "PAYMENT_PENDING" THEN "found" ELSE "failing")
    /\ UNCHANGED <<stockVars, payVars, ord, lock, paid, faults>>

(* Mutant of ConfirmStock: the order row is not updated before the calls.  *)
ConfirmStockUnlocked(r) ==
    /\ r \in Completes /\ pc[r] = "found"
    /\ CallStock("confirm", r)
    /\ Goto(r, "confirming")
    /\ UNCHANGED <<payVars, ord, lock, paid, faults>>

(* UPDATE by id alone, in the transaction: it waits for the row, whose     *)
(* status may no longer be the one found; then confirmStockReservation.    *)
ConfirmStock(r) ==
    /\ r \in Completes /\ pc[r] = "found"
    /\ Acquire(r)
    /\ CallStock("confirm", r)
    /\ Goto(r, "confirming")
    /\ UNCHANGED <<payVars, ord, paid, faults>>

(* Mutant of ConfirmPayment: confirmStockReservation is not awaited.       *)
ConfirmPaymentAtOnce(r) ==
    /\ r \in Completes /\ pc[r] = "confirming"
    /\ CallPayment("confirm", r)
    /\ Goto(r, "charging")
    /\ UNCHANGED <<stockVars, ord, lock, paid, faults>>

ConfirmPayment(r) ==
    /\ r \in Completes /\ pc[r] = "confirming" /\ StockReply("confirm", r) = "ok"
    /\ CallPayment("confirm", r)
    /\ Goto(r, "charging")
    /\ UNCHANGED <<stockVars, ord, lock, paid, faults>>

(* Mutant of Charged: the order id is kept in the place of the payment.    *)
ChargedOrder(r) ==
    /\ r \in Completes /\ pc[r] = "charging" /\ PaymentReply("confirm", r) = "ok"
    /\ paid' = paid \cup {r.order}
    /\ Goto(r, "charged")
    /\ UNCHANGED <<stockVars, payVars, ord, lock, faults>>

Charged(r) ==
    /\ r \in Completes /\ pc[r] = "charging" /\ PaymentReply("confirm", r) = "ok"
    /\ paid' = paid \cup {r}
    /\ Goto(r, "charged")
    /\ UNCHANGED <<stockVars, payVars, ord, lock, faults>>

CommitComplete(r) ==
    /\ r \in Completes /\ pc[r] = "charged"
    /\ SetOrder(r, "PAYMENT_SUCCESS")
    /\ Release(r)
    /\ Goto(r, "committed")
    /\ UNCHANGED <<stockVars, payVars, paid, faults>>

(* The confirmation mail is emitted to its queue after the commit.         *)
EmitMail(r) ==
    /\ r \in Completes /\ pc[r] = "committed"
    /\ Goto(r, "done")
    /\ UNCHANGED <<stockVars, payVars, ord, lock, paid, faults>>

(* Mutant of CompleteFails: the transaction is not rolled back.            *)
CompleteFailsOpen(r) ==
    /\ r \in Completes
    /\ \/ pc[r] = "confirming" /\ StockReply("confirm", r) = "err"
       \/ pc[r] = "charging" /\ PaymentReply("confirm", r) = "err"
    /\ Goto(r, "failing")
    /\ UNCHANGED <<stockVars, payVars, ord, lock, paid, faults>>

(* Into the catch block: the transaction is rolled back, the row unlocked. *)
CompleteFails(r) ==
    /\ r \in Completes
    /\ \/ pc[r] = "confirming" /\ StockReply("confirm", r) = "err"
       \/ pc[r] = "charging" /\ PaymentReply("confirm", r) = "err"
    /\ Release(r)
    /\ Goto(r, "failing")
    /\ UNCHANGED <<stockVars, payVars, ord, paid, faults>>

(* Mutant of FailOrder: the UPDATE has no condition on the status.         *)
FailOrderAnyStatus(r) ==
    /\ r \in Completes /\ pc[r] = "failing" /\ lock[r.order] = NoRequest
    /\ ConnectionFree
    /\ SetOrder(r, "PAYMENT_FAILED")
    /\ CallStock("restore", r)
    /\ Goto(r, "undoing")
    /\ UNCHANGED <<payVars, lock, paid, faults>>

(* UPDATE ... WHERE status = PAYMENT_PENDING, committed by itself, waits   *)
(* for the row; then restoreStockReservation, whatever went wrong before.  *)
(* The UPDATE runs on a second connection while r still holds its first.   *)
FailOrder(r) ==
    /\ r \in Completes /\ pc[r] = "failing" /\ lock[r.order] = NoRequest
    /\ ConnectionFree
    /\ IF ord[r.order] = "PAYMENT_PENDING" THEN SetOrder(r, "PAYMENT_FAILED") ELSE UNCHANGED ord
    /\ CallStock("restore", r)
    /\ Goto(r, "undoing")
    /\ UNCHANGED <<payVars, lock, paid, faults>>

RefundPayment(r) ==
    /\ r \in Completes /\ pc[r] = "undoing" /\ StockReply("restore", r) = "ok" /\ r \in paid
    /\ CallPayment("cancel", r)
    /\ Goto(r, "refunding")
    /\ UNCHANGED <<stockVars, ord, lock, paid, faults>>

(* An error of restoreStockReservation leaves the catch block at once.     *)
FailureHandled(r) ==
    /\ r \in Completes
    /\ \/ pc[r] = "undoing" /\ StockReply("restore", r) = "ok" /\ r \notin paid
       \/ pc[r] = "undoing" /\ StockReply("restore", r) = "err"
       \/ pc[r] = "refunding" /\ PaymentReply("cancel", r) \in {"ok", "err"}
    /\ Goto(r, "failed")
    /\ UNCHANGED <<stockVars, payVars, ord, lock, paid, faults>>

-----------------------------------------------------------------------------
FindToCancel(r) ==
    /\ r \in Cancels /\ pc[r] = "idle" /\ ord[r.order] # "NONE"
    /\ ConnectionFree
    /\ Goto(r, IF ord[r.order] = "PAYMENT_SUCCESS" THEN "found" ELSE "failed")
    /\ UNCHANGED <<stockVars, payVars, ord, lock, paid, faults>>

(* Mutant of RestoreStock: the order row is not updated before the calls.  *)
RestoreStockUnlocked(r) ==
    /\ r \in Cancels /\ pc[r] = "found"
    /\ CallStock("restore", r)
    /\ Goto(r, "restoring")
    /\ UNCHANGED <<payVars, ord, lock, paid, faults>>

(* UPDATE by id alone, then restoreStockReservation.                       *)
RestoreStock(r) ==
    /\ r \in Cancels /\ pc[r] = "found"
    /\ Acquire(r)
    /\ CallStock("restore", r)
    /\ Goto(r, "restoring")
    /\ UNCHANGED <<payVars, ord, paid, faults>>

CancelPayment(r) ==
    /\ r \in Cancels /\ pc[r] = "restoring" /\ StockReply("restore", r) = "ok"
    /\ CallPayment("cancel", r)
    /\ Goto(r, "canceling")
    /\ UNCHANGED <<stockVars, ord, lock, paid, faults>>

CommitCancel(r) ==
    /\ r \in Cancels /\ pc[r] = "canceling" /\ PaymentReply("cancel", r) = "ok"
    /\ SetOrder(r, "PAYMENT_CANCELED")
    /\ Release(r)
    /\ Goto(r, "done")
    /\ UNCHANGED <<stockVars, payVars, paid, faults>>

(* The order is rolled back; what the other services did stays.            *)
CancelFails(r) ==
    /\ r \in Cancels
    /\ \/ pc[r] = "restoring" /\ StockReply("restore", r) = "err"
       \/ pc[r] = "canceling" /\ PaymentReply("cancel", r) = "err"
    /\ Release(r)
    /\ Goto(r, "failed")
    /\ UNCHANGED <<stockVars, payVars, ord, paid, faults>>

-----------------------------------------------------------------------------
RequestStep(r) ==
    \/ CreatePayment(r) \/ CommitInitiate(r) \/ InitiateFails(r)
    \/ ConfirmStock(r) \/ ConfirmPayment(r) \/ Charged(r) \/ CommitComplete(r)
    \/ EmitMail(r) \/ CompleteFails(r) \/ FailOrder(r) \/ RefundPayment(r) \/ FailureHandled(r)
    \/ RestoreStock(r) \/ CancelPayment(r) \/ CommitCancel(r) \/ CancelFails(r)

Arrive(r) == Reserve(r) \/ RejectItems(r) \/ FindToComplete(r) \/ FindToCancel(r)

StockService == (\E c \in StockCalls : S!CallStep(c)) /\ UNCHANGED <<payVars, ord, lock, paid, pc, faults>>
PaymentService == (\E c \in PaymentCalls : P!CallStep(c)) /\ UNCHANGED <<stockVars, ord, lock, paid, pc, faults>>

Expire ==
    /\ PaysLate
    /\ \E o \in Orders : S!Expire(o)
    /\ UNCHANGED <<payVars, ord, lock, paid, pc, faults>>

-----------------------------------------------------------------------------
(* Where an exception takes a request.  After the commit of a complete the *)
(* catch block's own rollback throws, and ends it; so does an error of the *)
(* catch block.                                                            *)
Handler(r) ==
    IF r \in Completes /\ pc[r] \in {"found", "confirming", "charging", "charged"}
    THEN "failing" ELSE "failed"

Unlock(R) == [o \in Orders |-> IF lock[o] \in R THEN NoRequest ELSE lock[o]]

Fault == faults < MaxFaults /\ faults' = faults + 1

(* No reply: the connection breaks before, while or after the callee works. *)
LoseReply(r) ==
    /\ Fault
    /\ pc[r] \in AtStock \cup AtPayment
    /\ lock' = Unlock({r})
    /\ Goto(r, Handler(r))
    /\ UNCHANGED <<stockVars, payVars, ord, paid>>

(* A query on the order database fails, or waits too long for the row.     *)
QueryFails(r) ==
    /\ Fault
    /\ pc[r] \in {"found", "charged", "failing", "committed"}
    /\ lock' = Unlock({r})
    /\ Goto(r, Handler(r))
    /\ UNCHANGED <<stockVars, payVars, ord, paid>>

StockAborts ==
    /\ Fault
    /\ \E c \in StockCalls : S!Abort(c)
    /\ UNCHANGED <<payVars, ord, lock, paid, pc>>

PaymentAborts ==
    /\ Fault
    /\ \E c \in PaymentCalls : P!Abort(c)
    /\ UNCHANGED <<stockVars, ord, lock, paid, pc>>

(* An instance dies with the requests it was running; MySQL rolls their    *)
(* transactions back.                                                      *)
Crash(R) ==
    /\ Fault
    /\ R # {} /\ \A r \in R : pc[r] \in InFlight
    /\ lock' = Unlock(R)
    /\ pc' = [r \in Requests |-> IF r \in R THEN "dead" ELSE pc[r]]
    /\ UNCHANGED <<stockVars, payVars, ord, paid>>

Faults ==
    \/ \E r \in Requests : LoseReply(r) \/ QueryFails(r)
    \/ StockAborts \/ PaymentAborts
    \/ \E R \in SUBSET Requests : Crash(R)

Next ==
    \/ \E r \in Requests : Arrive(r) \/ RequestStep(r)
    \/ StockService \/ PaymentService
    \/ Expire
    \/ Faults

Spec == Init /\ [][Next]_vars

(* Node runs every continuation, a callee that was called works until it   *)
(* replies, and MySQL grants a row lock that is free.                      *)
Fairness ==
    /\ \A r \in Requests : WF_vars(RequestStep(r))
    /\ \A c \in StockCalls : WF_vars(S!CallStep(c) /\ UNCHANGED <<payVars, ord, lock, paid, pc, faults>>)
    /\ \A c \in PaymentCalls : WF_vars(P!CallStep(c) /\ UNCHANGED <<stockVars, ord, lock, paid, pc, faults>>)

FairSpec == Spec /\ Fairness
-----------------------------------------------------------------------------
Unlocked(o) == lock[o] = NoRequest

Confirmed(p) == MapThenSumSet(LAMBDA o : Qty[o][p], {o \in Orders : resv[o] = "CONFIRMED"})

(* Whenever no transaction holds the row of an order, the order database   *)
(* and the payment database agree: an order is successful exactly while    *)
(* its payment is.  It holds only because the row stays locked across the  *)
(* calls of completeOrder and cancelOrder (204-223, 302-312).              *)
PaymentAgrees ==
    \A o \in Orders :
        Unlocked(o) => (ord[o] = "PAYMENT_SUCCESS" <=> pay[o] = "SUCCESS")

(* However often completeOrder is called for an order, and whatever fails  *)
(* in between, one call at most gets past its commit to the mail: the      *)
(* snapshot find of a second one may still show the order pending (191).   *)
CompletedOnce ==
    \A r, q \in Completes :
        /\ r.order = q.order
        /\ pc[r] \in {"committed", "done"} /\ pc[q] \in {"committed", "done"}
        => r = q

(* No complete that came too late has given stock back in its catch block, *)
(* which it does for whatever its order has become (256).                  *)
NothingUndone == \A r \in Completes : StockReply("restore", r) # "ok"

(* Stock that a paid order was promised stays deducted for it.             *)
PaidStockHeld ==
    \A o \in Orders : Unlocked(o) /\ ord[o] = "PAYMENT_SUCCESS" => resv[o] = "CONFIRMED"

(* Of a paid order nothing but the catch block of a late complete (256)    *)
(* takes the stock, and never the cancel of another request.               *)
StockTakenByLateComplete == NothingUndone => PaidStockHeld

(* An order moves only forward: a complete that found it pending before it *)
(* failed or was canceled cannot bring it back, though its UPDATE (204)    *)
(* does not look at the status.                                            *)
StatusForward ==
    [][\A o \in Orders : ord'[o] # ord[o] =>
          <<ord[o], ord'[o]>> \in
              {<<"NONE", "PAYMENT_PENDING">>, <<"PAYMENT_PENDING", "PAYMENT_SUCCESS">>,
               <<"PAYMENT_PENDING", "PAYMENT_FAILED">>, <<"PAYMENT_SUCCESS", "PAYMENT_CANCELED">>}]_ord

(* A canceled order stays canceled, whatever else fails or comes late.     *)
CanceledIsFinal ==
    [][\A o \in Orders : ord[o] = "PAYMENT_CANCELED" => ord'[o] = "PAYMENT_CANCELED"]_ord

(* Nothing is deducted twice: stock and confirmed reservations together    *)
(* are at least what there was, though confirmStockReservation finds its   *)
(* rows without a lock (product 181) and then updates them all.            *)
NoDoubleDeduction ==
    \A p \in stocked : stock[p] + Confirmed(p) >= InitialStock[p]

(* Nothing is restored twice either: every unit is in stock or sold.       *)
StockConserved ==
    NothingUndone => \A p \in stocked : stock[p] + Confirmed(p) = InitialStock[p]

(* What is reserved for customers who may still pay is in stock.           *)
NoOversell == \A p \in stocked : S!Reserved(p) <= stock[p]

(* Every request that was taken up ends, with its answer or its instance:  *)
(* nobody waits forever for a row, a connection or a reply.                *)
Answered == \A r \in Requests : pc[r] \in InFlight ~> pc[r] \in Finished
=============================================================================
