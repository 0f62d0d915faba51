-------------------------- MODULE OrderSaga_proofs --------------------------
(***************************************************************************)
(* Theorems about OrderSaga, for any products, orders and requests, and    *)
(* any number of consumers and connections.                                *)
(*                                                                         *)
(*  Typing          the tables and the requests keep their types;          *)
(*  Once            at most one complete of an order wins, whatever fails; *)
(*  Sealed          a canceled order stays canceled, whatever fails;       *)
(*  Agreement       order and payment databases agree, when nothing fails; *)
(*  Forward, Kept   orders move forward, and who takes the stock of a paid *)
(*                  one, when nothing fails;                               *)
(*  Sold, Fits      no unit of stock is lost, made up or promised twice;   *)
(*  composition     the order service is a client that Stock and Payment   *)
(*                  can rely on;                                           *)
(*  ChargedOnce     a payment is charged and refunded once at most,        *)
(*                  whatever fails.                                        *)
(***************************************************************************)
EXTENDS OrderSaga, FiniteSetTheorems, TLAPS

LEMMA CallsDiffer ==
    ASSUME NEW a, NEW b, NEW r \in Requests, NEW q \in Requests, Call(a, r) = Call(b, q)
    PROVE  a = b /\ r = q
  BY DEF Call

(* The calls of the order service are calls of the components.             *)
LEMMA CallsExist ==
    /\ \A r \in Initiates : Call("create", r) \in StockCalls \cap PaymentCalls
    /\ \A r \in Completes : Call("confirm", r) \in StockCalls \cap PaymentCalls
    /\ \A r \in Completes \cup Cancels :
          Call("restore", r) \in StockCalls /\ Call("cancel", r) \in PaymentCalls
  BY DEF StockCalls, PaymentCalls

LEMMA CallsTyped ==
    /\ \A c \in StockCalls : c.order \in Orders /\ c.op \in {"create", "confirm", "restore"}
    /\ \A c \in PaymentCalls : c.order \in Orders /\ c.op \in {"create", "confirm", "cancel"}
  BY RequestsAssumption DEF StockCalls, PaymentCalls, Call, Initiates, Completes, Cancels

LEMMA Kinds ==
    /\ Initiates \cup Completes \cup Cancels = Requests
    /\ Initiates \cap Completes = {} /\ Initiates \cap Cancels = {}
    /\ Completes \cap Cancels = {}
  BY RequestsAssumption DEF Initiates, Completes, Cancels

-----------------------------------------------------------------------------
(* What the steps of a component's calls do to its types.                  *)
LEMMA StockStepTyped ==
    ASSUME S!TypeOK, NEW c \in StockCalls, S!Begin(c) \/ S!CallStep(c) \/ S!Abort(c)
    PROVE  S!TypeOK'
  <1> USE CallsTyped, OrderItems DEF S!TypeOK, S!Statuses, S!Running, S!Goto, S!SetResv
  <1>1. CASE S!Begin(c)
    BY <1>1 DEF S!Begin
  <1>2. CASE S!CreateCheckProducts(c) \/ S!CreateCheckStock(c) \/ S!CreateInsert(c)
    BY <1>2 DEF S!CreateCheckProducts, S!CreateCheckStock, S!CreateInsert
  <1>3. CASE S!ConfirmFind(c) \/ S!RestoreFind(c) \/ S!Abort(c)
    BY <1>3 DEF S!ConfirmFind, S!RestoreFind, S!Abort
  <1>4. CASE S!ConfirmWrite(c)
    BY <1>4 DEF S!ConfirmWrite, S!Deduct
  <1>5. CASE S!RestoreWrite(c)
    BY <1>5 DEF S!RestoreWrite, S!PutBack
  <1>6. QED
    BY <1>1, <1>2, <1>3, <1>4, <1>5 DEF S!CallStep

LEMMA PaymentStepTyped ==
    ASSUME P!TypeOK, NEW c \in PaymentCalls, P!Begin(c) \/ P!CallStep(c) \/ P!Abort(c)
    PROVE  P!TypeOK'
  BY CallsTyped DEF P!TypeOK, P!Running, P!Goto, P!Begin, P!CallStep, P!Create, P!Find, P!Save,
     P!Abort, P!To

-----------------------------------------------------------------------------
LEMMA InitTyped == Init => TypeOK
  BY OrderItems, BoundsAssumption DEF Init, TypeOK, S!Init, S!TypeOK, P!Init, P!TypeOK,
     S!Statuses, OrderStatuses

(* The variables of the whole state keep their types: every status written *)
(* is one of the enumeration, every lock has a request or nobody for its   *)
(* holder, and the failures stay within their bound.                       *)
THEOREM Typing == Spec => []TypeOK
  <1>1. Init => TypeOK
    BY InitTyped
  <1>2. ASSUME TypeOK, [Next]_vars
        PROVE  TypeOK'
    <2> USE <1>2, RequestsAssumption, BoundsAssumption, Kinds
    <2> USE DEF TypeOK, Goto, SetOrder, Acquire, Release, OrderStatuses, InFlight, AtStock,
            AtPayment, Finished
    <2>1. ASSUME UNCHANGED stockVars
          PROVE  S!TypeOK'
      BY <2>1 DEF stockVars, S!TypeOK
    <2>2. ASSUME UNCHANGED payVars
          PROVE  P!TypeOK'
      BY <2>2 DEF payVars, P!TypeOK
    <2>3. ASSUME NEW op, NEW r, Call(op, r) \in StockCalls, CallStock(op, r)
          PROVE  S!TypeOK'
      BY <2>3, StockStepTyped DEF CallStock
    <2>4. ASSUME NEW op, NEW r, Call(op, r) \in PaymentCalls, CallPayment(op, r)
          PROVE  P!TypeOK'
      BY <2>4, PaymentStepTyped DEF CallPayment
    <2>5. ASSUME NEW r \in Requests, Reserve(r) \/ ConfirmStock(r) \/ FailOrder(r) \/ RestoreStock(r)
          PROVE  TypeOK'
      <3>1. S!TypeOK'
        BY <2>3, <2>5, CallsExist DEF Reserve, ConfirmStock, FailOrder, RestoreStock
      <3>2. P!TypeOK'
        BY <2>2, <2>5 DEF Reserve, ConfirmStock, FailOrder, RestoreStock
      <3>3. QED
        BY <2>5, <3>1, <3>2 DEF Reserve, ConfirmStock, FailOrder, RestoreStock
    <2>6. ASSUME NEW r \in Requests, CreatePayment(r) \/ ConfirmPayment(r) \/ RefundPayment(r)
                   \/ CancelPayment(r)
          PROVE  TypeOK'
      <3>1. S!TypeOK'
        BY <2>1, <2>6 DEF CreatePayment, ConfirmPayment, RefundPayment, CancelPayment
      <3>2. P!TypeOK'
        BY <2>4, <2>6, CallsExist DEF CreatePayment, ConfirmPayment, RefundPayment, CancelPayment
      <3>3. QED
        BY <2>6, <3>1, <3>2 DEF CreatePayment, ConfirmPayment, RefundPayment, CancelPayment
    <2>7. ASSUME NEW r \in Requests, RejectItems(r) \/ CommitInitiate(r) \/ InitiateFails(r)
                   \/ FindToComplete(r) \/ Charged(r) \/ CommitComplete(r) \/ EmitMail(r)
                   \/ CompleteFails(r) \/ FailureHandled(r)
                   \/ FindToCancel(r) \/ CommitCancel(r) \/ CancelFails(r)
          PROVE  TypeOK'
      <3> USE DEF RejectItems, CommitInitiate, InitiateFails, FindToComplete, Charged,
              CommitComplete, EmitMail, CompleteFails, FailureHandled, FindToCancel, CommitCancel,
              CancelFails
      <3>1. S!TypeOK' /\ P!TypeOK'
        BY <2>1, <2>2, <2>7
      <3>2. QED
        BY <2>7, <3>1
    <2>8. CASE StockService \/ (Faults /\ StockAborts)
      BY <2>8, <2>2, StockStepTyped DEF StockService, StockAborts, Fault
    <2>9. CASE PaymentService \/ (Faults /\ PaymentAborts)
      BY <2>9, <2>1, PaymentStepTyped DEF PaymentService, PaymentAborts, Fault
    <2>10. CASE Expire
      BY <2>10, <2>2 DEF Expire, S!Expire, S!TypeOK
    <2>11. ASSUME NEW r \in Requests, LoseReply(r) \/ QueryFails(r)
           PROVE  TypeOK'
      <3>1. S!TypeOK' /\ P!TypeOK'
        BY <2>1, <2>2, <2>11 DEF LoseReply, QueryFails
      <3>2. QED
        BY <2>11, <3>1 DEF LoseReply, QueryFails, Fault, Unlock, Handler
    <2>12. ASSUME NEW R \in SUBSET Requests, Crash(R)
           PROVE  TypeOK'
      <3>1. S!TypeOK' /\ P!TypeOK'
        BY <2>1, <2>2, <2>12 DEF Crash
      <3>2. QED
        BY <2>12, <3>1 DEF Crash, Fault, Unlock
    <2>13. CASE UNCHANGED vars
      BY <2>1, <2>2, <2>13 DEF vars, stockVars, payVars
    <2>14. QED
      BY <1>2, <2>5, <2>6, <2>7, <2>8, <2>9, <2>10, <2>11, <2>12, <2>13
         DEF Next, Arrive, RequestStep, Faults
  <1>3. QED
    BY <1>1, <1>2, PTL DEF Spec

-----------------------------------------------------------------------------
(* At most one complete of an order succeeds.  CompletedOnce is not        *)
(* inductive: it needs why a second completeOrder fails, which is that its *)
(* confirm call starts with the row locked, after the first one's confirm  *)
(* moved the reservation out of PENDING for good.                          *)

(* The confirm call of the stock service answered, and was believed.       *)
Won(r) == r \in Completes /\ pc[r] \in {"charging", "charged", "committed", "done"}

Holds(r) ==
    \/ r \in Completes /\ pc[r] \in {"confirming", "charging", "charged"}
    \/ r \in Cancels /\ pc[r] \in {"restoring", "canceling"}

HoldersLock == \A r \in Requests : Holds(r) => lock[r.order] = r

(* An order that clients know of has its reservation call behind it.       *)
KnownIsReserved ==
    /\ \A r \in Initiates : pc[r] = "paying" => StockReply("create", r) = "ok"
    /\ \A r \in Initiates : ord[r.order] # "NONE" => StockReply("create", r) = "ok"
    /\ \A r \in Completes \cup Cancels : pc[r] # "idle" => ord[r.order] # "NONE"

ConfirmCalledLocked ==
    \A r \in Completes : pc[r] \in {"idle", "found"} => StockReply("confirm", r) = "idle"

ConfirmedForGood ==
    /\ \A r \in Completes : StockReply("confirm", r) = "ok" => resv[r.order] # "PENDING"
    /\ \A r \in Completes : Won(r) => StockReply("confirm", r) = "ok"

LoserFindsNothing ==
    \A r, q \in Completes :
        Won(r) /\ r # q /\ r.order = q.order /\ pc[q] = "confirming"
        => StockReply("confirm", q) \in {"begun", "err"}

WonOnce == \A r, q \in Completes : Won(r) /\ Won(q) /\ r.order = q.order => r = q

Once ==
    /\ TypeOK
    /\ HoldersLock
    /\ KnownIsReserved
    /\ ConfirmCalledLocked
    /\ ConfirmedForGood
    /\ LoserFindsNothing
    /\ WonOnce

LEMMA CallFrame ==
    ASSUME S!TypeOK, NEW op, NEW r \in Requests, Call(op, r) \in StockCalls, CallStock(op, r)
    PROVE  /\ StockReply(op, r) = "idle" /\ StockReply(op, r)' = "begun"
           /\ \A a, q : /\ q \in Requests /\ Call(a, q) \in StockCalls
                        /\ a # op \/ q # r
                        => StockReply(a, q)' = StockReply(a, q)
           /\ resv' = resv
  BY CallsDiffer DEF CallStock, StockReply, S!Begin, S!Goto, S!TypeOK

(* A step of the stock service leaves finished and unbegun calls alone.    *)
LEMMA StockFrame ==
    ASSUME S!TypeOK, NEW c \in StockCalls, S!CallStep(c) \/ S!Abort(c)
    PROVE  /\ \A d \in StockCalls \ {c} : stockAt'[d] = stockAt[d]
           /\ stockAt[c] \notin {"idle", "ok", "err"}
           /\ stockAt'[c] # "idle"
  BY DEF S!TypeOK, S!Running, S!Goto, S!CallStep, S!Abort, S!CreateCheckProducts,
     S!CreateCheckStock, S!CreateInsert, S!ConfirmFind, S!ConfirmWrite, S!RestoreFind,
     S!RestoreWrite

(* Reservations become PENDING only by a running reservation call, and a   *)
(* confirm call gets beyond its find only by seeing them PENDING.          *)
LEMMA StockEffect ==
    ASSUME S!TypeOK, NEW c \in StockCalls, S!CallStep(c) \/ S!Abort(c)
    PROVE  /\ \A o \in Orders : resv'[o] = "PENDING" =>
                  resv[o] = "PENDING" \/ (c.op = "create" /\ c.order = o)
           /\ c.op = "confirm" => stockAt'[c] \in {"found", "ok", "err"}
           /\ c.op = "confirm" /\ stockAt'[c] = "found" => resv[c.order] = "PENDING"
           /\ c.op = "confirm" /\ stockAt'[c] = "ok" => 
                  stockAt[c] = "found" /\ resv'[c.order] = "CONFIRMED"
  BY CallsTyped DEF S!TypeOK, S!Running, S!Goto, S!SetResv, S!CallStep, S!Abort,
     S!CreateCheckProducts, S!CreateCheckStock, S!CreateInsert, S!ConfirmFind, S!ConfirmWrite,
     S!RestoreFind, S!RestoreWrite

LEMMA StockKeepsOnce ==
    ASSUME Once, TypeOK', NEW c \in StockCalls, S!CallStep(c) \/ S!Abort(c),
           UNCHANGED <<ord, lock, pc>>
    PROVE  Once'
  <1> USE DEF Once, StockReply
  <1>1. /\ \A r \in Initiates : Call("create", r) \in StockCalls
        /\ \A r \in Completes : Call("confirm", r) \in StockCalls
        /\ \A r \in Requests : r.order \in Orders
        /\ Initiates \subseteq Requests /\ Completes \subseteq Requests
    BY CallsExist, RequestsAssumption, Kinds
  <1>2. KnownIsReserved'
    BY <1>1, StockFrame DEF KnownIsReserved, TypeOK
  <1>3. ConfirmCalledLocked'
    BY <1>1, StockFrame DEF ConfirmCalledLocked, TypeOK
  <1>4. ASSUME NEW r \in Completes, StockReply("confirm", r)' = "ok"
        PROVE  resv'[r.order] # "PENDING"
    <2>1. CASE StockReply("confirm", r) # "ok"
      <3>1. c = Call("confirm", r)
        BY <1>1, <1>4, <2>1, StockFrame DEF TypeOK
      <3>2. QED
        BY <1>4, <3>1, StockEffect DEF TypeOK, Call
    <2>2. CASE StockReply("confirm", r) = "ok"
      <3>1. resv[r.order] # "PENDING"
        BY <2>2 DEF ConfirmedForGood
      <3>2. ord[r.order] # "NONE"
        BY <1>4, <2>2 DEF ConfirmCalledLocked, KnownIsReserved
      <3>3. ASSUME c.op = "create", c.order = r.order
            PROVE  FALSE
        <4>1. PICK q \in Initiates : c = Call("create", q)
          BY <3>3 DEF StockCalls, Call
        <4>2. StockReply("create", q) = "ok"
          BY <3>2, <3>3, <4>1 DEF KnownIsReserved, Call
        <4>3. QED
          BY <4>1, <4>2, StockFrame DEF TypeOK
      <3>4. QED
        BY <1>1, <3>1, <3>3, StockEffect DEF TypeOK
    <2>3. QED
      BY <2>1, <2>2
  <1>5. ASSUME NEW r \in Completes, Won(r)'
        PROVE  StockReply("confirm", r)' = "ok"
    BY <1>1, <1>5, StockFrame DEF ConfirmedForGood, Won, TypeOK
  <1>6. ASSUME NEW r \in Completes, NEW q \in Completes, Won(r), r # q, r.order = q.order,
               pc[q] = "confirming"
        PROVE  StockReply("confirm", q)' \in {"begun", "err"}
    <2>1. resv[q.order] # "PENDING"
      BY <1>6 DEF ConfirmedForGood
    <2>2. StockReply("confirm", q) \in {"begun", "err"}
      BY <1>6 DEF LoserFindsNothing
    <2>3. QED
      BY <1>1, <2>1, <2>2, StockFrame, StockEffect DEF TypeOK, Call
  <1>7. HoldersLock' /\ WonOnce'
    BY DEF HoldersLock, WonOnce, Holds, Won
  <1>8. QED
    BY <1>2, <1>3, <1>4, <1>5, <1>6, <1>7 DEF ConfirmedForGood, LoserFindsNothing, Won

LEMMA OnceStep ==
    ASSUME Once, Next, TypeOK'
    PROVE  Once'
  <1> USE RequestsAssumption, Kinds
  <1> USE DEF Once, HoldersLock, KnownIsReserved, ConfirmCalledLocked, ConfirmedForGood,
          LoserFindsNothing, WonOnce, TypeOK, Goto, Won, Holds
  <1>1. /\ \A r \in Initiates : Call("create", r) \in StockCalls
        /\ \A r \in Completes : Call("confirm", r) \in StockCalls
        /\ \A r \in Completes \cup Cancels : Call("restore", r) \in StockCalls
    BY CallsExist
  <1>2. ASSUME UNCHANGED stockVars
        PROVE  /\ \A op, r : StockReply(op, r)' = StockReply(op, r)
               /\ resv' = resv
    BY <1>2 DEF stockVars, StockReply
  <1>3. ASSUME NEW r \in Requests, Arrive(r)
        PROVE  Once'
    <2>1. CASE Reserve(r)
      BY <1>1, <2>1, CallFrame DEF Reserve
    <2>2. CASE RejectItems(r) \/ FindToComplete(r) \/ FindToCancel(r)
      BY <1>2, <2>2 DEF RejectItems, FindToComplete, FindToCancel
    <2>3. QED
      BY <1>3, <2>1, <2>2 DEF Arrive
  <1>4. ASSUME NEW r \in Requests, RequestStep(r)
        PROVE  Once'
    <2> USE DEF SetOrder, Acquire, Release
    <2>1. CASE CreatePayment(r) \/ InitiateFails(r)
      BY <1>2, <2>1 DEF CreatePayment, InitiateFails
    <2>2. CASE CommitInitiate(r)
      <3>1. \A q \in Initiates : q.order = r.order => q = r
        BY <2>2 DEF CommitInitiate, Initiates
      <3>2. KnownIsReserved'
        BY <1>2, <2>2, <3>1 DEF CommitInitiate
      <3>3. QED
        BY <1>2, <2>2, <3>2 DEF CommitInitiate
    <2>3. CASE ConfirmStock(r)
      BY <1>1, <2>3, CallFrame DEF ConfirmStock
    <2>4. CASE ConfirmPayment(r)
      BY <1>2, <2>4 DEF ConfirmPayment
    <2>5. CASE Charged(r) \/ CommitComplete(r) \/ EmitMail(r) \/ CompleteFails(r)
      BY <1>2, <2>5 DEF Charged, CommitComplete, EmitMail, CompleteFails
    <2>6. CASE FailOrder(r)
      BY <1>1, <2>6, CallFrame DEF FailOrder
    <2>7. CASE RefundPayment(r) \/ FailureHandled(r)
      BY <1>2, <2>7 DEF RefundPayment, FailureHandled
    <2>8. CASE RestoreStock(r)
      BY <1>1, <2>8, CallFrame DEF RestoreStock
    <2>9. CASE CancelPayment(r) \/ CommitCancel(r) \/ CancelFails(r)
      BY <1>2, <2>9 DEF CancelPayment, CommitCancel, CancelFails
    <2>10. QED
      BY <1>4, <2>1, <2>2, <2>3, <2>4, <2>5, <2>6, <2>7, <2>8, <2>9 DEF RequestStep
  <1>5. CASE StockService
    BY <1>5, StockKeepsOnce DEF StockService
  <1>6. CASE PaymentService \/ Expire
    <2>1. UNCHANGED <<stockAt, resv, ord, lock, pc>>
      BY <1>6 DEF PaymentService, Expire, S!Expire, stockVars
    <2>2. QED
      BY <2>1 DEF StockReply
  <1>7. CASE Faults
    <2>1. ASSUME NEW r \in Requests, LoseReply(r) \/ QueryFails(r)
          PROVE  Once'
      BY <1>2, <2>1 DEF LoseReply, QueryFails, Handler, Unlock, AtStock, AtPayment
    <2>2. CASE StockAborts
      BY <2>2, StockKeepsOnce DEF StockAborts
    <2>3. CASE PaymentAborts
      BY <1>2, <2>3 DEF PaymentAborts
    <2>4. ASSUME NEW R \in SUBSET Requests, Crash(R)
          PROVE  Once'
      BY <1>2, <2>4 DEF Crash, Unlock, InFlight, AtStock, AtPayment
    <2>5. QED
      BY <1>7, <2>1, <2>2, <2>3, <2>4 DEF Faults
  <1>8. QED
    BY <1>3, <1>4, <1>5, <1>6, <1>7 DEF Next

LEMMA InitOnce == Init => Once
  <1> SUFFICES ASSUME Init
               PROVE  Once
    OBVIOUS
  <1>1. /\ \A r \in Requests : pc[r] = "idle" /\ ord[r.order] = "NONE"
        /\ \A r \in Completes : StockReply("confirm", r) = "idle"
        /\ Initiates \subseteq Requests /\ Completes \subseteq Requests
        /\ Cancels \subseteq Requests
    BY CallsExist, Kinds, RequestsAssumption DEF Init, S!Init, StockReply
  <1>2. QED
    BY <1>1, InitTyped DEF Once, HoldersLock, Holds, KnownIsReserved, ConfirmCalledLocked,
       ConfirmedForGood, LoserFindsNothing, WonOnce, Won

LEMMA OnceStutter == ASSUME Once, TypeOK', UNCHANGED vars PROVE Once'
  BY DEF vars, stockVars, payVars, Once, HoldersLock, Holds, KnownIsReserved,
     ConfirmCalledLocked, ConfirmedForGood, LoserFindsNothing, WonOnce, Won, StockReply

(* One complete at most gets past its commit for an order, so a customer   *)
(* is told at most once that it succeeded, for any number of completes, in *)
(* any order, with any failures (completeOrder, 181-274).                  *)
THEOREM CompletesOnce == Spec => []CompletedOnce
  <1>1. Init => Once
    BY InitOnce
  <1>2. ASSUME Once, TypeOK', [Next]_vars
        PROVE  Once'
    BY <1>2, OnceStep, OnceStutter
  <1>3. Once => CompletedOnce
    BY DEF Once, WonOnce, Won, CompletedOnce
  <1>4. QED
    BY <1>1, <1>2, <1>3, Typing, PTL DEF Spec

-----------------------------------------------------------------------------
(* A canceled order stays canceled.  A complete may have found the order   *)
(* pending long ago and writes its row without looking again; what stops   *)
(* it is that its confirm call finds no PENDING reservation any more.      *)

Over(o) == ord[o] \in {"PAYMENT_SUCCESS", "PAYMENT_CANCELED"}

CommittedFirst == \A r \in Initiates : pc[r] # "done" => ord[r.order] = "NONE"

OverIsConfirmed == \A o \in Orders : Over(o) => resv[o] # "PENDING"

ConfirmsBeforeOver ==
    \A r \in Completes :
        \/ pc[r] = "confirming" /\ StockReply("confirm", r) \in {"found", "ok"}
        \/ pc[r] \in {"charging", "charged"}
        => ~ Over(r.order)

CancelsAfterOver ==
    \A r \in Cancels : pc[r] \in {"found", "restoring", "canceling"} => Over(r.order)

Sealed == Once /\ CommittedFirst /\ OverIsConfirmed /\ ConfirmsBeforeOver /\ CancelsAfterOver

LEMMA StockKeepsSealed ==
    ASSUME Sealed, TypeOK', NEW c \in StockCalls, S!CallStep(c) \/ S!Abort(c),
           UNCHANGED <<ord, lock, pc>>
    PROVE  Sealed'
  <1>1. Once'
    BY StockKeepsOnce DEF Sealed
  <1>2. CommittedFirst' /\ CancelsAfterOver'
    BY DEF Sealed, CommittedFirst, CancelsAfterOver, Over
  <1>3. ASSUME NEW o \in Orders, Over(o), c.op = "create", c.order = o
        PROVE  FALSE
    <2>1. PICK q \in Initiates : c = Call("create", q)
      BY <1>3 DEF StockCalls, Call
    <2>2. StockReply("create", q) = "ok"
      BY <1>3, <2>1 DEF Sealed, Once, KnownIsReserved, Over, Call
    <2>3. QED
      BY <2>1, <2>2, StockFrame DEF Sealed, Once, TypeOK, StockReply
  <1>4. OverIsConfirmed'
    BY <1>3, StockEffect DEF Sealed, Once, TypeOK, OverIsConfirmed, Over
  <1>5. ConfirmsBeforeOver'
    <2>1. \A r \in Completes : Call("confirm", r) \in StockCalls /\ r.order \in Orders
      BY CallsExist, RequestsAssumption, Kinds
    <2>2. QED
      BY <2>1, StockFrame, StockEffect
         DEF Sealed, Once, TypeOK, ConfirmsBeforeOver, OverIsConfirmed, Over, StockReply, Call
  <1>6. QED
    BY <1>1, <1>2, <1>4, <1>5 DEF Sealed

LEMMA SealedStep ==
    ASSUME Sealed, Next, TypeOK'
    PROVE  Sealed'
  <1>1. Once'
    BY OnceStep DEF Sealed
  <1> USE RequestsAssumption, Kinds
  <1> USE DEF Sealed, Once, CommittedFirst, OverIsConfirmed, ConfirmsBeforeOver,
          CancelsAfterOver, Over, TypeOK, Goto, SetOrder
  <1>2. /\ \A r \in Initiates : Call("create", r) \in StockCalls
        /\ \A r \in Completes : Call("confirm", r) \in StockCalls
        /\ \A r \in Completes \cup Cancels : Call("restore", r) \in StockCalls
    BY CallsExist
  <1>3. ASSUME UNCHANGED stockVars
        PROVE  /\ \A op, r : StockReply(op, r)' = StockReply(op, r)
               /\ resv' = resv
    BY <1>3 DEF stockVars, StockReply
  <1>4. ASSUME NEW r \in Requests, Reserve(r) \/ ConfirmStock(r) \/ FailOrder(r) \/ RestoreStock(r)
        PROVE  Sealed'
    BY <1>1, <1>2, <1>4, CallFrame DEF Reserve, ConfirmStock, FailOrder, RestoreStock
  <1>5. ASSUME NEW r \in Requests, RejectItems(r) \/ FindToComplete(r) \/ FindToCancel(r)
                 \/ CreatePayment(r) \/ InitiateFails(r) \/ ConfirmPayment(r) \/ Charged(r)
                 \/ EmitMail(r) \/ CompleteFails(r) \/ RefundPayment(r) \/ FailureHandled(r)
                 \/ CancelPayment(r) \/ CancelFails(r)
        PROVE  Sealed'
    BY <1>1, <1>3, <1>5 DEF RejectItems, FindToComplete, FindToCancel, CreatePayment,
       InitiateFails, ConfirmPayment, Charged, EmitMail, CompleteFails, RefundPayment,
       FailureHandled, CancelPayment, CancelFails, ConfirmedForGood, Won
  <1>6. ASSUME NEW r \in Requests, CommitInitiate(r)
        PROVE  Sealed'
    BY <1>1, <1>3, <1>6 DEF CommitInitiate, Initiates
  <1>7. ASSUME NEW r \in Requests, CommitComplete(r)
        PROVE  Sealed'
    <2>1. resv[r.order] # "PENDING" /\ ord[r.order] # "NONE"
      BY <1>7 DEF CommitComplete, ConfirmedForGood, Won, KnownIsReserved
    <2>2. \A q \in Completes : q # r /\ q.order = r.order =>
              ~ (pc[q] \in {"confirming", "charging", "charged"})
      BY <1>7 DEF CommitComplete, HoldersLock, Holds
    <2>3. QED
      BY <1>1, <1>3, <1>7, <2>1, <2>2 DEF CommitComplete
  <1>8. ASSUME NEW r \in Requests, CommitCancel(r)
        PROVE  Sealed'
    BY <1>1, <1>3, <1>8 DEF CommitCancel, HoldersLock, Holds
  <1>9. CASE StockService
    BY <1>9, StockKeepsSealed DEF StockService
  <1>10. CASE PaymentService \/ Expire
    <2>1. UNCHANGED <<stockAt, resv, ord, lock, pc>>
      BY <1>10 DEF PaymentService, Expire, S!Expire, stockVars
    <2>2. QED
      BY <1>1, <2>1 DEF StockReply
  <1>11. CASE Faults
    <2>1. ASSUME NEW r \in Requests, LoseReply(r) \/ QueryFails(r)
          PROVE  Sealed'
      BY <1>1, <1>3, <2>1 DEF LoseReply, QueryFails, Handler, AtStock, AtPayment
    <2>2. CASE StockAborts
      BY <2>2, StockKeepsSealed DEF StockAborts
    <2>3. CASE PaymentAborts
      BY <1>1, <1>3, <2>3 DEF PaymentAborts
    <2>4. ASSUME NEW R \in SUBSET Requests, Crash(R)
          PROVE  Sealed'
      BY <1>1, <1>3, <2>4 DEF Crash, InFlight, AtStock, AtPayment
    <2>5. QED
      BY <1>11, <2>1, <2>2, <2>3, <2>4 DEF Faults
  <1>12. QED
    BY <1>4, <1>5, <1>6, <1>7, <1>8, <1>9, <1>10, <1>11 DEF Next, Arrive, RequestStep

(* A canceled order stays canceled, for any requests and failures          *)
(* (completeOrder 204, 243-252, cancelOrder 302-312).                      *)
THEOREM CanceledStays == Spec => CanceledIsFinal
  <1> DEFINE Stays == \A o \in Orders : ord[o] = "PAYMENT_CANCELED" => ord'[o] = "PAYMENT_CANCELED"
  <1>1. Init => Sealed
    <2> SUFFICES ASSUME Init
                 PROVE  Sealed
      OBVIOUS
    <2>1. Once
      BY InitOnce
    <2>2. /\ \A r \in Requests : pc[r] = "idle" /\ r.order \in Orders
          /\ \A o \in Orders : ord[o] = "NONE"
      BY RequestsAssumption DEF Init
    <2>3. QED
      BY <2>1, <2>2, Kinds DEF Sealed, CommittedFirst, OverIsConfirmed, ConfirmsBeforeOver,
         CancelsAfterOver, Over
  <1>2. ASSUME Sealed, TypeOK', [Next]_vars
        PROVE  Sealed'
    <2>1. CASE Next
      BY <1>2, <2>1, SealedStep
    <2>2. CASE UNCHANGED vars
      <3>1. Once'
        BY <1>2, <2>2, OnceStutter DEF Sealed
      <3>2. QED
        BY <1>2, <2>2, <3>1 DEF vars, stockVars, Sealed, CommittedFirst, OverIsConfirmed,
           ConfirmsBeforeOver, CancelsAfterOver, Over, StockReply
    <2>3. QED
      BY <1>2, <2>1, <2>2
  <1>3. ASSUME Sealed, [Next]_vars
        PROVE  [Stays]_ord
    <2> USE DEF Sealed, Once, TypeOK, SetOrder
    <2>1. ASSUME NEW r \in Requests, CommitInitiate(r)
          PROVE  Stays
      BY <1>3, <2>1 DEF CommitInitiate, CommittedFirst
    <2>2. ASSUME NEW r \in Requests, CommitComplete(r)
          PROVE  Stays
      BY <1>3, <2>2 DEF CommitComplete, ConfirmsBeforeOver, Over
    <2>3. ASSUME NEW r \in Requests, FailOrder(r) \/ CommitCancel(r)
          PROVE  Stays
      BY <1>3, <2>3, RequestsAssumption DEF FailOrder, CommitCancel
    <2>4. ASSUME NEW r \in Requests, Arrive(r)
          PROVE  UNCHANGED ord
      BY <2>4 DEF Arrive, Reserve, RejectItems, FindToComplete, FindToCancel
    <2>5. ASSUME NEW r \in Requests, RequestStep(r),
                 ~ (CommitInitiate(r) \/ CommitComplete(r) \/ FailOrder(r) \/ CommitCancel(r))
          PROVE  UNCHANGED ord
      BY <2>5 DEF RequestStep, CreatePayment, InitiateFails, ConfirmStock, ConfirmPayment,
         Charged, EmitMail, CompleteFails, RefundPayment, FailureHandled, RestoreStock,
         CancelPayment, CancelFails
    <2>6. CASE StockService \/ PaymentService \/ Expire \/ Faults
      BY <2>6 DEF StockService, PaymentService, Expire, Faults, LoseReply, QueryFails,
         StockAborts, PaymentAborts, Crash
    <2>7. CASE UNCHANGED vars
      BY <2>7 DEF vars
    <2>8. QED
      BY <1>3, <2>1, <2>2, <2>3, <2>4, <2>5, <2>6, <2>7 DEF Next
  <1>4. QED
    BY <1>1, <1>2, <1>3, Typing, PTL DEF Spec, CanceledIsFinal

-----------------------------------------------------------------------------
(* When nothing fails, the order database and the payment database agree   *)
(* on every order whose row is not locked.  They commit at different times *)
(* and so disagree while the row is locked; whoever holds the lock then    *)
(* has its answer from the payment service and can only commit.            *)
Agrees(o) == ord[o] = "PAYMENT_SUCCESS" <=> pay[o] = "SUCCESS"

(* Only a request that is between its UPDATE and its commit locks a row.   *)
OnlyHoldersLock ==
    \A o \in Orders :
        lock[o] # NoRequest => lock[o] \in Requests /\ lock[o].order = o /\ Holds(lock[o])

(* The payment service works only for requests that wait for it.           *)
CallsAwaited ==
    /\ \A r \in Initiates : PaymentReply("create", r) \in P!Running => pc[r] = "paying"
    /\ \A r \in Completes : PaymentReply("confirm", r) \in P!Running => pc[r] = "charging"
    /\ \A r \in Completes : PaymentReply("cancel", r) = "idle" /\ pc[r] # "refunding"
    /\ \A r \in Cancels : PaymentReply("cancel", r) \in P!Running => pc[r] = "canceling"

PaidCommits == \A r \in Completes : r \in paid => pc[r] \in {"charged", "committed", "done"}

(* Nobody completes or cancels an order before it is committed.            *)
KnownAfterCommit ==
    /\ \A r \in Initiates : pc[r] # "done" => ord[r.order] = "NONE"
    /\ \A r \in Completes \cup Cancels : pc[r] # "idle" => ord[r.order] # "NONE"

HasCharged(r) ==
    \/ r \in Completes /\ pc[r] = "charging" /\ PaymentReply("confirm", r) = "ok"
    \/ r \in Completes /\ pc[r] = "charged"

HasCanceled(r) == r \in Cancels /\ pc[r] = "canceling" /\ PaymentReply("cancel", r) = "ok"

Settled ==
    /\ \A r \in Requests : HasCharged(r) => pay[r.order] = "SUCCESS"
    /\ \A r \in Requests : HasCanceled(r) => pay[r.order] # "SUCCESS"

AgreeOrSettled ==
    \A o \in Orders :
        Agrees(o) \/ (lock[o] # NoRequest /\ (HasCharged(lock[o]) \/ HasCanceled(lock[o])))

Agreement ==
    /\ TypeOK
    /\ HoldersLock
    /\ OnlyHoldersLock
    /\ CallsAwaited
    /\ PaidCommits
    /\ KnownAfterCommit
    /\ Settled
    /\ AgreeOrSettled

-----------------------------------------------------------------------------
LEMMA PaymentCallFrame ==
    ASSUME P!TypeOK, NEW op, NEW r \in Requests, Call(op, r) \in PaymentCalls, CallPayment(op, r)
    PROVE  /\ PaymentReply(op, r) = "idle" /\ PaymentReply(op, r)' = "begun"
           /\ \A a, q : /\ q \in Requests /\ Call(a, q) \in PaymentCalls
                        /\ a # op \/ q # r
                        => PaymentReply(a, q)' = PaymentReply(a, q)
           /\ pay' = pay
  BY CallsDiffer DEF CallPayment, PaymentReply, P!Begin, P!Goto, P!TypeOK

(* A step of the payment service leaves other calls and payments alone,    *)
(* and changes the payment of its order only when it answers ok.           *)
LEMMA PaymentFrame ==
    ASSUME P!TypeOK, NEW c \in PaymentCalls, P!CallStep(c)
    PROVE  /\ \A d \in PaymentCalls \ {c} : payAt'[d] = payAt[d]
           /\ payAt[c] \in P!Running /\ payAt'[c] \in {"found", "ok", "err"}
           /\ \A o \in Orders : o # c.order => pay'[o] = pay[o]
           /\ payAt'[c] # "ok" => pay' = pay
           /\ payAt'[c] = "ok" => (pay'[c.order] = "SUCCESS" <=> c.op = "confirm")
  BY CallsTyped DEF P!TypeOK, P!Running, P!Goto, P!CallStep, P!Create, P!Find, P!Save, P!To

LEMMA PaymentKeepsAgreement ==
    ASSUME Agreement, TypeOK', NEW c \in PaymentCalls, P!CallStep(c),
           UNCHANGED <<ord, lock, pc, paid>>
    PROVE  Agreement'
  <1> USE RequestsAssumption, Kinds
  <1> USE DEF Agreement, TypeOK
  <1>1. /\ \A r \in Initiates : Call("create", r) \in PaymentCalls
        /\ \A r \in Completes : Call("confirm", r) \in PaymentCalls
        /\ \A r \in Completes \cup Cancels : Call("cancel", r) \in PaymentCalls
        /\ \A r \in Requests : r.order \in Orders
        /\ Initiates \subseteq Requests /\ Completes \subseteq Requests
        /\ Cancels \subseteq Requests
    BY CallsExist
  <1>2. HoldersLock' /\ OnlyHoldersLock' /\ PaidCommits' /\ KnownAfterCommit'
    BY DEF HoldersLock, OnlyHoldersLock, Holds, PaidCommits, KnownAfterCommit
  <1>3. CallsAwaited'
    BY <1>1, PaymentFrame DEF CallsAwaited, PaymentReply, P!Running
  <1>4. PICK r \in Requests :
           \/ r \in Initiates /\ c = Call("create", r)
           \/ r \in Completes /\ c = Call("confirm", r)
           \/ r \in Completes \cup Cancels /\ c = Call("cancel", r)
    BY <1>1 DEF PaymentCalls
  <1>5. c.order = r.order
    BY <1>4 DEF Call
  <1>6. \A op, q : /\ q \in Requests /\ q # r /\ Call(op, q) \in PaymentCalls
                   => PaymentReply(op, q)' = PaymentReply(op, q)
    BY <1>4, CallsDiffer, PaymentFrame DEF PaymentReply
  <1>7. \A q \in Requests : q # r /\ (HasCharged(q) \/ HasCanceled(q))' =>
              (HasCharged(q)' <=> HasCharged(q)) /\ (HasCanceled(q)' <=> HasCanceled(q))
    BY <1>1, <1>6 DEF HasCharged, HasCanceled
  <1>8. CASE r \in Initiates /\ c = Call("create", r)
    <2>1. pc[r] = "paying"
      BY <1>8, PaymentFrame DEF CallsAwaited, PaymentReply
    <2>2. ord[r.order] = "NONE" /\ c.op = "create"
      BY <1>8, <2>1 DEF KnownAfterCommit, Call
    <2>3. \A q \in Completes \cup Cancels : q.order = r.order => pc[q] = "idle"
      BY <2>2 DEF KnownAfterCommit
    <2>4. lock[r.order] = NoRequest
      BY <1>1, <2>3 DEF OnlyHoldersLock, Holds
    <2>5. Settled' /\ AgreeOrSettled'
      <3>1. pay'[r.order] = "SUCCESS" => pay[r.order] = "SUCCESS"
        BY <1>1, <1>5, <2>2, PaymentFrame
      <3>2. \A q \in Requests : (HasCharged(q) \/ HasCanceled(q))' => q # r
        BY <1>8, <2>1 DEF HasCharged, HasCanceled
      <3>3. \A q \in Requests : q.order = r.order => ~ HasCharged(q) /\ ~ HasCanceled(q)
        BY <2>3, <1>8 DEF HasCharged, HasCanceled
      <3>4. Settled'
        BY <1>1, <1>5, <1>7, <3>2, <3>3, PaymentFrame DEF Settled
      <3>5. \A q \in Requests : q # r =>
                 (HasCharged(q)' <=> HasCharged(q)) /\ (HasCanceled(q)' <=> HasCanceled(q))
        BY <1>1, <1>6 DEF HasCharged, HasCanceled
      <3>6. AgreeOrSettled'
        BY <1>1, <1>5, <2>2, <2>4, <3>1, <3>3, <3>5, PaymentFrame
           DEF AgreeOrSettled, Agrees, OnlyHoldersLock
      <3>7. QED
        BY <3>4, <3>6
    <2>6. QED
      BY <1>2, <1>3, <2>5
  <1>9. CASE r \in Completes /\ c = Call("confirm", r)
    <2>1. pc[r] = "charging" /\ c.op = "confirm"
      BY <1>9, PaymentFrame DEF CallsAwaited, PaymentReply, Call
    <2>2. lock[r.order] = r
      BY <1>9, <2>1 DEF HoldersLock, Holds
    <2>3. ~ HasCharged(r) /\ ~ HasCanceled(r)
      BY <1>9, <2>1, PaymentFrame DEF HasCharged, HasCanceled, PaymentReply, P!Running
    <2>4. Agrees(r.order)
      BY <1>1, <2>2, <2>3 DEF AgreeOrSettled
    <2>5. \A q \in Requests : q # r =>
               (HasCharged(q)' <=> HasCharged(q)) /\ (HasCanceled(q)' <=> HasCanceled(q))
      BY <1>1, <1>6 DEF HasCharged, HasCanceled
    <2>6. \A q \in Requests : q # r /\ q.order = r.order => ~ HasCharged(q) /\ ~ HasCanceled(q)
      BY <2>2 DEF HasCharged, HasCanceled, HoldersLock, Holds
    <2>7. ~ HasCanceled(r)' /\ (HasCharged(r)' <=> payAt'[c] = "ok")
      BY <1>9, <2>1 DEF HasCharged, HasCanceled, PaymentReply
    <2>8. Settled'
      BY <1>1, <1>5, <2>1, <2>5, <2>6, <2>7, PaymentFrame DEF Settled
    <2>9. AgreeOrSettled'
      BY <1>1, <1>5, <2>1, <2>2, <2>4, <2>5, <2>7, PaymentFrame
         DEF AgreeOrSettled, Agrees, OnlyHoldersLock
    <2>10. QED
      BY <1>2, <1>3, <2>8, <2>9
  <1>10. CASE r \in Completes \cup Cancels /\ c = Call("cancel", r)
    <2>1. r \in Cancels /\ pc[r] = "canceling" /\ c.op = "cancel"
      BY <1>10, PaymentFrame DEF CallsAwaited, PaymentReply, Call, P!Running
    <2>2. lock[r.order] = r
      BY <2>1 DEF HoldersLock, Holds
    <2>3. ~ HasCharged(r) /\ ~ HasCanceled(r)
      BY <1>10, <2>1, PaymentFrame DEF HasCharged, HasCanceled, PaymentReply, P!Running
    <2>4. Agrees(r.order)
      BY <1>1, <2>2, <2>3 DEF AgreeOrSettled
    <2>5. \A q \in Requests : q # r =>
               (HasCharged(q)' <=> HasCharged(q)) /\ (HasCanceled(q)' <=> HasCanceled(q))
      BY <1>1, <1>6 DEF HasCharged, HasCanceled
    <2>6. \A q \in Requests : q # r /\ q.order = r.order => ~ HasCharged(q) /\ ~ HasCanceled(q)
      BY <2>2 DEF HasCharged, HasCanceled, HoldersLock, Holds
    <2>7. ~ HasCharged(r)' /\ (HasCanceled(r)' <=> payAt'[c] = "ok")
      BY <1>10, <2>1 DEF HasCharged, HasCanceled, PaymentReply
    <2>8. Settled'
      BY <1>1, <1>5, <2>1, <2>5, <2>6, <2>7, PaymentFrame DEF Settled
    <2>9. AgreeOrSettled'
      BY <1>1, <1>5, <2>1, <2>2, <2>4, <2>5, <2>7, PaymentFrame
         DEF AgreeOrSettled, Agrees, OnlyHoldersLock
    <2>10. QED
      BY <1>2, <1>3, <2>8, <2>9
  <1>11. QED
    BY <1>4, <1>8, <1>9, <1>10

LEMMA AgreementStep ==
    ASSUME MaxFaults = 0, Agreement, Next, TypeOK'
    PROVE  Agreement'
  <1> USE RequestsAssumption, Kinds
  <1> USE DEF Agreement, HoldersLock, OnlyHoldersLock, CallsAwaited, PaidCommits,
          KnownAfterCommit, Settled, AgreeOrSettled, Agrees, HasCharged, HasCanceled, Holds,
          TypeOK, Goto
  <1>1. /\ \A r \in Initiates : Call("create", r) \in PaymentCalls
        /\ \A r \in Completes : Call("confirm", r) \in PaymentCalls
        /\ \A r \in Completes \cup Cancels : Call("cancel", r) \in PaymentCalls
    BY CallsExist
  <1>2. ASSUME UNCHANGED payVars
        PROVE  /\ \A op, r : PaymentReply(op, r)' = PaymentReply(op, r)
               /\ pay' = pay
    BY <1>2 DEF payVars, PaymentReply
  <1>3. ASSUME NEW r \in Requests, Arrive(r)
        PROVE  Agreement'
    BY <1>2, <1>3 DEF Arrive, Reserve, RejectItems, FindToComplete, FindToCancel
  <1>4. ASSUME NEW r \in Requests, RequestStep(r)
        PROVE  Agreement'
    <2> USE DEF SetOrder, Acquire, Release
    <2>1. CASE CreatePayment(r)
      BY <1>1, <2>1, PaymentCallFrame DEF CreatePayment, P!Running
    <2>2. CASE CommitInitiate(r)
      BY <1>2, <2>2 DEF CommitInitiate, Initiates, P!Running
    <2>3. CASE InitiateFails(r)
      BY <1>2, <2>3 DEF InitiateFails, P!Running
    <2>4. CASE ConfirmStock(r) \/ RestoreStock(r)
      BY <1>2, <2>4 DEF ConfirmStock, RestoreStock
    <2>5. CASE ConfirmPayment(r)
      BY <1>1, <2>5, PaymentCallFrame DEF ConfirmPayment, P!Running
    <2>6. CASE Charged(r)
      BY <1>2, <2>6 DEF Charged, P!Running
    <2>7. CASE CommitComplete(r)
      BY <1>2, <2>7 DEF CommitComplete
    <2>8. CASE EmitMail(r)
      BY <1>2, <2>8 DEF EmitMail
    <2>9. CASE CompleteFails(r)
      BY <1>2, <2>9 DEF CompleteFails, P!Running
    <2>10. CASE FailOrder(r)
      BY <1>2, <2>10 DEF FailOrder
    <2>11. CASE RefundPayment(r) \/ FailureHandled(r)
      BY <1>2, <2>11 DEF RefundPayment, FailureHandled
    <2>12. CASE CancelPayment(r)
      BY <1>1, <2>12, PaymentCallFrame DEF CancelPayment, P!Running
    <2>13. CASE CommitCancel(r)
      BY <1>2, <2>13 DEF CommitCancel, P!Running
    <2>14. CASE CancelFails(r)
      BY <1>2, <2>14 DEF CancelFails, P!Running
    <2>15. QED
      BY <1>4, <2>1, <2>2, <2>3, <2>4, <2>5, <2>6, <2>7, <2>8, <2>9, <2>10, <2>11, <2>12,
         <2>13, <2>14 DEF RequestStep
  <1>5. CASE StockService \/ Expire
    BY <1>2, <1>5 DEF StockService, Expire
  <1>6. CASE PaymentService
    BY <1>6, PaymentKeepsAgreement DEF PaymentService
  <1>7. ~ Faults
    BY DEF Faults, Fault, LoseReply, QueryFails, StockAborts, PaymentAborts, Crash
  <1>8. QED
    BY <1>3, <1>4, <1>5, <1>6, <1>7 DEF Next

LEMMA InitAgreement == Init => Agreement
  <1> SUFFICES ASSUME Init
               PROVE  Agreement
    OBVIOUS
  <1>1. /\ \A r \in Requests : pc[r] = "idle" /\ ord[r.order] = "NONE"
        /\ \A c \in PaymentCalls : payAt[c] = "idle"
        /\ \A o \in Orders : lock[o] = NoRequest /\ ord[o] = "NONE" /\ pay[o] = "NONE"
        /\ paid = {}
    BY RequestsAssumption DEF Init, P!Init
  <1>2. QED
    BY <1>1, InitTyped, CallsExist, Kinds DEF Agreement, HoldersLock, OnlyHoldersLock,
       CallsAwaited, PaidCommits, KnownAfterCommit, Settled, AgreeOrSettled, Agrees,
       HasCharged, HasCanceled, Holds, PaymentReply, P!Running

LEMMA AgreementStutter == ASSUME Agreement, TypeOK', UNCHANGED vars PROVE Agreement'
  BY DEF vars, payVars, Agreement, HoldersLock, OnlyHoldersLock, CallsAwaited, PaidCommits,
     KnownAfterCommit, Settled, AgreeOrSettled, Agrees, HasCharged, HasCanceled, Holds,
     PaymentReply

(* An order is successful exactly while its payment is, at any time that   *)
(* nobody is working on it, for any number of completes and cancels in any *)
(* order (completeOrder 204-223, cancelOrder 302-312).                     *)
THEOREM PaymentsAgree == ASSUME MaxFaults = 0 PROVE Spec => []PaymentAgrees
  <1>1. Init => Agreement
    BY InitAgreement
  <1>2. ASSUME Agreement, TypeOK', [Next]_vars
        PROVE  Agreement'
    BY <1>2, AgreementStep, AgreementStutter
  <1>3. Agreement => PaymentAgrees
    BY DEF Agreement, AgreeOrSettled, Agrees, PaymentAgrees, Unlocked
  <1>4. QED
    BY <1>1, <1>2, <1>3, Typing, PTL DEF Spec

-----------------------------------------------------------------------------
(* An order moves only forward, when nothing fails.  A complete commits    *)
(* only what its confirm call saw pending, a cancel only what its payment  *)
(* call saw successful, and each holds the row from before that look until *)
(* its commit; the catch block changes a pending order only, and finds one *)
(* only when the reservation is pending no more.                           *)

PendingTogether ==
    \A o \in Orders : resv[o] = "PENDING" => ord[o] \in {"NONE", "PAYMENT_PENDING"}

RefusedForGood ==
    \A r \in Completes : StockReply("confirm", r) = "err" => resv[r.order] # "PENDING"

FailsWhatIsOver ==
    \A r \in Completes :
        pc[r] = "failing" => ord[r.order] # "PAYMENT_PENDING" \/ resv[r.order] # "PENDING"

CompletesPending ==
    \A r \in Completes :
        \/ pc[r] = "confirming" /\ StockReply("confirm", r) \in {"found", "ok"}
        \/ pc[r] \in {"charging", "charged"}
        => ord[r.order] = "PAYMENT_PENDING"

CancelsPaid ==
    \A r \in Cancels :
        pc[r] = "canceling" /\ PaymentReply("cancel", r) \in {"found", "ok"}
        => ord[r.order] = "PAYMENT_SUCCESS"

Forward ==
    /\ Once
    /\ Agreement
    /\ PendingTogether
    /\ RefusedForGood
    /\ FailsWhatIsOver
    /\ CompletesPending
    /\ CancelsPaid

(* Without failures a confirm call answers an error only when it finds no  *)
(* PENDING rows.                                                           *)
LEMMA ConfirmRefuses ==
    ASSUME S!TypeOK, NEW c \in StockCalls, S!CallStep(c), c.op = "confirm", stockAt'[c] = "err"
    PROVE  resv[c.order] # "PENDING" /\ resv' = resv
  BY DEF S!TypeOK, S!Running, S!Goto, S!CallStep, S!CreateCheckProducts, S!CreateCheckStock,
     S!CreateInsert, S!ConfirmFind, S!ConfirmWrite, S!RestoreFind, S!RestoreWrite

LEMMA StockKeepsForward ==
    ASSUME Forward, TypeOK', NEW c \in StockCalls, S!CallStep(c),
           UNCHANGED <<payVars, ord, lock, paid, pc>>
    PROVE  Forward'
  <1> USE RequestsAssumption, Kinds
  <1>1. /\ \A r \in Completes : Call("confirm", r) \in StockCalls
        /\ \A r \in Requests : r.order \in Orders
        /\ Initiates \subseteq Requests /\ Completes \subseteq Requests
        /\ S!TypeOK
    BY CallsExist DEF Forward, Once, TypeOK
  <1>2. Once'
    BY StockKeepsOnce DEF Forward
  <1>3. Agreement' /\ CancelsPaid'
    BY DEF Forward, Agreement, HoldersLock, OnlyHoldersLock, CallsAwaited, PaidCommits,
       KnownAfterCommit, Settled, AgreeOrSettled, Agrees, HasCharged, HasCanceled, Holds,
       PaymentReply, payVars, CancelsPaid
  <1>4. ASSUME NEW o \in Orders, ord[o] # "NONE", c.op = "create", c.order = o
        PROVE  FALSE
    <2>1. PICK q \in Initiates : c = Call("create", q)
      BY <1>4 DEF StockCalls, Call
    <2>2. StockReply("create", q) = "ok"
      BY <1>4, <2>1 DEF Forward, Once, KnownIsReserved, Call
    <2>3. QED
      BY <1>1, <2>1, <2>2, StockFrame DEF StockReply
  <1>5. \A o \in Orders : ord[o] # "NONE" /\ resv'[o] = "PENDING" => resv[o] = "PENDING"
    BY <1>1, <1>4, StockEffect
  <1>6. \A r \in Completes : StockReply("confirm", r) # "idle" => ord[r.order] # "NONE"
    BY DEF Forward, Once, ConfirmCalledLocked, KnownIsReserved
  <1>7. PendingTogether'
    BY <1>5 DEF Forward, PendingTogether
  <1>8. FailsWhatIsOver'
    BY <1>1, <1>5 DEF Forward, FailsWhatIsOver, Once, KnownIsReserved
  <1>9. RefusedForGood'
    <2> SUFFICES ASSUME NEW r \in Completes, StockReply("confirm", r)' = "err"
                 PROVE  resv'[r.order] # "PENDING"
      BY DEF RefusedForGood
    <2>1. CASE c = Call("confirm", r)
      BY <1>1, <2>1, ConfirmRefuses DEF StockReply, Call
    <2>2. CASE c # Call("confirm", r)
      <3>1. StockReply("confirm", r) = "err"
        BY <1>1, <2>2, StockFrame DEF StockReply
      <3>2. QED
        BY <1>1, <1>5, <1>6, <3>1 DEF Forward, RefusedForGood
    <2>3. QED
      BY <2>1, <2>2
  <1>10. CompletesPending'
    <2> SUFFICES ASSUME NEW r \in Completes, pc[r] = "confirming",
                        StockReply("confirm", r)' \in {"found", "ok"}
                 PROVE  ord[r.order] = "PAYMENT_PENDING"
      BY DEF Forward, CompletesPending
    <2>1. CASE StockReply("confirm", r) \in {"found", "ok"}
      BY <2>1 DEF Forward, CompletesPending
    <2>2. CASE StockReply("confirm", r) \notin {"found", "ok"}
      <3>1. c = Call("confirm", r)
        BY <1>1, <2>2, StockFrame DEF StockReply
      <3>2. resv[r.order] = "PENDING"
        BY <1>1, <2>2, <3>1, StockEffect DEF StockReply, Call
      <3>3. ord[r.order] # "NONE"
        BY DEF Forward, Once, KnownIsReserved
      <3>4. QED
        BY <1>1, <3>2, <3>3 DEF Forward, PendingTogether
    <2>3. QED
      BY <2>1, <2>2
  <1>11. QED
    BY <1>2, <1>3, <1>7, <1>8, <1>9, <1>10 DEF Forward

LEMMA PaymentKeepsForward ==
    ASSUME Forward, TypeOK', NEW c \in PaymentCalls, P!CallStep(c),
           UNCHANGED <<stockVars, ord, lock, paid, pc>>
    PROVE  Forward'
  <1> USE RequestsAssumption, Kinds
  <1>1. /\ \A r \in Cancels : Call("cancel", r) \in PaymentCalls
        /\ \A r \in Requests : r.order \in Orders
        /\ Cancels \subseteq Requests
        /\ P!TypeOK
    BY CallsExist DEF Forward, Once, TypeOK
  <1>2. Agreement'
    BY PaymentKeepsAgreement DEF Forward
  <1>3. Once' /\ PendingTogether' /\ RefusedForGood' /\ FailsWhatIsOver' /\ CompletesPending'
    BY DEF Forward, Once, HoldersLock, Holds, KnownIsReserved, ConfirmCalledLocked,
       ConfirmedForGood, LoserFindsNothing, WonOnce, Won, PendingTogether, RefusedForGood,
       FailsWhatIsOver, CompletesPending, StockReply, stockVars
  <1>4. CancelsPaid'
    <2> SUFFICES ASSUME NEW r \in Cancels, pc[r] = "canceling",
                        PaymentReply("cancel", r)' \in {"found", "ok"}
                 PROVE  ord[r.order] = "PAYMENT_SUCCESS"
      BY DEF CancelsPaid
    <2>1. CASE PaymentReply("cancel", r) \in {"found", "ok"}
      BY <2>1 DEF Forward, CancelsPaid
    <2>2. CASE PaymentReply("cancel", r) \notin {"found", "ok"}
      <3>1. c = Call("cancel", r)
        BY <1>1, <2>2, PaymentFrame DEF PaymentReply
      <3>2. pay[r.order] = "SUCCESS"
        BY <1>1, <2>2, <3>1 DEF PaymentReply, Call, P!CallStep, P!Create, P!Find, P!Save,
           P!Goto, P!TypeOK, P!From
      <3>3. lock[r.order] = r /\ r # NoRequest
        BY <1>1 DEF Forward, Once, HoldersLock, Holds
      <3>4. ~ HasCharged(r) /\ ~ HasCanceled(r)
        BY <2>2 DEF HasCharged, HasCanceled
      <3>5. QED
        BY <1>1, <3>2, <3>3, <3>4 DEF Forward, Agreement, AgreeOrSettled, Agrees
    <2>3. QED
      BY <2>1, <2>2
  <1>5. QED
    BY <1>2, <1>3, <1>4 DEF Forward

LEMMA ForwardStep ==
    ASSUME MaxFaults = 0, Forward, Next, TypeOK'
    PROVE  Forward'
  <1> USE RequestsAssumption, Kinds
  <1>1. Once' /\ Agreement'
    BY OnceStep, AgreementStep DEF Forward
  <1> USE DEF Forward, Once, PendingTogether, RefusedForGood, FailsWhatIsOver, CompletesPending,
          CancelsPaid, TypeOK, Goto, SetOrder
  <1>2. /\ \A r \in Initiates : Call("create", r) \in StockCalls \cap PaymentCalls
        /\ \A r \in Completes : Call("confirm", r) \in StockCalls \cap PaymentCalls
        /\ \A r \in Completes \cup Cancels : Call("restore", r) \in StockCalls
        /\ \A r \in Completes \cup Cancels : Call("cancel", r) \in PaymentCalls
        /\ \A r \in Requests : r.order \in Orders
    BY CallsExist
  <1>3. ASSUME UNCHANGED stockVars
        PROVE  /\ \A op, r : StockReply(op, r)' = StockReply(op, r)
               /\ resv' = resv
    BY <1>3 DEF stockVars, StockReply
  <1>4. ASSUME UNCHANGED payVars
        PROVE  \A op, r : PaymentReply(op, r)' = PaymentReply(op, r)
    BY <1>4 DEF payVars, PaymentReply
  <1>5. ASSUME NEW r \in Requests, Arrive(r)
        PROVE  Forward'
    <2>1. CASE Reserve(r)
      BY <1>1, <1>2, <1>4, <2>1, CallFrame DEF Reserve
    <2>2. CASE RejectItems(r) \/ FindToComplete(r) \/ FindToCancel(r)
      BY <1>1, <1>3, <1>4, <2>2 DEF RejectItems, FindToComplete, FindToCancel
    <2>3. QED
      BY <1>5, <2>1, <2>2 DEF Arrive
  <1>6. ASSUME NEW r \in Requests, RequestStep(r)
        PROVE  Forward'
    <2>1. CASE CreatePayment(r) \/ CancelPayment(r)
      BY <1>1, <1>2, <1>3, <2>1, PaymentCallFrame DEF CreatePayment, CancelPayment
    <2>2. CASE CommitInitiate(r)
      <3>1. ord[r.order] = "NONE" /\ r.order \in Orders
        BY <2>2 DEF CommitInitiate, Agreement, KnownAfterCommit
      <3>2. \A q \in Completes \cup Cancels : q.order = r.order => pc[q] = "idle"
        BY <3>1 DEF KnownIsReserved
      <3>3. QED
        BY <1>1, <1>3, <1>4, <2>2, <3>1, <3>2 DEF CommitInitiate
    <2>3. CASE ConfirmStock(r) \/ RestoreStock(r)
      BY <1>1, <1>2, <1>4, <2>3, CallFrame DEF ConfirmStock, RestoreStock
    <2>4. CASE ConfirmPayment(r)
      BY <1>1, <1>2, <1>3, <2>4, PaymentCallFrame DEF ConfirmPayment
    <2>5. CASE CommitComplete(r) \/ CommitCancel(r)
      <3>1. r.order \in Orders /\ resv[r.order] # "PENDING"
        BY <1>2, <2>5 DEF CommitComplete, CommitCancel, ConfirmedForGood, Won
      <3>2. \A q \in Requests : q # r /\ Holds(q) => q.order # r.order
        BY <2>5 DEF CommitComplete, CommitCancel, HoldersLock, Holds
      <3>3. QED
        BY <1>1, <1>3, <1>4, <2>5, <3>1, <3>2 DEF CommitComplete, CommitCancel, Holds
    <2>6. CASE CompleteFails(r)
      BY <1>1, <1>3, <1>4, <2>6 DEF CompleteFails, ConfirmedForGood, Won
    <2>7. CASE FailOrder(r)
      <3>1. r.order \in Orders /\ (ord[r.order] = "PAYMENT_PENDING" => resv[r.order] # "PENDING")
        BY <1>2, <2>7 DEF FailOrder
      <3>2. \A q \in Requests : Holds(q) => q.order # r.order
        BY <2>7 DEF FailOrder, HoldersLock
      <3>3. QED
        BY <1>1, <1>2, <1>4, <2>7, <3>1, <3>2, CallFrame DEF FailOrder, Holds
    <2>8. CASE RefundPayment(r)
      BY <1>1, <1>2, <1>3, <2>8, PaymentCallFrame DEF RefundPayment
    <2>9. CASE InitiateFails(r) \/ Charged(r) \/ EmitMail(r) \/ FailureHandled(r)
                 \/ CancelFails(r)
      BY <1>1, <1>3, <1>4, <2>9 DEF InitiateFails, Charged, EmitMail, FailureHandled, CancelFails
    <2>10. QED
      BY <1>6, <2>1, <2>2, <2>3, <2>4, <2>5, <2>6, <2>7, <2>8, <2>9 DEF RequestStep
  <1>7. CASE StockService
    BY <1>7, StockKeepsForward DEF StockService
  <1>8. CASE PaymentService
    BY <1>8, PaymentKeepsForward DEF PaymentService
  <1>9. CASE Expire
    <2>1. UNCHANGED <<stockAt, resv, payVars, ord, lock, pc>>
      BY <1>9 DEF Expire, S!Expire
    <2>2. QED
      BY <1>1, <1>4, <2>1 DEF StockReply
  <1>10. ~ Faults
    BY DEF Faults, Fault, LoseReply, QueryFails, StockAborts, PaymentAborts, Crash
  <1>11. QED
    BY <1>5, <1>6, <1>7, <1>8, <1>9, <1>10 DEF Next

LEMMA ForwardOnly ==
    ASSUME MaxFaults = 0, Forward, [Next]_vars, NEW o \in Orders, ord'[o] # ord[o]
    PROVE  <<ord[o], ord'[o]>> \in
              {<<"NONE", "PAYMENT_PENDING">>, <<"PAYMENT_PENDING", "PAYMENT_SUCCESS">>,
               <<"PAYMENT_PENDING", "PAYMENT_FAILED">>, <<"PAYMENT_SUCCESS", "PAYMENT_CANCELED">>}
  <1> USE DEF Forward, Once, TypeOK, SetOrder
  <1>1. ASSUME NEW r \in Requests, CommitInitiate(r)
        PROVE  ord[r.order] = "NONE" /\ ord' = [ord EXCEPT ![r.order] = "PAYMENT_PENDING"]
    BY <1>1 DEF CommitInitiate, Agreement, KnownAfterCommit
  <1>2. ASSUME NEW r \in Requests, CommitComplete(r)
        PROVE  /\ ord[r.order] = "PAYMENT_PENDING"
               /\ ord' = [ord EXCEPT ![r.order] = "PAYMENT_SUCCESS"]
    BY <1>2 DEF CommitComplete, CompletesPending
  <1>3. ASSUME NEW r \in Requests, FailOrder(r)
        PROVE  \/ UNCHANGED ord
               \/ /\ ord[r.order] = "PAYMENT_PENDING"
                  /\ ord' = [ord EXCEPT ![r.order] = "PAYMENT_FAILED"]
    BY <1>3 DEF FailOrder
  <1>4. ASSUME NEW r \in Requests, CommitCancel(r)
        PROVE  /\ ord[r.order] = "PAYMENT_SUCCESS"
               /\ ord' = [ord EXCEPT ![r.order] = "PAYMENT_CANCELED"]
    BY <1>4 DEF CommitCancel, CancelsPaid
  <1>5. ASSUME NEW r \in Requests, Arrive(r) \/ RequestStep(r),
               ~ (CommitInitiate(r) \/ CommitComplete(r) \/ FailOrder(r) \/ CommitCancel(r))
        PROVE  UNCHANGED ord
    BY <1>5 DEF Arrive, Reserve, RejectItems, FindToComplete, FindToCancel, RequestStep,
       CreatePayment, InitiateFails, ConfirmStock, ConfirmPayment, Charged, EmitMail,
       CompleteFails, RefundPayment, FailureHandled, RestoreStock, CancelPayment, CancelFails
  <1>6. CASE StockService \/ PaymentService \/ Expire \/ Faults \/ UNCHANGED vars
    BY <1>6 DEF StockService, PaymentService, Expire, Faults, LoseReply, QueryFails,
       StockAborts, PaymentAborts, Crash, vars
  <1>7. QED
    BY <1>1, <1>2, <1>3, <1>4, <1>5, <1>6 DEF Next

LEMMA InitForward == Init => Forward
  <1> SUFFICES ASSUME Init
               PROVE  Forward
    OBVIOUS
  <1>1. /\ \A r \in Requests : pc[r] = "idle"
        /\ \A c \in StockCalls : stockAt[c] = "idle"
        /\ \A o \in Orders : resv[o] = "NONE"
    BY DEF Init, S!Init
  <1>2. Once /\ Agreement
    BY InitOnce, InitAgreement
  <1>3. QED
    BY <1>1, <1>2, CallsExist, Kinds, RequestsAssumption DEF Forward, PendingTogether,
       RefusedForGood, FailsWhatIsOver, CompletesPending, CancelsPaid, StockReply

LEMMA ForwardStutter == ASSUME Forward, TypeOK', UNCHANGED vars PROVE Forward'
  <1>1. Once' /\ Agreement'
    BY OnceStutter, AgreementStutter DEF Forward
  <1>2. QED
    BY <1>1 DEF vars, stockVars, payVars, Forward, PendingTogether, RefusedForGood,
       FailsWhatIsOver, CompletesPending, CancelsPaid, StockReply, PaymentReply

(* An order moves only forward, for any number of completes and cancels in *)
(* any order: none that found it pending or paid brings it back after it   *)
(* failed or was canceled (completeOrder 191-252, cancelOrder 289-312).    *)
THEOREM OrdersMoveForward == ASSUME MaxFaults = 0 PROVE Spec => StatusForward
  <1> DEFINE Moves ==
        \A o \in Orders : ord'[o] # ord[o] =>
          <<ord[o], ord'[o]>> \in
              {<<"NONE", "PAYMENT_PENDING">>, <<"PAYMENT_PENDING", "PAYMENT_SUCCESS">>,
               <<"PAYMENT_PENDING", "PAYMENT_FAILED">>, <<"PAYMENT_SUCCESS", "PAYMENT_CANCELED">>}
  <1>1. Init => Forward
    BY InitForward
  <1>2. ASSUME Forward, TypeOK', [Next]_vars
        PROVE  Forward'
    BY <1>2, ForwardStep, ForwardStutter
  <1>3. ASSUME Forward, [Next]_vars
        PROVE  [Moves]_ord
    BY <1>3, ForwardOnly
  <1>4. QED
    BY <1>1, <1>2, <1>3, Typing, PTL DEF Spec, StatusForward

-----------------------------------------------------------------------------
(* Of a paid order only the catch block of a late complete takes the       *)
(* stock, when nothing fails.  The row lock keeps the cancel's own restore *)
(* invisible until its commit, and no cancel gives the stock back and then *)
(* fails: whoever finds the reservation confirmed has a payment to refund. *)

HasDeducted(r) ==
    /\ r \in Completes /\ pc[r] \in {"confirming", "charging", "charged"}
    /\ StockReply("confirm", r) = "ok"

HasRestored(r) ==
    /\ r \in Cancels /\ pc[r] \in {"restoring", "canceling"}
    /\ StockReply("restore", r) = "ok"

(* The stock service works only for requests that wait for it, but for the *)
(* restores of completes.                                                  *)
StockAwaited ==
    /\ \A r \in Completes : StockReply("confirm", r) \in S!Running => pc[r] = "confirming"
    /\ \A r \in Cancels : StockReply("restore", r) \in S!Running => pc[r] = "restoring"
    /\ \A r \in Cancels : pc[r] \in {"idle", "found"} => StockReply("restore", r) = "idle"
    /\ \A r \in Cancels : pc[r] = "canceling" => StockReply("restore", r) = "ok"

PendingPayment ==
    /\ \A r \in Initiates :
          pc[r] = "paying" /\ PaymentReply("create", r) = "ok" => pay[r.order] = "PENDING"
    /\ \A o \in Orders :
          ord[o] = "PAYMENT_PENDING" =>
              pay[o] = "PENDING" \/ (lock[o] # NoRequest /\ HasCharged(lock[o]))

PaymentsSucceed ==
    /\ \A r \in Completes : PaymentReply("confirm", r) # "err"
    /\ \A r \in Cancels : PaymentReply("cancel", r) # "err"

RestoresPaid ==
    \A r \in Cancels :
        \/ pc[r] = "restoring" /\ StockReply("restore", r) \in {"found", "ok"}
        \/ pc[r] = "canceling"
        => ord[r.order] = "PAYMENT_SUCCESS"

ConfirmedIsPaid ==
    \A o \in Orders :
        resv[o] = "CONFIRMED" =>
            ord[o] = "PAYMENT_SUCCESS" \/ (lock[o] # NoRequest /\ HasDeducted(lock[o]))

RestoredStays == \A r \in Cancels : HasRestored(r) => resv[r.order] # "CONFIRMED"

DeductedStays ==
    NothingUndone => \A r \in Completes : HasDeducted(r) => resv[r.order] = "CONFIRMED"

PaidKept ==
    NothingUndone =>
        \A o \in Orders :
            ord[o] = "PAYMENT_SUCCESS" =>
                resv[o] = "CONFIRMED" \/ (lock[o] # NoRequest /\ HasRestored(lock[o]))

Kept ==
    /\ Forward
    /\ StockAwaited
    /\ PendingPayment
    /\ PaymentsSucceed
    /\ RestoresPaid
    /\ ConfirmedIsPaid
    /\ RestoredStays
    /\ DeductedStays
    /\ PaidKept

(* What a step of the stock service can do to the order it names.          *)
LEMMA StockMoves ==
    ASSUME S!TypeOK, NEW c \in StockCalls, S!CallStep(c)
    PROVE  /\ \A o \in Orders : o # c.order => resv'[o] = resv[o]
           /\ stockAt[c] \in S!Running
           /\ stockAt'[c] # "ok" => resv' = resv
           /\ stockAt'[c] = "ok" => resv'[c.order] =
                  CASE c.op = "create" -> "PENDING" [] c.op = "confirm" -> "CONFIRMED"
                    [] OTHER -> "RELEASED"
           /\ c.op = "restore" => stockAt'[c] \in {"found", "ok", "err"}
           /\ c.op = "restore" /\ stockAt'[c] = "found" => resv[c.order] = "CONFIRMED"
           /\ c.op # "create" /\ stockAt'[c] = "ok" => stockAt[c] = "found"
  BY CallsTyped DEF S!TypeOK, S!Running, S!Goto, S!SetResv, S!CallStep, S!CreateCheckProducts,
     S!CreateCheckStock, S!CreateInsert, S!ConfirmFind, S!ConfirmWrite, S!RestoreFind,
     S!RestoreWrite

(* What a step of the payment service answers depends on the payment.      *)
LEMMA PaymentMoves ==
    ASSUME P!TypeOK, NEW c \in PaymentCalls, P!CallStep(c)
    PROVE  /\ c.op = "create" => pay'[c.order] = "PENDING"
           /\ c.op = "confirm" /\ payAt'[c] = "err" => pay[c.order] # "PENDING"
           /\ c.op = "cancel" /\ payAt'[c] = "err" => pay[c.order] # "SUCCESS"
           /\ c.op = "cancel" /\ payAt'[c] = "ok" => payAt[c] = "found"
  BY CallsTyped DEF P!TypeOK, P!Running, P!Goto, P!CallStep, P!Create, P!Find, P!Save, P!From

LEMMA StockKeepsKept ==
    ASSUME Kept, TypeOK', NEW c \in StockCalls, S!CallStep(c),
           UNCHANGED <<payVars, ord, lock, paid, pc>>
    PROVE  Kept'
  <1> USE RequestsAssumption, Kinds
  <1>1. /\ \A r \in Initiates : Call("create", r) \in StockCalls
        /\ \A r \in Completes : Call("confirm", r) \in StockCalls
        /\ \A r \in Completes \cup Cancels : Call("restore", r) \in StockCalls
        /\ \A r \in Requests : r.order \in Orders
        /\ Completes \subseteq Requests /\ Cancels \subseteq Requests
        /\ S!TypeOK
    BY CallsExist DEF Kept, Forward, Once, TypeOK
  <1>2. Forward'
    BY StockKeepsForward DEF Kept
  <1>3. PendingPayment' /\ PaymentsSucceed'
    BY DEF Kept, PendingPayment, PaymentsSucceed, HasCharged, PaymentReply, payVars
  <1>4. StockAwaited'
    BY <1>1, StockFrame, StockMoves, StockEffect DEF Kept, StockAwaited, StockReply, S!Running, Call
  <1>5. NothingUndone' => NothingUndone
    BY <1>1, StockFrame DEF NothingUndone, StockReply
  <1>6. PICK r \in Requests :
           \/ r \in Initiates /\ c = Call("create", r)
           \/ r \in Completes /\ c = Call("confirm", r)
           \/ r \in Completes \cup Cancels /\ c = Call("restore", r)
    BY <1>1, Kinds DEF StockCalls
  <1>7. c.order = r.order
    BY <1>6 DEF Call
  <1>8. \A op, q : q \in Requests /\ (q # r \/ c.op # op) /\ Call(op, q) \in StockCalls
                   => StockReply(op, q)' = StockReply(op, q)
    BY <1>1, <1>6, CallsDiffer, StockFrame DEF StockReply, Call
  <1>9. CASE r \in Initiates /\ c = Call("create", r)
    <2>1. c.op = "create"
      BY <1>9 DEF Call
    <2>2. ord[r.order] = "NONE"
      BY <1>1, <1>9, StockFrame DEF Kept, Forward, Once, KnownIsReserved, StockReply
    <2>3. \A q \in Completes \cup Cancels : q.order = r.order => pc[q] = "idle"
      BY <2>2 DEF Kept, Forward, Once, KnownIsReserved
    <2>4. /\ \A q \in Completes : StockReply("confirm", q)' = StockReply("confirm", q)
          /\ \A q \in Completes \cup Cancels : StockReply("restore", q)' = StockReply("restore", q)
      BY <1>1, <1>8, <2>1
    <2>5. \A o \in Orders : o # r.order => resv'[o] = resv[o]
      BY <1>1, <1>7, StockMoves
    <2>6. resv[r.order] = resv'[r.order] \/ resv'[r.order] = "PENDING"
      BY <1>1, <1>7, <2>1, StockMoves
    <2>7. \A q \in Requests :
              (HasDeducted(q)' <=> HasDeducted(q)) /\ (HasRestored(q)' <=> HasRestored(q))
      BY <2>4 DEF HasDeducted, HasRestored
    <2>8. RestoresPaid' /\ ConfirmedIsPaid' /\ RestoredStays' /\ DeductedStays' /\ PaidKept'
      <3>1. RestoresPaid'
        BY <2>4 DEF Kept, RestoresPaid
      <3>2. ConfirmedIsPaid'
        BY <1>1, <2>5, <2>6, <2>7
           DEF Kept, ConfirmedIsPaid, Forward, Agreement, OnlyHoldersLock
      <3>3. RestoredStays'
        BY <1>1, <2>5, <2>6, <2>7 DEF Kept, RestoredStays
      <3>4. DeductedStays'
        BY <1>1, <1>5, <2>3, <2>5, <2>7 DEF Kept, DeductedStays, HasDeducted
      <3>5. PaidKept'
        BY <1>1, <1>5, <2>2, <2>5, <2>7
           DEF Kept, PaidKept, Forward, Agreement, OnlyHoldersLock
      <3>6. QED
        BY <3>1, <3>2, <3>3, <3>4, <3>5
    <2>9. QED
      BY <1>2, <1>3, <1>4, <2>8 DEF Kept
  <1>10. CASE r \in Completes /\ c = Call("confirm", r)
    <2>1. c.op = "confirm"
      BY <1>10 DEF Call
    <2>2. pc[r] = "confirming" /\ lock[r.order] = r
      BY <1>1, <1>10, StockMoves
         DEF Kept, StockAwaited, StockReply, Forward, Once, HoldersLock, Holds
    <2>3. \A q \in Requests : q # r /\ q.order = r.order => ~ Holds(q)
      BY <2>2 DEF Kept, Forward, Once, HoldersLock
    <2>4. \A q \in Requests : q # r =>
              (HasDeducted(q)' <=> HasDeducted(q)) /\ (HasRestored(q)' <=> HasRestored(q))
      BY <1>1, <1>8 DEF HasDeducted, HasRestored
    <2>5. /\ \A o \in Orders : o # r.order => resv'[o] = resv[o]
          /\ HasDeducted(r)' => resv'[r.order] = "CONFIRMED"
          /\ ~ HasDeducted(r)' => resv'[r.order] = resv[r.order]
          /\ ~ HasDeducted(r)
          /\ ~ HasRestored(r) /\ ~ HasRestored(r)'
      BY <1>1, <1>7, <1>10, <2>1, <2>2, StockMoves
         DEF HasDeducted, HasRestored, StockReply, S!Running
    <2>6. \A q \in Cancels : StockReply("restore", q)' = StockReply("restore", q)
      BY <1>1, <1>8, <2>1
    <2>7. RestoresPaid'
      BY <2>6 DEF Kept, RestoresPaid
    <2>8. ConfirmedIsPaid'
      BY <1>1, <2>2, <2>4, <2>5 DEF Kept, ConfirmedIsPaid, Forward, Agreement, OnlyHoldersLock
    <2>9. RestoredStays'
      BY <1>1, <2>3, <2>4, <2>5 DEF Kept, RestoredStays, HasRestored, Holds
    <2>10. DeductedStays'
      BY <1>1, <1>5, <2>3, <2>4, <2>5 DEF Kept, DeductedStays, HasDeducted, Holds
    <2>11. PaidKept'
      BY <1>1, <1>5, <2>2, <2>4, <2>5 DEF Kept, PaidKept, Forward, Agreement, OnlyHoldersLock
    <2>12. QED
      BY <1>2, <1>3, <1>4, <2>7, <2>8, <2>9, <2>10, <2>11 DEF Kept
  <1>11. CASE r \in Completes /\ c = Call("restore", r)
    <2>1. c.op = "restore"
      BY <1>11 DEF Call
    <2>2. /\ \A q \in Completes : StockReply("confirm", q)' = StockReply("confirm", q)
          /\ \A q \in Cancels : StockReply("restore", q)' = StockReply("restore", q)
      BY <1>1, <1>8, <1>11, <2>1
    <2>3. \A q \in Requests :
              (HasDeducted(q)' <=> HasDeducted(q)) /\ (HasRestored(q)' <=> HasRestored(q))
      BY <2>2 DEF HasDeducted, HasRestored
    <2>4. \A o \in Orders : resv'[o] = "CONFIRMED" => resv[o] = "CONFIRMED"
      BY <1>1, <1>7, <2>1, StockMoves
    <2>5. NothingUndone' => resv' = resv
      BY <1>1, <1>11, StockMoves DEF NothingUndone, StockReply
    <2>6. RestoresPaid' /\ RestoredStays'
      BY <1>1, <2>2, <2>3, <2>4 DEF Kept, RestoresPaid, RestoredStays
    <2>7. ConfirmedIsPaid'
      BY <1>1, <2>3, <2>4 DEF Kept, ConfirmedIsPaid, Forward, Agreement, OnlyHoldersLock
    <2>8. DeductedStays'
      BY <1>1, <1>5, <2>3, <2>5 DEF Kept, DeductedStays
    <2>9. PaidKept'
      BY <1>1, <1>5, <2>3, <2>5 DEF Kept, PaidKept, Forward, Agreement, OnlyHoldersLock
    <2>10. QED
      BY <1>2, <1>3, <1>4, <2>6, <2>7, <2>8, <2>9 DEF Kept
  <1>12. CASE r \in Cancels /\ c = Call("restore", r)
    <2>1. c.op = "restore"
      BY <1>12 DEF Call
    <2>2. pc[r] = "restoring" /\ lock[r.order] = r
      BY <1>1, <1>12, StockMoves
         DEF Kept, StockAwaited, StockReply, Forward, Once, HoldersLock, Holds
    <2>3. \A q \in Requests : q # r /\ q.order = r.order => ~ Holds(q)
      BY <2>2 DEF Kept, Forward, Once, HoldersLock
    <2>4. \A q \in Requests : q # r =>
              (HasDeducted(q)' <=> HasDeducted(q)) /\ (HasRestored(q)' <=> HasRestored(q))
      BY <1>1, <1>8 DEF HasDeducted, HasRestored
    <2>5. /\ \A o \in Orders : o # r.order => resv'[o] = resv[o]
          /\ HasRestored(r)' => resv'[r.order] = "RELEASED"
          /\ ~ HasRestored(r)' => resv'[r.order] = resv[r.order]
          /\ ~ HasRestored(r)
          /\ ~ HasDeducted(r) /\ ~ HasDeducted(r)'
      BY <1>1, <1>7, <1>12, <2>1, <2>2, StockMoves
         DEF HasDeducted, HasRestored, StockReply, S!Running
    <2>6. RestoresPaid'
      <3>1. StockReply("restore", r)' \in {"found", "ok"} => ord[r.order] = "PAYMENT_SUCCESS"
        BY <1>1, <1>7, <1>12, <2>1, <2>2, <2>5, StockMoves
           DEF Kept, RestoresPaid, ConfirmedIsPaid, StockReply
      <3>2. \A q \in Cancels : q # r => StockReply("restore", q)' = StockReply("restore", q)
        BY <1>1, <1>8
      <3>3. QED
        BY <2>2, <3>1, <3>2 DEF Kept, RestoresPaid
    <2>7. ConfirmedIsPaid'
      BY <1>1, <2>2, <2>4, <2>5 DEF Kept, ConfirmedIsPaid, Forward, Agreement, OnlyHoldersLock
    <2>8. RestoredStays'
      BY <1>1, <2>3, <2>4, <2>5 DEF Kept, RestoredStays, HasRestored, Holds
    <2>9. DeductedStays'
      BY <1>1, <1>5, <2>3, <2>4, <2>5 DEF Kept, DeductedStays, HasDeducted, Holds
    <2>10. PaidKept'
      BY <1>1, <1>5, <2>2, <2>4, <2>5 DEF Kept, PaidKept, Forward, Agreement, OnlyHoldersLock
    <2>11. QED
      BY <1>2, <1>3, <1>4, <2>6, <2>7, <2>8, <2>9, <2>10 DEF Kept
  <1>13. QED
    BY <1>6, <1>9, <1>10, <1>11, <1>12

LEMMA PaymentKeepsKept ==
    ASSUME Kept, TypeOK', NEW c \in PaymentCalls, P!CallStep(c),
           UNCHANGED <<stockVars, ord, lock, paid, pc>>
    PROVE  Kept'
  <1> USE RequestsAssumption, Kinds
  <1>1. /\ \A r \in Initiates : Call("create", r) \in PaymentCalls
        /\ \A r \in Completes : Call("confirm", r) \in PaymentCalls
        /\ \A r \in Completes \cup Cancels : Call("cancel", r) \in PaymentCalls
        /\ \A r \in Requests : r.order \in Orders
        /\ Initiates \subseteq Requests /\ Completes \subseteq Requests
        /\ Cancels \subseteq Requests
        /\ P!TypeOK
    BY CallsExist DEF Kept, Forward, Once, TypeOK
  <1>2. Forward'
    BY PaymentKeepsForward DEF Kept
  <1>3. /\ StockAwaited' /\ RestoresPaid' /\ ConfirmedIsPaid'
        /\ RestoredStays' /\ DeductedStays' /\ PaidKept'
    BY DEF Kept, StockAwaited, RestoresPaid, ConfirmedIsPaid, RestoredStays, DeductedStays,
       PaidKept, NothingUndone, HasDeducted, HasRestored, StockReply, stockVars
  <1>4. PICK r \in Requests :
           \/ r \in Initiates /\ c = Call("create", r)
           \/ r \in Completes /\ c = Call("confirm", r)
           \/ r \in Completes \cup Cancels /\ c = Call("cancel", r)
    BY <1>1 DEF PaymentCalls
  <1>5. c.order = r.order
    BY <1>4 DEF Call
  <1>6. \A op, q : q \in Requests /\ (q # r \/ c.op # op) /\ Call(op, q) \in PaymentCalls
                   => PaymentReply(op, q)' = PaymentReply(op, q)
    BY <1>1, <1>4, CallsDiffer, PaymentFrame DEF PaymentReply, Call
  <1>7. CASE r \in Initiates /\ c = Call("create", r)
    <2>1. c.op = "create" /\ pc[r] = "paying"
      BY <1>1, <1>7, PaymentFrame DEF Kept, Forward, Agreement, CallsAwaited, PaymentReply, Call
    <2>2. ord[r.order] = "NONE"
      BY <1>7, <2>1 DEF Kept, Forward, Agreement, KnownAfterCommit
    <2>3. \A q \in Initiates : q.order = r.order => q = r
      BY <1>7 DEF Initiates
    <2>4. \A q \in Completes : PaymentReply("confirm", q)' = PaymentReply("confirm", q)
      BY <1>1, <1>6, <2>1
    <2>5. \A q \in Requests : HasCharged(q)' <=> HasCharged(q)
      BY <2>4 DEF HasCharged
    <2>6. PendingPayment'
      <3>1. ASSUME NEW q \in Initiates, pc[q] = "paying", PaymentReply("create", q)' = "ok"
            PROVE  pay'[q.order] = "PENDING"
        BY <1>1, <1>5, <1>6, <2>1, <2>3, <3>1, PaymentMoves, PaymentFrame
           DEF Kept, PendingPayment
      <3>2. ASSUME NEW o \in Orders, ord[o] = "PAYMENT_PENDING"
            PROVE  pay'[o] = "PENDING" \/ (lock[o] # NoRequest /\ HasCharged(lock[o])')
        BY <1>1, <1>5, <2>2, <2>5, <3>2, PaymentFrame
           DEF Kept, PendingPayment, Forward, Agreement, OnlyHoldersLock
      <3>3. QED
        BY <3>1, <3>2 DEF PendingPayment, HasCharged
    <2>7. PaymentsSucceed'
      BY <1>1, <1>6, <2>1 DEF Kept, PaymentsSucceed
    <2>8. QED
      BY <1>2, <1>3, <2>6, <2>7 DEF Kept
  <1>8. CASE r \in Completes /\ c = Call("confirm", r)
    <2>1. c.op = "confirm" /\ pc[r] = "charging"
      BY <1>1, <1>8, PaymentFrame DEF Kept, Forward, Agreement, CallsAwaited, PaymentReply, Call
    <2>2. lock[r.order] = r
      BY <1>8, <2>1 DEF Kept, Forward, Once, HoldersLock, Holds
    <2>3. ord[r.order] = "PAYMENT_PENDING" /\ ~ HasCharged(r)
      BY <1>1, <1>8, <2>1, PaymentFrame
         DEF Kept, Forward, CompletesPending, HasCharged, PaymentReply, P!Running
    <2>4. pay[r.order] = "PENDING"
      BY <1>1, <2>2, <2>3 DEF Kept, PendingPayment
    <2>5. payAt'[c] \in {"found", "ok"}
      BY <1>1, <1>5, <2>1, <2>4, PaymentFrame, PaymentMoves
    <2>6. PaymentsSucceed'
      BY <1>1, <1>6, <1>8, <2>1, <2>5 DEF Kept, PaymentsSucceed, PaymentReply
    <2>7. \A q \in Requests : q # r => (HasCharged(q)' <=> HasCharged(q))
      BY <1>1, <1>6 DEF HasCharged
    <2>8. payAt'[c] = "ok" => HasCharged(r)'
      BY <1>8, <2>1 DEF HasCharged, PaymentReply
    <2>9. \A q \in Initiates : q.order = r.order => pc[q] = "done"
      BY <2>3 DEF Kept, Forward, Agreement, KnownAfterCommit
    <2>10. PendingPayment'
      <3>1. ASSUME NEW q \in Initiates, pc[q] = "paying", PaymentReply("create", q)' = "ok"
            PROVE  pay'[q.order] = "PENDING"
        BY <1>1, <1>5, <1>6, <2>1, <2>9, <3>1, PaymentFrame DEF Kept, PendingPayment
      <3>2. ASSUME NEW o \in Orders, ord[o] = "PAYMENT_PENDING"
            PROVE  pay'[o] = "PENDING" \/ (lock[o] # NoRequest /\ HasCharged(lock[o])')
        <4>1. CASE o = r.order
          BY <1>1, <1>5, <2>2, <2>4, <2>8, <4>1, PaymentFrame
        <4>2. CASE o # r.order
          BY <1>1, <1>5, <2>7, <3>2, <4>2, PaymentFrame
             DEF Kept, PendingPayment, Forward, Agreement, OnlyHoldersLock
        <4>3. QED
          BY <4>1, <4>2
      <3>3. QED
        BY <3>1, <3>2 DEF PendingPayment, HasCharged
    <2>11. QED
      BY <1>2, <1>3, <2>6, <2>10 DEF Kept
  <1>9. CASE r \in Completes \cup Cancels /\ c = Call("cancel", r)
    <2>1. r \in Cancels /\ c.op = "cancel" /\ pc[r] = "canceling"
      BY <1>1, <1>9, PaymentFrame
         DEF Kept, Forward, Agreement, CallsAwaited, PaymentReply, Call, P!Running
    <2>2. lock[r.order] = r /\ ord[r.order] = "PAYMENT_SUCCESS"
      BY <2>1 DEF Kept, Forward, Once, HoldersLock, Holds, RestoresPaid
    <2>3. ~ HasCharged(r) /\ ~ HasCanceled(r)
      BY <1>1, <1>9, <2>1, PaymentFrame DEF HasCharged, HasCanceled, PaymentReply, P!Running
    <2>4. pay[r.order] = "SUCCESS"
      BY <1>1, <2>2, <2>3 DEF Kept, Forward, Agreement, AgreeOrSettled, Agrees
    <2>5. payAt'[c] \in {"found", "ok"}
      BY <1>1, <1>5, <2>1, <2>4, PaymentFrame, PaymentMoves
    <2>6. PaymentsSucceed'
      BY <1>1, <1>6, <1>9, <2>1, <2>5 DEF Kept, PaymentsSucceed, PaymentReply
    <2>7. \A q \in Requests : HasCharged(q)' <=> HasCharged(q)
      BY <1>1, <1>6, <2>1 DEF HasCharged
    <2>8. \A q \in Initiates : q.order = r.order => pc[q] = "done"
      BY <2>2 DEF Kept, Forward, Agreement, KnownAfterCommit
    <2>9. PendingPayment'
      <3>1. ASSUME NEW q \in Initiates, pc[q] = "paying", PaymentReply("create", q)' = "ok"
            PROVE  pay'[q.order] = "PENDING"
        BY <1>1, <1>5, <1>6, <2>1, <2>8, <3>1, PaymentFrame DEF Kept, PendingPayment
      <3>2. ASSUME NEW o \in Orders, ord[o] = "PAYMENT_PENDING"
            PROVE  pay'[o] = "PENDING" \/ (lock[o] # NoRequest /\ HasCharged(lock[o])')
        BY <1>1, <1>5, <2>2, <2>7, <3>2, PaymentFrame
           DEF Kept, PendingPayment, Forward, Agreement, OnlyHoldersLock
      <3>3. QED
        BY <3>1, <3>2 DEF PendingPayment, HasCharged
    <2>10. QED
      BY <1>2, <1>3, <2>6, <2>9 DEF Kept
  <1>10. QED
    BY <1>4, <1>7, <1>8, <1>9

LEMMA KeptStep ==
    ASSUME MaxFaults = 0, Kept, Next, TypeOK'
    PROVE  Kept'
  <1> USE RequestsAssumption, Kinds
  <1>1. Forward'
    BY ForwardStep DEF Kept
  <1>2. /\ \A r \in Initiates : Call("create", r) \in StockCalls \cap PaymentCalls
        /\ \A r \in Completes : Call("confirm", r) \in StockCalls \cap PaymentCalls
        /\ \A r \in Completes \cup Cancels : Call("restore", r) \in StockCalls
        /\ \A r \in Completes \cup Cancels : Call("cancel", r) \in PaymentCalls
        /\ \A r \in Requests : r.order \in Orders
        /\ Completes \subseteq Requests /\ Cancels \subseteq Requests
    BY CallsExist
  <1> USE DEF Kept, StockAwaited, PendingPayment, PaymentsSucceed, RestoresPaid,
          ConfirmedIsPaid, RestoredStays, DeductedStays, PaidKept, NothingUndone
  <1> USE DEF HasDeducted, HasRestored, HasCharged, Goto, SetOrder
  <1>3. /\ TypeOK /\ HoldersLock /\ KnownIsReserved /\ ConfirmedForGood /\ ConfirmCalledLocked
        /\ OnlyHoldersLock /\ KnownAfterCommit /\ CompletesPending /\ CallsAwaited
    BY DEF Forward, Once, Agreement
  <1>4. ASSUME UNCHANGED stockVars
        PROVE  /\ \A op, r : StockReply(op, r)' = StockReply(op, r)
               /\ resv' = resv
    BY <1>4 DEF stockVars, StockReply
  <1>5. ASSUME UNCHANGED payVars
        PROVE  /\ \A op, r : PaymentReply(op, r)' = PaymentReply(op, r)
               /\ pay' = pay
    BY <1>5 DEF payVars, PaymentReply
  <1>6. ASSUME NEW r \in Requests, Arrive(r)
        PROVE  Kept'
    <2>1. CASE Reserve(r)
      BY <1>1, <1>2, <1>3, <1>5, <2>1, CallFrame DEF Reserve, TypeOK, OnlyHoldersLock, S!Running
    <2>2. CASE RejectItems(r) \/ FindToComplete(r) \/ FindToCancel(r)
      BY <1>1, <1>2, <1>3, <1>4, <1>5, <2>2
         DEF RejectItems, FindToComplete, FindToCancel, TypeOK, OnlyHoldersLock
    <2>3. QED
      BY <1>6, <2>1, <2>2 DEF Arrive
  <1>7. ASSUME NEW r \in Requests, RequestStep(r)
        PROVE  Kept'
    <2> USE DEF TypeOK, OnlyHoldersLock
    <2>1. CASE CreatePayment(r)
      BY <1>1, <1>2, <1>3, <1>4, <2>1, PaymentCallFrame DEF CreatePayment
    <2>2. CASE CommitInitiate(r)
      BY <1>1, <1>2, <1>3, <1>4, <1>5, <2>2 DEF CommitInitiate, KnownAfterCommit, Holds
    <2>3. CASE ConfirmStock(r)
      BY <1>1, <1>2, <1>3, <1>5, <2>3, CallFrame DEF ConfirmStock, Acquire, S!Running
    <2>4. CASE RestoreStock(r)
      BY <1>1, <1>2, <1>3, <1>5, <2>4, CallFrame DEF RestoreStock, Acquire, S!Running
    <2>5. CASE ConfirmPayment(r)
      BY <1>1, <1>2, <1>3, <1>4, <2>5, PaymentCallFrame DEF ConfirmPayment, S!Running
    <2>6. CASE CancelPayment(r)
      BY <1>1, <1>2, <1>3, <1>4, <2>6, PaymentCallFrame DEF CancelPayment, S!Running
    <2>7. CASE CommitComplete(r)
      BY <1>1, <1>2, <1>3, <1>4, <1>5, <2>7
         DEF CommitComplete, Release, HoldersLock, Holds, ConfirmedForGood, Won
    <2>8. CASE CommitCancel(r)
      BY <1>1, <1>2, <1>3, <1>4, <1>5, <2>8 DEF CommitCancel, Release, HoldersLock, Holds
    <2>9. CASE CompleteFails(r)
      BY <1>1, <1>2, <1>3, <1>4, <1>5, <2>9
         DEF CompleteFails, Release, HoldersLock, Holds, S!Running
    <2>10. CASE CancelFails(r)
      BY <1>1, <1>2, <1>3, <1>4, <1>5, <2>10
         DEF CancelFails, Release, HoldersLock, Holds, S!Running
    <2>11. CASE FailOrder(r)
      BY <1>1, <1>2, <1>3, <1>5, <2>11, CallFrame DEF FailOrder, HoldersLock, Holds, S!Running
    <2>12. CASE RefundPayment(r)
      BY <1>1, <1>2, <1>3, <1>4, <2>12, PaymentCallFrame DEF RefundPayment
    <2>13. CASE InitiateFails(r) \/ Charged(r) \/ EmitMail(r) \/ FailureHandled(r)
      BY <1>1, <1>2, <1>3, <1>4, <1>5, <2>13
         DEF InitiateFails, Charged, EmitMail, FailureHandled
    <2>14. QED
      BY <1>7, <2>1, <2>2, <2>3, <2>4, <2>5, <2>6, <2>7, <2>8, <2>9, <2>10, <2>11, <2>12, <2>13
         DEF RequestStep
  <1>8. CASE StockService
    BY <1>8, StockKeepsKept DEF StockService
  <1>9. CASE PaymentService
    BY <1>9, PaymentKeepsKept DEF PaymentService
  <1>10. CASE Expire
    <2>1. UNCHANGED <<stockAt, resv, payVars, ord, lock, pc>>
      BY <1>10 DEF Expire, S!Expire
    <2>2. QED
      BY <1>1, <1>5, <2>1 DEF StockReply
  <1>11. ~ Faults
    BY <1>3 DEF TypeOK, Faults, Fault, LoseReply, QueryFails, StockAborts, PaymentAborts, Crash
  <1>12. QED
    BY <1>6, <1>7, <1>8, <1>9, <1>10, <1>11 DEF Next

LEMMA InitKept == Init => Kept
  <1> SUFFICES ASSUME Init
               PROVE  Kept
    OBVIOUS
  <1>1. /\ \A r \in Requests : pc[r] = "idle" /\ r.order \in Orders
        /\ \A c \in StockCalls : stockAt[c] = "idle"
        /\ \A c \in PaymentCalls : payAt[c] = "idle"
        /\ \A o \in Orders : resv[o] = "NONE" /\ ord[o] = "NONE"
    BY RequestsAssumption DEF Init, S!Init, P!Init
  <1>2. Forward
    BY InitForward
  <1>3. QED
    BY <1>1, <1>2, CallsExist, Kinds DEF Kept, StockAwaited, PendingPayment, PaymentsSucceed,
       RestoresPaid, ConfirmedIsPaid, RestoredStays, DeductedStays, PaidKept, HasDeducted,
       HasRestored, StockReply, PaymentReply, S!Running

LEMMA KeptStutter == ASSUME Kept, TypeOK', UNCHANGED vars PROVE Kept'
  <1>1. Forward'
    BY ForwardStutter DEF Kept
  <1>2. QED
    BY <1>1 DEF vars, stockVars, payVars, Kept, StockAwaited, PendingPayment, PaymentsSucceed,
       RestoresPaid, ConfirmedIsPaid, RestoredStays, DeductedStays, PaidKept, NothingUndone,
       HasDeducted, HasRestored, HasCharged, StockReply, PaymentReply

(* Of a paid order whose row nobody locks nothing but the catch block of a *)
(* late complete takes the stock, for any number of completes and cancels  *)
(* in any order (completeOrder 208, 256, cancelOrder 306).                 *)
THEOREM OnlyLateCompletesTakeStock ==
    ASSUME MaxFaults = 0 PROVE Spec => []StockTakenByLateComplete
  <1>1. ASSUME Kept, TypeOK', [Next]_vars
        PROVE  Kept'
    BY <1>1, KeptStep, KeptStutter
  <1>2. Kept => StockTakenByLateComplete
    BY DEF Kept, PaidKept, StockTakenByLateComplete, PaidStockHeld, Unlocked
  <1>3. QED
    BY <1>1, <1>2, InitKept, Typing, PTL DEF Spec

-----------------------------------------------------------------------------
(* What of the stock is sold and reserved.  Both are sums over the orders, *)
(* so the theorems about sums and about the calls of the stock service     *)
(* alone are used here for the calls that the order service makes.         *)
SP == INSTANCE Stock_proofs WITH Calls <- StockCalls, at <- stockAt, Quantities <- {}

(* The calls of the order service are such as Stock assumes.               *)
LEMMA CallsProper ==
    /\ \A c \in StockCalls : c.op \in {"create", "confirm", "restore"} /\ c.order \in Orders
    /\ \A c, d \in StockCalls :
          c.op = "create" /\ d.op = "create" /\ c.order = d.order => c = d
  BY RequestsAssumption DEF StockCalls, Call, Initiates, Completes, Cancels

(* What the orders of a finite set take of a product.                      *)
Sum(p, A) == SP!Total(Qty, p, A)

LEMMA SameFinite == \A A : IsFiniteSet(A) <=> SP!IsFiniteSet(A)
  BY DEF IsFiniteSet, SP!IsFiniteSet

LEMMA SumSplits ==
    ASSUME NEW A \in SUBSET Orders, IsFiniteSet(A), NEW o \in A, NEW p \in Products
    PROVE  /\ Sum(p, A) = Qty[o][p] + Sum(p, A \ {o})
           /\ Sum(p, A \ {o}) \in Nat
           /\ Qty[o][p] \in Nat
  <1>1. SP!IsFiniteSet(A)
    BY SameFinite
  <1>2. QED
    BY <1>1, CallsProper, OrderItems, SP!ItemsAdd DEF Sum

LEMMA SumTyped ==
    ASSUME NEW A \in SUBSET Orders, IsFiniteSet(A), NEW p \in Products
    PROVE  Sum(p, A) \in Nat
  <1>1. SP!IsFiniteSet(A) /\ \A o \in A : Qty[o][p] \in Nat
    BY SameFinite, OrderItems
  <1>2. QED
    BY <1>1, CallsProper, OrderItems, SP!TotalIsNat DEF Sum

LEMMA ConfirmedIsSum ==
    ASSUME NEW p
    PROVE  /\ Confirmed(p) = Sum(p, {o \in Orders : resv[o] = "CONFIRMED"})
           /\ Confirmed(p)' = Sum(p, {o \in Orders : resv'[o] = "CONFIRMED"})
  BY DEF Confirmed, Sum, SP!Total, MapThenSumSet, MapThenFoldSet, SP!MapThenSumSet,
     SP!MapThenFoldSet

LEMMA ReservedIsSum ==
    ASSUME NEW p
    PROVE  /\ S!Reserved(p) = Sum(p, {o \in Orders : S!Live(o)})
           /\ S!Reserved(p)' = Sum(p, {o \in Orders : S!Live(o)'})
  BY DEF S!Reserved, Sum, SP!Total, S!MapThenSumSet, S!MapThenFoldSet, SP!MapThenSumSet,
     SP!MapThenFoldSet

-----------------------------------------------------------------------------
(* When nothing fails, a confirm takes a quantity out of the stock once    *)
(* and a restore puts it back once, although each finds its rows first and *)
(* updates them later: a complete that waits for its confirm, and a cancel *)
(* that waits for its restore, hold the row of the order (StockAwaited),   *)
(* so no two such calls of an order overlap.  The restore in a catch block *)
(* is called without the row and may overlap; NothingUndone excludes it    *)
(* where it matters.                                                       *)
Reservations == {o \in Orders : resv[o] # "NONE"}

StockRows == stocked = DOMAIN InitialStock

(* The rows of an order are inserted by one call, and all other calls that *)
(* write rely on what they found.                                          *)
CreatedOnce ==
    \A r \in Initiates : StockReply("create", r) # "ok" => resv[r.order] = "NONE"

ConfirmSeesPending ==
    \A r \in Completes : StockReply("confirm", r) = "found" => resv[r.order] = "PENDING"

RestoreSeesSold ==
    \A r \in Completes \cup Cancels :
        StockReply("restore", r) = "found" => resv[r.order] \in {"CONFIRMED", "RELEASED"}

CancelSeesConfirmed ==
    NothingUndone =>
        \A r \in Cancels : StockReply("restore", r) = "found" => resv[r.order] = "CONFIRMED"

Sold ==
    /\ Kept
    /\ IsFiniteSet(Reservations)
    /\ StockRows
    /\ CreatedOnce
    /\ ConfirmSeesPending
    /\ RestoreSeesSold
    /\ CancelSeesConfirmed
    /\ NoDoubleDeduction
    /\ StockConserved

(* What the three writes of the stock service do to the quantities.        *)
LEMMA StockWrites ==
    ASSUME S!TypeOK, NEW c \in StockCalls, S!CallStep(c)
    PROVE  /\ UNCHANGED <<stocked, expired>>
           /\ stockAt'[c] # "ok" \/ c.op = "create" => stock' = stock
           /\ c.op = "confirm" /\ stockAt'[c] = "ok" =>
                  \A p \in stocked : stock'[p] = stock[p] - Qty[c.order][p]
           /\ c.op = "restore" /\ stockAt'[c] = "ok" =>
                  \A p \in stocked : stock'[p] = stock[p] + Qty[c.order][p]
  BY CallsTyped DEF S!TypeOK, S!Running, S!Goto, S!CallStep, S!CreateCheckProducts,
     S!CreateCheckStock, S!CreateInsert, S!ConfirmFind, S!ConfirmWrite, S!RestoreFind,
     S!RestoreWrite, S!Deduct, S!PutBack

(* One order changes its status: the sums over all of them.                *)
LEMMA MoreReservations ==
    ASSUME IsFiniteSet(Reservations), NEW o, \A q \in Orders : q # o => resv'[q] = resv[q]
    PROVE  IsFiniteSet(Reservations')
  <1>1. IsFiniteSet(Reservations \cup {o})
    BY FS_AddElement
  <1>2. Reservations' \subseteq Reservations \cup {o}
    BY DEF Reservations
  <1>3. QED
    BY <1>1, <1>2, FS_Subset

LEMMA ConfirmedAdds ==
    ASSUME IsFiniteSet(Reservations), NEW o \in Orders, NEW p \in Products,
           \A q \in Orders : q # o => resv'[q] = resv[q], resv[o] # "CONFIRMED",
           resv'[o] = "CONFIRMED"
    PROVE  /\ Confirmed(p)' = Confirmed(p) + Qty[o][p]
           /\ Confirmed(p) \in Nat /\ Qty[o][p] \in Nat
  <1> DEFINE A == {q \in Orders : resv[q] = "CONFIRMED"}
             B == {q \in Orders : resv'[q] = "CONFIRMED"}
  <1>1. B \in SUBSET Orders /\ o \in B /\ B \ {o} = A
    OBVIOUS
  <1>2. IsFiniteSet(B)
    <2>1. IsFiniteSet(Reservations')
      BY MoreReservations
    <2>2. B \in SUBSET (Reservations')
      BY DEF Reservations
    <2>3. QED
      BY <2>1, <2>2, FS_Subset
  <1>3. Sum(p, B) = Qty[o][p] + Sum(p, A) /\ Sum(p, A) \in Nat /\ Qty[o][p] \in Nat
    <2> HIDE DEF A, B
    <2>1. QED
      BY <1>1, <1>2, SumSplits
  <1>4. Confirmed(p) = Sum(p, A) /\ Confirmed(p)' = Sum(p, B)
    BY ConfirmedIsSum
  <1> HIDE DEF A, B
  <1>5. QED
    BY <1>3, <1>4

LEMMA ConfirmedRemoves ==
    ASSUME IsFiniteSet(Reservations), NEW o \in Orders, NEW p \in Products,
           \A q \in Orders : q # o => resv'[q] = resv[q], resv[o] = "CONFIRMED",
           resv'[o] # "CONFIRMED"
    PROVE  /\ Confirmed(p) = Confirmed(p)' + Qty[o][p]
           /\ Confirmed(p)' \in Nat /\ Qty[o][p] \in Nat
  <1> DEFINE A == {q \in Orders : resv[q] = "CONFIRMED"}
             B == {q \in Orders : resv'[q] = "CONFIRMED"}
  <1>1. A \in SUBSET Orders /\ o \in A /\ A \ {o} = B
    OBVIOUS
  <1>2. IsFiniteSet(A)
    <2>1. A \in SUBSET Reservations
      BY DEF Reservations
    <2>2. QED
      BY <2>1, FS_Subset
  <1>3. Sum(p, A) = Qty[o][p] + Sum(p, B) /\ Sum(p, B) \in Nat /\ Qty[o][p] \in Nat
    <2> HIDE DEF A, B
    <2>1. QED
      BY <1>1, <1>2, SumSplits
  <1>4. Confirmed(p) = Sum(p, A) /\ Confirmed(p)' = Sum(p, B)
    BY ConfirmedIsSum
  <1> HIDE DEF A, B
  <1>5. QED
    BY <1>3, <1>4

LEMMA ConfirmedTyped ==
    ASSUME IsFiniteSet(Reservations), NEW p \in Products
    PROVE  Confirmed(p) \in Nat
  <1> DEFINE A == {q \in Orders : resv[q] = "CONFIRMED"}
  <1>1. A \in SUBSET Orders /\ A \in SUBSET Reservations
    BY DEF Reservations
  <1>2. IsFiniteSet(A)
    BY <1>1, FS_Subset
  <1>3. Sum(p, A) \in Nat
    <2> HIDE DEF A
    <2>1. QED
      BY <1>1, <1>2, SumTyped
  <1>4. Confirmed(p) = Sum(p, A)
    BY ConfirmedIsSum
  <1> HIDE DEF A
  <1>5. QED
    BY <1>3, <1>4

LEMMA ConfirmedSame ==
    ASSUME NEW p, \A o \in Orders : resv'[o] = "CONFIRMED" <=> resv[o] = "CONFIRMED"
    PROVE  Confirmed(p)' = Confirmed(p)
  <1> DEFINE A == {q \in Orders : resv[q] = "CONFIRMED"}
             B == {q \in Orders : resv'[q] = "CONFIRMED"}
  <1>1. A = B
    OBVIOUS
  <1>2. Confirmed(p) = Sum(p, A) /\ Confirmed(p)' = Sum(p, B)
    BY ConfirmedIsSum
  <1> HIDE DEF A, B
  <1>3. QED
    BY <1>1, <1>2

LEMMA StockKeepsSold ==
    ASSUME Sold, Kept', NEW c \in StockCalls, S!CallStep(c), UNCHANGED <<pc, lock>>
    PROVE  Sold'
  <1> USE RequestsAssumption, Kinds, OrderItems
  <1>1. /\ \A r \in Initiates : Call("create", r) \in StockCalls
        /\ \A r \in Completes : Call("confirm", r) \in StockCalls
        /\ \A r \in Completes \cup Cancels : Call("restore", r) \in StockCalls
        /\ \A r \in Requests : r.order \in Orders
        /\ Initiates \subseteq Requests /\ Completes \subseteq Requests
        /\ Cancels \subseteq Requests
        /\ S!TypeOK /\ HoldersLock /\ StockAwaited
    BY CallsExist DEF Sold, Kept, Forward, Once, TypeOK
  <1>2. PICK r \in Requests :
           \/ r \in Initiates /\ c = Call("create", r)
           \/ r \in Completes /\ c = Call("confirm", r)
           \/ r \in Completes \cup Cancels /\ c = Call("restore", r)
    BY <1>1 DEF StockCalls
  <1>3. c.order = r.order /\ c.order \in Orders
    BY <1>1, <1>2 DEF Call
  <1>4. \A op, q : q \in Requests /\ (q # r \/ c.op # op) /\ Call(op, q) \in StockCalls
                   => StockReply(op, q)' = StockReply(op, q)
    BY <1>1, <1>2, CallsDiffer, StockFrame DEF StockReply, Call
  <1>5. \A o \in Orders : o # r.order => resv'[o] = resv[o]
    BY <1>1, <1>3, StockMoves
  <1>6. IsFiniteSet(Reservations') /\ StockRows'
    BY <1>1, <1>5, MoreReservations, StockWrites DEF Sold, StockRows
  <1>7. NothingUndone' => NothingUndone
    BY <1>1, StockFrame DEF NothingUndone, StockReply
  <1>8. \A p \in stocked : p \in Products /\ stock[p] \in Int /\ InitialStock[p] \in Nat
    BY <1>1 DEF S!TypeOK, Sold, StockRows
  <1> USE DEF CreatedOnce, ConfirmSeesPending, RestoreSeesSold, CancelSeesConfirmed,
          NoDoubleDeduction, StockConserved
  <1>9. CASE r \in Initiates /\ c = Call("create", r)
    <2>1. c.op = "create" /\ StockReply("create", r) # "ok"
      BY <1>1, <1>9, StockFrame DEF Call, StockReply
    <2>2. resv[r.order] = "NONE"
      BY <1>9, <2>1 DEF Sold
    <2>3. resv'[r.order] = "NONE" \/ (StockReply("create", r)' = "ok" /\ resv'[r.order] = "PENDING")
      BY <1>1, <1>3, <1>9, <2>1, <2>2, StockMoves DEF StockReply
    <2>4. /\ \A q \in Completes : StockReply("confirm", q)' = StockReply("confirm", q)
          /\ \A q \in Completes \cup Cancels : StockReply("restore", q)' = StockReply("restore", q)
          /\ \A q \in Initiates : q # r => StockReply("create", q)' = StockReply("create", q)
      BY <1>1, <1>4, <2>1
    <2>5. CreatedOnce'
      BY <1>1, <1>5, <1>9, <2>2, <2>3, <2>4 DEF Initiates, Sold
    <2>6. ConfirmSeesPending' /\ RestoreSeesSold' /\ CancelSeesConfirmed'
      BY <1>1, <1>5, <1>7, <2>2, <2>4 DEF Sold
    <2>7. \A p : Confirmed(p)' = Confirmed(p)
      BY <1>5, <2>2, <2>3, ConfirmedSame
    <2>8. stock' = stock /\ stocked' = stocked
      BY <1>1, <2>1, StockWrites
    <2>9. QED
      BY <1>6, <1>7, <2>5, <2>6, <2>7, <2>8 DEF Sold
  <1>10. CASE r \in Completes /\ c = Call("confirm", r)
    <2>1. c.op = "confirm" /\ stockAt[c] \in S!Running
      BY <1>1, <1>10, StockMoves DEF Call
    <2>2. pc[r] = "confirming" /\ lock[r.order] = r
      BY <1>1, <1>10, <2>1 DEF StockAwaited, StockReply, HoldersLock, Holds
    <2>3. /\ \A q \in Completes : q # r => StockReply("confirm", q)' = StockReply("confirm", q)
          /\ \A q \in Completes \cup Cancels : StockReply("restore", q)' = StockReply("restore", q)
          /\ \A q \in Initiates : StockReply("create", q)' = StockReply("create", q)
      BY <1>1, <1>4, <2>1
    <2>4. \A q \in Completes : q.order = r.order /\ q # r => StockReply("confirm", q) # "found"
      BY <1>1, <2>2 DEF StockAwaited, HoldersLock, Holds, S!Running
    <2>5. CASE stockAt'[c] # "ok"
      <3>1. resv' = resv /\ stock' = stock /\ stocked' = stocked
        BY <1>1, <2>1, <2>5, StockMoves, StockWrites
      <3>2. stockAt'[c] = "found" => resv[r.order] = "PENDING"
        BY <1>1, <1>3, <2>1, StockEffect
      <3>3. ConfirmSeesPending'
        BY <1>10, <2>3, <3>1, <3>2 DEF StockReply, Sold
      <3>4. CreatedOnce' /\ RestoreSeesSold' /\ CancelSeesConfirmed'
        BY <1>7, <2>3, <3>1 DEF Sold
      <3>5. \A p : Confirmed(p)' = Confirmed(p)
        BY <3>1, ConfirmedSame
      <3>6. QED
        BY <1>6, <1>7, <3>1, <3>3, <3>4, <3>5 DEF Sold
    <2>6. CASE stockAt'[c] = "ok"
      <3>1. resv[r.order] = "PENDING" /\ resv'[r.order] = "CONFIRMED"
        BY <1>1, <1>3, <1>10, <2>1, <2>6, StockMoves DEF StockReply, Sold
      <3>2. CreatedOnce' /\ RestoreSeesSold' /\ CancelSeesConfirmed'
        BY <1>1, <1>5, <1>7, <2>3, <3>1 DEF Sold
      <3>3. ConfirmSeesPending'
        BY <1>1, <1>5, <1>10, <2>3, <2>4, <2>6 DEF StockReply, Sold
      <3>4. ASSUME NEW p \in stocked
            PROVE  /\ stock'[p] + Confirmed(p)' = stock[p] + Confirmed(p)
                   /\ stocked' = stocked
        <4>1. /\ Confirmed(p)' = Confirmed(p) + Qty[r.order][p]
              /\ Confirmed(p) \in Nat /\ Qty[r.order][p] \in Nat
          BY <1>1, <1>5, <1>8, <3>1, ConfirmedAdds DEF Sold
        <4>2. stock'[p] = stock[p] - Qty[r.order][p] /\ stocked' = stocked
          BY <1>1, <1>3, <2>1, <2>6, StockWrites
        <4>3. QED
          BY <1>8, <4>1, <4>2
      <3>5. stocked' = stocked
        BY <1>1, StockWrites
      <3>6. NoDoubleDeduction' /\ StockConserved'
        BY <1>7, <3>4, <3>5 DEF Sold
      <3>7. QED
        BY <1>6, <3>2, <3>3, <3>6 DEF Sold
    <2>7. QED
      BY <2>5, <2>6
  <1>11. CASE r \in Completes \cup Cancels /\ c = Call("restore", r)
    <2>1. c.op = "restore" /\ stockAt[c] \in S!Running
      BY <1>1, <1>11, StockMoves DEF Call
    <2>2. /\ \A q \in Completes : StockReply("confirm", q)' = StockReply("confirm", q)
          /\ \A q \in Completes \cup Cancels :
                q # r => StockReply("restore", q)' = StockReply("restore", q)
          /\ \A q \in Initiates : StockReply("create", q)' = StockReply("create", q)
      BY <1>1, <1>4, <2>1
    <2>3. ASSUME NEW q \in Cancels, r \in Cancels, q.order = r.order, q # r
          PROVE  StockReply("restore", q) # "found"
      BY <1>1, <1>11, <2>1, <2>3 DEF StockAwaited, StockReply, HoldersLock, Holds, S!Running
    <2>4. CASE stockAt'[c] # "ok"
      <3>1. resv' = resv /\ stock' = stock /\ stocked' = stocked
        BY <1>1, <2>1, <2>4, StockMoves, StockWrites
      <3>2. stockAt'[c] = "found" => resv[r.order] = "CONFIRMED"
        BY <1>1, <1>3, <2>1, StockMoves
      <3>3. RestoreSeesSold' /\ CancelSeesConfirmed'
        BY <1>7, <1>11, <2>2, <3>1, <3>2 DEF StockReply, Sold
      <3>4. CreatedOnce' /\ ConfirmSeesPending'
        BY <2>2, <3>1 DEF Sold
      <3>5. \A p : Confirmed(p)' = Confirmed(p)
        BY <3>1, ConfirmedSame
      <3>6. QED
        BY <1>6, <1>7, <3>1, <3>3, <3>4, <3>5 DEF Sold
    <2>5. CASE stockAt'[c] = "ok"
      <3>1. /\ stockAt[c] = "found" /\ resv'[r.order] = "RELEASED"
            /\ resv[r.order] \in {"CONFIRMED", "RELEASED"}
        BY <1>1, <1>3, <1>11, <2>1, <2>5, StockMoves DEF StockReply, Sold
      <3>2. NothingUndone' => r \in Cancels /\ resv[r.order] = "CONFIRMED"
        BY <1>7, <1>11, <2>5, <3>1 DEF NothingUndone, StockReply, Sold
      <3>3. CreatedOnce' /\ ConfirmSeesPending'
        BY <1>1, <1>5, <2>2, <3>1 DEF Sold
      <3>4. RestoreSeesSold'
        BY <1>1, <1>5, <2>2, <3>1 DEF Sold
      <3>5. CancelSeesConfirmed'
        BY <1>1, <1>5, <1>7, <1>11, <2>2, <2>3, <2>5, <3>2 DEF StockReply, Sold
      <3>6. ASSUME NEW p \in stocked
            PROVE  /\ stock'[p] + Confirmed(p)' >= stock[p] + Confirmed(p)
                   /\ NothingUndone' => stock'[p] + Confirmed(p)' = stock[p] + Confirmed(p)
                   /\ stock[p] + Confirmed(p) \in Int /\ stock'[p] + Confirmed(p)' \in Int
        <4>1. stock'[p] = stock[p] + Qty[r.order][p]
          BY <1>1, <1>3, <2>1, <2>5, StockWrites
        <4>2. CASE resv[r.order] = "CONFIRMED"
          <5>1. /\ Confirmed(p) = Confirmed(p)' + Qty[r.order][p]
                /\ Confirmed(p)' \in Nat /\ Qty[r.order][p] \in Nat
            BY <1>1, <1>5, <1>8, <3>1, <4>2, ConfirmedRemoves DEF Sold
          <5>2. QED
            BY <1>8, <4>1, <5>1
        <4>3. CASE resv[r.order] = "RELEASED"
          <5>1. Confirmed(p)' = Confirmed(p)
            BY <1>5, <3>1, <4>3, ConfirmedSame
          <5>2. Confirmed(p) \in Nat /\ Qty[r.order][p] \in Nat
            BY <1>1, <1>8, ConfirmedTyped DEF Sold
          <5>3. QED
            BY <1>8, <3>2, <4>1, <4>3, <5>1, <5>2
        <4>4. QED
          BY <3>1, <4>2, <4>3
      <3>7. stocked' = stocked
        BY <1>1, StockWrites
      <3>8. NoDoubleDeduction' /\ StockConserved'
        BY <1>7, <1>8, <3>6, <3>7 DEF Sold
      <3>9. QED
        BY <1>6, <3>3, <3>4, <3>5, <3>8 DEF Sold
    <2>6. QED
      BY <2>4, <2>5
  <1>12. QED
    BY <1>2, <1>9, <1>10, <1>11

(* No other step moves stock: at most it begins a call.                    *)
LEMMA Elsewhere ==
    ASSUME TypeOK, MaxFaults = 0, Next
    PROVE  \/ StockService
           \/ /\ UNCHANGED <<stocked, stock, resv>>
              /\ \A c \in StockCalls :
                    stockAt'[c] = stockAt[c] \/ (stockAt[c] = "idle" /\ stockAt'[c] = "begun")
  <1> DEFINE Same ==
               /\ UNCHANGED <<stocked, stock, resv>>
               /\ \A c \in StockCalls :
                     stockAt'[c] = stockAt[c] \/ (stockAt[c] = "idle" /\ stockAt'[c] = "begun")
  <1>1. UNCHANGED stockVars => Same
    BY DEF stockVars
  <1>2. ASSUME NEW op, NEW r, CallStock(op, r)
        PROVE  Same
    BY <1>2 DEF CallStock, S!Begin, S!Goto, TypeOK, S!TypeOK
  <1> HIDE DEF Same
  <1>3. ASSUME NEW r \in Requests, Arrive(r)
        PROVE  Same
    BY <1>1, <1>2, <1>3 DEF Arrive, Reserve, RejectItems, FindToComplete, FindToCancel
  <1>4. ASSUME NEW r \in Requests, RequestStep(r)
        PROVE  Same
    BY <1>1, <1>2, <1>4 DEF RequestStep, CreatePayment, CommitInitiate, InitiateFails,
       ConfirmStock, ConfirmPayment, Charged, CommitComplete, EmitMail, CompleteFails, FailOrder,
       RefundPayment, FailureHandled, RestoreStock, CancelPayment, CommitCancel, CancelFails
  <1>5. PaymentService => Same
    BY <1>1 DEF PaymentService
  <1>6. Expire => Same
    BY DEF Expire, S!Expire, Same
  <1>7. ~ Faults
    BY DEF TypeOK, Faults, Fault, LoseReply, QueryFails, StockAborts, PaymentAborts, Crash
  <1>8. StockService \/ Same
    BY <1>3, <1>4, <1>5, <1>6, <1>7 DEF Next
  <1>9. QED
    BY <1>8 DEF Same

LEMMA SoldStays ==
    ASSUME Sold, Kept', UNCHANGED <<stocked, stock, resv>>,
           \A c \in StockCalls :
              stockAt'[c] = stockAt[c] \/ (stockAt[c] = "idle" /\ stockAt'[c] = "begun")
    PROVE  Sold'
  <1>1. /\ \A r \in Initiates : Call("create", r) \in StockCalls
        /\ \A r \in Completes : Call("confirm", r) \in StockCalls
        /\ \A r \in Completes \cup Cancels : Call("restore", r) \in StockCalls
    BY CallsExist
  <1>2. Reservations' = Reservations
    BY DEF Reservations
  <1>3. NothingUndone' => NothingUndone
    BY <1>1 DEF NothingUndone, StockReply
  <1>4. CreatedOnce' /\ ConfirmSeesPending' /\ RestoreSeesSold' /\ CancelSeesConfirmed'
    BY <1>1, <1>3
       DEF Sold, CreatedOnce, ConfirmSeesPending, RestoreSeesSold, CancelSeesConfirmed, StockReply
  <1>5. \A p : Confirmed(p)' = Confirmed(p)
    BY ConfirmedSame
  <1>6. QED
    BY <1>2, <1>3, <1>4, <1>5 DEF Sold, StockRows, NoDoubleDeduction, StockConserved

LEMMA InitSold == Init => Sold
  <1> SUFFICES ASSUME Init
               PROVE  Sold
    OBVIOUS
  <1> USE OrderItems
  <1>1. /\ \A c \in StockCalls : stockAt[c] = "idle"
        /\ \A o \in Orders : resv[o] = "NONE"
        /\ StockRows
        /\ \A p \in stocked : stock[p] = InitialStock[p] /\ InitialStock[p] \in Nat /\ p \in Products
    BY DEF Init, S!Init, StockRows
  <1>2. Reservations = {}
    BY <1>1 DEF Reservations
  <1>3. IsFiniteSet(Reservations)
    BY <1>2, FS_EmptySet
  <1>4. \A p \in stocked : Confirmed(p) = 0
    <2>1. {o \in Orders : resv[o] = "CONFIRMED"} = {}
      BY <1>1
    <2>2. \A p : SP!Total(Qty, p, {}) = 0
      BY CallsProper, SP!TotalOfNone
    <2>3. QED
      BY <2>1, <2>2, ConfirmedIsSum DEF Sum
  <1>5. CreatedOnce /\ ConfirmSeesPending /\ RestoreSeesSold /\ CancelSeesConfirmed
    BY <1>1, CallsExist, Kinds, RequestsAssumption
       DEF CreatedOnce, ConfirmSeesPending, RestoreSeesSold, CancelSeesConfirmed, StockReply
  <1>6. QED
    BY <1>1, <1>3, <1>4, <1>5, InitKept DEF Sold, NoDoubleDeduction, StockConserved

LEMMA SoldStep ==
    ASSUME MaxFaults = 0, Sold, TypeOK', [Next]_vars
    PROVE  Sold'
  <1>1. Kept' /\ TypeOK
    BY KeptStep, KeptStutter DEF Sold, Kept, Forward, Once
  <1>2. CASE StockService
    BY <1>1, <1>2, StockKeepsSold DEF StockService
  <1>3. CASE UNCHANGED vars
    BY <1>1, <1>3, SoldStays DEF vars, stockVars
  <1>4. CASE Next /\ ~ StockService
    BY <1>1, <1>4, Elsewhere, SoldStays
  <1>5. QED
    BY <1>2, <1>3, <1>4

(* When nothing fails, no quantity is deducted twice, for any number of    *)
(* completes of an order at once: confirmStockReservation finds its rows   *)
(* without a lock (stock.service.ts 181) and updates them later, but only  *)
(* the complete that has updated the order row (order.service.ts 204) and  *)
(* not yet committed it gets to call it.                                   *)
THEOREM NothingDeductedTwice == ASSUME MaxFaults = 0 PROVE Spec => []NoDoubleDeduction
  <1>1. Sold => NoDoubleDeduction
    BY DEF Sold
  <1>2. Sold /\ TypeOK' /\ [Next]_vars => Sold'
    BY SoldStep
  <1>3. QED
    BY <1>1, <1>2, InitSold, Typing, PTL DEF Spec

(* When nothing fails, every unit is in stock or sold until the catch block *)
(* of a complete gives stock back (256): no two cancels restore one order,  *)
(* though restoreStockReservation too reads first and writes later.         *)
THEOREM StockIsConserved == ASSUME MaxFaults = 0 PROVE Spec => []StockConserved
  <1>1. Sold => StockConserved
    BY DEF Sold
  <1>2. Sold /\ TypeOK' /\ [Next]_vars => Sold'
    BY SoldStep
  <1>3. QED
    BY <1>1, <1>2, InitSold, Typing, PTL DEF Spec

-----------------------------------------------------------------------------
(* One reader of the order queue makes one reservation at a time, so what  *)
(* its check of the quantities found is so when it inserts the rows.       *)
OneInitiate ==
    \A r, q \in Initiates : pc[r] \in InFlight /\ pc[q] \in InFlight => r = q

CreatesAwaited ==
    /\ \A r \in Initiates : StockReply("create", r) \in S!Running => pc[r] = "reserving"
    /\ \A c \in StockCalls : stockAt[c] \in {"known", "checked"} => c.op = "create"

CheckedFits ==
    \A r \in Initiates :
        StockReply("create", r) = "checked" =>
            \A p \in S!Items(r.order) :
                p \in stocked /\ S!Reserved(p) + Qty[r.order][p] <= stock[p]

Fits ==
    /\ Sold
    /\ expired = {}
    /\ OneInitiate
    /\ CreatesAwaited
    /\ CheckedFits
    /\ NoOversell

LEMMA ReservedTyped ==
    ASSUME IsFiniteSet(Reservations), NEW p \in Products
    PROVE  S!Reserved(p) \in Nat
  <1> DEFINE A == {q \in Orders : S!Live(q)}
  <1>1. A \in SUBSET Orders /\ A \in SUBSET Reservations
    BY DEF Reservations, S!Live
  <1>2. IsFiniteSet(A)
    BY <1>1, FS_Subset
  <1>3. Sum(p, A) \in Nat
    <2> HIDE DEF A
    <2>1. QED
      BY <1>1, <1>2, SumTyped
  <1>4. S!Reserved(p) = Sum(p, A)
    BY ReservedIsSum
  <1> HIDE DEF A
  <1>5. QED
    BY <1>3, <1>4

LEMMA ReservedSame ==
    ASSUME NEW p, \A o \in Orders : S!Live(o)' <=> S!Live(o)
    PROVE  S!Reserved(p)' = S!Reserved(p)
  <1> DEFINE A == {q \in Orders : S!Live(q)}
             B == {q \in Orders : S!Live(q)'}
  <1>1. A = B
    OBVIOUS
  <1>2. S!Reserved(p) = Sum(p, A) /\ S!Reserved(p)' = Sum(p, B)
    BY ReservedIsSum
  <1> HIDE DEF A, B
  <1>3. QED
    BY <1>1, <1>2

LEMMA ReservedAdds ==
    ASSUME IsFiniteSet(Reservations), NEW o \in Orders, NEW p \in Products, ~ S!Live(o),
           \A q \in Orders : S!Live(q)' <=> S!Live(q) \/ q = o
    PROVE  S!Reserved(p)' = S!Reserved(p) + Qty[o][p]
  <1> DEFINE A == {q \in Orders : S!Live(q)}
             B == {q \in Orders : S!Live(q)'}
  <1>1. B \in SUBSET Orders /\ o \in B /\ B \ {o} = A /\ B = A \cup {o}
    OBVIOUS
  <1>2. IsFiniteSet(B)
    <2>1. A \in SUBSET Reservations
      BY DEF Reservations, S!Live
    <2> HIDE DEF A, B
    <2>2. QED
      BY <1>1, <2>1, FS_Subset, FS_AddElement
  <1>3. Sum(p, B) = Qty[o][p] + Sum(p, A) /\ Sum(p, A) \in Nat /\ Qty[o][p] \in Nat
    <2> HIDE DEF A, B
    <2>1. QED
      BY <1>1, <1>2, SumSplits
  <1>4. S!Reserved(p) = Sum(p, A) /\ S!Reserved(p)' = Sum(p, B)
    BY ReservedIsSum
  <1> HIDE DEF A, B
  <1>5. QED
    BY <1>3, <1>4

LEMMA ReservedRemoves ==
    ASSUME IsFiniteSet(Reservations), NEW o \in Orders, NEW p \in Products, S!Live(o),
           \A q \in Orders : S!Live(q)' <=> S!Live(q) /\ q # o
    PROVE  S!Reserved(p) = S!Reserved(p)' + Qty[o][p] /\ S!Reserved(p)' \in Nat
  <1> DEFINE A == {q \in Orders : S!Live(q)}
             B == {q \in Orders : S!Live(q)'}
  <1>1. A \in SUBSET Orders /\ o \in A /\ A \ {o} = B
    OBVIOUS
  <1>2. IsFiniteSet(A)
    <2>1. A \in SUBSET Reservations
      BY DEF Reservations, S!Live
    <2>2. QED
      BY <2>1, FS_Subset
  <1>3. Sum(p, A) = Qty[o][p] + Sum(p, B) /\ Sum(p, B) \in Nat /\ Qty[o][p] \in Nat
    <2> HIDE DEF A, B
    <2>1. QED
      BY <1>1, <1>2, SumSplits
  <1>4. S!Reserved(p) = Sum(p, A) /\ S!Reserved(p)' = Sum(p, B)
    BY ReservedIsSum
  <1> HIDE DEF A, B
  <1>5. QED
    BY <1>3, <1>4

(* What a step of a reservation call needs and answers.                    *)
LEMMA CreateSteps ==
    ASSUME S!TypeOK, NEW c \in StockCalls, S!CallStep(c)
    PROVE  /\ stockAt'[c] \in {"known", "checked"} => c.op = "create"
           /\ c.op = "create" /\ stockAt'[c] = "checked" => S!Available(c.order)
           /\ c.op = "create" /\ stockAt'[c] = "ok" => stockAt[c] = "checked"
  BY DEF S!TypeOK, S!Running, S!Goto, S!CallStep, S!CreateCheckProducts, S!CreateCheckStock,
     S!CreateInsert, S!ConfirmFind, S!ConfirmWrite, S!RestoreFind, S!RestoreWrite

LEMMA StockKeepsFits ==
    ASSUME Fits, Sold', NEW c \in StockCalls, S!CallStep(c), UNCHANGED <<pc, lock>>
    PROVE  Fits'
  <1> USE RequestsAssumption, Kinds, OrderItems
  <1>1. /\ \A r \in Initiates : Call("create", r) \in StockCalls
        /\ \A r \in Completes : Call("confirm", r) \in StockCalls
        /\ \A r \in Completes \cup Cancels : Call("restore", r) \in StockCalls
        /\ \A r \in Requests : r.order \in Orders
        /\ Initiates \subseteq Requests
        /\ S!TypeOK
    BY CallsExist DEF Fits, Sold, Kept, Forward, Once, TypeOK
  <1>2. PICK r \in Requests :
           \/ r \in Initiates /\ c = Call("create", r)
           \/ r \in Completes /\ c = Call("confirm", r)
           \/ r \in Completes \cup Cancels /\ c = Call("restore", r)
    BY <1>1 DEF StockCalls
  <1>3. c.order = r.order /\ c.order \in Orders
    BY <1>1, <1>2 DEF Call
  <1>4. expired = {} /\ expired' = {} /\ stocked' = stocked
    BY <1>1, StockWrites DEF Fits
  <1>5. /\ \A o \in Orders : S!Live(o) <=> resv[o] = "PENDING"
        /\ \A o \in Orders : S!Live(o)' <=> resv'[o] = "PENDING"
    BY <1>4 DEF S!Live
  <1>6. \A o \in Orders : o # r.order => resv'[o] = resv[o]
    BY <1>1, <1>3, StockMoves
  <1>7. OneInitiate'
    BY DEF Fits, OneInitiate
  <1>8. CreatesAwaited'
    BY <1>1, StockFrame, StockMoves, CreateSteps DEF Fits, CreatesAwaited, StockReply
  <1>9. /\ \A p \in stocked : p \in Products
        /\ \A p \in Products : stock[p] \in Int /\ S!Reserved(p) \in Nat
        /\ \A o \in Orders : \A p \in Products : Qty[o][p] \in Nat
    BY <1>1, ReservedTyped DEF S!TypeOK, Fits, Sold
  <1>10. CASE r \in Initiates /\ c = Call("create", r)
    <2>1. c.op = "create" /\ pc[r] = "reserving" /\ resv[r.order] = "NONE"
      BY <1>1, <1>10, StockMoves, StockFrame
         DEF Call, StockReply, Fits, CreatesAwaited, Sold, CreatedOnce
    <2>2. \A q \in Initiates : q # r => StockReply("create", q)' # "checked"
      BY <1>8, <2>1, <1>10 DEF Fits, OneInitiate, CreatesAwaited, S!Running, InFlight, AtStock
    <2>3. stock' = stock
      BY <1>1, <2>1, StockWrites
    <2>4. CASE stockAt'[c] # "ok"
      <3>1. \A p : S!Reserved(p)' = S!Reserved(p)
        BY <1>1, <1>5, <2>4, StockMoves, ReservedSame
      <3>2. StockReply("create", r)' = "checked" =>
                \A p \in S!Items(r.order) :
                    p \in stocked /\ S!Reserved(p) + Qty[r.order][p] <= stock[p]
        BY <1>1, <1>3, <1>9, <1>10, <2>1, CreateSteps DEF StockReply, S!Available, S!Items
      <3>3. CheckedFits'
        BY <1>4, <2>2, <2>3, <3>1, <3>2 DEF CheckedFits, S!Items
      <3>4. QED
        BY <1>4, <1>7, <1>8, <2>3, <3>1, <3>3 DEF Fits, NoOversell
    <2>5. CASE stockAt'[c] = "ok"
      <3>1. resv'[r.order] = "PENDING" /\ stockAt[c] = "checked"
        BY <1>1, <1>3, <2>1, <2>5, StockMoves, CreateSteps
      <3>2. \A p \in Products : S!Reserved(p)' = S!Reserved(p) + Qty[r.order][p]
        BY <1>1, <1>5, <1>6, <2>1, <3>1, ReservedAdds DEF Fits, Sold
      <3>3. \A p \in S!Items(r.order) : S!Reserved(p) + Qty[r.order][p] <= stock[p]
        BY <1>10, <3>1 DEF Fits, CheckedFits, StockReply
      <3>4. ASSUME NEW p \in stocked
            PROVE  S!Reserved(p)' <= stock[p]
        <4>1. CASE p \in S!Items(r.order)
          BY <1>9, <3>2, <3>3, <4>1
        <4>2. CASE p \notin S!Items(r.order)
          <5>1. Qty[r.order][p] = 0
            BY <1>1, <1>9, <4>2 DEF S!Items
          <5>2. QED
            BY <1>9, <3>2, <5>1 DEF Fits, NoOversell
        <4>3. QED
          BY <4>1, <4>2
      <3>5. CheckedFits'
        BY <1>10, <2>2, <2>5 DEF CheckedFits, StockReply
      <3>6. QED
        BY <1>4, <1>7, <1>8, <2>3, <3>4, <3>5 DEF Fits, NoOversell
    <2>6. QED
      BY <2>4, <2>5
  <1>11. CASE c.op \in {"confirm", "restore"}
    <2>1. \A q \in Initiates : StockReply("create", q)' = StockReply("create", q)
      <3>1. \A q \in Initiates : Call("create", q) # c
        BY <1>11 DEF Call
      <3>2. QED
        BY <1>1, <3>1, StockFrame DEF StockReply
    <2>2. ASSUME NEW p \in stocked
          PROVE  S!Reserved(p)' - stock'[p] <= S!Reserved(p) - stock[p]
                 /\ S!Reserved(p)' \in Nat /\ stock'[p] \in Int
      <3>1. CASE stockAt'[c] # "ok"
        <4>1. resv' = resv /\ stock' = stock
          BY <1>1, <3>1, StockMoves, StockWrites
        <4>2. S!Reserved(p)' = S!Reserved(p)
          BY <1>5, <4>1, ReservedSame
        <4>3. QED
          BY <1>9, <4>1, <4>2
      <3>2. CASE stockAt'[c] = "ok" /\ c.op = "confirm"
        <4>1. r \in Completes /\ c = Call("confirm", r)
          BY <1>2, <3>2 DEF Call
        <4>2. resv[r.order] = "PENDING" /\ resv'[r.order] = "CONFIRMED"
          BY <1>1, <1>3, <3>2, <4>1, StockMoves DEF StockReply, Fits, Sold, ConfirmSeesPending
        <4>3. stock'[p] = stock[p] - Qty[r.order][p]
          BY <1>1, <1>3, <3>2, StockWrites
        <4>4. S!Reserved(p) = S!Reserved(p)' + Qty[r.order][p] /\ S!Reserved(p)' \in Nat
          BY <1>1, <1>5, <1>6, <1>9, <4>2, ReservedRemoves DEF Fits, Sold
        <4>5. QED
          BY <1>1, <1>9, <4>3, <4>4
      <3>3. CASE stockAt'[c] = "ok" /\ c.op = "restore"
        <4>1. r \in Completes \cup Cancels /\ c = Call("restore", r)
          BY <1>2, <3>3 DEF Call
        <4>2. resv[r.order] # "PENDING" /\ resv'[r.order] # "PENDING"
          BY <1>1, <1>3, <3>3, <4>1, StockMoves DEF StockReply, Fits, Sold, RestoreSeesSold
        <4>3. stock'[p] = stock[p] + Qty[r.order][p]
          BY <1>1, <1>3, <3>3, StockWrites
        <4>4. S!Reserved(p)' = S!Reserved(p)
          BY <1>5, <1>6, <4>2, ReservedSame
        <4>5. QED
          BY <1>1, <1>9, <4>3, <4>4
      <3>4. QED
        BY <1>11, <3>1, <3>2, <3>3
    <2>3. NoOversell'
      BY <1>4, <1>9, <2>2 DEF NoOversell, Fits
    <2>4. CheckedFits'
      <3> SUFFICES ASSUME NEW q \in Initiates, StockReply("create", q)' = "checked",
                          NEW p \in S!Items(q.order)
                   PROVE  p \in stocked /\ S!Reserved(p)' + Qty[q.order][p] <= stock'[p]
        BY <1>4 DEF CheckedFits, S!Items
      <3>1. p \in stocked /\ S!Reserved(p) + Qty[q.order][p] <= stock[p]
        BY <2>1 DEF Fits, CheckedFits
      <3>2. Qty[q.order][p] \in Nat
        BY <1>1, <1>9, <3>1
      <3>3. QED
        BY <1>9, <2>2, <3>1, <3>2
    <2>5. QED
      BY <1>4, <1>7, <1>8, <2>3, <2>4 DEF Fits
  <1>12. QED
    BY <1>2, <1>10, <1>11 DEF Call

LEMMA FitsStays ==
    ASSUME Fits, Sold', expired' = {}, OneInitiate', CreatesAwaited',
           UNCHANGED <<stocked, stock, resv>>,
           \A c \in StockCalls :
              stockAt'[c] = stockAt[c] \/ (stockAt[c] = "idle" /\ stockAt'[c] = "begun")
    PROVE  Fits'
  <1>1. \A o \in Orders : S!Live(o)' <=> S!Live(o)
    BY DEF S!Live, Fits
  <1>2. \A p : S!Reserved(p)' = S!Reserved(p)
    BY <1>1, ReservedSame
  <1>3. CheckedFits' /\ NoOversell'
    BY <1>2, CallsExist DEF Fits, CheckedFits, NoOversell, StockReply, S!Items
  <1>4. QED
    BY <1>3 DEF Fits

LEMMA OneInitiateStep ==
    ASSUME TypeOK, MaxFaults = 0, Consumers <= 1, OneInitiate, Next
    PROVE  OneInitiate'
  <1> USE RequestsAssumption, Kinds
  <1> DEFINE Busy == {q \in Initiates : pc[q] \in InFlight}
  <1>1. ASSUME NEW r \in Requests, Reserve(r) \/ RejectItems(r)
        PROVE  OneInitiate'
    <2>1. IsFiniteSet(Busy)
      <3>1. CASE Busy = {}
        BY <3>1, FS_EmptySet
      <3>2. CASE Busy # {}
        <4>1. PICK q \in Initiates : Busy = {q}
          BY <3>2 DEF OneInitiate
        <4>2. IsFiniteSet({q})
          BY FS_Singleton
        <4> HIDE DEF Busy
        <4>3. QED
          BY <4>1, <4>2
      <3>3. QED
        BY <3>1, <3>2
    <2>2. Cardinality(Busy) < Consumers
      BY <1>1 DEF Reserve, RejectItems, ConsumerFree
    <2>3. Cardinality(Busy) = 0
      BY <2>1, <2>2, FS_CardinalityType, BoundsAssumption
    <2>4. Busy = {}
      BY <2>1, <2>3, FS_EmptySet
    <2>5. QED
      BY <1>1, <2>4 DEF Reserve, RejectItems, OneInitiate, Goto, TypeOK
  <1>2. ASSUME NEW r \in Requests, FindToComplete(r) \/ FindToCancel(r)
        PROVE  OneInitiate'
    BY <1>2 DEF FindToComplete, FindToCancel, OneInitiate, Goto, TypeOK
  <1>3. ASSUME NEW r \in Requests, RequestStep(r)
        PROVE  OneInitiate'
    <2>1. pc[r] \in InFlight /\ \A q \in Requests : q # r => pc'[q] = pc[q]
      BY <1>3 DEF RequestStep, CreatePayment, CommitInitiate, InitiateFails,
         ConfirmStock, ConfirmPayment, Charged, CommitComplete, EmitMail, CompleteFails,
         FailOrder, RefundPayment, FailureHandled, RestoreStock, CancelPayment, CommitCancel,
         CancelFails, Goto, TypeOK, InFlight, AtStock, AtPayment
    <2>2. QED
      BY <2>1 DEF OneInitiate
  <1>4. StockService \/ PaymentService \/ Expire => OneInitiate'
    BY DEF StockService, PaymentService, Expire, OneInitiate
  <1>5. ~ Faults
    BY DEF TypeOK, Faults, Fault, LoseReply, QueryFails, StockAborts, PaymentAborts, Crash
  <1>6. QED
    BY <1>1, <1>2, <1>3, <1>4, <1>5 DEF Next, Arrive

LEMMA CreatesAwaitedStep ==
    ASSUME TypeOK, MaxFaults = 0, CreatesAwaited, Next, ~ StockService
    PROVE  CreatesAwaited'
  <1> USE RequestsAssumption, Kinds
  <1>1. /\ \A r \in Initiates : Call("create", r) \in StockCalls
        /\ \A r \in Completes : Call("confirm", r) \in StockCalls
        /\ \A r \in Completes \cup Cancels : Call("restore", r) \in StockCalls
        /\ S!TypeOK
    BY CallsExist DEF TypeOK
  <1>2. \A c \in StockCalls :
           stockAt'[c] = stockAt[c] \/ (stockAt[c] = "idle" /\ stockAt'[c] = "begun")
    BY Elsewhere
  <1>3. \A c \in StockCalls : stockAt'[c] \in {"known", "checked"} => c.op = "create"
    BY <1>2 DEF CreatesAwaited
  <1>4. ASSUME NEW r \in Initiates, StockReply("create", r)' \in S!Running
        PROVE  pc'[r] = "reserving"
    <2>1. ASSUME NEW q \in Requests, Arrive(q)
          PROVE  pc'[r] = "reserving"
      <3>1. CASE Reserve(q)
        BY <1>1, <1>4, <3>1, CallFrame DEF Reserve, CreatesAwaited, Goto, TypeOK
      <3>2. CASE RejectItems(q) \/ FindToComplete(q) \/ FindToCancel(q)
        BY <1>4, <3>2 DEF RejectItems, FindToComplete, FindToCancel, CreatesAwaited, Goto,
           TypeOK, stockVars, StockReply
      <3>3. QED
        BY <2>1, <3>1, <3>2 DEF Arrive
    <2>2. ASSUME NEW q \in Requests, RequestStep(q)
          PROVE  pc'[r] = "reserving"
      <3>1. CASE ConfirmStock(q) \/ FailOrder(q) \/ RestoreStock(q)
        BY <1>1, <1>4, <3>1, CallFrame
           DEF ConfirmStock, FailOrder, RestoreStock, CreatesAwaited, Goto, TypeOK
      <3>2. CASE CreatePayment(q) \/ InitiateFails(q) \/ CommitInitiate(q)
        BY <1>4, <3>2 DEF CreatePayment, InitiateFails, CommitInitiate, CreatesAwaited, Goto,
           TypeOK, stockVars, StockReply, S!Running
      <3>3. CASE \/ ConfirmPayment(q) \/ Charged(q) \/ CommitComplete(q) \/ EmitMail(q)
                 \/ CompleteFails(q) \/ RefundPayment(q) \/ FailureHandled(q)
                 \/ CancelPayment(q) \/ CommitCancel(q) \/ CancelFails(q)
        BY <1>4, <3>3 DEF ConfirmPayment, Charged, CommitComplete, EmitMail, CompleteFails,
           RefundPayment, FailureHandled, CancelPayment, CommitCancel, CancelFails,
           CreatesAwaited, Goto, TypeOK, stockVars, StockReply
      <3>4. QED
        BY <2>2, <3>1, <3>2, <3>3 DEF RequestStep
    <2>3. CASE PaymentService \/ Expire
      BY <1>4, <2>3 DEF PaymentService, Expire, S!Expire, stockVars, StockReply, CreatesAwaited
    <2>4. ~ Faults
      BY DEF TypeOK, Faults, Fault, LoseReply, QueryFails, StockAborts, PaymentAborts, Crash
    <2>5. QED
      BY <2>1, <2>2, <2>3, <2>4 DEF Next
  <1>5. QED
    BY <1>3, <1>4 DEF CreatesAwaited

LEMMA NothingExpires ==
    ASSUME TypeOK, MaxFaults = 0, PaysLate = FALSE, expired = {}, Next
    PROVE  expired' = {}
  <1>1. ASSUME NEW r \in Requests, Arrive(r)
        PROVE  expired' = {}
    BY <1>1 DEF Arrive, Reserve, RejectItems, FindToComplete, FindToCancel, stockVars, CallStock,
       S!Begin
  <1>2. ASSUME NEW r \in Requests, RequestStep(r)
        PROVE  expired' = {}
    BY <1>2 DEF RequestStep, CreatePayment, CommitInitiate, InitiateFails,
       ConfirmStock, ConfirmPayment, Charged, CommitComplete, EmitMail, CompleteFails, FailOrder,
       RefundPayment, FailureHandled, RestoreStock, CancelPayment, CommitCancel, CancelFails,
       stockVars, CallStock, S!Begin
  <1>3. CASE StockService
    BY <1>3, StockWrites DEF StockService, TypeOK
  <1>4. PaymentService => expired' = {}
    BY DEF PaymentService, stockVars
  <1>5. ~ Expire /\ ~ Faults
    BY DEF Expire, TypeOK, Faults, Fault, LoseReply, QueryFails, StockAborts, PaymentAborts, Crash
  <1>6. QED
    BY <1>1, <1>2, <1>3, <1>4, <1>5 DEF Next

(* When nothing fails, one instance reads the order queue and customers    *)
(* pay in time, what is reserved is in stock: createStockReservation sums  *)
(* the reservations and inserts its own later, and no other comes between. *)
(* With two consumers it is not so (run two_consumers), nor when the       *)
(* expired reservation of a late payment is confirmed.                     *)
THEOREM NothingOversold ==
    ASSUME MaxFaults = 0, PaysLate = FALSE, Consumers <= 1
    PROVE  Spec => []NoOversell
  <1>1. Init => Fits
    <2> SUFFICES ASSUME Init
                 PROVE  Fits
      OBVIOUS
    <2> USE OrderItems
    <2>1. /\ \A c \in StockCalls : stockAt[c] = "idle"
          /\ \A o \in Orders : ~ S!Live(o)
          /\ \A p \in stocked : stock[p] \in Nat
          /\ \A r \in Requests : pc[r] = "idle"
          /\ expired = {}
      BY DEF Init, S!Init, S!Live
    <2>2. \A p : S!Reserved(p) = 0
      <3>1. {o \in Orders : S!Live(o)} = {}
        BY <2>1
      <3>2. \A p : SP!Total(Qty, p, {}) = 0
        BY CallsProper, SP!TotalOfNone
      <3>3. QED
        BY <3>1, <3>2, ReservedIsSum DEF Sum
    <2>3. OneInitiate /\ CreatesAwaited /\ CheckedFits
      BY <2>1, CallsExist, Kinds DEF OneInitiate, CreatesAwaited, CheckedFits, StockReply,
         S!Running, InFlight, AtStock, AtPayment
    <2>4. QED
      BY <2>1, <2>2, <2>3, InitSold DEF Fits, NoOversell
  <1>2. ASSUME Fits, TypeOK', [Next]_vars
        PROVE  Fits'
    <2>1. Sold' /\ TypeOK
      BY <1>2, SoldStep DEF Fits, Sold, Kept, Forward, Once
    <2>2. CASE StockService
      BY <2>1, <2>2, <1>2, StockKeepsFits DEF StockService
    <2>3. CASE UNCHANGED vars
      <3>1. expired' = {} /\ OneInitiate' /\ CreatesAwaited'
        BY <1>2, <2>3 DEF vars, stockVars, Fits, OneInitiate, CreatesAwaited, StockReply
      <3>2. QED
        BY <1>2, <2>1, <2>3, <3>1, FitsStays DEF vars, stockVars
    <2>4. CASE Next /\ ~ StockService
      <3>1. expired' = {} /\ OneInitiate' /\ CreatesAwaited'
        BY <1>2, <2>1, <2>4, NothingExpires, OneInitiateStep, CreatesAwaitedStep DEF Fits
      <3>2. QED
        BY <1>2, <2>1, <2>4, <3>1, Elsewhere, FitsStays
    <2>5. QED
      BY <1>2, <2>2, <2>3, <2>4
  <1>3. Fits => NoOversell
    BY DEF Fits
  <1>4. QED
    BY <1>1, <1>2, <1>3, Typing, PTL DEF Spec

-----------------------------------------------------------------------------
(* The order service keeps to what Stock and Payment expect of clients.    *)
LEMMA StockSteps == [Next]_vars => [S!Next]_(S!vars)
  <1> SUFFICES ASSUME [Next]_vars
               PROVE  [S!Next]_(S!vars)
    OBVIOUS
  <1> USE Kinds, CallsExist
  <1>1. UNCHANGED stockVars => UNCHANGED S!vars
    BY DEF stockVars, S!vars
  <1>2. ASSUME NEW c \in StockCalls, S!Begin(c) \/ S!CallStep(c) \/ S!Abort(c)
        PROVE  S!Next
    BY <1>2 DEF S!Next
  <1>3. ASSUME NEW r \in Requests, Arrive(r)
        PROVE  [S!Next]_(S!vars)
    BY <1>1, <1>2, <1>3
       DEF Arrive, Reserve, RejectItems, FindToComplete, FindToCancel, CallStock
  <1>4. ASSUME NEW r \in Requests, RequestStep(r)
        PROVE  [S!Next]_(S!vars)
    BY <1>1, <1>2, <1>4 DEF RequestStep, CreatePayment, CommitInitiate, InitiateFails,
       ConfirmStock, ConfirmPayment, Charged, CommitComplete, EmitMail, CompleteFails, FailOrder,
       RefundPayment, FailureHandled, RestoreStock, CancelPayment, CommitCancel, CancelFails,
       CallStock
  <1>5. CASE StockService \/ StockAborts
    BY <1>2, <1>5 DEF StockService, StockAborts
  <1>6. CASE Expire
    BY <1>6 DEF Expire, S!Next
  <1>7. CASE \/ PaymentService \/ PaymentAborts
             \/ \E r \in Requests : LoseReply(r) \/ QueryFails(r)
             \/ \E R \in SUBSET Requests : Crash(R)
    BY <1>1, <1>7 DEF PaymentService, PaymentAborts, LoseReply, QueryFails, Crash
  <1>8. CASE UNCHANGED vars
    BY <1>1, <1>8 DEF vars
  <1>9. QED
    BY <1>3, <1>4, <1>5, <1>6, <1>7, <1>8 DEF Next, Faults

(* Whatever the order service and its failures do to the stock service is  *)
(* a behaviour of Stock with any clients.                                  *)
THEOREM UsesStock == Spec => S!Spec
  <1>1. Init => S!Init
    BY DEF Init
  <1>2. QED
    BY <1>1, StockSteps, PTL DEF Spec, S!Spec

LEMMA SerialCall ==
    ASSUME Agreement, NEW op, NEW r \in Requests, Call(op, r) \in PaymentCalls,
           CallPayment(op, r),
           \/ op = "create" /\ r \in Initiates /\ pc[r] = "reserving"
           \/ op = "confirm" /\ r \in Completes /\ pc[r] = "confirming"
           \/ op = "cancel" /\ r \in Cancels /\ pc[r] = "restoring"
    PROVE  P!Next
  <1> USE RequestsAssumption, Kinds
  <1>1. ASSUME NEW d \in PaymentCalls, d.order = r.order, payAt[d] \in P!Running
        PROVE  d = Call(op, r)
    <2>1. PICK q \in Requests :
             \/ q \in Initiates /\ d = Call("create", q) /\ pc[q] = "paying"
             \/ q \in Completes /\ d = Call("confirm", q) /\ pc[q] = "charging"
             \/ q \in Cancels /\ d = Call("cancel", q) /\ pc[q] = "canceling"
      BY <1>1 DEF PaymentCalls, Agreement, CallsAwaited, PaymentReply, P!Running
    <2>2. q.order = r.order
      BY <1>1, <2>1 DEF Call
    <2>3. CASE q \in Initiates
      BY <2>1, <2>2, <2>3 DEF Agreement, KnownAfterCommit, Initiates
    <2>4. CASE q \notin Initiates
      <3>1. lock[r.order] = q /\ ord[r.order] # "NONE"
        BY <2>1, <2>2, <2>4 DEF Agreement, HoldersLock, Holds, KnownAfterCommit
      <3>2. r \notin Initiates
        BY <3>1 DEF Agreement, KnownAfterCommit
      <3>3. lock[r.order] = r
        BY <3>2 DEF Agreement, HoldersLock, Holds
      <3>4. QED
        BY <2>1, <3>1, <3>3
    <2>5. QED
      BY <2>3, <2>4
  <1>2. Call(op, r).order = r.order
    BY DEF Call
  <1>3. P!BeginSerial(Call(op, r))
    BY <1>1, <1>2 DEF P!BeginSerial, CallPayment
  <1>4. QED
    BY <1>3 DEF P!Next

LEMMA PaymentSteps ==
    ASSUME MaxFaults = 0, Agreement, [Next]_vars
    PROVE  [P!Next]_(P!vars)
  <1> USE Kinds, CallsExist
  <1>1. UNCHANGED payVars => UNCHANGED P!vars
    BY DEF payVars, P!vars
  <1>2. ASSUME NEW r \in Requests, Arrive(r)
        PROVE  UNCHANGED payVars
    BY <1>2 DEF Arrive, Reserve, RejectItems, FindToComplete, FindToCancel
  <1>3. ASSUME NEW r \in Requests, RequestStep(r)
        PROVE  [P!Next]_(P!vars)
    <2>1. CASE CreatePayment(r)
      BY <2>1, SerialCall DEF CreatePayment
    <2>2. CASE ConfirmPayment(r)
      BY <2>2, SerialCall DEF ConfirmPayment
    <2>3. CASE CancelPayment(r)
      BY <2>3, SerialCall DEF CancelPayment
    <2>4. ~ RefundPayment(r)
      BY DEF RefundPayment, Agreement, PaidCommits
    <2>5. QED
      BY <1>1, <1>3, <2>1, <2>2, <2>3, <2>4 DEF RequestStep, CommitInitiate, InitiateFails,
         ConfirmStock, Charged, CommitComplete, EmitMail, CompleteFails, FailOrder,
         FailureHandled, RestoreStock, CommitCancel, CancelFails
  <1>4. CASE PaymentService
    BY <1>4 DEF PaymentService, P!Next
  <1>5. CASE StockService \/ Expire
    BY <1>1, <1>5 DEF StockService, Expire
  <1>6. ~ Faults
    BY DEF Agreement, TypeOK, Faults, Fault, LoseReply, QueryFails, StockAborts, PaymentAborts,
       Crash
  <1>7. CASE UNCHANGED vars
    BY <1>1, <1>7 DEF vars
  <1>8. QED
    BY <1>1, <1>2, <1>3, <1>4, <1>5, <1>6, <1>7 DEF Next

(* When nothing fails, the order service is a client such as Payment asks  *)
(* for: no call for a payment begins while another is in progress, since   *)
(* completes and cancels hold the row of the order while they call, and    *)
(* nobody knows the order before its initiate has committed.               *)
THEOREM UsesPayment == ASSUME MaxFaults = 0 PROVE Spec => P!Spec
  <1>1. Init => P!Init
    BY DEF Init
  <1>2. ASSUME Agreement, TypeOK', [Next]_vars
        PROVE  Agreement'
    BY <1>2, AgreementStep, AgreementStutter
  <1>3. ASSUME Agreement, [Next]_vars
        PROVE  [P!Next]_(P!vars)
    BY <1>3, PaymentSteps
  <1>4. QED
    BY <1>1, <1>2, <1>3, InitAgreement, Typing, PTL DEF Spec, P!Spec

-----------------------------------------------------------------------------
(* What is proved of the components alone holds of the whole.              *)

LEMMA SameAvailable == \A o : S!Available(o) <=> SP!Available(o)
  <1>1. \A p : S!Reserved(p) = SP!Reserved(p)
    BY DEF S!Reserved, S!MapThenSumSet, S!MapThenFoldSet, S!Live,
       SP!Reserved, SP!MapThenSumSet, SP!MapThenFoldSet, SP!Live
  <1>2. QED
    BY <1>1 DEF S!Available, SP!Available, S!Items, SP!Items

LEMMA SameStock == [S!Next]_(S!vars) => [SP!Next]_(SP!vars)
  <1> USE DEF S!Goto, SP!Goto, S!SetResv, SP!SetResv, S!Items, SP!Items, S!Deduct, SP!Deduct,
          S!PutBack, SP!PutBack, S!Running, SP!Running
  <1>1. \A c : S!CreateCheckStock(c) => SP!CreateCheckStock(c)
    BY SameAvailable DEF S!CreateCheckStock, SP!CreateCheckStock
  <1>2. \A c : S!CreateCheckProducts(c) \/ S!CreateInsert(c) => SP!CallStep(c)
    BY DEF S!CreateCheckProducts, S!CreateInsert, SP!CreateCheckProducts, SP!CreateInsert,
       SP!CallStep
  <1>3. \A c : S!ConfirmFind(c) \/ S!ConfirmWrite(c) \/ S!RestoreFind(c) \/ S!RestoreWrite(c)
                 => SP!CallStep(c)
    BY DEF S!ConfirmFind, S!ConfirmWrite, S!RestoreFind, S!RestoreWrite, SP!ConfirmFind,
       SP!ConfirmWrite, SP!RestoreFind, SP!RestoreWrite, SP!CallStep
  <1>4. \A c : S!CallStep(c) => SP!CallStep(c)
    BY <1>1, <1>2, <1>3 DEF S!CallStep, SP!CallStep
  <1>5. \A c : S!Begin(c) \/ S!Abort(c) => SP!Begin(c) \/ SP!Abort(c)
    BY DEF S!Begin, S!Abort, SP!Begin, SP!Abort
  <1>6. \A o : S!Expire(o) => SP!Expire(o)
    BY DEF S!Expire, SP!Expire, S!Live, SP!Live
  <1>7. S!Admin => SP!Admin
    BY DEF S!Admin, SP!Admin, S!DeleteProduct, SP!DeleteProduct, S!UpsertStock, SP!UpsertStock
  <1>8. QED
    BY <1>4, <1>5, <1>6, <1>7 DEF S!Next, SP!Next, S!vars, SP!vars

(* The rows that a reservation refers to are kept, whatever order service  *)
(* and failures do (createStockReservation).                               *)
THEOREM RowsKept == Spec => []S!ReservedRowsHaveStock
  <1>1. Init => SP!IInv
    <2>1. Init => SP!Init
      BY DEF Init, S!Init, SP!Init
    <2>2. QED
      BY <2>1, CallsProper, OrderItems, SP!InitInv
  <1>2. SP!IInv /\ [Next]_vars => SP!IInv'
    BY StockSteps, SameStock, CallsProper, OrderItems, SP!StepInv
  <1>3. SP!IInv => S!ReservedRowsHaveStock
    BY DEF SP!IInv, SP!ReservedRowsHaveStock, S!ReservedRowsHaveStock, SP!Items, S!Items
  <1>4. QED
    BY <1>1, <1>2, <1>3, PTL DEF Spec

-----------------------------------------------------------------------------
(* The life of a payment, whatever fails.  A request that is gone leaves   *)
(* its payment call running and the row unlocked, so calls for a payment   *)
(* may overlap.  But only one confirm is ever made for an order: the next  *)
(* complete finds no PENDING reservation, even if the one that charged is  *)
(* dead.  And two refunds that overlap save the same.                      *)
Asked(r) == PaymentReply("confirm", r) # "idle"

AskedAfterDeduction == \A r \in Completes : Asked(r) => StockReply("confirm", r) = "ok"

OthersFindNothing ==
    \A r, q \in Completes :
        Asked(r) /\ r # q /\ r.order = q.order /\ pc[q] = "confirming"
        => StockReply("confirm", q) \in {"begun", "err"}

AskedOnce == \A r, q \in Completes : Asked(r) /\ Asked(q) /\ r.order = q.order => r = q

NothingBeforeCreated ==
    \A r \in Initiates : PaymentReply("create", r) # "ok" => pay[r.order] = "NONE"

(* What a call found is so when it saves, or saved already.                *)
ConfirmSeesUnpaid ==
    \A r \in Completes : PaymentReply("confirm", r) = "found" => pay[r.order] = "PENDING"

CancelSeesCharged ==
    \A r \in Completes \cup Cancels :
        PaymentReply("cancel", r) = "found" => pay[r.order] \in {"SUCCESS", "CANCELED"}

ChargedOnce ==
    /\ Once
    /\ AskedAfterDeduction
    /\ OthersFindNothing
    /\ AskedOnce
    /\ NothingBeforeCreated
    /\ ConfirmSeesUnpaid
    /\ CancelSeesCharged

(* What a step may do to a payment.                                        *)
PaymentMove ==
    \A o \in Orders : pay'[o] # pay[o] =>
        <<pay[o], pay'[o]>> \in {<<"NONE", "PENDING">>, <<"PENDING", "SUCCESS">>,
                                <<"SUCCESS", "CANCELED">>, <<"SUCCESS", "FAILED">>}

LEMMA PaymentEffect ==
    ASSUME P!TypeOK, NEW c \in PaymentCalls, P!CallStep(c) \/ P!Abort(c)
    PROVE  /\ \A d \in PaymentCalls \ {c} : payAt'[d] = payAt[d]
           /\ payAt[c] \in P!Running /\ payAt'[c] \in {"found", "ok", "err"}
           /\ \A o \in Orders : o # c.order => pay'[o] = pay[o]
           /\ payAt'[c] # "ok" => pay' = pay
           /\ payAt'[c] = "ok" => pay'[c.order] =
                  CASE c.op = "create" -> "PENDING" [] c.op = "confirm" -> "SUCCESS"
                    [] OTHER -> "CANCELED"
           /\ payAt'[c] = "ok" /\ c.op # "create" => payAt[c] = "found"
           /\ payAt'[c] = "found" =>
                  pay[c.order] = IF c.op = "confirm" THEN "PENDING" ELSE "SUCCESS"
  BY CallsTyped DEF P!TypeOK, P!Running, P!Goto, P!CallStep, P!Create, P!Find, P!Save, P!Abort,
     P!From, P!To

LEMMA PaymentKeepsCharged ==
    ASSUME ChargedOnce, Once', NEW c \in PaymentCalls, P!CallStep(c) \/ P!Abort(c),
           UNCHANGED <<stockVars, pc>>
    PROVE  ChargedOnce' /\ PaymentMove
  <1>1. /\ \A r \in Initiates : Call("create", r) \in PaymentCalls
        /\ \A r \in Completes : Call("confirm", r) \in PaymentCalls
        /\ \A r \in Completes \cup Cancels : Call("cancel", r) \in PaymentCalls
        /\ \A r \in Requests : r.order \in Orders
        /\ Initiates \subseteq Requests /\ Completes \subseteq Requests /\ Cancels \subseteq Requests
        /\ P!TypeOK
    BY CallsExist, Kinds, RequestsAssumption DEF ChargedOnce, Once, TypeOK
  <1>2. PICK r \in Requests :
           \/ r \in Initiates /\ c = Call("create", r)
           \/ r \in Completes /\ c = Call("confirm", r)
           \/ r \in Completes \cup Cancels /\ c = Call("cancel", r)
    BY <1>1 DEF PaymentCalls
  <1>3. c.order = r.order /\ c.order \in Orders
    BY <1>1, <1>2 DEF Call
  <1>4. \A op, q : q \in Requests /\ (q # r \/ c.op # op) /\ Call(op, q) \in PaymentCalls
                   => PaymentReply(op, q)' = PaymentReply(op, q)
    BY <1>1, <1>2, CallsDiffer, PaymentEffect DEF PaymentReply, Call
  <1>5. \A o \in Orders : o # r.order => pay'[o] = pay[o]
    BY <1>1, <1>3, PaymentEffect
  <1>6. payAt[c] \in {"begun", "found"} /\ payAt'[c] \in {"found", "ok", "err"}
    BY <1>1, PaymentEffect DEF P!Running
  <1>7. ASSUME NEW q \in Completes
        PROVE  Asked(q)' <=> Asked(q)
    <2>1. CASE c = Call("confirm", q)
      BY <1>6, <2>1 DEF Asked, PaymentReply
    <2>2. CASE c # Call("confirm", q)
      BY <1>1, <2>2, PaymentEffect DEF Asked, PaymentReply
    <2>3. QED
      BY <2>1, <2>2
  <1>8. AskedAfterDeduction' /\ OthersFindNothing' /\ AskedOnce'
    BY <1>7 DEF ChargedOnce, AskedAfterDeduction, OthersFindNothing, AskedOnce, stockVars,
       StockReply
  <1> USE DEF NothingBeforeCreated, ConfirmSeesUnpaid, CancelSeesCharged
  <1>9. CASE r \in Initiates /\ c = Call("create", r)
    <2>1. c.op = "create" /\ PaymentReply("create", r) # "ok" /\ pay[r.order] = "NONE"
      BY <1>6, <1>9 DEF ChargedOnce, PaymentReply, Call
    <2>2. /\ \A q \in Completes : PaymentReply("confirm", q)' = PaymentReply("confirm", q)
          /\ \A q \in Completes \cup Cancels : PaymentReply("cancel", q)' = PaymentReply("cancel", q)
          /\ \A q \in Initiates : q # r => PaymentReply("create", q)' = PaymentReply("create", q)
      BY <1>1, <1>4, <2>1
    <2>3. pay'[r.order] = "NONE" \/ (PaymentReply("create", r)' = "ok" /\ pay'[r.order] = "PENDING")
      BY <1>1, <1>3, <1>9, <2>1, PaymentEffect DEF PaymentReply
    <2>4. NothingBeforeCreated'
      BY <1>1, <1>5, <1>9, <2>2, <2>3, RequestsAssumption DEF ChargedOnce, Initiates
    <2>5. ConfirmSeesUnpaid' /\ CancelSeesCharged'
      BY <1>1, <1>5, <2>1, <2>2 DEF ChargedOnce
    <2>6. PaymentMove
      BY <1>5, <2>1, <2>3 DEF PaymentMove
    <2>7. QED
      BY <1>8, <2>4, <2>5, <2>6 DEF ChargedOnce
  <1>10. CASE r \in Completes /\ c = Call("confirm", r)
    <2>1. c.op = "confirm"
      BY <1>10 DEF Call
    <2>2. /\ \A q \in Completes : q # r => PaymentReply("confirm", q)' = PaymentReply("confirm", q)
          /\ \A q \in Completes \cup Cancels : PaymentReply("cancel", q)' = PaymentReply("cancel", q)
          /\ \A q \in Initiates : PaymentReply("create", q)' = PaymentReply("create", q)
      BY <1>1, <1>4, <2>1
    <2>3. \A q \in Completes : q.order = r.order /\ q # r => PaymentReply("confirm", q) = "idle"
      BY <1>6, <1>10 DEF ChargedOnce, AskedOnce, Asked, PaymentReply
    <2>4. CASE payAt'[c] # "ok"
      <3>1. pay' = pay /\ (payAt'[c] = "found" => pay[r.order] = "PENDING")
        BY <1>1, <1>3, <2>1, <2>4, PaymentEffect
      <3>2. ConfirmSeesUnpaid'
        BY <1>10, <2>2, <3>1 DEF ChargedOnce, PaymentReply
      <3>3. NothingBeforeCreated' /\ CancelSeesCharged' /\ PaymentMove
        BY <2>2, <3>1 DEF ChargedOnce, PaymentMove
      <3>4. QED
        BY <1>8, <3>2, <3>3 DEF ChargedOnce
    <2>5. CASE payAt'[c] = "ok"
      <3>1. pay[r.order] = "PENDING" /\ pay'[r.order] = "SUCCESS"
        BY <1>1, <1>3, <1>10, <2>1, <2>5, PaymentEffect DEF ChargedOnce, PaymentReply
      <3>2. NothingBeforeCreated' /\ CancelSeesCharged'
        BY <1>1, <1>5, <2>2, <3>1 DEF ChargedOnce
      <3>3. ConfirmSeesUnpaid'
        BY <1>1, <1>5, <1>10, <2>2, <2>3, <2>5 DEF ChargedOnce, PaymentReply
      <3>4. PaymentMove
        BY <1>5, <3>1 DEF PaymentMove
      <3>5. QED
        BY <1>8, <3>2, <3>3, <3>4 DEF ChargedOnce
    <2>6. QED
      BY <2>4, <2>5
  <1>11. CASE r \in Completes \cup Cancels /\ c = Call("cancel", r)
    <2>1. c.op = "cancel"
      BY <1>11 DEF Call
    <2>2. /\ \A q \in Completes : PaymentReply("confirm", q)' = PaymentReply("confirm", q)
          /\ \A q \in Completes \cup Cancels :
                q # r => PaymentReply("cancel", q)' = PaymentReply("cancel", q)
          /\ \A q \in Initiates : PaymentReply("create", q)' = PaymentReply("create", q)
      BY <1>1, <1>4, <2>1
    <2>3. CASE payAt'[c] # "ok"
      <3>1. pay' = pay /\ (payAt'[c] = "found" => pay[r.order] = "SUCCESS")
        BY <1>1, <1>3, <2>1, <2>3, PaymentEffect
      <3>2. CancelSeesCharged'
        BY <1>11, <2>2, <3>1 DEF ChargedOnce, PaymentReply
      <3>3. NothingBeforeCreated' /\ ConfirmSeesUnpaid' /\ PaymentMove
        BY <2>2, <3>1 DEF ChargedOnce, PaymentMove
      <3>4. QED
        BY <1>8, <3>2, <3>3 DEF ChargedOnce
    <2>4. CASE payAt'[c] = "ok"
      <3>1. pay[r.order] \in {"SUCCESS", "CANCELED"} /\ pay'[r.order] = "CANCELED"
        BY <1>1, <1>3, <1>11, <2>1, <2>4, PaymentEffect DEF ChargedOnce, PaymentReply
      <3>2. NothingBeforeCreated' /\ ConfirmSeesUnpaid' /\ CancelSeesCharged'
        BY <1>1, <1>5, <1>11, <2>2, <2>4, <3>1 DEF ChargedOnce, PaymentReply
      <3>3. PaymentMove
        BY <1>5, <3>1 DEF PaymentMove
      <3>4. QED
        BY <1>8, <3>2, <3>3 DEF ChargedOnce
    <2>5. QED
      BY <2>3, <2>4
  <1>12. QED
    BY <1>2, <1>9, <1>10, <1>11

LEMMA StockKeepsCharged ==
    ASSUME ChargedOnce, Once', NEW c \in StockCalls, S!CallStep(c) \/ S!Abort(c),
           UNCHANGED <<payVars, pc>>
    PROVE  ChargedOnce'
  <1>1. /\ \A r \in Completes : Call("confirm", r) \in StockCalls
        /\ \A r \in Requests : r.order \in Orders
        /\ Completes \subseteq Requests
        /\ S!TypeOK
    BY CallsExist, Kinds, RequestsAssumption DEF ChargedOnce, Once, TypeOK
  <1>2. \A op, r : PaymentReply(op, r)' = PaymentReply(op, r) /\ (Asked(r)' <=> Asked(r))
    BY DEF payVars, PaymentReply, Asked
  <1>3. AskedAfterDeduction'
    BY <1>1, <1>2, StockFrame DEF ChargedOnce, AskedAfterDeduction, StockReply
  <1>4. ASSUME NEW r \in Completes, NEW q \in Completes, Asked(r), r # q, r.order = q.order,
               pc[q] = "confirming"
        PROVE  StockReply("confirm", q)' \in {"begun", "err"}
    <2>1. resv[q.order] # "PENDING"
      BY <1>4 DEF ChargedOnce, AskedAfterDeduction, Once, ConfirmedForGood
    <2>2. StockReply("confirm", q) \in {"begun", "err"}
      BY <1>4 DEF ChargedOnce, OthersFindNothing
    <2>3. QED
      BY <1>1, <2>1, <2>2, StockFrame, StockEffect DEF StockReply, Call
  <1>5. OthersFindNothing'
    BY <1>2, <1>4 DEF OthersFindNothing
  <1>6. QED
    BY <1>2, <1>3, <1>5 DEF ChargedOnce, AskedOnce, NothingBeforeCreated, ConfirmSeesUnpaid,
       CancelSeesCharged, payVars
(* A request's own steps leave the payments alone.                         *)
LEMMA RequestKeepsCharged ==
    ASSUME ChargedOnce, Once', NEW r \in Requests, Arrive(r) \/ RequestStep(r)
    PROVE  ChargedOnce' /\ UNCHANGED pay
  <1> USE Kinds, CallsExist
  <1> USE DEF AskedAfterDeduction, OthersFindNothing, AskedOnce, NothingBeforeCreated,
          ConfirmSeesUnpaid, CancelSeesCharged, Asked, Goto
  <1>1. S!TypeOK /\ P!TypeOK /\ pc \in [Requests -> InFlight \cup Finished \cup {"idle"}] /\ HoldersLock
    BY DEF ChargedOnce, Once, TypeOK
  <1>2. UNCHANGED stockVars => \A op, q : StockReply(op, q)' = StockReply(op, q)
    BY DEF stockVars, StockReply
  <1>3. UNCHANGED payVars => UNCHANGED pay /\ \A op, q : PaymentReply(op, q)' = PaymentReply(op, q)
    BY DEF payVars, PaymentReply
  <1>4. CASE ConfirmPayment(r)
    <2>1. /\ r \in Completes /\ pc[r] = "confirming" /\ StockReply("confirm", r) = "ok"
          /\ pc' = [pc EXCEPT ![r] = "charging"]
          /\ \A op, q : StockReply(op, q)' = StockReply(op, q)
      BY <1>2, <1>4 DEF ConfirmPayment
    <2>2. /\ pay' = pay /\ PaymentReply("confirm", r)' = "begun"
          /\ \A q \in Completes : q # r => PaymentReply("confirm", q)' = PaymentReply("confirm", q)
          /\ \A q \in Completes \cup Cancels : PaymentReply("cancel", q)' = PaymentReply("cancel", q)
          /\ \A q \in Initiates : PaymentReply("create", q)' = PaymentReply("create", q)
      BY <1>1, <1>4, PaymentCallFrame DEF ConfirmPayment
    <2>3. \A q \in Completes : q # r /\ q.order = r.order => pc[q] # "confirming" /\ ~ Asked(q)
      BY <1>1, <2>1 DEF ChargedOnce, HoldersLock, Holds
    <2>4. AskedAfterDeduction' /\ AskedOnce'
      BY <2>1, <2>2, <2>3 DEF ChargedOnce
    <2>5. OthersFindNothing'
      BY <1>1, <2>1, <2>2, <2>3 DEF ChargedOnce
    <2>6. NothingBeforeCreated' /\ ConfirmSeesUnpaid' /\ CancelSeesCharged'
      BY <2>2 DEF ChargedOnce
    <2>7. QED
      BY <2>2, <2>4, <2>5, <2>6 DEF ChargedOnce
  <1>5. CASE CreatePayment(r) \/ RefundPayment(r) \/ CancelPayment(r)
    <2>1. /\ pay' = pay
          /\ \A q \in Completes : PaymentReply("confirm", q)' = PaymentReply("confirm", q)
          /\ \A q \in Completes \cup Cancels :
                PaymentReply("cancel", q)' \in {PaymentReply("cancel", q), "begun"}
          /\ \A q \in Initiates :
                \/ PaymentReply("create", q)' = PaymentReply("create", q)
                \/ PaymentReply("create", q) = "idle"
      BY <1>1, <1>5, PaymentCallFrame DEF CreatePayment, RefundPayment, CancelPayment
    <2>2. /\ \A op, q : StockReply(op, q)' = StockReply(op, q)
          /\ \A q \in Completes : pc'[q] = "confirming" => pc[q] = "confirming"
      BY <1>1, <1>2, <1>5 DEF CreatePayment, RefundPayment, CancelPayment
    <2>3. QED
      BY <2>1, <2>2 DEF ChargedOnce
  <1>6. CASE ConfirmStock(r)
    <2>1. /\ r \in Completes /\ pc' = [pc EXCEPT ![r] = "confirming"]
          /\ StockReply("confirm", r)' = "begun" /\ StockReply("confirm", r) = "idle"
          /\ \A q \in Completes : q # r => StockReply("confirm", q)' = StockReply("confirm", q)
      BY <1>1, <1>6, CallFrame DEF ConfirmStock
    <2>2. UNCHANGED pay /\ \A op, q : PaymentReply(op, q)' = PaymentReply(op, q)
      BY <1>3, <1>6 DEF ConfirmStock
    <2>3. QED
      BY <1>1, <2>1, <2>2 DEF ChargedOnce
  <1>7. CASE Reserve(r) \/ FailOrder(r) \/ RestoreStock(r)
    <2>1. \A q \in Completes : StockReply("confirm", q)' = StockReply("confirm", q)
      BY <1>1, <1>7, CallFrame DEF Reserve, FailOrder, RestoreStock
    <2>2. /\ UNCHANGED pay /\ \A op, q : PaymentReply(op, q)' = PaymentReply(op, q)
          /\ \A q \in Completes : pc'[q] = "confirming" => pc[q] = "confirming"
      BY <1>1, <1>3, <1>7 DEF Reserve, FailOrder, RestoreStock
    <2>3. QED
      BY <2>1, <2>2 DEF ChargedOnce
  <1>8. CASE \/ RejectItems(r) \/ FindToComplete(r) \/ FindToCancel(r) \/ CommitInitiate(r)
             \/ InitiateFails(r) \/ Charged(r) \/ CommitComplete(r) \/ EmitMail(r)
             \/ CompleteFails(r) \/ FailureHandled(r) \/ CommitCancel(r) \/ CancelFails(r)
    <2>1. UNCHANGED <<stockVars, payVars>>
      BY <1>8 DEF RejectItems, FindToComplete, FindToCancel, CommitInitiate, InitiateFails, Charged,
         CommitComplete, EmitMail, CompleteFails, FailureHandled, CommitCancel, CancelFails
    <2>2. \A q \in Completes : pc'[q] = "confirming" => pc[q] = "confirming"
      BY <1>1, <1>8 DEF RejectItems, FindToComplete, FindToCancel, CommitInitiate, InitiateFails,
         Charged, CommitComplete, EmitMail, CompleteFails, FailureHandled, CommitCancel, CancelFails
    <2>3. QED
      BY <1>2, <1>3, <2>1, <2>2 DEF ChargedOnce
  <1>9. QED
    BY <1>4, <1>5, <1>6, <1>7, <1>8 DEF Arrive, RequestStep

LEMMA ChargedStays ==
    ASSUME ChargedOnce, Once', UNCHANGED <<stockAt, payAt, pay>>,
           \A q \in Completes : pc'[q] = "confirming" => pc[q] = "confirming"
    PROVE  ChargedOnce'
  BY DEF ChargedOnce, AskedAfterDeduction, OthersFindNothing, AskedOnce, NothingBeforeCreated,
     ConfirmSeesUnpaid, CancelSeesCharged, Asked, StockReply, PaymentReply

LEMMA ChargedStep ==
    ASSUME ChargedOnce, Once', [Next]_vars
    PROVE  ChargedOnce' /\ [PaymentMove]_pay
  <1>1. CASE \E r \in Requests : Arrive(r) \/ RequestStep(r)
    BY <1>1, RequestKeepsCharged
  <1>2. CASE StockService \/ StockAborts
    <2>1. UNCHANGED pay
      BY <1>2 DEF StockService, StockAborts, payVars
    <2>2. QED
      BY <1>2, <2>1, StockKeepsCharged DEF StockService, StockAborts
  <1>3. CASE PaymentService \/ PaymentAborts
    BY <1>3, PaymentKeepsCharged DEF PaymentService, PaymentAborts
  <1>4. CASE Expire
    BY <1>4, ChargedStays DEF Expire, S!Expire, payVars
  <1>5. ASSUME NEW r \in Requests, LoseReply(r) \/ QueryFails(r)
        PROVE  ChargedOnce' /\ UNCHANGED pay
    <2>1. pc' = [pc EXCEPT ![r] = Handler(r)] /\ Handler(r) # "confirming"
      BY <1>5 DEF LoseReply, QueryFails, Goto, Handler
    <2>2. \A q \in Requests : pc'[q] = "confirming" => pc[q] = "confirming"
      BY <2>1 DEF ChargedOnce, Once, TypeOK
    <2>3. UNCHANGED <<stockAt, payAt, pay>>
      BY <1>5 DEF LoseReply, QueryFails, stockVars, payVars
    <2>4. QED
      BY <2>2, <2>3, Kinds, ChargedStays
  <1>6. ASSUME NEW R \in SUBSET Requests, Crash(R)
        PROVE  ChargedOnce' /\ UNCHANGED pay
    BY <1>6, Kinds, ChargedStays DEF Crash, stockVars, payVars
  <1>7. CASE UNCHANGED vars
    BY <1>7, ChargedStays DEF vars, stockVars, payVars
  <1>8. QED
    BY <1>1, <1>2, <1>3, <1>4, <1>5, <1>6, <1>7 DEF Next, Faults

LEMMA InitCharged == Init => ChargedOnce
  <1> SUFFICES ASSUME Init
               PROVE  ChargedOnce
    OBVIOUS
  <1>1. /\ \A c \in PaymentCalls : payAt[c] = "idle"
        /\ \A o \in Orders : pay[o] = "NONE"
        /\ \A r \in Requests : r.order \in Orders
    BY RequestsAssumption DEF Init, P!Init
  <1>2. QED
    BY <1>1, InitOnce, CallsExist, Kinds DEF ChargedOnce, AskedAfterDeduction, OthersFindNothing,
       AskedOnce, NothingBeforeCreated, ConfirmSeesUnpaid, CancelSeesCharged, Asked, PaymentReply

(* Every payment is charged once and refunded once at most, for any number *)
(* of completes and cancels of the order and any failures, also of those   *)
(* that hold the row (completeOrder 208-222, cancelOrder 306-310).         *)
THEOREM PaymentLives == Spec => P!Lifecycle
  <1>1. ASSUME Once, TypeOK', [Next]_vars
        PROVE  Once'
    BY <1>1, OnceStep, OnceStutter
  <1>2. ChargedOnce /\ Once' /\ [Next]_vars => ChargedOnce' /\ [PaymentMove]_pay
    BY ChargedStep
  <1>3. QED
    BY <1>1, <1>2, InitOnce, InitCharged, Typing, PTL DEF Spec, P!Lifecycle, PaymentMove
=============================================================================
