-------------------------- MODULE Payment_proofs ---------------------------
(***************************************************************************)
(* For any number of orders and calls: the life of a payment.  The find of *)
(* an operation and its save are two steps, so Lifecycle alone is not      *)
(* inductive: what a call found must still hold when it saves, and it does *)
(* because no other call for the order is in progress in between.          *)
(***************************************************************************)
EXTENDS Payment, TLAPS

OneCallPerOrder ==
    \A c, d \in Calls :
        c.order = d.order /\ at[c] \in Running /\ at[d] \in Running => c = d

FoundStillHolds ==
    \A c \in Calls : at[c] = "found" => c.op # "create" /\ pay[c.order] = From(c.op)

(* createPayment inserts the row; only then has the order a status.        *)
CreatedOnce ==
    \A c \in Calls :
        c.op = "create" /\ at[c] \in {"idle", "begun"} => pay[c.order] = "NONE"

IInv == TypeOK /\ OneCallPerOrder /\ FoundStillHolds /\ CreatedOnce

LEMMA InitInv == Init => IInv
<1> SUFFICES ASSUME Init PROVE IInv
    OBVIOUS
<1> USE CallsAssumption DEF Init
<1>1. TypeOK
    BY DEF TypeOK, Running
<1>2. OneCallPerOrder /\ FoundStillHolds /\ CreatedOnce
    BY DEF OneCallPerOrder, FoundStillHolds, CreatedOnce, Running
<1>3. QED
    BY <1>1, <1>2 DEF IInv

LEMMA StepInv == IInv /\ [Next]_vars => IInv'
<1> SUFFICES ASSUME IInv, [Next]_vars PROVE IInv'
    OBVIOUS
<1> USE CallsAssumption DEF IInv, TypeOK, OneCallPerOrder, FoundStillHolds, CreatedOnce, Running
<1>1. ASSUME NEW c \in Calls, BeginSerial(c) PROVE IInv'
    BY <1>1 DEF BeginSerial, Begin, Goto
<1>2. ASSUME NEW c \in Calls, Create(c) PROVE IInv'
    BY <1>2 DEF Create, Goto
<1>3. ASSUME NEW c \in Calls, Find(c) PROVE IInv'
    BY <1>3 DEF Find, Goto
<1>4. ASSUME NEW c \in Calls, Save(c) PROVE IInv'
    BY <1>4 DEF Save, Goto, From, To
<1>5. ASSUME NEW c \in Calls, Abort(c) PROVE IInv'
    BY <1>5 DEF Abort, Goto
<1>6. CASE UNCHANGED vars
    BY <1>6 DEF vars
<1>7. QED
    BY <1>1, <1>2, <1>3, <1>4, <1>5, <1>6 DEF Next, CallStep

LEMMA Invariance == Spec => []IInv
BY InitInv, StepInv, PTL DEF Spec

(* Statuses and calls keep their types (PaymentEntity, PaymentStatus).     *)
THEOREM PaymentTyping == Spec => []TypeOK
<1>1. IInv => TypeOK
    BY DEF IInv
<1>2. QED
    BY <1>1, Invariance, PTL

(* What a step may do to a payment.                                        *)
Move ==
    \A o \in Orders : pay'[o] # pay[o] =>
        <<pay[o], pay'[o]>> \in {<<"NONE", "PENDING">>, <<"PENDING", "SUCCESS">>,
                                <<"SUCCESS", "CANCELED">>, <<"SUCCESS", "FAILED">>}

LEMMA MovesOn == IInv /\ [Next]_vars => [Move]_pay
<1> SUFFICES ASSUME IInv, [Next]_vars PROVE [Move]_pay
    OBVIOUS
<1> USE CallsAssumption DEF IInv, TypeOK, Move
<1>1. ASSUME NEW c \in Calls, Create(c) PROVE Move
    BY <1>1 DEF Create, CreatedOnce
<1>2. ASSUME NEW c \in Calls, Save(c) PROVE Move
    BY <1>2 DEF Save, FoundStillHolds, From, To
<1>3. ASSUME NEW c \in Calls, BeginSerial(c) \/ Find(c) \/ Abort(c) PROVE UNCHANGED pay
    BY <1>3 DEF BeginSerial, Begin, Find, Abort
<1>4. CASE UNCHANGED vars
    BY <1>4 DEF vars
<1>5. QED
    BY <1>1, <1>2, <1>3, <1>4 DEF Next, CallStep

(* Money is taken once and given back once at most, for every set of calls *)
(* that do not overlap on a payment (confirmPayment, cancelPayment,        *)
(* failPayment).                                                           *)
THEOREM PaymentLife == Spec => Lifecycle
BY Invariance, MovesOn, PTL DEF Spec, Lifecycle, Move
=============================================================================
