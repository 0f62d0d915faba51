-------------------------- MODULE MailQueue_proofs --------------------------
(***************************************************************************)
(* For any orders, workers and crashes: mails are for paid orders, are not *)
(* forgotten untried, and arrive twice only after a crash.  All rest on    *)
(* where the mail of an order can be: nowhere before it is emitted, then   *)
(* in the queue or in the hands of one worker, then acknowledged.          *)
(***************************************************************************)
EXTENDS MailQueue, TLAPS

HoldsMail == \A w \in Workers : pc[w] # "idle" <=> held[w] # None

OnePlace ==
    /\ \A w \in Workers : held[w] \notin queue /\ held[w] \notin acked
    /\ \A v, w \in Workers : held[v] = held[w] /\ held[w] # None => v = w
    /\ \A o \in queue : o \notin acked

Emitted ==
    /\ \A o \in Orders : arrived[o] > 0 => order[o] = "mailed"
    /\ \A o \in queue \cup acked : order[o] = "mailed"
    /\ \A w \in Workers : held[w] # None => order[held[w]] = "mailed"

Tried ==
    /\ \A o \in acked : tried[o] > 0
    /\ \A w \in Workers : pc[w] \in {"sending", "acking"} => tried[held[w]] > 0

(* Before a mail is handed over again, a crash has paid for it.            *)
Counted ==
    /\ \A o \in Orders : arrived[o] <= 1 + crashes
    /\ \A o \in queue : arrived[o] <= crashes
    /\ \A w \in Workers : pc[w] \in {"given", "sending"} => arrived[held[w]] <= crashes

IInv == TypeOK /\ HoldsMail /\ OnePlace /\ Emitted /\ Tried /\ Counted

LEMMA InitInv == Init => IInv
<1> SUFFICES ASSUME Init PROVE IInv
    OBVIOUS
<1> USE NoneAssumption, BoundAssumption DEF Init
<1>1. TypeOK
    BY DEF TypeOK
<1>2. HoldsMail /\ OnePlace /\ Emitted
    BY DEF HoldsMail, OnePlace, Emitted
<1>3. Tried /\ Counted
    BY DEF Tried, Counted
<1>4. QED
    BY <1>1, <1>2, <1>3 DEF IInv

LEMMA StepInv == IInv /\ [Next]_vars => IInv'
<1> SUFFICES ASSUME IInv, [Next]_vars PROVE IInv'
    OBVIOUS
<1> USE NoneAssumption, BoundAssumption
    DEF IInv, TypeOK, HoldsMail, OnePlace, Emitted, Tried, Counted, Goto
<1>0. CASE UNCHANGED vars
    BY <1>0 DEF vars
<1>1. ASSUME NEW o \in Orders, Complete(o) PROVE IInv'
    BY <1>1 DEF Complete
<1>2. ASSUME NEW o \in Orders, Emit(o) PROVE IInv'
    BY <1>2 DEF Emit
<1>3. ASSUME NEW o \in Orders, OrderCrash(o) PROVE IInv'
    BY <1>3 DEF OrderCrash
<1>4. ASSUME NEW w \in Workers, NEW o \in Orders, Deliver(w, o) PROVE IInv'
    BY <1>4 DEF Deliver
<1>5. ASSUME NEW w \in Workers, Send(w) PROVE IInv'
    BY <1>5 DEF Send
<1>6. ASSUME NEW w \in Workers, Answer(w) PROVE IInv'
    BY <1>6 DEF Answer
<1>7. ASSUME NEW w \in Workers, Ack(w) PROVE IInv'
    BY <1>7 DEF Ack
<1>8. ASSUME NEW w \in Workers, WorkerCrash(w) PROVE IInv'
    BY <1>8 DEF WorkerCrash
<1>9. QED
    BY <1>0, <1>1, <1>2, <1>3, <1>4, <1>5, <1>6, <1>7, <1>8 DEF Next, Work

LEMMA Invariance == Spec => []IInv
BY InitInv, StepInv, PTL DEF Spec

(* Types, whatever dies. *)
THEOREM MailTyping == Spec => []TypeOK
<1>1. IInv => TypeOK
    BY DEF IInv
<1>2. QED
    BY <1>1, Invariance, PTL

(* No mail arrives for an order whose payment was not committed.           *)
THEOREM MailsArePaidFor == Spec => []MailOnlyWhenPaid
<1>1. IInv => MailOnlyWhenPaid
    BY DEF IInv, Emitted, MailOnlyWhenPaid
<1>2. QED
    BY <1>1, Invariance, PTL

(* The finally block forgets a mail only after the mail server had it.     *)
THEOREM NoMailForgotten == Spec => []ForgottenWhenTried
<1>1. IInv => ForgottenWhenTried
    BY DEF IInv, OnePlace, Tried, ForgottenWhenTried
<1>2. QED
    BY <1>1, Invariance, PTL

(* Every copy of a mail after the first is paid for by a dead instance.    *)
THEOREM CopiesAreCrashes == Spec => []CopiesCostCrashes
<1>1. IInv => CopiesCostCrashes
    BY DEF IInv, Counted, CopiesCostCrashes
<1>2. QED
    BY <1>1, Invariance, PTL
=============================================================================
