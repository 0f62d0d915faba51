------------------------------ MODULE MailQueue ------------------------------
(***************************************************************************)
(* The confirmation mail of a paid order: emitted by completeOrder after   *)
(* its commit, kept in mail-worker-queue of RabbitMQ, and sent by an       *)
(* instance of the notification service with prefetchCount 1 and noAck     *)
(* false.                                                                  *)
(*                                                                         *)
(* Neither end waits: emit is not awaited, and the order is answered while *)
(* the mail may still be in the memory of the instance; the event handler  *)
(* returns at once, and the finally block of MailService acknowledges when *)
(* the mail server has answered, whatever it answered.                     *)
(*                                                                         *)
(* Every order has one mail, named by the order.  RabbitMQ does not fail,  *)
(* and its order of delivery does not matter here.                         *)
(***************************************************************************)
EXTENDS Naturals

CONSTANTS
    Orders,         \* orders being completed
    Workers,        \* instances of the notification service
    MaxCrashes,     \* bound: deaths of order and notification instances
    None            \* no mail in hand

ASSUME NoneAssumption == None \notin Orders

ASSUME BoundAssumption == MaxCrashes \in Nat

VARIABLES
    order,      \* how far the complete of each order is
    queue,      \* the mails that wait in RabbitMQ
    held,       \* the mail each worker was given
    pc,         \* where each worker is
    tried,      \* how often a mail was handed to the mail server
    arrived,    \* how often the mail server took it
    acked,      \* the mails RabbitMQ was told to forget
    crashes     \* crashes so far

vars == <<order, queue, held, pc, tried, arrived, acked, crashes>>

TypeOK ==
    /\ order \in [Orders -> {"open", "failed", "paid", "mailed", "dead"}]
    /\ queue \subseteq Orders
    /\ held \in [Workers -> Orders \cup {None}]
    /\ pc \in [Workers -> {"idle", "given", "sending", "acking"}]
    /\ tried \in [Orders -> Nat] /\ arrived \in [Orders -> Nat]
    /\ acked \subseteq Orders
    /\ crashes \in 0 .. MaxCrashes

Init ==
    /\ order = [o \in Orders |-> "open"]
    /\ queue = {}
    /\ held = [w \in Workers |-> None] /\ pc = [w \in Workers |-> "idle"]
    /\ tried = [o \in Orders |-> 0] /\ arrived = [o \in Orders |-> 0]
    /\ acked = {}
    /\ crashes = 0

Goto(w, l) == pc' = [pc EXCEPT ![w] = l]

-----------------------------------------------------------------------------
(* The transaction of completeOrder commits, or its catch block runs.      *)
Complete(o) ==
    /\ order[o] = "open"
    /\ \E end \in {"paid", "failed"} : order' = [order EXCEPT ![o] = end]
    /\ UNCHANGED <<queue, held, pc, tried, arrived, acked, crashes>>

(* Mutant of Emit: the mail is emitted before the commit.                  *)
EmitEarly(o) ==
    /\ order[o] = "open" /\ o \notin queue /\ tried[o] = 0
    /\ queue' = queue \cup {o}
    /\ UNCHANGED <<order, held, pc, tried, arrived, acked, crashes>>

(* sendOrderConfirmationEmail after the commit; the client publishes it    *)
(* once it is connected.                                                   *)
Emit(o) ==
    /\ order[o] = "paid"
    /\ order' = [order EXCEPT ![o] = "mailed"]
    /\ queue' = queue \cup {o}
    /\ UNCHANGED <<held, pc, tried, arrived, acked, crashes>>

(* RabbitMQ gives a worker without an unacknowledged mail the next one.    *)
Deliver(w, o) ==
    /\ pc[w] = "idle" /\ o \in queue
    /\ queue' = queue \ {o}
    /\ held' = [held EXCEPT ![w] = o]
    /\ Goto(w, "given")
    /\ UNCHANGED <<order, tried, arrived, acked, crashes>>

(* Mutant of Send: the mail is acknowledged when it is taken up.           *)
SendAcked(w) ==
    /\ pc[w] = "given"
    /\ acked' = acked \cup {held[w]}
    /\ Goto(w, "sending")
    /\ UNCHANGED <<order, queue, held, tried, arrived, crashes>>

Send(w) ==
    /\ pc[w] = "given"
    /\ tried' = [tried EXCEPT ![held[w]] = @ + 1]
    /\ Goto(w, "sending")
    /\ UNCHANGED <<order, queue, held, arrived, acked, crashes>>

(* The mail server takes the mail, refuses it, or takes it and its answer  *)
(* is lost.  sendMail then returns or throws; the error is logged.         *)
Answer(w) ==
    /\ pc[w] = "sending"
    /\ \E n \in {0, 1} : arrived' = [arrived EXCEPT ![held[w]] = @ + n]
    /\ Goto(w, "acking")
    /\ UNCHANGED <<order, queue, held, tried, acked, crashes>>

(* Mutant of Ack: what has not been sent for sure is given back.           *)
AckOrRequeue(w) ==
    /\ pc[w] = "acking"
    /\ queue' = queue \cup {held[w]}
    /\ held' = [held EXCEPT ![w] = None]
    /\ Goto(w, "idle")
    /\ UNCHANGED <<order, tried, arrived, acked, crashes>>

(* Mutant of Ack: what failed is not acknowledged.                         *)
AckSent(w) ==
    /\ pc[w] = "acking" /\ arrived[held[w]] > 0
    /\ acked' = acked \cup {held[w]}
    /\ held' = [held EXCEPT ![w] = None]
    /\ Goto(w, "idle")
    /\ UNCHANGED <<order, queue, tried, arrived, crashes>>

(* The finally block acknowledges what was sent and what was not.          *)
Ack(w) ==
    /\ pc[w] = "acking"
    /\ acked' = acked \cup {held[w]}
    /\ held' = [held EXCEPT ![w] = None]
    /\ Goto(w, "idle")
    /\ UNCHANGED <<order, queue, tried, arrived, crashes>>

-----------------------------------------------------------------------------
(* The instance dies before its client has published: the mail is lost.    *)
OrderCrash(o) ==
    /\ crashes < MaxCrashes /\ crashes' = crashes + 1
    /\ order[o] = "paid"
    /\ order' = [order EXCEPT ![o] = "dead"]
    /\ UNCHANGED <<queue, held, pc, tried, arrived, acked>>

(* The mail goes back to the queue; the mail server may have got it.       *)
WorkerCrash(w) ==
    /\ crashes < MaxCrashes /\ crashes' = crashes + 1
    /\ pc[w] # "idle"
    /\ queue' = queue \cup {held[w]}
    /\ held' = [held EXCEPT ![w] = None]
    /\ Goto(w, "idle")
    /\ \E n \in IF pc[w] = "sending" THEN {0, 1} ELSE {0} :
          arrived' = [arrived EXCEPT ![held[w]] = @ + n]
    /\ UNCHANGED <<order, tried, acked>>

Work(w) == (\E o \in Orders : Deliver(w, o)) \/ Send(w) \/ Answer(w) \/ Ack(w)

Next ==
    \/ \E o \in Orders : Complete(o) \/ Emit(o) \/ OrderCrash(o)
    \/ \E w \in Workers : Work(w) \/ WorkerCrash(w)

Spec == Init /\ [][Next]_vars

(* The client publishes, RabbitMQ delivers and the mail server answers or  *)
(* the connection to it times out.                                         *)
FairSpec ==
    /\ Spec
    /\ \A o \in Orders : WF_vars(Emit(o))
    /\ \A w \in Workers : WF_vars(Work(w))

-----------------------------------------------------------------------------
(* A customer is told of an order only when its payment was committed      *)
(* (order service 223-226).                                                *)
MailOnlyWhenPaid == \A o \in Orders : arrived[o] > 0 => order[o] = "mailed"

(* A mail that RabbitMQ forgets was handed to the mail server, and is not  *)
(* sent again (mail service 21-43).                                        *)
ForgottenWhenTried ==
    \A o \in acked : tried[o] > 0 /\ o \notin queue /\ \A w \in Workers : held[w] # o

(* A customer gets a mail twice only when an instance died in between.     *)
CopiesCostCrashes == \A o \in Orders : arrived[o] <= 1 + crashes

(* Every paid order's mail is handed to the mail server and done with, if  *)
(* the instance that took the payment lives until it is published; mails   *)
(* that fail do not hold up those behind them.                             *)
EveryMailTried ==
    \A o \in Orders : order[o] = "paid" ~> order[o] = "dead" \/ (o \in acked /\ tried[o] > 0)
=============================================================================
