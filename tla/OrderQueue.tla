----------------------------- MODULE OrderQueue -----------------------------
(***************************************************************************)
(* The queue in front of processInitiateOrder: order-queue of RabbitMQ, an *)
(* order instance per consumer with prefetchCount 1 and noAck false, and   *)
(* the Redlock lock:order:<user> in Redis that lives for ten seconds.      *)
(*                                                                         *)
(* A message is acknowledged by the handler's finally block and by nothing *)
(* else; the reply leaves after that.  The lock, the connection and the    *)
(* transaction are taken before its try block, so an exception there skips *)
(* the finally block: the client gets an error, the message stays          *)
(* unacknowledged, and RabbitMQ gives the consumer no other.  When a       *)
(* consumer dies its message returns to the queue, its reply is lost, and  *)
(* its lock stays until it lapses.  The gateway waits without a timeout    *)
(* and takes the first reply that comes.                                   *)
(*                                                                         *)
(* acquire of Redlock 5 throws when it fails; its result is never empty,   *)
(* so the branch if (!lock) is dead and left out.  RabbitMQ itself neither *)
(* fails nor closes the channel of a consumer that never acknowledges.     *)
(***************************************************************************)
EXTENDS Naturals, Sequences, FiniteSets

CONSTANTS
    Users,
    Messages,       \* orders to initiate; m.user is the customer
    Consumers,      \* instances of the order service
    Retries,        \* retryCount of Redlock
    SlowWork,       \* whether handling a message may take more than ten seconds
    MaxFaults,      \* bound: crashes and lost database connections
    None            \* no message, no lock holder

ASSUME MessagesAssumption == \A m \in Messages : m.user \in Users

Replies == {"order", "refusal", "error"}

ASSUME NoneAssumption ==
    None \notin Messages /\ None \notin Consumers /\ None # "orphan" /\ None \notin Replies

ASSUME OrphanAssumption == "orphan" \notin Consumers

ASSUME BoundsAssumption == Retries \in Nat /\ MaxFaults \in Nat /\ SlowWork \in BOOLEAN

VARIABLES
    queue,      \* the messages that wait, first to deliver first
    sent,       \* the messages that were published
    acked,      \* the messages RabbitMQ was told to forget
    held,       \* the message each consumer was given last and works on
    pc,         \* where each consumer is
    tries,      \* how often it tried to take the lock
    lock,       \* the lock of each user: its holder, "orphan" when that died
    made,       \* how many orders each message made
    decided,    \* the messages whose order was committed or refused
    result,     \* what each consumer is about to reply
    told,       \* the reply the client of each message got
    faults      \* faults so far

outcome == <<made, decided, result>>

vars == <<queue, sent, acked, held, pc, tries, lock, outcome, told, faults>>

TypeOK ==
    /\ queue \in Seq(Messages)
    /\ sent \subseteq Messages
    /\ acked \subseteq Messages
    /\ held \in [Consumers -> Messages \cup {None}]
    /\ pc \in [Consumers -> {"idle", "locking", "locked", "working", "unlocking", "acking",
                           "replying", "stuck"}]
    /\ tries \in [Consumers -> 0 .. Retries]
    /\ lock \in [Users -> Consumers \cup {None, "orphan"}]
    /\ made \in [Messages -> Nat]
    /\ decided \subseteq Messages
    /\ result \in [Consumers -> Replies \cup {None}]
    /\ told \in [Messages -> Replies \cup {None}]
    /\ faults \in 0 .. MaxFaults

Init ==
    /\ queue = << >>
    /\ sent = {}
    /\ acked = {}
    /\ held = [k \in Consumers |-> None]
    /\ pc = [k \in Consumers |-> "idle"]
    /\ tries = [k \in Consumers |-> 0]
    /\ lock = [u \in Users |-> None]
    /\ made = [m \in Messages |-> 0]
    /\ decided = {}
    /\ result = [k \in Consumers |-> None]
    /\ told = [m \in Messages |-> None]
    /\ faults = 0

-----------------------------------------------------------------------------
Goto(k, l) == pc' = [pc EXCEPT ![k] = l]

LockOf(k) == lock[held[k].user]
SetLock(k, x) == lock' = [lock EXCEPT ![held[k].user] = x]

(* The gateway publishes to a durable queue and waits for the reply.       *)
Send(m) ==
    /\ m \notin sent
    /\ sent' = sent \cup {m}
    /\ queue' = Append(queue, m)
    /\ UNCHANGED <<acked, held, pc, tries, lock, outcome, told, faults>>

(* Mutant of Deliver: noAck, so that RabbitMQ forgets what it delivers.    *)
DeliverNoAck(k) ==
    /\ pc[k] = "idle" /\ queue # << >>
    /\ held' = [held EXCEPT ![k] = Head(queue)]
    /\ acked' = acked \cup {Head(queue)}
    /\ queue' = Tail(queue)
    /\ tries' = [tries EXCEPT ![k] = 0]
    /\ Goto(k, "locking")
    /\ UNCHANGED <<sent, lock, outcome, told, faults>>

(* prefetchCount 1: nothing is delivered while a message is unacknowledged. *)
Deliver(k) ==
    /\ pc[k] = "idle" /\ queue # << >>
    /\ held' = [held EXCEPT ![k] = Head(queue)]
    /\ queue' = Tail(queue)
    /\ tries' = [tries EXCEPT ![k] = 0]
    /\ Goto(k, "locking")
    /\ UNCHANGED <<sent, acked, lock, outcome, told, faults>>

(* Mutant of TakeLock: the lock is set whether or not it is free.          *)
TakeAnyLock(k) ==
    /\ pc[k] = "locking"
    /\ SetLock(k, k)
    /\ Goto(k, "locked")
    /\ UNCHANGED <<queue, sent, acked, held, tries, outcome, told, faults>>

TakeLock(k) ==
    /\ pc[k] = "locking" /\ LockOf(k) = None
    /\ SetLock(k, k)
    /\ Goto(k, "locked")
    /\ UNCHANGED <<queue, sent, acked, held, tries, outcome, told, faults>>

(* Mutant of RetryLock: the number of retries is compared with <=.         *)
RetryOnceMore(k) ==
    /\ pc[k] = "locking" /\ LockOf(k) # None /\ tries[k] <= Retries
    /\ tries' = [tries EXCEPT ![k] = @ + 1]
    /\ UNCHANGED <<queue, sent, acked, held, pc, lock, outcome, told, faults>>

RetryLock(k) ==
    /\ pc[k] = "locking" /\ LockOf(k) # None /\ tries[k] < Retries
    /\ tries' = [tries EXCEPT ![k] = @ + 1]
    /\ UNCHANGED <<queue, sent, acked, held, pc, lock, outcome, told, faults>>

(* Mutant of LockThrows: the message goes back to the queue.               *)
LockThrowsRequeues(k) ==
    /\ pc[k] = "locking" /\ LockOf(k) # None /\ tries[k] = Retries
    /\ told' = [told EXCEPT ![held[k]] = "error"]
    /\ queue' = Append(queue, held[k])
    /\ held' = [held EXCEPT ![k] = None]
    /\ Goto(k, "idle")
    /\ UNCHANGED <<sent, acked, tries, lock, outcome, faults>>

(* The last attempt throws, before the try block: no finally, no ack.      *)
LockThrows(k) ==
    /\ pc[k] = "locking" /\ LockOf(k) # None /\ tries[k] = Retries
    /\ result' = [result EXCEPT ![k] = "error"]
    /\ Goto(k, "replying")
    /\ UNCHANGED <<queue, sent, acked, held, tries, lock, made, decided, told, faults>>

StartTransaction(k) ==
    /\ pc[k] = "locked"
    /\ Goto(k, "working")
    /\ UNCHANGED <<queue, sent, acked, held, tries, lock, outcome, told, faults>>

Decide(k, r) ==
    /\ pc[k] = "working"
    /\ decided' = decided \cup {held[k]}
    /\ result' = [result EXCEPT ![k] = r]
    /\ Goto(k, "unlocking")
    /\ UNCHANGED <<queue, sent, acked, held, tries, lock, told, faults>>

(* The order is committed, or refused and rolled back (OrderSaga).         *)
Commit(k) == Decide(k, "order") /\ made' = [made EXCEPT ![held[k]] = @ + 1]
Refuse(k) == Decide(k, "refusal") /\ UNCHANGED made

(* releaseLock deletes the key only when it still has the holder's value,  *)
(* and swallows the error when it has not.                                 *)
Unlock(k) ==
    /\ pc[k] = "unlocking"
    /\ IF LockOf(k) = k THEN SetLock(k, None) ELSE UNCHANGED lock
    /\ Goto(k, "acking")
    /\ UNCHANGED <<queue, sent, acked, held, tries, outcome, told, faults>>

(* Mutant of Ack: the handler returns and RabbitMQ is told nothing.        *)
AckForgotten(k) ==
    /\ pc[k] = "acking"
    /\ Goto(k, "replying")
    /\ UNCHANGED <<queue, sent, acked, held, tries, lock, outcome, told, faults>>

(* Mutant of Ack: the message is given back to the queue.                  *)
AckRequeues(k) ==
    /\ pc[k] = "acking"
    /\ queue' = Append(queue, held[k])
    /\ held' = [held EXCEPT ![k] = None]
    /\ Goto(k, "idle")
    /\ UNCHANGED <<sent, acked, tries, lock, outcome, told, faults>>

Ack(k) ==
    /\ pc[k] = "acking"
    /\ acked' = acked \cup {held[k]}
    /\ Goto(k, "replying")
    /\ UNCHANGED <<queue, sent, held, tries, lock, outcome, told, faults>>

(* Mutant of Reply: what the handler returns is not sent.                  *)
ReplyNothing(k) ==
    /\ pc[k] = "replying" /\ held[k] \in acked
    /\ held' = [held EXCEPT ![k] = None]
    /\ Goto(k, "idle")
    /\ UNCHANGED <<queue, sent, acked, tries, lock, outcome, told, faults>>

(* The reply finds the client of the message unless it has one already.    *)
(* Without an acknowledgement the consumer is given no other message.      *)
Reply(k) ==
    /\ pc[k] = "replying"
    /\ told' = [told EXCEPT ![held[k]] = IF @ = None THEN result[k] ELSE @]
    /\ result' = [result EXCEPT ![k] = None]
    /\ IF held[k] \in acked
       THEN held' = [held EXCEPT ![k] = None] /\ Goto(k, "idle")
       ELSE UNCHANGED held /\ Goto(k, "stuck")
    /\ UNCHANGED <<queue, sent, acked, tries, lock, made, decided, faults>>

-----------------------------------------------------------------------------
(* The key expires; a living holder does not notice.                       *)
LockLapses(u) ==
    /\ lock[u] = "orphan" \/ (SlowWork /\ lock[u] # None)
    /\ lock' = [lock EXCEPT ![u] = None]
    /\ UNCHANGED <<queue, sent, acked, held, pc, tries, outcome, told, faults>>

Orphaned(k) == [u \in Users |-> IF lock[u] = k THEN "orphan" ELSE lock[u]]

(* The instance dies and a new one takes its place: the channel closes and *)
(* RabbitMQ puts back, in front, what was delivered and not acknowledged.  *)
Crash(k) ==
    /\ faults < MaxFaults /\ faults' = faults + 1
    /\ pc[k] # "idle"
    /\ queue' = IF held[k] \in acked THEN queue ELSE <<held[k]>> \o queue
    /\ held' = [held EXCEPT ![k] = None]
    /\ lock' = Orphaned(k)
    /\ result' = [result EXCEPT ![k] = None]
    /\ Goto(k, "idle")
    /\ UNCHANGED <<sent, acked, tries, made, decided, told>>

(* connect or startTransaction throws, before the try block: no finally,   *)
(* so neither the lock nor the message is given back.                      *)
ConnectThrows(k) ==
    /\ faults < MaxFaults /\ faults' = faults + 1
    /\ pc[k] = "locked"
    /\ lock' = Orphaned(k)
    /\ result' = [result EXCEPT ![k] = "error"]
    /\ Goto(k, "replying")
    /\ UNCHANGED <<queue, sent, acked, held, tries, made, decided, told>>

-----------------------------------------------------------------------------
Handle(k) ==
    \/ Deliver(k) \/ TakeLock(k) \/ RetryLock(k) \/ LockThrows(k)
    \/ StartTransaction(k) \/ Commit(k) \/ Refuse(k) \/ Unlock(k) \/ Ack(k) \/ Reply(k)

Next ==
    \/ \E m \in Messages : Send(m)
    \/ \E k \in Consumers : Handle(k) \/ Crash(k) \/ ConnectThrows(k)
    \/ \E u \in Users : LockLapses(u)

Spec == Init /\ [][Next]_vars

(* RabbitMQ delivers to a free consumer, a handler's continuations run,    *)
(* and a key with a time to live expires once nobody extends it.           *)
FairSpec ==
    /\ Spec
    /\ \A k \in Consumers : WF_vars(Handle(k))
    /\ \A u \in Users : WF_vars(lock[u] = "orphan" /\ LockLapses(u))

-----------------------------------------------------------------------------
Critical(k) == pc[k] \in {"locked", "working", "unlocking"}

(* Two orders of one user are never made at the same time, by however many *)
(* instances, also when one died holding the lock (86-88).                 *)
OneOrderPerUser ==
    \A j, k \in Consumers :
        Critical(j) /\ Critical(k) /\ held[j].user = held[k].user => j = k

(* A published order is in the queue or in the hands of one consumer until *)
(* it is committed or refused, whichever instances die (172).              *)
NothingLost ==
    \A m \in sent \ decided :
        /\ (\E i \in 1 .. Len(queue) : queue[i] = m) \/ \E k \in Consumers : held[k] = m
        /\ \A j, k \in Consumers : held[j] = m /\ held[k] = m => j = k

(* Every further order that a message makes costs the death of an instance *)
(* between its commit and its acknowledgement (152-172).                   *)
OneOrderPerMessage == \A m \in Messages : made[m] <= 1 + faults

(* The answer of initiateOrder is true: an order that was answered with    *)
(* exists, and one that was refused does not, unless an instance failed    *)
(* and the message was handled again (85-93, 160-172).                     *)
AnswerIsTrue ==
    \A m \in Messages :
        /\ told[m] = "order" => made[m] > 0
        /\ told[m] \in {"refusal", "error"} /\ made[m] > 0 => faults > 0

Stuck(k) == pc[k] = "stuck"

(* A consumer that does not get the lock of its user acknowledges the      *)
(* message and goes on with the next one (90-93).                          *)
NobodyStuck == \A k \in Consumers : ~ Stuck(k)

(* The exception that skips the finally block struck (85-97): no order was *)
(* made of the message, or by another instance that died, and its client   *)
(* has been told of an error.                                              *)
Skipped(k) == Stuck(k) /\ told[held[k]] = "error"

(* In the end every published order is acknowledged, whichever instances   *)
(* die, unless that exception struck: then the instance keeps the message, *)
(* or no instance is left.  A handler that comes to its answer never keeps *)
(* its message (168-173).                                                  *)
EveryOrderHandled ==
    \A m \in Messages :
        <>[](\/ m \notin sent \/ m \in acked
             \/ \E k \in Consumers : held[k] = m /\ Skipped(k)
             \/ \A k \in Consumers : Skipped(k))

(* Every client of initiateOrder gets an answer, if no instance fails and  *)
(* not all are stuck: nothing else bounds its waiting (gateway, 32-36).    *)
EveryClientAnswered ==
    \A m \in Messages :
        m \in sent ~> told[m] # None \/ faults > 0 \/ \A k \in Consumers : Stuck(k)
=============================================================================
