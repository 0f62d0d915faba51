-------------------------- MODULE OrderQueue_proofs -------------------------
(***************************************************************************)
(* For any users, messages, instances, retries and faults: no message is   *)
(* lost, a further order of a message costs a fault, and answers are true  *)
(* as long as nothing failed; and unless handling a message outlasts the   *)
(* lock, one order of a user at a time.                                    *)
(*                                                                         *)
(* The first three rest on where a message can be: in one place, and there *)
(* once.  The last rests on whose name the lock of a user carries.         *)
(***************************************************************************)
EXTENDS OrderQueue, SequenceTheorems, TLAPS

Waiting == {queue[i] : i \in 1 .. Len(queue)}

Distinct == \A i, j \in 1 .. Len(queue) : queue[i] = queue[j] => i = j

HoldsMessage == \A k \in Consumers : pc[k] = "idle" <=> held[k] = None

(* A message waits once, or is in the hands of one consumer.               *)
OnePlace ==
    /\ Distinct
    /\ \A k \in Consumers : held[k] \notin Waiting
    /\ \A j, k \in Consumers : held[j] = held[k] /\ held[k] # None => j = k

(* Who is published and not acknowledged is somewhere, and nobody else is  *)
(* in the queue.                                                           *)
Placed ==
    /\ \A m \in Messages : m \in Waiting => m \in sent \ acked
    /\ \A k \in Consumers : held[k] # None => held[k] \in sent
    /\ \A m \in sent \ acked : m \in Waiting \/ \E k \in Consumers : held[k] = m
    /\ acked \subseteq decided \cap sent
    /\ \A k \in Consumers : pc[k] \in {"unlocking", "acking"} => held[k] \in decided

Before(k) == pc[k] \in {"locking", "locked", "working"}
After(k) == pc[k] \in {"unlocking", "acking", "replying"}

(* Only faults bring a message back that has made an order.                *)
OrdersCounted ==
    /\ \A m \in Messages : made[m] <= 1 + faults
    /\ \A m \in Messages \ sent : made[m] = 0
    /\ \A m \in Messages : m \in Waiting => made[m] <= faults
    /\ \A k \in Consumers : Before(k) => made[held[k]] <= faults

(* What was answered, or is about to be.                                   *)
AnswersCounted ==
    /\ \A m \in Messages :
          /\ told[m] = "order" => made[m] > 0
          /\ faults = 0 /\ told[m] \in {"refusal", "error"} => made[m] = 0
          /\ faults = 0 /\ told[m] # None => m \in sent /\ m \notin Waiting
    /\ \A k \in Consumers :
          /\ After(k) => result[k] \in Replies
          /\ After(k) /\ result[k] = "order" => made[held[k]] > 0
          /\ faults = 0 /\ After(k) /\ result[k] # "order" => made[held[k]] = 0
          /\ faults = 0 /\ (Before(k) \/ After(k)) => told[held[k]] = None

IInv == TypeOK /\ HoldsMessage /\ OnePlace /\ Placed /\ OrdersCounted /\ AnswersCounted

-----------------------------------------------------------------------------
(* The three ways the queue changes, and who is in it afterwards.          *)
LEMMA QueueAppend ==
    ASSUME queue \in Seq(Messages), NEW m \in Messages, queue' = Append(queue, m)
    PROVE /\ queue' \in Seq(Messages)
          /\ Waiting' = Waiting \cup {m}
          /\ m \notin Waiting /\ Distinct => Distinct'
<1>1. /\ queue' \in Seq(Messages) /\ Len(queue) \in Nat /\ Len(queue') = Len(queue) + 1
      /\ \A i \in 1 .. Len(queue) : queue'[i] = queue[i]
      /\ queue'[Len(queue) + 1] = m
    BY AppendProperties
<1>2. QED
    BY <1>1 DEF Waiting, Distinct

LEMMA QueueTake ==
    ASSUME queue \in Seq(Messages), queue # << >>, queue' = Tail(queue),
           Distinct
    PROVE /\ queue' \in Seq(Messages) /\ Head(queue) \in Messages /\ Head(queue) \in Waiting
          /\ Waiting' = Waiting \ {Head(queue)}
          /\ Distinct'
<1>1. /\ queue' \in Seq(Messages) /\ Len(queue) \in Nat \ {0} /\ Len(queue') = Len(queue) - 1
      /\ \A i \in 1 .. Len(queue') : queue'[i] = queue[i + 1]
      /\ Head(queue) = queue[1] /\ queue[1] \in Messages
    BY HeadTailProperties, EmptySeq, LenProperties
<1>2. ASSUME NEW x, x \in Waiting, x # Head(queue) PROVE x \in Waiting'
    <2>1. PICK i \in 1 .. Len(queue) : queue[i] = x
        BY <1>2 DEF Waiting
    <2>2. i - 1 \in 1 .. Len(queue') /\ queue'[i - 1] = x
        BY <1>1, <1>2, <2>1
    <2>3. QED
        BY <2>2 DEF Waiting
<1>3. ASSUME NEW x, x \in Waiting' PROVE x \in Waiting /\ x # Head(queue)
    <2>1. PICK i \in 1 .. Len(queue') : queue'[i] = x
        BY <1>3 DEF Waiting
    <2>2. i + 1 \in 1 .. Len(queue) /\ queue[i + 1] = x /\ i + 1 # 1 /\ 1 \in 1 .. Len(queue)
        BY <1>1, <2>1
    <2>3. QED
        BY <1>1, <2>2 DEF Waiting, Distinct
<1>4. Head(queue) \in Waiting
    BY <1>1 DEF Waiting
<1>5. ASSUME NEW i \in 1 .. Len(queue'), NEW j \in 1 .. Len(queue'), queue'[i] = queue'[j] PROVE i = j
    <2>1. i + 1 \in 1 .. Len(queue) /\ j + 1 \in 1 .. Len(queue) /\ queue[i + 1] = queue[j + 1]
        BY <1>1, <1>5
    <2>2. i + 1 = j + 1
        BY <2>1 DEF Distinct
    <2>3. QED
        BY <1>1, <2>2
<1>6. QED
    BY <1>1, <1>2, <1>3, <1>4, <1>5 DEF Distinct

LEMMA QueueReturn ==
    ASSUME queue \in Seq(Messages), NEW m \in Messages, queue' = <<m>> \o queue
    PROVE /\ queue' \in Seq(Messages)
          /\ Waiting' = Waiting \cup {m}
          /\ m \notin Waiting /\ Distinct => Distinct'
<1>1. <<m>> \in Seq(Messages) /\ Len(<<m>>) = 1 /\ <<m>>[1] = m
    OBVIOUS
<1>2. /\ queue' \in Seq(Messages) /\ Len(queue) \in Nat /\ Len(queue') = 1 + Len(queue)
      /\ queue'[1] = m
      /\ \A i \in 2 .. Len(queue') : queue'[i] = queue[i - 1]
    BY <1>1, ConcatProperties, LenProperties
<1>3. \A i \in 1 .. Len(queue) : queue'[i + 1] = queue[i]
    BY <1>2
<1>4. Waiting' = Waiting \cup {m}
    <2>1. ASSUME NEW x, x \in Waiting PROVE x \in Waiting'
        <3>1. PICK i \in 1 .. Len(queue) : queue[i] = x
            BY <2>1 DEF Waiting
        <3>2. i + 1 \in 1 .. Len(queue') /\ queue'[i + 1] = x
            BY <1>2, <1>3, <3>1
        <3>3. QED
            BY <3>2 DEF Waiting
    <2>2. m \in Waiting'
        BY <1>2 DEF Waiting
    <2>3. ASSUME NEW x, x \in Waiting', x # m PROVE x \in Waiting
        <3>1. PICK i \in 1 .. Len(queue') : queue'[i] = x
            BY <2>3 DEF Waiting
        <3>2. i - 1 \in 1 .. Len(queue) /\ queue[i - 1] = x
            BY <1>2, <2>3, <3>1
        <3>3. QED
            BY <3>2 DEF Waiting
    <2>4. QED
        BY <2>1, <2>2, <2>3
<1>5. ASSUME m \notin Waiting, Distinct,
             NEW i \in 1 .. Len(queue'), NEW j \in 1 .. Len(queue'), queue'[i] = queue'[j]
      PROVE i = j
    <2>1. \A n \in 2 .. Len(queue') :
            n - 1 \in 1 .. Len(queue) /\ queue'[n] = queue[n - 1] /\ queue'[n] # m
        BY <1>2, <1>5 DEF Waiting
    <2>2. CASE i = 1 \/ j = 1
        <3>1. i # 1 => i \in 2 .. Len(queue')
            BY <1>2
        <3>2. j # 1 => j \in 2 .. Len(queue')
            BY <1>2
        <3>3. QED
            BY <1>2, <1>5, <2>1, <2>2, <3>1, <3>2
    <2>3. CASE i # 1 /\ j # 1
        <3>1. queue[i - 1] = queue[j - 1] /\ i - 1 \in 1 .. Len(queue) /\ j - 1 \in 1 .. Len(queue)
            BY <1>2, <1>5, <2>1, <2>3
        <3>2. i - 1 = j - 1
            BY <1>5, <3>1 DEF Distinct
        <3>3. QED
            BY <1>2, <3>2
    <2>4. QED
        BY <2>2, <2>3
<1>6. QED
    BY <1>2, <1>4, <1>5 DEF Distinct

LEMMA WaitingTyped == ASSUME queue \in Seq(Messages) PROVE Waiting \subseteq Messages
BY ElementOfSeq DEF Waiting

LEMMA QueueKept == ASSUME UNCHANGED queue PROVE Waiting' = Waiting /\ (Distinct => Distinct')
BY DEF Waiting, Distinct

-----------------------------------------------------------------------------
LEMMA InitInv == Init => IInv
<1> SUFFICES ASSUME Init PROVE IInv
    OBVIOUS
<1> USE NoneAssumption, OrphanAssumption, BoundsAssumption DEF Init
<1>1. queue \in Seq(Messages) /\ Len(queue) = 0
    BY EmptySeq
<1>2. TypeOK
    BY <1>1 DEF TypeOK
<1>3. Waiting = {} /\ Distinct
    BY <1>1 DEF Waiting, Distinct
<1>4. HoldsMessage /\ OnePlace /\ Placed
    BY <1>3 DEF HoldsMessage, OnePlace, Placed
<1>5. OrdersCounted /\ AnswersCounted
    BY <1>3 DEF OrdersCounted, AnswersCounted, Before, After, Replies
<1>6. QED
    BY <1>2, <1>4, <1>5 DEF IInv

LEMMA StepInv == IInv /\ [Next]_vars => IInv'
<1> SUFFICES ASSUME IInv, [Next]_vars PROVE IInv'
    OBVIOUS
<1> USE MessagesAssumption, NoneAssumption, OrphanAssumption, BoundsAssumption
    DEF IInv, TypeOK, HoldsMessage, OnePlace, Placed, OrdersCounted, AnswersCounted, Before, After,
        Replies, LockOf, SetLock, Goto, outcome
<1>0. CASE UNCHANGED vars
    BY <1>0, QueueKept DEF vars
<1>1. ASSUME NEW m \in Messages, Send(m) PROVE IInv'
    <2>q. queue' \in Seq(Messages) /\ Waiting' = Waiting \cup {m} /\ Distinct'
        BY <1>1, QueueAppend DEF Send
    <2>1. TypeOK' /\ HoldsMessage'
        BY <1>1, <2>q DEF Send
    <2>2. OnePlace'
        BY <1>1, <2>q DEF Send
    <2>3. Placed'
        BY <1>1, <2>q DEF Send
    <2>4. OrdersCounted'
        BY <1>1, <2>q DEF Send
    <2>5. AnswersCounted'
        BY <1>1, <2>q DEF Send
    <2>6. QED
        BY <2>1, <2>2, <2>3, <2>4, <2>5
<1>2. ASSUME NEW k \in Consumers, Deliver(k) PROVE IInv'
    BY <1>2, QueueTake DEF Deliver
<1>3. ASSUME NEW k \in Consumers, TakeLock(k) PROVE IInv'
    BY <1>3, QueueKept DEF TakeLock
<1>4. ASSUME NEW k \in Consumers, RetryLock(k) PROVE IInv'
    BY <1>4, QueueKept DEF RetryLock
<1>5. ASSUME NEW k \in Consumers, LockThrows(k) PROVE IInv'
    BY <1>5, QueueKept DEF LockThrows
<1>6. ASSUME NEW k \in Consumers, StartTransaction(k) PROVE IInv'
    BY <1>6, QueueKept DEF StartTransaction
<1>7. ASSUME NEW k \in Consumers, Commit(k) PROVE IInv'
    BY <1>7, QueueKept DEF Commit, Decide
<1>8. ASSUME NEW k \in Consumers, Refuse(k) PROVE IInv'
    BY <1>8, QueueKept DEF Refuse, Decide
<1>9. ASSUME NEW k \in Consumers, Unlock(k) PROVE IInv'
    <2>q. Waiting' = Waiting /\ Distinct'
        BY <1>9, QueueKept DEF Unlock
    <2>1. TypeOK' /\ HoldsMessage'
        <3>1. lock' \in [Users -> Consumers \cup {None, "orphan"}]
            <4>1. held[k].user \in Users
                BY <1>9 DEF Unlock
            <4>2. lock' = lock \/ lock' = [lock EXCEPT ![held[k].user] = None]
                BY <1>9 DEF Unlock
            <4>3. QED
                BY <4>1, <4>2
        <3>2. QED
            BY <1>9, <3>1 DEF Unlock
    <2>2. OnePlace'
        BY <1>9, <2>q DEF Unlock
    <2>3. Placed'
        BY <1>9, <2>q DEF Unlock
    <2>4. OrdersCounted'
        BY <1>9, <2>q DEF Unlock
    <2>5. AnswersCounted'
        BY <1>9, <2>q DEF Unlock
    <2>6. QED
        BY <2>1, <2>2, <2>3, <2>4, <2>5
<1>10. ASSUME NEW k \in Consumers, Ack(k) PROVE IInv'
    BY <1>10, QueueKept DEF Ack
<1>11. ASSUME NEW k \in Consumers, Reply(k) PROVE IInv'
    <2>q. Waiting' = Waiting /\ Distinct'
        BY <1>11, QueueKept DEF Reply
    <2>0. held[k] \in Messages /\ result[k] \in Replies
        BY <1>11 DEF Reply
    <2>1. CASE held[k] \in acked
        <3>q. /\ UNCHANGED <<queue, sent, acked, tries, lock, made, decided, faults>>
              /\ held' = [held EXCEPT ![k] = None] /\ pc' = [pc EXCEPT ![k] = "idle"]
              /\ result' = [result EXCEPT ![k] = None] /\ pc[k] = "replying"
              /\ told' = [told EXCEPT ![held[k]] = IF told[held[k]] = None THEN result[k] ELSE told[held[k]]]
            BY <1>11, <2>1 DEF Reply
        <3>1. TypeOK' /\ HoldsMessage'
            BY <2>0, <2>1, <2>q, <3>q DEF Replies
        <3>2. OnePlace'
            BY <2>0, <2>1, <2>q, <3>q, WaitingTyped DEF Replies
        <3>3. Placed'
            BY <2>0, <2>1, <2>q, <3>q DEF Replies
        <3>4. OrdersCounted'
            BY <2>0, <2>1, <2>q, <3>q DEF Replies
        <3>5. AnswersCounted'
            BY <2>0, <2>1, <2>q, <3>q DEF Replies
        <3>6. QED
            BY <3>1, <3>2, <3>3, <3>4, <3>5
    <2>2. CASE held[k] \notin acked
        <3>q. /\ UNCHANGED <<queue, sent, acked, held, tries, lock, made, decided, faults>>
              /\ pc' = [pc EXCEPT ![k] = "stuck"]
              /\ result' = [result EXCEPT ![k] = None] /\ pc[k] = "replying"
              /\ told' = [told EXCEPT ![held[k]] = IF told[held[k]] = None THEN result[k] ELSE told[held[k]]]
            BY <1>11, <2>2 DEF Reply
        <3>1. TypeOK' /\ HoldsMessage'
            BY <2>0, <2>2, <2>q, <3>q DEF Replies
        <3>2. OnePlace'
            BY <2>0, <2>2, <2>q, <3>q DEF Replies
        <3>3. Placed'
            BY <2>0, <2>2, <2>q, <3>q DEF Replies
        <3>4. OrdersCounted'
            BY <2>0, <2>2, <2>q, <3>q DEF Replies
        <3>5. AnswersCounted'
            BY <2>0, <2>2, <2>q, <3>q DEF Replies
        <3>6. QED
            BY <3>1, <3>2, <3>3, <3>4, <3>5
    <2>3. QED
        BY <2>1, <2>2
<1>12. ASSUME NEW k \in Consumers, Crash(k) PROVE IInv'
    <2>1. held[k] \in Messages /\ faults' = faults + 1 /\ faults' # 0
        BY <1>12 DEF Crash
    <2>2. CASE held[k] \in acked
        <3>q. Waiting' = Waiting /\ Distinct' /\ queue' = queue
            BY <1>12, <2>2, QueueKept DEF Crash
        <3>1. TypeOK' /\ HoldsMessage'
            BY <1>12, <2>1, <2>2, <3>q DEF Crash, Orphaned
        <3>2. OnePlace'
            BY <1>12, <2>1, <2>2, <3>q, WaitingTyped DEF Crash, Orphaned
        <3>3. Placed'
            BY <1>12, <2>1, <2>2, <3>q DEF Crash, Orphaned
        <3>4. OrdersCounted'
            BY <1>12, <2>1, <2>2, <3>q DEF Crash, Orphaned
        <3>5. AnswersCounted'
            BY <1>12, <2>1, <2>2, <3>q DEF Crash, Orphaned
        <3>6. QED
            BY <3>1, <3>2, <3>3, <3>4, <3>5
    <2>3. CASE held[k] \notin acked
        <3>q. queue' \in Seq(Messages) /\ Waiting' = Waiting \cup {held[k]} /\ Distinct'
            BY <1>12, <2>1, <2>3, QueueReturn DEF Crash
        <3>1. TypeOK' /\ HoldsMessage'
            BY <1>12, <2>1, <3>q DEF Crash, Orphaned
        <3>2. OnePlace'
            BY <1>12, <2>1, <2>3, <3>q, WaitingTyped DEF Crash
        <3>3. Placed'
            BY <1>12, <2>1, <2>3, <3>q DEF Crash
        <3>4. OrdersCounted' /\ AnswersCounted'
            BY <1>12, <2>1, <2>3, <3>q DEF Crash
        <3>5. QED
            BY <3>1, <3>2, <3>3, <3>4
    <2>4. QED
        BY <2>2, <2>3
<1>13. ASSUME NEW k \in Consumers, ConnectThrows(k) PROVE IInv'
    BY <1>13, QueueKept DEF ConnectThrows, Orphaned
<1>14. ASSUME NEW u \in Users, LockLapses(u) PROVE IInv'
    BY <1>14, QueueKept DEF LockLapses
<1>15. QED
    BY <1>0, <1>1, <1>2, <1>3, <1>4, <1>5, <1>6, <1>7, <1>8, <1>9, <1>10, <1>11, <1>12, <1>13, <1>14
        DEF Next, Handle

LEMMA Invariance == Spec => []IInv
BY InitInv, StepInv, PTL DEF Spec

(* Types, whatever fails. *)
THEOREM QueueTyping == Spec => []TypeOK
<1>1. IInv => TypeOK
    BY DEF IInv
<1>2. QED
    BY <1>1, Invariance, PTL

(* A published order stays in the queue or in the hands of one instance    *)
(* until it is decided, whichever instances die (172).                     *)
THEOREM NoMessageLost == Spec => []NothingLost
<1>1. ASSUME IInv PROVE NothingLost
    <2> SUFFICES ASSUME NEW m \in sent \ decided
                 PROVE /\ (\E i \in 1 .. Len(queue) : queue[i] = m) \/ \E k \in Consumers : held[k] = m
                       /\ \A j, k \in Consumers : held[j] = m /\ held[k] = m => j = k
        BY DEF NothingLost
    <2>1. m \in Messages /\ m # None
        BY <1>1, NoneAssumption DEF IInv, TypeOK
    <2>2. m \in Waiting \/ \E k \in Consumers : held[k] = m
        BY <1>1 DEF IInv, Placed
    <2>3. m \in Waiting => \E i \in 1 .. Len(queue) : queue[i] = m
        BY DEF Waiting
    <2>4. QED
        BY <1>1, <2>1, <2>2, <2>3 DEF IInv, OnePlace
<1>2. QED
    BY <1>1, Invariance, PTL

(* Every order of a message after its first costs a fault of an instance.  *)
THEOREM FurtherOrdersCostFaults == Spec => []OneOrderPerMessage
<1>1. IInv => OneOrderPerMessage
    BY DEF IInv, OrdersCounted, OneOrderPerMessage
<1>2. QED
    BY <1>1, Invariance, PTL

(* What initiateOrder answers is true unless an instance failed.           *)
THEOREM AnswersAreTrue == Spec => []AnswerIsTrue
<1>1. IInv => AnswerIsTrue
    BY BoundsAssumption DEF IInv, TypeOK, AnswersCounted, AnswerIsTrue
<1>2. QED
    BY <1>1, Invariance, PTL

-----------------------------------------------------------------------------
(* From taking the lock to giving it back, the lock names the consumer.    *)
CriticalOwns == \A k \in Consumers : Critical(k) => LockOf(k) = k

LEMMA StepOwns ==
    ASSUME SlowWork = FALSE, IInv, CriticalOwns, [Next]_vars
    PROVE CriticalOwns'
<1> USE MessagesAssumption, NoneAssumption, OrphanAssumption, SlowWork = FALSE
    DEF IInv, TypeOK, HoldsMessage, CriticalOwns, Critical, LockOf, SetLock, Goto
<1>0. CASE UNCHANGED vars
    BY <1>0 DEF vars
<1>1. ASSUME NEW m \in Messages, Send(m) PROVE CriticalOwns'
    BY <1>1 DEF Send
<1>2. ASSUME NEW k \in Consumers, Deliver(k) PROVE CriticalOwns'
    BY <1>2 DEF Deliver
<1>3. ASSUME NEW k \in Consumers, TakeLock(k) PROVE CriticalOwns'
    BY <1>3 DEF TakeLock
<1>4. ASSUME NEW k \in Consumers, RetryLock(k) PROVE CriticalOwns'
    BY <1>4 DEF RetryLock
<1>5. ASSUME NEW k \in Consumers, LockThrows(k) \/ StartTransaction(k) PROVE CriticalOwns'
    BY <1>5 DEF LockThrows, StartTransaction
<1>6. ASSUME NEW k \in Consumers, Commit(k) \/ Refuse(k) PROVE CriticalOwns'
    BY <1>6 DEF Commit, Refuse, Decide
<1>7. ASSUME NEW k \in Consumers, Unlock(k) PROVE CriticalOwns'
    BY <1>7 DEF Unlock
<1>8. ASSUME NEW k \in Consumers, Ack(k) \/ Reply(k) PROVE CriticalOwns'
    <2>1. CASE Ack(k)
        BY <2>1 DEF Ack
    <2>2. CASE Reply(k) /\ held[k] \in acked
        BY <2>2 DEF Reply
    <2>3. CASE Reply(k) /\ held[k] \notin acked
        BY <2>3 DEF Reply
    <2>4. QED
        BY <1>8, <2>1, <2>2, <2>3
<1>9. ASSUME NEW k \in Consumers, Crash(k) PROVE CriticalOwns'
    BY <1>9 DEF Crash, Orphaned
<1>10. ASSUME NEW k \in Consumers, ConnectThrows(k) PROVE CriticalOwns'
    BY <1>10 DEF ConnectThrows, Orphaned
<1>11. ASSUME NEW u \in Users, LockLapses(u) PROVE CriticalOwns'
    BY <1>11 DEF LockLapses
<1>12. QED
    BY <1>0, <1>1, <1>2, <1>3, <1>4, <1>5, <1>6, <1>7, <1>8, <1>9, <1>10, <1>11 DEF Next, Handle

(* The lock does what it is for as long as no handler outlasts it: neither *)
(* a dead holder nor a redelivery lets two instances work for one user     *)
(* (processInitiateOrder 86-88, 168-172).                                  *)
THEOREM OneAtATimePerUser == ASSUME SlowWork = FALSE PROVE Spec => []OneOrderPerUser
<1>1. Init => CriticalOwns
    BY DEF Init, CriticalOwns, Critical
<1>2. IInv /\ CriticalOwns /\ [Next]_vars => CriticalOwns'
    BY StepOwns
<1>3. CriticalOwns => OneOrderPerUser
    BY DEF OneOrderPerUser, CriticalOwns, LockOf
<1>4. QED
    BY <1>1, <1>2, <1>3, Invariance, PTL DEF Spec
=============================================================================
