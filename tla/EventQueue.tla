----------------------------- MODULE EventQueue -----------------------------
(***************************************************************************)
(* The queue fabric as the application binds it: InMemoryQueueProvider     *)
(* (src/server/src/fabrics/queue/in-memory.provider.ts), one instance      *)
(* shared by every tenant of the process.  Each method runs without an     *)
(* await between its reads and its writes, so each is one atomic action.   *)
(* The tenant of a call comes from the caller's context (CLS).             *)
(*                                                                         *)
(* Names are sequences of segments: "acme_eu" is <<"acme", "eu">> and      *)
(* joining two names with "_" is concatenation.  That is as much of the    *)
(* string as resolveQueueName tells apart.                                 *)
(***************************************************************************)
EXTENDS Integers, Sequences, FiniteSets

CONSTANTS
  Tenants,          \* tenant ids, each a non-empty sequence of segments
  Events,           \* event types, which are also the queue names of callers
  DedupIds,         \* deduplication ids chosen by callers
  NoDedup,          \* the caller passes no deduplication id
  MaxReceiveCount,  \* InMemoryQueueProvider.maxReceiveCount
  MaxBatch,         \* bound: largest maxMessages a consumer passes
  MaxMessages,      \* bound: messages accepted in a behaviour
  MaxDlq,           \* bound: entries of a dead-letter queue a sendToDlq may add to
  MaxRestarts       \* bound: process restarts

ASSUME TenantsAssumption == Tenants # {} /\ \A t \in Tenants : t \in Seq(STRING) /\ t # <<>>
ASSUME EventsAssumption == \A e \in Events : e \in Seq(STRING)
\* randomUUID never yields an id a caller chose; a drawn id is written as the
\* number of the message it was drawn for.
ASSUME DedupAssumption == DedupIds \cap Nat = {} /\ NoDedup \notin DedupIds
ASSUME BoundsAssumption ==
  /\ MaxReceiveCount \in Nat /\ MaxBatch \in Nat
  /\ MaxMessages \in Nat /\ MaxDlq \in Nat /\ MaxRestarts \in Nat

VARIABLES
  queues,        \* queue name -> messages waiting, head first
  dlq,           \* queue name -> entries dead-lettered (their order plays no part)
  inFlight,      \* received and not acknowledged: [handle, queueName, message]
  dedupSeen,     \* every deduplication id accepted since the process started
  receiveCounts, \* message id -> times received; a missing entry counts 0
  nextId,        \* number of the next message accepted (message ids are fresh)
  restarts,      \* process restarts so far
  reply          \* the last call: its outcome, its tenant, the messages handed out

vars == <<queues, dlq, inFlight, dedupSeen, receiveCounts, nextId, restarts, reply>>

(* resolveQueueName: a name that already starts with the tenant's prefix is *)
(* kept, any other gets it.                                                 *)
StartsWithTenant(t, n) == Len(n) > Len(t) /\ SubSeq(n, 1, Len(t)) = t
resolveQueueName(t, n) == IF StartsWithTenant(t, n) THEN n ELSE t \o n

QueueNames == {resolveQueueName(t, n) : t \in Tenants, n \in Events}

QueueMessage ==
  [id : Nat, tenant : Tenants, event : Events, dedup : DedupIds \cup Nat]

DlqEntry == [id : Nat, tenant : Tenants, reason : {"exceeded", "sent"}]

Flight == [handle : Nat \X Nat, queueName : QueueNames, message : QueueMessage]

Reply ==
  [op : {"none", "refused", "enqueue", "dequeue", "acknowledge", "sendToDlq"},
   tenant : Tenants \cup {<<>>},
   given : SUBSET QueueMessage]

Answer(op, t, given) == reply' = [op |-> op, tenant |-> t, given |-> given]

Init ==
  /\ queues = [q \in QueueNames |-> <<>>]
  /\ dlq = [q \in QueueNames |-> {}]
  /\ inFlight = {}
  /\ dedupSeen = {}
  /\ receiveCounts = [id \in {} |-> 0]
  /\ nextId = 1
  /\ restarts = 0
  /\ reply = [op |-> "none", tenant |-> <<>>, given |-> {}]

-----------------------------------------------------------------------------
(* Calls that fail before they touch the queue: no tenant in the context,  *)
(* or a payload that is not a record.                                      *)
CallWithoutTenant ==
  /\ Answer("refused", <<>>, {})
  /\ UNCHANGED <<queues, dlq, inFlight, dedupSeen, receiveCounts, nextId, restarts>>

EnqueueInvalid(t) ==
  /\ Answer("refused", t, {})
  /\ UNCHANGED <<queues, dlq, inFlight, dedupSeen, receiveCounts, nextId, restarts>>

(* enqueue(eventType, data, deduplicationId?): a caller that passes no id   *)
(* gets a fresh one.                                                        *)
DedupIdOf_Missing(d) == d \* mutant: no id is drawn
DedupIdOf(d) == IF d = NoDedup THEN nextId ELSE d
AlreadySent_InFlightOnly(d) == \E f \in inFlight : f.message.dedup = d \* mutant
AlreadySent(d) == d \in dedupSeen
Push_Unshift(q, msg) == <<msg>> \o q \* mutant: pushed at the head
Push(q, msg) == Append(q, msg)

EnqueueDuplicate(t, d) ==
  /\ AlreadySent(d)
  /\ Answer("refused", t, {})
  /\ UNCHANGED <<queues, dlq, inFlight, dedupSeen, receiveCounts, nextId, restarts>>

Enqueue(t, e, d) ==
  LET dedupId == DedupIdOf(d)
      msg == [id |-> nextId, tenant |-> t, event |-> e, dedup |-> dedupId]
      qn == resolveQueueName(t, e)
  IN  /\ nextId <= MaxMessages
      /\ ~ AlreadySent(dedupId)
      /\ dedupSeen' = dedupSeen \cup {dedupId}
      /\ queues' = [queues EXCEPT ![qn] = Push(@, msg)]
      /\ nextId' = nextId + 1
      /\ Answer("enqueue", t, {})
      /\ UNCHANGED <<dlq, inFlight, receiveCounts, restarts>>

ReceiveCount(id) == IF id \in DOMAIN receiveCounts THEN receiveCounts[id] ELSE 0

(* The loop of dequeue takes the first n messages q[1..n]: all of them the *)
(* caller's, fewer than max handed out before each, and it stops at n      *)
(* because the queue is empty, max are handed out, or q[n+1] is foreign.   *)
Exceeded(m) == ReceiveCount(m.id) + 1 > MaxReceiveCount
HandedOut(q, n) == {i \in 1..n : ~ Exceeded(q[i])}
StopsAfter_AnyTenant(t, q, n, max) == n = IF Len(q) < max THEN Len(q) ELSE max \* mutant
StopsAfter_LeavesLast(t, q, n, max) == \* mutant: loops while queue.length > 1
  n = IF q = <<>> THEN 0 ELSE IF Len(q) - 1 < max THEN Len(q) - 1 ELSE max
StopsAfter(t, q, n, max) ==
  /\ \A i \in 1..n : q[i].tenant = t /\ Cardinality(HandedOut(q, i - 1)) < max
  /\ n < Len(q) => Cardinality(HandedOut(q, n)) >= max \/ q[n + 1].tenant # t

(* A foreign message met by the loop goes to the back of the queue. *)
AfterTaking_Peek(t, q, n, max) == q \* mutant: reads without shifting
AfterTaking_NotPutBack(t, q, n, max) == \* mutant: the foreign head is shifted only
  SubSeq(q, IF n < Len(q) /\ Cardinality(HandedOut(q, n)) < max THEN n + 2 ELSE n + 1, Len(q))
AfterTaking(t, q, n, max) ==
  LET rest == SubSeq(q, n + 1, Len(q))
  IN  IF n < Len(q) /\ Cardinality(HandedOut(q, n)) < max
      THEN Append(Tail(rest), Head(rest))
      ELSE rest

DlqEntries(messages, why) ==
  {[id |-> m.id, tenant |-> m.tenant, reason |-> why] : m \in messages}

Dequeue(t, name, max) ==
  LET qn == resolveQueueName(t, name)
      q == queues[qn]
  IN  \E n \in 0..Len(q) :
        LET taken == {q[i] : i \in 1..n}
            given == {q[i] : i \in HandedOut(q, n)}
        IN  /\ StopsAfter(t, q, n, max)
            /\ queues' = [queues EXCEPT ![qn] = AfterTaking(t, q, n, max)]
            /\ receiveCounts' =
                 [id \in DOMAIN receiveCounts \cup {m.id : m \in taken} |->
                    IF \E m \in taken : m.id = id
                    THEN ReceiveCount(id) + 1 ELSE receiveCounts[id]]
            /\ inFlight' = inFlight \cup
                 {[handle |-> <<m.id, ReceiveCount(m.id) + 1>>, queueName |-> qn,
                   message |-> m] : m \in given}
            /\ dlq' = [dlq EXCEPT ![qn] = @ \cup DlqEntries(taken \ given, "exceeded")]
            /\ Answer("dequeue", t, given)
            /\ UNCHANGED <<dedupSeen, nextId, restarts>>

(* acknowledge(queueName, receiptHandle): the queue name plays no part.    *)
(* An unknown handle is answered with success.                             *)
AcknowledgeUnknown(t) ==
  /\ Answer("acknowledge", t, {})
  /\ UNCHANGED <<queues, dlq, inFlight, dedupSeen, receiveCounts, nextId, restarts>>

AcknowledgeForeign(t, f) ==
  /\ f.message.tenant # t
  /\ Answer("refused", t, {})
  /\ UNCHANGED <<queues, dlq, inFlight, dedupSeen, receiveCounts, nextId, restarts>>

Acknowledge(t, f) ==
  /\ f.message.tenant = t
  /\ inFlight' = inFlight \ {f}
  /\ receiveCounts' =
       [id \in DOMAIN receiveCounts \ {f.message.id} |-> receiveCounts[id]]
  /\ Answer("acknowledge", t, {})
  /\ UNCHANGED <<queues, dlq, dedupSeen, nextId, restarts>>

(* sendToDlq(queueName, message, reason): a consumer passes a message it   *)
(* has received; the entry is a copy stamped with the caller's tenant.     *)
SendToDlq(t, name, f) ==
  LET qn == resolveQueueName(t, name)
  IN  /\ f.message.tenant = t
      /\ Cardinality(dlq[qn]) < MaxDlq
      /\ dlq' = [dlq EXCEPT ![qn] = @ \cup DlqEntries({f.message}, "sent")]
      /\ Answer("sendToDlq", t, {})
      /\ UNCHANGED <<queues, inFlight, dedupSeen, receiveCounts, nextId, restarts>>

(* The maps live in the process: a restart (and clear()) empties them.     *)
(* Message ids stay fresh.                                                 *)
Restart ==
  /\ restarts < MaxRestarts
  /\ restarts' = restarts + 1
  /\ queues' = [q \in QueueNames |-> <<>>]
  /\ dlq' = [q \in QueueNames |-> {}]
  /\ inFlight' = {}
  /\ dedupSeen' = {}
  /\ receiveCounts' = [id \in {} |-> 0]
  /\ reply' = [op |-> "none", tenant |-> <<>>, given |-> {}]
  /\ UNCHANGED nextId

Produce ==
  \E t \in Tenants :
    \/ EnqueueInvalid(t)
    \/ \E d \in DedupIds : EnqueueDuplicate(t, d)
    \/ \E e \in Events, d \in DedupIds \cup {NoDedup} : Enqueue(t, e, d)

Poll(t, name) == \E max \in 1..MaxBatch : Dequeue(t, name, max)

Consume ==
  \E t \in Tenants :
    \/ \E name \in Events : Poll(t, name)
    \/ AcknowledgeUnknown(t)
    \/ \E f \in inFlight : AcknowledgeForeign(t, f) \/ Acknowledge(t, f)
    \/ \E name \in Events, f \in inFlight : SendToDlq(t, name, f)

Next == CallWithoutTenant \/ Produce \/ Consume \/ Restart

Spec == Init /\ [][Next]_vars

(* Consumers keep polling every queue they own; nothing makes them         *)
(* acknowledge.                                                            *)
FairSpec == Spec /\ \A t \in Tenants, name \in Events : WF_vars(Poll(t, name))

-----------------------------------------------------------------------------
WaitingIn(q, id) == \E i \in 1..Len(queues[q]) : queues[q][i].id = id

TypeOK ==
  /\ queues \in [QueueNames -> Seq(QueueMessage)]
  /\ dlq \in [QueueNames -> SUBSET DlqEntry]
  /\ inFlight \subseteq Flight
  /\ dedupSeen \subseteq DedupIds \cup Nat
  /\ DOMAIN receiveCounts \subseteq Nat
  /\ \A id \in DOMAIN receiveCounts : receiveCounts[id] \in Nat
  /\ nextId \in Nat \ {0}
  /\ restarts \in Nat
  /\ reply \in Reply

(* No two places of live messages, queue positions and receipts, agree on  *)
(* the key.                                                                *)
UniqueBy(Key(_)) ==
  /\ \A q, r \in QueueNames : \A i \in 1..Len(queues[q]), j \in 1..Len(queues[r]) :
       Key(queues[q][i]) = Key(queues[r][j]) => q = r /\ i = j
  /\ \A q \in QueueNames, f \in inFlight : \A i \in 1..Len(queues[q]) :
       Key(queues[q][i]) # Key(f.message)
  /\ \A f, g \in inFlight : Key(f.message) = Key(g.message) => f = g

(* A message is in one place: two consumers never hold the same message    *)
(* and a received message is never still waiting, whatever the order of    *)
(* the calls of all tenants.                                               *)
OnePlace == UniqueBy(LAMBDA m : m.id)

(* No two live messages carry the same deduplication id: the queue         *)
(* deduplicates across every producer, queue and tenant.                   *)
DedupUnique == UniqueBy(LAMBDA m : m.dedup)

(* A call hands a tenant only its own messages, and only the tenant that   *)
(* owns a message makes it leave the waiting or received messages, even    *)
(* when two tenants' names resolve to one queue.                           *)
OwnerOnlyStep ==
  restarts' = restarts =>
    /\ \A m \in reply'.given : m.tenant = reply'.tenant
    /\ \A f \in inFlight \ inFlight' : f.message.tenant = reply'.tenant
    /\ \A q \in QueueNames : \A i \in 1..Len(queues[q]) :
         \/ queues[q][i].tenant = reply'.tenant
         \/ \E j \in 1..Len(queues'[q]) : queues'[q][j] = queues[q][i]
OwnerOnly == [][OwnerOnlyStep]_vars

(* Short of a restart nothing is dropped: a message that leaves its queue  *)
(* is in flight or dead-lettered after the step, and one leaves the        *)
(* received messages only by an acknowledgement.                           *)
NothingDroppedStep ==
  restarts' = restarts =>
    /\ \A q \in QueueNames : \A i \in 1..Len(queues[q]) :
         \/ \E j \in 1..Len(queues'[q]) : queues'[q][j] = queues[q][i]
         \/ \E f \in inFlight' : f.message = queues[q][i] /\ f.queueName = q
         \/ \E x \in dlq'[q] : x.id = queues[q][i].id
    /\ \A f \in inFlight \ inFlight' : reply'.op = "acknowledge"
NothingDropped == [][NothingDroppedStep]_vars

(* The queues only one tenant's names resolve to.                          *)
ScopedQueues ==
  {q \in QueueNames :
     \A t, u \in Tenants : \A e, f \in Events :
       resolveQueueName(t, e) = q /\ resolveQueueName(u, f) = q => t = u}

(* FIFO per tenant, where tenants do not share a queue: a message is       *)
(* received only when no older message of its tenant still waits in its    *)
(* queue, whatever batches consumers take and wherever the process         *)
(* restarts.                                                               *)
FifoStep ==
  \A f \in inFlight' \ inFlight : f.queueName \in ScopedQueues =>
    \A j \in 1..Len(queues'[f.queueName]) :
      queues'[f.queueName][j].tenant = f.message.tenant
        => queues'[f.queueName][j].id > f.message.id
FifoOnScopedQueues == [][FifoStep]_vars

(* To the tenants that share no queue the provider is a set of FIFO        *)
(* queues: whatever the others, the restarts, the dead-letters and the     *)
(* batches, a message is handed out once, in the order of acceptance, and  *)
(* the provider itself never gives up on one.                              *)
Fifo == INSTANCE FifoQueues WITH
  Queues <- ScopedQueues,
  Messages <- [id : 1..MaxMessages, tenant : Tenants, event : Events,
               dedup : DedupIds \cup 1..MaxMessages],
  waiting <- [q \in ScopedQueues |-> queues[q]],
  received <- [q \in ScopedQueues |-> {f.message : f \in {g \in inFlight : g.queueName = q}}],
  newest <- nextId - 1

ImplementsFifo == Fifo!Spec

(* Every message waiting in a queue its tenant does not share is received, *)
(* given that its consumer keeps polling.                                  *)
EventuallyReceived ==
  \A id \in 1..MaxMessages : \A q \in ScopedQueues :
    WaitingIn(q, id) ~> ~ WaitingIn(q, id)
=============================================================================
