-------------------------- MODULE EventQueueProofs --------------------------
(* Invariance proofs for EventQueue.                                       *)
EXTENDS EventQueue, FiniteSetTheorems, TLAPS

(* What UniqueBy needs to be inductive: ids and deduplication ids of live   *)
(* messages have been allotted and remembered.                              *)
IdsAllotted ==
  /\ \A q \in QueueNames : \A i \in 1..Len(queues[q]) : queues[q][i].id < nextId
  /\ \A f \in inFlight : f.message.id < nextId

DedupRemembered ==
  /\ \A q \in QueueNames : \A i \in 1..Len(queues[q]) : queues[q][i].dedup \in dedupSeen
  /\ \A f \in inFlight : f.message.dedup \in dedupSeen
  /\ \A d \in dedupSeen \cap Nat : d < nextId

IInv == TypeOK /\ IdsAllotted /\ DedupRemembered /\ OnePlace /\ DedupUnique

LEMMA ResolvedName ==
  ASSUME NEW t \in Tenants, NEW n \in Events
  PROVE  resolveQueueName(t, n) \in QueueNames
BY DEF QueueNames

(* r is q after the first n messages left it, rotated by one or not. *)
Shifted(q, n, r) ==
  /\ r \in Seq(QueueMessage) /\ Len(r) = Len(q) - n
  /\ \/ \A i \in 1..Len(r) : r[i] = q[n + i]
     \/ \A i \in 1..Len(r) : r[i] = IF i = Len(r) THEN q[n + 1] ELSE q[n + 1 + i]

(* dequeue keeps, of the queue it reads, the messages after the first n,   *)
(* each at a position of its own, and hands out messages among the first n. *)
LEMMA AfterTakingMoves ==
  ASSUME NEW q \in Seq(QueueMessage), NEW n \in 0..Len(q), NEW t, NEW max
  PROVE  Shifted(q, n, AfterTaking(t, q, n, max))
<1> DEFINE rest == SubSeq(q, n + 1, Len(q))
<1>1. /\ rest \in Seq(QueueMessage)
      /\ Len(rest) = Len(q) - n
      /\ \A i \in 1..Len(rest) : rest[i] = q[n + i]
  OBVIOUS
<1>2. CASE n < Len(q) /\ Cardinality(HandedOut(q, n)) < max
  <2> DEFINE r == Append(Tail(rest), Head(rest))
  <2>1. rest # <<>>
    <3> HIDE DEF rest
    <3>1. Len(rest) > 0
      BY <1>1, <1>2
    <3> QED BY <3>1
  <2>2. Tail(rest) \in Seq(QueueMessage) /\ Len(Tail(rest)) = Len(rest) - 1 /\ Head(rest) = q[n + 1]
    <3> HIDE DEF rest
    <3> QED BY <1>1, <2>1
  <2>3. \A i \in 1..(Len(rest) - 1) : Tail(rest)[i] = q[n + 1 + i]
    <3> HIDE DEF rest
    <3> QED BY <1>1, <2>1
  <2>4. Head(rest) \in QueueMessage
    <3> HIDE DEF rest
    <3> QED BY <1>1, <2>1
  <2>5. /\ r \in Seq(QueueMessage)
        /\ Len(r) = Len(q) - n
        /\ \A i \in 1..Len(r) : r[i] = IF i = Len(r) THEN q[n + 1] ELSE q[n + 1 + i]
    <3> HIDE DEF rest
    <3> QED BY <1>1, <2>2, <2>3, <2>4
  <2> QED BY <1>2, <2>5 DEF AfterTaking, Shifted
<1>3. CASE ~ (n < Len(q) /\ Cardinality(HandedOut(q, n)) < max)
  BY <1>1, <1>3 DEF AfterTaking, Shifted
<1> QED BY <1>2, <1>3

LEMMA CountIsNat ==
  ASSUME TypeOK, NEW id \in Nat
  PROVE  ReceiveCount(id) \in Nat
BY DEF TypeOK, ReceiveCount

(* The steps that answer without touching the queue. *)
LEMMA TypeStep ==
  ASSUME TypeOK, [Next]_vars
  PROVE  TypeOK'
<1> USE DEF Answer
<1>1. CASE CallWithoutTenant
  BY <1>1 DEF CallWithoutTenant, TypeOK, Reply
<1>2. ASSUME NEW t \in Tenants, EnqueueInvalid(t)
      PROVE  TypeOK'
  BY <1>2 DEF EnqueueInvalid, TypeOK, Reply
<1>3. ASSUME NEW t \in Tenants, NEW d \in DedupIds, EnqueueDuplicate(t, d)
      PROVE  TypeOK'
  BY <1>3 DEF EnqueueDuplicate, TypeOK, Reply
<1>4. ASSUME NEW t \in Tenants, NEW e \in Events, NEW d \in DedupIds \cup {NoDedup},
             Enqueue(t, e, d)
      PROVE  TypeOK'
  <2> DEFINE dedupId == DedupIdOf(d)
             msg == [id |-> nextId, tenant |-> t, event |-> e, dedup |-> dedupId]
  <2>1. dedupId \in DedupIds \cup Nat
    BY DEF DedupIdOf, TypeOK
  <2>2. msg \in QueueMessage
    BY <2>1 DEF QueueMessage, TypeOK
  <2>3. /\ resolveQueueName(t, e) \in QueueNames
        /\ queues' = [queues EXCEPT ![resolveQueueName(t, e)] = Append(@, msg)]
        /\ dedupSeen' = dedupSeen \cup {dedupId} /\ nextId' = nextId + 1
        /\ reply' = [op |-> "enqueue", tenant |-> t, given |-> {}]
        /\ UNCHANGED <<dlq, inFlight, receiveCounts, restarts>>
    BY <1>4, ResolvedName DEF Enqueue, Push
  <2> HIDE DEF msg, dedupId
  <2>4. queues' \in [QueueNames -> Seq(QueueMessage)]
    BY <2>2, <2>3 DEF TypeOK
  <2>5. reply' \in Reply
    BY <2>2, <2>3 DEF Reply
  <2> QED BY <2>1, <2>3, <2>4, <2>5 DEF TypeOK
<1>5. ASSUME NEW t \in Tenants, NEW name \in Events, NEW max \in 1..MaxBatch,
             Dequeue(t, name, max)
      PROVE  TypeOK'
  <2> DEFINE qn == resolveQueueName(t, name)
             q == queues[qn]
  <2>1. PICK n \in 0..Len(q) :
          LET taken == {q[i] : i \in 1..n}
              given == {q[i] : i \in HandedOut(q, n)}
          IN  /\ queues' = [queues EXCEPT ![qn] = AfterTaking(t, q, n, max)]
              /\ receiveCounts' =
                   [id \in DOMAIN receiveCounts \cup {m.id : m \in taken} |->
                      IF \E m \in taken : m.id = id
                      THEN ReceiveCount(id) + 1 ELSE receiveCounts[id]]
              /\ inFlight' = inFlight \cup
                   {[handle |-> <<m.id, ReceiveCount(m.id) + 1>>, queueName |-> qn,
                     message |-> m] : m \in given}
              /\ dlq' = [dlq EXCEPT ![qn] = @ \cup DlqEntries(taken \ given, "exceeded")]
              /\ reply' = [op |-> "dequeue", tenant |-> t, given |-> given]
              /\ UNCHANGED <<dedupSeen, nextId, restarts>>
    BY <1>5 DEF Dequeue
  <2> DEFINE taken == {q[i] : i \in 1..n}
             given == {q[i] : i \in HandedOut(q, n)}
  <2>2. qn \in QueueNames /\ q \in Seq(QueueMessage)
    BY ResolvedName DEF TypeOK
  <2>3. taken \subseteq QueueMessage /\ given \subseteq QueueMessage
    BY <2>2 DEF HandedOut
  <2>4. queues' \in [QueueNames -> Seq(QueueMessage)]
    <3>1. AfterTaking(t, q, n, max) \in Seq(QueueMessage)
      <4> HIDE DEF q
      <4> QED BY <2>2, AfterTakingMoves DEF Shifted
    <3> QED BY <2>1, <2>2, <3>1 DEF TypeOK
  <2>5. \A m \in QueueMessage : m.id \in Nat /\ ReceiveCount(m.id) \in Nat
    BY CountIsNat DEF QueueMessage
  <2> HIDE DEF taken, given
  <2>6. inFlight' \subseteq Flight
    BY <2>1, <2>2, <2>3, <2>5 DEF TypeOK, Flight, taken, given
  <2>7. dlq' \in [QueueNames -> SUBSET DlqEntry]
    <3>1. DlqEntries(taken \ given, "exceeded") \subseteq DlqEntry
      BY <2>3 DEF DlqEntries, DlqEntry, QueueMessage
    <3>2. dlq' = [dlq EXCEPT ![qn] = @ \cup DlqEntries(taken \ given, "exceeded")]
      BY <2>1 DEF taken, given
    <3> QED BY <2>2, <3>1, <3>2 DEF TypeOK
  <2>8. DOMAIN receiveCounts' \subseteq Nat
        /\ \A id \in DOMAIN receiveCounts' : receiveCounts'[id] \in Nat
    <3>1. receiveCounts' =
            [id \in DOMAIN receiveCounts \cup {m.id : m \in taken} |->
               IF \E m \in taken : m.id = id THEN ReceiveCount(id) + 1 ELSE receiveCounts[id]]
      BY <2>1 DEF taken, given
    <3>2. \A id \in DOMAIN receiveCounts : receiveCounts[id] \in Nat /\ id \in Nat
      BY DEF TypeOK
    <3> QED BY <2>3, <2>5, <3>1, <3>2
  <2>9. reply' \in Reply
    BY <2>1, <2>3 DEF Reply, given
  <2> QED BY <2>1, <2>4, <2>6, <2>7, <2>8, <2>9 DEF TypeOK
<1>6. ASSUME NEW t \in Tenants, AcknowledgeUnknown(t)
      PROVE  TypeOK'
  BY <1>6 DEF AcknowledgeUnknown, TypeOK, Reply
<1>7. ASSUME NEW t \in Tenants, NEW f \in inFlight, AcknowledgeForeign(t, f)
      PROVE  TypeOK'
  BY <1>7 DEF AcknowledgeForeign, TypeOK, Reply
<1>8. ASSUME NEW t \in Tenants, NEW f \in inFlight, Acknowledge(t, f)
      PROVE  TypeOK'
  BY <1>8 DEF Acknowledge, TypeOK, Reply, Flight
<1>9. ASSUME NEW t \in Tenants, NEW name \in Events, NEW f \in inFlight, SendToDlq(t, name, f)
      PROVE  TypeOK'
  <2>1. f.message \in QueueMessage
    BY DEF TypeOK, Flight
  <2>2. DlqEntries({f.message}, "sent") \subseteq DlqEntry
    BY <2>1 DEF DlqEntries, DlqEntry, QueueMessage
  <2>3. resolveQueueName(t, name) \in QueueNames
    BY ResolvedName
  <2> QED BY <1>9, <2>1, <2>2, <2>3 DEF SendToDlq, TypeOK, Reply
<1>10. CASE Restart
  BY <1>10 DEF Restart, TypeOK, Reply
<1>11. CASE UNCHANGED vars
  BY <1>11 DEF vars, TypeOK, Reply
<1> QED BY <1>1, <1>2, <1>3, <1>4, <1>5, <1>6, <1>7, <1>8, <1>9, <1>10, <1>11
        DEF Next, Produce, Consume, Poll

(* Every reachable state of the queue has its declared types. *)
THEOREM TypeCorrect == Spec => []TypeOK
<1>1. Init => TypeOK
  BY DEF Init, TypeOK, Reply
<1>2. TypeOK /\ [Next]_vars => TypeOK'
  BY TypeStep
<1> QED BY <1>1, <1>2, PTL DEF Spec

-----------------------------------------------------------------------------
(* dequeue as a move of places: the waiting messages of one queue keep     *)
(* distinct places, the first n leave it, and what is newly in flight was  *)
(* among them and is the caller's.                                         *)
DequeueMove(t, qn, n, pi) ==
  /\ \A q \in QueueNames : q # qn => queues'[q] = queues[q]
  /\ \A i \in 1..Len(queues'[qn]) : queues'[qn][i] = queues[qn][pi[i]]
  /\ \A i, j \in 1..Len(queues'[qn]) : pi[i] = pi[j] => i = j
  /\ \A k \in (n + 1)..Len(queues[qn]) : \E i \in 1..Len(queues'[qn]) : pi[i] = k
  /\ \A k \in 1..n :
       /\ queues[qn][k].tenant = t
       /\ \/ \E f \in inFlight' : f.message = queues[qn][k] /\ f.queueName = qn
          \/ \E x \in dlq'[qn] : x.id = queues[qn][k].id
  /\ inFlight \subseteq inFlight'
  /\ \A f \in inFlight' \ inFlight : \E k \in 1..n : f.message = queues[qn][k]
  /\ \A f, g \in inFlight' \ inFlight : f.message = g.message => f = g
  /\ \A m \in reply'.given : \E k \in 1..n : m = queues[qn][k]
  /\ reply'.tenant = t
  /\ UNCHANGED <<dedupSeen, nextId, restarts>>

LEMMA DequeueMoves ==
  ASSUME TypeOK, NEW t \in Tenants, NEW name \in Events, NEW max \in 1..MaxBatch,
         Dequeue(t, name, max)
  PROVE  \E qn \in QueueNames : \E n \in 0..Len(queues[qn]) :
           \E pi \in [1..Len(queues'[qn]) -> (n + 1)..Len(queues[qn])] :
             DequeueMove(t, qn, n, pi)
<1> DEFINE qn == resolveQueueName(t, name)
           q == queues[qn]
<1>1. PICK n \in 0..Len(q) :
        LET taken == {q[i] : i \in 1..n}
            given == {q[i] : i \in HandedOut(q, n)}
        IN  /\ \A i \in 1..n : q[i].tenant = t
            /\ queues' = [queues EXCEPT ![qn] = AfterTaking(t, q, n, max)]
            /\ inFlight' = inFlight \cup
                 {[handle |-> <<m.id, ReceiveCount(m.id) + 1>>, queueName |-> qn,
                   message |-> m] : m \in given}
            /\ dlq' = [dlq EXCEPT ![qn] = @ \cup DlqEntries(taken \ given, "exceeded")]
            /\ reply' = [op |-> "dequeue", tenant |-> t, given |-> given]
            /\ UNCHANGED <<dedupSeen, nextId, restarts>>
  BY DEF Dequeue, StopsAfter, Answer
<1> DEFINE taken == {q[i] : i \in 1..n}
           given == {q[i] : i \in HandedOut(q, n)}
           r == AfterTaking(t, q, n, max)
<1>2. qn \in QueueNames /\ q \in Seq(QueueMessage)
  BY ResolvedName DEF TypeOK
<1>3. /\ queues'[qn] = r
      /\ \A p \in QueueNames : p # qn => queues'[p] = queues[p]
  BY <1>1, <1>2 DEF TypeOK
<1>4. /\ r \in Seq(QueueMessage) /\ Len(r) = Len(q) - n
      /\ \/ \A i \in 1..Len(r) : r[i] = q[n + i]
         \/ \A i \in 1..Len(r) : r[i] = IF i = Len(r) THEN q[n + 1] ELSE q[n + 1 + i]
  <2>1. Shifted(q, n, r)
    <3> HIDE DEF q
    <3> QED BY <1>2, AfterTakingMoves
  <2> HIDE DEF q, r
  <2> QED BY <2>1 DEF Shifted
<1> HIDE DEF r, q
<1>5. PICK pi \in [1..Len(r) -> (n + 1)..Len(q)] :
        /\ \A i \in 1..Len(r) : r[i] = q[pi[i]]
        /\ \A i, j \in 1..Len(r) : pi[i] = pi[j] => i = j
        /\ \A k \in (n + 1)..Len(q) : \E i \in 1..Len(r) : pi[i] = k
  <2>0. Len(q) \in Nat
    BY <1>2
  <2>1. CASE \A i \in 1..Len(r) : r[i] = q[n + i]
    <3> DEFINE p == [i \in 1..Len(r) |-> n + i]
    <3>1. p \in [1..Len(r) -> (n + 1)..Len(q)]
      BY <1>4, <2>0
    <3>2. \A k \in (n + 1)..Len(q) : (k - n) \in 1..Len(r) /\ p[k - n] = k
      BY <1>4, <2>0
    <3>3. \A i, j \in 1..Len(r) : p[i] = p[j] => i = j
      BY <1>4, <2>0
    <3>4. \A i \in 1..Len(r) : r[i] = q[p[i]]
      BY <2>1
    <3>5. \A k \in (n + 1)..Len(q) : \E i \in 1..Len(r) : p[i] = k
      BY <3>2
    <3> WITNESS p \in [1..Len(r) -> (n + 1)..Len(q)]
    <3> QED BY <3>3, <3>4, <3>5
  <2>2. CASE \A i \in 1..Len(r) : r[i] = IF i = Len(r) THEN q[n + 1] ELSE q[n + 1 + i]
    <3> DEFINE p == [i \in 1..Len(r) |-> IF i = Len(r) THEN n + 1 ELSE n + 1 + i]
    <3>1. p \in [1..Len(r) -> (n + 1)..Len(q)]
      BY <1>4, <2>0
    <3>2. \A k \in (n + 1)..Len(q) : \E i \in 1..Len(r) : p[i] = k
      <4> TAKE k \in (n + 1)..Len(q)
      <4>1. CASE k = n + 1
        BY <1>4, <2>0, <4>1
      <4>2. CASE k # n + 1
        <5>1. (k - n - 1) \in 1..Len(r) /\ p[k - n - 1] = k
          BY <1>4, <2>0, <4>2
        <5> QED BY <5>1
      <4> QED BY <4>1, <4>2
    <3>3. \A i, j \in 1..Len(r) : p[i] = p[j] => i = j
      BY <1>4, <2>0
    <3>4. \A i \in 1..Len(r) : r[i] = q[p[i]]
      BY <2>2
    <3> WITNESS p \in [1..Len(r) -> (n + 1)..Len(q)]
    <3> QED BY <3>2, <3>3, <3>4
  <2> QED BY <1>4, <2>1, <2>2
<1>6. \A k \in 1..n : \/ \E f \in inFlight' : f.message = q[k] /\ f.queueName = qn
                      \/ \E x \in dlq'[qn] : x.id = q[k].id
  <2> TAKE k \in 1..n
  <2>1. CASE q[k] \in given
    <3>1. inFlight' = inFlight \cup
            {[handle |-> <<m.id, ReceiveCount(m.id) + 1>>, queueName |-> qn,
              message |-> m] : m \in given}
      BY <1>1 DEF q
    <3>2. \A m \in given : \E f \in inFlight' : f.message = m /\ f.queueName = qn
      <4> HIDE DEF given, qn
      <4> TAKE m \in given
      <4>1. [handle |-> <<m.id, ReceiveCount(m.id) + 1>>, queueName |-> qn, message |-> m] \in inFlight'
        BY <3>1
      <4> QED BY <4>1
    <3> QED BY <2>1, <3>2
  <2>2. CASE q[k] \notin given
    <3> HIDE DEF given, taken
    <3>1. q[k] \in taken
      BY DEF taken
    <3>2. [id |-> q[k].id, tenant |-> q[k].tenant, reason |-> "exceeded"]
            \in DlqEntries(taken \ given, "exceeded")
      BY <2>2, <3>1 DEF DlqEntries
    <3>3. dlq'[qn] = dlq[qn] \cup DlqEntries(taken \ given, "exceeded")
      BY <1>1, <1>2 DEF TypeOK, taken, given, q
    <3> QED BY <3>2, <3>3
  <2> QED BY <2>1, <2>2
<1>7. \A m \in given : \E k \in 1..n : m = q[k]
  BY DEF HandedOut
<1>8. /\ inFlight \subseteq inFlight'
      /\ \A f \in inFlight' \ inFlight : \E k \in 1..n : f.message = q[k]
      /\ \A f, g \in inFlight' \ inFlight : f.message = g.message => f = g
  <2> HIDE DEF given
  <2>1. inFlight' = inFlight \cup
          {[handle |-> <<m.id, ReceiveCount(m.id) + 1>>, queueName |-> qn,
            message |-> m] : m \in given}
    BY <1>1 DEF given, q
  <2> QED BY <1>7, <2>1
<1>9. DequeueMove(t, qn, n, pi)
  <2>1. \A m \in reply'.given : \E k \in 1..n : m = q[k]
    BY <1>1, <1>7 DEF q
  <2>2. UNCHANGED <<dedupSeen, nextId, restarts>> /\ reply'.tenant = t
    BY <1>1
  <2>3. \A k \in 1..n : q[k].tenant = t
    BY <1>1 DEF q
  <2> QED BY <1>3, <1>5, <1>6, <1>8, <2>1, <2>2, <2>3 DEF DequeueMove, q
<1> QED BY <1>2, <1>3, <1>5, <1>9 DEF q

(* The indices and receipts of live messages survive the other steps.      *)
LEMMA IInvStep ==
  ASSUME IInv, [Next]_vars
  PROVE  IInv'
<1>1. TypeOK'
  BY TypeStep DEF IInv
<1>2. ASSUME UNCHANGED <<queues, inFlight, dedupSeen, nextId>>
      PROVE  IInv'
  BY <1>1, <1>2 DEF IInv, IdsAllotted, DedupRemembered, OnePlace, DedupUnique, UniqueBy
<1>3. ASSUME NEW t \in Tenants, NEW e \in Events, NEW d \in DedupIds \cup {NoDedup},
             Enqueue(t, e, d)
      PROVE  IInv'
  <2> DEFINE dedupId == DedupIdOf(d)
             msg == [id |-> nextId, tenant |-> t, event |-> e, dedup |-> dedupId]
             qn == resolveQueueName(t, e)
  <2>1. /\ dedupId \in DedupIds \cup {nextId} /\ dedupId \notin dedupSeen
        /\ msg.id = nextId /\ msg.dedup = dedupId
        /\ qn \in QueueNames
        /\ queues' = [queues EXCEPT ![qn] = Append(@, msg)]
        /\ dedupSeen' = dedupSeen \cup {dedupId} /\ nextId' = nextId + 1
        /\ UNCHANGED inFlight
    BY <1>3, ResolvedName DEF Enqueue, Push, DedupIdOf, AlreadySent
  <2> HIDE DEF msg, dedupId, qn
  <2>2. /\ \A q \in QueueNames : q # qn => queues'[q] = queues[q]
        /\ Len(queues'[qn]) = Len(queues[qn]) + 1
        /\ \A i \in 1..Len(queues[qn]) : queues'[qn][i] = queues[qn][i]
        /\ queues'[qn][Len(queues[qn]) + 1] = msg
        /\ \A q \in QueueNames : Len(queues[q]) \in Nat
        /\ nextId \in Nat
    BY <2>1 DEF IInv, TypeOK
  <2>3. \A q \in QueueNames : \A i \in 1..Len(queues'[q]) :
          \/ i \in 1..Len(queues[q]) /\ queues'[q][i] = queues[q][i]
          \/ q = qn /\ i = Len(queues[qn]) + 1 /\ queues'[q][i] = msg
    BY <2>2
  <2>4. /\ \A q \in QueueNames : \A i \in 1..Len(queues[q]) :
             queues[q][i].id \in Nat /\ queues[q][i].id < nextId /\ queues[q][i].dedup \in dedupSeen
        /\ \A f \in inFlight :
             f.message.id \in Nat /\ f.message.id < nextId /\ f.message.dedup \in dedupSeen
    <3>1. \A q \in QueueNames : \A i \in 1..Len(queues[q]) : queues[q][i] \in QueueMessage
      <4> TAKE q \in QueueNames
      <4>1. queues[q] \in Seq(QueueMessage)
        BY DEF IInv, TypeOK
      <4> QED BY <4>1
    <3>2. \A f \in inFlight : f.message \in QueueMessage
      BY DEF IInv, TypeOK, Flight
    <3> QED BY <3>1, <3>2 DEF IInv, IdsAllotted, DedupRemembered, QueueMessage
  <2>5. IdsAllotted'
    BY <2>1, <2>2, <2>3, <2>4 DEF IdsAllotted
  <2>6. DedupRemembered'
    <3>1. \A x \in dedupSeen' \cap Nat : x < nextId'
      BY <2>1, <2>2, DedupAssumption DEF IInv, DedupRemembered
    <3> QED BY <2>1, <2>3, <2>4, <3>1 DEF DedupRemembered
  <2>7. OnePlace'
    <3>1. \A q, r \in QueueNames : \A i \in 1..Len(queues'[q]), j \in 1..Len(queues'[r]) :
            queues'[q][i].id = queues'[r][j].id => q = r /\ i = j
      <4> TAKE q, r \in QueueNames
      <4> TAKE i \in 1..Len(queues'[q]), j \in 1..Len(queues'[r])
      <4>1. \A p \in QueueNames : \A k \in 1..Len(queues[p]) : queues[p][k].id # msg.id
        BY <2>1, <2>2, <2>4
      <4>2. CASE /\ i \in 1..Len(queues[q]) /\ queues'[q][i] = queues[q][i]
                 /\ j \in 1..Len(queues[r]) /\ queues'[r][j] = queues[r][j]
        BY <4>2 DEF IInv, OnePlace, UniqueBy
      <4>3. CASE queues'[q][i] = msg /\ q = qn /\ i = Len(queues[qn]) + 1
        <5>1. CASE j \in 1..Len(queues[r]) /\ queues'[r][j] = queues[r][j]
          BY <4>1, <4>3, <5>1
        <5> QED BY <2>3, <4>3, <5>1
      <4>4. CASE queues'[r][j] = msg /\ r = qn /\ j = Len(queues[qn]) + 1
        <5>1. CASE i \in 1..Len(queues[q]) /\ queues'[q][i] = queues[q][i]
          BY <4>1, <4>4, <5>1
        <5> QED BY <2>3, <4>4, <5>1
      <4> QED BY <2>3, <4>2, <4>3, <4>4
    <3>2. \A q \in QueueNames, f \in inFlight' : \A i \in 1..Len(queues'[q]) :
            queues'[q][i].id # f.message.id
      BY <2>1, <2>2, <2>3, <2>4 DEF IInv, OnePlace, UniqueBy
    <3>3. \A f, g \in inFlight' : f.message.id = g.message.id => f = g
      BY <2>1 DEF IInv, OnePlace, UniqueBy
    <3> QED BY <3>1, <3>2, <3>3 DEF OnePlace, UniqueBy
  <2>8. DedupUnique'
    <3>1. \A q, r \in QueueNames : \A i \in 1..Len(queues'[q]), j \in 1..Len(queues'[r]) :
            queues'[q][i].dedup = queues'[r][j].dedup => q = r /\ i = j
      <4> TAKE q, r \in QueueNames
      <4> TAKE i \in 1..Len(queues'[q]), j \in 1..Len(queues'[r])
      <4>1. \A p \in QueueNames : \A k \in 1..Len(queues[p]) : queues[p][k].dedup # msg.dedup
        BY <2>1, <2>2, <2>4
      <4>2. CASE /\ i \in 1..Len(queues[q]) /\ queues'[q][i] = queues[q][i]
                 /\ j \in 1..Len(queues[r]) /\ queues'[r][j] = queues[r][j]
        BY <4>2 DEF IInv, DedupUnique, UniqueBy
      <4>3. CASE queues'[q][i] = msg /\ q = qn /\ i = Len(queues[qn]) + 1
        <5>1. CASE j \in 1..Len(queues[r]) /\ queues'[r][j] = queues[r][j]
          BY <4>1, <4>3, <5>1
        <5> QED BY <2>3, <4>3, <5>1
      <4>4. CASE queues'[r][j] = msg /\ r = qn /\ j = Len(queues[qn]) + 1
        <5>1. CASE i \in 1..Len(queues[q]) /\ queues'[q][i] = queues[q][i]
          BY <4>1, <4>4, <5>1
        <5> QED BY <2>3, <4>4, <5>1
      <4> QED BY <2>3, <4>2, <4>3, <4>4
    <3>2. \A q \in QueueNames, f \in inFlight' : \A i \in 1..Len(queues'[q]) :
            queues'[q][i].dedup # f.message.dedup
      BY <2>1, <2>2, <2>3, <2>4 DEF IInv, DedupUnique, UniqueBy
    <3>3. \A f, g \in inFlight' : f.message.dedup = g.message.dedup => f = g
      BY <2>1 DEF IInv, DedupUnique, UniqueBy
    <3> QED BY <3>1, <3>2, <3>3 DEF DedupUnique, UniqueBy
  <2> QED BY <1>1, <2>5, <2>6, <2>7, <2>8 DEF IInv
<1>4. ASSUME NEW t \in Tenants, NEW name \in Events, NEW max \in 1..MaxBatch,
             Dequeue(t, name, max)
      PROVE  IInv'
  <2>a. PICK qn \in QueueNames : \E n \in 0..Len(queues[qn]) :
          \E pi \in [1..Len(queues'[qn]) -> (n + 1)..Len(queues[qn])] : DequeueMove(t, qn, n, pi)
    BY <1>4, DequeueMoves DEF IInv
  <2>b. PICK n \in 0..Len(queues[qn]) :
          \E pi \in [1..Len(queues'[qn]) -> (n + 1)..Len(queues[qn])] : DequeueMove(t, qn, n, pi)
    BY <2>a
  <2>1. PICK pi \in [1..Len(queues'[qn]) -> (n + 1)..Len(queues[qn])] :
          DequeueMove(t, qn, n, pi)
    BY <2>b
  <2>2. \A q \in QueueNames : Len(queues[q]) \in Nat
    BY DEF IInv, TypeOK
  <2> DEFINE at == [q \in QueueNames |->
                      [i \in 1..Len(queues'[q]) |-> IF q = qn THEN pi[i] ELSE i]]
  <2>3. \A q \in QueueNames : \A i \in 1..Len(queues'[q]) :
          /\ at[q][i] \in 1..Len(queues[q])
          /\ queues'[q][i] = queues[q][at[q][i]]
          /\ q = qn => at[q][i] > n
    BY <2>1, <2>2 DEF DequeueMove
  <2>4. \A q \in QueueNames : \A i, j \in 1..Len(queues'[q]) : at[q][i] = at[q][j] => i = j
    BY <2>1 DEF DequeueMove
  <2>5. \A f \in inFlight' \ inFlight : \E k \in 1..n : f.message = queues[qn][k]
    BY <2>1 DEF DequeueMove
  <2>6. \A f, g \in inFlight' \ inFlight : f.message = g.message => f = g
    BY <2>1 DEF DequeueMove
  <2>7. dedupSeen' = dedupSeen /\ nextId' = nextId /\ 1..n \subseteq 1..Len(queues[qn])
    BY <2>1, <2>2 DEF DequeueMove
  <2> HIDE DEF at
  <2>8. IdsAllotted' /\ DedupRemembered'
    <3>1. \A q \in QueueNames : \A i \in 1..Len(queues'[q]) :
            queues'[q][i].id < nextId /\ queues'[q][i].dedup \in dedupSeen
      <4> TAKE q \in QueueNames
      <4> TAKE i \in 1..Len(queues'[q])
      <4>1. at[q][i] \in 1..Len(queues[q]) /\ queues'[q][i] = queues[q][at[q][i]]
        BY <2>3
      <4> QED BY <4>1 DEF IInv, IdsAllotted, DedupRemembered
    <3>2. \A f \in inFlight' : f.message.id < nextId /\ f.message.dedup \in dedupSeen
      <4> TAKE f \in inFlight'
      <4>1. CASE f \in inFlight
        BY <4>1 DEF IInv, IdsAllotted, DedupRemembered
      <4>2. CASE f \notin inFlight
        <5>1. PICK k \in 1..n : f.message = queues[qn][k]
          BY <2>5, <4>2
        <5> QED BY <2>7, <5>1 DEF IInv, IdsAllotted, DedupRemembered
      <4> QED BY <4>1, <4>2
    <3> QED BY <2>7, <3>1, <3>2 DEF IInv, IdsAllotted, DedupRemembered
  <2>9. OnePlace'
    <3>1. \A q, r \in QueueNames : \A i \in 1..Len(queues'[q]), j \in 1..Len(queues'[r]) :
            queues'[q][i].id = queues'[r][j].id => q = r /\ i = j
      <4> TAKE q, r \in QueueNames
      <4> TAKE i \in 1..Len(queues'[q]), j \in 1..Len(queues'[r])
      <4> HAVE queues'[q][i].id = queues'[r][j].id
      <4>1. queues[q][at[q][i]].id = queues[r][at[r][j]].id
        BY <2>3
      <4>2. at[q][i] \in 1..Len(queues[q]) /\ at[r][j] \in 1..Len(queues[r])
        BY <2>3
      <4>3. q = r /\ at[q][i] = at[r][j]
        <5>1. \A a \in 1..Len(queues[q]), b \in 1..Len(queues[r]) :
                queues[q][a].id = queues[r][b].id => q = r /\ a = b
          BY DEF IInv, OnePlace, UniqueBy
        <5> QED BY <4>1, <4>2, <5>1, Zenon
      <4> QED BY <2>4, <4>3
    <3>2. \A q \in QueueNames, f \in inFlight' : \A i \in 1..Len(queues'[q]) :
            queues'[q][i].id # f.message.id
      <4> TAKE q \in QueueNames, f \in inFlight'
      <4> TAKE i \in 1..Len(queues'[q])
      <4>1. CASE f \in inFlight
        <5>1. at[q][i] \in 1..Len(queues[q])
          BY <2>3
        <5>2. queues[q][at[q][i]].id # f.message.id
          BY <4>1, <5>1 DEF IInv, OnePlace, UniqueBy
        <5> QED BY <2>3, <5>2
      <4>2. CASE f \notin inFlight
        <5>1. PICK k \in 1..n : f.message = queues[qn][k]
          BY <2>5, <4>2
        <5>2. k \in 1..Len(queues[qn]) /\ (q = qn => at[q][i] # k)
          BY <2>2, <2>3, <2>7, <5>1
        <5>3. at[q][i] \in 1..Len(queues[q])
          BY <2>3
        <5>4. queues[q][at[q][i]].id # queues[qn][k].id
          <6>1. \A a \in 1..Len(queues[q]), b \in 1..Len(queues[qn]) :
                  queues[q][a].id = queues[qn][b].id => q = qn /\ a = b
            BY DEF IInv, OnePlace, UniqueBy
          <6> QED BY <5>2, <5>3, <6>1, Zenon
        <5> QED BY <2>3, <5>1, <5>4
      <4> QED BY <4>1, <4>2
    <3>3. \A f, g \in inFlight' : f.message.id = g.message.id => f = g
      <4> TAKE f, g \in inFlight'
      <4> HAVE f.message.id = g.message.id
      <4>1. CASE f \in inFlight /\ g \in inFlight
        BY <4>1 DEF IInv, OnePlace, UniqueBy
      <4>2. CASE f \notin inFlight /\ g \notin inFlight
        <5>1. PICK k \in 1..n : f.message = queues[qn][k]
          BY <2>5, <4>2
        <5>2. PICK l \in 1..n : g.message = queues[qn][l]
          BY <2>5, <4>2
        <5>3. k = l
          BY <2>7, <5>1, <5>2 DEF IInv, OnePlace, UniqueBy
        <5> QED BY <2>6, <4>2, <5>1, <5>2, <5>3
      <4>3. ASSUME NEW old \in inFlight, NEW new \in inFlight' \ inFlight
            PROVE  old.message.id # new.message.id
        <5>1. PICK k \in 1..n : new.message = queues[qn][k]
          BY <2>5
        <5> QED BY <2>7, <5>1 DEF IInv, OnePlace, UniqueBy
      <4> QED BY <4>1, <4>2, <4>3
    <3> QED BY <3>1, <3>2, <3>3 DEF OnePlace, UniqueBy
  <2>10. DedupUnique'
    <3>1. \A q, r \in QueueNames : \A i \in 1..Len(queues'[q]), j \in 1..Len(queues'[r]) :
            queues'[q][i].dedup = queues'[r][j].dedup => q = r /\ i = j
      <4> TAKE q, r \in QueueNames
      <4> TAKE i \in 1..Len(queues'[q]), j \in 1..Len(queues'[r])
      <4> HAVE queues'[q][i].dedup = queues'[r][j].dedup
      <4>1. queues[q][at[q][i]].dedup = queues[r][at[r][j]].dedup
        BY <2>3
      <4>2. at[q][i] \in 1..Len(queues[q]) /\ at[r][j] \in 1..Len(queues[r])
        BY <2>3
      <4>3. q = r /\ at[q][i] = at[r][j]
        <5>1. \A a \in 1..Len(queues[q]), b \in 1..Len(queues[r]) :
                queues[q][a].dedup = queues[r][b].dedup => q = r /\ a = b
          BY DEF IInv, DedupUnique, UniqueBy
        <5> QED BY <4>1, <4>2, <5>1, Zenon
      <4> QED BY <2>4, <4>3
    <3>2. \A q \in QueueNames, f \in inFlight' : \A i \in 1..Len(queues'[q]) :
            queues'[q][i].dedup # f.message.dedup
      <4> TAKE q \in QueueNames, f \in inFlight'
      <4> TAKE i \in 1..Len(queues'[q])
      <4>1. CASE f \in inFlight
        <5>1. at[q][i] \in 1..Len(queues[q])
          BY <2>3
        <5>2. queues[q][at[q][i]].dedup # f.message.dedup
          BY <4>1, <5>1 DEF IInv, DedupUnique, UniqueBy
        <5> QED BY <2>3, <5>2
      <4>2. CASE f \notin inFlight
        <5>1. PICK k \in 1..n : f.message = queues[qn][k]
          BY <2>5, <4>2
        <5>2. k \in 1..Len(queues[qn]) /\ (q = qn => at[q][i] # k)
          BY <2>2, <2>3, <2>7, <5>1
        <5>3. at[q][i] \in 1..Len(queues[q])
          BY <2>3
        <5>4. queues[q][at[q][i]].dedup # queues[qn][k].dedup
          <6>1. \A a \in 1..Len(queues[q]), b \in 1..Len(queues[qn]) :
                  queues[q][a].dedup = queues[qn][b].dedup => q = qn /\ a = b
            BY DEF IInv, DedupUnique, UniqueBy
          <6> QED BY <5>2, <5>3, <6>1, Zenon
        <5> QED BY <2>3, <5>1, <5>4
      <4> QED BY <4>1, <4>2
    <3>3. \A f, g \in inFlight' : f.message.dedup = g.message.dedup => f = g
      <4> TAKE f, g \in inFlight'
      <4> HAVE f.message.dedup = g.message.dedup
      <4>1. CASE f \in inFlight /\ g \in inFlight
        BY <4>1 DEF IInv, DedupUnique, UniqueBy
      <4>2. CASE f \notin inFlight /\ g \notin inFlight
        <5>1. PICK k \in 1..n : f.message = queues[qn][k]
          BY <2>5, <4>2
        <5>2. PICK l \in 1..n : g.message = queues[qn][l]
          BY <2>5, <4>2
        <5>3. k = l
          BY <2>7, <5>1, <5>2 DEF IInv, DedupUnique, UniqueBy
        <5> QED BY <2>6, <4>2, <5>1, <5>2, <5>3
      <4>3. ASSUME NEW old \in inFlight, NEW new \in inFlight' \ inFlight
            PROVE  old.message.dedup # new.message.dedup
        <5>1. PICK k \in 1..n : new.message = queues[qn][k]
          BY <2>5
        <5> QED BY <2>7, <5>1 DEF IInv, DedupUnique, UniqueBy
      <4> QED BY <4>1, <4>2, <4>3
    <3> QED BY <3>1, <3>2, <3>3 DEF DedupUnique, UniqueBy
  <2> QED BY <1>1, <2>8, <2>9, <2>10 DEF IInv
<1>5. ASSUME NEW t \in Tenants, NEW f \in inFlight, Acknowledge(t, f)
      PROVE  IInv'
  <2>1. inFlight' \subseteq inFlight /\ UNCHANGED <<queues, dedupSeen, nextId>>
    BY <1>5 DEF Acknowledge
  <2> QED BY <1>1, <2>1 DEF IInv, IdsAllotted, DedupRemembered, OnePlace, DedupUnique, UniqueBy
<1>6. CASE Restart
  BY <1>1, <1>6 DEF Restart, IInv, IdsAllotted, DedupRemembered, OnePlace, DedupUnique, UniqueBy
<1> QED
  <2>1. CASE CallWithoutTenant
    BY <1>2, <2>1 DEF CallWithoutTenant
  <2>2. ASSUME NEW t \in Tenants, EnqueueInvalid(t) \/ \E d \in DedupIds : EnqueueDuplicate(t, d)
        PROVE  IInv'
    BY <1>2, <2>2 DEF EnqueueInvalid, EnqueueDuplicate
  <2>3. ASSUME NEW t \in Tenants,
               \/ AcknowledgeUnknown(t)
               \/ \E f \in inFlight : AcknowledgeForeign(t, f)
               \/ \E name \in Events, f \in inFlight : SendToDlq(t, name, f)
        PROVE  IInv'
    BY <1>2, <2>3 DEF AcknowledgeUnknown, AcknowledgeForeign, SendToDlq
  <2>4. CASE UNCHANGED vars
    BY <1>2, <2>4 DEF vars
  <2> QED BY <1>3, <1>4, <1>5, <1>6, <2>1, <2>2, <2>3, <2>4 DEF Next, Produce, Consume, Poll

LEMMA IInvInit == Init => IInv
BY DEF Init, IInv, TypeOK, Reply, IdsAllotted, DedupRemembered, OnePlace, DedupUnique, UniqueBy

THEOREM Invariance == Spec => []IInv
<1>1. IInv /\ [Next]_vars => IInv'
  BY IInvStep
<1> QED BY <1>1, IInvInit, PTL DEF Spec

(* A message is delivered at most once and never while it still waits.     *)
THEOREM DeliveredOnce == Spec => []OnePlace
<1>1. IInv => OnePlace
  BY DEF IInv
<1> QED BY <1>1, Invariance, PTL

(* No two live messages share a deduplication id.                          *)
THEOREM Deduplicated == Spec => []DedupUnique
<1>1. IInv => DedupUnique
  BY DEF IInv
<1> QED BY <1>1, Invariance, PTL

(* Both action properties follow from where each step puts the messages. *)
LEMMA PlacesStep ==
  ASSUME TypeOK, [Next]_vars
  PROVE  [OwnerOnlyStep /\ NothingDroppedStep]_vars
<1>1. ASSUME UNCHANGED <<queues, inFlight>>, \A m \in reply'.given : m.tenant = reply'.tenant
      PROVE  OwnerOnlyStep /\ NothingDroppedStep
  BY <1>1 DEF OwnerOnlyStep, NothingDroppedStep
<1>2. ASSUME NEW t \in Tenants, NEW e \in Events, NEW d \in DedupIds \cup {NoDedup},
             Enqueue(t, e, d)
      PROVE  OwnerOnlyStep /\ NothingDroppedStep
  <2> DEFINE msg == [id |-> nextId, tenant |-> t, event |-> e, dedup |-> DedupIdOf(d)]
  <2>1. /\ msg.tenant = t
        /\ queues' = [queues EXCEPT ![resolveQueueName(t, e)] = Append(@, msg)]
        /\ reply'.given = {} /\ reply'.tenant = t
        /\ UNCHANGED <<inFlight, restarts>>
    BY <1>2 DEF Enqueue, Push, Answer
  <2> HIDE DEF msg
  <2>2. \A q \in QueueNames : \A i \in 1..Len(queues[q]) :
          i \in 1..Len(queues'[q]) /\ queues'[q][i] = queues[q][i]
    BY <2>1, ResolvedName DEF TypeOK
  <2> QED BY <2>1, <2>2 DEF OwnerOnlyStep, NothingDroppedStep
<1>3. ASSUME NEW t \in Tenants, NEW name \in Events, NEW max \in 1..MaxBatch,
             Dequeue(t, name, max)
      PROVE  OwnerOnlyStep /\ NothingDroppedStep
  <2>1. PICK qn \in QueueNames : \E n \in 0..Len(queues[qn]) :
          \E pi \in [1..Len(queues'[qn]) -> (n + 1)..Len(queues[qn])] : DequeueMove(t, qn, n, pi)
    BY <1>3, DequeueMoves
  <2>2. PICK n \in 0..Len(queues[qn]) :
          \E pi \in [1..Len(queues'[qn]) -> (n + 1)..Len(queues[qn])] : DequeueMove(t, qn, n, pi)
    BY <2>1
  <2>3. PICK pi \in [1..Len(queues'[qn]) -> (n + 1)..Len(queues[qn])] :
          DequeueMove(t, qn, n, pi)
    BY <2>2
  <2>4. Len(queues[qn]) \in Nat
    BY DEF TypeOK
  <2>5. \A q \in QueueNames : \A i \in 1..Len(queues[q]) :
          \/ \E j \in 1..Len(queues'[q]) : queues'[q][j] = queues[q][i]
          \/ q = qn /\ i \in 1..n
    <3> TAKE q \in QueueNames
    <3> TAKE i \in 1..Len(queues[q])
    <3>1. CASE q # qn
      BY <2>3, <3>1 DEF DequeueMove
    <3>2. CASE q = qn /\ i > n
      <4>1. i \in (n + 1)..Len(queues[qn])
        BY <2>4, <3>2
      <4>2. PICK j \in 1..Len(queues'[qn]) : pi[j] = i
        BY <2>3, <4>1 DEF DequeueMove
      <4>3. queues'[qn][j] = queues[qn][i]
        BY <2>3, <4>2 DEF DequeueMove
      <4> QED BY <3>2, <4>3
    <3> QED BY <2>4, <3>1, <3>2
  <2>6. \A k \in 1..n :
          /\ queues[qn][k].tenant = reply'.tenant
          /\ \/ \E f \in inFlight' : f.message = queues[qn][k] /\ f.queueName = qn
             \/ \E x \in dlq'[qn] : x.id = queues[qn][k].id
    BY <2>3 DEF DequeueMove
  <2>7. /\ \A m \in reply'.given : \E k \in 1..n : m = queues[qn][k]
        /\ inFlight \subseteq inFlight'
    BY <2>3 DEF DequeueMove
  <2>8. \A m \in reply'.given : m.tenant = reply'.tenant
    BY <2>6, <2>7
  <2>9. \A q \in QueueNames : \A i \in 1..Len(queues[q]) :
          \/ \E j \in 1..Len(queues'[q]) : queues'[q][j] = queues[q][i]
          \/ queues[q][i].tenant = reply'.tenant
    BY <2>5, <2>6
  <2>10. \A q \in QueueNames : \A i \in 1..Len(queues[q]) :
           \/ \E j \in 1..Len(queues'[q]) : queues'[q][j] = queues[q][i]
           \/ \E f \in inFlight' : f.message = queues[q][i] /\ f.queueName = q
           \/ \E x \in dlq'[q] : x.id = queues[q][i].id
    BY <2>5, <2>6
  <2> QED BY <2>7, <2>8, <2>9, <2>10 DEF OwnerOnlyStep, NothingDroppedStep
<1>4. ASSUME NEW t \in Tenants, NEW f \in inFlight, Acknowledge(t, f)
      PROVE  OwnerOnlyStep /\ NothingDroppedStep
  BY <1>4 DEF Acknowledge, Answer, OwnerOnlyStep, NothingDroppedStep
<1>5. CASE Restart
  BY <1>5 DEF Restart, TypeOK, OwnerOnlyStep, NothingDroppedStep
<1>6. CASE CallWithoutTenant
  BY <1>1, <1>6 DEF CallWithoutTenant, Answer
<1>7. ASSUME NEW t \in Tenants, EnqueueInvalid(t) \/ \E d \in DedupIds : EnqueueDuplicate(t, d)
      PROVE  OwnerOnlyStep /\ NothingDroppedStep
  BY <1>1, <1>7 DEF EnqueueInvalid, EnqueueDuplicate, Answer
<1>8. ASSUME NEW t \in Tenants,
             AcknowledgeUnknown(t) \/ \E f \in inFlight : AcknowledgeForeign(t, f)
      PROVE  OwnerOnlyStep /\ NothingDroppedStep
  BY <1>1, <1>8 DEF AcknowledgeUnknown, AcknowledgeForeign, Answer
<1>9. ASSUME NEW t \in Tenants, NEW name \in Events, NEW f \in inFlight, SendToDlq(t, name, f)
      PROVE  OwnerOnlyStep /\ NothingDroppedStep
  <2>1. /\ UNCHANGED <<queues, inFlight>>
        /\ reply' = [op |-> "sendToDlq", tenant |-> t, given |-> {}]
        /\ f.message.tenant = t
    BY <1>9 DEF SendToDlq, Answer
  <2> QED BY <1>1, <2>1
<1> QED BY <1>2, <1>3, <1>4, <1>5, <1>6, <1>7, <1>8, <1>9 DEF Next, Produce, Consume, Poll

(* Only a message's own tenant receives or removes it, whatever names      *)
(* collide.                                                                *)
THEOREM OnlyOwners == Spec => OwnerOnly
<1>1. TypeOK /\ [Next]_vars => [OwnerOnlyStep]_vars
  BY PlacesStep
<1> QED BY <1>1, TypeCorrect, PTL DEF Spec, OwnerOnly

(* Short of a restart no message leaves the queue unaccounted for. *)
THEOREM NothingLost == Spec => NothingDropped
<1>1. TypeOK /\ [Next]_vars => [NothingDroppedStep]_vars
  BY PlacesStep
<1> QED BY <1>1, TypeCorrect, PTL DEF Spec, NothingDropped

-----------------------------------------------------------------------------
(* Order.  What FifoOnScopedQueues needs to be inductive: a message waits   *)
(* where its own tenant's name resolves to, and in a queue no other tenant  *)
(* shares the waiting messages are in the order they were accepted.         *)
Routed ==
  \A q \in QueueNames : \A i \in 1..Len(queues[q]) :
    resolveQueueName(queues[q][i].tenant, queues[q][i].event) = q

InOrder ==
  \A q \in ScopedQueues : \A i, j \in 1..Len(queues[q]) :
    i < j => queues[q][i].id < queues[q][j].id

OrderInv == IInv /\ Routed /\ InOrder

(* A queue that holds only the caller's messages is never rotated. *)
LEMMA OwnQueueTaken ==
  ASSUME NEW q \in Seq(QueueMessage), NEW n \in 0..Len(q), NEW t, NEW max \in Nat,
         StopsAfter(t, q, n, max), \A i \in 1..Len(q) : q[i].tenant = t
  PROVE  AfterTaking(t, q, n, max) = SubSeq(q, n + 1, Len(q))
<1>1. n \in Nat /\ n <= Len(q) /\ Len(q) \in Nat
  OBVIOUS
<1>2. Cardinality(HandedOut(q, n)) \in Nat
  <2>1. IsFiniteSet(1..n)
    BY <1>1, FS_Interval
  <2>2. HandedOut(q, n) \in SUBSET (1..n)
    BY DEF HandedOut
  <2>3. IsFiniteSet(HandedOut(q, n))
    BY <2>1, <2>2, FS_Subset
  <2> QED BY <2>3, FS_CardinalityType
<1>3. n < Len(q) => Cardinality(HandedOut(q, n)) >= max
  <2>1. n < Len(q) => n + 1 \in 1..Len(q)
    BY <1>1
  <2> QED BY <2>1 DEF StopsAfter
<1>4. ~ (n < Len(q) /\ Cardinality(HandedOut(q, n)) < max)
  BY <1>2, <1>3
<1> QED BY <1>4 DEF AfterTaking

(* A poll of a queue that is the caller's alone takes messages from its    *)
(* head: the first n are taken, the others move up.                         *)
LEMMA ScopedDequeue ==
  ASSUME OrderInv, NEW t \in Tenants, NEW name \in Events, NEW max \in 1..MaxBatch,
         Dequeue(t, name, max)
  PROVE  \E qn \in QueueNames : \E n \in 0..Len(queues[qn]) :
           /\ \A q \in QueueNames : q # qn => queues'[q] = queues[q]
           /\ \A f \in inFlight' \ inFlight :
                f.queueName = qn /\ \E k \in 1..n : f.message = queues[qn][k]
           /\ qn \in ScopedQueues =>
                /\ Len(queues'[qn]) = Len(queues[qn]) - n
                /\ \A i \in 1..Len(queues'[qn]) : queues'[qn][i] = queues[qn][n + i]
<1> DEFINE qn == resolveQueueName(t, name)
           q == queues[qn]
<1>1. PICK n \in 0..Len(q) :
        LET given == {q[i] : i \in HandedOut(q, n)}
        IN  /\ StopsAfter(t, q, n, max)
            /\ queues' = [queues EXCEPT ![qn] = AfterTaking(t, q, n, max)]
            /\ inFlight' = inFlight \cup
                 {[handle |-> <<m.id, ReceiveCount(m.id) + 1>>, queueName |-> qn,
                   message |-> m] : m \in given}
  BY DEF Dequeue
<1>2. qn \in QueueNames /\ q \in Seq(QueueMessage) /\ TypeOK
  BY ResolvedName DEF OrderInv, IInv, TypeOK
<1>3. /\ queues'[qn] = AfterTaking(t, q, n, max)
      /\ \A p \in QueueNames : p # qn => queues'[p] = queues[p]
  BY <1>1, <1>2 DEF TypeOK
<1>4. \A f \in inFlight' \ inFlight : f.queueName = qn /\ \E k \in 1..n : f.message = q[k]
  BY <1>1 DEF HandedOut
<1>5. ASSUME qn \in ScopedQueues
      PROVE  \A i \in 1..Len(q) : q[i].tenant = t
  <2> TAKE i \in 1..Len(q)
  <2>1. q[i] \in QueueMessage /\ resolveQueueName(q[i].tenant, q[i].event) = qn
    BY <1>2 DEF OrderInv, Routed
  <2>2. q[i].tenant \in Tenants /\ q[i].event \in Events
    BY <2>1 DEF QueueMessage
  <2> HIDE DEF q
  <2> QED BY <1>5, <2>1, <2>2 DEF ScopedQueues
<1>6. ASSUME qn \in ScopedQueues
      PROVE  /\ Len(queues'[qn]) = Len(q) - n
             /\ \A i \in 1..Len(queues'[qn]) : queues'[qn][i] = q[n + i]
  <2>1. StopsAfter(t, q, n, max) /\ max \in Nat
    BY <1>1 DEF BoundsAssumption
  <2> HIDE DEF q
  <2>2. queues'[qn] = SubSeq(q, n + 1, Len(q))
    BY <1>2, <1>3, <1>5, <1>6, <2>1, OwnQueueTaken
  <2> QED BY <1>2, <2>2
<1> QED BY <1>2, <1>3, <1>4, <1>6

LEMMA RoutedStep ==
  ASSUME OrderInv, [Next]_vars
  PROVE  Routed'
<1>0. TypeOK
  BY DEF OrderInv, IInv
<1>1. CASE UNCHANGED queues
  BY <1>1 DEF OrderInv, Routed
<1>2. ASSUME NEW t \in Tenants, NEW e \in Events, NEW d \in DedupIds \cup {NoDedup},
             Enqueue(t, e, d)
      PROVE  Routed'
  <2> DEFINE msg == [id |-> nextId, tenant |-> t, event |-> e, dedup |-> DedupIdOf(d)]
             qn == resolveQueueName(t, e)
  <2>1. /\ queues' = [queues EXCEPT ![qn] = Append(@, msg)]
        /\ msg.tenant = t /\ msg.event = e
    BY <1>2 DEF Enqueue, Push
  <2> HIDE DEF msg
  <2>2. \A q \in QueueNames : \A i \in 1..Len(queues'[q]) :
          \/ i \in 1..Len(queues[q]) /\ queues'[q][i] = queues[q][i]
          \/ q = qn /\ queues'[q][i] = msg
    BY <1>0, <2>1 DEF TypeOK
  <2> QED BY <2>1, <2>2 DEF OrderInv, Routed
<1>3. ASSUME NEW t \in Tenants, NEW name \in Events, NEW max \in 1..MaxBatch,
             Dequeue(t, name, max)
      PROVE  Routed'
  <2>1. PICK qn \in QueueNames : \E n \in 0..Len(queues[qn]) :
          \E pi \in [1..Len(queues'[qn]) -> (n + 1)..Len(queues[qn])] : DequeueMove(t, qn, n, pi)
    BY <1>0, <1>3, DequeueMoves
  <2>2. PICK n \in 0..Len(queues[qn]) :
          \E pi \in [1..Len(queues'[qn]) -> (n + 1)..Len(queues[qn])] : DequeueMove(t, qn, n, pi)
    BY <2>1
  <2>3. PICK pi \in [1..Len(queues'[qn]) -> (n + 1)..Len(queues[qn])] :
          DequeueMove(t, qn, n, pi)
    BY <2>2
  <2>4. Len(queues[qn]) \in Nat
    BY <1>0 DEF TypeOK
  <2>5. \A q \in QueueNames : \A i \in 1..Len(queues'[q]) :
          \E j \in 1..Len(queues[q]) : queues'[q][i] = queues[q][j]
    <3> TAKE q \in QueueNames
    <3> TAKE i \in 1..Len(queues'[q])
    <3>1. CASE q # qn
      BY <2>3, <3>1 DEF DequeueMove
    <3>2. CASE q = qn
      <4>1. pi[i] \in 1..Len(queues[qn])
        BY <2>4, <3>2
      <4>2. queues'[qn][i] = queues[qn][pi[i]]
        BY <2>3, <3>2 DEF DequeueMove
      <4> QED BY <3>2, <4>1, <4>2
    <3> QED BY <3>1, <3>2
  <2>6. \A q \in QueueNames : \A i \in 1..Len(queues'[q]) :
          resolveQueueName(queues'[q][i].tenant, queues'[q][i].event) = q
    <3> TAKE q \in QueueNames
    <3> TAKE i \in 1..Len(queues'[q])
    <3>1. PICK j \in 1..Len(queues[q]) : queues'[q][i] = queues[q][j]
      BY <2>5
    <3> QED BY <3>1 DEF OrderInv, Routed
  <2> QED BY <2>6 DEF Routed
<1>4. CASE Restart
  BY <1>4 DEF Restart, Routed
<1> QED BY <1>1, <1>2, <1>3, <1>4 DEF Next, Produce, Consume, Poll, vars, CallWithoutTenant,
           EnqueueInvalid, EnqueueDuplicate, AcknowledgeUnknown, AcknowledgeForeign,
           Acknowledge, SendToDlq

LEMMA OrderStep ==
  ASSUME OrderInv, [Next]_vars
  PROVE  InOrder' /\ FifoStep
<1>0. TypeOK /\ ScopedQueues \subseteq QueueNames /\ ScopedQueues' = ScopedQueues
  BY DEF OrderInv, IInv, ScopedQueues, QueueNames, resolveQueueName, StartsWithTenant
<1>1. CASE UNCHANGED queues /\ inFlight' \subseteq inFlight
  BY <1>0, <1>1 DEF OrderInv, InOrder, FifoStep
<1>2. ASSUME NEW t \in Tenants, NEW e \in Events, NEW d \in DedupIds \cup {NoDedup},
             Enqueue(t, e, d)
      PROVE  InOrder' /\ FifoStep
  <2> DEFINE msg == [id |-> nextId, tenant |-> t, event |-> e, dedup |-> DedupIdOf(d)]
             qn == resolveQueueName(t, e)
  <2>1. /\ queues' = [queues EXCEPT ![qn] = Append(@, msg)]
        /\ msg.id = nextId /\ inFlight' = inFlight
    BY <1>2 DEF Enqueue, Push
  <2> HIDE DEF msg
  <2>2. \A q \in QueueNames : \A i \in 1..Len(queues'[q]) :
          \/ i \in 1..Len(queues[q]) /\ queues'[q][i] = queues[q][i]
          \/ i = Len(queues[q]) + 1 /\ queues'[q][i].id = nextId
    BY <1>0, <2>1 DEF TypeOK
  <2>3. \A q \in QueueNames : \A i \in 1..Len(queues[q]) :
          queues[q][i].id < nextId
    BY DEF OrderInv, IInv, IdsAllotted
  <2>4. InOrder'
    <3> SUFFICES ASSUME NEW q \in ScopedQueues,
                        NEW i \in 1..Len(queues'[q]), NEW j \in 1..Len(queues'[q]), i < j
                 PROVE  queues'[q][i].id < queues'[q][j].id
      BY <1>0 DEF InOrder
    <3>1. q \in QueueNames /\ Len(queues[q]) \in Nat /\ i \in Nat /\ j \in Nat
          /\ j <= Len(queues[q]) + 1
      BY <1>0, <2>2 DEF TypeOK
    <3>2. i \in 1..Len(queues[q]) /\ queues'[q][i] = queues[q][i]
      BY <2>2, <3>1
    <3>3. CASE j \in 1..Len(queues[q]) /\ queues'[q][j] = queues[q][j]
      BY <3>2, <3>3 DEF OrderInv, InOrder
    <3>4. CASE queues'[q][j].id = nextId
      BY <2>3, <3>1, <3>2, <3>4
    <3> QED BY <2>2, <3>1, <3>3, <3>4
  <2> QED BY <2>1, <2>4 DEF FifoStep
<1>3. ASSUME NEW t \in Tenants, NEW name \in Events, NEW max \in 1..MaxBatch,
             Dequeue(t, name, max)
      PROVE  InOrder' /\ FifoStep
  <2>1. PICK qn \in QueueNames : \E n \in 0..Len(queues[qn]) :
          /\ \A q \in QueueNames : q # qn => queues'[q] = queues[q]
          /\ \A f \in inFlight' \ inFlight :
               f.queueName = qn /\ \E k \in 1..n : f.message = queues[qn][k]
          /\ qn \in ScopedQueues =>
               /\ Len(queues'[qn]) = Len(queues[qn]) - n
               /\ \A i \in 1..Len(queues'[qn]) : queues'[qn][i] = queues[qn][n + i]
    BY <1>3, ScopedDequeue
  <2>2. PICK n \in 0..Len(queues[qn]) :
          /\ \A f \in inFlight' \ inFlight :
               f.queueName = qn /\ \E k \in 1..n : f.message = queues[qn][k]
          /\ qn \in ScopedQueues =>
               /\ Len(queues'[qn]) = Len(queues[qn]) - n
               /\ \A i \in 1..Len(queues'[qn]) : queues'[qn][i] = queues[qn][n + i]
    BY <2>1
  <2>3. Len(queues[qn]) \in Nat
    BY <1>0 DEF TypeOK
  <2>4. qn \in ScopedQueues =>
          \A i, j \in 1..Len(queues[qn]) : i < j => queues[qn][i].id < queues[qn][j].id
    BY DEF OrderInv, InOrder
  <2>5. InOrder'
    <3> SUFFICES ASSUME NEW q \in ScopedQueues,
                        NEW i \in 1..Len(queues'[q]), NEW j \in 1..Len(queues'[q]), i < j
                 PROVE  queues'[q][i].id < queues'[q][j].id
      BY <1>0 DEF InOrder
    <3>1. CASE q # qn
      BY <1>0, <2>1, <3>1 DEF OrderInv, InOrder
    <3>2. CASE q = qn
      <4>1. (n + i) \in 1..Len(queues[qn]) /\ (n + j) \in 1..Len(queues[qn]) /\ n + i < n + j
        BY <2>2, <2>3, <3>2
      <4>2. queues'[qn][i] = queues[qn][n + i] /\ queues'[qn][j] = queues[qn][n + j]
        BY <2>2, <3>2
      <4> QED BY <2>4, <3>2, <4>1, <4>2
    <3> QED BY <3>1, <3>2
  <2>6. FifoStep
    <3> SUFFICES ASSUME NEW f \in inFlight' \ inFlight, f.queueName \in ScopedQueues,
                        NEW j \in 1..Len(queues'[f.queueName])
                 PROVE  queues'[f.queueName][j].id > f.message.id
      BY DEF FifoStep
    <3>1. f.queueName = qn
      BY <2>2
    <3>2. PICK k \in 1..n : f.message = queues[qn][k]
      BY <2>2
    <3>3. k \in 1..Len(queues[qn]) /\ (n + j) \in 1..Len(queues[qn]) /\ k < n + j
      BY <2>2, <2>3, <3>1
    <3>4. queues'[qn][j] = queues[qn][n + j]
      BY <2>2, <3>1
    <3>5. queues[qn][k].id < queues[qn][n + j].id
      BY <2>4, <3>1, <3>3
    <3>6. queues[qn][k].id \in Nat /\ queues[qn][n + j].id \in Nat
      <4>1. queues[qn] \in Seq(QueueMessage)
        BY <1>0 DEF TypeOK
      <4>2. queues[qn][k] \in QueueMessage /\ queues[qn][n + j] \in QueueMessage
        BY <3>3, <4>1
      <4> QED BY <4>2 DEF QueueMessage
    <3> QED BY <3>1, <3>2, <3>4, <3>5, <3>6
  <2> QED BY <2>5, <2>6
<1>4. CASE Restart
  BY <1>0, <1>4 DEF Restart, InOrder, FifoStep
<1> QED BY <1>1, <1>2, <1>3, <1>4 DEF Next, Produce, Consume, Poll, vars, CallWithoutTenant,
           EnqueueInvalid, EnqueueDuplicate, AcknowledgeUnknown, AcknowledgeForeign,
           Acknowledge, SendToDlq

(* Where tenants do not share a queue, messages are received in the order  *)
(* they were accepted, across batches, dead-letters and restarts.           *)
THEOREM ReceivedInOrder == Spec => FifoOnScopedQueues
<1>1. Init => OrderInv
  BY IInvInit DEF OrderInv, Init, Routed, InOrder, ScopedQueues
<1>2. OrderInv /\ [Next]_vars => OrderInv'
  BY IInvStep, RoutedStep, OrderStep DEF OrderInv
<1>3. OrderInv /\ [Next]_vars => [FifoStep]_vars
  BY OrderStep
<1> QED BY <1>1, <1>2, <1>3, PTL DEF Spec, FifoOnScopedQueues

-----------------------------------------------------------------------------
(* Receipts.  Nothing returns a message to its queue, so what waits was     *)
(* never received: the count that dequeue compares with maxReceiveCount is  *)
(* always zero.                                                             *)
NeverReceived ==
  \A q \in QueueNames : \A i \in 1..Len(queues[q]) :
    queues[q][i].id \notin DOMAIN receiveCounts

ReceivedOnce ==
  \A id \in DOMAIN receiveCounts : id < nextId /\ receiveCounts[id] = 1

ReceiptInv == IInv /\ NeverReceived /\ ReceivedOnce

(* What dequeue does to the queue it reads and to the counts, and which of  *)
(* the messages that were waiting still are.                                *)
LEMMA DequeueCounts ==
  ASSUME ReceiptInv, NEW t \in Tenants, NEW name \in Events, NEW max \in 1..MaxBatch,
         Dequeue(t, name, max)
  PROVE  \E qn \in QueueNames : \E n \in 0..Len(queues[qn]) :
           /\ receiveCounts' =
                [id \in DOMAIN receiveCounts \cup {queues[qn][i].id : i \in 1..n} |-> 1]
           /\ \A q \in QueueNames : q # qn => queues'[q] = queues[q]
           /\ \A i \in 1..Len(queues'[qn]) :
                \E k \in (n + 1)..Len(queues[qn]) : queues'[qn][i] = queues[qn][k]
           /\ nextId' = nextId
<1> DEFINE qn == resolveQueueName(t, name)
           q == queues[qn]
<1>0. TypeOK /\ qn \in QueueNames /\ q \in Seq(QueueMessage)
  BY ResolvedName DEF ReceiptInv, IInv, TypeOK
<1>1. PICK n \in 0..Len(q) :
        LET taken == {q[i] : i \in 1..n}
        IN  /\ queues' = [queues EXCEPT ![qn] = AfterTaking(t, q, n, max)]
            /\ receiveCounts' =
                 [id \in DOMAIN receiveCounts \cup {m.id : m \in taken} |->
                    IF \E m \in taken : m.id = id
                    THEN ReceiveCount(id) + 1 ELSE receiveCounts[id]]
            /\ nextId' = nextId
  BY DEF Dequeue
<1> DEFINE taken == {q[i] : i \in 1..n}
<1>2. Len(q) \in Nat /\ n \in Nat /\ n <= Len(q)
  <2> HIDE DEF q
  <2> QED BY <1>0
<1>3. {m.id : m \in taken} = {q[i].id : i \in 1..n}
  OBVIOUS
<1>4. \A m \in taken : m.id \notin DOMAIN receiveCounts
  <2> SUFFICES ASSUME NEW i \in 1..n PROVE q[i].id \notin DOMAIN receiveCounts
    OBVIOUS
  <2>1. i \in 1..Len(q)
    BY <1>2
  <2> QED BY <1>0, <2>1 DEF ReceiptInv, NeverReceived
<1>5. \A id \in DOMAIN receiveCounts \cup {m.id : m \in taken} :
        (IF \E m \in taken : m.id = id THEN ReceiveCount(id) + 1 ELSE receiveCounts[id]) = 1
  <2> HIDE DEF taken
  <2> TAKE id \in DOMAIN receiveCounts \cup {m.id : m \in taken}
  <2>1. CASE \E m \in taken : m.id = id
    BY <1>4, <2>1 DEF ReceiveCount
  <2>2. CASE ~ \E m \in taken : m.id = id
    BY <2>2 DEF ReceiptInv, ReceivedOnce
  <2> QED BY <2>1, <2>2
<1>6. receiveCounts' = [id \in DOMAIN receiveCounts \cup {q[i].id : i \in 1..n} |-> 1]
  BY <1>1, <1>3, <1>5
<1>7. \A i \in 1..Len(queues'[qn]) : \E k \in (n + 1)..Len(q) : queues'[qn][i] = q[k]
  <2> DEFINE r == AfterTaking(t, q, n, max)
  <2>1. queues'[qn] = r
    BY <1>0, <1>1 DEF TypeOK
  <2>2. Shifted(q, n, r)
    <3> HIDE DEF q
    <3> QED BY <1>0, AfterTakingMoves
  <2> HIDE DEF r, q
  <2> TAKE i \in 1..Len(queues'[qn])
  <2>3. Len(r) = Len(q) - n /\ i \in Nat /\ i >= 1 /\ i <= Len(q) - n
    BY <1>2, <2>1, <2>2 DEF Shifted
  <2>4. CASE r[i] = q[n + i]
    BY <1>2, <2>1, <2>3, <2>4
  <2>5. CASE r[i] = IF i = Len(r) THEN q[n + 1] ELSE q[n + 1 + i]
    <3>1. CASE i = Len(r)
      BY <1>2, <2>1, <2>3, <2>5, <3>1
    <3>2. CASE i # Len(r)
      BY <1>2, <2>1, <2>3, <2>5, <3>2
    <3> QED BY <3>1, <3>2
  <2> QED BY <2>1, <2>2, <2>4, <2>5 DEF Shifted
<1>8. \A p \in QueueNames : p # qn => queues'[p] = queues[p]
  BY <1>1
<1> QED BY <1>0, <1>1, <1>6, <1>7, <1>8

LEMMA ReceiptStep ==
  ASSUME ReceiptInv, [Next]_vars
  PROVE  NeverReceived' /\ ReceivedOnce'
<1>0. TypeOK /\ nextId \in Nat
  BY DEF ReceiptInv, IInv, TypeOK
<1>1. CASE UNCHANGED <<queues, nextId, receiveCounts>>
  BY <1>1 DEF ReceiptInv, NeverReceived, ReceivedOnce
<1>2. ASSUME NEW t \in Tenants, NEW e \in Events, NEW d \in DedupIds \cup {NoDedup},
             Enqueue(t, e, d)
      PROVE  NeverReceived' /\ ReceivedOnce'
  <2> DEFINE msg == [id |-> nextId, tenant |-> t, event |-> e, dedup |-> DedupIdOf(d)]
             qn == resolveQueueName(t, e)
  <2>1. /\ queues' = [queues EXCEPT ![qn] = Append(@, msg)]
        /\ msg.id = nextId /\ nextId' = nextId + 1 /\ UNCHANGED receiveCounts
    BY <1>2 DEF Enqueue, Push
  <2> HIDE DEF msg
  <2>2. \A q \in QueueNames : \A i \in 1..Len(queues'[q]) :
          \/ i \in 1..Len(queues[q]) /\ queues'[q][i] = queues[q][i]
          \/ queues'[q][i].id = nextId
    BY <1>0, <2>1 DEF TypeOK
  <2>3. nextId \notin DOMAIN receiveCounts /\ DOMAIN receiveCounts \subseteq Nat
    BY <1>0 DEF TypeOK, ReceiptInv, ReceivedOnce
  <2>4. NeverReceived'
    BY <2>1, <2>2, <2>3 DEF ReceiptInv, NeverReceived
  <2>5. ReceivedOnce'
    BY <1>0, <2>1, <2>3 DEF ReceiptInv, ReceivedOnce
  <2> QED BY <2>4, <2>5
<1>3. ASSUME NEW t \in Tenants, NEW name \in Events, NEW max \in 1..MaxBatch,
             Dequeue(t, name, max)
      PROVE  NeverReceived' /\ ReceivedOnce'
  <2>1. PICK qn \in QueueNames : \E n \in 0..Len(queues[qn]) :
          /\ receiveCounts' =
               [id \in DOMAIN receiveCounts \cup {queues[qn][i].id : i \in 1..n} |-> 1]
          /\ \A q \in QueueNames : q # qn => queues'[q] = queues[q]
          /\ \A i \in 1..Len(queues'[qn]) :
               \E k \in (n + 1)..Len(queues[qn]) : queues'[qn][i] = queues[qn][k]
          /\ nextId' = nextId
    BY <1>3, DequeueCounts
  <2>2. PICK n \in 0..Len(queues[qn]) :
          /\ receiveCounts' =
               [id \in DOMAIN receiveCounts \cup {queues[qn][i].id : i \in 1..n} |-> 1]
          /\ \A i \in 1..Len(queues'[qn]) :
               \E k \in (n + 1)..Len(queues[qn]) : queues'[qn][i] = queues[qn][k]
    BY <2>1
  <2>3. Len(queues[qn]) \in Nat /\ n \in Nat /\ n <= Len(queues[qn])
    BY <1>0 DEF TypeOK
  <2> DEFINE ids == {queues[qn][i].id : i \in 1..n}
  <2>4. DOMAIN receiveCounts' = DOMAIN receiveCounts \cup ids
        /\ \A id \in DOMAIN receiveCounts' : receiveCounts'[id] = 1
    BY <2>2
  <2>5. \A id \in ids : id < nextId
    <3> SUFFICES ASSUME NEW i \in 1..n PROVE queues[qn][i].id < nextId
      OBVIOUS
    <3>1. i \in 1..Len(queues[qn])
      BY <2>3
    <3> QED BY <3>1 DEF ReceiptInv, IInv, IdsAllotted
  <2>6. ReceivedOnce'
    <3> HIDE DEF ids
    <3> QED BY <2>1, <2>4, <2>5 DEF ReceiptInv, ReceivedOnce
  <2>7. NeverReceived'
    <3> SUFFICES ASSUME NEW q \in QueueNames, NEW i \in 1..Len(queues'[q])
                 PROVE  queues'[q][i].id \notin DOMAIN receiveCounts'
      BY DEF NeverReceived
    <3>1. PICK k \in 1..Len(queues[q]) :
            queues'[q][i] = queues[q][k] /\ (q = qn => k > n)
      <4>1. CASE q # qn
        BY <2>1, <4>1
      <4>2. CASE q = qn
        <5>1. PICK k \in (n + 1)..Len(queues[qn]) : queues'[qn][i] = queues[qn][k]
          BY <2>2, <4>2
        <5>2. k \in 1..Len(queues[qn]) /\ k > n
          BY <2>3
        <5> QED BY <4>2, <5>1, <5>2
      <4> QED BY <4>1, <4>2
    <3>2. queues[q][k].id \notin DOMAIN receiveCounts
      BY DEF ReceiptInv, NeverReceived
    <3>3. ASSUME NEW j \in 1..n PROVE queues[qn][j].id # queues[q][k].id
      <4>1. j \in 1..Len(queues[qn]) /\ ~ (q = qn /\ k = j)
        BY <2>3, <3>1
      <4> QED BY <4>1 DEF ReceiptInv, IInv, OnePlace, UniqueBy
    <3>4. queues[q][k].id \notin ids
      BY <3>3
    <3> HIDE DEF ids
    <3> QED BY <2>4, <3>1, <3>2, <3>4
  <2> QED BY <2>6, <2>7
<1>4. ASSUME NEW t \in Tenants, NEW f \in inFlight, Acknowledge(t, f)
      PROVE  NeverReceived' /\ ReceivedOnce'
  <2>1. /\ receiveCounts' = [id \in DOMAIN receiveCounts \ {f.message.id} |-> receiveCounts[id]]
        /\ queues' = queues /\ nextId' = nextId
    BY <1>4 DEF Acknowledge
  <2>2. /\ DOMAIN receiveCounts' \subseteq DOMAIN receiveCounts
        /\ \A id \in DOMAIN receiveCounts' : receiveCounts'[id] = receiveCounts[id]
    BY <2>1
  <2> QED BY <2>1, <2>2 DEF ReceiptInv, NeverReceived, ReceivedOnce
<1>5. CASE Restart
  BY <1>5 DEF Restart, NeverReceived, ReceivedOnce
<1> QED BY <1>1, <1>2, <1>3, <1>4, <1>5 DEF Next, Produce, Consume, Poll, vars,
           CallWithoutTenant, EnqueueInvalid, EnqueueDuplicate, AcknowledgeUnknown,
           AcknowledgeForeign, SendToDlq

(* A message is received at most once, whatever consumers do with it: one   *)
(* that waits was never received, and no count passes one.                  *)
THEOREM ReceivedAtMostOnce == Spec => [](NeverReceived /\ ReceivedOnce)
<1>1. Init => ReceiptInv
  BY IInvInit DEF Init, ReceiptInv, NeverReceived, ReceivedOnce
<1>2. ReceiptInv /\ [Next]_vars => ReceiptInv'
  BY IInvStep, ReceiptStep DEF ReceiptInv
<1> QED BY <1>1, <1>2, PTL DEF Spec, ReceiptInv

(* A dequeue hands out everything it takes. *)
LEMMA NoneExceeded ==
  ASSUME ReceiptInv, MaxReceiveCount # 0, NEW qn \in QueueNames,
         NEW n \in 0..Len(queues[qn])
  PROVE  HandedOut(queues[qn], n) = 1..n
<1>1. queues[qn] \in Seq(QueueMessage)
  BY DEF ReceiptInv, IInv, TypeOK
<1>2. ASSUME NEW i \in 1..n PROVE ~ Exceeded(queues[qn][i])
  <2>1. i \in 1..Len(queues[qn])
    BY <1>1
  <2>2. ReceiveCount(queues[qn][i].id) = 0
    BY <2>1 DEF ReceiptInv, NeverReceived, ReceiveCount
  <2> QED BY <2>2, BoundsAssumption DEF Exceeded
<1> QED BY <1>2 DEF HandedOut

(* A dequeue of a queue that is the caller's alone, exactly. *)
LEMMA FifoDequeue ==
  ASSUME OrderInv, ReceiptInv, MaxReceiveCount # 0,
         NEW t \in Tenants, NEW name \in Events, NEW max \in 1..MaxBatch,
         Dequeue(t, name, max)
  PROVE  \E qn \in QueueNames : \E n \in 0..Len(queues[qn]) : \E handleOf :
           /\ \A q \in QueueNames : q # qn => queues'[q] = queues[q]
           /\ qn \in ScopedQueues =>
                queues'[qn] = SubSeq(queues[qn], n + 1, Len(queues[qn]))
           /\ inFlight' = inFlight \cup
                {[handle |-> handleOf[m], queueName |-> qn, message |-> m] :
                   m \in {queues[qn][i] : i \in 1..n}}
           /\ UNCHANGED <<nextId, dlq>>
<1> DEFINE qn == resolveQueueName(t, name)
           q == queues[qn]
<1>1. PICK n \in 0..Len(q) :
        LET taken == {q[i] : i \in 1..n}
            given == {q[i] : i \in HandedOut(q, n)}
        IN  /\ StopsAfter(t, q, n, max)
            /\ queues' = [queues EXCEPT ![qn] = AfterTaking(t, q, n, max)]
            /\ inFlight' = inFlight \cup
                 {[handle |-> <<m.id, ReceiveCount(m.id) + 1>>, queueName |-> qn,
                   message |-> m] : m \in given}
            /\ dlq' = [dlq EXCEPT ![qn] = @ \cup DlqEntries(taken \ given, "exceeded")]
            /\ nextId' = nextId
  BY DEF Dequeue
<1> DEFINE taken == {q[i] : i \in 1..n}
           H == [m \in taken |-> <<m.id, ReceiveCount(m.id) + 1>>]
<1>2. qn \in QueueNames /\ q \in Seq(QueueMessage) /\ TypeOK
  BY ResolvedName DEF OrderInv, IInv, TypeOK
<1>3. /\ queues'[qn] = AfterTaking(t, q, n, max)
      /\ \A p \in QueueNames : p # qn => queues'[p] = queues[p]
  BY <1>1, <1>2 DEF TypeOK
<1>4. HandedOut(q, n) = 1..n
  BY <1>2, NoneExceeded
<1>5. inFlight' = inFlight \cup
        {[handle |-> H[m], queueName |-> qn, message |-> m] : m \in taken}
  BY <1>1, <1>4
<1>6. dlq' = dlq
  <2>1. DlqEntries(taken \ taken, "exceeded") = {}
    BY DEF DlqEntries
  <2>2. dlq' = [dlq EXCEPT ![qn] = @ \cup {}]
    BY <1>1, <1>4, <2>1
  <2> QED BY <1>2, <2>2 DEF TypeOK
<1>7. ASSUME qn \in ScopedQueues
      PROVE  queues'[qn] = SubSeq(q, n + 1, Len(q))
  <2>1. \A i \in 1..Len(q) : q[i].tenant = t
    <3> TAKE i \in 1..Len(q)
    <3>1. q[i] \in QueueMessage /\ resolveQueueName(q[i].tenant, q[i].event) = qn
      BY <1>2 DEF OrderInv, Routed
    <3>2. q[i].tenant \in Tenants /\ q[i].event \in Events
      BY <3>1 DEF QueueMessage
    <3> HIDE DEF q
    <3> QED BY <1>7, <3>1, <3>2 DEF ScopedQueues
  <2>2. StopsAfter(t, q, n, max) /\ max \in Nat
    BY <1>1 DEF BoundsAssumption
  <2> HIDE DEF q
  <2> QED BY <1>2, <1>3, <2>1, <2>2, OwnQueueTaken
<1>8. UNCHANGED <<nextId, dlq>>
  BY <1>1, <1>6
<1>9. \E handleOf :
        inFlight' = inFlight \cup
          {[handle |-> handleOf[m], queueName |-> qn, message |-> m] : m \in taken}
  <2> HIDE DEF H
  <2> QED BY <1>5
<1> QED BY <1>1, <1>2, <1>3, <1>7, <1>8, <1>9

(* No message is dead-lettered for having been received too often: the     *)
(* entries of the dead-letter queues are those consumers sent there.       *)
NoneGivenUp == \A q \in QueueNames : \A x \in dlq[q] : x.reason = "sent"

LEMMA GivenUpStep ==
  ASSUME OrderInv, ReceiptInv, MaxReceiveCount # 0, NoneGivenUp, [Next]_vars
  PROVE  NoneGivenUp'
<1>1. CASE UNCHANGED dlq
  BY <1>1 DEF NoneGivenUp
<1>2. ASSUME NEW t \in Tenants, NEW name \in Events, NEW max \in 1..MaxBatch,
             Dequeue(t, name, max)
      PROVE  UNCHANGED dlq
  BY <1>2, FifoDequeue
<1>3. ASSUME NEW t \in Tenants, NEW name \in Events, NEW f \in inFlight, SendToDlq(t, name, f)
      PROVE  NoneGivenUp'
  <2>1. dlq' = [dlq EXCEPT ![resolveQueueName(t, name)] = @ \cup DlqEntries({f.message}, "sent")]
    BY <1>3 DEF SendToDlq
  <2>2. \A x \in DlqEntries({f.message}, "sent") : x.reason = "sent"
    BY DEF DlqEntries
  <2>3. dlq \in [QueueNames -> SUBSET DlqEntry]
    BY DEF OrderInv, IInv, TypeOK
  <2>4. \A q \in QueueNames : dlq'[q] \subseteq dlq[q] \cup DlqEntries({f.message}, "sent")
    BY <2>1, <2>3
  <2> QED BY <2>2, <2>4 DEF NoneGivenUp
<1>4. CASE Restart
  BY <1>4 DEF Restart, NoneGivenUp
<1> QED BY <1>1, <1>2, <1>3, <1>4 DEF Next, Produce, Consume, Poll, vars, CallWithoutTenant,
           EnqueueInvalid, EnqueueDuplicate, Enqueue, AcknowledgeUnknown, AcknowledgeForeign,
           Acknowledge

(* The provider never gives up on a message: with any positive              *)
(* maxReceiveCount no message exceeds it, whatever consumers leave          *)
(* unacknowledged.                                                          *)
THEOREM NeverGivesUp ==
  ASSUME MaxReceiveCount # 0
  PROVE  Spec => []NoneGivenUp
<1> DEFINE I == OrderInv /\ ReceiptInv /\ NoneGivenUp
<1>1. Init => I
  BY IInvInit DEF Init, OrderInv, Routed, InOrder, ScopedQueues, ReceiptInv,
                  NeverReceived, ReceivedOnce, NoneGivenUp
<1>2. I /\ [Next]_vars => I'
  BY IInvStep, RoutedStep, OrderStep, ReceiptStep, GivenUpStep DEF OrderInv, ReceiptInv
<1>3. I => NoneGivenUp
  OBVIOUS
<1> QED BY <1>1, <1>2, <1>3, PTL DEF Spec

-----------------------------------------------------------------------------
(* Refinement of FifoQueues, action by action.  The mapped variables: what  *)
(* waits in, and what was received from, the queues no two tenants share.   *)
WaitingOf == [q \in ScopedQueues |-> queues[q]]
ReceivedFrom(q) == {f.message : f \in {g \in inFlight : g.queueName = q}}
ReceivedOf == [q \in ScopedQueues |-> ReceivedFrom(q)]

LEMMA EnqueueRefines ==
  ASSUME TypeOK, NEW t \in Tenants, NEW e \in Events, NEW d \in DedupIds \cup {NoDedup},
         Enqueue(t, e, d)
  PROVE  Fifo!Next
<1> DEFINE msg == [id |-> nextId, tenant |-> t, event |-> e, dedup |-> DedupIdOf(d)]
           qn == resolveQueueName(t, e)
           Messages == [id : 1..MaxMessages, tenant : Tenants, event : Events,
                        dedup : DedupIds \cup 1..MaxMessages]
<1>1. /\ queues' = [queues EXCEPT ![qn] = Append(@, msg)]
      /\ nextId \in 1..MaxMessages /\ nextId' = nextId + 1 /\ inFlight' = inFlight
  BY BoundsAssumption DEF Enqueue, Push, TypeOK
<1>2. msg \in Messages /\ msg.id = nextId
  <2>1. DedupIdOf(d) \in DedupIds \cup 1..MaxMessages
    BY <1>1 DEF DedupIdOf
  <2> QED BY <1>1, <2>1
<1>3. ReceivedOf' = ReceivedOf
  BY <1>1 DEF ReceivedOf, ReceivedFrom
<1> HIDE DEF msg, Messages
<1>4. CASE qn \in ScopedQueues
  <2>1. PICK m \in Messages : m = msg
    BY <1>2
  <2>2. WaitingOf' = [WaitingOf EXCEPT ![qn] = Append(@, m)]
    BY <1>1, <1>4, <2>1 DEF WaitingOf, TypeOK, ScopedQueues
  <2>3. Fifo!Accept(qn, m)
    BY <1>1, <1>2, <1>3, <2>1, <2>2 DEF Fifo!Accept, WaitingOf, ReceivedOf, ReceivedFrom
  <2> QED BY <1>4, <2>3 DEF Fifo!Next, Messages
<1>5. CASE qn \notin ScopedQueues
  <2>1. WaitingOf' = WaitingOf
    BY <1>1, <1>5 DEF WaitingOf, TypeOK, ScopedQueues
  <2>2. Fifo!AcceptElsewhere
    BY <1>1, <1>3, <2>1 DEF Fifo!AcceptElsewhere, WaitingOf, ReceivedOf, ReceivedFrom
  <2> QED BY <2>2 DEF Fifo!Next
<1> QED BY <1>4, <1>5

LEMMA DequeueRefines ==
  ASSUME OrderInv, ReceiptInv, MaxReceiveCount # 0,
         NEW t \in Tenants, NEW name \in Events, NEW max \in 1..MaxBatch,
         Dequeue(t, name, max)
  PROVE  Fifo!Next \/ UNCHANGED Fifo!fifoVars
<1>1. PICK qn \in QueueNames : \E n \in 0..Len(queues[qn]) : \E handleOf :
        /\ \A q \in QueueNames : q # qn => queues'[q] = queues[q]
        /\ qn \in ScopedQueues =>
             queues'[qn] = SubSeq(queues[qn], n + 1, Len(queues[qn]))
        /\ inFlight' = inFlight \cup
             {[handle |-> handleOf[m], queueName |-> qn, message |-> m] :
                m \in {queues[qn][i] : i \in 1..n}}
        /\ UNCHANGED <<nextId, dlq>>
  BY FifoDequeue
<1>2. PICK n \in 0..Len(queues[qn]) : \E handleOf :
        /\ \A q \in QueueNames : q # qn => queues'[q] = queues[q]
        /\ qn \in ScopedQueues =>
             queues'[qn] = SubSeq(queues[qn], n + 1, Len(queues[qn]))
        /\ inFlight' = inFlight \cup
             {[handle |-> handleOf[m], queueName |-> qn, message |-> m] :
                m \in {queues[qn][i] : i \in 1..n}}
        /\ UNCHANGED <<nextId, dlq>>
  BY <1>1
<1> DEFINE taken == {queues[qn][i] : i \in 1..n}
<1>3. /\ \A q \in QueueNames \ {qn} : ReceivedFrom(q)' = ReceivedFrom(q)
      /\ ReceivedFrom(qn)' = ReceivedFrom(qn) \cup taken
  <2>1. PICK handleOf :
          inFlight' = inFlight \cup
            {[handle |-> handleOf[m], queueName |-> qn, message |-> m] : m \in taken}
    BY <1>2
  <2> HIDE DEF taken
  <2>2. ASSUME NEW q \in QueueNames \ {qn} PROVE ReceivedFrom(q)' = ReceivedFrom(q)
    <3>1. {g \in inFlight' : g.queueName = q} = {g \in inFlight : g.queueName = q}
      BY <2>1
    <3> QED BY <3>1 DEF ReceivedFrom
  <2>3. ReceivedFrom(qn)' = ReceivedFrom(qn) \cup taken
    <3>1. {g \in inFlight' : g.queueName = qn} =
             {g \in inFlight : g.queueName = qn} \cup
             {[handle |-> handleOf[m], queueName |-> qn, message |-> m] : m \in taken}
      BY <2>1
    <3> DEFINE G == {g \in inFlight : g.queueName = qn}
               New == {[handle |-> handleOf[m], queueName |-> qn, message |-> m] : m \in taken}
    <3>2. ReceivedFrom(qn)' = {f.message : f \in G \cup New}
      BY <3>1 DEF ReceivedFrom
    <3>3. {f.message : f \in New} = taken
      <4>1. \A f \in New : f.message \in taken
        OBVIOUS
      <4>2. \A m \in taken : \E f \in New : f.message = m
        <5> TAKE m \in taken
        <5>1. [handle |-> handleOf[m], queueName |-> qn, message |-> m] \in New
          OBVIOUS
        <5> QED BY <5>1
      <4> HIDE DEF New
      <4> QED BY <4>1, <4>2
    <3> HIDE DEF G, New
    <3>4. {f.message : f \in G \cup New} = {f.message : f \in G} \cup {f.message : f \in New}
      OBVIOUS
    <3> QED BY <3>2, <3>3, <3>4 DEF ReceivedFrom, G
  <2> QED BY <2>2, <2>3
<1>4. queues \in [QueueNames -> Seq(QueueMessage)] /\ queues' \in [QueueNames -> Seq(QueueMessage)]
  <2>1. TypeOK /\ [Next]_vars
    BY DEF OrderInv, IInv, Next, Consume, Poll
  <2> QED BY <2>1, TypeStep DEF TypeOK
<1>5. CASE qn \in ScopedQueues /\ n # 0
  <2>1. WaitingOf' = [WaitingOf EXCEPT ![qn] = SubSeq(@, n + 1, Len(@))]
    BY <1>2, <1>4, <1>5 DEF WaitingOf, ScopedQueues
  <2>2. ReceivedOf' = [ReceivedOf EXCEPT ![qn] = @ \cup {WaitingOf[qn][i] : i \in 1..n}]
    BY <1>3, <1>5 DEF ReceivedOf, WaitingOf, ScopedQueues
  <2>3. n \in 1..Len(WaitingOf[qn])
    BY <1>4, <1>5 DEF WaitingOf
  <2>4. Fifo!HandOut(qn, n)
    BY <1>2, <2>1, <2>2 DEF Fifo!HandOut, WaitingOf, ReceivedOf, ReceivedFrom
  <2> QED BY <1>5, <2>3, <2>4 DEF Fifo!Next, WaitingOf
<1>6. CASE qn \in ScopedQueues /\ n = 0
  <2>1. queues'[qn] = queues[qn] /\ taken = {}
    BY <1>2, <1>4, <1>6
  <2>2. WaitingOf' = WaitingOf /\ ReceivedOf' = ReceivedOf
    BY <1>2, <1>3, <1>4, <2>1 DEF WaitingOf, ReceivedOf, ScopedQueues
  <2> QED BY <1>2, <2>2 DEF Fifo!fifoVars, WaitingOf, ReceivedOf, ReceivedFrom
<1>7. CASE qn \notin ScopedQueues
  <2>1. WaitingOf' = WaitingOf /\ ReceivedOf' = ReceivedOf
    BY <1>2, <1>3, <1>4, <1>7 DEF WaitingOf, ReceivedOf, ScopedQueues
  <2> QED BY <1>2, <2>1 DEF Fifo!fifoVars, WaitingOf, ReceivedOf, ReceivedFrom
<1> QED BY <1>5, <1>6, <1>7

LEMMA AcknowledgeRefines ==
  ASSUME IInv, NEW t \in Tenants, NEW f \in inFlight, Acknowledge(t, f)
  PROVE  Fifo!Next \/ UNCHANGED Fifo!fifoVars
<1>1. inFlight' = inFlight \ {f} /\ UNCHANGED <<queues, nextId>>
  BY DEF Acknowledge
<1>2. \A g \in inFlight : g.message = f.message => g = f
  BY DEF IInv, OnePlace, UniqueBy
<1>3. ASSUME NEW q, q # f.queueName PROVE ReceivedFrom(q)' = ReceivedFrom(q)
  <2>1. {g \in inFlight' : g.queueName = q} = {g \in inFlight : g.queueName = q}
    BY <1>1, <1>3
  <2> QED BY <2>1 DEF ReceivedFrom
<1>4. /\ ReceivedFrom(f.queueName)' = ReceivedFrom(f.queueName) \ {f.message}
      /\ f.message \in ReceivedFrom(f.queueName)
  BY <1>1, <1>2 DEF ReceivedFrom
<1>5. WaitingOf' = WaitingOf
  BY <1>1 DEF WaitingOf
<1>6. CASE f.queueName \in ScopedQueues
  <2>1. ReceivedOf' = [ReceivedOf EXCEPT ![f.queueName] = @ \ {f.message}]
    BY <1>3, <1>4, <1>6 DEF ReceivedOf
  <2>2. Fifo!Finish(f.queueName, f.message)
    BY <1>1, <1>5, <2>1 DEF Fifo!Finish, WaitingOf, ReceivedOf, ReceivedFrom
  <2>3. f.message \in ReceivedOf[f.queueName]
    BY <1>4, <1>6 DEF ReceivedOf
  <2> QED BY <1>6, <2>2, <2>3 DEF Fifo!Next, ReceivedOf, ReceivedFrom
<1>7. CASE f.queueName \notin ScopedQueues
  <2>1. ReceivedOf' = ReceivedOf
    BY <1>3, <1>7 DEF ReceivedOf
  <2> QED BY <1>1, <1>5, <2>1 DEF Fifo!fifoVars, WaitingOf, ReceivedOf, ReceivedFrom
<1> QED BY <1>6, <1>7

LEMMA FifoSimulation ==
  ASSUME OrderInv, ReceiptInv, MaxReceiveCount # 0, [Next]_vars
  PROVE  [Fifo!Next]_(Fifo!fifoVars)
<1>1. CASE UNCHANGED <<queues, inFlight, nextId>>
  BY <1>1 DEF Fifo!fifoVars
<1>2. CASE Restart
  <2>1. \A q \in ScopedQueues : q \in QueueNames
    BY DEF ScopedQueues
  <2>2. /\ WaitingOf' = [q \in ScopedQueues |-> <<>>]
        /\ ReceivedOf' = [q \in ScopedQueues |-> {}]
        /\ nextId' = nextId
    BY <1>2, <2>1 DEF Restart, WaitingOf, ReceivedOf, ReceivedFrom
  <2>3. Fifo!LoseAll
    BY <2>2 DEF Fifo!LoseAll, WaitingOf, ReceivedOf, ReceivedFrom
  <2> QED BY <2>3 DEF Fifo!Next
<1> QED BY <1>1, <1>2, EnqueueRefines, DequeueRefines, AcknowledgeRefines
        DEF OrderInv, IInv, Next, Produce, Consume, Poll, vars, CallWithoutTenant, EnqueueInvalid,
            EnqueueDuplicate, AcknowledgeUnknown, AcknowledgeForeign, SendToDlq

(* To tenants that share no queue the provider is a set of FIFO queues that *)
(* hand every message out once, for all tenants, event types and batches.   *)
THEOREM Implements ==
  ASSUME MaxReceiveCount # 0
  PROVE  Spec => ImplementsFifo
<1> DEFINE I == OrderInv /\ ReceiptInv
<1>1. Init => I
  BY IInvInit DEF Init, OrderInv, Routed, InOrder, ScopedQueues, ReceiptInv,
                  NeverReceived, ReceivedOnce
<1>2. I /\ [Next]_vars => I'
  BY IInvStep, RoutedStep, OrderStep, ReceiptStep DEF OrderInv, ReceiptInv
<1>3. Init => Fifo!Init
  BY DEF Init, Fifo!Init, ScopedQueues
<1>4. I /\ [Next]_vars => [Fifo!Next]_(Fifo!fifoVars)
  BY FifoSimulation
<1> QED BY <1>1, <1>2, <1>3, <1>4, PTL DEF Spec, ImplementsFifo, Fifo!Spec

-----------------------------------------------------------------------------
(* Progress, as far as it is a matter of single steps: the rank of a        *)
(* waiting message is its place in the queue.  No step of any tenant moves  *)
(* it back, and a poll of its queue moves it up or hands it out, so polls   *)
(* as many as its place reach it.                                           *)
Polled(q) ==
  \E t \in Tenants, name \in Events : resolveQueueName(t, name) = q /\ Poll(t, name)

MovesUpStep ==
  \A q \in ScopedQueues : \A i \in 1..Len(queues[q]), j \in 1..Len(queues'[q]) :
    queues'[q][j] = queues[q][i] => j <= i /\ (Polled(q) => j < i)

(* A poll of a queue that is the caller's alone takes a message if any waits. *)
LEMMA PollTakes ==
  ASSUME OrderInv, NEW t \in Tenants, NEW name \in Events, NEW max \in 1..MaxBatch,
         Dequeue(t, name, max), resolveQueueName(t, name) \in ScopedQueues,
         queues[resolveQueueName(t, name)] # <<>>
  PROVE  LET qn == resolveQueueName(t, name)
         IN  \E n \in 1..Len(queues[qn]) : queues'[qn] = SubSeq(queues[qn], n + 1, Len(queues[qn]))
<1> DEFINE qn == resolveQueueName(t, name)
           q == queues[qn]
<1>1. PICK n \in 0..Len(q) :
        /\ StopsAfter(t, q, n, max)
        /\ queues' = [queues EXCEPT ![qn] = AfterTaking(t, q, n, max)]
  BY DEF Dequeue
<1>2. qn \in QueueNames /\ q \in Seq(QueueMessage) /\ TypeOK /\ max \in Nat /\ max >= 1
  BY ResolvedName, BoundsAssumption DEF OrderInv, IInv, TypeOK
<1>3. queues'[qn] = AfterTaking(t, q, n, max)
  BY <1>1, <1>2 DEF TypeOK
<1>4. \A i \in 1..Len(q) : q[i].tenant = t
  <2> TAKE i \in 1..Len(q)
  <2>1. q[i] \in QueueMessage /\ resolveQueueName(q[i].tenant, q[i].event) = qn
    BY <1>2 DEF OrderInv, Routed
  <2>2. q[i].tenant \in Tenants /\ q[i].event \in Events
    BY <2>1 DEF QueueMessage
  <2> HIDE DEF q
  <2> QED BY <2>1, <2>2 DEF ScopedQueues
<1>5. Len(q) > 0
  <2>1. q # <<>>
    OBVIOUS
  <2> HIDE DEF q
  <2> QED BY <1>2, <2>1
<1>6. n # 0
  <2> SUFFICES ASSUME n = 0 PROVE FALSE
    OBVIOUS
  <2>1. HandedOut(q, 0) = {} /\ Cardinality({}) = 0
    BY FS_EmptySet DEF HandedOut
  <2>2. 1 \in 1..Len(q)
    BY <1>2, <1>5
  <2>3. q[1].tenant # t
    <3> HIDE DEF q
    <3>1. StopsAfter(t, q, 0, max)
      BY <1>1
    <3>2. 0 < Len(q) => Cardinality(HandedOut(q, 0)) >= max \/ q[0 + 1].tenant # t
      BY <3>1 DEF StopsAfter
    <3>3. Cardinality(HandedOut(q, 0)) = 0
      BY <2>1, Zenon
    <3>4. 0 + 1 = 1
      OBVIOUS
    <3> QED BY <1>2, <1>5, <3>2, <3>3, <3>4
  <2> QED BY <1>4, <2>2, <2>3
<1>7. queues'[qn] = SubSeq(q, n + 1, Len(q))
  <2> HIDE DEF q
  <2> QED BY <1>1, <1>2, <1>3, <1>4, OwnQueueTaken
<1> QED BY <1>1, <1>2, <1>6, <1>7

LEMMA MovesUp ==
  ASSUME OrderInv, [Next]_vars
  PROVE  MovesUpStep
<1> SUFFICES ASSUME NEW q \in ScopedQueues,
                    NEW i \in 1..Len(queues[q]), NEW j \in 1..Len(queues'[q]),
                    queues'[q][j] = queues[q][i]
             PROVE  j <= i /\ (Polled(q) => j < i)
  BY DEF MovesUpStep
<1>0. TypeOK /\ q \in QueueNames /\ queues[q] \in Seq(QueueMessage) /\ Len(queues[q]) \in Nat
      /\ i \in Nat /\ j \in Nat
  <2>1. TypeOK /\ q \in QueueNames
    BY DEF OrderInv, IInv, ScopedQueues
  <2>2. queues' \in [QueueNames -> Seq(QueueMessage)]
    BY <2>1, TypeStep DEF TypeOK
  <2> QED BY <2>1, <2>2 DEF TypeOK
<1>1. \A k \in 1..Len(queues[q]) : queues[q][k].id = queues[q][i].id => k = i
  BY <1>0 DEF OrderInv, IInv, OnePlace, UniqueBy
(* What is taken from the head moves the rest up by as many places. *)
<1>2. ASSUME NEW n \in 0..Len(queues[q]),
             Len(queues'[q]) = Len(queues[q]) - n,
             \A k \in 1..Len(queues'[q]) : queues'[q][k] = queues[q][n + k]
      PROVE  i = n + j
  <2>1. n + j \in 1..Len(queues[q]) /\ queues[q][n + j] = queues[q][i]
    BY <1>0, <1>2
  <2> QED BY <1>1, <2>1
<1>3. Polled(q) => j < i
  <2> SUFFICES ASSUME NEW t \in Tenants, NEW name \in Events, NEW max \in 1..MaxBatch,
                      resolveQueueName(t, name) = q, Dequeue(t, name, max)
               PROVE  j < i
    BY DEF Polled, Poll
  <2>1. queues[q] # <<>>
    BY <1>0
  <2>2. PICK n \in 1..Len(queues[q]) : queues'[q] = SubSeq(queues[q], n + 1, Len(queues[q]))
    BY <2>1, PollTakes
  <2>3. /\ Len(queues'[q]) = Len(queues[q]) - n
        /\ \A k \in 1..Len(queues'[q]) : queues'[q][k] = queues[q][n + k]
    BY <1>0, <2>2
  <2>4. i = n + j
    BY <1>0, <1>2, <2>3
  <2> QED BY <1>0, <2>4
<1>4. j <= i
  <2>1. CASE UNCHANGED queues
    BY <1>0, <1>1, <2>1
  <2>2. ASSUME NEW t \in Tenants, NEW e \in Events, NEW d \in DedupIds \cup {NoDedup},
               Enqueue(t, e, d)
        PROVE  j <= i
    <3> DEFINE msg == [id |-> nextId, tenant |-> t, event |-> e, dedup |-> DedupIdOf(d)]
               qn == resolveQueueName(t, e)
    <3>1. /\ queues' = [queues EXCEPT ![qn] = Append(@, msg)]
          /\ msg.id = nextId
      BY <2>2 DEF Enqueue, Push
    <3> HIDE DEF msg
    <3>2. \/ j \in 1..Len(queues[q]) /\ queues'[q][j] = queues[q][j]
          \/ queues'[q][j].id = nextId
      BY <1>0, <3>1 DEF TypeOK
    <3>3. queues[q][i].id < nextId /\ nextId \in Nat
      BY <1>0 DEF OrderInv, IInv, IdsAllotted, TypeOK
    <3>4. queues[q][i].id # nextId
      BY <1>0, <3>3 DEF QueueMessage
    <3> QED BY <1>0, <1>1, <3>2, <3>4
  <2>3. ASSUME NEW t \in Tenants, NEW name \in Events, NEW max \in 1..MaxBatch,
               Dequeue(t, name, max)
        PROVE  j <= i
    <3>1. PICK qn \in QueueNames : \E n \in 0..Len(queues[qn]) :
            /\ \A p \in QueueNames : p # qn => queues'[p] = queues[p]
            /\ \A f \in inFlight' \ inFlight :
                 f.queueName = qn /\ \E k \in 1..n : f.message = queues[qn][k]
            /\ qn \in ScopedQueues =>
                 /\ Len(queues'[qn]) = Len(queues[qn]) - n
                 /\ \A k \in 1..Len(queues'[qn]) : queues'[qn][k] = queues[qn][n + k]
      BY <2>3, ScopedDequeue
    <3>2. CASE q # qn
      BY <1>0, <1>1, <3>1, <3>2
    <3>3. CASE q = qn
      <4>1. PICK n \in 0..Len(queues[q]) :
              /\ Len(queues'[q]) = Len(queues[q]) - n
              /\ \A k \in 1..Len(queues'[q]) : queues'[q][k] = queues[q][n + k]
        BY <3>1, <3>3
      <4>2. i = n + j
        BY <1>2, <4>1
      <4> QED BY <1>0, <4>1, <4>2
    <3> QED BY <3>2, <3>3
  <2>4. CASE Restart
    BY <1>0, <2>4 DEF Restart
  <2> QED BY <2>1, <2>2, <2>3, <2>4 DEF Next, Produce, Consume, Poll, vars, CallWithoutTenant,
             EnqueueInvalid, EnqueueDuplicate, AcknowledgeUnknown, AcknowledgeForeign,
             Acknowledge, SendToDlq
<1> QED BY <1>3, <1>4

(* On a queue its tenant does not share no message is ever overtaken, and   *)
(* every poll of the queue brings it nearer: what the liveness property     *)
(* EventuallyReceived needs of the steps, for every number of messages.     *)
THEOREM PollsReach == Spec => [][MovesUpStep]_vars
<1>1. Init => OrderInv
  BY IInvInit DEF OrderInv, Init, Routed, InOrder, ScopedQueues
<1>2. OrderInv /\ [Next]_vars => OrderInv'
  BY IInvStep, RoutedStep, OrderStep DEF OrderInv
<1>3. OrderInv /\ [Next]_vars => [MovesUpStep]_vars
  BY MovesUp
<1> QED BY <1>1, <1>2, <1>3, PTL DEF Spec
=============================================================================
