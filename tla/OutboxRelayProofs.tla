-------------------------- MODULE OutboxRelayProofs --------------------------
(* What the outbox relay guarantees whatever the number of overlapping     *)
(* calls, messages, retries and faults.                                    *)
EXTENDS OutboxRelay, EventQueueProofs

LEMMA SnapshotOfPending ==
  ASSUME OutboxTypeOK, NEW found \in SUBSET Pending
  PROVE  {[msg |-> m, retryCount |-> outbox[m].retryCount] : m \in found} \subseteq Snapshot
<1>1. ASSUME NEW m \in Pending
      PROVE  m \in Messages /\ outbox[m].retryCount \in Nat
  <2>1. m \in Messages /\ outbox[m] # NoDoc
    BY DEF Pending, Exists
  <2>2. outbox[m] \in OutboxDoc
    BY <2>1 DEF OutboxTypeOK
  <2> QED BY <2>1, <2>2 DEF OutboxDoc
<1> QED BY <1>1 DEF Snapshot

(* The shapes a step of a call gives its own state: another place, the     *)
(* next message of the batch, the end of the message.                      *)
LEMMA GotoShape ==
  ASSUME RelayTypeOK, NEW r \in Relays, relay[r].cur \in Snapshot,
         NEW pc \in {"storeKey", "markPublished", "markFailed"}, Goto(r, pc)
  PROVE  RelayTypeOK'
BY DEF RelayTypeOK, RelayState, Goto

LEMMA TakeShape ==
  ASSUME RelayTypeOK, NEW r \in Relays, NEW s \in relay[r].batch,
         NEW pc \in {"enqueue", "markPublished"},
         relay' = [relay EXCEPT ![r] = [pc |-> pc, batch |-> @.batch \ {s}, cur |-> s]]
  PROVE  RelayTypeOK'
<1>1. relay[r].batch \subseteq Snapshot
  BY DEF RelayTypeOK, RelayState
<1>2. [pc |-> pc, batch |-> relay[r].batch \ {s}, cur |-> s] \in RelayState
  BY <1>1 DEF RelayState
<1> QED BY <1>1, <1>2 DEF RelayTypeOK

LEMMA NextMessageShape ==
  ASSUME RelayTypeOK, NEW r \in Relays, NextMessage(r)
  PROVE  RelayTypeOK'
<1>1. relay[r].batch \subseteq Snapshot
  BY DEF RelayTypeOK, RelayState
<1>2. CASE relay[r].batch = {}
  <2>1. relay' = [relay EXCEPT ![r] = Idle] /\ Idle \in RelayState
    BY <1>2 DEF NextMessage, RelayState, Idle
  <2> QED BY <2>1 DEF RelayTypeOK, Idle
<1>3. CASE relay[r].batch # {}
  <2> DEFINE x == [pc |-> "check", batch |-> relay[r].batch, cur |-> NoDoc]
  <2>1. relay' = [relay EXCEPT ![r] = x] /\ x \in RelayState
    BY <1>1, <1>3 DEF NextMessage, RelayState
  <2> QED BY <2>1 DEF RelayTypeOK
<1> QED BY <1>2, <1>3

LEMMA OutboxInitType ==
  ASSUME OutboxInit
  PROVE  OutboxTypeOK
BY DEF OutboxInit, OutboxTypeOK, RelayTypeOK, RelayState, Idle

LEMMA OutboxTypeStep ==
  ASSUME OutboxTypeOK, [OutboxNext]_outboxVars
  PROVE  OutboxTypeOK'
<1> USE OutboxAssumption
<1>1. ASSUME NEW m \in Messages, WriteOutboxMessage(m)
      PROVE  OutboxTypeOK'
  BY <1>1 DEF WriteOutboxMessage, OutboxTypeOK, RelayTypeOK, OutboxDoc
<1>2. CASE CronTick
  BY <1>2 DEF CronTick, OutboxTypeOK, RelayTypeOK
<1>3. ASSUME NEW r \in Relays, Search(r)
      PROVE  OutboxTypeOK'
  <2>1. PICK found \in SUBSET Pending :
          relay' = [relay EXCEPT ![r] =
            [pc |-> "check", cur |-> NoDoc,
             batch |-> {[msg |-> m, retryCount |-> outbox[m].retryCount] : m \in found}]]
    BY <1>3 DEF Search
  <2> DEFINE b == {[msg |-> m, retryCount |-> outbox[m].retryCount] : m \in found}
  <2>2. b \subseteq Snapshot
    BY SnapshotOfPending
  <2>3. RelayTypeOK'
    <3> HIDE DEF b
    <3> DEFINE x == [pc |-> "check", cur |-> NoDoc, batch |-> b]
    <3>1. x \in RelayState
      BY <2>2 DEF RelayState
    <3>2. relay' = [relay EXCEPT ![r] = x]
      BY <2>1 DEF b
    <3> QED BY <3>1, <3>2 DEF OutboxTypeOK, RelayTypeOK
  <2> QED BY <1>3, <2>3 DEF Search, OutboxTypeOK
<1>4. ASSUME NEW r \in Relays, CheckKey(r)
      PROVE  OutboxTypeOK'
  <2>1. PICK s \in relay[r].batch :
          relay' = [relay EXCEPT ![r] =
            [pc |-> IF AlreadyPublished(s.msg.key) THEN "markPublished" ELSE "enqueue",
             batch |-> @.batch \ {s}, cur |-> s]]
    BY <1>4 DEF CheckKey
  <2> DEFINE pc == IF AlreadyPublished(s.msg.key) THEN "markPublished" ELSE "enqueue"
  <2>2. RelayTypeOK'
    <3>1. pc \in {"enqueue", "markPublished"}
      OBVIOUS
    <3> HIDE DEF pc
    <3> QED BY <2>1, <3>1, TakeShape DEF OutboxTypeOK
  <2> QED BY <1>4, <2>2 DEF CheckKey, OutboxTypeOK
<1>5. ASSUME NEW r \in Relays, CheckKeyFault(r)
      PROVE  OutboxTypeOK'
  <2>1. PICK s \in relay[r].batch :
          relay' = [relay EXCEPT ![r] =
            [pc |-> "enqueue", batch |-> @.batch \ {s}, cur |-> s]]
    BY <1>5 DEF CheckKeyFault
  <2>2. RelayTypeOK'
    BY <2>1, TakeShape DEF OutboxTypeOK
  <2> QED BY <1>5, <2>2 DEF CheckKeyFault, StoreFault, OutboxTypeOK
<1>6. ASSUME NEW r \in Relays, EnqueueAccepted(r)
      PROVE  OutboxTypeOK'
  <2>1. Cur(r) \in Snapshot
    BY <1>6 DEF EnqueueAccepted, At, Cur, OutboxTypeOK, RelayTypeOK
  <2>2. RelayTypeOK'
    BY <1>6, <2>1, GotoShape DEF EnqueueAccepted, AfterEnqueue, Cur, OutboxTypeOK
  <2>3. published' \in [Messages -> Nat]
    BY <1>6, <2>1 DEF EnqueueAccepted, OutboxTypeOK, Snapshot
  <2> QED BY <1>6, <2>2, <2>3 DEF EnqueueAccepted, OutboxTypeOK
<1>7. ASSUME NEW r \in Relays, EnqueueRefused(r) \/ EnqueueFault(r)
      PROVE  OutboxTypeOK'
  <2>1. Cur(r) \in Snapshot
    BY <1>7 DEF EnqueueRefused, EnqueueFault, At, Cur, OutboxTypeOK, RelayTypeOK
  <2>2. RelayTypeOK'
    BY <1>7, <2>1, GotoShape
    DEF EnqueueRefused, EnqueueFault, AfterRefusal, Cur, OutboxTypeOK
  <2> QED BY <1>7, <2>2 DEF EnqueueRefused, EnqueueFault, OutboxTypeOK
<1>8. ASSUME NEW r \in Relays, StoreKey(r) \/ StoreKeyFault(r)
      PROVE  OutboxTypeOK'
  <2>1. Cur(r) \in Snapshot
    BY <1>8 DEF StoreKey, StoreKeyFault, At, Cur, OutboxTypeOK, RelayTypeOK
  <2>2. RelayTypeOK'
    BY <1>8, <2>1, GotoShape DEF StoreKey, StoreKeyFault, Cur, OutboxTypeOK
  <2>3. Cur(r).msg.key \in DedupIds
    BY <2>1 DEF Snapshot, Messages
  <2> QED BY <1>8, <2>2, <2>3
          DEF StoreKey, StoreKeyFault, StoreFault, RecordedKey, OutboxTypeOK
<1>9. ASSUME NEW r \in Relays, MarkPublished(r)
      PROVE  OutboxTypeOK'
  <2>1. Cur(r) \in Snapshot
    BY <1>9 DEF MarkPublished, At, Cur, OutboxTypeOK, RelayTypeOK
  <2>2. RelayTypeOK'
    BY <1>9, NextMessageShape DEF MarkPublished, OutboxTypeOK
  <2>3. outbox' \in [Messages -> OutboxDoc \cup {NoDoc}]
    BY <1>9, <2>1 DEF MarkPublished, OutboxTypeOK, Snapshot, OutboxDoc
  <2> QED BY <1>9, <2>2, <2>3 DEF MarkPublished, OutboxTypeOK
<1>10. ASSUME NEW r \in Relays, MarkFailed(r)
       PROVE  OutboxTypeOK'
  <2>1. Cur(r) \in Snapshot
    BY <1>10 DEF MarkFailed, At, Cur, OutboxTypeOK, RelayTypeOK
  <2>2. RelayTypeOK'
    BY <1>10, NextMessageShape DEF MarkFailed, OutboxTypeOK
  <2>3. outbox' \in [Messages -> OutboxDoc \cup {NoDoc}]
    BY <1>10, <2>1 DEF MarkFailed, OutboxTypeOK, Snapshot, OutboxDoc
  <2> QED BY <1>10, <2>2, <2>3 DEF MarkFailed, OutboxTypeOK
<1>11. ASSUME NEW r \in Relays, MarkFault(r)
       PROVE  OutboxTypeOK'
  <2>1. RelayTypeOK'
    BY <1>11, NextMessageShape DEF MarkFault, OutboxTypeOK
  <2> QED BY <1>11, <2>1 DEF MarkFault, StoreFault, OutboxTypeOK
<1>12. CASE Crash
  BY <1>12 DEF Crash, OutboxTypeOK, RelayTypeOK, RelayState, Idle
<1>13. CASE UNCHANGED outboxVars
  BY <1>13 DEF outboxVars, relayVars, OutboxTypeOK, RelayTypeOK
<1> QED BY <1>1, <1>2, <1>3, <1>4, <1>5, <1>6, <1>7, <1>8, <1>9, <1>10, <1>11, <1>12, <1>13
        DEF OutboxNext, RelayStep, RunsOn

(* The outbox, the records and every call keep their shape; a call that    *)
(* is past its look-up holds a message of the outbox.                      *)
THEOREM OutboxTypeCorrect == OutboxSpec => []OutboxTypeOK
<1>1. OutboxInit => OutboxTypeOK
  BY OutboxInitType
<1>2. OutboxTypeOK /\ [OutboxNext]_outboxVars => OutboxTypeOK'
  BY OutboxTypeStep
<1> QED BY <1>1, <1>2, PTL DEF OutboxSpec

LEMMA CurIsMessage ==
  ASSUME RelayTypeOK, NEW r \in Relays, ~ At(r, "idle"), ~ At(r, "check")
  PROVE  /\ Cur(r) \in Snapshot
         /\ Cur(r).msg \in Messages
         /\ Cur(r).msg.event \in Events
         /\ Cur(r).msg.key \in DedupIds
         /\ Cur(r).msg = [event |-> Cur(r).msg.event, key |-> Cur(r).msg.key]
<1>1. Cur(r) \in Snapshot
  BY DEF RelayTypeOK, At, Cur
<1>2. Cur(r).msg \in Messages
  BY <1>1 DEF Snapshot
<1> QED BY <1>1, <1>2 DEF Messages

(* Every step of the composition is a call of the queue's interface or     *)
(* leaves the queue alone.                                                 *)
LEMMA QueueStep ==
  ASSUME OutboxTypeOK, [OutboxNext]_outboxVars
  PROVE  [Next]_vars
<1> USE OutboxAssumption
<1>1. ASSUME NEW r \in Relays, EnqueueAccepted(r)
      PROVE  Next
  <2>1. Cur(r).msg.event \in Events /\ Cur(r).msg.key \in DedupIds
    BY <1>1, CurIsMessage DEF OutboxTypeOK, EnqueueAccepted, At
  <2>2. Enqueue(Tenant, Cur(r).msg.event, Cur(r).msg.key)
    BY <1>1 DEF EnqueueAccepted, DedupIdFor
  <2> QED BY <2>1, <2>2 DEF Next, Produce
<1>2. ASSUME NEW r \in Relays, EnqueueRefused(r)
      PROVE  Next
  <2>1. Cur(r).msg.key \in DedupIds
    BY <1>2, CurIsMessage DEF OutboxTypeOK, EnqueueRefused, At
  <2> QED BY <1>2, <2>1 DEF EnqueueRefused, Next, Produce
<1>3. ASSUME NEW r \in Relays, RelayStep(r), ~ EnqueueAccepted(r), ~ EnqueueRefused(r)
      PROVE  UNCHANGED vars
  BY <1>3 DEF RelayStep, RunsOn, Search, CheckKey, CheckKeyFault, EnqueueFault, StoreKey,
     StoreKeyFault, MarkPublished, MarkFailed, MarkFault
<1>4. ASSUME (\E m \in Messages : WriteOutboxMessage(m)) \/ CronTick
      PROVE  UNCHANGED vars
  BY <1>4 DEF WriteOutboxMessage, CronTick
<1>5. CASE Crash
  BY <1>5 DEF Crash, Next
<1>6. CASE UNCHANGED outboxVars
  BY <1>6 DEF outboxVars
<1> QED BY <1>1, <1>2, <1>3, <1>4, <1>5, <1>6 DEF OutboxNext

(* The composition implements the queue's specification, so every theorem  *)
(* about the queue holds under the relay.                                  *)
THEOREM QueueUnderRelay == OutboxSpec => Spec
<1>1. OutboxInit => Init
  BY DEF OutboxInit
<1>2. OutboxTypeOK /\ [OutboxNext]_outboxVars => [Next]_vars
  BY QueueStep
<1> QED BY <1>1, <1>2, OutboxTypeCorrect, PTL DEF OutboxSpec, Spec

(* Acceptances are bounded by the restarts and what the queue remembers.   *)
OncePerMemory ==
  \A m \in Messages :
    published[m] <= restarts + (IF m.key \in dedupSeen THEN 1 ELSE 0)

LEMMA OncePerMemoryStep ==
  ASSUME OutboxTypeOK, TypeOK, OncePerMemory, [OutboxNext]_outboxVars
  PROVE  OncePerMemory'
<1> USE DedupAssumption
<1>0. restarts \in Nat /\ published \in [Messages -> Nat]
  BY DEF TypeOK, OutboxTypeOK
<1>1. ASSUME NEW r \in Relays, EnqueueAccepted(r)
      PROVE  OncePerMemory'
  <2> DEFINE k == Cur(r).msg.key
  <2>1. Cur(r).msg \in Messages /\ k \in DedupIds
    BY <1>1, CurIsMessage DEF OutboxTypeOK, EnqueueAccepted, At
  <2>2. DedupIdOf(k) = k
    BY <2>1 DEF DedupIdOf
  <2>3. k \notin dedupSeen /\ dedupSeen' = dedupSeen \cup {k} /\ restarts' = restarts
    BY <1>1, <2>2 DEF EnqueueAccepted, DedupIdFor, Enqueue, AlreadySent
  <2>4. published' = [published EXCEPT ![Cur(r).msg] = @ + 1]
    BY <1>1 DEF EnqueueAccepted
  <2>5. published[Cur(r).msg] <= restarts
    BY <1>0, <2>1, <2>3 DEF OncePerMemory
  <2> QED BY <1>0, <2>1, <2>3, <2>4, <2>5 DEF OncePerMemory
<1>2. CASE Crash
  <2>1. restarts' = restarts + 1 /\ published' = published
    BY <1>2 DEF Crash, Restart
  <2>2. \A m \in Messages : published[m] <= restarts + 1
    BY <1>0 DEF OncePerMemory
  <2> QED BY <1>0, <2>1, <2>2 DEF OncePerMemory
<1>3. ASSUME NEW r \in Relays, RelayStep(r), ~ EnqueueAccepted(r)
      PROVE  UNCHANGED <<published, restarts, dedupSeen>>
  BY <1>3 DEF RelayStep, RunsOn, Search, CheckKey, CheckKeyFault, EnqueueFault, EnqueueRefused,
     EnqueueDuplicate, StoreKey, StoreKeyFault, MarkPublished, MarkFailed, MarkFault, vars
<1>4. ASSUME (\E m \in Messages : WriteOutboxMessage(m)) \/ CronTick \/ UNCHANGED outboxVars
      PROVE  UNCHANGED <<published, restarts, dedupSeen>>
  BY <1>4 DEF WriteOutboxMessage, CronTick, outboxVars, relayVars, vars
<1>5. ASSUME UNCHANGED <<published, restarts, dedupSeen>>
      PROVE  OncePerMemory'
  BY <1>5 DEF OncePerMemory
<1> QED BY <1>1, <1>2, <1>3, <1>4, <1>5 DEF OutboxNext

(* The queue accepts a message at most once between two restarts, whatever *)
(* the overlap of relay calls, the store faults and the refusals.          *)
THEOREM OncePerProcess == OutboxSpec => []PublishedOncePerProcess
<1>1. OutboxInit => OncePerMemory
  BY DEF OutboxInit, Init, OncePerMemory
<1>2. OutboxTypeOK /\ TypeOK /\ OncePerMemory /\ [OutboxNext]_outboxVars => OncePerMemory'
  BY OncePerMemoryStep
<1>3. OutboxTypeOK /\ TypeOK /\ OncePerMemory => PublishedOncePerProcess
  BY DEF OutboxTypeOK, TypeOK, OncePerMemory, PublishedOncePerProcess
<1> QED BY <1>1, <1>2, <1>3, OutboxTypeCorrect, QueueUnderRelay, TypeCorrect, PTL DEF OutboxSpec

-----------------------------------------------------------------------------
(* A call that is about to mark a message has its record, if no store      *)
(* failed.                                                                 *)
MarksRecorded ==
  faults.store = 0 =>
    \A r \in Relays : At(r, "markPublished") => Cur(r).msg.key \in idempotency

(* A key that is recorded, or about to be, belongs to an accepted message. *)
RecordsEnqueued ==
  /\ \A k \in idempotency : KeyWasEnqueued(k)
  /\ \A r \in Relays :
       At(r, "storeKey") \/ At(r, "markPublished") => KeyWasEnqueued(Cur(r).msg.key)

RecordInv ==
  PublishedIsRecorded /\ MarksRecorded /\ PublishedKeyWasEnqueued /\ RecordsEnqueued

(* How a step of a call moves that call and no other. *)
LEMMA GotoMoves ==
  ASSUME RelayTypeOK, NEW r \in Relays, NEW pc, Goto(r, pc)
  PROVE  \A x \in Relays :
           /\ relay'[x].cur = relay[x].cur
           /\ relay'[x].pc = IF x = r THEN pc ELSE relay[x].pc
BY DEF RelayTypeOK, RelayState, Goto

LEMMA NextMessageMoves ==
  ASSUME RelayTypeOK, NEW r \in Relays, NextMessage(r)
  PROVE  \A x \in Relays :
           /\ x # r => relay'[x] = relay[x]
           /\ relay'[r].pc \in {"idle", "check"}
BY DEF RelayTypeOK, RelayState, NextMessage, Idle

(* A key stays enqueued. *)
LEMMA EnqueuedStays ==
  ASSUME OutboxTypeOK, \A m \in Messages : published'[m] >= published[m],
         published' \in [Messages -> Nat], NEW k \in DedupIds, KeyWasEnqueued(k)
  PROVE  KeyWasEnqueued(k)'
<1>1. PICK e \in Events : published[[event |-> e, key |-> k]] >= 1
  BY DEF KeyWasEnqueued
<1>2. [event |-> e, key |-> k] \in Messages
  BY DEF Messages
<1> QED BY <1>1, <1>2 DEF KeyWasEnqueued, OutboxTypeOK

(* The steps that keep the outbox, the records and the history move a call *)
(* to a place where the invariant asks for nothing, or for what holds.     *)
LEMMA RecordMove ==
  ASSUME RelayTypeOK, RecordInv,
         UNCHANGED <<outbox, idempotency, published>>,
         faults'.store = 0 => faults.store = 0,
         NEW r \in Relays, \A x \in Relays \ {r} : relay'[x] = relay[x],
         relay'[r].pc \in {"storeKey", "markPublished"} =>
           KeyWasEnqueued(relay'[r].cur.msg.key),
         relay'[r].pc = "markPublished" /\ faults'.store = 0 =>
           relay'[r].cur.msg.key \in idempotency
  PROVE  RecordInv'
<1>1. PublishedIsRecorded' /\ PublishedKeyWasEnqueued'
  BY DEF RecordInv, PublishedIsRecorded, PublishedKeyWasEnqueued, Status, Exists, KeyWasEnqueued
<1>2. MarksRecorded'
  BY DEF RecordInv, MarksRecorded, At, Cur
<1>3. RecordsEnqueued'
  BY DEF RecordInv, RecordsEnqueued, At, Cur, KeyWasEnqueued
<1> QED BY <1>1, <1>2, <1>3 DEF RecordInv

LEMMA FaultCounted ==
  ASSUME OutboxTypeOK, StoreFault
  PROVE  faults'.store # 0
BY DEF OutboxTypeOK, StoreFault

(* The steps that store a document: each PUBLISHED document was one before *)
(* or is the one of a call at markPublished.                               *)
LEMMA RecordStoreStep ==
  ASSUME OutboxTypeOK, RecordInv,
         UNCHANGED <<idempotency, published, faults>>,
         \A x \in Relays : relay'[x] = relay[x] \/ relay'[x].pc \in {"idle", "check"},
         \A m \in Messages :
           Status(m, "PUBLISHED")' =>
             \/ Status(m, "PUBLISHED")
             \/ \E r \in Relays : At(r, "markPublished") /\ Cur(r).msg = m
  PROVE  RecordInv'
<1>1. PublishedIsRecorded'
  BY DEF RecordInv, PublishedIsRecorded, MarksRecorded
<1>2. PublishedKeyWasEnqueued'
  <2>1. \A m \in Messages : Status(m, "PUBLISHED")' => KeyWasEnqueued(m.key)
    BY DEF RecordInv, PublishedKeyWasEnqueued, RecordsEnqueued
  <2> QED BY <2>1 DEF PublishedKeyWasEnqueued, KeyWasEnqueued
<1>3. MarksRecorded'
  BY DEF RecordInv, MarksRecorded, At, Cur
<1>4. RecordsEnqueued'
  BY DEF RecordInv, RecordsEnqueued, At, Cur, KeyWasEnqueued
<1> QED BY <1>1, <1>2, <1>3, <1>4 DEF RecordInv

LEMMA RecordAccepted ==
  ASSUME OutboxTypeOK, RecordInv, NEW r \in Relays, EnqueueAccepted(r), RelayTypeOK'
  PROVE  RecordInv'
<1> DEFINE m == Cur(r).msg
<1>1. /\ m \in Messages /\ m.event \in Events /\ m.key \in DedupIds
      /\ m = [event |-> m.event, key |-> m.key]
  BY CurIsMessage DEF OutboxTypeOK, EnqueueAccepted, At
<1>2. /\ published' = [published EXCEPT ![m] = @ + 1]
      /\ UNCHANGED <<outbox, idempotency, faults>>
      /\ Goto(r, "storeKey")
  BY DEF EnqueueAccepted, AfterEnqueue
<1>3. /\ published' \in [Messages -> Nat]
      /\ \A x \in Messages : published'[x] >= published[x]
      /\ published'[m] >= 1
  BY <1>1, <1>2 DEF OutboxTypeOK
<1>4. \A k \in DedupIds : KeyWasEnqueued(k) => KeyWasEnqueued(k)'
  BY <1>3, EnqueuedStays
<1>5. KeyWasEnqueued(m.key)'
  <2> HIDE DEF m
  <2>1. KeyWasEnqueued(m.key)' <=> \E e \in Events : published'[[event |-> e, key |-> m.key]] >= 1
    BY <1>2 DEF m, KeyWasEnqueued, Goto, Cur, OutboxTypeOK, RelayTypeOK, RelayState
  <2> QED BY <1>1, <1>3, <2>1
<1>6. \A x \in Relays :
        /\ relay'[x].cur = relay[x].cur
        /\ relay'[x].pc = IF x = r THEN "storeKey" ELSE relay[x].pc
  BY <1>2, GotoMoves DEF OutboxTypeOK
<1>7. PublishedIsRecorded'
  BY <1>2 DEF RecordInv, PublishedIsRecorded, Status, Exists
<1>8. PublishedKeyWasEnqueued'
  BY <1>2, <1>4 DEF RecordInv, PublishedKeyWasEnqueued, Status, Exists, Messages
<1>9. MarksRecorded'
  BY <1>2, <1>6 DEF RecordInv, MarksRecorded, At, Cur
<1>10. RecordsEnqueued'
  <2>1. \A k \in idempotency' : KeyWasEnqueued(k)'
    BY <1>2, <1>4 DEF RecordInv, RecordsEnqueued, OutboxTypeOK
  <2>2. ASSUME NEW x \in Relays, x # r, At(x, "storeKey")' \/ At(x, "markPublished")'
        PROVE  KeyWasEnqueued(Cur(x).msg.key)'
    <3>1. At(x, "storeKey") \/ At(x, "markPublished")
      BY <1>6, <2>2 DEF At
    <3>2. Cur(x).msg.key \in DedupIds /\ KeyWasEnqueued(Cur(x).msg.key)
      BY <3>1, CurIsMessage DEF OutboxTypeOK, At, RecordInv, RecordsEnqueued
    <3>3. Cur(x)' = Cur(x)
      BY <1>6 DEF Cur
    <3> QED BY <1>4, <3>2, <3>3 DEF KeyWasEnqueued
  <2> QED BY <1>5, <2>1, <2>2 DEF RecordsEnqueued
<1> QED BY <1>7, <1>8, <1>9, <1>10 DEF RecordInv

LEMMA RecordStep ==
  ASSUME OutboxTypeOK, RecordInv, [OutboxNext]_outboxVars
  PROVE  RecordInv'
<1>0. RelayTypeOK /\ RelayTypeOK'
  BY OutboxTypeStep DEF OutboxTypeOK
<1>1. ASSUME NEW m \in Messages, WriteOutboxMessage(m)
      PROVE  RecordInv'
  <2>1. \A x \in Messages : Status(x, "PUBLISHED")' => Status(x, "PUBLISHED")
    BY <1>1 DEF WriteOutboxMessage, Status, Exists, OutboxTypeOK
  <2> QED BY <1>1, <2>1, RecordStoreStep DEF WriteOutboxMessage
<1>2. CASE CronTick \/ UNCHANGED outboxVars
  BY <1>2 DEF CronTick, outboxVars, relayVars, RecordInv, PublishedIsRecorded, MarksRecorded,
     PublishedKeyWasEnqueued, RecordsEnqueued, Status, Exists, KeyWasEnqueued, At, Cur
<1>3. ASSUME NEW r \in Relays, Search(r)
      PROVE  RecordInv'
  <2>1. relay'[r].pc = "check" /\ \A x \in Relays \ {r} : relay'[x] = relay[x]
    BY <1>0, <1>3 DEF Search, RelayTypeOK
  <2> QED BY <1>0, <1>3, <2>1, RecordMove DEF Search
<1>4. ASSUME NEW r \in Relays, CheckKey(r)
      PROVE  RecordInv'
  <2>1. PICK s \in relay[r].batch :
          relay' = [relay EXCEPT ![r] =
            [pc |-> IF AlreadyPublished(s.msg.key) THEN "markPublished" ELSE "enqueue",
             batch |-> @.batch \ {s}, cur |-> s]]
    BY <1>4 DEF CheckKey
  <2>2. /\ relay'[r].cur = s
        /\ relay'[r].pc = IF AlreadyPublished(s.msg.key) THEN "markPublished" ELSE "enqueue"
        /\ \A x \in Relays \ {r} : relay'[x] = relay[x]
    BY <1>0, <2>1 DEF RelayTypeOK
  <2>3. s.msg.key \in idempotency => KeyWasEnqueued(s.msg.key)
    BY DEF RecordInv, RecordsEnqueued
  <2> QED BY <1>0, <1>4, <2>2, <2>3, RecordMove DEF CheckKey, AlreadyPublished
<1>5. ASSUME NEW r \in Relays, CheckKeyFault(r)
      PROVE  RecordInv'
  <2>1. relay'[r].pc = "enqueue" /\ \A x \in Relays \ {r} : relay'[x] = relay[x]
    BY <1>0, <1>5 DEF CheckKeyFault, RelayTypeOK
  <2> QED BY <1>0, <1>5, <2>1, FaultCounted, RecordMove DEF CheckKeyFault
<1>6. ASSUME NEW r \in Relays, EnqueueAccepted(r)
      PROVE  RecordInv'
  BY <1>0, <1>6, RecordAccepted
<1>7. ASSUME NEW r \in Relays, EnqueueRefused(r) \/ EnqueueFault(r)
      PROVE  RecordInv'
  <2>1. relay'[r].pc = "markFailed" /\ \A x \in Relays \ {r} : relay'[x] = relay[x]
    BY <1>0, <1>7 DEF EnqueueRefused, EnqueueFault, AfterRefusal, Goto, RelayTypeOK, RelayState
  <2>2. UNCHANGED <<outbox, idempotency, published>> /\ faults'.store = faults.store
    BY <1>7 DEF EnqueueRefused, EnqueueFault, OutboxTypeOK
  <2> QED BY <1>0, <2>1, <2>2, RecordMove
<1>8. ASSUME NEW r \in Relays, StoreKey(r)
      PROVE  RecordInv'
  <2>1. \A x \in Relays :
          /\ relay'[x].cur = relay[x].cur
          /\ relay'[x].pc = IF x = r THEN "markPublished" ELSE relay[x].pc
    BY <1>0, <1>8, GotoMoves DEF StoreKey
  <2>2. /\ idempotency' = idempotency \cup {Cur(r).msg.key}
        /\ UNCHANGED <<outbox, published, faults>>
    BY <1>8 DEF StoreKey, RecordedKey
  <2>3. KeyWasEnqueued(Cur(r).msg.key)
    BY <1>8 DEF StoreKey, RecordInv, RecordsEnqueued
  <2>4. PublishedIsRecorded' /\ PublishedKeyWasEnqueued'
    BY <2>2 DEF RecordInv, PublishedIsRecorded, PublishedKeyWasEnqueued, Status, Exists,
       KeyWasEnqueued
  <2>5. MarksRecorded'
    BY <2>1, <2>2 DEF RecordInv, MarksRecorded, At, Cur
  <2>6. RecordsEnqueued'
    BY <2>1, <2>2, <2>3 DEF RecordInv, RecordsEnqueued, At, Cur, KeyWasEnqueued
  <2> QED BY <2>4, <2>5, <2>6 DEF RecordInv
<1>9. ASSUME NEW r \in Relays, StoreKeyFault(r)
      PROVE  RecordInv'
  <2>1. /\ relay'[r].cur = relay[r].cur /\ relay'[r].pc = "markPublished"
        /\ \A x \in Relays \ {r} : relay'[x] = relay[x]
    BY <1>0, <1>9 DEF StoreKeyFault, Goto, RelayTypeOK, RelayState
  <2>2. KeyWasEnqueued(relay'[r].cur.msg.key)
    BY <1>9, <2>1 DEF StoreKeyFault, RecordInv, RecordsEnqueued, Cur, KeyWasEnqueued
  <2> QED BY <1>0, <1>9, <2>1, <2>2, FaultCounted, RecordMove DEF StoreKeyFault
<1>10. ASSUME NEW r \in Relays, MarkPublished(r) \/ MarkFailed(r)
       PROVE  RecordInv'
  <2>1. \A x \in Relays : relay'[x] = relay[x] \/ relay'[x].pc \in {"idle", "check"}
    BY <1>0, <1>10, NextMessageMoves DEF MarkPublished, MarkFailed
  <2>2. \A m \in Messages :
          Status(m, "PUBLISHED")' =>
            \/ Status(m, "PUBLISHED")
            \/ At(r, "markPublished") /\ Cur(r).msg = m
    <3> TAKE m \in Messages
    <3>1. CASE m # Cur(r).msg
      <4>1. outbox'[m] = outbox[m]
        BY <1>10, <3>1 DEF MarkPublished, MarkFailed, OutboxTypeOK
      <4>2. Status(m, "PUBLISHED")' <=> Status(m, "PUBLISHED")
        BY <4>1 DEF Status, Exists
      <4> QED BY <4>2
    <3>2. CASE m = Cur(r).msg /\ MarkPublished(r)
      BY <3>2 DEF MarkPublished
    <3>3. CASE m = Cur(r).msg /\ MarkFailed(r)
      <4>1. outbox'[m].status \in {"FAILED", "PENDING"}
        BY <3>3 DEF MarkFailed, OutboxTypeOK
      <4> QED BY <4>1 DEF Status
    <3> QED BY <1>10, <3>1, <3>2, <3>3
  <2>3. UNCHANGED <<idempotency, published, faults>>
    BY <1>10 DEF MarkPublished, MarkFailed
  <2> QED BY <2>1, <2>2, <2>3, RecordStoreStep
<1>11. ASSUME NEW r \in Relays, MarkFault(r)
       PROVE  RecordInv'
  <2>1. /\ relay'[r].pc \in {"idle", "check"}
        /\ \A x \in Relays \ {r} : relay'[x] = relay[x]
    BY <1>0, <1>11, NextMessageMoves DEF MarkFault
  <2> QED BY <1>0, <1>11, <2>1, FaultCounted, RecordMove DEF MarkFault
<1>12. CASE Crash
  <2>1. \A x \in Relays : relay'[x].pc = "idle"
    BY <1>12 DEF Crash, Idle
  <2>2. \A m \in Messages : Status(m, "PUBLISHED")' => Status(m, "PUBLISHED")
    BY <1>12 DEF Crash, Status, Exists
  <2> QED BY <1>12, <2>1, <2>2, RecordStoreStep DEF Crash
<1> QED BY <1>1, <1>2, <1>3, <1>4, <1>5, <1>6, <1>7, <1>8, <1>9, <1>10, <1>11, <1>12
        DEF OutboxNext, RelayStep, RunsOn

LEMMA Recording == OutboxSpec => []RecordInv
<1>1. OutboxInit => RecordInv
  BY DEF OutboxInit, RecordInv, PublishedIsRecorded, MarksRecorded, PublishedKeyWasEnqueued,
     RecordsEnqueued, Status, Exists, At, Idle
<1>2. OutboxTypeOK /\ RecordInv /\ [OutboxNext]_outboxVars => RecordInv'
  BY RecordStep
<1> QED BY <1>1, <1>2, OutboxTypeCorrect, PTL DEF OutboxSpec

(* DNA-8: while no database call has failed, a message marked PUBLISHED    *)
(* has its idempotency record.                                             *)
THEOREM RecordedBeforePublished == OutboxSpec => []PublishedIsRecorded
BY Recording, PTL DEF RecordInv

(* A message is marked PUBLISHED only when the queue accepted a message    *)
(* with its key, whatever fails and whenever the process restarts.         *)
THEOREM MarkedWasEnqueued == OutboxSpec => []PublishedKeyWasEnqueued
BY Recording, PTL DEF RecordInv

-----------------------------------------------------------------------------
(* One call at a time.  The messages it holds copies of are PENDING in the *)
(* outbox: nobody else finishes them, and it finishes each one once.       *)
Holding(r) == relay[r].pc \notin {"idle", "check"}

HandPending(r) ==
  /\ \A s \in relay[r].batch : Status(s.msg, "PENDING")
  /\ \A s, t \in relay[r].batch : s.msg = t.msg => s = t
  /\ Holding(r) =>
       /\ Status(Cur(r).msg, "PENDING")
       /\ \A s \in relay[r].batch : s.msg # Cur(r).msg

(* What is PENDING and in the call's hands stays so in the steps that do   *)
(* not store a status.                                                     *)
LEMMA HandKept ==
  ASSUME NEW r \in Relays, HandPending(r),
         relay'[r].batch \subseteq relay[r].batch,
         \A m \in Messages : Status(m, "PENDING") => Status(m, "PENDING")',
         relay'[r].batch \subseteq Snapshot,
         Holding(r)' => Holding(r) /\ relay'[r].cur = relay[r].cur /\ Cur(r).msg \in Messages
  PROVE  HandPending(r)'
<1>1. \A s \in relay'[r].batch : s.msg \in Messages
  BY DEF Snapshot
<1>2. /\ \A s \in relay'[r].batch : Status(s.msg, "PENDING")'
      /\ \A s, t \in relay'[r].batch : s.msg = t.msg => s = t
  BY <1>1 DEF HandPending
<1>3. Holding(r)' => /\ Status(Cur(r).msg, "PENDING")'
                     /\ \A s \in relay'[r].batch : s.msg # Cur(r)'.msg
  <2> SUFFICES ASSUME Holding(r)'
               PROVE  /\ Status(Cur(r).msg, "PENDING")'
                      /\ \A s \in relay'[r].batch : s.msg # Cur(r)'.msg
    OBVIOUS
  <2>1. Cur(r)' = Cur(r) /\ Cur(r).msg \in Messages /\ Holding(r)
    BY DEF Cur
  <2>2. Status(Cur(r).msg, "PENDING") /\ \A s \in relay[r].batch : s.msg # Cur(r).msg
    BY <2>1 DEF HandPending
  <2>3. outbox'[Cur(r).msg] # NoDoc /\ outbox'[Cur(r).msg].status = "PENDING"
    BY <2>1, <2>2 DEF Status, Exists
  <2> QED BY <2>1, <2>2, <2>3 DEF Status, Exists
<1> QED BY <1>2, <1>3 DEF HandPending

(* The next message of the batch is taken in hand. *)
LEMMA HandTakes ==
  ASSUME RelayTypeOK, NEW r \in Relays, HandPending(r), NEW s \in relay[r].batch,
         NEW pc \in {"enqueue", "markPublished"}, outbox' = outbox,
         relay' = [relay EXCEPT ![r] = [pc |-> pc, batch |-> @.batch \ {s}, cur |-> s]]
  PROVE  HandPending(r)' /\ relay'[r].pc = pc /\ Cur(r)' = s
<1>1. relay'[r].pc = pc /\ relay'[r].batch = relay[r].batch \ {s} /\ relay'[r].cur = s
  BY DEF RelayTypeOK
<1> QED BY <1>1 DEF HandPending, Holding, Cur, Status, Exists

(* The end of the message in hand: no other document changes. *)
LEMMA HandDone ==
  ASSUME RelayTypeOK, NEW r \in Relays, HandPending(r), Holding(r), NextMessage(r),
         \A m \in Messages : m # Cur(r).msg => outbox'[m] = outbox[m]
  PROVE  HandPending(r)' /\ ~ Holding(r)'
<1>1. relay[r].batch \subseteq Snapshot
  BY DEF RelayTypeOK, RelayState
<1>2. /\ relay'[r].pc \in {"idle", "check"}
      /\ relay'[r].batch = relay[r].batch
  BY DEF RelayTypeOK, NextMessage, Idle
<1>3. \A s \in relay[r].batch : s.msg \in Messages /\ s.msg # Cur(r).msg
  BY <1>1 DEF Snapshot, HandPending
<1>4. \A s \in relay[r].batch : Status(s.msg, "PENDING")'
  BY <1>3 DEF HandPending, Status, Exists
<1> QED BY <1>2, <1>4 DEF HandPending, Holding

LEMMA HandStep ==
  ASSUME NEW r, Relays = {r}, OutboxTypeOK, HandPending(r), [OutboxNext]_outboxVars
  PROVE  HandPending(r)'
<1>0. RelayTypeOK /\ RelayTypeOK' /\ r \in Relays /\ outbox \in [Messages -> OutboxDoc \cup {NoDoc}]
  BY OutboxTypeStep DEF OutboxTypeOK
<1>b. relay[r].batch \subseteq Snapshot /\ relay'[r].batch \subseteq Snapshot
  BY <1>0 DEF RelayTypeOK, RelayState
<1>c. Holding(r) => Cur(r).msg \in Messages
  BY <1>0, CurIsMessage DEF Holding, At
<1>1. ASSUME NEW m \in Messages, WriteOutboxMessage(m) PROVE HandPending(r)'
  <2>1. \A n \in Messages : Status(n, "PENDING") => Status(n, "PENDING")'
    <3>1. [status |-> "PENDING", retryCount |-> 0] # NoDoc
      BY OutboxAssumption DEF OutboxDoc
    <3> QED BY <1>0, <1>1, <3>1 DEF WriteOutboxMessage, Status, Exists
  <2> QED BY <1>0, <1>1, <1>b, <1>c, <2>1, HandKept DEF WriteOutboxMessage, Holding
<1>2. CASE Search(r)
  <2>1. PICK found \in SUBSET Pending :
          relay' = [relay EXCEPT ![r] =
            [pc |-> "check", cur |-> NoDoc,
             batch |-> {[msg |-> m, retryCount |-> outbox[m].retryCount] : m \in found}]]
    BY <1>2 DEF Search
  <2> DEFINE b == {[msg |-> m, retryCount |-> outbox[m].retryCount] : m \in found}
  <2>2. relay'[r].pc = "check" /\ relay'[r].batch = b /\ outbox' = outbox
    BY <1>0, <1>2, <2>1 DEF Search, RelayTypeOK
  <2>3. \A s \in b : Status(s.msg, "PENDING")
    BY DEF Pending, Status
  <2>4. \A s, t \in b : s.msg = t.msg => s = t
    OBVIOUS
  <2> HIDE DEF b
  <2> QED BY <2>2, <2>3, <2>4 DEF HandPending, Holding, Status, Exists
<1>3. CASE CheckKey(r)
  <2>1. PICK s \in relay[r].batch :
          relay' = [relay EXCEPT ![r] =
            [pc |-> IF AlreadyPublished(s.msg.key) THEN "markPublished" ELSE "enqueue",
             batch |-> @.batch \ {s}, cur |-> s]]
    BY <1>3 DEF CheckKey
  <2> DEFINE pc == IF AlreadyPublished(s.msg.key) THEN "markPublished" ELSE "enqueue"
  <2>2. pc \in {"enqueue", "markPublished"} /\ outbox' = outbox
    BY <1>3 DEF CheckKey
  <2> HIDE DEF pc
  <2>3. relay' = [relay EXCEPT ![r] = [pc |-> pc, batch |-> @.batch \ {s}, cur |-> s]]
    BY <2>1 DEF pc
  <2> QED BY <1>0, <2>2, <2>3, HandTakes
<1>4. CASE CheckKeyFault(r)
  BY <1>0, <1>4, HandTakes DEF CheckKeyFault
<1>5. ASSUME NEW pc \in {"storeKey", "markPublished", "markFailed"}, Goto(r, pc), Holding(r),
             outbox' = outbox
      PROVE  HandPending(r)'
  <2>1. relay'[r].batch = relay[r].batch /\ relay'[r].cur = relay[r].cur
    BY <1>0, <1>5 DEF Goto, RelayTypeOK, RelayState
  <2> QED BY <1>0, <1>5, <1>b, <1>c, <2>1, HandKept DEF Status, Exists
<1>6. CASE EnqueueAccepted(r) \/ EnqueueRefused(r) \/ EnqueueFault(r) \/ StoreKey(r)
             \/ StoreKeyFault(r)
  BY <1>5, <1>6 DEF EnqueueAccepted, EnqueueRefused, EnqueueFault, StoreKey, StoreKeyFault,
     AfterEnqueue, AfterRefusal, At, Holding
<1>7. CASE MarkPublished(r) \/ MarkFailed(r) \/ MarkFault(r)
  <2>1. Holding(r) /\ NextMessage(r)
    BY <1>7 DEF MarkPublished, MarkFailed, MarkFault, At, Holding
  <2>2. \A m \in Messages : m # Cur(r).msg => outbox'[m] = outbox[m]
    BY <1>0, <1>7 DEF MarkPublished, MarkFailed, MarkFault
  <2> QED BY <1>0, <2>1, <2>2, HandDone
<1>8. CASE Crash
  BY <1>0, <1>8 DEF Crash, Idle, HandPending, Holding
<1>9. CASE CronTick \/ UNCHANGED outboxVars
  BY <1>9 DEF CronTick, outboxVars, relayVars, HandPending, Holding, Cur, Status, Exists
<1> QED BY <1>1, <1>2, <1>3, <1>4, <1>6, <1>7, <1>8, <1>9 DEF OutboxNext, RelayStep, RunsOn

LEMMA HandsPending ==
  ASSUME NEW r, Relays = {r}
  PROVE  OutboxSpec => []HandPending(r)
<1>1. OutboxInit => HandPending(r)
  BY DEF OutboxInit, HandPending, Holding, Idle
<1>2. OutboxTypeOK /\ HandPending(r) /\ [OutboxNext]_outboxVars => HandPending(r)'
  BY HandStep
<1> QED BY <1>1, <1>2, OutboxTypeCorrect, PTL DEF OutboxSpec

(* When calls do not overlap, a message that is PUBLISHED or FAILED leaves *)
(* that status only by being written anew, whatever fails or crashes.      *)
THEOREM FinalOfOneCall ==
  ASSUME NEW r, Relays = {r}
  PROVE  OutboxSpec => FinalStaysFinal
<1>1. OutboxTypeOK /\ HandPending(r) /\ [OutboxNext]_outboxVars
        => [FinalStaysFinalStep]_outboxVars
  <2> SUFFICES ASSUME OutboxTypeOK, HandPending(r), OutboxNext
               PROVE  FinalStaysFinalStep
    OBVIOUS
  <2>1. ASSUME NEW m \in Messages, WriteOutboxMessage(m) PROVE FinalStaysFinalStep
    BY <2>1 DEF WriteOutboxMessage, FinalStaysFinalStep
  <2>2. ASSUME MarkPublished(r) \/ MarkFailed(r) PROVE FinalStaysFinalStep
    <3>1. Status(Cur(r).msg, "PENDING")
      BY <2>2 DEF HandPending, Holding, MarkPublished, MarkFailed, At
    <3>2. \A m \in Messages : m # Cur(r).msg => outbox'[m] = outbox[m]
      BY <2>2 DEF MarkPublished, MarkFailed, OutboxTypeOK
    <3> QED BY <3>1, <3>2 DEF FinalStaysFinalStep, Status
  <2>3. CASE outbox' = outbox
    BY <2>3 DEF FinalStaysFinalStep
  <2>4. ASSUME NEW x \in Relays, RelayStep(x), ~ MarkPublished(x), ~ MarkFailed(x)
        PROVE  outbox' = outbox
    BY <2>4 DEF RelayStep, RunsOn, Search, CheckKey, CheckKeyFault, EnqueueAccepted, EnqueueRefused,
       EnqueueFault, StoreKey, StoreKeyFault, MarkFault
  <2> QED BY <2>1, <2>2, <2>3, <2>4 DEF OutboxNext, CronTick, Crash
<1> QED BY <1>1, OutboxTypeCorrect, HandsPending, PTL DEF OutboxSpec, FinalStaysFinal

-----------------------------------------------------------------------------
(* One call at a time, stores that succeed, one process: an accepted       *)
(* message has its key recorded or is about to.                            *)
UnpublishedInv(r) ==
  /\ FailedNeverPublished
  /\ \A m \in Messages :
       published[m] # 0 => m.key \in idempotency \/ (At(r, "storeKey") /\ Cur(r).msg = m)
  /\ At(r, "enqueue") \/ At(r, "markFailed") => published[Cur(r).msg] = 0

LEMMA UnpublishedStep ==
  ASSUME NEW r, Relays = {r}, MaxStoreFaults = 0, MaxRestarts = 0, OutboxTypeOK, restarts \in Nat,
         HandPending(r), UnpublishedInv(r), [OutboxNext]_outboxVars
  PROVE  UnpublishedInv(r)'
<1>0. RelayTypeOK /\ r \in Relays /\ outbox \in [Messages -> OutboxDoc \cup {NoDoc}]
      /\ published \in [Messages -> Nat]
  BY DEF OutboxTypeOK
<1>n. ~ StoreFault /\ ~ Crash
  BY DEF OutboxTypeOK, StoreFault, Crash, Restart
<1>c. Holding(r) => Cur(r).msg \in Messages
  BY <1>0, CurIsMessage DEF Holding, At
<1>g. ASSUME NEW pc, Goto(r, pc) PROVE relay'[r].pc = pc /\ relay'[r].cur = relay[r].cur
  BY <1>0, <1>g DEF Goto, RelayTypeOK, RelayState
<1>1. ASSUME NEW m \in Messages, WriteOutboxMessage(m) PROVE UnpublishedInv(r)'
  <2>1. \A n \in Messages : Status(n, "FAILED")' => Status(n, "FAILED")
    BY <1>0, <1>1 DEF WriteOutboxMessage, Status, Exists
  <2> QED BY <1>1, <2>1 DEF WriteOutboxMessage, UnpublishedInv, FailedNeverPublished, At, Cur
<1>2. CASE Search(r)
  <2>1. relay'[r].pc = "check" /\ ~ At(r, "storeKey")
    BY <1>0, <1>2 DEF Search, RelayTypeOK, At
  <2> QED BY <1>2, <2>1 DEF Search, UnpublishedInv, FailedNeverPublished, Status, Exists, At
<1>3. CASE CheckKey(r)
  <2>1. PICK s \in relay[r].batch :
          relay' = [relay EXCEPT ![r] =
            [pc |-> IF AlreadyPublished(s.msg.key) THEN "markPublished" ELSE "enqueue",
             batch |-> @.batch \ {s}, cur |-> s]]
    BY <1>3 DEF CheckKey
  <2>2. s.msg \in Messages
    BY <1>0 DEF RelayTypeOK, RelayState, Snapshot
  <2>3. /\ relay'[r].pc = (IF s.msg.key \in idempotency THEN "markPublished" ELSE "enqueue")
        /\ relay'[r].cur = s /\ ~ At(r, "storeKey")
    BY <1>0, <1>3, <2>1 DEF RelayTypeOK, AlreadyPublished, CheckKey, At
  <2>4. s.msg.key \notin idempotency => published[s.msg] = 0
    BY <2>2, <2>3 DEF UnpublishedInv
  <2> QED BY <1>3, <2>3, <2>4
          DEF CheckKey, UnpublishedInv, FailedNeverPublished, Status, Exists, At, Cur
<1>4. CASE EnqueueAccepted(r)
  <2> DEFINE m == Cur(r).msg
  <2>1. m \in Messages /\ Status(m, "PENDING")
    BY <1>4, <1>c DEF EnqueueAccepted, Holding, At, HandPending
  <2>2. /\ published' = [published EXCEPT ![m] = @ + 1] /\ UNCHANGED <<outbox, idempotency>>
        /\ relay'[r].pc = "storeKey" /\ Cur(r)' = Cur(r)
    BY <1>4, <1>g DEF EnqueueAccepted, AfterEnqueue, Cur
  <2>3. Cur(r)'.msg = m /\ \A n \in Messages : n # m => published'[n] = published[n]
    BY <1>0, <2>2
  <2>4. ~ At(r, "storeKey") /\ At(r, "storeKey")'
    BY <1>4, <2>2 DEF EnqueueAccepted, At
  <2> HIDE DEF m
  <2>5. FailedNeverPublished'
    BY <2>1, <2>2, <2>3 DEF UnpublishedInv, FailedNeverPublished, Status, Exists
  <2>6. \A n \in Messages :
          published'[n] # 0 => n.key \in idempotency' \/ (At(r, "storeKey")' /\ Cur(r)'.msg = n)
    BY <2>2, <2>3, <2>4 DEF UnpublishedInv
  <2> QED BY <2>2, <2>5, <2>6 DEF UnpublishedInv, At
<1>5. CASE EnqueueRefused(r) \/ EnqueueFault(r)
  <2>1. /\ relay'[r].pc = "markFailed" /\ Cur(r)' = Cur(r) /\ At(r, "enqueue")
        /\ UNCHANGED <<outbox, idempotency, published>>
    BY <1>5, <1>g DEF EnqueueRefused, EnqueueFault, AfterRefusal, Cur
  <2> QED BY <2>1 DEF UnpublishedInv, FailedNeverPublished, Status, Exists, At
<1>6. CASE StoreKey(r)
  <2>1. /\ relay'[r].pc = "markPublished" /\ idempotency' = idempotency \cup {Cur(r).msg.key}
        /\ UNCHANGED <<outbox, published>>
    BY <1>6, <1>g DEF StoreKey, RecordedKey
  <2> QED BY <2>1 DEF UnpublishedInv, FailedNeverPublished, Status, Exists, At
<1>7. CASE MarkPublished(r) \/ MarkFailed(r)
  <2>1. relay'[r].pc \in {"idle", "check"} /\ Cur(r).msg \in Messages /\ ~ At(r, "storeKey")
    BY <1>0, <1>7, <1>c, NextMessageMoves DEF MarkPublished, MarkFailed, At, Holding
  <2>2. \A m \in Messages : Status(m, "FAILED")' =>
          Status(m, "FAILED") \/ (At(r, "markFailed") /\ m = Cur(r).msg)
    <3> TAKE m \in Messages
    <3>1. CASE m # Cur(r).msg
      <4>1. outbox'[m] = outbox[m]
        BY <1>0, <1>7, <3>1 DEF MarkPublished, MarkFailed
      <4> QED BY <4>1 DEF Status, Exists
    <3>2. CASE m = Cur(r).msg /\ MarkPublished(r)
      <4>1. outbox'[m].status = "PUBLISHED"
        BY <1>0, <3>2 DEF MarkPublished
      <4> QED BY <4>1 DEF Status
    <3>3. CASE m = Cur(r).msg /\ MarkFailed(r)
      BY <3>3 DEF MarkFailed
    <3> QED BY <1>7, <3>1, <3>2, <3>3
  <2>3. UNCHANGED <<idempotency, published>>
    BY <1>7 DEF MarkPublished, MarkFailed
  <2>4. FailedNeverPublished'
    BY <2>2, <2>3 DEF UnpublishedInv, FailedNeverPublished
  <2> QED BY <2>1, <2>3, <2>4 DEF UnpublishedInv, At
<1>8. CASE CronTick \/ UNCHANGED outboxVars
  BY <1>8 DEF CronTick, outboxVars, relayVars, UnpublishedInv, FailedNeverPublished, Status,
     Exists, At, Cur
<1> QED BY <1>n, <1>1, <1>2, <1>3, <1>4, <1>5, <1>6, <1>7, <1>8
        DEF OutboxNext, RelayStep, RunsOn, CheckKeyFault, StoreKeyFault, MarkFault

(* When calls do not overlap, no store fails and the process lives, a      *)
(* message is given up only if the queue never accepted it, however often  *)
(* the queue refuses.                                                      *)
THEOREM FailedOfOneCall ==
  ASSUME NEW r, Relays = {r}, MaxStoreFaults = 0, MaxRestarts = 0
  PROVE  OutboxSpec => []FailedNeverPublished
<1>1. OutboxInit => UnpublishedInv(r)
  BY DEF OutboxInit, UnpublishedInv, FailedNeverPublished, Status, Exists, At, Idle
<1>2. OutboxTypeOK /\ TypeOK /\ HandPending(r) /\ UnpublishedInv(r) /\ [OutboxNext]_outboxVars
        => UnpublishedInv(r)'
  BY UnpublishedStep DEF TypeOK
<1>3. UnpublishedInv(r) => FailedNeverPublished
  BY DEF UnpublishedInv
<1> QED BY <1>1, <1>2, <1>3, OutboxTypeCorrect, QueueUnderRelay, TypeCorrect, HandsPending, PTL
        DEF OutboxSpec

-----------------------------------------------------------------------------
(* Why a call of the relay ends and a message is not tried for ever: what  *)
(* a call has left to do, and how often a message can be tried.            *)

(* A message that was not given up has tries left, and one that was given  *)
(* up has used them all.                                                   *)
DocTries(d) ==
  IF d.status = "FAILED" THEN d.retryCount = MAX_RETRIES ELSE d.retryCount < MAX_RETRIES
TriesBounded == \A m \in Messages : Exists(m) => DocTries(outbox[m])

(* So have the copies a call works on; its batch is finite, as are the     *)
(* messages written so far.                                                *)
CopyTries(x) ==
  /\ \A s \in x.batch : s.retryCount < MAX_RETRIES
  /\ x.pc \notin {"idle", "check"} => x.cur.retryCount < MAX_RETRIES
Written == {m \in Messages : Exists(m)}

TriesInv ==
  /\ OutboxTypeOK /\ TriesBounded /\ IsFiniteSet(Written)
  /\ \A r \in Relays : CopyTries(relay[r]) /\ IsFiniteSet(relay[r].batch)

(* What a step of a call does: it searches, takes the next message, goes   *)
(* on with it, or ends it, and then its document may change.               *)
Searches(r, found) ==
  relay' = [relay EXCEPT ![r] =
    [pc |-> "check", cur |-> NoDoc,
     batch |-> {[msg |-> m, retryCount |-> outbox[m].retryCount] : m \in found}]]
Takes(r, s, pc) == relay' = [relay EXCEPT ![r] = [pc |-> pc, batch |-> @.batch \ {s}, cur |-> s]]
Ends(r, doc) ==
  /\ NextMessage(r)
  /\ outbox' = outbox \/ outbox' = [outbox EXCEPT ![Cur(r).msg] = doc]

(* The document of a message whose turn ends, when its store succeeds.     *)
Ended(r) ==
  IF At(r, "markPublished") THEN [status |-> "PUBLISHED", retryCount |-> Cur(r).retryCount]
  ELSE [status |-> IF Exhausted(Cur(r).retryCount) THEN "FAILED" ELSE "PENDING",
        retryCount |-> Cur(r).retryCount + 1]

LEMMA RelaySteps ==
  ASSUME OutboxTypeOK, NEW r \in Relays, RelayStep(r)
  PROVE  \/ At(r, "idle") /\ outbox' = outbox /\ \E found \in SUBSET Pending : Searches(r, found)
         \/ /\ At(r, "check") /\ outbox' = outbox
            /\ \E s \in relay[r].batch, pc \in {"enqueue", "markPublished"} : Takes(r, s, pc)
         \/ At(r, "enqueue") /\ outbox' = outbox /\ (Goto(r, "storeKey") \/ Goto(r, "markFailed"))
         \/ At(r, "storeKey") /\ outbox' = outbox /\ Goto(r, "markPublished")
         \/ (At(r, "markPublished") \/ At(r, "markFailed")) /\ Ends(r, Ended(r))
<1>1. CASE Search(r)
  BY <1>1 DEF Search, Searches
<1>2. CASE CheckKey(r)
  <2>1. PICK s \in relay[r].batch :
          relay' = [relay EXCEPT ![r] =
            [pc |-> IF AlreadyPublished(s.msg.key) THEN "markPublished" ELSE "enqueue",
             batch |-> @.batch \ {s}, cur |-> s]]
    BY <1>2 DEF CheckKey
  <2> DEFINE pc == IF AlreadyPublished(s.msg.key) THEN "markPublished" ELSE "enqueue"
  <2>2. pc \in {"enqueue", "markPublished"}
    OBVIOUS
  <2>3. Takes(r, s, pc)
    BY <2>1 DEF Takes
  <2> HIDE DEF pc
  <2>4. At(r, "check") /\ outbox' = outbox
    BY <1>2 DEF CheckKey
  <2> QED BY <2>2, <2>3, <2>4
<1>3. CASE CheckKeyFault(r)
  <2>1. PICK s \in relay[r].batch : Takes(r, s, "enqueue")
    BY <1>3 DEF CheckKeyFault, Takes
  <2>2. At(r, "check") /\ outbox' = outbox
    BY <1>3 DEF CheckKeyFault
  <2> QED BY <2>1, <2>2
<1>4. CASE EnqueueAccepted(r) \/ EnqueueRefused(r) \/ EnqueueFault(r)
  BY <1>4 DEF EnqueueAccepted, EnqueueRefused, EnqueueFault, AfterEnqueue, AfterRefusal
<1>5. CASE StoreKey(r) \/ StoreKeyFault(r)
  BY <1>5 DEF StoreKey, StoreKeyFault
<1>6. CASE MarkPublished(r)
  BY <1>6 DEF MarkPublished, Ends, Ended
<1>7. CASE MarkFailed(r)
  <2>1. At(r, "markFailed") /\ ~ At(r, "markPublished")
    BY <1>7 DEF MarkFailed, At
  <2> QED BY <1>7, <2>1 DEF MarkFailed, Ends, Ended
<1>8. CASE MarkFault(r)
  BY <1>8 DEF MarkFault, Ends
<1> QED BY <1>1, <1>2, <1>3, <1>4, <1>5, <1>6, <1>7, <1>8 DEF RelayStep, RunsOn

(* The state of a call after each kind of step; the others keep theirs.    *)
LEMMA AfterStep ==
  ASSUME RelayTypeOK, NEW r \in Relays
  PROVE  /\ \A found \in SUBSET Pending : Searches(r, found) =>
              /\ relay'[r].pc = "check" /\ relay'[r].cur = NoDoc
              /\ relay'[r].batch =
                   {[msg |-> m, retryCount |-> outbox[m].retryCount] : m \in found}
         /\ \A s, pc : Takes(r, s, pc) =>
              /\ relay'[r].pc = pc /\ relay'[r].cur = s
              /\ relay'[r].batch = relay[r].batch \ {s}
         /\ \A pc : Goto(r, pc) =>
              /\ relay'[r].pc = pc /\ relay'[r].cur = relay[r].cur
              /\ relay'[r].batch = relay[r].batch
         /\ NextMessage(r) =>
              /\ relay'[r].batch = relay[r].batch
              /\ relay'[r].pc = IF relay[r].batch = {} THEN "idle" ELSE "check"
BY DEF RelayTypeOK, RelayState, Searches, Takes, Goto, NextMessage, Idle

LEMMA OtherCalls ==
  ASSUME OutboxTypeOK, NEW r \in Relays, RelayStep(r)
  PROVE  \A x \in Relays : x # r => relay'[x] = relay[x]
<1>1. \E y : relay' = [relay EXCEPT ![r] = y]
  BY RelaySteps DEF Searches, Takes, Goto, Ends, NextMessage
<1> QED BY <1>1 DEF OutboxTypeOK, RelayTypeOK

(* The document a turn ends with.                                          *)
LEMMA EndedTries ==
  ASSUME OutboxTypeOK, NEW r \in Relays, CopyTries(relay[r]),
         At(r, "markPublished") \/ At(r, "markFailed")
  PROVE  /\ Cur(r).msg \in Messages /\ Cur(r).retryCount \in Nat
         /\ DocTries(Ended(r))
         /\ Ended(r).status # "PENDING" \/ Ended(r).retryCount > Cur(r).retryCount
<1>1. /\ Cur(r) \in Snapshot /\ Cur(r).msg \in Messages
      /\ Cur(r).retryCount < MAX_RETRIES /\ MAX_RETRIES \in Nat
  BY CurIsMessage, OutboxAssumption DEF OutboxTypeOK, At, Cur, CopyTries
<1>2. Cur(r).retryCount \in Nat
  BY <1>1 DEF Snapshot
<1>3. CASE At(r, "markPublished")
  <2>1. Ended(r).status = "PUBLISHED" /\ Ended(r).retryCount = Cur(r).retryCount
    BY <1>3 DEF Ended
  <2> QED BY <1>1, <1>2, <2>1 DEF DocTries
<1>4. CASE ~ At(r, "markPublished")
  <2>1. /\ Ended(r).retryCount = Cur(r).retryCount + 1
        /\ Ended(r).status = IF Exhausted(Cur(r).retryCount) THEN "FAILED" ELSE "PENDING"
    BY <1>4 DEF Ended
  <2> QED BY <1>1, <1>2, <2>1 DEF DocTries, Exhausted
<1> QED BY <1>3, <1>4

(* The messages and the copies a call works on, whatever it does.          *)
LEMMA CallTries ==
  ASSUME TriesInv, NEW r \in Relays, RelayStep(r)
  PROVE  /\ TriesBounded' /\ IsFiniteSet(Written')
         /\ CopyTries(relay'[r]) /\ IsFiniteSet(relay'[r].batch)
<1>0. /\ OutboxTypeOK /\ RelayTypeOK /\ CopyTries(relay[r]) /\ IsFiniteSet(relay[r].batch)
      /\ IsFiniteSet(Written) /\ TriesBounded
  BY DEF TriesInv, OutboxTypeOK
<1>1. ASSUME outbox' = outbox
      PROVE  TriesBounded' /\ IsFiniteSet(Written')
  BY <1>0, <1>1 DEF TriesBounded, Exists, Written
<1>2. ASSUME NEW found \in SUBSET Pending, Searches(r, found)
      PROVE  CopyTries(relay'[r]) /\ IsFiniteSet(relay'[r].batch)
  <2> DEFINE b == {[msg |-> m, retryCount |-> outbox[m].retryCount] : m \in found}
  <2>1. relay'[r].pc = "check" /\ relay'[r].batch = b
    BY <1>0, <1>2, AfterStep
  <2>2. \A m \in found : outbox[m].retryCount < MAX_RETRIES
    BY <1>0 DEF TriesBounded, Pending, DocTries
  <2>3. IsFiniteSet(found)
    <3>1. found \subseteq Written
      BY DEF Pending, Written
    <3> QED BY <1>0, <3>1, FS_Subset
  <2>4. IsFiniteSet(b)
    <3> DEFINE copy == [m \in found |-> [msg |-> m, retryCount |-> outbox[m].retryCount]]
    <3>1. copy \in Surjection(found, b)
      BY DEF Surjection
    <3> HIDE DEF b, copy
    <3> QED BY <2>3, <3>1, FS_Surjection
  <2>5. \A s \in b : s.retryCount < MAX_RETRIES
    BY <2>2
  <2> HIDE DEF b
  <2> QED BY <2>1, <2>4, <2>5 DEF CopyTries
<1>3. ASSUME NEW s \in relay[r].batch, NEW pc, Takes(r, s, pc)
      PROVE  CopyTries(relay'[r]) /\ IsFiniteSet(relay'[r].batch)
  <2>1. relay'[r].cur = s /\ relay'[r].batch = relay[r].batch \ {s}
    BY <1>0, <1>3, AfterStep
  <2>2. IsFiniteSet(relay'[r].batch)
    BY <1>0, <2>1, FS_RemoveElement
  <2> QED BY <1>0, <2>1, <2>2 DEF CopyTries
<1>4. ASSUME NEW pc, Goto(r, pc), relay[r].pc \notin {"idle", "check"}
      PROVE  CopyTries(relay'[r]) /\ IsFiniteSet(relay'[r].batch)
  BY <1>0, <1>4, AfterStep DEF CopyTries
<1>5. ASSUME Ends(r, Ended(r)), At(r, "markPublished") \/ At(r, "markFailed")
      PROVE  /\ TriesBounded' /\ IsFiniteSet(Written')
             /\ CopyTries(relay'[r]) /\ IsFiniteSet(relay'[r].batch)
  <2>1. CopyTries(relay'[r]) /\ IsFiniteSet(relay'[r].batch)
    BY <1>0, <1>5, AfterStep DEF Ends, CopyTries
  <2>2. CASE outbox' = [outbox EXCEPT ![Cur(r).msg] = Ended(r)]
    <3>1. Cur(r).msg \in Messages /\ DocTries(Ended(r))
      BY <1>0, <1>5, EndedTries
    <3>2. /\ outbox'[Cur(r).msg] = Ended(r)
          /\ \A m \in Messages : m # Cur(r).msg => outbox'[m] = outbox[m]
      BY <1>0, <2>2, <3>1 DEF OutboxTypeOK
    <3>3. TriesBounded'
      BY <1>0, <3>1, <3>2 DEF TriesBounded, Exists
    <3>4. IsFiniteSet(Written \cup {Cur(r).msg})
      BY <1>0, FS_AddElement
    <3>5. Written' \subseteq Written \cup {Cur(r).msg}
      BY <3>2 DEF Written, Exists
    <3>6. IsFiniteSet(Written')
      BY <3>4, <3>5, FS_Subset
    <3> QED BY <2>1, <3>3, <3>6
  <2> QED BY <1>1, <1>5, <2>1, <2>2 DEF Ends
<1> QED BY <1>0, <1>1, <1>2, <1>3, <1>4, <1>5, RelaySteps DEF At

LEMMA TriesStep ==
  ASSUME TriesInv, [OutboxNext]_outboxVars
  PROVE  TriesInv'
<1>0. OutboxTypeOK /\ OutboxTypeOK'
  BY OutboxTypeStep DEF TriesInv
<1>1. ASSUME NEW r \in Relays, RelayStep(r)
      PROVE  TriesInv'
  <2>1. /\ TriesBounded' /\ IsFiniteSet(Written')
        /\ CopyTries(relay'[r]) /\ IsFiniteSet(relay'[r].batch)
    BY <1>1, CallTries
  <2>2. \A x \in Relays : x # r => relay'[x] = relay[x]
    BY <1>0, <1>1, OtherCalls
  <2>3. \A x \in Relays : CopyTries(relay'[x]) /\ IsFiniteSet(relay'[x].batch)
    BY <2>1, <2>2 DEF TriesInv
  <2> QED BY <1>0, <2>1, <2>3 DEF TriesInv, CopyTries
<1>2. ASSUME NEW m \in Messages, WriteOutboxMessage(m)
      PROVE  TriesInv'
  <2> DEFINE doc == [status |-> "PENDING", retryCount |-> 0]
  <2>1. /\ outbox'[m] = doc /\ relay' = relay
        /\ \A n \in Messages : n # m => outbox'[n] = outbox[n]
    BY <1>0, <1>2 DEF WriteOutboxMessage, OutboxTypeOK
  <2>2. DocTries(doc)
    BY OutboxAssumption DEF DocTries
  <2> HIDE DEF doc
  <2>3. TriesBounded'
    BY <2>1, <2>2 DEF TriesInv, TriesBounded, Exists
  <2>4. IsFiniteSet(Written \cup {m})
    BY FS_AddElement DEF TriesInv
  <2>5. Written' \subseteq Written \cup {m}
    BY <2>1 DEF Written, Exists
  <2>6. IsFiniteSet(Written')
    BY <2>4, <2>5, FS_Subset
  <2> QED BY <1>0, <2>1, <2>3, <2>6 DEF TriesInv, CopyTries
<1>3. CASE Crash
  <2>1. outbox' = outbox /\ \A r \in Relays : relay'[r] = Idle
    BY <1>3 DEF Crash
  <2>2. CopyTries(Idle) /\ IsFiniteSet(Idle.batch)
    BY FS_EmptySet DEF CopyTries, Idle
  <2>3. TriesBounded' /\ Written' = Written
    BY <2>1 DEF TriesInv, TriesBounded, Exists, Written
  <2>4. \A r \in Relays : CopyTries(relay'[r]) /\ IsFiniteSet(relay'[r].batch)
    BY <2>1, <2>2
  <2> QED BY <1>0, <2>3, <2>4 DEF TriesInv, CopyTries
<1>4. CASE UNCHANGED <<outbox, relay>>
  BY <1>0, <1>4 DEF TriesInv, TriesBounded, Exists, Written, CopyTries
<1> QED BY <1>1, <1>2, <1>3, <1>4 DEF OutboxNext, CronTick, outboxVars, relayVars

LEMMA TriesHold == OutboxSpec => []TriesInv
<1>1. OutboxInit => TriesInv
  <2> SUFFICES ASSUME OutboxInit PROVE TriesInv
    OBVIOUS
  <2>1. \A m \in Messages : ~ Exists(m)
    BY DEF OutboxInit, Exists
  <2>2. Written = {}
    BY <2>1 DEF Written
  <2>3. \A r \in Relays : relay[r] = Idle
    BY DEF OutboxInit
  <2> QED BY <2>1, <2>2, <2>3, OutboxInitType, FS_EmptySet DEF TriesInv, TriesBounded, CopyTries, Idle
<1>2. TriesInv /\ [OutboxNext]_outboxVars => TriesInv'
  BY TriesStep
<1> QED BY <1>1, <1>2, PTL DEF OutboxSpec

LEMMA TriesAreBounded == OutboxSpec => []TriesBounded
<1>1. TriesInv => TriesBounded
  BY DEF TriesInv
<1> QED BY <1>1, TriesHold, PTL

(* What a call has left: five steps at most for each message of its batch. *)
CallRank(x) ==
  5 * Cardinality(x.batch)
    + (CASE x.pc = "idle" -> 0
         [] x.pc = "check" -> 1
         [] x.pc = "markPublished" \/ x.pc = "markFailed" -> 2
         [] x.pc = "storeKey" -> 3
         [] OTHER -> 4)

CallsRunDownStep ==
  \A r \in Relays :
    ~ At(r, "idle") => relay'[r] = relay[r] \/ CallRank(relay'[r]) < CallRank(relay[r])

LEMMA RanksAreNat ==
  ASSUME TriesInv, NEW r \in Relays
  PROVE  /\ CallRank(relay[r]) \in Nat
         /\ ~ At(r, "idle") => CallRank(relay[r]) > 0
<1>1. Cardinality(relay[r].batch) \in Nat
  BY FS_CardinalityType DEF TriesInv
<1> DEFINE n == Cardinality(relay[r].batch)
<1> HIDE DEF n
<1>2. n \in Nat
  BY <1>1 DEF n
<1>3. \/ CallRank(relay[r]) = 5 * n + 0 /\ At(r, "idle")
      \/ CallRank(relay[r]) \in {5 * n + 1, 5 * n + 2, 5 * n + 3, 5 * n + 4}
  BY DEF CallRank, At, n
<1> QED BY <1>2, <1>3

LEMMA CallRunsDown ==
  ASSUME TriesInv, NEW r \in Relays, RelayStep(r), ~ At(r, "idle")
  PROVE  CallRank(relay'[r]) < CallRank(relay[r])
<1>0. OutboxTypeOK /\ RelayTypeOK /\ IsFiniteSet(relay[r].batch)
  BY DEF TriesInv, OutboxTypeOK
<1> DEFINE n == Cardinality(relay[r].batch)
           k == Cardinality(relay'[r].batch)
<1>1. n \in Nat
  BY <1>0, FS_CardinalityType
<1>2. ASSUME NEW s \in relay[r].batch, NEW pc \in {"enqueue", "markPublished"}, Takes(r, s, pc),
             At(r, "check")
      PROVE  CallRank(relay'[r]) < CallRank(relay[r])
  <2>1. relay'[r].pc = pc /\ relay'[r].batch = relay[r].batch \ {s}
    BY <1>0, <1>2, AfterStep
  <2>2. k = n - 1
    BY <1>0, <2>1, FS_RemoveElement
  <2> HIDE DEF n, k
  <2>3. CallRank(relay[r]) = 5 * n + 1
    BY <1>2 DEF CallRank, At, n
  <2>4. CallRank(relay'[r]) \in {5 * k + 2, 5 * k + 4}
    BY <2>1 DEF CallRank, k
  <2> QED BY <1>1, <2>2, <2>3, <2>4
<1>3. ASSUME At(r, "enqueue"), Goto(r, "storeKey") \/ Goto(r, "markFailed")
      PROVE  CallRank(relay'[r]) < CallRank(relay[r])
  <2>1. relay'[r].pc \in {"storeKey", "markFailed"} /\ relay'[r].batch = relay[r].batch
    BY <1>0, <1>3, AfterStep
  <2>2. k = n
    BY <2>1
  <2> HIDE DEF n, k
  <2>3. CallRank(relay[r]) = 5 * n + 4
    BY <1>3 DEF CallRank, At, n
  <2>4. CallRank(relay'[r]) \in {5 * k + 2, 5 * k + 3}
    BY <2>1 DEF CallRank, k
  <2> QED BY <1>1, <2>2, <2>3, <2>4
<1>4. ASSUME At(r, "storeKey"), Goto(r, "markPublished")
      PROVE  CallRank(relay'[r]) < CallRank(relay[r])
  <2>1. relay'[r].pc = "markPublished" /\ relay'[r].batch = relay[r].batch
    BY <1>0, <1>4, AfterStep
  <2>2. k = n
    BY <2>1
  <2> HIDE DEF n, k
  <2>3. CallRank(relay[r]) = 5 * n + 3
    BY <1>4 DEF CallRank, At, n
  <2>4. CallRank(relay'[r]) = 5 * k + 2
    BY <2>1 DEF CallRank, k
  <2> QED BY <1>1, <2>2, <2>3, <2>4
<1>5. ASSUME At(r, "markPublished") \/ At(r, "markFailed"), NextMessage(r)
      PROVE  CallRank(relay'[r]) < CallRank(relay[r])
  <2>1. relay'[r].pc \in {"idle", "check"} /\ relay'[r].batch = relay[r].batch
    BY <1>0, <1>5, AfterStep
  <2>2. k = n
    BY <2>1
  <2> HIDE DEF n, k
  <2>3. CallRank(relay[r]) = 5 * n + 2
    BY <1>5 DEF CallRank, At, n
  <2>4. CallRank(relay'[r]) \in {5 * k + 0, 5 * k + 1}
    BY <2>1 DEF CallRank, k
  <2> QED BY <1>1, <2>2, <2>3, <2>4
<1> QED BY <1>0, <1>2, <1>3, <1>4, <1>5, RelaySteps DEF Ends

(* Every step of a call of the relay, and its death in a crash, lowers     *)
(* what it has left to do, a natural number that is 0 only of a call that  *)
(* has ended; no step of another call, of a writer or of the cron touches  *)
(* it.                                                                     *)
THEOREM CallsRunDown ==
  OutboxSpec => /\ [](\A r \in Relays : /\ CallRank(relay[r]) \in Nat
                                        /\ ~ At(r, "idle") => CallRank(relay[r]) > 0)
                /\ [][CallsRunDownStep]_outboxVars
<1>1. TriesInv => \A r \in Relays : /\ CallRank(relay[r]) \in Nat
                                    /\ ~ At(r, "idle") => CallRank(relay[r]) > 0
  BY RanksAreNat
<1>2. TriesInv /\ [OutboxNext]_outboxVars => [CallsRunDownStep]_outboxVars
  <2> SUFFICES ASSUME TriesInv, OutboxNext
               PROVE  CallsRunDownStep
    OBVIOUS
  <2>1. ASSUME NEW r \in Relays, RelayStep(r)
        PROVE  CallsRunDownStep
    <3>1. \A x \in Relays : x # r => relay'[x] = relay[x]
      BY <2>1, OtherCalls DEF TriesInv
    <3>2. ~ At(r, "idle") => CallRank(relay'[r]) < CallRank(relay[r])
      BY <2>1, CallRunsDown
    <3> QED BY <3>1, <3>2 DEF CallsRunDownStep
  <2>2. CASE Crash
    <3>1. \A r \in Relays : relay'[r] = Idle
      BY <2>2 DEF Crash
    <3>2. CallRank(Idle) = 0
      BY FS_EmptySet DEF CallRank, Idle
    <3> QED BY <3>1, <3>2, RanksAreNat DEF CallsRunDownStep
  <2>3. CASE relay' = relay
    BY <2>3 DEF CallsRunDownStep
  <2> QED BY <2>1, <2>2, <2>3 DEF OutboxNext, WriteOutboxMessage, CronTick
<1> QED BY <1>1, <1>2, TriesHold, PTL DEF OutboxSpec

(* With one call at a time, a copy is never behind its document.           *)
NotBehind(r) ==
  /\ \A s \in relay[r].batch : outbox[s.msg].retryCount <= s.retryCount
  /\ Holding(r) => outbox[Cur(r).msg].retryCount <= Cur(r).retryCount

TriesCountStep ==
  \A m \in Messages :
    Exists(m) /\ outbox'[m] # outbox[m] /\ writes' = writes =>
      /\ outbox[m].status = "PENDING"
      /\ outbox'[m].status # "PENDING" \/ outbox'[m].retryCount > outbox[m].retryCount

LEMMA NotBehindStep ==
  ASSUME NEW r, Relays = {r}, TriesInv, HandPending(r), NotBehind(r), [OutboxNext]_outboxVars
  PROVE  NotBehind(r)'
<1>0. /\ OutboxTypeOK /\ RelayTypeOK /\ r \in Relays /\ CopyTries(relay[r])
      /\ outbox \in [Messages -> OutboxDoc \cup {NoDoc}]
      /\ relay[r].batch \subseteq Snapshot
  BY DEF TriesInv, OutboxTypeOK, RelayTypeOK, RelayState
<1>b. \A s \in relay[r].batch : s.msg \in Messages /\ s.retryCount \in Nat
  BY <1>0 DEF Snapshot
<1>c. Holding(r) => Cur(r).msg \in Messages /\ Cur(r).retryCount \in Nat
  BY <1>0, CurIsMessage DEF Holding, At, Snapshot
<1>1. ASSUME NEW m \in Messages, WriteOutboxMessage(m)
      PROVE  NotBehind(r)'
  <2>1. /\ outbox'[m].retryCount = 0 /\ relay' = relay
        /\ \A n \in Messages : n # m => outbox'[n] = outbox[n]
    BY <1>0, <1>1 DEF WriteOutboxMessage
  <2>2. \A s \in relay[r].batch : outbox'[s.msg].retryCount <= s.retryCount
    BY <1>b, <2>1 DEF NotBehind
  <2>3. Holding(r) => outbox'[Cur(r).msg].retryCount <= Cur(r).retryCount
    BY <1>c, <2>1 DEF NotBehind
  <2> QED BY <2>1, <2>2, <2>3 DEF NotBehind, Holding, Cur
<1>2. ASSUME outbox' = outbox, NEW found \in SUBSET Pending, Searches(r, found)
      PROVE  NotBehind(r)'
  <2> DEFINE b == {[msg |-> m, retryCount |-> outbox[m].retryCount] : m \in found}
  <2>1. relay'[r].pc = "check" /\ relay'[r].batch = b
    BY <1>0, <1>2, AfterStep
  <2>2. \A m \in found : outbox[m].retryCount \in Nat
    BY <1>0 DEF Pending, Exists, OutboxDoc
  <2>3. \A s \in b : outbox[s.msg].retryCount <= s.retryCount
    BY <2>2
  <2> HIDE DEF b
  <2> QED BY <1>2, <2>1, <2>3 DEF NotBehind, Holding
<1>3. ASSUME outbox' = outbox, NEW s \in relay[r].batch, NEW pc, Takes(r, s, pc)
      PROVE  NotBehind(r)'
  <2>1. relay'[r].cur = s /\ relay'[r].batch = relay[r].batch \ {s}
    BY <1>0, <1>3, AfterStep
  <2> QED BY <1>3, <2>1 DEF NotBehind, Cur
<1>4. ASSUME outbox' = outbox, NEW pc, Goto(r, pc), Holding(r)
      PROVE  NotBehind(r)'
  <2>1. relay'[r].cur = relay[r].cur /\ relay'[r].batch = relay[r].batch
    BY <1>0, <1>4, AfterStep
  <2> QED BY <1>4, <2>1 DEF NotBehind, Cur
<1>5. ASSUME Ends(r, Ended(r)), Holding(r)
      PROVE  NotBehind(r)'
  <2>1. /\ relay'[r].batch = relay[r].batch /\ relay'[r].pc \in {"idle", "check"}
        /\ \A m \in Messages : m # Cur(r).msg => outbox'[m] = outbox[m]
    BY <1>0, <1>5, AfterStep DEF Ends
  <2>2. \A s \in relay[r].batch : outbox'[s.msg] = outbox[s.msg]
    BY <1>5, <1>b, <2>1 DEF HandPending
  <2> QED BY <2>1, <2>2 DEF NotBehind, Holding
<1>6. CASE Crash
  BY <1>0, <1>6 DEF Crash, Idle, NotBehind, Holding
<1>7. CASE UNCHANGED <<outbox, relay>>
  BY <1>7 DEF NotBehind, Holding, Cur
<1>8. CASE RelayStep(r)
  BY <1>0, <1>2, <1>3, <1>4, <1>5, <1>8, RelaySteps DEF At, Holding
<1> QED BY <1>1, <1>6, <1>7, <1>8 DEF OutboxNext, CronTick, outboxVars, relayVars

(* When calls do not overlap, a document that changes other than by being  *)
(* written anew was PENDING and becomes final or has fewer tries left, and *)
(* one that is not given up has its count below MAX_RETRIES: together with *)
(* CallsRunDown, what keeps a message from being tried for ever.           *)
THEOREM TriesRunOut ==
  ASSUME NEW r, Relays = {r}
  PROVE  OutboxSpec => []TriesBounded /\ [][TriesCountStep]_outboxVars
<1>1. OutboxInit => NotBehind(r)
  BY DEF OutboxInit, NotBehind, Holding, Idle
<1>2. TriesInv /\ HandPending(r) /\ NotBehind(r) /\ [OutboxNext]_outboxVars => NotBehind(r)'
  BY NotBehindStep
<1>3. TriesInv /\ HandPending(r) /\ NotBehind(r) /\ [OutboxNext]_outboxVars
        => [TriesCountStep]_outboxVars
  <2> SUFFICES ASSUME TriesInv, HandPending(r), NotBehind(r), OutboxNext
               PROVE  TriesCountStep
    OBVIOUS
  <2>0. OutboxTypeOK /\ r \in Relays /\ CopyTries(relay[r])
        /\ outbox \in [Messages -> OutboxDoc \cup {NoDoc}]
    BY DEF TriesInv, OutboxTypeOK
  <2>1. ASSUME NEW m \in Messages, WriteOutboxMessage(m) PROVE TriesCountStep
    BY <2>0, <2>1 DEF WriteOutboxMessage, TriesCountStep, OutboxTypeOK
  <2>2. CASE outbox' = outbox
    BY <2>2 DEF TriesCountStep
  <2>3. ASSUME At(r, "markPublished") \/ At(r, "markFailed"),
               outbox' = [outbox EXCEPT ![Cur(r).msg] = Ended(r)]
        PROVE  TriesCountStep
    <3> DEFINE msg == Cur(r).msg
    <3>1. /\ msg \in Messages /\ Cur(r).retryCount \in Nat
          /\ Ended(r).status # "PENDING" \/ Ended(r).retryCount > Cur(r).retryCount
      BY <2>0, <2>3, EndedTries
    <3>2. /\ Status(msg, "PENDING") /\ outbox[msg].retryCount <= Cur(r).retryCount
      BY <2>3 DEF HandPending, NotBehind, Holding, At
    <3>3. outbox'[msg] = Ended(r) /\ \A m \in Messages : m # msg => outbox'[m] = outbox[m]
      BY <2>0, <2>3, <3>1
    <3>4. outbox[msg].retryCount \in Nat /\ (Ended(r).retryCount > Cur(r).retryCount
                                              => Ended(r).retryCount > outbox[msg].retryCount)
      <4>1. outbox[msg].retryCount \in Nat
        BY <2>0, <3>1, <3>2 DEF Status, Exists, OutboxDoc
      <4>2. Ended(r).retryCount \in Nat
        BY <3>1 DEF Ended
      <4> QED BY <3>1, <3>2, <4>1, <4>2
    <3> HIDE DEF msg
    <3> QED BY <3>1, <3>2, <3>3, <3>4 DEF TriesCountStep, Status
  <2>4. ASSUME NEW x \in Relays, RelayStep(x) PROVE TriesCountStep
    BY <2>0, <2>2, <2>3, <2>4, RelaySteps DEF Ends
  <2> QED BY <2>1, <2>2, <2>4 DEF OutboxNext, CronTick, Crash
<1> QED BY <1>1, <1>2, <1>3, TriesHold, TriesAreBounded, HandsPending, PTL DEF OutboxSpec
=============================================================================
