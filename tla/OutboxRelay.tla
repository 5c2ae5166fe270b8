----------------------------- MODULE OutboxRelay -----------------------------
(***************************************************************************)
(* The transactional outbox of the engine (outbox-relay.service.ts and     *)
(* outbox-scheduler.service.ts in src/server/src/engine) on top of the     *)
(* queue fabric of EventQueue.                                             *)
(*                                                                         *)
(* Every await of relayPendingMessages is a point where other calls run,   *)
(* so a call is a small state machine that works on the copy of the        *)
(* messages its search returned.  The outbox and the idempotency records   *)
(* are documents of the tenant's database; storing one replaces it whole.  *)
(* Queue consumers are left out: nothing the relay does depends on them.   *)
(***************************************************************************)
EXTENDS EventQueue

CONSTANTS
  Tenant,          \* the tenant whose outbox this is
  Relays,          \* calls of relayPendingMessages that may overlap
  BatchSize,       \* relayPendingMessages(batchSize)
  MAX_RETRIES,     \* outbox-relay.service.ts
  NoDoc,           \* the document does not exist
  MaxWrites,       \* bound: calls of writeOutboxMessage
  MaxQueueFaults,  \* bound: enqueue calls an external queue refuses
  MaxStoreFaults   \* bound: database calls of the loop that fail

(* messageId is `${eventType}::${idempotencyKey}`. *)
Messages == [event : Events, key : DedupIds]
OutboxDoc == [status : {"PENDING", "PUBLISHED", "FAILED"}, retryCount : Nat]
Snapshot == [msg : Messages, retryCount : Nat]

ASSUME OutboxAssumption ==
  /\ Tenant \in Tenants
  /\ BatchSize \in Nat \ {0} /\ MAX_RETRIES \in Nat \ {0}
  /\ MaxWrites \in Nat /\ MaxQueueFaults \in Nat /\ MaxStoreFaults \in Nat
  /\ NoDoc \notin OutboxDoc

VARIABLES
  outbox,       \* index xiigen-outbox: message -> document
  idempotency,  \* index xiigen-outbox-idempotency: the keys recorded
  relay,        \* each call: where it is, what is left of its batch, its message
  writes,       \* writeOutboxMessage calls so far
  faults,       \* faults so far: [queue, store]; store counts database calls
  lastRelay,    \* result of the last call of relayPendingMessages to start
  published     \* history: how often the queue accepted each message

relayVars == <<outbox, idempotency, relay, writes, faults, lastRelay, published>>
outboxVars == <<vars, relayVars>>

Idle == [pc |-> "idle", batch |-> {}, cur |-> NoDoc]

OutboxInit ==
  /\ Init
  /\ outbox = [m \in Messages |-> NoDoc]
  /\ idempotency = {}
  /\ relay = [r \in Relays |-> Idle]
  /\ writes = 0
  /\ faults = [queue |-> 0, store |-> 0]
  /\ lastRelay = "none"
  /\ published = [m \in Messages |-> 0]

Exists(m) == outbox[m] # NoDoc
Pending == {m \in Messages : Exists(m) /\ outbox[m].status = "PENDING"}

(* writeOutboxMessage: replaces an earlier document of the same message. *)
WriteOutboxMessage(m) ==
  /\ writes < MaxWrites
  /\ writes' = writes + 1
  /\ outbox' = [outbox EXCEPT ![m] = [status |-> "PENDING", retryCount |-> 0]]
  /\ UNCHANGED <<vars, idempotency, relay, faults, lastRelay, published>>

(* Where call r is. *)
Goto(r, pc) == relay' = [relay EXCEPT ![r].pc = pc]
Cur(r) == relay[r].cur
At(r, pc) == relay[r].pc = pc

(* searchDocuments({status: 'PENDING'}, batchSize), of a call that has a   *)
(* tenant context.                                                         *)
Search(r) ==
  /\ At(r, "idle")
  /\ Pending # {}
  /\ \E found \in SUBSET Pending :
       /\ \/ Cardinality(found) = BatchSize
          \/ found = Pending /\ Cardinality(found) < BatchSize
       /\ relay' = [relay EXCEPT ![r] =
            [pc |-> "check", cur |-> NoDoc,
             batch |-> {[msg |-> m, retryCount |-> outbox[m].retryCount] : m \in found}]]
  /\ lastRelay' = "ok"
  /\ UNCHANGED <<vars, outbox, idempotency, writes, faults, published>>

(* relayOutbox(): the cron callback runs without a tenant context, so the  *)
(* search fails and the call returns OUTBOX_READ_FAILED.                   *)
CronTick ==
  /\ lastRelay' = "OUTBOX_READ_FAILED"
  /\ UNCHANGED <<vars, outbox, idempotency, relay, writes, faults, published>>

(* The loop takes the next message of the batch and looks its key up. *)
AlreadyPublished(key) == key \in idempotency

CheckKey(r) ==
  /\ At(r, "check")
  /\ \E s \in relay[r].batch :
       relay' = [relay EXCEPT ![r] =
         [pc |-> IF AlreadyPublished(s.msg.key) THEN "markPublished" ELSE "enqueue",
          batch |-> @.batch \ {s}, cur |-> s]]
  /\ UNCHANGED <<vars, outbox, idempotency, writes, faults, lastRelay, published>>

(* A look-up that fails is taken for a key that is not there. *)
StoreFault == faults.store < MaxStoreFaults /\ faults' = [faults EXCEPT !.store = @ + 1]

CheckKeyFault(r) ==
  /\ At(r, "check")
  /\ StoreFault
  /\ \E s \in relay[r].batch :
       relay' = [relay EXCEPT ![r] =
         [pc |-> "enqueue", batch |-> @.batch \ {s}, cur |-> s]]
  /\ UNCHANGED <<vars, outbox, idempotency, writes, lastRelay, published>>

(* queue.enqueue(eventType, payload, idempotencyKey) *)
DedupIdFor_None(key) == NoDedup \* mutant: no deduplication id is passed
DedupIdFor(key) == key

AfterEnqueue_MarkFirst == "markPublished" \* mutant: no record is stored
AfterEnqueue == "storeKey"

AfterRefusal_Ignored == "markPublished" \* mutant: the result is not looked at
AfterRefusal == "markFailed"

EnqueueAccepted(r) ==
  /\ At(r, "enqueue")
  /\ Enqueue(Tenant, Cur(r).msg.event, DedupIdFor(Cur(r).msg.key))
  /\ published' = [published EXCEPT ![Cur(r).msg] = @ + 1]
  /\ Goto(r, AfterEnqueue)
  /\ UNCHANGED <<outbox, idempotency, writes, faults, lastRelay>>

EnqueueRefused(r) ==
  /\ At(r, "enqueue")
  /\ EnqueueDuplicate(Tenant, Cur(r).msg.key)
  /\ Goto(r, AfterRefusal)
  /\ UNCHANGED <<outbox, idempotency, writes, faults, lastRelay, published>>

(* An external queue (SQS) may refuse: ENQUEUE_FAILED. *)
EnqueueFault(r) ==
  /\ At(r, "enqueue")
  /\ faults.queue < MaxQueueFaults
  /\ faults' = [faults EXCEPT !.queue = @ + 1]
  /\ Goto(r, AfterRefusal)
  /\ UNCHANGED <<vars, outbox, idempotency, writes, lastRelay, published>>

(* The idempotency record is stored before the final status; the result of *)
(* the store is not looked at.                                             *)
RecordedKey_MessageId(s) == s.msg \* mutant: recorded under the message id
RecordedKey(s) == s.msg.key

StoreKey(r) ==
  /\ At(r, "storeKey")
  /\ idempotency' = idempotency \cup {RecordedKey(Cur(r))}
  /\ Goto(r, "markPublished")
  /\ UNCHANGED <<vars, outbox, writes, faults, lastRelay, published>>

StoreKeyFault(r) ==
  /\ At(r, "storeKey")
  /\ StoreFault
  /\ Goto(r, "markPublished")
  /\ UNCHANGED <<vars, outbox, idempotency, writes, lastRelay, published>>

(* _markPublished and _markFailed write the copy the search returned, with *)
(* a new status, over whatever the document is by now.                     *)
NextMessage(r) ==
  relay' = [relay EXCEPT ![r] =
    IF @.batch = {} THEN Idle ELSE [pc |-> "check", batch |-> @.batch, cur |-> NoDoc]]

MarkPublished(r) ==
  /\ At(r, "markPublished")
  /\ outbox' = [outbox EXCEPT ![Cur(r).msg] =
       [status |-> "PUBLISHED", retryCount |-> Cur(r).retryCount]]
  /\ NextMessage(r)
  /\ UNCHANGED <<vars, idempotency, writes, faults, lastRelay, published>>

Exhausted(retryCount) == retryCount >= MAX_RETRIES - 1

MarkFailed(r) ==
  /\ At(r, "markFailed")
  /\ outbox' = [outbox EXCEPT ![Cur(r).msg] =
       [status |-> IF Exhausted(Cur(r).retryCount) THEN "FAILED" ELSE "PENDING",
        retryCount |-> Cur(r).retryCount + 1]]
  /\ NextMessage(r)
  /\ UNCHANGED <<vars, idempotency, writes, faults, lastRelay, published>>

(* Neither looks at the result of its store: the document may stay as it was. *)
MarkFault(r) ==
  /\ At(r, "markPublished") \/ At(r, "markFailed")
  /\ StoreFault
  /\ NextMessage(r)
  /\ UNCHANGED <<vars, outbox, idempotency, writes, lastRelay, published>>

(* The process dies with its relay calls and the in-memory queue; the      *)
(* database is an external one and survives.                               *)
Crash ==
  /\ Restart
  /\ relay' = [r \in Relays |-> Idle]
  /\ UNCHANGED <<outbox, idempotency, writes, faults, lastRelay, published>>

RunsOn(r) ==
  \/ CheckKey(r) \/ CheckKeyFault(r)
  \/ EnqueueAccepted(r) \/ EnqueueRefused(r) \/ EnqueueFault(r)
  \/ StoreKey(r) \/ StoreKeyFault(r)
  \/ MarkPublished(r) \/ MarkFailed(r) \/ MarkFault(r)

RelayStep(r) == Search(r) \/ RunsOn(r)

OutboxNext ==
  \/ \E m \in Messages : WriteOutboxMessage(m)
  \/ CronTick
  \/ \E r \in Relays : RelayStep(r)
  \/ Crash

OutboxSpec == OutboxInit /\ [][OutboxNext]_outboxVars

(* What the program itself schedules: the cron callback fires again and    *)
(* again, and a call that has begun runs on.  Nothing in the program calls *)
(* the relay with a tenant context.                                        *)
Scheduled == WF_outboxVars(CronTick) /\ \A r \in Relays : WF_outboxVars(RunsOn(r))
OutboxFairSpec == OutboxSpec /\ Scheduled

-----------------------------------------------------------------------------
RelayState ==
  [pc : {"idle", "check", "enqueue", "storeKey", "markPublished", "markFailed"},
   batch : SUBSET Snapshot, cur : Snapshot \cup {NoDoc}]

RelayTypeOK ==
  /\ relay \in [Relays -> RelayState]
  /\ \A r \in Relays : relay[r].pc \notin {"idle", "check"} => relay[r].cur \in Snapshot

OutboxTypeOK ==
  /\ outbox \in [Messages -> OutboxDoc \cup {NoDoc}]
  /\ idempotency \subseteq DedupIds
  /\ RelayTypeOK
  /\ writes \in Nat
  /\ faults \in [queue : Nat, store : Nat]
  /\ lastRelay \in {"none", "ok", "OUTBOX_READ_FAILED"}
  /\ published \in [Messages -> Nat]

Status(m, s) == Exists(m) /\ outbox[m].status = s

(* What deduplication in a process gives: however calls overlap and        *)
(* whatever fails, a message is accepted once between two restarts.        *)
PublishedOncePerProcess == \A m \in Messages : published[m] <= restarts + 1

(* What the records give: some message with the key of one marked          *)
(* PUBLISHED was accepted by the queue, crashes and faults or not.         *)
KeyWasEnqueued(key) == \E e \in Events : published[[event |-> e, key |-> key]] >= 1
PublishedKeyWasEnqueued ==
  \A m \in Messages : Status(m, "PUBLISHED") => KeyWasEnqueued(m.key)

(* DNA-8: the idempotency record is there before the status says           *)
(* PUBLISHED, while no store has failed.                                   *)
PublishedIsRecorded ==
  faults.store = 0 =>
    \A m \in Messages : Status(m, "PUBLISHED") => m.key \in idempotency

(* A message given up as FAILED was never accepted by the queue: so of one *)
(* call at a time (FailedOfOneCall), not of calls that overlap.            *)
FailedNeverPublished == \A m \in Messages : Status(m, "FAILED") => published[m] = 0

(* A final status is left only by writing the message anew: so of one call *)
(* at a time (FinalOfOneCall), not of calls that overlap.                  *)
FinalStaysFinalStep ==
  \A m \in Messages :
    Exists(m) /\ outbox[m].status # "PENDING" /\ outbox'[m] # outbox[m]
      => writes' = writes + 1
FinalStaysFinal == [][FinalStaysFinalStep]_outboxVars

(* Every message written to the outbox is published or given up: "Relay    *)
(* PENDING outbox messages every 30 seconds"                               *)
(* (outbox-scheduler.service.ts).                                          *)
PendingResolves ==
  \A m \in Messages : Status(m, "PENDING") ~> ~ Status(m, "PENDING")
=============================================================================
