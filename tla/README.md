# XIIGen engine: TLA+ specifications, model checking and proofs

This directory specifies the concurrent and stateful core of the XIIGen server
(`src/server/src`, TypeScript on NestJS) in TLA+, checks the specifications on small instances
with TLC and proves theorems about them, for every value of the constants, with TLAPS. The
server runs AI-planned work ("flows", "cycles") for many tenants in one Node process. Its own
core logic is the machinery below that: queues, outboxes, run orchestration, budgets, sagas,
allocation of identifiers and a registry of versions, over in-memory providers that all tenants
of a process share. Most of the repository's quarter of a million lines is not control but data
and presentation (contracts, prompts, business flows that store one document after another,
pages); section 8 says what was left out and why.

The concurrency is that of one JavaScript event loop. Code between two `await`s of a call that
really leaves the call is atomic; everything else interleaves. A method without such an await
is one action; a method with several is a small state machine (`pc`) whose steps other calls
interleave with. Calls between services happen in memory. What survives a crash is what was
written to the database fabric.

| File | What it is |
|---|---|
| `EventQueue.tla`, `EventQueueProofs.tla`, `MCEventQueue*.{tla,cfg}` | the queue fabric |
| `OutboxRelay.tla`, `OutboxRelayProofs.tla`, `MCOutboxRelay*.{tla,cfg}` | the engine's transactional outbox, composed with the queue |
| `FlowEngine.tla`, `FlowEngineProofs.tla`, `MCFlowEngine*.{tla,cfg}` | flow definitions and runs |
| `CycleChain.tla`, `CycleChainProofs.tla`, `MCCycleChain*.{tla,cfg}` | the cycle chain, its gate, its sub-flows |
| `Documents.tla` | the database fabric: plain stores and stores on condition of a sequence number |
| `Allocator.tla`, `AllocatorProofs.tla` | what the allocation of artifact boundaries promises, abstractly |
| `BoundaryResolver.tla`, `BoundaryResolverProofs.tla`, `MCBoundaryResolver*.{tla,cfg}` | the boundary resolver over `Documents`, which implements `Allocator` |
| `Sagas.tla`, `SagasProofs.tla`, `MCSagas*.{tla,cfg}` | durable sagas: orchestrator and compensation engine |
| `SchemaRegistry.tla`, `SchemaRegistryProofs.tla`, `MCSchemaRegistry*.{tla,cfg}` | the registry of schemas over `Documents` |
| `PROJECT.json` | components, runs, mutants, map to source lines, findings, hazards, theorems |

To run: `tlc -config MCEventQueue_shared.cfg MCEventQueue`, `tlapm EventQueueProofs.tla`, and so
on. In the modules an operator whose comment begins with `mutant` is a plausible bug in the
definition that follows it. No specification uses it; `PROJECT.json` says which property must
fail when it is put in place.

## 1. Inventory

Paths below are relative to `src/server/src`.

### Modelled

**Queue fabric** (`fabrics/queue/in-memory.provider.ts`). State: `queues`, `dlq`, `inFlight`,
`dedupSeen`, `receiveCounts`, all maps of one provider instance that every tenant shares
(`fabrics.module.ts:118` binds it). Operations: `enqueue`, `dequeue`, `acknowledge`, `sendToDlq`,
`clear`. Every method is synchronous inside, so atomic. The tenant comes from the call's context;
a queue is named `<tenant>_<event>`, and `resolveQueueName` keeps a name that already begins with
the tenant's prefix. Tenant ids are uuids, `tenant-<slug>` or whatever is passed to
`TenantRegistry.create`, so two tenants' names resolve to one queue only when ids contain `_`.
Hard: consumers of several tenants on one queue (a foreign message met by `dequeue` is put back
at the tail), deduplication across everything in the process, receipts that nobody acknowledges,
restarts. Correct when a message is in one place, is handed to and removed by its owner only, is
not lost short of a restart, is not accepted twice under one deduplication id, and arrives in
order.

**Engine outbox relay and scheduler** (`engine/outbox-relay.service.ts`,
`engine/outbox-scheduler.service.ts`). State: documents in the indices `xiigen-outbox` and
`xiigen-outbox-idempotency`, and the local copies each running call works on. Operations:
`writeOutboxMessage`, `relayPendingMessages` (search, then per message: look up the key, enqueue,
store the key, store the status), the cron callback. Interacts with the queue (`enqueue` with the
idempotency key as deduplication id). Hard: overlapping calls on copies of the same messages,
crashes between the enqueue, the record and the status, store and queue failures that are not
looked at, retry counts. Correct when a message is published once, never given up once
published, always resolved, and when a record precedes the status that relies on it (the
repository's rule "DNA-8, store before emit").

**Flow-engine fabric** (`fabrics/flow-engine/in-memory-flow-store.ts`,
`in-memory-orchestrator.ts`). State: versions per `tenant:flow`, run states per `run_id`.
Operations: `saveFlow`, `loadFlow`, `startFlow` (one await, between loading the definition and
creating the run), `executeNode`, `resumeFlow`, `cancelFlow`. Hard: callers walk the graph
themselves, so any order of calls is legal, by any tenant; saves and starts interleave. Correct
when a run is pinned to the version its start loaded, is driven by its tenant only, ends at an end,
pauses only with something to wait for, and does not leave a terminal state.

**Cycle chain** (`engine/cycle-chain.service.ts`, `engine/cycle-gate.service.ts`,
`engine/node-handlers/depth-decision.handler.ts`, `engine/expand-consumer.handler.ts`). State: the
spend tracker `accumulatedCostUsd`, one field of a singleton service; documents for sub-flow refs
and suspensions in `xiigen-run-state`; messages `cycle.chain.expand` and events
`cycle.chain.child.completed`. Operations: `run` (cycle 1 plans the intent into steps, cycle 2
turns a step into a node, cycle 3 decides leaf or expansion; each of the first two adds its cost and
asks the gate), expansion (store every ref, send a message for each, store a suspension, return),
`handleExpand` (mark the ref RUNNING, run the child, store its result, emit the event),
`resumeSuspendedStep`. Hard: calls of one or several families interleave at every await and share
the tracker; depth is handed on through messages; nothing looks at the results of stores and
sends. Correct when depth and spend are bounded, refs are stored before their messages go out
and are resolved, run ids are unique, and suspended work is resumed.

**Database fabric** (`fabrics/database/in-memory.provider.ts`). State: documents by index and id,
each with a sequence number kept inside the document. Operations used by what follows:
`storeDocument` (replaces the document, and with it the number), `storeDocumentWithOCC` (stores if
the number is the one given, a missing document counting as 0), `getDocumentWithVersion`. Each is
atomic. Hard: a plain store by one caller between the read and the conditional store of another.

**Boundary resolver** (`engine/boundaries/boundary-resolver.handler.ts`). State: one document with
three counters, the next free factory, task-type and rule identifier. Operation:
`resolveNextBoundaries` reads it with its version, takes a range from each counter, writes back on
condition of the version; after a conflict it waits and reads again, `MAX_RETRIES` times in all.
Hard: any number of calls between one call's read and its write, a write that fails, the last
attempt. Correct when no identifier is handed out twice or skipped, a conflict is reported only
under contention, and every call returns.

**Durable sagas** (`engine/flows/durable-sagas-compliance/saga-orchestrator.service.ts`,
`compensation-engine.service.ts`). State: the saga's document (created with a version pin, one call
wins), step and compensation locks, the compensation registry, checkpoints, events. Operations:
`execute` (per step: lock, register the compensation, run, checkpoint, announce, release) and
`compensate` (the stack from its end; per step: lock, undo, record, announce, release). Hard: events
delivered twice, so calls of either overlap; calls that die and leave their locks; stores and sends
that fail unnoticed. Correct when each step runs once and in order with a compensation registered,
a completed saga ran every step, what is announced is stored, nothing runs after a failure, one call
at a time undoes a step, and a saga settles.

**Schema registry** (`engine/flows/schema-registry-dag/`: registration gateway, version manager,
approval workflow, publisher, deprecation manager). State: one document per version with its status,
idempotency keys, events. Operations: `register` classifies a schema against the previous one and
routes it, `processApproval` decides on a breaking change and records a token, `publish` stores a
version as ACTIVE and supersedes whatever else is ACTIVE, `deprecate` retires one. Hard: all of them
overlap at their awaits, on documents read earlier, with events delivered more than once. Correct
when one version is ACTIVE once publications are through, a breaking change got in through an
approval, and no publication silently replaces another's schema.

## 2. How the parts interact

```
 HTTP / cron ──> CycleChain.run ──refs, suspensions──> database fabric (xiigen-run-state)
                    │  └─ one message per sub-flow ──> queue (cycle.chain.expand)
                    │                                        │ handleExpand
                    └──────────── child run <────────────────┘
 services ──writeOutboxMessage──> xiigen-outbox ──relayPendingMessages──> queue.enqueue
 callers  ──saveFlow / startFlow / executeNode / resumeFlow / cancelFlow──> flow store, orchestrator
 consumers ──dequeue / acknowledge / sendToDlq──> queue
 generators ──resolveNextBoundaries──> one document of counters (conditional store)
 SagaExecutionRequested ─> execute ──SagaFailed──> compensate      (locks, registry, database)
 register ─SchemaApprovalRequired─> processApproval ─SchemaApprovalGranted─> publish
     └────────────────────────SchemaQueued─────────────────────────────────────┘   deprecate
```

`OutboxRelay` EXTENDS `EventQueue` and uses the queue's own `Enqueue`, `EnqueueDuplicate` and
`Restart` actions, so it is the composition of the two components over the queue's variables.
`QueueUnderRelay` proves that each of its behaviours is one of `EventQueue!Spec`. `CycleChain`
does not build on `EventQueue`: its consumer is the subscription to `cycle.chain.expand`, and it
models that queue as a set of messages in any order, which allows every order the real queue
may deliver in. A redelivery of a message that was received is not modelled, because the bound
provider never redelivers.

`Documents` holds the database's operations and no actions: `BoundaryResolver` and `SchemaRegistry`
EXTEND it and make its calls steps of theirs. Three modules are abstract specifications with no code
of their own, each instantiated with a refinement mapping by the module that implements it:
`Allocator` by `BoundaryResolver` (`Promise`), `FifoQueues` by `EventQueue` (`Fifo`), `SagaPromise` by
`Sagas` (`Promise`). `Sagas` and
`SchemaRegistry` keep events as a set from which a consumer may take one any number of times: the
flows' contracts speak of replays and retries, and their services carry locks and idempotency keys
for them. In `Sagas` the lock service, the registry and the saga repository are interfaces without an
implementation in the repository; they are modelled as the orchestrator's comments and calls use
them: set if absent, and a conditional create.

What a repository search says about the program around these parts, and the models rely on:
no code outside tests calls `dequeue`, `waitFor`, `sendToDlq`, `writeOutboxMessage` or
`handleExpand`, and nothing consumes `cycle.chain.child.completed` or `cycle.chain.suspended`.
The models of the queue and of the consumer are thus of what the classes do for the callers
they are written for. `relayPendingMessages` is called by the cron alone.

## 3. The modules and the code

### EventQueue

| TLA+ | Code |
|---|---|
| `queues`, `dlq`, `inFlight`, `dedupSeen`, `receiveCounts` | the provider's fields of those names |
| `nextId` | `randomUUID()`: message ids are fresh; numbers also give the order of acceptance |
| `reply` | what the last call returned, to whom: the properties about callers need it |
| a name as a sequence of segments | the string, cut at each `_`; `resolveQueueName` tells no more apart |
| `Enqueue`, `EnqueueDuplicate`, `EnqueueInvalid`, `CallWithoutTenant` | `enqueue` and its early returns |
| `Dequeue` | the whole loop: `StopsAfter` says how many messages it takes, `HandedOut` which of them are returned, the rest exceeded their receive count and go to `dlq`; `AfterTaking` puts the foreign message at the tail |
| `Acknowledge`, `AcknowledgeForeign`, `AcknowledgeUnknown` | `acknowledge` |
| `SendToDlq` | `sendToDlq` with a message the caller has received |
| `Restart` | a new process (and `clear()`) |

`FifoQueues` is the promise to a tenant whose queue nobody else's names resolve to: accept at the end,
hand out any number from the head, finish what was received, lose all in a restart; nothing is handed
out twice and nothing vanishes. Under the mapping `Fifo` its `waiting` are those queues, `received` the
messages of their receipts, `newest` the last id drawn; what happens on shared queues is a stutter
or `AcceptElsewhere`.

Left out: payloads, timestamps, attributes; reads (`waitFor`, `getDlqMessages`,
`getQueueDepth`); the test helpers `clearDedupCache` and `setMaxReceiveCount`. `MaxReceiveCount`
is a constant. A dead-letter queue is a set, its order has no reader.

### OutboxRelay

Each call `r` of `relayPendingMessages` has `relay[r]`: where it is (`pc`), what is left of its
batch and its current message, both as copies made when it searched. `Search` is the query with
its batch size, any subset of that size. `CheckKey`, `EnqueueAccepted` / `EnqueueRefused` /
`EnqueueFault`, `StoreKey`, `MarkPublished` / `MarkFailed` are one per message, in the code's
order; the `*Fault` variants are the same calls when the database fails, whose result the code
does not look at. `MarkPublished` and `MarkFailed` write the copy over the document, whatever it
has become. `CronTick` is the cron callback as the program makes it: it has no tenant context, so
its search fails. A call by somebody with a tenant context (`Search`) is what the service's interface
allows and the safety properties are about; nothing in the source makes one. `RunsOn` is what a call
does after its search. `Crash` ends the calls and the in-memory queue, and keeps the documents.
`published` is a history variable.

### FlowEngine

`flows` is the store's map from `tenant:flow` to versions; `starting[c]` a `startFlow` that waits
for its definition; `runs` the run states with, for each, a copy of its definition. Graphs are
records of node types and edges. Every method that refuses is `Refused`, or `StartNotFound`
and `StartEmpty`. `executeNode` looks at neither the node's status nor its predecessors, and
`ExecuteNode` does not either. `NODE running` is set and replaced within one synchronous method
and is not observable. Results of nodes, timestamps and counters are left out.

### CycleChain

A call of `run` is named after what it was made for: a root, or a ref id. `calls[c]` has its `pc`:
`plan` (cycle 1), `step` and `depth` (cycles 2 and 3 of the next step; `left` counts the steps),
`storeRefs`, `emit`, `suspend` (an expansion, with the lists still to store and to send),
`storeResult`, `emitCompleted` (the end of `handleExpand`, for a sub-flow's call). `accumulated` is
the shared tracker and `familySpend` a history variable that counts per family.

The code's run id, `${parentRunId}-d${depth}-${name}` with the name's white space as hyphens, is one
string. A model's run id is the sequence of the pieces between its hyphens (`ChildRun`): `Slug` gives
the pieces of a name, a piece that looks like a depth is a number. Two names may have the same pieces,
and a name with a number in it may pass for a parent and its child, as in the code. A root's id, a
`randomUUID()`, is one piece: no other id begins with it by chance.

`Throw` is an exception of the code itself: a plan or a decomposition of the AI that is no array
(`engine/cycle-chain.service.ts:315`, `:688`, `engine/node-handlers/depth-decision.handler.ts:171`), or
a sub-flow in it that is null (`:696`). It ends the run; the catch of `handleExpand`
(`engine/expand-consumer.handler.ts:194`) stores nothing, so the run's own ref stays RUNNING and the
refs it has not sent stay as they are. A sub-flow without a name is stored and sent, and the consumer
throws at its id before it stores anything (`DeliverNameless`): its ref stays PENDING. The history
variable `lost` holds the refs given up in these ways.

What the AI answers (a plan, a rejection, missing context, leaf or decomposition, cost) is a choice.
Left out: RAG retrieval, history, traces, the topology publisher, `cycle.chain.suspended` events, the
convergence that a resume runs before it writes its status. Spend limit and termination depth are
constants: a run's depth always starts at 1 here, as for the HTTP controller. The calibration runner
starts at 0 (`engine/calibration/calibration-runner.service.ts:158`), which never resets the tracker;
that is not modelled. Nor is a crash: nothing reads RUNNING refs back after one.

### Documents, Allocator and BoundaryResolver

`db[id]` is a document, its body and its number, or `NoDoc`. `StoreDocument` takes a whole document:
a body built afresh has number 0 (`Fresh`), one spread from a copy keeps the number it was read with.
`StoreDocumentWithOCC` and `Conflict` are the conditional store. Left out: deletion, bulk stores,
counts; searches are modelled in the module that makes them.

| TLA+ | Code |
|---|---|
| `call[c]` | where a call of `resolveNextBoundaries` is, its loop counter, the copy it read |
| `Request`, `ReadVersion`, `ReadMissing` | the call, `getDocumentWithVersion` and its early return |
| `Write`, `Updated` | `allocateRange` for each counter and the conditional store |
| `Retry`, `GiveUp`, `LastAttempt` | a conflict before and at the last of `MAX_RETRIES` attempts |
| `WriteFault` | any other failure of the store, returned at once |

Nothing in the source creates the document, so `Init` has it or not. The back-off delay is left out:
time passes between any two steps. Identifiers are numbers; their formatting has no reader here.

### Sagas

`exec[e]` and `comp[c]` are calls of `execute` and `compensate`; each `pc` is an await of the code
("ORDER 1" to "ORDER 6" in its comments). `saga` is the document the version pin creates; `registry`,
`locks` the services of those names; `docs`, `events` what was stored and sent; `runs`, `undos`
history. `bad` is the step without a name, whose body fails. A compensation is asked for with the
first `k` steps as its stack, any `k`: `SagaFailed` carries no stack, so the engine on its own
undoes nothing (see below), and an operator may list what ran. An undo fails when nothing is
registered, and may fail at any step, for its entry in the stack may lack a strategy
(`COMP_INVALID`). `Die` ends a call at any await and
leaves what it stored and locked. `Store` and `Emit` may fail; the code does not look.

`SagaPromise` knows none of that: a saga begins, runs its steps one after the other, ends once, as
completed after all or as failed before, and is undone only once failed and only where it got to.
Under the mapping `Promise`, `begun` is that the saga's document exists and `ends` which of
`SagaCompleted` and `SagaFailed` was sent; `runs` and `undos` are the same. It is not promised that a
step is undone at most once: two compensations may undo it one after the other.

### SchemaRegistry

| TLA+ | Code |
|---|---|
| `db`, `oldest` | one document per version; the one a search returns first |
| `keys` | the idempotency index: request, workflow and token keys |
| `Register` .. `AnnounceRequest`, `Change`, `NextVersion`, `Route` | `register`, `classify`, `bumpVersion` |
| `ApprovalRequired` .. `NotApproved` | `processApproval`, with the approver's decision a choice |
| `Publish`, `CheckToken`, `Blocked`, `ReadVersion`, `StoreNew`, `StoreOver`, `PublishConflict`, `FindActive`, `Supersede`, `AnnouncePublished` | `publish` at its awaits |
| `Deprecate`, `StoreDeprecated` | `deprecate`: a read and a store of the copy |

Schemas are model values with a relation `Breaks`, and `Declared` gives the version each counts from:
`classify` is handed the previous JSON schema and reads that schema's own `version` key, which its
author may have put there, or `1.0.0` (`schema-version-manager.service.ts:58`). So the version after one
that declares `2.0.0` is `2.1.0` or `3.0.0`, whatever number the registry has it under; a piece that
is no number gives `NaN`. `Versions` is all that can be computed from the schemas of an instance. A
search that fails counts as one that finds nothing, and a read that fails as one of a new version, as
in the code. One schema type of one tenant: types share no document. Audit documents, quality scores and
the readers of the catalogue are left out; the cycle detector's verdict is a choice.

## 4. What the runs check

Every passing run has, for each of its properties, a mutant in `PROJECT.json`: a plausible bug of
the code with which TLC finds that property violated under the run's own configuration.

| Run | Instance | Checks | Result |
|---|---|---|---|
| `queue_shared` | two tenants whose names resolve to one shared queue and to queues of their own, 2 messages, batches of 2, one restart, an entry in a DLQ | `TypeOK`, `OnePlace`, `DedupUnique`, `OwnerOnly`, `NothingDropped`, `ImplementsFifo`, `EventuallyReceived` | hold (27,476 states) |
| `outbox_overlap` | two overlapping calls, batches of 2, two event types that share a key, 2 writes, a crash, a queue fault, a store fault | `OutboxTypeOK`, `PublishedOncePerProcess`, `PublishedKeyWasEnqueued`, `PublishedIsRecorded` | hold (1,119,449) |
| `outbox_cron` | one message, no failure, the cron callback as often as it fires | `PendingResolves` | violated: the callback relays nothing |
| `flow_runs` | two tenants with one flow name, two overlapping starts, three graphs (a fork with an approval, a loop through its end node with a dangling edge, an empty one), 2 versions, a run | `TypeOK`, `RunsOwnVersion`, `PausedIsWaiting`, `CompletedReachedEnd`, `CancelledLeavesNothing`, `OnlyOwnerMoves` | hold (971,498) |
| `flow_terminal` | the same, one version | `TerminalStaysTerminal` | violated: a resume revives a cancelled or completed run |
| `cycle_chain` | one family, plans of up to 1 step, expansions into 1 or 2 sub-flows of which one's name begins like the other's, depth 3, 4 sub-flows, a limit of 9, exceptions | `TypeOK`, `StoredBeforeEmitted`, `WithinDepth`, `RunIdsUnique`, `TrackerIsFamilySpend`, `StopsAtLimit` | hold (527,303) |
| `cycle_live` | plans of up to 2 steps, expansions into 2 sub-flows of which one may have no name, depth 2, a limit of 5, exceptions and one failure | `RefsAttended`, `RefsResolve` | hold (230,801) |
| `boundaries` | 4 calls of two kinds, 3 counters, 3 attempts, one failing write, the document there or not | `TypeOK`, `NoIdentifierTwice`, `ConflictMeansContention`, `ImplementsAllocator`, `EveryCallReturns` | hold (186,706) |
| `sagas` | 3 steps, any of which may fail, 2 executions, 2 compensations of any stack whose undos may fail, one failing store or send, one death | `RunOnceInOrder`, `CompletedRanAll`, `AnnouncedIsStored`, `UndoLocks`, `ImplementsPromise`, `SagaSettles` | hold (644,816) |
| `saga_restart` | the same without failing stores | `CompensatedUndidAll` | violated: a lock left by a dead compensation counts as an undone step |
| `schemas` | 2 schemas, one breaks the other, which declares version 2.0.0, 2 keys, 2 registrations, 2 approvals, 3 publications, a deprecation, one failing store, search or read | `OneActive`, `BreakingWasApproved` | hold (694,549) |
| `schema_overwrite` | fewer calls, no failure | `NoSilentOverwrite` | violated: two publications that both found nothing overwrite each other |

The violations are disagreements between the code and what its comments or tests say of it;
`findings` quotes the lines. The type invariants of `Sagas` and `SchemaRegistry` are not in a run of
their own: they are proved. `NoIdentifierSkipped`, `FifoOnScopedQueues` and `NothingRunsAfterFailure`
are proved as well and follow, in the runs, from `ImplementsAllocator`, `ImplementsFifo` and
`ImplementsPromise`.

### What else the models showed

Established while modelling, with TLC, and not kept as runs of their own:

* **Queue.** An unacknowledged message is never returned to its queue, so the limit on receives
  ("DLQ after max receives", `fabrics/queue/in-memory.provider.ts:11`) is never reached: a
  dequeue counts (`:155`) and puts the message in flight (`:171`), where no dequeue finds it again.
* **Outbox, overlapping calls.** The queue's refusal of a duplicate counts as a failed enqueue
  (`engine/outbox-relay.service.ts:111`), so a message that one call published another marks FAILED
  in the end, although "idempotency keys prevent double-publishing" (`:57`): the second publication
  is prevented, the status is wrong. `FailedNeverPublished` and `FinalStaysFinal`, that a final status
  is left only by a new write, are proved for one call at a time.
* **Cycle chain, run ids.** `RunIdsUnique` has two hypotheses, and without either it fails. Sub-flows
  "send mail" and "send-mail" of one run have one id (`engine/expand-consumer.handler.ts:82`), and so
  have a sub-flow "a-d3-b" of a run at depth 1 and the sub-flow "b" of its sub-flow "a".
* **Cycle chain, spend.** A second top-level run resets the tracker that the first still adds to
  (`engine/cycle-chain.service.ts:247`; "reset per top-level run", `:206`): each of two
  families may pass the limit. `StopsAtLimit` is about one family per process.
* **Cycle chain, resumption.** An expansion is suspended until its sub-flows have told of their end
  (`:752`), and nothing listens to them.
* **Schema registry.** The search for the ACTIVE version filters on `activeUntil: null`
  (`schema-registration-gateway.service.ts:151`); empty criteria are dropped
  (`kernel/build-search-filter.ts:65`), so the schema is compared with the version stored first. Two
  publications in their loops at once supersede each other, after which no version is ACTIVE.
  `deprecate` stores the copy it read, over whatever the document has become.
* **Schema registry, versions.** The rule IR-T190-3 of the version manager, "Version bump: BREAKING →
  major bump; ADDITIVE → minor bump; NEVER from payload" (`schema-version-manager.service.ts:8`), is
  not what line 58 does: it counts from a key of the previous payload, which the registry's own number
  may lie above or below, and a word there gives `NaN.0.0`. When the search for the previous
  version fails, the schema counts as the first one: ADDITIVE, `1.0.0`, whatever it breaks
  (`schema-registration-gateway.service.ts:156`).
* **Sagas.** `SagaFailed` carries no stack, so the engine that consumes it announces a completed
  compensation of 0 steps (`compensation-engine.service.ts:104-110`). A failed compensation keeps its
  lock. The saga's document stays RUNNING after a crash, and no later request can take it up.
* **Sagas, store before send.** "storeDocument BEFORE enqueue on every transition (DNA-8)"
  (`engine-contracts/durable-sagas-compliance-contracts.ts:167`) is kept by four of the announcements,
  which `AnnouncedIsStored` names. `SagaFailed` (`saga-orchestrator.service.ts:183`),
  `CompensationFailed` (`compensation-engine.service.ts:151`) and the `CompensationCompleted` of an
  empty stack (`:112`) go out with nothing stored.
* **Topology store** (`engine/tenant-topology-store.ts`, read, not modelled). A forked draft should be
  "the teach/QA starting point — iterate as DRAFT, then promoteDraft" (`:350`), but `selectLatest`
  (`:259`) prefers the PUBLISHED version, so edit and promotion of the fork are refused; the test
  that names the cycle in its title ends before the promotion. "PUBLISHED are IMMUTABLE" (`:91`)
  does not hold for a second overlapping promotion (`:344`) nor for a save over HTTP.

### Bounds and why they are enough

* **Queue.** Two tenants are what sharing needs; `acme` / `acme_eu` with `eu_paid` / `paid` is the
  least collision of names. Two messages of different owners give every order at a shared head;
  one restart lets an id be remembered, forgotten and used again. The receive count cannot pass 1
  (nothing is redelivered), so the limit of 3 is never reached: the branch to the DLQ is in the
  model, and `NeverGivesUp` proves it dead for every limit but 0.
* **Outbox.** Two calls are needed to overlap; `MAX_RETRIES = 3` is the code's. More calls,
  messages and faults are the theorems' part: they cover every property of `outbox_overlap`. Two
  event types with one key are needed for `PublishedKeyWasEnqueued` not to be `published[m] >= 1`,
  which is false: the queue's deduplication takes the second event for the first's. A crash and a
  fault of each kind reach every place between two steps.
* **Flow engine.** A second version and a second start are needed to load one version and find
  another saved; the graphs have each node type, a fork, a node that no edge leaves, an `end`
  that an edge leaves, an edge to no node, and no node at all. Runs do not interact, so one run
  is enough; the theorems are about any number.
* **Cycle chain.** Four sub-flow refs are a parent with two children one of which expands into two
  again, or a chain down to the last level; one step is enough for a run to expand, and `cycle_live`
  has plans of two, with something before an expansion and something it drops.
  The limits are reached in both runs. `MaxRefs` is in the guard of `Expand`, so a call at
  the bound can still end (`Leaf`): no liveness depends on it. Names of one and of two pieces of the
  same kind let an id be the beginning of another without being equal to it.
* **Boundary resolver.** One call more than `MAX_RETRIES` (the code's 3) is what it takes for a call to
  lose every attempt; the two wants ask for nothing of one counter each and for ranges of 1 and 2.
* **Sagas.** Three steps have a first, a middle and a last; two calls of each kind overlap; one death
  at any await of any of them, and one failing store or send anywhere.
* **Schema registry.** After the schema that declares 2.0.0 the other one is BREAKING, as 3.0.0, or it
  comes first and the declaring one is ADDITIVE, as 1.1.0; either may follow itself. Three
  publications let two overlap over what a third stored; the deprecation's copy may be older than any of
  them. Calls and keys are interchangeable, schemas are not, and the symmetry is of the former; the
  run has no liveness property.

In every module a constant named `Max...` that the code does not have is a bound of the model and
only cuts behaviours short.

`CHECK_DEADLOCK FALSE` is set for the cycle chain, the resolver, the sagas and the registry: their
calls are a given set, and once all have returned the system stops until someone calls again.

### Fairness

* `EventQueue!FairSpec`: each tenant polls each of its queues over and over (`WF` on `Poll`), which
  is what a subscribed consumer does. Nobody has to acknowledge. `EventuallyReceived` is about
  queues of one tenant; on a shared queue two pollers can put each other's message back for ever.
* `OutboxFairSpec`: a relay call that searched goes on, and the cron callback keeps firing (`WF` on
  `RunsOn` and `CronTick`). That is all the program schedules: nobody with a tenant context has to call,
  for nothing in the source does. `outbox_cron` shows that it is not enough for `PendingResolves`.
* `CycleChain!FairSpec`: a call goes on (an await returns, with a result or a failure), and the
  queue delivers what waits. `RefsResolve` excuses runs in which a store or a send failed, and the
  refs an exception gave up (`lost`), not those of their siblings.
* `BoundaryResolver!FairSpec` and `Sagas!FairSpec`: a call that was made goes on (`WF` on each call's
  steps): the event loop runs the continuation of an await that has settled. Nobody has to call, no
  event has to be delivered, no call has to die. `EveryCallReturns` needs no fairness between calls: a
  call gives up after its attempts. `SagaSettles` excuses runs in which a call died or a store failed.
* No fairness is assumed of users, plans or faults. `FlowEngine` and `SchemaRegistry` have none at
  all: their callers drive them.

## 5. What is proved

`tlapm` checks every step of every proof; the eight proof modules have more than 10,000 obligations
and assume only the named assumptions on the constants (in the modules that declare them), which TLC
evaluates in the runs, and the hypotheses named here. `PROJECT.json` lists the theorems. Together they
state every invariant and every action property of the passing runs, and the three refinements, for
all values of the constants, some under a hypothesis that a violation or an observation above shows
to be needed: one relay call at a time (`FinalOfOneCall`; `FailedOfOneCall` also without crashes and
failing stores), one family (`TrackerOfOneFamily`, `LimitOfOneFamily`); `RunIdsUnique` holds its own
hypotheses, names whose pieces are no depths and tell them apart. `Implements` of the queue and `NeverGivesUp` take
`MaxReceiveCount # 0`: with a limit of 0 every dequeue would dead-letter.

Fairness is out of the provers' reach, but what a liveness property needs besides it is safety, and
that is proved: that whatever is still to be done has somebody to do it, and that each step of a
call brings it nearer to its end while no other step moves it away (a rank, a natural number that only
falls). Left to TLC is that fair steps then happen.

| Liveness property | Safety proved of it |
|---|---|
| `EventuallyReceived` | `PollsReach`: on a queue of one tenant nothing moves a message back, and a poll moves it up or hands it out |
| `EveryCallReturns` | `CallsRunDown` (BoundaryResolver): at most `2 * MAX_RETRIES + 1` steps of its own, however the others interfere |
| `SagaSettles` | `NeverAbandoned`: a RUNNING saga that no fault or death disturbed has ended or has a call at work; `CallsRunDown` (Sagas) |
| `RefsResolve` | `SubFlowsAttended`: while nothing has failed a PENDING ref is in the queue or in its maker's list, a RUNNING one is being run, but for those an exception gave up; `CallsRunDown` (CycleChain) |

Of the four properties the runs violate, three have a counterpart that is proved and says where
the line runs: `SettledForGood` and `TerminalWithoutApprovals` (a terminal run is revived through a
waiting approval and in no other way), `CompletedUndid` (a completed compensation skips a
step only where another call holds it, which is at it, failed at it or died at it), and for
`PendingResolves` that what a relay call takes up does end: `CallsRunDown` (OutboxRelay), also of calls that
overlap or crash, and `TriesRunOut` (with one call at a time each rewrite of a message ends it or
adds to its count, which stops at `MAX_RETRIES`). What is missing is a caller.

**EventQueueProofs.** `IInv` is `TypeOK`, `OnePlace`, `DedupUnique` and two facts that make them
inductive: live messages are numbered below `nextId` (`IdsAllotted`) and their deduplication ids are
remembered, none of the drawn ones from the future (`DedupRemembered`). Without the first a new
message could repeat an id, without the second an accepted id could be one in a queue. The work
is in `dequeue`: `AfterTakingMoves` says that the queue left behind holds, at positions of its own,
the messages after those taken, perhaps rotated by one. From `IInv` follow `TypeCorrect`,
`DeliveredOnce`, `Deduplicated`, and the action properties `OnlyOwners` (which needs that a queue's
loop takes only the caller's messages) and `NothingLost`. `ReceivedInOrder` adds `Routed` (a message
waits where its own tenant's name resolves to) and `InOrder` (ids increase along a queue no other
tenant shares): there the loop never meets a foreign message, so it never rotates the queue, and
what it hands out is a prefix. `ReceiptInv` says that what waits was never received and no count
passes one (`ReceivedAtMostOnce`): the count dequeue compares with its limit is always zero, so it
never gives up on a message (`NeverGivesUp`) and hands out all it takes. With that and `InOrder`
every step is one of `FifoQueues` or a stutter (`Implements`), and a message's place in its queue
only falls (`PollsReach`).

**OutboxRelayProofs.** `OutboxTypeCorrect`; `QueueUnderRelay`: `OutboxSpec => Spec`, the refinement
of the queue's specification, step by step or by stuttering, so the queue's theorems hold under the
relay. `OncePerProcess` rests on `OncePerMemory`: a message is accepted as often as the process has
restarted, and once more only if the queue now remembers its key, hence the bound `restarts + 1`.
`RecordInv` carries the other two: a call at `markPublished` has its key recorded (or a store has
failed), every recorded key was enqueued, and a call at `storeKey` has enqueued. For `Relays = {r}`,
`HandPending` says that the message the call holds and those left of its batch are still PENDING as it
read them, which gives `FinalOfOneCall`. If also no store of the loop fails and no process dies,
`UnpublishedInv` holds (an accepted message has its key recorded or is about to; a call about to
enqueue or to give up holds a message never accepted), and with it `FailedOfOneCall`. `TriesInv` bounds
the counts of documents and of the copies calls hold and makes batches finite, so that the size of a
batch is part of a call's rank; `NotBehind`, for one call, keeps its copies level with their documents.

**FlowEngineProofs.** `RunInv` describes one run record: nodes that wait are approvals, a paused run
has a waiting node, a completed run has completed a node that ends its flow, a cancelled run has
nothing pending. That only approvals wait is what keeps a paused run's waiting node when other nodes
are executed. With it `StoredOwned` (a stored version belongs to the tenant of its key) and
`RunsOwnVersion` are inductive. `TypeCorrect`, `VersionPinned`, `PausedResumable`, `CompletedAtEnd`,
`CancelledIsStill` and `OwnersMove` follow. A terminal run that no approval waits in changes no more
(`SettledForGood`): `executeNode` and `cancelFlow` refuse it, and `resumeFlow` needs a waiting node.

**CycleChainProofs.** `CallOK` describes one call: its run is in `Runs` and within the depth, its lists
hold sub-flows within the depth, a call that stores or sends has something to, a call that ends a
sub-flow was made for a ref. With it the queue holds only such messages (`GoodMsgs`), which is why a
delivered run is within the depth and never resets the tracker. From that `TypeCorrect` and
`DepthBounded` for any number of families. `TrackInv`, for `Roots = {r}`: tracker and history agree, and
nothing runs or waits before the start, the one step that resets. `TrackerOfOneFamily` and
`LimitOfOneFamily` follow.
`StoreFirst` (store before emit): `StoredBeforeEmitted` alone is not inductive, for a
call could store PENDING over the RUNNING of a sub-flow under way, or a result over another's
PENDING. `Owned` excludes it: a ref id has one owner at a time, the list of the call that made it,
then the queue, then the call of its sub-flow, then `completed`, and ids above `lastRef` have none.
`StoredOK` adds that, while nothing has failed, a listed ref that is no longer to be stored is stored
as PENDING, and a call about to tell of its end has its result stored.
`RunIdsOfSubFlows`: a ref claims a run id from the moment it is listed (`Claim`), a run id is open while
a call for it waits or may still expand (`Open`). `ClaimInv`: no run id has two claims, and no claim
is an open run id continued by a depth (`PrefixesClosed`), so a run that expands makes ids nobody
has. Pieces that look like depths would make such continuations of names, and names of the same pieces
would give one id twice: hence the two hypotheses. An exception only takes claims and open ids away.
`SubFlowsAttended` rests on `Owned` as well: a ref's owner is handed on from list to queue to call, or
the ref is `lost`; a call's rank counts its steps still to plan, then its lists.

**AllocatorProofs, BoundaryResolverProofs.** For the allocator, that every identifier given is below
the counter (`Below`) makes `Disjoint` and `NoGap` inductive. The resolver's invariant: a copy whose
sequence number is the document's is the document (`CopiesAreOld`), the number counts the granted
calls (`SeqCountsGrants`), each failed attempt was passed by another call's grant
(`AttemptsWerePassed`). `ConflictIsContention` follows from the last two; `Implements`, the refinement
of `Allocator` under the mapping of `BoundaryResolver`, from the first: the conditional store is the
abstract grant. `AllocatedOnce` and `AllocatedInOrder` are the allocator's theorems carried over.

**SagasProofs.** `OneOwner`: one execution at most is past the version pin. `Sound` says from where
that call is which steps ran, are registered and locked; `FailedIsOver` and `UndoneAfterFailure` that
a failure is announced last and compensations start after it; `UndoCounted` ties a compensation's count
to its place in the stack; `UndoLocks` is inductive with them. `RanOnceInOrder`, `CompletionIsTrue`,
`UndoExclusive` and `FailureIsFinal` follow. `StoredBeforeAnnounced` has an invariant of its own: while
nothing has failed, a call about to make one of the four announcements has stored what it says. `Implements`, the
refinement of `SagaPromise`, adds `ReachInv`: only steps the execution got to are registered, and a
failed saga did not run all of them, so an undo is one that the promise allows. `UndidInv` carries
`CompletedUndid` (a step a compensation has passed was undone or has another holder), `SettleInv`
`NeverAbandoned`.

**SchemaRegistryProofs.** Each part of the invariant describes what one place may hold: documents
(`DbGood`), events, registrations, workflows, publications, deprecations; a copy somebody still holds
is as good as a document, for it may be stored again. Versions are members of `Versions`, and nothing
is assumed of which they are. What says BREAKING rests on a granted workflow with a recorded token,
whatever its version: `BreakingIsApproved`. `Covered`, while no call of the database has failed: of
two ACTIVE versions one was published by a publication that has the other still to supersede. It is
what `OneActive` becomes when publications are under way, and gives `OneVersionActive`.

Only model-checked: the liveness properties (`EventuallyReceived`, `RefsResolve`, `EveryCallReturns`,
`SagaSettles`): liveness under fairness, which is about `ENABLED`, is beyond the
provers used; of each, the safety in the table above is proved.

## 6. Hazards

`PROJECT.json` lists them at their lines with the properties that cover them. Without a property:

* what the code gives no behaviour to state a property of: an expansion nothing resumes, a crash while
  a sub-flow runs (its ref stays RUNNING and nothing reads it back), a message nobody acknowledges, a
  suspended sub-flow stored as COMPLETE (only `childStatus`, which has no reader, tells them apart);
* the calibration runner's depth 0, which the cycle chain's model does not start at;
* the registration's comparison with the first-stored version, which the model contains as it is;
* the outbox status written from a stale copy, which overlapping calls do overwrite; the theorem
  `FinalOfOneCall` says that one call at a time does not;
* those of components that are not modelled, each with its reason.

## 7. Coverage

The modelled components are the ones whose state several calls share across awaits, for which an
order of steps matters that no test writes down. Every operation of them that changes state is an
action, except in the cycle chain (retrieval, history, traces and the publisher of topologies are left
out, and families start at depth 1) and the database (operations no modelled service calls).

## 8. Not modelled

| Part | Why |
|---|---|
| Contracts (`engine-contracts`), prompts, fixtures, seed and generated data | tables of constants: most of the source by lines, without control |
| Other business flows (`engine/flows/*`) | services that validate, store one document and send one event; the two with shared state across awaits, durable sagas and the schema registry, are modelled |
| Client (`src/client`) | presentation over the HTTP API |
| HTTP API, bootstrap, station pipeline, topology publisher | hand requests on; run once in order before requests are served; a straight line of AI calls; a detached data mapping |
| Flow lifecycle manager | one status document whose value nothing modelled reads: a transition reads it, then stores status and history |
| Fabric outbox EP-5 and its worker | nothing in the source starts the worker; `OutboxRelay` models the outbox that runs |
| Idempotency keys, tenant quota | one synchronous map access per operation, against windows of wall-clock time |
| Scheduler fabric, outcome timeout | timers of the runtime; nothing in the source writes the status the timeout could overwrite |
| Shadow runs, freedom configuration | a counter only a report reads; one database call and one map entry per write |
| Arbitration, convergence | bounded loops whose stop criteria compare scores an AI gives; with those open little is left to check |
| Compensation chains | steps and compensations within one call, nothing stored; the durable form is modelled in `Sagas` |
| Tenant topology store | reached over HTTP for saves and edits, by tests only for promotion and forks; section 4 says what reading it showed |
| Gig acceptance lock | a lock taken by a search and a store and never released; two requests may both find it free |
| Schema catalogue readers, dependency graph | change no state the registry's services read; the cycle detector's verdict is a choice in the model |
| `pgFirstSequential` | nothing calls it |
| SQS provider, queue manager, DLQ handler | adapters and set-up calls for an external service no module binds |
| Publication with rollback, durable timers, deferral queue | interfaces with no implementation |
