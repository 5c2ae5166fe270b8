----------------------------- MODULE CycleChain -----------------------------
(***************************************************************************)
(* The cycle chain of the engine (cycle-chain.service.ts) with its gate    *)
(* (cycle-gate.service.ts), its depth decision (depth-decision.handler.ts) *)
(* and the consumer of its sub-flows (expand-consumer.handler.ts), all in  *)
(* src/server/src/engine.                                                  *)
(*                                                                         *)
(* A call of run plans its intent, turns every step of the plan into a     *)
(* node and decides whether the node is a leaf or expands into sub-flows.  *)
(* An expansion hands the sub-flows to a queue and ends the call; the      *)
(* consumer runs each of them as a call of its own.  Calls interleave at   *)
(* their awaits and share one service, so one spend tracker.  What the AI  *)
(* behind a cycle answers is a choice.                                     *)
(*                                                                         *)
(* A run id is a string, written here as the sequence of the pieces it has *)
(* between its hyphens.  The id of a child, `${parentRunId}-d${depth}-...` *)
(* with the white space of the name turned into hyphens, adds a piece for  *)
(* the depth, a number here, and the pieces of the name: two names may     *)
(* give the same pieces, and a piece of a name may look like a depth.      *)
(***************************************************************************)
EXTENDS Naturals, Sequences

CONSTANTS
  Roots,             \* ids of top-level runs, of one piece each
  Names,             \* names of sub-flows
  NoName,            \* a sub-flow of a decomposition without a name
  Pieces,            \* pieces of names that do not look like a depth
  Slug,              \* name -> its pieces, cut at white space and hyphens
  Decompositions,    \* sequences of names an expansion may be split into
  TerminationDepth,  \* CycleChainInput.terminationDepth
  Costs,             \* what a cycle may cost
  SpendLimit,        \* the limit of the gate
  None,              \* no document
  MaxSteps,          \* bound: steps of a plan
  MaxRefs,           \* bound: sub-flow refs created
  MaxFaults          \* bound: database and queue calls that fail

ASSUME DecompositionsAssumption ==
  Decompositions \subseteq (Seq(Names \cup {NoName}) \ {<<>>})
ASSUME SlugAssumption ==
  NoName \notin Names /\ Slug \in [Names -> Seq(Pieces \cup Nat)] /\ Pieces \cap Nat = {}
ASSUME LimitsAssumption ==
  TerminationDepth \in Nat /\ Costs \subseteq Nat /\ SpendLimit \in Nat
ASSUME BoundsAssumption == MaxSteps \in Nat /\ MaxRefs \in Nat /\ MaxFaults \in Nat
(* A call of run is named after what it was made for: a top-level run, or  *)
(* a sub-flow ref, for which the consumer makes it.                        *)
RefIds == 1..MaxRefs
Calls == Roots \cup RefIds
Runs == {run \in Seq(Roots \cup Pieces \cup Nat) : run # <<>> /\ run[1] \in Roots}
NoRun == <<>>

RefDoc == [run : Runs \cup {NoRun}, status : {"PENDING", "RUNNING", "COMPLETE", "FAILED"}]
ASSUME NamesAssumption == None \notin RefDoc /\ Roots \cap RefIds = {}

VARIABLES
  started,      \* top-level runs asked for
  calls,        \* call -> what it is doing
  refs,         \* index xiigen-run-state: sub-flow ref id -> document
  suspensions,  \* index xiigen-run-state: suspensions stored
  expandQueue,  \* queue cycle.chain.expand: messages waiting
  completed,    \* ref ids for which cycle.chain.child.completed was emitted
  lost,         \* history: ref ids given up when an exception ended their run,
                \* their announcement or their delivery
  accumulated,  \* CycleChainService.accumulatedCostUsd
  familySpend,  \* history: what a top-level run and its sub-flows have spent
  lastRef,      \* number of the last ref id drawn (they are uuids)
  faults        \* failures so far

vars == <<started, calls, refs, suspensions, expandQueue, completed, lost,
          accumulated, familySpend, lastRef, faults>>
spendVars == <<accumulated, familySpend>>
storeVars == <<refs, suspensions, expandQueue, completed, lost, lastRef>>

-----------------------------------------------------------------------------
Idle == [pc |-> "idle", run |-> NoRun, depth |-> 0, left |-> 0,
         unstored |-> <<>>, unsent |-> <<>>, outcome |-> "none"]
At(c, pc) == calls[c].pc = pc
Run(c) == calls[c].run
Goto(c, pc) == calls' = [calls EXCEPT ![c].pc = pc]

Init ==
  /\ started = {}
  /\ calls = [c \in Calls |-> Idle]
  /\ refs = [id \in RefIds |-> None]
  /\ suspensions = {}
  /\ expandQueue = {}
  /\ completed = {}
  /\ lost = {}
  /\ accumulated = 0
  /\ familySpend = [r \in Roots |-> 0]
  /\ lastRef = 0
  /\ faults = 0

(* A database or queue call that fails: its caller does not look.          *)
Fault == faults < MaxFaults /\ faults' = faults + 1

-----------------------------------------------------------------------------
(* run(): a top-level call resets the tracker, a sub-flow's does not.      *)
Tracker_AlwaysReset(depth) == 0 \* mutant: no test of the depth
Tracker(depth) == IF depth = 1 THEN 0 ELSE accumulated

BeginRun(c, run, depth) ==
  /\ calls' = [calls EXCEPT ![c] = [Idle EXCEPT !.pc = "plan", !.run = run, !.depth = depth]]
  /\ accumulated' = Tracker(depth)

StartTopLevel(r) ==
  /\ r \notin started
  /\ started' = started \cup {r}
  /\ BeginRun(r, <<r>>, 1)
  /\ UNCHANGED <<storeVars, familySpend, faults>>

(* A call returns: to the HTTP request, or to handleExpand.                *)
Returned_DropsFailure(c, outcome) == \* mutant: a failed child is not stored
  IF c \in Roots \/ outcome = "FAILED" THEN Idle
  ELSE [calls[c] EXCEPT !.pc = "storeResult", !.outcome = outcome]
Returned_EmitsOnly(c, outcome) == \* mutant: the result is emitted unstored
  IF c \in Roots THEN Idle
  ELSE [calls[c] EXCEPT !.pc = "emitCompleted", !.outcome = outcome]
Returned(c, outcome) ==
  IF c \in Roots THEN Idle
  ELSE [calls[c] EXCEPT !.pc = "storeResult", !.outcome = outcome]

Returns(c, outcome) == calls' = [calls EXCEPT ![c] = Returned(c, outcome)]

-----------------------------------------------------------------------------
(* A cycle adds its cost and asks the gate, which sees the tracker as it   *)
(* is after the addition.  It halts at the limit or for what the output    *)
(* contains; when it fails the chain goes on.                              *)
Exceeds_Above(spent) == spent > SpendLimit \* mutant
Exceeds(spent) == spent >= SpendLimit

Charge(c, cost) ==
  /\ accumulated' = accumulated + cost
  /\ familySpend' = [familySpend EXCEPT ![Head(Run(c))] = @ + cost]

GateContinues(c, cost) ==
  /\ Charge(c, cost)
  /\ \/ ~ Exceeds(accumulated + cost) /\ UNCHANGED faults
     \/ Fault

GateHalts(c, cost) ==
  /\ Charge(c, cost)
  /\ Returns(c, "FAILED")
  /\ UNCHANGED faults

(* Cycle 1: the planner fails or its grade is below the threshold.         *)
PlanRejected(c) ==
  /\ At(c, "plan")
  /\ Returns(c, "FAILED")
  /\ UNCHANGED <<started, storeVars, spendVars, faults>>

PlanAccepted(c) ==
  /\ At(c, "plan")
  /\ \E cost \in Costs :
       \/ /\ GateContinues(c, cost)
          /\ \E n \in 0..MaxSteps : calls' = [calls EXCEPT ![c].pc = "step", ![c].left = n]
       \/ GateHalts(c, cost)
  /\ UNCHANGED <<started, storeVars>>

-----------------------------------------------------------------------------
(* Cycle 2 of the next step.  Without enough context it leaves a           *)
(* suspension behind; that, a failure and a rejection go to the next step. *)
HasStep(c) == At(c, "step") /\ calls[c].left > 0
NextStep(c) == calls' = [calls EXCEPT ![c].pc = "step", ![c].left = @ - 1]

Suspension(c, reason) ==
  [run |-> Run(c), step |-> calls[c].left, reason |-> reason, status |-> "open"]
StoreSuspension(c, reason) ==
  \/ suspensions' = suspensions \cup {Suspension(c, reason)} /\ UNCHANGED faults
  \/ Fault /\ UNCHANGED suspensions

StepInsufficient(c) ==
  /\ HasStep(c)
  /\ StoreSuspension(c, "CONTEXT_INSUFFICIENT")
  /\ NextStep(c)
  /\ UNCHANGED <<started, refs, expandQueue, completed, lost, lastRef, spendVars>>

StepRejected(c) ==
  /\ HasStep(c)
  /\ NextStep(c)
  /\ UNCHANGED <<started, storeVars, spendVars, faults>>

StepAccepted(c) ==
  /\ HasStep(c)
  /\ \E cost \in Costs :
       \/ GateContinues(c, cost) /\ Goto(c, "depth")
       \/ GateHalts(c, cost)
  /\ UNCHANGED <<started, storeVars>>

(* Cycle 3: at the termination depth the verdict is LEAF without the AI    *)
(* being asked; a failed decision and an empty decomposition are a LEAF.   *)
AtBound_OffByOne(depth) == depth > TerminationDepth \* mutant
AtBound(depth) == depth >= TerminationDepth

Leaf(c) ==
  /\ At(c, "depth")
  /\ NextStep(c)
  /\ UNCHANGED <<started, storeVars, spendVars, faults>>

(* Every sub-flow gets a ref; the refs are stored one by one, then a       *)
(* message is sent for each.  Ref and message hold what the consumer       *)
(* builds the run id of the child from: the parent's id, the depth, the    *)
(* name.                                                                   *)
ChildRun_NoDepth(parent, depth, name) == \* mutant: the id without the depth
  IF name = NoName THEN NoRun ELSE parent \o Slug[name]
ChildRun(parent, depth, name) ==
  IF name = NoName THEN NoRun ELSE parent \o (<<depth>> \o Slug[name])

SubFlows(c, d) ==
  LET depth == calls[c].depth + 1
  IN  [i \in 1..Len(d) |->
         [id |-> lastRef + i, run |-> ChildRun(Run(c), depth, d[i]), depth |-> depth]]
AfterEach(rest, again, done) == IF rest = <<>> THEN done ELSE again

Expand(c) ==
  /\ At(c, "depth") /\ ~ AtBound(calls[c].depth)
  /\ \E d \in Decompositions :
       /\ lastRef + Len(d) <= MaxRefs
       /\ lastRef' = lastRef + Len(d)
       /\ calls' = [calls EXCEPT ![c].pc = "storeRefs",
                                ![c].unstored = SubFlows(c, d), ![c].unsent = SubFlows(c, d)]
  /\ UNCHANGED <<started, refs, suspensions, expandQueue, completed, lost, spendVars, faults>>

StoreRef(c) ==
  LET ref == Head(calls[c].unstored)
      rest == Tail(calls[c].unstored)
  IN  /\ At(c, "storeRefs")
      /\ \/ refs' = [refs EXCEPT ![ref.id] = [run |-> ref.run, status |-> "PENDING"]]
            /\ UNCHANGED faults
         \/ Fault /\ UNCHANGED refs
      /\ calls' = [calls EXCEPT ![c].unstored = rest,
                                ![c].pc = AfterEach(rest, "storeRefs", "emit")]
      /\ UNCHANGED <<started, suspensions, expandQueue, completed, lost, lastRef, spendVars>>

Emit(c) ==
  LET rest == Tail(calls[c].unsent)
  IN  /\ At(c, "emit")
      /\ \/ expandQueue' = expandQueue \cup {Head(calls[c].unsent)} /\ UNCHANGED faults
         \/ Fault /\ UNCHANGED expandQueue
      /\ calls' = [calls EXCEPT ![c].unsent = rest,
                                ![c].pc = AfterEach(rest, "emit", "suspend")]
      /\ UNCHANGED <<started, refs, suspensions, completed, lost, lastRef, spendVars>>

(* The run is suspended and its call returns: steps left over are dropped. *)
AfterSuspend(c) == Returned(c, "SUSPENDED")

Suspend(c) ==
  /\ At(c, "suspend")
  /\ StoreSuspension(c, "EXPAND_PENDING")
  /\ calls' = [calls EXCEPT ![c] = AfterSuspend(c)]
  /\ UNCHANGED <<started, refs, expandQueue, completed, lost, lastRef, spendVars>>

Complete(c) ==
  /\ At(c, "step") /\ calls[c].left = 0
  /\ Returns(c, "COMPLETE")
  /\ UNCHANGED <<started, storeVars, spendVars, faults>>

(* A run ends by an exception where the AI's answer has another shape than *)
(* the code takes for granted: a plan or a decomposition that is no array, *)
(* a sub-flow that is null while the refs are stored.  It goes to the HTTP *)
(* request or to handleExpand, whose catch stores and emits nothing.       *)
In(id, s) == \E i \in 1..Len(s) : s[i].id = id

Throw(c) ==
  /\ \E pc \in {"step", "depth", "storeRefs"} : At(c, pc)
  /\ lost' = lost \cup {id \in RefIds : id = c \/ In(id, calls[c].unsent)}
  /\ calls' = [calls EXCEPT ![c] = Idle]
  /\ UNCHANGED <<started, refs, suspensions, expandQueue, completed, lastRef, spendVars, faults>>

-----------------------------------------------------------------------------
(* handleExpand: the ref's document is replaced by one that says RUNNING,  *)
(* then the child runs in this call, then the document is replaced by its  *)
(* result and an event tells of it.  A child that was suspended counts as  *)
(* a success.                                                              *)
Deliver(msg) ==
  /\ msg \in expandQueue /\ msg.run # NoRun
  /\ expandQueue' = expandQueue \ {msg}
  /\ \/ refs' = [refs EXCEPT ![msg.id] = [run |-> msg.run, status |-> "RUNNING"]]
        /\ UNCHANGED faults
     \/ Fault /\ UNCHANGED refs
  /\ BeginRun(msg.id, msg.run, msg.depth)
  /\ UNCHANGED <<started, suspensions, completed, lost, lastRef, familySpend>>

(* Without a name there is no run id to build: the message is consumed and *)
(* the ref stays as it is.                                                 *)
DeliverNameless(msg) ==
  /\ msg \in expandQueue /\ msg.run = NoRun
  /\ expandQueue' = expandQueue \ {msg}
  /\ lost' = lost \cup {msg.id}
  /\ UNCHANGED <<started, calls, refs, suspensions, completed, lastRef, spendVars, faults>>

RefStatus_OfChild(outcome) == outcome \* mutant: childResult.data.status
RefStatus(outcome) == IF outcome = "FAILED" THEN "FAILED" ELSE "COMPLETE"

StoreResult(c) ==
  /\ At(c, "storeResult")
  /\ \/ refs' = [refs EXCEPT ![c] =
                   [run |-> Run(c), status |-> RefStatus(calls[c].outcome)]]
        /\ UNCHANGED faults
     \/ Fault /\ UNCHANGED refs
  /\ Goto(c, "emitCompleted")
  /\ UNCHANGED <<started, suspensions, expandQueue, completed, lost, lastRef, spendVars>>

EmitCompleted(c) ==
  /\ At(c, "emitCompleted")
  /\ \/ completed' = completed \cup {c} /\ UNCHANGED faults
     \/ Fault /\ UNCHANGED completed
  /\ calls' = [calls EXCEPT ![c] = Idle]
  /\ UNCHANGED <<started, refs, suspensions, expandQueue, lost, lastRef, spendVars>>

(* resumeSuspendedStep(): only a step that lacked context can be resumed.  *)
Resumable(s) == s.reason = "CONTEXT_INSUFFICIENT"

Resume(s) ==
  /\ s \in suspensions /\ Resumable(s)
  /\ suspensions' = (suspensions \ {s}) \cup {[s EXCEPT !.status = "RESOLVED"]}
  /\ UNCHANGED <<started, calls, refs, expandQueue, completed, lost, lastRef, spendVars, faults>>

-----------------------------------------------------------------------------
Cycle1(c) == PlanRejected(c) \/ PlanAccepted(c)
Cycle2(c) == StepInsufficient(c) \/ StepRejected(c) \/ StepAccepted(c) \/ Complete(c)
Cycle3(c) == Leaf(c) \/ Expand(c) \/ StoreRef(c) \/ Emit(c) \/ Suspend(c)
Handler(c) == StoreResult(c) \/ EmitCompleted(c)
CallStep(c) == Cycle1(c) \/ Cycle2(c) \/ Cycle3(c) \/ Throw(c) \/ Handler(c)

Next ==
  \/ \E r \in Roots : StartTopLevel(r)
  \/ \E c \in Calls : CallStep(c)
  \/ \E msg \in expandQueue : Deliver(msg) \/ DeliverNameless(msg)
  \/ \E s \in suspensions : Resume(s)

Spec == Init /\ [][Next]_vars

(* A call that was made goes on, and a waiting message finds a consumer.   *)
Delivery == \E msg \in expandQueue : Deliver(msg) \/ DeliverNameless(msg)
FairSpec == Spec /\ WF_vars(Delivery) /\ \A c \in Calls : WF_vars(CallStep(c))

-----------------------------------------------------------------------------
Outcomes == {"COMPLETE", "SUSPENDED", "FAILED"}
Message == [id : RefIds, run : Runs \cup {NoRun}, depth : Nat]
CallState ==
  [pc : {"idle", "plan", "step", "depth", "storeRefs", "emit", "suspend",
         "storeResult", "emitCompleted"},
   run : Runs \cup {NoRun}, depth : Nat, left : Nat,
   unstored : Seq(Message), unsent : Seq(Message), outcome : Outcomes \cup {"none"}]
SuspensionDoc ==
  [run : Runs, step : Nat, reason : {"CONTEXT_INSUFFICIENT", "EXPAND_PENDING"},
   status : {"open", "RESOLVED"}]

(* The documents, messages and calls of the cycle chain are well formed.   *)
TypeOK ==
  /\ started \subseteq Roots
  /\ calls \in [Calls -> CallState]
  /\ refs \in [RefIds -> RefDoc \cup {None}]
  /\ suspensions \subseteq SuspensionDoc
  /\ expandQueue \subseteq Message
  /\ completed \subseteq RefIds
  /\ lost \subseteq RefIds
  /\ accumulated \in Nat
  /\ familySpend \in [Roots -> Nat]
  /\ lastRef \in 0..MaxRefs
  /\ faults \in Nat

RefIs(id, statuses) == refs[id] # None /\ refs[id].status \in statuses

(* DNA-8, store before emit: while nothing has failed, a message that      *)
(* waits announces a ref stored as PENDING, and an event that tells of a   *)
(* child's end follows its result in the store, whatever the interleaving  *)
(* of the calls that store and consume them.                               *)
StoredBeforeEmitted ==
  faults = 0 =>
    /\ \A msg \in expandQueue : RefIs(msg.id, {"PENDING"})
    /\ \A id \in completed : RefIs(id, {"COMPLETE", "FAILED"})

(* No run of a family, however it branches, goes deeper than the           *)
(* termination depth asked for at the top.                                 *)
WithinDepth ==
  \A c \in Calls : ~ At(c, "idle") => calls[c].depth = 1 \/ calls[c].depth <= TerminationDepth

(* No two sub-flows of a family run under one run id, by which the history *)
(* of a run's steps is kept, as long as the pieces of the names tell them  *)
(* apart: no piece of a name looks like a depth, and no decomposition has  *)
(* two names of the same pieces.                                           *)
PlainNames == \A name \in Names : Slug[name] \in Seq(Pieces)
NamesTellApart ==
  \A d \in Decompositions : \A i, j \in 1..Len(d) :
    {d[i], d[j]} \subseteq Names /\ Slug[d[i]] = Slug[d[j]] => i = j
RunIdsUnique ==
  PlainNames /\ NamesTellApart =>
    \A i, j \in RefIds :
      refs[i] # None /\ refs[j] # None /\ refs[i].run = refs[j].run /\ refs[i].run # NoRun
        => i = j

(* What the gate compares with the limit is what the top-level run and all *)
(* its sub-flows have spent together, as long as one family is in progress *)
(* in the process: the tracker outlives the calls it was filled by.        *)
TrackerIsFamilySpend ==
  \A c \in Calls : ~ At(c, "idle") => accumulated = familySpend[Head(Run(c))]

(* "Accumulated cost tracker - reset per top-level run": once a top-level  *)
(* run and its sub-flows have reached the limit together, a cycle of       *)
(* theirs halts its run, unless the gate fails.                            *)
StopsAtLimitStep ==
  \A c \in Calls :
    ~ At(c, "idle") /\ calls'[c] # calls[c] /\ faults' = faults =>
      LET root == Head(Run(c))
      IN  familySpend'[root] # familySpend[root] /\ familySpend'[root] >= SpendLimit
            => calls'[c].pc \in {"idle", "storeResult"}
StopsAtLimit == [][StopsAtLimitStep]_vars

(* While the database and the queue do not fail, a ref that is PENDING is  *)
(* announced in the queue or still to be announced by the call that made   *)
(* it, and one that is RUNNING is being run: none is lost between the two, *)
(* but for the refs an exception itself gave up.                           *)
RefsAttended ==
  faults = 0 =>
    \A id \in RefIds \ lost :
      /\ RefIs(id, {"PENDING"}) => \/ \E msg \in expandQueue : msg.id = id
                                   \/ \E c \in Calls : In(id, calls[c].unsent)
      /\ RefIs(id, {"RUNNING"}) => ~ At(id, "idle")

(* Every stored sub-flow is run to its end and its result stored, unless   *)
(* the database or the queue failed or an exception ended its own run, its *)
(* announcement or its delivery: one that ends a sibling does not keep it. *)
RefsResolve ==
  \A id \in RefIds :
    RefIs(id, {"PENDING"}) ~> (RefIs(id, {"COMPLETE", "FAILED"}) \/ id \in lost \/ faults > 0)
=============================================================================
