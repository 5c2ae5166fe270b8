-------------------------------- MODULE Sagas --------------------------------
(***************************************************************************)
(* A durable saga: the orchestrator that runs its steps                    *)
(* (saga-orchestrator.service.ts) and the engine that undoes them          *)
(* (compensation-engine.service.ts, both in                                *)
(* src/server/src/engine/flows/durable-sagas-compliance).                  *)
(*                                                                         *)
(* One saga of N steps; its events may be delivered more than once, so     *)
(* calls of execute and of compensate overlap, and a call may die at any   *)
(* await.  The step locks (SETNX), the compensation registry and the saga  *)
(* repository are interfaces the source only calls; the database and the   *)
(* queue may fail a call, and neither service looks at their results.      *)
(***************************************************************************)
EXTENDS Integers, FiniteSets

CONSTANTS
  N,             \* number of steps; a step is its stepIndex, 0 .. N - 1
  Executions,    \* deliveries of SagaExecutionRequested: calls of execute
  Compensations, \* calls of compensate
  None,          \* no step fails; no call holds it
  MaxFaults,     \* bound: database and queue calls that fail
  MaxDeaths      \* bound: calls that die

ASSUME SagaAssumption ==
  /\ N \in Nat \ {0}
  /\ None \notin 0 .. N - 1
  /\ Executions \cap Compensations = {}
  /\ MaxFaults \in Nat /\ MaxDeaths \in Nat

Steps == 0 .. N - 1

VARIABLES
  bad,       \* the step without a name, whose body fails; or None
  saga,      \* xiigen-sagas/sagaId: "none" or its status
  registry,  \* steps with a registered compensation
  locks,     \* lock keys held
  docs,      \* the other documents stored
  events,    \* events enqueued
  exec,      \* each call of execute: [pc, i, n]
  comp,      \* each call of compensate: [pc, i, n, k]
  runs,      \* history: how often each step's body ran
  undos,     \* history: how often each compensation body ran
  faults, deaths

sagaVars == <<saga, registry, locks>>
history == <<runs, undos>>
vars == <<bad, sagaVars, docs, events, exec, comp, history, faults, deaths>>

(* Lock keys: stepIndex for a step, -(stepIndex + 1) for its compensation. *)
StepLock(i) == i
CompLock(i) == -(i + 1)

Init ==
  /\ bad \in Steps \cup {None}
  /\ saga = "none" /\ registry = {} /\ locks = {}
  /\ docs = {} /\ events = {}
  /\ exec = [e \in Executions |-> [pc |-> "idle", i |-> 0, n |-> 0]]
  /\ comp = [c \in Compensations |-> [pc |-> "idle", i |-> 0, n |-> 0, k |-> 0]]
  /\ runs = [i \in Steps |-> 0] /\ undos = [i \in Steps |-> 0]
  /\ faults = 0 /\ deaths = 0

(* storeDocument and enqueue, whose results are ignored. *)
Fault == faults < MaxFaults /\ faults' = faults + 1
Store(doc) ==
  /\ \/ docs' = docs \cup {doc} /\ UNCHANGED faults
     \/ Fault /\ UNCHANGED docs
  /\ UNCHANGED events
Emit(event) ==
  /\ \/ events' = events \cup {event} /\ UNCHANGED faults
     \/ Fault /\ UNCHANGED events
  /\ UNCHANGED docs

-----------------------------------------------------------------------------
(* SagaOrchestratorService.execute *)
AtE(e, pc) == exec[e].pc = pc
GoE(e, pc) == exec' = [exec EXCEPT ![e].pc = pc]

NextStep(e) ==
  exec' = [exec EXCEPT ![e] =
    [pc |-> IF @.i + 1 < N THEN "lock" ELSE "complete", i |-> @.i + 1, n |-> @.n]]

(* ORDER 1: storeDocumentWithOCC(versionPin: -1), the document must not    *)
(* exist; a conflict ends the call with SagaAlreadyRunning.                *)
MayStart_Always == TRUE \* mutant: no version pin
MayStart_NotCompleted == \* mutant: only a completed saga is refused
  \A n \in 0 .. N : <<"completed", n>> \notin docs
MayStart == saga = "none"

Begin(e) ==
  /\ AtE(e, "idle")
  /\ MayStart
  /\ saga' = "RUNNING"
  /\ GoE(e, "lock")
  /\ UNCHANGED <<bad, registry, locks, docs, events, comp, history, faults, deaths>>

AlreadyRunning(e) ==
  /\ AtE(e, "idle")
  /\ ~ MayStart
  /\ Emit(<<"SagaAlreadyRunning">>)
  /\ GoE(e, "refused")
  /\ UNCHANGED <<bad, sagaVars, comp, history, deaths>>

(* ORDER 2: a step whose lock is held is skipped. *)
LockStep(e) ==
  /\ AtE(e, "lock")
  /\ IF StepLock(exec[e].i) \in locks
       THEN NextStep(e) /\ UNCHANGED locks
       ELSE GoE(e, "register") /\ locks' = locks \cup {StepLock(exec[e].i)}
  /\ UNCHANGED <<bad, saga, registry, docs, events, comp, history, faults, deaths>>

(* ORDER 3 *)
RegisterCompensation(e) ==
  /\ AtE(e, "register")
  /\ registry' = registry \cup {exec[e].i}
  /\ GoE(e, "body")
  /\ UNCHANGED <<bad, saga, locks, docs, events, comp, history, faults, deaths>>

(* ORDER 4: executeStepBody *)
AfterFailure_Next == "announce" \* mutant: the saga goes on after a failed step
AfterFailure_Silent == "done" \* mutant: returns without SagaFailed
AfterFailure == "failed"

AfterBody_Announce == "announce" \* mutant: no checkpoint
AfterBody == "checkpoint"

RunBody(e) ==
  /\ AtE(e, "body")
  /\ exec[e].i # bad
  /\ runs' = [runs EXCEPT ![exec[e].i] = @ + 1]
  /\ Store(<<"step", exec[e].i>>)
  /\ exec' = [exec EXCEPT ![e].pc = AfterBody, ![e].n = @ + 1]
  /\ UNCHANGED <<bad, sagaVars, comp, undos, deaths>>

BodyFails(e) ==
  /\ AtE(e, "body")
  /\ exec[e].i = bad
  /\ GoE(e, AfterFailure)
  /\ UNCHANGED <<bad, sagaVars, docs, events, comp, history, faults, deaths>>

(* SagaFailed; the step's lock is not released. *)
AnnounceFailed(e) ==
  /\ AtE(e, "failed")
  /\ Emit(<<"SagaFailed", exec[e].i>>)
  /\ GoE(e, "done")
  /\ UNCHANGED <<bad, sagaVars, comp, history, deaths>>

(* ORDER 5 and 6 *)
StoreCheckpoint(e) ==
  /\ AtE(e, "checkpoint")
  /\ Store(<<"checkpoint", exec[e].i>>)
  /\ GoE(e, "announce")
  /\ UNCHANGED <<bad, sagaVars, comp, history, deaths>>

AnnounceStep(e) ==
  /\ AtE(e, "announce")
  /\ Emit(<<"SagaStepExecuted", exec[e].i>>)
  /\ GoE(e, "release")
  /\ UNCHANGED <<bad, sagaVars, comp, history, deaths>>

ReleaseStep(e) ==
  /\ AtE(e, "release")
  /\ locks' = locks \ {StepLock(exec[e].i)}
  /\ NextStep(e)
  /\ UNCHANGED <<bad, saga, registry, docs, events, comp, history, faults, deaths>>

(* The completion is a document of its own: the saga's stays RUNNING. *)
StoreCompleted(e) ==
  /\ AtE(e, "complete")
  /\ Store(<<"completed", exec[e].n>>)
  /\ GoE(e, "announceDone")
  /\ UNCHANGED <<bad, sagaVars, comp, history, deaths>>

AnnounceCompleted(e) ==
  /\ AtE(e, "announceDone")
  /\ Emit(<<"SagaCompleted", exec[e].n>>)
  /\ GoE(e, "done")
  /\ UNCHANGED <<bad, sagaVars, comp, history, deaths>>

ExecStep(e) ==
  \/ LockStep(e) \/ RegisterCompensation(e) \/ RunBody(e) \/ BodyFails(e)
  \/ AnnounceFailed(e) \/ StoreCheckpoint(e) \/ AnnounceStep(e) \/ ReleaseStep(e)
  \/ StoreCompleted(e) \/ AnnounceCompleted(e)

-----------------------------------------------------------------------------
(* CompensationEngineService.compensate.  Its entry is SagaFailed, which   *)
(* carries no compensationStack; whoever asks with one lists the first k   *)
(* steps.  The stack is walked from its end.                               *)
AtC(c, pc) == comp[c].pc = pc
GoC(c, pc) == comp' = [comp EXCEPT ![c].pc = pc]

First(k) == k - 1

Compensate(c, k) ==
  /\ AtC(c, "idle")
  /\ \E s \in Steps : <<"SagaFailed", s>> \in events
  /\ comp' = [comp EXCEPT ![c] =
       [pc |-> IF k = 0 THEN "announceDone" ELSE "lock", i |-> First(k), n |-> 0, k |-> k]]
  /\ UNCHANGED <<bad, sagaVars, docs, events, exec, history, faults, deaths>>

NextUndo(c, n) ==
  comp' = [comp EXCEPT ![c] =
    [pc |-> IF @.i = 0 THEN "complete" ELSE "lock", i |-> @.i - 1, n |-> n, k |-> @.k]]

(* ORDER 1: a lock that is held counts the step as compensated. *)
Free_Any(key) == TRUE \* mutant: the answer of SETNX is not looked at
Free(key) == key \notin locks

LockUndo(c) ==
  /\ AtC(c, "lock") /\ Free(CompLock(comp[c].i))
  /\ locks' = locks \cup {CompLock(comp[c].i)}
  /\ GoC(c, "body")
  /\ UNCHANGED <<bad, saga, registry, docs, events, exec, history, faults, deaths>>

SkipUndo(c) ==
  /\ AtC(c, "lock") /\ ~ Free(CompLock(comp[c].i))
  /\ NextUndo(c, comp[c].n + 1)
  /\ UNCHANGED <<bad, sagaVars, docs, events, exec, history, faults, deaths>>

(* ORDER 2: executeCompensationBody *)
Registered(i) == i \in registry

RunUndo(c) ==
  /\ AtC(c, "body") /\ Registered(comp[c].i)
  /\ undos' = [undos EXCEPT ![comp[c].i] = @ + 1]
  /\ Store(<<"undo", comp[c].i>>)
  /\ comp' = [comp EXCEPT ![c].pc = "record", ![c].n = @ + 1]
  /\ UNCHANGED <<bad, sagaVars, exec, runs, deaths>>

(* It fails when nothing is registered (COMPENSATION_NOT_REGISTERED), and   *)
(* for any step whose entry in the stack has no strategy (COMP_INVALID).   *)
UndoFails(c) ==
  /\ AtC(c, "body")
  /\ GoC(c, "failed")
  /\ UNCHANGED <<bad, sagaVars, docs, events, exec, history, faults, deaths>>

(* CompensationFailed; the lock is not released. *)
AnnounceUndoFailed(c) ==
  /\ AtC(c, "failed")
  /\ Emit(<<"CompensationFailed", comp[c].i>>)
  /\ GoC(c, "done")
  /\ UNCHANGED <<bad, sagaVars, exec, history, deaths>>

(* ORDER 3 and 4 *)
StoreRecord(c) ==
  /\ AtC(c, "record")
  /\ Store(<<"undone", comp[c].i>>)
  /\ GoC(c, "announce")
  /\ UNCHANGED <<bad, sagaVars, exec, history, deaths>>

AnnounceUndo(c) ==
  /\ AtC(c, "announce")
  /\ Emit(<<"CompensationStepExecuted", comp[c].i>>)
  /\ GoC(c, "release")
  /\ UNCHANGED <<bad, sagaVars, exec, history, deaths>>

ReleaseUndo(c) ==
  /\ AtC(c, "release")
  /\ locks' = locks \ {CompLock(comp[c].i)}
  /\ NextUndo(c, comp[c].n)
  /\ UNCHANGED <<bad, saga, registry, docs, events, exec, history, faults, deaths>>

StoreCompensated(c) ==
  /\ AtC(c, "complete")
  /\ Store(<<"compensated", comp[c].n>>)
  /\ GoC(c, "announceDone")
  /\ UNCHANGED <<bad, sagaVars, exec, history, deaths>>

AnnounceCompensated(c) ==
  /\ AtC(c, "announceDone")
  /\ Emit(<<"CompensationCompleted", comp[c].n>>)
  /\ GoC(c, "done")
  /\ UNCHANGED <<bad, sagaVars, exec, history, deaths>>

CompStep(c) ==
  \/ LockUndo(c) \/ SkipUndo(c) \/ RunUndo(c) \/ UndoFails(c) \/ AnnounceUndoFailed(c)
  \/ StoreRecord(c) \/ AnnounceUndo(c) \/ ReleaseUndo(c)
  \/ StoreCompensated(c) \/ AnnounceCompensated(c)

-----------------------------------------------------------------------------
(* A call dies with its process; what it stored, and its lock, stay. *)
Over == {"idle", "refused", "done", "dead"}

Die ==
  /\ deaths < MaxDeaths
  /\ deaths' = deaths + 1
  /\ \/ \E e \in Executions :
          exec[e].pc \notin Over /\ GoE(e, "dead") /\ UNCHANGED comp
     \/ \E c \in Compensations :
          comp[c].pc \notin Over /\ GoC(c, "dead") /\ UNCHANGED exec
  /\ UNCHANGED <<bad, sagaVars, docs, events, history, faults>>

Next ==
  \/ \E e \in Executions : Begin(e) \/ AlreadyRunning(e) \/ ExecStep(e)
  \/ \E c \in Compensations : (\E k \in 0 .. N : Compensate(c, k)) \/ CompStep(c)
  \/ Die

Spec == Init /\ [][Next]_vars

(* A call that was started runs on. *)
FairSpec ==
  /\ Spec
  /\ \A e \in Executions : WF_vars(ExecStep(e))
  /\ \A c \in Compensations : WF_vars(CompStep(c))

-----------------------------------------------------------------------------
StepSection == {"register", "body", "checkpoint", "announce", "release"}
UndoSection == {"body", "record", "announce", "release"}

ExecState ==
  [pc : Over \cup StepSection \cup {"lock", "failed", "complete", "announceDone"},
   i : 0 .. N, n : 0 .. N]
CompState ==
  [pc : Over \cup UndoSection \cup {"lock", "failed", "complete", "announceDone"},
   i : -1 .. N - 1, n : 0 .. N, k : 0 .. N]

SagaTypeOK ==
  /\ bad \in Steps \cup {None}
  /\ saga \in {"none", "RUNNING"}
  /\ registry \subseteq Steps
  /\ locks \subseteq {StepLock(i) : i \in Steps} \cup {CompLock(i) : i \in Steps}
  /\ exec \in [Executions -> ExecState]
  /\ comp \in [Compensations -> CompState]
  /\ runs \in [Steps -> Nat] /\ undos \in [Steps -> Nat]
  /\ faults \in Nat /\ deaths \in Nat

(* However often the request is delivered and whatever dies, no step runs  *)
(* twice, none before the one it follows, and none without a compensation  *)
(* to undo it.                                                             *)
RunOnceInOrder ==
  \A i \in Steps :
    /\ runs[i] <= 1
    /\ runs[i] = 1 => i \in registry /\ \A j \in 0 .. i - 1 : runs[j] = 1

(* A saga announced as completed ran every step. *)
CompletedRanAll ==
  \A n \in 0 .. N : <<"SagaCompleted", n>> \in events => n = N /\ \A i \in Steps : runs[i] = 1

(* Four of the announcements find what they say in the store, while no     *)
(* call of the database or the queue failed: a step, the end of a saga, an *)
(* undone step and the end of a compensation that had something to undo.   *)
(* The rest has nothing stored: SagaFailed, SagaAlreadyRunning,            *)
(* CompensationFailed and the CompensationCompleted of an empty stack.     *)
AnnouncedIsStored ==
  faults = 0 =>
    /\ \A i \in Steps :
         /\ <<"SagaStepExecuted", i>> \in events => <<"checkpoint", i>> \in docs
         /\ <<"CompensationStepExecuted", i>> \in events => <<"undone", i>> \in docs
    /\ \A n \in 0 .. N :
         /\ <<"SagaCompleted", n>> \in events => <<"completed", n>> \in docs
         /\ <<"CompensationCompleted", n>> \in events /\ n # 0 => <<"compensated", n>> \in docs

(* Nothing runs any more once the saga failed or a step was undone. *)
NothingRunsAfterFailureStep ==
  runs' # runs => /\ \A i \in Steps : <<"SagaFailed", i>> \notin events
                  /\ \A i \in Steps : undos[i] = 0
NothingRunsAfterFailure == [][NothingRunsAfterFailureStep]_vars

(* However often the request is delivered, whatever dies and whatever the  *)
(* database and the queue lose, the saga is seen to run its steps in order *)
(* and once, to end once, and to undo only after it failed.                *)
Promise == INSTANCE SagaPromise WITH
  begun <- saga # "none",
  ends <- {o \in {"completed", "failed"} :
             \E i \in 0 .. N :
               <<IF o = "failed" THEN "SagaFailed" ELSE "SagaCompleted", i>> \in events}

ImplementsPromise == Promise!Spec

(* A compensation lock has one holder, and is left behind only by a call   *)
(* that died or failed: skipping is all that keeps two calls apart.        *)
InUndo(c) == comp[c].pc \in UndoSection
Holds(c, i) ==
  comp[c].i = i /\ (InUndo(c) \/ comp[c].pc \in {"failed", "done", "dead"})

UndoLocks ==
  /\ \A c \in Compensations : InUndo(c) => CompLock(comp[c].i) \in locks
  /\ \A c, d \in Compensations :
       InUndo(c) /\ InUndo(d) /\ comp[c].i = comp[d].i => c = d
  /\ \A i \in Steps : CompLock(i) \in locks => \E c \in Compensations : Holds(c, i)

(* A call that ends as completed leaves every step of its stack undone, or *)
(* with another call that is at it or failed at it: what a death           *)
(* interrupted is taken up again (engine-contracts/                        *)
(* durable-sagas-compliance-contracts.ts, "idempotent restart").           *)
Completed(c) == AtC(c, "done") /\ comp[c].i = -1

CompensatedUndidAll ==
  \A c \in Compensations : Completed(c) =>
    \A i \in 0 .. comp[c].k - 1 :
      undos[i] > 0 \/ \E d \in Compensations : Holds(d, i) /\ ~ AtC(d, "dead")

(* A saga that started is announced as completed or failed, unless a call  *)
(* died or the queue failed.                                               *)
Settled ==
  \E i \in 0 .. N : <<"SagaCompleted", i>> \in events \/ <<"SagaFailed", i>> \in events
SagaSettles == saga = "RUNNING" ~> Settled \/ faults > 0 \/ deaths > 0
=============================================================================
