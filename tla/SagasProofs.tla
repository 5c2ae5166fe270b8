----------------------------- MODULE SagasProofs -----------------------------
(* Theorems about Sagas, for every number of steps, every set of calls and *)
(* every bound on faults and deaths.                                       *)
EXTENDS Sagas, TLAPS

USE SagaAssumption

ExecPcs == Over \cup StepSection \cup {"lock", "failed", "complete", "announceDone"}
CompPcs == Over \cup UndoSection \cup {"lock", "failed", "complete", "announceDone"}

(* What a change of a call's state is, at the call and at the others. *)
LEMMA ExecGoes ==
  ASSUME SagaTypeOK, NEW e \in Executions, NEW pc \in ExecPcs, GoE(e, pc)
  PROVE  /\ exec' \in [Executions -> ExecState]
         /\ exec'[e].pc = pc /\ exec'[e].i = exec[e].i /\ exec'[e].n = exec[e].n
         /\ \A f \in Executions \ {e} : exec'[f] = exec[f]
  BY DEF SagaTypeOK, GoE, ExecState, ExecPcs

LEMMA ExecNexts ==
  ASSUME SagaTypeOK, NEW e \in Executions, exec[e].i < N, NextStep(e)
  PROVE  /\ exec' \in [Executions -> ExecState]
         /\ exec'[e].pc = IF exec[e].i + 1 < N THEN "lock" ELSE "complete"
         /\ exec'[e].i = exec[e].i + 1 /\ exec'[e].n = exec[e].n
         /\ \A f \in Executions \ {e} : exec'[f] = exec[f]
<1> DEFINE S == [pc |-> IF exec[e].i + 1 < N THEN "lock" ELSE "complete",
                 i |-> exec[e].i + 1, n |-> exec[e].n]
<1>1. S \in ExecState
  BY DEF SagaTypeOK, ExecState
<1>2. exec' = [exec EXCEPT ![e] = S]
  BY DEF NextStep
<1> QED
  BY <1>1, <1>2 DEF SagaTypeOK

LEMMA ExecCounts ==
  ASSUME SagaTypeOK, NEW e \in Executions, exec[e].n < N,
         exec' = [exec EXCEPT ![e].pc = AfterBody, ![e].n = @ + 1]
  PROVE  /\ exec' \in [Executions -> ExecState]
         /\ exec'[e].pc = "checkpoint" /\ exec'[e].i = exec[e].i /\ exec'[e].n = exec[e].n + 1
         /\ \A f \in Executions \ {e} : exec'[f] = exec[f]
  BY DEF SagaTypeOK, AfterBody, ExecState, StepSection

LEMMA CompGoes ==
  ASSUME SagaTypeOK, NEW c \in Compensations, NEW pc \in CompPcs, GoC(c, pc)
  PROVE  /\ comp' \in [Compensations -> CompState]
         /\ comp'[c].pc = pc
         /\ comp'[c].i = comp[c].i /\ comp'[c].n = comp[c].n /\ comp'[c].k = comp[c].k
         /\ \A d \in Compensations \ {c} : comp'[d] = comp[d]
  BY DEF SagaTypeOK, GoC, CompState, CompPcs

LEMMA CompNexts ==
  ASSUME SagaTypeOK, NEW c \in Compensations, NEW n \in 0 .. N, comp[c].i >= 0, NextUndo(c, n)
  PROVE  /\ comp' \in [Compensations -> CompState]
         /\ comp'[c].pc = IF comp[c].i = 0 THEN "complete" ELSE "lock"
         /\ comp'[c].i = comp[c].i - 1 /\ comp'[c].n = n /\ comp'[c].k = comp[c].k
         /\ \A d \in Compensations \ {c} : comp'[d] = comp[d]
<1> DEFINE S == [pc |-> IF comp[c].i = 0 THEN "complete" ELSE "lock",
                 i |-> comp[c].i - 1, n |-> n, k |-> comp[c].k]
<1>1. S \in CompState
  BY DEF SagaTypeOK, CompState
<1>2. comp' = [comp EXCEPT ![c] = S]
  BY DEF NextUndo
<1> QED
  BY <1>1, <1>2 DEF SagaTypeOK

LEMMA CompCounts ==
  ASSUME SagaTypeOK, NEW c \in Compensations, comp[c].n < N,
         comp' = [comp EXCEPT ![c].pc = "record", ![c].n = @ + 1]
  PROVE  /\ comp' \in [Compensations -> CompState]
         /\ comp'[c].pc = "record"
         /\ comp'[c].i = comp[c].i /\ comp'[c].n = comp[c].n + 1 /\ comp'[c].k = comp[c].k
         /\ \A d \in Compensations \ {c} : comp'[d] = comp[d]
  BY DEF SagaTypeOK, CompState, UndoSection

-----------------------------------------------------------------------------
(* The inductive invariant.  One execution at most is past the version pin *)
(* (it owns the saga), and where it is says which steps ran.               *)
Started(e) == exec[e].pc \notin {"idle", "refused"}

OneOwner == \A e, f \in Executions : Started(e) /\ Started(f) => e = f

NotBegun ==
  /\ saga = "none" <=> \A e \in Executions : ~ Started(e)
  /\ saga = "none" => \A j \in Steps : runs[j] = 0 /\ j \notin locks
  /\ \A e \in Executions : AtE(e, "idle") => exec[e].i = 0 /\ exec[e].n = 0

BeforeBody == {"lock", "register", "body", "failed"}
BodyRan == {"checkpoint", "announce", "release"}
AllRan == {"complete", "announceDone"}

Sound(e) ==
  /\ exec[e].pc \in BeforeBody => exec[e].i < N /\ exec[e].n = exec[e].i /\ runs[exec[e].i] = 0
  /\ exec[e].pc \in BodyRan =>
       exec[e].i < N /\ exec[e].n = exec[e].i + 1 /\ runs[exec[e].i] = 1
  /\ exec[e].pc \in AllRan => exec[e].i = N /\ exec[e].n = N
  /\ AtE(e, "body") => exec[e].i \in registry
  /\ \A j \in Steps :
       /\ j < exec[e].i => runs[j] = 1
       /\ j > exec[e].i => runs[j] = 0
       /\ runs[j] <= 1
       /\ runs[j] = 1 => j \in registry
       /\ j \in locks => j = exec[e].i /\ ~ AtE(e, "lock")

OwnerSound == \A e \in Executions : Started(e) => Sound(e)

(* A failure is announced last of all; only then is anything undone.       *)
SagaHasFailed == \E s \in Steps : <<"SagaFailed", s>> \in events
FailedIsOver == SagaHasFailed => \E e \in Executions : AtE(e, "done")
UndoneAfterFailure ==
  (\E c \in Compensations : ~ AtC(c, "idle")) \/ (\E i \in Steps : undos[i] > 0) => SagaHasFailed

(* How many steps a compensation has counted, by where it is. *)
UndoCounted ==
  \A c \in Compensations :
    /\ comp[c].pc \in {"lock", "body", "failed"} =>
         comp[c].i >= 0 /\ comp[c].n + comp[c].i + 1 = comp[c].k
    /\ comp[c].pc \in {"record", "announce", "release"} =>
         comp[c].i >= 0 /\ comp[c].n + comp[c].i = comp[c].k

Inv ==
  /\ SagaTypeOK
  /\ OneOwner /\ NotBegun /\ OwnerSound
  /\ FailedIsOver /\ UndoneAfterFailure /\ CompletedRanAll
  /\ UndoCounted /\ UndoLocks

LEMMA InvInit == Init => Inv
<1> SUFFICES ASSUME Init PROVE Inv
  OBVIOUS
<1>1. SagaTypeOK
  BY DEF Init, SagaTypeOK, ExecState, CompState, Over, Steps
<1>2. OneOwner /\ NotBegun /\ OwnerSound
  BY DEF Init, OneOwner, NotBegun, OwnerSound, Started, AtE
<1>3. FailedIsOver /\ UndoneAfterFailure /\ CompletedRanAll
  BY DEF Init, FailedIsOver, UndoneAfterFailure, SagaHasFailed, CompletedRanAll, AtC
<1>4. UndoCounted
  BY DEF Init, UndoCounted
<1>5. UndoLocks
  BY DEF Init, UndoLocks, InUndo, UndoSection
<1> QED
  BY <1>1, <1>2, <1>3, <1>4, <1>5 DEF Inv

-----------------------------------------------------------------------------
(* The state stays well formed. *)
LEMMA FaultType ==
  ASSUME SagaTypeOK, NEW d, Store(d) \/ Emit(d)
  PROVE  faults' \in Nat
  BY DEF SagaTypeOK, Store, Emit, Fault

LEMMA TypeStep ==
  ASSUME Inv, Next
  PROVE  SagaTypeOK'
<1> USE DEF SagaTypeOK
<1>0. SagaTypeOK
  BY DEF Inv
<1>1. ASSUME NEW e \in Executions, Begin(e) \/ AlreadyRunning(e) PROVE SagaTypeOK'
  <2>1. CASE Begin(e)
    BY <1>0, <2>1, ExecGoes DEF Begin, ExecPcs, history
  <2>2. CASE AlreadyRunning(e)
    BY <1>0, <2>2, ExecGoes, FaultType DEF AlreadyRunning, ExecPcs, Over, sagaVars, history
  <2> QED
    BY <1>1, <2>1, <2>2
<1>2. ASSUME NEW e \in Executions, ExecStep(e) PROVE SagaTypeOK'
  <2>0. Started(e) /\ Sound(e)
    BY <1>2 DEF Inv, OwnerSound, ExecStep, Started, AtE, LockStep, RegisterCompensation, RunBody,
       BodyFails, AnnounceFailed, StoreCheckpoint, AnnounceStep, ReleaseStep, StoreCompleted,
       AnnounceCompleted
  <2>i. exec[e].i \in 0 .. N
    BY <1>0 DEF ExecState
  <2>1. CASE LockStep(e)
    <3>1. exec[e].i < N
      BY <2>0, <2>1 DEF LockStep, Sound, AtE, BeforeBody
    <3>2. exec' \in [Executions -> ExecState]
      BY <1>0, <2>1, <3>1, ExecGoes, ExecNexts DEF LockStep, ExecPcs, StepSection
    <3> QED
      BY <1>0, <2>1, <2>i, <3>1, <3>2 DEF LockStep, Steps, StepLock, sagaVars, history
  <2>2. CASE RegisterCompensation(e)
    <3>1. exec[e].i \in Steps
      BY <2>0, <2>2, <2>i DEF RegisterCompensation, Sound, AtE, BeforeBody, Steps
    <3> QED
      BY <1>0, <2>2, <3>1, ExecGoes DEF RegisterCompensation, ExecPcs, StepSection, history
  <2>3. CASE RunBody(e)
    <3>1. exec[e].i < N /\ exec[e].n < N
      BY <2>0, <2>3, <2>i DEF RunBody, Sound, AtE, BeforeBody
    <3>2. exec' \in [Executions -> ExecState]
      BY <1>0, <2>3, <3>1, ExecCounts DEF RunBody
    <3>3. runs' = [runs EXCEPT ![exec[e].i] = @ + 1] /\ exec[e].i \in Steps
      BY <2>3, <2>i, <3>1 DEF RunBody, Steps
    <3>4. runs' \in [Steps -> Nat]
      BY <1>0, <3>3
    <3> QED
      BY <1>0, <2>3, <3>2, <3>4, FaultType DEF RunBody, sagaVars
  <2>4. CASE BodyFails(e)
    BY <1>0, <2>4, ExecGoes DEF BodyFails, AfterFailure, ExecPcs, sagaVars, history
  <2>5. CASE AnnounceFailed(e)
    BY <1>0, <2>5, ExecGoes, FaultType DEF AnnounceFailed, ExecPcs, Over, sagaVars, history
  <2>6. CASE StoreCheckpoint(e)
    BY <1>0, <2>6, ExecGoes, FaultType DEF StoreCheckpoint, ExecPcs, StepSection, sagaVars, history
  <2>7. CASE AnnounceStep(e)
    BY <1>0, <2>7, ExecGoes, FaultType DEF AnnounceStep, ExecPcs, StepSection, sagaVars, history
  <2>8. CASE ReleaseStep(e)
    <3>1. exec[e].i < N
      BY <2>0, <2>8 DEF ReleaseStep, Sound, AtE, BodyRan
    <3> QED
      BY <1>0, <2>8, <3>1, ExecNexts DEF ReleaseStep, sagaVars, history
  <2>9. CASE StoreCompleted(e)
    BY <1>0, <2>9, ExecGoes, FaultType DEF StoreCompleted, ExecPcs, sagaVars, history
  <2>10. CASE AnnounceCompleted(e)
    BY <1>0, <2>10, ExecGoes, FaultType DEF AnnounceCompleted, ExecPcs, Over, sagaVars, history
  <2> QED
    BY <1>2, <2>1, <2>2, <2>3, <2>4, <2>5, <2>6, <2>7, <2>8, <2>9, <2>10 DEF ExecStep
<1>3. ASSUME NEW c \in Compensations, NEW k \in 0 .. N, Compensate(c, k) PROVE SagaTypeOK'
  <2>1. [pc |-> IF k = 0 THEN "announceDone" ELSE "lock", i |-> First(k), n |-> 0, k |-> k]
          \in CompState
    BY DEF CompState, First
  <2> QED
    BY <1>0, <1>3, <2>1 DEF Compensate, sagaVars, history
<1>4. ASSUME NEW c \in Compensations, CompStep(c) PROVE SagaTypeOK'
  <2>i. comp[c].i \in -1 .. N - 1 /\ comp[c].n \in 0 .. N /\ comp[c].k \in 0 .. N
    BY <1>0 DEF CompState
  <2>0. /\ comp[c].pc \in {"lock", "body", "failed"} =>
             comp[c].i >= 0 /\ comp[c].n + comp[c].i + 1 = comp[c].k
        /\ comp[c].pc \in {"record", "announce", "release"} =>
             comp[c].i >= 0 /\ comp[c].n + comp[c].i = comp[c].k
    BY DEF Inv, UndoCounted
  <2>1. CASE LockUndo(c)
    <3>1. comp[c].i \in Steps
      BY <2>0, <2>1, <2>i DEF LockUndo, AtC, Steps
    <3> QED
      BY <1>0, <2>1, <3>1, CompGoes DEF LockUndo, CompPcs, UndoSection, history
  <2>2. CASE SkipUndo(c)
    <3>1. comp[c].i >= 0 /\ comp[c].n + 1 \in 0 .. N
      BY <2>0, <2>2, <2>i DEF SkipUndo, AtC
    <3> QED
      BY <1>0, <2>2, <3>1, CompNexts DEF SkipUndo, sagaVars, history
  <2>3. CASE RunUndo(c)
    <3>1. comp[c].i \in Steps /\ comp[c].n < N
      BY <2>0, <2>3, <2>i DEF RunUndo, AtC, Steps
    <3>2. comp' \in [Compensations -> CompState]
      BY <1>0, <2>3, <3>1, CompCounts DEF RunUndo
    <3>3. undos' \in [Steps -> Nat]
      BY <1>0, <2>3, <3>1 DEF RunUndo
    <3> QED
      BY <1>0, <2>3, <3>2, <3>3, FaultType DEF RunUndo, sagaVars
  <2>4. CASE UndoFails(c)
    BY <1>0, <2>4, CompGoes DEF UndoFails, CompPcs, sagaVars, history
  <2>5. CASE AnnounceUndoFailed(c)
    BY <1>0, <2>5, CompGoes, FaultType DEF AnnounceUndoFailed, CompPcs, Over, sagaVars, history
  <2>6. CASE StoreRecord(c)
    BY <1>0, <2>6, CompGoes, FaultType DEF StoreRecord, CompPcs, UndoSection, sagaVars, history
  <2>7. CASE AnnounceUndo(c)
    BY <1>0, <2>7, CompGoes, FaultType DEF AnnounceUndo, CompPcs, UndoSection, sagaVars, history
  <2>8. CASE ReleaseUndo(c)
    <3>1. comp[c].i >= 0
      BY <2>0, <2>8 DEF ReleaseUndo, AtC
    <3> QED
      BY <1>0, <2>8, <2>i, <3>1, CompNexts DEF ReleaseUndo, sagaVars, history
  <2>9. CASE StoreCompensated(c)
    BY <1>0, <2>9, CompGoes, FaultType DEF StoreCompensated, CompPcs, sagaVars, history
  <2>10. CASE AnnounceCompensated(c)
    BY <1>0, <2>10, CompGoes, FaultType DEF AnnounceCompensated, CompPcs, Over, sagaVars, history
  <2> QED
    BY <1>4, <2>1, <2>2, <2>3, <2>4, <2>5, <2>6, <2>7, <2>8, <2>9, <2>10 DEF CompStep
<1>5. ASSUME Die PROVE SagaTypeOK'
  BY <1>0, <1>5, ExecGoes, CompGoes DEF Die, ExecPcs, CompPcs, Over, sagaVars, history
<1> QED
  BY <1>1, <1>2, <1>3, <1>4, <1>5 DEF Next

-----------------------------------------------------------------------------
(* The execution that owns the saga. *)
LEMMA OnlyOwnerSteps ==
  ASSUME Inv, NEW e \in Executions, ExecStep(e)
  PROVE  /\ Started(e) /\ Sound(e) /\ saga # "none"
         /\ \A f \in Executions \ {e} : ~ Started(f)
<1>1. Started(e)
  BY DEF ExecStep, Started, AtE, LockStep, RegisterCompensation, RunBody, BodyFails,
     AnnounceFailed, StoreCheckpoint, AnnounceStep, ReleaseStep, StoreCompleted,
     AnnounceCompleted
<1> QED
  BY <1>1 DEF Inv, OneOwner, NotBegun, OwnerSound

LEMMA OwnerMoves ==
  ASSUME Inv, NEW e \in Executions, ExecStep(e),
         \A f \in Executions \ {e} : exec'[f] = exec[f],
         Started(e)', Sound(e)', saga' = saga
  PROVE  (OneOwner /\ NotBegun /\ OwnerSound)'
<1>0. /\ Started(e) /\ saga # "none"
      /\ \A f \in Executions \ {e} : ~ Started(f)
  BY OnlyOwnerSteps
<1>1. \A f \in Executions \ {e} : ~ Started(f)'
  BY <1>0 DEF Started
<1>2. OneOwner'
  BY <1>1 DEF OneOwner
<1>3. NotBegun'
  BY <1>0, <1>1 DEF Inv, NotBegun, AtE, Started
<1>4. OwnerSound'
  BY <1>1 DEF OwnerSound
<1> QED
  BY <1>2, <1>3, <1>4

(* A step that leaves the executions and what they wrote alone. *)
LEMMA OwnerKept ==
  ASSUME Inv, UNCHANGED <<saga, exec, runs, registry>>,
         \A j \in Steps : j \in locks' <=> j \in locks
  PROVE  (OneOwner /\ NotBegun /\ OwnerSound)'
<1>1. ASSUME NEW e \in Executions PROVE Started(e)' = Started(e) /\ (Sound(e) => Sound(e)')
  BY DEF Started, Sound, AtE
<1>2. OneOwner' /\ OwnerSound'
  BY <1>1 DEF Inv, OneOwner, OwnerSound
<1>3. NotBegun'
  BY <1>1 DEF Inv, NotBegun, AtE
<1> QED
  BY <1>2, <1>3

LEMMA OwnerStep ==
  ASSUME Inv, Next
  PROVE  (OneOwner /\ NotBegun /\ OwnerSound)'
<1>0. SagaTypeOK /\ OneOwner /\ NotBegun /\ OwnerSound
  BY DEF Inv
<1>1. ASSUME NEW e \in Executions, Begin(e) PROVE (OneOwner /\ NotBegun /\ OwnerSound)'
  <2>1. /\ exec'[e].pc = "lock" /\ exec'[e].i = 0 /\ exec'[e].n = 0
        /\ \A f \in Executions \ {e} : exec'[f] = exec[f]
        /\ saga' = "RUNNING" /\ UNCHANGED <<runs, registry, locks>>
    BY <1>0, <1>1, ExecGoes DEF Begin, ExecPcs, NotBegun, AtE, history
  <2>2. \A f \in Executions : ~ Started(f)
    BY <1>0, <1>1 DEF Begin, MayStart, NotBegun
  <2>3. \A f \in Executions : Started(f)' <=> f = e
    BY <2>1, <2>2 DEF Started
  <2>4. \A j \in Steps : runs[j] = 0 /\ j \notin locks
    BY <1>0, <1>1 DEF Begin, MayStart, NotBegun
  <2>5. Sound(e)'
    BY <2>1, <2>4 DEF Sound, AtE, Steps, BeforeBody, BodyRan, AllRan
  <2>6. NotBegun'
    BY <1>0, <2>1, <2>3 DEF NotBegun, AtE
  <2> QED
    BY <2>3, <2>5, <2>6 DEF OneOwner, OwnerSound
<1>2. ASSUME NEW e \in Executions, AlreadyRunning(e) PROVE (OneOwner /\ NotBegun /\ OwnerSound)'
  <2>1. /\ exec'[e].pc = "refused"
        /\ \A f \in Executions \ {e} : exec'[f] = exec[f]
        /\ UNCHANGED <<saga, runs, registry, locks>>
    BY <1>0, <1>2, ExecGoes DEF AlreadyRunning, ExecPcs, Over, sagaVars, history
  <2>2. \A f \in Executions : Started(f)' <=> Started(f)
    BY <1>2, <2>1 DEF Started, AlreadyRunning, AtE
  <2>3. ASSUME NEW f \in Executions, Started(f)' PROVE Started(f) /\ Sound(f)'
    <3>1. f # e
      BY <2>1, <2>3 DEF Started
    <3>2. Sound(f)
      BY <1>0, <2>2, <2>3 DEF OwnerSound
    <3> QED
      BY <2>1, <2>2, <2>3, <3>1, <3>2 DEF Sound, AtE
  <2>4. NotBegun'
    BY <1>0, <2>1, <2>2 DEF NotBegun, AtE
  <2> QED
    BY <1>0, <2>2, <2>3, <2>4 DEF OneOwner, OwnerSound
<1>3. ASSUME NEW e \in Executions, ExecStep(e) PROVE (OneOwner /\ NotBegun /\ OwnerSound)'
  <2>0. Started(e) /\ Sound(e)
    BY <1>3, OnlyOwnerSteps
  <2>i. exec[e].i \in 0 .. N /\ exec[e].n \in 0 .. N /\ runs \in [Steps -> Nat]
    BY <1>0 DEF SagaTypeOK, ExecState
  <2>j. exec[e].pc \in BeforeBody \cup BodyRan => exec[e].i \in Steps
    BY <2>0, <2>i DEF Sound, Steps
  <2>1. CASE LockStep(e)
    <3>1. exec[e].i \in Steps /\ exec[e].i \notin locks
      BY <2>0, <2>1, <2>j DEF LockStep, AtE, Sound, BeforeBody
    <3>2. /\ exec'[e].pc = "register" /\ exec'[e].i = exec[e].i /\ exec'[e].n = exec[e].n
          /\ \A f \in Executions \ {e} : exec'[f] = exec[f]
          /\ locks' = locks \cup {exec[e].i} /\ UNCHANGED <<saga, runs, registry>>
      BY <1>0, <2>1, <3>1, ExecGoes DEF LockStep, StepLock, ExecPcs, StepSection, history
    <3>3. Sound(e)'
      BY <2>0, <2>1, <3>2 DEF LockStep, Sound, AtE, BeforeBody, BodyRan, AllRan
    <3> QED
      BY <1>3, <3>2, <3>3, OwnerMoves DEF Started
  <2>2. CASE RegisterCompensation(e)
    <3>1. /\ exec'[e].pc = "body" /\ exec'[e].i = exec[e].i /\ exec'[e].n = exec[e].n
          /\ \A f \in Executions \ {e} : exec'[f] = exec[f]
          /\ registry' = registry \cup {exec[e].i} /\ UNCHANGED <<saga, runs, locks>>
      BY <1>0, <2>2, ExecGoes DEF RegisterCompensation, ExecPcs, StepSection, history
    <3>2. Sound(e)'
      BY <2>0, <2>2, <3>1 DEF RegisterCompensation, Sound, AtE, BeforeBody, BodyRan, AllRan
    <3> QED
      BY <1>3, <3>1, <3>2, OwnerMoves DEF Started
  <2>3. CASE RunBody(e)
    <3>1. exec[e].i \in Steps /\ runs[exec[e].i] = 0 /\ exec[e].n = exec[e].i
          /\ exec[e].i \in registry
      BY <2>0, <2>3, <2>j DEF RunBody, AtE, Sound, BeforeBody
    <3>n. exec[e].n < N
      BY <3>1 DEF Steps
    <3>2. /\ exec'[e].pc = "checkpoint" /\ exec'[e].i = exec[e].i /\ exec'[e].n = exec[e].n + 1
          /\ \A f \in Executions \ {e} : exec'[f] = exec[f]
      BY <1>0, <2>3, <3>n, ExecCounts DEF RunBody
    <3>3. runs' = [runs EXCEPT ![exec[e].i] = @ + 1] /\ UNCHANGED <<saga, registry, locks>>
      BY <2>3 DEF RunBody, sagaVars
    <3>4. runs'[exec[e].i] = 1 /\ \A j \in Steps \ {exec[e].i} : runs'[j] = runs[j]
      BY <2>i, <3>1, <3>3
    <3>5. Sound(e)'
      BY <2>0, <2>i, <3>1, <3>2, <3>3, <3>4 DEF Sound, AtE, Steps, BeforeBody, BodyRan, AllRan
    <3> QED
      BY <1>3, <3>2, <3>3, <3>5, OwnerMoves DEF Started
  <2>4. CASE BodyFails(e)
    <3>1. /\ exec'[e].pc = "failed" /\ exec'[e].i = exec[e].i /\ exec'[e].n = exec[e].n
          /\ \A f \in Executions \ {e} : exec'[f] = exec[f]
          /\ UNCHANGED <<saga, runs, registry, locks>>
      BY <1>0, <2>4, ExecGoes DEF BodyFails, AfterFailure, ExecPcs, sagaVars, history
    <3>2. Sound(e)'
      BY <2>0, <2>4, <3>1 DEF BodyFails, Sound, AtE, BeforeBody, BodyRan, AllRan
    <3> QED
      BY <1>3, <3>1, <3>2, OwnerMoves DEF Started
  <2>5. CASE AnnounceFailed(e)
    <3>1. /\ exec'[e].pc = "done" /\ exec'[e].i = exec[e].i /\ exec'[e].n = exec[e].n
          /\ \A f \in Executions \ {e} : exec'[f] = exec[f]
          /\ UNCHANGED <<saga, runs, registry, locks>>
      BY <1>0, <2>5, ExecGoes DEF AnnounceFailed, ExecPcs, Over, sagaVars, history
    <3>2. Sound(e)'
      BY <2>0, <2>5, <3>1 DEF AnnounceFailed, Sound, AtE, BeforeBody, BodyRan, AllRan
    <3> QED
      BY <1>3, <3>1, <3>2, OwnerMoves DEF Started
  <2>6. CASE StoreCheckpoint(e)
    <3>1. /\ exec'[e].pc = "announce" /\ exec'[e].i = exec[e].i /\ exec'[e].n = exec[e].n
          /\ \A f \in Executions \ {e} : exec'[f] = exec[f]
          /\ UNCHANGED <<saga, runs, registry, locks>>
      BY <1>0, <2>6, ExecGoes DEF StoreCheckpoint, ExecPcs, StepSection, sagaVars, history
    <3>2. Sound(e)'
      BY <2>0, <2>6, <3>1 DEF StoreCheckpoint, Sound, AtE, BeforeBody, BodyRan, AllRan
    <3> QED
      BY <1>3, <3>1, <3>2, OwnerMoves DEF Started
  <2>7. CASE AnnounceStep(e)
    <3>1. /\ exec'[e].pc = "release" /\ exec'[e].i = exec[e].i /\ exec'[e].n = exec[e].n
          /\ \A f \in Executions \ {e} : exec'[f] = exec[f]
          /\ UNCHANGED <<saga, runs, registry, locks>>
      BY <1>0, <2>7, ExecGoes DEF AnnounceStep, ExecPcs, StepSection, sagaVars, history
    <3>2. Sound(e)'
      BY <2>0, <2>7, <3>1 DEF AnnounceStep, Sound, AtE, BeforeBody, BodyRan, AllRan
    <3> QED
      BY <1>3, <3>1, <3>2, OwnerMoves DEF Started
  <2>8. CASE ReleaseStep(e)
    <3>1. exec[e].i \in Steps /\ runs[exec[e].i] = 1 /\ exec[e].n = exec[e].i + 1
      BY <2>0, <2>8, <2>j DEF ReleaseStep, AtE, Sound, BodyRan
    <3>2. /\ exec'[e].pc = IF exec[e].i + 1 < N THEN "lock" ELSE "complete"
          /\ exec'[e].i = exec[e].i + 1 /\ exec'[e].n = exec[e].n
          /\ \A f \in Executions \ {e} : exec'[f] = exec[f]
          /\ locks' = locks \ {exec[e].i} /\ UNCHANGED <<saga, runs, registry>>
      BY <1>0, <2>8, <3>1, ExecNexts DEF ReleaseStep, StepLock, Steps, history
    <3>3. \A j \in Steps : j \notin locks'
      BY <2>0, <3>2 DEF Sound
    <3>4. exec'[e].i = N \/ (exec'[e].i \in Steps /\ runs[exec'[e].i] = 0)
      BY <2>0, <3>1, <3>2 DEF Sound, Steps
    <3>5. Sound(e)'
      BY <2>0, <2>i, <3>1, <3>2, <3>3, <3>4 DEF Sound, AtE, Steps, BeforeBody, BodyRan, AllRan
    <3> QED
      BY <1>3, <3>2, <3>5, OwnerMoves DEF Started
  <2>9. CASE StoreCompleted(e)
    <3>1. /\ exec'[e].pc = "announceDone" /\ exec'[e].i = exec[e].i /\ exec'[e].n = exec[e].n
          /\ \A f \in Executions \ {e} : exec'[f] = exec[f]
          /\ UNCHANGED <<saga, runs, registry, locks>>
      BY <1>0, <2>9, ExecGoes DEF StoreCompleted, ExecPcs, sagaVars, history
    <3>2. Sound(e)'
      BY <2>0, <2>9, <3>1 DEF StoreCompleted, Sound, AtE, BeforeBody, BodyRan, AllRan
    <3> QED
      BY <1>3, <3>1, <3>2, OwnerMoves DEF Started
  <2>10. CASE AnnounceCompleted(e)
    <3>1. /\ exec'[e].pc = "done" /\ exec'[e].i = exec[e].i /\ exec'[e].n = exec[e].n
          /\ \A f \in Executions \ {e} : exec'[f] = exec[f]
          /\ UNCHANGED <<saga, runs, registry, locks>>
      BY <1>0, <2>10, ExecGoes DEF AnnounceCompleted, ExecPcs, Over, sagaVars, history
    <3>2. Sound(e)'
      BY <2>0, <2>10, <3>1 DEF AnnounceCompleted, Sound, AtE, BeforeBody, BodyRan, AllRan
    <3> QED
      BY <1>3, <3>1, <3>2, OwnerMoves DEF Started
  <2> QED
    BY <1>3, <2>1, <2>2, <2>3, <2>4, <2>5, <2>6, <2>7, <2>8, <2>9, <2>10 DEF ExecStep
<1>4. ASSUME NEW c \in Compensations, NEW k \in 0 .. N, Compensate(c, k)
      PROVE  (OneOwner /\ NotBegun /\ OwnerSound)'
  BY <1>4, OwnerKept DEF Compensate, sagaVars, history
<1>5. ASSUME NEW c \in Compensations, CompStep(c) PROVE (OneOwner /\ NotBegun /\ OwnerSound)'
  <2>1. CompLock(comp[c].i) \notin Steps \/ comp[c].pc \notin {"lock", "release"}
    <3>1. comp[c].pc \in {"lock", "release"} => comp[c].i \in 0 .. N - 1
      BY <1>0 DEF Inv, UndoCounted, SagaTypeOK, CompState
    <3> QED
      BY <3>1 DEF CompLock, Steps
  <2>2. UNCHANGED <<saga, exec, runs, registry>>
    BY <1>5 DEF CompStep, LockUndo, SkipUndo, RunUndo, UndoFails, AnnounceUndoFailed, StoreRecord,
       AnnounceUndo, ReleaseUndo, StoreCompensated, AnnounceCompensated, sagaVars, history
  <2>3. \A j \in Steps : j \in locks' <=> j \in locks
    BY <1>5, <2>1 DEF CompStep, LockUndo, SkipUndo, RunUndo, UndoFails, AnnounceUndoFailed,
       StoreRecord, AnnounceUndo, ReleaseUndo, StoreCompensated, AnnounceCompensated, sagaVars, AtC
  <2> QED
    BY <2>2, <2>3, OwnerKept
<1>6. ASSUME Die PROVE (OneOwner /\ NotBegun /\ OwnerSound)'
  <2>1. ASSUME NEW e \in Executions, exec[e].pc \notin Over, GoE(e, "dead")
        PROVE  (OneOwner /\ NotBegun /\ OwnerSound)'
    <3>1. /\ exec'[e].pc = "dead" /\ exec'[e].i = exec[e].i /\ exec'[e].n = exec[e].n
          /\ \A f \in Executions \ {e} : exec'[f] = exec[f]
          /\ UNCHANGED <<saga, runs, registry, locks>>
      BY <1>0, <1>6, <2>1, ExecGoes DEF Die, ExecPcs, Over, sagaVars, history
    <3>2. \A f \in Executions : Started(f)' <=> Started(f)
      BY <2>1, <3>1 DEF Started, Over
    <3>3. ASSUME NEW f \in Executions, Started(f) PROVE Sound(f)'
      <4>1. Sound(f)
        BY <1>0, <3>3 DEF OwnerSound
      <4>2. CASE f = e
        BY <3>1, <4>1, <4>2 DEF Sound, AtE, BeforeBody, BodyRan, AllRan
      <4>3. CASE f # e
        BY <3>1, <4>1, <4>3 DEF Sound, AtE
      <4> QED
        BY <4>2, <4>3
    <3>4. NotBegun'
      BY <1>0, <3>1, <3>2 DEF NotBegun, AtE
    <3> QED
      BY <1>0, <3>2, <3>3, <3>4 DEF OneOwner, OwnerSound
  <2>2. CASE UNCHANGED exec
    BY <1>6, <2>2, OwnerKept DEF Die, sagaVars, history
  <2> QED
    BY <1>6, <2>1, <2>2 DEF Die
<1> QED
  BY <1>1, <1>2, <1>3, <1>4, <1>5, <1>6 DEF Next

-----------------------------------------------------------------------------
(* A step that announces neither end of the saga, runs no body and undoes  *)
(* nothing.                                                                *)
EventsKept ==
  /\ \A s : <<"SagaFailed", s>> \in events' <=> <<"SagaFailed", s>> \in events
  /\ \A n : <<"SagaCompleted", n>> \in events' <=> <<"SagaCompleted", n>> \in events

LEMMA OtherEvent ==
  ASSUME NEW x,
         \/ Store(x)
         \/ Emit(<<"SagaStepExecuted", x>>) \/ Emit(<<"CompensationFailed", x>>)
         \/ Emit(<<"CompensationStepExecuted", x>>) \/ Emit(<<"CompensationCompleted", x>>)
  PROVE  EventsKept
  BY DEF Store, Emit, EventsKept

(* Whoever undoes the saga announces neither end of it. *)
LEMMA UndoEvents ==
  ASSUME NEW c \in Compensations, (\E k \in 0 .. N : Compensate(c, k)) \/ CompStep(c)
  PROVE  EventsKept
<1>1. CASE UNCHANGED events
  BY <1>1 DEF EventsKept
<1>2. CASE AnnounceUndoFailed(c)
  BY <1>2, OtherEvent DEF AnnounceUndoFailed, EventsKept
<1>3. CASE AnnounceUndo(c)
  BY <1>3, OtherEvent DEF AnnounceUndo, EventsKept
<1>4. CASE AnnounceCompensated(c)
  BY <1>4, OtherEvent DEF AnnounceCompensated, EventsKept
<1> QED
  BY <1>1, <1>2, <1>3, <1>4
  DEF Compensate, CompStep, LockUndo, SkipUndo, RunUndo, UndoFails, StoreRecord, ReleaseUndo,
      StoreCompensated, Store

LEMMA EventFrame ==
  ASSUME Inv, EventsKept, runs' = runs,
         \A e \in Executions : AtE(e, "done") => AtE(e, "done")',
         SagaHasFailed \/ UNCHANGED <<comp, undos>>
  PROVE  (FailedIsOver /\ UndoneAfterFailure /\ CompletedRanAll)'
<1>1. SagaHasFailed' = SagaHasFailed
  BY DEF EventsKept, SagaHasFailed
<1>2. FailedIsOver'
  BY <1>1 DEF Inv, FailedIsOver
<1>3. UndoneAfterFailure'
  BY <1>1 DEF Inv, UndoneAfterFailure, AtC
<1>4. CompletedRanAll'
  BY DEF Inv, EventsKept, CompletedRanAll
<1> QED
  BY <1>2, <1>3, <1>4

(* While the owner is at work the saga has not failed. *)
LEMMA NotFailedYet ==
  ASSUME Inv, NEW e \in Executions, ExecStep(e)
  PROVE  ~ SagaHasFailed /\ ~ AtE(e, "done")
<1>1. Started(e) /\ (\A f \in Executions \ {e} : ~ Started(f))
  BY OnlyOwnerSteps
<1>2. ~ AtE(e, "done")
  BY DEF ExecStep, AtE, LockStep, RegisterCompensation, RunBody, BodyFails, AnnounceFailed,
     StoreCheckpoint, AnnounceStep, ReleaseStep, StoreCompleted, AnnounceCompleted
<1>3. \A f \in Executions : AtE(f, "done") => Started(f)
  BY DEF AtE, Started
<1> QED
  BY <1>1, <1>2, <1>3 DEF Inv, FailedIsOver

LEMMA EventStep ==
  ASSUME Inv, Next
  PROVE  (FailedIsOver /\ UndoneAfterFailure /\ CompletedRanAll)'
<1> DEFINE Ends == (FailedIsOver /\ UndoneAfterFailure /\ CompletedRanAll)'
<1>0. SagaTypeOK
  BY DEF Inv
<1>d. ASSUME NEW e \in Executions, \A f \in Executions \ {e} : exec'[f] = exec[f], ~ AtE(e, "done")
      PROVE  \A f \in Executions : AtE(f, "done") => AtE(f, "done")'
  BY <1>d DEF AtE
<1>1. ASSUME NEW e \in Executions, Begin(e) \/ AlreadyRunning(e) PROVE Ends
  <2>1. /\ \A f \in Executions \ {e} : exec'[f] = exec[f]
        /\ ~ AtE(e, "done") /\ UNCHANGED <<comp, undos, runs>>
    BY <1>0, <1>1, ExecGoes DEF Begin, AlreadyRunning, AtE, ExecPcs, Over, history
  <2>2. EventsKept
    <3>1. \A s : <<"SagaFailed", s>> # <<"SagaAlreadyRunning">>
                 /\ <<"SagaCompleted", s>> # <<"SagaAlreadyRunning">>
      OBVIOUS
    <3>2. events' = events \/ events' = events \cup {<<"SagaAlreadyRunning">>}
      BY <1>1 DEF Begin, AlreadyRunning, Emit
    <3> QED
      BY <3>1, <3>2 DEF EventsKept
  <2> QED
    BY <1>d, <2>1, <2>2, EventFrame
<1>2. ASSUME NEW e \in Executions, ExecStep(e) PROVE Ends
  <2>0. ~ SagaHasFailed /\ ~ AtE(e, "done") /\ Started(e) /\ Sound(e)
    BY <1>2, NotFailedYet, OnlyOwnerSteps
  <2>u. (\A c \in Compensations : AtC(c, "idle")) /\ (\A i \in Steps : ~ (undos[i] > 0))
    BY <2>0 DEF Inv, UndoneAfterFailure
  <2>c. UNCHANGED <<comp, undos>>
    BY <1>2 DEF ExecStep, LockStep, RegisterCompensation, RunBody, BodyFails, AnnounceFailed,
       StoreCheckpoint, AnnounceStep, ReleaseStep, StoreCompleted, AnnounceCompleted, history
  <2>i. exec[e].i \in 0 .. N /\ exec[e].n \in 0 .. N
    BY <1>0 DEF SagaTypeOK, ExecState
  <2>o. \A f \in Executions \ {e} : exec'[f] = exec[f]
    <3>1. LockStep(e) \/ ReleaseStep(e) => exec[e].i < N
      BY <2>0 DEF LockStep, ReleaseStep, Sound, AtE, BeforeBody, BodyRan
    <3>2. RunBody(e) => exec[e].n < N
      BY <2>0, <2>i DEF RunBody, Sound, AtE, BeforeBody
    <3> QED
      BY <1>0, <1>2, <3>1, <3>2, ExecGoes, ExecNexts, ExecCounts
      DEF ExecStep, LockStep, RegisterCompensation, RunBody, BodyFails, AnnounceFailed,
       StoreCheckpoint, AnnounceStep, ReleaseStep, StoreCompleted, AnnounceCompleted,
       ExecPcs, Over, StepSection, AfterFailure
  <2>1. CASE RunBody(e)
    <3>1. EventsKept
      BY <2>1, OtherEvent DEF RunBody, EventsKept, Store
    <3>2. \A n : <<"SagaCompleted", n>> \in events /\ n \in 0 .. N => FALSE
      <4>1. runs[exec[e].i] = 0 /\ exec[e].i \in Steps
        BY <2>0, <2>1, <2>i DEF RunBody, Sound, AtE, BeforeBody, Steps
      <4> QED
        BY <4>1 DEF Inv, CompletedRanAll
    <3>3. ~ SagaHasFailed'
      BY <2>0, <3>1 DEF EventsKept, SagaHasFailed
    <3>4. UndoneAfterFailure'
      BY <2>u, <2>c DEF UndoneAfterFailure, AtC
    <3>5. CompletedRanAll'
      BY <3>1, <3>2 DEF EventsKept, CompletedRanAll
    <3> QED
      BY <3>3, <3>4, <3>5 DEF FailedIsOver
  <2>2. CASE AnnounceFailed(e)
    <3>1. exec'[e].pc = "done" /\ runs' = runs
      BY <1>0, <2>2, ExecGoes DEF AnnounceFailed, ExecPcs, Over, history
    <3>2. FailedIsOver'
      BY <3>1 DEF FailedIsOver, AtE
    <3>3. UndoneAfterFailure'
      BY <2>u, <2>c DEF UndoneAfterFailure, AtC
    <3>4. \A n : <<"SagaCompleted", n>> \in events' => <<"SagaCompleted", n>> \in events
      BY <2>2 DEF AnnounceFailed, Emit
    <3>5. CompletedRanAll'
      BY <3>1, <3>4 DEF Inv, CompletedRanAll
    <3> QED
      BY <3>2, <3>3, <3>5
  <2>3. CASE AnnounceCompleted(e)
    <3>1. exec[e].n = N /\ (\A j \in Steps : runs[j] = 1) /\ runs' = runs
      BY <2>0, <2>3 DEF AnnounceCompleted, AtE, Sound, AllRan, Steps, history
    <3>2. \A s : <<"SagaFailed", s>> \in events' => <<"SagaFailed", s>> \in events
      BY <2>3 DEF AnnounceCompleted, Emit
    <3>3. ~ SagaHasFailed'
      BY <2>0, <3>2 DEF SagaHasFailed
    <3>4. UndoneAfterFailure'
      BY <2>u, <2>c DEF UndoneAfterFailure, AtC
    <3>5. \A n : <<"SagaCompleted", n>> \in events' => n = N \/ <<"SagaCompleted", n>> \in events
      BY <2>3, <3>1 DEF AnnounceCompleted, Emit
    <3>6. CompletedRanAll'
      BY <3>1, <3>5 DEF Inv, CompletedRanAll
    <3> QED
      BY <3>3, <3>4, <3>6 DEF FailedIsOver
  <2>4. CASE ~ RunBody(e) /\ ~ AnnounceFailed(e) /\ ~ AnnounceCompleted(e)
    <3>1. EventsKept
      <4>1. CASE UNCHANGED events
        BY <4>1 DEF EventsKept
      <4>2. CASE StoreCheckpoint(e)
        BY <4>2 DEF StoreCheckpoint, Store, EventsKept
      <4>3. CASE AnnounceStep(e)
        BY <4>3, OtherEvent DEF AnnounceStep, EventsKept
      <4>4. CASE StoreCompleted(e)
        BY <4>4 DEF StoreCompleted, Store, EventsKept
      <4> QED
        BY <1>2, <2>4, <4>1, <4>2, <4>3, <4>4
        DEF ExecStep, LockStep, RegisterCompensation, BodyFails, ReleaseStep
    <3>2. runs' = runs
      BY <1>2, <2>4 DEF ExecStep, LockStep, RegisterCompensation, BodyFails, StoreCheckpoint,
         AnnounceStep, ReleaseStep, StoreCompleted, history
    <3> QED
      BY <1>d, <2>0, <2>o, <2>c, <3>1, <3>2, EventFrame
  <2> QED
    BY <2>1, <2>2, <2>3, <2>4
<1>3. ASSUME NEW c \in Compensations, NEW k \in 0 .. N, Compensate(c, k) PROVE Ends
  BY <1>3, EventFrame DEF Compensate, EventsKept, SagaHasFailed, AtE, history
<1>4. ASSUME NEW c \in Compensations, CompStep(c) PROVE Ends
  <2>1. SagaHasFailed
    BY <1>4 DEF Inv, UndoneAfterFailure, AtC, CompStep, LockUndo, SkipUndo, RunUndo, UndoFails,
       AnnounceUndoFailed, StoreRecord, AnnounceUndo, ReleaseUndo, StoreCompensated,
       AnnounceCompensated
  <2>2. EventsKept
    BY <1>4, UndoEvents
  <2>3. UNCHANGED <<exec, runs>>
    BY <1>4 DEF CompStep, LockUndo, SkipUndo, RunUndo, UndoFails, AnnounceUndoFailed, StoreRecord,
       AnnounceUndo, ReleaseUndo, StoreCompensated, AnnounceCompensated, history
  <2> QED
    BY <2>1, <2>2, <2>3, EventFrame DEF AtE
<1>5. ASSUME Die PROVE Ends
  <2>1. EventsKept /\ UNCHANGED <<runs, undos>>
    BY <1>5 DEF Die, EventsKept, history
  <2>2. ASSUME NEW e \in Executions, exec[e].pc \notin Over, GoE(e, "dead"), UNCHANGED comp
        PROVE Ends
    <3>1. (\A f \in Executions \ {e} : exec'[f] = exec[f]) /\ ~ AtE(e, "done")
      BY <1>0, <2>2, ExecGoes DEF ExecPcs, Over, AtE
    <3> QED
      BY <1>d, <2>1, <2>2, <3>1, EventFrame
  <2>3. ASSUME NEW c \in Compensations, comp[c].pc \notin Over, UNCHANGED exec PROVE Ends
    <3>1. SagaHasFailed
      BY <2>3 DEF Inv, UndoneAfterFailure, AtC, Over
    <3> QED
      BY <2>1, <2>3, <3>1, EventFrame DEF AtE
  <2> QED
    BY <1>5, <2>2, <2>3 DEF Die
<1> QED
  BY <1>1, <1>2, <1>3, <1>4, <1>5 DEF Next

-----------------------------------------------------------------------------
(* The locks of the compensations. *)
LEMMA UndoFrame ==
  ASSUME Inv, NEW c \in Compensations,
         \A d \in Compensations \ {c} : comp'[d] = comp[d],
         InUndo(c)' => InUndo(c) /\ comp'[c].i = comp[c].i,
         \A i \in Steps : Holds(c, i) => Holds(c, i)',
         \A i \in Steps : CompLock(i) \in locks' <=> CompLock(i) \in locks
  PROVE  UndoLocks'
<1>0. UndoLocks /\ SagaTypeOK /\ UndoCounted
  BY DEF Inv
<1>1. \A d \in Compensations \ {c} : InUndo(d)' = InUndo(d) /\ comp'[d].i = comp[d].i
  BY DEF InUndo
<1>2. ASSUME NEW d \in Compensations, InUndo(d)'
      PROVE  InUndo(d) /\ comp'[d].i = comp[d].i /\ comp[d].i \in Steps
  <2>1. InUndo(d) /\ comp'[d].i = comp[d].i
    BY <1>1, <1>2
  <2> QED
    BY <1>0, <2>1 DEF InUndo, UndoSection, UndoCounted, SagaTypeOK, CompState, Steps
<1>3. \A d \in Compensations : InUndo(d)' => CompLock(comp'[d].i) \in locks'
  BY <1>0, <1>2 DEF UndoLocks
<1>4. \A d, f \in Compensations :
        InUndo(d)' /\ InUndo(f)' /\ comp'[d].i = comp'[f].i => d = f
  BY <1>0, <1>2 DEF UndoLocks
<1>5. ASSUME NEW i \in Steps, CompLock(i) \in locks' PROVE \E d \in Compensations : Holds(d, i)'
  <2>1. PICK d \in Compensations : Holds(d, i)
    BY <1>0, <1>5 DEF UndoLocks
  <2>2. Holds(d, i)'
    BY <2>1 DEF Holds, InUndo
  <2> QED
    BY <2>2
<1> QED
  BY <1>3, <1>4, <1>5 DEF UndoLocks

LEMMA UndoKept ==
  ASSUME Inv, comp' = comp,
         \A i \in Steps : CompLock(i) \in locks' <=> CompLock(i) \in locks
  PROVE  (UndoCounted /\ UndoLocks)'
<1>1. UndoCounted'
  BY DEF Inv, UndoCounted
<1>2. \A c \in Compensations : InUndo(c) => comp[c].i \in Steps
  BY DEF Inv, InUndo, UndoSection, UndoCounted, SagaTypeOK, CompState, Steps
<1>3. UndoLocks'
  BY <1>2 DEF Inv, UndoLocks, InUndo, Holds
<1> QED
  BY <1>1, <1>3

LEMMA UndoStep ==
  ASSUME Inv, Next
  PROVE  (UndoCounted /\ UndoLocks)'
<1>0. SagaTypeOK /\ UndoCounted /\ UndoLocks
  BY DEF Inv
<1>1. ASSUME NEW e \in Executions, Begin(e) \/ AlreadyRunning(e) \/ ExecStep(e)
      PROVE  (UndoCounted /\ UndoLocks)'
  <2>1. comp' = comp
    BY <1>1 DEF Begin, AlreadyRunning, ExecStep, LockStep, RegisterCompensation, RunBody, BodyFails,
       AnnounceFailed, StoreCheckpoint, AnnounceStep, ReleaseStep, StoreCompleted, AnnounceCompleted
  <2>2. exec[e].i \in 0 .. N
    BY <1>0 DEF SagaTypeOK, ExecState
  <2>3. \A i \in Steps : CompLock(i) # StepLock(exec[e].i)
    BY <2>2 DEF CompLock, StepLock, Steps
  <2>4. \A i \in Steps : CompLock(i) \in locks' <=> CompLock(i) \in locks
    BY <1>1, <2>3 DEF Begin, AlreadyRunning, ExecStep, LockStep, RegisterCompensation, RunBody,
       BodyFails, AnnounceFailed, StoreCheckpoint, AnnounceStep, ReleaseStep, StoreCompleted,
       AnnounceCompleted, sagaVars
  <2> QED
    BY <2>1, <2>4, UndoKept
<1>2. ASSUME NEW c \in Compensations, NEW k \in 0 .. N, Compensate(c, k)
      PROVE  (UndoCounted /\ UndoLocks)'
  <2>1. /\ comp'[c].pc = (IF k = 0 THEN "announceDone" ELSE "lock")
        /\ comp'[c].i = k - 1 /\ comp'[c].n = 0 /\ comp'[c].k = k
        /\ \A d \in Compensations \ {c} : comp'[d] = comp[d]
        /\ locks' = locks /\ comp[c].pc = "idle"
    BY <1>0, <1>2 DEF Compensate, First, AtC, SagaTypeOK, sagaVars
  <2>2. UndoCounted'
    BY <1>0, <2>1 DEF UndoCounted
  <2>3. UndoLocks'
    BY <2>1, UndoFrame DEF InUndo, UndoSection, Holds
  <2> QED
    BY <2>2, <2>3
<1>3. ASSUME NEW c \in Compensations, CompStep(c) PROVE (UndoCounted /\ UndoLocks)'
  <2>i. comp[c].i \in -1 .. N - 1 /\ comp[c].n \in 0 .. N /\ comp[c].k \in 0 .. N
    BY <1>0 DEF SagaTypeOK, CompState
  <2>0. /\ comp[c].pc \in {"lock", "body", "failed"} =>
             comp[c].i >= 0 /\ comp[c].n + comp[c].i + 1 = comp[c].k
        /\ comp[c].pc \in {"record", "announce", "release"} =>
             comp[c].i >= 0 /\ comp[c].n + comp[c].i = comp[c].k
    BY <1>0 DEF UndoCounted
  <2>1. CASE LockUndo(c)
    <3>1. /\ comp[c].pc = "lock" /\ comp'[c].pc = "body"
          /\ comp'[c].i = comp[c].i /\ comp'[c].n = comp[c].n /\ comp'[c].k = comp[c].k
          /\ \A d \in Compensations \ {c} : comp'[d] = comp[d]
          /\ CompLock(comp[c].i) \notin locks /\ locks' = locks \cup {CompLock(comp[c].i)}
      BY <1>0, <2>1, CompGoes DEF LockUndo, AtC, Free, CompPcs, UndoSection
    <3>2. UndoCounted'
      BY <1>0, <2>0, <3>1 DEF UndoCounted
    <3>3. \A d \in Compensations \ {c} : InUndo(d)' = InUndo(d)
      BY <3>1 DEF InUndo
    <3>4. \A d \in Compensations : InUndo(d)' => CompLock(comp'[d].i) \in locks'
      BY <1>0, <3>1, <3>3 DEF UndoLocks
    <3>5. \A d \in Compensations \ {c} : InUndo(d) => comp[d].i # comp[c].i
      BY <1>0, <3>1 DEF UndoLocks
    <3>6. \A d, f \in Compensations :
            InUndo(d)' /\ InUndo(f)' /\ comp'[d].i = comp'[f].i => d = f
      BY <1>0, <3>1, <3>3, <3>5 DEF UndoLocks
    <3>7. ASSUME NEW i \in Steps, CompLock(i) \in locks'
          PROVE  \E d \in Compensations : Holds(d, i)'
      <4>1. CASE i = comp[c].i
        <5>1. Holds(c, i)'
          BY <3>1, <4>1 DEF Holds, InUndo, UndoSection
        <5> QED
          BY <5>1
      <4>2. CASE i # comp[c].i
        <5>1. CompLock(i) \in locks
          BY <2>i, <3>1, <3>7, <4>2 DEF CompLock, Steps
        <5>2. PICK d \in Compensations : Holds(d, i)
          BY <1>0, <5>1 DEF UndoLocks
        <5>3. d # c
          BY <4>2, <5>2 DEF Holds
        <5> QED
          BY <3>1, <5>2, <5>3 DEF Holds, InUndo
      <4> QED
        BY <4>1, <4>2
    <3> QED
      BY <3>2, <3>4, <3>6, <3>7 DEF UndoLocks
  <2>2. CASE SkipUndo(c)
    <3>1. comp[c].pc = "lock" /\ comp[c].i >= 0 /\ comp[c].n + 1 \in 0 .. N /\ locks' = locks
      BY <2>0, <2>2, <2>i DEF SkipUndo, AtC, sagaVars
    <3>2. /\ comp'[c].pc = (IF comp[c].i = 0 THEN "complete" ELSE "lock")
          /\ comp'[c].i = comp[c].i - 1 /\ comp'[c].n = comp[c].n + 1 /\ comp'[c].k = comp[c].k
          /\ \A d \in Compensations \ {c} : comp'[d] = comp[d]
      BY <1>0, <2>2, <3>1, CompNexts DEF SkipUndo
    <3>3. UndoCounted'
      BY <1>0, <2>0, <2>i, <3>1, <3>2 DEF UndoCounted
    <3>4. UndoLocks'
      BY <3>1, <3>2, UndoFrame DEF InUndo, UndoSection, Holds
    <3> QED
      BY <3>3, <3>4
  <2>3. CASE RunUndo(c)
    <3>1. comp[c].pc = "body" /\ comp[c].n < N /\ locks' = locks
      BY <2>0, <2>3, <2>i DEF RunUndo, AtC, sagaVars
    <3>2. /\ comp'[c].pc = "record"
          /\ comp'[c].i = comp[c].i /\ comp'[c].n = comp[c].n + 1 /\ comp'[c].k = comp[c].k
          /\ \A d \in Compensations \ {c} : comp'[d] = comp[d]
      BY <1>0, <2>3, <3>1, CompCounts DEF RunUndo
    <3>3. UndoCounted'
      BY <1>0, <2>0, <2>i, <3>1, <3>2 DEF UndoCounted
    <3>4. UndoLocks'
      BY <3>1, <3>2, UndoFrame DEF InUndo, UndoSection, Holds
    <3> QED
      BY <3>3, <3>4
  <2>4. ASSUME NEW p \in UndoSection \cup {"failed"}, NEW q \in (UndoSection \ {"body"}) \cup {"failed", "done"},
               comp[c].pc = p, GoC(c, q), locks' = locks,
               q \in UndoSection => p \in UndoSection,
               q = "failed" => p = "body",
               p = "body" => q = "failed",
               p = "failed" => q = "done"
        PROVE  (UndoCounted /\ UndoLocks)'
    <3>1. /\ comp'[c].pc = q
          /\ comp'[c].i = comp[c].i /\ comp'[c].n = comp[c].n /\ comp'[c].k = comp[c].k
          /\ \A d \in Compensations \ {c} : comp'[d] = comp[d]
      BY <1>0, <2>4, CompGoes DEF CompPcs, Over, UndoSection
    <3>2. UndoCounted'
      <4>1. /\ q \in {"lock", "body", "failed"} => q = "failed" /\ p = "body"
            /\ q \in {"record", "announce", "release"} => p \in {"record", "announce", "release"}
        BY <2>4 DEF UndoSection
      <4> QED
        BY <1>0, <2>0, <2>4, <3>1, <4>1 DEF UndoCounted
    <3>3. UndoLocks'
      BY <2>4, <3>1, UndoFrame DEF InUndo, UndoSection, Holds
    <3> QED
      BY <3>2, <3>3
  <2>5. CASE UndoFails(c)
    BY <2>4, <2>5 DEF UndoFails, AtC, UndoSection, sagaVars
  <2>6. CASE AnnounceUndoFailed(c)
    BY <2>4, <2>6 DEF AnnounceUndoFailed, AtC, UndoSection, sagaVars
  <2>7. CASE StoreRecord(c)
    BY <2>4, <2>7 DEF StoreRecord, AtC, UndoSection, sagaVars
  <2>8. CASE AnnounceUndo(c)
    BY <2>4, <2>8 DEF AnnounceUndo, AtC, UndoSection, sagaVars
  <2>9. CASE ReleaseUndo(c)
    <3>1. comp[c].pc = "release" /\ comp[c].i >= 0 /\ locks' = locks \ {CompLock(comp[c].i)}
      BY <2>0, <2>9 DEF ReleaseUndo, AtC
    <3>2. /\ comp'[c].pc = (IF comp[c].i = 0 THEN "complete" ELSE "lock")
          /\ comp'[c].i = comp[c].i - 1 /\ comp'[c].n = comp[c].n /\ comp'[c].k = comp[c].k
          /\ \A d \in Compensations \ {c} : comp'[d] = comp[d]
      BY <1>0, <2>9, <2>i, <3>1, CompNexts DEF ReleaseUndo
    <3>3. UndoCounted'
      BY <1>0, <2>0, <2>i, <3>1, <3>2 DEF UndoCounted
    <3>4. InUndo(c) /\ ~ InUndo(c)' /\ \A d \in Compensations \ {c} : InUndo(d)' = InUndo(d)
      BY <3>1, <3>2 DEF InUndo, UndoSection
    <3>5. ASSUME NEW d \in Compensations, InUndo(d)'
          PROVE  d # c /\ InUndo(d) /\ comp'[d].i = comp[d].i /\ comp[d].i # comp[c].i
      BY <1>0, <3>2, <3>4, <3>5 DEF UndoLocks
    <3>6. ASSUME NEW d \in Compensations, InUndo(d)' PROVE CompLock(comp'[d].i) \in locks'
      <4>1. CompLock(comp[d].i) \in locks
        BY <1>0, <3>5, <3>6 DEF UndoLocks
      <4>2. comp[d].i \in Int
        BY <1>0 DEF SagaTypeOK, CompState
      <4> QED
        BY <2>i, <3>1, <3>5, <3>6, <4>1, <4>2 DEF CompLock
    <3>7. \A d, f \in Compensations :
            InUndo(d)' /\ InUndo(f)' /\ comp'[d].i = comp'[f].i => d = f
      BY <1>0, <3>5 DEF UndoLocks
    <3>8. ASSUME NEW i \in Steps, CompLock(i) \in locks'
          PROVE  \E d \in Compensations : Holds(d, i)'
      <4>1. CompLock(i) \in locks /\ i # comp[c].i
        BY <3>1, <3>8
      <4>2. PICK d \in Compensations : Holds(d, i)
        BY <1>0, <4>1 DEF UndoLocks
      <4>3. d # c
        BY <4>1, <4>2 DEF Holds
      <4> QED
        BY <3>2, <4>2, <4>3 DEF Holds, InUndo
    <3> QED
      BY <3>3, <3>6, <3>7, <3>8 DEF UndoLocks
  <2>10. ASSUME comp[c].pc \in {"complete", "announceDone"},
                NEW q \in {"announceDone", "done"}, GoC(c, q), locks' = locks
         PROVE  (UndoCounted /\ UndoLocks)'
    <3>1. comp'[c].pc = q /\ \A d \in Compensations \ {c} : comp'[d] = comp[d]
      BY <1>0, <2>10, CompGoes DEF CompPcs, Over
    <3>2. UndoCounted'
      BY <1>0, <3>1 DEF UndoCounted
    <3>3. UndoLocks'
      BY <2>10, <3>1, UndoFrame DEF InUndo, UndoSection, Holds
    <3> QED
      BY <3>2, <3>3
  <2>11. CASE StoreCompensated(c)
    BY <2>10, <2>11 DEF StoreCompensated, AtC, sagaVars
  <2>12. CASE AnnounceCompensated(c)
    BY <2>10, <2>12 DEF AnnounceCompensated, AtC, sagaVars
  <2> QED
    BY <1>3, <2>1, <2>2, <2>3, <2>5, <2>6, <2>7, <2>8, <2>9, <2>11, <2>12 DEF CompStep
<1>4. ASSUME Die PROVE (UndoCounted /\ UndoLocks)'
  <2>1. locks' = locks
    BY <1>4 DEF Die, sagaVars
  <2>2. CASE comp' = comp
    BY <2>1, <2>2, UndoKept
  <2>3. ASSUME NEW c \in Compensations, GoC(c, "dead") PROVE (UndoCounted /\ UndoLocks)'
    <3>1. /\ comp'[c].pc = "dead" /\ comp'[c].i = comp[c].i
          /\ \A d \in Compensations \ {c} : comp'[d] = comp[d]
      BY <1>0, <2>3, CompGoes DEF CompPcs, Over
    <3>2. UndoCounted'
      BY <1>0, <3>1 DEF UndoCounted
    <3>3. UndoLocks'
      BY <2>1, <3>1, UndoFrame DEF InUndo, UndoSection, Holds
    <3> QED
      BY <3>2, <3>3
  <2> QED
    BY <1>4, <2>2, <2>3 DEF Die
<1> QED
  BY <1>1, <1>2, <1>3, <1>4 DEF Next

-----------------------------------------------------------------------------
LEMMA InvStep ==
  ASSUME Inv, [Next]_vars
  PROVE  Inv'
<1>1. CASE Next
  BY <1>1, TypeStep, OwnerStep, EventStep, UndoStep DEF Inv
<1>2. CASE UNCHANGED vars
  <2>1. SagaTypeOK'
    BY <1>2 DEF Inv, SagaTypeOK, vars, sagaVars, history
  <2>2. (OneOwner /\ NotBegun /\ OwnerSound)'
    BY <1>2, OwnerKept DEF vars, sagaVars, history
  <2>3. (FailedIsOver /\ UndoneAfterFailure /\ CompletedRanAll)'
    BY <1>2, EventFrame DEF EventsKept, AtE, vars, history
  <2>4. (UndoCounted /\ UndoLocks)'
    BY <1>2, UndoKept DEF vars, sagaVars
  <2> QED
    BY <2>1, <2>2, <2>3, <2>4 DEF Inv
<1> QED
  BY <1>1, <1>2

LEMMA Invariant == Spec => []Inv
  BY InvInit, InvStep, PTL DEF Spec

(* The state is well formed. *)
THEOREM TypeCorrect == Spec => []SagaTypeOK
  BY Invariant, PTL DEF Inv

(* No step of a saga runs twice, before the one it follows, or without a   *)
(* compensation registered, however often the request is delivered.        *)
THEOREM RanOnceInOrder == Spec => []RunOnceInOrder
<1>1. Inv => RunOnceInOrder
  <2> SUFFICES ASSUME Inv, NEW i \in Steps
               PROVE  /\ runs[i] <= 1
                      /\ runs[i] = 1 => i \in registry /\ \A j \in 0 .. i - 1 : runs[j] = 1
    BY DEF RunOnceInOrder
  <2>1. CASE saga = "none"
    BY <2>1 DEF Inv, NotBegun
  <2>2. CASE saga # "none"
    <3>1. PICK e \in Executions : Started(e) /\ Sound(e)
      BY <2>2 DEF Inv, NotBegun, OwnerSound
    <3>2. exec[e].i \in 0 .. N
      BY DEF Inv, SagaTypeOK, ExecState
    <3>3. runs[i] = 1 => \A j \in 0 .. i - 1 : j \in Steps /\ j < exec[e].i
      BY <3>1, <3>2 DEF Sound, Steps
    <3> QED
      BY <3>1, <3>3 DEF Sound
  <2> QED
    BY <2>1, <2>2
<1> QED
  BY <1>1, Invariant, PTL

(* A saga that is announced as completed ran every step. *)
THEOREM CompletionIsTrue == Spec => []CompletedRanAll
  BY Invariant, PTL DEF Inv

(* No two calls undo the same step at a time, and a compensation lock that *)
(* is held belongs to a call that is at the step, failed at it or died.    *)
THEOREM UndoExclusive == Spec => []UndoLocks
  BY Invariant, PTL DEF Inv

(* No body runs once the saga has failed or a step was undone. *)
THEOREM FailureIsFinal == Spec => NothingRunsAfterFailure
<1>1. Inv /\ [Next]_vars => [NothingRunsAfterFailureStep]_vars
  <2> SUFFICES ASSUME Inv, Next PROVE NothingRunsAfterFailureStep
    OBVIOUS
  <2>1. ASSUME NEW e \in Executions, RunBody(e) PROVE NothingRunsAfterFailureStep
    <3>1. ~ SagaHasFailed
      BY <2>1, NotFailedYet DEF ExecStep
    <3>2. \A i \in Steps : undos[i] \in Nat /\ ~ (undos[i] > 0)
      BY <3>1 DEF Inv, UndoneAfterFailure, SagaTypeOK
    <3> QED
      BY <3>1, <3>2 DEF NothingRunsAfterFailureStep, SagaHasFailed
  <2>2. CASE \A e \in Executions : ~ RunBody(e)
    <3>1. runs' = runs
      BY <2>2 DEF Next, Begin, AlreadyRunning, ExecStep, LockStep, RegisterCompensation, BodyFails,
         AnnounceFailed, StoreCheckpoint, AnnounceStep, ReleaseStep, StoreCompleted,
         AnnounceCompleted, Compensate, CompStep, LockUndo, SkipUndo, RunUndo, UndoFails,
         AnnounceUndoFailed, StoreRecord, AnnounceUndo, ReleaseUndo, StoreCompensated,
         AnnounceCompensated, Die, history
    <3> QED
      BY <3>1 DEF NothingRunsAfterFailureStep
  <2> QED
    BY <2>1, <2>2
<1> QED
  BY <1>1, Invariant, PTL DEF Spec, NothingRunsAfterFailure

-----------------------------------------------------------------------------
(* What is announced was stored before: a call about to announce a step,   *)
(* or that it was undone, or its end, has stored it, if nothing failed;    *)
(* only a compensation that had nothing to undo has not.                   *)
ExecStored(C) ==
  /\ C.pc = "announce" => <<"checkpoint", C.i>> \in docs
  /\ C.pc = "announceDone" => <<"completed", C.n>> \in docs
CompStored(C) ==
  /\ C.pc = "announce" => <<"undone", C.i>> \in docs
  /\ C.pc = "announceDone" /\ C.n # 0 => <<"compensated", C.n>> \in docs
AboutToAnnounce ==
  faults = 0 =>
    /\ \A e \in Executions : ExecStored(exec[e])
    /\ \A c \in Compensations : CompStored(comp[c])

(* An event that is new comes from a call that is about to announce it. *)
NewEvents ==
  /\ \A i \in Steps :
       /\ <<"SagaStepExecuted", i>> \in events' \ events =>
            \E e \in Executions : AtE(e, "announce") /\ exec[e].i = i
       /\ <<"CompensationStepExecuted", i>> \in events' \ events =>
            \E c \in Compensations : AtC(c, "announce") /\ comp[c].i = i
  /\ \A n \in 0 .. N :
       /\ <<"SagaCompleted", n>> \in events' \ events =>
            \E e \in Executions : AtE(e, "announceDone") /\ exec[e].n = n
       /\ <<"CompensationCompleted", n>> \in events' \ events =>
            \E c \in Compensations : AtC(c, "announceDone") /\ comp[c].n = n

(* No document is lost, faults are only counted up, and what is new among  *)
(* the announcements, or about to be announced, is stored.                 *)
LEMMA AnnounceFrame ==
  ASSUME AnnouncedIsStored, AboutToAnnounce, NewEvents,
         faults' = 0 => faults = 0 /\ docs \subseteq docs',
         \A e \in Executions :
           exec'[e] = exec[e] \/ (faults' = 0 => ExecStored(exec[e])'),
         \A c \in Compensations :
           comp'[c] = comp[c] \/ (faults' = 0 => CompStored(comp[c])')
  PROVE  (AnnouncedIsStored /\ AboutToAnnounce)'
<1>1. ASSUME faults' = 0, NEW i \in Steps, <<"SagaStepExecuted", i>> \in events'
      PROVE  <<"checkpoint", i>> \in docs'
  <2>1. CASE <<"SagaStepExecuted", i>> \in events
    BY <1>1, <2>1 DEF AnnouncedIsStored
  <2>2. CASE <<"SagaStepExecuted", i>> \notin events
    <3>1. PICK c \in Executions : AtE(c, "announce") /\ exec[c].i = i
      BY <1>1, <2>2 DEF NewEvents
    <3> QED
      BY <1>1, <3>1 DEF AboutToAnnounce, ExecStored, AtE
  <2> QED
    BY <2>1, <2>2
<1>2. ASSUME faults' = 0, NEW i \in Steps, <<"CompensationStepExecuted", i>> \in events'
      PROVE  <<"undone", i>> \in docs'
  <2>1. CASE <<"CompensationStepExecuted", i>> \in events
    BY <1>2, <2>1 DEF AnnouncedIsStored
  <2>2. CASE <<"CompensationStepExecuted", i>> \notin events
    <3>1. PICK c \in Compensations : AtC(c, "announce") /\ comp[c].i = i
      BY <1>2, <2>2 DEF NewEvents
    <3> QED
      BY <1>2, <3>1 DEF AboutToAnnounce, CompStored, AtC
  <2> QED
    BY <2>1, <2>2
<1>3. ASSUME faults' = 0, NEW n \in 0 .. N, <<"SagaCompleted", n>> \in events'
      PROVE  <<"completed", n>> \in docs'
  <2>1. CASE <<"SagaCompleted", n>> \in events
    BY <1>3, <2>1 DEF AnnouncedIsStored
  <2>2. CASE <<"SagaCompleted", n>> \notin events
    <3>1. PICK c \in Executions : AtE(c, "announceDone") /\ exec[c].n = n
      BY <1>3, <2>2 DEF NewEvents
    <3> QED
      BY <1>3, <3>1 DEF AboutToAnnounce, ExecStored, AtE
  <2> QED
    BY <2>1, <2>2
<1>4. ASSUME faults' = 0, NEW n \in 0 .. N, <<"CompensationCompleted", n>> \in events', n # 0
      PROVE  <<"compensated", n>> \in docs'
  <2>1. CASE <<"CompensationCompleted", n>> \in events
    BY <1>4, <2>1 DEF AnnouncedIsStored
  <2>2. CASE <<"CompensationCompleted", n>> \notin events
    <3>1. PICK c \in Compensations : AtC(c, "announceDone") /\ comp[c].n = n
      BY <1>4, <2>2 DEF NewEvents
    <3> QED
      BY <1>4, <3>1 DEF AboutToAnnounce, CompStored, AtC
  <2> QED
    BY <2>1, <2>2
<1>5. AnnouncedIsStored'
  BY <1>1, <1>2, <1>3, <1>4 DEF AnnouncedIsStored
<1>6. AboutToAnnounce'
  BY DEF AboutToAnnounce, ExecStored, CompStored
<1> QED
  BY <1>6, <1>5

LEMMA NothingNew ==
  ASSUME UNCHANGED events \/ (\E x : Store(x)) \/ Emit(<<"SagaAlreadyRunning">>)
           \/ (\E x : Emit(<<"SagaFailed", x>>) \/ Emit(<<"CompensationFailed", x>>))
  PROVE  NewEvents
<1>1. /\ \A i \in Steps : /\ <<"SagaStepExecuted", i>> # <<"SagaAlreadyRunning">>
                         /\ <<"CompensationStepExecuted", i>> # <<"SagaAlreadyRunning">>
      /\ \A n \in 0 .. N : /\ <<"SagaCompleted", n>> # <<"SagaAlreadyRunning">>
                         /\ <<"CompensationCompleted", n>> # <<"SagaAlreadyRunning">>
  OBVIOUS
<1> QED
  BY <1>1 DEF NewEvents, Store, Emit

LEMMA ExecStepStores ==
  ASSUME SagaTypeOK, NEW e \in Executions, Begin(e) \/ AlreadyRunning(e) \/ ExecStep(e)
  PROVE  /\ NewEvents
         /\ \A g \in Executions \ {e} : exec'[g] = exec[g]
         /\ faults' = 0 => ExecStored(exec[e])'
<1>1. \A g \in Executions \ {e} : exec'[g] = exec[g]
  BY DEF Begin, AlreadyRunning, ExecStep, LockStep, RegisterCompensation, RunBody, BodyFails,
     AnnounceFailed, StoreCheckpoint, AnnounceStep, ReleaseStep, StoreCompleted,
     AnnounceCompleted, GoE, NextStep, SagaTypeOK
<1>2. CASE AnnounceStep(e)
  <2>1. exec'[e].pc = "release"
    BY <1>2 DEF AnnounceStep, GoE, SagaTypeOK, ExecState
  <2>2. NewEvents
    BY <1>2 DEF AnnounceStep, Emit, NewEvents
  <2> QED
    BY <1>1, <2>1, <2>2 DEF ExecStored
<1>3. CASE AnnounceCompleted(e)
  <2>1. exec'[e].pc = "done"
    BY <1>3 DEF AnnounceCompleted, GoE, SagaTypeOK, ExecState
  <2>2. NewEvents
    BY <1>3 DEF AnnounceCompleted, Emit, NewEvents
  <2> QED
    BY <1>1, <2>1, <2>2 DEF ExecStored
<1>4. CASE StoreCheckpoint(e)
  <2>1. exec'[e].i = exec[e].i /\ exec'[e].pc = "announce"
    BY <1>4 DEF StoreCheckpoint, GoE, SagaTypeOK, ExecState
  <2>2. faults' = 0 => <<"checkpoint", exec[e].i>> \in docs'
    BY <1>4 DEF StoreCheckpoint, Store, Fault, SagaTypeOK
  <2>3. NewEvents
    BY <1>4, NothingNew DEF StoreCheckpoint
  <2> QED
    BY <1>1, <2>1, <2>2, <2>3 DEF ExecStored
<1>5. CASE StoreCompleted(e)
  <2>1. exec'[e].n = exec[e].n /\ exec'[e].pc = "announceDone"
    BY <1>5 DEF StoreCompleted, GoE, SagaTypeOK, ExecState
  <2>2. faults' = 0 => <<"completed", exec[e].n>> \in docs'
    BY <1>5 DEF StoreCompleted, Store, Fault, SagaTypeOK
  <2>3. NewEvents
    BY <1>5, NothingNew DEF StoreCompleted
  <2> QED
    BY <1>1, <2>1, <2>2, <2>3 DEF ExecStored
<1>6. CASE ~ AnnounceStep(e) /\ ~ AnnounceCompleted(e) /\ ~ StoreCheckpoint(e) /\ ~ StoreCompleted(e)
  <2>1. exec'[e].pc \notin {"announce", "announceDone"}
    BY <1>6 DEF Begin, AlreadyRunning, ExecStep, LockStep, RegisterCompensation, RunBody,
     BodyFails, AnnounceFailed, ReleaseStep, GoE, NextStep, AfterBody, AfterFailure, SagaTypeOK,
     ExecState
  <2>2. NewEvents
    BY <1>6, NothingNew DEF Begin, AlreadyRunning, ExecStep, LockStep, RegisterCompensation,
     RunBody, BodyFails, AnnounceFailed, ReleaseStep
  <2> QED
    BY <1>1, <2>1, <2>2 DEF ExecStored
<1> QED
  BY <1>2, <1>3, <1>4, <1>5, <1>6

LEMMA CompStepStores ==
  ASSUME SagaTypeOK, NEW c \in Compensations, (\E k \in 0 .. N : Compensate(c, k)) \/ CompStep(c)
  PROVE  /\ NewEvents
         /\ \A g \in Compensations \ {c} : comp'[g] = comp[g]
         /\ faults' = 0 => CompStored(comp[c])'
<1>1. \A g \in Compensations \ {c} : comp'[g] = comp[g]
  BY DEF Compensate, CompStep, LockUndo, SkipUndo, RunUndo, UndoFails, AnnounceUndoFailed,
     StoreRecord, AnnounceUndo, ReleaseUndo, StoreCompensated, AnnounceCompensated, GoC, NextUndo,
     SagaTypeOK
<1>2. CASE AnnounceUndo(c)
  <2>1. comp'[c].pc = "release"
    BY <1>2 DEF AnnounceUndo, GoC, SagaTypeOK, CompState
  <2>2. NewEvents
    BY <1>2 DEF AnnounceUndo, Emit, NewEvents
  <2> QED
    BY <1>1, <2>1, <2>2 DEF CompStored
<1>3. CASE AnnounceCompensated(c)
  <2>1. comp'[c].pc = "done"
    BY <1>3 DEF AnnounceCompensated, GoC, SagaTypeOK, CompState
  <2>2. NewEvents
    BY <1>3 DEF AnnounceCompensated, Emit, NewEvents
  <2> QED
    BY <1>1, <2>1, <2>2 DEF CompStored
<1>4. CASE StoreRecord(c)
  <2>1. comp'[c].i = comp[c].i /\ comp'[c].pc = "announce"
    BY <1>4 DEF StoreRecord, GoC, SagaTypeOK, CompState
  <2>2. faults' = 0 => <<"undone", comp[c].i>> \in docs'
    BY <1>4 DEF StoreRecord, Store, Fault, SagaTypeOK
  <2>3. NewEvents
    BY <1>4, NothingNew DEF StoreRecord
  <2> QED
    BY <1>1, <2>1, <2>2, <2>3 DEF CompStored
<1>5. CASE StoreCompensated(c)
  <2>1. comp'[c].n = comp[c].n /\ comp'[c].pc = "announceDone"
    BY <1>5 DEF StoreCompensated, GoC, SagaTypeOK, CompState
  <2>2. faults' = 0 => <<"compensated", comp[c].n>> \in docs'
    BY <1>5 DEF StoreCompensated, Store, Fault, SagaTypeOK
  <2>3. NewEvents
    BY <1>5, NothingNew DEF StoreCompensated
  <2> QED
    BY <1>1, <2>1, <2>2, <2>3 DEF CompStored
<1>6. ASSUME NEW k \in 0 .. N, Compensate(c, k)
      PROVE  NewEvents /\ CompStored(comp[c])'
  <2>1. comp'[c].pc \in {"announceDone", "lock"} /\ comp'[c].n = 0
    BY <1>6 DEF Compensate, SagaTypeOK
  <2>2. NewEvents
    BY <1>6, NothingNew DEF Compensate
  <2> QED
    BY <2>1, <2>2 DEF CompStored
<1>7. CASE CompStep(c) /\ ~ AnnounceUndo(c) /\ ~ AnnounceCompensated(c) /\ ~ StoreRecord(c)
             /\ ~ StoreCompensated(c)
  <2>1. comp'[c].pc \notin {"announce", "announceDone"}
    BY <1>7 DEF CompStep, LockUndo, SkipUndo, RunUndo, UndoFails, AnnounceUndoFailed, ReleaseUndo,
     GoC, NextUndo, SagaTypeOK, CompState
  <2>2. NewEvents
    BY <1>7, NothingNew DEF CompStep, LockUndo, SkipUndo, RunUndo, UndoFails, AnnounceUndoFailed,
     ReleaseUndo
  <2> QED
    BY <1>1, <2>1, <2>2 DEF CompStored
<1> QED
  BY <1>1, <1>2, <1>3, <1>4, <1>5, <1>6, <1>7

LEMMA AnnounceStepKeeps ==
  ASSUME SagaTypeOK, AnnouncedIsStored, AboutToAnnounce, [Next]_vars
  PROVE  (AnnouncedIsStored /\ AboutToAnnounce)'
<1>f. ASSUME NEW x, Store(x) \/ Emit(x) \/ UNCHANGED <<docs, faults>>
      PROVE  faults' = 0 => faults = 0 /\ docs \subseteq docs'
  BY <1>f DEF Store, Emit, Fault, SagaTypeOK
<1>1. ASSUME NEW e \in Executions, Begin(e) \/ AlreadyRunning(e) \/ ExecStep(e)
      PROVE  (AnnouncedIsStored /\ AboutToAnnounce)'
  <2>c. comp' = comp
    BY <1>1 DEF Begin, AlreadyRunning, ExecStep, LockStep, RegisterCompensation, RunBody, BodyFails,
       AnnounceFailed, StoreCheckpoint, AnnounceStep, ReleaseStep, StoreCompleted, AnnounceCompleted
  <2>f. faults' = 0 => faults = 0 /\ docs \subseteq docs'
    BY <1>1, <1>f DEF Begin, AlreadyRunning, ExecStep, LockStep, RegisterCompensation, RunBody,
       BodyFails, AnnounceFailed, StoreCheckpoint, AnnounceStep, ReleaseStep, StoreCompleted,
       AnnounceCompleted
  <2> QED
    BY <1>1, <2>c, <2>f, ExecStepStores, AnnounceFrame
<1>2. ASSUME NEW c \in Compensations, (\E k \in 0 .. N : Compensate(c, k)) \/ CompStep(c)
      PROVE  (AnnouncedIsStored /\ AboutToAnnounce)'
  <2>c. exec' = exec
    BY <1>2 DEF Compensate, CompStep, LockUndo, SkipUndo, RunUndo, UndoFails, AnnounceUndoFailed,
       StoreRecord, AnnounceUndo, ReleaseUndo, StoreCompensated, AnnounceCompensated
  <2>f. faults' = 0 => faults = 0 /\ docs \subseteq docs'
    BY <1>2, <1>f DEF Compensate, CompStep, LockUndo, SkipUndo, RunUndo, UndoFails,
       AnnounceUndoFailed, StoreRecord, AnnounceUndo, ReleaseUndo, StoreCompensated,
       AnnounceCompensated
  <2> QED
    BY <1>2, <2>c, <2>f, CompStepStores, AnnounceFrame
<1>3. CASE Die
  <2>1. /\ \A g \in Executions : exec'[g] = exec[g] \/ exec'[g].pc = "dead"
        /\ \A g \in Compensations : comp'[g] = comp[g] \/ comp'[g].pc = "dead"
        /\ UNCHANGED <<docs, events, faults>>
    BY <1>3 DEF Die, GoE, GoC, SagaTypeOK, ExecState, CompState
  <2>2. NewEvents
    BY <2>1, NothingNew
  <2> QED
    BY <2>1, <2>2, AnnounceFrame DEF ExecStored, CompStored
<1>4. CASE UNCHANGED vars
  <2>1. UNCHANGED <<docs, events, faults, exec, comp>>
    BY <1>4 DEF vars
  <2> QED
    BY <2>1, NothingNew, AnnounceFrame
<1> QED
  BY <1>1, <1>2, <1>3, <1>4 DEF Next

(* A step announced as executed has its checkpoint, one announced as       *)
(* undone its record, and an end its document, but for the compensation of *)
(* an empty stack, while no call of the database or the queue failed.      *)
THEOREM StoredBeforeAnnounced == Spec => []AnnouncedIsStored
<1>1. Init => AnnouncedIsStored /\ AboutToAnnounce
  BY DEF Init, AnnouncedIsStored, AboutToAnnounce, ExecStored, CompStored
<1>2. SagaTypeOK /\ AnnouncedIsStored /\ AboutToAnnounce /\ [Next]_vars
        => (AnnouncedIsStored /\ AboutToAnnounce)'
  BY AnnounceStepKeeps
<1> QED
  BY <1>1, <1>2, TypeCorrect, PTL DEF Spec

-----------------------------------------------------------------------------
(* That the saga implements SagaPromise.  What the mapping needs besides   *)
(* Inv: a registered step was reached by the owner, a failure is announced *)
(* at a step, and a saga that failed has a step that did not run (so it is *)
(* not announced as completed too).                                        *)
RegisteredReached ==
  /\ saga = "none" => registry = {}
  /\ \A e \in Executions : Started(e) => \A j \in registry : j <= exec[e].i

FailedShort ==
  /\ \A s : <<"SagaFailed", s>> \in events => s \in Steps
  /\ SagaHasFailed => \E j \in Steps : runs[j] = 0

ReachInv == RegisteredReached /\ FailedShort

(* A step of the owner never takes it back. *)
LEMMA OwnerAdvances ==
  ASSUME Inv, NEW e \in Executions, ExecStep(e)
  PROVE  /\ exec'[e].i >= exec[e].i
         /\ \A f \in Executions \ {e} : exec'[f] = exec[f]
<1>0. SagaTypeOK /\ Sound(e)
  BY OnlyOwnerSteps DEF Inv
<1>1. exec[e].i \in 0 .. N /\ exec[e].n \in 0 .. N
  BY <1>0 DEF SagaTypeOK, ExecState
<1>2. LockStep(e) \/ ReleaseStep(e) => exec[e].i < N
  BY <1>0 DEF LockStep, ReleaseStep, Sound, AtE, BeforeBody, BodyRan
<1>3. RunBody(e) => exec[e].n < N
  BY <1>0, <1>1 DEF RunBody, Sound, AtE, BeforeBody
<1> QED
  BY <1>0, <1>1, <1>2, <1>3, ExecGoes, ExecNexts, ExecCounts
  DEF ExecStep, LockStep, RegisterCompensation, RunBody, BodyFails, AnnounceFailed,
      StoreCheckpoint, AnnounceStep, ReleaseStep, StoreCompleted, AnnounceCompleted,
      ExecPcs, Over, StepSection, AfterFailure

LEMMA ReachStep ==
  ASSUME Inv, ReachInv, [Next]_vars
  PROVE  ReachInv'
<1>0. SagaTypeOK /\ NotBegun /\ OneOwner
  BY DEF Inv
<1>i. \A e \in Executions : exec[e].i \in 0 .. N
  BY <1>0 DEF SagaTypeOK, ExecState
<1>e. registry \subseteq Int
  BY <1>0 DEF SagaTypeOK, Steps
<1>1. ASSUME NEW e \in Executions, Begin(e) PROVE ReachInv'
  <2>1. registry = {} /\ registry' = registry /\ saga' = "RUNNING"
    BY <1>1 DEF Begin, MayStart, ReachInv, RegisteredReached
  <2>2. FailedShort'
    BY <1>1 DEF Begin, history, ReachInv, FailedShort, SagaHasFailed
  <2> QED
    BY <2>1, <2>2 DEF ReachInv, RegisteredReached
<1>2. ASSUME NEW e \in Executions, AlreadyRunning(e) PROVE ReachInv'
  <2>1. /\ exec'[e].pc = "refused" /\ exec'[e].i = exec[e].i
        /\ \A f \in Executions \ {e} : exec'[f] = exec[f]
        /\ UNCHANGED <<saga, registry, runs>>
    BY <1>0, <1>2, ExecGoes DEF AlreadyRunning, ExecPcs, Over, sagaVars, history
  <2>2. RegisteredReached'
    BY <2>1 DEF ReachInv, RegisteredReached, Started
  <2>3. \A s : <<"SagaFailed", s>> \in events' <=> <<"SagaFailed", s>> \in events
    <3>1. \A s : <<"SagaFailed", s>> # <<"SagaAlreadyRunning">>
      OBVIOUS
    <3> QED
      BY <1>2, <3>1 DEF AlreadyRunning, Emit
  <2>4. FailedShort'
    BY <2>1, <2>3 DEF ReachInv, FailedShort, SagaHasFailed
  <2> QED
    BY <2>2, <2>4 DEF ReachInv
<1>3. ASSUME NEW e \in Executions, ExecStep(e) PROVE ReachInv'
  <2>0. /\ Started(e) /\ Sound(e) /\ saga # "none" /\ ~ SagaHasFailed
        /\ \A f \in Executions \ {e} : ~ Started(f)
    BY <1>3, OnlyOwnerSteps, NotFailedYet
  <2>1. /\ exec'[e].i >= exec[e].i
        /\ \A f \in Executions \ {e} : exec'[f] = exec[f]
    BY <1>3, OwnerAdvances
  <2>2. saga' = saga
    BY <1>3 DEF ExecStep, LockStep, RegisterCompensation, RunBody, BodyFails, AnnounceFailed,
       StoreCheckpoint, AnnounceStep, ReleaseStep, StoreCompleted, AnnounceCompleted, sagaVars
  <2>3. \A j \in registry' : j \in registry \/ j = exec[e].i
    BY <1>3 DEF ExecStep, LockStep, RegisterCompensation, RunBody, BodyFails, AnnounceFailed,
       StoreCheckpoint, AnnounceStep, ReleaseStep, StoreCompleted, AnnounceCompleted, sagaVars
  <2>i. exec'[e].i \in Int
    BY <1>3, TypeStep DEF Next, SagaTypeOK, ExecState
  <2>4. \A j \in registry' : j <= exec'[e].i
    BY <1>e, <1>i, <2>0, <2>1, <2>3, <2>i DEF ReachInv, RegisteredReached
  <2>5. RegisteredReached'
    BY <2>0, <2>1, <2>2, <2>4 DEF RegisteredReached, Started
  <2>6. FailedShort'
    <3>1. CASE AnnounceFailed(e)
      <4>1. exec[e].i \in Steps /\ runs[exec[e].i] = 0 /\ runs' = runs
        BY <1>i, <2>0, <3>1 DEF AnnounceFailed, Sound, AtE, BeforeBody, Steps, history
      <4>2. \A s : <<"SagaFailed", s>> \in events' => <<"SagaFailed", s>> \in events \/ s = exec[e].i
        BY <3>1 DEF AnnounceFailed, Emit
      <4> QED
        BY <4>1, <4>2 DEF ReachInv, FailedShort
    <3>2. CASE ~ AnnounceFailed(e)
      <4>1. \A s : <<"SagaFailed", s>> \in events' => <<"SagaFailed", s>> \in events
        BY <1>3, <3>2 DEF ExecStep, LockStep, RegisterCompensation, RunBody, BodyFails,
           StoreCheckpoint, AnnounceStep, ReleaseStep, StoreCompleted, AnnounceCompleted, Emit, Store
      <4>2. ~ SagaHasFailed'
        BY <2>0, <4>1 DEF SagaHasFailed
      <4> QED
        BY <4>1, <4>2 DEF ReachInv, FailedShort
    <3> QED
      BY <3>1, <3>2
  <2> QED
    BY <2>5, <2>6 DEF ReachInv
<1>4. ASSUME UNCHANGED <<saga, registry, runs>>,
             \A e \in Executions : exec'[e].i = exec[e].i /\ Started(e)' = Started(e),
             EventsKept
      PROVE  ReachInv'
  BY <1>4 DEF ReachInv, RegisteredReached, FailedShort, SagaHasFailed, EventsKept
<1>5. ASSUME NEW c \in Compensations, (\E k \in 0 .. N : Compensate(c, k)) \/ CompStep(c)
      PROVE  ReachInv'
  <2>1. UNCHANGED <<saga, registry, runs, exec>>
    BY <1>5 DEF Compensate, CompStep, LockUndo, SkipUndo, RunUndo, UndoFails, AnnounceUndoFailed,
       StoreRecord, AnnounceUndo, ReleaseUndo, StoreCompensated, AnnounceCompensated, sagaVars, history
  <2>2. EventsKept
    BY <1>5, UndoEvents
  <2> QED
    BY <1>4, <2>1, <2>2 DEF Started
<1>6. CASE Die
  <2>1. \A e \in Executions : exec'[e].i = exec[e].i /\ Started(e)' = Started(e)
    BY <1>0, <1>6, ExecGoes DEF Die, ExecPcs, Over, Started
  <2> QED
    BY <1>4, <1>6, <2>1 DEF Die, EventsKept, sagaVars, history
<1>7. CASE UNCHANGED vars
  BY <1>4, <1>7 DEF vars, sagaVars, history, EventsKept, Started
<1> QED
  BY <1>1, <1>2, <1>3, <1>5, <1>6, <1>7 DEF Next

(* How the saga was announced to end, as the mapping sees it. *)
Ended == {o \in {"completed", "failed"} :
            \E i \in 0 .. N :
              <<IF o = "failed" THEN "SagaFailed" ELSE "SagaCompleted", i>> \in events}

LEMMA EndedIs ==
  ASSUME Inv, ReachInv
  PROVE  /\ Ended \subseteq {"completed", "failed"}
         /\ "failed" \in Ended <=> SagaHasFailed
         /\ "completed" \in Ended <=> \E n \in 0 .. N : <<"SagaCompleted", n>> \in events
         /\ "completed" \in Ended => \A j \in Steps : runs[j] = 1
         /\ SagaHasFailed => Ended = {"failed"}
<1>1. /\ Ended \subseteq {"completed", "failed"}
      /\ "failed" \in Ended <=> \E i \in 0 .. N : <<"SagaFailed", i>> \in events
      /\ "completed" \in Ended <=> \E n \in 0 .. N : <<"SagaCompleted", n>> \in events
  BY DEF Ended
<1>2. "failed" \in Ended <=> SagaHasFailed
  BY <1>1 DEF ReachInv, FailedShort, SagaHasFailed, Steps
<1>3. "completed" \in Ended => \A j \in Steps : runs[j] = 1
  BY <1>1 DEF Inv, CompletedRanAll
<1>4. SagaHasFailed => "completed" \notin Ended
  <2>1. SagaHasFailed => \E j \in Steps : runs[j] = 0
    BY DEF ReachInv, FailedShort
  <2> QED
    BY <1>3, <2>1
<1> QED
  BY <1>1, <1>2, <1>3, <1>4

LEMMA EndedKept ==
  ASSUME EventsKept
  PROVE  Ended' = Ended
BY DEF EventsKept, Ended

(* Where the owner is says which steps ran, so the steps reached. *)
LEMMA OwnerReached ==
  ASSUME Inv, NEW e \in Executions, Sound(e), exec[e].i \in Steps => runs[exec[e].i] = 0
  PROVE  Promise!Reached(exec[e].i)
<1>1. exec[e].i \in 0 .. N
  BY DEF Inv, SagaTypeOK, ExecState
<1>2. \A j \in Steps : j < exec[e].i => runs[j] = 1
  BY DEF Sound
<1>3. \A j \in Steps : j >= exec[e].i => runs[j] = 0
  BY <1>1 DEF Sound, Steps
<1> QED
  BY <1>2, <1>3 DEF Promise!Reached, Promise!Steps, Steps

(* While the owner is at work with a step that did not run, nothing ended. *)
LEMMA StillRunning ==
  ASSUME Inv, ReachInv, NEW e \in Executions, ExecStep(e), NEW i \in Steps, runs[i] = 0
  PROVE  Ended = {}
<1>1. "failed" \notin Ended
  BY EndedIs, NotFailedYet
<1>2. "completed" \notin Ended
  BY EndedIs
<1> QED
  BY <1>1, <1>2, EndedIs

LEMMA PromiseSimulation ==
  ASSUME Inv, ReachInv, [Next]_vars
  PROVE  [Promise!Next]_(Promise!sagaVars)
<1> DEFINE begun == saga # "none"
<1>0. SagaTypeOK
  BY DEF Inv
<1>s. ASSUME UNCHANGED <<begun, Ended, runs, undos>> PROVE UNCHANGED Promise!sagaVars
  BY <1>s DEF Promise!sagaVars, Ended
<1>1. ASSUME NEW e \in Executions, Begin(e) PROVE Promise!Begin
  BY <1>1 DEF Begin, MayStart, Promise!Begin, history
<1>2. ASSUME NEW e \in Executions, AlreadyRunning(e) PROVE UNCHANGED Promise!sagaVars
  <2>1. \A s : <<"SagaFailed", s>> # <<"SagaAlreadyRunning">>
               /\ <<"SagaCompleted", s>> # <<"SagaAlreadyRunning">>
    OBVIOUS
  <2>2. EventsKept
    BY <1>2, <2>1 DEF AlreadyRunning, Emit, EventsKept
  <2> QED
    BY <1>2, <1>s, <2>2, EndedKept DEF AlreadyRunning, sagaVars, history
<1>3. ASSUME NEW e \in Executions, ExecStep(e) PROVE Promise!Next \/ UNCHANGED Promise!sagaVars
  <2>0. Started(e) /\ Sound(e) /\ begun /\ ~ SagaHasFailed
    BY <1>3, OnlyOwnerSteps, NotFailedYet
  <2>i. exec[e].i \in 0 .. N /\ exec[e].n \in 0 .. N
    BY <1>0 DEF SagaTypeOK, ExecState
  <2>1. CASE RunBody(e)
    <3>1. exec[e].i \in Steps /\ runs[exec[e].i] = 0
      BY <2>0, <2>1, <2>i DEF RunBody, Sound, AtE, BeforeBody, Steps
    <3>2. Ended = {} /\ Promise!Reached(exec[e].i)
      BY <1>3, <2>0, <3>1, StillRunning, OwnerReached
    <3>3. EventsKept
      BY <2>1 DEF RunBody, Store, EventsKept
    <3>4. runs' = [runs EXCEPT ![exec[e].i] = 1]
      BY <1>0, <2>1, <3>1 DEF RunBody, SagaTypeOK
    <3>5. PICK i \in Steps : i = exec[e].i
      BY <3>1
    <3>6. Promise!RunStep(i)
      BY <2>0, <2>1, <3>2, <3>3, <3>4, <3>5, EndedKept
      DEF RunBody, Promise!RunStep, Promise!Running, Ended, sagaVars
    <3> QED
      BY <3>6 DEF Promise!Next, Promise!Steps, Steps
  <2>2. CASE AnnounceFailed(e)
    <3>1. exec[e].i \in Steps /\ runs[exec[e].i] = 0
      BY <2>0, <2>2, <2>i DEF AnnounceFailed, Sound, AtE, BeforeBody, Steps
    <3>2. Ended = {} /\ Promise!Reached(exec[e].i)
      BY <1>3, <2>0, <3>1, StillRunning, OwnerReached
    <3>3. UNCHANGED <<begun, runs, undos>>
      BY <2>2 DEF AnnounceFailed, sagaVars, history
    <3>4. CASE events' = events
      BY <1>s, <3>3, <3>4 DEF Ended
    <3>5. CASE events' = events \cup {<<"SagaFailed", exec[e].i>>}
      <4>1. "failed" \in Ended'
        BY <2>i, <3>5 DEF Ended
      <4>2. "completed" \notin Ended'
        BY <3>2, <3>5 DEF Ended
      <4>3. Ended' = {"failed"}
        BY <4>1, <4>2 DEF Ended
      <4>4. PICK i \in Steps : i = exec[e].i
        BY <3>1
      <4>5. Promise!Fail(i)
        BY <2>0, <3>2, <3>3, <4>3, <4>4 DEF Promise!Fail, Promise!Running, Ended
      <4> QED
        BY <4>5 DEF Promise!Next, Promise!Steps, Steps
    <3> QED
      BY <2>2, <3>4, <3>5 DEF AnnounceFailed, Emit
  <2>3. CASE AnnounceCompleted(e)
    <3>1. exec[e].i = N /\ exec[e].n = N
      BY <2>0, <2>3 DEF AnnounceCompleted, Sound, AtE, AllRan
    <3>2. Promise!Reached(N)
      BY <2>0, <3>1, OwnerReached DEF Steps
    <3>3. UNCHANGED <<begun, runs, undos>>
      BY <2>3 DEF AnnounceCompleted, sagaVars, history
    <3>4. CASE events' = events
      BY <1>s, <3>3, <3>4 DEF Ended
    <3>5. CASE events' = events \cup {<<"SagaCompleted", exec[e].n>>}
      <4>1. "completed" \in Ended'
        BY <2>i, <3>5 DEF Ended
      <4>2. "failed" \notin Ended
        BY <2>0, EndedIs
      <4>3. "failed" \notin Ended'
        BY <3>5, <4>2 DEF Ended
      <4>4. Ended' = {"completed"}
        BY <4>1, <4>3 DEF Ended
      <4>5. CASE "completed" \in Ended
        <5>1. Ended = {"completed"}
          BY <4>2, <4>5 DEF Ended
        <5> QED
          BY <1>s, <3>3, <4>4, <5>1
      <4>6. CASE "completed" \notin Ended
        <5>1. Ended = {}
          BY <4>2, <4>6 DEF Ended
        <5>2. Promise!Complete
          BY <2>0, <3>2, <3>3, <4>4, <5>1 DEF Promise!Complete, Promise!Running, Ended
        <5> QED
          BY <5>2 DEF Promise!Next
      <4> QED
        BY <4>5, <4>6
    <3> QED
      BY <2>3, <3>4, <3>5 DEF AnnounceCompleted, Emit
  <2>4. CASE ~ RunBody(e) /\ ~ AnnounceFailed(e) /\ ~ AnnounceCompleted(e)
    <3>1. EventsKept
      <4>1. CASE UNCHANGED events
        BY <4>1 DEF EventsKept
      <4>2. CASE AnnounceStep(e)
        BY <4>2, OtherEvent DEF AnnounceStep, EventsKept
      <4> QED
        BY <1>3, <2>4, <4>1, <4>2
        DEF ExecStep, LockStep, RegisterCompensation, BodyFails, StoreCheckpoint, ReleaseStep,
            StoreCompleted, Store
    <3>2. UNCHANGED <<saga, runs, undos>>
      BY <1>3, <2>4 DEF ExecStep, LockStep, RegisterCompensation, BodyFails, StoreCheckpoint,
         AnnounceStep, ReleaseStep, StoreCompleted, sagaVars, history
    <3> QED
      BY <1>s, <3>1, <3>2, EndedKept
  <2> QED
    BY <2>1, <2>2, <2>3, <2>4
<1>4. ASSUME NEW c \in Compensations, (\E k \in 0 .. N : Compensate(c, k)) \/ CompStep(c)
      PROVE  Promise!Next \/ UNCHANGED Promise!sagaVars
  <2>0. EventsKept /\ Ended' = Ended
    BY <1>4, UndoEvents, EndedKept
  <2>1. CASE RunUndo(c)
    <3>1. ~ AtC(c, "idle") /\ comp[c].i \in registry
      BY <2>1 DEF RunUndo, AtC, Registered
    <3>2. Ended = {"failed"}
      BY <3>1, EndedIs DEF Inv, UndoneAfterFailure
    <3>3. comp[c].i \in Steps
      BY <1>0, <3>1 DEF SagaTypeOK
    <3>4. PICK e \in Executions : Started(e) /\ Sound(e) /\ comp[c].i <= exec[e].i
      BY <3>1 DEF ReachInv, RegisteredReached, Inv, NotBegun, OwnerSound
    <3>5. runs[comp[c].i] = 1 \/ Promise!Reached(comp[c].i)
      <4>1. CASE comp[c].i = exec[e].i
        <5>1. runs[exec[e].i] = 0 \/ runs[exec[e].i] = 1
          BY <1>0, <3>3, <3>4, <4>1 DEF Sound, SagaTypeOK
        <5>2. CASE runs[exec[e].i] = 0
          <6>1. Promise!Reached(exec[e].i)
            BY <3>4, <5>2, OwnerReached
          <6> QED
            BY <4>1, <6>1
        <5> QED
          BY <4>1, <5>1, <5>2
      <4>2. CASE comp[c].i # exec[e].i
        <5>1. comp[c].i < exec[e].i
          BY <1>0, <3>3, <3>4, <4>2 DEF SagaTypeOK, ExecState, Steps
        <5> QED
          BY <3>3, <3>4, <5>1 DEF Sound
      <4> QED
        BY <4>1, <4>2
    <3>6. PICK i \in Steps : i = comp[c].i
      BY <3>3
    <3>7. UNCHANGED <<begun, runs>> /\ undos' = [undos EXCEPT ![i] = @ + 1]
      BY <2>1, <3>6 DEF RunUndo, sagaVars
    <3>8. Promise!Undo(i)
      BY <2>0, <3>2, <3>5, <3>6, <3>7 DEF Promise!Undo, Ended
    <3> QED
      BY <3>8 DEF Promise!Next, Promise!Steps, Steps
  <2>2. CASE ~ RunUndo(c)
    <3>1. UNCHANGED <<saga, runs, undos>>
      BY <1>4, <2>2 DEF Compensate, CompStep, LockUndo, SkipUndo, UndoFails, AnnounceUndoFailed,
         StoreRecord, AnnounceUndo, ReleaseUndo, StoreCompensated, AnnounceCompensated, sagaVars,
         history
    <3> QED
      BY <1>s, <2>0, <3>1
  <2> QED
    BY <2>1, <2>2
<1>5. CASE Die \/ UNCHANGED vars
  <2>1. UNCHANGED <<saga, events, runs, undos>>
    BY <1>5 DEF Die, vars, sagaVars, history
  <2> QED
    BY <1>s, <2>1 DEF Ended
<1>6. CASE \E e \in Executions : Begin(e)
  BY <1>1, <1>6 DEF Promise!Next
<1> QED
  BY <1>2, <1>3, <1>4, <1>5, <1>6 DEF Next

(* However often its request is delivered, whichever calls die and         *)
(* whatever the database and the queue lose, the saga implements           *)
(* SagaPromise: its steps run in order and once, it ends in one way, as    *)
(* completed only when all ran, and is undone only after it failed and     *)
(* only where it got to.                                                   *)
THEOREM Implements == Spec => ImplementsPromise
<1>1. Init => ReachInv
  BY DEF Init, ReachInv, RegisteredReached, FailedShort, SagaHasFailed
<1>2. Inv /\ ReachInv /\ [Next]_vars => ReachInv'
  BY ReachStep
<1>3. Init => Promise!Init
  <2> SUFFICES ASSUME Init PROVE Promise!Init
    OBVIOUS
  <2>1. Ended = {}
    BY DEF Init, Ended
  <2>2. saga = "none" /\ runs = [i \in Steps |-> 0] /\ undos = [i \in Steps |-> 0]
    BY DEF Init
  <2> QED
    BY <2>1, <2>2 DEF Promise!Init, Promise!Steps, Steps, Ended
<1>4. Inv /\ ReachInv /\ [Next]_vars => [Promise!Next]_(Promise!sagaVars)
  BY PromiseSimulation
<1> QED
  BY <1>1, <1>2, <1>3, <1>4, Invariant, PTL DEF Spec, ImplementsPromise, Promise!Spec

-----------------------------------------------------------------------------
(* Two safety facts behind SagaSettles.  What a call has left to do, in    *)
(* steps of its own: a bound that each of them lowers.                     *)
ExecPcRank(pc) ==
  CASE pc = "lock" -> 7
    [] pc = "register" -> 6
    [] pc = "body" -> 5
    [] pc = "checkpoint" -> 4
    [] pc = "announce" -> 3
    [] pc \in {"release", "complete"} -> 2
    [] pc \in {"failed", "announceDone"} -> 1
    [] OTHER -> 0

CompPcRank(pc) ==
  CASE pc = "lock" -> 7
    [] pc = "body" -> 6
    [] pc = "record" -> 5
    [] pc = "announce" -> 4
    [] pc = "release" -> 3
    [] pc \in {"failed", "complete"} -> 2
    [] pc = "announceDone" -> 1
    [] OTHER -> 0

ExecRank(e) == 8 * (N - exec[e].i) + ExecPcRank(exec[e].pc)
CompRank(c) == 8 * (comp[c].i + 1) + CompPcRank(comp[c].pc)

CallsRunDownStep ==
  /\ \A e \in Executions :
       Started(e) => exec'[e] = exec[e] \/ ExecRank(e)' < ExecRank(e)
  /\ \A c \in Compensations :
       ~ AtC(c, "idle") => comp'[c] = comp[c] \/ CompRank(c)' < CompRank(c)

LEMMA RanksAreNat ==
  ASSUME SagaTypeOK
  PROVE  /\ \A e \in Executions : ExecRank(e) \in Nat
         /\ \A c \in Compensations : CompRank(c) \in Nat
<1>1. ASSUME NEW e \in Executions PROVE ExecRank(e) \in Nat
  <2>1. exec[e].i \in 0 .. N
    BY DEF SagaTypeOK, ExecState
  <2>2. ExecPcRank(exec[e].pc) \in 0 .. 7
    BY DEF ExecPcRank
  <2> QED
    BY <2>1, <2>2 DEF ExecRank
<1>2. ASSUME NEW c \in Compensations PROVE CompRank(c) \in Nat
  <2>1. comp[c].i \in -1 .. N - 1
    BY DEF SagaTypeOK, CompState
  <2>2. CompPcRank(comp[c].pc) \in 0 .. 7
    BY DEF CompPcRank
  <2> QED
    BY <2>1, <2>2 DEF CompRank
<1> QED
  BY <1>1, <1>2

LEMMA ExecRunsDown ==
  ASSUME Inv, NEW e \in Executions, ExecStep(e)
  PROVE  ExecRank(e)' < ExecRank(e)
<1>0. SagaTypeOK /\ Sound(e)
  BY OnlyOwnerSteps DEF Inv
<1>i. exec[e].i \in 0 .. N /\ exec[e].n \in 0 .. N
  BY <1>0 DEF SagaTypeOK, ExecState
<1>1. ASSUME NEW pc \in ExecPcs, GoE(e, pc), ExecPcRank(pc) < ExecPcRank(exec[e].pc)
      PROVE  ExecRank(e)' < ExecRank(e)
  <2>1. exec'[e].pc = pc /\ exec'[e].i = exec[e].i
    BY <1>0, <1>1, ExecGoes
  <2>2. ExecPcRank(pc) \in 0 .. 7 /\ ExecPcRank(exec[e].pc) \in 0 .. 7
    BY DEF ExecPcRank
  <2>3. ExecRank(e)' = 8 * (N - exec[e].i) + ExecPcRank(pc)
    BY <2>1 DEF ExecRank
  <2> QED
    BY <1>i, <1>1, <2>2, <2>3 DEF ExecRank
<1>2. ASSUME exec[e].i < N, NextStep(e), exec[e].pc \in {"lock", "release"}
      PROVE  ExecRank(e)' < ExecRank(e)
  <2>1. exec'[e].i = exec[e].i + 1
    BY <1>0, <1>2, ExecNexts
  <2>2. /\ ExecPcRank(exec'[e].pc) \in 0 .. 7
        /\ ExecPcRank(exec[e].pc) \in 2 .. 7
    BY <1>2, <2>1 DEF ExecPcRank
  <2>3. ExecRank(e)' = 8 * (N - (exec[e].i + 1)) + ExecPcRank(exec'[e].pc)
    BY <2>1 DEF ExecRank
  <2> QED
    BY <1>i, <2>2, <2>3 DEF ExecRank
<1>3. CASE LockStep(e)
  <2>1. exec[e].pc = "lock" /\ exec[e].i < N
    BY <1>0, <1>3 DEF LockStep, AtE, Sound, BeforeBody
  <2>2. ExecPcRank("register") < ExecPcRank("lock") /\ "register" \in ExecPcs
    BY DEF ExecPcRank, ExecPcs, StepSection
  <2> QED
    BY <1>1, <1>2, <1>3, <2>1, <2>2 DEF LockStep
<1>4. CASE RegisterCompensation(e)
  <2>1. ExecPcRank("body") < ExecPcRank("register") /\ "body" \in ExecPcs
    BY DEF ExecPcRank, ExecPcs, StepSection
  <2> QED
    BY <1>1, <1>4, <2>1 DEF RegisterCompensation, AtE
<1>5. CASE RunBody(e)
  <2>1. exec[e].n < N
    BY <1>0, <1>5, <1>i DEF RunBody, AtE, Sound, BeforeBody
  <2>2. exec[e].pc = "body" /\ exec'[e].pc = "checkpoint" /\ exec'[e].i = exec[e].i
    BY <1>0, <1>5, <2>1, ExecCounts DEF RunBody, AtE
  <2>3. ExecPcRank("checkpoint") = 4 /\ ExecPcRank("body") = 5
    BY DEF ExecPcRank
  <2>4. ExecRank(e)' = 8 * (N - exec[e].i) + 4
    BY <2>2, <2>3 DEF ExecRank
  <2> QED
    BY <1>i, <2>2, <2>3, <2>4 DEF ExecRank
<1>6. CASE BodyFails(e)
  <2>1. ExecPcRank("failed") < ExecPcRank("body") /\ "failed" \in ExecPcs
    BY DEF ExecPcRank, ExecPcs
  <2> QED
    BY <1>1, <1>6, <2>1 DEF BodyFails, AfterFailure, AtE
<1>7. CASE AnnounceFailed(e)
  <2>1. ExecPcRank("done") < ExecPcRank("failed") /\ "done" \in ExecPcs
    BY DEF ExecPcRank, ExecPcs, Over
  <2> QED
    BY <1>1, <1>7, <2>1 DEF AnnounceFailed, AtE
<1>8. CASE StoreCheckpoint(e)
  <2>1. ExecPcRank("announce") < ExecPcRank("checkpoint") /\ "announce" \in ExecPcs
    BY DEF ExecPcRank, ExecPcs, StepSection
  <2> QED
    BY <1>1, <1>8, <2>1 DEF StoreCheckpoint, AtE
<1>9. CASE AnnounceStep(e)
  <2>1. ExecPcRank("release") < ExecPcRank("announce") /\ "release" \in ExecPcs
    BY DEF ExecPcRank, ExecPcs, StepSection
  <2> QED
    BY <1>1, <1>9, <2>1 DEF AnnounceStep, AtE
<1>10. CASE ReleaseStep(e)
  <2>1. exec[e].pc = "release" /\ exec[e].i < N
    BY <1>0, <1>10 DEF ReleaseStep, AtE, Sound, BodyRan
  <2> QED
    BY <1>2, <1>10, <2>1 DEF ReleaseStep
<1>11. CASE StoreCompleted(e)
  <2>1. ExecPcRank("announceDone") < ExecPcRank("complete") /\ "announceDone" \in ExecPcs
    BY DEF ExecPcRank, ExecPcs
  <2> QED
    BY <1>1, <1>11, <2>1 DEF StoreCompleted, AtE
<1>12. CASE AnnounceCompleted(e)
  <2>1. ExecPcRank("done") < ExecPcRank("announceDone") /\ "done" \in ExecPcs
    BY DEF ExecPcRank, ExecPcs, Over
  <2> QED
    BY <1>1, <1>12, <2>1 DEF AnnounceCompleted, AtE
<1> QED
  BY <1>3, <1>4, <1>5, <1>6, <1>7, <1>8, <1>9, <1>10, <1>11, <1>12 DEF ExecStep

LEMMA CompRunsDown ==
  ASSUME Inv, NEW c \in Compensations, CompStep(c)
  PROVE  /\ ~ AtC(c, "idle")
         /\ CompRank(c)' < CompRank(c)
         /\ \A d \in Compensations \ {c} : comp'[d] = comp[d]
<1>0. SagaTypeOK
  BY DEF Inv
<1>i. comp[c].i \in -1 .. N - 1 /\ comp[c].n \in 0 .. N /\ comp[c].k \in 0 .. N
  BY <1>0 DEF SagaTypeOK, CompState
<1>u. /\ comp[c].pc \in {"lock", "body", "failed"} =>
           comp[c].i >= 0 /\ comp[c].n + comp[c].i + 1 = comp[c].k
      /\ comp[c].pc \in {"record", "announce", "release"} =>
           comp[c].i >= 0 /\ comp[c].n + comp[c].i = comp[c].k
  BY DEF Inv, UndoCounted
<1> DEFINE Goal == /\ ~ AtC(c, "idle")
                   /\ CompRank(c)' < CompRank(c)
                   /\ \A d \in Compensations \ {c} : comp'[d] = comp[d]
<1>1. ASSUME NEW pc \in CompPcs, GoC(c, pc), CompPcRank(pc) < CompPcRank(comp[c].pc)
      PROVE  Goal
  <2>1. /\ comp'[c].pc = pc /\ comp'[c].i = comp[c].i
        /\ \A d \in Compensations \ {c} : comp'[d] = comp[d]
    BY <1>0, <1>1, CompGoes
  <2>2. CompPcRank(pc) \in 0 .. 7 /\ CompPcRank(comp[c].pc) \in 0 .. 7
    BY DEF CompPcRank
  <2>3. CompRank(c)' = 8 * (comp[c].i + 1) + CompPcRank(pc)
    BY <2>1 DEF CompRank
  <2>4. comp[c].pc # "idle"
    BY <1>1, <2>2 DEF CompPcRank
  <2> QED
    BY <1>i, <1>1, <2>1, <2>2, <2>3, <2>4 DEF CompRank, AtC
<1>2. ASSUME NEW n \in 0 .. N, comp[c].i >= 0, NextUndo(c, n), comp[c].pc \in {"lock", "release"}
      PROVE  Goal
  <2>1. /\ comp'[c].i = comp[c].i - 1
        /\ \A d \in Compensations \ {c} : comp'[d] = comp[d]
    BY <1>0, <1>2, CompNexts
  <2>2. /\ CompPcRank(comp'[c].pc) \in 0 .. 7
        /\ CompPcRank(comp[c].pc) \in 2 .. 7
    BY <1>2 DEF CompPcRank
  <2>3. CompRank(c)' = 8 * (comp[c].i - 1 + 1) + CompPcRank(comp'[c].pc)
    BY <2>1 DEF CompRank
  <2> QED
    BY <1>i, <1>2, <2>1, <2>2, <2>3 DEF CompRank, AtC
<1>3. CASE LockUndo(c)
  <2>1. CompPcRank("body") < CompPcRank("lock") /\ "body" \in CompPcs
    BY DEF CompPcRank, CompPcs, UndoSection
  <2> QED
    BY <1>1, <1>3, <2>1 DEF LockUndo, AtC
<1>4. CASE SkipUndo(c)
  <2>1. comp[c].pc = "lock" /\ comp[c].i >= 0 /\ comp[c].n + 1 \in 0 .. N
    BY <1>4, <1>i, <1>u DEF SkipUndo, AtC
  <2> QED
    BY <1>2, <1>4, <2>1 DEF SkipUndo
<1>5. CASE RunUndo(c)
  <2>1. comp[c].n < N
    BY <1>5, <1>i, <1>u DEF RunUndo, AtC
  <2>2. /\ comp[c].pc = "body" /\ comp'[c].pc = "record" /\ comp'[c].i = comp[c].i
        /\ \A d \in Compensations \ {c} : comp'[d] = comp[d]
    BY <1>0, <1>5, <2>1, CompCounts DEF RunUndo, AtC
  <2>3. CompPcRank("record") = 5 /\ CompPcRank("body") = 6
    BY DEF CompPcRank
  <2>4. CompRank(c)' = 8 * (comp[c].i + 1) + 5
    BY <2>2, <2>3 DEF CompRank
  <2> QED
    BY <1>i, <2>2, <2>3, <2>4 DEF CompRank, AtC
<1>6. CASE UndoFails(c)
  <2>1. CompPcRank("failed") < CompPcRank("body") /\ "failed" \in CompPcs
    BY DEF CompPcRank, CompPcs
  <2> QED
    BY <1>1, <1>6, <2>1 DEF UndoFails, AtC
<1>7. CASE AnnounceUndoFailed(c)
  <2>1. CompPcRank("done") < CompPcRank("failed") /\ "done" \in CompPcs
    BY DEF CompPcRank, CompPcs, Over
  <2> QED
    BY <1>1, <1>7, <2>1 DEF AnnounceUndoFailed, AtC
<1>8. CASE StoreRecord(c)
  <2>1. CompPcRank("announce") < CompPcRank("record") /\ "announce" \in CompPcs
    BY DEF CompPcRank, CompPcs, UndoSection
  <2> QED
    BY <1>1, <1>8, <2>1 DEF StoreRecord, AtC
<1>9. CASE AnnounceUndo(c)
  <2>1. CompPcRank("release") < CompPcRank("announce") /\ "release" \in CompPcs
    BY DEF CompPcRank, CompPcs, UndoSection
  <2> QED
    BY <1>1, <1>9, <2>1 DEF AnnounceUndo, AtC
<1>10. CASE ReleaseUndo(c)
  <2>1. comp[c].pc = "release" /\ comp[c].i >= 0
    BY <1>10, <1>u DEF ReleaseUndo, AtC
  <2> QED
    BY <1>2, <1>10, <1>i, <2>1 DEF ReleaseUndo
<1>11. CASE StoreCompensated(c)
  <2>1. CompPcRank("announceDone") < CompPcRank("complete") /\ "announceDone" \in CompPcs
    BY DEF CompPcRank, CompPcs
  <2> QED
    BY <1>1, <1>11, <2>1 DEF StoreCompensated, AtC
<1>12. CASE AnnounceCompensated(c)
  <2>1. CompPcRank("done") < CompPcRank("announceDone") /\ "done" \in CompPcs
    BY DEF CompPcRank, CompPcs, Over
  <2> QED
    BY <1>1, <1>12, <2>1 DEF AnnounceCompensated, AtC
<1> QED
  BY <1>3, <1>4, <1>5, <1>6, <1>7, <1>8, <1>9, <1>10, <1>11, <1>12 DEF CompStep

LEMMA RunDownStep ==
  ASSUME Inv, Next
  PROVE  CallsRunDownStep
<1>0. SagaTypeOK
  BY DEF Inv
<1>1. ASSUME NEW e \in Executions, Begin(e) \/ AlreadyRunning(e) PROVE CallsRunDownStep
  <2>1. ~ Started(e) /\ comp' = comp
    BY <1>1 DEF Begin, AlreadyRunning, AtE, Started
  <2>2. \A f \in Executions \ {e} : exec'[f] = exec[f]
    BY <1>0, <1>1, ExecGoes DEF Begin, AlreadyRunning, ExecPcs, Over
  <2> QED
    BY <2>1, <2>2 DEF CallsRunDownStep
<1>2. ASSUME NEW e \in Executions, ExecStep(e) PROVE CallsRunDownStep
  <2>1. comp' = comp
    BY <1>2 DEF ExecStep, LockStep, RegisterCompensation, RunBody, BodyFails, AnnounceFailed,
       StoreCheckpoint, AnnounceStep, ReleaseStep, StoreCompleted, AnnounceCompleted
  <2> QED
    BY <1>2, <2>1, ExecRunsDown, OwnerAdvances DEF CallsRunDownStep
<1>3. ASSUME NEW c \in Compensations, NEW k \in 0 .. N, Compensate(c, k) PROVE CallsRunDownStep
  BY <1>0, <1>3 DEF Compensate, CallsRunDownStep, SagaTypeOK
<1>4. ASSUME NEW c \in Compensations, CompStep(c) PROVE CallsRunDownStep
  <2>1. exec' = exec
    BY <1>4 DEF CompStep, LockUndo, SkipUndo, RunUndo, UndoFails, AnnounceUndoFailed,
       StoreRecord, AnnounceUndo, ReleaseUndo, StoreCompensated, AnnounceCompensated
  <2> QED
    BY <1>4, <2>1, CompRunsDown DEF CallsRunDownStep
<1>5. CASE Die
  <2>1. ASSUME NEW e \in Executions, exec[e].pc \notin Over, GoE(e, "dead"), UNCHANGED comp
        PROVE  CallsRunDownStep
    <3>1. /\ exec'[e].pc = "dead" /\ exec'[e].i = exec[e].i
          /\ \A f \in Executions \ {e} : exec'[f] = exec[f]
      BY <1>0, <2>1, ExecGoes DEF ExecPcs, Over
    <3>2. ExecPcRank("dead") = 0
      BY DEF ExecPcRank
    <3>3. ExecPcRank(exec[e].pc) \in 1 .. 7
      BY <1>0, <2>1 DEF ExecPcRank, SagaTypeOK, ExecState, StepSection
    <3>4. ExecRank(e)' = 8 * (N - exec[e].i)
      <4>1. ExecRank(e)' = 8 * (N - exec[e].i) + 0
        BY <3>1, <3>2 DEF ExecRank
      <4> QED
        BY <1>0, <4>1 DEF SagaTypeOK, ExecState
    <3>5. ExecRank(e)' < ExecRank(e)
      BY <1>0, <3>3, <3>4 DEF ExecRank, SagaTypeOK, ExecState
    <3> QED
      BY <2>1, <3>1, <3>5 DEF CallsRunDownStep
  <2>2. ASSUME NEW c \in Compensations, comp[c].pc \notin Over, GoC(c, "dead"), UNCHANGED exec
        PROVE  CallsRunDownStep
    <3>1. /\ comp'[c].pc = "dead" /\ comp'[c].i = comp[c].i
          /\ \A d \in Compensations \ {c} : comp'[d] = comp[d]
      BY <1>0, <2>2, CompGoes DEF CompPcs, Over
    <3>2. CompPcRank("dead") = 0
      BY DEF CompPcRank
    <3>3. CompPcRank(comp[c].pc) \in 1 .. 7
      BY <1>0, <2>2 DEF CompPcRank, SagaTypeOK, CompState, UndoSection
    <3>4. CompRank(c)' = 8 * (comp[c].i + 1)
      <4>1. CompRank(c)' = 8 * (comp[c].i + 1) + 0
        BY <3>1, <3>2 DEF CompRank
      <4> QED
        BY <1>0, <4>1 DEF SagaTypeOK, CompState
    <3>5. CompRank(c)' < CompRank(c)
      BY <1>0, <3>3, <3>4 DEF CompRank, SagaTypeOK, CompState
    <3> QED
      BY <2>2, <3>1, <3>5 DEF CallsRunDownStep
  <2> QED
    BY <1>5, <2>1, <2>2 DEF Die
<1> QED
  BY <1>1, <1>2, <1>3, <1>4, <1>5 DEF Next

(* A call that has begun never comes back: each of its steps, its death    *)
(* among them, lowers a natural number that no other step touches, so it   *)
(* takes finitely many (of SagaSettles, the part that is safety: with the  *)
(* fairness of the call it reaches its end).                               *)
THEOREM CallsRunDown ==
  Spec => /\ [](/\ \A e \in Executions : ExecRank(e) \in Nat
                /\ \A c \in Compensations : CompRank(c) \in Nat)
          /\ [][CallsRunDownStep]_vars
<1>1. Inv => /\ \A e \in Executions : ExecRank(e) \in Nat
             /\ \A c \in Compensations : CompRank(c) \in Nat
  BY RanksAreNat DEF Inv
<1>2. Inv /\ [Next]_vars => [CallsRunDownStep]_vars
  BY RunDownStep
<1> QED
  BY <1>1, <1>2, Invariant, PTL DEF Spec

(* The other safety fact: as long as no call died and nothing was lost, a  *)
(* saga that is RUNNING and was not announced to have ended has a call     *)
(* that is still at work on it.                                            *)
AtWorkOrSettled ==
  saga = "RUNNING" /\ faults = 0 /\ deaths = 0 =>
    Settled \/ \E e \in Executions : exec[e].pc \notin Over

(* What makes it inductive: a call is done only after it announced an end, *)
(* and dead only where a death was counted.                                *)
DoneIsSettled == faults = 0 => \A e \in Executions : AtE(e, "done") => Settled
DeathsCounted == deaths = 0 => \A e \in Executions : ~ AtE(e, "dead")
SettleInv == DoneIsSettled /\ DeathsCounted

LEMMA EventsStay ==
  ASSUME SagaTypeOK, [Next]_vars
  PROVE  /\ faults' = 0 => faults = 0
         /\ deaths' = 0 => deaths = 0
         /\ events \subseteq events'
<1>1. ASSUME NEW x, Store(x) \/ Emit(x) \/ UNCHANGED <<faults, events>>
      PROVE  (faults' = 0 => faults = 0) /\ events \subseteq events'
  BY <1>1 DEF Store, Emit, Fault, SagaTypeOK
<1>2. ASSUME NEW e \in Executions, Begin(e) \/ AlreadyRunning(e) \/ ExecStep(e)
      PROVE  (faults' = 0 => faults = 0) /\ events \subseteq events' /\ deaths' = deaths
  BY <1>1, <1>2 DEF Begin, AlreadyRunning, ExecStep, LockStep, RegisterCompensation, RunBody,
     BodyFails, AnnounceFailed, StoreCheckpoint, AnnounceStep, ReleaseStep, StoreCompleted,
     AnnounceCompleted
<1>3. ASSUME NEW c \in Compensations, (\E k \in 0 .. N : Compensate(c, k)) \/ CompStep(c)
      PROVE  (faults' = 0 => faults = 0) /\ events \subseteq events' /\ deaths' = deaths
  BY <1>1, <1>3 DEF Compensate, CompStep, LockUndo, SkipUndo, RunUndo, UndoFails,
     AnnounceUndoFailed, StoreRecord, AnnounceUndo, ReleaseUndo, StoreCompensated,
     AnnounceCompensated
<1> QED
  BY <1>2, <1>3 DEF Next, Die, vars, SagaTypeOK

LEMMA SettledStays ==
  ASSUME events \subseteq events'
  PROVE  Settled => Settled'
  BY DEF Settled

LEMMA SettleStep ==
  ASSUME Inv, SettleInv, [Next]_vars
  PROVE  SettleInv'
<1>0. SagaTypeOK
  BY DEF Inv
<1>s. /\ faults' = 0 => faults = 0
      /\ deaths' = 0 => deaths = 0
      /\ Settled => Settled'
  BY <1>0, EventsStay, SettledStays
<1>f. ASSUME \A e \in Executions :
               /\ exec'[e].pc = "done" => exec[e].pc = "done" \/ (faults' = 0 => Settled')
               /\ exec'[e].pc = "dead" => exec[e].pc = "dead" \/ deaths' # 0
      PROVE  SettleInv'
  BY <1>s, <1>f DEF SettleInv, DoneIsSettled, DeathsCounted, AtE
<1>1. ASSUME NEW e \in Executions, Begin(e) \/ AlreadyRunning(e) PROVE SettleInv'
  <2>1. /\ exec'[e].pc \in {"lock", "refused"}
        /\ \A f \in Executions \ {e} : exec'[f] = exec[f]
    BY <1>0, <1>1, ExecGoes DEF Begin, AlreadyRunning, ExecPcs, Over
  <2> QED
    BY <1>f, <2>1
<1>2. ASSUME NEW e \in Executions, ExecStep(e) PROVE SettleInv'
  <2>0. Sound(e) /\ \A f \in Executions \ {e} : exec'[f] = exec[f]
    BY <1>2, OnlyOwnerSteps, OwnerAdvances
  <2>i. exec[e].i \in 0 .. N /\ exec[e].n \in 0 .. N
    BY <1>0 DEF SagaTypeOK, ExecState
  <2>1. CASE AnnounceFailed(e) \/ AnnounceCompleted(e)
    <3>1. exec'[e].pc = "done"
      BY <1>0, <2>1, ExecGoes DEF AnnounceFailed, AnnounceCompleted, ExecPcs, Over
    <3>3. CASE /\ AnnounceFailed(e)
               /\ events' = events \cup {<<"SagaFailed", exec[e].i>>}
      <4>1. Settled'
        BY <2>i, <3>3 DEF Settled
      <4> QED
        BY <1>f, <2>0, <3>1, <4>1
    <3>4. CASE /\ AnnounceCompleted(e)
               /\ events' = events \cup {<<"SagaCompleted", exec[e].n>>}
      <4>1. Settled'
        BY <2>i, <3>4 DEF Settled
      <4> QED
        BY <1>f, <2>0, <3>1, <4>1
    <3>5. \/ faults' # 0
          \/ AnnounceFailed(e) /\ events' = events \cup {<<"SagaFailed", exec[e].i>>}
          \/ AnnounceCompleted(e) /\ events' = events \cup {<<"SagaCompleted", exec[e].n>>}
      BY <1>0, <2>1 DEF AnnounceFailed, AnnounceCompleted, Emit, Fault, SagaTypeOK
    <3>6. CASE faults' # 0
      BY <1>f, <2>0, <3>1, <3>6
    <3> QED
      BY <3>3, <3>4, <3>5, <3>6
  <2>2. CASE ~ AnnounceFailed(e) /\ ~ AnnounceCompleted(e)
    <3>1. LockStep(e) \/ ReleaseStep(e) => exec[e].i < N
      BY <2>0 DEF LockStep, ReleaseStep, Sound, AtE, BeforeBody, BodyRan
    <3>2. RunBody(e) => exec[e].n < N
      BY <2>0, <2>i DEF RunBody, Sound, AtE, BeforeBody
    <3>3. exec'[e].pc \notin {"done", "dead"}
      BY <1>0, <1>2, <2>2, <3>1, <3>2, ExecGoes, ExecNexts, ExecCounts
      DEF ExecStep, LockStep, RegisterCompensation, RunBody, BodyFails, StoreCheckpoint,
          AnnounceStep, ReleaseStep, StoreCompleted, ExecPcs, Over, StepSection, AfterFailure
    <3> QED
      BY <1>f, <2>0, <3>3
  <2> QED
    BY <2>1, <2>2
<1>3. ASSUME UNCHANGED exec PROVE SettleInv'
  BY <1>3, <1>f
<1>4. ASSUME NEW c \in Compensations, (\E k \in 0 .. N : Compensate(c, k)) \/ CompStep(c)
      PROVE  UNCHANGED exec
  BY <1>4 DEF Compensate, CompStep, LockUndo, SkipUndo, RunUndo, UndoFails, AnnounceUndoFailed,
     StoreRecord, AnnounceUndo, ReleaseUndo, StoreCompensated, AnnounceCompensated
<1>5. CASE Die
  <2>1. deaths' # 0
    BY <1>0, <1>5 DEF Die, SagaTypeOK
  <2>2. \A e \in Executions : exec'[e].pc = "done" => exec[e].pc = "done"
    BY <1>0, <1>5, ExecGoes DEF Die, ExecPcs, Over
  <2> QED
    BY <1>f, <2>1, <2>2
<1>6. CASE UNCHANGED vars
  BY <1>3, <1>6 DEF vars
<1> QED
  BY <1>1, <1>2, <1>3, <1>4, <1>5, <1>6 DEF Next

(* A saga is never left RUNNING with nobody at work on it, unless a call   *)
(* died or the queue lost something (of SagaSettles, that it cannot be     *)
(* abandoned).                                                             *)
THEOREM NeverAbandoned == Spec => []AtWorkOrSettled
<1>1. Init => SettleInv
  BY DEF Init, SettleInv, DoneIsSettled, DeathsCounted, AtE
<1>2. Inv /\ SettleInv /\ [Next]_vars => SettleInv'
  BY SettleStep
<1>3. Inv /\ SettleInv => AtWorkOrSettled
  <2> SUFFICES ASSUME Inv, SettleInv, saga = "RUNNING", faults = 0, deaths = 0
               PROVE  Settled \/ \E e \in Executions : exec[e].pc \notin Over
    BY DEF AtWorkOrSettled
  <2>1. PICK e \in Executions : Started(e)
    BY DEF Inv, NotBegun
  <2>2. CASE AtE(e, "done")
    BY <2>2 DEF SettleInv, DoneIsSettled
  <2>3. CASE ~ AtE(e, "done")
    BY <2>1, <2>3 DEF SettleInv, DeathsCounted, Started, AtE, Over
  <2> QED
    BY <2>2, <2>3
<1> QED
  BY <1>1, <1>2, <1>3, Invariant, PTL DEF Spec

-----------------------------------------------------------------------------
(* What a compensation that ends as completed does leave behind: steps     *)
(* that are undone, and steps another call holds, which is at them, failed *)
(* at them or died there (the last is how CompensatedUndidAll is violated).*)
CompensatedUndidOrHeld ==
  \A c \in Compensations : Completed(c) =>
    \A i \in 0 .. comp[c].k - 1 :
      undos[i] > 0 \/ \E d \in Compensations \ {c} : Holds(d, i)

(* What makes it inductive: a step the call has passed was undone or has a *)
(* holder, and whoever records a step has undone it.                       *)
PassedUndone ==
  \A c \in Compensations : ~ AtC(c, "idle") =>
    \A i \in Steps : comp[c].i < i /\ i < comp[c].k =>
      undos[i] > 0 \/ \E d \in Compensations : Holds(d, i)
RecordsUndone ==
  \A c \in Compensations :
    comp[c].pc \in {"record", "announce", "release"} => undos[comp[c].i] > 0
UndidInv == PassedUndone /\ RecordsUndone

(* A step of one compensation that stays at its step of the saga, or gives *)
(* it up with the step undone.                                             *)
LEMMA UndidFrame ==
  ASSUME Inv, UndidInv, NEW c \in Compensations, ~ AtC(c, "idle"),
         \A d \in Compensations \ {c} : comp'[d] = comp[d],
         comp'[c].k = comp[c].k, comp'[c].pc # "idle",
         \A i \in Steps : undos[i] > 0 => undos'[i] > 0,
         \A i \in Steps : Holds(c, i) => Holds(c, i)' \/ undos'[i] > 0,
         \A i \in Steps : comp'[c].i < i => comp[c].i < i \/ undos'[i] > 0
                            \/ \E d \in Compensations \ {c} : Holds(d, i)
  PROVE  PassedUndone'
<1>1. \A i \in Steps : (\E d \in Compensations : Holds(d, i)) =>
        undos'[i] > 0 \/ (\E d \in Compensations : Holds(d, i)')
  BY DEF Holds, InUndo
<1>2. \A i \in Steps : (\E d \in Compensations \ {c} : Holds(d, i)) =>
        \E d \in Compensations : Holds(d, i)'
  BY DEF Holds, InUndo
<1>3. ASSUME NEW d \in Compensations, ~ AtC(d, "idle")', NEW i \in Steps,
             comp'[d].i < i, i < comp'[d].k
      PROVE  undos'[i] > 0 \/ \E f \in Compensations : Holds(f, i)'
  <2>1. CASE d = c
    BY <1>1, <1>2, <1>3, <2>1 DEF UndidInv, PassedUndone
  <2>2. CASE d # c
    BY <1>1, <1>3, <2>2 DEF UndidInv, PassedUndone, AtC
  <2> QED
    BY <2>1, <2>2
<1> QED
  BY <1>3 DEF PassedUndone

LEMMA UndidKept ==
  ASSUME UndidInv, UNCHANGED <<comp, undos>>
  PROVE  UndidInv'
BY DEF UndidInv, PassedUndone, RecordsUndone, Holds, InUndo, AtC

LEMMA UndidStep ==
  ASSUME Inv, UndidInv, [Next]_vars
  PROVE  UndidInv'
<1>0. SagaTypeOK /\ PassedUndone /\ RecordsUndone
  BY DEF Inv, UndidInv
<1>t. undos \in [Steps -> Nat]
  BY <1>0 DEF SagaTypeOK
<1>1. ASSUME NEW e \in Executions, Begin(e) \/ AlreadyRunning(e) PROVE UndidInv'
  BY <1>1, UndidKept DEF Begin, AlreadyRunning, sagaVars, history
<1>2. ASSUME NEW e \in Executions, ExecStep(e) PROVE UndidInv'
  <2>2. UNCHANGED <<comp, undos>>
    BY <1>2 DEF ExecStep, LockStep, RegisterCompensation, RunBody, BodyFails, AnnounceFailed,
       StoreCheckpoint, AnnounceStep, ReleaseStep, StoreCompleted, AnnounceCompleted, history
  <2> QED
    BY <2>2, UndidKept
<1>3. ASSUME NEW c \in Compensations, NEW k \in 0 .. N, Compensate(c, k) PROVE UndidInv'
  <2>1. /\ comp[c].pc = "idle" /\ comp'[c].pc = (IF k = 0 THEN "announceDone" ELSE "lock")
        /\ comp'[c].i = k - 1 /\ comp'[c].k = k
        /\ \A d \in Compensations \ {c} : comp'[d] = comp[d]
        /\ UNCHANGED undos
    BY <1>0, <1>3 DEF Compensate, First, AtC, SagaTypeOK, history
  <2>2. \A d \in Compensations, i \in Steps : Holds(d, i) => Holds(d, i)'
    BY <2>1 DEF Holds, InUndo, UndoSection
  <2>3. ASSUME NEW d \in Compensations, ~ AtC(d, "idle")', NEW i \in Steps,
               comp'[d].i < i, i < comp'[d].k
        PROVE  undos'[i] > 0 \/ \E f \in Compensations : Holds(f, i)'
    <3>1. d # c
      BY <2>1, <2>3 DEF Steps
    <3> QED
      BY <1>0, <2>1, <2>2, <2>3, <3>1 DEF PassedUndone, AtC
  <2>4. PassedUndone'
    BY <2>3 DEF PassedUndone
  <2>5. RecordsUndone'
    BY <1>0, <2>1 DEF RecordsUndone, AtC
  <2> QED
    BY <2>4, <2>5 DEF UndidInv
<1>4. ASSUME NEW c \in Compensations, CompStep(c) PROVE UndidInv'
  <2>i. comp[c].i \in -1 .. N - 1 /\ comp[c].n \in 0 .. N /\ comp[c].k \in 0 .. N
    BY <1>0 DEF SagaTypeOK, CompState
  <2>u. /\ comp[c].pc \in {"lock", "body", "failed"} =>
             comp[c].i >= 0 /\ comp[c].n + comp[c].i + 1 = comp[c].k
        /\ comp[c].pc \in {"record", "announce", "release"} =>
             comp[c].i >= 0 /\ comp[c].n + comp[c].i = comp[c].k
    BY DEF Inv, UndoCounted
  <2>1. ASSUME NEW q \in CompPcs \ {"idle"}, GoC(c, q), comp[c].pc # "idle", undos' = undos,
               Holds(c, comp[c].i) => InUndo(c)' \/ q \in {"failed", "done", "dead"},
               q \in {"record", "announce", "release"} =>
                 comp[c].pc \in {"record", "announce", "release"}
        PROVE  UndidInv'
    <3>1. /\ comp'[c].pc = q /\ comp'[c].i = comp[c].i /\ comp'[c].k = comp[c].k
          /\ \A d \in Compensations \ {c} : comp'[d] = comp[d]
      BY <1>0, <2>1, CompGoes
    <3>2. \A i \in Steps : Holds(c, i) => Holds(c, i)'
      BY <2>1, <3>1 DEF Holds, InUndo
    <3>3. PassedUndone'
      BY <2>1, <3>1, <3>2, UndidFrame DEF AtC
    <3>4. RecordsUndone'
      BY <1>0, <2>1, <3>1 DEF RecordsUndone
    <3> QED
      BY <3>3, <3>4 DEF UndidInv
  <2>2. ASSUME NEW n \in 0 .. N, comp[c].i >= 0, NextUndo(c, n), undos' = undos,
               comp[c].pc \in {"lock", "release"},
               \/ undos[comp[c].i] > 0
               \/ \E d \in Compensations \ {c} : Holds(d, comp[c].i)
        PROVE  UndidInv'
    <3>1. /\ comp'[c].pc = (IF comp[c].i = 0 THEN "complete" ELSE "lock")
          /\ comp'[c].i = comp[c].i - 1 /\ comp'[c].k = comp[c].k
          /\ \A d \in Compensations \ {c} : comp'[d] = comp[d]
      BY <1>0, <2>2, CompNexts
    <3>2. \A i \in Steps : comp'[c].i < i => comp[c].i < i \/ i = comp[c].i
      BY <2>i, <3>1 DEF Steps
    <3>3. \A i \in Steps : Holds(c, i) => i = comp[c].i /\ comp[c].pc = "release"
      BY <2>2 DEF Holds, InUndo, UndoSection
    <3>4. PassedUndone'
      BY <1>0, <2>2, <3>1, <3>2, <3>3, UndidFrame DEF AtC, RecordsUndone
    <3>5. RecordsUndone'
      BY <1>0, <2>2, <3>1 DEF RecordsUndone
    <3> QED
      BY <3>4, <3>5 DEF UndidInv
  <2>3. CASE LockUndo(c)
    <3>1. /\ comp[c].pc = "lock" /\ comp'[c].pc = "body"
          /\ comp'[c].i = comp[c].i /\ comp'[c].k = comp[c].k
          /\ \A d \in Compensations \ {c} : comp'[d] = comp[d]
          /\ undos' = undos
      BY <1>0, <2>3, CompGoes DEF LockUndo, AtC, CompPcs, UndoSection, history
    <3>2. PassedUndone'
      BY <3>1, UndidFrame DEF AtC, Holds, InUndo, UndoSection
    <3>3. RecordsUndone'
      BY <1>0, <3>1 DEF RecordsUndone, AtC
    <3> QED
      BY <3>2, <3>3 DEF UndidInv
  <2>4. CASE SkipUndo(c)
    <3>1. /\ comp[c].pc = "lock" /\ comp[c].i \in Steps /\ comp[c].n + 1 \in 0 .. N
          /\ CompLock(comp[c].i) \in locks /\ undos' = undos
      BY <2>4, <2>i, <2>u DEF SkipUndo, AtC, Free, Steps, history
    <3>2. PICK d \in Compensations : Holds(d, comp[c].i)
      BY <3>1 DEF Inv, UndoLocks
    <3>3. d # c
      BY <3>1, <3>2 DEF Holds, InUndo, UndoSection
    <3> QED
      BY <2>2, <2>4, <3>1, <3>2, <3>3 DEF SkipUndo, Steps
  <2>5. CASE RunUndo(c)
    <3>1. comp[c].pc = "body" /\ comp[c].n < N /\ comp[c].i \in Steps
      BY <2>5, <2>i, <2>u DEF RunUndo, AtC, Steps
    <3>2. /\ comp'[c].pc = "record" /\ comp'[c].i = comp[c].i /\ comp'[c].k = comp[c].k
          /\ \A d \in Compensations \ {c} : comp'[d] = comp[d]
      BY <1>0, <2>5, <3>1, CompCounts DEF RunUndo
    <3>3. undos' = [undos EXCEPT ![comp[c].i] = @ + 1]
      BY <2>5 DEF RunUndo
    <3>4. undos'[comp[c].i] > 0 /\ \A i \in Steps : undos[i] > 0 => undos'[i] > 0
      BY <1>t, <3>1, <3>3
    <3>5. PassedUndone'
      BY <3>1, <3>2, <3>4, UndidFrame DEF AtC, Holds, InUndo, UndoSection
    <3>6. ASSUME NEW d \in Compensations \ {c},
                 comp[d].pc \in {"record", "announce", "release"}
          PROVE  undos'[comp[d].i] > 0
      <4>1. comp[d].i \in Steps
        BY <1>0, <3>6 DEF Inv, UndoCounted, SagaTypeOK, CompState, Steps
      <4> QED
        BY <1>0, <3>4, <3>6, <4>1 DEF RecordsUndone
    <3>7. RecordsUndone'
      BY <3>2, <3>4, <3>6 DEF RecordsUndone
    <3> QED
      BY <3>5, <3>7 DEF UndidInv
  <2>6. CASE UndoFails(c)
    BY <2>1, <2>6 DEF UndoFails, AtC, CompPcs, history
  <2>7. CASE AnnounceUndoFailed(c)
    BY <2>1, <2>7 DEF AnnounceUndoFailed, AtC, CompPcs, Over, history
  <2>a. ASSUME GoC(c, "announce") \/ GoC(c, "release") PROVE InUndo(c)'
    BY <1>0, <2>a, CompGoes DEF CompPcs, UndoSection, InUndo
  <2>8. CASE StoreRecord(c)
    BY <2>1, <2>8, <2>a DEF StoreRecord, AtC, CompPcs, UndoSection, history
  <2>9. CASE AnnounceUndo(c)
    BY <2>1, <2>9, <2>a DEF AnnounceUndo, AtC, CompPcs, UndoSection, history
  <2>10. CASE ReleaseUndo(c)
    <3>1. comp[c].pc = "release" /\ comp[c].i >= 0 /\ undos[comp[c].i] > 0
      BY <1>0, <2>10, <2>u DEF ReleaseUndo, AtC, RecordsUndone
    <3> QED
      BY <2>2, <2>10, <2>i, <3>1 DEF ReleaseUndo, history
  <2>11. CASE StoreCompensated(c)
    BY <2>1, <2>11 DEF StoreCompensated, AtC, CompPcs, Holds, InUndo, UndoSection, history
  <2>12. CASE AnnounceCompensated(c)
    BY <2>1, <2>12 DEF AnnounceCompensated, AtC, CompPcs, Over, history
  <2> QED
    BY <1>4, <2>3, <2>4, <2>5, <2>6, <2>7, <2>8, <2>9, <2>10, <2>11, <2>12 DEF CompStep
<1>5. CASE Die
  <2>1. UNCHANGED undos
    BY <1>5 DEF Die, history
  <2>2. CASE comp' = comp
    BY <2>1, <2>2, UndidKept
  <2>3. ASSUME NEW c \in Compensations, comp[c].pc \notin Over, GoC(c, "dead") PROVE UndidInv'
    <3>1. /\ comp'[c].pc = "dead" /\ comp'[c].i = comp[c].i /\ comp'[c].k = comp[c].k
          /\ \A d \in Compensations \ {c} : comp'[d] = comp[d]
      BY <1>0, <2>3, CompGoes DEF CompPcs, Over
    <3>2. PassedUndone'
      BY <2>1, <2>3, <3>1, UndidFrame DEF AtC, Holds, InUndo, Over
    <3>3. RecordsUndone'
      BY <1>0, <2>1, <3>1 DEF RecordsUndone, AtC
    <3> QED
      BY <3>2, <3>3 DEF UndidInv
  <2> QED
    BY <1>5, <2>2, <2>3 DEF Die
<1>6. CASE UNCHANGED vars
  BY <1>6, UndidKept DEF vars, sagaVars, history
<1> QED
  BY <1>1, <1>2, <1>3, <1>4, <1>5, <1>6 DEF Next

(* A compensation that ends as completed leaves no step of its stack that  *)
(* is not undone, but those another call holds: it is at them, failed at   *)
(* them, or died there, and only of the last nobody hears again.           *)
THEOREM CompletedUndid == Spec => []CompensatedUndidOrHeld
<1>1. Init => UndidInv
  BY DEF Init, UndidInv, PassedUndone, RecordsUndone, AtC
<1>2. Inv /\ UndidInv /\ [Next]_vars => UndidInv'
  BY UndidStep
<1>3. Inv /\ UndidInv => CompensatedUndidOrHeld
  <2> SUFFICES ASSUME Inv, UndidInv, NEW c \in Compensations, AtC(c, "done"), comp[c].i = -1,
                      NEW i \in 0 .. comp[c].k - 1
               PROVE  undos[i] > 0 \/ \E d \in Compensations \ {c} : Holds(d, i)
    BY DEF CompensatedUndidOrHeld, Completed
  <2>1. i \in Steps /\ comp[c].i < i /\ i < comp[c].k
    BY DEF Inv, SagaTypeOK, CompState, Steps
  <2>2. ~ Holds(c, i)
    BY <2>1 DEF Holds, Steps
  <2> QED
    BY <2>1, <2>2 DEF UndidInv, PassedUndone, AtC
<1> QED
  BY <1>1, <1>2, <1>3, Invariant, PTL DEF Spec
=============================================================================
