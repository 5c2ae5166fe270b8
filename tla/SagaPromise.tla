----------------------------- MODULE SagaPromise -----------------------------
(***************************************************************************)
(* What a durable saga promises whoever requested it                       *)
(* (src/server/src/engine/flows/durable-sagas-compliance), with the        *)
(* services, their locks, deliveries, faults and deaths left out: its      *)
(* steps run one after the other, each once; it ends once, as completed    *)
(* when all ran or as failed when one did not; a step is undone only after *)
(* the failure, and only one that was reached.                             *)
(***************************************************************************)
EXTENDS Integers

CONSTANT N  \* number of steps

Steps == 0 .. N - 1

VARIABLES
  begun,  \* the saga was started
  ends,   \* how it was announced to end: "completed", "failed"
  runs,   \* how often each step's body ran
  undos   \* how often each step was undone

sagaVars == <<begun, ends, runs, undos>>

Init ==
  /\ begun = FALSE
  /\ ends = {}
  /\ runs = [i \in Steps |-> 0]
  /\ undos = [i \in Steps |-> 0]

(* All the steps before step i ran, each once, and no other. *)
Reached(i) ==
  /\ \A j \in Steps : j < i => runs[j] = 1
  /\ \A j \in Steps : j >= i => runs[j] = 0

Running == begun /\ ends = {}

Begin ==
  /\ ~ begun
  /\ begun' = TRUE
  /\ UNCHANGED <<ends, runs, undos>>

RunStep(i) ==
  /\ Running /\ Reached(i)
  /\ runs' = [runs EXCEPT ![i] = 1]
  /\ UNCHANGED <<begun, ends, undos>>

Complete ==
  /\ Running /\ Reached(N)
  /\ ends' = {"completed"}
  /\ UNCHANGED <<begun, runs, undos>>

Fail(i) ==
  /\ Running /\ Reached(i)
  /\ ends' = {"failed"}
  /\ UNCHANGED <<begun, runs, undos>>

(* Step i ran, or it is the one that failed. *)
Undo(i) ==
  /\ ends = {"failed"}
  /\ runs[i] = 1 \/ Reached(i)
  /\ undos' = [undos EXCEPT ![i] = @ + 1]
  /\ UNCHANGED <<begun, ends, runs>>

Next ==
  \/ Begin \/ Complete
  \/ \E i \in Steps : RunStep(i) \/ Fail(i) \/ Undo(i)

Spec == Init /\ [][Next]_sagaVars
=============================================================================
