-------------------------- MODULE CycleChainProofs --------------------------
(* Invariance proofs for CycleChain: any number of top-level runs, calls,  *)
(* steps, decompositions and failures.                                     *)
EXTENDS CycleChain, TLAPS

(* A run that may be in progress: a top-level one, or one within the depth. *)
GoodRun(x) ==
  x.run \in Runs /\ x.depth \in Nat \ {0} /\ (x.depth = 1 \/ x.depth <= TerminationDepth)

(* The messages that expansions send: sub-flows within the depth.          *)
GoodMsgs == {m \in Message : 2 <= m.depth /\ m.depth <= TerminationDepth}

(* What holds of every call by itself.                                     *)
CallOK(c, x) ==
  /\ x \in CallState
  /\ x.pc # "idle" => GoodRun(x)
  /\ x.unstored \in Seq(GoodMsgs) /\ x.unsent \in Seq(GoodMsgs)
  /\ x.pc = "depth" => x.left > 0
  /\ x.pc = "storeRefs" => x.unstored # <<>>
  /\ x.pc \in {"storeRefs", "emit"} => x.unsent # <<>>
  /\ x.pc \in {"storeResult", "emitCompleted"} => c \in RefIds

CallsOK == \A c \in Calls : CallOK(c, calls[c])

IInv == TypeOK /\ CallsOK /\ expandQueue \subseteq GoodMsgs

LEMMA IdleOK ==
  ASSUME NEW c \in Calls
  PROVE  CallOK(c, Idle)
<1>1. Idle \in CallState
  BY DEF Idle, CallState
<1> QED BY <1>1 DEF Idle, CallOK

(* A step of one call keeps the others. *)
LEMMA CallMoves ==
  ASSUME IInv, NEW c \in Calls, NEW x, CallOK(c, x), calls' = [calls EXCEPT ![c] = x]
  PROVE  calls' \in [Calls -> CallState] /\ CallsOK'
<1>1. calls \in [Calls -> CallState]
  BY DEF IInv, TypeOK
<1>2. calls' \in [Calls -> CallState]
  BY <1>1 DEF CallOK
<1>3. ASSUME NEW d \in Calls
      PROVE  CallOK(d, calls'[d])
  <2>1. CASE d = c
    BY <1>1, <2>1
  <2>2. CASE d # c
    <3>1. calls'[d] = calls[d]
      BY <1>1, <2>2
    <3> QED BY <3>1 DEF IInv, CallsOK
  <2> QED BY <2>1, <2>2
<1>4. CallsOK' <=> \A d \in Calls : CallOK(d, calls'[d])
  BY DEF CallsOK, CallOK
<1> QED BY <1>2, <1>3, <1>4

(* A run in progress has a root to charge. *)
LEMMA RootOfRun ==
  ASSUME NEW run \in Runs
  PROVE  /\ run \in Seq(Roots \cup Pieces \cup Nat) /\ run # <<>>
         /\ Head(run) \in Roots /\ Len(run) \in Nat /\ Len(run) >= 1
<1>1. run \in Seq(Roots \cup Pieces \cup Nat) /\ run # <<>> /\ run[1] \in Roots
  BY DEF Runs
<1>2. Head(run) = run[1]
  BY <1>1
<1> QED BY <1>1, <1>2

(* The pieces of a child's run id: its parent's, a depth and its name's.   *)
LEMMA ChildPieces ==
  ASSUME NEW run \in Runs, NEW depth \in Nat, NEW name \in Names
  PROVE  /\ Slug[name] \in Seq(Pieces \cup Nat) /\ Len(Slug[name]) \in Nat
         /\ ChildRun(run, depth, name) = run \o (<<depth>> \o Slug[name])
         /\ ChildRun(run, depth, name) \in Seq(Roots \cup Pieces \cup Nat)
         /\ Len(ChildRun(run, depth, name)) = Len(run) + 1 + Len(Slug[name])
         /\ \A i \in 1..Len(run) : ChildRun(run, depth, name)[i] = run[i]
         /\ ChildRun(run, depth, name)[Len(run) + 1] = depth
         /\ \A i \in 1..Len(Slug[name]) :
              ChildRun(run, depth, name)[Len(run) + 1 + i] = Slug[name][i]
<1> DEFINE s == Slug[name]
           u == <<depth>> \o s
           P == Roots \cup Pieces \cup Nat
<1>1. s \in Seq(Pieces \cup Nat) /\ name # NoName
  BY SlugAssumption
<1>2. s \in Seq(P) /\ Len(s) \in Nat
  BY <1>1
<1> HIDE DEF s
<1>3. /\ u \in Seq(P) /\ Len(u) = 1 + Len(s) /\ u[1] = depth
      /\ \A i \in 1..Len(s) : u[1 + i] = s[i]
  BY <1>2
<1>4. ChildRun(run, depth, name) = run \o u
  BY <1>1 DEF ChildRun, s
<1> HIDE DEF u
<1>5. run \in Seq(P) /\ Len(run) \in Nat /\ Len(run) >= 1
  BY RootOfRun
<1> HIDE DEF P
<1>6. /\ run \o u \in Seq(P) /\ Len(run \o u) = Len(run) + Len(u)
      /\ \A i \in 1..Len(run) : (run \o u)[i] = run[i]
      /\ \A i \in 1..Len(u) : (run \o u)[Len(run) + i] = u[i]
  BY <1>3, <1>5
<1>7. (run \o u)[Len(run) + 1] = depth
  BY <1>2, <1>3, <1>6
<1>8. ASSUME NEW i \in 1..Len(s)
      PROVE  (run \o u)[Len(run) + 1 + i] = s[i]
  <2>1. 1 + i \in 1..Len(u) /\ Len(run) + (1 + i) = Len(run) + 1 + i
    BY <1>2, <1>3, <1>5
  <2> QED BY <1>3, <1>6, <2>1
<1>9. Len(run \o u) = Len(run) + 1 + Len(s)
  BY <1>2, <1>3, <1>5, <1>6
<1> QED BY <1>1, <1>2, <1>4, <1>6, <1>7, <1>8, <1>9 DEF s, u, P

LEMMA ChildIsRun ==
  ASSUME NEW run \in Runs, NEW depth \in Nat, NEW name \in Names \cup {NoName}
  PROVE  ChildRun(run, depth, name) \in Runs \cup {NoRun}
<1>1. CASE name = NoName
  BY <1>1 DEF ChildRun
<1>2. CASE name # NoName
  <2> DEFINE s == Slug[name]
             child == ChildRun(run, depth, name)
  <2>1. /\ child \in Seq(Roots \cup Pieces \cup Nat) /\ Len(s) \in Nat
        /\ Len(child) = Len(run) + 1 + Len(s) /\ \A i \in 1..Len(run) : child[i] = run[i]
    BY <1>2, ChildPieces
  <2>2. Len(run) \in Nat /\ Len(run) >= 1 /\ run[1] \in Roots
    BY RootOfRun DEF Runs
  <2> HIDE DEF child, s
  <2>3. child # <<>> /\ child[1] \in Roots
    BY <2>1, <2>2
  <2> QED BY <2>1, <2>3 DEF Runs, child
<1> QED BY <1>1, <1>2

-----------------------------------------------------------------------------
(* The moves of a call, each to a state that CallOK allows.                *)
LEMMA CallFacts ==
  ASSUME IInv, NEW c \in Calls
  PROVE  /\ CallOK(c, calls[c]) /\ calls[c] \in CallState
         /\ calls \in [Calls -> CallState]
         /\ calls[c].pc # "idle" => Run(c) \in Runs
BY DEF IInv, TypeOK, CallsOK, CallOK, GoodRun, Run

LEMMA ReturnOK ==
  ASSUME IInv, NEW c \in Calls, calls[c].pc # "idle", NEW outcome \in Outcomes
  PROVE  CallOK(c, Returned(c, outcome))
<1>1. CASE c \in Roots
  BY <1>1, IdleOK DEF Returned
<1>2. CASE c \notin Roots
  <2>1. c \in RefIds
    BY <1>2 DEF Calls
  <2> DEFINE x == [calls[c] EXCEPT !.pc = "storeResult", !.outcome = outcome]
  <2>2. x \in CallState /\ x.pc = "storeResult" /\ x.run = calls[c].run /\ x.depth = calls[c].depth
        /\ x.unstored = calls[c].unstored /\ x.unsent = calls[c].unsent
    BY CallFacts DEF CallState
  <2> HIDE DEF x
  <2>3. CallOK(c, x)
    BY <2>1, <2>2, CallFacts DEF CallOK, GoodRun
  <2> QED BY <1>2, <2>3 DEF Returned, x
<1> QED BY <1>1, <1>2

(* A call goes to pc with n steps left, its lists as they were.            *)
LEMMA GoOn ==
  ASSUME IInv, NEW c \in Calls, calls[c].pc # "idle",
         NEW pc \in {"step", "depth"}, NEW n \in Nat, pc = "depth" => n > 0
  PROVE  CallOK(c, [calls[c] EXCEPT !.pc = pc, !.left = n])
<1> DEFINE x == [calls[c] EXCEPT !.pc = pc, !.left = n]
<1>1. x \in CallState /\ x.pc = pc /\ x.left = n /\ x.run = calls[c].run /\ x.depth = calls[c].depth
      /\ x.unstored = calls[c].unstored /\ x.unsent = calls[c].unsent
  BY CallFacts DEF CallState
<1> HIDE DEF x
<1>2. CallOK(c, x)
  BY <1>1, CallFacts DEF CallOK, GoodRun
<1> QED BY <1>2 DEF x

LEMMA ChargeType ==
  ASSUME IInv, NEW c \in Calls, calls[c].pc # "idle", NEW cost \in Costs, Charge(c, cost)
  PROVE  accumulated' \in Nat /\ familySpend' \in [Roots -> Nat]
<1>1. Head(Run(c)) \in Roots /\ cost \in Nat
  BY CallFacts, RootOfRun, LimitsAssumption
<1> QED BY <1>1 DEF Charge, IInv, TypeOK

(* Lists of messages: what a step takes off one, and what expansion makes. *)
LEMMA TakenOff ==
  ASSUME NEW s \in Seq(GoodMsgs), s # <<>>
  PROVE  Head(s) \in GoodMsgs /\ Tail(s) \in Seq(GoodMsgs)
OBVIOUS

LEMMA GoodLists ==
  ASSUME NEW s \in Seq(GoodMsgs)
  PROVE  s \in Seq(Message)
BY DEF GoodMsgs

LEMMA GoodFields ==
  ASSUME NEW m \in GoodMsgs
  PROVE  /\ m \in Message /\ m.id \in RefIds /\ m.run \in Runs \cup {NoRun}
         /\ m.depth \in Nat /\ m.depth # 1
         /\ m.run # NoRun => GoodRun(m)
BY DEF GoodMsgs, Message, GoodRun

LEMMA SubFlowsGood ==
  ASSUME IInv, NEW c \in Calls, At(c, "depth"), ~ AtBound(calls[c].depth),
         NEW d \in Decompositions, lastRef + Len(d) <= MaxRefs
  PROVE  SubFlows(c, d) \in Seq(GoodMsgs) /\ SubFlows(c, d) # <<>>
<1> DEFINE depth == calls[c].depth + 1
           m(i) == [id |-> lastRef + i, run |-> ChildRun(Run(c), depth, d[i]), depth |-> depth]
<1>1. d \in Seq(Names \cup {NoName}) /\ d # <<>> /\ Len(d) \in Nat /\ Len(d) > 0
  BY DecompositionsAssumption
<1>2. /\ Run(c) \in Runs /\ depth \in Nat
      /\ 2 <= depth /\ depth <= TerminationDepth
  BY CallFacts, LimitsAssumption DEF At, CallOK, GoodRun, AtBound
<1> HIDE DEF depth
<1>3. ASSUME NEW i \in 1..Len(d)
      PROVE  m(i) \in GoodMsgs
  <2>1. ChildRun(Run(c), depth, d[i]) \in Runs \cup {NoRun}
    BY <1>1, <1>2, ChildIsRun
  <2>2. lastRef + i \in RefIds
    BY <1>1, BoundsAssumption DEF RefIds, IInv, TypeOK
  <2> QED BY <1>2, <2>1, <2>2 DEF GoodMsgs, Message
<1> DEFINE s == SubFlows(c, d)
<1>4. s = [i \in 1..Len(d) |-> m(i)]
  BY DEF SubFlows, depth
<1>5. s \in [1..Len(d) -> GoodMsgs]
  BY <1>3, <1>4
<1> HIDE DEF s
<1>6. s \in Seq(GoodMsgs) /\ Len(s) = Len(d)
  BY <1>1, <1>5
<1>7. s # <<>>
  BY <1>1, <1>6
<1> QED BY <1>6, <1>7 DEF s

-----------------------------------------------------------------------------
(* Steps of a call that leave documents and messages alone.                *)
LEMMA LocalKeeps ==
  ASSUME IInv, NEW c \in Calls, NEW x, CallOK(c, x), calls' = [calls EXCEPT ![c] = x],
         UNCHANGED <<started, storeVars>>,
         accumulated' \in Nat, familySpend' \in [Roots -> Nat], faults' \in Nat
  PROVE  IInv'
<1>1. calls' \in [Calls -> CallState] /\ CallsOK'
  BY CallMoves
<1> QED BY <1>1 DEF IInv, TypeOK, storeVars

LEMMA FaultCounts ==
  ASSUME IInv, Fault \/ UNCHANGED faults
  PROVE  faults' \in Nat
BY DEF IInv, TypeOK, Fault

LEMMA Cycle1Keeps ==
  ASSUME IInv, NEW c \in Calls, Cycle1(c)
  PROVE  IInv'
<1>1. CASE PlanRejected(c)
  <2>1. calls[c].pc # "idle" /\ "FAILED" \in Outcomes
    BY <1>1 DEF PlanRejected, At, Outcomes
  <2>2. CallOK(c, Returned(c, "FAILED"))
    BY <2>1, ReturnOK
  <2> QED BY <1>1, <2>2, LocalKeeps DEF PlanRejected, Returns, spendVars, IInv, TypeOK
<1>2. CASE PlanAccepted(c)
  <2>1. calls[c].pc # "idle" /\ "FAILED" \in Outcomes
    BY <1>2 DEF PlanAccepted, At, Outcomes
  <2>2. PICK cost \in Costs :
          \/ /\ GateContinues(c, cost)
             /\ \E n \in 0..MaxSteps :
                  calls' = [calls EXCEPT ![c].pc = "step", ![c].left = n]
          \/ GateHalts(c, cost)
    BY <1>2 DEF PlanAccepted
  <2>3. UNCHANGED <<started, storeVars>> /\ Charge(c, cost) /\ (Fault \/ UNCHANGED faults)
    BY <1>2, <2>2 DEF PlanAccepted, GateContinues, GateHalts
  <2>4. accumulated' \in Nat /\ familySpend' \in [Roots -> Nat] /\ faults' \in Nat
    BY <2>1, <2>3, ChargeType, FaultCounts
  <2>5. CASE GateHalts(c, cost)
    <3>1. CallOK(c, Returned(c, "FAILED"))
      BY <2>1, ReturnOK
    <3> QED BY <2>3, <2>4, <2>5, <3>1, LocalKeeps DEF GateHalts, Returns
  <2>6. ASSUME NEW n \in 0..MaxSteps,
               calls' = [calls EXCEPT ![c].pc = "step", ![c].left = n]
        PROVE  IInv'
    <3>0. n \in Nat
      BY BoundsAssumption
    <3>1. CallOK(c, [calls[c] EXCEPT !.pc = "step", !.left = n])
      BY <2>1, <3>0, GoOn
    <3>2. calls' = [calls EXCEPT ![c] = [calls[c] EXCEPT !.pc = "step", !.left = n]]
      BY <2>6
    <3> QED BY <2>3, <2>4, <3>1, <3>2, LocalKeeps
  <2> QED BY <2>2, <2>5, <2>6
<1> QED BY <1>1, <1>2 DEF Cycle1

(* The next step of the plan, whatever happens to suspensions and faults.  *)
LEMMA NextStepOK ==
  ASSUME IInv, NEW c \in Calls, calls[c].pc # "idle", calls[c].left > 0
  PROVE  CallOK(c, [calls[c] EXCEPT !.pc = "step", !.left = calls[c].left - 1])
<1>1. calls[c].left - 1 \in Nat
  BY CallFacts DEF CallState
<1> QED BY <1>1, GoOn

LEMMA SuspensionKept ==
  ASSUME IInv, NEW c \in Calls, calls[c].pc # "idle",
         NEW reason \in {"CONTEXT_INSUFFICIENT", "EXPAND_PENDING"},
         StoreSuspension(c, reason)
  PROVE  suspensions' \subseteq SuspensionDoc /\ faults' \in Nat
<1>1. Suspension(c, reason) \in SuspensionDoc
  BY CallFacts DEF Suspension, SuspensionDoc, CallState
<1> QED BY <1>1, FaultCounts DEF StoreSuspension, IInv, TypeOK

LEMMA Cycle2Keeps ==
  ASSUME IInv, NEW c \in Calls, Cycle2(c)
  PROVE  IInv'
<1>1. CASE StepInsufficient(c)
  <2>1. calls[c].pc # "idle" /\ calls[c].left > 0
        /\ calls' = [calls EXCEPT ![c] =
                       [calls[c] EXCEPT !.pc = "step", !.left = calls[c].left - 1]]
    BY <1>1 DEF StepInsufficient, HasStep, At, NextStep
  <2>2. suspensions' \subseteq SuspensionDoc /\ faults' \in Nat
    BY <1>1, <2>1, SuspensionKept DEF StepInsufficient
  <2>3. calls' \in [Calls -> CallState] /\ CallsOK'
    BY <2>1, NextStepOK, CallMoves
  <2> QED BY <1>1, <2>2, <2>3 DEF StepInsufficient, IInv, TypeOK, spendVars
<1>2. CASE StepRejected(c)
  <2>1. calls[c].pc # "idle" /\ calls[c].left > 0
        /\ calls' = [calls EXCEPT ![c] =
                       [calls[c] EXCEPT !.pc = "step", !.left = calls[c].left - 1]]
    BY <1>2 DEF StepRejected, HasStep, At, NextStep
  <2> QED BY <1>2, <2>1, NextStepOK, LocalKeeps
          DEF StepRejected, spendVars, IInv, TypeOK
<1>3. CASE StepAccepted(c)
  <2>1. calls[c].pc # "idle" /\ calls[c].left > 0 /\ "FAILED" \in Outcomes
    BY <1>3 DEF StepAccepted, HasStep, At, Outcomes
  <2>2. PICK cost \in Costs :
          \/ GateContinues(c, cost) /\ Goto(c, "depth")
          \/ GateHalts(c, cost)
    BY <1>3 DEF StepAccepted
  <2>3. UNCHANGED <<started, storeVars>> /\ Charge(c, cost) /\ (Fault \/ UNCHANGED faults)
    BY <1>3, <2>2 DEF StepAccepted, GateContinues, GateHalts
  <2>4. accumulated' \in Nat /\ familySpend' \in [Roots -> Nat] /\ faults' \in Nat
    BY <2>1, <2>3, ChargeType, FaultCounts
  <2>5. CASE GateHalts(c, cost)
    <3>1. CallOK(c, Returned(c, "FAILED"))
      BY <2>1, ReturnOK
    <3> QED BY <2>3, <2>4, <2>5, <3>1, LocalKeeps DEF GateHalts, Returns
  <2>6. CASE Goto(c, "depth")
    <3> DEFINE x == [calls[c] EXCEPT !.pc = "depth", !.left = calls[c].left]
    <3>1. calls[c].left \in Nat
      BY CallFacts DEF CallState
    <3>2. CallOK(c, x)
      BY <2>1, <3>1, GoOn
    <3>3. [calls[c] EXCEPT !.pc = "depth"] = x
      BY CallFacts DEF CallState
    <3>4. calls' = [calls EXCEPT ![c] = x]
      BY <2>6, <3>3 DEF Goto
    <3> HIDE DEF x
    <3> QED BY <2>3, <2>4, <3>2, <3>4, LocalKeeps
  <2> QED BY <2>2, <2>5, <2>6
<1>4. CASE Complete(c)
  <2>1. calls[c].pc # "idle" /\ "COMPLETE" \in Outcomes
    BY <1>4 DEF Complete, At, Outcomes
  <2>2. CallOK(c, Returned(c, "COMPLETE"))
    BY <2>1, ReturnOK
  <2> QED BY <1>4, <2>2, LocalKeeps DEF Complete, Returns, spendVars, IInv, TypeOK
<1> QED BY <1>1, <1>2, <1>3, <1>4 DEF Cycle2

-----------------------------------------------------------------------------
(* The steps of an expansion.                                              *)
LEMMA Cycle3Keeps ==
  ASSUME IInv, NEW c \in Calls, Cycle3(c)
  PROVE  IInv'
<1>1. CASE Leaf(c)
  <2>1. calls[c].pc # "idle" /\ calls[c].left > 0
        /\ calls' = [calls EXCEPT ![c] =
                       [calls[c] EXCEPT !.pc = "step", !.left = calls[c].left - 1]]
    BY <1>1, CallFacts DEF Leaf, At, NextStep, CallOK
  <2> QED BY <1>1, <2>1, NextStepOK, LocalKeeps DEF Leaf, spendVars, IInv, TypeOK
<1>2. CASE Expand(c)
  <2>1. PICK d \in Decompositions :
          /\ lastRef + Len(d) <= MaxRefs
          /\ lastRef' = lastRef + Len(d)
          /\ calls' = [calls EXCEPT ![c].pc = "storeRefs",
                           ![c].unstored = SubFlows(c, d), ![c].unsent = SubFlows(c, d)]
    BY <1>2 DEF Expand
  <2>2. At(c, "depth") /\ calls[c].pc = "depth"
    BY <1>2 DEF Expand, At
  <2>3. SubFlows(c, d) \in Seq(GoodMsgs) /\ SubFlows(c, d) # <<>>
    BY <1>2, <2>1, <2>2, SubFlowsGood DEF Expand
  <2> DEFINE subs == SubFlows(c, d)
             x == [calls[c] EXCEPT !.pc = "storeRefs", !.unstored = subs, !.unsent = subs]
  <2>4. subs \in Seq(Message)
    BY <2>3, GoodLists
  <2> HIDE DEF subs
  <2>5. x \in CallState /\ x.pc = "storeRefs" /\ x.run = calls[c].run /\ x.depth = calls[c].depth
        /\ x.unstored = subs /\ x.unsent = subs
    BY <2>4, CallFacts DEF CallState
  <2>6. calls' = [calls EXCEPT ![c] = x]
    BY <2>1 DEF subs
  <2> HIDE DEF x
  <2>7. CallOK(c, x)
    BY <2>2, <2>3, <2>5, CallFacts DEF CallOK, GoodRun, subs
  <2>8. calls' \in [Calls -> CallState] /\ CallsOK'
    BY <2>6, <2>7, CallMoves
  <2>9. lastRef' \in 0..MaxRefs
    BY <2>1, DecompositionsAssumption, BoundsAssumption DEF IInv, TypeOK
  <2> QED BY <1>2, <2>8, <2>9 DEF Expand, IInv, TypeOK, spendVars
<1>3. CASE StoreRef(c)
  <2> DEFINE ref == Head(calls[c].unstored)
             rest == Tail(calls[c].unstored)
             x == [calls[c] EXCEPT !.unstored = rest, !.pc = AfterEach(rest, "storeRefs", "emit")]
  <2>1. /\ calls[c].pc = "storeRefs"
        /\ \/ refs' = [refs EXCEPT ![ref.id] = [run |-> ref.run, status |-> "PENDING"]]
              /\ UNCHANGED faults
           \/ Fault /\ UNCHANGED refs
        /\ calls' = [calls EXCEPT ![c] = x]
        /\ UNCHANGED <<started, suspensions, expandQueue, completed, lost, lastRef, spendVars>>
    BY <1>3 DEF StoreRef, At
  <2>2. ref \in GoodMsgs /\ rest \in Seq(GoodMsgs)
    BY <2>1, CallFacts, TakenOff DEF CallOK
  <2>3. rest \in Seq(Message) /\ ref.id \in RefIds /\ ref.run \in Runs \cup {NoRun}
    BY <2>2, GoodLists, GoodFields
  <2> HIDE DEF ref, rest
  <2>4. refs' \in [RefIds -> RefDoc \cup {None}] /\ faults' \in Nat
    <3>1. [run |-> ref.run, status |-> "PENDING"] \in RefDoc
      BY <2>3 DEF RefDoc
    <3> QED BY <2>1, <2>3, <3>1, FaultCounts DEF IInv, TypeOK
  <2>5. x \in CallState /\ x.run = calls[c].run /\ x.depth = calls[c].depth /\ x.unsent = calls[c].unsent
        /\ x.unstored = rest
        /\ ((x.pc = "storeRefs" /\ rest # <<>>) \/ x.pc = "emit")
    BY <2>3, CallFacts DEF CallState, AfterEach
  <2> HIDE DEF x
  <2>6. CallOK(c, x)
    BY <2>1, <2>2, <2>5, CallFacts DEF CallOK, GoodRun
  <2>7. calls' \in [Calls -> CallState] /\ CallsOK'
    BY <2>1, <2>6, CallMoves
  <2> QED BY <2>1, <2>4, <2>7 DEF IInv, TypeOK, spendVars
<1>4. CASE Emit(c)
  <2> DEFINE msg == Head(calls[c].unsent)
             rest == Tail(calls[c].unsent)
             x == [calls[c] EXCEPT !.unsent = rest, !.pc = AfterEach(rest, "emit", "suspend")]
  <2>1. /\ calls[c].pc = "emit"
        /\ \/ expandQueue' = expandQueue \cup {msg} /\ UNCHANGED faults
           \/ Fault /\ UNCHANGED expandQueue
        /\ calls' = [calls EXCEPT ![c] = x]
        /\ UNCHANGED <<started, refs, suspensions, completed, lost, lastRef, spendVars>>
    BY <1>4 DEF Emit, At
  <2>2. msg \in GoodMsgs /\ rest \in Seq(GoodMsgs)
    BY <2>1, CallFacts, TakenOff DEF CallOK
  <2>3. rest \in Seq(Message) /\ msg \in Message
    BY <2>2, GoodLists, GoodFields
  <2> HIDE DEF msg, rest
  <2>4. expandQueue' \subseteq GoodMsgs /\ expandQueue' \subseteq Message /\ faults' \in Nat
    BY <2>1, <2>2, <2>3, FaultCounts DEF IInv, TypeOK
  <2>5. x \in CallState /\ x.run = calls[c].run /\ x.depth = calls[c].depth /\ x.unsent = rest
        /\ x.unstored = calls[c].unstored
        /\ ((x.pc = "emit" /\ rest # <<>>) \/ x.pc = "suspend")
    BY <2>3, CallFacts DEF CallState, AfterEach
  <2> HIDE DEF x
  <2>6. CallOK(c, x)
    BY <2>1, <2>2, <2>5, CallFacts DEF CallOK, GoodRun
  <2>7. calls' \in [Calls -> CallState] /\ CallsOK'
    BY <2>1, <2>6, CallMoves
  <2> QED BY <2>1, <2>4, <2>7 DEF IInv, TypeOK, spendVars
<1>5. CASE Suspend(c)
  <2>1. calls[c].pc # "idle" /\ "SUSPENDED" \in Outcomes
    BY <1>5 DEF Suspend, At, Outcomes
  <2>2. calls' \in [Calls -> CallState] /\ CallsOK'
    BY <1>5, <2>1, ReturnOK, CallMoves DEF Suspend, AfterSuspend
  <2>3. suspensions' \subseteq SuspensionDoc /\ faults' \in Nat
    BY <1>5, <2>1, SuspensionKept DEF Suspend
  <2> QED BY <1>5, <2>2, <2>3 DEF Suspend, IInv, TypeOK, spendVars
<1> QED BY <1>1, <1>2, <1>3, <1>4, <1>5 DEF Cycle3

-----------------------------------------------------------------------------
(* The consumer's steps and the start of a run.                            *)
LEMMA BeginOK ==
  ASSUME NEW c \in Calls, NEW run \in Runs, NEW depth \in Nat \ {0},
         depth = 1 \/ depth <= TerminationDepth
  PROVE  CallOK(c, [Idle EXCEPT !.pc = "plan", !.run = run, !.depth = depth])
<1> DEFINE x == [Idle EXCEPT !.pc = "plan", !.run = run, !.depth = depth]
<1>1. Idle \in CallState /\ CallOK(c, Idle)
  BY IdleOK DEF CallOK
<1>2. x \in CallState /\ x.pc = "plan" /\ x.run = run /\ x.depth = depth
      /\ x.unstored = Idle.unstored /\ x.unsent = Idle.unsent
  BY <1>1 DEF CallState
<1> HIDE DEF x
<1>3. CallOK(c, x)
  BY <1>1, <1>2 DEF CallOK, GoodRun
<1> QED BY <1>3 DEF x

LEMMA TrackerType ==
  ASSUME IInv, NEW depth
  PROVE  Tracker(depth) \in Nat
BY DEF Tracker, IInv, TypeOK

LEMMA StartKeeps ==
  ASSUME IInv, NEW r \in Roots, StartTopLevel(r)
  PROVE  IInv'
<1>1. <<r>> \in Runs /\ r \in Calls
  BY DEF Runs, Calls
<1>2. calls' \in [Calls -> CallState] /\ CallsOK'
  <2>1. CallOK(r, [Idle EXCEPT !.pc = "plan", !.run = <<r>>, !.depth = 1])
    <3>1. PICK depth \in Nat \ {0} : depth = 1
      OBVIOUS
    <3>2. CallOK(r, [Idle EXCEPT !.pc = "plan", !.run = <<r>>, !.depth = depth])
      BY <1>1, <3>1, BeginOK
    <3> QED BY <3>1, <3>2
  <2> QED BY <1>1, <2>1, CallMoves DEF StartTopLevel, BeginRun
<1>3. accumulated' \in Nat
  BY TrackerType DEF StartTopLevel, BeginRun
<1> QED BY <1>2, <1>3 DEF StartTopLevel, IInv, TypeOK, storeVars

LEMMA DeliverKeeps ==
  ASSUME IInv, NEW msg \in expandQueue, Deliver(msg)
  PROVE  IInv'
<1>1. /\ msg \in Message /\ msg.id \in RefIds /\ msg.run \in Runs
      /\ msg.depth \in Nat \ {0} /\ msg.depth <= TerminationDepth
  BY GoodFields DEF IInv, Deliver, GoodMsgs, GoodRun
<1>2. calls' \in [Calls -> CallState] /\ CallsOK'
  BY <1>1, BeginOK, CallMoves DEF Deliver, BeginRun, Calls
<1>3. accumulated' \in Nat
  BY TrackerType DEF Deliver, BeginRun
<1>4. [run |-> msg.run, status |-> "RUNNING"] \in RefDoc
  BY <1>1 DEF RefDoc
<1>5. refs' \in [RefIds -> RefDoc \cup {None}] /\ faults' \in Nat
  BY <1>1, <1>4, FaultCounts DEF Deliver, IInv, TypeOK
<1> QED BY <1>2, <1>3, <1>5 DEF Deliver, IInv, TypeOK

LEMMA NamelessKeeps ==
  ASSUME IInv, NEW msg \in expandQueue, DeliverNameless(msg)
  PROVE  IInv'
<1>1. msg.id \in RefIds
  BY GoodFields DEF IInv
<1>2. CallsOK'
  BY DEF DeliverNameless, IInv, CallsOK
<1> QED BY <1>1, <1>2 DEF DeliverNameless, IInv, TypeOK, spendVars

LEMMA ThrowKeeps ==
  ASSUME IInv, NEW c \in Calls, Throw(c)
  PROVE  IInv'
<1>1. calls' \in [Calls -> CallState] /\ CallsOK'
  BY IdleOK, CallMoves DEF Throw
<1> QED BY <1>1 DEF Throw, IInv, TypeOK, spendVars

LEMMA HandlerKeeps ==
  ASSUME IInv, NEW c \in Calls, Handler(c)
  PROVE  IInv'
<1>1. CASE StoreResult(c)
  <2> DEFINE x == [calls[c] EXCEPT !.pc = "emitCompleted"]
  <2>1. calls[c].pc = "storeResult" /\ calls' = [calls EXCEPT ![c] = x]
    BY <1>1 DEF StoreResult, At, Goto
  <2>2. c \in RefIds /\ Run(c) \in Runs
    BY <2>1, CallFacts DEF CallOK
  <2>3. x \in CallState /\ x.pc = "emitCompleted" /\ x.run = calls[c].run /\ x.depth = calls[c].depth
        /\ x.unstored = calls[c].unstored /\ x.unsent = calls[c].unsent
    BY CallFacts DEF CallState
  <2> HIDE DEF x
  <2>4. CallOK(c, x)
    BY <2>1, <2>2, <2>3, CallFacts DEF CallOK, GoodRun
  <2>5. calls' \in [Calls -> CallState] /\ CallsOK'
    BY <2>1, <2>4, CallMoves
  <2>6. [run |-> Run(c), status |-> RefStatus(calls[c].outcome)] \in RefDoc
    BY <2>2 DEF RefDoc, RefStatus
  <2>7. refs' \in [RefIds -> RefDoc \cup {None}] /\ faults' \in Nat
    BY <1>1, <2>2, <2>6, FaultCounts DEF StoreResult, IInv, TypeOK
  <2> QED BY <1>1, <2>5, <2>7 DEF StoreResult, IInv, TypeOK, spendVars
<1>2. CASE EmitCompleted(c)
  <2>1. c \in RefIds
    BY <1>2, CallFacts DEF EmitCompleted, At, CallOK
  <2>2. calls' \in [Calls -> CallState] /\ CallsOK'
    BY <1>2, IdleOK, CallMoves DEF EmitCompleted
  <2>3. completed' \subseteq RefIds /\ faults' \in Nat
    BY <1>2, <2>1, FaultCounts DEF EmitCompleted, IInv, TypeOK
  <2> QED BY <1>2, <2>2, <2>3 DEF EmitCompleted, IInv, TypeOK, spendVars
<1> QED BY <1>1, <1>2 DEF Handler

LEMMA ResumeKeeps ==
  ASSUME IInv, NEW s \in suspensions, Resume(s)
  PROVE  IInv'
<1>1. s \in SuspensionDoc
  BY DEF IInv, TypeOK
<1>2. [s EXCEPT !.status = "RESOLVED"] \in SuspensionDoc
  BY <1>1 DEF SuspensionDoc
<1>3. suspensions' \subseteq SuspensionDoc
  BY <1>2 DEF Resume, IInv, TypeOK
<1>4. CallsOK'
  BY DEF Resume, IInv, CallsOK
<1> QED BY <1>3, <1>4 DEF Resume, IInv, TypeOK, spendVars

LEMMA InvInit ==
  ASSUME Init
  PROVE  IInv
<1>1. ASSUME NEW c \in Calls
      PROVE  calls[c] = Idle /\ CallOK(c, calls[c]) /\ Idle \in CallState
  BY IdleOK DEF Init, CallOK
<1>2. calls \in [Calls -> CallState] /\ CallsOK
  BY <1>1 DEF Init, CallsOK
<1> QED BY <1>2, BoundsAssumption DEF Init, IInv, TypeOK

LEMMA InvStep ==
  ASSUME IInv, [Next]_vars
  PROVE  IInv'
<1>1. ASSUME NEW r \in Roots, StartTopLevel(r)
      PROVE  IInv'
  BY <1>1, StartKeeps
<1>2. ASSUME NEW c \in Calls, CallStep(c)
      PROVE  IInv'
  BY <1>2, Cycle1Keeps, Cycle2Keeps, Cycle3Keeps, ThrowKeeps, HandlerKeeps DEF CallStep
<1>3. ASSUME NEW msg \in expandQueue, Deliver(msg) \/ DeliverNameless(msg)
      PROVE  IInv'
  BY <1>3, DeliverKeeps, NamelessKeeps
<1>4. ASSUME NEW s \in suspensions, Resume(s)
      PROVE  IInv'
  BY <1>4, ResumeKeeps
<1>5. CASE UNCHANGED vars
  BY <1>5 DEF vars, IInv, TypeOK, CallsOK
<1> QED BY <1>1, <1>2, <1>3, <1>4, <1>5 DEF Next

(* The inductive invariant: state and calls are well formed, and every run *)
(* in progress or announced by a message is within the termination depth.  *)
THEOREM Invariance == Spec => []IInv
<1>1. Init => IInv
  BY InvInit
<1>2. IInv /\ [Next]_vars => IInv'
  BY InvStep
<1> QED BY <1>1, <1>2, PTL DEF Spec

(* The documents, messages and calls of the cycle chain stay well formed.  *)
THEOREM TypeCorrect == Spec => []TypeOK
<1>1. IInv => TypeOK
  BY DEF IInv
<1> QED BY <1>1, Invariance, PTL

(* No run of a family goes deeper than the termination depth: the depth    *)
(* decision bounds what an expansion announces, whatever the number of     *)
(* families, the decompositions and the order of deliveries.               *)
THEOREM DepthBounded == Spec => []WithinDepth
<1>1. IInv => WithinDepth
  BY DEF IInv, CallsOK, CallOK, GoodRun, WithinDepth, At
<1> QED BY <1>1, Invariance, PTL

-----------------------------------------------------------------------------
(* With one family in the process: before the top-level run has started    *)
(* nothing runs or waits, so its start, the only step that resets the      *)
(* tracker, resets it to what the family has spent.                        *)
TrackInv(r) ==
  /\ accumulated = familySpend[r]
  /\ r \notin started =>
       /\ familySpend[r] = 0 /\ expandQueue = {}
       /\ \A c \in Calls : calls[c].pc = "idle"

(* A charge is to the family's only root. *)
LEMMA ChargeTracked ==
  ASSUME NEW r, Roots = {r}, IInv, TrackInv(r), NEW c \in Calls, calls[c].pc # "idle",
         NEW cost \in Costs, Charge(c, cost)
  PROVE  /\ accumulated' = accumulated + cost
         /\ familySpend'[r] = familySpend[r] + cost /\ r \in started
<1>1. Head(Run(c)) = r
  BY CallFacts, RootOfRun
<1> QED BY <1>1 DEF Charge, TrackInv, IInv, TypeOK

LEMMA TrackStep ==
  ASSUME NEW r, Roots = {r}, IInv, TrackInv(r), [Next]_vars
  PROVE  TrackInv(r)'
<1>1. ASSUME NEW q \in Roots, StartTopLevel(q)
      PROVE  TrackInv(r)'
  <2>1. accumulated' = 0 /\ started' = started \cup {r} /\ r \notin started
        /\ UNCHANGED familySpend
    BY <1>1 DEF StartTopLevel, BeginRun, Tracker
  <2> QED BY <2>1 DEF TrackInv
<1>2. ASSUME NEW c \in Calls, CallStep(c)
      PROVE  TrackInv(r)'
  <2>1. calls[c].pc # "idle" /\ r \in started /\ UNCHANGED started
    BY <1>2 DEF TrackInv, CallStep, Cycle1, Cycle2, Cycle3, Handler, At, HasStep, PlanRejected,
       PlanAccepted, StepInsufficient, StepRejected, StepAccepted, Complete, Leaf, Expand,
       StoreRef, Emit, Suspend, StoreResult, EmitCompleted, Throw
  <2>2. UNCHANGED spendVars \/ \E cost \in Costs : Charge(c, cost)
    BY <1>2 DEF CallStep, Cycle1, Cycle2, Cycle3, Handler, PlanRejected, PlanAccepted,
       StepInsufficient, StepRejected, StepAccepted, Complete, Leaf, Expand, StoreRef, Emit,
       Suspend, StoreResult, EmitCompleted, Throw, GateContinues, GateHalts
  <2>3. accumulated' = familySpend'[r]
    BY <2>1, <2>2, ChargeTracked DEF TrackInv, spendVars
  <2> QED BY <2>1, <2>3 DEF TrackInv
<1>3. ASSUME NEW msg \in expandQueue, Deliver(msg)
      PROVE  TrackInv(r)'
  <2>1. r \in started /\ UNCHANGED <<started, familySpend>>
    BY <1>3 DEF TrackInv, Deliver
  <2>2. msg \in GoodMsgs
    BY DEF IInv
  <2>3. accumulated' = accumulated
    <3>1. accumulated' = Tracker(msg.depth)
      BY <1>3 DEF Deliver, BeginRun
    <3> QED BY <2>2, <3>1, GoodFields DEF Tracker
  <2> QED BY <2>1, <2>3 DEF TrackInv
<1>4. ASSUME UNCHANGED <<started, calls, spendVars>>, expandQueue' \subseteq expandQueue
      PROVE  TrackInv(r)'
  BY <1>4 DEF TrackInv, spendVars
<1>5. CASE UNCHANGED vars
  BY <1>5 DEF vars, TrackInv
<1> QED BY <1>1, <1>2, <1>3, <1>4, <1>5 DEF Next, DeliverNameless, Resume

LEMMA Tracked ==
  ASSUME NEW r, Roots = {r}
  PROVE  Spec => [](IInv /\ TrackInv(r))
<1>1. Init => IInv /\ TrackInv(r)
  BY InvInit DEF Init, TrackInv, Idle
<1>2. (IInv /\ TrackInv(r)) /\ [Next]_vars => (IInv /\ TrackInv(r))'
  BY InvStep, TrackStep
<1> QED BY <1>1, <1>2, PTL DEF Spec

(* What the gate compares with its limit is what the family has spent,     *)
(* when one family is in progress in the process.                          *)
THEOREM TrackerOfOneFamily ==
  ASSUME NEW r, Roots = {r}
  PROVE  Spec => []TrackerIsFamilySpend
<1>1. IInv /\ TrackInv(r) => TrackerIsFamilySpend
  <2> SUFFICES ASSUME IInv, TrackInv(r), NEW c \in Calls, calls[c].pc # "idle"
               PROVE  accumulated = familySpend[Head(Run(c))]
    BY DEF TrackerIsFamilySpend, At
  <2>1. Head(Run(c)) = r
    BY CallFacts, RootOfRun
  <2> QED BY <2>1 DEF TrackInv
<1> QED BY <1>1, Tracked, PTL

(* A family that is alone in the process and has reached the limit is      *)
(* halted by the cycle that reaches it, unless the gate fails, whichever   *)
(* of its calls runs that cycle.                                           *)
THEOREM LimitOfOneFamily ==
  ASSUME NEW r, Roots = {r}
  PROVE  Spec => StopsAtLimit
<1>1. (IInv /\ TrackInv(r)) /\ [Next]_vars => [StopsAtLimitStep]_vars
  <2> SUFFICES ASSUME IInv, TrackInv(r), Next
               PROVE  StopsAtLimitStep
    OBVIOUS
  <2> SUFFICES ASSUME NEW c \in Calls, calls[c].pc # "idle", calls'[c] # calls[c],
                      faults' = faults, familySpend'[Head(Run(c))] # familySpend[Head(Run(c))],
                      familySpend'[Head(Run(c))] >= SpendLimit
               PROVE  calls'[c].pc \in {"idle", "storeResult"}
    BY DEF StopsAtLimitStep, At
  <2>1. Head(Run(c)) = r
    BY CallFacts, RootOfRun
  <2>2. PICK d \in Calls : CallStep(d)
    BY <2>1 DEF Next, StartTopLevel, Deliver, DeliverNameless, Resume, spendVars
  <2>3. PICK cost \in Costs : (GateContinues(d, cost) \/ GateHalts(d, cost)) /\ calls[d].pc # "idle"
    BY <2>1, <2>2 DEF CallStep, Cycle1, Cycle2, Cycle3, Handler, PlanRejected, PlanAccepted,
       StepInsufficient, StepRejected, StepAccepted, Complete, Leaf, Expand, StoreRef, Emit,
       Suspend, StoreResult, EmitCompleted, Throw, spendVars, At, HasStep
  <2>4. accumulated + cost >= SpendLimit
    <3>1. Charge(d, cost)
      BY <2>3 DEF GateContinues, GateHalts
    <3> QED BY <2>1, <2>3, <3>1, ChargeTracked DEF TrackInv
  <2>5. ~ GateContinues(d, cost)
    BY <2>4 DEF GateContinues, Exceeds, Fault, IInv, TypeOK
  <2>6. calls' = [calls EXCEPT ![d] = Returned(d, "FAILED")]
    BY <2>3, <2>5 DEF GateHalts, Returns
  <2>7. c = d /\ calls'[c] = Returned(c, "FAILED")
    BY <2>6 DEF IInv, TypeOK
  <2> QED BY <2>7, CallFacts DEF Returned, Idle, CallState
<1> QED BY <1>1, Tracked, PTL DEF Spec, StopsAtLimit

-----------------------------------------------------------------------------
(* Store before emit.  A ref id has one owner at a time: it is listed by   *)
(* the call that made it, then waits in the queue, then is the call of its *)
(* sub-flow, then completed.                                               *)
Distinct(s) == \A i, j \in 1..Len(s) : s[i].id = s[j].id => i = j

ListsOK ==
  \A c \in Calls :
    /\ calls[c].pc # "storeRefs" => calls[c].unstored = <<>>
    /\ calls[c].pc \notin {"storeRefs", "emit"} => calls[c].unsent = <<>>
    /\ Distinct(calls[c].unsent)
    /\ \A id \in RefIds : In(id, calls[c].unstored) => In(id, calls[c].unsent)

Unclaimed(id) ==
  calls[id].pc = "idle" /\ id \notin completed /\ \A m \in expandQueue : m.id # id

ListedOK ==
  \A c \in Calls, id \in RefIds : In(id, calls[c].unsent) =>
    /\ id <= lastRef /\ Unclaimed(id)
    /\ \A d \in Calls : In(id, calls[d].unsent) => d = c

QueuedOK ==
  \A m \in expandQueue :
    /\ m.id <= lastRef /\ calls[m.id].pc = "idle" /\ m.id \notin completed
    /\ \A n \in expandQueue : m.id = n.id => m = n

ActiveOK ==
  /\ \A c \in RefIds : calls[c].pc # "idle" => c <= lastRef /\ c \notin completed
  /\ \A id \in completed : id <= lastRef

Owned == ListsOK /\ ListedOK /\ QueuedOK /\ ActiveOK

(* While nothing has failed: what is no longer to store is stored.         *)
StoredOK ==
  faults = 0 =>
    /\ StoredBeforeEmitted
    /\ \A c \in RefIds : calls[c].pc = "emitCompleted" => RefIs(c, {"COMPLETE", "FAILED"})
    /\ \A c \in Calls, id \in RefIds :
         In(id, calls[c].unsent) => RefIs(id, {"PENDING"}) \/ In(id, calls[c].unstored)

OwnInv == IInv /\ Owned /\ StoredOK

(* Lists of messages, by the ids in them. *)
LEMMA EmptyList == Distinct(<<>>) /\ \A id : ~ In(id, <<>>)
BY DEF Distinct, In

LEMMA ListHead ==
  ASSUME NEW s \in Seq(GoodMsgs), s # <<>>
  PROVE  /\ \A id : In(id, s) <=> id = Head(s).id \/ In(id, Tail(s))
         /\ Distinct(s) => Distinct(Tail(s)) /\ ~ In(Head(s).id, Tail(s))
<1>1. /\ Len(s) \in Nat /\ Len(s) >= 1 /\ Head(s) = s[1] /\ Len(Tail(s)) = Len(s) - 1
      /\ \A i \in 1..Len(Tail(s)) : Tail(s)[i] = s[i + 1]
  OBVIOUS
<1>2. ASSUME NEW id, In(id, s)
      PROVE  id = Head(s).id \/ In(id, Tail(s))
  <2>1. PICK i \in 1..Len(s) : s[i].id = id
    BY <1>2 DEF In
  <2>2. CASE i = 1
    BY <1>1, <2>1, <2>2
  <2>3. CASE i # 1
    <3>1. i - 1 \in 1..Len(Tail(s)) /\ (i - 1) + 1 = i
      BY <1>1, <2>3
    <3>2. Tail(s)[i - 1].id = id
      BY <1>1, <2>1, <3>1
    <3> QED BY <3>1, <3>2 DEF In
  <2> QED BY <2>2, <2>3
<1>3. ASSUME NEW id, In(id, Tail(s))
      PROVE  \E i \in 2..Len(s) : s[i].id = id
  <2>1. PICK i \in 1..Len(Tail(s)) : Tail(s)[i].id = id
    BY <1>3 DEF In
  <2>2. i + 1 \in 2..Len(s)
    BY <1>1
  <2> QED BY <1>1, <2>1, <2>2
<1>4. ASSUME NEW id, id = Head(s).id
      PROVE  In(id, s)
  BY <1>1, <1>4 DEF In
<1>5. ASSUME NEW id, In(id, Tail(s))
      PROVE  In(id, s)
  <2>1. PICK i \in 2..Len(s) : s[i].id = id
    BY <1>3, <1>5
  <2>2. i \in 1..Len(s)
    BY <1>1
  <2> QED BY <2>1, <2>2 DEF In
<1>6. ASSUME Distinct(s)
      PROVE  Distinct(Tail(s)) /\ ~ In(Head(s).id, Tail(s))
  <2>1. ~ In(Head(s).id, Tail(s))
    <3> SUFFICES ASSUME In(Head(s).id, Tail(s))
                 PROVE  FALSE
      OBVIOUS
    <3>1. PICK i \in 2..Len(s) : s[i].id = s[1].id
      BY <1>1, <1>3
    <3>2. i \in 1..Len(s) /\ 1 \in 1..Len(s) /\ i # 1
      BY <1>1
    <3> QED BY <1>6, <3>1, <3>2 DEF Distinct
  <2>2. ASSUME NEW i \in 1..Len(Tail(s)), NEW j \in 1..Len(Tail(s)),
               Tail(s)[i].id = Tail(s)[j].id
        PROVE  i = j
    <3>1. i + 1 \in 1..Len(s) /\ j + 1 \in 1..Len(s)
      BY <1>1
    <3>2. i + 1 = j + 1
      BY <1>1, <1>6, <2>2, <3>1 DEF Distinct
    <3> QED BY <3>2, <1>1
  <2> QED BY <2>1, <2>2 DEF Distinct
<1> QED BY <1>2, <1>4, <1>5, <1>6

LEMMA SubFlowsNew ==
  ASSUME IInv, NEW c \in Calls, NEW d \in Decompositions
  PROVE  /\ Distinct(SubFlows(c, d))
         /\ \A id : In(id, SubFlows(c, d)) => id > lastRef /\ id <= lastRef + Len(d)
<1> DEFINE s == SubFlows(c, d)
<1>1. Len(d) \in Nat /\ lastRef \in Nat
  BY DecompositionsAssumption, BoundsAssumption DEF IInv, TypeOK
<1>2. Len(s) = Len(d) /\ \A i \in 1..Len(d) : s[i].id = lastRef + i
  BY <1>1 DEF SubFlows
<1> HIDE DEF s
<1>3. Distinct(s)
  BY <1>1, <1>2 DEF Distinct
<1>4. \A id : In(id, s) => id > lastRef /\ id <= lastRef + Len(d)
  BY <1>1, <1>2 DEF In
<1> QED BY <1>3, <1>4 DEF s

-----------------------------------------------------------------------------
(* A step of one call, seen by the others.                                 *)
LEMMA Others ==
  ASSUME IInv, NEW c \in Calls, NEW x, calls' = [calls EXCEPT ![c] = x]
  PROVE  /\ calls'[c] = x
         /\ \A d \in Calls : d # c => calls'[d] = calls[d]
BY DEF IInv, TypeOK

(* x: a call that neither stores nor sends sub-flows nor has stored a      *)
(* result, and that is idle if it was, unless it is a top-level one.       *)
Quiet(c, x) ==
  /\ x.pc \notin {"storeRefs", "emit", "emitCompleted"}
  /\ x.unstored = <<>> /\ x.unsent = <<>>
  /\ c \in RefIds => (x.pc = "idle" <=> calls[c].pc = "idle")

LEMMA QuietOwns ==
  ASSUME OwnInv, NEW c \in Calls, NEW x, calls' = [calls EXCEPT ![c] = x],
         Quiet(c, x),
         UNCHANGED <<expandQueue, completed, lastRef, refs>>, faults' = 0 => faults = 0
  PROVE  Owned' /\ StoredOK'
<1> USE DEF Quiet
<1>1. calls'[c] = x /\ \A d \in Calls : d # c => calls'[d] = calls[d]
  BY Others DEF OwnInv
<1>2. \A id \in RefIds : id \in Calls /\ (calls'[id].pc = "idle" <=> calls[id].pc = "idle")
  BY <1>1 DEF Calls
<1>3. ListsOK'
  BY <1>1, EmptyList DEF OwnInv, Owned, ListsOK
<1>4. ListedOK'
  BY <1>1, <1>2, EmptyList DEF OwnInv, Owned, ListedOK, Unclaimed
<1>5. QueuedOK'
  BY <1>2, GoodFields DEF OwnInv, IInv, Owned, QueuedOK
<1>6. ActiveOK'
  BY <1>2 DEF OwnInv, Owned, ActiveOK
<1>7. StoredOK'
  <2> SUFFICES ASSUME faults' = 0
               PROVE  StoredOK'
    BY DEF StoredOK
  <2>1. faults = 0
    OBVIOUS
  <2>2. StoredBeforeEmitted'
    BY <2>1 DEF OwnInv, StoredOK, StoredBeforeEmitted, RefIs
  <2>3. \A d \in RefIds : calls'[d].pc = "emitCompleted" => RefIs(d, {"COMPLETE", "FAILED"})'
    BY <1>1, <1>2, <2>1 DEF OwnInv, StoredOK, RefIs
  <2>4. \A d \in Calls, id \in RefIds :
          In(id, calls'[d].unsent) => RefIs(id, {"PENDING"})' \/ In(id, calls'[d].unstored)
    BY <1>1, <2>1, EmptyList DEF OwnInv, StoredOK, RefIs
  <2> QED BY <2>2, <2>3, <2>4 DEF StoredOK
<1> QED BY <1>3, <1>4, <1>5, <1>6, <1>7 DEF Owned

LEMMA FaultSeen ==
  ASSUME IInv, Fault \/ UNCHANGED faults
  PROVE  (faults' = 0 => faults = 0) /\ (Fault => faults' # 0)
BY DEF IInv, TypeOK, Fault

(* A document stored, and the others. *)
LEMMA StoredDoc ==
  ASSUME IInv, NEW id \in RefIds, NEW run \in Runs \cup {NoRun},
         NEW status \in {"PENDING", "RUNNING", "COMPLETE", "FAILED"},
         refs' = [refs EXCEPT ![id] = [run |-> run, status |-> status]]
  PROVE  /\ refs'[id] # None /\ refs'[id].status = status
         /\ \A j \in RefIds : j # id => refs'[j] = refs[j]
<1> DEFINE doc == [run |-> run, status |-> status]
<1>1. doc \in RefDoc /\ doc.status = status
  BY DEF RefDoc
<1>2. doc # None
  BY <1>1, NamesAssumption
<1> HIDE DEF doc
<1>3. refs'[id] = doc /\ \A j \in RefIds : j # id => refs'[j] = refs[j]
  BY DEF IInv, TypeOK, doc
<1> QED BY <1>1, <1>2, <1>3

LEMMA ExpandOwns ==
  ASSUME OwnInv, NEW c \in Calls, Expand(c)
  PROVE  Owned' /\ StoredOK'
<1>1. PICK d \in Decompositions :
        /\ lastRef + Len(d) <= MaxRefs
        /\ lastRef' = lastRef + Len(d)
        /\ calls' = [calls EXCEPT ![c].pc = "storeRefs",
                         ![c].unstored = SubFlows(c, d), ![c].unsent = SubFlows(c, d)]
  BY DEF Expand
<1> DEFINE s == SubFlows(c, d)
           x == [calls[c] EXCEPT !.pc = "storeRefs", !.unstored = s, !.unsent = s]
<1>2. Distinct(s) /\ \A id : In(id, s) => id > lastRef /\ id <= lastRef'
  BY <1>1, SubFlowsNew DEF OwnInv
<1>3. calls' = [calls EXCEPT ![c] = x]
  BY <1>1
<1> HIDE DEF s
<1>4. x.pc = "storeRefs" /\ x.unstored = s /\ x.unsent = s
  BY CallFacts DEF OwnInv, CallState
<1> HIDE DEF x
<1>5. calls'[c] = x /\ \A e \in Calls : e # c => calls'[e] = calls[e]
  BY <1>3, Others DEF OwnInv
<1>6. /\ calls[c].pc = "depth" /\ UNCHANGED <<refs, expandQueue, completed, faults>>
      /\ lastRef \in Nat /\ lastRef' \in Nat /\ lastRef <= lastRef'
  BY <1>1, DecompositionsAssumption, BoundsAssumption DEF Expand, At, OwnInv, IInv, TypeOK
<1>7. \A id \in RefIds : id \in Calls /\ id \in Nat /\ (calls'[id].pc = "idle" <=> calls[id].pc = "idle")
  BY <1>4, <1>5, <1>6, BoundsAssumption DEF Calls, RefIds
<1>8. \A m \in expandQueue : m.id \in RefIds
  BY GoodFields DEF OwnInv, IInv
<1>9. ListsOK'
  BY <1>2, <1>4, <1>5 DEF OwnInv, Owned, ListsOK
<1>10. \A id \in RefIds : In(id, s) => Unclaimed(id)'
  BY <1>2, <1>6, <1>7, <1>8 DEF OwnInv, Owned, QueuedOK, ActiveOK, Unclaimed
<1>11. \A id \in RefIds, e \in Calls : In(id, calls[e].unsent) => id <= lastRef
  BY DEF OwnInv, Owned, ListedOK
<1>12. ListedOK'
  <2> SUFFICES ASSUME NEW e \in Calls, NEW id \in RefIds, In(id, calls'[e].unsent)
               PROVE  /\ id <= lastRef' /\ Unclaimed(id)'
                      /\ \A f \in Calls : In(id, calls'[f].unsent) => f = e
    BY DEF ListedOK
  <2>1. CASE e = c
    <3>1. In(id, s) /\ id > lastRef /\ id <= lastRef'
      BY <1>2, <1>4, <1>5, <2>1
    <3>2. \A f \in Calls : f # c => ~ In(id, calls'[f].unsent)
      BY <1>5, <1>6, <1>7, <1>11, <3>1
    <3> QED BY <1>10, <2>1, <3>1, <3>2
  <2>2. CASE e # c
    <3>1. In(id, calls[e].unsent) /\ id <= lastRef
      BY <1>5, <1>11, <2>2
    <3>2. Unclaimed(id)'
      BY <1>6, <1>7, <3>1 DEF OwnInv, Owned, ListedOK, Unclaimed
    <3>3. ~ In(id, s)
      BY <1>2, <1>6, <1>7, <3>1
    <3> QED BY <1>4, <1>5, <1>6, <1>7, <3>1, <3>2, <3>3 DEF OwnInv, Owned, ListedOK
  <2> QED BY <2>1, <2>2
<1>13. QueuedOK'
  BY <1>6, <1>7, <1>8 DEF OwnInv, Owned, QueuedOK
<1>14. ActiveOK'
  BY <1>6, <1>7 DEF OwnInv, IInv, TypeOK, Owned, ActiveOK
<1>15. StoredOK'
  BY <1>4, <1>5, <1>6, <1>7
     DEF OwnInv, StoredOK, StoredBeforeEmitted, RefIs
<1> QED BY <1>9, <1>12, <1>13, <1>14, <1>15 DEF Owned

LEMMA StoreOwns ==
  ASSUME OwnInv, NEW c \in Calls, StoreRef(c)
  PROVE  Owned' /\ StoredOK'
<1> DEFINE ref == Head(calls[c].unstored)
           rest == Tail(calls[c].unstored)
           x == [calls[c] EXCEPT !.unstored = rest, !.pc = AfterEach(rest, "storeRefs", "emit")]
<1>1. /\ calls[c].pc = "storeRefs" /\ calls' = [calls EXCEPT ![c] = x]
      /\ \/ refs' = [refs EXCEPT ![ref.id] = [run |-> ref.run, status |-> "PENDING"]]
            /\ UNCHANGED faults
         \/ Fault /\ UNCHANGED refs
      /\ UNCHANGED <<expandQueue, completed, lastRef>>
  BY DEF StoreRef, At
<1>2. /\ ref \in GoodMsgs /\ ref.id \in RefIds
      /\ \A id : In(id, calls[c].unstored) <=> id = ref.id \/ In(id, rest)
  BY <1>1, CallFacts, TakenOff, GoodFields, ListHead DEF OwnInv, CallOK
<1> HIDE DEF ref, rest
<1>3. /\ x.unstored = rest /\ x.unsent = calls[c].unsent
      /\ (x.pc = "storeRefs" \/ (x.pc = "emit" /\ rest = <<>>))
  BY CallFacts DEF OwnInv, CallState, AfterEach
<1> HIDE DEF x
<1>4. calls'[c] = x /\ \A e \in Calls : e # c => calls'[e] = calls[e]
  BY <1>1, Others DEF OwnInv
<1>5. \A id \in RefIds : id \in Calls /\ (calls'[id].pc = "idle" <=> calls[id].pc = "idle")
  BY <1>1, <1>3, <1>4 DEF Calls
<1>6. \A m \in expandQueue : m.id \in RefIds
  BY GoodFields DEF OwnInv, IInv
<1>7. In(ref.id, calls[c].unsent) /\ Unclaimed(ref.id)
  BY <1>2 DEF OwnInv, Owned, ListsOK, ListedOK
<1>8. ListsOK'
  BY <1>1, <1>2, <1>3, <1>4 DEF OwnInv, Owned, ListsOK
<1>9. ListedOK'
  BY <1>1, <1>3, <1>4, <1>5 DEF OwnInv, Owned, ListedOK, Unclaimed
<1>10. QueuedOK'
  BY <1>1, <1>5, <1>6 DEF OwnInv, Owned, QueuedOK
<1>11. ActiveOK'
  BY <1>1, <1>5 DEF OwnInv, Owned, ActiveOK
<1>12. StoredOK'
  <2> SUFFICES ASSUME faults' = 0
               PROVE  StoredOK'
    BY DEF StoredOK
  <2>1. faults = 0 /\ refs' = [refs EXCEPT ![ref.id] = [run |-> ref.run, status |-> "PENDING"]]
    BY <1>1, FaultSeen DEF OwnInv
  <2>2. ref.run \in Runs \cup {NoRun}
    BY <1>2, GoodFields
  <2>3. /\ refs'[ref.id] # None /\ refs'[ref.id].status = "PENDING"
        /\ \A id \in RefIds : id # ref.id => refs'[id] = refs[id]
    BY <1>2, <2>1, <2>2, StoredDoc DEF OwnInv
  <2>4. StoredBeforeEmitted'
    BY <1>1, <1>6, <1>7, <2>1, <2>3
       DEF OwnInv, IInv, TypeOK, StoredOK, StoredBeforeEmitted, RefIs, Unclaimed
  <2>5. \A d \in RefIds : calls'[d].pc = "emitCompleted" => RefIs(d, {"COMPLETE", "FAILED"})'
    BY <1>1, <1>3, <1>4, <1>5, <1>7, <2>1, <2>3 DEF OwnInv, StoredOK, RefIs, Unclaimed
  <2>6. \A d \in Calls, id \in RefIds :
          In(id, calls'[d].unsent) => RefIs(id, {"PENDING"})' \/ In(id, calls'[d].unstored)
    <3> SUFFICES ASSUME NEW d \in Calls, NEW id \in RefIds, In(id, calls'[d].unsent)
                 PROVE  RefIs(id, {"PENDING"})' \/ In(id, calls'[d].unstored)
      OBVIOUS
    <3>1. CASE id = ref.id
      BY <2>3, <3>1 DEF RefIs
    <3>2. CASE id # ref.id
      <4>1. refs'[id] = refs[id] /\ In(id, calls[d].unsent)
        BY <1>3, <1>4, <2>3, <3>2
      <4>2. RefIs(id, {"PENDING"}) \/ In(id, calls[d].unstored)
        BY <2>1, <4>1 DEF OwnInv, StoredOK
      <4>3. In(id, calls[d].unstored) => In(id, calls'[d].unstored)
        BY <1>2, <1>3, <1>4, <3>2
      <4> QED BY <4>1, <4>2, <4>3 DEF RefIs
    <3> QED BY <3>1, <3>2
  <2> QED BY <2>4, <2>5, <2>6 DEF StoredOK
<1> QED BY <1>8, <1>9, <1>10, <1>11, <1>12 DEF Owned

LEMMA EmitOwns ==
  ASSUME OwnInv, NEW c \in Calls, Emit(c)
  PROVE  Owned' /\ StoredOK'
<1> DEFINE msg == Head(calls[c].unsent)
           rest == Tail(calls[c].unsent)
           x == [calls[c] EXCEPT !.unsent = rest, !.pc = AfterEach(rest, "emit", "suspend")]
<1>1. /\ calls[c].pc = "emit" /\ calls' = [calls EXCEPT ![c] = x]
      /\ \/ expandQueue' = expandQueue \cup {msg} /\ UNCHANGED faults
         \/ Fault /\ UNCHANGED expandQueue
      /\ UNCHANGED <<refs, completed, lastRef>>
  BY DEF Emit, At
<1>2. /\ msg \in GoodMsgs /\ msg.id \in RefIds
      /\ \A id : In(id, calls[c].unsent) <=> id = msg.id \/ In(id, rest)
      /\ Distinct(calls[c].unsent) => Distinct(rest) /\ ~ In(msg.id, rest)
  BY <1>1, CallFacts, TakenOff, GoodFields, ListHead DEF OwnInv, CallOK
<1> HIDE DEF msg, rest
<1>3. /\ x.unsent = rest /\ x.unstored = calls[c].unstored
      /\ (x.pc = "emit" \/ (x.pc = "suspend" /\ rest = <<>>))
  BY CallFacts DEF OwnInv, CallState, AfterEach
<1> HIDE DEF x
<1>4. calls'[c] = x /\ \A e \in Calls : e # c => calls'[e] = calls[e]
  BY <1>1, Others DEF OwnInv
<1>5. \A id \in RefIds : id \in Calls /\ (calls'[id].pc = "idle" <=> calls[id].pc = "idle")
  BY <1>1, <1>3, <1>4 DEF Calls
<1>6. \A m \in expandQueue : m.id \in RefIds
  BY GoodFields DEF OwnInv, IInv
<1>7. /\ msg.id <= lastRef /\ Unclaimed(msg.id) /\ calls[c].unstored = <<>>
      /\ \A d \in Calls : In(msg.id, calls[d].unsent) => d = c
      /\ ~ In(msg.id, rest) /\ Distinct(rest)
  BY <1>1, <1>2 DEF OwnInv, Owned, ListsOK, ListedOK
<1>8. ListsOK'
  BY <1>1, <1>3, <1>4, <1>7, EmptyList DEF OwnInv, Owned, ListsOK
<1>9. ListedOK'
  <2> SUFFICES ASSUME NEW e \in Calls, NEW id \in RefIds, In(id, calls'[e].unsent)
               PROVE  /\ id <= lastRef' /\ Unclaimed(id)'
                      /\ \A f \in Calls : In(id, calls'[f].unsent) => f = e
    BY DEF ListedOK
  <2>1. \A f \in Calls : In(id, calls'[f].unsent) => In(id, calls[f].unsent) /\ id # msg.id
    BY <1>2, <1>3, <1>4, <1>7
  <2> QED BY <1>1, <1>5, <2>1 DEF OwnInv, Owned, ListedOK, Unclaimed
<1>10. QueuedOK'
  BY <1>1, <1>2, <1>5, <1>6, <1>7 DEF OwnInv, Owned, QueuedOK, Unclaimed
<1>11. ActiveOK'
  BY <1>1, <1>5 DEF OwnInv, Owned, ActiveOK
<1>12. StoredOK'
  <2> SUFFICES ASSUME faults' = 0
               PROVE  StoredOK'
    BY DEF StoredOK
  <2>1. faults = 0
    BY <1>1, FaultSeen DEF OwnInv
  <2>2. RefIs(msg.id, {"PENDING"})
    BY <1>2, <1>7, <2>1, EmptyList DEF OwnInv, StoredOK
  <2>3. StoredBeforeEmitted'
    BY <1>1, <2>1, <2>2 DEF OwnInv, StoredOK, StoredBeforeEmitted, RefIs
  <2>4. \A d \in RefIds : calls'[d].pc = "emitCompleted" => RefIs(d, {"COMPLETE", "FAILED"})'
    BY <1>1, <1>3, <1>4, <1>5, <2>1 DEF OwnInv, StoredOK, RefIs
  <2>5. \A d \in Calls, id \in RefIds :
          In(id, calls'[d].unsent) => RefIs(id, {"PENDING"})' \/ In(id, calls'[d].unstored)
    BY <1>1, <1>2, <1>3, <1>4, <2>1 DEF OwnInv, StoredOK, RefIs
  <2> QED BY <2>3, <2>4, <2>5 DEF StoredOK
<1> QED BY <1>8, <1>9, <1>10, <1>11, <1>12 DEF Owned

LEMMA DeliverOwns ==
  ASSUME OwnInv, NEW msg \in expandQueue, Deliver(msg)
  PROVE  Owned' /\ StoredOK'
<1> DEFINE x == [Idle EXCEPT !.pc = "plan", !.run = msg.run, !.depth = msg.depth]
           c == msg.id
<1>1. /\ calls' = [calls EXCEPT ![c] = x]
      /\ expandQueue' = expandQueue \ {msg}
      /\ \/ refs' = [refs EXCEPT ![c] = [run |-> msg.run, status |-> "RUNNING"]]
            /\ UNCHANGED faults
         \/ Fault /\ UNCHANGED refs
      /\ UNCHANGED <<completed, lastRef>>
  BY DEF Deliver, BeginRun
<1>2. x.pc = "plan" /\ x.unstored = <<>> /\ x.unsent = <<>>
  BY DEF Idle
<1> HIDE DEF x
<1>3. c \in RefIds /\ c \in Calls /\ msg.run \in Runs \cup {NoRun}
  BY GoodFields DEF OwnInv, IInv, Calls
<1>4. calls'[c] = x /\ \A e \in Calls : e # c => calls'[e] = calls[e]
  BY <1>1, <1>3, Others DEF OwnInv
<1>5. /\ c <= lastRef /\ calls[c].pc = "idle" /\ c \notin completed
      /\ \A n \in expandQueue : c = n.id => n = msg
  BY DEF OwnInv, Owned, QueuedOK
<1>6. \A e \in Calls : ~ In(c, calls[e].unsent)
  BY <1>3 DEF OwnInv, Owned, ListedOK, Unclaimed
<1>7. /\ \A id \in RefIds : id \in Calls
      /\ \A m \in expandQueue : m.id \in RefIds
  BY GoodFields DEF OwnInv, IInv, Calls
<1>8. ListsOK'
  BY <1>2, <1>4, EmptyList DEF OwnInv, Owned, ListsOK
<1>9. ListedOK'
  <2> SUFFICES ASSUME NEW e \in Calls, NEW id \in RefIds, In(id, calls'[e].unsent)
               PROVE  /\ id <= lastRef' /\ Unclaimed(id)'
                      /\ \A f \in Calls : In(id, calls'[f].unsent) => f = e
    BY DEF ListedOK
  <2>1. \A f \in Calls : In(id, calls'[f].unsent) => In(id, calls[f].unsent) /\ id # c
    BY <1>2, <1>4, <1>6, EmptyList
  <2>2. calls'[id] = calls[id]
    BY <1>4, <1>7, <2>1
  <2> QED BY <1>1, <2>1, <2>2 DEF OwnInv, Owned, ListedOK, Unclaimed
<1>10. QueuedOK'
  BY <1>1, <1>4, <1>5, <1>7 DEF OwnInv, Owned, QueuedOK
<1>11. ActiveOK'
  BY <1>1, <1>4, <1>5, <1>7 DEF OwnInv, Owned, ActiveOK
<1>12. StoredOK'
  <2> SUFFICES ASSUME faults' = 0
               PROVE  StoredOK'
    BY DEF StoredOK
  <2>1. faults = 0
    BY <1>1, FaultSeen DEF OwnInv
  <2>2. \A id \in RefIds : id # c => refs'[id] = refs[id]
    BY <1>1 DEF OwnInv, IInv, TypeOK
  <2>3. \A m \in expandQueue' : m \in expandQueue /\ m.id \in RefIds /\ m.id # c
    BY <1>1, <1>5, <1>7
  <2>4. \A id \in completed : id \in RefIds /\ id # c
    BY <1>5 DEF OwnInv, IInv, TypeOK
  <2>5. StoredBeforeEmitted'
    BY <1>1, <2>1, <2>2, <2>3, <2>4 DEF OwnInv, StoredOK, StoredBeforeEmitted, RefIs
  <2>6. \A d \in RefIds : calls'[d].pc = "emitCompleted" => RefIs(d, {"COMPLETE", "FAILED"})'
    BY <1>2, <1>4, <1>7, <2>1, <2>2 DEF OwnInv, StoredOK, RefIs
  <2>7. \A d \in Calls, id \in RefIds :
          In(id, calls'[d].unsent) => RefIs(id, {"PENDING"})' \/ In(id, calls'[d].unstored)
    <3> SUFFICES ASSUME NEW d \in Calls, NEW id \in RefIds, In(id, calls'[d].unsent)
                 PROVE  RefIs(id, {"PENDING"})' \/ In(id, calls'[d].unstored)
      OBVIOUS
    <3>1. calls'[d] = calls[d] /\ id # c
      BY <1>2, <1>4, <1>6, EmptyList
    <3> QED BY <2>1, <2>2, <3>1 DEF OwnInv, StoredOK, RefIs
  <2> QED BY <2>5, <2>6, <2>7 DEF StoredOK
<1> QED BY <1>8, <1>9, <1>10, <1>11, <1>12 DEF Owned

LEMMA ResultOwns ==
  ASSUME OwnInv, NEW c \in Calls, StoreResult(c)
  PROVE  Owned' /\ StoredOK'
<1> DEFINE x == [calls[c] EXCEPT !.pc = "emitCompleted"]
           status == RefStatus(calls[c].outcome)
<1>1. /\ calls[c].pc = "storeResult" /\ calls' = [calls EXCEPT ![c] = x]
      /\ \/ refs' = [refs EXCEPT ![c] = [run |-> Run(c), status |-> status]]
            /\ UNCHANGED faults
         \/ Fault /\ UNCHANGED refs
      /\ UNCHANGED <<expandQueue, completed, lastRef>>
  BY DEF StoreResult, At, Goto
<1>2. /\ x.pc = "emitCompleted" /\ x.unsent = calls[c].unsent
      /\ x.unstored = calls[c].unstored /\ status \in {"COMPLETE", "FAILED"}
  BY CallFacts DEF OwnInv, CallState, RefStatus
<1> HIDE DEF x, status
<1>3. c \in RefIds /\ Run(c) \in Runs
  BY <1>1, CallFacts DEF OwnInv, CallOK
<1>4. calls'[c] = x /\ \A e \in Calls : e # c => calls'[e] = calls[e]
  BY <1>1, Others DEF OwnInv
<1>5. \A id \in RefIds : id \in Calls /\ (calls'[id].pc = "idle" <=> calls[id].pc = "idle")
  BY <1>1, <1>2, <1>4 DEF Calls
<1>6. \A m \in expandQueue : m.id \in RefIds /\ m.id # c
  BY <1>1, GoodFields DEF OwnInv, IInv, Owned, QueuedOK
<1>7. c \notin completed /\ \A e \in Calls : ~ In(c, calls[e].unsent)
  BY <1>1, <1>3 DEF OwnInv, Owned, ListedOK, ActiveOK, Unclaimed
<1>8. ListsOK'
  BY <1>1, <1>2, <1>4 DEF OwnInv, Owned, ListsOK
<1>9. ListedOK'
  BY <1>1, <1>2, <1>4, <1>5 DEF OwnInv, Owned, ListedOK, Unclaimed
<1>10. QueuedOK'
  BY <1>1, <1>5, <1>6 DEF OwnInv, Owned, QueuedOK
<1>11. ActiveOK'
  BY <1>1, <1>5 DEF OwnInv, Owned, ActiveOK
<1>12. StoredOK'
  <2> SUFFICES ASSUME faults' = 0
               PROVE  StoredOK'
    BY DEF StoredOK
  <2>1. faults = 0 /\ refs' = [refs EXCEPT ![c] = [run |-> Run(c), status |-> status]]
    BY <1>1, FaultSeen DEF OwnInv
  <2>2. /\ refs'[c] # None /\ refs'[c].status = status
        /\ \A j \in RefIds : j # c => refs'[j] = refs[j]
    BY <1>2, <1>3, <2>1, StoredDoc DEF OwnInv
  <2>3. StoredBeforeEmitted'
    BY <1>1, <1>6, <1>7, <2>1, <2>2
       DEF OwnInv, IInv, TypeOK, StoredOK, StoredBeforeEmitted, RefIs
  <2>4. \A d \in RefIds : calls'[d].pc = "emitCompleted" => RefIs(d, {"COMPLETE", "FAILED"})'
    BY <1>2, <1>4, <1>5, <2>1, <2>2 DEF OwnInv, StoredOK, RefIs
  <2>5. \A d \in Calls, id \in RefIds :
          In(id, calls'[d].unsent) => RefIs(id, {"PENDING"})' \/ In(id, calls'[d].unstored)
    <3> SUFFICES ASSUME NEW d \in Calls, NEW id \in RefIds, In(id, calls'[d].unsent)
                 PROVE  RefIs(id, {"PENDING"})' \/ In(id, calls'[d].unstored)
      OBVIOUS
    <3>1. /\ calls'[d].unsent = calls[d].unsent /\ calls'[d].unstored = calls[d].unstored
          /\ refs'[id] = refs[id]
      BY <1>2, <1>4, <1>7, <2>2
    <3> QED BY <2>1, <3>1 DEF OwnInv, StoredOK, RefIs
  <2> QED BY <2>3, <2>4, <2>5 DEF StoredOK
<1> QED BY <1>8, <1>9, <1>10, <1>11, <1>12 DEF Owned

LEMMA CompletedOwns ==
  ASSUME OwnInv, NEW c \in Calls, EmitCompleted(c)
  PROVE  Owned' /\ StoredOK'
<1>1. /\ calls[c].pc = "emitCompleted" /\ calls' = [calls EXCEPT ![c] = Idle]
      /\ \/ completed' = completed \cup {c} /\ UNCHANGED faults
         \/ Fault /\ UNCHANGED completed
      /\ UNCHANGED <<refs, expandQueue, lastRef>>
  BY DEF EmitCompleted, At
<1>2. Idle.pc = "idle" /\ Idle.unsent = <<>> /\ Idle.unstored = <<>>
  BY DEF Idle
<1>3. c \in RefIds
  BY <1>1, CallFacts DEF OwnInv, CallOK
<1>4. calls'[c] = Idle /\ \A e \in Calls : e # c => calls'[e] = calls[e]
  BY <1>1, Others DEF OwnInv
<1>5. \A id \in RefIds : id \in Calls
  BY DEF Calls
<1>6. \A m \in expandQueue : m.id \in RefIds /\ m.id # c
  BY <1>1, GoodFields DEF OwnInv, IInv, Owned, QueuedOK
<1>7. c <= lastRef /\ \A e \in Calls : ~ In(c, calls[e].unsent)
  BY <1>1, <1>3 DEF OwnInv, Owned, ListedOK, ActiveOK, Unclaimed
<1>8. ListsOK'
  BY <1>2, <1>4, EmptyList DEF OwnInv, Owned, ListsOK
<1>9. ListedOK'
  <2> SUFFICES ASSUME NEW e \in Calls, NEW id \in RefIds, In(id, calls'[e].unsent)
               PROVE  /\ id <= lastRef' /\ Unclaimed(id)'
                      /\ \A f \in Calls : In(id, calls'[f].unsent) => f = e
    BY DEF ListedOK
  <2>1. \A f \in Calls : In(id, calls'[f].unsent) => In(id, calls[f].unsent) /\ id # c
    BY <1>2, <1>4, <1>7, EmptyList
  <2>2. calls'[id] = calls[id]
    BY <1>4, <1>5, <2>1
  <2> QED BY <1>1, <2>1, <2>2 DEF OwnInv, Owned, ListedOK, Unclaimed
<1>10. QueuedOK'
  BY <1>1, <1>4, <1>5, <1>6 DEF OwnInv, Owned, QueuedOK
<1>11. ActiveOK'
  BY <1>1, <1>2, <1>4, <1>5, <1>7 DEF OwnInv, Owned, ActiveOK
<1>12. StoredOK'
  <2> SUFFICES ASSUME faults' = 0
               PROVE  StoredOK'
    BY DEF StoredOK
  <2>1. faults = 0
    BY <1>1, FaultSeen DEF OwnInv
  <2>2. RefIs(c, {"COMPLETE", "FAILED"})
    BY <1>1, <1>3, <2>1 DEF OwnInv, StoredOK
  <2>3. StoredBeforeEmitted'
    BY <1>1, <2>1, <2>2 DEF OwnInv, StoredOK, StoredBeforeEmitted, RefIs
  <2>4. \A d \in RefIds : calls'[d].pc = "emitCompleted" => RefIs(d, {"COMPLETE", "FAILED"})'
    BY <1>1, <1>2, <1>4, <1>5, <2>1 DEF OwnInv, StoredOK, RefIs
  <2>5. \A d \in Calls, id \in RefIds :
          In(id, calls'[d].unsent) => RefIs(id, {"PENDING"})' \/ In(id, calls'[d].unstored)
    BY <1>1, <1>2, <1>4, <2>1, EmptyList DEF OwnInv, StoredOK, RefIs
  <2> QED BY <2>3, <2>4, <2>5 DEF StoredOK
<1> QED BY <1>8, <1>9, <1>10, <1>11, <1>12 DEF Owned

LEMMA ThrowOwns ==
  ASSUME OwnInv, NEW c \in Calls, Throw(c)
  PROVE  Owned' /\ StoredOK'
<1>1. calls' = [calls EXCEPT ![c] = Idle] /\ UNCHANGED <<refs, expandQueue, completed, lastRef, faults>>
  BY DEF Throw
<1>2. Idle.pc = "idle" /\ Idle.unsent = <<>> /\ Idle.unstored = <<>>
  BY DEF Idle
<1>3. calls'[c] = Idle /\ \A e \in Calls : e # c => calls'[e] = calls[e]
  BY <1>1, Others DEF OwnInv
<1>4. \A id \in RefIds : id \in Calls /\ (calls'[id].pc # "idle" => calls'[id] = calls[id])
  BY <1>2, <1>3 DEF Calls
<1>5. \A e \in Calls : \A id : In(id, calls'[e].unsent) => In(id, calls[e].unsent)
  BY <1>2, <1>3, EmptyList
<1>6. \A m \in expandQueue : m.id \in RefIds
  BY GoodFields DEF OwnInv, IInv
<1>7. ListsOK'
  BY <1>2, <1>3, EmptyList DEF OwnInv, Owned, ListsOK
<1>8. ListedOK'
  BY <1>1, <1>4, <1>5 DEF OwnInv, Owned, ListedOK, Unclaimed
<1>9. QueuedOK'
  BY <1>1, <1>4, <1>6 DEF OwnInv, Owned, QueuedOK
<1>10. ActiveOK'
  BY <1>1, <1>4 DEF OwnInv, Owned, ActiveOK
<1>11. StoredOK'
  <2>1. \A e \in Calls, id \in RefIds : In(id, calls'[e].unsent) => calls'[e] = calls[e]
    BY <1>2, <1>3, EmptyList
  <2> QED BY <1>1, <1>4, <2>1
          DEF OwnInv, StoredOK, StoredBeforeEmitted, RefIs
<1> QED BY <1>7, <1>8, <1>9, <1>10, <1>11 DEF Owned

(* Where a call returns, it is not about to tell of an end.                *)
LEMMA ReturnQuiet ==
  ASSUME OwnInv, NEW c \in Calls, calls[c].pc \notin {"idle", "storeRefs", "emit"},
         NEW outcome
  PROVE  Quiet(c, Returned(c, outcome))
<1> DEFINE x == Returned(c, outcome)
<1>1. calls[c].unstored = <<>> /\ calls[c].unsent = <<>>
  BY DEF OwnInv, Owned, ListsOK
<1>2. CASE c \in Roots
  BY <1>2, NamesAssumption DEF Returned, Idle, Quiet
<1>3. CASE c \notin Roots
  <2>1. x.pc = "storeResult" /\ x.unstored = calls[c].unstored /\ x.unsent = calls[c].unsent
    BY <1>3, CallFacts DEF OwnInv, Returned, CallState
  <2> QED BY <1>1, <2>1 DEF Quiet
<1> QED BY <1>2, <1>3

LEMMA GoOnQuiet ==
  ASSUME OwnInv, NEW c \in Calls, calls[c].pc \notin {"idle", "storeRefs", "emit"},
         NEW pc \in {"step", "depth"}, NEW n
  PROVE  Quiet(c, [calls[c] EXCEPT !.pc = pc, !.left = n])
<1> DEFINE x == [calls[c] EXCEPT !.pc = pc, !.left = n]
<1>1. calls[c].unstored = <<>> /\ calls[c].unsent = <<>>
  BY DEF OwnInv, Owned, ListsOK
<1>2. x.pc = pc /\ x.unstored = calls[c].unstored /\ x.unsent = calls[c].unsent
  BY CallFacts DEF OwnInv, CallState
<1> HIDE DEF x
<1>3. Quiet(c, x)
  BY <1>1, <1>2 DEF Quiet
<1> QED BY <1>3 DEF x

(* The steps of cycles 1 and 2, Leaf and Suspend.                          *)
QuietStep(c) == Cycle1(c) \/ Cycle2(c) \/ Leaf(c) \/ Suspend(c)

LEMMA QuietStepMoves ==
  ASSUME OwnInv, NEW c \in Calls, QuietStep(c)
  PROVE  /\ \E x : Quiet(c, x) /\ calls' = [calls EXCEPT ![c] = x]
         /\ UNCHANGED <<expandQueue, completed, lost, lastRef, refs>>
         /\ Fault \/ UNCHANGED faults
<1>1. calls[c].pc \notin {"idle", "storeRefs", "emit"}
  BY DEF QuietStep, Cycle1, Cycle2, PlanRejected, PlanAccepted, StepInsufficient, StepRejected,
     StepAccepted, Complete, Leaf, Suspend, At, HasStep
<1>2. /\ UNCHANGED <<expandQueue, completed, lost, lastRef, refs>>
      /\ Fault \/ UNCHANGED faults
  BY DEF QuietStep, Cycle1, Cycle2, PlanRejected, PlanAccepted, StepInsufficient, StepRejected,
     StepAccepted, Complete, Leaf, Suspend, storeVars, GateContinues, GateHalts, StoreSuspension
<1>3. \/ \E outcome : calls' = [calls EXCEPT ![c] = Returned(c, outcome)]
      \/ \E n : calls' = [calls EXCEPT ![c].pc = "step", ![c].left = n]
      \/ NextStep(c)
      \/ Goto(c, "depth")
  BY DEF QuietStep, Cycle1, Cycle2, PlanRejected, PlanAccepted, StepInsufficient, StepRejected,
     StepAccepted, Complete, Leaf, Suspend, GateHalts, Returns, AfterSuspend
<1>4. CASE \E outcome : calls' = [calls EXCEPT ![c] = Returned(c, outcome)]
  BY <1>1, <1>2, <1>4, ReturnQuiet
<1>5. CASE \E n : calls' = [calls EXCEPT ![c].pc = "step", ![c].left = n]
  <2>1. PICK n : calls' = [calls EXCEPT ![c].pc = "step", ![c].left = n]
    BY <1>5
  <2>2. calls' = [calls EXCEPT ![c] = [calls[c] EXCEPT !.pc = "step", !.left = n]]
    BY <2>1
  <2> QED BY <1>1, <1>2, <2>2, GoOnQuiet
<1>6. CASE NextStep(c)
  <2>1. calls' = [calls EXCEPT ![c] = [calls[c] EXCEPT !.pc = "step", !.left = calls[c].left - 1]]
    BY <1>6 DEF NextStep
  <2> QED BY <1>1, <1>2, <2>1, GoOnQuiet
<1>7. CASE Goto(c, "depth")
  <2> DEFINE x == [calls[c] EXCEPT !.pc = "depth", !.left = calls[c].left]
  <2>1. [calls[c] EXCEPT !.pc = "depth"] = x
    BY CallFacts DEF OwnInv, CallState
  <2>2. calls' = [calls EXCEPT ![c] = x]
    BY <1>7, <2>1 DEF Goto
  <2>3. Quiet(c, x)
    BY <1>1, GoOnQuiet
  <2> HIDE DEF x
  <2> QED BY <1>2, <2>2, <2>3
<1> QED BY <1>3, <1>4, <1>5, <1>6, <1>7

LEMMA OwnStep ==
  ASSUME OwnInv, [Next]_vars
  PROVE  OwnInv'
<1>1. IInv'
  BY InvStep DEF OwnInv
<1>2. ASSUME NEW r \in Roots, StartTopLevel(r)
      PROVE  Owned' /\ StoredOK'
  <2> DEFINE x == [Idle EXCEPT !.pc = "plan", !.run = <<r>>, !.depth = 1]
  <2>1. Quiet(r, x) /\ r \in Calls
    BY NamesAssumption DEF Quiet, Idle, Calls
  <2>2. calls' = [calls EXCEPT ![r] = x] /\ UNCHANGED <<expandQueue, completed, lastRef, refs, faults>>
    BY <1>2 DEF StartTopLevel, BeginRun, storeVars
  <2> HIDE DEF x
  <2> QED BY <2>1, <2>2, QuietOwns
<1>3. ASSUME NEW c \in Calls, CallStep(c)
      PROVE  Owned' /\ StoredOK'
  <2>1. CASE QuietStep(c)
    BY <2>1, QuietStepMoves, QuietOwns, FaultSeen DEF OwnInv
  <2> QED BY <1>3, <2>1, ExpandOwns, StoreOwns, EmitOwns, ThrowOwns, ResultOwns, CompletedOwns
          DEF CallStep, QuietStep, Cycle3, Handler
<1>4. ASSUME NEW msg \in expandQueue, Deliver(msg)
      PROVE  Owned' /\ StoredOK'
  BY <1>4, DeliverOwns
<1>5. ASSUME UNCHANGED <<calls, refs, completed, lastRef, faults>>, expandQueue' \subseteq expandQueue
      PROVE  Owned' /\ StoredOK'
  BY <1>5 DEF OwnInv, Owned, ListsOK, ListedOK, QueuedOK, ActiveOK, Unclaimed, StoredOK,
     StoredBeforeEmitted, RefIs
<1>6. CASE UNCHANGED vars
  BY <1>1, <1>5, <1>6 DEF vars, OwnInv
<1>7. ASSUME NEW s \in suspensions, Resume(s)
      PROVE  Owned' /\ StoredOK'
  BY <1>5, <1>7 DEF Resume
<1>8. ASSUME NEW msg \in expandQueue, DeliverNameless(msg)
      PROVE  Owned' /\ StoredOK'
  BY <1>5, <1>8 DEF DeliverNameless
<1> QED BY <1>1, <1>2, <1>3, <1>4, <1>6, <1>7, <1>8 DEF Next, OwnInv

LEMMA OwnInit ==
  ASSUME Init
  PROVE  OwnInv
<1>1. \A c \in Calls : calls[c] = Idle
  BY DEF Init
<1>2. Idle.pc = "idle" /\ Idle.unstored = <<>> /\ Idle.unsent = <<>>
  BY DEF Idle
<1>3. \A c \in RefIds : c \in Calls
  BY DEF Calls
<1>4. Owned
  BY <1>1, <1>2, <1>3, EmptyList DEF Init, Owned, ListsOK, ListedOK, QueuedOK, ActiveOK
<1>5. StoredOK
  BY <1>1, <1>2, <1>3, EmptyList DEF Init, StoredOK, StoredBeforeEmitted
<1> QED BY <1>4, <1>5, InvInit DEF OwnInv

(* Store before emit, for any number of families, calls and sub-flows:     *)
(* while nothing has failed, a waiting message announces a ref stored as   *)
(* PENDING and a completion event follows the result it tells of.          *)
THEOREM StoreFirst == Spec => []StoredBeforeEmitted
<1>1. Init => OwnInv
  BY OwnInit
<1>2. OwnInv /\ [Next]_vars => OwnInv'
  BY OwnStep
<1>3. OwnInv => StoredBeforeEmitted
  BY DEF OwnInv, StoredOK, StoredBeforeEmitted
<1> QED BY <1>1, <1>2, <1>3, PTL DEF Spec

-----------------------------------------------------------------------------
(* The safety part of RefsResolve: a stored ref whose sub-flow is still to *)
(* be run has someone who will see to it, and a call that was begun comes  *)
(* nearer to its end with every step.                                      *)

RootsStarted == \A r \in Roots : ~ At(r, "idle") => r \in started

AttendedInv == OwnInv /\ RootsStarted /\ RefsAttended

(* A step of a begun call is a step of that call alone.                    *)
LEMMA CallStepMoves ==
  ASSUME OwnInv, NEW c \in Calls, CallStep(c)
  PROVE  /\ calls[c].pc # "idle" /\ UNCHANGED started
         /\ \E x : calls' = [calls EXCEPT ![c] = x]
<1>1. calls[c].pc # "idle" /\ UNCHANGED started
  BY DEF CallStep, Cycle1, Cycle2, Cycle3, Handler, PlanRejected, PlanAccepted, StepInsufficient,
     StepRejected, StepAccepted, Complete, Leaf, Expand, StoreRef, Emit, Suspend, StoreResult,
     EmitCompleted, Throw, HasStep, At, storeVars
<1> SUFFICES \E x : calls' = [calls EXCEPT ![c] = x]
  BY <1>1
<1>2. CASE QuietStep(c)
  BY <1>2, QuietStepMoves
<1>3. CASE Expand(c)
  <2>1. PICK d \in Decompositions :
          calls' = [calls EXCEPT ![c].pc = "storeRefs",
                                 ![c].unstored = SubFlows(c, d), ![c].unsent = SubFlows(c, d)]
    BY <1>3 DEF Expand
  <2>2. calls' = [calls EXCEPT ![c] = [calls[c] EXCEPT !.pc = "storeRefs",
                                       !.unstored = SubFlows(c, d), !.unsent = SubFlows(c, d)]]
    BY <2>1
  <2> QED BY <2>2
<1>4. CASE StoreRef(c)
  BY <1>4 DEF StoreRef
<1>5. CASE Emit(c)
  BY <1>5 DEF Emit
<1>6. CASE StoreResult(c)
  BY <1>6 DEF StoreResult, Goto
<1>7. CASE EmitCompleted(c)
  BY <1>7 DEF EmitCompleted
<1>8. CASE Throw(c)
  BY <1>8 DEF Throw
<1> QED BY <1>2, <1>3, <1>4, <1>5, <1>6, <1>7, <1>8 DEF CallStep, QuietStep, Cycle3, Handler

LEMMA RootsStep ==
  ASSUME OwnInv, RootsStarted, [Next]_vars
  PROVE  RootsStarted'
<1>1. ASSUME NEW r \in Roots, StartTopLevel(r)
      PROVE  RootsStarted'
  <2>1. started' = started \cup {r} /\ r \in Calls
        /\ calls' = [calls EXCEPT ![r] = [Idle EXCEPT !.pc = "plan", !.run = <<r>>, !.depth = 1]]
    BY <1>1 DEF StartTopLevel, BeginRun, Calls
  <2>2. \A d \in Calls : d # r => calls'[d] = calls[d]
    BY <2>1, Others DEF OwnInv
  <2> QED BY <2>1, <2>2 DEF RootsStarted, At, Calls
<1>2. ASSUME NEW c \in Calls, CallStep(c)
      PROVE  RootsStarted'
  <2>1. calls[c].pc # "idle" /\ UNCHANGED started
    BY <1>2, CallStepMoves
  <2>2. PICK x : calls' = [calls EXCEPT ![c] = x]
    BY <1>2, CallStepMoves
  <2>3. \A d \in Calls : d # c => calls'[d] = calls[d]
    BY <2>2, Others DEF OwnInv
  <2> QED BY <2>1, <2>3 DEF RootsStarted, At, Calls
<1>3. ASSUME NEW msg \in expandQueue, Deliver(msg)
      PROVE  RootsStarted'
  <2>1. msg.id \in RefIds /\ UNCHANGED started
        /\ calls' = [calls EXCEPT ![msg.id] = [Idle EXCEPT !.pc = "plan", !.run = msg.run, !.depth = msg.depth]]
    BY <1>3, GoodFields DEF OwnInv, IInv, Deliver, BeginRun
  <2>2. \A d \in Roots : d \in Calls /\ d # msg.id
    BY <2>1, NamesAssumption DEF Calls
  <2>3. \A d \in Roots : calls'[d] = calls[d]
    BY <2>1, <2>2, Others DEF OwnInv, Calls
  <2> QED BY <2>1, <2>3 DEF RootsStarted, At
<1>4. ASSUME UNCHANGED <<started, calls>>
      PROVE  RootsStarted'
  BY <1>4 DEF RootsStarted, At
<1> QED BY <1>1, <1>2, <1>3, <1>4 DEF Next, DeliverNameless, Resume, vars

(* A step that leaves the documents and the queue alone, of a call that    *)
(* drops no sub-flow but those it gives up, and that is idle only if it    *)
(* was, if it gives itself up or if its ref is not RUNNING.                *)
LEMMA AttendedFrame ==
  ASSUME AttendedInv, NEW c \in Calls, NEW x, calls' = [calls EXCEPT ![c] = x],
         UNCHANGED <<refs, expandQueue>>, faults' = 0 => faults = 0, lost \subseteq lost',
         \A id \in RefIds : In(id, calls[c].unsent) => In(id, x.unsent) \/ id \in lost',
         x.pc = "idle" => calls[c].pc = "idle" \/ c \notin RefIds \/ c \in lost'
                          \/ (faults = 0 => ~ RefIs(c, {"RUNNING"}))
  PROVE  RefsAttended'
<1>1. calls'[c] = x /\ \A d \in Calls : d # c => calls'[d] = calls[d]
  BY Others DEF AttendedInv, OwnInv
<1>2. SUFFICES ASSUME faults' = 0, NEW id \in RefIds \ lost'
               PROVE  /\ RefIs(id, {"PENDING"})' => \/ \E m \in expandQueue' : m.id = id
                                                    \/ \E d \in Calls : In(id, calls'[d].unsent)
                      /\ RefIs(id, {"RUNNING"})' => calls'[id].pc # "idle"
  BY DEF RefsAttended, At
<1>3. faults = 0 /\ id \in Calls
  BY <1>2 DEF Calls
<1>4. /\ RefIs(id, {"PENDING"})' <=> RefIs(id, {"PENDING"})
      /\ RefIs(id, {"RUNNING"})' <=> RefIs(id, {"RUNNING"})
  BY DEF RefIs
<1>5. \A d \in Calls : In(id, calls[d].unsent) => In(id, calls'[d].unsent)
  BY <1>1
<1>6. RefIs(id, {"RUNNING"}) => calls'[id].pc # "idle"
  BY <1>1, <1>3 DEF AttendedInv, RefsAttended, At
<1> QED BY <1>3, <1>4, <1>5, <1>6 DEF AttendedInv, RefsAttended

LEMMA StoreAttended ==
  ASSUME AttendedInv, NEW c \in Calls, StoreRef(c)
  PROVE  RefsAttended'
<1> DEFINE ref == Head(calls[c].unstored)
           rest == Tail(calls[c].unstored)
           x == [calls[c] EXCEPT !.unstored = rest, !.pc = AfterEach(rest, "storeRefs", "emit")]
<1>0. OwnInv
  BY DEF AttendedInv
<1>1. /\ calls[c].pc = "storeRefs" /\ calls' = [calls EXCEPT ![c] = x]
      /\ \/ refs' = [refs EXCEPT ![ref.id] = [run |-> ref.run, status |-> "PENDING"]]
            /\ UNCHANGED faults
         \/ Fault /\ UNCHANGED refs
      /\ UNCHANGED <<expandQueue, lost>>
  BY DEF StoreRef, At
<1>2. /\ ref \in GoodMsgs /\ ref.id \in RefIds /\ ref.run \in Runs \cup {NoRun}
      /\ In(ref.id, calls[c].unstored)
  BY <1>0, <1>1, CallFacts, TakenOff, GoodFields, ListHead DEF OwnInv, CallOK
<1> HIDE DEF ref, rest
<1>3. x.unsent = calls[c].unsent /\ x.pc \in {"storeRefs", "emit"}
  BY <1>0, CallFacts DEF OwnInv, CallState, AfterEach
<1> HIDE DEF x
<1>4. calls'[c] = x /\ \A e \in Calls : e # c => calls'[e] = calls[e]
  BY <1>0, <1>1, Others DEF OwnInv
<1>5. In(ref.id, calls[c].unsent)
  BY <1>0, <1>2 DEF OwnInv, Owned, ListsOK
<1>6. SUFFICES ASSUME faults' = 0, NEW id \in RefIds \ lost
               PROVE  /\ RefIs(id, {"PENDING"})' => \/ \E m \in expandQueue' : m.id = id
                                                    \/ \E d \in Calls : In(id, calls'[d].unsent)
                      /\ RefIs(id, {"RUNNING"})' => calls'[id].pc # "idle"
  BY <1>1 DEF RefsAttended, At
<1>7. faults = 0 /\ refs' = [refs EXCEPT ![ref.id] = [run |-> ref.run, status |-> "PENDING"]]
  BY <1>0, <1>1, <1>6, FaultSeen DEF OwnInv
<1>8. /\ refs'[ref.id].status = "PENDING"
      /\ \A j \in RefIds : j # ref.id => refs'[j] = refs[j]
  BY <1>0, <1>2, <1>7, StoredDoc DEF OwnInv
<1>9. CASE id = ref.id
  BY <1>3, <1>4, <1>5, <1>8, <1>9 DEF RefIs
<1>10. CASE id # ref.id
  <2>1. /\ RefIs(id, {"PENDING"})' <=> RefIs(id, {"PENDING"})
        /\ RefIs(id, {"RUNNING"})' <=> RefIs(id, {"RUNNING"})
    BY <1>8, <1>10 DEF RefIs
  <2>2. id \in Calls /\ (calls[id].pc # "idle" => calls'[id].pc # "idle")
    BY <1>3, <1>4 DEF Calls
  <2>3. \A d \in Calls : In(id, calls[d].unsent) => In(id, calls'[d].unsent)
    BY <1>3, <1>4
  <2> QED BY <1>1, <1>7, <2>1, <2>2, <2>3 DEF AttendedInv, RefsAttended, At
<1> QED BY <1>9, <1>10

LEMMA EmitAttended ==
  ASSUME AttendedInv, NEW c \in Calls, Emit(c)
  PROVE  RefsAttended'
<1> DEFINE msg == Head(calls[c].unsent)
           rest == Tail(calls[c].unsent)
           x == [calls[c] EXCEPT !.unsent = rest, !.pc = AfterEach(rest, "emit", "suspend")]
<1>0. OwnInv
  BY DEF AttendedInv
<1>1. /\ calls[c].pc = "emit" /\ calls' = [calls EXCEPT ![c] = x]
      /\ \/ expandQueue' = expandQueue \cup {msg} /\ UNCHANGED faults
         \/ Fault /\ UNCHANGED expandQueue
      /\ UNCHANGED <<refs, lost>>
  BY DEF Emit, At
<1>2. \A id : In(id, calls[c].unsent) <=> id = msg.id \/ In(id, rest)
  BY <1>0, <1>1, CallFacts, ListHead DEF OwnInv, CallOK
<1> HIDE DEF msg, rest
<1>3. x.unsent = rest /\ x.pc \in {"emit", "suspend"}
  BY <1>0, CallFacts DEF OwnInv, CallState, AfterEach
<1> HIDE DEF x
<1>4. calls'[c] = x /\ \A e \in Calls : e # c => calls'[e] = calls[e]
  BY <1>0, <1>1, Others DEF OwnInv
<1>5. SUFFICES ASSUME faults' = 0, NEW id \in RefIds \ lost
               PROVE  /\ RefIs(id, {"PENDING"})' => \/ \E m \in expandQueue' : m.id = id
                                                    \/ \E d \in Calls : In(id, calls'[d].unsent)
                      /\ RefIs(id, {"RUNNING"})' => calls'[id].pc # "idle"
  BY <1>1 DEF RefsAttended, At
<1>6. faults = 0 /\ expandQueue' = expandQueue \cup {msg}
  BY <1>0, <1>1, <1>5, FaultSeen DEF OwnInv
<1>7. /\ RefIs(id, {"PENDING"})' <=> RefIs(id, {"PENDING"})
      /\ RefIs(id, {"RUNNING"})' <=> RefIs(id, {"RUNNING"})
  BY <1>1 DEF RefIs
<1>8. id \in Calls /\ (calls[id].pc # "idle" => calls'[id].pc # "idle")
  BY <1>3, <1>4 DEF Calls
<1>9. ASSUME NEW d \in Calls, In(id, calls[d].unsent)
      PROVE  (\E m \in expandQueue' : m.id = id) \/ In(id, calls'[d].unsent)
  <2>1. CASE d = c
    BY <1>2, <1>3, <1>4, <1>6, <1>9, <2>1
  <2>2. CASE d # c
    BY <1>4, <1>9, <2>2
  <2> QED BY <2>1, <2>2
<1> QED BY <1>6, <1>7, <1>8, <1>9 DEF AttendedInv, RefsAttended, At

LEMMA DeliverAttended ==
  ASSUME AttendedInv, NEW msg \in expandQueue, Deliver(msg)
  PROVE  RefsAttended'
<1> DEFINE x == [Idle EXCEPT !.pc = "plan", !.run = msg.run, !.depth = msg.depth]
           c == msg.id
<1>0. OwnInv
  BY DEF AttendedInv
<1>1. /\ calls' = [calls EXCEPT ![c] = x]
      /\ expandQueue' = expandQueue \ {msg}
      /\ \/ refs' = [refs EXCEPT ![c] = [run |-> msg.run, status |-> "RUNNING"]]
            /\ UNCHANGED faults
         \/ Fault /\ UNCHANGED refs
      /\ UNCHANGED lost
  BY DEF Deliver, BeginRun
<1>2. x.pc = "plan"
  BY DEF Idle
<1> HIDE DEF x
<1>3. c \in RefIds /\ c \in Calls /\ msg.run \in Runs \cup {NoRun}
  BY <1>0, GoodFields DEF OwnInv, IInv, Calls
<1>4. calls'[c] = x /\ \A e \in Calls : e # c => calls'[e] = calls[e]
  BY <1>0, <1>1, <1>3, Others DEF OwnInv
<1>5. calls[c].pc = "idle"
  BY <1>0 DEF OwnInv, Owned, QueuedOK
<1>6. calls[c].unsent = <<>>
  BY <1>0, <1>3, <1>5 DEF OwnInv, Owned, ListsOK
<1>7. SUFFICES ASSUME faults' = 0, NEW id \in RefIds \ lost
               PROVE  /\ RefIs(id, {"PENDING"})' => \/ \E m \in expandQueue' : m.id = id
                                                    \/ \E d \in Calls : In(id, calls'[d].unsent)
                      /\ RefIs(id, {"RUNNING"})' => calls'[id].pc # "idle"
  BY <1>1 DEF RefsAttended, At
<1>8. faults = 0 /\ refs' = [refs EXCEPT ![c] = [run |-> msg.run, status |-> "RUNNING"]]
  BY <1>0, <1>1, <1>7, FaultSeen DEF OwnInv
<1>9. /\ refs'[c].status = "RUNNING"
      /\ \A j \in RefIds : j # c => refs'[j] = refs[j]
  BY <1>0, <1>3, <1>8, StoredDoc DEF OwnInv
<1> HIDE DEF c
<1>10. CASE id = c
  BY <1>2, <1>4, <1>9, <1>10 DEF RefIs
<1>11. CASE id # c
  <2>1. /\ RefIs(id, {"PENDING"})' <=> RefIs(id, {"PENDING"})
        /\ RefIs(id, {"RUNNING"})' <=> RefIs(id, {"RUNNING"})
    BY <1>9, <1>11 DEF RefIs
  <2>2. id \in Calls /\ calls'[id] = calls[id]
    BY <1>4, <1>11 DEF Calls
  <2>3. \A d \in Calls : In(id, calls[d].unsent) => In(id, calls'[d].unsent)
    BY <1>4, <1>6, EmptyList
  <2>4. \A m \in expandQueue : m.id = id => m \in expandQueue'
    BY <1>1, <1>11 DEF c
  <2> QED BY <1>8, <2>1, <2>2, <2>3, <2>4 DEF AttendedInv, RefsAttended, At
<1> QED BY <1>10, <1>11

LEMMA ResultAttended ==
  ASSUME AttendedInv, NEW c \in Calls, StoreResult(c)
  PROVE  RefsAttended'
<1> DEFINE x == [calls[c] EXCEPT !.pc = "emitCompleted"]
           status == RefStatus(calls[c].outcome)
<1>0. OwnInv
  BY DEF AttendedInv
<1>1. /\ calls[c].pc = "storeResult" /\ calls' = [calls EXCEPT ![c] = x]
      /\ \/ refs' = [refs EXCEPT ![c] = [run |-> Run(c), status |-> status]]
            /\ UNCHANGED faults
         \/ Fault /\ UNCHANGED refs
      /\ UNCHANGED <<expandQueue, lost>>
  BY DEF StoreResult, At, Goto
<1>2. x.pc = "emitCompleted" /\ x.unsent = calls[c].unsent /\ status \in {"COMPLETE", "FAILED"}
  BY <1>0, CallFacts DEF OwnInv, CallState, RefStatus
<1> HIDE DEF x, status
<1>3. c \in RefIds /\ Run(c) \in Runs
  BY <1>0, <1>1, CallFacts DEF OwnInv, CallOK
<1>4. calls'[c] = x /\ \A e \in Calls : e # c => calls'[e] = calls[e]
  BY <1>0, <1>1, Others DEF OwnInv
<1>5. SUFFICES ASSUME faults' = 0, NEW id \in RefIds \ lost
               PROVE  /\ RefIs(id, {"PENDING"})' => \/ \E m \in expandQueue' : m.id = id
                                                    \/ \E d \in Calls : In(id, calls'[d].unsent)
                      /\ RefIs(id, {"RUNNING"})' => calls'[id].pc # "idle"
  BY <1>1 DEF RefsAttended, At
<1>6. faults = 0 /\ refs' = [refs EXCEPT ![c] = [run |-> Run(c), status |-> status]]
  BY <1>0, <1>1, <1>5, FaultSeen DEF OwnInv
<1>7. /\ refs'[c].status = status
      /\ \A j \in RefIds : j # c => refs'[j] = refs[j]
  BY <1>0, <1>2, <1>3, <1>6, StoredDoc DEF OwnInv
<1>8. CASE id = c
  BY <1>2, <1>7, <1>8 DEF RefIs
<1>9. CASE id # c
  <2>1. /\ RefIs(id, {"PENDING"})' <=> RefIs(id, {"PENDING"})
        /\ RefIs(id, {"RUNNING"})' <=> RefIs(id, {"RUNNING"})
    BY <1>7, <1>9 DEF RefIs
  <2>2. id \in Calls /\ calls'[id] = calls[id]
    BY <1>4, <1>9 DEF Calls
  <2>3. \A d \in Calls : In(id, calls[d].unsent) => In(id, calls'[d].unsent)
    BY <1>2, <1>4
  <2> QED BY <1>1, <1>6, <2>1, <2>2, <2>3 DEF AttendedInv, RefsAttended, At
<1> QED BY <1>8, <1>9

LEMMA CallAttended ==
  ASSUME AttendedInv, NEW c \in Calls, CallStep(c)
  PROVE  RefsAttended'
<1>0. OwnInv
  BY DEF AttendedInv
<1>1. CASE QuietStep(c)
  <2>1. PICK x : Quiet(c, x) /\ calls' = [calls EXCEPT ![c] = x]
    BY <1>0, <1>1, QuietStepMoves
  <2>2. calls[c].unsent = <<>>
    <3>1. calls[c].pc \notin {"storeRefs", "emit"}
      BY <1>1 DEF QuietStep, Cycle1, Cycle2, PlanRejected, PlanAccepted, StepInsufficient,
         StepRejected, StepAccepted, Complete, Leaf, Suspend, At, HasStep
    <3> QED BY <1>0, <3>1 DEF OwnInv, Owned, ListsOK
  <2>3. UNCHANGED <<refs, expandQueue, lost>> /\ (faults' = 0 => faults = 0)
    BY <1>0, <1>1, QuietStepMoves, FaultSeen DEF OwnInv
  <2>4. x.pc = "idle" => calls[c].pc = "idle" \/ c \notin RefIds
    BY <2>1 DEF Quiet
  <2> QED BY <2>1, <2>2, <2>3, <2>4, AttendedFrame, EmptyList
<1>2. CASE Expand(c)
  <2>1. PICK d \in Decompositions :
          calls' = [calls EXCEPT ![c].pc = "storeRefs",
                                 ![c].unstored = SubFlows(c, d), ![c].unsent = SubFlows(c, d)]
    BY <1>2 DEF Expand
  <2> DEFINE x == [calls[c] EXCEPT !.pc = "storeRefs",
                                   !.unstored = SubFlows(c, d), !.unsent = SubFlows(c, d)]
  <2>2. calls' = [calls EXCEPT ![c] = x]
    BY <2>1
  <2>3. x.pc = "storeRefs"
    BY <1>0, CallFacts DEF OwnInv, CallState
  <2> HIDE DEF x
  <2>4. calls[c].unsent = <<>>
    BY <1>0, <1>2 DEF Expand, At, OwnInv, Owned, ListsOK
  <2>5. UNCHANGED <<refs, expandQueue, lost, faults>>
    BY <1>2 DEF Expand
  <2> QED BY <2>2, <2>3, <2>4, <2>5, AttendedFrame, EmptyList
<1>3. CASE EmitCompleted(c)
  <2>1. /\ calls[c].pc = "emitCompleted" /\ calls' = [calls EXCEPT ![c] = Idle]
        /\ UNCHANGED <<refs, expandQueue, lost>> /\ (Fault \/ UNCHANGED faults)
    BY <1>3 DEF EmitCompleted, At
  <2>2. c \in RefIds /\ calls[c].unsent = <<>>
    BY <1>0, <2>1, CallFacts DEF OwnInv, CallOK, Owned, ListsOK
  <2>3. faults = 0 => ~ RefIs(c, {"RUNNING"})
    BY <1>0, <2>1, <2>2 DEF OwnInv, StoredOK, RefIs
  <2>4. faults' = 0 => faults = 0
    BY <1>0, <2>1, FaultSeen DEF OwnInv
  <2> QED BY <2>1, <2>2, <2>3, <2>4, AttendedFrame, EmptyList
<1>4. CASE Throw(c)
  <2>1. /\ calls' = [calls EXCEPT ![c] = Idle] /\ UNCHANGED <<refs, expandQueue, faults>>
        /\ lost' = lost \cup {id \in RefIds : id = c \/ In(id, calls[c].unsent)}
    BY <1>4 DEF Throw
  <2> QED BY <2>1, AttendedFrame
<1> QED BY <1>1, <1>2, <1>3, <1>4, StoreAttended, EmitAttended, ResultAttended
        DEF CallStep, QuietStep, Cycle3, Handler

LEMMA AttendedStep ==
  ASSUME AttendedInv, [Next]_vars
  PROVE  AttendedInv'
<1>0. OwnInv /\ OwnInv' /\ RootsStarted'
  BY OwnStep, RootsStep DEF AttendedInv
<1>1. ASSUME NEW r \in Roots, StartTopLevel(r)
      PROVE  RefsAttended'
  <2> DEFINE x == [Idle EXCEPT !.pc = "plan", !.run = <<r>>, !.depth = 1]
  <2>1. x.pc = "plan" /\ r \in Calls
    BY DEF Idle, Calls
  <2>2. calls' = [calls EXCEPT ![r] = x] /\ UNCHANGED <<refs, expandQueue, lost, faults>>
    BY <1>1 DEF StartTopLevel, BeginRun, storeVars
  <2> HIDE DEF x
  <2>3. calls[r].pc = "idle"
    BY <1>1 DEF StartTopLevel, AttendedInv, RootsStarted, At
  <2>4. calls[r].unsent = <<>>
    BY <1>0, <2>1, <2>3 DEF OwnInv, Owned, ListsOK
  <2> QED BY <2>1, <2>2, <2>4, AttendedFrame, EmptyList
<1>2. ASSUME UNCHANGED <<calls, refs, expandQueue, lost, faults>>
      PROVE  RefsAttended'
  BY <1>2 DEF AttendedInv, RefsAttended, RefIs, At
<1>3. ASSUME NEW s \in suspensions, Resume(s)
      PROVE  RefsAttended'
  BY <1>2, <1>3 DEF Resume
<1>4. CASE UNCHANGED vars
  BY <1>0, <1>2, <1>4 DEF vars, AttendedInv
<1>5. ASSUME NEW msg \in expandQueue, DeliverNameless(msg)
      PROVE  RefsAttended'
  <2>1. /\ UNCHANGED <<calls, refs, faults>> /\ expandQueue' = expandQueue \ {msg}
        /\ lost' = lost \cup {msg.id}
    BY <1>5 DEF DeliverNameless
  <2> QED BY <2>1 DEF AttendedInv, RefsAttended, RefIs, At
<1> QED BY <1>0, <1>1, <1>3, <1>4, <1>5, CallAttended, DeliverAttended DEF Next, AttendedInv

LEMMA AttendedInit ==
  ASSUME Init
  PROVE  AttendedInv
<1>1. \A c \in Calls : calls[c] = Idle
  BY DEF Init
<1>2. RootsStarted
  BY <1>1 DEF RootsStarted, At, Idle, Calls
<1>3. RefsAttended
  BY DEF Init, RefsAttended, RefIs
<1> QED BY <1>2, <1>3, OwnInit DEF AttendedInv

(* No stored sub-flow is left with nobody to run it while the database and *)
(* the queue do not fail, but for those an exception gave up itself: what  *)
(* hands it over (the call that stores and sends, the queue, the consumer  *)
(* that stores RUNNING and runs it) never lets go of it before the next    *)
(* has it, and an exception in one call touches no other call's sub-flows. *)
THEOREM SubFlowsAttended == Spec => []RefsAttended
<1>1. Init => AttendedInv
  BY AttendedInit
<1>2. AttendedInv /\ [Next]_vars => AttendedInv'
  BY AttendedStep
<1>3. AttendedInv => RefsAttended
  BY DEF AttendedInv
<1> QED BY <1>1, <1>2, <1>3, PTL DEF Spec

(* What a call has left to do, in steps of its own: with a plan, at most   *)
(* MaxSteps steps; with an expansion, a ref to store and a message to send *)
(* for each sub-flow, the suspension, the result and its event.            *)
ExpansionRank == 2 * MaxRefs + 3
Rank(x) ==
  CASE x.pc = "plan" -> ExpansionRank + 2 * MaxSteps + 2
    [] x.pc = "step" -> ExpansionRank + 2 * x.left + 1
    [] x.pc = "depth" -> ExpansionRank + 2 * x.left
    [] x.pc = "storeRefs" -> 3 + Len(x.unsent) + Len(x.unstored)
    [] x.pc = "emit" -> 3 + Len(x.unsent)
    [] x.pc = "suspend" -> 3
    [] x.pc = "storeResult" -> 2
    [] x.pc = "emitCompleted" -> 1
    [] OTHER -> 0
CallRank(c) == Rank(calls[c])

CallsRunDownStep ==
  \A c \in Calls : ~ At(c, "idle") => calls'[c] = calls[c] \/ CallRank(c)' < CallRank(c)

LEMMA RankAt ==
  ASSUME NEW x
  PROVE  /\ x.pc = "plan" => Rank(x) = ExpansionRank + 2 * MaxSteps + 2
         /\ x.pc = "step" => Rank(x) = ExpansionRank + 2 * x.left + 1
         /\ x.pc = "depth" => Rank(x) = ExpansionRank + 2 * x.left
         /\ x.pc = "storeRefs" => Rank(x) = 3 + Len(x.unsent) + Len(x.unstored)
         /\ x.pc = "emit" => Rank(x) = 3 + Len(x.unsent)
         /\ x.pc = "suspend" => Rank(x) = 3
         /\ x.pc = "storeResult" => Rank(x) = 2
         /\ x.pc = "emitCompleted" => Rank(x) = 1
         /\ x.pc = "idle" => Rank(x) = 0
BY DEF Rank

LEMMA RankIsNat ==
  ASSUME NEW x \in CallState
  PROVE  Rank(x) \in Nat
<1>1. x.left \in Nat /\ Len(x.unsent) \in Nat /\ Len(x.unstored) \in Nat
  BY DEF CallState
<1>2. ExpansionRank \in Nat /\ MaxSteps \in Nat
  BY BoundsAssumption DEF ExpansionRank
<1> HIDE DEF ExpansionRank
<1>3. x.pc \in {"idle", "plan", "step", "depth", "storeRefs", "emit", "suspend",
               "storeResult", "emitCompleted"}
  BY DEF CallState
<1>4. \/ Rank(x) = ExpansionRank + 2 * MaxSteps + 2
      \/ Rank(x) = ExpansionRank + 2 * x.left + 1
      \/ Rank(x) = ExpansionRank + 2 * x.left
      \/ Rank(x) = 3 + Len(x.unsent) + Len(x.unstored)
      \/ Rank(x) = 3 + Len(x.unsent)
      \/ Rank(x) \in {0, 1, 2, 3}
  BY <1>3, RankAt, Zenon
<1> DEFINE unsent == Len(x.unsent)
           unstored == Len(x.unstored)
<1> HIDE DEF unsent, unstored
<1>5. unsent \in Nat /\ unstored \in Nat
  BY <1>1 DEF unsent, unstored
<1>6. 3 + unsent \in Nat /\ 3 + unsent + unstored \in Nat
  BY <1>5
<1>7. /\ ExpansionRank + 2 * MaxSteps + 2 \in Nat /\ ExpansionRank + 2 * x.left \in Nat
      /\ ExpansionRank + 2 * x.left + 1 \in Nat /\ {0, 1, 2, 3} \subseteq Nat
  BY <1>1, <1>2
<1> QED BY <1>4, <1>6, <1>7, Zenon DEF unsent, unstored

(* Where a call returns, it has at most its result and an event to store.  *)
LEMMA ReturnRunsDown ==
  ASSUME IInv, NEW c \in Calls, calls[c].pc \in {"plan", "step", "depth", "suspend"}, NEW outcome
  PROVE  Rank(Returned(c, outcome)) < Rank(calls[c])
<1>1. Rank(calls[c]) >= 3
  <2>1. calls[c].left \in Nat /\ ExpansionRank \in Nat /\ ExpansionRank >= 3 /\ MaxSteps \in Nat
    BY CallFacts, BoundsAssumption DEF CallState, ExpansionRank
  <2> HIDE DEF ExpansionRank
  <2>2. \/ Rank(calls[c]) = ExpansionRank + 2 * MaxSteps + 2
        \/ Rank(calls[c]) = ExpansionRank + 2 * calls[c].left + 1
        \/ Rank(calls[c]) = ExpansionRank + 2 * calls[c].left
        \/ Rank(calls[c]) = 3
    BY RankAt, Zenon
  <2> QED BY <2>1, <2>2
<1>2. Returned(c, outcome).pc \in {"idle", "storeResult"}
  BY CallFacts DEF Returned, Idle, CallState
<1>3. Rank(Returned(c, outcome)) \in {0, 2}
  BY <1>2 DEF Rank
<1>4. Rank(calls[c]) \in Nat
  BY CallFacts, RankIsNat
<1> QED BY <1>1, <1>3, <1>4

LEMMA GoOnRunsDown ==
  ASSUME IInv, NEW c \in Calls, NEW n \in Nat, NEW x,
         x = [calls[c] EXCEPT !.pc = "step", !.left = n],
         \/ calls[c].pc = "plan" /\ n <= MaxSteps
         \/ calls[c].pc \in {"step", "depth"} /\ n < calls[c].left
  PROVE  Rank(x) < Rank(calls[c])
<1>1. x.pc = "step" /\ x.left = n /\ calls[c].left \in Nat
  BY CallFacts DEF CallState
<1>2. ExpansionRank \in Nat /\ MaxSteps \in Nat
  BY BoundsAssumption DEF ExpansionRank
<1> HIDE DEF ExpansionRank
<1>3. Rank(x) = ExpansionRank + 2 * n + 1
  BY <1>1, RankAt, Zenon
<1>4. CASE calls[c].pc = "plan" /\ n <= MaxSteps
  <2>1. Rank(calls[c]) = ExpansionRank + 2 * MaxSteps + 2
    BY <1>4, RankAt, Zenon
  <2> QED BY <1>2, <1>3, <1>4, <2>1
<1>5. CASE calls[c].pc \in {"step", "depth"} /\ n < calls[c].left
  <2>1. \/ Rank(calls[c]) = ExpansionRank + 2 * calls[c].left + 1
        \/ Rank(calls[c]) = ExpansionRank + 2 * calls[c].left
    BY <1>5, RankAt, Zenon
  <2> QED BY <1>1, <1>2, <1>3, <1>5, <2>1
<1> QED BY <1>4, <1>5

LEMMA CallStepRunsDown ==
  ASSUME OwnInv, NEW c \in Calls, CallStep(c)
  PROVE  \E x : calls' = [calls EXCEPT ![c] = x] /\ Rank(x) < Rank(calls[c])
<1>0. /\ IInv /\ calls[c] \in CallState /\ CallOK(c, calls[c])
      /\ ExpansionRank \in Nat /\ ExpansionRank >= 3
  BY CallFacts, BoundsAssumption DEF OwnInv, ExpansionRank
<1>1. CASE \E outcome : /\ calls[c].pc \in {"plan", "step", "depth", "suspend"}
                        /\ calls' = [calls EXCEPT ![c] = Returned(c, outcome)]
  BY <1>0, <1>1, ReturnRunsDown
<1>2. CASE \E n \in 0..MaxSteps : /\ calls[c].pc = "plan"
                                  /\ calls' = [calls EXCEPT ![c].pc = "step", ![c].left = n]
  <2>1. PICK n \in 0..MaxSteps : calls' = [calls EXCEPT ![c].pc = "step", ![c].left = n]
    BY <1>2
  <2> DEFINE x == [calls[c] EXCEPT !.pc = "step", !.left = n]
  <2>2. calls' = [calls EXCEPT ![c] = x]
    BY <2>1
  <2>3. Rank(x) < Rank(calls[c])
    <3> HIDE DEF x
    <3>1. n \in Nat /\ n <= MaxSteps
      BY BoundsAssumption
    <3> QED BY <1>0, <1>2, <3>1, GoOnRunsDown DEF x
  <2> QED BY <2>2, <2>3
<1>3. CASE NextStep(c) /\ calls[c].pc \in {"step", "depth"} /\ calls[c].left > 0
  <2> DEFINE n == calls[c].left - 1
             x == [calls[c] EXCEPT !.pc = "step", !.left = n]
  <2>1. calls' = [calls EXCEPT ![c] = x]
    BY <1>3 DEF NextStep
  <2>2. n \in Nat /\ n < calls[c].left
    BY <1>0, <1>3 DEF CallState
  <2> HIDE DEF n
  <2>3. Rank(x) < Rank(calls[c])
    BY <1>0, <1>3, <2>2, GoOnRunsDown
  <2> QED BY <2>1, <2>3
<1>4. CASE Goto(c, "depth") /\ calls[c].pc = "step"
  <2> DEFINE x == [calls[c] EXCEPT !.pc = "depth"]
  <2>1. calls' = [calls EXCEPT ![c] = x]
    BY <1>4 DEF Goto
  <2>2. x.pc = "depth" /\ x.left = calls[c].left /\ calls[c].left \in Nat
    BY <1>0 DEF CallState
  <2> HIDE DEF x, ExpansionRank
  <2>3. Rank(x) < Rank(calls[c])
    BY <1>0, <1>4, <2>2 DEF Rank
  <2> QED BY <2>1, <2>3
<1>5. CASE Expand(c)
  <2>1. PICK d \in Decompositions :
          /\ lastRef + Len(d) <= MaxRefs
          /\ calls' = [calls EXCEPT ![c].pc = "storeRefs",
                           ![c].unstored = SubFlows(c, d), ![c].unsent = SubFlows(c, d)]
    BY <1>5 DEF Expand
  <2> DEFINE s == SubFlows(c, d)
             x == [calls[c] EXCEPT !.pc = "storeRefs", !.unstored = s, !.unsent = s]
  <2>2. Len(d) \in Nat /\ lastRef \in Nat /\ MaxRefs \in Nat
    BY <1>0, DecompositionsAssumption, BoundsAssumption DEF IInv, TypeOK
  <2>3. Len(s) = Len(d)
    BY <2>2 DEF SubFlows
  <2>4. calls' = [calls EXCEPT ![c] = x]
    BY <2>1
  <2> HIDE DEF s
  <2>5. x.pc = "storeRefs" /\ x.unstored = s /\ x.unsent = s
    BY <1>0 DEF CallState
  <2> HIDE DEF x
  <2>6. Rank(x) = 3 + Len(d) + Len(d)
    BY <2>3, <2>5 DEF Rank
  <2>7. calls[c].pc = "depth" /\ calls[c].left \in Nat /\ calls[c].left > 0
    BY <1>0, <1>5 DEF Expand, At, CallOK, CallState
  <2>8. Rank(calls[c]) = ExpansionRank + 2 * calls[c].left
    BY <2>7 DEF Rank
  <2>9. Rank(x) < Rank(calls[c])
    BY <2>1, <2>2, <2>6, <2>7, <2>8 DEF ExpansionRank
  <2> QED BY <2>4, <2>9
<1>6. CASE StoreRef(c)
  <2> DEFINE rest == Tail(calls[c].unstored)
             x == [calls[c] EXCEPT !.unstored = rest, !.pc = AfterEach(rest, "storeRefs", "emit")]
  <2>1. calls' = [calls EXCEPT ![c] = x] /\ calls[c].pc = "storeRefs"
    BY <1>6 DEF StoreRef, At
  <2>2. /\ calls[c].unstored \in Seq(GoodMsgs) /\ calls[c].unstored # <<>>
        /\ Len(calls[c].unsent) \in Nat
    BY <1>0, <2>1 DEF CallOK
  <2>3. /\ Len(calls[c].unstored) \in Nat /\ Len(rest) \in Nat
        /\ Len(rest) < Len(calls[c].unstored)
    BY <2>2
  <2> HIDE DEF rest
  <2>4. /\ x.unstored = rest /\ x.unsent = calls[c].unsent
        /\ x.pc \in {"storeRefs", "emit"}
    BY <1>0 DEF CallState, AfterEach
  <2> HIDE DEF x
  <2>5. \/ Rank(x) = 3 + Len(calls[c].unsent) + Len(rest)
        \/ Rank(x) = 3 + Len(calls[c].unsent)
    BY <2>4, RankAt, Zenon
  <2>6. Rank(calls[c]) = 3 + Len(calls[c].unsent) + Len(calls[c].unstored)
    BY <2>1, RankAt, Zenon
  <2> DEFINE sent == Len(calls[c].unsent)
             stored == Len(calls[c].unstored)
             left == Len(rest)
  <2> HIDE DEF sent, stored, left
  <2>7. sent \in Nat /\ stored \in Nat /\ left \in Nat /\ left < stored
    BY <2>2, <2>3 DEF sent, stored, left
  <2>8. 3 + sent + left < 3 + sent + stored /\ 3 + sent < 3 + sent + stored
    BY <2>7
  <2>9. Rank(x) < Rank(calls[c])
    BY <2>5, <2>6, <2>8 DEF sent, stored, left
  <2> QED BY <2>1, <2>9
<1>7. CASE Emit(c)
  <2> DEFINE rest == Tail(calls[c].unsent)
             x == [calls[c] EXCEPT !.unsent = rest, !.pc = AfterEach(rest, "emit", "suspend")]
  <2>1. calls' = [calls EXCEPT ![c] = x] /\ calls[c].pc = "emit"
    BY <1>7 DEF Emit, At
  <2>2. calls[c].unsent \in Seq(GoodMsgs) /\ calls[c].unsent # <<>>
    BY <1>0, <2>1 DEF CallOK
  <2>3. /\ Len(calls[c].unsent) \in Nat /\ Len(rest) \in Nat
        /\ Len(rest) < Len(calls[c].unsent)
    BY <2>2
  <2> HIDE DEF rest
  <2>4. x.unsent = rest /\ x.pc \in {"emit", "suspend"}
    BY <1>0 DEF CallState, AfterEach
  <2> HIDE DEF x
  <2>5. Rank(x) = 3 + Len(rest) \/ Rank(x) = 3
    BY <2>4, RankAt, Zenon
  <2>6. Rank(calls[c]) = 3 + Len(calls[c].unsent)
    BY <2>1, RankAt, Zenon
  <2>7. Rank(x) < Rank(calls[c])
    BY <2>3, <2>5, <2>6
  <2> QED BY <2>1, <2>7
<1>8. CASE StoreResult(c)
  <2> DEFINE x == [calls[c] EXCEPT !.pc = "emitCompleted"]
  <2>1. calls' = [calls EXCEPT ![c] = x] /\ calls[c].pc = "storeResult"
    BY <1>8 DEF StoreResult, At, Goto
  <2>2. x.pc = "emitCompleted"
    BY <1>0 DEF CallState
  <2> HIDE DEF x
  <2>3. Rank(x) < Rank(calls[c])
    BY <2>1, <2>2 DEF Rank
  <2> QED BY <2>1, <2>3
<1>9. CASE EmitCompleted(c)
  <2>1. calls' = [calls EXCEPT ![c] = Idle] /\ calls[c].pc = "emitCompleted"
    BY <1>9 DEF EmitCompleted, At
  <2>2. Rank(Idle) < Rank(calls[c])
    BY <2>1 DEF Rank, Idle
  <2> QED BY <2>1, <2>2
<1>13. CASE Throw(c)
  <2>1. calls' = [calls EXCEPT ![c] = Idle] /\ calls[c].pc \in {"step", "depth", "storeRefs"}
    BY <1>13 DEF Throw, At
  <2>2. calls[c].left \in Nat /\ Len(calls[c].unsent) \in Nat /\ Len(calls[c].unstored) \in Nat
    BY <1>0 DEF CallState
  <2> DEFINE sent == Len(calls[c].unsent)
             stored == Len(calls[c].unstored)
  <2>3. \/ Rank(calls[c]) = ExpansionRank + 2 * calls[c].left + 1
        \/ Rank(calls[c]) = ExpansionRank + 2 * calls[c].left
        \/ Rank(calls[c]) = 3 + sent + stored
    BY <2>1, RankAt, Zenon
  <2> HIDE DEF sent, stored, ExpansionRank
  <2>4. sent \in Nat /\ stored \in Nat
    BY <2>2 DEF sent, stored
  <2>5. Rank(Idle) = 0
    BY DEF Rank, Idle
  <2>6. 0 < Rank(calls[c])
    BY <1>0, <2>2, <2>3, <2>4
  <2> QED BY <2>1, <2>5, <2>6
<1>10. CASE PlanRejected(c) \/ PlanAccepted(c)
  BY <1>1, <1>2, <1>10 DEF PlanRejected, PlanAccepted, Returns, GateHalts, At
<1>11. CASE StepInsufficient(c) \/ StepRejected(c) \/ StepAccepted(c) \/ Complete(c)
  BY <1>1, <1>3, <1>4, <1>11 DEF StepInsufficient, StepRejected, StepAccepted, Complete, HasStep,
     GateHalts, Returns, At
<1>12. CASE Leaf(c) \/ Suspend(c)
  BY <1>0, <1>1, <1>3, <1>12 DEF Leaf, Suspend, AfterSuspend, At, CallOK
<1> QED BY <1>5, <1>6, <1>7, <1>8, <1>9, <1>10, <1>11, <1>12, <1>13
        DEF CallStep, Cycle1, Cycle2, Cycle3, Handler

LEMMA RunDownStep ==
  ASSUME AttendedInv, [Next]_vars
  PROVE  [CallsRunDownStep]_vars
<1>0. OwnInv
  BY DEF AttendedInv
<1>1. ASSUME NEW c \in Calls, NEW x, calls' = [calls EXCEPT ![c] = x],
             At(c, "idle") \/ Rank(x) < Rank(calls[c])
      PROVE  CallsRunDownStep
  <2>1. calls'[c] = x /\ \A d \in Calls : d # c => calls'[d] = calls[d]
    BY <1>0, <1>1, Others DEF OwnInv
  <2>2. CallRank(c)' = Rank(x)
    BY <2>1 DEF CallRank, Rank
  <2> QED BY <1>1, <2>1, <2>2 DEF CallsRunDownStep, CallRank
<1>2. ASSUME NEW r \in Roots, StartTopLevel(r)
      PROVE  CallsRunDownStep
  <2>1. At(r, "idle") /\ r \in Calls
    BY <1>2 DEF StartTopLevel, AttendedInv, RootsStarted, Calls
  <2>2. calls' = [calls EXCEPT ![r] = [Idle EXCEPT !.pc = "plan", !.run = <<r>>, !.depth = 1]]
    BY <1>2 DEF StartTopLevel, BeginRun
  <2> QED BY <1>1, <2>1, <2>2
<1>3. ASSUME NEW msg \in expandQueue, Deliver(msg)
      PROVE  CallsRunDownStep
  <2>1. At(msg.id, "idle") /\ msg.id \in Calls
    BY <1>0, GoodFields DEF OwnInv, IInv, Owned, QueuedOK, Calls, At
  <2>2. calls' = [calls EXCEPT ![msg.id] = [Idle EXCEPT !.pc = "plan", !.run = msg.run, !.depth = msg.depth]]
    BY <1>3 DEF Deliver, BeginRun
  <2> QED BY <1>1, <2>1, <2>2
<1>4. ASSUME NEW c \in Calls, CallStep(c)
      PROVE  CallsRunDownStep
  BY <1>0, <1>1, <1>4, CallStepRunsDown
<1>5. ASSUME UNCHANGED calls
      PROVE  CallsRunDownStep
  BY <1>5 DEF CallsRunDownStep
<1> QED BY <1>2, <1>3, <1>4, <1>5 DEF Next, DeliverNameless, Resume

(* Every step of a call of run that was begun lowers what it has left to   *)
(* do, a natural number, and no step of another call, of the queue or of a *)
(* caller touches it: neither new expansions nor failures of the database, *)
(* the queue or the gate keep it from its end.                             *)
THEOREM CallsRunDown ==
  Spec => [](\A c \in Calls : CallRank(c) \in Nat) /\ [][CallsRunDownStep]_vars
<1>1. Init => AttendedInv
  BY AttendedInit
<1>2. AttendedInv /\ [Next]_vars => AttendedInv'
  BY AttendedStep
<1>3. AttendedInv => \A c \in Calls : CallRank(c) \in Nat
  BY CallFacts, RankIsNat DEF AttendedInv, OwnInv, CallRank
<1>4. AttendedInv /\ [Next]_vars => [CallsRunDownStep]_vars
  BY RunDownStep
<1> QED BY <1>1, <1>2, <1>3, <1>4, PTL DEF Spec

-----------------------------------------------------------------------------
(* One run id, one sub-flow.  A ref claims a run id from the moment it is  *)
(* listed; a run id is open while a call for it may still expand, now or    *)
(* later.  A run expands once, after which it is not open again.  A depth   *)
(* in a run id follows the id of the run that expanded there, so what       *)
(* claims a run id has no open prefix before one of its depths.             *)
Has(m, s) == \E i \in 1..Len(s) : s[i] = m

Awaits(m) ==
  m \in expandQueue \/ \E c \in Calls : Has(m, calls[c].unstored) \/ Has(m, calls[c].unsent)

AwaitsAs(a, run) == \E m \in GoodMsgs : Awaits(m) /\ m.id = a /\ m.run = run

Before == {"plan", "step", "depth"}

Claim(a, run) ==
  \/ AwaitsAs(a, run)
  \/ calls[a].pc # "idle" /\ Run(a) = run
  \/ a \in RefIds /\ refs[a] # None /\ refs[a].run = run

Open(a, run) ==
  \/ AwaitsAs(a, run)
  \/ calls[a].pc \in Before /\ Run(a) = run
  \/ a \in Roots \ started /\ run = <<a>>

RootsOK == \A c \in Roots : calls[c].pc # "idle" => Run(c) = <<c>> /\ c \in started

RefsOK == \A a \in RefIds, run \in Runs : Claim(a, run) => Len(run) # 1

OneClaim == \A a, b \in Calls, run \in Runs : Claim(a, run) /\ Claim(b, run) => a = b

PrefixesClosed ==
  \A a, b \in Calls, run \in Runs : Claim(a, run) =>
    \A k \in 1..(Len(run) - 1) : run[k + 1] \in Nat => ~ Open(b, SubSeq(run, 1, k))

ClaimInv == RootsOK /\ RefsOK /\ OneClaim /\ PrefixesClosed

(* Claims that only shrink keep everything that is said of them. *)
LEMMA ClaimsShrink ==
  ASSUME ClaimInv, RootsOK',
         \A a \in Calls, run \in Runs : Claim(a, run)' => Claim(a, run),
         \A a \in Calls : \A run : Open(a, run)' => Open(a, run)
  PROVE  ClaimInv'
<1>1. RefIds \subseteq Calls
  BY DEF Calls
<1>2. RefsOK'
  BY <1>1 DEF ClaimInv, RefsOK
<1>3. OneClaim'
  BY DEF ClaimInv, OneClaim
<1>4. PrefixesClosed'
  BY DEF ClaimInv, PrefixesClosed
<1> QED BY <1>2, <1>3, <1>4 DEF ClaimInv

(* A move of call c to x that claims and opens nothing new.                *)
Moved(c, x) ==
  /\ calls' = [calls EXCEPT ![c] = x]
  /\ \A m \in GoodMsgs :
       m \in expandQueue' \/ Has(m, x.unstored) \/ Has(m, x.unsent) => Awaits(m)
  /\ x.pc # "idle" => Claim(c, x.run) /\ (c \in Roots => calls[c].pc # "idle" /\ x.run = Run(c))
  /\ x.pc \in Before => Open(c, x.run)
  /\ \A a \in RefIds : refs'[a] # None => Claim(a, refs'[a].run)
  /\ started' = started

LEMMA MovedShrinks ==
  ASSUME OwnInv, ClaimInv, NEW c \in Calls, NEW x, Moved(c, x)
  PROVE  ClaimInv'
<1>1. calls'[c] = x /\ \A d \in Calls : d # c => calls'[d] = calls[d]
  BY Others DEF OwnInv, Moved
<1>2. ASSUME NEW m \in GoodMsgs, Awaits(m)'
      PROVE  Awaits(m)
  <2>1. CASE m \in expandQueue'
    BY <2>1 DEF Moved
  <2>2. ASSUME NEW d \in Calls, Has(m, calls'[d].unstored) \/ Has(m, calls'[d].unsent)
        PROVE  Awaits(m)
    <3>1. CASE d = c
      BY <1>1, <2>2, <3>1 DEF Moved
    <3>2. CASE d # c
      BY <1>1, <2>2, <3>2 DEF Awaits
    <3> QED BY <3>1, <3>2
  <2> QED BY <1>2, <2>1, <2>2 DEF Awaits, Has
<1>3. ASSUME NEW a, NEW run, AwaitsAs(a, run)'
      PROVE  AwaitsAs(a, run)
  BY <1>2, <1>3 DEF AwaitsAs, GoodMsgs, Message
<1>4. ASSUME NEW a \in Calls, NEW run \in Runs, Claim(a, run)'
      PROVE  Claim(a, run)
  <2>1. CASE AwaitsAs(a, run)'
    BY <1>3, <2>1 DEF Claim
  <2>2. CASE calls'[a].pc # "idle" /\ calls'[a].run = run
    <3>1. CASE a = c
      BY <1>1, <2>2, <3>1 DEF Moved
    <3>2. CASE a # c
      BY <1>1, <2>2, <3>2 DEF Claim, Run
    <3> QED BY <3>1, <3>2
  <2>3. CASE a \in RefIds /\ refs'[a] # None /\ refs'[a].run = run
    BY <2>3 DEF Moved
  <2> QED BY <1>4, <2>1, <2>2, <2>3 DEF Claim, Run
<1>5. ASSUME NEW a \in Calls, NEW run, Open(a, run)'
      PROVE  Open(a, run)
  <2>1. CASE AwaitsAs(a, run)'
    BY <1>3, <2>1 DEF Open
  <2>2. CASE calls'[a].pc \in Before /\ calls'[a].run = run
    <3>1. CASE a = c
      BY <1>1, <2>2, <3>1 DEF Moved
    <3>2. CASE a # c
      BY <1>1, <2>2, <3>2 DEF Open, Run
    <3> QED BY <3>1, <3>2
  <2>3. CASE a \in Roots \ started' /\ run = <<a>>
    BY <2>3 DEF Moved, Open
  <2> QED BY <1>5, <2>1, <2>2, <2>3 DEF Open, Run, Before
<1>6. RootsOK'
  <2> SUFFICES ASSUME NEW d \in Roots, calls'[d].pc # "idle"
               PROVE  calls'[d].run = <<d>> /\ d \in started'
    BY DEF RootsOK, Run
  <2>1. d \in Calls
    BY DEF Calls
  <2>2. calls[d].pc # "idle" /\ calls'[d].run = Run(d)
    <3>1. CASE d = c
      BY <1>1, <3>1 DEF Moved
    <3>2. CASE d # c
      BY <1>1, <2>1, <3>2 DEF Run
    <3> QED BY <3>1, <3>2
  <2> QED BY <2>2 DEF ClaimInv, RootsOK, Moved
<1> QED BY <1>4, <1>5, <1>6, ClaimsShrink

LEMMA AwaitClaims ==
  ASSUME NEW m \in GoodMsgs, Awaits(m)
  PROVE  Claim(m.id, m.run) /\ Open(m.id, m.run)
BY DEF AwaitsAs, Claim, Open

LEMMA HasHead ==
  ASSUME NEW s \in Seq(GoodMsgs), s # <<>>
  PROVE  Has(Head(s), s) /\ \A m : Has(m, Tail(s)) => Has(m, s)
<1>1. /\ Len(s) \in Nat /\ Len(s) >= 1 /\ Head(s) = s[1] /\ Len(Tail(s)) = Len(s) - 1
      /\ \A i \in 1..Len(Tail(s)) : Tail(s)[i] = s[i + 1]
  OBVIOUS
<1>2. Has(Head(s), s)
  BY <1>1 DEF Has
<1>3. ASSUME NEW m, Has(m, Tail(s))
      PROVE  Has(m, s)
  <2>1. PICK i \in 1..Len(Tail(s)) : Tail(s)[i] = m
    BY <1>3 DEF Has
  <2>2. i + 1 \in 1..Len(s) /\ s[i + 1] = m
    BY <1>1, <2>1
  <2> QED BY <2>2 DEF Has
<1> QED BY <1>2, <1>3

(* The run of a stored document, and the others. *)
LEMMA StoredRun ==
  ASSUME IInv, NEW id \in RefIds, NEW run, NEW status,
         refs' = [refs EXCEPT ![id] = [run |-> run, status |-> status]]
  PROVE  refs'[id].run = run /\ \A j \in RefIds : j # id => refs'[j] = refs[j]
BY DEF IInv, TypeOK

LEMMA DocsClaim ==
  ASSUME NEW a \in RefIds, refs[a] # None
  PROVE  Claim(a, refs[a].run)
BY DEF Claim

LEMMA StoredClaims ==
  ASSUME OwnInv, NEW id \in RefIds, NEW run, NEW status, Claim(id, run),
         refs' = [refs EXCEPT ![id] = [run |-> run, status |-> status]] \/ UNCHANGED refs
  PROVE  \A a \in RefIds : refs'[a] # None => Claim(a, refs'[a].run)
<1> TAKE a \in RefIds
<1> HAVE refs'[a] # None
<1>1. CASE UNCHANGED refs
  BY <1>1, DocsClaim
<1>2. CASE refs' = [refs EXCEPT ![id] = [run |-> run, status |-> status]]
  <2>1. refs'[id].run = run /\ (a # id => refs'[a] = refs[a])
    BY <1>2, StoredRun DEF OwnInv
  <2>2. CASE a = id
    BY <2>1, <2>2
  <2>3. CASE a # id
    BY <2>1, <2>3, DocsClaim
  <2> QED BY <2>2, <2>3
<1> QED BY <1>1, <1>2

LEMMA ActiveClaims ==
  ASSUME NEW a \in Calls, calls[a].pc # "idle"
  PROVE  /\ Claim(a, Run(a))
         /\ calls[a].pc \in Before => Open(a, Run(a))
BY DEF Claim, Open

(* Where a quiet step takes its call: no other run, and no run reopened.   *)
LEMMA QuietRun ==
  ASSUME OwnInv, NEW c \in Calls, QuietStep(c)
  PROVE  /\ calls[c].pc # "idle" /\ started' = started
         /\ calls'[c].pc # "idle" => calls'[c].run = calls[c].run
         /\ calls'[c].pc \in Before => calls[c].pc \in Before
<1>1. calls[c].pc \in Before \cup {"suspend"}
      /\ (calls[c].pc = "suspend" => Suspend(c)) /\ started' = started
  BY DEF QuietStep, Cycle1, Cycle2, PlanRejected, PlanAccepted, StepInsufficient, StepRejected,
     StepAccepted, Complete, Leaf, Suspend, At, HasStep, Before
<1>2. calls \in [Calls -> CallState] /\ calls[c] \in CallState
  BY CallFacts DEF OwnInv
<1>3. Idle.pc = "idle"
  BY DEF Idle
<1>4. ASSUME NEW outcome, calls' = [calls EXCEPT ![c] = Returned(c, outcome)]
      PROVE  /\ calls'[c].pc # "idle" => calls'[c].run = calls[c].run
             /\ calls'[c].pc \notin Before
  <2>1. calls'[c] = Returned(c, outcome)
    BY <1>2, <1>4
  <2> QED BY <1>2, <1>3, <2>1 DEF Returned, CallState, Before
<1>5. CASE Suspend(c)
  <2>1. calls' = [calls EXCEPT ![c] = Returned(c, "SUSPENDED")]
    BY <1>5 DEF Suspend, AfterSuspend
  <2> QED BY <1>1, <1>4, <2>1 DEF Before
<1>6. CASE ~ Suspend(c)
  <2>1. \/ \E outcome : calls' = [calls EXCEPT ![c] = Returned(c, outcome)]
        \/ \E n : calls' = [calls EXCEPT ![c].pc = "step", ![c].left = n]
        \/ NextStep(c)
        \/ Goto(c, "depth")
    BY <1>6 DEF QuietStep, Cycle1, Cycle2, PlanRejected, PlanAccepted, StepInsufficient,
       StepRejected, StepAccepted, Complete, Leaf, GateHalts, Returns
  <2>2. CASE \E outcome : calls' = [calls EXCEPT ![c] = Returned(c, outcome)]
    BY <1>1, <1>4, <2>2 DEF Before
  <2>3. CASE ~ \E outcome : calls' = [calls EXCEPT ![c] = Returned(c, outcome)]
    <3>1. calls'[c].run = calls[c].run
      BY <1>2, <2>1, <2>3 DEF NextStep, Goto, CallState
    <3> QED BY <1>1, <1>6, <3>1 DEF Before
  <2> QED BY <2>2, <2>3
<1> QED BY <1>1, <1>5, <1>6 DEF Before

LEMMA QuietMoved ==
  ASSUME OwnInv, ClaimInv, NEW c \in Calls, QuietStep(c)
  PROVE  ClaimInv'
<1>1. PICK x : Quiet(c, x) /\ calls' = [calls EXCEPT ![c] = x]
  BY QuietStepMoves
<1>2. UNCHANGED <<expandQueue, refs>> /\ calls'[c] = x
  BY <1>1, QuietStepMoves, Others DEF OwnInv
<1>3. /\ calls[c].pc # "idle" /\ started' = started
      /\ x.pc # "idle" => x.run = Run(c)
      /\ x.pc \in Before => calls[c].pc \in Before /\ x.run = Run(c)
  BY <1>2, QuietRun DEF Run, Before
<1>4. \A m : ~ Has(m, x.unstored) /\ ~ Has(m, x.unsent)
  BY <1>1 DEF Quiet, Has
<1>5. Moved(c, x)
  BY <1>1, <1>2, <1>3, <1>4, ActiveClaims, DocsClaim DEF Moved, Awaits
<1> QED BY <1>5, MovedShrinks

LEMMA StoreMoved ==
  ASSUME OwnInv, ClaimInv, NEW c \in Calls, StoreRef(c)
  PROVE  ClaimInv'
<1> DEFINE ref == Head(calls[c].unstored)
           rest == Tail(calls[c].unstored)
           x == [calls[c] EXCEPT !.unstored = rest, !.pc = AfterEach(rest, "storeRefs", "emit")]
<1>1. /\ calls[c].pc = "storeRefs" /\ calls' = [calls EXCEPT ![c] = x]
      /\ \/ refs' = [refs EXCEPT ![ref.id] = [run |-> ref.run, status |-> "PENDING"]]
         \/ UNCHANGED refs
      /\ UNCHANGED <<started, expandQueue>>
  BY DEF StoreRef, At
<1>2. /\ ref \in GoodMsgs /\ ref.id \in RefIds
      /\ Has(ref, calls[c].unstored) /\ \A m : Has(m, rest) => Has(m, calls[c].unstored)
  BY <1>1, CallFacts, TakenOff, GoodFields, HasHead DEF OwnInv, CallOK
<1> HIDE DEF ref, rest
<1>3. /\ x.unstored = rest /\ x.unsent = calls[c].unsent /\ x.run = Run(c)
      /\ x.pc \in {"storeRefs", "emit"}
  BY CallFacts DEF OwnInv, CallState, AfterEach, Run
<1> HIDE DEF x
<1>4. Claim(ref.id, ref.run)
  BY <1>2, AwaitClaims DEF Awaits
<1>5. \A a \in RefIds : refs'[a] # None => Claim(a, refs'[a].run)
  BY <1>1, <1>2, <1>4, StoredClaims
<1>6. \A m : m \in expandQueue' \/ Has(m, x.unstored) \/ Has(m, x.unsent) => Awaits(m)
  BY <1>1, <1>2, <1>3 DEF Awaits
<1>7. Moved(c, x)
  BY <1>1, <1>3, <1>5, <1>6, ActiveClaims DEF Moved, Before
<1> QED BY <1>7, MovedShrinks

LEMMA EmitMoved ==
  ASSUME OwnInv, ClaimInv, NEW c \in Calls, Emit(c)
  PROVE  ClaimInv'
<1> DEFINE sent == Head(calls[c].unsent)
           rest == Tail(calls[c].unsent)
           x == [calls[c] EXCEPT !.unsent = rest, !.pc = AfterEach(rest, "emit", "suspend")]
<1>1. /\ calls[c].pc = "emit" /\ calls' = [calls EXCEPT ![c] = x]
      /\ expandQueue' \subseteq expandQueue \cup {sent}
      /\ UNCHANGED <<started, refs>>
  BY DEF Emit, At
<1>2. Has(sent, calls[c].unsent) /\ \A m : Has(m, rest) => Has(m, calls[c].unsent)
  BY <1>1, CallFacts, HasHead DEF OwnInv, CallOK
<1> HIDE DEF sent, rest
<1>3. /\ x.unstored = calls[c].unstored /\ x.unsent = rest /\ x.run = Run(c)
      /\ x.pc \in {"emit", "suspend"}
  BY CallFacts DEF OwnInv, CallState, AfterEach, Run
<1> HIDE DEF x
<1>4. \A m : m \in expandQueue' \/ Has(m, x.unstored) \/ Has(m, x.unsent) => Awaits(m)
  BY <1>1, <1>2, <1>3 DEF Awaits
<1>5. Moved(c, x)
  BY <1>1, <1>3, <1>4, ActiveClaims, DocsClaim DEF Moved, Before
<1> QED BY <1>5, MovedShrinks

LEMMA DeliverMoved ==
  ASSUME OwnInv, ClaimInv, NEW msg \in expandQueue, Deliver(msg)
  PROVE  ClaimInv'
<1> DEFINE c == msg.id
           x == [Idle EXCEPT !.pc = "plan", !.run = msg.run, !.depth = msg.depth]
<1>1. /\ calls' = [calls EXCEPT ![c] = x]
      /\ expandQueue' = expandQueue \ {msg}
      /\ \/ refs' = [refs EXCEPT ![c] = [run |-> msg.run, status |-> "RUNNING"]]
         \/ UNCHANGED refs
      /\ UNCHANGED started
  BY DEF Deliver, BeginRun
<1>2. /\ x.pc = "plan" /\ x.run = msg.run /\ x.unstored = <<>> /\ x.unsent = <<>>
  BY DEF Idle
<1> HIDE DEF x
<1>3. msg \in GoodMsgs /\ c \in RefIds /\ c \in Calls /\ c \notin Roots
  BY GoodFields, NamesAssumption DEF OwnInv, IInv, Calls
<1>4. Claim(c, msg.run) /\ Open(c, msg.run)
  BY <1>3, AwaitClaims DEF Awaits
<1>5. \A a \in RefIds : refs'[a] # None => Claim(a, refs'[a].run)
  BY <1>1, <1>3, <1>4, StoredClaims
<1>6. \A m : m \in expandQueue' \/ Has(m, x.unstored) \/ Has(m, x.unsent) => Awaits(m)
  BY <1>1, <1>2 DEF Awaits, Has
<1>7. Moved(c, x)
  BY <1>1, <1>2, <1>3, <1>4, <1>5, <1>6 DEF Moved
<1> QED BY <1>3, <1>7, MovedShrinks

LEMMA HandlerMoved ==
  ASSUME OwnInv, ClaimInv, NEW c \in Calls, Handler(c)
  PROVE  ClaimInv'
<1>0. calls[c].unstored = <<>> /\ calls[c].unsent = <<>>
      /\ calls[c].pc \in {"storeResult", "emitCompleted"} /\ c \in RefIds
  BY CallFacts DEF Handler, StoreResult, EmitCompleted, At, OwnInv, Owned, ListsOK, CallOK
<1>1. CASE StoreResult(c)
  <2> DEFINE x == [calls[c] EXCEPT !.pc = "emitCompleted"]
  <2>1. /\ calls' = [calls EXCEPT ![c] = x] /\ UNCHANGED <<started, expandQueue>>
        /\ \/ refs' = [refs EXCEPT ![c] = [run |-> Run(c), status |-> RefStatus(calls[c].outcome)]]
           \/ UNCHANGED refs
    BY <1>1 DEF StoreResult, Goto
  <2>2. x.pc = "emitCompleted" /\ x.run = Run(c) /\ x.unstored = <<>> /\ x.unsent = <<>>
    BY <1>0, CallFacts DEF OwnInv, CallState, Run
  <2> HIDE DEF x
  <2>3. \A a \in RefIds : refs'[a] # None => Claim(a, refs'[a].run)
    <3>1. Claim(c, Run(c))
      BY <1>0, ActiveClaims
    <3> QED BY <1>0, <2>1, <3>1, StoredClaims
  <2>4. Moved(c, x)
    BY <1>0, <2>1, <2>2, <2>3, ActiveClaims DEF Moved, Before, Awaits, Has
  <2> QED BY <2>4, MovedShrinks
<1>2. CASE EmitCompleted(c)
  <2>1. calls' = [calls EXCEPT ![c] = Idle] /\ UNCHANGED <<started, expandQueue, refs>>
    BY <1>2 DEF EmitCompleted
  <2>2. Idle.pc = "idle" /\ Idle.unstored = <<>> /\ Idle.unsent = <<>>
    BY DEF Idle
  <2>3. Moved(c, Idle)
    BY <2>1, <2>2, DocsClaim DEF Moved, Before, Awaits, Has
  <2> QED BY <2>3, MovedShrinks
<1> QED BY <1>1, <1>2 DEF Handler

LEMMA StartClaims ==
  ASSUME OwnInv, ClaimInv, NEW r \in Roots, StartTopLevel(r)
  PROVE  ClaimInv'
<1> DEFINE x == [Idle EXCEPT !.pc = "plan", !.run = <<r>>, !.depth = 1]
<1>1. /\ calls' = [calls EXCEPT ![r] = x] /\ r \in Calls /\ r \notin RefIds
      /\ r \notin started /\ started' = started \cup {r}
      /\ UNCHANGED <<expandQueue, refs>>
  BY NamesAssumption DEF StartTopLevel, BeginRun, storeVars, Calls
<1>2. /\ x.pc = "plan" /\ x.run = <<r>> /\ x.unstored = <<>> /\ x.unsent = <<>>
  BY DEF Idle
<1> HIDE DEF x
<1>3. calls'[r] = x /\ \A d \in Calls : d # r => calls'[d] = calls[d]
  BY <1>1, Others DEF OwnInv
<1>4. ASSUME NEW m, Awaits(m)'
      PROVE  Awaits(m)
  BY <1>1, <1>2, <1>3, <1>4 DEF Awaits, Has
<1>5. ASSUME NEW a, NEW run, AwaitsAs(a, run)'
      PROVE  AwaitsAs(a, run)
  BY <1>4, <1>5 DEF AwaitsAs, GoodMsgs, Message
<1>6. ASSUME NEW a \in Calls, NEW run, Claim(a, run)'
      PROVE  Claim(a, run) \/ (a = r /\ run = <<r>>)
  <2>1. CASE calls'[a].pc # "idle" /\ calls'[a].run = run
    <3>1. CASE a = r
      BY <1>2, <1>3, <2>1, <3>1
    <3>2. CASE a # r
      BY <1>3, <2>1, <3>2 DEF Claim, Run
    <3> QED BY <3>1, <3>2
  <2>2. CASE AwaitsAs(a, run)' \/ (a \in RefIds /\ refs'[a] # None /\ refs'[a].run = run)
    BY <1>1, <1>5, <2>2 DEF Claim
  <2> QED BY <1>6, <2>1, <2>2 DEF Claim, Run
<1>7. ASSUME NEW a \in Calls, NEW run, Open(a, run)'
      PROVE  Open(a, run)
  <2>1. CASE calls'[a].pc \in Before /\ calls'[a].run = run
    BY <1>1, <1>2, <1>3, <2>1 DEF Open, Run
  <2>2. CASE AwaitsAs(a, run)' \/ (a \in Roots \ started' /\ run = <<a>>)
    BY <1>1, <1>5, <2>2 DEF Open
  <2> QED BY <1>7, <2>1, <2>2 DEF Open, Run, Before
<1>8. RefIds \subseteq Calls /\ \A b \in Calls : b \in Roots \/ b \in RefIds
  BY DEF Calls
<1>9. RootsOK'
  BY <1>1, <1>2, <1>3 DEF ClaimInv, RootsOK, Run, Calls
<1>10. RefsOK'
  BY <1>1, <1>6, <1>8 DEF ClaimInv, RefsOK
<1>11. Len(<<r>>) = 1
  OBVIOUS
<1>12. ASSUME NEW b \in Calls, <<r>> \in Runs, Claim(b, <<r>>)
       PROVE  b = r
  <2>1. b \in Roots
    BY <1>8, <1>11, <1>12 DEF ClaimInv, RefsOK
  <2>2. b \notin RefIds
    BY <2>1, NamesAssumption
  <2>3. ~ AwaitsAs(b, <<r>>)
    BY <2>2, GoodFields DEF AwaitsAs
  <2>4. <<r>> = <<b>>
    BY <1>12, <2>1, <2>2, <2>3 DEF Claim, ClaimInv, RootsOK
  <2> QED BY <2>4
<1>13. OneClaim'
  BY <1>6, <1>12 DEF ClaimInv, OneClaim
<1>14. PrefixesClosed'
  <2> SUFFICES ASSUME NEW a \in Calls, NEW b \in Calls, NEW run \in Runs, Claim(a, run)',
                      NEW k \in 1..(Len(run) - 1), run[k + 1] \in Nat, Open(b, SubSeq(run, 1, k))'
               PROVE  FALSE
    BY DEF PrefixesClosed
  <2>1. CASE Claim(a, run)
    BY <1>7, <2>1 DEF ClaimInv, PrefixesClosed
  <2>2. CASE run = <<r>>
    BY <1>11, <2>2
  <2> QED BY <1>6, <2>1, <2>2
<1> QED BY <1>9, <1>10, <1>13, <1>14 DEF ClaimInv

-----------------------------------------------------------------------------
(* A depth in a child's run id follows its parent's or one of the parent's  *)
(* own prefixes, as no piece of the child's name looks like one.            *)
LEMMA ChildPrefix ==
  ASSUME PlainNames, NEW p \in Runs, NEW e \in Nat, NEW n \in Names,
         NEW k \in 1..(Len(ChildRun(p, e, n)) - 1), ChildRun(p, e, n)[k + 1] \in Nat
  PROVE  /\ k \in 1..Len(p) /\ SubSeq(ChildRun(p, e, n), 1, k) = SubSeq(p, 1, k)
         /\ SubSeq(p, 1, Len(p)) = p
         /\ k # Len(p) => p[k + 1] \in Nat
<1> DEFINE s == Slug[n]
           child == ChildRun(p, e, n)
           P == Roots \cup Pieces \cup Nat
<1>1. /\ Len(s) \in Nat /\ child \in Seq(P) /\ Len(child) = Len(p) + 1 + Len(s)
      /\ \A i \in 1..Len(p) : child[i] = p[i]
      /\ \A i \in 1..Len(s) : child[Len(p) + 1 + i] = s[i]
  <2>1. Len(s) \in Nat /\ child \in Seq(P) /\ Len(child) = Len(p) + 1 + Len(s)
    BY ChildPieces, Zenon
  <2>2. \A i \in 1..Len(p) : child[i] = p[i]
    BY ChildPieces, Zenon
  <2>3. \A i \in 1..Len(s) : child[Len(p) + 1 + i] = s[i]
    BY ChildPieces, Zenon
  <2> QED BY <2>1, <2>2, <2>3
<1>2. p \in Seq(P) /\ Len(p) \in Nat /\ Len(p) >= 1
  BY RootOfRun
<1>3. \A i \in 1..Len(s) : s[i] \notin Nat
  <2>1. s \in Seq(Pieces)
    BY DEF PlainNames
  <2>2. \A i \in 1..Len(s) : s[i] \in Pieces
    BY <2>1
  <2> QED BY <2>2, SlugAssumption
<1>4. k \in 1..(Len(child) - 1) /\ child[k + 1] \in Nat
  OBVIOUS
<1> HIDE DEF s, child, P
<1>5. k \in 1..Len(p)
  <2> SUFFICES ASSUME k > Len(p)
               PROVE  FALSE
    BY <1>1, <1>2, <1>4
  <2>1. k - Len(p) \in 1..Len(s) /\ Len(p) + 1 + (k - Len(p)) = k + 1
    BY <1>1, <1>2, <1>4
  <2>2. child[k + 1] = s[k - Len(p)]
    BY <1>1, <2>1
  <2> QED BY <1>3, <1>4, <2>1, <2>2
<1>6. SubSeq(child, 1, k) = SubSeq(p, 1, k)
  <2> DEFINE q == SubSeq(child, 1, k)
             r == SubSeq(p, 1, k)
  <2>1. q \in Seq(P) /\ Len(q) = k /\ \A i \in 1..k : q[i] = child[i]
    BY <1>1, <1>2, <1>5
  <2>2. r \in Seq(P) /\ Len(r) = k /\ \A i \in 1..k : r[i] = p[i]
    BY <1>2, <1>5
  <2>3. \A i \in 1..k : q[i] = r[i]
    BY <1>1, <1>2, <1>5, <2>1, <2>2
  <2> HIDE DEF q, r
  <2>4. q = r
    BY <2>1, <2>2, <2>3
  <2> QED BY <2>4 DEF q, r
<1>7. SubSeq(p, 1, Len(p)) = p
  BY <1>2
<1>8. ASSUME k # Len(p)
      PROVE  p[k + 1] \in Nat
  <2>1. k + 1 \in 1..Len(p)
    BY <1>2, <1>5, <1>8
  <2> QED BY <1>1, <1>4, <2>1
<1> QED BY <1>5, <1>6, <1>7, <1>8 DEF child

LEMMA PrefixChild ==
  ASSUME NEW run \in Runs, NEW p \in Runs, NEW e \in Nat, NEW n \in Names,
         NEW k \in 1..Len(run), SubSeq(run, 1, k) = ChildRun(p, e, n)
  PROVE  Len(p) \in 1..(Len(run) - 1) /\ SubSeq(run, 1, Len(p)) = p /\ run[Len(p) + 1] \in Nat
<1> DEFINE P == Roots \cup Pieces \cup Nat
           child == ChildRun(p, e, n)
<1>1. /\ Len(Slug[n]) \in Nat /\ Len(child) = Len(p) + 1 + Len(Slug[n])
      /\ \A i \in 1..Len(p) : child[i] = p[i]
      /\ child[Len(p) + 1] = e
  BY ChildPieces
<1>2. /\ p \in Seq(P) /\ Len(p) \in Nat /\ Len(p) >= 1
      /\ run \in Seq(P) /\ Len(run) \in Nat /\ Len(run) >= 1
  BY RootOfRun
<1>3. SubSeq(run, 1, k) = child
  OBVIOUS
<1> HIDE DEF child, P
<1>4. Len(SubSeq(run, 1, k)) = k /\ \A i \in 1..k : SubSeq(run, 1, k)[i] = run[i]
  BY <1>2
<1>5. k = Len(p) + 1 + Len(Slug[n]) /\ \A i \in 1..k : child[i] = run[i]
  BY <1>1, <1>3, <1>4
<1>6. Len(p) \in 1..(Len(run) - 1) /\ Len(p) + 1 \in 1..k /\ \A i \in 1..Len(p) : i \in 1..k
  <2> DEFINE m == Len(Slug[n])
             l == Len(p)
             r == Len(run)
  <2>1. k \in 1..r /\ m \in Nat /\ l \in Nat /\ l >= 1 /\ r \in Nat /\ k = l + 1 + m
    BY <1>1, <1>2, <1>5
  <2> HIDE DEF m, l, r
  <2>2. l \in 1..(r - 1) /\ l + 1 \in 1..k /\ \A i \in 1..l : i \in 1..k
    BY <2>1
  <2> QED BY <2>2 DEF l, r
<1>7. run[Len(p) + 1] = e /\ \A i \in 1..Len(p) : run[i] = p[i]
  BY <1>1, <1>5, <1>6
<1>8. SubSeq(run, 1, Len(p)) = p
  <2> DEFINE q == SubSeq(run, 1, Len(p))
  <2>1. q \in Seq(P) /\ Len(q) = Len(p) /\ \A i \in 1..Len(p) : q[i] = run[i]
    BY <1>2, <1>6
  <2> HIDE DEF q
  <2>2. q = p
    BY <1>2, <1>7, <2>1
  <2> QED BY <2>2 DEF q
<1> QED BY <1>6, <1>7, <1>8

LEMMA ChildTellsPieces ==
  ASSUME NEW p \in Runs, NEW e \in Nat, NEW n \in Names, NEW m \in Names,
         ChildRun(p, e, n) = ChildRun(p, e, m)
  PROVE  Slug[n] = Slug[m]
<1> DEFINE s == Slug[n]
           t == Slug[m]
           child == ChildRun(p, e, n)
<1>1. /\ s \in Seq(Pieces \cup Nat) /\ Len(s) \in Nat /\ Len(child) = Len(p) + 1 + Len(s)
      /\ \A i \in 1..Len(s) : child[Len(p) + 1 + i] = s[i]
  BY ChildPieces
<1>2. /\ t \in Seq(Pieces \cup Nat) /\ Len(t) \in Nat
      /\ Len(ChildRun(p, e, m)) = Len(p) + 1 + Len(t)
      /\ \A i \in 1..Len(t) : ChildRun(p, e, m)[Len(p) + 1 + i] = t[i]
  BY ChildPieces
<1>3. child = ChildRun(p, e, m) /\ Len(p) \in Nat
  BY RootOfRun
<1> HIDE DEF s, t, child
<1>4. Len(s) = Len(t) /\ \A i \in 1..Len(s) : s[i] = t[i]
  BY <1>1, <1>2, <1>3
<1>5. s = t
  BY <1>1, <1>2, <1>4
<1> QED BY <1>5 DEF s, t

(* A sub-flow that runs is no longer listed or waiting. *)
LEMMA ActiveNotAwaited ==
  ASSUME OwnInv, NEW c \in Calls, calls[c].pc # "idle", NEW m \in GoodMsgs, Awaits(m)
  PROVE  m.id # c
<1>1. m.id \in RefIds
  BY GoodFields
<1>2. ASSUME m \in expandQueue
      PROVE  calls[m.id].pc = "idle"
  BY <1>2 DEF OwnInv, Owned, QueuedOK
<1>3. ASSUME NEW d \in Calls, Has(m, calls[d].unstored) \/ Has(m, calls[d].unsent)
      PROVE  calls[m.id].pc = "idle"
  <2>1. In(m.id, calls[d].unstored) \/ In(m.id, calls[d].unsent)
    BY <1>3 DEF Has, In
  <2>2. In(m.id, calls[d].unsent)
    BY <1>1, <2>1 DEF OwnInv, Owned, ListsOK
  <2> QED BY <1>1, <2>2 DEF OwnInv, Owned, ListedOK, Unclaimed
<1> QED BY <1>2, <1>3 DEF Awaits

(* The refs an expansion of p makes at depth e. *)
MadeBy(a, run, p, e, d) == \E i \in 1..Len(d) : a = lastRef + i /\ run = ChildRun(p, e, d[i])

LEMMA ExpandMoves ==
  ASSUME OwnInv, ClaimInv, NEW c \in Calls, Expand(c)
  PROVE  /\ At(c, "depth") /\ Run(c) \in Runs /\ calls[c].depth + 1 \in Nat
         /\ \E d \in Decompositions :
              /\ \A a \in Calls : \A run : Claim(a, run)' => Claim(a, run) \/ MadeBy(a, run, Run(c), calls[c].depth + 1, d)
              /\ \A a \in Calls : \A run : Open(a, run)' =>
                   (Open(a, run) /\ run # Run(c)) \/ MadeBy(a, run, Run(c), calls[c].depth + 1, d)
         /\ RootsOK'
<1>1. PICK d \in Decompositions :
        /\ lastRef + Len(d) <= MaxRefs
        /\ calls' = [calls EXCEPT ![c].pc = "storeRefs",
                         ![c].unstored = SubFlows(c, d), ![c].unsent = SubFlows(c, d)]
  BY DEF Expand
<1> DEFINE s == SubFlows(c, d)
           x == [calls[c] EXCEPT !.pc = "storeRefs", !.unstored = s, !.unsent = s]
<1>p. PICK p \in Runs : p = Run(c)
  BY CallFacts DEF Expand, At, OwnInv
<1>e. PICK e \in Nat : e = calls[c].depth + 1
  BY CallFacts DEF OwnInv, CallState
<1>2. /\ calls[c].pc = "depth" /\ UNCHANGED <<started, refs, expandQueue>>
      /\ calls' = [calls EXCEPT ![c] = x]
      /\ Claim(c, p) /\ Open(c, p)
  BY <1>p, <1>1, CallFacts, ActiveClaims DEF Expand, At, OwnInv, Before
<1>3. \A m : Has(m, s) => MadeBy(m.id, m.run, p, e, d)
  <2>1. Len(d) \in Nat
    BY DecompositionsAssumption
  <2>2. Len(s) = Len(d) /\ \A i \in 1..Len(d) :
          s[i] = [id |-> lastRef + i, run |-> ChildRun(p, e, d[i]), depth |-> e]
    BY <1>p, <1>e, <2>1 DEF SubFlows
  <2> HIDE DEF s
  <2> TAKE m
  <2> HAVE Has(m, s)
  <2>3. PICK i \in 1..Len(d) : m = [id |-> lastRef + i, run |-> ChildRun(p, e, d[i]), depth |-> e]
    BY <2>2 DEF Has
  <2>4. m.id = lastRef + i /\ m.run = ChildRun(p, e, d[i])
    BY <2>3
  <2> QED BY <2>4 DEF MadeBy
<1> HIDE DEF s
<1>4. x.pc = "storeRefs" /\ x.unstored = s /\ x.unsent = s /\ x.run = p
  BY <1>p, CallFacts DEF OwnInv, CallState, Run
<1> HIDE DEF x
<1>5. calls'[c] = x /\ \A b \in Calls : b # c => calls'[b] = calls[b]
  BY <1>2, Others DEF OwnInv
<1>6. ASSUME NEW a, NEW run, AwaitsAs(a, run)'
      PROVE  AwaitsAs(a, run) \/ MadeBy(a, run, p, e, d)
  <2>1. PICK m \in GoodMsgs : Awaits(m)' /\ m.id = a /\ m.run = run
    BY <1>6 DEF AwaitsAs, GoodMsgs, Message
  <2>2. Awaits(m) \/ Has(m, s)
    BY <1>2, <1>4, <1>5, <2>1 DEF Awaits, Has
  <2> QED BY <1>3, <2>1, <2>2 DEF AwaitsAs
<1>7. ASSUME NEW a \in Calls, NEW run, Claim(a, run)'
      PROVE  Claim(a, run) \/ MadeBy(a, run, p, e, d)
  <2>1. CASE calls'[a].pc # "idle" /\ calls'[a].run = run
    BY <1>2, <1>4, <1>5, <2>1 DEF Claim, Run
  <2>2. CASE AwaitsAs(a, run)' \/ (a \in RefIds /\ refs'[a] # None /\ refs'[a].run = run)
    BY <1>2, <1>6, <2>2 DEF Claim
  <2> QED BY <1>7, <2>1, <2>2 DEF Claim, Run
<1>8. ASSUME NEW a \in Calls, NEW run, Open(a, run)'
      PROVE  Open(a, run) \/ MadeBy(a, run, p, e, d)
  <2>1. CASE calls'[a].pc \in Before /\ calls'[a].run = run
    BY <1>4, <1>5, <2>1 DEF Open, Run, Before
  <2>2. CASE AwaitsAs(a, run)' \/ (a \in Roots \ started' /\ run = <<a>>)
    BY <1>2, <1>6, <2>2 DEF Open
  <2> QED BY <1>8, <2>1, <2>2 DEF Open, Run, Before
<1>9. c \in Roots => p = <<c>> /\ c \in started
  BY <1>p, <1>2 DEF ClaimInv, RootsOK
<1>10. c \notin Roots => c \in RefIds /\ Len(p) # 1
  BY <1>2 DEF ClaimInv, RefsOK, Calls
<1>11. ASSUME NEW a \in Calls, Open(a, p)', ~ MadeBy(a, p, p, e, d)
       PROVE  FALSE
  <2>1. Open(a, p)
    BY <1>8, <1>11
  <2>2. ~ (a \in Roots \ started /\ p = <<a>>)
    <3> SUFFICES ASSUME a \in Roots \ started, p = <<a>>
                 PROVE  FALSE
      OBVIOUS
    <3>1. Len(<<a>>) = 1
      OBVIOUS
    <3>2. c \in Roots
      BY <1>10, <3>1
    <3>3. <<a>> = <<c>> /\ c \in started
      BY <1>9, <3>2
    <3>4. a = c
      BY <3>3
    <3> QED BY <3>3, <3>4
  <2>3. Claim(a, p)
    BY <2>1, <2>2 DEF Open, Claim, Before
  <2>4. a = c
    BY <1>2, <2>3 DEF ClaimInv, OneClaim
  <2>5. ~ AwaitsAs(c, p)
    BY <1>2, ActiveNotAwaited DEF AwaitsAs
  <2>6. ~ AwaitsAs(c, p)'
    BY <1>6, <1>11, <2>4, <2>5
  <2>7. calls'[c].pc \notin Before
    BY <1>4, <1>5 DEF Before
  <2> QED BY <1>2, <1>11, <2>2, <2>4, <2>6, <2>7 DEF Open, Before
<1>12. RootsOK'
  BY <1>2, <1>4, <1>5, <1>9 DEF ClaimInv, RootsOK, Run, Calls
<1>13. \A a \in Calls : \A run : Open(a, run)' =>
         (Open(a, run) /\ run # p) \/ MadeBy(a, run, p, e, d)
  BY <1>8, <1>11
<1> QED BY <1>p, <1>e, <1>2, <1>7, <1>12, <1>13 DEF At

LEMMA Longer ==
  ASSUME NEW l \in Nat, l >= 1, NEW m \in Nat, NEW r, r = l + 1 + m
  PROVE  r \in Nat /\ r > l /\ r # 1
OBVIOUS

LEMMA Below ==
  ASSUME NEW l \in Nat, l >= 1, NEW k \in 1..l, k # l
  PROVE  k \in 1..(l - 1)
OBVIOUS

LEMMA NotLonger ==
  ASSUME NEW l \in Nat, NEW k \in 1..l, NEW q, q = k
  PROVE  ~ (q \in Nat /\ q > l)
OBVIOUS

LEMMA ExpandClaims ==
  ASSUME PlainNames, NamesTellApart, OwnInv, ClaimInv, NEW c \in Calls, Expand(c)
  PROVE  ClaimInv'
<1>1. PICK p \in Runs, e \in Nat : p = Run(c) /\ e = calls[c].depth + 1
  BY ExpandMoves
<1>2. PICK d \in Decompositions :
        /\ \A a \in Calls : \A run : Claim(a, run)' => Claim(a, run) \/ MadeBy(a, run, p, e, d)
        /\ \A a \in Calls : \A run : Open(a, run)' =>
             (Open(a, run) /\ run # p) \/ MadeBy(a, run, p, e, d)
  BY <1>1, ExpandMoves
<1>3. Claim(c, p) /\ Open(c, p)
  BY <1>1, ExpandMoves, ActiveClaims DEF At, Before
<1>4. ASSUME NEW a, NEW run, run # NoRun, MadeBy(a, run, p, e, d)
      PROVE  \E n \in Names : run = ChildRun(p, e, n)
  <2>1. PICK i \in 1..Len(d) : run = ChildRun(p, e, d[i])
    BY <1>4 DEF MadeBy
  <2>2. d[i] \in Names \cup {NoName}
    BY DecompositionsAssumption
  <2>3. d[i] # NoName
    BY <1>4, <2>1 DEF ChildRun
  <2> QED BY <2>1, <2>2, <2>3
<1>5. Len(p) \in Nat /\ Len(p) >= 1
  BY RootOfRun
<1>6. ASSUME NEW a, NEW run, run # NoRun, MadeBy(a, run, p, e, d)
      PROVE  Len(run) \in Nat /\ Len(run) > Len(p) /\ Len(run) # 1
  <2>1. PICK n \in Names : run = ChildRun(p, e, n)
    BY <1>4, <1>6
  <2>2. Len(Slug[n]) \in Nat /\ Len(run) = Len(p) + 1 + Len(Slug[n])
    BY <2>1, ChildPieces, Zenon
  <2> QED BY <1>5, <2>2, Longer, Zenon
<1>7. ASSUME NEW a, NEW q, q # NoRun, MadeBy(a, q, p, e, d),
             NEW b \in Calls, NEW run \in Runs, Claim(b, run),
             NEW k \in 1..Len(run), SubSeq(run, 1, k) = q
      PROVE  FALSE
  <2>1. PICK n \in Names : q = ChildRun(p, e, n)
    BY <1>4, <1>7
  <2>2. /\ Len(p) \in 1..(Len(run) - 1) /\ SubSeq(run, 1, Len(p)) = p
        /\ run[Len(p) + 1] \in Nat
    BY <1>7, <2>1, PrefixChild
  <2>3. ~ Open(c, SubSeq(run, 1, Len(p)))
    BY <1>7, <2>2 DEF ClaimInv, PrefixesClosed
  <2> QED BY <1>3, <2>2, <2>3
<1>8. ASSUME NEW a, NEW run \in Runs, MadeBy(a, run, p, e, d), NEW b \in Calls, Claim(b, run)
      PROVE  FALSE
  <2>1. Len(run) \in 1..Len(run) /\ SubSeq(run, 1, Len(run)) = run /\ run # NoRun
    <3>1. run \in Seq(Roots \cup Pieces \cup Nat) /\ Len(run) \in Nat /\ Len(run) >= 1
      BY RootOfRun
    <3> QED BY <3>1 DEF NoRun, Runs
  <2> QED BY <1>7, <1>8, <2>1
<1>9. ASSUME NEW a, NEW b, NEW run, run # NoRun, MadeBy(a, run, p, e, d), MadeBy(b, run, p, e, d)
      PROVE  a = b
  <2>1. PICK i \in 1..Len(d) : a = lastRef + i /\ run = ChildRun(p, e, d[i])
    BY <1>9 DEF MadeBy
  <2>2. PICK j \in 1..Len(d) : b = lastRef + j /\ run = ChildRun(p, e, d[j])
    BY <1>9 DEF MadeBy
  <2>3. d[i] \in Names \cup {NoName} /\ d[j] \in Names \cup {NoName}
    BY DecompositionsAssumption
  <2>4. d[i] \in Names /\ d[j] \in Names
    <3>1. d[i] # NoName
      BY <1>9, <2>1 DEF ChildRun
    <3>2. d[j] # NoName
      BY <1>9, <2>2 DEF ChildRun
    <3> QED BY <2>3, <3>1, <3>2
  <2>5. Slug[d[i]] = Slug[d[j]]
    <3>1. PICK n \in Names, m \in Names : n = d[i] /\ m = d[j]
      BY <2>4
    <3>2. ChildRun(p, e, n) = ChildRun(p, e, m)
      BY <2>1, <2>2, <3>1
    <3>3. Slug[n] = Slug[m]
      BY <3>2, ChildTellsPieces
    <3> QED BY <3>1, <3>3
  <2>6. i = j
    BY <2>4, <2>5 DEF NamesTellApart
  <2> QED BY <2>1, <2>2, <2>6
<1>10. \A run \in Runs : run # NoRun
  BY DEF Runs, NoRun
<1>11. RefsOK'
  <2>1. RefIds \subseteq Calls
    BY DEF Calls
  <2> QED BY <1>2, <1>6, <1>10, <2>1 DEF ClaimInv, RefsOK
<1>12. OneClaim'
  BY <1>2, <1>8, <1>9, <1>10 DEF ClaimInv, OneClaim
<1>13. PrefixesClosed'
  <2> SUFFICES ASSUME NEW a \in Calls, NEW b \in Calls, NEW run \in Runs, Claim(a, run)',
                      NEW k \in 1..(Len(run) - 1), run[k + 1] \in Nat, Open(b, SubSeq(run, 1, k))'
               PROVE  FALSE
    BY DEF PrefixesClosed
  <2>0. run \in Seq(Roots \cup Pieces \cup Nat) /\ Len(run) \in Nat /\ Len(run) >= 1
    BY RootOfRun
  <2>1. PICK q : q = SubSeq(run, 1, k)
    OBVIOUS
  <2>2. Len(q) = k /\ q # NoRun
    <3>1. Len(q) = k /\ k # 0
      BY <2>0, <2>1
    <3>2. Len(NoRun) = 0
      BY DEF NoRun
    <3> QED BY <3>1, <3>2
  <2>3. (Open(b, q) /\ q # p) \/ MadeBy(b, q, p, e, d)
    BY <1>2, <2>1
  <2>4. CASE Claim(a, run)
    <3>1. ~ Open(b, q)
      BY <2>1, <2>4 DEF ClaimInv, PrefixesClosed
    <3>2. MadeBy(b, q, p, e, d) /\ k \in 1..Len(run)
      BY <2>0, <2>3, <3>1
    <3> QED BY <1>7, <2>1, <2>2, <2>4, <3>2
  <2>5. CASE MadeBy(a, run, p, e, d)
    <3>1. PICK n \in Names : run = ChildRun(p, e, n)
      BY <1>4, <1>10, <2>5
    <3>2. k \in 1..(Len(ChildRun(p, e, n)) - 1) /\ ChildRun(p, e, n)[k + 1] \in Nat
      BY <3>1
    <3>3. /\ k \in 1..Len(p) /\ q = SubSeq(p, 1, k) /\ SubSeq(p, 1, Len(p)) = p
          /\ k # Len(p) => p[k + 1] \in Nat
      <4>1. /\ k \in 1..Len(p) /\ SubSeq(ChildRun(p, e, n), 1, k) = SubSeq(p, 1, k)
            /\ SubSeq(p, 1, Len(p)) = p /\ (k # Len(p) => p[k + 1] \in Nat)
        BY <3>2, ChildPrefix, Zenon
      <4>2. q = SubSeq(ChildRun(p, e, n), 1, k)
        BY <2>1, <3>1
      <4> QED BY <4>1, <4>2, Zenon
    <3>4. ~ MadeBy(b, q, p, e, d)
      <4>1. ~ (Len(q) \in Nat /\ Len(q) > Len(p))
        BY <1>5, <2>2, <3>3, NotLonger, Zenon
      <4> QED BY <1>6, <2>2, <4>1, Zenon
    <3>5. CASE k = Len(p)
      <4>1. q = p
        BY <3>3, <3>5, Zenon
      <4> QED BY <2>3, <3>4, <4>1
    <3>6. CASE k # Len(p)
      <4>1. k \in 1..(Len(p) - 1)
        BY <1>5, <3>3, <3>6, Below, Zenon
      <4>2. ~ Open(b, q)
        BY <1>3, <3>3, <3>6, <4>1 DEF ClaimInv, PrefixesClosed
      <4> QED BY <2>3, <3>4, <4>2
    <3> QED BY <3>5, <3>6
  <2> QED BY <1>2, <2>4, <2>5
<1> QED BY <1>11, <1>12, <1>13, ExpandMoves DEF ClaimInv

LEMMA ThrowMoved ==
  ASSUME OwnInv, ClaimInv, NEW c \in Calls, Throw(c)
  PROVE  ClaimInv'
<1>1. calls' = [calls EXCEPT ![c] = Idle] /\ UNCHANGED <<started, expandQueue, refs>>
  BY DEF Throw
<1>2. Idle.pc = "idle" /\ Idle.unstored = <<>> /\ Idle.unsent = <<>>
  BY DEF Idle
<1>3. Moved(c, Idle)
  BY <1>1, <1>2, DocsClaim DEF Moved, Before, Awaits, Has
<1> QED BY <1>3, MovedShrinks

LEMMA NamelessClaims ==
  ASSUME ClaimInv, NEW msg \in expandQueue, DeliverNameless(msg)
  PROVE  ClaimInv'
<1>1. UNCHANGED <<started, calls, refs>> /\ expandQueue' \subseteq expandQueue
  BY DEF DeliverNameless
<1>2. \A a, run : AwaitsAs(a, run)' => AwaitsAs(a, run)
  BY <1>1 DEF AwaitsAs, Awaits, GoodMsgs, Message
<1>3. RootsOK'
  BY <1>1 DEF ClaimInv, RootsOK, Run
<1>4. \A a \in Calls, run \in Runs : Claim(a, run)' => Claim(a, run)
  BY <1>1, <1>2 DEF Claim, Run
<1>5. \A a \in Calls : \A run : Open(a, run)' => Open(a, run)
  BY <1>1, <1>2 DEF Open, Run
<1> QED BY <1>3, <1>4, <1>5, ClaimsShrink

LEMMA ClaimStep ==
  ASSUME PlainNames, NamesTellApart, OwnInv, ClaimInv, [Next]_vars
  PROVE  ClaimInv'
<1>1. ASSUME UNCHANGED <<started, calls, refs, expandQueue>>
      PROVE  ClaimInv'
  BY <1>1 DEF ClaimInv, RootsOK, RefsOK, OneClaim, PrefixesClosed, Claim, Open, AwaitsAs,
     Awaits, Run
<1>2. ASSUME NEW c \in Calls, CallStep(c)
      PROVE  ClaimInv'
  BY <1>2, QuietMoved, ExpandClaims, StoreMoved, EmitMoved, ThrowMoved, HandlerMoved
     DEF CallStep, QuietStep, Cycle3
<1>3. ASSUME NEW s \in suspensions, Resume(s)
      PROVE  ClaimInv'
  BY <1>1, <1>3 DEF Resume
<1>4. CASE UNCHANGED vars
  BY <1>1, <1>4 DEF vars
<1> QED BY <1>2, <1>3, <1>4, StartClaims, DeliverMoved, NamelessClaims DEF Next

LEMMA ClaimInit ==
  ASSUME Init
  PROVE  ClaimInv
<1>1. \A c \in Calls : calls[c].pc = "idle" /\ calls[c].unstored = <<>> /\ calls[c].unsent = <<>>
  BY DEF Init, Idle
<1>2. \A a, run : ~ AwaitsAs(a, run)
  BY <1>1 DEF AwaitsAs, Awaits, Has, Init
<1>3. \A a \in Calls : \A run : ~ Claim(a, run)
  BY <1>1, <1>2 DEF Claim, Init
<1>4. RefIds \subseteq Calls /\ Roots \subseteq Calls
  BY DEF Calls
<1> QED BY <1>1, <1>3, <1>4 DEF ClaimInv, RootsOK, RefsOK, OneClaim, PrefixesClosed

(* No two sub-flows of any family run under one run id, whatever fails,    *)
(* when no piece of a name looks like a depth and the pieces of the names  *)
(* tell the sub-flows of a decomposition apart.                            *)
THEOREM RunIdsOfSubFlows == Spec => []RunIdsUnique
<1>1. CASE PlainNames /\ NamesTellApart
  <2>1. Init => OwnInv /\ ClaimInv
    BY OwnInit, ClaimInit
  <2>2. OwnInv /\ ClaimInv /\ [Next]_vars => (OwnInv /\ ClaimInv)'
    BY <1>1, OwnStep, ClaimStep
  <2>3. OwnInv /\ ClaimInv => RunIdsUnique
    <3> SUFFICES ASSUME OwnInv, ClaimInv, NEW i \in RefIds, NEW j \in RefIds,
                        refs[i] # None, refs[j] # None, refs[i].run = refs[j].run,
                        refs[i].run # NoRun
                 PROVE  i = j
      BY DEF RunIdsUnique
    <3>1. i \in Calls /\ j \in Calls /\ refs[i].run \in Runs
      BY DEF Calls, OwnInv, IInv, TypeOK, RefDoc
    <3>2. Claim(i, refs[i].run) /\ Claim(j, refs[i].run)
      BY DEF Claim
    <3> QED BY <3>1, <3>2 DEF ClaimInv, OneClaim
  <2> QED BY <2>1, <2>2, <2>3, PTL DEF Spec
<1>2. CASE ~ (PlainNames /\ NamesTellApart)
  <2>1. RunIdsUnique
    BY <1>2 DEF RunIdsUnique
  <2> QED BY <2>1, PTL
<1> QED BY <1>1, <1>2
=============================================================================
