-------------------------- MODULE FlowEngineProofs --------------------------
(* Invariance proofs for FlowEngine: any number of tenants, flows, graphs, *)
(* overlapping starts and runs.                                            *)
EXTENDS FlowEngine, TLAPS

(* What holds of every run record by itself.  Only approvals wait, which is *)
(* why executing another node leaves a paused run its waiting one.          *)
RunInv(x) ==
  /\ x \in Run
  /\ DOMAIN x.node = DOMAIN x.doc.graph.nodes
  /\ \A n \in DOMAIN x.node :
       x.node[n] = "waiting_for_user" => x.doc.graph.nodes[n] = "human_approval"
  /\ x.status = "paused" => \E n \in DOMAIN x.node : x.node[n] = "waiting_for_user"
  /\ x.status = "completed" =>
       \E n \in DOMAIN x.node : x.node[n] = "completed" /\ EndsFlow(x.doc.graph, n)
  /\ x.status = "cancelled" => \A n \in DOMAIN x.node : x.node[n] # "pending"

TypeInv ==
  /\ flows \in [Tenants \X Flows -> Seq(Document)]
  /\ starting \in [Callers -> Call \cup {NoCall}]
  /\ runs \in Seq(Run)
  /\ caller \in Tenants

(* Every stored version carries the tenant whose key it is stored under.  *)
StoredOwned ==
  \A t \in Tenants, f \in Flows :
    \A v \in 1..Len(flows[<<t, f>>]) : flows[<<t, f>>][v].tenant = t

IInv == TypeInv /\ StoredOwned /\ (\A r \in RunIds : RunInv(runs[r])) /\ RunsOwnVersion

LEMMA NodeMap ==
  ASSUME NEW x \in Run, DOMAIN x.node = DOMAIN x.doc.graph.nodes
  PROVE  /\ DOMAIN x.node \subseteq Nodes
         /\ x.node \in [DOMAIN x.node -> NodeStatus]
<1>1. x.node \in UNION {[N -> NodeStatus] : N \in SUBSET Nodes}
  BY DEF Run
<1>2. PICK N \in SUBSET Nodes : x.node \in [N -> NodeStatus]
  BY <1>1
<1> QED BY <1>2

(* Run record x with node n at status s, current node cur and status st.    *)
RunWith(x, n, s, cur, st) == [x EXCEPT !.node[n] = s, !.current = cur, !.status = st]

(* Giving one node another status keeps the record a run. *)
LEMMA NodeSet ==
  ASSUME NEW x, RunInv(x), NEW n \in DOMAIN x.node, NEW s \in NodeStatus,
         NEW st \in RunStatus, NEW cur \in Nodes, NEW y,
         y = RunWith(x, n, s, cur, st)
  PROVE  /\ y \in Run
         /\ DOMAIN y.node = DOMAIN x.node
         /\ DOMAIN y.node = DOMAIN y.doc.graph.nodes
         /\ y.node[n] = s
         /\ \A m \in DOMAIN x.node : m # n => y.node[m] = x.node[m]
         /\ y.status = st /\ y.doc = x.doc /\ y.tenant = x.tenant
         /\ y.flow = x.flow /\ y.version = x.version
<1>1. x \in Run /\ DOMAIN x.node = DOMAIN x.doc.graph.nodes
  BY DEF RunInv
<1>2. DOMAIN x.node \subseteq Nodes /\ x.node \in [DOMAIN x.node -> NodeStatus]
  BY <1>1, NodeMap
<1>3. [x.node EXCEPT ![n] = s] \in [DOMAIN x.node -> NodeStatus]
  BY <1>2
<1>4. [x.node EXCEPT ![n] = s] \in UNION {[N -> NodeStatus] : N \in SUBSET Nodes}
  BY <1>2, <1>3
<1>5. y.node = [x.node EXCEPT ![n] = s] /\ y.status = st /\ y.doc = x.doc
      /\ y.tenant = x.tenant /\ y.flow = x.flow /\ y.version = x.version
  BY <1>1 DEF Run, RunWith
<1>6. y \in Run
  BY <1>1, <1>4, <1>5 DEF Run, RunWith
<1> QED BY <1>1, <1>2, <1>5, <1>6

(* A step that moves run r to a good record of the same call keeps IInv.   *)
LEMMA MoveKeeps ==
  ASSUME IInv, NEW r \in RunIds, NEW y, RunInv(y), Moves(r, y),
         UNCHANGED <<flows, starting>>, caller' \in Tenants,
         y.doc = runs[r].doc, y.tenant = runs[r].tenant,
         y.flow = runs[r].flow, y.version = runs[r].version
  PROVE  IInv'
<1>1. /\ runs' \in Seq(Run) /\ DOMAIN runs' = DOMAIN runs
      /\ \A q \in RunIds : runs'[q] = IF q = r THEN y ELSE runs[q]
  BY DEF IInv, TypeInv, RunIds, RunInv, Moves
<1>2. TypeInv'
  BY <1>1 DEF IInv, TypeInv
<1>3. (\A q \in RunIds : RunInv(runs[q]))'
  <2>1. \A q \in RunIds : RunInv(runs'[q])
    BY <1>1 DEF IInv
  <2> QED BY <1>1, <2>1 DEF RunIds
<1>4. RunsOwnVersion'
  <2>1. \A q \in RunIds :
          /\ runs'[q].doc = runs[q].doc /\ runs'[q].tenant = runs[q].tenant
          /\ runs'[q].flow = runs[q].flow /\ runs'[q].version = runs[q].version
    BY <1>1
  <2>2. \A q \in RunIds :
          IsVersion(runs[q].tenant, runs[q].flow, runs[q].version, runs[q].doc)
    BY DEF IInv, RunsOwnVersion
  <2>3. \A q \in RunIds :
          IsVersion(runs'[q].tenant, runs'[q].flow, runs'[q].version, runs'[q].doc)
    BY <2>1, <2>2
  <2> QED BY <1>1, <2>3 DEF IInv, RunsOwnVersion, RunIds, IsVersion
<1>5. StoredOwned'
  BY DEF IInv, StoredOwned
<1> QED BY <1>2, <1>3, <1>4, <1>5 DEF IInv

(* A save adds a version at one key ...                                    *)
AddsVersion(t, f, d) == flows' = [flows EXCEPT ![<<t, f>>] = Append(@, d)]

(* ... and keeps the versions there are.                                    *)
Grown(t, f, d) ==
  /\ flows' \in [Tenants \X Flows -> Seq(Document)]
  /\ \A u \in Tenants, h \in Flows :
       /\ Len(flows[<<u, h>>]) \in Nat /\ Len(flows'[<<u, h>>]) >= Len(flows[<<u, h>>])
       /\ \A v \in 1..Len(flows[<<u, h>>]) : flows'[<<u, h>>][v] = flows[<<u, h>>][v]
  /\ \A u \in Tenants, h \in Flows : <<u, h>> # <<t, f>> => flows'[<<u, h>>] = flows[<<u, h>>]
  /\ Len(flows'[<<t, f>>]) = Len(flows[<<t, f>>]) + 1
  /\ flows'[<<t, f>>][Len(flows[<<t, f>>]) + 1] = d

LEMMA VersionStays ==
  ASSUME TypeInv, NEW t \in Tenants, NEW f \in Flows, NEW d \in Document,
         AddsVersion(t, f, d)
  PROVE  Grown(t, f, d)
<1>1. flows \in [Tenants \X Flows -> Seq(Document)] /\ <<t, f>> \in Tenants \X Flows
  BY DEF TypeInv
<1> DEFINE q == flows[<<t, f>>]
<1>2. q \in Seq(Document)
  BY <1>1
<1>3. /\ Append(q, d) \in Seq(Document) /\ Len(Append(q, d)) = Len(q) + 1
      /\ \A v \in 1..Len(q) : Append(q, d)[v] = q[v]
      /\ Append(q, d)[Len(q) + 1] = d
  <2> HIDE DEF q
  <2> QED BY <1>2
<1>4. flows'[<<t, f>>] = Append(q, d)
  BY <1>1 DEF AddsVersion
<1>5. ASSUME NEW u \in Tenants, NEW h \in Flows, ~ (u = t /\ h = f)
      PROVE  flows'[<<u, h>>] = flows[<<u, h>>] /\ flows[<<u, h>>] \in Seq(Document)
  BY <1>1, <1>5 DEF AddsVersion
<1>6. flows' \in [Tenants \X Flows -> Seq(Document)]
  <2>1. flows' = [flows EXCEPT ![<<t, f>>] = Append(q, d)]
    BY DEF AddsVersion
  <2> HIDE DEF q
  <2> QED BY <1>1, <1>3, <2>1
<1>7. ASSUME NEW u \in Tenants, NEW h \in Flows
      PROVE  /\ Len(flows[<<u, h>>]) \in Nat /\ Len(flows'[<<u, h>>]) >= Len(flows[<<u, h>>])
             /\ \A v \in 1..Len(flows[<<u, h>>]) : flows'[<<u, h>>][v] = flows[<<u, h>>][v]
  <2>1. CASE u = t /\ h = f
    <3>1. flows[<<u, h>>] = q /\ flows'[<<u, h>>] = Append(q, d) /\ Len(q) \in Nat
      BY <1>2, <1>4, <2>1
    <3> HIDE DEF q
    <3> QED BY <1>3, <3>1
  <2>2. CASE ~ (u = t /\ h = f)
    <3>1. flows'[<<u, h>>] = flows[<<u, h>>] /\ Len(flows[<<u, h>>]) \in Nat
      BY <1>5, <2>2
    <3>2. Len(flows'[<<u, h>>]) >= Len(flows[<<u, h>>])
      BY <3>1
    <3> QED BY <3>1, <3>2
  <2> QED BY <2>1, <2>2
<1>8. \A u \in Tenants, h \in Flows : <<u, h>> # <<t, f>> => flows'[<<u, h>>] = flows[<<u, h>>]
  BY <1>5
<1>9. Len(flows'[<<t, f>>]) = Len(flows[<<t, f>>]) + 1 /\ flows'[<<t, f>>][Len(flows[<<t, f>>]) + 1] = d
  BY <1>3, <1>4
<1> QED BY <1>6, <1>7, <1>8, <1>9 DEF Grown

-----------------------------------------------------------------------------
LEMMA SaveKeeps ==
  ASSUME IInv, NEW t \in Tenants, NEW f \in Flows, NEW g \in Definitions, SaveFlow(t, f, g)
  PROVE  IInv'
<1> DEFINE d == [tenant |-> t, graph |-> g]
<1>1. d \in Document /\ d.tenant = t /\ AddsVersion(t, f, d)
  BY DEF SaveFlow, FlowKey, Document, AddsVersion
<1> HIDE DEF d
<1>0. TypeInv
  BY DEF IInv
<1>10. Grown(t, f, d)
  BY <1>0, <1>1, VersionStays
<1>2. /\ flows' \in [Tenants \X Flows -> Seq(Document)]
      /\ \A u \in Tenants, h \in Flows :
           /\ Len(flows[<<u, h>>]) \in Nat /\ Len(flows'[<<u, h>>]) >= Len(flows[<<u, h>>])
           /\ \A v \in 1..Len(flows[<<u, h>>]) : flows'[<<u, h>>][v] = flows[<<u, h>>][v]
      /\ \A u \in Tenants, h \in Flows : <<u, h>> # <<t, f>> => flows'[<<u, h>>] = flows[<<u, h>>]
      /\ Len(flows'[<<t, f>>]) = Len(flows[<<t, f>>]) + 1
      /\ flows'[<<t, f>>][Len(flows[<<t, f>>]) + 1] = d
  BY <1>10 DEF Grown
<1>3. UNCHANGED <<starting, runs>> /\ caller' = t
  BY DEF SaveFlow
<1>4. TypeInv'
  BY <1>2, <1>3 DEF IInv, TypeInv
<1>5. (\A r \in RunIds : RunInv(runs[r]))'
  BY <1>3 DEF IInv, RunIds, RunInv, EndsFlow
<1>6. StoredOwned'
  <2> SUFFICES ASSUME NEW u \in Tenants, NEW h \in Flows, NEW v \in 1..Len(flows'[<<u, h>>])
               PROVE  flows'[<<u, h>>][v].tenant = u
    BY DEF StoredOwned
  <2>1. CASE v \in 1..Len(flows[<<u, h>>])
    <3>1. flows'[<<u, h>>][v] = flows[<<u, h>>][v]
      BY <1>2, <2>1
    <3>2. flows[<<u, h>>][v].tenant = u
      BY <2>1 DEF IInv, StoredOwned
    <3> QED BY <3>1, <3>2
  <2>2. CASE v \notin 1..Len(flows[<<u, h>>])
    <3>1. u = t /\ h = f
      BY <1>2, <2>2
    <3>2. v = Len(flows[<<t, f>>]) + 1
      BY <1>2, <2>2, <3>1
    <3> QED BY <1>1, <1>2, <3>1, <3>2
  <2> QED BY <2>1, <2>2
<1>7. \A u \in Tenants, h \in Flows : \A v, x : IsVersion(u, h, v, x) => IsVersion(u, h, v, x)'
  BY <1>2 DEF IsVersion
<1>8. RunsOwnVersion'
  <2>1. \A c \in Callers : starting[c] # NoCall =>
          starting[c].tenant \in Tenants /\ starting[c].flow \in Flows
    BY DEF IInv, TypeInv, Call
  <2>2. \A r \in RunIds : runs[r].tenant \in Tenants /\ runs[r].flow \in Flows
    BY DEF IInv, RunInv, Run
  <2> QED BY <1>3, <1>7, <2>1, <2>2 DEF IInv, RunsOwnVersion, RunIds
<1> QED BY <1>4, <1>5, <1>6, <1>8 DEF IInv

LEMMA LoadKeeps ==
  ASSUME IInv, NEW c \in Callers, NEW t \in Tenants, NEW f \in Flows, StartLoad(c, t, f)
  PROVE  IInv'
<1> DEFINE q == flows[<<t, f>>]
           x == [tenant |-> t, flow |-> f, doc |-> q[Len(q)], version |-> Len(q)]
<1>1. /\ starting' = [starting EXCEPT ![c] = x]
      /\ UNCHANGED <<flows, runs>> /\ caller' = t /\ q # <<>>
  BY DEF StartLoad, Latest, Versions, FlowKey
<1>2. q \in Seq(Document)
  BY DEF IInv, TypeInv
<1>3. Len(q) \in 1..Len(q) /\ q[Len(q)] \in Document
  <2> HIDE DEF q
  <2> QED BY <1>1, <1>2
<1>4. x \in Call
  BY <1>3 DEF Call
<1>5. IsVersion(t, f, x.version, x.doc)
  BY <1>3 DEF IInv, StoredOwned, IsVersion
<1>6. TypeInv'
  <2> HIDE DEF x, q
  <2> QED BY <1>1, <1>4 DEF IInv, TypeInv
<1>7. RunsOwnVersion'
  <2>1. \A b \in Callers : starting'[b] = IF b = c THEN x ELSE starting[b]
    <3> HIDE DEF x, q
    <3> QED BY <1>1 DEF IInv, TypeInv
  <2>2. \A u, h, v, d : IsVersion(u, h, v, d)' = IsVersion(u, h, v, d)
    BY <1>1 DEF IsVersion
  <2>3. x.tenant = t /\ x.flow = f
    OBVIOUS
  <2> HIDE DEF x, q
  <2>4. \A b \in Callers : starting'[b] # NoCall =>
          IsVersion(starting'[b].tenant, starting'[b].flow, starting'[b].version, starting'[b].doc)
    BY <1>5, <2>1, <2>3 DEF IInv, RunsOwnVersion
  <2> QED BY <1>1, <2>4 DEF IInv, RunsOwnVersion, RunIds, IsVersion
<1>8. (\A r \in RunIds : RunInv(runs[r]))'
  BY <1>1 DEF IInv, RunIds, RunInv, EndsFlow
<1>9. StoredOwned'
  BY <1>1 DEF IInv, StoredOwned
<1> QED BY <1>6, <1>7, <1>8, <1>9 DEF IInv

LEMMA EmptyKeeps ==
  ASSUME IInv, NEW c \in Callers, StartEmpty(c)
  PROVE  IInv'
<1>1. /\ starting' = [starting EXCEPT ![c] = NoCall] /\ UNCHANGED <<flows, runs>>
      /\ caller' \in Tenants
  BY DEF StartEmpty, IInv, TypeInv, Call
<1>2. \A b \in Callers : starting'[b] # NoCall => starting'[b] = starting[b]
  BY <1>1 DEF IInv, TypeInv
<1>3. TypeInv' /\ StoredOwned'
  BY <1>1 DEF IInv, TypeInv, StoredOwned
<1>4. (\A r \in RunIds : RunInv(runs[r]))'
  BY <1>1 DEF IInv, RunIds, RunInv, EndsFlow
<1>5. RunsOwnVersion'
  BY <1>1, <1>2 DEF IInv, RunsOwnVersion, RunIds, IsVersion
<1> QED BY <1>3, <1>4, <1>5 DEF IInv

LEMMA CreateKeeps ==
  ASSUME IInv, NEW c \in Callers, StartCreate(c)
  PROVE  IInv'
<1> USE DefinitionsAssumption
<1> DEFINE call == starting[c]
           graph == call.doc.graph
           x == [tenant |-> call.tenant, flow |-> call.flow, version |-> call.version,
                 doc |-> call.doc, status |-> "running", current |-> graph.start,
                 node |-> [n \in DOMAIN graph.nodes |-> "pending"]]
<1>1. /\ call # NoCall /\ DOMAIN graph.nodes # {}
      /\ runs' = Append(runs, x) /\ starting' = [starting EXCEPT ![c] = NoCall]
      /\ caller' = call.tenant /\ UNCHANGED flows
  BY DEF StartCreate, InitialNodes
<1>2. call \in Call /\ call.doc \in Document /\ graph \in Definitions
  BY <1>1 DEF IInv, TypeInv, Call, Document
<1>3. DOMAIN graph.nodes \subseteq Nodes /\ graph.start \in Nodes
  BY <1>1, <1>2
<1>4. x \in Run
  <2> DEFINE N == DOMAIN graph.nodes
  <2>1. x.node \in [N -> NodeStatus] /\ N \in SUBSET Nodes
    BY <1>3 DEF NodeStatus
  <2>2. x.node \in UNION {[M -> NodeStatus] : M \in SUBSET Nodes}
    BY <2>1
  <2> QED BY <1>2, <1>3, <2>2 DEF Run, Call, RunStatus
<1>5. RunInv(x)
  BY <1>4 DEF RunInv
<1>6. x.tenant = call.tenant /\ x.flow = call.flow /\ x.version = call.version /\ x.doc = call.doc
  OBVIOUS
<1> HIDE DEF x
<1>7. /\ runs' \in Seq(Run) /\ Len(runs') = Len(runs) + 1 /\ runs'[Len(runs) + 1] = x
      /\ \A r \in 1..Len(runs) : runs'[r] = runs[r]
      /\ RunIds' = 1..(Len(runs) + 1) /\ RunIds = 1..Len(runs)
  BY <1>1, <1>4 DEF IInv, TypeInv, RunIds
<1>8. TypeInv' /\ StoredOwned'
  BY <1>1, <1>2, <1>7 DEF IInv, TypeInv, StoredOwned, Call
<1>9. \A r \in RunIds' : (r \in RunIds /\ runs'[r] = runs[r]) \/ runs'[r] = x
  BY <1>7 DEF IInv, TypeInv
<1>10. (\A r \in RunIds : RunInv(runs[r]))'
  <2>1. \A r \in RunIds' : RunInv(runs'[r])
    BY <1>5, <1>9 DEF IInv
  <2> QED BY <2>1 DEF RunInv, EndsFlow
<1>11. RunsOwnVersion'
  <2>1. \A b \in Callers : starting'[b] # NoCall => starting'[b] = starting[b]
    BY <1>1 DEF IInv, TypeInv
  <2>2. IsVersion(x.tenant, x.flow, x.version, x.doc)
    BY <1>1, <1>6 DEF IInv, RunsOwnVersion
  <2>3. \A r \in RunIds' :
          IsVersion(runs'[r].tenant, runs'[r].flow, runs'[r].version, runs'[r].doc)
    BY <1>9, <2>2 DEF IInv, RunsOwnVersion
  <2>4. \A b \in Callers : starting'[b] # NoCall =>
          IsVersion(starting'[b].tenant, starting'[b].flow, starting'[b].version, starting'[b].doc)
    BY <2>1 DEF IInv, RunsOwnVersion
  <2>5. \A u, h, v, d : IsVersion(u, h, v, d)' = IsVersion(u, h, v, d)
    BY <1>1 DEF IsVersion
  <2> HIDE DEF call, graph
  <2> QED BY <2>3, <2>4, <2>5 DEF RunsOwnVersion
<1> QED BY <1>8, <1>10, <1>11 DEF IInv

LEMMA ExecuteKeeps ==
  ASSUME IInv, NEW t \in Tenants, NEW r \in RunIds, NEW n \in Nodes, ExecuteNode(t, r, n)
  PROVE  IInv'
<1> DEFINE x == runs[r]
           st == IF Finishes(r, n) THEN "completed" ELSE x.status
           y == RunWith(x, n, "completed", n, st)
<1>1. RunInv(x) /\ n \in DOMAIN x.node /\ x.status \in {"running", "paused"}
  BY DEF ExecuteNode, Reaches, Active, IInv
<1>2. st \in RunStatus /\ "completed" \in NodeStatus
  BY <1>1 DEF RunStatus, NodeStatus
<1>3. Moves(r, y) /\ UNCHANGED <<flows, starting>> /\ caller' \in Tenants
  <2>1. y = [runs[r] EXCEPT !.node[n] = "completed", !.current = n,
               !.status = IF Finishes(r, n) THEN "completed" ELSE @]
    BY <1>1 DEF RunInv, Run, RunWith
  <2> HIDE DEF y
  <2> QED BY <2>1 DEF ExecuteNode
<1>4. st = "completed" => EndsFlow(x.doc.graph, n)
  BY <1>1 DEF Finishes, NextNodes, TypeOfNode, EndsFlow
<1>5. st # "completed" => st = x.status
  OBVIOUS
<1>6. TypeOfNode(r, n) # "human_approval"
  BY DEF ExecuteNode
<1> HIDE DEF x, st, y
<1>7. /\ y \in Run /\ DOMAIN y.node = DOMAIN x.node
      /\ DOMAIN y.node = DOMAIN y.doc.graph.nodes
      /\ y.node[n] = "completed"
      /\ \A m \in DOMAIN x.node : m # n => y.node[m] = x.node[m]
      /\ y.status = st /\ y.doc = x.doc /\ y.tenant = x.tenant
      /\ y.flow = x.flow /\ y.version = x.version
  <2>1. y = RunWith(x, n, "completed", n, st)
    BY DEF y
  <2> QED BY <1>1, <1>2, <2>1, NodeSet
<1>8. RunInv(y)
  <2>1. \A m \in DOMAIN y.node :
          y.node[m] = "waiting_for_user" => y.doc.graph.nodes[m] = "human_approval"
    BY <1>1, <1>7 DEF RunInv
  <2>2. y.status = "paused" => \E m \in DOMAIN y.node : y.node[m] = "waiting_for_user"
    <3>1. x.doc.graph.nodes[n] # "human_approval"
      BY <1>6 DEF x, TypeOfNode
    <3> QED BY <1>1, <1>5, <1>7, <3>1 DEF RunInv
  <2>3. y.status = "completed" =>
          \E m \in DOMAIN y.node : y.node[m] = "completed" /\ EndsFlow(y.doc.graph, m)
    BY <1>1, <1>4, <1>7
  <2>4. y.status # "cancelled"
    BY <1>1, <1>5, <1>7
  <2> QED BY <1>7, <2>1, <2>2, <2>3, <2>4 DEF RunInv
<1> QED BY <1>3, <1>7, <1>8, MoveKeeps DEF x

LEMMA ApprovalKeeps ==
  ASSUME IInv, NEW t \in Tenants, NEW r \in RunIds, NEW n \in Nodes, ExecuteApproval(t, r, n)
  PROVE  IInv'
<1> DEFINE x == runs[r]
           y == RunWith(x, n, "waiting_for_user", n, "paused")
<1>1. /\ RunInv(x) /\ n \in DOMAIN x.node
      /\ "paused" \in RunStatus /\ "waiting_for_user" \in NodeStatus
  BY DEF ExecuteApproval, Reaches, IInv, RunStatus, NodeStatus
<1>2. Moves(r, y) /\ UNCHANGED <<flows, starting>> /\ caller' \in Tenants
  BY DEF ExecuteApproval, RunWith
<1>3. x.doc.graph.nodes[n] = "human_approval"
  BY DEF ExecuteApproval, TypeOfNode
<1> HIDE DEF x, y
<1>4. /\ y \in Run /\ DOMAIN y.node = DOMAIN x.node
      /\ DOMAIN y.node = DOMAIN y.doc.graph.nodes
      /\ y.node[n] = "waiting_for_user"
      /\ \A m \in DOMAIN x.node : m # n => y.node[m] = x.node[m]
      /\ y.status = "paused" /\ y.doc = x.doc /\ y.tenant = x.tenant
      /\ y.flow = x.flow /\ y.version = x.version
  <2>1. y = RunWith(x, n, "waiting_for_user", n, "paused")
    BY DEF y
  <2> QED BY <1>1, <2>1, NodeSet
<1>5. RunInv(y)
  BY <1>1, <1>3, <1>4 DEF RunInv
<1> QED BY <1>2, <1>4, <1>5, MoveKeeps DEF x

LEMMA ResumeKeeps ==
  ASSUME IInv, NEW t \in Tenants, NEW r \in RunIds, NEW n \in Nodes, ResumeFlow(t, r, n)
  PROVE  IInv'
<1> DEFINE x == runs[r]
           y == RunWith(x, n, "completed", x.current, "running")
<1>1. /\ RunInv(x) /\ n \in DOMAIN x.node /\ x.current \in Nodes
      /\ "running" \in RunStatus /\ "completed" \in NodeStatus
  BY DEF ResumeFlow, Reaches, IInv, RunInv, Run, RunStatus, NodeStatus
<1>2. Moves(r, y) /\ UNCHANGED <<flows, starting>> /\ caller' \in Tenants
  <2>1. y = [runs[r] EXCEPT !.node[n] = "completed", !.status = AfterResume(@)]
    BY <1>1 DEF RunInv, Run, RunWith, AfterResume
  <2> HIDE DEF y
  <2> QED BY <2>1 DEF ResumeFlow
<1> HIDE DEF x, y
<1>3. /\ y \in Run /\ DOMAIN y.node = DOMAIN x.node
      /\ DOMAIN y.node = DOMAIN y.doc.graph.nodes
      /\ y.node[n] = "completed"
      /\ \A m \in DOMAIN x.node : m # n => y.node[m] = x.node[m]
      /\ y.status = "running" /\ y.doc = x.doc /\ y.tenant = x.tenant
      /\ y.flow = x.flow /\ y.version = x.version
  <2>1. y = RunWith(x, n, "completed", x.current, "running")
    BY DEF y
  <2> QED BY <1>1, <2>1, NodeSet
<1>4. RunInv(y)
  BY <1>1, <1>3 DEF RunInv
<1> QED BY <1>2, <1>3, <1>4, MoveKeeps DEF x

LEMMA CancelKeeps ==
  ASSUME IInv, NEW t \in Tenants, NEW r \in RunIds, CancelFlow(t, r)
  PROVE  IInv'
<1> DEFINE x == runs[r]
           nodes == [n \in DOMAIN x.node |-> IF n \in Stopped(r) THEN "cancelled" ELSE x.node[n]]
           y == [x EXCEPT !.status = "cancelled", !.node = nodes]
<1>1. RunInv(x) /\ x \in Run /\ DOMAIN x.node = DOMAIN x.doc.graph.nodes
  BY DEF IInv, RunInv
<1>2. Moves(r, y) /\ UNCHANGED <<flows, starting>> /\ caller' \in Tenants
  <2>1. y = [runs[r] EXCEPT !.status = "cancelled",
               !.node = [n \in DOMAIN @ |-> IF n \in Stopped(r) THEN "cancelled" ELSE @[n]]]
    BY <1>1 DEF Run
  <2> HIDE DEF y
  <2> QED BY <2>1 DEF CancelFlow
<1>3. Stopped(r) = {n \in DOMAIN x.node : x.node[n] = "pending"}
  BY DEF Stopped
<1> HIDE DEF x
<1>4. DOMAIN x.node \subseteq Nodes /\ x.node \in [DOMAIN x.node -> NodeStatus]
  BY <1>1, NodeMap
<1>5. /\ nodes \in [DOMAIN x.node -> NodeStatus]
      /\ \A n \in DOMAIN x.node : nodes[n] # "pending"
      /\ \A n \in DOMAIN x.node : nodes[n] = "waiting_for_user" => x.node[n] = "waiting_for_user"
  BY <1>3, <1>4 DEF NodeStatus
<1> HIDE DEF nodes
<1>6. nodes \in UNION {[N -> NodeStatus] : N \in SUBSET Nodes}
  BY <1>4, <1>5
<1>7. /\ y \in Run /\ y.node = nodes /\ y.status = "cancelled" /\ y.doc = x.doc
      /\ y.tenant = x.tenant /\ y.flow = x.flow /\ y.version = x.version
  BY <1>1, <1>6 DEF Run, RunStatus
<1>8. DOMAIN nodes = DOMAIN x.node
  BY <1>5
<1> HIDE DEF y
<1>9. RunInv(y)
  BY <1>1, <1>5, <1>7, <1>8 DEF RunInv
<1> QED BY <1>2, <1>7, <1>9, MoveKeeps DEF x

LEMMA RestKeeps ==
  ASSUME IInv, UNCHANGED <<flows, starting, runs>>, caller' \in Tenants
  PROVE  IInv'
<1>1. TypeInv' /\ StoredOwned'
  BY DEF IInv, TypeInv, StoredOwned
<1>2. (\A r \in RunIds : RunInv(runs[r]))'
  BY DEF IInv, RunIds, RunInv, EndsFlow
<1>3. RunsOwnVersion'
  BY DEF IInv, RunsOwnVersion, RunIds, IsVersion
<1> QED BY <1>1, <1>2, <1>3 DEF IInv

LEMMA InvStep ==
  ASSUME IInv, [Next]_vars
  PROVE  IInv'
<1>1. CASE Store
  BY <1>1, SaveKeeps DEF Store
<1>2. ASSUME NEW t \in Tenants, Refused(t)
      PROVE  IInv'
  BY <1>2, RestKeeps DEF Refused
<1>3. CASE Start
  BY <1>2, <1>3, LoadKeeps, EmptyKeeps, CreateKeeps DEF Start, StartNotFound
<1>4. CASE Drive
  <2>1. PICK t \in Tenants :
          \/ \E r \in RunIds, n \in Nodes :
               ExecuteNode(t, r, n) \/ ExecuteApproval(t, r, n) \/ ResumeFlow(t, r, n)
          \/ \E r \in RunIds : CancelFlow(t, r)
          \/ Refused(t)
    BY <1>4 DEF Drive
  <2> QED BY <1>2, <2>1, ExecuteKeeps, ApprovalKeeps, ResumeKeeps, CancelKeeps
<1>5. CASE UNCHANGED vars
  BY <1>5, RestKeeps DEF vars, IInv, TypeInv
<1> QED BY <1>1, <1>3, <1>4, <1>5 DEF Next

LEMMA InvInit ==
  ASSUME Init
  PROVE  IInv
<1>1. RunIds = {}
  BY DEF Init, RunIds
<1>2. runs \in Seq(Run)
  BY DEF Init
<1> QED BY <1>1, <1>2
        DEF Init, IInv, TypeInv, StoredOwned, RunsOwnVersion

THEOREM Invariance == Spec => []IInv
<1>1. Init => IInv
  BY InvInit
<1>2. IInv /\ [Next]_vars => IInv'
  BY InvStep
<1> QED BY <1>1, <1>2, PTL DEF Spec

(* Definitions, calls and runs keep their shape. *)
THEOREM TypeCorrect == Spec => []TypeOK
<1>1. IInv => TypeOK
  BY DEF IInv, TypeInv, TypeOK, RunInv
<1> QED BY <1>1, Invariance, PTL

(* A run executes a version its own tenant saved, the one its start loaded. *)
THEOREM VersionPinned == Spec => []RunsOwnVersion
BY Invariance, PTL DEF IInv

(* A paused run can be resumed. *)
THEOREM PausedResumable == Spec => []PausedIsWaiting
<1>1. IInv => PausedIsWaiting
  BY DEF IInv, RunInv, PausedIsWaiting
<1> QED BY <1>1, Invariance, PTL

(* A completed run got to the end of its graph. *)
THEOREM CompletedAtEnd == Spec => []CompletedReachedEnd
<1>1. IInv => CompletedReachedEnd
  BY DEF IInv, RunInv, CompletedReachedEnd
<1> QED BY <1>1, Invariance, PTL

(* Cancelling leaves nothing to execute. *)
THEOREM CancelledIsStill == Spec => []CancelledLeavesNothing
<1>1. IInv => CancelledLeavesNothing
  BY DEF IInv, RunInv, CancelledLeavesNothing
<1> QED BY <1>1, Invariance, PTL

(* Only calls of the tenant that owns a run change it. *)
THEOREM OwnersMove == Spec => OnlyOwnerMoves
<1>1. ASSUME IInv, [Next]_vars
      PROVE  [OnlyOwnerMovesStep]_vars
  <2>1. runs \in Seq(Run)
    BY <1>1 DEF IInv, TypeInv
  <2>2. ASSUME NEW r \in RunIds, NEW y, Moves(r, y)
        PROVE  \A q \in RunIds : q # r => runs'[q] = runs[q]
    BY <2>1, <2>2 DEF Moves, RunIds
  <2>3. ASSUME NEW t \in Tenants, NEW r \in RunIds, Owns(t, r), caller' = t,
               \A q \in RunIds : q # r => runs'[q] = runs[q]
        PROVE  OnlyOwnerMovesStep
    BY <2>3 DEF OnlyOwnerMovesStep, Owns
  <2>4. ASSUME NEW t \in Tenants, NEW r \in RunIds, NEW n \in Nodes,
               ExecuteNode(t, r, n) \/ ExecuteApproval(t, r, n) \/ ResumeFlow(t, r, n)
        PROVE  OnlyOwnerMovesStep
    BY <2>2, <2>3, <2>4 DEF ExecuteNode, ExecuteApproval, ResumeFlow, Reaches
  <2>5. ASSUME NEW t \in Tenants, NEW r \in RunIds, CancelFlow(t, r)
        PROVE  OnlyOwnerMovesStep
    BY <2>2, <2>3, <2>5 DEF CancelFlow
  <2>6. ASSUME runs' = runs
        PROVE  OnlyOwnerMovesStep
    BY <2>6 DEF OnlyOwnerMovesStep
  <2>7. ASSUME NEW c \in Callers, StartCreate(c)
        PROVE  OnlyOwnerMovesStep
    <3> DEFINE call == starting[c]
               x == [tenant |-> call.tenant, flow |-> call.flow, version |-> call.version,
                     doc |-> call.doc, status |-> "running",
                     current |-> call.doc.graph.start,
                     node |-> [n \in DOMAIN call.doc.graph.nodes |-> "pending"]]
    <3>1. runs' = Append(runs, x)
      BY <2>7 DEF StartCreate, InitialNodes
    <3> HIDE DEF x
    <3>2. \A q \in RunIds : runs'[q] = runs[q]
      BY <2>1, <3>1 DEF RunIds
    <3> QED BY <3>2 DEF OnlyOwnerMovesStep
  <2>8. ASSUME Store \/ (Start /\ \A c \in Callers : ~ StartCreate(c))
               \/ (\E t \in Tenants : Refused(t))
        PROVE  runs' = runs
    BY <2>8 DEF Store, SaveFlow, Start, StartLoad, StartNotFound, StartEmpty, Refused
  <2>9. CASE Next
    BY <1>1, <2>4, <2>5, <2>6, <2>7, <2>8, <2>9 DEF Next, Start, Drive
  <2> QED BY <1>1, <2>9
<1> QED BY <1>1, Invariance, PTL DEF Spec, OnlyOwnerMoves

-----------------------------------------------------------------------------
(* What is left of "Run already in terminal state", which an approval that *)
(* still waits refutes (TerminalStaysTerminal): a run that is completed or *)
(* cancelled and has no node waiting never changes again.                  *)
SettledStaysStep ==
  \A r \in RunIds :
    /\ runs[r].status \in {"completed", "cancelled"}
    /\ \A n \in DOMAIN runs[r].node : runs[r].node[n] # "waiting_for_user"
    => runs'[r] = runs[r]

LEMMA SettledStays ==
  ASSUME IInv, [Next]_vars
  PROVE  SettledStaysStep
<1>1. runs \in Seq(Run)
  BY DEF IInv, TypeInv
<1>2. ASSUME NEW r \in RunIds, NEW y, Moves(r, y),
             \/ Active(r)
             \/ runs[r].status \notin {"completed", "cancelled"}
             \/ \E n \in DOMAIN runs[r].node : runs[r].node[n] = "waiting_for_user"
      PROVE  SettledStaysStep
  <2>1. \A q \in RunIds : q # r => runs'[q] = runs[q]
    BY <1>1, <1>2 DEF Moves, RunIds
  <2> QED BY <1>2, <2>1 DEF SettledStaysStep, Active
<1>3. ASSUME NEW t \in Tenants, NEW r \in RunIds, NEW n \in Nodes,
             ExecuteNode(t, r, n) \/ ExecuteApproval(t, r, n) \/ ResumeFlow(t, r, n)
      PROVE  SettledStaysStep
  BY <1>2, <1>3 DEF ExecuteNode, ExecuteApproval, ResumeFlow, Reaches
<1>4. ASSUME NEW t \in Tenants, NEW r \in RunIds, CancelFlow(t, r)
      PROVE  SettledStaysStep
  BY <1>2, <1>4 DEF CancelFlow
<1>5. ASSUME runs' = runs
      PROVE  SettledStaysStep
  BY <1>5 DEF SettledStaysStep
<1>6. ASSUME NEW c \in Callers, StartCreate(c)
      PROVE  SettledStaysStep
  <2>1. \E x : runs' = Append(runs, x)
    BY <1>6 DEF StartCreate
  <2>2. \A q \in RunIds : runs'[q] = runs[q]
    BY <1>1, <2>1 DEF RunIds
  <2> QED BY <2>2 DEF SettledStaysStep
<1>7. ASSUME Store \/ (Start /\ \A c \in Callers : ~ StartCreate(c))
             \/ (\E t \in Tenants : Refused(t)) \/ UNCHANGED vars
      PROVE  runs' = runs
  BY <1>7 DEF Store, SaveFlow, Start, StartLoad, StartNotFound, StartEmpty, Refused, vars
<1> QED BY <1>3, <1>4, <1>5, <1>6, <1>7 DEF Next, Start, Drive

(* A run that is completed or cancelled with no approval waiting is settled *)
(* for good: no call of any tenant, in any order, changes its record.       *)
THEOREM SettledForGood == Spec => [][SettledStaysStep]_vars
<1>1. IInv /\ [Next]_vars => [SettledStaysStep]_vars
  BY SettledStays
<1> QED BY <1>1, Invariance, PTL DEF Spec

(* Where no flow asks a user for approval, the code does what its message  *)
(* says: a run that is completed or cancelled stays so, however calls of   *)
(* all tenants interleave.                                                 *)
THEOREM TerminalWithoutApprovals ==
  ASSUME \A g \in Definitions : \A n \in DOMAIN g.nodes : g.nodes[n] # "human_approval"
  PROVE  Spec => TerminalStaysTerminal
<1> DEFINE TerminalStep == \A r \in RunIds : runs[r].status \in {"completed", "cancelled"} =>
                             runs'[r].status = runs[r].status
<1>1. ASSUME IInv, [Next]_vars
      PROVE  [TerminalStep]_vars
  <2>1. ASSUME NEW r \in RunIds, NEW n \in DOMAIN runs[r].node
        PROVE  runs[r].node[n] # "waiting_for_user"
    <3>1. RunInv(runs[r])
      BY <1>1 DEF IInv
    <3>2. runs[r].doc.graph \in Definitions
      BY <3>1 DEF RunInv, Run, Document
    <3> QED BY <2>1, <3>1, <3>2 DEF RunInv
  <2> QED BY <1>1, <2>1, SettledStays DEF SettledStaysStep
<1> QED BY <1>1, Invariance, PTL DEF Spec, TerminalStaysTerminal
=============================================================================
