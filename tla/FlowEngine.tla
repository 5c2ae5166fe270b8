----------------------------- MODULE FlowEngine -----------------------------
(***************************************************************************)
(* The flow-engine fabric as the application binds it: the versioned store *)
(* of flow definitions (in-memory-flow-store.ts) and the orchestrator of   *)
(* their runs (in-memory-orchestrator.ts), both in                         *)
(* src/server/src/fabrics/flow-engine.                                     *)
(*                                                                         *)
(* Every method is atomic but startFlow, which awaits the load of the      *)
(* definition before it creates the run.  A method may be called at any    *)
(* time on any run and node: the orchestrator keeps no schedule of its     *)
(* own, its callers walk the graph with the next nodes it returns.         *)
(***************************************************************************)
EXTENDS Naturals, Sequences

CONSTANTS
  Tenants, Flows, Nodes,
  Callers,      \* calls of startFlow that may overlap
  Definitions,  \* graphs a tenant may save
  NoCall,       \* the caller is not inside startFlow
  MaxVersions,  \* bound: versions saved per key
  MaxRuns       \* bound: runs created

NodeTypes == {"start", "task", "human_approval", "end"}

(* nodes: node_id -> type; start is the node startFlow picks (the first of *)
(* type start or marked is_start, else the first); an edge may name a      *)
(* target that is no node.                                                 *)
ASSUME DefinitionsAssumption ==
  \A g \in Definitions :
    /\ DOMAIN g = {"nodes", "edges", "start"}
    /\ DOMAIN g.nodes \subseteq Nodes
    /\ \A n \in DOMAIN g.nodes : g.nodes[n] \in NodeTypes
    /\ g.edges \subseteq (DOMAIN g.nodes) \X Nodes
    /\ g.start \in Nodes
    /\ DOMAIN g.nodes # {} => g.start \in DOMAIN g.nodes
ASSUME RunBounds == MaxVersions \in Nat /\ MaxRuns \in Nat

VARIABLES
  flows,     \* `${tenantId}:${flowId}` -> versions, oldest first
  starting,  \* caller -> the startFlow call that awaits its definition
  runs,      \* run_id -> run state, run_ids numbered in order of creation
  caller     \* tenant of the last call

vars == <<flows, starting, runs, caller>>

(* Tenant ids are uuids or slugs and hold no ":", so the joined key         *)
(* determines both its parts.                                              *)
FlowKey_NoTenant(t, f) == <<CHOOSE x \in Tenants : TRUE, f>> \* mutant: key is the flowId
FlowKey(t, f) == <<t, f>>

Document == [tenant : Tenants, graph : Definitions]
RunStatus == {"running", "paused", "completed", "cancelled"}
\* executeNode sets a node running and settles it in the same step.
NodeStatus == {"pending", "completed", "waiting_for_user", "cancelled"}

Init ==
  /\ flows = [k \in Tenants \X Flows |-> <<>>]
  /\ starting = [c \in Callers |-> NoCall]
  /\ runs = <<>>
  /\ caller \in Tenants

(* A call answered with a failure (a run that is not there, one of another *)
(* tenant, a node that is not in the flow ...) and getRunStatus, loadFlow  *)
(* and listFlows, which only read, change nothing.                         *)
Refused(t) == caller' = t /\ UNCHANGED <<flows, starting, runs>>

-----------------------------------------------------------------------------
(* saveFlow: every save is a new version stamped with the caller's tenant. *)
SaveFlow(t, f, g) ==
  /\ Len(flows[FlowKey(t, f)]) < MaxVersions
  /\ flows' = [flows EXCEPT ![FlowKey(t, f)] = Append(@, [tenant |-> t, graph |-> g])]
  /\ caller' = t
  /\ UNCHANGED <<starting, runs>>

(* loadFlow without a version: the latest.                                 *)
Versions(t, f) == flows[FlowKey(t, f)]
Latest(t, f) == Versions(t, f)[Len(Versions(t, f))]

(* startFlow up to its await: the store has answered with a copy.          *)
StartLoad(c, t, f) ==
  /\ starting[c] = NoCall
  /\ Versions(t, f) # <<>>
  /\ starting' = [starting EXCEPT ![c] =
       [tenant |-> t, flow |-> f, doc |-> Latest(t, f), version |-> Len(Versions(t, f))]]
  /\ caller' = t
  /\ UNCHANGED <<flows, runs>>

StartNotFound(t, f) == Versions(t, f) = <<>> /\ Refused(t)

(* The rest of startFlow: an empty flow is refused, any other gets a run.  *)
StartEmpty(c) ==
  /\ starting[c] # NoCall
  /\ DOMAIN starting[c].doc.graph.nodes = {}
  /\ starting' = [starting EXCEPT ![c] = NoCall]
  /\ caller' = starting[c].tenant
  /\ UNCHANGED <<flows, runs>>

InitialNodes_StartOnly(g) == [n \in {g.start} |-> "pending"] \* mutant
InitialNodes(g) == [n \in DOMAIN g.nodes |-> "pending"]

StartCreate(c) ==
  LET call == starting[c]
      graph == call.doc.graph
  IN  /\ call # NoCall
      /\ DOMAIN graph.nodes # {}
      /\ Len(runs) < MaxRuns
      /\ runs' = Append(runs,
           [tenant |-> call.tenant, flow |-> call.flow, version |-> call.version,
            doc |-> call.doc, status |-> "running", current |-> graph.start,
            node |-> InitialNodes(graph)])
      /\ starting' = [starting EXCEPT ![c] = NoCall]
      /\ caller' = call.tenant
      /\ UNCHANGED flows

-----------------------------------------------------------------------------
RunIds == DOMAIN runs
TypeOfNode(r, n) == runs[r].doc.graph.nodes[n]
NextNodes_Swapped(r, n) == \* mutant: source and target swapped
  {e[1] : e \in {x \in runs[r].doc.graph.edges : x[2] = n}}
NextNodes(r, n) == {e[2] : e \in {x \in runs[r].doc.graph.edges : x[1] = n}}

Owns_Anyone(t, r) == TRUE \* mutant: no TENANT_MISMATCH
Owns(t, r) == runs[r].tenant = t
Active(r) == runs[r].status \in {"running", "paused"}

Moves(r, run) == runs' = [runs EXCEPT ![r] = run]

(* The part of every method that finds the run and its node.               *)
Reaches(t, r, n) == r \in RunIds /\ Owns(t, r) /\ n \in DOMAIN runs[r].node

Finishes(r, n) == NextNodes(r, n) = {} \/ TypeOfNode(r, n) = "end"

(* executeNode: neither the node's own status nor its predecessors matter. *)
ExecuteNode(t, r, n) ==
  /\ Reaches(t, r, n) /\ Active(r)
  /\ TypeOfNode(r, n) # "human_approval"
  /\ Moves(r, [runs[r] EXCEPT
       !.node[n] = "completed",
       !.current = n,
       !.status = IF Finishes(r, n) THEN "completed" ELSE @])
  /\ caller' = t /\ UNCHANGED <<flows, starting>>

ExecuteApproval(t, r, n) ==
  /\ Reaches(t, r, n) /\ Active(r)
  /\ TypeOfNode(r, n) = "human_approval"
  /\ Moves(r, [runs[r] EXCEPT
       !.node[n] = "waiting_for_user", !.current = n, !.status = "paused"])
  /\ caller' = t /\ UNCHANGED <<flows, starting>>

(* resumeFlow looks at the node only.                                      *)
AfterResume_Same(status) == status \* mutant: the run stays as it was
AfterResume(status) == "running"

ResumeFlow(t, r, n) ==
  /\ Reaches(t, r, n)
  /\ runs[r].node[n] = "waiting_for_user"
  /\ Moves(r, [runs[r] EXCEPT !.node[n] = "completed", !.status = AfterResume(@)])
  /\ caller' = t /\ UNCHANGED <<flows, starting>>

Stopped_Current(r) == \* mutant: only the current node is cancelled
  {n \in DOMAIN runs[r].node : runs[r].node[n] = "pending" /\ n = runs[r].current}
Stopped(r) == {n \in DOMAIN runs[r].node : runs[r].node[n] = "pending"}

CancelFlow(t, r) ==
  /\ r \in RunIds /\ Owns(t, r)
  /\ runs[r].status \notin {"completed", "cancelled"}
  /\ Moves(r, [runs[r] EXCEPT
       !.status = "cancelled",
       !.node = [n \in DOMAIN @ |-> IF n \in Stopped(r) THEN "cancelled" ELSE @[n]]])
  /\ caller' = t /\ UNCHANGED <<flows, starting>>

Store == \E t \in Tenants, f \in Flows, g \in Definitions : SaveFlow(t, f, g)

Start ==
  \/ \E c \in Callers, t \in Tenants, f \in Flows : StartLoad(c, t, f)
  \/ \E t \in Tenants, f \in Flows : StartNotFound(t, f)
  \/ \E c \in Callers : StartEmpty(c) \/ StartCreate(c)

Drive ==
  \E t \in Tenants :
    \/ \E r \in RunIds, n \in Nodes :
         ExecuteNode(t, r, n) \/ ExecuteApproval(t, r, n) \/ ResumeFlow(t, r, n)
    \/ \E r \in RunIds : CancelFlow(t, r)
    \/ Refused(t)

Next == Store \/ Start \/ Drive
Spec == Init /\ [][Next]_vars

-----------------------------------------------------------------------------
Call == [tenant : Tenants, flow : Flows, doc : Document, version : Nat]

Run ==
  [tenant : Tenants, flow : Flows, version : Nat, doc : Document, status : RunStatus,
   current : Nodes, node : UNION {[N -> NodeStatus] : N \in SUBSET Nodes}]

TypeOK ==
  /\ flows \in [Tenants \X Flows -> Seq(Document)]
  /\ starting \in [Callers -> Call \cup {NoCall}]
  /\ runs \in Seq(Run)
  /\ \A r \in RunIds : DOMAIN runs[r].node = DOMAIN runs[r].doc.graph.nodes
  /\ caller \in Tenants

(* A run is driven by one saved version of its own tenant's flow, however  *)
(* saves and starts of all tenants interleave: the version its start call  *)
(* loaded, never a later one.                                              *)
IsVersion(t, f, v, doc) ==
  /\ doc.tenant = t
  /\ v \in 1..Len(flows[<<t, f>>]) /\ flows[<<t, f>>][v] = doc
RunsOwnVersion ==
  /\ \A c \in Callers : starting[c] # NoCall =>
       LET x == starting[c] IN IsVersion(x.tenant, x.flow, x.version, x.doc)
  /\ \A r \in RunIds :
       LET x == runs[r] IN IsVersion(x.tenant, x.flow, x.version, x.doc)

(* A paused run has a node that waits for the user, so it can be resumed.  *)
PausedIsWaiting ==
  \A r \in RunIds : runs[r].status = "paused" =>
    \E n \in DOMAIN runs[r].node : runs[r].node[n] = "waiting_for_user"

(* A completed run has completed a node that ends its flow: one of type    *)
(* end, or one no edge leaves.                                             *)
EndsFlow(g, n) == g.nodes[n] = "end" \/ \A e \in g.edges : e[1] # n
CompletedReachedEnd ==
  \A r \in RunIds : runs[r].status = "completed" =>
    \E n \in DOMAIN runs[r].node :
      runs[r].node[n] = "completed" /\ EndsFlow(runs[r].doc.graph, n)

(* A cancelled run leaves no node that is still to be executed.            *)
CancelledLeavesNothing ==
  \A r \in RunIds : runs[r].status = "cancelled" =>
    \A n \in DOMAIN runs[r].node : runs[r].node[n] # "pending"

(* A run changes only by a call of the tenant that owns it.                *)
OnlyOwnerMovesStep ==
  \A r \in RunIds : runs'[r] # runs[r] => caller' = runs[r].tenant
OnlyOwnerMoves == [][OnlyOwnerMovesStep]_vars

(* "Run already in terminal state": a completed or cancelled run stays so. *)
TerminalStaysTerminal ==
  [][\A r \in RunIds : runs[r].status \in {"completed", "cancelled"} =>
       runs'[r].status = runs[r].status]_vars
=============================================================================
