---------------------------- MODULE SchemaRegistry ----------------------------
(***************************************************************************)
(* The registry of schemas (src/server/src/engine/flows/                   *)
(* schema-registry-dag) over the database of Documents: the registration   *)
(* gateway classifies a schema, the approval workflow decides on a         *)
(* breaking one, the publisher makes a version ACTIVE and the one before   *)
(* it SUPERSEDED, the deprecation manager retires one.                     *)
(*                                                                         *)
(* One tenant, one schema type.  The services meet in the database and     *)
(* through events, each delivered any number of times; calls interleave at *)
(* every await.  Audit documents are left out: nothing reads them back.    *)
(***************************************************************************)
EXTENDS Documents, Integers, FiniteSets

CONSTANTS
  Schemas,        \* what is registered: JSON schemas
  Declared,       \* schema -> the version it counts from: its own 'version' key
                  \* as three numbers, <<1, 0, 0>> when it has none
  Breaks,         \* <<old, new>>: new removes or changes what old has
  Keys,           \* idempotency keys: the version a request names, or 'auto'
  Registrations,  \* calls of register
  Workflows,      \* calls of processApproval; the token of one is its name
  Publications,   \* calls of publish
  Deprecations,   \* calls of deprecate
  None,           \* no value
  NaN,            \* what a piece of a version that is no number is read as
  MaxFaults       \* bound: database calls that fail

(* bumpVersion counts from the version the previous JSON schema declares,  *)
(* not from the one its document has in the registry.                      *)
Plus1(n) == IF n = NaN THEN NaN ELSE n + 1
Bumped(version, change) ==
  IF change = "BREAKING" THEN <<Plus1(version[1]), 0, 0>>
  ELSE <<version[1], Plus1(version[2]), version[3]>>

Changes == {"ADDITIVE", "BREAKING"}
First == <<1, 0, 0>>
Versions == {First} \cup {Bumped(Declared[s], change) : s \in Schemas, change \in Changes}
Statuses == {"ACTIVE", "SUPERSEDED", "DEPRECATED"}
Bodies == [schema : Schemas, change : Changes, status : Statuses]

ASSUME RegistryAssumption ==
  /\ Declared \in [Schemas -> (Int \cup {NaN}) \X (Int \cup {NaN}) \X (Int \cup {NaN})]
  /\ NaN \notin Int
  /\ DocIds = Versions
  /\ NoDoc \notin DocumentsOf(Bodies)
  /\ Breaks \subseteq Schemas \X Schemas
  /\ None \notin Schemas \cup Changes \cup Workflows \cup Keys /\ None \notin Versions
  /\ MaxFaults \in Nat

VARIABLES
  oldest,  \* the version stored first, which a search returns first; or None
  keys,    \* keys in the idempotency index: of requests, workflows and tokens
  events,  \* events enqueued: [type, schema, version, token]
  reg, flow, pub, dep,  \* the calls
  faults

calls == <<reg, flow, pub, dep>>
vars == <<db, oldest, keys, events, calls, faults>>

RequestKey(k) == <<"request", k>>
WorkflowKey(v) == <<"workflow", v>>
TokenKey(w) == <<"token", w>>

(* A call that has not started, or has returned, has no locals. *)
NoReg(pc) == [pc |-> pc, schema |-> None, key |-> None, change |-> None, version |-> None]
NoFlow(pc) == [pc |-> pc, schema |-> None, version |-> None]
NoPub(pc) == [pc |-> pc, event |-> None, read |-> NoDoc, pending |-> {}]
NoDep(pc) == [pc |-> pc, version |-> None, read |-> NoDoc]

Init ==
  /\ db = [v \in DocIds |-> NoDoc] /\ oldest = None
  /\ keys = {} /\ events = {} /\ faults = 0
  /\ reg = [r \in Registrations |-> NoReg("idle")]
  /\ flow = [w \in Workflows |-> NoFlow("idle")]
  /\ pub = [p \in Publications |-> NoPub("idle")]
  /\ dep = [d \in Deprecations |-> NoDep("idle")]

Emit(type, schema, version, token) ==
  events' = events \cup
    {[type |-> type, schema |-> schema, version |-> version, token |-> token]}

(* A call of the database that fails.  A search that does counts as one    *)
(* that finds nothing, a read as one of a document that is not there.      *)
Fault == faults < MaxFaults /\ faults' = faults + 1

(* storeDocument into the idempotency index; the result is not looked at. *)
StoreKey(key) ==
  \/ keys' = keys \cup {key} /\ UNCHANGED faults
  \/ Fault /\ UNCHANGED keys
NotFound(key) ==
  \/ key \notin keys /\ UNCHANGED faults
  \/ Fault

-----------------------------------------------------------------------------
(* SchemaRegistrationGatewayService.register *)
AtR(r, pc) == reg[r].pc = pc
GoR(r, pc) == reg' = [reg EXCEPT ![r].pc = pc]
ReturnR(r) == reg' = [reg EXCEPT ![r] = NoReg("done")]

Register(r, s, k) ==
  /\ AtR(r, "idle")
  /\ reg' = [reg EXCEPT ![r] =
       [pc |-> "search", schema |-> s, key |-> k, change |-> None, version |-> None]]
  /\ UNCHANGED <<db, oldest, keys, events, flow, pub, dep, faults>>

DuplicateRequest(r) ==
  /\ AtR(r, "search") /\ RequestKey(reg[r].key) \in keys
  /\ ReturnR(r)
  /\ UNCHANGED <<db, oldest, keys, events, flow, pub, dep, faults>>

NewRequest(r) ==
  /\ AtR(r, "search") /\ NotFound(RequestKey(reg[r].key))
  /\ GoR(r, "key")
  /\ UNCHANGED <<db, oldest, keys, events, flow, pub, dep>>

StoreRequest(r) ==
  /\ AtR(r, "key")
  /\ StoreKey(RequestKey(reg[r].key))
  /\ GoR(r, "fetch")
  /\ UNCHANGED <<db, oldest, events, flow, pub, dep>>

(* The search for activeUntil: null finds documents of any status, for a   *)
(* filter that is null is dropped; the first one counts as the previous    *)
(* version.  Then, without an await, classify and the cycle check.         *)
Change(prev, s) ==
  IF prev # None /\ <<db[prev].body.schema, s>> \in Breaks THEN "BREAKING" ELSE "ADDITIVE"
NextVersion(prev, s) ==
  IF prev = None THEN First ELSE Bumped(Declared[db[prev].body.schema], Change(prev, s))

Classify(r) ==
  /\ AtR(r, "fetch")
  /\ \E prev \in {oldest, None} :
       /\ reg' = [reg EXCEPT ![r] =
            [pc |-> "announce", schema |-> reg[r].schema, key |-> reg[r].key,
             change |-> Change(prev, reg[r].schema), version |-> NextVersion(prev, reg[r].schema)]]
       /\ \/ prev = oldest /\ UNCHANGED faults
          \/ prev = None /\ Fault
  /\ UNCHANGED <<db, oldest, keys, events, flow, pub, dep>>

CycleDetected(r) ==
  /\ AtR(r, "fetch")
  /\ ReturnR(r)
  /\ UNCHANGED <<db, oldest, keys, events, flow, pub, dep, faults>>

Route(change) == IF change = "BREAKING" THEN "SchemaApprovalRequired" ELSE "SchemaQueued"

AnnounceRequest(r) ==
  /\ AtR(r, "announce")
  /\ Emit(Route(reg[r].change), reg[r].schema, reg[r].version, None)
  /\ ReturnR(r)
  /\ UNCHANGED <<db, oldest, keys, flow, pub, dep, faults>>

-----------------------------------------------------------------------------
(* SchemaApprovalWorkflowService.processApproval *)
AtW(w, pc) == flow[w].pc = pc
GoW(w, pc) == flow' = [flow EXCEPT ![w].pc = pc]
ReturnW(w) == flow' = [flow EXCEPT ![w] = NoFlow("done")]

ApprovalRequired(w, event) ==
  /\ AtW(w, "idle")
  /\ event.type = "SchemaApprovalRequired"
  /\ flow' = [flow EXCEPT ![w] = [pc |-> "search", schema |-> event.schema, version |-> event.version]]
  /\ UNCHANGED <<db, oldest, keys, events, reg, pub, dep, faults>>

DuplicateWorkflow(w) ==
  /\ AtW(w, "search") /\ WorkflowKey(flow[w].version) \in keys
  /\ ReturnW(w)
  /\ UNCHANGED <<db, oldest, keys, events, reg, pub, dep, faults>>

NewWorkflow(w) ==
  /\ AtW(w, "search") /\ NotFound(WorkflowKey(flow[w].version))
  /\ GoW(w, "key")
  /\ UNCHANGED <<db, oldest, keys, events, reg, pub, dep>>

StoreWorkflow(w) ==
  /\ AtW(w, "key")
  /\ StoreKey(WorkflowKey(flow[w].version))
  /\ GoW(w, "decide")
  /\ UNCHANGED <<db, oldest, events, reg, pub, dep>>

Approve(w) ==
  /\ AtW(w, "decide")
  /\ StoreKey(TokenKey(w))
  /\ GoW(w, "granted")
  /\ UNCHANGED <<db, oldest, events, reg, pub, dep>>

AnnounceGranted(w) ==
  /\ AtW(w, "granted")
  /\ Emit("SchemaApprovalGranted", flow[w].schema, flow[w].version, w)
  /\ GoW(w, "approved")
  /\ UNCHANGED <<db, oldest, keys, reg, pub, dep, faults>>

(* REJECT and DEFER: an event nothing here listens to. *)
NotApproved(w) ==
  /\ AtW(w, "decide")
  /\ ReturnW(w)
  /\ UNCHANGED <<db, oldest, keys, events, reg, pub, dep, faults>>

-----------------------------------------------------------------------------
(* SchemaPublisherService.publish, for SchemaQueued (ADDITIVE) and         *)
(* SchemaApprovalGranted (BREAKING).                                       *)
AtP(p, pc) == pub[p].pc = pc
GoP(p, pc) == pub' = [pub EXCEPT ![p].pc = pc]
ReturnP(p) == pub' = [pub EXCEPT ![p] = NoPub("done")]
Version(p) == pub[p].event.version
ChangeOf(p) == IF pub[p].event.type = "SchemaQueued" THEN "ADDITIVE" ELSE "BREAKING"

Publish(p, event) ==
  /\ AtP(p, "idle")
  /\ event.type \in {"SchemaQueued", "SchemaApprovalGranted"}
  /\ pub' = [pub EXCEPT ![p] =
       [pc |-> IF event.type = "SchemaQueued" THEN "read" ELSE "token",
        event |-> event, read |-> NoDoc, pending |-> {}]]
  /\ UNCHANGED <<db, oldest, keys, events, reg, flow, dep, faults>>

TokenValid_Any(p) == TRUE \* mutant: whatever token there is will do
TokenValid(p) == TokenKey(pub[p].event.token) \in keys

CheckToken(p) ==
  /\ AtP(p, "token") /\ TokenValid(p)
  /\ GoP(p, "read")
  /\ UNCHANGED <<db, oldest, keys, events, reg, flow, dep, faults>>

Blocked(p) ==
  /\ AtP(p, "token")
  /\ \/ ~ TokenValid(p) /\ UNCHANGED faults
     \/ Fault
  /\ ReturnP(p)
  /\ UNCHANGED <<db, oldest, keys, events, reg, flow, dep>>

(* getDocumentWithVersion: any failure of it counts as a new version.      *)
ReadVersion(p) ==
  /\ AtP(p, "read")
  /\ \E doc \in {db[Version(p)], NoDoc} :
       /\ pub' = [pub EXCEPT ![p] = [@ EXCEPT !.pc = "store", !.read = doc]]
       /\ \/ doc = db[Version(p)] /\ UNCHANGED faults
          \/ doc = NoDoc /\ Fault
  /\ UNCHANGED <<db, oldest, keys, events, reg, flow, dep>>

SchemaDoc(p) == [schema |-> pub[p].event.schema, change |-> ChangeOf(p), status |-> "ACTIVE"]

AfterStore_Done == "supersede" \* mutant: what is active is not looked up
AfterStore == "search"

(* A version that was not found is stored plainly ... *)
StoreNew(p) ==
  /\ AtP(p, "store") /\ pub[p].read = NoDoc
  /\ StoreDocument(Version(p), Fresh(SchemaDoc(p)))
  /\ oldest' = IF oldest = None THEN Version(p) ELSE oldest
  /\ GoP(p, AfterStore)
  /\ UNCHANGED <<keys, events, reg, flow, dep, faults>>

(* ... and one that was, if its sequence number is still the one read. *)
StoreOver(p) ==
  /\ AtP(p, "store") /\ pub[p].read # NoDoc
  /\ StoreDocumentWithOCC(Version(p), SchemaDoc(p), pub[p].read.seqNo)
  /\ GoP(p, AfterStore)
  /\ UNCHANGED <<oldest, keys, events, reg, flow, dep, faults>>

PublishConflict(p) ==
  /\ AtP(p, "store") /\ pub[p].read # NoDoc
  /\ Conflict(Version(p), pub[p].read.seqNo)
  /\ ReturnP(p)
  /\ UNCHANGED <<db, oldest, keys, events, reg, flow, dep, faults>>

PublishFault(p) ==
  /\ AtP(p, "store")
  /\ Fault
  /\ ReturnP(p)
  /\ UNCHANGED <<db, oldest, keys, events, reg, flow, dep>>

(* The versions that are ACTIVE, but for the one just stored. *)
Active(v) == Stored(v) /\ db[v].body.status = "ACTIVE"
OthersActive(v) == {[id |-> w, doc |-> db[w]] : w \in {x \in Versions \ {v} : Active(x)}}

FindActive(p) ==
  /\ AtP(p, "search")
  /\ \E found \in {OthersActive(Version(p)), {}} :
       /\ pub' = [pub EXCEPT ![p] = [@ EXCEPT !.pc = "supersede", !.pending = found]]
       /\ \/ found = OthersActive(Version(p)) /\ UNCHANGED faults
          \/ found = {} /\ Fault
  /\ UNCHANGED <<db, oldest, keys, events, reg, flow, dep>>

(* The copy found is stored again, with the number it was read with. *)
WithStatus(doc, status) == [doc EXCEPT !.body = [@ EXCEPT !.status = status]]

Supersede(p, prev) ==
  /\ AtP(p, "supersede")
  /\ \/ StoreDocument(prev.id, WithStatus(prev.doc, "SUPERSEDED")) /\ UNCHANGED faults
     \/ Fault /\ UNCHANGED db
  /\ pub' = [pub EXCEPT ![p].pending = @ \ {prev}]
  /\ UNCHANGED <<oldest, keys, events, reg, flow, dep>>

AnnouncePublished(p) ==
  /\ AtP(p, "supersede") /\ pub[p].pending = {}
  /\ ReturnP(p)
  /\ UNCHANGED <<db, oldest, keys, events, reg, flow, dep, faults>>

-----------------------------------------------------------------------------
(* SchemaDeprecationManagerService.deprecate, of whatever version there is *)
Deprecate(d, v) ==
  /\ dep[d].pc = "idle"
  /\ \/ /\ Stored(v)
        /\ dep' = [dep EXCEPT ![d] = [pc |-> "store", version |-> v, read |-> db[v]]]
        /\ UNCHANGED faults
     \/ /\ (~ Stored(v) /\ UNCHANGED faults) \/ Fault
        /\ dep' = [dep EXCEPT ![d] = NoDep("done")]
  /\ UNCHANGED <<db, oldest, keys, events, reg, flow, pub>>

StoreDeprecated(d) ==
  /\ dep[d].pc = "store"
  /\ \/ StoreDocument(dep[d].version, WithStatus(dep[d].read, "DEPRECATED")) /\ UNCHANGED faults
     \/ Fault /\ UNCHANGED db
  /\ dep' = [dep EXCEPT ![d] = NoDep("done")]
  /\ UNCHANGED <<oldest, keys, events, reg, flow, pub>>

-----------------------------------------------------------------------------
RegisterStep(r) ==
  \/ DuplicateRequest(r) \/ NewRequest(r) \/ StoreRequest(r) \/ Classify(r) \/ CycleDetected(r)
  \/ AnnounceRequest(r)

WorkflowStep(w) ==
  \/ DuplicateWorkflow(w) \/ NewWorkflow(w) \/ StoreWorkflow(w) \/ Approve(w) \/ AnnounceGranted(w)
  \/ NotApproved(w)

PublishStep(p) ==
  \/ CheckToken(p) \/ Blocked(p) \/ ReadVersion(p) \/ StoreNew(p) \/ StoreOver(p)
  \/ PublishConflict(p) \/ PublishFault(p) \/ FindActive(p)
  \/ (\E prev \in pub[p].pending : Supersede(p, prev)) \/ AnnouncePublished(p)

Next ==
  \/ \E r \in Registrations : (\E s \in Schemas, k \in Keys : Register(r, s, k)) \/ RegisterStep(r)
  \/ \E w \in Workflows : (\E event \in events : ApprovalRequired(w, event)) \/ WorkflowStep(w)
  \/ \E p \in Publications : (\E event \in events : Publish(p, event)) \/ PublishStep(p)
  \/ \E d \in Deprecations : (\E v \in Versions : Deprecate(d, v)) \/ StoreDeprecated(d)

Spec == Init /\ [][Next]_vars

-----------------------------------------------------------------------------
Docs == DocumentsOf(Bodies)

Events ==
  [type : {"SchemaQueued", "SchemaApprovalRequired", "SchemaApprovalGranted"},
   schema : Schemas, version : Versions, token : Workflows \cup {None}]

RegState ==
  [pc : {"idle", "search", "key", "fetch", "announce", "done"},
   schema : Schemas \cup {None}, key : Keys \cup {None},
   change : Changes \cup {None}, version : Versions \cup {None}]
FlowState ==
  [pc : {"idle", "search", "key", "decide", "granted", "approved", "done"},
   schema : Schemas \cup {None}, version : Versions \cup {None}]
PubState ==
  [pc : {"idle", "token", "read", "store", "search", "supersede", "done"},
   event : Events \cup {None}, read : Docs \cup {NoDoc},
   pending : SUBSET [id : Versions, doc : Docs]]
DepState ==
  [pc : {"idle", "store", "done"}, version : Versions \cup {None}, read : Docs \cup {NoDoc}]

SchemaTypeOK ==
  /\ db \in [Versions -> Docs \cup {NoDoc}]
  /\ oldest \in Versions \cup {None}
  /\ oldest = None => \A v \in Versions : ~ Stored(v)
  /\ oldest # None => Stored(oldest)
  /\ events \subseteq Events
  /\ reg \in [Registrations -> RegState] /\ flow \in [Workflows -> FlowState]
  /\ pub \in [Publications -> PubState] /\ dep \in [Deprecations -> DepState]
  /\ faults \in Nat

(* Whoever publishes supersedes what is ACTIVE: when no publication is on  *)
(* its way from its store to the end of its loop, one version at most is   *)
(* ACTIVE, however calls interleaved, unless the database failed.          *)
Superseding(p) == pub[p].pc \in {"search", "supersede"}

OneActive ==
  faults = 0 /\ (\A p \in Publications : ~ Superseding(p)) =>
    \A v, w \in Versions : Active(v) /\ Active(w) => v = w

(* A document of the registry that says BREAKING got there through an      *)
(* approval of its schema whose token is on record, whichever version      *)
(* number it has, however often events are delivered and whatever fails.   *)
BreakingWasApproved ==
  \A v \in Versions : Stored(v) /\ db[v].body.change = "BREAKING" =>
    \E w \in Workflows : /\ AtW(w, "approved") /\ flow[w].schema = db[v].body.schema
                          /\ TokenKey(w) \in keys

(* A publication replaces no other schema than the one it has read under   *)
(* that version: two that publish the same new version at once do not lose *)
(* one of them (the rule CF-11-2 of engine-contracts/                      *)
(* schema-registry-dag-bfa-rules.ts).                                      *)
NoSilentOverwriteStep ==
  \A p \in Publications :
    /\ AtP(p, "store") /\ Superseding(p)'
    /\ Stored(Version(p)) /\ db[Version(p)].body.schema # pub[p].event.schema
    => db[Version(p)] = pub[p].read
NoSilentOverwrite == [][NoSilentOverwriteStep]_vars
=============================================================================
