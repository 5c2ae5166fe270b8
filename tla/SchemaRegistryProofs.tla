------------------------- MODULE SchemaRegistryProofs -------------------------
(* Theorems about the registry of schemas, for every set of schemas, keys  *)
(* and calls, whatever versions the schemas declare and whichever break    *)
(* which, and every bound on the faults.                                   *)
EXTENDS SchemaRegistry, TLAPS

USE RegistryAssumption

PublishTypes == {"SchemaQueued", "SchemaApprovalGranted"}

(* Workflow w has granted schema s, and its token is on record. *)
Granted(w, s) == AtW(w, "approved") /\ flow[w].schema = s
OnRecord(s) == \E w \in Workflows : Granted(w, s) /\ TokenKey(w) \in keys

GoodEvent(e) ==
  /\ e \in Events
  /\ e.type = "SchemaApprovalGranted" => e.token \in Workflows /\ Granted(e.token, e.schema)

GoodDoc(doc) ==
  /\ doc \in Docs
  /\ doc.body.change = "BREAKING" => OnRecord(doc.body.schema)

DbGood ==
  /\ db \in [Versions -> Docs \cup {NoDoc}]
  /\ oldest \in Versions \cup {None}
  /\ oldest = None => \A v \in Versions : ~ Stored(v)
  /\ oldest # None => Stored(oldest)
  /\ \A v \in Versions : Stored(v) => GoodDoc(db[v])

EventsGood == \A e \in events : GoodEvent(e)

RegGood ==
  /\ reg \in [Registrations -> RegState]
  /\ \A r \in Registrations :
       /\ reg[r].pc \notin {"idle", "done"} => reg[r].schema \in Schemas /\ reg[r].key \in Keys
       /\ AtR(r, "announce") =>
            reg[r].change \in Changes /\ reg[r].version \in Versions

FlowGood ==
  /\ flow \in [Workflows -> FlowState]
  /\ \A w \in Workflows : flow[w].pc \notin {"idle", "done"} =>
       flow[w].schema \in Schemas /\ flow[w].version \in Versions

(* A publication has an event to publish, the token of it once it is past  *)
(* the check, and what it is to supersede are other versions.              *)
PubGoodOf(p) ==
  /\ pub[p].pc \notin {"idle", "done"} =>
       pub[p].event \in events /\ pub[p].event.type \in PublishTypes
  /\ pub[p].pc \notin {"idle", "done", "token"} /\ pub[p].event.type = "SchemaApprovalGranted" =>
       TokenValid(p)
  /\ pub[p].pc # "supersede" => pub[p].pending = {}
  /\ pub[p].read # NoDoc => oldest # None
  /\ \A x \in pub[p].pending : GoodDoc(x.doc) /\ oldest # None

PubGood ==
  /\ pub \in [Publications -> PubState]
  /\ \A p \in Publications : PubGoodOf(p)

DepGood ==
  /\ dep \in [Deprecations -> DepState]
  /\ \A d \in Deprecations : dep[d].pc = "store" =>
       dep[d].version \in Versions /\ GoodDoc(dep[d].read) /\ oldest # None

(* Of two versions that are ACTIVE, one was published by a publication     *)
(* that has the other one still to supersede.                              *)
Covers(p, v, w) ==
  \/ AtP(p, "search") /\ Version(p) = v
  \/ AtP(p, "supersede") /\ Version(p) = v /\ \E x \in pub[p].pending : x.id = w

Covered ==
  \A v, w \in Versions : Active(v) /\ Active(w) /\ v # w =>
    \E p \in Publications : Covers(p, v, w) \/ Covers(p, w, v)

Inv ==
  /\ DbGood /\ EventsGood /\ RegGood /\ FlowGood /\ PubGood /\ DepGood
  /\ faults \in Nat
  /\ faults = 0 => Covered

-----------------------------------------------------------------------------
(* What lasts: keys and events are only added, a grant is final. *)
Lasts ==
  /\ keys \subseteq keys' /\ events \subseteq events'
  /\ \A w \in Workflows : AtW(w, "approved") => flow'[w] = flow[w]
  /\ oldest # None => oldest' = oldest
  /\ faults \in Nat /\ faults' \in Nat /\ faults <= faults'

LEMMA GrantLasts ==
  ASSUME Lasts, NEW w \in Workflows, NEW s, Granted(w, s)
  PROVE  Granted(w, s)'
  BY DEF Lasts, Granted, AtW

LEMMA RecordLasts ==
  ASSUME Lasts, NEW s, OnRecord(s)
  PROVE  OnRecord(s)'
<1>1. PICK w \in Workflows : Granted(w, s) /\ TokenKey(w) \in keys
  BY DEF OnRecord
<1>2. Granted(w, s)' /\ TokenKey(w) \in keys'
  BY <1>1, GrantLasts DEF Lasts
<1> QED BY <1>2 DEF OnRecord, TokenKey

LEMMA GoodEventLasts ==
  ASSUME Lasts, NEW e, GoodEvent(e)
  PROVE  GoodEvent(e)'
  BY GrantLasts DEF GoodEvent

LEMMA GoodDocLasts ==
  ASSUME Lasts, NEW doc, GoodDoc(doc)
  PROVE  GoodDoc(doc)'
  BY RecordLasts DEF GoodDoc

LEMMA NewStatus ==
  ASSUME NEW doc, GoodDoc(doc), NEW status \in Statuses
  PROVE  /\ GoodDoc(WithStatus(doc, status))
         /\ WithStatus(doc, status).body.status = status
  BY DEF GoodDoc, WithStatus, Docs, DocumentsOf, Bodies

(* What a step that leaves a part alone leaves true of it. *)
LEMMA DbKeeps ==
  ASSUME Lasts, DbGood, UNCHANGED <<db, oldest>>
  PROVE  DbGood'
<1>1. \A v \in Versions : Stored(v) => GoodDoc(db[v])'
  BY GoodDocLasts DEF DbGood
<1> QED BY <1>1 DEF DbGood, Stored, GoodDoc

LEMMA EventsKeep ==
  ASSUME Lasts, EventsGood, UNCHANGED events
  PROVE  EventsGood'
  BY GoodEventLasts DEF EventsGood

LEMMA RegKeeps ==
  ASSUME RegGood, UNCHANGED reg
  PROVE  RegGood'
  BY DEF RegGood, AtR

LEMMA FlowKeeps ==
  ASSUME FlowGood, UNCHANGED flow
  PROVE  FlowGood'
  BY DEF FlowGood

LEMMA OnePubKeeps ==
  ASSUME Lasts, NEW p \in Publications, PubGoodOf(p), pub'[p] = pub[p]
  PROVE  PubGoodOf(p)'
<1>1. \A x \in pub[p].pending : GoodDoc(x.doc)'
  BY GoodDocLasts DEF PubGoodOf
<1>2. TokenValid(p) => TokenValid(p)'
  BY DEF Lasts, TokenValid, TokenKey
<1> QED BY <1>1, <1>2 DEF PubGoodOf, Lasts

LEMMA PubKeeps ==
  ASSUME Lasts, PubGood, UNCHANGED pub
  PROVE  PubGood'
  BY OnePubKeeps DEF PubGood

LEMMA DepKeeps ==
  ASSUME Lasts, DepGood, UNCHANGED dep
  PROVE  DepGood'
  BY GoodDocLasts DEF DepGood, Lasts

LEMMA CoveredKeeps ==
  ASSUME Lasts, faults = 0 => Covered, UNCHANGED <<db, pub>>
  PROVE  faults' = 0 => Covered'
<1>1. faults' = 0 => faults = 0
  BY DEF Lasts
<1>2. Covered => Covered'
  BY DEF Covered, Covers, Active, Stored, AtP, Version
<1> QED BY <1>1, <1>2

LEMMA KeyStored ==
  ASSUME faults \in Nat, NEW key, StoreKey(key)
  PROVE  keys \subseteq keys' /\ faults' \in Nat /\ faults <= faults'
  BY DEF StoreKey, Fault

LEMMA KeySought ==
  ASSUME faults \in Nat, NEW key, NotFound(key)
  PROVE  faults' \in Nat /\ faults <= faults'
  BY DEF NotFound, Fault

-----------------------------------------------------------------------------
(* Registrations. *)
RegOf(C) ==
  /\ C \in RegState
  /\ C.pc \notin {"idle", "done"} => C.schema \in Schemas /\ C.key \in Keys
  /\ C.pc = "announce" =>
       C.change \in Changes /\ C.version \in Versions

LEMMA RegMoves ==
  ASSUME RegGood, NEW r \in Registrations, NEW C, RegOf(C), reg' = [reg EXCEPT ![r] = C]
  PROVE  RegGood'
  BY DEF RegGood, RegOf, AtR

LEMMA RegGoes ==
  ASSUME NEW C \in RegState, C.schema \in Schemas, C.key \in Keys, NEW pc \in {"key", "fetch"}
  PROVE  RegOf([C EXCEPT !.pc = pc])
  BY DEF RegOf, RegState

LEMMA RegReturns == RegOf(NoReg("done"))
  BY DEF RegOf, RegState, NoReg

LEMMA Numbered ==
  ASSUME DbGood, NEW s, NEW prev \in {oldest, None}
  PROVE  Change(prev, s) \in Changes /\ NextVersion(prev, s) \in Versions
<1>1. Change(prev, s) \in Changes
  BY DEF Change, Changes
<1>2. CASE prev = None
  BY <1>1, <1>2 DEF NextVersion, Versions
<1>3. CASE prev # None
  <2>1. db[prev].body.schema \in Schemas
    BY <1>3 DEF DbGood, GoodDoc, Docs, DocumentsOf, Bodies
  <2>2. NextVersion(prev, s) = Bumped(Declared[db[prev].body.schema], Change(prev, s))
    BY <1>3 DEF NextVersion
  <2>3. Bumped(Declared[db[prev].body.schema], Change(prev, s)) \in Versions
    BY <1>1, <2>1 DEF Versions
  <2> QED BY <1>1, <2>2, <2>3
<1> QED BY <1>2, <1>3

LEMMA Announces ==
  ASSUME Lasts, EventsGood, NEW e, GoodEvent(e)', events' = events \cup {e}
  PROVE  EventsGood'
  BY GoodEventLasts DEF EventsGood

LEMMA RegistrationSteps ==
  ASSUME Inv, NEW r \in Registrations,
         (\E s \in Schemas, k \in Keys : Register(r, s, k)) \/ RegisterStep(r)
  PROVE  /\ Lasts /\ RegGood' /\ EventsGood'
         /\ UNCHANGED <<db, oldest, flow, pub, dep>>
<1> DEFINE Frame == UNCHANGED <<db, oldest, flow, pub, dep>>
<1>t. faults \in Nat /\ EventsGood /\ RegGood /\ DbGood /\ reg[r] \in RegState
  BY DEF Inv, RegGood
<1>1. ASSUME NEW s \in Schemas, NEW k \in Keys, Register(r, s, k)
      PROVE  Lasts /\ RegGood' /\ EventsGood' /\ Frame
  <2>1. Lasts /\ Frame /\ UNCHANGED events
    BY <1>1, <1>t DEF Register, Lasts
  <2>2. RegOf([pc |-> "search", schema |-> s, key |-> k, change |-> None, version |-> None])
    BY DEF RegOf, RegState
  <2>3. RegGood'
    BY <1>1, <1>t, <2>2, RegMoves DEF Register
  <2> QED BY <1>t, <2>1, <2>3, EventsKeep
<1>2. CASE DuplicateRequest(r) \/ CycleDetected(r)
  <2>1. Lasts /\ Frame /\ UNCHANGED events
    BY <1>2, <1>t DEF DuplicateRequest, CycleDetected, Lasts
  <2>2. RegGood'
    BY <1>2, <1>t, RegReturns, RegMoves DEF DuplicateRequest, CycleDetected, ReturnR
  <2> QED BY <1>t, <2>1, <2>2, EventsKeep
<1>3. CASE NewRequest(r)
  <2>1. Lasts /\ Frame /\ UNCHANGED events
    BY <1>3, <1>t, KeySought DEF NewRequest, Lasts
  <2>2. RegOf([reg[r] EXCEPT !.pc = "key"])
    BY <1>3, <1>t, RegGoes DEF NewRequest, AtR, RegGood
  <2>3. RegGood'
    BY <1>3, <1>t, <2>2, RegMoves DEF NewRequest, GoR
  <2> QED BY <1>t, <2>1, <2>3, EventsKeep
<1>4. CASE StoreRequest(r)
  <2>1. Lasts /\ Frame /\ UNCHANGED events
    BY <1>4, <1>t, KeyStored DEF StoreRequest, Lasts
  <2>2. RegOf([reg[r] EXCEPT !.pc = "fetch"])
    BY <1>4, <1>t, RegGoes DEF StoreRequest, AtR, RegGood
  <2>3. RegGood'
    BY <1>4, <1>t, <2>2, RegMoves DEF StoreRequest, GoR
  <2> QED BY <1>t, <2>1, <2>3, EventsKeep
<1>5. CASE Classify(r)
  <2>1. Lasts /\ Frame /\ UNCHANGED events
    BY <1>5, <1>t DEF Classify, Fault, Lasts
  <2>2. reg[r].schema \in Schemas /\ reg[r].key \in Keys
    BY <1>5, <1>t DEF Classify, AtR, RegGood
  <2> DEFINE C(prev) ==
        [pc |-> "announce", schema |-> reg[r].schema, key |-> reg[r].key,
         change |-> Change(prev, reg[r].schema), version |-> NextVersion(prev, reg[r].schema)]
  <2>p. PICK prev \in {oldest, None} : reg' = [reg EXCEPT ![r] = C(prev)]
    BY <1>5 DEF Classify
  <2>3. RegOf(C(prev))
    BY <1>t, <2>2, Numbered DEF RegOf, RegState
  <2>4. RegGood'
    BY <1>t, <2>p, <2>3, RegMoves
  <2> QED BY <1>t, <2>1, <2>4, EventsKeep
<1>6. CASE AnnounceRequest(r)
  <2>1. Lasts /\ Frame
    BY <1>6, <1>t DEF AnnounceRequest, Emit, Lasts
  <2>2. RegGood'
    BY <1>6, <1>t, RegReturns, RegMoves DEF AnnounceRequest, ReturnR
  <2>e. PICK e : e = [type |-> Route(reg[r].change), schema |-> reg[r].schema,
                      version |-> reg[r].version, token |-> None]
    OBVIOUS
  <2>3. reg[r].schema \in Schemas /\ reg[r].change \in Changes /\ reg[r].version \in Versions
    BY <1>6, <1>t DEF AnnounceRequest, AtR, RegGood
  <2>4. GoodEvent(e)'
    BY <2>e, <2>3 DEF GoodEvent, Events, Route, Changes
  <2>5. events' = events \cup {e}
    BY <1>6, <2>e DEF AnnounceRequest, Emit
  <2>6. EventsGood'
    BY <1>t, <2>1, <2>4, <2>5, Announces
  <2> QED BY <2>1, <2>2, <2>6
<1> QED BY <1>1, <1>2, <1>3, <1>4, <1>5, <1>6 DEF RegisterStep

-----------------------------------------------------------------------------
(* Workflows. *)
FlowOf(C) ==
  /\ C \in FlowState
  /\ C.pc \notin {"idle", "done"} => C.schema \in Schemas /\ C.version \in Versions

LEMMA FlowMoves ==
  ASSUME FlowGood, NEW w \in Workflows, NEW C, FlowOf(C), flow' = [flow EXCEPT ![w] = C]
  PROVE  FlowGood'
  BY DEF FlowGood, FlowOf

LEMMA FlowLasts ==
  ASSUME faults \in Nat, faults' \in Nat, faults <= faults', UNCHANGED oldest,
         keys \subseteq keys', events \subseteq events', FlowGood,
         NEW w \in Workflows, NEW C, ~ AtW(w, "approved"), flow' = [flow EXCEPT ![w] = C]
  PROVE  Lasts
  BY DEF Lasts, AtW, FlowGood

LEMMA FlowGoes ==
  ASSUME NEW C \in FlowState, C.schema \in Schemas, C.version \in Versions,
         NEW pc \in {"key", "decide", "granted", "approved"}
  PROVE  /\ FlowOf([C EXCEPT !.pc = pc])
         /\ [C EXCEPT !.pc = pc].pc = pc /\ [C EXCEPT !.pc = pc].schema = C.schema
  BY DEF FlowOf, FlowState

LEMMA FlowReturns == FlowOf(NoFlow("done"))
  BY DEF FlowOf, FlowState, NoFlow

LEMMA WorkflowSteps ==
  ASSUME Inv, NEW w \in Workflows,
         (\E event \in events : ApprovalRequired(w, event)) \/ WorkflowStep(w)
  PROVE  /\ Lasts /\ FlowGood' /\ EventsGood'
         /\ UNCHANGED <<db, oldest, reg, pub, dep>>
<1> DEFINE Frame == UNCHANGED <<db, oldest, reg, pub, dep>>
<1>t. faults \in Nat /\ EventsGood /\ FlowGood /\ flow[w] \in FlowState
  BY DEF Inv, FlowGood
<1>1. ASSUME NEW event \in events, ApprovalRequired(w, event)
      PROVE  Lasts /\ FlowGood' /\ EventsGood' /\ Frame
  <2>1. FlowOf([pc |-> "search", schema |-> event.schema, version |-> event.version])
    BY <1>1, <1>t DEF ApprovalRequired, FlowOf, FlowState, EventsGood, GoodEvent, Events
  <2>2. FlowGood' /\ Frame /\ UNCHANGED events
    BY <1>1, <1>t, <2>1, FlowMoves DEF ApprovalRequired
  <2>3. ~ AtW(w, "approved")
    BY <1>1 DEF ApprovalRequired, AtW
  <2>4. UNCHANGED <<keys, events, faults>>
    BY <1>1 DEF ApprovalRequired
  <2>5. keys \subseteq keys' /\ events \subseteq events' /\ faults' \in Nat /\ faults <= faults'
    BY <1>t, <2>4
  <2>6. Lasts
    BY <1>1, <1>t, <2>3, <2>5, FlowLasts DEF ApprovalRequired
  <2> QED BY <1>t, <2>2, <2>6, EventsKeep
<1>2. CASE DuplicateWorkflow(w) \/ NotApproved(w)
  <2>1. FlowGood' /\ Frame /\ UNCHANGED events
    BY <1>2, <1>t, FlowReturns, FlowMoves DEF DuplicateWorkflow, NotApproved, ReturnW
  <2>2. ~ AtW(w, "approved")
    BY <1>2 DEF DuplicateWorkflow, NotApproved, AtW
  <2>3. Lasts
    BY <1>2, <1>t, <2>2, FlowLasts DEF DuplicateWorkflow, NotApproved, ReturnW
  <2> QED BY <1>t, <2>1, <2>3, EventsKeep
<1>3. ASSUME NEW pc \in {"key", "decide", "granted"}, GoW(w, pc),
             NewWorkflow(w) \/ StoreWorkflow(w) \/ Approve(w)
      PROVE  Lasts /\ FlowGood' /\ EventsGood' /\ Frame
  <2>1. /\ flow[w].schema \in Schemas /\ flow[w].version \in Versions
        /\ ~ AtW(w, "approved")
    BY <1>3, <1>t DEF NewWorkflow, StoreWorkflow, Approve, AtW, FlowGood
  <2>2. FlowOf([flow[w] EXCEPT !.pc = pc])
    BY <1>3, <1>t, <2>1, FlowGoes
  <2>3. FlowGood'
    BY <1>3, <1>t, <2>2, FlowMoves DEF GoW
  <2>4. Frame /\ UNCHANGED events /\ keys \subseteq keys' /\ faults' \in Nat /\ faults <= faults'
    BY <1>3, <1>t, KeyStored, KeySought DEF NewWorkflow, StoreWorkflow, Approve
  <2>5. Lasts
    BY <1>3, <1>t, <2>1, <2>4, FlowLasts DEF GoW
  <2> QED BY <1>t, <2>3, <2>4, <2>5, EventsKeep
<1>4. CASE AnnounceGranted(w)
  <2>1. /\ flow[w].schema \in Schemas /\ flow[w].version \in Versions
        /\ ~ AtW(w, "approved")
    BY <1>4, <1>t DEF AnnounceGranted, AtW, FlowGood
  <2>e. PICK e : e = [type |-> "SchemaApprovalGranted", schema |-> flow[w].schema,
                      version |-> flow[w].version, token |-> w]
    OBVIOUS
  <2> DEFINE C == [flow[w] EXCEPT !.pc = "approved"]
  <2>2. FlowOf(C) /\ C.pc = "approved" /\ C.schema = flow[w].schema
    BY <1>t, <2>1, FlowGoes
  <2>3. flow' = [flow EXCEPT ![w] = C] /\ events' = events \cup {e} /\ UNCHANGED <<keys, faults>>
    BY <1>4, <2>e DEF AnnounceGranted, GoW, Emit
  <2>4. Frame
    BY <1>4 DEF AnnounceGranted
  <2> HIDE DEF C
  <2>i. keys \subseteq keys' /\ events \subseteq events' /\ faults' \in Nat /\ faults <= faults'
    BY <1>t, <2>3
  <2>5. Lasts
    BY <1>t, <2>1, <2>3, <2>4, <2>i, FlowLasts
  <2>6. FlowGood'
    BY <1>t, <2>2, <2>3, FlowMoves
  <2>7. flow'[w] = C
    BY <1>t, <2>3 DEF FlowGood
  <2>8. GoodEvent(e)'
    BY <2>e, <2>1, <2>2, <2>7 DEF GoodEvent, Events, Versions, Granted, AtW
  <2>9. EventsGood'
    BY <1>t, <2>3, <2>5, <2>8, Announces
  <2> QED BY <2>4, <2>5, <2>6, <2>9
<1>5. NewWorkflow(w) \/ StoreWorkflow(w) \/ Approve(w) =>
        \E pc \in {"key", "decide", "granted"} : GoW(w, pc)
  BY DEF NewWorkflow, StoreWorkflow, Approve
<1> QED BY <1>1, <1>2, <1>3, <1>4, <1>5 DEF WorkflowStep

-----------------------------------------------------------------------------
(* Publications. *)
LEMMA PubShape ==
  ASSUME NEW C \in PubState
  PROVE  /\ C.event \in Events \cup {None} /\ C.read \in Docs \cup {NoDoc}
         /\ C.pending \in SUBSET [id : Versions, doc : Docs]
  BY DEF PubState

LEMMA PubGoes ==
  ASSUME NEW C \in PubState, NEW pc \in {"read", "search"}
  PROVE  /\ [C EXCEPT !.pc = pc] \in PubState
         /\ [C EXCEPT !.pc = pc].pc = pc
         /\ [C EXCEPT !.pc = pc].event = C.event
         /\ [C EXCEPT !.pc = pc].read = C.read
         /\ [C EXCEPT !.pc = pc].pending = C.pending
  BY DEF PubState

LEMMA PubReads ==
  ASSUME NEW C \in PubState, NEW doc \in Docs \cup {NoDoc}
  PROVE  /\ [C EXCEPT !.pc = "store", !.read = doc] \in PubState
         /\ [C EXCEPT !.pc = "store", !.read = doc].pc = "store"
         /\ [C EXCEPT !.pc = "store", !.read = doc].event = C.event
         /\ [C EXCEPT !.pc = "store", !.read = doc].read = doc
         /\ [C EXCEPT !.pc = "store", !.read = doc].pending = C.pending
  BY DEF PubState

LEMMA PubFinds ==
  ASSUME NEW C \in PubState, NEW found \in SUBSET [id : Versions, doc : Docs]
  PROVE  /\ [C EXCEPT !.pc = "supersede", !.pending = found] \in PubState
         /\ [C EXCEPT !.pc = "supersede", !.pending = found].pc = "supersede"
         /\ [C EXCEPT !.pc = "supersede", !.pending = found].event = C.event
         /\ [C EXCEPT !.pc = "supersede", !.pending = found].read = C.read
         /\ [C EXCEPT !.pc = "supersede", !.pending = found].pending = found
  BY DEF PubState

LEMMA PubDrops ==
  ASSUME NEW C \in PubState, NEW x
  PROVE  /\ [C EXCEPT !.pending = C.pending \ {x}] \in PubState
         /\ [C EXCEPT !.pending = C.pending \ {x}].pc = C.pc
         /\ [C EXCEPT !.pending = C.pending \ {x}].event = C.event /\ [C EXCEPT !.pending = C.pending \ {x}].read = C.read
         /\ [C EXCEPT !.pending = C.pending \ {x}].pending = C.pending \ {x}
  BY DEF PubState

LEMMA PubReturns ==
  /\ NoPub("done") \in PubState
  /\ NoPub("done").pc = "done" /\ NoPub("done").pending = {} /\ NoPub("done").read = NoDoc
  BY DEF NoPub, PubState

LEMMA PubMoves ==
  ASSUME Lasts, PubGood, NEW p \in Publications, NEW C \in PubState,
         pub' = [pub EXCEPT ![p] = C], PubGoodOf(p)'
  PROVE  PubGood'
<1>1. \A q \in Publications \ {p} : PubGoodOf(q) /\ pub'[q] = pub[q]
  BY DEF PubGood
<1>2. \A q \in Publications : PubGoodOf(q)'
  BY <1>1, OnePubKeeps
<1> QED BY <1>2 DEF PubGood

(* A publication that moves while no version changes still covers what it *)
(* covered.                                                               *)
LEMMA CoveredMoves ==
  ASSUME Lasts, faults = 0 => Covered, UNCHANGED db, NEW p \in Publications,
         \A q \in Publications \ {p} : pub'[q] = pub[q],
         \A v, w \in Versions : Active(w) /\ v # w /\ Covers(p, v, w) => Covers(p, v, w)'
  PROVE  faults' = 0 => Covered'
<1>1. faults' = 0 => faults = 0
  BY DEF Lasts
<1>2. \A v \in Versions : Active(v)' <=> Active(v)
  BY DEF Active, Stored
<1>3. \A q \in Publications \ {p} : \A v, w \in Versions : Covers(q, v, w) => Covers(q, v, w)'
  BY DEF Covers, AtP, Version
<1>4. Covered => Covered'
  BY <1>2, <1>3 DEF Covered
<1> QED BY <1>1, <1>4

LEMMA CoversOnlyWhenSuperseding ==
  ASSUME NEW p \in Publications, NEW v, NEW w, Covers(p, v, w)
  PROVE  pub[p].pc \in {"search", "supersede"}
  BY DEF Covers, AtP

LEMMA DbStores ==
  ASSUME Lasts, DbGood, NEW v \in Versions, NEW doc, GoodDoc(doc)',
         db' = [db EXCEPT ![v] = doc], oldest' \in {oldest, v}, oldest' # None
  PROVE  DbGood'
<1>1. doc \in Docs /\ doc # NoDoc /\ db'[v] = doc
  BY DEF GoodDoc, DbGood, Docs
<1>2. \A w \in Versions : w # v => db'[w] = db[w]
  BY DEF DbGood
<1>3. \A w \in Versions : Stored(w)' => GoodDoc(db[w])'
  BY <1>1, <1>2, GoodDocLasts DEF DbGood, Stored
<1>4. db' \in [Versions -> Docs \cup {NoDoc}]
  BY <1>1 DEF DbGood
<1>5. oldest' \in Versions /\ Stored(oldest)'
  BY <1>1, <1>2 DEF DbGood, Stored
<1> QED BY <1>3, <1>4, <1>5 DEF DbGood

(* What a publication stores is a version of the registry in good order. *)
LEMMA SchemaDocGood ==
  ASSUME EventsGood, PubGood, NEW p \in Publications, AtP(p, "store"), NEW seqNo \in Nat
  PROVE  /\ Version(p) \in Versions
         /\ GoodDoc([body |-> SchemaDoc(p), seqNo |-> seqNo])
<1>1. /\ GoodEvent(pub[p].event) /\ pub[p].event.type \in PublishTypes
      /\ pub[p].event.type = "SchemaApprovalGranted" => TokenValid(p)
  BY DEF PubGood, PubGoodOf, AtP, EventsGood
<1>2. Version(p) \in Versions /\ pub[p].event.schema \in Schemas
  BY <1>1 DEF GoodEvent, Events, Version
<1>3. ChangeOf(p) \in Changes
  BY DEF ChangeOf, Changes
<1>4. SchemaDoc(p) \in Bodies /\ SchemaDoc(p).change = ChangeOf(p)
      /\ SchemaDoc(p).schema = pub[p].event.schema
  BY <1>2, <1>3 DEF SchemaDoc, Bodies, Statuses
<1>5. ChangeOf(p) = "BREAKING" => OnRecord(pub[p].event.schema)
  <2>1. ChangeOf(p) = "BREAKING" => pub[p].event.type = "SchemaApprovalGranted"
    BY <1>1 DEF ChangeOf, PublishTypes
  <2> QED BY <1>1, <2>1 DEF GoodEvent, OnRecord, TokenValid
<1>6. [body |-> SchemaDoc(p), seqNo |-> seqNo] \in Docs
  BY <1>4 DEF Docs, DocumentsOf
<1> QED BY <1>2, <1>3, <1>4, <1>5, <1>6 DEF GoodDoc

(* A publication that stores is not superseding yet, then it has          *)
(* everything to supersede; whatever else is ACTIVE was so before.        *)
LEMMA StoreCovers ==
  ASSUME Lasts, faults = 0 => Covered, NEW p \in Publications, NEW v \in Versions, NEW doc,
         AtP(p, "store"), AtP(p, "search")', Version(p)' = v,
         \A q \in Publications \ {p} : pub'[q] = pub[q],
         \A w \in Versions \ {v} : db'[w] = db[w]
  PROVE  faults' = 0 => Covered'
<1>1. faults' = 0 => faults = 0
  BY DEF Lasts
<1>2. \A w \in Versions \ {v} : Active(w)' <=> Active(w)
  BY DEF Active, Stored
<1>3. \A w, x : ~ Covers(p, w, x)
  BY DEF Covers, AtP
<1>4. \A q \in Publications \ {p} : \A w, x \in Versions : Covers(q, w, x) => Covers(q, w, x)'
  BY DEF Covers, AtP, Version
<1>5. ASSUME Covered, NEW w \in Versions, NEW x \in Versions, Active(w)', Active(x)', w # x
      PROVE  \E q \in Publications : Covers(q, w, x)' \/ Covers(q, x, w)'
  <2>1. CASE v \in {w, x}
    BY <2>1, <1>5 DEF Covers
  <2>2. CASE v \notin {w, x}
    <3>1. Active(w) /\ Active(x)
      BY <2>2, <1>5, <1>2
    <3>2. PICK q \in Publications : Covers(q, w, x) \/ Covers(q, x, w)
      BY <3>1, <1>5 DEF Covered
    <3> QED BY <3>2, <1>3, <1>4
  <2> QED BY <2>1, <2>2
<1>6. Covered => Covered'
  BY <1>5 DEF Covered
<1> QED BY <1>1, <1>6

(* A version that stops being ACTIVE needs no cover. *)
LEMMA StopCovers ==
  ASSUME Lasts, faults = 0 => Covered, NEW v \in Versions,
         ~ Active(v)' \/ db'[v] = db[v],
         \A w \in Versions \ {v} : db'[w] = db[w],
         \A q \in Publications, w, x \in Versions :
           Active(w)' /\ Active(x)' /\ Covers(q, w, x) => Covers(q, w, x)'
  PROVE  faults' = 0 => Covered'
<1>1. faults' = 0 => faults = 0
  BY DEF Lasts
<1>2. \A w \in Versions : Active(w)' => Active(w)
  BY DEF Active, Stored
<1>3. Covered => Covered'
  BY <1>2 DEF Covered
<1> QED BY <1>1, <1>3

LEMMA PublicationSteps ==
  ASSUME Inv, NEW p \in Publications,
         (\E event \in events : Publish(p, event)) \/ PublishStep(p)
  PROVE  /\ Lasts /\ PubGood' /\ DbGood' /\ (faults' = 0 => Covered')
         /\ UNCHANGED <<events, reg, flow, dep>>
<1> DEFINE Frame == UNCHANGED <<events, reg, flow, dep>>
           Kept == Lasts /\ PubGood' /\ DbGood' /\ (faults' = 0 => Covered') /\ Frame
<1>t. /\ faults \in Nat /\ EventsGood /\ PubGood /\ DbGood /\ (faults = 0 => Covered)
      /\ pub \in [Publications -> PubState] /\ pub[p] \in PubState /\ PubGoodOf(p)
  BY DEF Inv, PubGood
<1>f. ASSUME UNCHANGED <<keys, events, flow>>, oldest # None => oldest' = oldest,
             faults' = faults \/ faults' = faults + 1
      PROVE  Lasts
  BY <1>f, <1>t DEF Lasts
(* Steps that change neither a version nor what is covered. *)
<1>m. ASSUME NEW C \in PubState, pub' = [pub EXCEPT ![p] = C], PubGoodOf(p)', Lasts, Frame,
             UNCHANGED <<db, oldest>>, pub[p].pc \notin {"search", "supersede"}
      PROVE  Kept
  <2>1. PubGood' /\ DbGood'
    BY <1>m, <1>t, PubMoves, DbKeeps
  <2>2. \A q \in Publications \ {p} : pub'[q] = pub[q]
    BY <1>m, <1>t
  <2>3. faults' = 0 => Covered'
    BY <1>m, <1>t, <2>2, CoversOnlyWhenSuperseding, CoveredMoves
  <2> QED BY <1>m, <2>1, <2>3
<1>r. ASSUME pub' = [pub EXCEPT ![p] = NoPub("done")]
      PROVE  PubGoodOf(p)'
  BY <1>r, <1>t, PubReturns DEF PubGoodOf
<1>1. ASSUME NEW event \in events, Publish(p, event)
      PROVE  Kept
  <2> DEFINE C == [pc |-> IF event.type = "SchemaQueued" THEN "read" ELSE "token",
                   event |-> event, read |-> NoDoc, pending |-> {}]
  <2>1. event \in Events /\ event.type \in PublishTypes
    BY <1>1, <1>t DEF Publish, EventsGood, GoodEvent, PublishTypes
  <2>2. C \in PubState
    BY <2>1 DEF PubState
  <2>3. pub' = [pub EXCEPT ![p] = C] /\ pub'[p] = C /\ pub[p].pc \notin {"search", "supersede"}
    BY <1>1, <1>t DEF Publish, AtP
  <2>4. Lasts /\ Frame /\ UNCHANGED <<db, oldest>>
    BY <1>1, <1>f DEF Publish
  <2>5. PubGoodOf(p)'
    BY <2>1, <2>3, <2>4 DEF PubGoodOf, PublishTypes
  <2> HIDE DEF C
  <2> QED BY <2>2, <2>3, <2>4, <2>5, <1>m
<1>2. CASE CheckToken(p)
  <2> DEFINE C == [pub[p] EXCEPT !.pc = "read"]
  <2>1. /\ C \in PubState /\ C.pc = "read" /\ C.event = pub[p].event
        /\ C.read = pub[p].read /\ C.pending = pub[p].pending
    BY <1>t, PubGoes
  <2>2. pub' = [pub EXCEPT ![p] = C] /\ pub[p].pc = "token" /\ TokenValid(p)
    BY <1>2 DEF CheckToken, GoP, AtP
  <2>3. Lasts /\ Frame /\ UNCHANGED <<db, oldest, keys>>
    BY <1>2, <1>f DEF CheckToken
  <2> HIDE DEF C
  <2>4. pub'[p] = C
    BY <1>t, <2>2
  <2>5. PubGoodOf(p)'
    BY <1>t, <2>1, <2>2, <2>3, <2>4 DEF PubGoodOf, TokenValid, TokenKey
  <2> QED BY <2>1, <2>2, <2>3, <2>5, <1>m
<1>3. CASE Blocked(p) \/ PublishConflict(p) \/ PublishFault(p)
  <2>1. pub' = [pub EXCEPT ![p] = NoPub("done")] /\ pub[p].pc \notin {"search", "supersede"}
    BY <1>3 DEF Blocked, PublishConflict, PublishFault, ReturnP, AtP
  <2>2. Lasts /\ Frame /\ UNCHANGED <<db, oldest>>
    BY <1>3, <1>f DEF Blocked, PublishConflict, PublishFault, Fault
  <2> QED BY <2>1, <2>2, <1>r, <1>m, PubReturns
<1>4. CASE ReadVersion(p)
  <2>0. PICK doc \in {db[Version(p)], NoDoc} :
               pub' = [pub EXCEPT ![p] = [@ EXCEPT !.pc = "store", !.read = doc]]
    BY <1>4 DEF ReadVersion
  <2>1. pub[p].pc = "read"
    BY <1>4 DEF ReadVersion, AtP
  <2>2. doc \in Docs \cup {NoDoc}
    <3>1. Version(p) \in Versions
      BY <1>t, <2>1 DEF PubGoodOf, EventsGood, GoodEvent, Events, Version
    <3> QED BY <3>1, <2>0, <1>t DEF DbGood
  <2> DEFINE C == [pub[p] EXCEPT !.pc = "store", !.read = doc]
  <2>3. /\ C \in PubState /\ C.pc = "store" /\ C.event = pub[p].event
        /\ C.read = doc /\ C.pending = pub[p].pending
    <3>1. pub[p] \in PubState
      BY <1>t
    <3> QED BY <3>1, <2>2, PubReads
  <2>4. pub' = [pub EXCEPT ![p] = C]
    BY <2>0
  <2>5. Lasts /\ Frame /\ UNCHANGED <<db, oldest, keys>>
    BY <1>4, <1>f DEF ReadVersion, Fault
  <2> HIDE DEF C
  <2>6. pub'[p] = C
    BY <1>t, <2>4
  <2>i. doc # NoDoc => oldest # None
    BY <2>0, <2>1, <1>t DEF DbGood, Stored, PubGoodOf, EventsGood, GoodEvent, Events, Version
  <2>7. PubGoodOf(p)'
    BY <1>t, <2>1, <2>3, <2>5, <2>6, <2>i DEF PubGoodOf, TokenValid, TokenKey
  <2> QED BY <2>1, <2>3, <2>4, <2>5, <2>7, <1>m
<1>5. CASE StoreNew(p) \/ StoreOver(p)
  <2>1. AtP(p, "store") /\ pub' = [pub EXCEPT ![p] = [@ EXCEPT !.pc = "search"]]
    BY <1>5 DEF StoreNew, StoreOver, GoP, AfterStore
  <2>2. Lasts /\ Frame /\ UNCHANGED keys
    BY <1>5, <1>f DEF StoreNew, StoreOver
  <2>3. PICK doc : /\ GoodDoc(doc)
                   /\ db' = [db EXCEPT ![Version(p)] = doc]
    <3>1. CASE StoreNew(p)
      BY <3>1, <1>t, <2>1, SchemaDocGood DEF StoreNew, StoreDocument, Fresh
    <3>2. CASE StoreOver(p)
      <4>1. NewSeq(Version(p)) \in Nat
        <5>1. Version(p) \in Versions /\ db[Version(p)] \in Docs \cup {NoDoc}
          BY <1>t, <2>1, SchemaDocGood DEF DbGood
        <5>2. SeqNo(Version(p)) \in Nat
          BY <5>1 DEF SeqNo, Stored, Docs, DocumentsOf
        <5> QED BY <5>2 DEF NewSeq
      <4> QED BY <3>2, <4>1, <1>t, <2>1, SchemaDocGood DEF StoreOver, StoreDocumentWithOCC
    <3> QED BY <1>5, <3>1, <3>2
  <2>4. PICK v \in Versions : v = Version(p)
    BY <1>t, <2>1, SchemaDocGood
  <2>5. oldest' \in {oldest, v} /\ oldest' # None
    <3>1. CASE StoreNew(p)
      BY <3>1, <2>4 DEF StoreNew
    <3>2. CASE StoreOver(p)
      <4>1. oldest # None
        BY <3>2, <1>t DEF StoreOver, PubGoodOf
      <4> QED BY <3>2, <4>1, <1>t DEF StoreOver, DbGood
    <3> QED BY <1>5, <3>1, <3>2
  <2>6. GoodDoc(doc)'
    BY <2>2, <2>3, <2>4, GoodDocLasts
  <2>7. DbGood'
    BY <1>t, <2>2, <2>3, <2>4, <2>5, <2>6, DbStores
  <2> DEFINE C == [pub[p] EXCEPT !.pc = "search"]
  <2>8. /\ C \in PubState /\ C.pc = "search" /\ C.event = pub[p].event
        /\ C.read = pub[p].read /\ C.pending = pub[p].pending
    BY <1>t, PubGoes
  <2>9. pub' = [pub EXCEPT ![p] = C]
    BY <2>1
  <2> HIDE DEF C
  <2>10. pub'[p] = C /\ \A q \in Publications \ {p} : pub'[q] = pub[q]
    BY <1>t, <2>9
  <2>11. PubGoodOf(p)'
    BY <1>t, <2>1, <2>2, <2>8, <2>10 DEF Lasts, PubGoodOf, TokenValid, TokenKey, AtP
  <2>12. PubGood'
    BY <1>t, <2>2, <2>8, <2>9, <2>11, PubMoves
  <2>13. AtP(p, "search")' /\ Version(p)' = v
    BY <2>4, <2>8, <2>10 DEF AtP, Version
  <2>14. \A w \in Versions \ {v} : db'[w] = db[w]
    BY <1>t, <2>3, <2>4 DEF DbGood
  <2>15. faults' = 0 => Covered'
    BY <1>t, <2>1, <2>2, <2>10, <2>13, <2>14, StoreCovers
  <2> QED BY <2>2, <2>7, <2>12, <2>15
<1>6. CASE FindActive(p)
  <2>0. PICK found \in {OthersActive(Version(p)), {}} :
               /\ pub' = [pub EXCEPT ![p] = [@ EXCEPT !.pc = "supersede", !.pending = found]]
               /\ \/ found = OthersActive(Version(p)) /\ UNCHANGED faults
                  \/ found = {} /\ faults' = faults + 1
    BY <1>6 DEF FindActive, Fault
  <2>1. found \in SUBSET [id : Versions, doc : Docs] /\ \A x \in found : GoodDoc(x.doc)
    BY <1>t, <2>0 DEF OthersActive, Active, DbGood, GoodDoc
  <2> DEFINE C == [pub[p] EXCEPT !.pc = "supersede", !.pending = found]
  <2>2. /\ C \in PubState /\ C.pc = "supersede" /\ C.event = pub[p].event
        /\ C.read = pub[p].read /\ C.pending = found
    BY <1>t, <2>1, PubFinds
  <2>3. pub' = [pub EXCEPT ![p] = C] /\ pub[p].pc = "search"
    BY <1>6, <2>0 DEF FindActive, AtP
  <2>4. Lasts /\ Frame /\ UNCHANGED <<db, oldest, keys>>
    BY <1>6, <1>f DEF FindActive, Fault
  <2> HIDE DEF C
  <2>5. pub'[p] = C /\ \A q \in Publications \ {p} : pub'[q] = pub[q]
    BY <1>t, <2>3
  <2>6. \A x \in found : GoodDoc(x.doc)' /\ oldest' # None
    BY <2>1, <2>4, <1>t, <2>0, GoodDocLasts DEF OthersActive, Active, DbGood
  <2>7. PubGoodOf(p)'
    BY <1>t, <2>2, <2>3, <2>4, <2>5, <2>6 DEF PubGoodOf, TokenValid, TokenKey
  <2>8. PubGood' /\ DbGood'
    BY <1>t, <2>2, <2>3, <2>4, <2>7, PubMoves, DbKeeps
  <2>9. ASSUME found = OthersActive(Version(p)),
               NEW v \in Versions, NEW w \in Versions, Active(w), v # w, Covers(p, v, w)
        PROVE  Covers(p, v, w)'
    <3>1. Version(p) = v
      BY <2>3, <2>9 DEF Covers, AtP
    <3>2. [id |-> w, doc |-> db[w]] \in found
      BY <2>9, <3>1 DEF OthersActive
    <3>3. \E x \in found : x.id = w
      BY <3>2
    <3>4. AtP(p, "supersede")' /\ Version(p)' = v /\ pub'[p].pending = found
      BY <2>2, <2>5, <3>1 DEF AtP, Version
    <3> QED BY <3>3, <3>4 DEF Covers
  <2>10. CASE found = OthersActive(Version(p))
    <3>1. faults' = 0 => Covered'
      BY <1>t, <2>4, <2>5, <2>9, <2>10, CoveredMoves
    <3> QED BY <2>4, <2>8, <3>1
  <2>11. CASE faults' = faults + 1
    BY <1>t, <2>4, <2>8, <2>11
  <2> QED BY <2>0, <2>10, <2>11
<1>7. ASSUME NEW prev \in pub[p].pending, Supersede(p, prev)
      PROVE  Kept
  <2> DEFINE C == [pub[p] EXCEPT !.pending = pub[p].pending \ {prev}]
  <2>1. /\ C \in PubState /\ C.pc = pub[p].pc /\ C.event = pub[p].event
        /\ C.read = pub[p].read /\ C.pending = pub[p].pending \ {prev}
    BY <1>t, PubDrops
  <2>2. pub' = [pub EXCEPT ![p] = C] /\ pub[p].pc = "supersede"
    BY <1>7, <1>t DEF Supersede, AtP
  <2>3. Lasts /\ Frame /\ UNCHANGED <<oldest, keys>>
    BY <1>7, <1>f DEF Supersede, Fault
  <2> HIDE DEF C
  <2>4. pub'[p] = C /\ \A q \in Publications \ {p} : pub'[q] = pub[q]
    BY <1>t, <2>2
  <2>5. \A x \in pub[p].pending : GoodDoc(x.doc)' /\ oldest' # None
    BY <1>t, <2>3, GoodDocLasts DEF PubGoodOf
  <2>6. PubGoodOf(p)'
    BY <1>t, <2>1, <2>2, <2>3, <2>4, <2>5 DEF PubGoodOf, TokenValid, TokenKey
  <2>7. PubGood'
    BY <1>t, <2>1, <2>2, <2>3, <2>6, PubMoves
  <2>8. PICK v \in Versions : v = prev.id
    BY <1>t, PubShape
  <2>9. PICK doc : doc = WithStatus(prev.doc, "SUPERSEDED")
    OBVIOUS
  <2>10. GoodDoc(doc)' /\ doc.body.status = "SUPERSEDED"
    <3>1. GoodDoc(prev.doc)
      BY <1>t, <2>8 DEF PubGoodOf
    <3> QED BY <3>1, <2>3, <2>9, NewStatus, GoodDocLasts DEF Statuses
  <2>11. CASE db' = [db EXCEPT ![v] = doc]
    <3>1. DbGood'
      BY <1>t, <2>3, <2>5, <2>10, <2>11, DbStores
    <3>2. db'[v] = doc /\ \A w \in Versions \ {v} : db'[w] = db[w]
      BY <1>t, <2>11 DEF DbGood
    <3>3. ~ Active(v)'
      BY <2>10, <3>2 DEF Active
    <3>4. ASSUME NEW q \in Publications, NEW w \in Versions, NEW x \in Versions,
                 Active(w)', Active(x)', Covers(q, w, x)
          PROVE  Covers(q, w, x)'
      <4>1. CASE q # p
        BY <4>1, <3>4, <2>4 DEF Covers, AtP, Version
      <4>2. CASE q = p
        <5>1. x # v /\ Version(p) = w /\ \E y \in pub[p].pending : y.id = x
          BY <4>2, <3>3, <3>4, <2>2 DEF Covers, AtP
        <5>2. \E y \in pub'[p].pending : y.id = x
          BY <5>1, <2>1, <2>4, <2>8
        <5> QED BY <5>1, <5>2, <4>2, <2>1, <2>2, <2>4 DEF Covers, AtP, Version
      <4> QED BY <4>1, <4>2
    <3>5. faults' = 0 => Covered'
      BY <1>t, <2>3, <3>2, <3>3, <3>4, StopCovers
    <3> QED BY <2>3, <2>7, <3>1, <3>5
  <2>12. CASE faults' = faults + 1 /\ UNCHANGED db
    <3>1. faults' # 0
      BY <1>t, <2>12
    <3> QED BY <1>t, <2>3, <2>7, <2>12, <3>1, DbKeeps
  <2>13. db' = [db EXCEPT ![v] = doc] \/ (faults' = faults + 1 /\ UNCHANGED db)
    BY <1>7, <2>8, <2>9 DEF Supersede, StoreDocument, Fault
  <2> QED BY <2>11, <2>12, <2>13
<1>8. CASE AnnouncePublished(p)
  <2>1. pub' = [pub EXCEPT ![p] = NoPub("done")] /\ pub[p].pc = "supersede" /\ pub[p].pending = {}
    BY <1>8 DEF AnnouncePublished, ReturnP, AtP
  <2>2. Lasts /\ Frame /\ UNCHANGED <<db, oldest>>
    BY <1>8, <1>f DEF AnnouncePublished
  <2>3. PubGood' /\ DbGood'
    BY <1>r, <1>t, <2>1, <2>2, PubReturns, PubMoves, DbKeeps
  <2>4. \A q \in Publications \ {p} : pub'[q] = pub[q]
    BY <1>t, <2>1
  <2>5. \A v, w : ~ Covers(p, v, w)
    BY <2>1 DEF Covers, AtP
  <2>6. faults' = 0 => Covered'
    BY <1>t, <2>2, <2>4, <2>5, CoveredMoves
  <2> QED BY <2>2, <2>3, <2>6
<1> QED BY <1>1, <1>2, <1>3, <1>4, <1>5, <1>6, <1>7, <1>8 DEF PublishStep

-----------------------------------------------------------------------------
(* Deprecations. *)
LEMMA DepMoves ==
  ASSUME Lasts, DepGood, NEW d \in Deprecations, NEW C \in DepState,
         C.pc = "store" => C.version \in Versions /\ GoodDoc(C.read)' /\ oldest' # None,
         dep' = [dep EXCEPT ![d] = C]
  PROVE  DepGood'
<1>1. \A e \in Deprecations \ {d} : dep[e].pc = "store" =>
        GoodDoc(dep[e].read)' /\ oldest' # None
  BY GoodDocLasts DEF DepGood, Lasts
<1> QED BY <1>1 DEF DepGood

LEMMA DepReturns == NoDep("done") \in DepState /\ NoDep("done").pc = "done"
  BY DEF NoDep, DepState

LEMMA DeprecationSteps ==
  ASSUME Inv, NEW d \in Deprecations,
         (\E v \in Versions : Deprecate(d, v)) \/ StoreDeprecated(d)
  PROVE  /\ Lasts /\ DepGood' /\ DbGood' /\ (faults' = 0 => Covered')
         /\ UNCHANGED <<events, reg, flow, pub>>
<1> DEFINE Frame == UNCHANGED <<events, reg, flow, pub>>
           Kept == Lasts /\ DepGood' /\ DbGood' /\ (faults' = 0 => Covered') /\ Frame
<1>t. faults \in Nat /\ DbGood /\ DepGood /\ (faults = 0 => Covered) /\ dep[d] \in DepState
  BY DEF Inv, DepGood
<1>1. ASSUME NEW v \in Versions, Deprecate(d, v)
      PROVE  Kept
  <2>1. Lasts /\ Frame /\ UNCHANGED <<db, oldest>>
    BY <1>1, <1>t DEF Deprecate, Fault, Lasts
  <2>2. DbGood' /\ (faults' = 0 => Covered')
    BY <1>1, <1>t, <2>1, DbKeeps, CoveredKeeps
  <2>3. DepGood'
    <3>1. CASE Stored(v) /\ dep' = [dep EXCEPT ![d] = [pc |-> "store", version |-> v, read |-> db[v]]]
      <4>0. PICK doc : doc = db[v]
        OBVIOUS
      <4>1. doc \in Docs /\ GoodDoc(doc)' /\ oldest' # None
        BY <3>1, <4>0, <1>t, <2>1, GoodDocLasts DEF DbGood, GoodDoc
      <4> DEFINE C == [pc |-> "store", version |-> v, read |-> doc]
      <4>2. C \in DepState /\ C.version = v /\ C.read = doc
        BY <4>1 DEF DepState
      <4>3. dep' = [dep EXCEPT ![d] = C]
        BY <3>1, <4>0
      <4> HIDE DEF C
      <4> QED BY <1>t, <2>1, <4>1, <4>2, <4>3, DepMoves
    <3>2. CASE dep' = [dep EXCEPT ![d] = NoDep("done")]
      BY <1>t, <2>1, <3>2, DepReturns, DepMoves
    <3> QED BY <1>1, <3>1, <3>2 DEF Deprecate
  <2> QED BY <2>1, <2>2, <2>3
<1>2. CASE StoreDeprecated(d)
  <2>1. Lasts /\ Frame /\ UNCHANGED oldest
    BY <1>2, <1>t DEF StoreDeprecated, Fault, Lasts
  <2>2. DepGood'
    BY <1>2, <1>t, <2>1, DepReturns, DepMoves DEF StoreDeprecated
  <2>v. PICK v \in Versions : v = dep[d].version
    BY <1>2, <1>t DEF StoreDeprecated, DepGood
  <2>3. PICK doc : doc = WithStatus(dep[d].read, "DEPRECATED")
    OBVIOUS
  <2>4. GoodDoc(doc)' /\ doc.body.status = "DEPRECATED" /\ oldest # None
    BY <1>2, <1>t, <2>1, <2>v, <2>3, NewStatus, GoodDocLasts DEF StoreDeprecated, DepGood, Statuses
  <2>5. CASE db' = [db EXCEPT ![v] = doc]
    <3>1. DbGood'
      BY <1>t, <2>1, <2>4, <2>5, DbStores
    <3>2. db'[v] = doc /\ \A w \in Versions \ {v} : db'[w] = db[w]
      BY <1>t, <2>5 DEF DbGood
    <3>3. ~ Active(v)'
      BY <2>4, <3>2 DEF Active
    <3>4. \A q \in Publications, w, x \in Versions : Covers(q, w, x) => Covers(q, w, x)'
      BY <2>1 DEF Covers, AtP, Version
    <3>5. faults' = 0 => Covered'
      BY <1>t, <2>1, <3>2, <3>3, <3>4, StopCovers
    <3> QED BY <2>1, <2>2, <3>1, <3>5
  <2>6. CASE faults' = faults + 1 /\ UNCHANGED db
    <3>1. faults' # 0
      BY <1>t, <2>6
    <3> QED BY <1>t, <2>1, <2>2, <2>6, <3>1, DbKeeps
  <2>7. db' = [db EXCEPT ![v] = doc] \/ (faults' = faults + 1 /\ UNCHANGED db)
    BY <1>2, <2>v, <2>3 DEF StoreDeprecated, StoreDocument, Fault
  <2> QED BY <2>5, <2>6, <2>7
<1> QED BY <1>1, <1>2

-----------------------------------------------------------------------------
LEMMA InvInit == Init => Inv
<1> SUFFICES ASSUME Init PROVE Inv
  OBVIOUS
<1>1. \A v \in Versions : ~ Stored(v)
  BY DEF Init, Stored
<1>2. DbGood
  BY <1>1 DEF Init, DbGood
<1>3. EventsGood /\ faults \in Nat
  BY DEF Init, EventsGood
<1>4. RegGood
  BY DEF Init, RegGood, RegState, NoReg, AtR
<1>5. FlowGood
  BY DEF Init, FlowGood, FlowState, NoFlow
<1>6. PubGood
  BY DEF Init, PubGood, PubGoodOf, PubState, NoPub
<1>7. DepGood
  BY DEF Init, DepGood, DepState, NoDep
<1>8. Covered
  BY <1>1 DEF Covered, Active
<1> QED BY <1>2, <1>3, <1>4, <1>5, <1>6, <1>7, <1>8 DEF Inv

LEMMA InvNext == Inv /\ [Next]_vars => Inv'
<1> SUFFICES ASSUME Inv, [Next]_vars PROVE Inv'
  OBVIOUS
<1>t. /\ DbGood /\ EventsGood /\ RegGood /\ FlowGood /\ PubGood /\ DepGood
      /\ faults \in Nat /\ (faults = 0 => Covered)
  BY DEF Inv
<1>1. ASSUME NEW r \in Registrations,
             (\E s \in Schemas, k \in Keys : Register(r, s, k)) \/ RegisterStep(r)
      PROVE  Inv'
  <2>1. Lasts /\ RegGood' /\ EventsGood' /\ UNCHANGED <<db, oldest, flow, pub, dep>>
    BY <1>1, RegistrationSteps
  <2>2. DbGood' /\ FlowGood' /\ PubGood' /\ DepGood' /\ (faults' = 0 => Covered')
    BY <1>t, <2>1, DbKeeps, FlowKeeps, PubKeeps, DepKeeps, CoveredKeeps
  <2> QED BY <2>1, <2>2 DEF Inv, Lasts
<1>2. ASSUME NEW w \in Workflows,
             (\E event \in events : ApprovalRequired(w, event)) \/ WorkflowStep(w)
      PROVE  Inv'
  <2>1. Lasts /\ FlowGood' /\ EventsGood' /\ UNCHANGED <<db, oldest, reg, pub, dep>>
    BY <1>2, WorkflowSteps
  <2>2. DbGood' /\ RegGood' /\ PubGood' /\ DepGood' /\ (faults' = 0 => Covered')
    BY <1>t, <2>1, DbKeeps, RegKeeps, PubKeeps, DepKeeps, CoveredKeeps
  <2> QED BY <2>1, <2>2 DEF Inv, Lasts
<1>3. ASSUME NEW p \in Publications,
             (\E event \in events : Publish(p, event)) \/ PublishStep(p)
      PROVE  Inv'
  <2>1. /\ Lasts /\ PubGood' /\ DbGood' /\ (faults' = 0 => Covered')
        /\ UNCHANGED <<events, reg, flow, dep>>
    BY <1>3, PublicationSteps
  <2>2. EventsGood' /\ RegGood' /\ FlowGood' /\ DepGood'
    BY <1>t, <2>1, EventsKeep, RegKeeps, FlowKeeps, DepKeeps
  <2> QED BY <2>1, <2>2 DEF Inv, Lasts
<1>4. ASSUME NEW d \in Deprecations, (\E v \in Versions : Deprecate(d, v)) \/ StoreDeprecated(d)
      PROVE  Inv'
  <2>1. /\ Lasts /\ DepGood' /\ DbGood' /\ (faults' = 0 => Covered')
        /\ UNCHANGED <<events, reg, flow, pub>>
    BY <1>4, DeprecationSteps
  <2>2. EventsGood' /\ RegGood' /\ FlowGood' /\ PubGood'
    BY <1>t, <2>1, EventsKeep, RegKeeps, FlowKeeps, PubKeeps
  <2> QED BY <2>1, <2>2 DEF Inv, Lasts
<1>5. CASE UNCHANGED vars
  <2>1. Lasts /\ UNCHANGED <<db, oldest, keys, events, reg, flow, pub, dep, faults>>
    BY <1>5, <1>t DEF vars, calls, Lasts
  <2>2. /\ DbGood' /\ EventsGood' /\ RegGood' /\ FlowGood' /\ PubGood' /\ DepGood'
        /\ (faults' = 0 => Covered')
    BY <1>t, <2>1, DbKeeps, EventsKeep, RegKeeps, FlowKeeps, PubKeeps, DepKeeps, CoveredKeeps
  <2> QED BY <2>1, <2>2 DEF Inv, Lasts
<1> QED BY <1>1, <1>2, <1>3, <1>4, <1>5 DEF Next

LEMMA InvAlways == Spec => []Inv
  BY InvInit, InvNext, PTL DEF Spec

-----------------------------------------------------------------------------
(* Every document of the registry, every event and every local of a call   *)
(* has its type: a version is 1.0.0 or one counted from what some schema   *)
(* declares, whatever that is.  A search finds something once anything was *)
(* stored.                                                                 *)
THEOREM TypeCorrect == Spec => []SchemaTypeOK
<1>1. Inv => SchemaTypeOK
  BY DEF Inv, DbGood, EventsGood, GoodEvent, RegGood, FlowGood, PubGood, DepGood, SchemaTypeOK
<1> QED BY <1>1, InvAlways, PTL

(* Two versions are ACTIVE only while a publication has still to supersede *)
(* one of them, or after a call of the database that failed.               *)
THEOREM OneVersionActive == Spec => []OneActive
<1>1. Inv => OneActive
  BY DEF Inv, Covered, Covers, AtP, OneActive, Superseding
<1> QED BY <1>1, InvAlways, PTL

(* Nothing BREAKING is in the registry without an approval on record. *)
THEOREM BreakingIsApproved == Spec => []BreakingWasApproved
<1>1. Inv => BreakingWasApproved
  BY DEF Inv, DbGood, GoodDoc, OnRecord, Granted, BreakingWasApproved
<1> QED BY <1>1, InvAlways, PTL
=============================================================================
