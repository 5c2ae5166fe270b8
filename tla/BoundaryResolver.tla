--------------------------- MODULE BoundaryResolver ---------------------------
(***************************************************************************)
(* The allocation of artifact boundaries                                   *)
(* (src/server/src/engine/boundaries/boundary-resolver.handler.ts) over    *)
(* the database fabric of Documents: concurrent calls of                   *)
(* resolveNextBoundaries read the three counters of one document with its  *)
(* version, and write them back on the condition that it has not changed;  *)
(* a call that loses reads again, MAX_RETRIES times in all.                *)
(***************************************************************************)
EXTENDS Documents, Integers, FiniteSets

CONSTANTS
  Calls,        \* calls of resolveNextBoundaries
  Kinds,        \* nextFactory, nextTaskType, nextCFRule
  Wants,        \* the counts a call may ask for
  First,        \* the counters as they were first stored
  MAX_RETRIES,  \* boundary-resolver.handler.ts
  Current,      \* the document 'current' of the boundaries' index
  None,         \* no value
  MaxFaults     \* bound: writes that fail for another reason than a conflict

ASSUME ResolverAssumption ==
  /\ IsFiniteSet(Calls)
  /\ Wants \subseteq [Kinds -> Nat]
  /\ First \in [Kinds -> Nat]
  /\ None \notin [Kinds -> Nat]
  /\ DocIds = {Current}
  /\ NoDoc \notin DocumentsOf([Kinds -> Nat])
  /\ MAX_RETRIES \in Nat \ {0}
  /\ MaxFaults \in Nat

VARIABLES
  call,     \* each call: where it is, its attempt and the version it read
  count,    \* the counts each call asked for
  result,   \* what each call returned: [code, start]
  faults    \* writes that failed so far

callVars == <<call, count, result, faults>>
vars == <<db, callVars>>

NotRead == [body |-> None, seqNo |-> 0]
NoResult == [code |-> "none", start |-> None]
Failed(code) == [code |-> code, start |-> None]

(* The document may not be there: nothing in the source creates it. *)
Init ==
  /\ db \in {[id \in DocIds |-> NoDoc], [id \in DocIds |-> Fresh(First)]}
  /\ call = [c \in Calls |-> [pc |-> "idle", attempt |-> 0, read |-> NotRead]]
  /\ count = [c \in Calls |-> None]
  /\ result = [c \in Calls |-> NoResult]
  /\ faults = 0

At(c, pc) == call[c].pc = pc

Return(c, res) ==
  /\ call' = [call EXCEPT ![c].pc = "done"]
  /\ result' = [result EXCEPT ![c] = res]

Request(c, w) ==
  /\ At(c, "idle")
  /\ call' = [call EXCEPT ![c].pc = "read"]
  /\ count' = [count EXCEPT ![c] = w]
  /\ UNCHANGED <<db, result, faults>>

(* getDocumentWithVersion *)
ReadVersion(c) ==
  /\ At(c, "read") /\ Stored(Current)
  /\ call' = [call EXCEPT ![c].pc = "write", ![c].read = db[Current]]
  /\ UNCHANGED <<db, count, result, faults>>

ReadMissing(c) ==
  /\ At(c, "read") /\ ~ Stored(Current)
  /\ Return(c, Failed("NOT_FOUND"))
  /\ UNCHANGED <<db, count, faults>>

(* allocateRange: the counters after the ranges of this call are taken. *)
Updated_Short(body, w) == \* mutant: the first identifier of a range is left in
  [k \in Kinds |-> IF w[k] = 0 THEN body[k] ELSE body[k] + w[k] - 1]
Updated(body, w) == [k \in Kinds |-> body[k] + w[k]]

Write(c) ==
  /\ At(c, "write")
  /\ StoreDocumentWithOCC(Current, Updated(call[c].read.body, count[c]), call[c].read.seqNo)
  /\ Return(c, [code |-> "ok", start |-> call[c].read.body])
  /\ UNCHANGED <<count, faults>>

(* A conflict: a fresh read after a delay, or the end of the attempts. *)
LastAttempt_Never(attempt) == FALSE \* mutant: no limit on the attempts
LastAttempt(attempt) == attempt >= MAX_RETRIES - 1

AfterConflict_SameRead == "write" \* mutant: the retry does not read again
AfterConflict_Dropped == "delay" \* mutant: nothing resumes the call after the delay
AfterConflict == "read"

Retry(c) ==
  /\ At(c, "write")
  /\ Conflict(Current, call[c].read.seqNo)
  /\ ~ LastAttempt(call[c].attempt)
  /\ call' = [call EXCEPT ![c] = [pc |-> AfterConflict, attempt |-> @.attempt + 1, read |-> @.read]]
  /\ UNCHANGED <<db, count, result, faults>>

GiveUp(c) ==
  /\ At(c, "write")
  /\ Conflict(Current, call[c].read.seqNo)
  /\ LastAttempt(call[c].attempt)
  /\ Return(c, Failed("BOUNDARY_CONFLICT"))
  /\ UNCHANGED <<db, count, faults>>

(* Any other failure of the write is returned at once. *)
WriteFault(c) ==
  /\ At(c, "write")
  /\ faults < MaxFaults
  /\ faults' = faults + 1
  /\ Return(c, Failed("STORE_FAILED"))
  /\ UNCHANGED <<db, count>>

Step(c) ==
  \/ ReadVersion(c) \/ ReadMissing(c)
  \/ Write(c) \/ Retry(c) \/ GiveUp(c) \/ WriteFault(c)

Next == \E c \in Calls : (\E w \in Wants : Request(c, w)) \/ Step(c)

Spec == Init /\ [][Next]_vars

(* A call that was started runs on. *)
FairSpec == Spec /\ \A c \in Calls : WF_vars(Step(c))

-----------------------------------------------------------------------------
Versions == DocumentsOf([Kinds -> Nat])

CallState ==
  [pc : {"idle", "read", "write", "done"}, attempt : 0 .. MAX_RETRIES - 1,
   read : Versions \cup {NotRead}]

Outcomes ==
  [code : {"none", "ok", "NOT_FOUND", "STORE_FAILED", "BOUNDARY_CONFLICT"},
   start : [Kinds -> Nat] \cup {None}]

TypeOK ==
  /\ db \in [DocIds -> Versions \cup {NoDoc}]
  /\ call \in [Calls -> CallState]
  /\ count \in [Calls -> Wants \cup {None}]
  /\ result \in [Calls -> Outcomes]
  /\ faults \in Nat

(* The resolver keeps the allocator's promise: the successful conditional  *)
(* write is the step that grants, every other end of a call refuses.       *)
Boundaries == IF Stored(Current) THEN db[Current].body ELSE First
Answers ==
  [c \in Calls |->
    [status |-> CASE result[c].code = "none" -> "none"
                  [] result[c].code = "ok"   -> "granted"
                  [] OTHER                   -> "refused",
     start |-> result[c].start]]

Promise == INSTANCE Allocator WITH next <- Boundaries, want <- count, answer <- Answers

ImplementsAllocator == Promise!Spec

(* No artifact identifier is allocated to two calls, and none is skipped.  *)
NoIdentifierTwice == Promise!Disjoint
NoIdentifierSkipped == Promise!NoGap

Granted == {c \in Calls : result[c].code = "ok"}

(* BOUNDARY_CONFLICT is contention and nothing else: MAX_RETRIES other     *)
(* calls were granted, so as many concurrent calls never see it.           *)
ConflictMeansContention ==
  \A c \in Calls :
    result[c].code = "BOUNDARY_CONFLICT" => Cardinality(Granted) >= MAX_RETRIES

(* Every call returns, whatever the others do. *)
EveryCallReturns == \A c \in Calls : At(c, "read") ~> At(c, "done")
=============================================================================
