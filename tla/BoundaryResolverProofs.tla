----------------------- MODULE BoundaryResolverProofs -----------------------
(* The resolver implements the allocator, for every set of calls, counters *)
(* and counts; what the allocator promises is inherited from its proofs.   *)
EXTENDS BoundaryResolver, FiniteSetTheorems, TLAPS

A == INSTANCE AllocatorProofs WITH next <- Boundaries, want <- count, answer <- Answers

LEMMA AllocatorApplies == A!AllocatorAssumption
  BY ResolverAssumption DEF A!AllocatorAssumption

USE ResolverAssumption

(* The parts of a call's state after it is changed at one place. *)
LEMMA MoveShape ==
  ASSUME NEW C \in CallState, NEW pc \in {"read", "write", "done"}
  PROVE  /\ [C EXCEPT !.pc = pc] \in CallState
         /\ [C EXCEPT !.pc = pc].pc = pc
         /\ [C EXCEPT !.pc = pc].attempt = C.attempt
         /\ [C EXCEPT !.pc = pc].read = C.read
  BY DEF CallState

LEMMA ReadShape ==
  ASSUME NEW C \in CallState, NEW v \in Versions
  PROVE  /\ [C EXCEPT !.pc = "write", !.read = v] \in CallState
         /\ [C EXCEPT !.pc = "write", !.read = v].pc = "write"
         /\ [C EXCEPT !.pc = "write", !.read = v].attempt = C.attempt
         /\ [C EXCEPT !.pc = "write", !.read = v].read = v
  BY DEF CallState

LEMMA RetryShape ==
  ASSUME NEW C \in CallState, ~ LastAttempt(C.attempt)
  PROVE  [pc |-> "read", attempt |-> C.attempt + 1, read |-> C.read] \in CallState
  BY DEF CallState, LastAttempt

(* Where a call is says what it has asked and whether it was answered. *)
CallsTold ==
  \A c \in Calls :
    /\ count[c] = None <=> At(c, "idle")
    /\ result[c] = NoResult <=> ~ At(c, "done")
    /\ result[c].code # "none" <=> At(c, "done")

(* A copy with the document's sequence number is the document. *)
CopiesAreOld ==
  \A c \in Calls : At(c, "write") =>
    /\ Stored(Current)
    /\ call[c].read.seqNo <= db[Current].seqNo
    /\ call[c].read.seqNo = db[Current].seqNo => call[c].read = db[Current]

(* The sequence number counts the calls that were granted, and every       *)
(* attempt that failed was passed by another one.                          *)
SeqCountsGrants == SeqNo(Current) = Cardinality(Granted)

AttemptsWerePassed ==
  \A c \in Calls :
    /\ At(c, "idle") => call[c].attempt = 0
    /\ At(c, "read") => call[c].attempt <= SeqNo(Current)
    /\ At(c, "write") => call[c].attempt <= call[c].read.seqNo

Inv ==
  /\ TypeOK /\ CallsTold /\ CopiesAreOld
  /\ SeqCountsGrants /\ AttemptsWerePassed /\ ConflictMeansContention

(* Documents: what the sequence number of the boundaries is. *)
LEMMA CurrentSeq ==
  ASSUME TypeOK
  PROVE  /\ SeqNo(Current) \in Nat
         /\ Stored(Current) => db[Current] \in Versions
         /\ Stored(Current) => SeqNo(Current) = db[Current].seqNo
         /\ Stored(Current) => db[Current] = [body |-> db[Current].body, seqNo |-> db[Current].seqNo]
  BY DEF TypeOK, SeqNo, Stored, Versions, DocumentsOf

LEMMA InvInit == Init => Inv
<1> SUFFICES ASSUME Init PROVE Inv
  OBVIOUS
<1>1. db = [id \in DocIds |-> NoDoc] \/ db = [id \in DocIds |-> Fresh(First)]
  BY DEF Init
<1>2. TypeOK
  BY <1>1 DEF Init, TypeOK, NotRead, NoResult, Fresh, DocumentsOf, Versions, CallState, Outcomes
<1>3. SeqNo(Current) = 0
  BY <1>1 DEF SeqNo, Stored, Fresh
<1>4. Granted = {}
  BY DEF Init, Granted, NoResult
<1>5. Cardinality(Granted) = 0
  BY <1>4, FS_EmptySet
<1>6. CallsTold /\ CopiesAreOld /\ AttemptsWerePassed /\ ConflictMeansContention
  BY <1>3 DEF Init, CallsTold, CopiesAreOld, AttemptsWerePassed, ConflictMeansContention, At, NoResult
<1> QED
  BY <1>2, <1>3, <1>5, <1>6 DEF Inv, SeqCountsGrants

(* A step that answers no call "ok" and leaves the document alone keeps    *)
(* the number of grants.                                                   *)
LEMMA SameGrants ==
  ASSUME TypeOK, NEW c \in Calls, NEW res, res.code # "ok", ~ (result[c].code = "ok"),
         result' = [result EXCEPT ![c] = res]
  PROVE  Granted' = Granted
  BY DEF Granted, TypeOK

LEMMA RequestStep ==
  ASSUME Inv, NEW c \in Calls, NEW w \in Wants, Request(c, w)
  PROVE  Inv'
<1> USE DEF Inv, Request
<1>0. w # None /\ w \in Wants \cup {None}
  OBVIOUS
<1>m. /\ call' = [call EXCEPT ![c] = [call[c] EXCEPT !.pc = "read"]]
      /\ call[c] \in CallState
      /\ [call[c] EXCEPT !.pc = "read"] \in CallState
      /\ [call[c] EXCEPT !.pc = "read"].pc = "read"
      /\ [call[c] EXCEPT !.pc = "read"].attempt = call[c].attempt
  BY MoveShape DEF TypeOK
<1>1. TypeOK'
  BY <1>m, <1>0 DEF TypeOK
<1>2. CallsTold'
  <2>1. \A d \in Calls \ {c} : call'[d] = call[d] /\ count'[d] = count[d]
    BY DEF TypeOK
  <2>2. call'[c].pc = "read" /\ count'[c] = w
    BY <1>m DEF TypeOK
  <2> QED
    BY <1>0, <2>1, <2>2 DEF CallsTold, At
<1>3. CopiesAreOld'
  BY DEF CopiesAreOld, At, Stored, TypeOK
<1>4. Granted' = Granted /\ SeqNo(Current)' = SeqNo(Current)
  BY DEF Granted, SeqNo, Stored
<1>5. AttemptsWerePassed'
  BY <1>4, CurrentSeq DEF AttemptsWerePassed, At, TypeOK
<1> QED
  BY <1>1, <1>2, <1>3, <1>4, <1>5 DEF SeqCountsGrants, ConflictMeansContention

LEMMA ReadVersionStep ==
  ASSUME Inv, NEW c \in Calls, ReadVersion(c)
  PROVE  Inv'
<1> USE DEF Inv
<1>r. At(c, "read") /\ Stored(Current) /\ UNCHANGED <<db, count, result, faults>>
  BY DEF ReadVersion
<1>0. db[Current] \in Versions /\ SeqNo(Current) = db[Current].seqNo
  BY <1>r, CurrentSeq
<1> DEFINE C == [call[c] EXCEPT !.pc = "write", !.read = db[Current]]
<1>c. call[c] \in CallState
  BY DEF TypeOK
<1>p. /\ C \in CallState
      /\ C.pc = "write" /\ C.attempt = call[c].attempt /\ C.read = db[Current]
  BY <1>0, <1>c, ReadShape
<1>m. call' = [call EXCEPT ![c] = C]
  BY DEF ReadVersion
<1> HIDE DEF C
<1>o. call'[c] = C /\ \A d \in Calls \ {c} : call'[d] = call[d]
  BY <1>m DEF TypeOK
<1>1. TypeOK'
  BY <1>m, <1>p, <1>r DEF TypeOK
<1>2. CallsTold'
  BY <1>p, <1>o, <1>r DEF CallsTold, At
<1>3. CopiesAreOld'
  BY <1>0, <1>p, <1>o, <1>r DEF CopiesAreOld, At, Stored, Versions, DocumentsOf
<1>4. Granted' = Granted /\ SeqNo(Current)' = SeqNo(Current)
  BY <1>r DEF Granted, SeqNo, Stored
<1>5. AttemptsWerePassed'
  BY <1>0, <1>4, <1>p, <1>o, <1>r DEF AttemptsWerePassed, At
<1> QED
  BY <1>r, <1>1, <1>2, <1>3, <1>4, <1>5 DEF SeqCountsGrants, ConflictMeansContention

(* The ends of a call that take nothing. *)
LEMMA FailedStep ==
  ASSUME Inv, NEW c \in Calls, ~ At(c, "done"), ~ At(c, "idle"),
         NEW code \in {"NOT_FOUND", "STORE_FAILED", "BOUNDARY_CONFLICT"},
         Return(c, Failed(code)), UNCHANGED <<db, count>>, faults' \in Nat,
         code = "BOUNDARY_CONFLICT" => Cardinality(Granted) >= MAX_RETRIES
  PROVE  Inv'
<1> USE DEF Inv, Return, Failed
<1>m. /\ call' = [call EXCEPT ![c] = [call[c] EXCEPT !.pc = "done"]]
      /\ call[c] \in CallState
      /\ [call[c] EXCEPT !.pc = "done"] \in CallState
      /\ [call[c] EXCEPT !.pc = "done"].pc = "done"
  BY MoveShape DEF TypeOK
<1>n. Failed(code) \in Outcomes /\ Failed(code).code = code /\ Failed(code) # NoResult
  BY DEF Outcomes, NoResult
<1> HIDE DEF Failed
<1>o. /\ call'[c].pc = "done" /\ result'[c] = Failed(code)
      /\ \A d \in Calls \ {c} : call'[d] = call[d] /\ result'[d] = result[d]
  BY <1>m DEF TypeOK
<1>1. TypeOK'
  BY <1>m, <1>n DEF TypeOK
<1>2. CallsTold'
  BY <1>n, <1>o DEF CallsTold, At
<1>3. CopiesAreOld'
  BY <1>o DEF CopiesAreOld, At, Stored
<1>4. result[c].code # "ok"
  BY DEF CallsTold, NoResult
<1>5. Granted' = Granted
  BY <1>4, <1>n, <1>o DEF Granted
<1>6. SeqNo(Current)' = SeqNo(Current)
  BY DEF SeqNo, Stored
<1>7. AttemptsWerePassed'
  BY <1>6, <1>o DEF AttemptsWerePassed, At
<1>8. ConflictMeansContention'
  BY <1>5, <1>n, <1>o DEF ConflictMeansContention
<1> QED
  BY <1>1, <1>2, <1>3, <1>5, <1>6, <1>7, <1>8 DEF SeqCountsGrants

(* A copy that lost was passed by a write since it was read. *)
LEMMA ConflictPassed ==
  ASSUME Inv, NEW c \in Calls, At(c, "write"), Conflict(Current, call[c].read.seqNo)
  PROVE  /\ call[c].attempt \in Nat
         /\ call[c].attempt + 1 <= SeqNo(Current)
         /\ SeqNo(Current) = Cardinality(Granted)
<1>1. SeqNo(Current) \in Nat /\ SeqNo(Current) = db[Current].seqNo
  BY CurrentSeq DEF Inv, CopiesAreOld
<1>2. call[c].attempt \in Nat /\ call[c].read.seqNo \in Nat
  BY DEF Inv, TypeOK, CallState, Versions, DocumentsOf, NotRead
<1>3. call[c].read.seqNo <= SeqNo(Current) /\ call[c].attempt <= call[c].read.seqNo
  BY <1>1 DEF Inv, CopiesAreOld, AttemptsWerePassed
<1> QED
  BY <1>1, <1>2, <1>3 DEF Conflict, Inv, SeqCountsGrants

LEMMA RetryStep ==
  ASSUME Inv, NEW c \in Calls, Retry(c)
  PROVE  Inv'
<1> USE DEF Inv, Retry, AfterConflict
<1>0. call[c].attempt \in Nat /\ call[c].attempt + 1 <= SeqNo(Current)
  BY ConflictPassed
<1> DEFINE C == [pc |-> "read", attempt |-> call[c].attempt + 1, read |-> call[c].read]
<1>m. call' = [call EXCEPT ![c] = C] /\ C \in CallState
      /\ C.pc = "read" /\ C.attempt = call[c].attempt + 1
  BY RetryShape DEF TypeOK
<1> HIDE DEF C
<1>o. call'[c] = C /\ \A d \in Calls \ {c} : call'[d] = call[d]
  BY <1>m DEF TypeOK
<1>1. TypeOK'
  BY <1>m DEF TypeOK
<1>2. CallsTold'
  BY <1>m, <1>o DEF CallsTold, At
<1>3. CopiesAreOld'
  BY <1>m, <1>o DEF CopiesAreOld, At, Stored
<1>4. Granted' = Granted /\ SeqNo(Current)' = SeqNo(Current)
  BY DEF Granted, SeqNo, Stored
<1>5. AttemptsWerePassed'
  BY <1>0, <1>4, <1>m, <1>o DEF AttemptsWerePassed, At
<1> QED
  BY <1>1, <1>2, <1>3, <1>4, <1>5 DEF SeqCountsGrants, ConflictMeansContention

LEMMA GiveUpStep ==
  ASSUME Inv, NEW c \in Calls, GiveUp(c)
  PROVE  Inv'
<1>1. call[c].attempt \in Nat /\ call[c].attempt + 1 <= Cardinality(Granted)
  BY ConflictPassed DEF GiveUp
<1>2. Cardinality(Granted) >= MAX_RETRIES
  <2>1. IsFiniteSet(Granted)
    BY FS_Subset DEF Granted
  <2>2. Cardinality(Granted) \in Nat
    BY <2>1, FS_CardinalityType
  <2> QED
    BY <1>1, <2>2 DEF GiveUp, LastAttempt
<1>3. faults' \in Nat
  BY DEF GiveUp, Inv, TypeOK
<1> QED
  BY <1>2, <1>3, FailedStep DEF GiveUp, At

(* The write: the copy was the document, so the number of grants and the   *)
(* sequence number grow together.                                          *)
LEMMA WriteGives ==
  ASSUME Inv, NEW c \in Calls, Write(c)
  PROVE  /\ call[c].read = db[Current] /\ db[Current] \in Versions
         /\ db'[Current] = [body |-> Updated(db[Current].body, count[c]),
                            seqNo |-> db[Current].seqNo + 1]
         /\ db'[Current].body = Updated(db[Current].body, count[c])
         /\ db'[Current].seqNo = db[Current].seqNo + 1
         /\ db'[Current] \in Versions
         /\ Stored(Current)' /\ Stored(Current)
         /\ count[c] \in Wants
         /\ result[c] = NoResult
<1>1. Stored(Current) /\ db[Current] \in Versions /\ SeqNo(Current) = db[Current].seqNo
  BY CurrentSeq DEF Write, Inv, CopiesAreOld
<1>2. call[c].read = db[Current]
  BY <1>1 DEF Write, StoreDocumentWithOCC, Conflict, Inv, CopiesAreOld
<1>3. count[c] \in Wants /\ result[c] = NoResult
  BY DEF Write, Inv, CallsTold, At, TypeOK
<1>4. db'[Current] = [body |-> Updated(db[Current].body, count[c]), seqNo |-> db[Current].seqNo + 1]
  BY <1>1, <1>2 DEF Write, StoreDocumentWithOCC, NewSeq, Inv, TypeOK
<1>5. Updated(db[Current].body, count[c]) \in [Kinds -> Nat]
  BY <1>1, <1>3 DEF Updated, Versions, DocumentsOf
<1>6. db'[Current] \in Versions
  BY <1>1, <1>4, <1>5 DEF Versions, DocumentsOf
<1>7. Stored(Current)'
  BY <1>6 DEF Stored, Versions
<1> QED
  BY <1>1, <1>2, <1>3, <1>4, <1>6, <1>7

LEMMA WriteStep ==
  ASSUME Inv, NEW c \in Calls, Write(c)
  PROVE  Inv'
<1>0. /\ call[c].read = db[Current] /\ db[Current] \in Versions
      /\ db'[Current].seqNo = db[Current].seqNo + 1
      /\ db'[Current] \in Versions
      /\ Stored(Current)' /\ Stored(Current)
      /\ result[c] = NoResult
  BY WriteGives
<1>s. /\ SeqNo(Current)' = SeqNo(Current) + 1
      /\ SeqNo(Current) = db[Current].seqNo /\ db[Current].seqNo \in Nat
  BY <1>0 DEF SeqNo, Versions, DocumentsOf
<1>m. /\ call' = [call EXCEPT ![c] = [call[c] EXCEPT !.pc = "done"]]
      /\ [call[c] EXCEPT !.pc = "done"] \in CallState
      /\ [call[c] EXCEPT !.pc = "done"].pc = "done"
  BY MoveShape DEF Inv, TypeOK, Write, Return
<1> DEFINE R == [code |-> "ok", start |-> call[c].read.body]
<1>n. R \in Outcomes /\ R.code = "ok" /\ R # NoResult /\ result' = [result EXCEPT ![c] = R]
  BY <1>0 DEF Outcomes, NoResult, Write, Return, Versions, DocumentsOf
<1> HIDE DEF R
<1>o. /\ call'[c].pc = "done" /\ result'[c] = R
      /\ \A d \in Calls \ {c} : call'[d] = call[d] /\ result'[d] = result[d]
  BY <1>m, <1>n DEF Inv, TypeOK
<1>1. TypeOK'
  <2>1. db' \in [DocIds -> Versions \cup {NoDoc}]
    BY <1>0 DEF Write, StoreDocumentWithOCC, Inv, TypeOK
  <2> QED
    BY <2>1, <1>m, <1>n DEF Write, Inv, TypeOK
<1>2. CallsTold'
  BY <1>n, <1>o DEF Inv, Write, CallsTold, At
<1>3. CopiesAreOld'
  <2> SUFFICES ASSUME NEW d \in Calls, At(d, "write")'
               PROVE  call[d].read.seqNo <= db[Current].seqNo /\ call'[d] = call[d]
    <3>1. \A d \in Calls : call[d].read.seqNo \in Nat
      BY DEF Inv, TypeOK, CallState, Versions, DocumentsOf, NotRead
    <3> QED
      BY <1>0, <1>s, <3>1 DEF CopiesAreOld
  <2> QED
    BY <1>o DEF Inv, CopiesAreOld, At
<1>4. SeqCountsGrants'
  <2>1. Granted' = Granted \cup {c} /\ c \notin Granted
    BY <1>0, <1>n, <1>o DEF Granted, NoResult
  <2>2. IsFiniteSet(Granted)
    BY FS_Subset DEF Granted
  <2>3. Cardinality(Granted') = Cardinality(Granted) + 1
    BY <2>1, <2>2, FS_AddElement
  <2> QED
    BY <2>3, <1>s DEF SeqCountsGrants, Inv
<1>5. AttemptsWerePassed'
  <2>1. \A d \in Calls : call[d].attempt \in Nat
    BY DEF Inv, TypeOK, CallState
  <2> QED
    BY <2>1, <1>s, <1>o DEF Inv, AttemptsWerePassed, At
<1>6. ConflictMeansContention'
  <2>1. Cardinality(Granted)' = Cardinality(Granted) + 1 /\ Cardinality(Granted) \in Nat
    BY <1>4, <1>s DEF SeqCountsGrants, Inv
  <2> QED
    BY <2>1, <1>n, <1>o DEF ConflictMeansContention, Inv
<1> QED
  BY <1>1, <1>2, <1>3, <1>4, <1>5, <1>6 DEF Inv

LEMMA InvStep ==
  ASSUME Inv, [Next]_vars
  PROVE  Inv'
<1>1. ASSUME NEW c \in Calls, Step(c) PROVE Inv'
  <2>1. CASE ReadVersion(c)
    BY <2>1, ReadVersionStep
  <2>2. CASE ReadMissing(c)
    BY <2>2, FailedStep DEF ReadMissing, At, Inv, TypeOK
  <2>3. CASE Write(c)
    BY <2>3, WriteStep
  <2>4. CASE Retry(c)
    BY <2>4, RetryStep
  <2>5. CASE GiveUp(c)
    BY <2>5, GiveUpStep
  <2>6. CASE WriteFault(c)
    BY <2>6, FailedStep DEF WriteFault, At, Inv, TypeOK
  <2> QED
    BY <1>1, <2>1, <2>2, <2>3, <2>4, <2>5, <2>6 DEF Step
<1>2. CASE UNCHANGED vars
  BY <1>2 DEF vars, callVars, Inv, TypeOK, CallsTold, CopiesAreOld, SeqCountsGrants,
     AttemptsWerePassed, ConflictMeansContention, At, Stored, SeqNo, Granted
<1> QED
  BY <1>1, <1>2, RequestStep DEF Next

(* The resolver's state is well formed. *)
THEOREM TypeCorrect == Spec => []TypeOK
  BY InvInit, InvStep, PTL DEF Spec, Inv

(* BOUNDARY_CONFLICT is returned only after MAX_RETRIES other calls were   *)
(* granted: up to that many concurrent calls are never refused for it.     *)
THEOREM ConflictIsContention == Spec => []ConflictMeansContention
  BY InvInit, InvStep, PTL DEF Spec, Inv

-----------------------------------------------------------------------------
(* The refinement: what each step is to the allocator. *)
LEMMA AnswerOf ==
  ASSUME TypeOK, NEW c \in Calls, NEW r \in Outcomes,
         result' = [result EXCEPT ![c] = r],
         NEW s, s = (CASE r.code = "none" -> "none" [] r.code = "ok" -> "granted" [] OTHER -> "refused")
  PROVE  Answers' = [Answers EXCEPT ![c] = [status |-> s, start |-> r.start]]
<1>1. result'[c] = r /\ \A d \in Calls \ {c} : result'[d] = result[d]
  BY DEF TypeOK
<1> QED
  BY <1>1 DEF Answers

LEMMA Unanswered ==
  ASSUME Inv, NEW c \in Calls, ~ At(c, "done"), ~ At(c, "idle")
  PROVE  A!Asking(c)
<1>1. result[c] = NoResult /\ count[c] # None
  BY DEF Inv, CallsTold
<1>2. Answers[c] = A!Unanswered
  BY <1>1 DEF Answers, A!Unanswered, NoResult
<1> QED
  BY <1>1, <1>2 DEF A!Asking

LEMMA RequestAsks ==
  ASSUME Inv, NEW c \in Calls, NEW w \in Wants, Request(c, w)
  PROVE  A!Ask(c, w)
<1>1. count[c] = None
  BY DEF Inv, CallsTold, Request
<1>2. UNCHANGED <<Boundaries, Answers>>
  BY DEF Request, Boundaries, Answers, Stored
<1> QED
  BY <1>1, <1>2 DEF A!Ask, Request

LEMMA WriteGrants ==
  ASSUME Inv, NEW c \in Calls, Write(c)
  PROVE  A!Grant(c)
<1>1. A!Asking(c)
  BY Unanswered DEF Write, At
<1>2. Boundaries = db[Current].body /\ call[c].read.body = db[Current].body
  BY WriteGives DEF Boundaries
<1>3. Boundaries' = [k \in Kinds |-> Boundaries[k] + count[c][k]]
  <2>1. Boundaries' = Updated(db[Current].body, count[c])
    BY WriteGives DEF Boundaries
  <2> QED
    BY <2>1, <1>2 DEF Updated
<1>4. Answers' = [Answers EXCEPT ![c] = [status |-> "granted", start |-> Boundaries]]
  <2>1. db[Current].body \in [Kinds -> Nat]
    BY WriteGives DEF Versions, DocumentsOf
  <2> DEFINE R == [code |-> "ok", start |-> db[Current].body]
  <2>2. R \in Outcomes /\ R.code = "ok" /\ R.start = Boundaries
    BY <2>1, <1>2 DEF Outcomes
  <2>3. result' = [result EXCEPT ![c] = R]
    BY <1>2 DEF Write, Return
  <2> HIDE DEF R
  <2> QED
    BY <2>2, <2>3, AnswerOf DEF Inv
<1> QED
  BY <1>1, <1>3, <1>4 DEF A!Grant, Write

LEMMA FailureRefuses ==
  ASSUME Inv, NEW c \in Calls, ~ At(c, "done"), ~ At(c, "idle"),
         NEW code \in {"NOT_FOUND", "STORE_FAILED", "BOUNDARY_CONFLICT"},
         Return(c, Failed(code)), UNCHANGED <<db, count>>
  PROVE  A!Refuse(c)
<1>1. A!Asking(c)
  BY Unanswered
<1>2. UNCHANGED Boundaries
  BY DEF Boundaries, Stored
<1>3. Failed(code) \in Outcomes /\ Failed(code).code = code /\ Failed(code).start = None
  BY DEF Failed, Outcomes
<1>4. Answers' = [Answers EXCEPT ![c] = [status |-> "refused", start |-> None]]
  BY <1>3, AnswerOf DEF Return, Inv
<1> QED
  BY <1>1, <1>2, <1>4 DEF A!Refuse

LEMMA StepSimulated ==
  ASSUME Inv, [Next]_vars
  PROVE  [A!Next]_A!allocatorVars
<1>1. ASSUME NEW c \in Calls, Step(c) PROVE A!Grant(c) \/ A!Refuse(c) \/ UNCHANGED A!allocatorVars
  <2>1. CASE ReadVersion(c) \/ Retry(c)
    BY <2>1 DEF ReadVersion, Retry, A!allocatorVars, Boundaries, Answers, Stored
  <2>2. CASE ReadMissing(c)
    BY <2>2, FailureRefuses DEF ReadMissing, At
  <2>3. CASE Write(c)
    BY <2>3, WriteGrants
  <2>4. CASE GiveUp(c)
    BY <2>4, FailureRefuses DEF GiveUp, At
  <2>5. CASE WriteFault(c)
    BY <2>5, FailureRefuses DEF WriteFault, At
  <2> QED
    BY <1>1, <2>1, <2>2, <2>3, <2>4, <2>5 DEF Step
<1>2. CASE UNCHANGED vars
  BY <1>2 DEF vars, callVars, A!allocatorVars, Boundaries, Answers, Stored
<1> QED
  BY <1>1, <1>2, RequestAsks DEF Next, A!Next

LEMMA InitSimulated == Init => A!Init
<1> SUFFICES ASSUME Init PROVE A!Init
  OBVIOUS
<1>1. db[Current] = NoDoc \/ db[Current] = Fresh(First)
  BY DEF Init
<1>2. Boundaries = First
  BY <1>1 DEF Boundaries, Stored, Fresh
<1>3. Answers = [c \in Calls |-> A!Unanswered]
  BY DEF Init, Answers, NoResult, A!Unanswered
<1> QED
  BY <1>2, <1>3 DEF A!Init, Init

(* The allocator the resolver is checked against and the one of the proofs *)
(* are the same.                                                           *)
LEMMA SameInit == A!Init <=> Promise!Init
  BY DEF A!Init, Promise!Init, A!Unanswered, Promise!Unanswered

LEMMA SameStep == [A!Next]_A!allocatorVars <=> [Promise!Next]_Promise!allocatorVars
  BY DEF A!Next, Promise!Next, A!allocatorVars, Promise!allocatorVars, A!Ask, Promise!Ask,
     A!Grant, Promise!Grant, A!Refuse, Promise!Refuse, A!Asking, Promise!Asking,
     A!Unanswered, Promise!Unanswered

LEMMA SameIdentifiers == (A!Disjoint <=> Promise!Disjoint) /\ (A!NoGap <=> Promise!NoGap)
  BY DEF A!Disjoint, Promise!Disjoint, A!NoGap, Promise!NoGap, A!Given, Promise!Given,
     A!Granted, Promise!Granted

(* The resolver's optimistic loop implements the allocator's atomic grant. *)
THEOREM Implements == Spec => ImplementsAllocator
<1>1. Init => Promise!Init
  BY InitSimulated, SameInit
<1>2. Inv /\ [Next]_vars => [Promise!Next]_Promise!allocatorVars
  BY StepSimulated, SameStep
<1> QED
  BY <1>1, <1>2, InvInit, InvStep, PTL DEF Spec, ImplementsAllocator, Promise!Spec

(* No artifact identifier is allocated twice: inherited from the allocator. *)
THEOREM AllocatedOnce == Spec => []NoIdentifierTwice
<1>1. Init => A!Inv
  BY InitSimulated, AllocatorApplies, A!InvInit
<1>2. Inv /\ [Next]_vars /\ A!Inv => A!Inv'
  BY StepSimulated, AllocatorApplies, A!InvStep
<1>3. A!Inv => NoIdentifierTwice
  BY SameIdentifiers DEF A!Inv, NoIdentifierTwice
<1> QED
  BY <1>1, <1>2, <1>3, InvInit, InvStep, PTL DEF Spec

(* Nor is one skipped. *)
THEOREM AllocatedInOrder == Spec => []NoIdentifierSkipped
<1>1. Init => A!Inv
  BY InitSimulated, AllocatorApplies, A!InvInit
<1>2. Inv /\ [Next]_vars /\ A!Inv => A!Inv'
  BY StepSimulated, AllocatorApplies, A!InvStep
<1>3. A!Inv => NoIdentifierSkipped
  BY SameIdentifiers DEF A!Inv, NoIdentifierSkipped
<1> QED
  BY <1>1, <1>2, <1>3, InvInit, InvStep, PTL DEF Spec

-----------------------------------------------------------------------------
(* The safety part of EveryCallReturns: what a call has left to do, in     *)
(* reads and writes of its own.  Losing to the others costs it one of its  *)
(* attempts, so they cannot keep it from returning.                        *)
CallRank(c) ==
  CASE At(c, "read") -> 2 * (MAX_RETRIES - call[c].attempt) + 1
    [] At(c, "write") -> 2 * (MAX_RETRIES - call[c].attempt)
    [] OTHER -> 0

CallsRunDownStep ==
  \A c \in Calls : ~ At(c, "idle") => call'[c] = call[c] \/ CallRank(c)' < CallRank(c)

LEMMA RankIsNat ==
  ASSUME TypeOK, NEW c \in Calls
  PROVE  CallRank(c) \in Nat /\ CallRank(c) <= 2 * MAX_RETRIES + 1
<1>1. call[c].attempt \in 0 .. MAX_RETRIES - 1
  BY DEF TypeOK, CallState
<1> QED
  BY <1>1 DEF CallRank

LEMMA RunDownStep ==
  ASSUME Inv, [Next]_vars
  PROVE  [CallsRunDownStep]_vars
<1>0. TypeOK
  BY DEF Inv
<1>1. ASSUME NEW c \in Calls, \A d \in Calls \ {c} : call'[d] = call[d],
             At(c, "idle") \/ CallRank(c)' < CallRank(c)
      PROVE  CallsRunDownStep
  BY <1>1 DEF CallsRunDownStep
<1>2. ASSUME NEW c \in Calls, NEW w \in Wants, Request(c, w) PROVE CallsRunDownStep
  BY <1>0, <1>1, <1>2 DEF Request, TypeOK
<1>3. ASSUME NEW c \in Calls, Step(c) PROVE CallsRunDownStep
  <2>0. call[c] \in CallState /\ call[c].attempt \in 0 .. MAX_RETRIES - 1
    BY <1>0 DEF TypeOK, CallState
  <2>1. CASE ReadVersion(c)
    <3>1. db[Current] \in Versions
      BY <1>0, <2>1, CurrentSeq DEF ReadVersion
    <3> DEFINE C == [call[c] EXCEPT !.pc = "write", !.read = db[Current]]
    <3>2. C.pc = "write" /\ C.attempt = call[c].attempt
      BY <2>0, <3>1, ReadShape
    <3>3. call' = [call EXCEPT ![c] = C] /\ call[c].pc = "read"
      BY <2>1 DEF ReadVersion, At
    <3> HIDE DEF C
    <3>4. /\ call'[c].pc = "write" /\ call'[c].attempt = call[c].attempt
          /\ \A d \in Calls \ {c} : call'[d] = call[d]
      BY <1>0, <3>2, <3>3 DEF TypeOK
    <3>5. CallRank(c)' = 2 * (MAX_RETRIES - call[c].attempt)
      BY <3>4 DEF CallRank, At
    <3>6. CallRank(c) = 2 * (MAX_RETRIES - call[c].attempt) + 1
      BY <3>3 DEF CallRank, At
    <3> QED
      BY <1>1, <2>0, <3>4, <3>5, <3>6
  <2>2. CASE Retry(c)
    <3>1. /\ call'[c].pc = "read" /\ call'[c].attempt = call[c].attempt + 1
          /\ \A d \in Calls \ {c} : call'[d] = call[d]
      BY <1>0, <2>2 DEF Retry, AfterConflict, TypeOK
    <3> QED
      BY <1>1, <2>0, <2>2, <3>1 DEF Retry, CallRank, At
  <2>3. CASE (At(c, "read") \/ At(c, "write")) /\ \E res : Return(c, res)
    <3>1. /\ call'[c].pc = "done"
          /\ \A d \in Calls \ {c} : call'[d] = call[d]
      BY <1>0, <2>0, <2>3, MoveShape DEF Return, TypeOK
    <3> QED
      BY <1>1, <2>0, <2>3, <3>1 DEF CallRank, At
  <2> QED
    BY <1>3, <2>1, <2>2, <2>3 DEF Step, ReadMissing, Write, GiveUp, WriteFault
<1> QED
  BY <1>2, <1>3 DEF Next

(* A call takes at most 2 * MAX_RETRIES + 1 steps, whatever the others do: *)
(* each of its steps lowers its rank, and no step of another raises it.    *)
THEOREM CallsRunDown ==
  Spec => /\ [](\A c \in Calls : CallRank(c) \in Nat /\ CallRank(c) <= 2 * MAX_RETRIES + 1)
          /\ [][CallsRunDownStep]_vars
<1>1. Inv => \A c \in Calls : CallRank(c) \in Nat /\ CallRank(c) <= 2 * MAX_RETRIES + 1
  BY RankIsNat DEF Inv
<1>2. Inv /\ [Next]_vars => [CallsRunDownStep]_vars
  BY RunDownStep
<1> QED
  BY <1>1, <1>2, InvInit, InvStep, PTL DEF Spec
=============================================================================
