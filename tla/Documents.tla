----------------------------- MODULE Documents -----------------------------
(***************************************************************************)
(* The database fabric the services are wired to                           *)
(* (fabrics/database/in-memory.provider.ts in src/server/src), as one      *)
(* tenant sees it: documents by id, each with a sequence number that the   *)
(* provider keeps inside the document itself.                              *)
(*                                                                         *)
(* The operators describe the effect of one provider call on db; each call *)
(* is atomic, everything between two calls may be interleaved.             *)
(***************************************************************************)
EXTENDS Naturals

CONSTANTS
  DocIds,  \* (index, document id) pairs the callers use
  NoDoc    \* the document does not exist

VARIABLE
  db       \* DocIds -> [body, seqNo] or NoDoc

Stored(id) == db[id] # NoDoc

(* doc['__seqNo'] ?? 0: a document never written with OCC counts as 0. *)
SeqNo(id) == IF Stored(id) THEN db[id].seqNo ELSE 0

(* storeDocument replaces the whole document.  A body built afresh has no  *)
(* sequence number; one spread from a copy that was read carries the       *)
(* number it was read with.                                                *)
Fresh(body) == [body |-> body, seqNo |-> 0]
StoreDocument(id, doc) == db' = [db EXCEPT ![id] = doc]

(* storeDocumentWithOCC: a missing document counts as sequence number 0. *)
Conflict_Off(id, ifSeqNo) == FALSE \* mutant: the condition is not looked at
Conflict(id, ifSeqNo) == ifSeqNo # SeqNo(id)

NewSeq(id) == SeqNo(id) + 1

StoreDocumentWithOCC(id, body, ifSeqNo) ==
  /\ ~ Conflict(id, ifSeqNo)
  /\ db' = [db EXCEPT ![id] = [body |-> body, seqNo |-> NewSeq(id)]]

DocumentsOf(Bodies) == [body : Bodies, seqNo : Nat]
=============================================================================
