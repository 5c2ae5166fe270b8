----------------------------- MODULE FifoQueues -----------------------------
(***************************************************************************)
(* What the tenant that owns a queue is promised by the provider           *)
(* (src/server/src/fabrics/queue/in-memory.provider.ts): its messages wait *)
(* in the order they were accepted, a poll takes some from the head and no *)
(* other, each message once, and a received message stays received until   *)
(* its owner acknowledges it.  A restart loses what waits and what is      *)
(* received, of every queue at once.                                       *)
(***************************************************************************)
EXTENDS Integers, Sequences

CONSTANTS
  Queues,   \* the queues
  Messages  \* what may be sent: records with a field id

VARIABLES
  waiting,   \* each queue: its messages, the oldest first
  received,  \* each queue: the messages handed out and not acknowledged
  newest     \* id of the last message accepted; ids grow and are never reused

fifoVars == <<waiting, received, newest>>

Init ==
  /\ waiting = [q \in Queues |-> <<>>]
  /\ received = [q \in Queues |-> {}]
  /\ newest = 0

Accept(q, m) ==
  /\ m.id > newest
  /\ newest' = m.id
  /\ waiting' = [waiting EXCEPT ![q] = Append(@, m)]
  /\ UNCHANGED received

(* A message for a queue that is not of these draws an id as well. *)
AcceptElsewhere == newest' > newest /\ UNCHANGED <<waiting, received>>

HandOut(q, n) ==
  /\ waiting' = [waiting EXCEPT ![q] = SubSeq(@, n + 1, Len(@))]
  /\ received' = [received EXCEPT ![q] = @ \cup {waiting[q][i] : i \in 1..n}]
  /\ UNCHANGED newest

Finish(q, m) ==
  /\ received' = [received EXCEPT ![q] = @ \ {m}]
  /\ UNCHANGED <<waiting, newest>>

LoseAll ==
  /\ waiting' = [q \in Queues |-> <<>>]
  /\ received' = [q \in Queues |-> {}]
  /\ UNCHANGED newest

Next ==
  \/ \E q \in Queues :
       \/ \E m \in Messages : Accept(q, m)
       \/ \E n \in 1..Len(waiting[q]) : HandOut(q, n)
       \/ \E m \in received[q] : Finish(q, m)
  \/ AcceptElsewhere \/ LoseAll

Spec == Init /\ [][Next]_fifoVars
=============================================================================
