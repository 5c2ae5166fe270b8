----------------------------- MODULE Allocator -----------------------------
(***************************************************************************)
(* What a caller of resolveNextBoundaries                                  *)
(* (src/server/src/engine/boundaries/boundary-resolver.handler.ts) is      *)
(* promised: identifiers of every kind are handed out in one step, to one  *)
(* call, without gaps; a call that is refused takes nothing.               *)
(***************************************************************************)
EXTENDS Integers

CONSTANTS
  Calls,    \* the calls
  Kinds,    \* the counters identifiers are taken from
  Wants,    \* what a call may ask for: how many of each kind
  First,    \* the first identifier of each kind
  None      \* no value

(* What the theorems about it, and whoever implements it, take for granted. *)
AllocatorAssumption ==
  /\ Wants \subseteq [Kinds -> Nat]
  /\ First \in [Kinds -> Nat]
  /\ None \notin [Kinds -> Nat]

VARIABLES
  next,     \* the next identifier of each kind
  want,     \* what each call asked for, None before it asks
  answer    \* each call: [status, start]; start: its first identifiers

allocatorVars == <<next, want, answer>>

Unanswered == [status |-> "none", start |-> None]

Init ==
  /\ next = First
  /\ want = [c \in Calls |-> None]
  /\ answer = [c \in Calls |-> Unanswered]

Ask(c, w) ==
  /\ want[c] = None
  /\ want' = [want EXCEPT ![c] = w]
  /\ UNCHANGED <<next, answer>>

Asking(c) == want[c] # None /\ answer[c] = Unanswered

Grant(c) ==
  /\ Asking(c)
  /\ next' = [k \in Kinds |-> next[k] + want[c][k]]
  /\ answer' = [answer EXCEPT ![c] = [status |-> "granted", start |-> next]]
  /\ UNCHANGED want

Refuse(c) ==
  /\ Asking(c)
  /\ answer' = [answer EXCEPT ![c] = [status |-> "refused", start |-> None]]
  /\ UNCHANGED <<next, want>>

Next == \E c \in Calls : (\E w \in Wants : Ask(c, w)) \/ Grant(c) \/ Refuse(c)

Spec == Init /\ [][Next]_allocatorVars

-----------------------------------------------------------------------------
Granted(c) == answer[c].status = "granted"

(* The identifiers of kind k that call c was given. *)
Given(c, k) ==
  IF Granted(c) THEN answer[c].start[k] .. answer[c].start[k] + want[c][k] - 1 ELSE {}

TypeOK ==
  /\ next \in [Kinds -> Nat]
  /\ want \in [Calls -> Wants \cup {None}]
  /\ answer \in [Calls -> [status : {"none", "granted", "refused"},
                           start : [Kinds -> Nat] \cup {None}]]
  /\ \A c \in Calls : Granted(c) => want[c] \in Wants /\ answer[c].start \in [Kinds -> Nat]

(* No identifier is handed out twice. *)
Disjoint ==
  \A c, d \in Calls : c # d => \A k \in Kinds : Given(c, k) \cap Given(d, k) = {}

(* The identifiers handed out are all those below the next one: none is    *)
(* skipped, whatever was refused.                                          *)
NoGap ==
  \A k \in Kinds : UNION {Given(c, k) : c \in Calls} = First[k] .. next[k] - 1
=============================================================================
