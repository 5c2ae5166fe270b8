-------------------------- MODULE AllocatorProofs --------------------------
(* Theorems about Allocator, for every set of calls, kinds and counts.     *)
EXTENDS Allocator, TLAPS

USE DEF AllocatorAssumption

(* What one step does to the identifiers given out. *)
LEMMA GrantGives ==
  ASSUME AllocatorAssumption, TypeOK, NEW c \in Calls, Grant(c), NEW k \in Kinds
  PROVE  /\ Given(c, k)' = next[k] .. next'[k] - 1
         /\ next'[k] = next[k] + want[c][k] /\ want[c][k] \in Nat
         /\ \A d \in Calls \ {c} : Given(d, k)' = Given(d, k)
         /\ Given(c, k) = {}
  BY DEF Grant, Given, Granted, Asking, Unanswered, TypeOK

LEMMA OthersGiveNothing ==
  ASSUME AllocatorAssumption, TypeOK, [Next]_allocatorVars, \A c \in Calls : ~ Grant(c)
  PROVE  next' = next /\ \A c \in Calls, k \in Kinds : Given(c, k)' = Given(c, k)
<1> USE DEF Given, Granted, TypeOK
<1>1. ASSUME NEW c \in Calls, NEW w \in Wants, Ask(c, w)
      PROVE  next' = next /\ \A d \in Calls, k \in Kinds : Given(d, k)' = Given(d, k)
  BY <1>1 DEF Ask
<1>2. ASSUME NEW c \in Calls, Refuse(c)
      PROVE  next' = next /\ \A d \in Calls, k \in Kinds : Given(d, k)' = Given(d, k)
  BY <1>2 DEF Refuse, Asking, Unanswered
<1>3. CASE UNCHANGED allocatorVars
  BY <1>3 DEF allocatorVars
<1> QED
  BY <1>1, <1>2, <1>3 DEF Next

(* The inductive invariant: what was given out lies below the next         *)
(* identifier, so a new range cannot meet an old one.                      *)
Below ==
  \A k \in Kinds :
    /\ First[k] <= next[k]
    /\ \A c \in Calls : Given(c, k) \subseteq First[k] .. next[k] - 1

Inv == TypeOK /\ Below /\ Disjoint /\ NoGap

LEMMA TypeStep ==
  ASSUME AllocatorAssumption, TypeOK, [Next]_allocatorVars
  PROVE  TypeOK'
<1> USE DEF TypeOK, Granted
<1>1. ASSUME NEW c \in Calls, NEW w \in Wants, Ask(c, w) PROVE TypeOK'
  BY <1>1 DEF Ask
<1>2. ASSUME NEW c \in Calls, Grant(c) PROVE TypeOK'
  BY <1>2 DEF Grant, Asking, Unanswered
<1>3. ASSUME NEW c \in Calls, Refuse(c) PROVE TypeOK'
  BY <1>3 DEF Refuse, Asking, Unanswered
<1>4. CASE UNCHANGED allocatorVars
  BY <1>4 DEF allocatorVars
<1> QED
  BY <1>1, <1>2, <1>3, <1>4 DEF Next

LEMMA InvInit ==
  ASSUME AllocatorAssumption
  PROVE  Init => Inv
<1> SUFFICES ASSUME Init PROVE Inv
  OBVIOUS
<1>1. TypeOK
  BY DEF Init, TypeOK, Unanswered, Granted
<1>2. \A c \in Calls, k \in Kinds : Given(c, k) = {}
  BY DEF Init, Given, Granted, Unanswered
<1>3. Below
  BY <1>2 DEF Init, Below
<1>4. Disjoint
  BY <1>2 DEF Disjoint
<1>5. ASSUME NEW k \in Kinds PROVE UNION {Given(c, k) : c \in Calls} = First[k] .. next[k] - 1
  <2>1. UNION {Given(c, k) : c \in Calls} = {}
    BY <1>2
  <2>2. First[k] .. next[k] - 1 = {}
    BY DEF Init
  <2> QED
    BY <2>1, <2>2
<1> QED
  BY <1>1, <1>3, <1>4, <1>5 DEF Inv, NoGap

LEMMA InvStep ==
  ASSUME AllocatorAssumption, Inv, [Next]_allocatorVars
  PROVE  Inv'
<1>1. TypeOK'
  BY TypeStep DEF Inv
<1>2. ASSUME NEW c \in Calls, Grant(c) PROVE (Below /\ Disjoint /\ NoGap)'
  <2> DEFINE G(d, k) == Given(d, k)
  <2>1. ASSUME NEW k \in Kinds
        PROVE  /\ Given(c, k)' = next[k] .. next'[k] - 1
               /\ next[k] \in Nat /\ next'[k] \in Nat /\ next[k] <= next'[k] /\ First[k] \in Nat
               /\ \A d \in Calls \ {c} : Given(d, k)' = Given(d, k)
               /\ Given(c, k) = {}
    BY <1>2, GrantGives DEF Inv, TypeOK
  <2>2. Below'
    <3> SUFFICES ASSUME NEW k \in Kinds
                 PROVE  /\ First[k] <= next'[k]
                        /\ \A d \in Calls : Given(d, k)' \subseteq First[k] .. next'[k] - 1
      BY DEF Below
    <3>1. First[k] <= next[k] /\ \A d \in Calls : Given(d, k) \subseteq First[k] .. next[k] - 1
      BY DEF Inv, Below
    <3>2. First[k] <= next'[k]
      BY <2>1, <3>1
    <3>3. First[k] .. next[k] - 1 \subseteq First[k] .. next'[k] - 1
      BY <2>1
    <3>4. next[k] .. next'[k] - 1 \subseteq First[k] .. next'[k] - 1
      BY <2>1, <3>1
    <3> QED
      BY <2>1, <3>1, <3>2, <3>3, <3>4
  <2>3. Disjoint'
    <3> SUFFICES ASSUME NEW a \in Calls, NEW b \in Calls, a # b, NEW k \in Kinds
                 PROVE  Given(a, k)' \cap Given(b, k)' = {}
      BY DEF Disjoint
    <3>1. \A d \in Calls : Given(d, k) \cap (next[k] .. next'[k] - 1) = {}
      <4> SUFFICES ASSUME NEW d \in Calls, NEW i \in Given(d, k), i \in next[k] .. next'[k] - 1
                   PROVE  FALSE
        OBVIOUS
      <4>1. i \in First[k] .. next[k] - 1
        BY DEF Inv, Below
      <4> QED
        BY <4>1, <2>1
    <3>2. Given(a, k) \cap Given(b, k) = {}
      BY DEF Inv, Disjoint
    <3> QED
      BY <2>1, <3>1, <3>2
  <2>4. NoGap'
    <3> SUFFICES ASSUME NEW k \in Kinds
                 PROVE  UNION {Given(d, k)' : d \in Calls} = First[k] .. next'[k] - 1
      BY DEF NoGap
    <3>1. UNION {Given(d, k) : d \in Calls} = First[k] .. next[k] - 1
      BY DEF Inv, NoGap
    <3>2. UNION {Given(d, k)' : d \in Calls}
            = (UNION {Given(d, k) : d \in Calls}) \cup (next[k] .. next'[k] - 1)
      BY <2>1
    <3>3. First[k] <= next[k]
      BY DEF Inv, Below
    <3>4. (First[k] .. next[k] - 1) \cup (next[k] .. next'[k] - 1) = First[k] .. next'[k] - 1
      BY <2>1, <3>3
    <3> QED
      BY <3>1, <3>2, <3>4
  <2> QED
    BY <2>2, <2>3, <2>4
<1>3. CASE \A c \in Calls : ~ Grant(c)
  <2>1. next' = next /\ \A c \in Calls, k \in Kinds : Given(c, k)' = Given(c, k)
    BY <1>3, OthersGiveNothing DEF Inv
  <2>2. (Below /\ Disjoint)'
    BY <2>1 DEF Inv, Below, Disjoint
  <2>3. NoGap'
    BY <2>1 DEF Inv, NoGap
  <2> QED
    BY <1>1, <2>2, <2>3 DEF Inv
<1> QED
  BY <1>1, <1>2, <1>3 DEF Inv

(* The allocator's state is well formed. *)
THEOREM TypeCorrect ==
  ASSUME AllocatorAssumption
  PROVE  Spec => []TypeOK
<1>1. Init => Inv
  BY InvInit
<1>2. Inv /\ [Next]_allocatorVars => Inv'
  BY InvStep
<1>3. Inv => TypeOK
  BY DEF Inv
<1> QED
  BY <1>1, <1>2, <1>3, PTL DEF Spec

(* No identifier is handed out twice. *)
THEOREM NeverTwice ==
  ASSUME AllocatorAssumption
  PROVE  Spec => []Disjoint
<1>1. Init => Inv
  BY InvInit
<1>2. Inv /\ [Next]_allocatorVars => Inv'
  BY InvStep
<1>3. Inv => Disjoint
  BY DEF Inv
<1> QED
  BY <1>1, <1>2, <1>3, PTL DEF Spec

(* None is skipped. *)
THEOREM NeverSkipped ==
  ASSUME AllocatorAssumption
  PROVE  Spec => []NoGap
<1>1. Init => Inv
  BY InvInit
<1>2. Inv /\ [Next]_allocatorVars => Inv'
  BY InvStep
<1>3. Inv => NoGap
  BY DEF Inv
<1> QED
  BY <1>1, <1>2, <1>3, PTL DEF Spec
=============================================================================
