---------------------------- MODULE MCCycleChain ----------------------------
(* Instances of CycleChain: expansions into one or two sub-flows, of names *)
(* one of which begins like the other.                                     *)
EXTENDS CycleChain

CONSTANTS n1, n2, piece

OneOrTwo == {<<n1>>, <<n1, n2>>}
OneNameless == {<<n1, n2>>, <<n1, NoName>>}
Slugs == [name \in {n1, n2} |-> IF name = n1 THEN <<piece>> ELSE <<piece, piece>>]
=============================================================================
