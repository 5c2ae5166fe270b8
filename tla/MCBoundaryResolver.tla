------------------------- MODULE MCBoundaryResolver -------------------------
(* An instance of BoundaryResolver for TLC: one call more than MAX_RETRIES, *)
(* three counters, calls that ask for nothing of some of them.             *)
EXTENDS BoundaryResolver

TheDocument == {Current}
SmallWants == {[factories |-> 2, taskTypes |-> 1, cfRules |-> 0],
               [factories |-> 1, taskTypes |-> 0, cfRules |-> 1]}
StartAtOne == [factories |-> 1, taskTypes |-> 1, cfRules |-> 1]
=============================================================================
