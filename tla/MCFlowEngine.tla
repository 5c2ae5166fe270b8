---------------------------- MODULE MCFlowEngine ----------------------------
(* Graphs for model-checking FlowEngine.                                   *)
EXTENDS FlowEngine

(* s forks to a task no edge leaves and an approval before the end node.   *)
Fork == [nodes |-> [n \in {"s", "a", "h", "e"} |->
                      CASE n = "s" -> "start" [] n = "a" -> "task"
                        [] n = "h" -> "human_approval" [] n = "e" -> "end"],
         edges |-> {<<"s", "a">>, <<"s", "h">>, <<"h", "e">>}, start |-> "s"]
(* An end node that an edge leaves, to a target that is no node.           *)
Loop == [nodes |-> [n \in {"e", "a"} |-> IF n = "e" THEN "end" ELSE "task"],
         edges |-> {<<"e", "a">>, <<"a", "e">>, <<"a", "x">>}, start |-> "e"]
Empty == [nodes |-> [n \in {} |-> "task"], edges |-> {}, start |-> "s"]

Graphs == {Fork, Loop, Empty}
AllNodes == {"s", "a", "h", "e", "x"}
=============================================================================
