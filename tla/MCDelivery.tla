----------------------------- MODULE MCDelivery -----------------------------
(* Two topics of one source, the type of one a prefix of the other's; an   *)
(* agent whose factory suspends, one whose factory does not, and a         *)
(* registered instance.                                                    *)
EXTENDS Delivery, TLC

TwoTopics == {[type |-> "task", source |-> "s1"], [type |-> "task_done", source |-> "s1"]}
StartsWith == [p \in {"task", "task_done"} |-> IF p = "task" THEN {"task"} ELSE {"task", "task_done"}]
Sub(kind, id, pattern, agent) == [kind |-> kind, id |-> id, pattern |-> pattern, agent |-> agent]
FourSubs == {Sub("prefix", "1", "task", "a"), Sub("type", "2", "task", "a"),
             Sub("type", "1", "task_done", "b"), Sub("type", "3", "task", "i")}

ThreeAgents == {<<"a", "s1">>, <<"b", "s1">>, <<"i", "s1">>}
FactoryAgents == ThreeAgents \ {<<"i", "s1">>}
SlowAgents == {<<"a", "s1">>}
Symmetry == Permutations(Caller)
=============================================================================
