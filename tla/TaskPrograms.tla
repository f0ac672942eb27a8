---------------------------- MODULE TaskPrograms ----------------------------
(* The vocabulary in which the programs of the task graph runs are written: *)
(* tasks 1 to 4 are dynamic, 5 to 8 the nodes of a static graph, 9 and 10   *)
(* its submissions.                                                         *)
EXTENDS TaskGraph

Dep(a, ty) == [addr |-> a, type |-> ty]
Add(t, deps) == [op |-> "add_task", task |-> t, deps |-> deps]
Node(t) == [op |-> "sgraph_add_node", task |-> t]
Edge(p, s) == [op |-> "sgraph_add_dep", precede |-> p, succeed |-> s]
Run(t) == [op |-> "add_sgraph_task", task |-> t]
Wait == [op |-> "wait"]
Test == [op |-> "test"]
SDestroy == [op |-> "sgraph_destroy"]
Destroy == [op |-> "destroy"]

Alone(calls) == [calls |-> calls, team |-> {Master}]
Together(calls) == [calls |-> calls, team |-> Executors]

Kinds == [t \in 1 .. 10 |-> IF t <= 4 THEN "dynamic" ELSE IF t <= 8 THEN "static" ELSE "sgraph"]

Diamond == <<Node(5), Node(6), Node(7), Node(8), Edge(5, 6), Edge(5, 7), Edge(6, 8), Edge(7, 8)>>
=============================================================================
