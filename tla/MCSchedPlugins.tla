--------------------------- MODULE MCSchedPlugins ---------------------------
(* Two and three executors, queues of one and two tasks: every policy, with *)
(* and without priorities and place queues, full queues, tasks that make    *)
(* others ready while they run, and a parallel for in the middle.           *)
EXTENDS SchedPlugins

T(eid, flag, prio, spawns) == [eid |-> eid, flag |-> flag, prio |-> prio, spawns |-> spawns, master |-> 0]
Plain(eid) == T(eid, {}, 0, <<>>)
Prio(p) == T(Default, {"priority"}, p, <<>>)
NoPlaces == [valid |-> TRUE, places |-> <<>>]
P(form, ids) == [form |-> form, ids |-> ids]

Base0 == [n |-> 2, expanded |-> FALSE, policy |-> "", priority |-> FALSE, affinity |-> NoPlaces, length |-> 2,
          placeFactor |-> 1, tasks |-> <<>>, root |-> (0 :> <<1, 2, 3>>)]

MCPrograms ==
    {\* static_mq: bound tasks, a full queue, tasks that spawn
     [Base0 EXCEPT !.tasks = <<T(1, {}, 0, <<4>>), Plain(Default), Plain(1), Plain(0)>>, !.length = 1],
     [Base0 EXCEPT !.policy = "unknown", !.root = (0 :> <<1, Loop, 2>>),
                   !.tasks = <<T(1, {}, 0, <<3>>), T(Default, {"imm"}, 0, <<>>), Plain(Default)>>],
     \* priorities shared by both executors
     [Base0 EXCEPT !.policy = "static_mq", !.priority = TRUE, !.root = (0 :> <<1, 2, 3, 4>>),
                   !.tasks = <<Prio(1), Prio(3), Prio(2), Plain(1)>>, !.length = 3],
     [Base0 EXCEPT !.policy = "mq", !.priority = TRUE, !.tasks = <<Prio(1), Prio(2), Prio(2)>>, !.length = 1],
     \* mq: stealing, with and without place queues
     [Base0 EXCEPT !.policy = "mq", !.n = 3, !.root = (0 :> <<1, 2>>), !.tasks = <<Plain(Default), Plain(Default)>>],
     [Base0 EXCEPT !.policy = "mq", !.length = 1, !.root = (0 :> <<1, 2, 3>>),
                   !.affinity = [valid |-> TRUE, places |-> <<P("range", <<2, 1>>), P("scatter", <<0, 1>>), P("single", <<0>>)>>],
                   !.tasks = <<Plain(Default), Plain(Default), T(Place, {}, 0, <<4>>), Plain(-3)>>],
     [Base0 EXCEPT !.policy = "mq",
                   !.affinity = [valid |-> TRUE, places |-> <<P("range", <<-1, 1>>), P("empty", <<>>)>>],
                   !.tasks = <<Plain(Place), Plain(1), T(Default, {}, 0, <<>>)>>],
     [Base0 EXCEPT !.policy = "mq", !.affinity = [valid |-> FALSE, places |-> <<P("single", <<0>>)>>],
                   !.tasks = <<Plain(Place), T(1, {"imm", "priority"}, 0, <<>>), Plain(Default)>>, !.length = 1],
     [Base0 EXCEPT !.policy = "mq", !.n = 1, !.tasks = <<Plain(Default), Plain(0), Plain(Default)>>],
     \* sspe runs every task where it is added
     [Base0 EXCEPT !.policy = "sspe", !.tasks = <<T(Default, {}, 0, <<3>>), Plain(Default), Plain(Default)>>, !.root = (0 :> <<1, Loop, 2>>)],
     \* two threads the library did not start
     [Base0 EXCEPT !.expanded = TRUE, !.priority = TRUE, !.root = (0 :> <<2, 1>> @@ 1 :> <<3, 4>>), !.length = 1,
                   !.tasks = <<Plain(1), Prio(1), [Prio(2) EXCEPT !.master = 1], [Plain(Default) EXCEPT !.master = 1]>>]}
=============================================================================
