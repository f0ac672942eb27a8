--------------------------- MODULE MCParallelFor ---------------------------
(* Four executors at most.  Each program exercises one way through           *)
(* kupl_parallel_for: the policies in one and two dimensions, reductions,    *)
(* calls from tasks on disjoint groups, a caller outside its group, two      *)
(* levels of nesting as in the development guide, the quick path, ranges     *)
(* that kupl_check_range must refuse, and task loops of a graph, whose       *)
(* blocks hold whole steps.                                                  *)
EXTENDS TaskLoop

D(lower, upper, step, block) == [lower |-> lower, upper |-> upper, step |-> step, block |-> block]
C(id, policy, group, range) ==
    [id |-> id, reduce |-> FALSE, group |-> group, policy |-> policy, range |-> range,
     conc |-> 0, inner |-> <<>>]
Reduce(c) == [c EXCEPT !.reduce = TRUE]
Threads(c, n) == [c EXCEPT !.conc = n]
Around(c, inner) == [c EXCEPT !.inner = <<inner>>]

NoTasks == [e \in Executors |-> <<>>]
P(main, tasks, levels, kernel, faulty) ==
    [main |-> main, tasks |-> tasks, levels |-> levels, kernel |-> kernel, faulty |-> faulty]
Calling(main) == P(main, NoTasks, 1, Size, FALSE)

TaskloopOf(id, group, range) == C(id, "taskloop", group, range)
LambdaOf(id, group, range) == C(id, "graph_submit", group, range)
Wait(id) == C(id, "graph_wait", <<>>, <<>>)

MCPrograms ==
    {\* static, 1-D, then without a range, then 1-D downwards
     Calling(<<C(1, "static", <<>>, <<D(0, 7, 2, 5)>>), Threads(C(2, "static", <<>>, <<>>), 2),
               C(3, "static", <<0, 1, 2>>, <<D(5, -2, -3, 0)>>)>>),
     \* dynamic, 1-D downwards and 2-D with blocks
     Calling(<<Threads(C(1, "dynamic", <<0, 1>>, <<D(5, 0, -1, 2)>>), 2),
               Threads(C(2, "dynamic", <<0, 2>>, <<D(0, 2, 1, 0), D(0, 5, 2, 2)>>), 2)>>),
     \* static, 2-D: one cut, and one in each dimension
     Calling(<<Threads(C(1, "static", <<>>, <<D(0, 3, 1, 0), D(0, 2, 1, 0)>>), 2),
               Threads(C(2, "static", <<>>, <<D(0, 4, 1, 0), D(0, 3, 1, 0)>>), 4)>>),
     \* reductions one after the other
     Calling(<<Reduce(C(1, "static", <<0, 1>>, <<D(0, 3, 1, 0)>>)),
               Reduce(C(2, "dynamic", <<0, 1>>, <<D(0, 3, 1, 0)>>)),
               Reduce(Threads(C(3, "static", <<>>, <<D(0, 3, 1, 0)>>), 1))>>),
     Calling(<<Reduce(C(1, "static", <<0, 1, 2>>, <<>>)), C(2, "static", <<0, 1, 2>>, <<>>)>>),
     Calling(<<C(1, "task", <<0, 1>>, <<D(0, 5, 1, 2)>>),
               Reduce(C(2, "task", <<0, 1>>, <<D(0, 3, 1, 0)>>))>>),
     P(<<C(1, "task", <<0, 1>>, <<D(0, 4, 1, 2)>>)>>, NoTasks, 1, Size, TRUE),
     \* a TASK loop after a reduction of its master, which runs the old function; cuts
     \* that overlap: TASK downwards, and two dimensions cut twice in one of them
     Calling(<<Reduce(C(1, "static", <<0, 1>>, <<D(0, 3, 1, 0)>>)),
               C(2, "task", <<0, 1>>, <<D(0, 5, 1, 2)>>),
               Reduce(C(3, "dynamic", <<0, 1>>, <<D(0, 3, 1, 0)>>))>>),
     Calling(<<Reduce(C(1, "task", <<0, 1>>, <<D(5, 0, -1, 2)>>))>>),
     Calling(<<C(1, "task", <<1, 2>>, <<D(0, -3, -2, 1)>>),
               Threads(C(2, "static", <<>>, <<D(0, 1, 1, 0), D(0, 6, 1, 0)>>), 4)>>),
     \* reductions of callers that are not thread 0: outside the group, later in the
     \* group, in a task; then one that comes after such a call
     Calling(<<Reduce(C(1, "static", <<1, 2>>, <<D(0, 3, 1, 0)>>))>>),
     Calling(<<Reduce(C(1, "dynamic", <<0, 1>>, <<D(0, 3, 1, 0)>>)), Reduce(C(2, "static", <<1, 0>>, <<>>)),
               Reduce(C(3, "static", <<0, 1>>, <<D(0, 3, 1, 0)>>))>>),
     P(<<>>, [NoTasks EXCEPT ![1] = <<Reduce(C(1, "static", <<0, 1>>, <<D(0, 3, 1, 0)>>))>>], 1, Size, FALSE),
     \* calls from tasks and from main, on disjoint groups; a caller outside the group
     P(<<C(1, "static", <<0, 3>>, <<D(0, 2, 1, 0)>>)>>,
       [NoTasks EXCEPT ![1] = <<C(2, "static", <<1, 2>>, <<D(0, 2, 1, 0)>>)>>], 1, Size, FALSE),
     Calling(<<C(1, "static", <<1, 2>>, <<D(0, 3, 1, 0)>>), C(2, "dynamic", <<1, 3>>, <<D(0, 3, 1, 0)>>)>>),
     P(<<>>, [NoTasks EXCEPT ![1] = <<C(1, "dynamic", <<0, 1, 2>>, <<D(0, 3, 1, 0)>>)>>], 1, Size, FALSE),
     \* nesting: a second level, and the quick path when only one is allowed
     P(<<Around(C(1, "static", <<0, 1, 2>>, <<>>), C(2, "static", <<0, 1, 2>>, <<D(0, 3, 1, 0)>>))>>,
       NoTasks, 2, Size, FALSE),
     P(<<Around(C(1, "static", <<0, 1>>, <<>>), C(2, "static", <<>>, <<D(0, 3, 1, 0)>>)),
         Around(C(3, "static", <<0, 1>>, <<>>), Reduce(C(4, "dynamic", <<0, 1>>, <<D(0, 3, 1, 0)>>)))>>,
       NoTasks, 1, 3, FALSE),
     \* task loops: added by the caller, by dispatch tasks, and while executors loop
     Calling(<<TaskloopOf(1, <<2, 0, 1>>, <<D(0, 7, 1, 2)>>), Wait(2),
               LambdaOf(3, <<0, 1>>, <<D(0, 9, 2, 2)>>), Wait(4)>>),
     Calling(<<TaskloopOf(1, <<1, 3>>, <<D(0, 2, 1, 0), D(0, 3, 1, 2)>>),
               C(2, "static", <<0, 1>>, <<D(0, 2, 1, 0)>>), Wait(3)>>),
     Calling(<<TaskloopOf(1, <<0, 1, 2>>, <<D(0, 4, 1, 2), D(3, 6, 1, 2)>>), Wait(2)>>),
     P(<<TaskloopOf(1, <<0, 1>>, <<D(0, 5, 1, 0)>>), TaskloopOf(2, <<0, 1>>, <<D(0, 2, 1, 0)>>), Wait(3)>>,
       NoTasks, 1, Size, TRUE),
     \* the checks: direction, step, dimensions, threads, and the ends of the integers
     Calling(<<TaskloopOf(8, <<>>, <<D(0, 3, 1, 0)>>), TaskloopOf(9, <<0, 1>>, <<D(3, 3, 1, 0)>>), Wait(10),
               C(1, "static", <<>>, <<D(3, 3, 1, 0)>>), C(2, "dynamic", <<>>, <<D(0, 3, 0, 0)>>),
               C(3, "task", <<>>, <<D(0, 3, 1, 0), D(0, 3, 1, 0)>>), Threads(C(4, "static", <<>>, <<>>), 5),
               C(5, "dynamic", <<0, 1>>, <<D(IntMax - 3, IntMax, 1, 3)>>),
               C(6, "dynamic", <<0, 1>>, <<D(IntMin, 1, 1, 1)>>),
               C(7, "dynamic", <<0, 1>>, <<D(IntMax - 5, IntMax - 2, 1, 2)>>)>>)}
=============================================================================
