------------------------------ MODULE TaskLoop ------------------------------
(***************************************************************************)
(* Task loops of a graph: kupl_graph_add_taskloop and kupl_graph_wait of   *)
(* mt/kupl_graph.cpp, next to the parallel loops of ParallelFor.  The      *)
(* range is cut into blocks, one task each, bound to the executors of the  *)
(* group: added one by one by the caller, or, when there are many, by one  *)
(* dispatch task per executor.  kupl::graph_submit repeats the code for a  *)
(* lambda.                                                                 *)
(*                                                                         *)
(* A call: [id, policy, group, range, ...], policy "taskloop" (the C call),*)
(* "graph_submit" (the lambda) or "graph_wait"; all belong to one graph.   *)
(* Dispatch tasks read the range through the caller's descriptor, after    *)
(* the call has returned: the caller keeps it as it is until it waited.    *)
(***************************************************************************)
EXTENDS ParallelFor

CONSTANT Threshold      \* taskloop_threshold (5 in the code): blocks per executor

ASSUME ThresholdAssumption == Threshold \in Nat \ {0}

Graph == -1     \* graph->count is count[Graph]

(***************************************************************************)
(* The cut.  Blocks are counted in indices, not in steps.                  *)
(***************************************************************************)
Blocks(d) == CDiv(d.upper - d.lower + d.block - 1, d.block)

TaskloopInfo(range, group) ==
    LET total == FoldLeft(LAMBDA n, d : n * Blocks(d), 1, range)
        esize == Len(group)
        extra == total - esize * CDiv(total, esize)
    IN  [range |-> range, team |-> Team(group, esize), esize |-> esize, total |-> total,
         min |-> CDiv(total, esize), extra |-> extra,
         max |-> CDiv(total, esize) + (IF extra > 0 THEN 1 ELSE 0)]

\* the range of task number id, the first dimension fastest
BlockRange(range, id) ==
    LET Before(i) == FoldLeft(LAMBDA n, d : n * Blocks(d), 1, SubSeq(range, 1, i - 1))
        Cut(i) == LET d == range[i]
                      low == d.lower + ((id \div Before(i)) % Blocks(d)) * d.block
                  IN  [d EXCEPT !.lower = low, !.upper = Clip(d.block, d.upper, low + d.block)]
    IN  [i \in DOMAIN range |-> Cut(i)]

\* kupl_taskloop_linear: turn by turn, one task for each executor that still
\* lacks one; the last `extra` executors have one more
LinearTasks(info) ==
    LET turns == [n \in 1 .. info.max * info.esize |->
                     [turn |-> (n - 1) \div info.esize, eidx |-> (n - 1) % info.esize]]
        Takes(x) == ~(x.turn = info.min /\ x.eidx + info.extra < info.esize)
        Task(x) == [eid |-> info.team[x.eidx + 1],
                    id |-> x.turn + x.eidx * info.min
                               + Greatest(0, x.eidx - (info.esize - info.extra))]
        taken == SelectSeq(turns, Takes)
    IN  [n \in DOMAIN taken |-> Task(taken[n])]

\* kupl_taskloop_dispatch: the first `extra` executors have one more
DispatchedTasks(info, eidx) ==
    IF info.extra # 0 /\ eidx >= info.extra
    THEN eidx * info.min + info.extra .. eidx * info.min + info.extra + info.min - 1
    ELSE eidx * info.max .. eidx * info.max + info.max - 1

(***************************************************************************)
(* kupl_graph_add_taskloop: the call frame turns into one that adds tasks. *)
(***************************************************************************)
TaskloopCheck(c) ==
    /\ c.group # <<>>
    /\ c.range # <<>> /\ CheckRange(Normalise(c.range, "task"), "task")

BlockTask(c, range, id) ==
    [kind |-> "block", pc |-> "run", call |-> c.id, range |-> BlockRange(range, id)]

AddTaskloop(e, policy) ==
    /\ Running(e, "call", policy)
    /\ LET c == Top(e).call
           info == TaskloopInfo(Normalise(c.range, "task"), c.group)
           linear == info.esize * Threshold > info.total
           \* KUPL_FOR_EACH_EGROUP_REV
           dispatch == [k \in 1 .. info.esize |->
                           [eid |-> info.team[info.esize - k + 1],
                            task |-> [kind |-> "dispatch", pc |-> "run", call |-> c.id,
                                      eid |-> info.team[info.esize - k + 1], info |-> info,
                                      ids |-> DispatchedTasks(info, info.esize - k)]]]
           blocks == [k \in DOMAIN LinearTasks(info) |->
                         [eid |-> LinearTasks(info)[k].eid,
                          task |-> BlockTask(c, info.range, LinearTasks(info)[k].id)]]
       IN  IF TaskloopCheck(c)
           THEN /\ thread' = [thread EXCEPT ![e] =
                      <<[kind |-> "call", pc |-> "add", call |-> c,
                         adds |-> IF linear THEN blocks ELSE dispatch]>> \o Below(e)]
                /\ count' = IF Graph \in DOMAIN count THEN count ELSE Put(count, Graph, 0)
                /\ UNCHANGED status
           ELSE Return(e, c, "error") /\ UNCHANGED count
    /\ UNCHANGED <<program, todo, flags, pf, ultGroup, mq, privateData, meet, ran, result>>

GraphAddTaskloop(e) == AddTaskloop(e, "taskloop")

\* kupl::graph_submit, with its own copies of the functions
GraphSubmit(e) == AddTaskloop(e, "graph_submit")

\* kupl_sched_add_tb counts the task before it is queued
AddTask(add) ==
    /\ mq' = [mq EXCEPT ![add.eid] = Append(@, add.task)]
    /\ count' = [count EXCEPT ![Graph] = @ + 1]

\* a dispatch task may have failed before the call returns
Outcome(c, s) == IF c.id \in DOMAIN status THEN status[c.id] ELSE s

TaskloopAdd(e) ==
    /\ Running(e, "call", "add")
    /\ LET f == Top(e)
       IN  \/ /\ f.adds # <<>>
              /\ AddTask(Head(f.adds))
              /\ thread' = [thread EXCEPT ![e] = <<[f EXCEPT !.adds = Tail(@)]>> \o Below(e)]
              /\ UNCHANGED status
           \/ /\ f.adds # <<>> /\ program.faulty    \* kupl_task_init failed
              /\ Return(e, f.call, Outcome(f.call, "partly"))
              /\ UNCHANGED <<mq, count>>
           \/ /\ f.adds = <<>>
              /\ Return(e, f.call, Outcome(f.call, "submitted"))
              /\ UNCHANGED <<mq, count>>
    /\ UNCHANGED <<program, todo, flags, pf, ultGroup, privateData, meet, ran, result>>

\* a finished task is counted after its function returned
GraphCountSub == count' = [count EXCEPT ![Graph] = @ - 1]

TaskloopDispatch(e) ==
    /\ Running(e, "dispatch", "run")
    /\ LET t == Top(e)
           id == Min(t.ids)
           add == [eid |-> t.eid, task |-> BlockTask([id |-> t.call], t.info.range, id)]
       IN  \/ /\ t.ids # {}
              /\ AddTask(add)
              /\ thread' = [thread EXCEPT ![e] = <<[t EXCEPT !.ids = @ \ {id}]>> \o Below(e)]
              /\ UNCHANGED status
           \/ /\ t.ids = {}
              /\ GraphCountSub
              /\ thread' = [thread EXCEPT ![e] = Below(e)]
              /\ UNCHANGED <<mq, status>>
           \/ /\ t.ids # {} /\ program.faulty       \* kupl_task_init failed: nobody is told
              /\ GraphCountSub
              /\ thread' = [thread EXCEPT ![e] = Below(e)]
              /\ status' = Put(status, t.call, "skipped")
              /\ UNCHANGED mq
    /\ UNCHANGED <<program, todo, flags, pf, ultGroup, privateData, meet, ran, result>>

\* kupl_taskloop_func, and the count of the finished task
TaskloopFunc(e) ==
    /\ Running(e, "block", "run")
    /\ LET t == Top(e)
       IN  /\ ran' = Put(ran, t.call, Plus(At(ran, t.call), Once(Iterations(t.range))))
           /\ GraphCountSub
    /\ thread' = [thread EXCEPT ![e] = Below(e)]
    /\ UNCHANGED <<program, todo, flags, pf, ultGroup, mq, privateData, meet, result, status>>

\* what the caller knows of its task loops once kupl_graph_wait returned
Waited(s) == CASE s = "submitted" -> "ok" [] s = "partly" -> "error" [] OTHER -> s

GraphWait(e) ==
    /\ Running(e, "call", "graph_wait")
    /\ IF Graph \in DOMAIN count /\ count[Graph] # 0
       THEN Polled(e, thread[e]) /\ UNCHANGED status
       ELSE /\ thread' = [thread EXCEPT ![e] = Below(e)]
            /\ status' = Put([i \in DOMAIN status |-> Waited(status[i])], Top(e).call.id, "waited")
            /\ UNCHANGED <<flags, mq>>
    /\ UNCHANGED <<program, todo, pf, ultGroup, count, privateData, meet, ran, result>>

LoopWorks(e) ==
    \/ Works(e) \/ GraphAddTaskloop(e) \/ GraphSubmit(e) \/ TaskloopAdd(e) \/ TaskloopDispatch(e)
    \/ TaskloopFunc(e) \/ GraphWait(e)

LoopNext == (\E e \in Executors : LoopWorks(e)) \/ MainCalls

\* the fairness of ParallelFor, for all that an executor does
LoopSpec == Init /\ [][LoopNext]_vars /\ WF_vars(MainCalls) /\ \A e \in Executors : WF_vars(LoopWorks(e))
=============================================================================
