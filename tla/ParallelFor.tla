----------------------------- MODULE ParallelFor -----------------------------
(***************************************************************************)
(* kupl_parallel_for and kupl_parallel_for_reduce of                       *)
(* mt/kupl_parallel_for.cpp, on the flag barrier of mt/barrier and the     *)
(* sspe scheduler plugin (one slot per executor, polled through its flag). *)
(*                                                                         *)
(* The caller publishes the loop in g_pf of the master executor, raises    *)
(* the flags of the executors it wants, and joins them; an executor that   *)
(* polls and finds its flag READY runs kupl_loop_func, which looks up its  *)
(* master and runs the master's loop.  Each level of nesting has its own   *)
(* flags and its own g_pf.                                                 *)
(*                                                                         *)
(* A thread is a stack of frames, the running one first:                   *)
(*   call    a call of kupl_parallel_for(_reduce)                          *)
(*   loop    kupl_loop_func                                                *)
(*   serial  the loop function called directly by the quick path           *)
(*   task    a user's task that calls parallel_for                         *)
(*   chunk   a task of the TASK policy                                     *)
(*   block, dispatch   tasks of a task loop (module TaskLoop)              *)
(***************************************************************************)
EXTENDS LoopRanges, FiniteSetsExt

CONSTANTS Executors,    \* 0 .. n-1; the main thread is executor 0
          Programs,     \* see below
          Levels        \* KUPL_PARALLEL_MAX_ACTIVE_LEVEL

\* A program: the calls of the main thread, the call of a task bound to some
\* of the executors, the limits and whether creating a task may fail.
\*   [main, tasks: executor -> Seq(call), levels, kernel, faulty]
\* A call: [id, reduce, group, policy, range, conc, inner], group and range <<>>
\* for null, conc 0 for KUPL_CONCURRENCY_DEFAULT, inner the calls that the loop
\* function makes on thread 0 before all threads meet in kupl_egroup_barrier.

VARIABLES program,      \* the program of this behaviour
          todo,         \* calls the main thread has still to make
          thread,       \* per executor: its stack of frames
          flags,        \* FlagBarrier::flags_ per level and executor
          pf,           \* g_pf per level and executor
          ultGroup,     \* g_ult[e].tb.egroup
          mq,           \* per executor: the tasks bound to it
          count,        \* task_cnt_ref per call
          privateData,  \* g_pf[e].rd_data: iterations accumulated by e
          meet,         \* per call: executors that reached the egroup barrier
          ran,          \* per call: the iterations run, with multiplicity
          result,       \* per reduce call: what was reduced into the buffer
          status        \* per finished call: "ok", "error"

vars == <<program, todo, thread, flags, pf, ultGroup, mq, count, privateData,
          meet, ran, result, status>>

Main == 0
NoCall == 0
NullCall == [id |-> NoCall]
LEAVE == "leave"
READY == "ready"
ARRIVED == "arrived"
LevelSet == 0 .. Levels - 1
Size == Cardinality(Executors)

GraphCalls == {"taskloop", "graph_submit", "graph_wait"}

NoLoop == [call |-> NullCall, rd |-> NoCall, group |-> <<>>, num |-> 0, master |-> 0,
           post |-> FALSE, index |-> <<>>]

(* Bags of iterations, as functions from iterations to counts. *)
Nothing == [x \in {} |-> 0]
Plus(f, g) == [x \in DOMAIN f \union DOMAIN g |->
                  (IF x \in DOMAIN f THEN f[x] ELSE 0) + (IF x \in DOMAIN g THEN g[x] ELSE 0)]
Once(S) == [x \in S |-> 1]
Put(f, x, v) == [y \in DOMAIN f \union {x} |-> IF y = x THEN v ELSE f[y]]
At(f, x) == IF x \in DOMAIN f THEN f[x] ELSE Nothing

(***************************************************************************)
(* Executor groups, as KUPL_FOR_EACH_LIMIT_EGROUP walks them.              *)
(***************************************************************************)
\* the first n executors of a group, in the order of their ids
Team(group, n) == SubSeq(SetToSortSeq({group[i] : i \in DOMAIN group}, <), 1, n)
TeamSet(group, n) == ToSet(Team(group, n))
Lid(group, e) == (CHOOSE i \in DOMAIN group : group[i] = e) - 1
GlobalGroup(n) == [i \in 1 .. n |-> i - 1]

Top(e) == Head(thread[e])
Below(e) == Tail(thread[e])
Level(e) == Cardinality({i \in DOMAIN thread[e] : thread[e][i].kind \in {"loop", "serial"}})
InTask(e) == \E i \in DOMAIN thread[e] : thread[e][i].kind = "task"
Running(e, kind, pc) == thread[e] # <<>> /\ Top(e).kind = kind /\ Top(e).pc = pc

\* a call that adds a task loop to a graph goes its own way (TaskLoop)
CallFrame(c) == [kind |-> "call", pc |-> IF c.policy \in GraphCalls THEN c.policy ELSE "check",
                 call |-> c, level |-> 0, master |-> 0, i |-> 1, polled |-> FALSE]
LoopFrame == [kind |-> "loop", pc |-> "enter", master |-> 0, tid |-> 0, level |-> 0,
              call |-> NullCall, target |-> 0, turn |-> 0, i |-> 1, left |-> <<>>]

(***************************************************************************)
(* kupl_parallel_for_check, kupl_reduce_check and _resolve.                *)
(***************************************************************************)
Concurrency(c) == IF c.conc = 0 THEN Size ELSE c.conc
CheckCall(c) ==
    /\ c.range # <<>> => /\ c.policy = "task" => Len(c.range) = 1
                         /\ CheckRange(Normalise(c.range, c.policy), c.policy)
    /\ Concurrency(c) \in 1 .. Size

\* kupl_get_current_egroup: that of the running task (none), or of the loop
CurrentGroup(e) == IF InTask(e) THEN <<>> ELSE ultGroup[e]

Resolve(e, c) ==
    LET given == IF c.group # <<>> THEN c.group ELSE CurrentGroup(e)
        range == Normalise(c.range, c.policy)
        n == NumThreads(range, Concurrency(c), Len(given), program.kernel)
    IN  [num |-> n, range |-> range, group |-> IF given # <<>> THEN given ELSE GlobalGroup(n)]

MasterOf(e, group) == IF e \in ToSet(group) THEN e ELSE Min(ToSet(group))

(***************************************************************************)
(* A call: check, resolve, and either the quick path or the publication of *)
(* the loop in g_pf.                                                       *)
(***************************************************************************)
Return(e, c, s) == /\ thread' = [thread EXCEPT ![e] = Below(e)]
                   /\ status' = Put(status, c.id, s)

Reject(e) ==
    /\ Running(e, "call", "check")
    /\ ~CheckCall(Top(e).call)
    /\ Return(e, Top(e).call, "error")
    /\ UNCHANGED <<program, todo, flags, pf, ultGroup, mq, count, privateData, meet, ran, result>>

Quick(e, c, r) ==
    \/ Level(e) >= (IF c.reduce THEN 1 ELSE program.levels)
    \/ r.num = 1 /\ MasterOf(e, r.group) = e

\* iteration space of a call: without a range, one call of the function per thread
Space(range, num) == IF range = <<>> THEN {<<t>> : t \in 0 .. num - 1} ELSE Iterations(range)

QuickPath(e) ==
    /\ Running(e, "call", "check")
    /\ LET c == Top(e).call
           r == Resolve(e, c)
           m == MasterOf(e, r.group)
           l == Level(e)
       IN  /\ CheckCall(c) /\ Quick(e, c, r)
           /\ l \in LevelSet       \* a deeper call writes past the end of g_pf
           /\ ran' = Put(ran, c.id, Plus(At(ran, c.id), Once(Space(r.range, 1))))
           /\ IF c.reduce
              THEN /\ privateData' = [privateData EXCEPT ![e] = Once(Space(r.range, 1))]
                   /\ result' = Put(result, c.id, Plus(At(result, c.id), privateData'[e]))
                   /\ Return(e, c, "ok")
                   /\ UNCHANGED <<pf, ultGroup>>
              ELSE /\ pf' = [pf EXCEPT ![l][m].num = 1, ![l][m].master = m]
                   /\ ultGroup' = [ultGroup EXCEPT ![e] = r.group]
                   /\ thread' = [thread EXCEPT ![e] =
                                    <<[kind |-> "serial", pc |-> "run", call |-> c]>> \o Below(e)]
                   /\ UNCHANGED <<privateData, result, status>>
    /\ UNCHANGED <<program, todo, flags, mq, count, meet>>

\* return from the function that the quick path called
SerialReturn(e) ==
    /\ Running(e, "serial", "run")
    /\ ultGroup' = [ultGroup EXCEPT ![e] = <<>>]
    /\ Return(e, Top(e).call, "ok")
    /\ UNCHANGED <<program, todo, flags, pf, mq, count, privateData, meet, ran, result>>

\* the policy's own preparation; post_func is only written for reductions
Prepare(loop, c, range, num) ==
    [loop EXCEPT !.post = IF c.reduce THEN c.policy # "task" \/ range = <<>> ELSE @,
                 !.index = IF c.policy = "dynamic" /\ range # <<>> THEN ChunkIndex(range, num) ELSE @]

\* rd_func is only written by kupl_parallel_for_reduce
Publish(e) ==
    /\ Running(e, "call", "check")
    /\ LET c == Top(e).call
           r == Resolve(e, c)
           m == MasterOf(e, r.group)
           l == Level(e)
           loop == [c EXCEPT !.range = r.range]
           set == [pf[l][m] EXCEPT !.call = loop, !.group = r.group, !.num = r.num,
                        !.rd = IF c.reduce THEN c.id ELSE @,
                        !.master = IF c.policy = "task" /\ r.range # <<>> THEN m ELSE @]
           next == IF c.policy = "task" /\ r.range # <<>> THEN "setup"
                   ELSE IF ~c.reduce /\ InTask(e) THEN "quiesce" ELSE "masters"
       IN  /\ CheckCall(c) /\ ~Quick(e, c, r)
           /\ pf' = [pf EXCEPT ![l][m] = Prepare(set, c, r.range, r.num)]
           /\ thread' = [thread EXCEPT ![e] =
                  <<[Top(e) EXCEPT !.pc = next, !.call = loop, !.level = l, !.master = m]>> \o Below(e)]
    /\ UNCHANGED <<program, todo, flags, ultGroup, mq, count, privateData, meet, ran, result, status>>

Loop(f) == pf[f.level][f.master]
Goto(e, pc) == thread' = [thread EXCEPT ![e] = <<[Top(e) EXCEPT !.pc = pc, !.i = 1, !.polled = FALSE]>> \o Below(e)]
Step(e) == thread' = [thread EXCEPT ![e] = <<[Top(e) EXCEPT !.i = @ + 1]>> \o Below(e)]

SetMasters(e) ==
    /\ Running(e, "call", "masters")
    /\ LET f == Top(e) team == TeamSet(Loop(f).group, Loop(f).num)
       IN  pf' = [pf EXCEPT ![f.level] = [x \in Executors |->
                     IF x \in team THEN [@[x] EXCEPT !.master = f.master] ELSE @[x]]]
    /\ Goto(e, "notify")
    /\ UNCHANGED <<program, todo, flags, ultGroup, mq, count, privateData, meet, ran, result, status>>

\* FlagBarrier::notify, flag by flag
Notify(e) ==
    /\ Running(e, "call", "notify")
    /\ LET f == Top(e) team == Team(Loop(f).group, Loop(f).num)
       IN  /\ flags' = [flags EXCEPT ![f.level][team[f.i]] = READY]
           /\ IF f.i < Len(team) THEN Step(e)
              ELSE IF f.master = e THEN Goto(e, "join") ELSE Goto(e, "wait")
    /\ UNCHANGED <<program, todo, pf, ultGroup, mq, count, privateData, meet, ran, result, status>>

\* FlagBarrier::arrive: only e itself leaves READY
Arrive(l, e) == flags' = IF flags[l][e] = READY THEN [flags EXCEPT ![l][e] = ARRIVED] ELSE flags

\* the caller is the master: it arrives and runs the loop itself
Join(e) ==
    /\ Running(e, "call", "join")
    /\ Arrive(Top(e).level, e)
    /\ thread' = [thread EXCEPT ![e] = <<LoopFrame, [Top(e) EXCEPT !.pc = "joined"]>> \o Below(e)]
    /\ UNCHANGED <<program, todo, pf, ultGroup, mq, count, privateData, meet, ran, result, status>>

Joined(e) ==
    /\ Running(e, "call", "joined")
    /\ LET f == Top(e)
       IN  /\ pf' = IF f.call.reduce THEN [pf EXCEPT ![f.level][f.master].post = FALSE] ELSE pf
           /\ Return(e, f.call, "ok")
    /\ UNCHANGED <<program, todo, flags, ultGroup, mq, count, privateData, meet, ran, result>>

(***************************************************************************)
(* kupl_sched_execute_tb: the flag first (sspe), then the queue of bound   *)
(* tasks.  Frame is what the thread runs on top of `below`.                *)
(***************************************************************************)
\* a poll looks for loops of the outermost level only
PolledMutant(e, below) ==
    \/ /\ flags[0][e] = READY
       /\ Arrive(0, e)
       /\ thread' = [thread EXCEPT ![e] = <<LoopFrame>> \o below]
       /\ mq' = mq
    \/ /\ flags[0][e] # READY
       /\ mq[e] # <<>>
       /\ thread' = [thread EXCEPT ![e] = <<Head(mq[e])>> \o below]
       /\ mq' = [mq EXCEPT ![e] = Tail(@)]
       /\ flags' = flags
Polled(e, below) ==
    \/ /\ Level(e) \in LevelSet
       /\ flags[Level(e)][e] = READY
       /\ Arrive(Level(e), e)
       /\ thread' = [thread EXCEPT ![e] = <<LoopFrame>> \o below]
       /\ mq' = mq
    \/ /\ Level(e) \in LevelSet => flags[Level(e)][e] # READY
       /\ mq[e] # <<>>
       /\ thread' = [thread EXCEPT ![e] = <<Head(mq[e])>> \o below]
       /\ mq' = [mq EXCEPT ![e] = Tail(@)]
       /\ flags' = flags

\* an executor's own loop, and the main thread that waits after its last call
Idle(e) ==
    /\ thread[e] = <<>>
    /\ e = Main => todo = <<>>
    /\ Polled(e, <<>>)
    /\ UNCHANGED <<program, todo, pf, ultGroup, count, privateData, meet, ran, result, status>>

\* FlagBarrier::wait: used before a call from a task and by a caller outside the group
Waiting(e) == \E pc \in {"quiesce", "wait"} : Running(e, "call", pc)
WaitPoll(e) ==
    /\ Waiting(e)
    /\ LET f == Top(e)
           below == <<[f EXCEPT !.polled = TRUE]>> \o Below(e)
       IN  /\ Team(Loop(f).group, Loop(f).num)[f.i] = e /\ ~f.polled
           /\ \/ Polled(e, below)
              \/ /\ flags[Level(e)][e] # READY /\ mq[e] = <<>>
                 /\ thread' = [thread EXCEPT ![e] = below]
                 /\ UNCHANGED <<flags, mq>>
    /\ UNCHANGED <<program, todo, pf, ultGroup, count, privateData, meet, ran, result, status>>

WaitFlag(e) ==
    /\ Waiting(e)
    /\ LET f == Top(e) team == Team(Loop(f).group, Loop(f).num)
       IN  /\ team[f.i] = e => f.polled
           /\ flags[f.level][team[f.i]] = LEAVE
           /\ IF f.i < Len(team) THEN Step(e)
              ELSE Goto(e, IF f.pc = "quiesce" THEN "masters" ELSE "joined")
    /\ UNCHANGED <<program, todo, flags, pf, ultGroup, mq, count, privateData, meet, ran, result, status>>

(***************************************************************************)
(* kupl_loop_func                                                          *)
(***************************************************************************)
\* the private data of the last reduction is kept
EnterMutant(e) ==
    /\ Running(e, "loop", "enter")
    /\ LET l == Level(e) - 1
           m == pf[l][e].master
           p == pf[l][m]
       IN  /\ ultGroup' = [ultGroup EXCEPT ![e] = p.group]
           /\ thread' = [thread EXCEPT ![e] =
                  <<[Top(e) EXCEPT !.pc = "run", !.level = l, !.master = m, !.call = p.call,
                        !.tid = Lid(p.group, e), !.target = Lid(p.group, e)]>> \o Below(e)]
    /\ UNCHANGED <<program, todo, flags, pf, mq, count, privateData, meet, ran, result, status>>
Enter(e) ==
    /\ Running(e, "loop", "enter")
    /\ LET l == Level(e) - 1
           m == pf[l][e].master
           p == pf[l][m]
       IN  /\ ultGroup' = [ultGroup EXCEPT ![e] = p.group]
           /\ thread' = [thread EXCEPT ![e] =
                  <<[Top(e) EXCEPT !.pc = "run", !.level = l, !.master = m, !.call = p.call,
                        !.tid = Lid(p.group, e), !.target = Lid(p.group, e)]>> \o Below(e)]
           /\ privateData' = IF p.call.reduce THEN [privateData EXCEPT ![e] = Nothing] ELSE privateData
    /\ UNCHANGED <<program, todo, flags, pf, mq, count, meet, ran, result, status>>

\* the user's function on a part of the loop
Apply(e, c, part) ==
    /\ ran' = Put(ran, c.id, Plus(At(ran, c.id), Once(part)))
    /\ privateData' = IF c.reduce THEN [privateData EXCEPT ![e] = Plus(@, Once(part))] ELSE privateData

Share(p, tid) == IF p.call.range = <<>> THEN {<<tid>>}
                 ELSE IF Len(p.call.range) = 1 THEN Iterations(StaticRange(p.call.range, tid, p.num))
                 ELSE Iterations(DivideRange(p.call.range, tid, p.num))

\* the static policies and the loop without a range; thread 0 then makes the inner calls
RunStatic(e) ==
    /\ Running(e, "loop", "run")
    /\ LET f == Top(e)
           p == Loop(f)
           nested == p.call.inner # <<>>
           rest == <<[f EXCEPT !.pc = IF nested THEN "meet" ELSE "leave"]>> \o Below(e)
       IN  /\ p.call.policy = "static" \/ p.call.range = <<>>
           /\ \E part \in {Share(p, f.tid)} : Apply(e, p.call, part)
           /\ thread' = [thread EXCEPT ![e] = IF nested /\ f.tid = 0
                                              THEN <<CallFrame(p.call.inner[1])>> \o rest ELSE rest]
    /\ UNCHANGED <<program, todo, flags, pf, ultGroup, mq, count, meet, result, status>>

\* kupl_egroup_barrier at the end of the loop function (DistBarrier in detail)
Meet(e) ==
    /\ Running(e, "loop", "meet")
    /\ meet' = Put(meet, Top(e).call.id,
                   {e} \union (IF Top(e).call.id \in DOMAIN meet THEN meet[Top(e).call.id] ELSE {}))
    /\ thread' = [thread EXCEPT ![e] = <<[Top(e) EXCEPT !.pc = "met"]>> \o Below(e)]
    /\ UNCHANGED <<program, todo, flags, pf, ultGroup, mq, count, privateData, ran, result, status>>

Met(e) ==
    /\ Running(e, "loop", "met")
    /\ LET all == meet[Top(e).call.id] = TeamSet(Loop(Top(e)).group, Loop(Top(e)).num)
       IN  \/ /\ all
              /\ thread' = [thread EXCEPT ![e] = <<[Top(e) EXCEPT !.pc = "leave"]>> \o Below(e)]
              /\ UNCHANGED <<flags, mq>>
           \/ /\ ~all                              \* kupl_barrier_busy_wait
              /\ Polled(e, thread[e])
    /\ UNCHANGED <<program, todo, pf, ultGroup, count, privateData, meet, ran, result, status>>

\* kupl_dynamic_policy_impl: own chunks first, then those of the other threads
RunDynamic(e) ==
    /\ Running(e, "loop", "run")
    /\ LET f == Top(e)
           p == Loop(f)
           t == f.target % p.num
       IN  /\ p.call.policy = "dynamic" /\ p.call.range # <<>>
           /\ thread' = [thread EXCEPT ![e] = <<
                  IF f.turn = p.num THEN [f EXCEPT !.pc = "leave"]
                  ELSE IF p.index[t].value < p.index[t].target THEN [f EXCEPT !.pc = "add"]
                  ELSE [f EXCEPT !.target = t + 1, !.turn = @ + 1]>> \o Below(e)]
    /\ UNCHANGED <<program, todo, flags, pf, ultGroup, mq, count, privateData, meet, ran, result, status>>

\* the index is not tested again after the fetch and add
TakeChunkMutant(e) ==
    /\ Running(e, "loop", "add")
    /\ LET f == Top(e)
           p == Loop(f)
           t == f.target % p.num
           chunk == p.index[t].value
       IN  /\ pf' = [pf EXCEPT ![f.level][f.master].index[t].value = @ + 1]
           /\ \E part \in {Iterations(ChunkRange(p.call.range, chunk))} : Apply(e, p.call, part)
           /\ thread' = [thread EXCEPT ![e] = <<[f EXCEPT !.pc = "run"]>> \o Below(e)]
    /\ UNCHANGED <<program, todo, flags, ultGroup, mq, count, meet, result, status>>
TakeChunk(e) ==
    /\ Running(e, "loop", "add")
    /\ LET f == Top(e)
           p == Loop(f)
           t == f.target % p.num
           chunk == p.index[t].value
       IN  /\ pf' = [pf EXCEPT ![f.level][f.master].index[t].value = @ + 1]
           /\ IF chunk < p.index[t].target
              THEN /\ \E part \in {Iterations(ChunkRange(p.call.range, chunk))} : Apply(e, p.call, part)
                   /\ thread' = thread
              ELSE /\ thread' = [thread EXCEPT ![e] =
                          <<[f EXCEPT !.pc = "run", !.target = t + 1, !.turn = @ + 1]>> \o Below(e)]
                   /\ UNCHANGED <<ran, privateData>>
    /\ UNCHANGED <<program, todo, flags, ultGroup, mq, count, meet, result, status>>

\* the master leaves without waiting for the others
LeaveMutant(e) ==
    /\ Running(e, "loop", "leave")
    /\ ultGroup' = [ultGroup EXCEPT ![e] = <<>>]
    /\ flags' = [flags EXCEPT ![Top(e).level][e] = LEAVE]
    /\ thread' = [thread EXCEPT ![e] = <<[Top(e) EXCEPT !.pc = "post"]>> \o Below(e)]
    /\ UNCHANGED <<program, todo, pf, mq, count, privateData, meet, ran, result, status>>
\* FlagBarrier::leave: the master waits for every other executor, without polling
Leave(e) ==
    /\ Running(e, "loop", "leave")
    /\ LET f == Top(e)
           team == Team(Loop(f).group, Loop(f).num)
           last == e # f.master \/ f.i > Len(team)
       IN  /\ ultGroup' = [ultGroup EXCEPT ![e] = <<>>]
           /\ IF last
              THEN /\ flags' = [flags EXCEPT ![f.level][e] = LEAVE]
                   /\ thread' = [thread EXCEPT ![e] = <<[f EXCEPT !.pc = "post"]>> \o Below(e)]
              ELSE /\ team[f.i] = e \/ flags[f.level][team[f.i]] = LEAVE
                   /\ flags' = flags
                   /\ Step(e)
    /\ UNCHANGED <<program, todo, pf, mq, count, privateData, meet, ran, result, status>>

\* kupl_reduce_post_func and do_reduce: thread 0 sums the private data of the team.
\* Its flag has left by then: a caller that is another executor may have returned,
\* and may have written the next loop into the same descriptor.
Post(e) ==
    /\ Running(e, "loop", "post")
    /\ LET f == Top(e) p == Loop(f)
       IN  thread' = [thread EXCEPT ![e] =
              IF p.post /\ f.tid = 0
              THEN <<[f EXCEPT !.pc = "sum", !.left = Team(p.group, p.num)]>> \o Below(e)
              ELSE Below(e)]
    /\ UNCHANGED <<program, todo, flags, pf, ultGroup, mq, count, privateData, meet, ran, result, status>>

Summed(rd, team) == FoldLeft(LAMBDA r, x : Plus(r, privateData[x]), At(result, rd), team)
SumShare(e) ==
    /\ Running(e, "loop", "sum")
    /\ LET f == Top(e) rd == Loop(f).rd
       IN  /\ result' = Put(result, rd, Summed(rd, <<Head(f.left)>>))
           /\ thread' = [thread EXCEPT ![e] =
                  (IF Len(f.left) = 1 THEN <<>> ELSE <<[f EXCEPT !.left = Tail(@)]>>) \o Below(e)]
    /\ UNCHANGED <<program, todo, flags, pf, ultGroup, mq, count, privateData, meet, ran, status>>

(***************************************************************************)
(* The TASK policy, kupl_task_policy_impl                                  *)
(***************************************************************************)
TaskSetup(e) ==
    /\ Running(e, "call", "setup")
    /\ LET f == Top(e) team == TeamSet(Loop(f).group, Loop(f).num)
       IN  /\ count' = Put(count, f.call.id, 0)
           /\ IF f.call.reduce       \* kupl_task_reduce_buffers_init
              THEN /\ privateData' = [x \in Executors |-> IF x \in team THEN Nothing ELSE privateData[x]]
                   /\ pf' = [pf EXCEPT ![0] = [x \in Executors |->
                                IF x \in team THEN [@[x] EXCEPT !.master = f.master] ELSE @[x]]]
              ELSE UNCHANGED <<privateData, pf>>
    /\ Goto(e, "submit")
    /\ UNCHANGED <<program, todo, flags, ultGroup, mq, meet, ran, result, status>>

\* the executor that task number id is bound to: base + 1 tasks for the first ones
Target(p, id) ==
    LET total == TotalChunks(p.call.range)
        base == total \div p.num
        remain == total % p.num
        big == remain * (base + 1)
    IN  Team(p.group, p.num)[1 + (IF id < big THEN id \div (base + 1)
                                              ELSE remain + ((id - big) \div base))]

Submit(e) ==
    /\ Running(e, "call", "submit")
    /\ LET f == Top(e)
           p == Loop(f)
           id == f.i - 1
           task == [kind |-> "chunk", pc |-> "run", id |-> id, master |-> f.master, call |-> f.call.id]
       IN  /\ \/ /\ mq' = [mq EXCEPT ![Target(p, id)] = Append(@, task)]
                 /\ count' = [count EXCEPT ![f.call.id] = @ + 1]
                 /\ UNCHANGED status
              \/ /\ program.faulty          \* kupl_task_init failed
                 /\ status' = Put(status, f.call.id, "skipped")
                 /\ UNCHANGED <<mq, count>>
           /\ IF f.i < TotalChunks(p.call.range) THEN Step(e) ELSE Goto(e, "drain")
    /\ UNCHANGED <<program, todo, flags, pf, ultGroup, privateData, meet, ran, result>>

Drain(e) ==
    /\ Running(e, "call", "drain")
    /\ LET f == Top(e)
           p == Loop(f)
           skipped == f.call.id \in DOMAIN status
       IN  IF count[f.call.id] # 0
           THEN /\ Polled(e, thread[e])
                /\ UNCHANGED <<pf, result, status>>
           ELSE /\ result' = IF f.call.reduce
                              THEN Put(result, p.rd, Summed(p.rd, Team(p.group, p.num))) ELSE result
                /\ pf' = [pf EXCEPT ![f.level][f.master].post = FALSE]
                /\ Return(e, f.call, IF skipped THEN "skipped, ok" ELSE "ok")
                /\ UNCHANGED <<flags, mq>>
    /\ UNCHANGED <<program, todo, ultGroup, count, privateData, meet, ran>>

\* task_policy_loop_func; it looks the loop up at level 0 and prefers rd_func
RunChunk(e) ==
    /\ Running(e, "chunk", "run")
    /\ LET t == Top(e)
           p == pf[0][t.master]
           part == Iterations(TaskRange(p.call.range, t.id))
           routine == IF p.rd # NoCall THEN p.rd ELSE p.call.id
       IN  /\ ran' = Put(ran, routine, Plus(At(ran, routine), Once(part)))
           /\ privateData' = IF p.rd # NoCall THEN [privateData EXCEPT ![e] = Plus(@, Once(part))]
                                              ELSE privateData
           /\ count' = [count EXCEPT ![t.call] = @ - 1]
    /\ thread' = [thread EXCEPT ![e] = Below(e)]
    /\ UNCHANGED <<program, todo, flags, pf, ultGroup, mq, meet, result, status>>

(***************************************************************************)
(* The users: the main thread's calls, and tasks that call parallel_for.   *)
(***************************************************************************)
MainCalls ==
    /\ thread[Main] = <<>> /\ todo # <<>>
    /\ thread' = [thread EXCEPT ![Main] = <<CallFrame(Head(todo))>>]
    /\ todo' = Tail(todo)
    /\ UNCHANGED <<program, flags, pf, ultGroup, mq, count, privateData, meet, ran, result, status>>

TaskCalls(e) ==
    /\ Running(e, "task", "run")
    /\ thread' = [thread EXCEPT ![e] = <<CallFrame(Top(e).call), [Top(e) EXCEPT !.pc = "end"]>> \o Below(e)]
    /\ UNCHANGED <<program, todo, flags, pf, ultGroup, mq, count, privateData, meet, ran, result, status>>
TaskEnds(e) ==
    /\ Running(e, "task", "end")
    /\ thread' = [thread EXCEPT ![e] = Below(e)]
    /\ UNCHANGED <<program, todo, flags, pf, ultGroup, mq, count, privateData, meet, ran, result, status>>

Finished == todo = <<>> /\ \A e \in Executors : thread[e] = <<>> /\ mq[e] = <<>>

\* kupl_pf_init: everything calloc'ed, every flag 0
Init ==
    /\ program \in Programs
    /\ todo = program.main
    /\ thread = [e \in Executors |-> <<>>]
    /\ flags = [l \in LevelSet |-> [e \in Executors |-> LEAVE]]
    /\ pf = [l \in LevelSet |-> [e \in Executors |-> NoLoop]]
    /\ ultGroup = [e \in Executors |-> <<>>]
    /\ mq = [e \in Executors |->
                [i \in DOMAIN program.tasks[e] |->
                    [kind |-> "task", pc |-> "run", call |-> program.tasks[e][i]]]]
    /\ count = Nothing
    /\ privateData = [e \in Executors |-> Nothing]
    /\ meet = Nothing /\ ran = Nothing /\ result = Nothing /\ status = Nothing

Works(e) == \/ Reject(e) \/ QuickPath(e) \/ SerialReturn(e) \/ Publish(e) \/ SetMasters(e)
            \/ Notify(e) \/ Join(e) \/ Joined(e) \/ Idle(e) \/ WaitPoll(e) \/ WaitFlag(e)
            \/ Enter(e) \/ RunStatic(e) \/ Meet(e) \/ Met(e) \/ RunDynamic(e) \/ TakeChunk(e)
            \/ Leave(e) \/ Post(e) \/ SumShare(e) \/ TaskSetup(e) \/ Submit(e) \/ Drain(e) \/ RunChunk(e)
            \/ TaskCalls(e) \/ TaskEnds(e)
Next == (\E e \in Executors : Works(e)) \/ MainCalls

\* every executor is a thread of its own, scheduled by the operating system
Spec == Init /\ [][Next]_vars /\ WF_vars(MainCalls) /\ \A e \in Executors : WF_vars(Works(e))

(***************************************************************************)
(* Properties                                                              *)
(***************************************************************************)
Sequences == {program.main} \union {program.tasks[e] : e \in Executors}
Calls == LET all == UNION {ToSet(s) : s \in Sequences}
         IN  all \union UNION {ToSet(c.inner) : c \in all}
\* the iterations the caller asked for; without a range, one per thread
Asked(c) == Space(Normalise(c.range, c.policy),
                  NumThreads(<<>>, Concurrency(c), Len(c.group), program.kernel))
Returned(c) == c.id \in DOMAIN status /\ status[c.id] = "ok"

(* What a program lays down for a call that is not nested in a loop. *)
Earlier(c) == {d \in Calls : \E s \in Sequences : \E j \in DOMAIN s :
                                  s[j] = c /\ d \in ToSet(SubSeq(s, 1, j - 1))}
Outer(c) == \E s \in Sequences : c \in ToSet(s)
Caller(c) == CHOOSE e \in Executors : \/ c \in ToSet(program.tasks[e])
                                      \/ e = Main /\ c \in ToSet(program.main)
Width(c) == NumThreads(Normalise(c.range, c.policy), Concurrency(c), Len(c.group), program.kernel)
GroupOf(c) == IF c.group # <<>> THEN c.group ELSE GlobalGroup(Width(c))
MasterCalled(c) == MasterOf(Caller(c), GroupOf(c))
Alone(c) == Width(c) = 1 /\ MasterCalled(c) = Caller(c)        \* the quick path

\* TASK loops: their tasks run as long as the call, and the caller sums
AsTasks(c) == c.policy = "task" /\ c.range # <<>>

\* Cuts that overlap: a TASK loop that counts downwards (task_policy_loop_func takes
\* the smaller end), and a range of several dimensions cut twice in one of them
\* (divide_range computes each cut on the whole range).
Downwards(c) == AsTasks(c) /\ c.range[1].step < 0
CutTwice(c) ==
    /\ c.policy = "static" /\ Len(c.range) > 1 /\ Width(c) > 3
    /\ LET range == Normalise(c.range, c.policy)
       IN  \E t \in 0 .. Width(c) - 1 :
              Cardinality({i \in DOMAIN range : DivideRange(range, t, Width(c))[i] # range[i]}) = 1
Overlaps(c) == Downwards(c) \/ CutTwice(c)

\* The call whose function runs the iterations of d.  rd_func is never cleared: the
\* tasks of a plain loop call the function of the master's last reduction.
OldFunctions(d) == {r \in Earlier(d) : r.reduce /\ ~Alone(r) /\ MasterCalled(r) = MasterCalled(d)}
Routine(d) == IF AsTasks(d) /\ ~d.reduce /\ ~Alone(d) /\ OldFunctions(d) # {}
              THEN CHOOSE r \in OldFunctions(d) : OldFunctions(d) \subseteq Earlier(r) \union {r}
              ELSE d
Served(c) == {d \in Calls : Routine(d) = c}

\* When kupl_parallel_for returns KUPL_OK every iteration of the range has been run
\* exactly once, however the executors interleaved, and at no time has one run
\* twice; each by the function of its call, or by that of an earlier reduction
\* where the code mixes them up (Routine).  Two more exceptions: a TASK loop that
\* could not create all its tasks skips iterations and returns KUPL_OK too, and
\* where the cuts overlap an iteration runs at least once (a TASK loop that counts
\* downwards also goes past the end).
EveryIterationOnce ==
    \A c \in Calls :
        LET served == Served(c)
            asked == [d \in served |-> Asked(d)]
            times == FoldSet(LAMBDA d, bag : Plus(bag, Once(asked[d])), Nothing, served)
        IN  /\ (\A d \in served : Returned(d)) =>
                   IF \E d \in served : Overlaps(d)
                   THEN \A x \in DOMAIN times : At(ran, c.id)[x] >= times[x]
                   ELSE At(ran, c.id) = times
            /\ c.id \in DOMAIN ran /\ (\A d \in served : ~Overlaps(d)) =>
                   \A x \in DOMAIN ran[c.id] :
                      ran[c.id][x] \in 1 .. Cardinality({d \in served : x \in asked[d]})

\* who sums: the caller, or at least the master, the one that waits for all others
CallerSums(c) == c.policy \in GraphCalls \/ AsTasks(c) \/ ~Outer(c) \/ Caller(c) = GroupOf(c)[1] \/ Alone(c)
MasterSums(c) == CallerSums(c) \/ MasterCalled(c) = GroupOf(c)[1]

\* When kupl_parallel_for_reduce returns, the user's buffer holds the
\* contribution of every iteration exactly once: nobody was still adding to its
\* private data when thread 0 summed it, and nothing of an earlier call was left
\* in it.  That is so if the caller is thread 0.  A caller outside the group may
\* return before thread 0 has summed, or keep it from summing (post_func is
\* cleared): each contribution is there at most once, but perhaps not yet, or
\* never.  Nothing is said if thread 0 is not the master, because it sums without
\* waiting for the others, nor of a reduction that comes after such a call: the
\* thread 0 of the earlier loop may still sum, then into the buffer of the later one.
\* Where cuts overlap the buffer holds what has been run.
ReductionComplete ==
    \A c \in Calls : c.reduce /\ (\A d \in Earlier(c) : CallerSums(d)) =>
        /\ Returned(c) /\ CallerSums(c) =>
              At(result, c.id) = IF Overlaps(c) THEN ran[c.id] ELSE Once(Asked(c))
        /\ MasterSums(c) /\ ~Overlaps(c) =>
              \A x \in DOMAIN At(result, c.id) : x \in Asked(c) /\ result[c.id][x] = 1

\* No executor is still inside a loop whose call has returned: func, args and
\* range are the caller's, and task_cnt_ref lives on its stack.  (A task loop of
\* a graph lasts until kupl_graph_wait; a thread 0 that is not the caller may
\* still be summing into the caller's buffer.)
Gone(id) == id \in DOMAIN status /\ status[id] \notin {"skipped", "submitted", "partly"}
InLoop(f) == f.kind = "loop" /\ f.pc \notin {"enter", "post"}
SumsLate(f) == f.pc = "sum" /\ \E c \in Calls : c.id = f.call.id /\ ~CallerSums(c)
TaskKinds == {"chunk", "block", "dispatch"}
NobodyLeftBehind ==
    \A e \in Executors :
        /\ \A i \in DOMAIN thread[e] :
              /\ InLoop(thread[e][i]) /\ ~SumsLate(thread[e][i]) => ~Gone(thread[e][i].call.id)
              /\ thread[e][i].kind \in TaskKinds => ~Gone(thread[e][i].call)
        /\ \A i \in DOMAIN mq[e] : mq[e][i].kind \in TaskKinds => ~Gone(mq[e][i].call)

\* Every call returns and every executor comes back to polling.
CallsReturn == <>Finished
=============================================================================
