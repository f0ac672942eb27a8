----------------------------- MODULE TaskGraph -----------------------------
(***************************************************************************)
(* The task graph of mt/: tasks (kupl_task), their dependency nodes        *)
(* (kupl_dag), dynamic graphs (kupl_graph), static graphs                  *)
(* (kupl_static_graph) and the scheduler entry points (kupl_sched).        *)
(*                                                                         *)
(* One thread, Master, makes the API calls of a program (variable prog)    *)
(* one after the other; every executor, Master inside a wait included,     *)
(* takes ready tasks from the scheduler and runs them.  Each access to     *)
(* memory that two threads share is an action of its own.  Executors run   *)
(* tasks inside tasks (a full queue and the immediate flag make            *)
(* kupl_sched_add_tb run the task on the spot, the body of a static graph  *)
(* runs others while it waits), hence a call stack per executor.           *)
(*                                                                         *)
(* The scheduler plugin is abstracted to a bounded bag: add fails when it  *)
(* is full, get returns any member.                                        *)
(***************************************************************************)
EXTENDS Integers, Sequences, FiniteSets
LOCAL INSTANCE FiniteSetsExt

CONSTANTS
    Executors,      \* the executors (threads)
    Master,         \* the executor that builds the graph
    Tasks,          \* the tasks of the programs: natural numbers, in id order
    Kind,           \* [Tasks -> {"dynamic", "sgraph", "static"}]
    Imm,            \* the tasks with KUPL_TASK_FLAG_IMM
    Addrs,          \* dependency addresses
    None,           \* nullptr
    QueueLength,    \* capacity of the scheduler's queue
    UintMod,        \* 2^32 in the code: modulus of the uint32_t counters
    Programs        \* the programs Master may run: [calls, team]

AllAddr == "KUPL_TASK_DEP_ALL_ADDR"

ASSUME ExecutorsAssumption == Master \in Executors
ASSUME TasksAssumption ==
    /\ Tasks \subseteq Nat
    /\ None \notin Tasks
    /\ AllAddr \notin Addrs
    /\ Kind \in [Tasks -> {"dynamic", "sgraph", "static"}]
    /\ Imm \subseteq Tasks
ASSUME BoundsAssumption == QueueLength \in Nat /\ UintMod \in Nat \ {0}

VARIABLES
    prog,       \* the API calls of the program Master runs
    team,       \* the executors it was started with
    ip,         \* index of the API call Master is in
    call,       \* Master's local state inside that call
    task,       \* the fields of kupl_task_t and its gnode that matter
    entry,      \* dag->hash: address -> last writer (out) and readers (in)
    srcNodes,   \* sgraph->src_nodes
    count,      \* graph->count and sgraph->task_count
    alive,      \* whether the graph has not been destroyed
    queue,      \* the scheduler: how many times a task is queued
    schedFull,  \* the thread-local sched_full of kupl_sched.cpp
    stack,      \* the call stack of each executor, innermost frame last
    begun,      \* history: how often the function of a task was entered
    ended       \* history: how often it was left

program == <<prog, team>>
dagVars == <<entry, srcNodes>>
schedVars == <<queue, schedFull>>
history == <<begun, ended>>
vars == <<program, ip, call, task, dagVars, count, alive, schedVars, stack, history>>

-----------------------------------------------------------------------------
Inc(n) == (n + 1) % UintMod
Dec(n) == (n + UintMod - 1) % UintMod

NoTask == [life |-> "none", finished |-> FALSE, ref |-> 0, nPred |-> 0, nHard |-> 0,
           succ |-> <<>>, locked |-> FALSE]

\* kupl_task_init: a fresh task with one reference and no edges
TaskInit == [NoTask EXCEPT !.life = "live", !.ref = 1]

\* kupl_task_deref: the last reference frees the task and its edges
Deref(tk) == [tk EXCEPT !.ref = @ - 1, !.life = IF tk.ref = 1 THEN "freed" ELSE @,
                        !.succ = IF tk.ref = 1 THEN <<>> ELSE @]

\* which counter kupl_tb_count_add and kupl_tb_count_sub work on
CountOf(t) == IF Kind[t] = "static" THEN "sgraph" ELSE "graph"

Frame(t, pc, todo) == [task |-> t, pc |-> pc, todo |-> todo, ready |-> <<>>, counted |-> FALSE]

Idle == [pc |-> "idle", task |-> None, deps |-> <<>>, addrs |-> {}, ops |-> <<>>, n |-> 0,
         err |-> FALSE]

Top(e) == stack[e][Len(stack[e])]
At(e, pc) == stack[e] # <<>> /\ Top(e).pc = pc

\* replace the innermost frame of e by f
SetTop(e, f) == stack' = [stack EXCEPT ![e][Len(stack[e])] = f]

\* the innermost frame of e becomes f and calls kupl_task_invoke on t
Invoke(e, f, t) ==
    /\ stack' = [stack EXCEPT ![e] = [@ EXCEPT ![Len(@)] = f] \o <<Frame(t, "func", <<>>)>>]
    /\ begun' = [begun EXCEPT ![t] = @ + 1]

-----------------------------------------------------------------------------
(* kupl_sched_add_tb, called by Master (frame "main"), by the body of a    *)
(* static graph ("body") and by kupl_task_finish ("add") for each task in  *)
(* the frame's todo.                                                       *)

Adding(e) == /\ At(e, "main") \/ At(e, "body") \/ At(e, "add")
             /\ Top(e).todo # <<>>

\* kupl_tb_count_add, before the task can be seen by another executor
SchedAddTbCount(e) ==
    /\ Adding(e) /\ ~Top(e).counted
    /\ count' = [count EXCEPT ![CountOf(Head(Top(e).todo))] = Inc(@)]
    /\ SetTop(e, [Top(e) EXCEPT !.counted = TRUE])
    /\ UNCHANGED <<program, ip, call, task, dagVars, alive, schedVars, history>>

QueueTotal == MapThenSumSet(LAMBDA t : queue[t], Tasks)

\* hand the task to the plugin, or run it here: at once when it is immediate or
\* an earlier add of this thread failed, after setting sched_full when this add
\* fails
SchedAddTbPush(e) ==
    /\ Adding(e) /\ Top(e).counted
    /\ LET t == Head(Top(e).todo)
           f == [Top(e) EXCEPT !.todo = Tail(@), !.counted = FALSE]
           direct == schedFull[e] \/ t \in Imm
       IN  IF ~direct /\ QueueTotal < QueueLength
           THEN /\ queue' = [queue EXCEPT ![t] = @ + 1]
                /\ SetTop(e, f)
                /\ UNCHANGED <<schedFull, begun>>
           ELSE /\ schedFull' = [schedFull EXCEPT ![e] = @ \/ ~direct]
                /\ Invoke(e, f, t)
                /\ UNCHANGED queue
    /\ UNCHANGED <<program, ip, call, task, dagVars, count, alive, ended>>

-----------------------------------------------------------------------------
(* kupl_sched_execute_tb and kupl_task_invoke                              *)

\* Master is between two steps of its program
AtCall(op) == /\ At(Master, "main") /\ Top(Master).todo = <<>>
              /\ call.pc = "idle" /\ ip <= Len(prog) /\ prog[ip].op = op

\* the loops that call kupl_sched_execute_tb: a worker's executor_body,
\* kupl_graph_wait and kupl_sgraph_task_body
Polling(e) ==
    \/ e \in team \ {Master} /\ stack[e] = <<>>
    \/ e = Master /\ AtCall("wait") /\ count["graph"] # 0
    \/ At(e, "body") /\ Top(e).todo = <<>> /\ count["sgraph"] # 0

\* get a task from the plugin and invoke it; sched_full is cleared
SchedExecuteTb(e, t) ==
    /\ queue[t] > 0
    /\ queue' = [queue EXCEPT ![t] = @ - 1]
    /\ schedFull' = [schedFull EXCEPT ![e] = FALSE]
    /\ stack' = [stack EXCEPT ![e] = @ \o <<Frame(t, "func", <<>>)>>]
    /\ begun' = [begun EXCEPT ![t] = @ + 1]
    /\ UNCHANGED <<program, call, task, dagVars, count, alive, ended>>

ExecutorPoll(e) ==
    /\ Polling(e)
    /\ \E t \in Tasks : SchedExecuteTb(e, t)
    /\ UNCHANGED ip

\* the user function returns and FINISHED is set (kupl_task_execute)
TaskExecute(e) ==
    /\ LET t == Top(e).task
       IN  /\ \/ At(e, "func") /\ Kind[t] # "sgraph"
              \/ At(e, "body") /\ Top(e).todo = <<>> /\ count["sgraph"] = 0
           /\ task' = [task EXCEPT ![t].finished = TRUE]
           /\ ended' = [ended EXCEPT ![t] = @ + 1]
           /\ SetTop(e, [Top(e) EXCEPT !.pc = "finish"])
    /\ UNCHANGED <<program, ip, call, dagVars, count, alive, schedVars, begun>>

\* all elements of a set of task ids in the order of the std::map
SortedIds(S) ==
    CHOOSE s \in [1 .. Cardinality(S) -> S] : \A i, j \in DOMAIN s : i < j => s[i] < s[j]

\* kupl_sgraph_task_body: add the source nodes, then execute until none is left
SgraphTaskBody(e) ==
    /\ At(e, "func") /\ Kind[Top(e).task] = "sgraph"
    /\ SetTop(e, [Top(e) EXCEPT !.pc = "body", !.todo = SortedIds(srcNodes)])
    /\ UNCHANGED <<program, ip, call, task, dagVars, count, alive, schedVars, history>>

\* mutant: the predecessor count is not reset for the next round
TaskFinishStaticMutant(e) ==
    /\ At(e, "finish")
    /\ LET t == Top(e).task
       IN  /\ Kind[t] = "static"
           /\ task' = [task EXCEPT ![t].finished = FALSE]
           /\ SetTop(e, [Top(e) EXCEPT !.pc = "release", !.todo = task[t].succ])
    /\ UNCHANGED <<program, ip, call, dagVars, count, alive, schedVars, history>>

\* kupl_task_finish of a static node: reset it for the next round, before its
\* successors are released
TaskFinishStatic(e) ==
    /\ At(e, "finish")
    /\ LET t == Top(e).task
       IN  /\ Kind[t] = "static"
           /\ task' = [task EXCEPT ![t].finished = FALSE, ![t].nPred = task[t].nHard]
           /\ SetTop(e, [Top(e) EXCEPT !.pc = "release", !.todo = task[t].succ])
    /\ UNCHANGED <<program, ip, call, dagVars, count, alive, schedVars, history>>

\* kupl_gnode_release_ready_safe: lock and unlock the node, so that an edge being
\* inserted is seen, then walk the list
TaskFinishDynamic(e) ==
    /\ At(e, "finish")
    /\ LET t == Top(e).task
       IN  /\ Kind[t] # "static"
           /\ ~task[t].locked
           /\ SetTop(e, [Top(e) EXCEPT !.pc = "release", !.todo = task[t].succ])
    /\ UNCHANGED <<program, ip, call, task, dagVars, count, alive, schedVars, history>>

\* gnode_release_ready: one fetch_sub per successor; the one that takes the
\* counter from 1 to 0 makes it ready
GnodeReleaseReady(e) ==
    /\ At(e, "release")
    /\ IF Top(e).todo = <<>>
       THEN /\ SetTop(e, [Top(e) EXCEPT !.pc = "add", !.todo = Top(e).ready, !.ready = <<>>])
            /\ UNCHANGED task
       ELSE LET s == Head(Top(e).todo)
            IN  /\ task' = [task EXCEPT ![s].nPred = Dec(@)]
                /\ SetTop(e, [Top(e) EXCEPT !.todo = Tail(@),
                                  !.ready = IF task[s].nPred = 1 THEN Append(@, s) ELSE @])
    /\ UNCHANGED <<program, ip, call, dagVars, count, alive, schedVars, history>>

\* mutant: the finished task stays counted
TaskCountSubMutant(e) ==
    /\ At(e, "add") /\ Top(e).todo = <<>>
    /\ SetTop(e, [Top(e) EXCEPT !.pc = "deref"])
    /\ UNCHANGED <<program, ip, call, task, dagVars, count, alive, schedVars, history>>

\* kupl_tb_count_sub, once the ready successors are with the scheduler
TaskCountSub(e) ==
    /\ At(e, "add") /\ Top(e).todo = <<>>
    /\ count' = [count EXCEPT ![CountOf(Top(e).task)] = Dec(@)]
    /\ SetTop(e, [Top(e) EXCEPT !.pc = "deref"])
    /\ UNCHANGED <<program, ip, call, task, dagVars, alive, schedVars, history>>

\* mutant: the task keeps its own reference
TaskDerefMutant(e) ==
    /\ At(e, "deref")
    /\ stack' = [stack EXCEPT ![e] = SubSeq(@, 1, Len(@) - 1)]
    /\ UNCHANGED <<program, ip, call, task, dagVars, count, alive, schedVars, history>>

\* the end of kupl_task_finish: task->kind is read, a dynamic task drops its own
\* reference, and kupl_task_invoke returns
TaskDeref(e) ==
    /\ At(e, "deref")
    /\ LET t == Top(e).task
       IN  task' = IF Kind[t] = "static" THEN task ELSE [task EXCEPT ![t] = Deref(@)]
    /\ stack' = [stack EXCEPT ![e] = SubSeq(@, 1, Len(@) - 1)]
    /\ UNCHANGED <<program, ip, call, dagVars, count, alive, schedVars, history>>

-----------------------------------------------------------------------------
(* kupl_dag_add_task and the edges.  Master owns the hash; what it does to *)
(* tasks other threads may hold is queued in call.ops and done step by     *)
(* step, in the order of the code.                                         *)

\* dep_list_rm_dup: an ALL dependency replaces the list; a repeated address with
\* another type becomes one OUT.  The code leaves the dropped tail of the list
\* uninitialised (dep_cnt keeps its value): programs that merge are excluded by
\* NoMergedDeps.
IsAll(d) == d.type = "ALL" \/ d.addr = AllAddr

DepListRmDup(deps) ==
    IF \E i \in DOMAIN deps : IsAll(deps[i])
    THEN <<[addr |-> AllAddr, type |-> "ALL"]>>
    ELSE deps

NoMergedDeps(deps) ==
    \/ \E i \in DOMAIN deps : IsAll(deps[i])
    \/ \A i, j \in DOMAIN deps : deps[i].addr = deps[j].addr => deps[i].type = deps[j].type

ASSUME ProgramsAssumption ==
    \A p \in Programs : /\ Master \in p.team /\ p.team \subseteq Executors
                        /\ \A i \in DOMAIN p.calls : p.calls[i].op = "add_task" =>
                                                        NoMergedDeps(p.calls[i].deps)

Op(do, t) == [do |-> do, of |-> t]

\* a call on a null node returns at once
OpOn(do, t) == IF t = None THEN <<>> ELSE <<Op(do, t)>>

EmptyEntry == [out |-> None, in |-> <<>>]

\* mutant: a writer follows only the last writer, not the readers
DepOutOpsMutant(ent, node) ==
    (IF node = None THEN <<>> ELSE OpOn("precede", ent.out))
    \o [i \in DOMAIN ent.in |-> Op("deref", ent.in[i])]
    \o OpOn("deref", ent.out) \o OpOn("ref", node)

\* node_process_dep_out: the new writer follows the readers, or the last writer
\* when nobody read; the entry drops them and keeps the new writer.
\* kupl_addr_entry_destroy calls it with no node.
DepOutOps(ent, node) ==
    (IF node = None THEN [i \in DOMAIN ent.in |-> Op("deref", ent.in[i])]
     ELSE IF ent.in = <<>> THEN OpOn("precede", ent.out)
     ELSE [i \in 1 .. 2 * Len(ent.in) |-> IF i % 2 = 1 THEN Op("precede", ent.in[(i + 1) \div 2])
                                          ELSE Op("deref", ent.in[i \div 2])])
    \o OpOn("deref", ent.out) \o OpOn("ref", node)

\* hash->insert
HashInsert(hash, a, ent) == [x \in DOMAIN hash \cup {a} |-> IF x = a THEN ent ELSE hash[x]]

\* kupl_node_process_dep, the lookup: a new address starts with the last ALL task
\* as its writer, unless that task is finished and dropped
Lookup(a) ==
    LET all == IF a \notin DOMAIN entry /\ a # AllAddr /\ AllAddr \in DOMAIN entry
               THEN entry[AllAddr].out ELSE None
    IN  IF a \in DOMAIN entry THEN [hash |-> entry, ops |-> <<>>]
        ELSE IF all = None THEN [hash |-> HashInsert(entry, a, EmptyEntry), ops |-> <<>>]
        ELSE IF task[all].finished
        THEN [hash |-> HashInsert([entry EXCEPT ![AllAddr].out = None], a, EmptyEntry),
              ops |-> <<Op("deref", all)>>]
        ELSE [hash |-> HashInsert(entry, a, [out |-> all, in |-> <<>>]), ops |-> <<Op("ref", all)>>]

InDag == call.pc = "deps" /\ call.ops = <<>>

\* kupl_node_process_dep for the next dependency: IN joins the readers, OUT and
\* INOUT rewrite the entry, ALL rewrites every entry
NodeProcessDep ==
    /\ InDag /\ call.addrs = {} /\ call.deps # <<>>
    /\ LET d == Head(call.deps)
           found == Lookup(d.addr)
           node == call.task
       IN  /\ d.type # "BAD"
           /\ IF d.type = "IN"
              THEN /\ entry' = [found.hash EXCEPT ![d.addr].in = <<node>> \o @]
                   /\ call' = [call EXCEPT !.deps = Tail(@), !.ops = found.ops \o
                                 OpOn("ref", node) \o OpOn("precede", found.hash[d.addr].out)]
              ELSE /\ entry' = found.hash
                   /\ call' = [call EXCEPT !.deps = Tail(@), !.ops = found.ops,
                                 !.addrs = IF d.type = "ALL" THEN DOMAIN found.hash ELSE {d.addr}]
    /\ UNCHANGED <<program, ip, task, srcNodes, count, alive, schedVars, stack, history>>

\* an unknown type: KUPL_ERROR.  kupl_graph_add_task returns it and forgets the
\* task, with the edges made so far; the new hash entry stays.
NodeProcessDepError ==
    /\ InDag /\ call.addrs = {} /\ call.deps # <<>>
    /\ Head(call.deps).type = "BAD"
    /\ entry' = Lookup(Head(call.deps).addr).hash
    /\ call' = [call EXCEPT !.err = TRUE, !.deps = <<>>, !.ops = Lookup(Head(call.deps).addr).ops]
    /\ UNCHANGED <<program, ip, task, srcNodes, count, alive, schedVars, stack, history>>

\* node_process_dep_out on one entry; the order over the hash is unspecified
NodeProcessDepOut(a) ==
    /\ InDag /\ a \in call.addrs
    /\ entry' = [entry EXCEPT ![a] = [out |-> call.task, in |-> <<>>]]
    /\ call' = [call EXCEPT !.addrs = @ \ {a}, !.ops = DepOutOps(entry[a], call.task)]
    /\ UNCHANGED <<program, ip, task, srcNodes, count, alive, schedVars, stack, history>>

NextOp(do) == call.pc = "deps" /\ call.ops # <<>> /\ Head(call.ops).do = do
PopOp == [call EXCEPT !.pc = "deps", !.ops = Tail(@)]
OpTask == Head(call.ops).of

\* mutant: the hash keeps the node without counting the reference
GnodeRefMutant ==
    /\ NextOp("ref")
    /\ call' = PopOp
    /\ UNCHANGED <<program, ip, task, dagVars, count, alive, schedVars, stack, history>>

GnodeRef ==
    /\ NextOp("ref")
    /\ task' = [task EXCEPT ![OpTask].ref = @ + 1]
    /\ call' = PopOp
    /\ UNCHANGED <<program, ip, dagVars, count, alive, schedVars, stack, history>>

GnodeDeref ==
    /\ NextOp("deref")
    /\ task' = [task EXCEPT ![OpTask] = Deref(@)]
    /\ call' = PopOp
    /\ UNCHANGED <<program, ip, dagVars, count, alive, schedVars, stack, history>>

\* kupl_gnode_precede: lock the predecessor unless it is finished.  The unlocked
\* test before the lock answers the same question and is folded into this one.
GnodePrecedeLock ==
    /\ NextOp("precede")
    /\ IF task[OpTask].finished
       THEN call' = PopOp /\ UNCHANGED task
       ELSE /\ task' = [task EXCEPT ![OpTask].locked = TRUE]
            /\ call' = [call EXCEPT !.pc = "insert"]
    /\ UNCHANGED <<program, ip, dagVars, count, alive, schedVars, stack, history>>

\* insert the edge and unlock
GnodePrecedeInsert ==
    /\ call.pc = "insert"
    /\ task' = [task EXCEPT ![OpTask].succ = <<call.task>> \o @, ![OpTask].locked = FALSE]
    /\ call' = [call EXCEPT !.pc = "count"]
    /\ UNCHANGED <<program, ip, dagVars, count, alive, schedVars, stack, history>>

\* count the edge at the successor, after the predecessor's lock is gone
GnodePrecedeCount ==
    /\ call.pc = "count"
    /\ task' = [task EXCEPT ![call.task].nHard = Inc(@), ![call.task].nPred = Inc(@)]
    /\ call' = [PopOp EXCEPT !.n = Inc(@)]
    /\ UNCHANGED <<program, ip, dagVars, count, alive, schedVars, stack, history>>

DagDone == InDag /\ call.addrs = {} /\ call.deps = <<>>

\* the last test of kupl_dag_add_task, in 32-bit unsigned arithmetic; a ready task
\* goes to the scheduler, any other waits for its predecessors
DagIsReady(t) == (task[t].nPred + call.n) % UintMod = (UintMod - call.n) % UintMod

GraphAddTaskDone ==
    /\ DagDone /\ prog[ip].op = "add_task"
    /\ IF ~call.err /\ DagIsReady(call.task)
       THEN SetTop(Master, [Top(Master) EXCEPT !.todo = <<call.task>>])
       ELSE UNCHANGED stack
    /\ call' = Idle
    /\ ip' = ip + 1
    /\ UNCHANGED <<program, task, dagVars, count, alive, schedVars, history>>

-----------------------------------------------------------------------------
(* The API calls of Master's program                                       *)

Enter(t, c) == call' = [Idle EXCEPT !.pc = "deps", !.task = t, !.deps = c.deps,
                                    !.addrs = c.addrs, !.ops = c.ops]
Args == [deps |-> <<>>, addrs |-> {}, ops |-> <<>>]

\* kupl_graph_add_task: create the task, then kupl_dag_add_task
GraphAddTask ==
    /\ AtCall("add_task")
    /\ task' = [task EXCEPT ![prog[ip].task] = TaskInit]
    /\ Enter(prog[ip].task, [Args EXCEPT !.deps = DepListRmDup(prog[ip].deps)])
    /\ UNCHANGED <<program, ip, dagVars, count, alive, schedVars, stack, history>>

\* kupl_graph_add_sgraph_task: no dependencies, straight to the scheduler
GraphAddSgraphTask ==
    /\ AtCall("add_sgraph_task")
    /\ task' = [task EXCEPT ![prog[ip].task] = TaskInit]
    /\ SetTop(Master, [Top(Master) EXCEPT !.todo = <<prog[ip].task>>])
    /\ ip' = ip + 1
    /\ UNCHANGED <<program, call, dagVars, count, alive, schedVars, history>>

\* kupl_sgraph_add_node: a new node is a source until something precedes it
SgraphAddNode ==
    /\ AtCall("sgraph_add_node")
    /\ task' = [task EXCEPT ![prog[ip].task] = TaskInit]
    /\ srcNodes' = srcNodes \cup {prog[ip].task}
    /\ ip' = ip + 1
    /\ UNCHANGED <<program, call, entry, count, alive, schedVars, stack, history>>

\* kupl_sgraph_add_dep: the edge, then the successor is no longer a source
SgraphAddDep ==
    /\ AtCall("sgraph_add_dep")
    /\ Enter(prog[ip].succeed, [Args EXCEPT !.ops = <<Op("precede", prog[ip].precede)>>])
    /\ UNCHANGED <<program, ip, task, dagVars, count, alive, schedVars, stack, history>>

SgraphAddDepDone ==
    /\ DagDone /\ prog[ip].op = "sgraph_add_dep"
    /\ srcNodes' = srcNodes \ {call.task}
    /\ call' = Idle
    /\ ip' = ip + 1
    /\ UNCHANGED <<program, task, entry, count, alive, schedVars, stack, history>>

\* kupl_sgraph_destroy: drop the sources and one reference of every node
SgraphDestroy ==
    /\ AtCall("sgraph_destroy")
    /\ LET nodes == SortedIds({t \in Tasks : Kind[t] = "static" /\ task[t].life = "live"})
       IN  Enter(None, [Args EXCEPT !.ops = [i \in DOMAIN nodes |->
                                               Op("deref", nodes[Len(nodes) + 1 - i])]])
    /\ srcNodes' = {}
    /\ UNCHANGED <<program, ip, task, entry, count, alive, schedVars, stack, history>>

\* kupl_graph_destroy: kupl_dag_destroy clears every entry, then the graph is freed
GraphDestroy ==
    /\ AtCall("destroy")
    /\ Enter(None, [Args EXCEPT !.addrs = DOMAIN entry])
    /\ UNCHANGED <<program, ip, task, dagVars, count, alive, schedVars, stack, history>>

DestroyDone ==
    /\ DagDone /\ prog[ip].op \in {"destroy", "sgraph_destroy"}
    /\ alive' = (alive /\ prog[ip].op # "destroy")
    /\ call' = Idle
    /\ ip' = ip + 1
    /\ UNCHANGED <<program, task, dagVars, count, schedVars, stack, history>>

\* kupl_graph_wait returns when it reads a zero count
GraphWait ==
    /\ AtCall("wait") /\ count["graph"] = 0
    /\ ip' = ip + 1
    /\ UNCHANGED <<program, call, task, dagVars, count, alive, schedVars, stack, history>>

\* kupl_graph_test runs at most one task
GraphTest ==
    /\ AtCall("test")
    /\ ip' = ip + 1
    /\ \/ \E t \in Tasks : SchedExecuteTb(Master, t)
       \/ /\ \A t \in Tasks : queue[t] = 0
          /\ UNCHANGED <<program, call, task, dagVars, count, alive, schedVars, stack, history>>

-----------------------------------------------------------------------------
Init ==
    /\ \E p \in Programs : prog = p.calls /\ team = p.team
    /\ ip = 1
    /\ call = Idle
    /\ task = [t \in Tasks |-> NoTask]
    /\ entry = <<>>
    /\ srcNodes = {}
    /\ count = [graph |-> 0, sgraph |-> 0]
    /\ alive = TRUE
    /\ queue = [t \in Tasks |-> 0]
    /\ schedFull = [e \in Executors |-> FALSE]
    /\ stack = [e \in Executors |-> IF e = Master THEN <<Frame(None, "main", <<>>)>> ELSE <<>>]
    /\ begun = [t \in Tasks |-> 0]
    /\ ended = [t \in Tasks |-> 0]

\* what Master does in kupl_dag_add_task, kupl_sgraph_add_dep and the destroys
DagStep ==
    \/ NodeProcessDep \/ NodeProcessDepError
    \/ \E a \in Addrs \cup {AllAddr} : NodeProcessDepOut(a)
    \/ GnodeRef \/ GnodeDeref
    \/ GnodePrecedeLock \/ GnodePrecedeInsert \/ GnodePrecedeCount
    \/ GraphAddTaskDone \/ SgraphAddDepDone \/ DestroyDone

CallStep ==
    \/ GraphAddTask \/ GraphAddSgraphTask \/ SgraphAddNode \/ SgraphAddDep
    \/ SgraphDestroy \/ GraphDestroy \/ GraphWait \/ GraphTest

ExecutorStep(e) ==
    \/ SchedAddTbCount(e) \/ SchedAddTbPush(e) \/ ExecutorPoll(e)
    \/ TaskExecute(e) \/ SgraphTaskBody(e)
    \/ TaskFinishStatic(e) \/ TaskFinishDynamic(e) \/ GnodeReleaseReady(e)
    \/ TaskCountSub(e) \/ TaskDeref(e)

Next == DagStep \/ CallStep \/ \E e \in Executors : ExecutorStep(e)

\* Threads keep running; user functions return.
Fairness == WF_vars(DagStep \/ CallStep) /\ \A e \in Executors : WF_vars(ExecutorStep(e))

Spec == Init /\ [][Next]_vars
FairSpec == Spec /\ Fairness

-----------------------------------------------------------------------------
Elems(s) == {s[i] : i \in DOMAIN s}
Frames == UNION {Elems(stack[e]) : e \in Executors}
Running(t) == \E f \in Frames : f.task = t

\* The order the dependency lists ask for (kupl_task_dep_type): two tasks that
\* share an address run in submission order unless both only read it, an ALL task
\* follows every task before it, and tasks with dependencies follow it.
Conflict(d1, d2) ==
    \/ \E y \in Elems(d2) : IsAll(y)
    \/ d2 # <<>> /\ \E x \in Elems(d1) : IsAll(x)
    \/ \E x \in Elems(d1), y \in Elems(d2) : x.addr = y.addr /\ {x.type, y.type} # {"IN"}

MustPrecede(u, t) ==
    \/ \E i, j \in DOMAIN prog :
          /\ i < j
          /\ prog[i].op = "add_task" /\ prog[i].task = u
          /\ prog[j].op = "add_task" /\ prog[j].task = t
          /\ Conflict(prog[i].deps, prog[j].deps)
    \/ \E i \in DOMAIN prog : /\ prog[i].op = "sgraph_add_dep"
                              /\ prog[i].precede = u /\ prog[i].succeed = t

\* No function starts before the functions it depends on have returned, in every
\* round of a static graph: the edges made by node_process_dep_in/out and
\* kupl_sgraph_add_dep, counted by kupl_gnode_precede and released by
\* gnode_release_ready, enforce the order the user asked for.
DependenciesRespected == \A u, t \in Tasks : begun[t] > ended[u] => ~MustPrecede(u, t)

Rejected(c) == c.op = "add_task" /\ \E d \in Elems(c.deps) : d.type = "BAD"

\* how often t has to run for the calls before index i
Due(t, i) ==
    Cardinality({j \in 1 .. (i - 1) :
        IF Kind[t] = "static" THEN prog[j].op = "add_sgraph_task" /\ task[t].life # "none"
        ELSE prog[j].op \in {"add_task", "add_sgraph_task"} /\ prog[j].task = t /\ ~Rejected(prog[j])})

\* kupl_graph_wait returns only after every task submitted before it has run
\* ("wait until all the ults and tasks in the graph are finished", kupl.h).
WaitFinishesAll ==
    \A i \in 1 .. (ip - 1) : prog[i].op = "wait" => \A t \in Tasks : ended[t] >= Due(t, i)

\* An edge to t may be made while another executor finishes its predecessor:
\* no wait separates the submissions of the two.
EdgeRaces(t) ==
    \E i, j \in DOMAIN prog :
        /\ i < j /\ team # {Master}
        /\ prog[i].op = "add_task" /\ prog[j].op = "add_task" /\ prog[j].task = t
        /\ Conflict(prog[i].deps, prog[j].deps)
        /\ \A k \in i .. j : prog[k].op # "wait"

\* A racing edge may lose its task (finding lost_task), and with it every task
\* that has to follow.
MayBeLost(t) ==
    LET added == {prog[i].task : i \in {j \in DOMAIN prog : prog[j].op = "add_task"}}
    IN  \A S \in SUBSET added :
            (/\ \A u \in added : EdgeRaces(u) => u \in S
             /\ \A u \in S, v \in added : MustPrecede(u, v) => v \in S)
            => t \in S

\* kupl_graph_wait returns only after every task submitted before it has run,
\* those that a racing edge may lose apart: the count covers tasks still blocked
\* behind others because a finishing task counts its ready successors before it
\* uncounts itself.
WaitMeansFinished ==
    \A i \in 1 .. (ip - 1) : prog[i].op = "wait" =>
        \A t \in Tasks : ended[t] >= Due(t, i) \/ MayBeLost(t)

\* The references a task is held by: its own until its run is over (a static
\* node's until kupl_sgraph_destroy), and one per place in the hash.
Destroying(op) == \E i \in 1 .. ip : /\ i \in DOMAIN prog /\ prog[i].op = op
                                     /\ i < ip \/ call.pc # "idle"
Holders(t) ==
    LET own == IF Kind[t] = "static" THEN ~Destroying("sgraph_destroy")
               ELSE ended[t] = 0 \/ Running(t)
        pending(do) == Cardinality({i \in DOMAIN call.ops : call.ops[i] = Op(do, t)})
    IN  (IF own THEN 1 ELSE 0)
        + Cardinality({a \in DOMAIN entry : entry[a].out = t})
        + Cardinality(UNION {{<<a, i>> : i \in {j \in DOMAIN entry[a].in : entry[a].in[j] = t}}
                                : a \in DOMAIN entry})
        + pending("deref") - pending("ref")

\* Every reference is counted, and a task is freed exactly when nobody holds it
\* (kupl_task_deref against the refs of node_process_dep_in/out, the hash entry
\* for a new address after an ALL task, kupl_dag_destroy and kupl_task_finish).
ReferencesCounted ==
    \A t \in Tasks : /\ task[t].life = "live" => task[t].ref = Holders(t) /\ Holders(t) > 0
                     /\ task[t].life = "freed" => Holders(t) = 0

\* No thread can still reach a freed task: not through the queue, a frame, a list
\* being walked, the hash, or the edges of a task that has not run yet.
NoUseAfterFree ==
    \A t \in Tasks : task[t].life = "freed" =>
        /\ queue[t] = 0
        /\ ~Running(t)
        /\ \A f \in Frames : t \notin Elems(f.todo) /\ t \notin Elems(f.ready)
        /\ \A o \in Elems(call.ops) : o.of # t
        /\ \A a \in DOMAIN entry : entry[a].out # t /\ t \notin Elems(entry[a].in)
        /\ \A p \in Tasks : task[p].life = "live" /\ ended[p] = 0 /\ Kind[p] # "static" =>
                                t \notin Elems(task[p].succ)

\* Master gets through its program: no wait hangs.
ProgramCompletes == <>(ip > Len(prog))
=============================================================================
