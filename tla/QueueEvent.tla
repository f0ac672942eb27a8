----------------------------- MODULE QueueEvent -----------------------------
(***************************************************************************)
(* Queues and events of mt/ (kupl_queue, kupl_event) on the tasks they     *)
(* run (kupl_task, kupl_dag).  Items submitted to a queue run one after    *)
(* the other; every item is an event with a task of its own, chained       *)
(* behind the queue's last event by a dependency edge.                     *)
(*                                                                         *)
(* Every executor has a call stack whose base frame is user code: the API  *)
(* calls of its program, made one after the other (kupl_event_init refuses *)
(* other threads).  Inside a wait, and when its program is over, it takes  *)
(* ready tasks from the scheduler.  Each access to memory that two threads *)
(* share is an action of its own; a critical section that touches nothing  *)
(* readable without its lock is one action.                                *)
(*                                                                         *)
(* Without the SDMA engine (sdma_memcpy_func_init is false): req_set and   *)
(* q_set stay empty.  The scheduler plugin is a bounded bag.               *)
(***************************************************************************)
EXTENDS Integers, Sequences, FiniteSets
LOCAL INSTANCE FiniteSetsExt

CONSTANTS
    Executors,      \* the executors (threads)
    Master,         \* the executor of main()
    Queues,
    SyncQueue,      \* the queue acquired with index KUPL_ASYNC_SYNC
    Events,
    None,           \* nullptr
    Scenarios       \* what may run: [calls : [Executors -> Seq(call)], team, cap, open]

\* the calls of the API with their arguments; a kernel brings an event of its own
CallSet ==
    [op : {"submit", "submit_lambda", "event_record"}, q : Queues, ev : Events]
        \cup [op : {"queue_wait_event"}, q : Queues, wait : Events, ev : Events]
        \cup [op : {"queue_create", "queue_acquire", "queue_wait", "queue_destroy"}, q : Queues]
        \cup [op : {"event_create", "event_destroy", "event_query", "event_wait"}, ev : Events]
        \cup [op : {"queue_wait_all", "graph_wait"}]

ASSUME NamesAssumption == /\ Master \in Executors
                          /\ None \notin Queues /\ None \notin Events /\ None \notin Executors
ASSUME ScenariosAssumption ==
    \A s \in Scenarios : /\ Master \in s.team /\ s.team \subseteq Executors
                         /\ s.calls \in [Executors -> Seq(CallSet)] /\ s.cap \in Nat
                         /\ s.open \subseteq Queues

VARIABLES
    scenario,   \* the programs, the executors started, the scheduler's capacity, the
                \* queues created before the executors are started
    ip,         \* the call each executor is in
    stack,      \* the call stack of each executor, innermost frame last
    queue,      \* kupl_queue_t and its place in g_queue_table
    event,      \* kupl_event_t
    task,       \* the task of each event and its gnode
    ready,      \* the scheduler: how many times the task of an event is in it
    schedFull,  \* the thread-local sched_full of kupl_sched.cpp
    count,      \* count of the global graph
    log         \* history: the items in the order of submission, and their runs

users == <<scenario, ip>>
sched == <<ready, schedFull, count>>
vars == <<users, stack, queue, event, task, sched, log>>

-----------------------------------------------------------------------------
NoQueue == [life |-> "none", events |-> 0, last |-> None, lock |-> None,
            acquired |-> FALSE, sync |-> FALSE]
NewQueue == [NoQueue EXCEPT !.life = "live"]
NoEvent == [life |-> "none", status |-> "CREATED", ref |-> 0, type |-> "INIT",
            q |-> None, wait |-> None, item |-> 0]
NoTask == [life |-> "none", ref |-> 0, finished |-> FALSE, nPred |-> 0, succ |-> <<>>,
           locked |-> FALSE, use |-> 0]

\* kupl_event_create_with_udata and the kupl_task_create_with_udata it calls
NewEvent == [NoEvent EXCEPT !.life = "live", !.ref = 1]
NewTask == [NoTask EXCEPT !.life = "live", !.ref = 1]

\* kupl_event_init: the node is thrown away and the task starts again, held by
\* its run as well as by the event
InitEvent(x, type, q, w) == [x EXCEPT !.type = type, !.q = q, !.wait = w]
InitTask(tk) == [NewTask EXCEPT !.ref = tk.ref + 1, !.use = tk.use + 1]

\* the last reference frees a task (kupl_task_deref) or an event (kupl_event_deref)
Deref(x) == [x EXCEPT !.ref = @ - 1, !.life = IF x.ref = 1 THEN "freed" ELSE @]

\* kupl_event_deref on ev, whose fields are those of x: a freed event drops its
\* reference to the task
EventDeref(ev, x) ==
    /\ event' = [event EXCEPT ![ev] = Deref(x)]
    /\ task' = IF x.ref = 1 THEN [task EXCEPT ![ev] = Deref(@)] ELSE task

Frame(pc, ev) == [pc |-> pc, ev |-> ev, use |-> IF ev = None THEN 0 ELSE task[ev].use,
                  q |-> None, todo |-> <<>>, ready |-> <<>>, n |-> 0, qs |-> {}]
User == [pc |-> "call", ev |-> None, use |-> 0, q |-> None, todo |-> <<>>, ready |-> <<>>,
         n |-> 0, qs |-> {}]

Top(e) == stack[e][Len(stack[e])]
At(e, pc) == Top(e).pc = pc
SetTop(e, f) == stack' = [stack EXCEPT ![e][Len(stack[e])] = f]

Calls(e) == scenario.calls[e]
Call(e) == Calls(e)[ip[e]]
AtCall(e, op) == At(e, "call") /\ ip[e] <= Len(Calls(e)) /\ Call(e).op = op
Return(e) == ip' = [ip EXCEPT ![e] = @ + 1] /\ UNCHANGED scenario

Elems(s) == {s[i] : i \in DOMAIN s}

-----------------------------------------------------------------------------
(* The scheduler: kupl_sched_add_tb and kupl_sched_execute_tb              *)

Begin(l, ev) == [l EXCEPT ![event[ev].item].begun = @ + 1]

\* Add the task of ev; the innermost frame of e becomes f.  A task that does not
\* fit, now or since this thread last took one, runs on top of f.
SchedAddTb(e, f, ev) ==
    /\ count' = count + 1
    /\ IF ~schedFull[e] /\ MapThenSumSet(LAMBDA x : ready[x], Events) < scenario.cap
       THEN /\ ready' = [ready EXCEPT ![ev] = @ + 1]
            /\ SetTop(e, f)
            /\ UNCHANGED <<schedFull, log>>
       ELSE /\ schedFull' = [schedFull EXCEPT ![e] = TRUE]
            /\ stack' = [stack EXCEPT ![e] = Append([stack[e] EXCEPT ![Len(stack[e])] = f], Frame("func", ev))]
            /\ log' = Begin(log, ev)
            /\ UNCHANGED ready

\* the loops that take tasks: kupl_task_wait, kupl_graph_wait on the global graph,
\* and executor_body once a worker's user code is over
Polling(e) ==
    /\ e \in scenario.team
    /\ \/ At(e, "twait") /\ ~task[Top(e).ev].finished
       \/ AtCall(e, "graph_wait") /\ count # 0
       \/ At(e, "call") /\ e # Master /\ ip[e] > Len(Calls(e))

SchedExecuteTb(e, ev) ==
    /\ Polling(e) /\ ready[ev] > 0
    /\ ready' = [ready EXCEPT ![ev] = @ - 1]
    /\ schedFull' = [schedFull EXCEPT ![e] = FALSE]
    /\ stack' = [stack EXCEPT ![e] = Append(@, Frame("func", ev))]
    /\ log' = Begin(log, ev)
    /\ UNCHANGED <<users, queue, event, task, count>>

-----------------------------------------------------------------------------
(* Running an item: kupl_task_invoke on event_func                         *)

\* the user function returns and event_func sets the status
EventFunc(e) ==
    /\ At(e, "func")
    /\ LET ev == Top(e).ev
       IN  /\ log' = [log EXCEPT ![event[ev].item].ended = @ + 1]
           /\ event' = [event EXCEPT ![ev].status = "COMPLETE"]
    /\ SetTop(e, [Top(e) EXCEPT !.pc = "dequeue"])
    /\ UNCHANGED <<users, queue, task, sched>>

\* mutant: the last event is forgotten, whichever it is
DequeueEventForgetMutant(e) ==
    /\ At(e, "dequeue")
    /\ LET ev == Top(e).ev
           q == event[ev].q
       IN  /\ queue[q].lock = None
           /\ queue' = [queue EXCEPT ![q].events = @ - 1,
                                     ![q].last = None]
           /\ EventDeref(ev, [event[ev] EXCEPT !.status = "COMPLETE"])
    /\ SetTop(e, [Top(e) EXCEPT !.pc = "execute"])
    /\ UNCHANGED <<users, sched, log>>

\* kupl_dequeue_event, under the queue's lock
DequeueEvent(e) ==
    /\ At(e, "dequeue")
    /\ LET ev == Top(e).ev
           q == event[ev].q
       IN  /\ queue[q].lock = None
           /\ queue' = [queue EXCEPT ![q].events = @ - 1,
                                     ![q].last = IF @ = ev THEN None ELSE @]
           /\ EventDeref(ev, [event[ev] EXCEPT !.status = "COMPLETE"])
    /\ SetTop(e, [Top(e) EXCEPT !.pc = "execute"])
    /\ UNCHANGED <<users, sched, log>>

\* kupl_task_execute: the task is finished once event_func has returned
TaskExecute(e) ==
    /\ At(e, "execute")
    /\ task' = [task EXCEPT ![Top(e).ev].finished = TRUE]
    /\ SetTop(e, [Top(e) EXCEPT !.pc = "finish"])
    /\ UNCHANGED <<users, queue, event, sched, log>>

\* kupl_gnode_release_ready_safe: lock and unlock the node, then walk its edges
TaskFinish(e) ==
    /\ At(e, "finish")
    /\ ~task[Top(e).ev].locked
    /\ SetTop(e, [Top(e) EXCEPT !.pc = "release", !.todo = task[Top(e).ev].succ])
    /\ UNCHANGED <<users, queue, event, task, sched, log>>

\* mutant: the counter is compared with 0 instead of 1
GnodeReleaseReadyMutant(e) ==
    /\ At(e, "release")
    /\ IF Top(e).todo = <<>>
       THEN SetTop(e, [Top(e) EXCEPT !.pc = "add"]) /\ UNCHANGED task
       ELSE LET s == Head(Top(e).todo)
            IN  /\ task' = [task EXCEPT ![s].nPred = @ - 1]
                /\ SetTop(e, [Top(e) EXCEPT !.todo = Tail(@),
                                  !.ready = IF task[s].nPred = 0 THEN Append(@, s) ELSE @])
    /\ UNCHANGED <<users, queue, event, sched, log>>

\* gnode_release_ready: one fetch_sub per successor
GnodeReleaseReady(e) ==
    /\ At(e, "release")
    /\ IF Top(e).todo = <<>>
       THEN SetTop(e, [Top(e) EXCEPT !.pc = "add"]) /\ UNCHANGED task
       ELSE LET s == Head(Top(e).todo)
            IN  /\ task' = [task EXCEPT ![s].nPred = @ - 1]
                /\ SetTop(e, [Top(e) EXCEPT !.todo = Tail(@),
                                  !.ready = IF task[s].nPred = 1 THEN Append(@, s) ELSE @])
    /\ UNCHANGED <<users, queue, event, sched, log>>

\* kupl_task_finish hands each ready task to the scheduler
TaskFinishAdd(e) ==
    /\ At(e, "add") /\ Top(e).ready # <<>>
    /\ SchedAddTb(e, [Top(e) EXCEPT !.ready = Tail(@)], Head(Top(e).ready))
    /\ UNCHANGED <<users, queue, event, task>>

\* the end of kupl_task_finish: uncount the task, drop the reference of the run
TaskFinishDeref(e) ==
    /\ At(e, "add") /\ Top(e).ready = <<>>
    /\ count' = count - 1
    /\ task' = [task EXCEPT ![Top(e).ev] = Deref(@)]
    /\ stack' = [stack EXCEPT ![e] = SubSeq(@, 1, Len(@) - 1)]
    /\ UNCHANGED <<users, queue, event, ready, schedFull, log>>

-----------------------------------------------------------------------------
(* kupl_enqueue_event and kupl_event_submit                                *)

Item(e, q, ev) == [q |-> q, ev |-> ev, by |-> e, at |-> ip[e], begun |-> 0, ended |-> 0]

\* a predecessor, unless it is nullptr
IfAny(p) == IF p = None THEN <<>> ELSE <<p>>

\* take the queue's lock, count the event, mark it submitted; the queue holds a
\* reference of its own unless it takes over that of a kernel's creator
EnqueueEvent(e) ==
    /\ At(e, "enqueue")
    /\ LET ev == Top(e).ev
           q == Top(e).q
           x == event[ev]
       IN  /\ queue[q].lock = None
           /\ queue' = [queue EXCEPT ![q].lock = e, ![q].events = @ + 1]
           /\ event' = [event EXCEPT ![ev].status = "SUBMITTED",
                                     ![ev].ref = IF x.type = "KERNEL" THEN @ ELSE @ + 1,
                                     ![ev].item = Len(log) + 1]
           /\ log' = Append(log, Item(e, q, ev))
           /\ SetTop(e, [Top(e) EXCEPT !.pc = "preds", !.n = 0,
                 !.todo = IfAny(queue[q].last) \o IfAny(IF x.type = "WAIT" THEN x.wait ELSE None)])
    /\ UNCHANGED <<users, task, sched>>

\* kupl_gnode_precede: lock the predecessor unless it is finished.  The unlocked
\* test before the lock answers the same question and is folded into this one.
GnodePrecedeLock(e) ==
    /\ At(e, "preds") /\ Top(e).todo # <<>>
    /\ LET p == Head(Top(e).todo)
       IN  \/ /\ task[p].finished
              /\ SetTop(e, [Top(e) EXCEPT !.todo = Tail(@)])
              /\ UNCHANGED task
           \/ /\ ~task[p].finished /\ ~task[p].locked
              /\ task' = [task EXCEPT ![p].locked = TRUE]
              /\ SetTop(e, [Top(e) EXCEPT !.pc = "insert"])
    /\ UNCHANGED <<users, queue, event, sched, log>>

\* insert the edge and unlock
GnodePrecedeInsert(e) ==
    /\ At(e, "insert")
    /\ task' = [task EXCEPT ![Head(Top(e).todo)].succ = <<Top(e).ev>> \o @,
                            ![Head(Top(e).todo)].locked = FALSE]
    /\ SetTop(e, [Top(e) EXCEPT !.pc = "count"])
    /\ UNCHANGED <<users, queue, event, sched, log>>

\* count the edge at the successor, after the predecessor's lock is gone
GnodePrecedeCount(e) ==
    /\ At(e, "count")
    /\ task' = [task EXCEPT ![Top(e).ev].nPred = @ + 1]
    /\ SetTop(e, [Top(e) EXCEPT !.pc = "preds", !.todo = Tail(@), !.n = @ + 1])
    /\ UNCHANGED <<users, queue, event, sched, log>>

\* an event with no unfinished predecessor goes to the scheduler, still under the
\* queue's lock
EventSubmit(e) ==
    /\ At(e, "preds") /\ Top(e).todo = <<>>
    /\ LET f == [Top(e) EXCEPT !.pc = "unlock"]
       IN  IF Top(e).n = 0
           THEN SchedAddTb(e, f, Top(e).ev)
           ELSE SetTop(e, f) /\ UNCHANGED <<sched, log>>
    /\ UNCHANGED <<users, queue, event, task>>

\* the new event becomes the last one and the lock is released;
\* kupl_queue_wait_event goes on to wait for it
EnqueueUnlock(e) ==
    /\ At(e, "unlock")
    /\ queue' = [queue EXCEPT ![Top(e).q].last = Top(e).ev, ![Top(e).q].lock = None]
    /\ IF Call(e).op = "queue_wait_event"
       THEN SetTop(e, [User EXCEPT !.pc = "twait", !.ev = Top(e).ev]) /\ UNCHANGED users
       ELSE SetTop(e, User) /\ Return(e)
    /\ UNCHANGED <<event, task, sched, log>>

-----------------------------------------------------------------------------
(* The calls that submit                                                   *)

Enqueue(e, q, ev) == SetTop(e, [User EXCEPT !.pc = "enqueue", !.q = q, !.ev = ev])

\* create and initialise a kernel event, then enqueue it
SubmitKernel(e) ==
    /\ event' = [event EXCEPT ![Call(e).ev] = InitEvent(NewEvent, "KERNEL", Call(e).q, None)]
    /\ task' = [task EXCEPT ![Call(e).ev] = InitTask(NewTask)]
    /\ Enqueue(e, Call(e).q, Call(e).ev)
    /\ UNCHANGED <<users, queue, sched, log>>

QueueSubmit(e) == AtCall(e, "submit") /\ ~queue[Call(e).q].sync /\ SubmitKernel(e)

\* both kupl::queue_submit pay no attention to queue->sync
QueueSubmitLambda(e) == AtCall(e, "submit_lambda") /\ SubmitKernel(e)

\* a synchronous queue runs the function in the caller
QueueSubmitSync(e) ==
    /\ AtCall(e, "submit") /\ queue[Call(e).q].sync
    /\ log' = Append(log, [Item(e, Call(e).q, Call(e).ev) EXCEPT !.begun = 1, !.ended = 1])
    /\ Return(e)
    /\ UNCHANGED <<stack, queue, event, task, sched>>

\* kupl_event_record: an event that is still submitted is refused
EventRecord(e) ==
    /\ AtCall(e, "event_record") /\ event[Call(e).ev].status # "SUBMITTED"
    /\ event' = [event EXCEPT ![Call(e).ev] = InitEvent(@, "RECORD", Call(e).q, None)]
    /\ task' = [task EXCEPT ![Call(e).ev] = InitTask(@)]
    /\ Enqueue(e, Call(e).q, Call(e).ev)
    /\ UNCHANGED <<users, queue, sched, log>>

\* kupl_queue_wait_event: an event of its own, behind the queue's last event and
\* the one to wait for, then wait for its task
QueueWaitEvent(e) ==
    /\ AtCall(e, "queue_wait_event") /\ event[Call(e).wait].status # "CREATED"
    /\ event' = [event EXCEPT ![Call(e).ev] = InitEvent(NewEvent, "WAIT", Call(e).q, Call(e).wait)]
    /\ task' = [task EXCEPT ![Call(e).ev] = InitTask(NewTask)]
    /\ Enqueue(e, Call(e).q, Call(e).ev)
    /\ UNCHANGED <<users, queue, sched, log>>

\* KUPL_ERROR: a record of a submitted event, a wait for one never recorded
Refused(e) ==
    /\ \/ AtCall(e, "event_record") /\ event[Call(e).ev].status = "SUBMITTED"
       \/ AtCall(e, "queue_wait_event") /\ event[Call(e).wait].status = "CREATED"
       \/ AtCall(e, "event_wait") /\ event[Call(e).ev].status = "CREATED"
    /\ Return(e)
    /\ UNCHANGED <<stack, queue, event, task, sched, log>>

-----------------------------------------------------------------------------
(* The calls that create, destroy and wait                                 *)

QueueCreate(e) ==
    /\ AtCall(e, "queue_create")
    /\ queue' = [queue EXCEPT ![Call(e).q] = NewQueue]
    /\ Return(e)
    /\ UNCHANGED <<stack, event, task, sched, log>>

\* kupl_queue_acquire: the queue of an index is created once
QueueAcquire(e) ==
    /\ AtCall(e, "queue_acquire")
    /\ LET q == Call(e).q
       IN  queue' = IF queue[q].acquired THEN queue
                    ELSE [queue EXCEPT ![q] = [NewQueue EXCEPT !.acquired = TRUE,
                                                               !.sync = (q = SyncQueue)]]
    /\ Return(e)
    /\ UNCHANGED <<stack, event, task, sched, log>>

EventCreate(e) ==
    /\ AtCall(e, "event_create")
    /\ event' = [event EXCEPT ![Call(e).ev] = NewEvent]
    /\ task' = [task EXCEPT ![Call(e).ev] = NewTask]
    /\ Return(e)
    /\ UNCHANGED <<stack, queue, sched, log>>

EventDestroy(e) ==
    /\ AtCall(e, "event_destroy")
    /\ EventDeref(Call(e).ev, event[Call(e).ev])
    /\ Return(e)
    /\ UNCHANGED <<stack, queue, sched, log>>

\* a user loop on kupl_event_query that ends when it reads COMPLETE
EventQuery(e) ==
    /\ AtCall(e, "event_query") /\ event[Call(e).ev].status = "COMPLETE"
    /\ Return(e)
    /\ UNCHANGED <<stack, queue, event, task, sched, log>>

EventWait(e) ==
    /\ AtCall(e, "event_wait") /\ event[Call(e).ev].status # "CREATED"
    /\ SetTop(e, [User EXCEPT !.pc = "twait", !.ev = Call(e).ev])
    /\ UNCHANGED <<users, queue, event, task, sched, log>>

Acquired == {q \in Queues : queue[q].acquired}

\* kupl_queue_wait, kupl_queue_wait_all (in any order) and kupl_queue_destroy,
\* which first takes the queue out of the table: the queues to wait for
QueueWaitBegin(e) ==
    /\ \/ /\ AtCall(e, "queue_wait")
          /\ SetTop(e, [User EXCEPT !.pc = "qwait", !.qs = {Call(e).q}])
          /\ UNCHANGED queue
       \/ /\ AtCall(e, "queue_wait_all")
          /\ SetTop(e, [User EXCEPT !.pc = "qwait", !.qs = Acquired])
          /\ UNCHANGED queue
       \/ /\ AtCall(e, "queue_destroy")
          /\ SetTop(e, [User EXCEPT !.pc = "qwait", !.qs = {Call(e).q}])
          /\ queue' = [queue EXCEPT ![Call(e).q].acquired = FALSE]
    /\ UNCHANGED <<users, event, task, sched, log>>

\* mutant: one event is taken for none
QueueWaitFewMutant(e, q) ==
    /\ At(e, "qwait") /\ q \in Top(e).qs
    /\ queue[q].lock = None
    /\ LET f == [Top(e) EXCEPT !.qs = @ \ {q}]
           last == queue[q].last
       IN  IF queue[q].events > 1 /\ last # None
           THEN /\ task' = [task EXCEPT ![last].ref = @ + 1]
                /\ SetTop(e, [f EXCEPT !.pc = "twait", !.ev = last])
           ELSE SetTop(e, f) /\ UNCHANGED task
    /\ UNCHANGED <<users, queue, event, sched, log>>

\* mutant: the task is waited for without a reference
QueueWaitNoRefMutant(e, q) ==
    /\ At(e, "qwait") /\ q \in Top(e).qs
    /\ queue[q].lock = None
    /\ LET f == [Top(e) EXCEPT !.qs = @ \ {q}]
           last == queue[q].last
       IN  IF queue[q].events # 0 /\ last # None
           THEN /\ UNCHANGED task
                /\ SetTop(e, [f EXCEPT !.pc = "twait", !.ev = last])
           ELSE SetTop(e, f) /\ UNCHANGED task
    /\ UNCHANGED <<users, queue, event, sched, log>>

\* kupl_queue_wait: under the lock, take a reference to the task of the last event
QueueWait(e, q) ==
    /\ At(e, "qwait") /\ q \in Top(e).qs
    /\ queue[q].lock = None
    /\ LET f == [Top(e) EXCEPT !.qs = @ \ {q}]
           last == queue[q].last
       IN  IF queue[q].events # 0 /\ last # None
           THEN /\ task' = [task EXCEPT ![last].ref = @ + 1]
                /\ SetTop(e, [f EXCEPT !.pc = "twait", !.ev = last])
           ELSE SetTop(e, f) /\ UNCHANGED task
    /\ UNCHANGED <<users, queue, event, sched, log>>

\* kupl_task_wait returns when it finds the task finished; each caller drops what
\* it held
TaskWait(e) ==
    /\ At(e, "twait")
    /\ LET ev == Top(e).ev
       IN  /\ task[ev].finished
           /\ \/ /\ Call(e).op = "event_wait"
                 /\ SetTop(e, User) /\ Return(e)
                 /\ UNCHANGED <<event, task>>
              \/ /\ Call(e).op = "queue_wait_event"
                 /\ EventDeref(ev, event[ev])
                 /\ SetTop(e, User) /\ Return(e)
              \/ /\ Call(e).op \in {"queue_wait", "queue_wait_all", "queue_destroy"}
                 /\ task' = [task EXCEPT ![ev] = Deref(@)]
                 /\ SetTop(e, [Top(e) EXCEPT !.pc = "qwait", !.ev = None])
                 /\ UNCHANGED <<users, event>>
    /\ UNCHANGED <<queue, sched, log>>

\* no queue is left to wait for; kupl_queue_destroy frees its queue
QueueWaitEnd(e) ==
    /\ At(e, "qwait") /\ Top(e).qs = {}
    /\ queue' = IF Call(e).op = "queue_destroy"
                THEN [queue EXCEPT ![Call(e).q].life = "freed"] ELSE queue
    /\ SetTop(e, User)
    /\ Return(e)
    /\ UNCHANGED <<event, task, sched, log>>

\* kupl_global_graph_destroy at exit: wait until the global graph counts no task
GraphWait(e) ==
    /\ AtCall(e, "graph_wait") /\ count = 0
    /\ Return(e)
    /\ UNCHANGED <<stack, queue, event, task, sched, log>>

-----------------------------------------------------------------------------
Init ==
    /\ scenario \in Scenarios
    /\ ip = [e \in Executors |-> 1]
    /\ stack = [e \in Executors |-> <<User>>]
    /\ queue = [q \in Queues |-> IF q \in scenario.open THEN NewQueue ELSE NoQueue]
    /\ event = [ev \in Events |-> NoEvent]
    /\ task = [ev \in Events |-> NoTask]
    /\ ready = [ev \in Events |-> 0]
    /\ schedFull = [e \in Executors |-> FALSE]
    /\ count = 0
    /\ log = <<>>

CallStep(e) ==
    \/ QueueSubmit(e) \/ QueueSubmitLambda(e) \/ QueueSubmitSync(e) \/ EventRecord(e)
    \/ QueueWaitEvent(e)
    \/ Refused(e) \/ QueueCreate(e) \/ QueueAcquire(e) \/ EventCreate(e) \/ EventDestroy(e)
    \/ EventQuery(e) \/ EventWait(e) \/ QueueWaitBegin(e) \/ QueueWaitEnd(e)
    \/ \E q \in Queues : QueueWait(e, q)
    \/ TaskWait(e) \/ GraphWait(e)

EnqueueStep(e) ==
    \/ EnqueueEvent(e) \/ GnodePrecedeLock(e) \/ GnodePrecedeInsert(e)
    \/ GnodePrecedeCount(e) \/ EventSubmit(e) \/ EnqueueUnlock(e)

RunStep(e) ==
    \/ \E ev \in Events : SchedExecuteTb(e, ev)
    \/ EventFunc(e) \/ DequeueEvent(e) \/ TaskExecute(e) \/ TaskFinish(e)
    \/ GnodeReleaseReady(e) \/ TaskFinishAdd(e) \/ TaskFinishDeref(e)

Step(e) == CallStep(e) \/ EnqueueStep(e) \/ RunStep(e)

Next == \E e \in Executors : Step(e)

\* Threads keep running; user functions return.
Fairness == \A e \in Executors : WF_vars(Step(e))

Spec == Init /\ [][Next]_vars
FairSpec == Spec /\ Fairness

-----------------------------------------------------------------------------

Items == DOMAIN log
Frames == UNION {Elems(stack[e]) : e \in Executors}
Runs == {f \in Frames : f.pc \in {"func", "dequeue", "execute", "finish", "release", "add"}}

\* The promise of a queue: each item runs once, after every item submitted to the
\* queue before it has returned, whoever submitted them (kupl_event_submit chains
\* an event behind last_event; kupl_dequeue_event forgets only its own event).
RunsInOrder ==
    \A j \in Items : /\ log[j].begun <= 1
                     /\ log[j].begun = 1 =>
                           \A i \in 1 .. (j - 1) : log[i].q = log[j].q => log[i].ended = 1

\* what the call at index i of e has waited for when it returns: everything e
\* submitted to the queues, the last record of the event
Awaited(e, i) ==
    LET c == Calls(e)[i]
        mine == {j \in Items : log[j].by = e /\ log[j].at < i}
    IN  CASE c.op \in {"queue_wait", "queue_destroy"} -> {j \in mine : log[j].q = c.q}
          [] c.op = "queue_wait_all" ->
                {j \in mine : \E k \in 1 .. i : /\ Calls(e)[k].op = "queue_acquire"
                                                /\ Calls(e)[k].q = log[j].q}
          [] c.op = "graph_wait" -> mine
          [] c.op \in {"event_wait", "event_query"} -> {j \in mine : log[j].ev = c.ev}
          [] c.op = "queue_wait_event" -> {j \in mine : log[j].ev = c.wait \/ log[j].q = c.q}
          [] OTHER -> {}

\* A wait that has returned has really waited: for a queue, all queues, an event
\* (waited for or polled), a queue and an event, or the global graph at exit.
WaitMeansDone ==
    \A e \in Executors : \A i \in 1 .. (ip[e] - 1) :
        \A j \in Awaited(e, i) : log[j].ended = 1

\* No memory is reached after it is freed: an event through a queue or a run that
\* still has to dequeue it, a task through the scheduler, a run, a wait, an edge
\* or an enqueue in progress, a queue through an item or a call.  No event is
\* recorded again, and its task started over, while a run of it is unfinished.
NoUseAfterFree ==
    /\ \A q \in Queues : queue[q].last # None => event[queue[q].last].life = "live"
    /\ \A f \in Runs : /\ f.pc \in {"func", "dequeue"} => /\ event[f.ev].life = "live"
                                                          /\ queue[event[f.ev].q].life = "live"
                       /\ f.use = task[f.ev].use
    /\ \A f \in Frames : /\ f.ev # None => task[f.ev].life = "live"
                         /\ f.q # None => queue[f.q].life = "live"
                         /\ \A p \in Elems(f.todo) \cup Elems(f.ready) : task[p].life = "live"
    /\ \A ev \in Events : ready[ev] > 0 => task[ev].life = "live" /\ event[ev].life = "live"

Over == \A e \in Executors : Len(stack[e]) = 1 /\ ip[e] > Len(Calls(e))

\* Every call returns and every item runs: nothing waits for ever.
CallsReturn == <>(Over /\ \A i \in Items : log[i].ended = 1)
=============================================================================
