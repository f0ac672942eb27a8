-------------------------- MODULE QueueInvariant --------------------------
(***************************************************************************)
(* Why queues and events keep what they promise: the scenarios that keep   *)
(* to the rules of the API, where an item may be until it has run, what    *)
(* the counters count and what a wait in progress has behind it.  The      *)
(* proofs are in QueueEventProofs.                                         *)
(***************************************************************************)
EXTENDS QueueEvent

-----------------------------------------------------------------------------
(* Disciplined scenarios *)

Submits == {"submit", "submit_lambda", "event_record"}
Creates == {"queue_create", "queue_acquire"}

\* What the callers have to keep to, for call i of e and call j of f.  No queue
\* is made to wait for an event: that edge races with the event's own end.  An
\* event is enqueued once, after its creation, and not recorded again while a
\* worker may still be in kupl_task_finish.  A queue is used by the thread that
\* creates it, after the creation, or exists before.  Nothing is enqueued on the
\* synchronous queue before a function is run on it by its caller.
Agree(s, e, i, f, j) ==
    LET c == s.calls[e][i]
        d == s.calls[f][j]
    IN  /\ c.op # "queue_wait_event"
        /\ d.op \in Submits /\ c.op \in Submits /\ c.ev = d.ev => e = f /\ i = j
        /\ d.op \in Submits /\ c.op = "event_create" /\ c.ev = d.ev => e = f /\ i < j
        /\ d.op \in Submits /\ c.op \in Creates /\ c.q = d.q => e = f /\ i < j /\ d.q \notin s.open
        /\ d.op = "submit" /\ c.op \in Submits \ {"submit"} /\ d.q = SyncQueue /\ c.q = SyncQueue =>
              e = f /\ j < i

Disciplined(s) ==
    \A e, f \in Executors : \A i \in DOMAIN s.calls[e], j \in DOMAIN s.calls[f] : Agree(s, e, i, f, j)

-----------------------------------------------------------------------------
(* The inductive invariant: types *)

LockPcs == {"preds", "insert", "count", "unlock"}
EnqueuePcs == {"enqueue"} \cup LockPcs
UserPcs == {"call", "twait", "qwait"} \cup EnqueuePcs
RunPcs == {"func", "dequeue", "execute", "finish", "release", "add"}
Lives == {"none", "live", "freed"}

FrameSet == [pc : UserPcs \cup RunPcs, ev : Events \cup {None}, use : Int, q : Queues \cup {None},
             todo : Seq(Events), ready : Seq(Events), n : Nat, qs : SUBSET Queues]
QueueSet == [life : Lives, events : Int, last : Events \cup {None}, lock : Executors \cup {None},
             acquired : BOOLEAN, sync : BOOLEAN]
EventSet == [life : Lives, status : {"CREATED", "SUBMITTED", "COMPLETE"}, ref : Int,
             type : {"INIT", "KERNEL", "RECORD"}, q : Queues \cup {None},
             wait : Events \cup {None}, item : Nat]
TaskSet == [life : Lives, ref : Int, finished : BOOLEAN, nPred : Int, succ : Seq(Events),
            locked : BOOLEAN, use : Int]
ItemSet == [q : Queues, ev : Events, by : Executors, at : Nat, begun : Int, ended : Int]

\* kupl_queue_wait_event, whose events have a type of their own, is not called.
TypeOK ==
    /\ scenario \in Scenarios
    /\ ip \in [Executors -> Nat \ {0}]
    /\ stack \in [Executors -> Seq(FrameSet)]
    /\ queue \in [Queues -> QueueSet]
    /\ event \in [Events -> EventSet]
    /\ task \in [Events -> TaskSet]
    /\ ready \in [Events -> Nat]
    /\ schedFull \in [Executors -> BOOLEAN]
    /\ count \in Int
    /\ log \in Seq(ItemSet)

-----------------------------------------------------------------------------
(* The inductive invariant: frames and calls *)

Lone(s) == s = <<>> \/ \E x \in Events : s = <<x>>

\* A frame of kupl_task_invoke: the successors are fetched in finish, made ready
\* one by one in release, handed over in add; there is never more than one.
RunFrame(f) ==
    /\ f.pc \in RunPcs /\ f.ev \in Events
    /\ f.pc \notin {"release", "add"} => f.todo = <<>> /\ f.ready = <<>>
    /\ f.pc = "add" => f.todo = <<>>
    /\ Lone(f.todo) /\ Lone(f.ready) /\ (f.todo = <<>> \/ f.ready = <<>>)

\* The frame of user code: an enqueue has at most one predecessor to go behind.
UserFrame(f) ==
    /\ f.pc \in UserPcs
    /\ f.pc = "preds" => Lone(f.todo) /\ (f.n = 0 \/ f.todo = <<>>)
    /\ f.pc = "insert" => f.n = 0 /\ f.todo # <<>> /\ Lone(f.todo)
    /\ f.pc = "count" => f.todo # <<>> /\ Lone(f.todo)

UserShape == \A e \in Executors : stack[e] # <<>> /\ UserFrame(stack[e][1])
RunShape == \A e \in Executors : \A d \in DOMAIN stack[e] : d # 1 => RunFrame(stack[e][d])

Submitted(ev) == event[ev].item # 0

\* An enqueue in progress belongs to the call its executor is in.
InCall ==
    \A e \in Executors : stack[e][1].pc \in EnqueuePcs =>
        /\ ip[e] \in DOMAIN Calls(e) /\ Call(e).op \in Submits
        /\ stack[e][1].ev = Call(e).ev /\ stack[e][1].q = Call(e).q
        /\ event[Call(e).ev].q = Call(e).q
        /\ stack[e][1].pc \in LockPcs => Submitted(Call(e).ev)

\* The call that submitted item i has not returned.
Busy(i) == log[i].at = ip[log[i].by]

\* Every item comes from a call that was made.
Logged ==
    \A k \in Items : /\ log[k].at \in DOMAIN Calls(log[k].by) /\ log[k].at <= ip[log[k].by]
                     /\ Calls(log[k].by)[log[k].at].op \in Submits
                     /\ Calls(log[k].by)[log[k].at].q = log[k].q
                     /\ Calls(log[k].by)[log[k].at].ev = log[k].ev
                     /\ Busy(k) => stack[log[k].by][1].pc \in LockPcs

LoggedOnce == \A k, l \in Items : log[k].ev = log[l].ev => k = l

\* An enqueued event knows its item; an item that no event knows was run by its caller.
Numbered ==
    /\ \A ev \in Events : Submitted(ev) => /\ event[ev].item \in Items
                                           /\ log[event[ev].item].ev = ev
                                           /\ log[event[ev].item].q = event[ev].q
    /\ \A k \in Items : ~Submitted(log[k].ev) => log[k].begun = 1 /\ log[k].ended = 1

-----------------------------------------------------------------------------
(* The inductive invariant: locks and last events *)

\* The lock of a queue is held by the enqueue in progress.
Locks ==
    \A q \in Queues, e \in Executors :
        queue[q].lock = e <=> stack[e][1].pc \in LockPcs /\ stack[e][1].q = q

\* An item whose enqueue is in progress is the newest of its queue.
BusyNewest == \A i, k \in Items : Busy(i) /\ log[k].q = log[i].q => k <= i

\* last_event is the newest event of its queue whose enqueue is over; without a
\* last_event, all of them have run.
LastNewest ==
    \A q \in Queues :
        /\ queue[q].last = None => \A i \in Items : log[i].q = q => Busy(i) \/ log[i].ended = 1
        /\ queue[q].last # None =>
              /\ Submitted(queue[q].last) /\ event[queue[q].last].q = q
              /\ \A i \in Items : log[i].q = q => Busy(i) \/ i <= event[queue[q].last].item

\* A queue turns synchronous before anything is enqueued on it.
SyncRuns ==
    \A q \in Queues : queue[q].sync =>
        /\ q = SyncQueue
        /\ \A i \in Items : log[i].q = q /\ Submitted(log[i].ev) => Calls(log[i].by)[log[i].at].op # "submit"
        /\ \A e \in Executors : stack[e][1].pc \in EnqueuePcs /\ stack[e][1].q = q => Call(e).op # "submit"

-----------------------------------------------------------------------------
(* The inductive invariant: the chain of the items *)

\* Everything submitted to the queue of x before x has returned.
Cleared(x) == \A i \in Items : i < event[x].item /\ log[i].q = event[x].q => log[i].ended = 1

\* x comes right behind p in their queue.
Follows(x, p) ==
    /\ Submitted(p) /\ Submitted(x) /\ event[p].q = event[x].q
    /\ event[p].item < event[x].item
    /\ \A i \in Items : i < event[x].item /\ log[i].q = event[x].q => i <= event[p].item

NotBegun(x) == Submitted(x) /\ log[event[x].item].begun = 0

\* where the run of x may be: with the thread that enqueues it,
Enqueuing(e, x) == stack[e][1].pc \in {"preds", "insert"} /\ stack[e][1].n = 0 /\ stack[e][1].ev = x
\* in a frame,
InFrame(e, d, x) == d \in DOMAIN stack[e] /\ d # 1 /\ stack[e][d].ev = x
\* or among the successors of p: on its node until its run fetches them,
AtFinish(p) == \E e \in Executors : \E d \in DOMAIN stack[e] : InFrame(e, d, p) /\ stack[e][d].pc = "finish"
OnNode(p, x) == task[p].succ = <<x>> /\ (task[p].finished => AtFinish(p))
\* then in the frame of that run
Fetched(p, x) ==
    \E e \in Executors : \E d \in DOMAIN stack[e] :
        InFrame(e, d, p) /\ (stack[e][d].todo = <<x>> \/ stack[e][d].ready = <<x>>)
Chained(p, x) == OnNode(p, x) \/ Fetched(p, x)

Counts == \A i \in Items : /\ log[i].begun \in {0, 1} /\ log[i].ended \in {0, 1}
                           /\ log[i].ended = 1 => log[i].begun = 1

\* A finished task has run.
FinishedRan == \A p \in Events : task[p].finished => Submitted(p) /\ log[event[p].item].ended = 1

OneSuccessor == \A p \in Events : (task[p].finished => AtFinish(p)) => Lone(task[p].succ)

EnqueueOrder ==
    \A e \in Executors, x \in Events : Enqueuing(e, x) =>
        /\ NotBegun(x) /\ ready[x] = 0
        /\ stack[e][1].todo = <<>> => Cleared(x)
        /\ \A p \in Events : stack[e][1].todo = <<p>> => Follows(x, p)
        /\ \A p \in Events : ~Chained(p, x)

ChainOrder ==
    \A p, x \in Events : Chained(p, x) => NotBegun(x) /\ Follows(x, p) /\ ready[x] = 0

FetchedOrder ==
    \A e \in Executors : \A d \in DOMAIN stack[e] : \A x \in Events :
        d # 1 /\ stack[e][d].ready = <<x>> => Cleared(x)

ReadyOrder == \A x \in Events : ready[x] # 0 => ready[x] = 1 /\ NotBegun(x) /\ Cleared(x)

RunOrder ==
    \A e \in Executors, x \in Events : \A d \in DOMAIN stack[e] : InFrame(e, d, x) =>
        /\ Submitted(x) /\ Cleared(x)
        /\ log[event[x].item].begun = 1
        /\ log[event[x].item].ended = IF stack[e][d].pc = "func" THEN 0 ELSE 1
        /\ task[x].finished <=> stack[e][d].pc \in {"finish", "release", "add"}

OneRun ==
    \A e, f \in Executors : \A d \in DOMAIN stack[e] : \A g \in DOMAIN stack[f] :
        d # 1 /\ g # 1 /\ stack[e][d].ev = stack[f][g].ev => e = f /\ d = g

CallsInv ==
    /\ UserShape /\ InCall /\ Logged /\ LoggedOnce /\ Numbered
    /\ Locks /\ BusyNewest /\ LastNewest /\ SyncRuns

ChainInv ==
    /\ RunShape /\ Counts /\ FinishedRan /\ OneSuccessor /\ EnqueueOrder /\ ChainOrder /\ FetchedOrder /\ ReadyOrder
    /\ RunOrder /\ OneRun /\ RunsInOrder

Inv == Disciplined(scenario) /\ TypeOK /\ CallsInv /\ ChainInv

\* The scenario never changes; the invariant holds when it is disciplined.
IInv == scenario \in Scenarios /\ (Disciplined(scenario) => Inv)

-----------------------------------------------------------------------------
(* Scenarios *)

\* What the callers of the waits keep to, for call i of e and call j of f: an
\* acquired queue is not one that is created, and a queue that a thread made for
\* itself is destroyed by it, after the last submission.
WaitAgree(s, e, i, f, j) ==
    LET c == s.calls[e][i]
        d == s.calls[f][j]
    IN  /\ c.op = "queue_create" /\ d.op = "queue_acquire" => c.q # d.q
        /\ c.op = "queue_destroy" /\ d.op \in Submits /\ c.q = d.q /\ c.q \notin s.open => e = f /\ j < i

WaitDisciplined(s) ==
    /\ Disciplined(s)
    /\ \A e, f \in Executors : \A i \in DOMAIN s.calls[e], j \in DOMAIN s.calls[f] : WaitAgree(s, e, i, f, j)

-----------------------------------------------------------------------------
(* Places: where an item is until it is over *)

\* The status of an event is that of its item.
Status ==
    \A x \in Events : /\ Submitted(x) <=> event[x].status # "CREATED"
                      /\ event[x].status = "COMPLETE" => log[event[x].item].ended = 1

\* x is in its queue: enqueued and not yet dequeued.
AtDequeue(x) == \E e \in Executors : \E d \in DOMAIN stack[e] : InFrame(e, d, x) /\ stack[e][d].pc = "dequeue"
Held(x) == Submitted(x) /\ (log[event[x].item].ended = 0 \/ AtDequeue(x))

\* What an enqueue goes behind, and what it enqueues, stays in the queue as long
\* as it holds the lock; so does last_event, until it is forgotten.
LastHeld == \A q \in Queues, x \in Events : queue[q].last = x => Held(x)
EnqueueHeld ==
    \A e \in Executors, x \in Events : stack[e][1].pc \in LockPcs =>
        /\ stack[e][1].ev = x => Held(x)
        /\ stack[e][1].pc # "unlock" /\ stack[e][1].todo = <<x>> => Held(x) /\ event[x].q = stack[e][1].q

\* The edge to x is made and not yet counted.
Counting(x) == \E e \in Executors : stack[e][1].pc = "count" /\ stack[e][1].ev = x
Uncounted(x) == \E e \in Executors : \/ stack[e][1].pc \in {"enqueue", "count"} /\ stack[e][1].ev = x
                                     \/ Enqueuing(e, x)
ToRelease(p, x) ==
    \E e \in Executors : \E d \in DOMAIN stack[e] : InFrame(e, d, p) /\ stack[e][d].todo = <<x>>

\* The edge of an enqueue between insert and count is the one on its node.
CountEdge ==
    \A e \in Executors, x \in Events : stack[e][1].pc = "count" /\ stack[e][1].ev = x =>
        \E p \in Events : stack[e][1].todo = <<p>> /\ OnNode(p, x)

\* The counter of an item is the number of its edges.
Predecessors ==
    /\ \A x \in Events : Uncounted(x) => task[x].nPred = 0
    /\ \A p, x \in Events : (OnNode(p, x) \/ ToRelease(p, x)) /\ ~Counting(x) => task[x].nPred = 1

\* An item that has not begun is with its enqueuer, behind another item, or in
\* the scheduler; one that has begun and is not finished is in a frame.
Placed == \A x \in Events : NotBegun(x) => \/ ready[x] # 0
                                           \/ \E e \in Executors : Enqueuing(e, x)
                                           \/ \E p \in Events : Chained(p, x)
Running(x) == \E e \in Executors : \E d \in DOMAIN stack[e] : InFrame(e, d, x)
InRun == \A x \in Events : Submitted(x) /\ log[event[x].item].begun = 1 /\ ~task[x].finished => Running(x)

\* num_events of a queue, count of the global graph
InQueue(q) == {x \in Events : event[x].q = q /\ Held(x)}
QueueCounts == \A q \in Queues : IsFiniteSet(InQueue(q)) /\ queue[q].events = Cardinality(InQueue(q))
Active == {x \in Events : ready[x] # 0 \/ Running(x)}
GraphCounts == IsFiniteSet(Active) /\ count = Cardinality(Active)

PlacesInv == /\ Status /\ LastHeld /\ EnqueueHeld /\ CountEdge /\ Predecessors
             /\ Placed /\ InRun /\ QueueCounts /\ GraphCounts

-----------------------------------------------------------------------------
(* Waits *)

QueueWaits == {"queue_wait", "queue_wait_all", "queue_destroy"}

\* A wait in progress: an item it waits for has run, is in a queue still to be
\* waited for, or is not behind the event now waited for.
WaitPcs == {"twait", "qwait"}
WaitingOn(e) ==
    /\ stack[e][1].pc \in WaitPcs => ip[e] \in DOMAIN Calls(e)
    /\ stack[e][1].pc = "qwait" => Call(e).op \in QueueWaits
    /\ stack[e][1].pc = "twait" =>
          /\ stack[e][1].ev \in Events /\ Submitted(stack[e][1].ev)
          /\ Call(e).op \in QueueWaits \/ (Call(e).op = "event_wait" /\ stack[e][1].ev = Call(e).ev)
    /\ stack[e][1].pc \in WaitPcs /\ Call(e).op \in QueueWaits =>
          \A j \in Awaited(e, ip[e]) :
              \/ log[j].ended = 1 \/ log[j].q \in stack[e][1].qs
              \/ /\ stack[e][1].pc = "twait"
                 /\ event[stack[e][1].ev].q = log[j].q /\ j <= event[stack[e][1].ev].item
Waiting == \A e \in Executors : WaitingOn(e)

\* e has acquired q.
HasAcquired(e, q) ==
    \E a \in DOMAIN Calls(e) : a < ip[e] /\ Calls(e)[a].op = "queue_acquire" /\ Calls(e)[a].q = q
\* e is about to submit to q.
WillSubmit(e, q) ==
    \E d \in DOMAIN Calls(e) : ip[e] <= d /\ Calls(e)[d].op \in Submits /\ Calls(e)[d].q = q
\* e destroys q.
Destroying(e, q) ==
    stack[e][1].pc \in WaitPcs /\ Call(e).op = "queue_destroy" /\ Call(e).q = q

\* A queue stays in the table while items are submitted to it, and until they
\* have run unless its owner destroys it.
TableOf(e, q) ==
    HasAcquired(e, q) =>
        /\ WillSubmit(e, q) => queue[q].acquired
        /\ \A j \in Items : log[j].by = e /\ log[j].q = q =>
              queue[q].acquired \/ log[j].ended = 1 \/ Destroying(e, q)
InTable == \A e \in Executors, q \in Queues : TableOf(e, q)

WaitsInv == Waiting /\ InTable /\ WaitMeansDone
=============================================================================
