# KUPL in TLA+

KUPL is a user-level parallel library for Kunpeng processors: executors (pinned threads)
that run tasks, dependency graphs of tasks, in-order queues with events, parallel loops over
groups of executors, shared-memory collectives between processes, a memory pool and
header-only matrix kernels. This directory models the parts of it where threads meet, checks
them with TLC on small instances and proves what matters most with TLAPS for all instances.
Every definition is taken from the C++ code under `src/src/`; `PROJECT.json` maps each one to
its lines.

## 1. Inventory

| Component | Code | State | Operations | Talks to |
|---|---|---|---|---|
| Dependency graph | `mt/kupl_dag.*` | hash address -> last writer and readers; per task: successors, predecessor counter, lock | precede, process_dep, release_ready, add_task, destroy | tasks by reference counts, executors by the counters |
| Task | `mt/kupl_task.*`, `kupl_taskbase.h` | state bits, reference count, counter of its graph | init, execute, finish, invoke, wait | dag, scheduler |
| Dynamic graph | `mt/kupl_graph.*` | count of tasks handed to the scheduler | add_task, add_sgraph_task, taskloop, wait, test, destroy | dag, scheduler |
| Static graph | `mt/kupl_static_graph.*` | nodes, source nodes, count | add_node, add_dep, body, destroy | a task of a dynamic graph runs it |
| Core | `core/kupl_core.*` | which modules are up | init, fini | every module |
| Scheduler | `mt/scheduler/kupl_sched.*` | thread-local `sched_full`, plugin instance | add_tb, execute_tb, expand, cleanup | plugins, executors |
| Plugins | `mt/scheduler/plugin/*` | queues per executor or place, priority queue | add_tb, get_tb, expand | queue |
| Scheduler queue | `queue_t`, `tools/struct/kupl_vector.*` | ring, head, tail, two locks | queue_add_tb, queue_get_tb | - |
| Barrier | `mt/barrier/*` | enter and leave flags | wait, fork, join | executor groups, parallel for |
| Ticket array lock | `utils/lock/ticket_array_lock` | head, next, slots | lock, trylock, unlock | executor descriptors |
| Queues, events | `mt/kupl_queue.cpp`, `kupl_event.cpp` | list of items, queue table, event state | enqueue, dequeue, record, wait | dag edges, scheduler |
| Parallel for | `mt/kupl_parallel_for.cpp`, `kupl_check.cpp` | `g_pf` per level and executor, flags | partition, fork, join, reduce | flag barrier, groups, scheduler |
| Executors, groups | `executor/*` | stop flags, global ids, group members | start, stop, expand, group create, borrow, return | scheduler, memory pool |
| Shared memory | `memory/shm/*` | windows, flags and buffers between processes | comm, window and request life, fences, bcast, allreduce, alltoall | processes, transports |
| Transports | `memory/shm/posix`, `xpmem`, `sls` | segments, attached regions, caches | alloc, attach, free | the operating system |
| Memory pool | `memory/mpool/*` | chunks with boundary tags, free lists per executor, pin map | alloc, free, remote free, mlock | everything that allocates tasks |
| Memory, hbw, memcpy, places, hardware, config, profile, mma | rest | - | wrappers, parsing, arithmetic | - |

What is hard in this code: edges are inserted while the predecessor runs (`kupl_gnode_precede`
against `kupl_task_finish`); a full queue turns an add into a nested execution; a wait polls a
counter that must never touch zero too early; static nodes reset themselves between rounds;
slots of the ring and of the lock are reused; barrier, fence and loop flags of two rounds
overlap; loops nest in loops; buffers are freed by executors that do not own them; calls of
several steps fail in the middle; almost all atomics are relaxed on a weakly ordered machine. `PROJECT.json` lists these as hazards, each
with its line.

What makes the parts correct: tasks run once, in the order their dependencies ask for, and all
of them before a wait returns; references are counted exactly; a queue loses, repeats and
overtakes nothing; nobody leaves a barrier or a fence before all are there; a lock has one
owner and serves in order; a loop runs each iteration once; a collective delivers the data of
its own call; memory handed out is nobody else's; a call that fails leaves nothing behind.

## 2. Modules

| Module | Models | Kind |
|---|---|---|
| `TaskGraph` | dag, task, dynamic and static graph, scheduler entry points, polling executors | detailed |
| `TaskPrograms`, `MCTaskGraph`, `MCTaskGraphFindings` | the programs that are run | instances |
| `QueueEvent`, `QueuePrograms`, `MCQueueEvent` | queues and events and the tasks they are made of | detailed, instances |
| `TaskFifo` | what a scheduler queue promises | abstract |
| `SchedQueue`, `MCSchedQueue` | the ring and its locks, one memory access per step | detailed, implements `TaskFifo` |
| `SchedPlugins`, `MCSchedPlugins` | the plugins and the scheduler's entry points over queues that are `TaskFifo`s | composition |
| `LoopRanges` | checks and cut of a range | operators |
| `ParallelFor` | parallel loops, reductions, the flag barrier, the sspe slots | detailed, on `LoopRanges` |
| `TaskLoop`, `MCParallelFor` | task loops of a graph beside parallel loops | composition, instance |
| `DistBarrier`, `MCDistBarrier` | the distributed barrier | detailed |
| `TicketArrayLock`, `MCTicketArrayLock` | the lock | detailed |
| `ShmFence` | the fences as sequences of accesses | operators and actions |
| `ShmColl`, `MCShmColl` | the collectives, processes that execute accesses | composition with `ShmFence` |
| `ShmWin`, `MCShmWin` | communicators, windows, requests over the three transports | detailed |
| `Mpool`, `MCMpool` | the memory pool | detailed |
| `ExecutorGroup` | what the group calls make of groups | operators |
| `Executors`, `MCExecutors` | init and fini, the executors' threads, expansion, groups | composition with `ExecutorGroup` |
| `SchedQueueProofs`, `DistBarrierProofs`, `TicketArrayLockProofs` | invariants and refinement | proofs |
| `SchedPluginsProofs` | invariants of the plugins | proofs |
| `QueueEventProofs` | the order a queue keeps; no item is lost, counters are exact, waits have waited | proofs, on `QueueInvariant` |
| `QueueInvariant` | the conditions on scenarios and the invariants of queues, events and waits | definitions |
| `ExecutorsProofs` | groups stay well formed, a failed init unwinds, executors of foreign threads are served | proofs |
| `TaskGraphProofs` | the order a dynamic graph keeps, its reference counts | proofs |
| `TaskWaitProofs` | what the graph counts, what a wait for it has waited for | proofs, on `TaskGraphProofs` |

Definitions whose name ends in `Mutant` are plausible bugs of the definition they precede;
substituting one must break the property `PROJECT.json` names with it.

### TaskGraph

Master makes the API calls of a program (`prog`, `ip`); the executors of `team` poll. Every
executor has a call stack, because `kupl_sched_add_tb` runs a task on the spot when the queue
is full (`schedFull`, per thread) or the task is immediate, and the body of a static graph runs
other tasks while it waits. A frame's `pc` follows a task through `kupl_task_invoke`: `func`
(user function) - `finish` - `release` (one fetch_sub per successor) - `add` (ready successors
to the scheduler) - `deref`. What Master does to shared tasks inside `kupl_dag_add_task` is a
list of small operations (`call.ops`): `ref`, `deref` and `precede`, the last one in three
steps (lock and test, insert and unlock, count) as in the code. `task[t]` holds the fields that
matter: reference count, finished flag, predecessor counter, hard predecessors, successors,
lock. `begun` and `ended` are history. The plugin is a bounded bag here: any queued task may be
taken, which covers every plugin's choice.

Left out: allocation failures, names and priorities of tasks, traces; dependency lists that
repeat an address with two types (`NoMergedDeps`): the code merges them but keeps the length,
so it reads an uninitialised tail. Counters are `uint32_t`; `UintMod` stands for 2^32 and is
2^30 in the runs because TLC's integers have 32 bits, so that the wrap below zero, which the
code relies on nowhere and meets in `lost_task`, is still a wrap.

### QueueEvent

Every executor has a program of API calls (`scenario.calls`, `ip`) in the base frame of its call
stack; inside a wait, and a worker after its program, it takes tasks and runs them in frames on
top. An event and its task share a name; `queue`, `event` and `task` hold the fields of the
structures that matter. Enqueueing goes `enqueue` (lock, count, mark submitted) - `preds`, `insert`,
`count` (the edges of `kupl_gnode_precede`) - `unlock`; a run goes `func` - `dequeue` (under the
queue's lock) - `execute` (FINISHED) - `finish` - `release` - `add`. `log` is history: the items in
the order their enqueuers got the lock, and how often each began and ended. `task.use` counts
how often an event was recorded, so that a run can tell whether its task was started over.
`n_predecessors` is an integer: below zero it behaves like the wrapped `uint32_t`. The loops of
`kupl_task_wait` test and take in one step.

Left out: the SDMA engine (`req_set` and `q_set` are empty without it), which executor an item
is bound to, priorities, failed allocations.

### SchedQueue and TaskFifo

Each access to `head`, `tail` and a slot is a step. The getter's read of the slot may come
after it has bumped `head` (`GetPopEarly`, `GetFrontLate`): relaxed accesses allow it, and the
spare slot makes it harmless. Reading the slot before `tail` is compared is allowed too by
AArch64 and is not harmless (section 5); it is left out, so what the run and the theorems say
holds on machines, or with code, that keep those two loads in order.

### SchedPlugins

A queue is the FIFO that `SchedQueue` implements: a push or a pop is a step, and everything a
plugin does with several queues is a list of them. `adding[e]` is the queues an add has still to
try, `search[e]` the queues a get has still to look at (own queue, place queues, stealing from
`lastSteal` on, the priority queue with its unlocked look at `tb_cnt`). A task runs in a frame of
its executor's stack and adds the tasks it makes ready; a refused add runs the task on the spot
and sets `full` for the thread. `Loop` in a program is a parallel loop that puts its ult in the
other executors' slots. The part of a place queue's executor set that parsing left
uninitialised is a nondeterministic choice. Not modelled: creation that fails half way, shared
objects as plugins, and the policies `sspe` and `hybrid` chosen by name (section 5).

### LoopRanges, ParallelFor, TaskLoop

`LoopRanges` holds `kupl_check_range` and the arithmetic of the policies: the cut of a static
loop, chunk numbers of a dynamic one, blocks of a task one; integers wrap at `IntMax` as the 64 bit
ones do, division rounds towards zero. In `ParallelFor` a thread is a stack of frames (a call, the
loop function, a task of the TASK policy, a user's task); `flags` is the flag barrier of each
level, `pf` the loop published by the master, `privateData` what an executor has accumulated for
a reduction. One step per publication, per flag raised or seen, per chunk taken, per task added.
`ran` counts iterations per call and is compared with the iterations of the range as the caller
gave it (`Asked`), which is the reference definition of the cut. Thread 0 sums a reduction one
executor's share at a time (`SumShare`), from the descriptor as it is then. `TaskLoop` adds
`kupl_graph_add_taskloop` and its lambda overload: blocks bound to executors, added by the caller
or, from `Threshold` blocks per executor on, by one dispatch task each, until `kupl_graph_wait`.

Conditions of the programs: the queue is never full; groups given to loops that run at the same
time are disjoint; task loops have positive steps that divide the block size; a caller keeps its
descriptor until the wait; a loop inside a loop is not a TASK loop; only executors call loops. What
the code does outside of them is in section 5. Inside them it fails in a few cases, which the programs
contain and the properties except by name (section 3).

### ShmFence, ShmColl

A rank is a process whose calls are sequences of instructions: a copy or a reduction between
windows, a bump of a counter, a spin on one, a toggle or a reset of a fence flag. The algorithms
of broadcast, allreduce and alltoall compute these sequences from the rank, the number of ranks
and the request, as the C functions do with their loops; the ranks then execute them in any
interleaving. Data are integers that tell calls, ranks and positions apart, and a reduction adds
them, so that a stale, missing or doubled contribution shows. `entered` and `left` are history.
The wait for all flags of the linear fence is one step: a flag that matches keeps its value
until its reader has left. That memory is sequentially consistent is an assumption of these models,
not something the code's fences give: a store fence precedes each bump of a counter, but the load
fence in a spin precedes the load it spins on, so that what is read after the spin is not ordered
by it, and the read of a counter at `kupl_bcast.cpp:198` is not ordered at all.

`ResultDelivered` is checked when a call returns. Three broadcasts (`topo`, `topo_opt`, `scatter`) do
not settle: a caller that starts one twice must fence in between, and does so in the programs
(`settle`), after the return; the data is checked again after that fence. One return is excepted,
`ReadStale`: a rank of `topo_opt` that read the root's counter before the root raised it may come back
without the data (section 5). Allreduce variants that no selector can choose are not modelled.

### ShmWin

Every rank makes the same calls; a call is a list of steps (take, keep, drop, link, gather), and a
step that acquires something carries the steps of the `goto` label the code jumps to when it
fails. `held` is the set of what a rank has (heap blocks, mappings, descriptors, attachments), so
that a label which frees too little is seen. Freeing what is not held (`broken`) is only looked at
as long as no step has failed: a label that frees too much is not seen. `oob` is the caller's allgather and
barrier: a rank leaves one when all have entered. Failures of the operating system are external
steps, at most `faults` of them.

### Mpool

Addresses are integers in units of a descriptor; the heap is one record, and the C functions are
operators from heap to heap. Normal memory: chunks cut into buffers with `total_size` (negative
when in use) and `prev_free`, size bins, split, merge with both neighbours, release of whole
chunks. Fast memory: blocks of equal small buffers in lists `self`, `sync` and `other`; a push on
another executor's list is a step for the load and the link, and one for the CAS, between which the
owner may take the whole list. Huge page windows, buffers mapped one by one, the pin map with a
device that refuses, init and fini. Reference counts have 16 bits. Not modelled: warm-up, NUMA
binding, statistics.

### Executors, ExecutorGroup

`kupl_init` and `kupl_fini` are lists of instructions that bring modules up and take them down; a
failing one is replaced by the list its error path takes down. Executors' threads poll between
two instructions, and call `kupl_init` again when they see the library down. A thread that the
library did not start gets an executor, a memory pool and a queue of the expanded scheduler in
`kupl_get_executor_num`, under `g_executor_lock`. `ExecutorGroup` holds the calls on groups as
operators; `Executors` makes them from one thread.

### DistBarrier

`wait`, `fork` and `join` are made of a gather half and a release half; threads alternate them,
starting with either (`lead`). Master's loops over the slaves are a step per slave. A thread's
stay between two calls is free. Nested task execution while waiting does not touch the flags
and is left out; the group has a fixed size.

### TicketArrayLock

One step per atomic access of `lock`, `trylock` and `unlock`; tickets are capped by `MaxTicket`
(they are `uint64_t` in the code).

## 3. Runs

| Run | Instance | Shows |
|---|---|---|
| `graph` | one executor: all combinations of dependency lists over two addresses for three tasks, one of them immediate, a queue of two, a `test` in the middle, a refused submission at the end, a static graph destroyed after the wait; three executors: two phased programs, a static diamond run twice, and programs whose edges are made while the predecessor finishes | dependencies respected, waits complete, references exact, no freed task reachable, every program ends |
| `queue_event` | up to three executors, three queues, five events, six scenarios: two threads submit to one queue, early destruction of an event, polling and waiting, a queue made to wait for an event, acquired and synchronous queues, one thread with room for one task that records an event again | items run once and in submission order, waits are complete, no freed event, task or queue is reached, every call returns |
| `sched_queue` | two executors, length 3 (four slots), six adds | the ring is a FIFO queue and returns no stale slot |
| `plugins` | one to three executors, queues of one to three tasks, each policy with and without priorities and places | a ready task is in one place, the highest priority comes first, every task is run |
| `parallel_for` | up to four executors, two levels, integers up to 31, dispatch from two blocks on; reductions called by thread 0, by another thread of the group, from outside it and from a task; loops that follow one another on the same descriptors | each iteration once, whole reductions, nobody left in a loop that returned, all calls return, with the exceptions named below |
| `barrier` | four threads, three rounds, both starts | nobody leaves early, a fork waits for the master, no lost release, everybody gets through |
| `ticket_lock` | three threads, two slots, five tickets | one owner, every waiter is served |
| `shm_coll` | one to six ranks, windows of eight elements, chunks of two, both fences up to five times, each collective algorithm, all but two twice in a row | fences hold, each call delivers its own data before it returns (one return of `topo_opt` excepted), no rank spins for ever |
| `shm_win` | two and three ranks, each transport, at most one failing step, two attempts of sls | failed calls unwind, peers find the segments, destroy releases everything once |
| `mpool` | two executors, three regions, chunks of twelve descriptors, a scenario per layer, normal buffers freed by the other executor among them | no byte lost, a buffer in one place, buffers apart, a true pin map |
| `executors` | one to three executors, two failures at any steps, up to two foreign threads, more executors than available processors, borrowing groups | init is all or nothing, foreign threads are served, groups stay well formed |
| `lost_task` | two executors, a writer and a reader | violation, see section 5 |

The type invariants `TypeOK` of `SchedQueue`, `DistBarrier` and `TicketArrayLock` are conjuncts of
their `IInv`.

Bounds. Three tasks over two addresses reach every shape of entry (writer, readers, ALL) with a
successor behind it; the fourth task and the second wait exercise reuse of the hash after
completion. Three executors let two tasks finish while Master works. Queues of one and two are
full in almost every schedule, so that nesting happens. Six adds take a ring of four slots
round one and a half times. Three rounds of a barrier let a fast slave be a round ahead of a slow
one. Five tickets use each of two slots more than twice. Six ranks are the smallest number with
two pairs outside the power of two; five fences in a row use the three flags again. Three
regions let one chunk be released while another is in use and a buffer is mapped beside them. In
two dimensions with four threads a static loop is cut in both.

Which programs meet which property. `WaitMeansFinished` excepts the tasks of edges that are
made while the predecessor may be finishing (`EdgeRaces`, the race of `lost_task`) and the tasks that
depend on these, which are lost with them (`MayBeLost`; one of the racing programs adds such a task
after a wait); the others of the same programs are checked, and `WaitFinishesAll` is the same without
the exception. Programs
in which a task has two running predecessors or a running writer before it are left out, as is a
static graph destroyed with a worker about. In `queue_event` an event that a queue is made to wait
for cannot finish during the call, an event is recorded again only with no other executor, and
only finishing tasks meet a full scheduler. `EveryIterationOnce` lets a TASK loop or a task loop
whose tasks could not be created skip iterations. Where cuts overlap (`Overlaps`: a TASK loop that
counts downwards, a static loop of two dimensions cut twice in one of them) it asks only that each
iteration runs, and in a TASK loop that follows a reduction of the same master it looks for the
iterations in the function that does run, the reduction's (`Routine`). `ReductionComplete` asks for the
whole sum when the call returns if the caller is thread 0 (`CallerSums`), or the loop is a TASK loop,
whose caller sums; a caller outside the group may return before the sum or without it, and the
property then says only that no contribution is there twice; where thread 0 is not the master it
says nothing (`MasterSums`), nor of a reduction that follows a call whose caller was not thread 0.
`NobodyLeftBehind` excepts that straggling thread 0 (`SumsLate`). `ExpandedServed` speaks of foreign
executors as long as no expansion has failed; that the id of one names a memory pool it says where
there are no more executors than available processors.

Deadlock is not checked: a program ends and executors then poll empty queues for ever, which
the models show as no step. Termination is a liveness property instead.

Fairness. Weak fairness of each executor, of each rank and of the thread that makes the calls:
threads and processes are never suspended for ever and user functions return. In `SchedQueue` some
waiter gets a free spin lock (weak fairness of the disjunction, not of each thread: pthread spin
locks are not fair). In `SchedPlugins` an executor polls again and again (`executor_body`). In
`TicketArrayLock` only threads inside a call or the critical section are fair; asking for the lock
is never forced. In `DistBarrier` every thread of the group makes its calls. `Mpool`, `ShmWin` and
`Executors` state safety only and assume no fairness.

## 4. Proofs

All theorems hold for every value of the constants, under the named ASSUMEs only.

- `TicketArrayLockProofs`: `SpecIInv`, `SpecMutualExclusion`. Mutual exclusion alone is not
  inductive: a trylock between its look at the slot and its swap must still be right. `IInv`
  adds that tickets are drawn once and below `head` (`TicketsDrawn`), that no slot shows more than
  `next` and the owner's slot shows exactly it (`ServiceState`), and that what trylock saw stays
  true while its swap can succeed (`TrySawTicket`).
- `DistBarrierProofs`: `SpecIInv`, `SpecBarrierHolds`, `SpecNoLostRelease`, `SpecForkJoin`. `IInv`
  says that flags encode counts (`FlagsCount`), which half each thread is in (`Phases`), and that
  slaves are not behind the master's gathers (`Distance`). From it no slave is more than one
  half away, hence the barrier property.
- `SchedQueueProofs`: `SpecIInv`, `SpecGetsQueuedTask`, and `SpecIsFifo`: the ring implements
  `TaskFifo`. The argument needs that two positions less than a round apart never share a slot
  (`SlotsApart`, from division with remainder), that the locks single out one adder and one
  getter (`LocksHeld`), that the writer's slot is outside both the queued stretch and the slot
  a late reader still wants (`InBounds` with the spare slot), and that queued slots hold tasks
  (`SlotsHold`). That the capacity is at least the length (`CapacityAssumption`) is a fact about
  powers of two that TLC evaluates on its instances.

- `SchedPluginsProofs`: `SpecIInv`, `SpecInOnePlace`, `SpecPriorityRespected`. `InOnePlace` counts
  the places of a task; the proof turns places into a relation (a position of a queue, of the
  ring or of the heap, a frame, an add in progress) and every step into taking a task from one
  place, leaving it loose, and putting it in another, so that each action is a use of the same few
  lemmas. `IInv` adds that a task is submitted from one list only (`SubmissionsOnce`) and has not
  begun before (`NotBegun`), that a steal takes from the queue it looked at
  (`StealsFromVictim`), that one executor at a time is inside the priority queue (`LockHeld`),
  that what its taker saw on entry stays in the ring's front or the heap until it pops
  (`SeenKept`), and that the unlocked count errs on the safe side (`HintTrue`). At the pop either
  the ring was emptied, so what was seen is in the heap, or the heap is full, and then what was
  seen, being no larger than the heap and inside it, is the heap: a cardinality argument.
  `ProgramsAssumption` asks that each task is submitted once and that the policy is not
  `hybrid` by name, which creates itself again and again in the code (section 5). Positions
  in a queue are found as least elements of a set of numbers (`NatMin`, from the well-founded
  order), which the prover reaches where it does not reach a recursive function.
- `QueueEventProofs`: `SpecIInv`, `SpecRunsInOrder`. A queue is a chain of events, and the order is
  right if the run of an item is in exactly one place until it begins: with its enqueuer
  (`Enqueuing`), on the node of the item before it (`OnNode`), in the frame that finishes that
  item (`Fetched`), in the scheduler (`ready`), or in a frame of its own. `ChainInv` says for
  each of these places that the item has not begun and either follows an item whose end will
  release it (`Follows`) or has everything before it behind it (`Cleared`). `CallsInv` carries the
  link from calls to items: an enqueue in progress holds the queue's lock and has the newest
  item, and `last_event` is the newest item whose enqueue is over, or everything has run
  (`LastNewest`): this is what a `kupl_dequeue_event` that forgot a later event would break.
  The theorem speaks of the scenarios that are `Disciplined`, a condition on the calls alone: no
  `kupl_queue_wait_event`, an event is enqueued once and after its creation, a queue is created
  before its use by the thread that uses it or before all threads, and nothing is enqueued on
  the synchronous queue before a function is run on it by its caller. The first two exclude the
  races of section 5, under which items do run twice or never; the others are what the API asks
  of its callers. Any number of threads may submit to one queue, wait, destroy events and run
  out of room in the scheduler. Two of the scenarios of `MCQueueEvent`
  are disciplined, `Submitters` and `AcquiredQueues`.

  `SpecPlacesIInv`, `SpecNothingLost`, `SpecWaitsIInv`, `SpecWaitMeansDone`, for the
  same scenarios. `ChainInv` says that an item is in no wrong place; `PlacesInv` says that it is in
  some place, and that what is counted is counted right. An item that has not begun is with its
  enqueuer, behind another item or in the scheduler (`Placed`), one that has begun is in a frame
  until its task is finished (`InRun`), `num_events` is the number of events enqueued and not
  dequeued (`QueueCounts`) and `count` of the global graph that of the tasks in the scheduler and
  in frames (`GraphCounts`). The hard part is the counter of an edge: it is made on the node of
  `last_event` before it is counted at the successor, the race of the finding `lost_task`. A queue
  is safe from it because the enqueuer holds the queue's lock, and an event whose run has to take
  that lock in `kupl_dequeue_event` before its task is marked finished cannot finish between the
  two steps: `Held`, `LastHeld`, `EnqueueHeld` and `CountEdge` carry this, `Predecessors` draws from
  it that the counter is 1 when the edge is released. `WaitsInv` then says what a wait in progress
  has behind it (`Waiting`: what it waits for has run, is on a queue still to be waited for, or is
  not behind the event now waited for) and that a queue is in the table as long as it has items of
  a thread that acquired it (`InTable`). An empty queue or graph has run everything because the
  counters are exact; for the graph, the oldest item of a queue that has not run would be in the
  scheduler, in a frame or with its enqueuer (`GraphEmpty`). `WaitDisciplined` adds to `Disciplined`
  what `kupl_queue_wait_all` and `kupl_queue_destroy` need of the callers: no queue is both created
  and acquired, and a queue that a thread made is destroyed by that thread after its last
  submission. Both scenarios named above satisfy it.
- `ExecutorsProofs`: `SpecGroupsIInv`, `SpecGroupWellFormed`. Well-formedness needs one more fact
  to be inductive: the bounds of an empty group are neutral (`GoodInfo`: the number of executors and
  0), or a group that lent everything and borrows again would have bounds of executors that are gone.
  `AddToGood` is the heart: two groups without a
  common executor make one whose ids are again 0 to size - 1, because those that come are shifted by
  the size of the group they come to. The theorem speaks of the behaviours in which calls keep
  `GroupCallsOK`, what the code leaves to its callers: the groups exist, no executor is in both
  groups of a borrow, and a group is reset only while its barrier has room for the executors it
  was created with. The last two are needed: after a reset the executors that were lent are in
  two groups, and a borrow between the two leaves an id without an executor; a group that lent three executors, borrowed one and
  is reset has three and a barrier for one. The run `executors` keeps them in every state.

  `SpecLifeIInv`, `SpecFailedInitUnwinds`: `FailedInitUnwinds` is about the moments when no call is under
  way, so the invariant has to say what the list a call works off has still to do. `UpList` and `DownList`
  describe such a list by the order of its instructions, which a step that takes its head keeps. `GoingUp`: each module is up or in
  the list, and those that are up come before those that are left, so that the instruction that fails
  knows what to take down. `GoingDown`: what is up is in the list, and threads are stopped before what
  they read goes (`ThreadsServed`). `Phase` says which of the two Main is in, if any. The lists are built by
  a fold of the community modules; `FlattenIs` says what it returns, from a least counterexample
  (`LeastExists`), because the induction theorems cannot be used. No hypothesis on the program beyond
  the assumptions on the constants.

  `SpecExpandIInv`, `SpecExpandedServed`: ids, pools and queues are counted in three modules, one after
  the other, while a thread holds `g_executor_lock`. `Books` says by how much each is ahead at every place
  where the holder can be (`At`), failed expansions and their rollback included; `OwnIds` that an id is nobody else's, because
  each is below the count; `Young` that nothing is given out before the library is up. There may be more
  executors than available processors, as no code forbids it; the theorem then gives an expanded
  executor a pool of its own among those added, but not the one its id names. From the constants:
  there is an executor (`ExecutorsAssumption`), the thread that loads the library is there
  (`ThreadsAssumption`), and `kupl_fini`, a destructor no header declares, is a thread's last call
  (`FiniAssumption`).

- `TaskGraphProofs`: `SpecIInv`, `SpecDependenciesRespected`, for dynamic graphs. What a submission asks
  for can be in many places: in the dependencies and hash entries it has still to go through
  (`Submitting`), in an edge still to be released (`Pend`), or done. `HashHolds` and `HashLeads` say that
  the hash leads from each address to every task that has not returned, through tasks that come
  after it; `Safe` that a task is held back by an edge from its predecessor or from something behind
  it. `Counts` says that a task owes at least the edges it has left: an edge released before it is
  counted leaves the task stuck (`Stuck`, the finding `lost_task`), never early. `OnePlace` and `Runs` say
  where a ready task is, `Ready` that it owes nothing and that all before it has returned
  (`Cleared`), and the arithmetic of the test that ends `kupl_dag_add_task` is right while a task has
  less than a third of 2^32 predecessors (`ReadyTest`). The theorems have two hypotheses.
  `Disciplined` is about the program: tasks of a dynamic graph, each created once with dependencies of a
  known type, no task without dependencies before an ALL task, which does not find it
  (`kupl_dag.cpp:130`), and the graph destroyed last. `RaceFree` is about the states in which an edge is
  about to be made: it is the only one to its task if other executors run. It is needed: a task with two
  predecessors is scheduled by the first one to finish while the second edge is not made
  (`kupl_dag.cpp:154`). With one executor a task may have any number of predecessors. TLC checked
  `IInv` on the programs of `MCTaskGraph` without static graphs and refused submissions, which satisfy
  both.

  `SpecRefInv`, `SpecReferencesCounted`, `SpecNoUseAfterFree`: the count of a task is the number of those
  who hold it (the task itself until it has run, each hash entry it is the writer of, each reader's
  place), and nobody reaches a task that is freed. Master changes the hash first and counts afterwards, one
  operation at a time, so `RefInv` balances the count with the `ref` and `deref` operations still in
  `call.ops` (`Counted`), a sum over the entries of which a step changes one. That an operation still to come never finds a task freed needs more: a
  reference still to be counted is not the only one (`Backed`), the predecessor of an edge still to be made
  is held by the hash or dropped after the edge (`EdgesHeld`), and a submission has not entered itself
  where it has still to look (`NotAhead`). Two more hypotheses. `NamesOnce`: a task names an address
  once; a second one makes it wait for itself (`kupl_dag.cpp:268`). `HeldByHash`: with other executors,
  an edge is made after the hash has counted a reference to its task. The code makes the
  edges of a new writer before it counts its reference (`kupl_dag.cpp:74`), and a writer that runs in
  between is freed first.

- `TaskWaitProofs`: `SpecWaitInv`, `SpecWaitMeansFinished`. A wait polls `graph->count` until it reads
  zero, so two things have to hold. The count is exact (`CountInv`): it is the number of tasks that are
  queued, about to be handed over or running (`Active`, the tasks of `CountedBy`), never wraps, and is
  not zero before the last of them, because a finishing task counts those it makes ready before it
  uncounts itself. And a task that is not counted has a reason (`NotLost`): it owes a predecessor, or a
  racing edge may lose it. With one executor nothing is released while edges are made, so a task
  owes no more than the edges it has left (`Exact`, `AloneEven`: the counterpart of `Counts`, which says that
  it owes no less); with other executors edges are made only to tasks that may be lost, and nobody else
  owes anything (`Pristine`). At zero
  nothing is counted; the first submission whose task has not run would have to owe a predecessor
  submitted before it, which has run (`Least`, from the well-founded order, in place of induction). `Waited` keeps what
  each wait has found. Besides the hypotheses of the other two theorems of `TaskGraph`, `Few`: there are fewer
  submissions than `uint32_t` has values, or the count could wrap to zero with tasks in it. The programs
  of `MCTaskGraph` without static graphs and refused submissions satisfy all five, one apart: a writer
  submitted after a wait, behind a reader that may be lost, misses `HeldByHash`. TLC checked `WaitInv`
  on all of them before it was proved.

Only model-checked: every liveness property (the prover does not handle fairness); `RunsInOrder` and
`WaitMeansDone` where a queue waits for an event or an event is recorded again; `NoUseAfterFree` of
`QueueEvent`, which needs sums over all frames and lists as in `TaskGraph`; all properties of
`TaskGraph` for static graphs and for programs outside the hypotheses above; `ParallelFor` and `TaskLoop`, whose properties rest on
what the cuts of a range compute (induction over data); `ShmColl`, `ShmWin` and `Mpool`,
whose accesses and blocks come from nested folds and recursive functions, each of which would need a
lemma like `FlattenIs`; and what holds only under the bounds above.

## 5. Findings

- `lost_task`: the edge is visible to the finishing predecessor before it is counted at the
  successor; the counter goes 0 -> 2^32-1 -> 0 and nobody schedules the successor.

Seen while modelling. Most of these are outside the conditions of the runs; those marked (run) happen
in a passing run, where the property concerned excepts them by name or does not speak of them:

- Graph. The hash takes its reference on a new writer after the edge that lets it run, and may
  count on freed memory (`kupl_dag.cpp:74`). An ALL task follows the tasks in the hash only, not
  those without dependencies (`kupl_dag.cpp:130`, `kupl.h:254` "depend ALL task before"). A task with
  two predecessors is scheduled by the first one to finish while its second edge is not made
  (`kupl_dag.cpp:154`). An address named twice with one type makes the task wait for itself
  (`kupl_dag.cpp:268`); a submission refused for its second dependency stays in the hash and blocks
  later tasks on its first address, or runs all the same when the predecessors of the edges made so
  far finish (`kupl_dag.cpp:136`). `task->kind` is read after the count that
  lets the owner free the node (`kupl_task.cpp:142`).
- Scheduler queue. No acquire pairs with the release of `tail`: a getter may return an unwritten slot
  on AArch64 (`kupl_vector.h:193`). A queue of length 2^k takes 2^k - 1 tasks (`kupl_vector.h:167`).
- Queues and events. The race of `lost_task` between an event and the queue that is made to wait for
  it, in the guide's own example (`kupl_event.cpp:245`, `docs/zh/KUPL_development_guide.md:2789`);
  behind `last_event` the same edge is safe, because a finishing event needs the queue's lock before
  it is marked finished. An event recorded again right after `kupl_event_wait`, as
  `test_queue_event.cpp:289` does, has its node thrown away while a worker is still in
  `kupl_task_finish` (`kupl_event.cpp:120`). An enqueue that meets a full scheduler runs its item
  under the queue's lock and hangs in `kupl_dequeue_event` (`kupl_event.cpp:256`).
- Plugins. `sched_full` stays set until the thread takes a queued task. Policy `sspe` leaves a bound
  task in its slot for ever, and `hybrid` by name creates itself again and again. An invalid id in a
  place list is retried for ever (`kupl_sched_mq.cpp:158`). A heap at its limit inverts priorities.
- Parallel for. Repeated cuts in two dimensions run iterations twice (four threads on 1 x 6; run); a
  TASK loop that counts downwards repeats iterations and runs some past the end, because the smaller
  end of a block is taken (`kupl_parallel_for.cpp:188`; run). `rd_func` is set by a reduction (899),
  tested by every task of a TASK loop (195) and never cleared: a TASK loop after a reduction of the
  same master calls the reduction's function instead of its own (run). Thread 0 lowers its flag before
  it sums (550-552): a caller outside the group may return before the sum is there, and clears
  `post_func` (933), so that thread 0 may not sum at all (run); a thread 0 that is not the master, as in
  the group {1, 0} or in a task on executor 1 that reduces over {0, 1}, sums without waiting for the
  others (run); and one that is late sums into the buffer of the next reduction (run). A TASK
  loop inside a loop is published at its own level, but its tasks read the descriptor of level 0
  (176). `kupl_parallel_for_reduce` lacks the test for a foreign executor that `kupl_parallel_for`
  makes (761): a foreign thread publishes its reduction as a caller outside the group. A
  group that is not in ascending order, or a caller outside the first `num_threads` of its group,
  does not get its thread; overlapping groups may wait for each other for ever; a nested reduction
  starts the outer one's private data over; a third level writes past `g_pf`; a TASK loop whose task
  cannot be created skips iterations and returns `KUPL_OK` (`kupl_parallel_for.cpp:496`; run).
- Task loops. Blocks are counted in indices (`kupl_graph.cpp:434`): a step that does not divide the
  block size runs iterations outside the range's, a negative one runs none and returns `KUPL_OK`.
  Dispatch tasks read the caller's descriptor after the call returned (`kupl_graph.cpp:308`).
- Shared memory. `topo_opt` reads the root's counter (`kupl_bcast.cpp:198`) before the flags tell it
  that the root has raised it (204): a rank that reads the old value passes its last wait (277-279) at
  once and may return without the part its leader copies to it, in a single call (run). `topo`, `topo_opt` and `scatter` broadcasts started twice without a fence overwrite
  data still being read; `win->offset` is shared by all requests of a window; a fence that cannot be
  created leaves its pointers unassigned (`kupl_shm.cpp:268`); a rank that fails before an allgather
  leaves the others waiting in it; error paths of posix with contiguous windows and of sls leak.
- Memory pool. A buffer freed by another executor has its count lowered twice: it wraps to 65535
  and the buffer never comes back (`kupl_mpool.cpp:491` asserts `ref > 0` in debug builds; run, where the
  buffer counts as in use for ever). Merges
  lower the count of the wrong bin (527, 536).
- Executors. `kupl_init` does not test `g_core_inited` again under its lock (`kupl_core.cpp:145`), and
  a thread that finds the lock taken returns `KUPL_OK` before the library is up. A failed expansion
  frees the scheduler that earlier foreign threads still use (`kupl_sched.cpp:71`). There is a pool for
  each available processor (`kupl_mpool.cpp:965`) and an id for each executor, of which
  `KUPL_EXECUTOR_COUNT` may ask for more: then the executors with the last ids, foreign ones among them,
  find no pool (1066) and get no memory (run). Two borrows into
  one group hold different locks; `kupl_egroup_get_next` tests the size before the lock and divides
  by it (`kupl_executor_group.cpp:99`), and `kupl_egroup_reset` keeps `next` and
  the size of the barrier, which may be too small for the executors that come back.

## 6. Not modelled, and plan

Not modelled: OpenMP backend (the OpenMP runtime does the work), user level threads (never switched),
memcpy and the SDMA requests of a queue, NUMA and hbw wrappers, parsing of places and hardware files,
configuration, profiling, logs, mma headers (arithmetic without shared state), allreduce variants
nothing calls, copies made for lambdas, the kernel module of sls, `kupl_shm_attach` and `finalize`, a
distributed barrier whose size changes between calls, groups and queue tables changed by two threads
at once.

Next, the proofs, in this order:

1. `TaskGraph`: static graphs, whose nodes reset themselves between rounds.
2. `QueueEvent`: the references behind `NoUseAfterFree`, in disciplined scenarios.
3. `ShmFence`: the linear fence holds, for any number of ranks.
4. An abstract task graph (a task may run when its predecessors have) that `TaskGraph` implements
   for programs without racing edges.
