------------------------------ MODULE Executors ------------------------------
(***************************************************************************)
(* The life of the library: kupl_init and kupl_fini (core/kupl_core.cpp),  *)
(* the executors' threads (executor/kupl_executor.cpp and its pthread      *)
(* backend), the executors given to threads the library did not start      *)
(* (kupl_get_executor_num), and the executor groups.                       *)
(*                                                                         *)
(* kupl_init brings the modules up in order and, when one of them fails,   *)
(* takes down those before it; kupl_fini takes all of them down. Both are  *)
(* lists of instructions a thread works off, so that the executors' threads*)
(* run between two of them. A module is a name here: what it keeps is in   *)
(* the other modules of this project.                                      *)
(***************************************************************************)
EXTENDS ExecutorGroup, SequencesExt

CONSTANT Programs   \* the calls of each application thread, and the machine

\* There is at least one executor, the thread that brings the library up.
ASSUME ExecutorsAssumption == \A p \in Programs : p.n \in Nat \ {0} /\ {p.pu, p.availPu, p.cpuSetSize} \subseteq Nat

VARIABLES
    program,  \* the program chosen
    calls,    \* what each application thread has still to call
    todo,     \* what is left of the call it is in
    core,     \* g_core_inited, the holder of g_mtx, kupl_init entered once more
    mods,     \* the modules that are up
    flag,     \* g_utils_inited, g_tools_inited, g_mpool_inited
    thread,   \* an executor's thread: none, running, trying (about to call kupl_init), exited
    stop,     \* exec->stop
    lock,     \* the holder of g_executor_lock
    table,    \* g_executor_count, the pools, g_sched_expand
    geid,     \* the executor id of each application thread
    served,   \* the scheduler an expanded executor was given
    faults,   \* how many more steps may fail
    failed,   \* an expansion has failed
    groups

vars == <<program, calls, todo, core, mods, flag, thread, stop, lock, table, geid, served, faults, failed, groups>>
lifeVars == <<core, mods, flag, thread, stop>>
expandVars == <<lock, table, geid, served, failed>>

None == 0
Main == 1

\* The thread that loads the library is there, and 0 is nobody.
ASSUME ThreadsAssumption == \A p \in Programs : Main \in DOMAIN p.calls /\ None \notin DOMAIN p.calls

\* kupl_fini is the destructor of the library, declared in no header: it is the
\* last thing a thread does.
ASSUME FiniAssumption ==
    \A p \in Programs : \A t \in DOMAIN p.calls :
        /\ p.calls[t] \in Seq(Range(p.calls[t]))
        /\ \A j \in DOMAIN p.calls[t] : p.calls[t][j][1] = "fini" => j = Len(p.calls[t])

App == DOMAIN program.calls
Workers == 1 .. program.n - 1     \* executor 0 is the thread that calls kupl_init
GroupIds == 1 .. 3

-----------------------------------------------------------------------------
(* kupl_init *)

InitOrder == <<"utils", "places", "tools", "sdma", "mpool", "mem", "dm", "sched", "queue", "executor", "start", "barrier", "pf">>

\* the descriptors go before the threads are stopped
UndoOrderMutant == <<"executor", "start", "sched", "queue", "dm", "mem", "mpool", "sdma", "tools", "places", "utils">>

\* The order in which the labels of kupl_init, and the module functions they
\* call, take the modules down.
UndoOrder == <<"start", "executor", "sched", "queue", "dm", "mem", "mpool", "sdma", "tools", "places", "utils">>

Before(m, k) == \E i, j \in DOMAIN InitOrder : i < j /\ InitOrder[i] = m /\ InitOrder[j] = k

\* kupl_executor_start and _stop go through the executors one by one; executor
\* 0, the thread that calls kupl_init, has no thread to stop.
Steps(kind, m) == IF m # "start" THEN <<<<kind, m>>>>
                  ELSE IF kind = "init" THEN [i \in 1 .. program.n |-> <<kind, m, i - 1>>]
                  ELSE [i \in Workers |-> <<kind, m, i>>]
Flattened(kind, order) == FlattenSeq([i \in DOMAIN order |-> Steps(kind, order[i])])

\* Those before k; kupl_executor_start stops the executors it did start when one fails.
Undo(k) == FlattenSeq([i \in DOMAIN UndoOrder |->
               IF Before(UndoOrder[i], k) \/ (UndoOrder[i] = "start" /\ k = "start")
               THEN Steps("fini", UndoOrder[i]) ELSE <<>>])

\* Skipped when the module's own flag says that it is up.
Flagged(m) == m \in DOMAIN flag /\ flag[m]

Ins(t) == Head(todo[t])
Doing(t, kind) == todo[t] # <<>> /\ Ins(t)[1] = kind
Next1(t) == todo' = [todo EXCEPT ![t] = Tail(@)]

\* std::try_to_lock: whoever does not get the mutex goes on as if all were
\* well. The application starts its other threads after its first call.
CallInit(t) ==
    /\ todo[t] = <<>> /\ calls[t] # <<>> /\ Head(calls[t])[1] # "fini"
    /\ ~core.inited /\ core.mutex = None /\ t = Main
    /\ core' = [core EXCEPT !.mutex = t]
    /\ todo' = [todo EXCEPT ![t] = Append(Flattened("init", InitOrder), <<"inited">>)]
    /\ UNCHANGED <<program, calls, mods, flag, thread, stop, faults, groups, expandVars>>

Up(m) == /\ mods' = mods \cup {m}
         /\ flag' = IF m \in DOMAIN flag THEN [flag EXCEPT ![m] = TRUE] ELSE flag
         /\ table' = CASE m = "mpool" -> [table EXCEPT !.pools = program.availPu]
                       [] m = "executor" -> [table EXCEPT !.count = program.n, !.initial = program.n]
                       [] OTHER -> table

InitModule(t) ==
    /\ Doing(t, "init") /\ Ins(t)[2] # "start"
    /\ IF Flagged(Ins(t)[2]) THEN UNCHANGED <<mods, flag, table>> ELSE Up(Ins(t)[2])
    /\ Next1(t)
    /\ UNCHANGED <<program, calls, core, thread, stop, faults, groups, lock, geid, served, failed>>

\* kupl_executor_enable; the caller is executor 0, the others get a thread.
InitStart(t) ==
    /\ Doing(t, "init") /\ Ins(t)[2] = "start"
    /\ LET i == Ins(t)[3]
       IN  \/ i = 0 /\ geid' = [geid EXCEPT ![t] = 0] /\ UNCHANGED <<thread, stop>>
          \/ /\ i # 0 /\ thread' = [thread EXCEPT ![i] = "running"]
             /\ stop' = [stop EXCEPT ![i] = FALSE] /\ UNCHANGED geid
    /\ Next1(t)
    /\ UNCHANGED <<program, calls, core, mods, flag, faults, groups, lock, table, served, failed>>

CanFail(m) == m \notin {"dm", "barrier"} /\ ~Flagged(m)

InitFails(t) ==
    /\ Doing(t, "init") /\ CanFail(Ins(t)[2]) /\ faults > 0
    /\ faults' = faults - 1
    /\ todo' = [todo EXCEPT ![t] = Append(Undo(Ins(t)[2]), <<"refused">>)]
    /\ UNCHANGED <<program, calls, lifeVars, groups, expandVars>>

InitDone(t) ==
    /\ Doing(t, "inited")
    /\ core' = [core EXCEPT !.inited = TRUE, !.mutex = None]
    /\ Next1(t)
    /\ UNCHANGED <<program, calls, mods, flag, thread, stop, faults, groups, expandVars>>

\* The call that wanted the library up returns its error.
InitRefused(t) ==
    /\ Doing(t, "refused")
    /\ core' = [core EXCEPT !.mutex = None]
    /\ calls' = [calls EXCEPT ![t] = Tail(@)]
    /\ Next1(t)
    /\ UNCHANGED <<program, mods, flag, thread, stop, faults, groups, expandVars>>

-----------------------------------------------------------------------------
(* Taking down, after a failure and in kupl_fini *)

\* kupl_tools_fini leaves g_tools_inited as it is.
Lowered(m) == m \in {"utils", "mpool"}

FiniModule(t) ==
    /\ Doing(t, "fini") /\ Ins(t)[2] # "start"
    /\ LET m == Ins(t)[2]
       IN  /\ mods' = mods \ {m}
           /\ flag' = IF Lowered(m) THEN [flag EXCEPT ![m] = FALSE] ELSE flag
           /\ table' = CASE m = "sched" -> [table EXCEPT !.sched = None, !.queues = 0]
                         [] m = "executor" -> [table EXCEPT !.count = 0]
                         [] m = "mpool" -> [table EXCEPT !.pools = 0]
                         [] OTHER -> table
    /\ Next1(t)
    /\ UNCHANGED <<program, calls, core, thread, stop, faults, groups, lock, geid, served, failed>>

\* kupl_executor_stop: the flag is raised, then the thread is joined.
StopExecutor(t) ==
    /\ Doing(t, "fini") /\ Ins(t)[2] = "start"
    /\ LET i == Ins(t)[3]
       IN  \/ thread[i] \in {"running", "trying"} /\ ~stop[i] /\ stop' = [stop EXCEPT ![i] = TRUE] /\ UNCHANGED <<thread, todo>>
           \/ thread[i] = "exited" /\ thread' = [thread EXCEPT ![i] = "none"] /\ Next1(t) /\ UNCHANGED stop
           \/ thread[i] = "none" /\ Next1(t) /\ UNCHANGED <<thread, stop>>
    /\ UNCHANGED <<program, calls, core, mods, flag, faults, groups, expandVars>>

FiniOrder == <<"pf", "start", "executor", "sched", "queue", "mpool", "dm", "mem", "mpool", "sdma", "tools", "places", "utils">>

\* The destructor runs when the application's threads are done.
CallFini(t) ==
    /\ todo[t] = <<>> /\ calls[t] # <<>> /\ Head(calls[t])[1] = "fini"
    /\ core.inited => \A a \in App \ {t} : calls[a] = <<>> /\ todo[a] = <<>>
    /\ IF core.inited THEN todo' = [todo EXCEPT ![t] = Append(Flattened("fini", FiniOrder), <<"finished">>)] /\ UNCHANGED calls
                      ELSE calls' = [calls EXCEPT ![t] = Tail(@)] /\ UNCHANGED todo
    /\ UNCHANGED <<program, lifeVars, faults, groups, expandVars>>

FiniDone(t) ==
    /\ Doing(t, "finished")
    /\ core' = [core EXCEPT !.inited = FALSE]
    /\ calls' = [calls EXCEPT ![t] = Tail(@)]
    /\ Next1(t)
    /\ UNCHANGED <<program, mods, flag, thread, stop, faults, groups, expandVars>>

-----------------------------------------------------------------------------
(* The executors' threads *)

\* A turn of executor_body's loop: looking for work asks for the thread's
\* executor id, and that asks for the library to be up.
ExecutorLooks(i) ==
    /\ thread[i] = "running" /\ ~stop[i] /\ ~core.inited
    /\ thread' = [thread EXCEPT ![i] = "trying"]
    /\ UNCHANGED <<program, calls, todo, core, mods, flag, stop, faults, groups, expandVars>>

\* kupl_init tries the mutex and does not look at g_core_inited again. The
\* model ends where the library is brought up on top of itself.
ExecutorTries(i) ==
    /\ thread[i] = "trying"
    /\ thread' = [thread EXCEPT ![i] = "running"]
    /\ core' = [core EXCEPT !.again = (core.mutex = None)]
    /\ UNCHANGED <<program, calls, todo, mods, flag, stop, faults, groups, expandVars>>

ExecutorExits(i) ==
    /\ thread[i] = "running" /\ stop[i]
    /\ thread' = [thread EXCEPT ![i] = "exited"]
    /\ UNCHANGED <<program, calls, todo, core, mods, flag, stop, faults, groups, expandVars>>

-----------------------------------------------------------------------------
(* kupl_get_executor_num of a thread the library does not know *)

Expands(t) == todo[t] = <<>> /\ calls[t] # <<>> /\ Head(calls[t])[1] = "executor_num" /\ core.inited

CallExecutorNum(t) ==
    /\ Expands(t)
    /\ IF geid[t] # Null THEN calls' = [calls EXCEPT ![t] = Tail(@)] /\ UNCHANGED todo
       ELSE todo' = [todo EXCEPT ![t] = <<<<"lock">>>>] /\ UNCHANGED calls
    /\ UNCHANGED <<program, lifeVars, faults, groups, expandVars>>

\* the expansion does not take its lock
LockFreeMutant == TRUE

\* g_executor_lock can be taken.
LockFree == lock = None

ExpandLock(t) ==
    /\ Doing(t, "lock") /\ LockFree
    /\ lock' = t
    /\ todo' = [todo EXCEPT ![t] = <<<<"sched_expand">>, <<"memory_expand">>, <<"executor_expand">>, <<"unlock">>>>]
    /\ UNCHANGED <<program, calls, lifeVars, faults, groups, table, geid, served, failed>>

\* The first one makes the scheduler, with one queue; the others add a queue,
\* and throw the scheduler away when that fails.
SchedExpand(t) ==
    /\ Doing(t, "sched_expand")
    /\ \/ /\ table.sched = None
          /\ table' = [table EXCEPT !.sched = table.made + 1, !.made = @ + 1, !.queues = 1]
          /\ Next1(t) /\ UNCHANGED <<faults, failed>>
       \/ /\ table.sched # None /\ table.queues + 1 <= program.pu
          /\ table' = [table EXCEPT !.queues = @ + 1]
          /\ Next1(t) /\ UNCHANGED <<faults, failed>>
       \/ /\ faults > 0 \/ (table.sched # None /\ table.queues + 1 > program.pu)
          /\ faults' = IF faults > 0 THEN faults - 1 ELSE faults
          /\ table' = [table EXCEPT !.sched = None, !.queues = 0]
          /\ failed' = TRUE
          /\ todo' = [todo EXCEPT ![t] = <<<<"unlock">>>>]
    /\ UNCHANGED <<program, calls, lifeVars, groups, lock, geid, served>>

\* kupl_memory_expand, or kupl_sched_expand_fini when it fails.
MemoryExpand(t) ==
    /\ Doing(t, "memory_expand")
    /\ \/ /\ table.pools < program.pu
          /\ table' = [table EXCEPT !.pools = @ + 1]
          /\ Next1(t) /\ UNCHANGED <<faults, failed>>
       \/ /\ faults > 0 \/ table.pools >= program.pu
          /\ faults' = IF faults > 0 THEN faults - 1 ELSE faults
          /\ table' = [table EXCEPT !.sched = None, !.queues = 0]
          /\ failed' = TRUE
          /\ todo' = [todo EXCEPT ![t] = <<<<"unlock">>>>]
    /\ UNCHANGED <<program, calls, lifeVars, groups, lock, geid, served>>

\* kupl_memory_expand_fini and kupl_sched_expand_fini.
Rollback == [table EXCEPT !.pools = @ - 1, !.sched = None, !.queues = 0]

ExecutorExpand(t) ==
    /\ Doing(t, "executor_expand")
    /\ \/ /\ table.count < program.cpuSetSize
          /\ table' = [table EXCEPT !.count = @ + 1]
          /\ geid' = [geid EXCEPT ![t] = table.count]
          /\ served' = [served EXCEPT ![t] = table.sched]
          /\ UNCHANGED <<faults, failed>>
       \/ /\ faults > 0 \/ table.count >= program.cpuSetSize
          /\ faults' = IF faults > 0 THEN faults - 1 ELSE faults
          /\ table' = Rollback
          /\ failed' = TRUE
          /\ UNCHANGED <<geid, served>>
    /\ Next1(t)
    /\ UNCHANGED <<program, calls, lifeVars, groups, lock>>

ExpandUnlock(t) ==
    /\ Doing(t, "unlock")
    /\ lock' = None
    /\ Next1(t)
    /\ calls' = [calls EXCEPT ![t] = Tail(@)]
    /\ UNCHANGED <<program, lifeVars, faults, groups, table, geid, served, failed>>

-----------------------------------------------------------------------------
(* The calls on groups: each runs under a group's lock, or on a group only  *)
(* its caller has.                                                          *)

GroupOps == {"create", "destroy", "borrow", "return", "reset", "next"}

GroupResult(c) ==
    CASE c[1] = "create" -> IF CreateOK(program.n, c[3]) THEN [groups EXCEPT ![c[2]] = Create(program.n, c[3])] ELSE groups
      [] c[1] = "destroy" -> [groups EXCEPT ![c[2]] = NoGroup]
      [] c[1] \in {"borrow", "return"} -> Move(groups, c[2], c[3])
      [] c[1] = "reset" -> [groups EXCEPT ![c[2]] = Reset(@)]
      [] c[1] = "next" -> [groups EXCEPT ![c[2]] = GetNext(@)]

CallGroup(t) ==
    /\ todo[t] = <<>> /\ calls[t] # <<>> /\ Head(calls[t])[1] \in GroupOps /\ core.inited
    /\ groups' = GroupResult(Head(calls[t]))
    /\ calls' = [calls EXCEPT ![t] = Tail(@)]
    /\ UNCHANGED <<program, todo, lifeVars, faults, expandVars>>

-----------------------------------------------------------------------------
Init ==
    /\ program \in Programs
    /\ calls = program.calls
    /\ todo = [t \in App |-> <<>>]
    /\ core = [inited |-> FALSE, mutex |-> None, again |-> FALSE]
    /\ mods = {}
    /\ flag = [m \in {"utils", "tools", "mpool"} |-> FALSE]
    /\ thread = [i \in Workers |-> "none"]
    /\ stop = [i \in Workers |-> TRUE]
    /\ lock = None
    /\ table = [count |-> 0, initial |-> program.cpuSetSize, pools |-> 0, sched |-> None, queues |-> 0, made |-> 0]
    /\ geid = [t \in App |-> Null]
    /\ served = [t \in App |-> None]
    /\ faults = program.faults
    /\ failed = FALSE
    /\ groups = [g \in GroupIds |-> NoGroup]

AppStep(t) ==
    /\ t \in App
    /\ \/ CallInit(t) \/ InitModule(t) \/ InitStart(t) \/ InitFails(t) \/ InitDone(t) \/ InitRefused(t)
       \/ FiniModule(t) \/ StopExecutor(t) \/ CallFini(t) \/ FiniDone(t)
       \/ CallExecutorNum(t) \/ ExpandLock(t) \/ SchedExpand(t) \/ MemoryExpand(t) \/ ExecutorExpand(t) \/ ExpandUnlock(t)
       \/ CallGroup(t)

ExecutorStep(i) == i \in Workers /\ (ExecutorLooks(i) \/ ExecutorTries(i) \/ ExecutorExits(i))

AllApp == UNION {DOMAIN p.calls : p \in Programs}
AllWorkers == UNION {1 .. p.n - 1 : p \in Programs}

Next == ~core.again /\ ((\E t \in AllApp : AppStep(t)) \/ (\E i \in AllWorkers : ExecutorStep(i)))

Spec == Init /\ [][Next]_vars

-----------------------------------------------------------------------------
(* Properties *)

Running == {i \in Workers : thread[i] # "none"}

\* Whenever no thread is bringing the library up or down, either all modules
\* are up or none is and no executor's thread is left, whichever step of
\* kupl_init failed; the tools apart, which a second kupl_init skips, and the
\* flags of the loop barrier, which nothing takes down. While
\* an executor's thread runs, the scheduler and the executors' table it reads
\* are there; and such a thread, which asks for the library at every turn of
\* its loop, may start kupl_init over only once it has succeeded, never during
\* or after a failed one.
FailedInitUnwinds ==
    /\ (\A t \in App : todo[t] = <<>>) =>
          IF core.inited THEN Range(InitOrder) \ {"tools", "start"} \subseteq mods /\ Running = Workers
                         ELSE mods \subseteq {"barrier"} /\ Running = {}
    /\ \A i \in Workers : thread[i] \in {"running", "trying"} => {"executor", "sched", "mpool"} \subseteq mods
    /\ core.again => core.inited

\* Between two calls of kupl_get_executor_num, before kupl_fini.
Settled == lock = None /\ core.inited /\ "pf" \in mods
Expanded(t) == geid[t] >= table.initial

\* No two threads have the same executor, and a failed expansion gives back its
\* pool (kupl_get_executor_num). As long as none failed, there are as many new
\* pools and queues as threads with an executor of their own, and each of these
\* has a queue of the live expanded scheduler. An executor finds its pool by its
\* id (kupl_mpool.cpp:1066), but the first pools are one for each available
\* processor (kupl_mpool.cpp:965) and the first ids one for each executor: only
\* with no more executors than processors does every id have its pool.
ExpandedServed ==
    /\ \A t, u \in App : geid[t] # Null /\ geid[t] = geid[u] => t = u
    /\ Settled => table.pools - program.availPu = table.count - table.initial
    /\ ~failed /\ Settled =>
          \A t \in App : Expanded(t) => /\ served[t] = table.sched /\ table.sched # None
                                        /\ geid[t] - table.initial < table.queues
                                        /\ geid[t] - table.initial < table.pools - program.availPu
                                        /\ program.n <= program.availPu => geid[t] < table.pools

\* After any sequence of borrowing, returning and resetting, the local ids of
\* a group's executors are 0 to size - 1, each once, its bounds are those of
\* its members, and its barrier was made for as many.
GroupWellFormed ==
    \A g \in GroupIds : groups[g].alive =>
        InfoWellFormed(groups[g].cur) /\ InfoWellFormed(groups[g].def) /\ groups[g].cur.size <= groups[g].barrier

=============================================================================
