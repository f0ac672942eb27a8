----------------------------- MODULE SchedPlugins -----------------------------
(***************************************************************************)
(* The schedulers under src/src/mt/scheduler: the entry points             *)
(* kupl_sched_add_tb and kupl_sched_execute_tb (kupl_sched.cpp), the       *)
(* choice of the plugin (kupl_sched_plugin_load.cpp), and the plugins mq,  *)
(* static_mq, expand_static_mq, sspe and hybrid with the priority queue    *)
(* they share (kupl_sched_plugin_api.h).                                   *)
(*                                                                         *)
(* A queue_t is the bounded FIFO that SchedQueue is shown to implement, so *)
(* one push or one pop is one step. Everything the plugins do with several *)
(* queues is a sequence of such steps: an add is the list of queues still  *)
(* to be tried, a get the list of queues still to be looked at, and other  *)
(* executors act between two of them. Running a task is a frame on its     *)
(* executor's stack, with the tasks it makes ready still to be added.      *)
(***************************************************************************)
EXTENDS Integers, Sequences, SequencesExt, FiniteSets, FiniteSetsExt

CONSTANT Programs  \* configurations of the library, with the tasks submitted

VARIABLES program, eidSet, queue, heap, tbCnt, getLock, told, using, lastSteal, full, frames, adding, search, state, by

vars == <<program, eidSet, queue, heap, tbCnt, getLock, told, using, lastSteal, full, frames, adding, search, state, by>>

Default == -1   \* KUPL_TB_EXECUTOR_ID_DEFAULT, KUPL_MQ_DEFAULT, KUPL_EIDCID_INIT
Place == -2     \* KUPL_TB_EXECUTOR_ID_PLACE
Ult == -3       \* the loop's ult in an executor's slot
Loop == 0       \* in a program: a parallel for tells the other executors

Executors == 0 .. program.n - 1
Task(t) == program.tasks[t]
Tasks == DOMAIN program.tasks

\* No task is made ready twice: it is in one list of a program, once.
SubmittedOnce(p) ==
    /\ \A e, f \in DOMAIN p.root : \A i \in DOMAIN p.root[e], j \in DOMAIN p.root[f] :
          p.root[e][i] = p.root[f][j] /\ p.root[e][i] # Loop => e = f /\ i = j
    /\ \A t, u \in DOMAIN p.tasks : \A i \in DOMAIN p.tasks[t].spawns, j \in DOMAIN p.tasks[u].spawns :
          p.tasks[t].spawns[i] = p.tasks[u].spawns[j] => t = u /\ i = j
    /\ \A e \in DOMAIN p.root, t \in DOMAIN p.tasks : \A i \in DOMAIN p.root[e], j \in DOMAIN p.tasks[t].spawns :
          p.root[e][i] # p.tasks[t].spawns[j]

\* The policy is not "hybrid": its create looks the policy up again and would
\* create itself for ever. A task is bound to an executor there is.
ASSUME ProgramsAssumption ==
    \A p \in Programs :
        /\ p.n \in Nat \ {0} /\ p.length \in Nat /\ p.policy # "hybrid"
        /\ Len(p.affinity.places) \in Nat /\ DOMAIN p.affinity.places = 1 .. Len(p.affinity.places)
        /\ DOMAIN p.tasks \subseteq Nat \ {0}
        /\ \A t \in DOMAIN p.tasks : /\ p.tasks[t].eid \in Int /\ p.tasks[t].eid < p.n
                                     /\ p.tasks[t].prio \in Int
                                     /\ p.tasks[t].spawns \in Seq(DOMAIN p.tasks)
        /\ DOMAIN p.root \subseteq 0 .. (p.n - 1)
        /\ \A e \in DOMAIN p.root : p.root[e] \in Seq(DOMAIN p.tasks \cup {Loop})
        /\ SubmittedOnce(p)

Ring == <<"ring", 0>>
Local(e) == <<"local", e>>
PlaceQueue(j) == <<"place", j>>
Slot(e) == <<"slot", e>>

-----------------------------------------------------------------------------
(* Choosing the plugin. *)

Builtin == <<"sspe", "mq", "static_mq", "expand_static_mq", "hybrid">>

PluginFind(name) == name \in Range(Builtin)

HybridInner(policy) ==
    IF policy = "" \/ policy = "sspe" \/ ~PluginFind(policy) THEN "static_mq" ELSE policy

\* The scheduler an executor's tasks go to: kupl_sched_expand makes the one of
\* the threads the library did not start, kupl_sched_init the other.
SchedInit(p) == IF p.expanded THEN [outer |-> FALSE, inner |-> "expand_static_mq"]
                ELSE IF p.policy = "sspe" THEN [outer |-> TRUE, inner |-> "none"]
                ELSE [outer |-> TRUE, inner |-> HybridInner(p.policy)]

Sched == SchedInit(program)
Mq == Sched.inner = "mq"

-----------------------------------------------------------------------------
(* The place queues of the mq plugin, from KUPL_SCHED_MQ_PLACEQ_AFFINITY. *)

ParseScatter(ids) == Range(ids)

ParseRange(ids) ==
    LET first == ids[1]
        last == IF Len(ids) > 1 THEN ids[2] ELSE 0
    IN  IF first < last THEN (first .. last) \ {Default} ELSE {}

ParseSingle(ids) == {ids[1]} \ {Default}

ParsePlace(p, place) ==
    (0 .. p.n - 1) \cap CASE place.form = "scatter" -> ParseScatter(place.ids)
                          [] place.form = "range"   -> ParseRange(place.ids)
                          [] place.form = "single"  -> ParseSingle(place.ids)

\* The places counted by the separators: none at all when the text has a
\* character that is no part of a place list.
PlaceQueueCnt(p) == IF p.affinity.valid THEN Len(p.affinity.places) ELSE 0

\* The values of f at the indices S, in the order of the indices.
InOrder(f, S) == [i \in 1 .. Cardinality(S) |-> f[CHOOSE j \in S : Cardinality({k \in S : k <= j}) = i]]

\* The sets the text gives, without the ones that are empty. An empty place
\* of the text is no token, but was counted.
ParsedPlaces(p) ==
    LET places == p.affinity.places
        kept == {i \in DOMAIN places : places[i].form # "empty" /\ ParsePlace(p, places[i]) # {}}
    IN  InOrder([i \in kept |-> ParsePlace(p, places[i])], kept)

\* The array is malloc'ed and only its parsed part is written: the sets past
\* it hold whatever the memory held.
PlaceQueueCreate(p) ==
    LET cnt == IF SchedInit(p).inner = "mq" THEN PlaceQueueCnt(p) ELSE 0
        parsed == IF cnt = 0 THEN <<>> ELSE ParsedPlaces(p)
    IN  {parsed \o rest : rest \in [1 .. cnt - Len(parsed) -> SUBSET (0 .. p.n - 1)]}

\* Built from the last to the first by putting each link in front.
PlaceList(e) ==
    LET own == {j \in DOMAIN eidSet : e \in eidSet[j]}
    IN  InOrder([j \in own |-> PlaceQueue(j)], own)

Capacity(q) == IF q[1] = "place" THEN program.length * program.placeFactor ELSE program.length

-----------------------------------------------------------------------------
(* Adding a task. *)

IsPriority(t) == program.priority /\ "priority" \in Task(t).flag

\* The queues kupl_sched_mq_add_tb tries, in order.
MqAdd(e, t) ==
    LET eid == IF Task(t).eid >= 0 THEN Task(t).eid ELSE e
    IN  IF Task(t).eid = Place /\ PlaceList(e) # <<>> THEN PlaceList(e)
        ELSE IF IsPriority(t) THEN <<Ring>>
        ELSE <<Local(eid)>> \o PlaceList(e)

StaticMqAdd(e, t) ==
    LET eid == IF Task(t).eid <= Default THEN e ELSE Task(t).eid
    IN  IF IsPriority(t) THEN <<Ring>> ELSE <<Local(eid)>>

ExpandStaticMqAdd(e, t) ==
    IF Task(t).eid > Default /\ Task(t).eid # e THEN <<>> ELSE StaticMqAdd(e, t)

\* Refused: only a loop's ult is put in a slot. A task bound to an executor
\* would be left there, where only a loop looks; the programs bind none under
\* this policy.
SspeAdd(e, t) == <<>>

PluginAdd(e, t) == CASE Sched.inner = "mq" -> MqAdd(e, t)
                     [] Sched.inner = "static_mq" -> StaticMqAdd(e, t)
                     [] Sched.inner = "expand_static_mq" -> ExpandStaticMqAdd(e, t)
                     [] Sched.inner = "none" -> SspeAdd(e, t)

NoAdd == [tb |-> Loop, todo |-> <<>>]
Search(stage, trail) == [stage |-> stage, todo |-> trail, phase |-> "look", seen |-> {}]
NoSearch == Search("none", <<>>)

Top(e) == Last(frames[e])
TopTodo(e) == IF frames[e] = <<>> THEN <<>> ELSE Top(e).todo
Free(e) == adding[e] = NoAdd /\ search[e] = NoSearch
Idle(e) == Free(e) /\ TopTodo(e) = <<>>

\* The frames of e once its innermost one has gone on to its next task.
Advanced(e) == Front(frames[e]) \o <<[Top(e) EXCEPT !.todo = Tail(@)]>>

Frame(t) == [tb |-> t, todo |-> IF t = Ult THEN <<>> ELSE Task(t).spawns]

\* tb->ops->invoke: the routine runs, then the tasks it makes ready are added.
Invoke(e, t, fs) == frames' = [frames EXCEPT ![e] = Append(fs, Frame(t))]

LoopOver == \A e \in Executors : ~told[e] /\ \A i \in DOMAIN frames[e] : frames[e][i].tb # Ult

\* A tb whose flags are exactly KUPL_TB_FLAG_IMM, and any tb of a thread that
\* found a queue full, runs here and now.
AddTb(e) ==
    /\ Free(e) /\ TopTodo(e) # <<>> /\ Head(TopTodo(e)) # Loop
    /\ Top(e).tb = Loop => LoopOver
    /\ LET t == Head(TopTodo(e))
       IN  /\ state' = [state EXCEPT ![t] = "ready"]
           /\ IF full[e] \/ Task(t).flag = {"imm"}
              THEN Invoke(e, t, Advanced(e)) /\ by' = [by EXCEPT ![t] = e] /\ UNCHANGED <<adding, using>>
              ELSE /\ adding' = [adding EXCEPT ![e] = [tb |-> t, todo |-> PluginAdd(e, t)]]
                   /\ frames' = [frames EXCEPT ![e] = Advanced(e)]
                   /\ using' = [using EXCEPT !.inner = TRUE]
                   /\ UNCHANGED by
    /\ UNCHANGED <<program, eidSet, queue, heap, tbCnt, getLock, told, lastSteal, full, search>>

IsFull(q) == Len(queue[q]) >= Capacity(q)

AddPush(e) ==
    /\ adding[e].todo # <<>>
    /\ ~IsFull(Head(adding[e].todo))
    /\ queue' = [queue EXCEPT ![Head(adding[e].todo)] = Append(@, adding[e].tb)]
    /\ adding' = [adding EXCEPT ![e] = NoAdd]
    /\ UNCHANGED <<program, eidSet, heap, tbCnt, getLock, told, using, lastSteal, full, frames, search, state, by>>

AddNext(e) ==
    /\ adding[e].todo # <<>>
    /\ IsFull(Head(adding[e].todo))
    /\ adding' = [adding EXCEPT ![e].todo = Tail(@)]
    /\ UNCHANGED <<program, eidSet, queue, heap, tbCnt, getLock, told, using, lastSteal, full, frames, search, state, by>>

AddFailed(e) ==
    /\ adding[e] # NoAdd /\ adding[e].todo = <<>>
    /\ full' = [full EXCEPT ![e] = TRUE]
    /\ Invoke(e, adding[e].tb, frames[e])
    /\ by' = [by EXCEPT ![adding[e].tb] = e]
    /\ adding' = [adding EXCEPT ![e] = NoAdd]
    /\ UNCHANGED <<program, eidSet, queue, heap, tbCnt, getLock, told, using, lastSteal, search, state>>

-----------------------------------------------------------------------------
(* Looking for a task. *)

MasterDone(e) == \A t \in Tasks : Task(t).master = e => state[t] = "done"

\* An executor's thread looks for ever, a master as long as it waits.
Looks(e) == frames[e] = <<>> \/ (Len(frames[e]) = 1 /\ Top(e).tb = Loop /\ ~MasterDone(e))

PopOne(e) == IF program.priority THEN <<Ring, Local(e)>> ELSE <<Local(e)>>

\* The queues of e itself that its plugin looks at.
MqGet(e) == PopOne(e) \o PlaceList(e)
StaticMqGet(e) == PopOne(e)
ExpandStaticMqGet(e) == PopOne(e)
OwnTrail(e) == CASE Sched.inner = "mq" -> MqGet(e)
                 [] Sched.inner = "static_mq" -> StaticMqGet(e)
                 [] Sched.inner = "expand_static_mq" -> ExpandStaticMqGet(e)

StartSearch(e) ==
    /\ Idle(e) /\ Looks(e)
    /\ search' = [search EXCEPT ![e] = IF Sched.outer THEN Search("outer", <<Slot(e)>>)
                                       ELSE Search("own", OwnTrail(e))]
    /\ UNCHANGED <<program, eidSet, queue, heap, tbCnt, getLock, told, using, lastSteal, full, frames, adding, state, by>>

\* One plugin had nothing, or one part of mq's search had not: the next one.
NextStage(e) ==
    LET s == search[e].stage
    IN  CASE s = "outer" /\ Sched.inner # "none" /\ using.inner -> {Search("own", OwnTrail(e))}
          [] s = "own" /\ Mq /\ program.n > 1 /\ lastSteal[e] # Default -> {Search("last", PopOne(lastSteal[e]))}
          [] s \in {"own", "last"} /\ Mq /\ program.n > 1 ->
                {Search("steal", PopOne(v)) : v \in Executors \ {e}}
          [] OTHER -> {NoSearch}

Exhausted(e) ==
    /\ search[e].stage # "none" /\ search[e].todo = <<>>
    /\ \E s \in NextStage(e) : search' = [search EXCEPT ![e] = s]
    /\ lastSteal' = IF search[e].stage = "steal" THEN [lastSteal EXCEPT ![e] = Default] ELSE lastSteal
    /\ UNCHANGED <<program, eidSet, queue, heap, tbCnt, getLock, told, using, full, frames, adding, state, by>>

\* kupl_sched_execute_tb with the tb that was found.
Found(e, t) ==
    /\ full' = [full EXCEPT ![e] = FALSE]
    /\ lastSteal' = IF search[e].stage = "steal" THEN [lastSteal EXCEPT ![e] = Last(search[e].todo)[2]] ELSE lastSteal
    /\ Invoke(e, t, frames[e])
    /\ by' = IF t = Ult THEN by ELSE [by EXCEPT ![t] = e]
    /\ search' = [search EXCEPT ![e] = NoSearch]

At(e, kind) == search[e].todo # <<>> /\ Head(search[e].todo)[1] = kind

Skip(e) == search' = [search EXCEPT ![e].todo = Tail(@), ![e].phase = "look"]

\* sspe's sched_get_tb: the loop barrier says whether the slot is for now.
GetSlot(e) ==
    /\ At(e, "slot")
    /\ IF told[e] /\ queue[Slot(e)] # <<>>
       THEN Found(e, queue[Slot(e)][1]) /\ told' = [told EXCEPT ![e] = FALSE]
       ELSE Skip(e) /\ UNCHANGED <<told, full, lastSteal, frames, by>>
    /\ UNCHANGED <<program, eidSet, queue, heap, tbCnt, getLock, using, adding, state>>

\* the ring's head is not moved
QueueRestMutant(q) == queue[q]

\* What is left of a queue after pop_front.
QueueRest(q) == Tail(queue[q])

QueueGet(e) ==
    /\ At(e, "local") \/ At(e, "place")
    /\ LET q == Head(search[e].todo)
       IN  IF queue[q] = <<>> THEN Skip(e) /\ UNCHANGED <<queue, full, lastSteal, frames, by>>
           ELSE Found(e, Head(queue[q])) /\ queue' = [queue EXCEPT ![q] = QueueRest(q)]
    /\ UNCHANGED <<program, eidSet, heap, tbCnt, getLock, told, using, adding, state>>

\* priority_queue_get_tb: tb_cnt and the ring are read without the lock.
PriorityPeek(e) ==
    /\ At(e, "ring")
    /\ \/ /\ search[e].phase = "look"
          /\ search' = [search EXCEPT ![e].phase = IF tbCnt <= 0 THEN "ring" ELSE "lock"]
       \/ /\ search[e].phase = "ring"
          /\ IF queue[Ring] = <<>> THEN Skip(e) ELSE search' = [search EXCEPT ![e].phase = "lock"]
    /\ UNCHANGED <<program, eidSet, queue, heap, tbCnt, getLock, told, using, lastSteal, full, frames, adding, state, by>>

PriorityLock(e) ==
    /\ search[e].phase = "lock" /\ getLock = Default
    /\ getLock' = e
    /\ search' = [search EXCEPT ![e].phase = "drain", ![e].seen = heap \cup Range(queue[Ring])]
    /\ UNCHANGED <<program, eidSet, queue, heap, tbCnt, told, using, lastSteal, full, frames, adding, state, by>>

Drains == queue[Ring] # <<>> /\ Cardinality(heap) < program.length

PriorityDrain(e) ==
    /\ search[e].phase = "drain" /\ Drains
    /\ heap' = heap \cup {Head(queue[Ring])}
    /\ queue' = [queue EXCEPT ![Ring] = Tail(@)]
    /\ UNCHANGED <<program, eidSet, tbCnt, getLock, told, using, lastSteal, full, frames, adding, search, state, by>>

\* the comparison the wrong way round
HighestMutant(h) == {t \in h : \A u \in h : Task(t).prio <= Task(u).prio}

\* The tbs that can be on top: the heap says nothing about equal priorities.
Highest(h) == {t \in h : \A u \in h : Task(u).prio <= Task(t).prio}

\* the hint is cleared although tasks are left
TbCntMutant(h) == 0

\* tb_cnt is the number of tbs left in the heap.
TbCnt(h) == Cardinality(h)

PriorityPop(e) ==
    /\ search[e].phase = "drain" /\ ~Drains
    /\ \/ /\ heap = {}
          /\ Skip(e)
          /\ UNCHANGED <<heap, full, lastSteal, frames, by>>
       \/ \E t \in Highest(heap) : heap' = heap \ {t} /\ Found(e, t)
    /\ tbCnt' = TbCnt(heap')
    /\ getLock' = Default
    /\ UNCHANGED <<program, eidSet, queue, told, using, adding, state>>

-----------------------------------------------------------------------------
\* The innermost task has added what it made ready, and is finished.
Finish(e) ==
    /\ Idle(e) /\ frames[e] # <<>> /\ Top(e).tb # Loop
    /\ frames' = [frames EXCEPT ![e] = Front(@)]
    /\ state' = IF Top(e).tb = Ult THEN state ELSE [state EXCEPT ![Top(e).tb] = "done"]
    /\ UNCHANGED <<program, eidSet, queue, heap, tbCnt, getLock, told, using, lastSteal, full, adding, search, by>>

\* A parallel for of a master: its notify, seen from the plugins.
LoopTells(e) ==
    /\ Free(e) /\ TopTodo(e) # <<>> /\ Head(TopTodo(e)) = Loop
    /\ told' = [x \in Executors |-> x # e]
    /\ frames' = [frames EXCEPT ![e] = Advanced(e)]
    /\ UNCHANGED <<program, eidSet, queue, heap, tbCnt, getLock, using, lastSteal, full, adding, search, state, by>>

QueueIds(p) == {Ring} \cup {Local(e) : e \in 0 .. p.n - 1} \cup {Slot(e) : e \in 0 .. p.n - 1}

\* The scheduler as its create leaves it, with the ults of the loops put in
\* the slots by kupl_global_ult_init.
Init ==
    /\ program \in Programs
    /\ eidSet \in PlaceQueueCreate(program)
    /\ queue = [q \in QueueIds(program) \cup {PlaceQueue(j) : j \in DOMAIN eidSet} |->
                    IF q[1] = "slot" /\ Sched.outer THEN <<Ult>> ELSE <<>>]
    /\ heap = {} /\ tbCnt = 0 /\ getLock = Default
    /\ told = [e \in Executors |-> FALSE]
    /\ using = [outer |-> Sched.outer, inner |-> ~Sched.outer]
    /\ lastSteal = [e \in Executors |-> Default]
    /\ full = [e \in Executors |-> FALSE]
    /\ frames = [e \in Executors |-> IF e \in DOMAIN program.root THEN <<[tb |-> Loop, todo |-> program.root[e]]>> ELSE <<>>]
    /\ adding = [e \in Executors |-> NoAdd]
    /\ search = [e \in Executors |-> NoSearch]
    /\ state = [t \in Tasks |-> "new"]
    /\ by = [t \in Tasks |-> Default]

ExecutorStep(e) ==
    /\ e \in Executors
    /\ \/ AddTb(e) \/ AddPush(e) \/ AddNext(e) \/ AddFailed(e)
       \/ StartSearch(e) \/ Exhausted(e) \/ GetSlot(e) \/ QueueGet(e)
       \/ PriorityPeek(e) \/ PriorityLock(e) \/ PriorityDrain(e) \/ PriorityPop(e)
       \/ Finish(e) \/ LoopTells(e)

AllExecutors == UNION {0 .. p.n - 1 : p \in Programs}

Next == \E e \in AllExecutors : ExecutorStep(e)

\* Every executor has a thread of its own, which the system schedules.
Fairness == \A e \in AllExecutors : WF_vars(ExecutorStep(e))

Spec == Init /\ [][Next]_vars /\ Fairness

-----------------------------------------------------------------------------
(* Properties *)

\* Where a task is between kupl_sched_add_tb and the end of its run.
QueuePlaces(t) == UNION {{<<"queue", q, i>> : i \in {j \in DOMAIN queue[q] : queue[q][j] = t}} : q \in DOMAIN queue}
AddPlaces(t) == {<<"adding", e, 1>> : e \in {x \in Executors : adding[x].tb = t}}
FramePlaces(t) == UNION {{<<"frame", e, i>> : i \in {j \in DOMAIN frames[e] : frames[e][j].tb = t}} : e \in Executors}
HeapPlaces(t) == {<<"heap", 0, 0>> : u \in heap \cap {t}}
Places(t) == QueuePlaces(t) \cup AddPlaces(t) \cup FramePlaces(t) \cup HeapPlaces(t)

\* A task that was made ready is in exactly one place until it is finished: in
\* the hands of the thread that adds it, in one queue, in the heap of the
\* priority queue, or in the frame that runs it; so it runs once and is never
\* lost between the ring and the heap (priority_queue_get_tb,
\* kupl_sched_mq_get_tb, kupl_sched_add_tb).
InOnePlace ==
    \A t \in Tasks : /\ state[t] = "ready" <=> Places(t) # {}
                     /\ \A p, r \in Places(t) : p = r

\* The task taken from the priority queue has the highest priority of all
\* that were in the ring or the heap when its taker got the lock, as long as
\* they fit in the heap (priority_queue_get_tb drains the ring first).
PriorityRespected ==
    [][\A e \in Executors : \A t \in heap \ heap' :
          LET seen == search[e].seen
          IN  PriorityPop(e) /\ Cardinality(seen) <= program.length =>
                 \A u \in seen : Task(u).prio <= Task(t).prio]_vars

\* Every task that was made ready is finished in the end: no queue is left
\* out of every search, and tb_cnt never hides what is in the heap.
EveryTaskRuns == \A t \in 1 .. Max({Cardinality(DOMAIN p.tasks) : p \in Programs}) :
                    (t \in Tasks /\ state[t] = "ready") ~> (t \in Tasks /\ state[t] = "done")
=============================================================================
