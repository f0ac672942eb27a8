------------------------- MODULE SchedPluginsProofs -------------------------
(***************************************************************************)
(* The plugins keep every task in one place, and the priority queue gives  *)
(* out its best task, for every configuration, number of executors, length *)
(* of the queues and set of tasks.                                         *)
(***************************************************************************)
EXTENDS SchedPlugins, FiniteSetTheorems, WellFoundedInduction, TLAPS

-----------------------------------------------------------------------------
(* The inductive invariant *)

QueueSet == QueueIds(program) \cup {PlaceQueue(j) : j \in DOMAIN eidSet}
AddQueues == {q \in QueueSet : q[1] # "slot"}
FrameSet == [tb : Tasks \cup {Loop, Ult}, todo : Seq(Tasks \cup {Loop})]
AddSet == [tb : Tasks, todo : Seq(AddQueues)] \cup {NoAdd}
SearchSet == [stage : {"none", "outer", "own", "last", "steal"}, todo : Seq(QueueSet),
              phase : {"look", "ring", "lock", "drain"}, seen : SUBSET Tasks]

\* A slot holds nothing but the ult of the loops, no other queue holds it.
QueuesTyped ==
    /\ eidSet \in Seq(SUBSET Executors)
    /\ queue \in [QueueSet -> Seq(Tasks \cup {Ult})]
    /\ \A q \in QueueSet : queue[q] \in IF q[1] = "slot" THEN Seq({Ult}) ELSE Seq(Tasks)

ThreadsTyped ==
    /\ frames \in [Executors -> Seq(FrameSet)]
    /\ adding \in [Executors -> AddSet]
    /\ search \in [Executors -> SearchSet]
    /\ lastSteal \in [Executors -> Executors \cup {Default}]
    /\ getLock \in Executors \cup {Default}
    /\ heap \in SUBSET Tasks /\ IsFiniteSet(heap)

TypeOK ==
    /\ program \in Programs
    /\ QueuesTyped
    /\ ThreadsTyped
    /\ state \in [Tasks -> {"new", "ready", "done"}]
    /\ by \in [Tasks -> Executors \cup {Default}]

\* An executor that steals is at the end of its victim's list.
StealsFromVictim ==
    \A e \in Executors : search[e].stage = "steal" /\ search[e].todo # <<>> =>
        \E v \in Executors : Last(search[e].todo) = Local(v)

\* The submissions still to come: a task waits in one list of one frame.
Todos(t) ==
    UNION {UNION {{<<e, i, k>> : k \in {j \in DOMAIN frames[e][i].todo : frames[e][i].todo[j] = t}} :
                     i \in DOMAIN frames[e]} : e \in Executors}

SubmissionsOnce ==
    \A t \in Tasks : /\ \A p, r \in Todos(t) : p = r
                     /\ Todos(t) # {} => state[t] = "new"
                     /\ state[t] = "new" => by[t] = Default
                     /\ by[t] = Default => \A i \in DOMAIN Task(t).spawns : /\ state[Task(t).spawns[i]] = "new"
                                                                            /\ Todos(Task(t).spawns[i]) = {}

\* A task that has not been given to an executor runs nowhere.
NotBegun == \A t \in Tasks : \A p \in Places(t) : by[t] = Default \/ p[1] = "frame"

\* One executor at a time is inside the priority queue, at the ring.
LockHeld ==
    \A e \in Executors : /\ search[e].phase = "drain" <=> getLock = e
                         /\ search[e].phase # "look" => search[e].todo # <<>> /\ Head(search[e].todo) = Ring

\* What the holder of the lock saw is in the heap or among the first tasks of
\* the ring; as long as some of it is in the ring, the heap holds nothing newer.
SeenIn(seen, h, ring) ==
    /\ IsFiniteSet(seen)
    /\ \E k \in 0 .. Len(ring) : /\ seen \subseteq h \cup {ring[i] : i \in 1 .. k}
                                 /\ k > 0 => h \cup {ring[i] : i \in 1 .. k} \subseteq seen

SeenKept == \A e \in Executors : search[e].phase = "drain" => SeenIn(search[e].seen, heap, queue[Ring])

\* tb_cnt, read without the lock, is true whenever nobody holds the lock.
HintTrue == getLock = Default => tbCnt = Cardinality(heap)

IInv ==
    /\ TypeOK /\ StealsFromVictim
    /\ InOnePlace /\ SubmissionsOnce /\ NotBegun
    /\ LockHeld /\ SeenKept /\ HintTrue

-----------------------------------------------------------------------------
(* Lists in the order of their indices *)

\* Every non-empty set of numbers has a least one.
LEMMA NatMin == ASSUME NEW S \in SUBSET Nat, S # {}
                PROVE  \E m \in S : \A n \in S : m <= n
  <1> DEFINE R == OpToRel(<, Nat)
  <1>1. IsWellFoundedOn(R, Nat)
    BY NatLessThanWellFounded
  <1>2. \A x, y \in Nat : <<y, x>> \in R <=> y < x
    BY DEF OpToRel
  <1> HIDE DEF R
  <1>3. PICK x \in S : \A y \in S : <<y, x>> \notin R
    BY <1>1, WFMin
  <1>4. \A y \in S : ~(y < x)
    BY <1>2, <1>3
  <1> QED
    BY <1>4

\* Every non-empty finite set of numbers has a greatest one.
LEMMA FiniteNatMax == ASSUME NEW S \in SUBSET Nat, S # {}, IsFiniteSet(S)
                      PROVE  \E m \in S : \A n \in S : n <= m
  <1> DEFINE Above(j) == {k \in S : k > j}
             Sizes == {Cardinality(Above(j)) : j \in S}
  <1>1. \A j : IsFiniteSet(Above(j)) /\ Cardinality(Above(j)) \in Nat
    BY FS_Subset, FS_CardinalityType
  <1>2. PICK m \in S : \A j \in S : Cardinality(Above(m)) <= Cardinality(Above(j))
    <2>1. Sizes \in SUBSET Nat /\ Sizes # {}
      BY <1>1
    <2> HIDE DEF Above
    <2>2. \E c \in Sizes : \A d \in Sizes : c <= d
      BY <2>1, NatMin
    <2> QED
      BY <2>2
  <1>3. ASSUME NEW n \in S, n > m PROVE FALSE
    <2> S \subseteq Nat
      OBVIOUS
    <2> (\A k \in S : k > n => k > m) /\ ~(n > n)
      BY <1>3
    <2>1. Above(n) \subseteq Above(m) /\ n \in Above(m) /\ n \notin Above(n)
      BY <1>3, Zenon
    <2>2. Cardinality(Above(n)) < Cardinality(Above(m))
      <3> DEFINE A == Above(m)
                 B == Above(n)
      <3> IsFiniteSet(A) /\ Cardinality(A) \in Nat /\ Cardinality(B) \in Nat /\ B \in SUBSET A /\ A # B
        BY <2>1, <1>1
      <3> HIDE DEF A, B
      <3>1. Cardinality(B) <= Cardinality(A) /\ (Cardinality(A) = Cardinality(B) => A = B)
        BY FS_Subset
      <3>2. Cardinality(B) < Cardinality(A)
        BY <3>1
      <3> QED
        BY <3>2 DEF A, B
    <2> QED
      BY <2>2, <1>2, <1>1
  <1> QED
    BY <1>3

\* The members of a finite set of numbers have ranks 1 to its size: InOrder finds
\* an index for every position of the list it builds.
LEMMA RankExists == ASSUME NEW S \in SUBSET Nat, IsFiniteSet(S), NEW i \in 1 .. Cardinality(S)
                    PROVE  \E j \in S : Cardinality({k \in S : k <= j}) = i
  <1> DEFINE Upto(j) == {k \in S : k <= j}
             Below(j) == {k \in S : k < j}
             High == {j \in S : Cardinality(Upto(j)) >= i}
  <1>1. \A j : IsFiniteSet(Upto(j)) /\ Cardinality(Upto(j)) \in Nat
             /\ IsFiniteSet(Below(j)) /\ Cardinality(Below(j)) \in Nat
    BY FS_Subset, FS_CardinalityType
  <1>2. Cardinality(S) \in Nat
    BY FS_CardinalityType
  <1>3. \E j \in S : Upto(j) = S
    <2>1. S # {}
      BY FS_EmptySet
    <2>2. PICK b \in S : \A k \in S : k <= b
      BY <2>1, FiniteNatMax
    <2> QED
      BY <2>2
  <1>4. High # {}
    <2>1. PICK j \in S : Upto(j) = S
      BY <1>3
    <2>2. Cardinality(Upto(j)) >= i
      BY <2>1, <1>2
    <2> QED
      BY <2>2
  <1>5. PICK j \in High : \A k \in High : j <= k
    BY <1>4, NatMin
  <1> S \subseteq Nat /\ j \in S
    OBVIOUS
  <1>6. Upto(j) = Below(j) \cup {j} /\ j \notin Below(j)
    <2> (\A k \in S : k <= j <=> k < j \/ k = j) /\ ~(j < j)
      OBVIOUS
    <2> QED
      BY Zenon
  <1>7. Cardinality(Upto(j)) = Cardinality(Below(j)) + 1
    <2>1. Cardinality(Below(j) \cup {j}) = Cardinality(Below(j)) + 1
      <3> DEFINE B == Below(j)
      <3> IsFiniteSet(B) /\ j \notin B
        BY <1>1, <1>6
      <3> HIDE DEF B
      <3>1. Cardinality(B \cup {j}) = Cardinality(B) + 1
        BY FS_AddElement
      <3> QED
        BY <3>1 DEF B
    <2> QED
      BY <2>1, <1>6
  <1>8. Cardinality(Below(j)) < i
    <2>1. CASE Below(j) = {}
      BY <2>1, FS_EmptySet
    <2>2. CASE Below(j) # {}
      <3>1. PICK b \in Below(j) : \A k \in Below(j) : k <= b
        BY <2>2, <1>1, FiniteNatMax
      <3>2. Upto(b) = Below(j)
        <4> \A k \in S : k <= b <=> k < j
          BY <3>1
        <4> QED
          OBVIOUS
      <3>3. b \notin High
        BY <3>1, <1>5
      <3> QED
        BY <3>2, <3>3, <1>1
    <2> QED
      BY <2>1, <2>2
  <1>9. Cardinality(Upto(j)) >= i /\ Cardinality(Upto(j)) \in Nat /\ Cardinality(Below(j)) \in Nat
    BY <1>5, <1>1
  <1>10. Cardinality(Upto(j)) = i
    BY <1>7, <1>8, <1>9
  <1> QED
    BY <1>10

\* InOrder lists values of its function.
LEMMA InOrderType == ASSUME NEW T, NEW S \in SUBSET Nat, IsFiniteSet(S), NEW f \in [S -> T]
                     PROVE  InOrder(f, S) \in Seq(T)
  <1> DEFINE Nth(i) == CHOOSE j \in S : Cardinality({k \in S : k <= j}) = i
  <1>1. \A i \in 1 .. Cardinality(S) : Nth(i) \in S
    BY RankExists
  <1>2. Cardinality(S) \in Nat
    BY FS_CardinalityType
  <1> HIDE DEF Nth
  <1>3. \A i \in 1 .. Cardinality(S) : f[Nth(i)] \in T
    BY <1>1
  <1>4. [i \in 1 .. Cardinality(S) |-> f[Nth(i)]] \in Seq(T)
    BY <1>2, <1>3
  <1> QED
    BY <1>4 DEF InOrder, Nth

-----------------------------------------------------------------------------
(* Types of the lists of queues *)

\* What the configurations guarantee, of the one that runs.
LEMMA ProgramFacts ==
    ASSUME program \in Programs
    PROVE  /\ program.n \in Nat \ {0} /\ program.length \in Nat /\ program.policy # "hybrid"
           /\ Executors \subseteq Nat /\ 0 \in Executors /\ Default \notin Executors
           /\ Tasks \subseteq Nat /\ Loop \notin Tasks /\ Ult \notin Tasks
           /\ \A t \in Tasks : /\ Task(t).eid \in Int /\ Task(t).eid < program.n
                               /\ Task(t).prio \in Int
                               /\ Task(t).spawns \in Seq(Tasks)
  <1>1. program.n \in Nat \ {0} /\ program.length \in Nat /\ program.policy # "hybrid"
    BY ProgramsAssumption
  <1>2. Executors \subseteq Nat /\ 0 \in Executors /\ Default \notin Executors
    BY <1>1 DEF Executors, Default
  <1>3. DOMAIN program.tasks \subseteq Nat \ {0}
    BY ProgramsAssumption, Zenon
  <1>4. Tasks \subseteq Nat /\ Loop \notin Tasks /\ Ult \notin Tasks
    BY <1>3 DEF Tasks, Loop, Ult
  <1>5. \A t \in Tasks : /\ Task(t).eid \in Int /\ Task(t).eid < program.n
                         /\ Task(t).prio \in Int
                         /\ Task(t).spawns \in Seq(Tasks)
    BY ProgramsAssumption, Zenon DEF Tasks, Task
  <1> QED
    BY <1>1, <1>2, <1>4, <1>5

\* The names of the queues are told apart by their first part.
LEMMA QueueNames ==
    /\ \A e : Local(e) # Ring /\ Slot(e) # Ring /\ PlaceQueue(e) # Ring
    /\ Ring \in AddQueues /\ Ring \in QueueSet
    /\ \A e \in Executors : Local(e) \in AddQueues /\ Slot(e) \in QueueSet
    /\ \A j \in DOMAIN eidSet : PlaceQueue(j) \in AddQueues
    /\ AddQueues \subseteq QueueSet
  BY DEF Local, Slot, PlaceQueue, Ring, AddQueues, QueueSet, QueueIds, Executors

\* The place queues of an executor are queues (kupl_sched_mq_create).
LEMMA PlaceListType == ASSUME TypeOK, NEW e \in Executors
                       PROVE  PlaceList(e) \in Seq(AddQueues)
  <1> DEFINE own == {j \in DOMAIN eidSet : e \in eidSet[j]}
  <1>1. eidSet \in Seq(SUBSET Executors)
    BY DEF TypeOK, QueuesTyped
  <1>2. own \in SUBSET (1 .. Len(eidSet)) /\ Len(eidSet) \in Nat
    BY <1>1
  <1> HIDE DEF own
  <1>3. IsFiniteSet(own) /\ own \in SUBSET Nat
    <2>1. IsFiniteSet(1 .. Len(eidSet))
      BY <1>2, FS_Interval
    <2>2. IsFiniteSet(own)
      BY <1>2, <2>1, FS_Subset
    <2>3. own \in SUBSET Nat
      BY <1>2
    <2> QED
      BY <2>2, <2>3
  <1>4. [j \in own |-> PlaceQueue(j)] \in [own -> AddQueues]
    BY QueueNames DEF own
  <1>5. InOrder([j \in own |-> PlaceQueue(j)], own) \in Seq(AddQueues)
    BY <1>3, <1>4, InOrderType
  <1> QED
    BY <1>5 DEF PlaceList, own

\* The plugins that can be asked (kupl_sched_hybrid_create, kupl_sched_expand).
LEMMA SchedKnown == ASSUME program \in Programs
                    PROVE  /\ Sched.inner \in {"mq", "static_mq", "expand_static_mq", "none"}
                           /\ ~Sched.outer => Sched.inner = "expand_static_mq"
  <1>1. program.policy # "hybrid"
    BY ProgramFacts
  <1>2. Range(Builtin) = {"sspe", "mq", "static_mq", "expand_static_mq", "hybrid"}
    <2>1. DOMAIN Builtin = 1 .. 5
      BY DEF Builtin
    <2>2. Range(Builtin) = {Builtin[1], Builtin[2], Builtin[3], Builtin[4], Builtin[5]}
      BY <2>1 DEF Range
    <2> QED
      BY <2>2 DEF Builtin
  <1>3. HybridInner(program.policy) \in {"mq", "static_mq", "expand_static_mq"}
    BY <1>1, <1>2 DEF HybridInner, PluginFind
  <1> QED
    BY <1>3 DEF Sched, SchedInit

\* A task is only offered to queues that are there, and never to a slot.
LEMMA PluginAddType == ASSUME TypeOK, NEW e \in Executors, NEW t \in Tasks
                       PROVE  PluginAdd(e, t) \in Seq(AddQueues)
  <1>1. program \in Programs
    BY DEF TypeOK
  <1>2. Ring \in AddQueues /\ \A x \in Executors : Local(x) \in AddQueues
    BY QueueNames
  <1>3. \A x \in Int : x >= 0 /\ x < program.n => x \in Executors
    BY ProgramFacts, <1>1 DEF Executors
  <1>4. Task(t).eid \in Int /\ Task(t).eid < program.n
    BY ProgramFacts, <1>1
  <1>5. PlaceList(e) \in Seq(AddQueues)
    BY PlaceListType
  <1>6. MqAdd(e, t) \in Seq(AddQueues)
    <2> DEFINE eid == IF Task(t).eid >= 0 THEN Task(t).eid ELSE e
    <2>1. Local(eid) \in AddQueues
      BY <1>2, <1>3, <1>4
    <2> HIDE DEF eid
    <2>2. <<Local(eid)>> \in Seq(AddQueues) /\ <<Ring>> \in Seq(AddQueues)
      BY <2>1, <1>2
    <2>3. <<Local(eid)>> \o PlaceList(e) \in Seq(AddQueues)
      BY <2>2, <1>5
    <2> QED
      BY <2>2, <2>3, <1>5 DEF MqAdd, eid
  <1>7. StaticMqAdd(e, t) \in Seq(AddQueues)
    <2> DEFINE eid == IF Task(t).eid <= Default THEN e ELSE Task(t).eid
    <2>1. Local(eid) \in AddQueues
      BY <1>2, <1>3, <1>4 DEF Default
    <2> HIDE DEF eid
    <2>2. <<Local(eid)>> \in Seq(AddQueues) /\ <<Ring>> \in Seq(AddQueues)
      BY <2>1, <1>2
    <2> QED
      BY <2>2 DEF StaticMqAdd, eid
  <1>8. ExpandStaticMqAdd(e, t) \in Seq(AddQueues) /\ SspeAdd(e, t) \in Seq(AddQueues)
    BY <1>7 DEF ExpandStaticMqAdd, SspeAdd
  <1> QED
    BY <1>1, <1>6, <1>7, <1>8, SchedKnown DEF PluginAdd

\* The lists of queues to look at.
LEMMA TrailType == ASSUME TypeOK, NEW e \in Executors
                   PROVE  /\ PopOne(e) \in Seq(QueueSet) /\ Last(PopOne(e)) = Local(e)
                          /\ Sched.inner # "none" => OwnTrail(e) \in Seq(QueueSet)
  <1>1. Ring \in QueueSet /\ Local(e) \in QueueSet
    BY QueueNames
  <1>3. PopOne(e) \in Seq(QueueSet) /\ Last(PopOne(e)) = Local(e)
    BY <1>1 DEF Last, PopOne
  <1>4. PlaceList(e) \in Seq(QueueSet)
    BY PlaceListType, QueueNames
  <1>5. MqGet(e) \in Seq(QueueSet)
    BY <1>3, <1>4 DEF MqGet
  <1> QED
    BY <1>3, <1>5, SchedKnown DEF TypeOK, OwnTrail, StaticMqGet, ExpandStaticMqGet

-----------------------------------------------------------------------------
(* Where the tasks are, as a relation on the queues Q, the adds A, the     *)
(* frames F and the heap H. Moving a task is taking it from one place,     *)
(* which leaves it loose, and putting it in another.                       *)

Held(Q, A, F, H, t, k, x, i) ==
    \/ k = "queue" /\ x \in QueueSet /\ i \in DOMAIN Q[x] /\ Q[x][i] = t
    \/ k = "adding" /\ x \in Executors /\ i = 1 /\ A[x].tb = t
    \/ k = "frame" /\ x \in Executors /\ i \in DOMAIN F[x] /\ F[x][i].tb = t
    \/ k = "heap" /\ x = 0 /\ i = 0 /\ t \in H

Once(Q, A, F, H, st, b, t) ==
    /\ st[t] = "ready" <=> \E k, x, i : Held(Q, A, F, H, t, k, x, i)
    /\ \A k, x, i, l, y, j : Held(Q, A, F, H, t, k, x, i) /\ Held(Q, A, F, H, t, l, y, j) => k = l /\ x = y /\ i = j
    /\ \A k, x, i : Held(Q, A, F, H, t, k, x, i) => b[t] = Default \/ k = "frame"

AllOnce(Q, A, F, H, st, b) == \A t \in Tasks : Once(Q, A, F, H, st, b, t)

Loose(Q, A, F, H, st, b, u) ==
    /\ \A t \in Tasks \ {u} : Once(Q, A, F, H, st, b, t)
    /\ st[u] = "ready" /\ b[u] = Default
    /\ \A k, x, i : ~Held(Q, A, F, H, u, k, x, i)

\* The task u has come to, or gone from, the place <<k, x, i>>; nothing else moved.
Gains(Q, A, F, H, R, B, G, I, u, k, x, i) ==
    \A t \in Tasks : \A l, y, j : Held(R, B, G, I, t, l, y, j) <=>
        Held(Q, A, F, H, t, l, y, j) \/ (t = u /\ l = k /\ y = x /\ j = i)

Loses(Q, A, F, H, R, B, G, I, u, k, x, i) ==
    \A t \in Tasks : \A l, y, j : Held(R, B, G, I, t, l, y, j) <=>
        Held(Q, A, F, H, t, l, y, j) /\ ~(t = u /\ l = k /\ y = x /\ j = i)

\* The two properties about places are AllOnce of the variables.
LEMMA PlacesAreHeld ==
    ASSUME DOMAIN queue = QueueSet
    PROVE  InOnePlace /\ NotBegun <=> AllOnce(queue, adding, frames, heap, state, by)
  <1>1. ASSUME NEW t, NEW k, NEW x, NEW i
        PROVE  <<k, x, i>> \in Places(t) <=> Held(queue, adding, frames, heap, t, k, x, i)
    <2>1. <<k, x, i>> \in QueuePlaces(t) <=> k = "queue" /\ x \in QueueSet /\ i \in DOMAIN queue[x] /\ queue[x][i] = t
      BY DEF QueuePlaces
    <2>2. <<k, x, i>> \in AddPlaces(t) <=> k = "adding" /\ x \in Executors /\ i = 1 /\ adding[x].tb = t
      BY DEF AddPlaces
    <2>3. <<k, x, i>> \in FramePlaces(t) <=> k = "frame" /\ x \in Executors /\ i \in DOMAIN frames[x] /\ frames[x][i].tb = t
      BY DEF FramePlaces
    <2>4. <<k, x, i>> \in HeapPlaces(t) <=> k = "heap" /\ x = 0 /\ i = 0 /\ t \in heap
      BY DEF HeapPlaces
    <2> QED
      BY <2>1, <2>2, <2>3, <2>4 DEF Places, Held
  <1>2. ASSUME NEW t, NEW p \in Places(t)
        PROVE  \E k, x, i : p = <<k, x, i>>
    <2>1. CASE p \in QueuePlaces(t)
      BY <2>1 DEF QueuePlaces
    <2>2. CASE p \in AddPlaces(t)
      BY <2>2 DEF AddPlaces
    <2>3. CASE p \in FramePlaces(t)
      BY <2>3 DEF FramePlaces
    <2>4. CASE p \in HeapPlaces(t)
      BY <2>4 DEF HeapPlaces
    <2> QED
      BY <2>1, <2>2, <2>3, <2>4 DEF Places
  <1>3. ASSUME NEW t \in Tasks
        PROVE  /\ Places(t) # {} <=> \E k, x, i : Held(queue, adding, frames, heap, t, k, x, i)
               /\ (\A p, r \in Places(t) : p = r) <=>
                     \A k, x, i, l, y, j : /\ Held(queue, adding, frames, heap, t, k, x, i)
                                           /\ Held(queue, adding, frames, heap, t, l, y, j)
                                           => k = l /\ x = y /\ i = j
               /\ (\A p \in Places(t) : by[t] = Default \/ p[1] = "frame") <=>
                     \A k, x, i : Held(queue, adding, frames, heap, t, k, x, i) => by[t] = Default \/ k = "frame"
    <2> DEFINE P == Places(t)
               h(k, x, i) == Held(queue, adding, frames, heap, t, k, x, i)
    <2>1. \A k, x, i : <<k, x, i>> \in P <=> h(k, x, i)
      BY <1>1
    <2>2. \A p \in P : \E k, x, i : p = <<k, x, i>>
      BY <1>2
    <2> HIDE DEF P, h
    <2>3. P # {} <=> \E k, x, i : h(k, x, i)
      <3>1. ASSUME NEW p \in P PROVE \E k, x, i : h(k, x, i)
        <4>1. PICK k, x, i : p = <<k, x, i>>
          BY <2>2
        <4>2. h(k, x, i)
          BY <4>1, <2>1
        <4> QED
          BY <4>2
      <3> QED
        BY <3>1, <2>1
    <2>4. (\A p, r \in P : p = r) <=> \A k, x, i, l, y, j : h(k, x, i) /\ h(l, y, j) => k = l /\ x = y /\ i = j
      <3>1. ASSUME \A p, r \in P : p = r, NEW k, NEW x, NEW i, NEW l, NEW y, NEW j, h(k, x, i), h(l, y, j)
            PROVE  k = l /\ x = y /\ i = j
        <4>1. <<k, x, i>> = <<l, y, j>>
          BY <3>1, <2>1
        <4> QED
          BY <4>1
      <3>2. ASSUME \A k, x, i, l, y, j : h(k, x, i) /\ h(l, y, j) => k = l /\ x = y /\ i = j,
                   NEW p \in P, NEW r \in P
            PROVE  p = r
        <4>1. PICK k, x, i : p = <<k, x, i>>
          BY <2>2
        <4>2. PICK l, y, j : r = <<l, y, j>>
          BY <2>2
        <4>3. h(k, x, i) /\ h(l, y, j)
          BY <4>1, <4>2, <2>1
        <4>4. k = l /\ x = y /\ i = j
          BY <4>3, <3>2
        <4> QED
          BY <4>1, <4>2, <4>4
      <3> QED
        BY <3>1, <3>2
    <2>5. (\A p \in P : by[t] = Default \/ p[1] = "frame") <=>
             \A k, x, i : h(k, x, i) => by[t] = Default \/ k = "frame"
      <3>1. ASSUME NEW k, NEW x, NEW i, h(k, x, i), \A p \in P : by[t] = Default \/ p[1] = "frame"
            PROVE  by[t] = Default \/ k = "frame"
        <4>1. <<k, x, i>> \in P
          BY <3>1, <2>1
        <4> QED
          BY <4>1, <3>1
      <3>2. ASSUME \A k, x, i : h(k, x, i) => by[t] = Default \/ k = "frame", NEW p \in P
            PROVE  by[t] = Default \/ p[1] = "frame"
        <4>1. PICK k, x, i : p = <<k, x, i>>
          BY <2>2
        <4>2. h(k, x, i)
          BY <4>1, <2>1
        <4> QED
          BY <4>1, <4>2, <3>2
      <3> QED
        BY <3>1, <3>2
    <2> QED
      BY <2>3, <2>4, <2>5 DEF P, h
  <1> QED
    BY <1>3 DEF InOnePlace, NotBegun, AllOnce, Once

\* Taking the first task of a queue (pop_front) leaves it loose.
LEMMA TakeQueue ==
    ASSUME NEW Q, NEW A, NEW F, NEW H, NEW st, NEW b, AllOnce(Q, A, F, H, st, b),
           NEW q \in QueueSet, Q \in [QueueSet -> Seq(Tasks \cup {Ult})], Q[q] # <<>>, Q[q][1] \in Tasks
    PROVE  Loose([Q EXCEPT ![q] = Tail(Q[q])], A, F, H, st, b, Q[q][1])
  <1> DEFINE R == [Q EXCEPT ![q] = Tail(Q[q])]
             u == Q[q][1]
  <1>1. Q[q] \in Seq(Tasks \cup {Ult}) /\ DOMAIN Q[q] = 1 .. Len(Q[q]) /\ Len(Q[q]) \in Nat /\ Len(Q[q]) > 0
    OBVIOUS
  <1>2. /\ \A x \in QueueSet : x # q => R[x] = Q[x]
        /\ DOMAIN R[q] = 1 .. (Len(Q[q]) - 1)
        /\ \A i \in 1 .. (Len(Q[q]) - 1) : R[q][i] = Q[q][i + 1]
    BY <1>1
  <1> HIDE DEF R, u
  <1>3. ASSUME NEW t, NEW k, NEW x, NEW i, Held(R, A, F, H, t, k, x, i)
        PROVE  IF k = "queue" /\ x = q THEN i \in Nat /\ i > 0 /\ Held(Q, A, F, H, t, k, x, i + 1)
                                       ELSE Held(Q, A, F, H, t, k, x, i)
    BY <1>1, <1>2, <1>3 DEF Held
  <1>4. ASSUME NEW t, NEW k, NEW x, NEW i, Held(Q, A, F, H, t, k, x, i)
        PROVE  IF k = "queue" /\ x = q THEN i \in Nat /\ (i = 1 => t = u) /\ (i # 1 => Held(R, A, F, H, t, k, x, i - 1))
                                       ELSE Held(R, A, F, H, t, k, x, i)
    BY <1>1, <1>2, <1>4 DEF Held, u
  <1>5. Held(Q, A, F, H, u, "queue", q, 1)
    BY <1>1 DEF Held, u
  <1>6. Once(Q, A, F, H, st, b, u)
    BY DEF AllOnce, u
  <1>7. st[u] = "ready" /\ b[u] = Default
    BY <1>5, <1>6 DEF Once
  <1>8. ASSUME NEW k, NEW x, NEW i, Held(R, A, F, H, u, k, x, i) PROVE FALSE
    <2>1. CASE k = "queue" /\ x = q
      <3>1. i \in Nat /\ i > 0 /\ Held(Q, A, F, H, u, k, x, i + 1)
        BY <2>1, <1>8, <1>3
      <3>2. i + 1 = 1
        BY <3>1, <1>5, <1>6 DEF Once
      <3> QED
        BY <3>1, <3>2
    <2>2. CASE ~(k = "queue" /\ x = q)
      <3>1. Held(Q, A, F, H, u, k, x, i)
        BY <2>2, <1>8, <1>3
      <3> QED
        BY <3>1, <2>2, <1>5, <1>6 DEF Once
    <2> QED
      BY <2>1, <2>2
  <1>9. ASSUME NEW t \in Tasks \ {u} PROVE Once(R, A, F, H, st, b, t)
    <2>1. Once(Q, A, F, H, st, b, t)
      BY <1>9 DEF AllOnce
    <2>2. st[t] = "ready" <=> \E k, x, i : Held(R, A, F, H, t, k, x, i)
      BY <2>1, <1>3, <1>4 DEF Once
    <2>3. ASSUME NEW k, NEW x, NEW i, NEW l, NEW y, NEW j,
                 Held(R, A, F, H, t, k, x, i), Held(R, A, F, H, t, l, y, j)
          PROVE  k = l /\ x = y /\ i = j
      <3> DEFINE pi == IF k = "queue" /\ x = q THEN i + 1 ELSE i
                 pj == IF l = "queue" /\ y = q THEN j + 1 ELSE j
      <3>1. Held(Q, A, F, H, t, k, x, pi) /\ (k = "queue" /\ x = q => i \in Nat)
        BY <2>3, <1>3
      <3>2. Held(Q, A, F, H, t, l, y, pj) /\ (l = "queue" /\ y = q => j \in Nat)
        BY <2>3, <1>3
      <3>3. k = l /\ x = y /\ pi = pj
        BY <3>1, <3>2, <2>1 DEF Once
      <3> QED
        BY <3>1, <3>2, <3>3
    <2>4. \A k, x, i : Held(R, A, F, H, t, k, x, i) => b[t] = Default \/ k = "frame"
      BY <2>1, <1>3 DEF Once
    <2> QED
      BY <2>2, <2>3, <2>4 DEF Once
  <1> QED
    BY <1>7, <1>8, <1>9 DEF Loose, R, u

\* Taking a task from any other place but a frame leaves it loose.
LEMMA Take ==
    ASSUME NEW Q, NEW A, NEW B, NEW F, NEW H, NEW G, NEW st, NEW b, AllOnce(Q, A, F, H, st, b),
           NEW u \in Tasks, NEW k, NEW x, NEW i, k # "frame", Held(Q, A, F, H, u, k, x, i),
           Loses(Q, A, F, H, Q, B, F, G, u, k, x, i)
    PROVE  Loose(Q, B, F, G, st, b, u)
  <1> USE DEF Loses
  <1>1. Once(Q, A, F, H, st, b, u)
    BY DEF AllOnce
  <1>2. st[u] = "ready" /\ b[u] = Default
    BY <1>1 DEF Once
  <1>3. \A l, y, j : ~Held(Q, B, F, G, u, l, y, j)
    BY <1>1 DEF Once
  <1>4. ASSUME NEW t \in Tasks \ {u} PROVE Once(Q, B, F, G, st, b, t)
    <2>1. \A l, y, j : Held(Q, B, F, G, t, l, y, j) <=> Held(Q, A, F, H, t, l, y, j)
      OBVIOUS
    <2>2. Once(Q, A, F, H, st, b, t)
      BY DEF AllOnce
    <2> QED
      BY <2>1, <2>2 DEF Once
  <1> QED
    BY <1>2, <1>3, <1>4 DEF Loose

\* A task that is made ready is loose until it is put somewhere.
LEMMA MakeReady ==
    ASSUME NEW Q, NEW A, NEW F, NEW H, NEW st \in [Tasks -> {"new", "ready", "done"}], NEW b,
           AllOnce(Q, A, F, H, st, b), NEW u \in Tasks, st[u] = "new", b[u] = Default
    PROVE  Loose(Q, A, F, H, [st EXCEPT ![u] = "ready"], b, u)
  <1> DEFINE s == [st EXCEPT ![u] = "ready"]
  <1>1. s[u] = "ready" /\ \A t \in Tasks \ {u} : s[t] = st[t]
    OBVIOUS
  <1> HIDE DEF s
  <1>2. \A k, x, i : ~Held(Q, A, F, H, u, k, x, i)
    BY DEF AllOnce, Once
  <1>3. \A t \in Tasks \ {u} : Once(Q, A, F, H, s, b, t)
    BY <1>1 DEF AllOnce, Once
  <1> QED
    BY <1>1, <1>2, <1>3 DEF Loose, s

\* A loose task that is put in one place is in one place; only a frame gives it
\* to an executor.
LEMMA Put ==
    ASSUME NEW Q, NEW R, NEW A, NEW B, NEW F, NEW G, NEW H, NEW I, NEW st, NEW b, NEW c,
           NEW u \in Tasks, Loose(Q, A, F, H, st, b, u),
           NEW k, NEW x, NEW i,
           Gains(Q, A, F, H, R, B, G, I, u, k, x, i),
           \A t \in Tasks \ {u} : c[t] = b[t],
           k = "frame" \/ c[u] = b[u]
    PROVE  AllOnce(R, B, G, I, st, c)
  <1> USE DEF Gains
  <1>1. ASSUME NEW t \in Tasks \ {u} PROVE Once(R, B, G, I, st, c, t)
    <2>1. \A l, y, j : Held(R, B, G, I, t, l, y, j) <=> Held(Q, A, F, H, t, l, y, j)
      OBVIOUS
    <2>2. Once(Q, A, F, H, st, b, t)
      BY DEF Loose
    <2> QED
      BY <2>1, <2>2 DEF Once
  <1>2. Once(R, B, G, I, st, c, u)
    <2>1. \A l, y, j : Held(R, B, G, I, u, l, y, j) <=> l = k /\ y = x /\ j = i
      BY DEF Loose
    <2>2. st[u] = "ready" /\ (c[u] = Default \/ k = "frame")
      BY DEF Loose
    <2> QED
      BY <2>1, <2>2 DEF Once
  <1> QED
    BY <1>1, <1>2 DEF AllOnce

\* A task that is finished is nowhere.
LEMMA Drop ==
    ASSUME NEW Q, NEW A, NEW F, NEW G, NEW H, NEW st \in [Tasks -> {"new", "ready", "done"}], NEW b,
           AllOnce(Q, A, F, H, st, b), NEW u \in Tasks, NEW k, NEW x, NEW i, Held(Q, A, F, H, u, k, x, i),
           Loses(Q, A, F, H, Q, A, G, H, u, k, x, i)
    PROVE  AllOnce(Q, A, G, H, [st EXCEPT ![u] = "done"], b)
  <1> USE DEF Loses
  <1> DEFINE s == [st EXCEPT ![u] = "done"]
  <1>1. s[u] = "done" /\ \A t \in Tasks \ {u} : s[t] = st[t]
    OBVIOUS
  <1> HIDE DEF s
  <1>2. ASSUME NEW t \in Tasks \ {u} PROVE Once(Q, A, G, H, s, b, t)
    <2>1. \A l, y, j : Held(Q, A, G, H, t, l, y, j) <=> Held(Q, A, F, H, t, l, y, j)
      OBVIOUS
    <2>2. Once(Q, A, F, H, st, b, t)
      BY DEF AllOnce
    <2> QED
      BY <1>1, <2>1, <2>2 DEF Once
  <1>3. Once(Q, A, G, H, s, b, u)
    <2>1. Once(Q, A, F, H, st, b, u)
      BY DEF AllOnce
    <2>2. \A l, y, j : ~Held(Q, A, G, H, u, l, y, j)
      BY <2>1 DEF Once
    <2> QED
      BY <1>1, <2>2 DEF Once
  <1>4. \A t \in Tasks : Once(Q, A, G, H, s, b, t)
    BY <1>2, <1>3
  <1> QED
    BY <1>4 DEF AllOnce, s

-----------------------------------------------------------------------------
(* The submissions still to come, as a relation on the frames F. *)

TodoIn(F, t, e, i, k) == e \in Executors /\ i \in DOMAIN F[e] /\ k \in DOMAIN F[e][i].todo /\ F[e][i].todo[k] = t

Submitted(F, st, b, t) ==
    /\ \A e, i, k, f, j, l : TodoIn(F, t, e, i, k) /\ TodoIn(F, t, f, j, l) => e = f /\ i = j /\ k = l
    /\ \A e, i, k : TodoIn(F, t, e, i, k) => st[t] = "new"
    /\ st[t] = "new" => b[t] = Default
    /\ b[t] = Default => \A i \in DOMAIN Task(t).spawns :
                            /\ st[Task(t).spawns[i]] = "new"
                            /\ \A e, j, k : ~TodoIn(F, Task(t).spawns[i], e, j, k)

AllSubmitted(F, st, b) == \A t \in Tasks : Submitted(F, st, b, t)

\* The submissions of G are those of F: without the first one of the frame n of e,
\* or with those that u, which begins there, brings.
Advances(F, G, e, n) ==
    \A t, x, i, k : TodoIn(G, t, x, i, k) =>
        IF x = e /\ i = n THEN k \in Nat /\ k > 0 /\ TodoIn(F, t, x, i, k + 1) ELSE TodoIn(F, t, x, i, k)

Brings(F, G, u, e, n) ==
    \A t, x, i, k : TodoIn(G, t, x, i, k) =>
        \/ TodoIn(F, t, x, i, k)
        \/ x = e /\ i = n /\ k \in DOMAIN Task(u).spawns /\ Task(u).spawns[k] = t

\* SubmissionsOnce is AllSubmitted of the variables.
LEMMA TodosAre == SubmissionsOnce <=> AllSubmitted(frames, state, by)
  <1>1. ASSUME NEW t, NEW e, NEW i, NEW k
        PROVE  <<e, i, k>> \in Todos(t) <=> TodoIn(frames, t, e, i, k)
    BY DEF Todos, TodoIn
  <1>2. ASSUME NEW t, NEW p \in Todos(t)
        PROVE  \E e, i, k : p = <<e, i, k>>
    BY DEF Todos
  <1>3. ASSUME NEW t
        PROVE  /\ Todos(t) = {} <=> \A e, i, k : ~TodoIn(frames, t, e, i, k)
               /\ (\A p, r \in Todos(t) : p = r) <=>
                     \A e, i, k, f, j, l : TodoIn(frames, t, e, i, k) /\ TodoIn(frames, t, f, j, l) => e = f /\ i = j /\ k = l
    <2> DEFINE P == Todos(t)
               h(k, x, i) == TodoIn(frames, t, k, x, i)
    <2>1. \A k, x, i : <<k, x, i>> \in P <=> h(k, x, i)
      BY <1>1
    <2>2. \A p \in P : \E k, x, i : p = <<k, x, i>>
      BY <1>2
    <2> HIDE DEF P, h
    <2>3. P = {} <=> \A k, x, i : ~h(k, x, i)
      <3>1. ASSUME NEW p \in P PROVE \E k, x, i : h(k, x, i)
        <4>1. PICK k, x, i : p = <<k, x, i>>
          BY <2>2
        <4>2. h(k, x, i)
          BY <4>1, <2>1
        <4> QED
          BY <4>2
      <3> QED
        BY <3>1, <2>1
    <2>4. (\A p, r \in P : p = r) <=> \A k, x, i, l, y, j : h(k, x, i) /\ h(l, y, j) => k = l /\ x = y /\ i = j
      <3>1. ASSUME \A p, r \in P : p = r, NEW k, NEW x, NEW i, NEW l, NEW y, NEW j, h(k, x, i), h(l, y, j)
            PROVE  k = l /\ x = y /\ i = j
        <4>1. <<k, x, i>> = <<l, y, j>>
          BY <3>1, <2>1
        <4> QED
          BY <4>1
      <3>2. ASSUME \A k, x, i, l, y, j : h(k, x, i) /\ h(l, y, j) => k = l /\ x = y /\ i = j,
                   NEW p \in P, NEW r \in P
            PROVE  p = r
        <4>1. PICK k, x, i : p = <<k, x, i>>
          BY <2>2
        <4>2. PICK l, y, j : r = <<l, y, j>>
          BY <2>2
        <4>3. h(k, x, i) /\ h(l, y, j)
          BY <4>1, <4>2, <2>1
        <4>4. k = l /\ x = y /\ i = j
          BY <4>3, <3>2
        <4> QED
          BY <4>1, <4>2, <4>4
      <3> QED
        BY <3>1, <3>2
    <2> QED
      BY <2>3, <2>4 DEF P, h
  <1>4. ASSUME NEW t \in Tasks
        PROVE  /\ \A p, r \in Todos(t) : p = r
               /\ Todos(t) # {} => state[t] = "new"
               /\ state[t] = "new" => by[t] = Default
               /\ by[t] = Default => \A i \in DOMAIN Task(t).spawns : /\ state[Task(t).spawns[i]] = "new"
                                                                      /\ Todos(Task(t).spawns[i]) = {}
               <=> Submitted(frames, state, by, t)
    <2>1. (Todos(t) # {} => state[t] = "new") <=> \A e, i, k : TodoIn(frames, t, e, i, k) => state[t] = "new"
      BY <1>3
    <2>2. \A c : Todos(c) = {} <=> \A e, j, k : ~TodoIn(frames, c, e, j, k)
      BY <1>3
    <2>3. (\A i \in DOMAIN Task(t).spawns : /\ state[Task(t).spawns[i]] = "new"
                                            /\ Todos(Task(t).spawns[i]) = {}) <=>
          \A i \in DOMAIN Task(t).spawns : /\ state[Task(t).spawns[i]] = "new"
                                           /\ \A e, j, k : ~TodoIn(frames, Task(t).spawns[i], e, j, k)
      BY <2>2
    <2> QED
      BY <2>1, <2>3, <1>3 DEF Submitted
  <1> QED
    BY <1>4 DEF SubmissionsOnce, AllSubmitted

\* A frame goes on to its next task: the one it adds was new and waits no more.
LEMMA SubmitNext ==
    ASSUME NEW F, NEW G, NEW st \in [Tasks -> {"new", "ready", "done"}], NEW b, AllSubmitted(F, st, b),
           NEW e, NEW n, NEW u \in Tasks, TodoIn(F, u, e, n, 1),
           program \in Programs, Advances(F, G, e, n)
    PROVE  st[u] = "new" /\ b[u] = Default /\ AllSubmitted(G, [st EXCEPT ![u] = "ready"], b)
  <1> USE DEF Advances
  <1> DEFINE s == [st EXCEPT ![u] = "ready"]
  <1>1. s[u] = "ready" /\ \A t \in Tasks \ {u} : s[t] = st[t]
    OBVIOUS
  <1> HIDE DEF s
  <1>2. st[u] = "new" /\ b[u] = Default
    BY DEF AllSubmitted, Submitted
  <1>3. ASSUME NEW x, NEW i, NEW k, TodoIn(G, u, x, i, k) PROVE FALSE
    <2>1. Submitted(F, st, b, u)
      BY DEF AllSubmitted
    <2>2. CASE x = e /\ i = n
      <3>1. k \in Nat /\ k > 0 /\ TodoIn(F, u, x, i, k + 1)
        BY <2>2, <1>3
      <3>2. k + 1 = 1
        BY <3>1, <2>1 DEF Submitted
      <3> QED
        BY <3>1, <3>2
    <2>3. CASE ~(x = e /\ i = n)
      <3>1. TodoIn(F, u, x, i, k)
        BY <2>3, <1>3
      <3> QED
        BY <3>1, <2>1, <2>3 DEF Submitted
    <2> QED
      BY <2>2, <2>3
  <1>4. ASSUME NEW t \in Tasks PROVE Submitted(G, s, b, t)
    <2>1. Submitted(F, st, b, t)
      BY DEF AllSubmitted
    <2>2. ASSUME NEW x, NEW i, NEW k, NEW y, NEW j, NEW l, TodoIn(G, t, x, i, k), TodoIn(G, t, y, j, l)
          PROVE  x = y /\ i = j /\ k = l
      <3> DEFINE pk == IF x = e /\ i = n THEN k + 1 ELSE k
                 pl == IF y = e /\ j = n THEN l + 1 ELSE l
      <3>1. TodoIn(F, t, x, i, pk) /\ (x = e /\ i = n => k \in Nat)
        BY <2>2
      <3>2. TodoIn(F, t, y, j, pl) /\ (y = e /\ j = n => l \in Nat)
        BY <2>2
      <3>3. x = y /\ i = j /\ pk = pl
        BY <3>1, <3>2, <2>1 DEF Submitted
      <3> QED
        BY <3>1, <3>2, <3>3
    <2>3. ASSUME NEW x, NEW i, NEW k, TodoIn(G, t, x, i, k) PROVE s[t] = "new"
      <3>1. t # u
        BY <2>3, <1>3
      <3>2. \E m : TodoIn(F, t, x, i, m)
        BY <2>3
      <3> QED
        BY <3>1, <3>2, <2>1, <1>1 DEF Submitted
    <2>4. s[t] = "new" => b[t] = Default
      BY <2>1, <1>1 DEF Submitted
    <2>5. ASSUME b[t] = Default, NEW i \in DOMAIN Task(t).spawns
          PROVE  s[Task(t).spawns[i]] = "new" /\ \A x, j, k : ~TodoIn(G, Task(t).spawns[i], x, j, k)
      <3> DEFINE c == Task(t).spawns[i]
      <3>1. c \in Tasks
        BY ProgramFacts
      <3>2. st[c] = "new" /\ \A x, j, k : ~TodoIn(F, c, x, j, k)
        BY <2>5, <2>1 DEF Submitted
      <3>3. c # u
        BY <3>2
      <3> HIDE DEF c
      <3>4. s[c] = "new"
        BY <3>1, <3>2, <3>3, <1>1
      <3>5. \A x, j, k : ~TodoIn(G, c, x, j, k)
        BY <3>2
      <3> QED
        BY <3>4, <3>5 DEF c
    <2> QED
      BY <2>2, <2>3, <2>4, <2>5 DEF Submitted
  <1> QED
    BY <1>2, <1>4 DEF AllSubmitted, s

\* A frame gives up tasks to add, or its next step is no task; what is new stays.
LEMMA SubmitLess ==
    ASSUME NEW F, NEW G, NEW st, NEW s, NEW b, AllSubmitted(F, st, b), program \in Programs,
           \A t \in Tasks : s[t] = "new" <=> st[t] = "new",
           NEW e, NEW n, Advances(F, G, e, n)
    PROVE  AllSubmitted(G, s, b)
  <1> USE DEF Advances
  <1>1. ASSUME NEW t \in Tasks PROVE Submitted(G, s, b, t)
    <2>1. Submitted(F, st, b, t)
      BY DEF AllSubmitted
    <2>2. ASSUME NEW x, NEW i, NEW k, NEW y, NEW j, NEW l, TodoIn(G, t, x, i, k), TodoIn(G, t, y, j, l)
          PROVE  x = y /\ i = j /\ k = l
      <3> DEFINE pk == IF x = e /\ i = n THEN k + 1 ELSE k
                 pl == IF y = e /\ j = n THEN l + 1 ELSE l
      <3>1. TodoIn(F, t, x, i, pk) /\ (x = e /\ i = n => k \in Nat)
        BY <2>2
      <3>2. TodoIn(F, t, y, j, pl) /\ (y = e /\ j = n => l \in Nat)
        BY <2>2
      <3>3. x = y /\ i = j /\ pk = pl
        BY <3>1, <3>2, <2>1 DEF Submitted
      <3> QED
        BY <3>1, <3>2, <3>3
    <2>3. ASSUME NEW x, NEW i, NEW k, TodoIn(G, t, x, i, k) PROVE s[t] = "new"
      <3>1. \E m : TodoIn(F, t, x, i, m)
        BY <2>3
      <3> QED
        BY <3>1, <2>1 DEF Submitted
    <2>4. s[t] = "new" => b[t] = Default
      BY <2>1 DEF Submitted
    <2>5. ASSUME b[t] = Default, NEW i \in DOMAIN Task(t).spawns
          PROVE  s[Task(t).spawns[i]] = "new" /\ \A x, j, k : ~TodoIn(G, Task(t).spawns[i], x, j, k)
      <3> DEFINE c == Task(t).spawns[i]
      <3>1. c \in Tasks
        BY ProgramFacts
      <3>2. st[c] = "new" /\ \A x, j, k : ~TodoIn(F, c, x, j, k)
        BY <2>5, <2>1 DEF Submitted
      <3> HIDE DEF c
      <3>3. \A x, j, k : ~TodoIn(G, c, x, j, k)
        BY <3>2
      <3> QED
        BY <3>1, <3>2, <3>3 DEF c
    <2> QED
      BY <2>2, <2>3, <2>4, <2>5 DEF Submitted
  <1> QED
    BY <1>1 DEF AllSubmitted

\* A task that begins brings the tasks it makes ready, which wait nowhere else.
LEMMA SubmitBegin ==
    ASSUME NEW F, NEW G, NEW st, NEW b \in [Tasks -> Executors \cup {Default}], AllSubmitted(F, st, b),
           program \in Programs,
           NEW u \in Tasks, b[u] = Default, st[u] # "new",
           NEW e \in Executors, NEW n, Brings(F, G, u, e, n)
    PROVE  AllSubmitted(G, st, [b EXCEPT ![u] = e])
  <1> USE DEF Brings
  <1> DEFINE c == [b EXCEPT ![u] = e]
  <1>1. c[u] # Default /\ \A t \in Tasks \ {u} : c[t] = b[t]
    BY ProgramFacts
  <1> HIDE DEF c
  <1>2. \A i \in DOMAIN Task(u).spawns :
           st[Task(u).spawns[i]] = "new" /\ \A x, j, k : ~TodoIn(F, Task(u).spawns[i], x, j, k)
    BY DEF AllSubmitted, Submitted
  <1>3. \A t \in Tasks : \A i \in DOMAIN Task(t).spawns, j \in DOMAIN Task(u).spawns :
           Task(t).spawns[i] = Task(u).spawns[j] => t = u /\ i = j
    BY ProgramsAssumption DEF SubmittedOnce, Tasks, Task
  <1>4. ASSUME NEW t \in Tasks PROVE Submitted(G, st, c, t)
    <2>1. Submitted(F, st, b, t)
      BY DEF AllSubmitted
    <2>2. ASSUME NEW x, NEW i, NEW k, NEW y, NEW j, NEW l, TodoIn(G, t, x, i, k), TodoIn(G, t, y, j, l)
          PROVE  x = y /\ i = j /\ k = l
      <3>1. CASE \E m \in DOMAIN Task(u).spawns : Task(u).spawns[m] = t
        <4>1. \A z, p, q : ~TodoIn(F, t, z, p, q)
          BY <3>1, <1>2
        <4>2. /\ x = e /\ i = n /\ k \in DOMAIN Task(u).spawns /\ Task(u).spawns[k] = t
              /\ y = e /\ j = n /\ l \in DOMAIN Task(u).spawns /\ Task(u).spawns[l] = t
          BY <4>1, <2>2
        <4> QED
          BY <4>2, <1>3
      <3>2. CASE ~\E m \in DOMAIN Task(u).spawns : Task(u).spawns[m] = t
        <4>1. TodoIn(F, t, x, i, k) /\ TodoIn(F, t, y, j, l)
          BY <3>2, <2>2
        <4> QED
          BY <4>1, <2>1 DEF Submitted
      <3> QED
        BY <3>1, <3>2
    <2>3. ASSUME NEW x, NEW i, NEW k, TodoIn(G, t, x, i, k) PROVE st[t] = "new"
      BY <2>3, <2>1, <1>2 DEF Submitted
    <2>4. st[t] = "new" => c[t] = Default
      BY <2>1, <1>1 DEF Submitted
    <2>5. ASSUME c[t] = Default, NEW i \in DOMAIN Task(t).spawns
          PROVE  st[Task(t).spawns[i]] = "new" /\ \A x, j, k : ~TodoIn(G, Task(t).spawns[i], x, j, k)
      <3>1. t # u /\ b[t] = Default
        BY <2>5, <1>1
      <3>2. st[Task(t).spawns[i]] = "new" /\ \A x, j, k : ~TodoIn(F, Task(t).spawns[i], x, j, k)
        BY <3>1, <2>1 DEF Submitted
      <3>3. \A j \in DOMAIN Task(u).spawns : Task(t).spawns[i] # Task(u).spawns[j]
        BY <3>1, <1>3
      <3> QED
        BY <3>2, <3>3
    <2> QED
      BY <2>2, <2>3, <2>4, <2>5 DEF Submitted
  <1> QED
    BY <1>4 DEF AllSubmitted, c

-----------------------------------------------------------------------------
(* What the steps do to the frames of an executor *)

\* The innermost frame of e goes on to its next task (Advanced).
LEMMA FramesAdvance ==
    ASSUME TypeOK, NEW e \in Executors, frames[e] # <<>>, Last(frames[e]).todo # <<>>
    PROVE  LET n == Len(frames[e])
               F == [frames EXCEPT ![e] = Advanced(e)]
           IN  /\ Advanced(e) \in Seq(FrameSet) /\ Len(Advanced(e)) = n /\ n \in Nat \ {0}
               /\ F \in [Executors -> Seq(FrameSet)]
               /\ \A x \in Executors : /\ DOMAIN F[x] = DOMAIN frames[x]
                                       /\ \A i \in DOMAIN frames[x] : F[x][i].tb = frames[x][i].tb
               /\ \A t, x, i, k : TodoIn(F, t, x, i, k) =>
                     IF x = e /\ i = n THEN k \in Nat /\ k > 0 /\ TodoIn(frames, t, x, i, k + 1)
                                       ELSE TodoIn(frames, t, x, i, k)
  <1> DEFINE n == Len(frames[e])
             top == [frames[e][n] EXCEPT !.todo = Tail(@)]
             F == [frames EXCEPT ![e] = Advanced(e)]
  <1>1. /\ frames \in [Executors -> Seq(FrameSet)] /\ frames[e] \in Seq(FrameSet)
        /\ n \in Nat \ {0} /\ DOMAIN frames[e] = 1 .. n /\ frames[e][n] \in FrameSet
    BY DEF TypeOK, ThreadsTyped
  <1>2. frames[e][n].todo # <<>> /\ frames[e][n].todo \in Seq(Tasks \cup {Loop})
    BY <1>1 DEF Last, FrameSet
  <1>3. /\ Tail(frames[e][n].todo) \in Seq(Tasks \cup {Loop})
        /\ Len(frames[e][n].todo) \in Nat /\ DOMAIN frames[e][n].todo = 1 .. Len(frames[e][n].todo)
        /\ DOMAIN Tail(frames[e][n].todo) = 1 .. (Len(frames[e][n].todo) - 1)
        /\ \A k \in 1 .. (Len(frames[e][n].todo) - 1) : Tail(frames[e][n].todo)[k] = frames[e][n].todo[k + 1]
    BY <1>2
  <1>4. top \in FrameSet /\ top.tb = frames[e][n].tb /\ top.todo = Tail(frames[e][n].todo)
    BY <1>1, <1>3 DEF FrameSet
  <1>5. Advanced(e) = Front(frames[e]) \o <<top>>
    BY DEF Advanced, Top, Last
  <1> HIDE DEF top
  <1>6. /\ Front(frames[e]) \in Seq(FrameSet) /\ Len(Front(frames[e])) = n - 1
        /\ \A i \in 1 .. (n - 1) : Front(frames[e])[i] = frames[e][i]
    BY <1>1 DEF Front
  <1>7. /\ Advanced(e) \in Seq(FrameSet) /\ Len(Advanced(e)) = n /\ DOMAIN Advanced(e) = 1 .. n
        /\ \A i \in 1 .. (n - 1) : Advanced(e)[i] = frames[e][i]
        /\ Advanced(e)[n] = top
    <2> DEFINE s == Front(frames[e])
    <2>1. s \in Seq(FrameSet) /\ Len(s) = n - 1 /\ n - 1 \in Nat /\ n = Len(s) + 1
      BY <1>1, <1>6
    <2> HIDE DEF s
    <2>2. /\ s \o <<top>> \in Seq(FrameSet) /\ Len(s \o <<top>>) = Len(s) + 1
          /\ (s \o <<top>>)[Len(s) + 1] = top
          /\ \A i \in 1 .. Len(s) : (s \o <<top>>)[i] = s[i]
      BY <2>1, <1>4
    <2>3. Advanced(e) = s \o <<top>>
      BY <1>5 DEF s
    <2>4. \A i \in 1 .. (n - 1) : s[i] = frames[e][i]
      BY <1>6 DEF s
    <2>5. Advanced(e) \in Seq(FrameSet) /\ Len(Advanced(e)) = n /\ Advanced(e)[n] = top
      BY <2>1, <2>2, <2>3
    <2> QED
      BY <2>1, <2>2, <2>3, <2>4, <2>5
  <1>8. /\ F \in [Executors -> Seq(FrameSet)] /\ F[e] = Advanced(e)
        /\ \A x \in Executors : x # e => F[x] = frames[x]
    BY <1>1, <1>7
  <1> HIDE DEF F
  <1>9. ASSUME NEW x \in Executors
        PROVE  /\ DOMAIN F[x] = DOMAIN frames[x]
               /\ \A i \in DOMAIN frames[x] : F[x][i].tb = frames[x][i].tb
    <2>1. CASE x = e
      <3>1. DOMAIN F[e] = 1 .. n
        BY <1>7, <1>8
      <3>2. F[e][n].tb = frames[e][n].tb
        BY <1>4, <1>7, <1>8
      <3>3. \A i \in 1 .. (n - 1) : F[e][i] = frames[e][i]
        BY <1>7, <1>8
      <3>4. \A i \in 1 .. n : i = n \/ i \in 1 .. (n - 1)
        <4> n \in Nat
          BY <1>1
        <4> HIDE DEF n
        <4> QED
          OBVIOUS
      <3> QED
        BY <2>1, <1>1, <3>1, <3>2, <3>3, <3>4
    <2>2. CASE x # e
      BY <2>2, <1>8
    <2> QED
      BY <2>1, <2>2
  <1>10. ASSUME NEW t, NEW x, NEW i, NEW k, TodoIn(F, t, x, i, k)
         PROVE  IF x = e /\ i = n THEN k \in Nat /\ k > 0 /\ TodoIn(frames, t, x, i, k + 1)
                                  ELSE TodoIn(frames, t, x, i, k)
    <2>1. CASE x = e /\ i = n
      <3> DEFINE d == frames[e][n].todo
      <3>1. F[e][n].todo = Tail(d)
        BY <1>4, <1>7, <1>8
      <3>2. k \in DOMAIN Tail(d) /\ Tail(d)[k] = t
        BY <2>1, <3>1, <1>10 DEF TodoIn
      <3> HIDE DEF d
      <3>3. k \in Nat /\ k > 0 /\ k + 1 \in DOMAIN d /\ d[k + 1] = t
        BY <3>2, <1>3 DEF d
      <3>4. n \in DOMAIN frames[e]
        BY <1>1
      <3> QED
        BY <2>1, <3>3, <3>4 DEF TodoIn, d
    <2>2. CASE x = e /\ i # n
      <3>1. i \in 1 .. (n - 1)
        BY <2>2, <1>1, <1>7, <1>8, <1>10 DEF TodoIn
      <3> QED
        BY <3>1, <2>2, <1>1, <1>7, <1>8, <1>10 DEF TodoIn
    <2>3. CASE x # e
      BY <2>3, <1>8, <1>10 DEF TodoIn
    <2> QED
      BY <2>1, <2>2, <2>3
  <1> QED
    BY <1>1, <1>7, <1>8, <1>9, <1>10 DEF F

FrameIn(F, t, x, i) == x \in Executors /\ i \in DOMAIN F[x] /\ F[x][i].tb = t

\* The frame f has been pushed on the stack of e, as its frame n.
Pushed(F, G, e, n, f) ==
    /\ \A t, x, i : FrameIn(G, t, x, i) <=> FrameIn(F, t, x, i) \/ (x = e /\ i = n /\ t = f.tb)
    /\ \A t, x, i, k : TodoIn(G, t, x, i, k) =>
          TodoIn(F, t, x, i, k) \/ (x = e /\ i = n /\ k \in DOMAIN f.todo /\ f.todo[k] = t)

Push(F, G, e, f) == G = [F EXCEPT ![e] = Append(F[e], f)]

\* A task is run in a frame of its own (Invoke).
LEMMA FramesPush ==
    ASSUME NEW F \in [Executors -> Seq(FrameSet)], NEW e \in Executors, NEW f \in FrameSet,
           NEW G, Push(F, G, e, f), NEW n, n = Len(F[e]) + 1
    PROVE  /\ G \in [Executors -> Seq(FrameSet)]
           /\ Pushed(F, G, e, n, f)
  <1>1. F[e] \in Seq(FrameSet) /\ Len(F[e]) \in Nat /\ n \in Nat \ {0} /\ DOMAIN F[e] = 1 .. (n - 1)
    OBVIOUS
  <1>3. /\ Append(F[e], f) \in Seq(FrameSet) /\ DOMAIN Append(F[e], f) = 1 .. n
        /\ \A i \in 1 .. (n - 1) : Append(F[e], f)[i] = F[e][i]
        /\ Append(F[e], f)[n] = f
    BY <1>1
  <1>4. G \in [Executors -> Seq(FrameSet)] /\ G[e] = Append(F[e], f) /\ \A x \in Executors : x # e => G[x] = F[x]
    BY <1>3 DEF Push
  <1>5. \A i : i \in 1 .. (n - 1) <=> i \in 1 .. n /\ i # n
    BY <1>1
  <1>7. n \in 1 .. n
    BY <1>1
  <1>8. ASSUME NEW t, NEW x, NEW i
        PROVE  FrameIn(G, t, x, i) <=> FrameIn(F, t, x, i) \/ (x = e /\ i = n /\ t = f.tb)
    <2>1. CASE x = e /\ i = n
      <3>1. FrameIn(G, t, x, i) <=> t = f.tb
        BY <2>1, <1>3, <1>4, <1>7 DEF FrameIn
      <3>2. ~FrameIn(F, t, x, i)
        BY <2>1, <1>1, <1>5 DEF FrameIn
      <3> QED
        BY <3>1, <3>2, <2>1
    <2>2. CASE x = e /\ i # n
      <3>1. FrameIn(G, t, x, i) <=> i \in 1 .. (n - 1) /\ F[e][i].tb = t
        BY <2>2, <1>3, <1>4, <1>5 DEF FrameIn
      <3> QED
        BY <3>1, <2>2, <1>1 DEF FrameIn
    <2>3. CASE x # e
      BY <2>3, <1>4 DEF FrameIn
    <2> QED
      BY <2>1, <2>2, <2>3
  <1>9. ASSUME NEW t, NEW x, NEW i, NEW k, TodoIn(G, t, x, i, k), ~TodoIn(F, t, x, i, k)
        PROVE  x = e /\ i = n /\ k \in DOMAIN f.todo /\ f.todo[k] = t
    <2>1. x = e
      BY <1>4, <1>9 DEF TodoIn
    <2>2. i = n
      BY <2>1, <1>1, <1>3, <1>4, <1>5, <1>9 DEF TodoIn
    <2>3. k \in DOMAIN f.todo /\ f.todo[k] = t
      BY <2>1, <2>2, <1>3, <1>4, <1>9 DEF TodoIn
    <2> QED
      BY <2>1, <2>2, <2>3
  <1> QED
    BY <1>4, <1>8, <1>9 DEF Pushed

\* The frame of a task brings what the task makes ready, the ult's brings nothing.
LEMMA FrameType ==
    ASSUME program \in Programs
    PROVE  /\ \A u \in Tasks : Frame(u) \in FrameSet /\ Frame(u).tb = u /\ Frame(u).todo = Task(u).spawns
           /\ Frame(Ult) \in FrameSet /\ Frame(Ult).tb = Ult /\ Frame(Ult).todo = <<>>
  <1>1. ASSUME NEW u \in Tasks PROVE Frame(u) \in FrameSet /\ Frame(u).tb = u /\ Frame(u).todo = Task(u).spawns
    <2>1. u # Ult /\ Task(u).spawns \in Seq(Tasks)
      BY ProgramFacts
    <2>2. Task(u).spawns \in Seq(Tasks \cup {Loop})
      BY <2>1
    <2> QED
      BY <2>1, <2>2 DEF Frame, FrameSet
  <1> QED
    BY <1>1 DEF Frame, FrameSet

\* The frame n of e, its innermost, is gone.
Popped(F, G, e, n) ==
    /\ \A t, x, i : FrameIn(G, t, x, i) <=> FrameIn(F, t, x, i) /\ ~(x = e /\ i = n)
    /\ \A t, x, i, k : TodoIn(G, t, x, i, k) => TodoIn(F, t, x, i, k) /\ ~(x = e /\ i = n)

\* The innermost frame of e is gone (Front).
LEMMA FramesPop ==
    ASSUME NEW F \in [Executors -> Seq(FrameSet)], NEW e \in Executors, F[e] # <<>>,
           NEW G, G = [F EXCEPT ![e] = Front(F[e])], NEW n, n = Len(F[e])
    PROVE  /\ G \in [Executors -> Seq(FrameSet)]
           /\ Popped(F, G, e, n)
           /\ n \in DOMAIN F[e] /\ Last(F[e]) = F[e][n] /\ F[e][n] \in FrameSet
  <1>1. F[e] \in Seq(FrameSet) /\ n \in Nat \ {0} /\ DOMAIN F[e] = 1 .. n
    OBVIOUS
  <1>2. /\ Front(F[e]) \in Seq(FrameSet) /\ DOMAIN Front(F[e]) = 1 .. (n - 1)
        /\ \A i \in 1 .. (n - 1) : Front(F[e])[i] = F[e][i]
    BY <1>1 DEF Front
  <1>3. G \in [Executors -> Seq(FrameSet)] /\ G[e] = Front(F[e]) /\ \A x \in Executors : x # e => G[x] = F[x]
    BY <1>2
  <1>4. n \in DOMAIN F[e] /\ Last(F[e]) = F[e][n] /\ F[e][n] \in FrameSet
    BY <1>1 DEF Last
  <1>5. \A i : i \in 1 .. (n - 1) <=> i \in 1 .. n /\ i # n
    BY <1>1
  <1>6. \A t, x, i : FrameIn(G, t, x, i) <=> FrameIn(F, t, x, i) /\ ~(x = e /\ i = n)
    BY <1>1, <1>2, <1>3, <1>5 DEF FrameIn
  <1>7. \A t, x, i, k : TodoIn(G, t, x, i, k) => TodoIn(F, t, x, i, k) /\ ~(x = e /\ i = n)
    BY <1>1, <1>2, <1>3, <1>5 DEF TodoIn
  <1> QED
    BY <1>3, <1>4, <1>6, <1>7 DEF Popped

-----------------------------------------------------------------------------
(* Parts of the induction step that many actions share *)

\* The configuration never changes, and with it the sets the types are made of.
LEMMA SetsUnchanged ==
    ASSUME UNCHANGED <<program, eidSet>>
    PROVE  /\ Executors' = Executors /\ Tasks' = Tasks /\ QueueSet' = QueueSet /\ AddQueues' = AddQueues
           /\ FrameSet' = FrameSet /\ AddSet' = AddSet /\ SearchSet' = SearchSet
           /\ \A t : Task(t)' = Task(t)
  <1>1. Executors' = Executors /\ Tasks' = Tasks /\ QueueSet' = QueueSet
    BY DEF Executors, Tasks, QueueSet, QueueIds
  <1>2. AddQueues' = AddQueues
    BY <1>1 DEF AddQueues
  <1> QED
    BY <1>1, <1>2 DEF FrameSet, AddSet, SearchSet, Task

\* From the relations to the invariants after the step.
LEMMA OnceAfter ==
    ASSUME UNCHANGED <<program, eidSet>>, DOMAIN queue' = QueueSet,
           AllOnce(queue', adding', frames', heap', state', by'), AllSubmitted(frames', state', by')
    PROVE  InOnePlace' /\ NotBegun' /\ SubmissionsOnce'
  <1>1. (DOMAIN queue = QueueSet => (InOnePlace /\ NotBegun <=> AllOnce(queue, adding, frames, heap, state, by)))'
    BY PlacesAreHeld, PTL
  <1>2. (SubmissionsOnce <=> AllSubmitted(frames, state, by))'
    BY TodosAre, PTL
  <1>3. AllOnce(queue, adding, frames, heap, state, by)'
    <2>1. \A t, k, x, i : Held(queue, adding, frames, heap, t, k, x, i)' <=>
                          Held(queue', adding', frames', heap', t, k, x, i)
      BY SetsUnchanged DEF Held
    <2>2. ASSUME NEW t \in Tasks PROVE Once(queue, adding, frames, heap, state, by, t)'
      <3>1. Once(queue', adding', frames', heap', state', by', t)
        BY DEF AllOnce
      <3>2. Default' = Default
        BY DEF Default
      <3> QED
        BY <2>1, <3>1, <3>2 DEF Once
    <2> QED
      BY <2>2, SetsUnchanged DEF AllOnce
  <1>4. AllSubmitted(frames, state, by)'
    BY SetsUnchanged DEF AllSubmitted, Submitted, TodoIn
  <1> QED
    BY <1>1, <1>2, <1>3, <1>4, SetsUnchanged

\* The relations before a step.
LEMMA OnceBefore ==
    ASSUME IInv
    PROVE  /\ AllOnce(queue, adding, frames, heap, state, by) /\ AllSubmitted(frames, state, by)
           /\ TypeOK /\ program \in Programs
  BY PlacesAreHeld, TodosAre DEF IInv, TypeOK, QueuesTyped

\* A step that leaves the priority queue alone, for executors outside it.
LEMMA LockQuiet ==
    ASSUME IInv, UNCHANGED <<program, eidSet, heap, getLock, tbCnt>>, queue'[Ring] = queue[Ring],
           \A x \in Executors :
              \/ search'[x] = search[x]
              \/ /\ search[x].phase # "drain" /\ search'[x].phase # "drain"
                 /\ search'[x].phase # "look" => search'[x].todo # <<>> /\ Head(search'[x].todo) = Ring
    PROVE  LockHeld' /\ SeenKept' /\ HintTrue'
  <1>1. LockHeld'
    BY SetsUnchanged DEF IInv, LockHeld
  <1>2. SeenKept'
    BY SetsUnchanged DEF IInv, SeenKept, SeenIn
  <1>3. HintTrue'
    BY DEF IInv, HintTrue
  <1> QED
    BY <1>1, <1>2, <1>3

\* The same places, or the same tasks in the same frames.
LEMMA OnceSame ==
    ASSUME NEW Q, NEW A, NEW B, NEW F, NEW G, NEW H, NEW st, NEW b, AllOnce(Q, A, F, H, st, b),
           \A x \in Executors : B[x].tb = A[x].tb,
           \A t \in Tasks : \A x, i : FrameIn(G, t, x, i) <=> FrameIn(F, t, x, i)
    PROVE  AllOnce(Q, B, G, H, st, b)
  <1>1. \A t \in Tasks : \A k, x, i : Held(Q, B, G, H, t, k, x, i) <=> Held(Q, A, F, H, t, k, x, i)
    BY DEF Held, FrameIn
  <1> QED
    BY <1>1 DEF AllOnce, Once

Gives(b, c, u, e) == c = [b EXCEPT ![u] = e]

\* A loose task begins on e (tb->ops->invoke).
LEMMA Begin ==
    ASSUME program \in Programs,
           NEW Q, NEW A, NEW F \in [Executors -> Seq(FrameSet)], NEW H, NEW st, NEW b \in [Tasks -> Executors \cup {Default}],
           NEW e \in Executors, NEW u \in Tasks,
           Loose(Q, A, F, H, st, b, u), AllSubmitted(F, st, b),
           NEW G, Push(F, G, e, Frame(u)), NEW c, Gives(b, c, u, e)
    PROVE  /\ G \in [Executors -> Seq(FrameSet)] /\ c \in [Tasks -> Executors \cup {Default}]
           /\ AllOnce(Q, A, G, H, st, c) /\ AllSubmitted(G, st, c)
  <1> DEFINE n == Len(F[e]) + 1
  <1>1. /\ \A t, x, i : FrameIn(G, t, x, i) <=> FrameIn(F, t, x, i) \/ (x = e /\ i = n /\ t = u)
        /\ Brings(F, G, u, e, n)
        /\ G \in [Executors -> Seq(FrameSet)]
    <2> DEFINE f == Frame(u)
    <2>1. f \in FrameSet /\ f.tb = u /\ f.todo = Task(u).spawns
      BY FrameType
    <2>2. Push(F, G, e, f) /\ n = Len(F[e]) + 1
      OBVIOUS
    <2> HIDE DEF f, n
    <2>3. Pushed(F, G, e, n, f) /\ G \in [Executors -> Seq(FrameSet)]
      BY <2>1, <2>2, FramesPush
    <2> QED
      BY <2>1, <2>3 DEF Brings, Pushed
  <1>2. /\ c = [b EXCEPT ![u] = e] /\ c \in [Tasks -> Executors \cup {Default}]
        /\ \A t \in Tasks \ {u} : c[t] = b[t]
    BY DEF Gives
  <1>3. b[u] = Default /\ st[u] # "new"
    BY DEF Loose
  <1> HIDE DEF n
  <1>4. AllSubmitted(G, st, [b EXCEPT ![u] = e])
    BY <1>1, <1>3, SubmitBegin
  <1>5. ASSUME NEW t \in Tasks, NEW l, NEW y, NEW j
        PROVE  Held(Q, A, G, H, t, l, y, j) <=>
                  Held(Q, A, F, H, t, l, y, j) \/ (t = u /\ l = "frame" /\ y = e /\ j = n)
    <2>1. FrameIn(G, t, y, j) <=> FrameIn(F, t, y, j) \/ (y = e /\ j = n /\ t = u)
      BY <1>1
    <2>2. CASE l = "frame"
      BY <2>1, <2>2 DEF Held, FrameIn
    <2>3. CASE l # "frame"
      BY <2>3 DEF Held
    <2> QED
      BY <2>2, <2>3
  <1>6. AllOnce(Q, A, G, H, st, c)
    <2>1. Gains(Q, A, F, H, Q, A, G, H, u, "frame", e, n)
      BY <1>5 DEF Gains
    <2> QED
      BY <2>1, <1>2, Put
  <1> QED
    BY <1>1, <1>2, <1>4, <1>6

\* The ult of a loop begins on e; it is no task.
LEMMA BeginUlt ==
    ASSUME program \in Programs,
           NEW Q, NEW A, NEW F \in [Executors -> Seq(FrameSet)], NEW H, NEW st, NEW b,
           NEW e \in Executors, AllOnce(Q, A, F, H, st, b), AllSubmitted(F, st, b),
           NEW G, Push(F, G, e, Frame(Ult))
    PROVE  /\ G \in [Executors -> Seq(FrameSet)]
           /\ AllOnce(Q, A, G, H, st, b) /\ AllSubmitted(G, st, b)
  <1> DEFINE n == Len(F[e]) + 1
  <1>0. Ult \notin Tasks
    BY ProgramFacts
  <1>1. /\ \A t, x, i : FrameIn(G, t, x, i) <=> FrameIn(F, t, x, i) \/ (x = e /\ i = n /\ t = Ult)
        /\ \A t, x, i, k : TodoIn(G, t, x, i, k) => TodoIn(F, t, x, i, k)
        /\ G \in [Executors -> Seq(FrameSet)]
    <2> DEFINE f == Frame(Ult)
    <2>1. f \in FrameSet /\ f.tb = Ult /\ f.todo = <<>>
      BY FrameType
    <2>2. Push(F, G, e, f) /\ n = Len(F[e]) + 1
      OBVIOUS
    <2> HIDE DEF f, n
    <2>3. Pushed(F, G, e, n, f) /\ G \in [Executors -> Seq(FrameSet)]
      BY <2>1, <2>2, FramesPush
    <2> QED
      BY <2>1, <2>3 DEF Pushed
  <1> HIDE DEF n
  <1>2. AllOnce(Q, A, G, H, st, b)
    BY <1>0, <1>1, OnceSame
  <1>3. ASSUME NEW t \in Tasks PROVE Submitted(G, st, b, t)
    <2>1. Submitted(F, st, b, t)
      BY DEF AllSubmitted
    <2>2. \A v, x, i, k : ~TodoIn(F, v, x, i, k) => ~TodoIn(G, v, x, i, k)
      BY <1>1
    <2> QED
      BY <1>1, <2>1, <2>2, Zenon DEF Submitted
  <1> QED
    BY <1>1, <1>2, <1>3 DEF AllSubmitted

\* The parts of the invariant after a step.
LEMMA Assemble ==
    ASSUME IInv, UNCHANGED <<program, eidSet>>,
           queue' \in [QueueSet -> Seq(Tasks \cup {Ult})],
           \A q \in QueueSet : queue'[q] \in IF q[1] = "slot" THEN Seq({Ult}) ELSE Seq(Tasks),
           frames' \in [Executors -> Seq(FrameSet)], adding' \in [Executors -> AddSet],
           search' \in [Executors -> SearchSet], lastSteal' \in [Executors -> Executors \cup {Default}],
           getLock' \in Executors \cup {Default}, heap' \in SUBSET Tasks, IsFiniteSet(heap'),
           state' \in [Tasks -> {"new", "ready", "done"}], by' \in [Tasks -> Executors \cup {Default}],
           \A x \in Executors : search'[x].stage = "steal" /\ search'[x].todo # <<>> =>
                                   \E v \in Executors : Last(search'[x].todo) = Local(v),
           AllOnce(queue', adding', frames', heap', state', by'), AllSubmitted(frames', state', by'),
           LockHeld', SeenKept', HintTrue'
    PROVE  IInv'
  <1>1. TypeOK'
    <2>1. QueuesTyped'
      BY SetsUnchanged DEF IInv, TypeOK, QueuesTyped
    <2>2. ThreadsTyped'
      BY SetsUnchanged DEF ThreadsTyped, Default
    <2> QED
      BY <2>1, <2>2, SetsUnchanged DEF IInv, TypeOK, Default
  <1>2. StealsFromVictim'
    BY SetsUnchanged DEF StealsFromVictim, Last, Local
  <1>3. InOnePlace' /\ NotBegun' /\ SubmissionsOnce'
    BY OnceAfter
  <1> QED
    BY <1>1, <1>2, <1>3 DEF IInv

\* The types before a step, one by one.
LEMMA TypesBefore ==
    ASSUME IInv
    PROVE  /\ program \in Programs
           /\ queue \in [QueueSet -> Seq(Tasks \cup {Ult})]
           /\ \A q \in QueueSet : queue[q] \in IF q[1] = "slot" THEN Seq({Ult}) ELSE Seq(Tasks)
           /\ frames \in [Executors -> Seq(FrameSet)] /\ adding \in [Executors -> AddSet]
           /\ search \in [Executors -> SearchSet] /\ lastSteal \in [Executors -> Executors \cup {Default}]
           /\ getLock \in Executors \cup {Default} /\ heap \in SUBSET Tasks /\ IsFiniteSet(heap)
           /\ state \in [Tasks -> {"new", "ready", "done"}] /\ by \in [Tasks -> Executors \cup {Default}]
           /\ \A x \in Executors : search[x].stage = "steal" /\ search[x].todo # <<>> =>
                                      \E v \in Executors : Last(search[x].todo) = Local(v)
  BY DEF IInv, TypeOK, QueuesTyped, ThreadsTyped, StealsFromVictim

-----------------------------------------------------------------------------
(* The steps of an executor, one lemma per action *)

SameFrames(F, G) == \A t \in Tasks : \A x, i : FrameIn(G, t, x, i) <=> FrameIn(F, t, x, i)

\* The innermost frame of e has gone on to its next task (Advanced).
LEMMA FramesAdvanced ==
    ASSUME TypeOK, NEW e \in Executors, frames[e] # <<>>, Last(frames[e]).todo # <<>>,
           NEW G, G = [frames EXCEPT ![e] = Advanced(e)], NEW n, n = Len(frames[e])
    PROVE  /\ G \in [Executors -> Seq(FrameSet)] /\ G[e] = Advanced(e)
           /\ SameFrames(frames, G) /\ Advances(frames, G, e, n)
           /\ TodoIn(frames, Head(Last(frames[e]).todo), e, n, 1)
  <1> DEFINE F == [frames EXCEPT ![e] = Advanced(e)]
  <1>1. frames \in [Executors -> Seq(FrameSet)] /\ frames[e] \in Seq(FrameSet)
    BY DEF TypeOK, ThreadsTyped
  <1>2. F[e] = Advanced(e)
    BY <1>1
  <1>3. F \in [Executors -> Seq(FrameSet)]
    BY FramesAdvance
  <1>4. \A x \in Executors : /\ DOMAIN F[x] = DOMAIN frames[x]
                             /\ \A i \in DOMAIN frames[x] : F[x][i].tb = frames[x][i].tb
    BY FramesAdvance
  <1>5. \A t, x, i, k : TodoIn(F, t, x, i, k) =>
           IF x = e /\ i = n THEN k \in Nat /\ k > 0 /\ TodoIn(frames, t, x, i, k + 1)
                             ELSE TodoIn(frames, t, x, i, k)
    BY FramesAdvance
  <1>6. n \in DOMAIN frames[e] /\ frames[e][n] \in FrameSet /\ Last(frames[e]) = frames[e][n]
    BY <1>1 DEF Last
  <1>7. frames[e][n].todo \in Seq(Tasks \cup {Loop}) /\ frames[e][n].todo # <<>>
    BY <1>6 DEF FrameSet
  <1>8. 1 \in DOMAIN frames[e][n].todo /\ Head(frames[e][n].todo) = frames[e][n].todo[1]
    BY <1>7
  <1>9. G = F
    OBVIOUS
  <1> HIDE DEF F
  <1>10. SameFrames(frames, F) /\ Advances(frames, F, e, n)
    BY <1>4, <1>5 DEF SameFrames, Advances, FrameIn
  <1> QED
    BY <1>2, <1>3, <1>6, <1>8, <1>9, <1>10 DEF TodoIn

\* A loose task stays loose while frames only go on.
LEMMA LooseSame ==
    ASSUME NEW Q, NEW A, NEW F, NEW G, NEW H, NEW st, NEW b, NEW u \in Tasks, Loose(Q, A, F, H, st, b, u),
           SameFrames(F, G)
    PROVE  Loose(Q, A, G, H, st, b, u)
  <1>1. ASSUME NEW t \in Tasks, NEW k, NEW x, NEW i
        PROVE  Held(Q, A, G, H, t, k, x, i) <=> Held(Q, A, F, H, t, k, x, i)
    BY DEF Held, FrameIn, SameFrames
  <1> QED
    BY <1>1 DEF Loose, Once

\* The add of e starts with the task u, or is over.
LEMMA AddingMoves ==
    ASSUME program \in Programs, NEW Q, NEW F, NEW H, NEW A \in [Executors -> AddSet], NEW B,
           NEW e \in Executors, NEW u \in Tasks,
           \A x \in Executors : x # e => B[x] = A[x]
    PROVE  /\ A[e] = NoAdd /\ B[e].tb = u => Gains(Q, A, F, H, Q, B, F, H, u, "adding", e, 1)
           /\ A[e].tb = u /\ B[e] = NoAdd => Loses(Q, A, F, H, Q, B, F, H, u, "adding", e, 1)
                                             /\ Held(Q, A, F, H, u, "adding", e, 1)
  <1>1. NoAdd.tb = Loop /\ Loop \notin Tasks
    BY ProgramFacts DEF NoAdd
  <1>2. ASSUME A[e] = NoAdd, B[e].tb = u, NEW t \in Tasks, NEW l, NEW y, NEW j
        PROVE  Held(Q, B, F, H, t, l, y, j) <=>
                   Held(Q, A, F, H, t, l, y, j) \/ (t = u /\ l = "adding" /\ y = e /\ j = 1)
    <2>1. CASE l = "adding" /\ y = e
      BY <1>1, <1>2, <2>1 DEF Held
    <2>2. CASE l = "adding" /\ y # e
      BY <1>1, <1>2, <2>2 DEF Held
    <2>3. CASE l # "adding"
      BY <2>3 DEF Held
    <2> QED
      BY <2>1, <2>2, <2>3
  <1>3. ASSUME A[e].tb = u, B[e] = NoAdd, NEW t \in Tasks, NEW l, NEW y, NEW j
        PROVE  Held(Q, B, F, H, t, l, y, j) <=>
                   Held(Q, A, F, H, t, l, y, j) /\ ~(t = u /\ l = "adding" /\ y = e /\ j = 1)
    <2>1. CASE l = "adding" /\ y = e
      BY <1>1, <1>3, <2>1 DEF Held
    <2>2. CASE l = "adding" /\ y # e
      BY <1>1, <1>3, <2>2 DEF Held
    <2>3. CASE l # "adding"
      BY <2>3 DEF Held
    <2> QED
      BY <2>1, <2>2, <2>3
  <1>4. A[e].tb = u => Held(Q, A, F, H, u, "adding", e, 1)
    BY DEF Held
  <1> QED
    BY <1>2, <1>3, <1>4 DEF Gains, Loses

\* A task is made ready and run at once, or given to the plugin (kupl_sched_add_tb).
LEMMA AddTbStep == ASSUME IInv, NEW e \in Executors, AddTb(e)
                   PROVE  IInv'
  <1> DEFINE t == Head(TopTodo(e))
             n == Len(frames[e])
             F == [frames EXCEPT ![e] = Advanced(e)]
  <1>1. /\ program \in Programs /\ TypeOK
        /\ AllOnce(queue, adding, frames, heap, state, by) /\ AllSubmitted(frames, state, by)
    BY OnceBefore
  <1>2. /\ frames[e] # <<>> /\ Last(frames[e]).todo # <<>> /\ t = Head(Last(frames[e]).todo) /\ t # Loop
        /\ adding[e] = NoAdd
    BY DEF AddTb, TopTodo, Top, Free
  <1>3. F \in [Executors -> Seq(FrameSet)] /\ F[e] = Advanced(e)
    BY <1>1, <1>2, FramesAdvanced
  <1>4. SameFrames(frames, F) /\ Advances(frames, F, e, n) /\ TodoIn(frames, t, e, n, 1)
    BY <1>1, <1>2, FramesAdvanced
  <1>5. t \in Tasks
    <2>1. frames[e] \in Seq(FrameSet)
      BY TypesBefore
    <2>2. Last(frames[e]) \in FrameSet
      BY <2>1, <1>2 DEF Last
    <2>3. Last(frames[e]).todo \in Seq(Tasks \cup {Loop})
      BY <2>2 DEF FrameSet
    <2> QED
      BY <2>3, <1>2
  <1>6. /\ UNCHANGED <<program, eidSet, queue, heap, tbCnt, getLock, lastSteal, search>>
        /\ state' = [state EXCEPT ![t] = "ready"]
    BY DEF AddTb
  <1>7. \/ /\ frames' = [frames EXCEPT ![e] = Append(Advanced(e), Frame(t))]
           /\ by' = [by EXCEPT ![t] = e] /\ adding' = adding
        \/ /\ adding' = [adding EXCEPT ![e] = [tb |-> t, todo |-> PluginAdd(e, t)]]
           /\ frames' = F /\ by' = by
    BY DEF AddTb, Invoke
  <1>8. state' \in [Tasks -> {"new", "ready", "done"}]
    BY <1>6, TypesBefore
  <1>9. frames' = [F EXCEPT ![e] = Append(F[e], Frame(t))] \/ frames' # [frames EXCEPT ![e] = Append(Advanced(e), Frame(t))]
    <2>1. [F EXCEPT ![e] = Append(Advanced(e), Frame(t))] = [frames EXCEPT ![e] = Append(Advanced(e), Frame(t))]
      BY TypesBefore
    <2> QED
      BY <2>1, <1>3
  <1>10. PluginAdd(e, t) \in Seq(AddQueues)
    BY <1>1, <1>5, PluginAddType
  <1> HIDE DEF t, n, F
  <1>11. state[t] = "new" /\ by[t] = Default /\ AllSubmitted(F, state', by)
    <2>1. state \in [Tasks -> {"new", "ready", "done"}]
      BY TypesBefore
    <2>2. state[t] = "new" /\ by[t] = Default /\ AllSubmitted(F, [state EXCEPT ![t] = "ready"], by)
      BY <2>1, <1>1, <1>4, <1>5, SubmitNext
    <2> QED
      BY <2>2, <1>6
  <1>12. Loose(queue, adding, frames, heap, state', by, t)
    BY <1>1, <1>5, <1>6, <1>11, TypesBefore, MakeReady
  <1>13. Loose(queue, adding, F, heap, state', by, t)
    BY <1>4, <1>5, <1>12, LooseSame
  <1>14. LockHeld' /\ SeenKept' /\ HintTrue'
    BY <1>6, LockQuiet
  <1>15. CASE /\ frames' = [frames EXCEPT ![e] = Append(Advanced(e), Frame(t))]
              /\ by' = [by EXCEPT ![t] = e] /\ adding' = adding
    <2>1. Push(F, frames', e, Frame(t))
      BY <1>9, <1>15 DEF Push
    <2>2. Gives(by, by', t, e)
      BY <1>15 DEF Gives
    <2>3. by \in [Tasks -> Executors \cup {Default}]
      BY TypesBefore
    <2>4. /\ frames' \in [Executors -> Seq(FrameSet)] /\ by' \in [Tasks -> Executors \cup {Default}]
          /\ AllOnce(queue, adding, frames', heap, state', by') /\ AllSubmitted(frames', state', by')
      BY <2>1, <2>2, <2>3, <1>1, <1>3, <1>5, <1>11, <1>13, Begin
    <2> QED
      BY <2>4, <1>6, <1>8, <1>14, <1>15, TypesBefore, Assemble
  <1>16. CASE /\ adding' = [adding EXCEPT ![e] = [tb |-> t, todo |-> PluginAdd(e, t)]]
              /\ frames' = F /\ by' = by
    <2>1. /\ adding' \in [Executors -> AddSet] /\ adding'[e].tb = t
          /\ \A x \in Executors : x # e => adding'[x] = adding[x]
      <3>1. [tb |-> t, todo |-> PluginAdd(e, t)] \in AddSet
        BY <1>5, <1>10 DEF AddSet
      <3> QED
        BY <3>1, <1>16, TypesBefore
    <2>2. Gains(queue, adding, F, heap, queue, adding', F, heap, t, "adding", e, 1)
      BY <2>1, <1>1, <1>2, <1>5, TypesBefore, AddingMoves
    <2>3. AllOnce(queue, adding', F, heap, state', by)
      BY <2>2, <1>5, <1>13, Put
    <2> QED
      BY <2>1, <2>3, <1>3, <1>6, <1>8, <1>11, <1>14, <1>16, TypesBefore, Assemble
  <1> QED
    BY <1>7, <1>15, <1>16 DEF t, F

\* A task is put at the end of a queue (push_back).
LEMMA QueueGains ==
    ASSUME NEW Q \in [QueueSet -> Seq(Tasks \cup {Ult})], NEW R, NEW A, NEW F, NEW H,
           NEW q \in QueueSet, NEW u \in Tasks,
           R[q] = Append(Q[q], u), \A p \in QueueSet : p # q => R[p] = Q[p]
    PROVE  Gains(Q, A, F, H, R, A, F, H, u, "queue", q, Len(Q[q]) + 1)
  <1> DEFINE s == Q[q]
             m == Len(s)
  <1>1. s \in Seq(Tasks \cup {Ult}) /\ m \in Nat
    OBVIOUS
  <1>2. /\ DOMAIN Append(s, u) = 1 .. (m + 1) /\ DOMAIN s = 1 .. m
        /\ \A i \in 1 .. m : Append(s, u)[i] = s[i]
        /\ Append(s, u)[m + 1] = u
    BY <1>1
  <1>3. \A i : i \in 1 .. m <=> i \in 1 .. (m + 1) /\ i # m + 1
    <2> HIDE DEF m
    <2> QED
      BY <1>1
  <1>4. m + 1 \in 1 .. (m + 1)
    <2> HIDE DEF m
    <2> QED
      BY <1>1
  <1>5. R[q] = Append(s, u) /\ Q[q] = s
    OBVIOUS
  <1> HIDE DEF s, m
  <1>6. ASSUME NEW t \in Tasks, NEW l, NEW y, NEW j
        PROVE  Held(R, A, F, H, t, l, y, j) <=>
                   Held(Q, A, F, H, t, l, y, j) \/ (t = u /\ l = "queue" /\ y = q /\ j = m + 1)
    <2>1. CASE l = "queue" /\ y = q /\ j = m + 1
      BY <2>1, <1>2, <1>3, <1>4, <1>5 DEF Held
    <2>2. CASE l = "queue" /\ y = q /\ j # m + 1
      BY <2>2, <1>2, <1>3, <1>5 DEF Held
    <2>3. CASE l = "queue" /\ y # q
      BY <2>3 DEF Held
    <2>4. CASE l # "queue"
      BY <2>4 DEF Held
    <2> QED
      BY <2>1, <2>2, <2>3, <2>4
  <1> QED
    BY <1>6 DEF Gains, s, m

\* What a holder of the lock saw stays at the front of a ring that grows.
LEMMA RingGrows ==
    ASSUME IInv, UNCHANGED <<program, eidSet, heap, getLock, tbCnt, search>>,
           NEW u \in Tasks, queue'[Ring] = queue[Ring] \/ queue'[Ring] = Append(queue[Ring], u)
    PROVE  LockHeld' /\ SeenKept' /\ HintTrue'
  <1>1. LockHeld' /\ HintTrue'
    BY SetsUnchanged DEF IInv, LockHeld, HintTrue
  <1>2. queue[Ring] \in Seq(Tasks)
    BY TypesBefore, QueueNames DEF Ring
  <1>3. Len(queue'[Ring]) >= Len(queue[Ring]) /\ \A i \in 1 .. Len(queue[Ring]) : queue'[Ring][i] = queue[Ring][i]
    BY <1>2
  <1>4. Len(queue'[Ring]) \in Nat /\ Len(queue[Ring]) \in Nat
    BY <1>2
  <1>5. SeenKept'
    <2>1. ASSUME NEW x \in Executors, search[x].phase = "drain" PROVE SeenIn(search[x].seen, heap, queue'[Ring])
      <3>1. IsFiniteSet(search[x].seen)
        BY <2>1 DEF IInv, SeenKept, SeenIn
      <3>2. PICK k \in 0 .. Len(queue[Ring]) :
               /\ search[x].seen \subseteq heap \cup {queue[Ring][i] : i \in 1 .. k}
               /\ k > 0 => heap \cup {queue[Ring][i] : i \in 1 .. k} \subseteq search[x].seen
        BY <2>1 DEF IInv, SeenKept, SeenIn
      <3>3. \A i \in 1 .. k : i \in 1 .. Len(queue[Ring])
        BY <1>4
      <3>4. {queue'[Ring][i] : i \in 1 .. k} = {queue[Ring][i] : i \in 1 .. k}
        BY <3>3, <1>3
      <3>5. k \in 0 .. Len(queue'[Ring])
        BY <1>3, <1>4
      <3> QED
        BY <3>1, <3>2, <3>4, <3>5 DEF SeenIn
    <2> QED
      BY <2>1, SetsUnchanged DEF SeenKept, SeenIn
  <1> QED
    BY <1>1, <1>5

\* An add that is under way carries a task, to queues that are no slots.
LEMMA AddingTask == ASSUME IInv, NEW e \in Executors, adding[e] # NoAdd
                    PROVE  adding[e].tb \in Tasks /\ adding[e].todo \in Seq(AddQueues)
  BY TypesBefore DEF AddSet

\* A queue with room takes the task (kupl_sched_mq_add_tb, push_back).
LEMMA AddPushStep == ASSUME IInv, NEW e \in Executors, AddPush(e)
                     PROVE  IInv'
  <1> DEFINE u == adding[e].tb
             q == Head(adding[e].todo)
  <1>1. /\ program \in Programs /\ TypeOK
        /\ AllOnce(queue, adding, frames, heap, state, by) /\ AllSubmitted(frames, state, by)
    BY OnceBefore
  <1>2. /\ adding[e].todo # <<>> /\ queue' = [queue EXCEPT ![q] = Append(@, u)]
        /\ adding' = [adding EXCEPT ![e] = NoAdd]
        /\ UNCHANGED <<program, eidSet, heap, tbCnt, getLock, lastSteal, frames, search, state, by>>
    BY DEF AddPush
  <1>3. u \in Tasks /\ q \in QueueSet /\ q[1] # "slot"
    <2>1. adding[e] # NoAdd
      BY <1>2 DEF NoAdd
    <2>2. u \in Tasks /\ q \in AddQueues
      BY <2>1, <1>2, AddingTask
    <2> QED
      BY <2>2 DEF AddQueues
  <1> adding[e].tb = u
    OBVIOUS
  <1> HIDE DEF u, q
  <1>4. queue \in [QueueSet -> Seq(Tasks \cup {Ult})] /\ adding \in [Executors -> AddSet]
    BY TypesBefore
  <1>5. queue'[q] = Append(queue[q], u) /\ \A p \in QueueSet : p # q => queue'[p] = queue[p]
    BY <1>2, <1>3, <1>4
  <1>6. adding'[e] = NoAdd /\ adding' \in [Executors -> AddSet] /\ \A x \in Executors : x # e => adding'[x] = adding[x]
    BY <1>2, <1>4 DEF AddSet
  <1>7. Loose(queue, adding', frames, heap, state, by, u)
    <2>1. /\ Loses(queue, adding, frames, heap, queue, adding', frames, heap, u, "adding", e, 1)
          /\ Held(queue, adding, frames, heap, u, "adding", e, 1)
      BY <1>1, <1>3, <1>4, <1>6, AddingMoves
    <2> QED
      BY <2>1, <1>1, <1>3, Take
  <1>8. AllOnce(queue', adding', frames, heap, state, by)
    <2>1. Gains(queue, adding', frames, heap, queue', adding', frames, heap, u, "queue", q, Len(queue[q]) + 1)
      BY <1>3, <1>4, <1>5, QueueGains
    <2> QED
      BY <2>1, <1>3, <1>7, Put
  <1>9. queue' \in [QueueSet -> Seq(Tasks \cup {Ult})]
    <2>1. Append(queue[q], u) \in Seq(Tasks \cup {Ult})
      BY <1>3, <1>4
    <2> QED
      BY <2>1, <1>2, <1>3, <1>4
  <1>10. \A p \in QueueSet : queue'[p] \in IF p[1] = "slot" THEN Seq({Ult}) ELSE Seq(Tasks)
    <2>1. Append(queue[q], u) \in Seq(Tasks)
      BY <1>3, TypesBefore
    <2> QED
      BY <2>1, <1>3, <1>5, TypesBefore
  <1>11. LockHeld' /\ SeenKept' /\ HintTrue'
    <2>1. queue'[Ring] = queue[Ring] \/ queue'[Ring] = Append(queue[Ring], u)
      BY <1>5, QueueNames
    <2> QED
      BY <2>1, <1>2, <1>3, RingGrows
  <1> QED
    BY <1>1, <1>2, <1>6, <1>8, <1>9, <1>10, <1>11, TypesBefore, Assemble

\* A full queue is passed over (kupl_sched_mq_add_tb).
LEMMA AddNextStep == ASSUME IInv, NEW e \in Executors, AddNext(e)
                     PROVE  IInv'
  <1>1. /\ program \in Programs /\ TypeOK
        /\ AllOnce(queue, adding, frames, heap, state, by) /\ AllSubmitted(frames, state, by)
    BY OnceBefore
  <1>2. /\ adding[e].todo # <<>>
        /\ adding' = [adding EXCEPT ![e].todo = Tail(@)]
        /\ UNCHANGED <<program, eidSet, queue, heap, tbCnt, getLock, lastSteal, frames, search, state, by>>
    BY DEF AddNext
  <1>3. adding[e] # NoAdd /\ adding[e] \in [tb : Tasks, todo : Seq(AddQueues)]
    BY <1>2, TypesBefore DEF NoAdd, AddSet
  <1>4. Tail(adding[e].todo) \in Seq(AddQueues)
    BY <1>2, <1>3
  <1>5. [adding[e] EXCEPT !.todo = Tail(@)] \in AddSet /\ [adding[e] EXCEPT !.todo = Tail(@)].tb = adding[e].tb
    BY <1>3, <1>4 DEF AddSet
  <1>6. adding' \in [Executors -> AddSet] /\ \A x \in Executors : adding'[x].tb = adding[x].tb
    BY <1>2, <1>5, TypesBefore
  <1>7. AllOnce(queue, adding', frames, heap, state, by)
    BY <1>1, <1>6, OnceSame
  <1>8. LockHeld' /\ SeenKept' /\ HintTrue'
    BY <1>2, LockQuiet
  <1> QED
    BY <1>1, <1>2, <1>6, <1>7, <1>8, TypesBefore, Assemble

\* No queue took the task: the thread runs it (kupl_sched_add_tb).
LEMMA AddFailedStep == ASSUME IInv, NEW e \in Executors, AddFailed(e)
                       PROVE  IInv'
  <1> DEFINE u == adding[e].tb
  <1>1. /\ program \in Programs /\ TypeOK
        /\ AllOnce(queue, adding, frames, heap, state, by) /\ AllSubmitted(frames, state, by)
    BY OnceBefore
  <1>2. /\ adding[e] # NoAdd /\ adding' = [adding EXCEPT ![e] = NoAdd]
        /\ frames' = [frames EXCEPT ![e] = Append(frames[e], Frame(u))] /\ by' = [by EXCEPT ![u] = e]
        /\ UNCHANGED <<program, eidSet, queue, heap, tbCnt, getLock, lastSteal, search, state>>
    BY DEF AddFailed, Invoke
  <1>3. u \in Tasks
    BY <1>2, AddingTask
  <1> adding[e].tb = u
    OBVIOUS
  <1> HIDE DEF u
  <1>4. /\ adding \in [Executors -> AddSet] /\ frames \in [Executors -> Seq(FrameSet)]
        /\ by \in [Tasks -> Executors \cup {Default}]
    BY TypesBefore
  <1>5. adding'[e] = NoAdd /\ adding' \in [Executors -> AddSet] /\ \A x \in Executors : x # e => adding'[x] = adding[x]
    BY <1>2, <1>4 DEF AddSet
  <1>6. Loose(queue, adding', frames, heap, state, by, u)
    <2>1. /\ Loses(queue, adding, frames, heap, queue, adding', frames, heap, u, "adding", e, 1)
          /\ Held(queue, adding, frames, heap, u, "adding", e, 1)
      BY <1>1, <1>3, <1>4, <1>5, AddingMoves
    <2> QED
      BY <2>1, <1>1, <1>3, Take
  <1>7. Push(frames, frames', e, Frame(u)) /\ Gives(by, by', u, e)
    BY <1>2 DEF Push, Gives
  <1>8. /\ frames' \in [Executors -> Seq(FrameSet)] /\ by' \in [Tasks -> Executors \cup {Default}]
        /\ AllOnce(queue, adding', frames', heap, state, by') /\ AllSubmitted(frames', state, by')
    BY <1>1, <1>3, <1>4, <1>6, <1>7, Begin
  <1>9. LockHeld' /\ SeenKept' /\ HintTrue'
    BY <1>2, LockQuiet
  <1> QED
    BY <1>1, <1>2, <1>5, <1>8, <1>9, TypesBefore, Assemble

\* A step of a search that stays outside the priority queue.
LEMMA SearchStep ==
    ASSUME IInv, NEW e \in Executors, NEW r \in SearchSet, search' = [search EXCEPT ![e] = r],
           UNCHANGED <<program, eidSet, queue, heap, tbCnt, getLock, frames, adding, state, by>>,
           lastSteal' \in [Executors -> Executors \cup {Default}],
           r.stage = "steal" /\ r.todo # <<>> => \E v \in Executors : Last(r.todo) = Local(v),
           search[e].phase # "drain", r.phase # "drain",
           r.phase # "look" => r.todo # <<>> /\ Head(r.todo) = Ring
    PROVE  IInv'
  <1>1. /\ program \in Programs /\ TypeOK
        /\ AllOnce(queue, adding, frames, heap, state, by) /\ AllSubmitted(frames, state, by)
    BY OnceBefore
  <1>2. /\ search' \in [Executors -> SearchSet] /\ search'[e] = r
        /\ \A x \in Executors : x # e => search'[x] = search[x]
    BY TypesBefore
  <1>3. LockHeld' /\ SeenKept' /\ HintTrue'
    BY <1>2, LockQuiet
  <1>4. \A x \in Executors : search'[x].stage = "steal" /\ search'[x].todo # <<>> =>
                                \E v \in Executors : Last(search'[x].todo) = Local(v)
    BY <1>2, TypesBefore
  <1> QED
    BY <1>1, <1>2, <1>3, <1>4, TypesBefore, Assemble

\* What a search starts with.
LEMMA SearchType ==
    ASSUME NEW s \in {"none", "outer", "own", "last", "steal"}, NEW trail \in Seq(QueueSet)
    PROVE  /\ Search(s, trail) \in SearchSet /\ NoSearch \in SearchSet
           /\ Search(s, trail).stage = s /\ Search(s, trail).todo = trail /\ Search(s, trail).phase = "look"
           /\ NoSearch.stage = "none" /\ NoSearch.phase = "look" /\ NoSearch.todo = <<>>
  BY DEF Search, NoSearch, SearchSet

\* An executor with nothing to do looks for a task (kupl_sched_execute_tb).
LEMMA StartSearchStep == ASSUME IInv, NEW e \in Executors, StartSearch(e)
                         PROVE  IInv'
  <1> DEFINE r == IF Sched.outer THEN Search("outer", <<Slot(e)>>) ELSE Search("own", OwnTrail(e))
  <1>1. TypeOK /\ program \in Programs
    BY OnceBefore
  <1>2. /\ search[e] = NoSearch /\ search' = [search EXCEPT ![e] = r]
        /\ UNCHANGED <<program, eidSet, queue, heap, tbCnt, getLock, lastSteal, frames, adding, state, by>>
    BY DEF StartSearch, Idle, Free
  <1>3. r \in SearchSet /\ r.stage # "steal" /\ r.phase = "look"
    <2>1. CASE Sched.outer
      <3>1. <<Slot(e)>> \in Seq(QueueSet)
        BY QueueNames
      <3> QED
        BY <2>1, <3>1, SearchType
    <2>2. CASE ~Sched.outer
      <3>1. OwnTrail(e) \in Seq(QueueSet)
        BY <2>2, <1>1, SchedKnown, TrailType
      <3> QED
        BY <2>2, <3>1, SearchType
    <2> QED
      BY <2>1, <2>2
  <1>4. search[e].phase # "drain" /\ lastSteal' \in [Executors -> Executors \cup {Default}]
    BY <1>2, TypesBefore DEF NoSearch, Search
  <1> HIDE DEF r
  <1> QED
    BY <1>2, <1>3, <1>4, SearchStep

\* One part of a search has found nothing; the next one starts, or none is left
\* (hybrid's get, kupl_sched_mq_get_tb).
LEMMA ExhaustedStep == ASSUME IInv, NEW e \in Executors, Exhausted(e)
                       PROVE  IInv'
  <1>1. TypeOK /\ program \in Programs
    BY OnceBefore
  <1>2. /\ search[e].todo = <<>>
        /\ lastSteal' = lastSteal \/ lastSteal' = [lastSteal EXCEPT ![e] = Default]
        /\ UNCHANGED <<program, eidSet, queue, heap, tbCnt, getLock, frames, adding, state, by>>
    BY DEF Exhausted
  <1>3. PICK r \in NextStage(e) : search' = [search EXCEPT ![e] = r]
    BY DEF Exhausted
  <1>4. \/ r = NoSearch
        \/ r = Search("own", OwnTrail(e)) /\ Sched.inner # "none"
        \/ \E v \in Executors : r = Search("last", PopOne(v)) \/ r = Search("steal", PopOne(v))
    <2>1. lastSteal[e] \in Executors \cup {Default}
      BY TypesBefore
    <2> QED
      BY <1>3, <2>1 DEF NextStage
  <1>5. /\ r \in SearchSet /\ r.phase = "look"
        /\ r.stage = "steal" /\ r.todo # <<>> => \E v \in Executors : Last(r.todo) = Local(v)
    <2>1. CASE r = NoSearch
      BY <2>1 DEF NoSearch, Search, SearchSet
    <2>2. CASE r = Search("own", OwnTrail(e)) /\ Sched.inner # "none"
      BY <2>2, <1>1, TrailType, SearchType
    <2>3. ASSUME NEW v \in Executors, r = Search("last", PopOne(v)) \/ r = Search("steal", PopOne(v))
          PROVE  /\ r \in SearchSet /\ r.phase = "look"
                 /\ r.todo = PopOne(v) /\ Last(PopOne(v)) = Local(v)
      BY <2>3, <1>1, TrailType, SearchType
    <2> QED
      BY <1>4, <2>1, <2>2, <2>3
  <1>6. search[e].phase = "look"
    BY <1>2 DEF IInv, LockHeld
  <1>7. lastSteal' \in [Executors -> Executors \cup {Default}]
    BY <1>2, TypesBefore
  <1> QED
    BY <1>2, <1>3, <1>5, <1>6, <1>7, SearchStep

\* Looking at the next queue keeps the end of the list.
LEMMA Skipped ==
    ASSUME IInv, NEW e \in Executors, search[e].todo # <<>>, Skip(e)
    PROVE  \E r \in SearchSet : /\ search' = [search EXCEPT ![e] = r] /\ r.phase = "look"
                                /\ r.stage = "steal" /\ r.todo # <<>> => \E v \in Executors : Last(r.todo) = Local(v)
  <1> DEFINE r == [search[e] EXCEPT !.todo = Tail(@), !.phase = "look"]
  <1>1. search[e] \in SearchSet /\ search[e].todo \in Seq(QueueSet)
    BY TypesBefore DEF SearchSet
  <1>2. Tail(search[e].todo) \in Seq(QueueSet)
    BY <1>1
  <1>3. r \in SearchSet /\ r.phase = "look" /\ r.stage = search[e].stage /\ r.todo = Tail(search[e].todo)
    BY <1>1, <1>2 DEF SearchSet
  <1>4. Tail(search[e].todo) # <<>> => Last(Tail(search[e].todo)) = Last(search[e].todo)
    <2> DEFINE s == search[e].todo
    <2>1. s \in Seq(QueueSet) /\ s # <<>>
      BY <1>1
    <2> HIDE DEF s
    <2>2. Tail(s) # <<>> => Last(Tail(s)) = Last(s)
      BY <2>1 DEF Last
    <2> QED
      BY <2>2 DEF s
  <1>5. search' = [search EXCEPT ![e] = r]
    BY TypesBefore DEF Skip
  <1>6. r.stage = "steal" /\ r.todo # <<>> => \E v \in Executors : Last(r.todo) = Local(v)
    BY <1>3, <1>4, TypesBefore
  <1> HIDE DEF r
  <1> QED
    BY <1>3, <1>5, <1>6

\* An executor that looks at a queue other than the ring is outside the priority queue.
LEMMA OutsideRing ==
    ASSUME IInv, NEW e \in Executors, search[e].todo # <<>>, Head(search[e].todo)[1] # "ring"
    PROVE  search[e].phase = "look"
  BY DEF IInv, LockHeld, Ring

\* Nothing in this queue.
LEMMA SkipStep ==
    ASSUME IInv, NEW e \in Executors, search[e].todo # <<>>, Skip(e), search[e].phase # "drain",
           UNCHANGED <<program, eidSet, queue, heap, tbCnt, getLock, lastSteal, frames, adding, state, by>>
    PROVE  IInv'
  <1>1. PICK r \in SearchSet : /\ search' = [search EXCEPT ![e] = r] /\ r.phase = "look"
                               /\ r.stage = "steal" /\ r.todo # <<>> => \E v \in Executors : Last(r.todo) = Local(v)
    BY Skipped
  <1>2. lastSteal' \in [Executors -> Executors \cup {Default}]
    BY TypesBefore
  <1> QED
    BY <1>1, <1>2, SearchStep

\* The executor that found a task is no longer searching; a thief remembers its victim.
LEMMA FoundSearch ==
    ASSUME IInv, NEW e \in Executors, NEW t, search[e].todo # <<>>, Found(e, t)
    PROVE  /\ search' \in [Executors -> SearchSet] /\ search'[e] = NoSearch
           /\ \A x \in Executors : x # e => search'[x] = search[x]
           /\ \A x \in Executors : search'[x].stage = "steal" /\ search'[x].todo # <<>> =>
                                      \E v \in Executors : Last(search'[x].todo) = Local(v)
           /\ lastSteal' \in [Executors -> Executors \cup {Default}]
  <1>1. search' = [search EXCEPT ![e] = NoSearch]
    BY DEF Found
  <1>2. NoSearch \in SearchSet /\ NoSearch.todo = <<>>
    BY DEF NoSearch, Search, SearchSet
  <1>3. /\ search' \in [Executors -> SearchSet] /\ search'[e] = NoSearch
        /\ \A x \in Executors : x # e => search'[x] = search[x]
    BY <1>1, <1>2, TypesBefore
  <1>4. \A x \in Executors : search'[x].stage = "steal" /\ search'[x].todo # <<>> =>
                                      \E v \in Executors : Last(search'[x].todo) = Local(v)
    BY <1>2, <1>3, TypesBefore
  <1>5. search[e].stage = "steal" => Last(search[e].todo)[2] \in Executors
    BY TypesBefore DEF Local
  <1>6. lastSteal' \in [Executors -> Executors \cup {Default}]
    BY <1>5, TypesBefore DEF Found
  <1> QED
    BY <1>3, <1>4, <1>6

\* sspe's slot gives its executor the ult of a loop (sched_get_tb).
LEMMA GetSlotStep == ASSUME IInv, NEW e \in Executors, GetSlot(e)
                     PROVE  IInv'
  <1>1. /\ program \in Programs /\ TypeOK
        /\ AllOnce(queue, adding, frames, heap, state, by) /\ AllSubmitted(frames, state, by)
    BY OnceBefore
  <1>2. /\ search[e].todo # <<>> /\ Head(search[e].todo)[1] = "slot"
        /\ UNCHANGED <<program, eidSet, queue, heap, tbCnt, getLock, adding, state>>
    BY DEF GetSlot, At
  <1>3. search[e].phase = "look"
    BY <1>2, OutsideRing
  <1>4. CASE told[e] /\ queue[Slot(e)] # <<>>
    <2>1. queue[Slot(e)] \in Seq({Ult})
      BY TypesBefore, QueueNames DEF Slot
    <2>2. queue[Slot(e)][1] = Ult
      BY <2>1, <1>4
    <2>3. Found(e, Ult)
      BY <2>2, <1>4 DEF GetSlot
    <2>4. by' = by /\ Push(frames, frames', e, Frame(Ult))
      BY <2>3 DEF Found, Invoke, Push
    <2>5. frames \in [Executors -> Seq(FrameSet)]
      BY TypesBefore
    <2>6. /\ frames' \in [Executors -> Seq(FrameSet)]
          /\ AllOnce(queue, adding, frames', heap, state, by) /\ AllSubmitted(frames', state, by)
      BY <2>4, <2>5, <1>1, BeginUlt
    <2>7. /\ search' \in [Executors -> SearchSet] /\ search'[e] = NoSearch
          /\ \A x \in Executors : x # e => search'[x] = search[x]
          /\ \A x \in Executors : search'[x].stage = "steal" /\ search'[x].todo # <<>> =>
                                      \E v \in Executors : Last(search'[x].todo) = Local(v)
          /\ lastSteal' \in [Executors -> Executors \cup {Default}]
      BY <2>3, <1>2, FoundSearch
    <2>8. LockHeld' /\ SeenKept' /\ HintTrue'
      <3>1. NoSearch.phase = "look"
        BY DEF NoSearch, Search
      <3> QED
        BY <3>1, <2>7, <1>2, <1>3, LockQuiet
    <2> QED
      BY <2>4, <2>6, <2>7, <2>8, <1>1, <1>2, TypesBefore, Assemble
  <1>5. CASE ~(told[e] /\ queue[Slot(e)] # <<>>)
    <2>1. Skip(e) /\ UNCHANGED <<lastSteal, frames, by>>
      BY <1>5 DEF GetSlot
    <2> QED
      BY <2>1, <1>2, <1>3, SkipStep
  <1> QED
    BY <1>4, <1>5

\* A local or a place queue gives its first task, or is empty (pop_front).
LEMMA QueueGetStep == ASSUME IInv, NEW e \in Executors, QueueGet(e)
                      PROVE  IInv'
  <1> DEFINE q == Head(search[e].todo)
             u == Head(queue[q])
  <1>1. /\ program \in Programs /\ TypeOK
        /\ AllOnce(queue, adding, frames, heap, state, by) /\ AllSubmitted(frames, state, by)
    BY OnceBefore
  <1>2. /\ search[e].todo # <<>> /\ q[1] \in {"local", "place"}
        /\ UNCHANGED <<program, eidSet, heap, tbCnt, getLock, adding, state>>
    BY DEF QueueGet, At
  <1>3. search[e].phase = "look"
    BY <1>2, OutsideRing
  <1>4. q \in QueueSet
    <2>1. search[e].todo \in Seq(QueueSet)
      BY TypesBefore DEF SearchSet
    <2> QED
      BY <2>1, <1>2
  <1>5. CASE queue[q] = <<>>
    <2>1. Skip(e) /\ UNCHANGED <<queue, lastSteal, frames, by>>
      BY <1>5 DEF QueueGet
    <2> QED
      BY <2>1, <1>2, <1>3, SkipStep
  <1>6. CASE queue[q] # <<>>
    <2>1. Found(e, u) /\ queue' = [queue EXCEPT ![q] = Tail(queue[q])]
      BY <1>6 DEF QueueGet, QueueRest
    <2>2. queue[q] \in Seq(Tasks)
      BY <1>2, <1>4, TypesBefore
    <2>3. u \in Tasks /\ u = queue[q][1] /\ Tail(queue[q]) \in Seq(Tasks)
      BY <2>2, <1>6
    <2>4. u # Ult
      BY <2>3, <1>1, ProgramFacts
    <2>5. Push(frames, frames', e, Frame(u)) /\ Gives(by, by', u, e)
      BY <2>1, <2>4 DEF Found, Invoke, Push, Gives
    <2>6. /\ search' \in [Executors -> SearchSet] /\ search'[e] = NoSearch
          /\ \A x \in Executors : x # e => search'[x] = search[x]
          /\ \A x \in Executors : search'[x].stage = "steal" /\ search'[x].todo # <<>> =>
                                      \E v \in Executors : Last(search'[x].todo) = Local(v)
          /\ lastSteal' \in [Executors -> Executors \cup {Default}]
      BY <2>1, <1>2, FoundSearch
    <2>7. queue \in [QueueSet -> Seq(Tasks \cup {Ult})]
      BY TypesBefore
    <2>8. queue'[q] = Tail(queue[q]) /\ \A p \in QueueSet : p # q => queue'[p] = queue[p]
      BY <2>1, <2>7, <1>4
    <2>9. queue' \in [QueueSet -> Seq(Tasks \cup {Ult})]
      BY <2>1, <2>3, <2>7, <1>4
    <2>10. \A p \in QueueSet : queue'[p] \in IF p[1] = "slot" THEN Seq({Ult}) ELSE Seq(Tasks)
      BY <2>3, <2>8, <1>2, TypesBefore
    <2>11. queue'[Ring] = queue[Ring]
      BY <2>8, <1>2, QueueNames DEF Ring
    <2> HIDE DEF u, q
    <2>12. Loose(queue', adding, frames, heap, state, by, u)
      <3>1. Loose([queue EXCEPT ![q] = Tail(queue[q])], adding, frames, heap, state, by, queue[q][1])
        BY <2>3, <2>7, <1>1, <1>4, <1>6, TakeQueue
      <3> QED
        BY <3>1, <2>1, <2>3
    <2>13. frames \in [Executors -> Seq(FrameSet)] /\ by \in [Tasks -> Executors \cup {Default}]
      BY TypesBefore
    <2>14. /\ frames' \in [Executors -> Seq(FrameSet)] /\ by' \in [Tasks -> Executors \cup {Default}]
           /\ AllOnce(queue', adding, frames', heap, state, by') /\ AllSubmitted(frames', state, by')
      BY <2>3, <2>5, <2>12, <2>13, <1>1, Begin
    <2>15. LockHeld' /\ SeenKept' /\ HintTrue'
      <3>1. NoSearch.phase = "look"
        BY DEF NoSearch, Search
      <3> QED
        BY <3>1, <2>6, <2>11, <1>2, <1>3, LockQuiet
    <2> QED
      BY <2>6, <2>9, <2>10, <2>14, <2>15, <1>2, TypesBefore, Assemble
  <1> QED
    BY <1>5, <1>6

\* The hint and the ring are read without the lock (priority_queue_get_tb).
LEMMA PriorityPeekStep == ASSUME IInv, NEW e \in Executors, PriorityPeek(e)
                          PROVE  IInv'
  <1>1. /\ search[e].todo # <<>> /\ Head(search[e].todo)[1] = "ring"
        /\ search[e].phase \in {"look", "ring"}
        /\ UNCHANGED <<program, eidSet, queue, heap, tbCnt, getLock, lastSteal, frames, adding, state, by>>
    BY DEF PriorityPeek, At
  <1>2. search[e] \in SearchSet /\ search[e].todo \in Seq(QueueSet)
    BY TypesBefore DEF SearchSet
  <1>3. Head(search[e].todo) = Ring
    <2>1. Head(search[e].todo) \in QueueSet
      BY <1>1, <1>2
    <2> QED
      BY <2>1, <1>1 DEF QueueSet, QueueIds, Ring, Local, Slot, PlaceQueue
  <1>4. CASE Skip(e)
    BY <1>1, <1>4, SkipStep
  <1>5. ASSUME NEW p \in {"ring", "lock"}, search' = [search EXCEPT ![e].phase = p]
        PROVE  IInv'
    <2> DEFINE r == [search[e] EXCEPT !.phase = p]
    <2>1. r \in SearchSet /\ r.phase = p /\ r.stage = search[e].stage /\ r.todo = search[e].todo
      BY <1>2 DEF SearchSet
    <2>2. search' = [search EXCEPT ![e] = r]
      BY <1>5
    <2>3. r.stage = "steal" /\ r.todo # <<>> => \E v \in Executors : Last(r.todo) = Local(v)
      BY <2>1, TypesBefore
    <2>4. lastSteal' \in [Executors -> Executors \cup {Default}]
      BY <1>1, TypesBefore
    <2> HIDE DEF r
    <2> QED
      BY <2>1, <2>2, <2>3, <2>4, <1>1, <1>3, SearchStep
  <1>6. Skip(e) \/ \E p \in {"ring", "lock"} : search' = [search EXCEPT ![e].phase = p]
    BY DEF PriorityPeek
  <1> QED
    BY <1>4, <1>5, <1>6

\* The ring is a queue of tasks.
LEMMA RingType == ASSUME IInv
                  PROVE  /\ queue[Ring] \in Seq(Tasks) /\ Len(queue[Ring]) \in Nat
                         /\ DOMAIN queue[Ring] = 1 .. Len(queue[Ring])
  <1>1. queue[Ring] \in Seq(Tasks)
    BY TypesBefore, QueueNames DEF Ring
  <1> QED
    BY <1>1

\* Taking the lock: what is in the heap and in the ring now is what the taker sees.
LEMMA PriorityLockStep == ASSUME IInv, NEW e \in Executors, PriorityLock(e)
                          PROVE  IInv'
  <1> DEFINE ring == queue[Ring]
             new == heap \cup Range(ring)
             r == [search[e] EXCEPT !.phase = "drain", !.seen = new]
  <1>1. /\ program \in Programs /\ TypeOK
        /\ AllOnce(queue, adding, frames, heap, state, by) /\ AllSubmitted(frames, state, by)
    BY OnceBefore
  <1>2. /\ search[e].phase = "lock" /\ getLock = Default /\ getLock' = e
        /\ UNCHANGED <<program, eidSet, queue, heap, tbCnt, lastSteal, frames, adding, state, by>>
    BY DEF PriorityLock
  <1>3. search[e] \in SearchSet /\ heap \in SUBSET Tasks /\ IsFiniteSet(heap)
    BY TypesBefore
  <1>4. Range(ring) = {ring[i] : i \in 1 .. Len(ring)}
    BY RingType DEF Range
  <1>5. new \in SUBSET Tasks
    BY <1>3, <1>4, RingType
  <1>6. r \in SearchSet /\ r.phase = "drain" /\ r.seen = new /\ r.stage = search[e].stage /\ r.todo = search[e].todo
    BY <1>3, <1>5 DEF SearchSet
  <1>7. search' = [search EXCEPT ![e] = r]
    BY DEF PriorityLock
  <1>8. IsFiniteSet(new)
    <2> DEFINE m == Len(ring)
               I == 1 .. m
               f == [i \in I |-> ring[i]]
               P == {f[i] : i \in I}
    <2>1. m \in Nat
      BY RingType
    <2>2. IsFiniteSet(I)
      BY <2>1, FS_Interval
    <2>3. Range(ring) = P
      BY <1>4
    <2>4. f \in Surjection(I, P)
      BY DEF Surjection
    <2> HIDE DEF I, f, m, P
    <2>5. IsFiniteSet(P)
      BY <2>2, <2>4, FS_Surjection
    <2> HIDE DEF ring
    <2> QED
      BY <2>3, <2>5, <1>3, FS_Union
  <1>9. SeenIn(new, heap, ring)
    <2>1. Len(ring) \in 0 .. Len(ring)
      BY RingType
    <2> QED
      BY <2>1, <1>4, <1>8 DEF SeenIn
  <1> HIDE DEF r, new
  <1>10. /\ search' \in [Executors -> SearchSet] /\ search'[e] = r
         /\ \A x \in Executors : x # e => search'[x] = search[x]
    BY <1>6, <1>7, TypesBefore
  <1>11. \A x \in Executors : search[x].phase # "drain"
    BY <1>1, <1>2, ProgramFacts DEF IInv, LockHeld
  <1>12. LockHeld'
    <2>1. search[e].todo # <<>> /\ Head(search[e].todo) = Ring
      BY <1>2 DEF IInv, LockHeld
    <2>2. ASSUME NEW x \in Executors
          PROVE  /\ search'[x].phase = "drain" <=> getLock' = x
                 /\ search'[x].phase # "look" => search'[x].todo # <<>> /\ Head(search'[x].todo) = Ring
      <3>1. CASE x = e
        BY <3>1, <2>1, <1>2, <1>6, <1>10
      <3>2. CASE x # e
        BY <3>2, <1>2, <1>10, <1>11 DEF IInv, LockHeld
      <3> QED
        BY <3>1, <3>2
    <2> QED
      BY <2>2, <1>2, SetsUnchanged DEF LockHeld, Ring
  <1>13. SeenKept'
    <2>1. \A x \in Executors : search'[x].phase = "drain" => SeenIn(search'[x].seen, heap, ring)
      BY <1>6, <1>9, <1>10, <1>11
    <2> QED
      BY <2>1, <1>2, SetsUnchanged DEF SeenKept, SeenIn, Ring
  <1>14. HintTrue'
    BY <1>1, <1>2, ProgramFacts DEF HintTrue, Default
  <1>15. \A x \in Executors : search'[x].stage = "steal" /\ search'[x].todo # <<>> =>
                                \E v \in Executors : Last(search'[x].todo) = Local(v)
    <2>1. \A x \in Executors : search'[x].stage = search[x].stage /\ search'[x].todo = search[x].todo
      BY <1>6, <1>10
    <2> QED
      BY <2>1, TypesBefore
  <1> QED
    BY <1>1, <1>2, <1>10, <1>12, <1>13, <1>14, <1>15, TypesBefore, Assemble

\* The heap takes a loose task, or gives one up.
LEMMA HeapMoves ==
    ASSUME NEW Q, NEW A, NEW F, NEW H, NEW u \in Tasks
    PROVE  /\ Gains(Q, A, F, H, Q, A, F, H \cup {u}, u, "heap", 0, 0)
           /\ Loses(Q, A, F, H, Q, A, F, H \ {u}, u, "heap", 0, 0)
           /\ u \in H => Held(Q, A, F, H, u, "heap", 0, 0)
  <1>1. ASSUME NEW t \in Tasks, NEW l, NEW y, NEW j
        PROVE  Held(Q, A, F, H \cup {u}, t, l, y, j) <=>
                   Held(Q, A, F, H, t, l, y, j) \/ (t = u /\ l = "heap" /\ y = 0 /\ j = 0)
    <2>1. CASE l = "heap"
      BY <2>1 DEF Held
    <2>2. CASE l # "heap"
      BY <2>2 DEF Held
    <2> QED
      BY <2>1, <2>2
  <1>2. ASSUME NEW t \in Tasks, NEW l, NEW y, NEW j
        PROVE  Held(Q, A, F, H \ {u}, t, l, y, j) <=>
                   Held(Q, A, F, H, t, l, y, j) /\ ~(t = u /\ l = "heap" /\ y = 0 /\ j = 0)
    <2>1. CASE l = "heap"
      BY <2>1 DEF Held
    <2>2. CASE l # "heap"
      BY <2>2 DEF Held
    <2> QED
      BY <2>1, <2>2
  <1>3. u \in H => Held(Q, A, F, H, u, "heap", 0, 0)
    BY DEF Held
  <1> QED
    BY <1>1, <1>2, <1>3 DEF Gains, Loses

\* A task that goes from the ring to the heap is still where its holder saw it.
LEMMA SeenDrained ==
    ASSUME NEW seen, NEW h, NEW ring \in Seq(Tasks), ring # <<>>, SeenIn(seen, h, ring)
    PROVE  SeenIn(seen, h \cup {Head(ring)}, Tail(ring))
  <1> DEFINE m == Len(ring)
             tl == Tail(ring)
  <1>1. /\ m \in Nat \ {0} /\ DOMAIN ring = 1 .. m /\ Head(ring) = ring[1]
        /\ Len(tl) = m - 1 /\ \A i \in 1 .. (m - 1) : tl[i] = ring[i + 1]
    OBVIOUS
  <1>2. PICK k \in 0 .. m : /\ seen \subseteq h \cup {ring[i] : i \in 1 .. k}
                            /\ k > 0 => h \cup {ring[i] : i \in 1 .. k} \subseteq seen
    BY DEF SeenIn
  <1>3. IsFiniteSet(seen)
    BY DEF SeenIn
  <1> HIDE DEF m, tl
  <1>4. CASE k = 0
    <2>1. 0 \in 0 .. Len(tl)
      BY <1>1
    <2>2. seen \subseteq h
      BY <1>2, <1>4
    <2>3. \E j \in 0 .. Len(tl) : /\ seen \subseteq (h \cup {ring[1]}) \cup {tl[i] : i \in 1 .. j}
                                  /\ j > 0 => (h \cup {ring[1]}) \cup {tl[i] : i \in 1 .. j} \subseteq seen
      BY <2>1, <2>2
    <2> QED
      BY <2>3, <1>1, <1>3 DEF SeenIn, tl
  <1>5. CASE k > 0
    <2> DEFINE j == k - 1
    <2>1. j \in 0 .. Len(tl) /\ k = j + 1 /\ j \in Nat
      BY <1>1, <1>5
    <2>2. \A i \in 1 .. j : tl[i] = ring[i + 1] /\ i + 1 \in 1 .. k
      BY <1>1, <2>1
    <2>3. \A i \in 1 .. k : i = 1 \/ (i - 1 \in 1 .. j /\ tl[i - 1] = ring[i])
      BY <1>1, <2>1
    <2>4. 1 \in 1 .. k
      BY <1>5
    <2> HIDE DEF j
    <2>5. {ring[i] : i \in 1 .. k} = {ring[1]} \cup {tl[i] : i \in 1 .. j}
      BY <2>2, <2>3, <2>4
    <2>6. h \cup {ring[i] : i \in 1 .. k} = (h \cup {ring[1]}) \cup {tl[i] : i \in 1 .. j}
      BY <2>5
    <2> QED
      BY <2>1, <2>6, <1>1, <1>2, <1>3, <1>5 DEF SeenIn, tl
  <1> QED
    BY <1>4, <1>5

\* A task goes from the ring to the heap.
LEMMA PriorityDrainStep == ASSUME IInv, NEW e \in Executors, PriorityDrain(e)
                           PROVE  IInv'
  <1> DEFINE ring == queue[Ring]
             u == Head(ring)
  <1>1. /\ program \in Programs /\ TypeOK
        /\ AllOnce(queue, adding, frames, heap, state, by) /\ AllSubmitted(frames, state, by)
    BY OnceBefore
  <1>2. /\ search[e].phase = "drain" /\ ring # <<>> /\ heap' = heap \cup {u}
        /\ queue' = [queue EXCEPT ![Ring] = Tail(queue[Ring])]
        /\ UNCHANGED <<program, eidSet, tbCnt, getLock, lastSteal, frames, adding, search, state, by>>
    BY DEF PriorityDrain, Drains
  <1>3. ring \in Seq(Tasks) /\ u \in Tasks /\ u = ring[1] /\ Tail(ring) \in Seq(Tasks)
    BY <1>2, RingType
  <1>4. queue \in [QueueSet -> Seq(Tasks \cup {Ult})] /\ heap \in SUBSET Tasks /\ IsFiniteSet(heap) /\ Ring \in QueueSet
    BY TypesBefore, QueueNames
  <1>5. queue'[Ring] = Tail(ring) /\ \A p \in QueueSet : p # Ring => queue'[p] = queue[p]
    BY <1>2, <1>4
  <1>6. queue' \in [QueueSet -> Seq(Tasks \cup {Ult})]
    BY <1>2, <1>3, <1>4
  <1>7. \A p \in QueueSet : queue'[p] \in IF p[1] = "slot" THEN Seq({Ult}) ELSE Seq(Tasks)
    <2>1. Ring[1] # "slot"
      BY DEF Ring
    <2> QED
      BY <2>1, <1>3, <1>5, TypesBefore
  <1>8. heap' \in SUBSET Tasks /\ IsFiniteSet(heap')
    BY <1>2, <1>3, <1>4, FS_AddElement
  <1>9. Loose(queue', adding, frames, heap, state, by, u)
    <2>1. Loose([queue EXCEPT ![Ring] = Tail(queue[Ring])], adding, frames, heap, state, by, queue[Ring][1])
      BY <1>1, <1>2, <1>3, <1>4, TakeQueue
    <2> QED
      BY <2>1, <1>2, <1>3
  <1>10. AllOnce(queue', adding, frames, heap', state, by)
    <2>1. Gains(queue', adding, frames, heap, queue', adding, frames, heap', u, "heap", 0, 0)
      BY <1>2, <1>3, HeapMoves
    <2> HIDE DEF u
    <2> QED
      BY <2>1, <1>3, <1>9, Put
  <1>11. SeenKept'
    <2>1. \A x \in Executors : search[x].phase = "drain" => SeenIn(search[x].seen, heap', queue'[Ring])
      <3>1. \A x \in Executors : search[x].phase = "drain" => SeenIn(search[x].seen, heap, ring)
        BY DEF IInv, SeenKept
      <3> QED
        BY <3>1, <1>2, <1>3, <1>5, SeenDrained
    <2> QED
      BY <2>1, <1>2, SetsUnchanged DEF SeenKept, SeenIn, Ring
  <1>12. LockHeld' /\ HintTrue'
    <2>1. getLock = e /\ e # Default
      BY <1>1, <1>2, ProgramFacts DEF IInv, LockHeld
    <2> QED
      BY <2>1, <1>2, SetsUnchanged DEF IInv, LockHeld, HintTrue, Ring, Default
  <1> HIDE DEF u, ring
  <1> QED
    BY <1>1, <1>2, <1>6, <1>7, <1>8, <1>10, <1>11, <1>12, TypesBefore, Assemble

\* Nobody is inside the priority queue once its holder has given the lock back.
LEMMA LockReleased ==
    ASSUME IInv, NEW e \in Executors, search[e].phase = "drain", UNCHANGED <<program, eidSet>>,
           getLock' = Default, tbCnt' = Cardinality(heap'), search'[e].phase = "look",
           \A x \in Executors : x # e => search'[x] = search[x]
    PROVE  LockHeld' /\ SeenKept' /\ HintTrue'
  <1>1. program \in Programs
    BY OnceBefore
  <1>2. getLock = e /\ \A x \in Executors : x # Default
    BY <1>1, ProgramFacts DEF IInv, LockHeld
  <1>3. \A x \in Executors : search'[x].phase # "drain"
    BY <1>2 DEF IInv, LockHeld
  <1>4. LockHeld'
    <2>1. ASSUME NEW x \in Executors
          PROVE  /\ search'[x].phase = "drain" <=> getLock' = x
                 /\ search'[x].phase # "look" => search'[x].todo # <<>> /\ Head(search'[x].todo) = Ring
      BY <1>2, <1>3 DEF IInv, LockHeld
    <2> QED
      BY <2>1, SetsUnchanged DEF LockHeld, Ring
  <1> QED
    BY <1>3, <1>4, SetsUnchanged DEF SeenKept, HintTrue, Default

\* The best task of the heap is taken, or the heap is empty; the lock is given back.
LEMMA PriorityPopStep == ASSUME IInv, NEW e \in Executors, PriorityPop(e)
                         PROVE  IInv'
  <1>1. /\ program \in Programs /\ TypeOK
        /\ AllOnce(queue, adding, frames, heap, state, by) /\ AllSubmitted(frames, state, by)
    BY OnceBefore
  <1>2. /\ search[e].phase = "drain" /\ getLock' = Default /\ tbCnt' = Cardinality(heap')
        /\ UNCHANGED <<program, eidSet, queue, adding, state>>
    BY DEF PriorityPop, TbCnt
  <1>3. search[e].todo # <<>>
    BY <1>2 DEF IInv, LockHeld
  <1>4. CASE heap = {} /\ Skip(e) /\ UNCHANGED <<heap, lastSteal, frames, by>>
    <2>1. PICK r \in SearchSet : /\ search' = [search EXCEPT ![e] = r] /\ r.phase = "look"
                                 /\ r.stage = "steal" /\ r.todo # <<>> => \E v \in Executors : Last(r.todo) = Local(v)
      BY <1>3, <1>4, Skipped
    <2>2. /\ search' \in [Executors -> SearchSet] /\ search'[e] = r
          /\ \A x \in Executors : x # e => search'[x] = search[x]
      BY <2>1, TypesBefore
    <2>3. \A x \in Executors : search'[x].stage = "steal" /\ search'[x].todo # <<>> =>
                                  \E v \in Executors : Last(search'[x].todo) = Local(v)
      BY <2>1, <2>2, TypesBefore
    <2>4. LockHeld' /\ SeenKept' /\ HintTrue'
      BY <2>1, <2>2, <1>2, LockReleased
    <2>5. getLock' \in Executors \cup {Default}
      BY <1>2
    <2> QED
      BY <2>2, <2>3, <2>4, <2>5, <1>1, <1>2, <1>4, TypesBefore, Assemble
  <1>5. ASSUME NEW u \in Highest(heap), heap' = heap \ {u}, Found(e, u)
        PROVE  IInv'
    <2>1. heap \in SUBSET Tasks /\ IsFiniteSet(heap) /\ u \in heap /\ u \in Tasks
      BY TypesBefore DEF Highest
    <2>2. heap' \in SUBSET Tasks /\ IsFiniteSet(heap')
      BY <2>1, <1>5, FS_RemoveElement
    <2>3. Loose(queue, adding, frames, heap', state, by, u)
      <3>1. /\ Loses(queue, adding, frames, heap, queue, adding, frames, heap', u, "heap", 0, 0)
            /\ Held(queue, adding, frames, heap, u, "heap", 0, 0)
        BY <2>1, <1>5, HeapMoves
      <3> QED
        BY <3>1, <2>1, <1>1, Take
    <2>4. u # Ult
      BY <2>1, <1>1, ProgramFacts
    <2>5. Push(frames, frames', e, Frame(u)) /\ Gives(by, by', u, e)
      BY <2>4, <1>5 DEF Found, Invoke, Push, Gives
    <2>6. frames \in [Executors -> Seq(FrameSet)] /\ by \in [Tasks -> Executors \cup {Default}]
      BY TypesBefore
    <2>7. /\ frames' \in [Executors -> Seq(FrameSet)] /\ by' \in [Tasks -> Executors \cup {Default}]
          /\ AllOnce(queue, adding, frames', heap', state, by') /\ AllSubmitted(frames', state, by')
      BY <2>1, <2>3, <2>5, <2>6, <1>1, Begin
    <2>8. /\ search' \in [Executors -> SearchSet] /\ search'[e] = NoSearch
          /\ \A x \in Executors : x # e => search'[x] = search[x]
          /\ \A x \in Executors : search'[x].stage = "steal" /\ search'[x].todo # <<>> =>
                                      \E v \in Executors : Last(search'[x].todo) = Local(v)
          /\ lastSteal' \in [Executors -> Executors \cup {Default}]
      BY <1>3, <1>5, FoundSearch
    <2>9. LockHeld' /\ SeenKept' /\ HintTrue'
      <3>1. search'[e].phase = "look"
        BY <2>8 DEF NoSearch, Search
      <3> QED
        BY <3>1, <2>8, <1>2, LockReleased
    <2>10. getLock' \in Executors \cup {Default}
      BY <1>2
    <2> QED
      BY <2>2, <2>7, <2>8, <2>9, <2>10, <1>2, TypesBefore, Assemble
  <1> QED
    BY <1>4, <1>5 DEF PriorityPop

\* A task whose tasks have all been added is finished (kupl_sched_execute_tb).
LEMMA FinishStep == ASSUME IInv, NEW e \in Executors, Finish(e)
                    PROVE  IInv'
  <1> DEFINE n == Len(frames[e])
             u == Top(e).tb
  <1>1. /\ program \in Programs /\ TypeOK
        /\ AllOnce(queue, adding, frames, heap, state, by) /\ AllSubmitted(frames, state, by)
    BY OnceBefore
  <1>2. /\ frames[e] # <<>> /\ u # Loop /\ frames' = [frames EXCEPT ![e] = Front(frames[e])]
        /\ state' = IF u = Ult THEN state ELSE [state EXCEPT ![u] = "done"]
        /\ UNCHANGED <<program, eidSet, queue, heap, tbCnt, getLock, lastSteal, adding, search, by>>
    BY DEF Finish
  <1>3. frames \in [Executors -> Seq(FrameSet)] /\ state \in [Tasks -> {"new", "ready", "done"}]
    BY TypesBefore
  <1>4. /\ frames' \in [Executors -> Seq(FrameSet)] /\ Popped(frames, frames', e, n)
        /\ n \in DOMAIN frames[e] /\ u = frames[e][n].tb /\ frames[e][n] \in FrameSet
    BY <1>2, <1>3, FramesPop DEF Top
  <1>5. u \in Tasks \cup {Ult}
    BY <1>2, <1>4 DEF FrameSet
  <1>6. Advances(frames, frames', e, n)
    BY <1>4 DEF Advances, Popped
  <1>7. LockHeld' /\ SeenKept' /\ HintTrue'
    BY <1>2, LockQuiet
  <1>8. Held(queue, adding, frames, heap, u, "frame", e, n)
    BY <1>4 DEF Held
  <1>9. \A t, x, i : FrameIn(frames', t, x, i) <=> FrameIn(frames, t, x, i) /\ ~(x = e /\ i = n)
    BY <1>4 DEF Popped
  <1>10. FrameIn(frames, u, e, n) /\ \A t : FrameIn(frames, t, e, n) => t = u
    BY <1>4 DEF FrameIn
  <1> HIDE DEF u, n
  <1>11. CASE u \in Tasks
    <2>1. state' = [state EXCEPT ![u] = "done"]
      BY <1>1, <1>2, <1>11, ProgramFacts
    <2>2. state[u] # "new"
      BY <1>1, <1>8, <1>11 DEF AllOnce, Once
    <2>3. Loses(queue, adding, frames, heap, queue, adding, frames', heap, u, "frame", e, n)
      <3>1. ASSUME NEW t \in Tasks, NEW l, NEW y, NEW j
            PROVE  Held(queue, adding, frames', heap, t, l, y, j) <=>
                       Held(queue, adding, frames, heap, t, l, y, j) /\ ~(t = u /\ l = "frame" /\ y = e /\ j = n)
        <4>1. CASE l = "frame"
          <5>1. Held(queue, adding, frames', heap, t, l, y, j) <=> FrameIn(frames', t, y, j)
            BY <4>1 DEF Held, FrameIn
          <5>2. Held(queue, adding, frames, heap, t, l, y, j) <=> FrameIn(frames, t, y, j)
            BY <4>1 DEF Held, FrameIn
          <5> QED
            BY <5>1, <5>2, <4>1, <1>9, <1>10
        <4>2. CASE l # "frame"
          BY <4>2 DEF Held
        <4> QED
          BY <4>1, <4>2
      <3> QED
        BY <3>1 DEF Loses
    <2>4. AllOnce(queue, adding, frames', heap, [state EXCEPT ![u] = "done"], by)
      BY <2>3, <1>1, <1>3, <1>8, <1>11, Drop
    <2>5. \A t \in Tasks : state'[t] = "new" <=> state[t] = "new"
      BY <2>1, <2>2, <1>3, <1>11
    <2>6. AllSubmitted(frames', state', by)
      BY <2>5, <1>1, <1>6, SubmitLess
    <2>7. state' \in [Tasks -> {"new", "ready", "done"}]
      BY <2>1, <1>3
    <2>8. AllOnce(queue, adding, frames', heap, state', by)
      BY <2>1, <2>4
    <2> QED
      BY <2>6, <2>7, <2>8, <1>2, <1>4, <1>7, TypesBefore, Assemble
  <1>12. CASE u = Ult
    <2>1. state' = state /\ Ult \notin Tasks
      BY <1>1, <1>2, <1>12, ProgramFacts
    <2>2. \A t \in Tasks : \A x, i : FrameIn(frames', t, x, i) <=> FrameIn(frames, t, x, i)
      BY <2>1, <1>9, <1>10, <1>12
    <2>3. AllOnce(queue, adding, frames', heap, state, by)
      BY <2>2, <1>1, OnceSame
    <2>4. AllSubmitted(frames', state, by)
      BY <1>1, <1>6, SubmitLess
    <2> QED
      BY <2>1, <2>3, <2>4, <1>2, <1>4, <1>7, TypesBefore, Assemble
  <1> QED
    BY <1>5, <1>11, <1>12

\* A loop tells the other executors (kupl_parallel_for's notify).
LEMMA LoopTellsStep == ASSUME IInv, NEW e \in Executors, LoopTells(e)
                       PROVE  IInv'
  <1> DEFINE n == Len(frames[e])
  <1>1. /\ program \in Programs /\ TypeOK
        /\ AllOnce(queue, adding, frames, heap, state, by) /\ AllSubmitted(frames, state, by)
    BY OnceBefore
  <1>2. /\ frames[e] # <<>> /\ Last(frames[e]).todo # <<>>
        /\ frames' = [frames EXCEPT ![e] = Advanced(e)]
        /\ UNCHANGED <<program, eidSet, queue, heap, tbCnt, getLock, lastSteal, adding, search, state, by>>
    BY DEF LoopTells, TopTodo, Top
  <1>3. frames' \in [Executors -> Seq(FrameSet)] /\ SameFrames(frames, frames') /\ Advances(frames, frames', e, n)
    BY <1>1, <1>2, FramesAdvanced
  <1> HIDE DEF n
  <1>4. AllOnce(queue, adding, frames', heap, state, by)
    BY <1>1, <1>3, OnceSame DEF SameFrames
  <1>5. AllSubmitted(frames', state, by)
    BY <1>1, <1>3, SubmitLess
  <1>6. LockHeld' /\ SeenKept' /\ HintTrue'
    BY <1>2, LockQuiet
  <1> QED
    BY <1>2, <1>3, <1>4, <1>5, <1>6, TypesBefore, Assemble

-----------------------------------------------------------------------------
(* The beginning, and the theorems *)

\* The place sets the configuration gives, and whatever the rest of the array
\* holds, are sets of executors (kupl_sched_mq_create).
LEMMA PlaceQueueType == ASSUME program \in Programs, eidSet \in PlaceQueueCreate(program)
                        PROVE  eidSet \in Seq(SUBSET Executors)
  <1> DEFINE p == program
             X == SUBSET (0 .. p.n - 1)
             places == p.affinity.places
             kept == {i \in DOMAIN places : places[i].form # "empty" /\ ParsePlace(p, places[i]) # {}}
             f == [i \in kept |-> ParsePlace(p, places[i])]
             cnt == IF SchedInit(p).inner = "mq" THEN PlaceQueueCnt(p) ELSE 0
             parsed == IF cnt = 0 THEN <<>> ELSE ParsedPlaces(p)
  <1>1. Len(places) \in Nat /\ DOMAIN places = 1 .. Len(places)
    BY ProgramsAssumption
  <1>2. cnt \in Nat
    BY <1>1 DEF PlaceQueueCnt
  <1>3. kept \in SUBSET Nat /\ IsFiniteSet(kept)
    <2> DEFINE m == Len(places)
    <2>1. kept \subseteq 1 .. m /\ m \in Nat
      BY <1>1
    <2> HIDE DEF kept, m
    <2>2. IsFiniteSet(1 .. m)
      BY <2>1, FS_Interval
    <2>3. IsFiniteSet(kept)
      BY <2>1, <2>2, FS_Subset
    <2>4. 1 .. m \subseteq Nat
      BY <2>1
    <2> QED
      BY <2>1, <2>3, <2>4
  <1>4. f \in [kept -> X]
    <2>1. \A i \in kept : ParsePlace(p, places[i]) \subseteq 0 .. p.n - 1
      BY DEF ParsePlace
    <2> QED
      BY <2>1
  <1>5. ParsedPlaces(p) = InOrder(f, kept)
    BY DEF ParsedPlaces
  <1>6. ParsedPlaces(p) \in Seq(X)
    <2> HIDE DEF kept, f, X
    <2> QED
      BY <1>3, <1>4, <1>5, InOrderType
  <1>7. parsed \in Seq(X)
    BY <1>6
  <1>8. PICK rest \in [1 .. cnt - Len(parsed) -> X] : eidSet = parsed \o rest
    BY DEF PlaceQueueCreate
  <1> HIDE DEF cnt, parsed, X
  <1>9. rest \in Seq(X)
    <2> DEFINE k == cnt - Len(parsed)
               m == IF k < 0 THEN 0 ELSE k
    <2>1. k \in Int /\ m \in Nat
      BY <1>2, <1>7
    <2>2. 1 .. k = 1 .. m
      <3> HIDE DEF k
      <3> QED
        BY <2>1
    <2>3. rest \in [1 .. m -> X]
      BY <2>2, <1>8
    <2> HIDE DEF m
    <2> QED
      BY <2>1, <2>3
  <1>10. eidSet \in Seq(X)
    BY <1>7, <1>8, <1>9
  <1> QED
    BY <1>10 DEF X, Executors

\* The invariant holds of the scheduler as its create leaves it: every submission
\* is still to come and no queue holds a task.
LEMMA InitIInv == Init => IInv
  <1> SUFFICES ASSUME Init PROVE IInv
    OBVIOUS
  <1>1. program \in Programs /\ eidSet \in Seq(SUBSET Executors)
    BY PlaceQueueType DEF Init
  <1>2. /\ queue = [q \in QueueSet |-> IF q[1] = "slot" /\ Sched.outer THEN <<Ult>> ELSE <<>>]
        /\ heap = {} /\ tbCnt = 0 /\ getLock = Default
        /\ lastSteal = [e \in Executors |-> Default]
        /\ frames = [e \in Executors |-> IF e \in DOMAIN program.root THEN <<[tb |-> Loop, todo |-> program.root[e]]>> ELSE <<>>]
        /\ adding = [e \in Executors |-> NoAdd]
        /\ search = [e \in Executors |-> NoSearch]
        /\ state = [t \in Tasks |-> "new"]
        /\ by = [t \in Tasks |-> Default]
    BY DEF Init, QueueSet
  <1>3. QueuesTyped
    <2>1. <<Ult>> \in Seq(Tasks \cup {Ult}) /\ <<>> \in Seq(Tasks \cup {Ult}) /\ <<Ult>> \in Seq({Ult}) /\ <<>> \in Seq({Ult}) /\ <<>> \in Seq(Tasks)
      OBVIOUS
    <2>2. queue \in [QueueSet -> Seq(Tasks \cup {Ult})]
      BY <2>1, <1>2
    <2>3. \A q \in QueueSet : queue[q] \in IF q[1] = "slot" THEN Seq({Ult}) ELSE Seq(Tasks)
      BY <2>1, <1>2
    <2> QED
      BY <2>2, <2>3, <1>1 DEF QueuesTyped
  <1>4. ThreadsTyped
    <2>1. frames \in [Executors -> Seq(FrameSet)]
      <3>1. ASSUME NEW e \in Executors PROVE frames[e] \in Seq(FrameSet)
        <4>1. CASE e \in DOMAIN program.root
          <5>1. program.root[e] \in Seq(Tasks \cup {Loop})
            BY <4>1, <1>1, ProgramsAssumption DEF Tasks
          <5>2. [tb |-> Loop, todo |-> program.root[e]] \in FrameSet
            BY <5>1 DEF FrameSet
          <5> QED
            BY <5>2, <4>1, <1>2
        <4>2. CASE e \notin DOMAIN program.root
          BY <4>2, <1>2
        <4> QED
          BY <4>1, <4>2
      <3> QED
        BY <3>1, <1>2
    <2>2. NoSearch \in SearchSet
      BY DEF NoSearch, Search, SearchSet
    <2>3. IsFiniteSet(heap)
      BY <1>2, FS_EmptySet
    <2> QED
      BY <2>1, <2>2, <2>3, <1>2 DEF ThreadsTyped, AddSet
  <1>5. TypeOK
    BY <1>1, <1>2, <1>3, <1>4 DEF TypeOK
  <1>6. NoSearch.stage = "none" /\ NoSearch.phase = "look"
    BY DEF NoSearch, Search
  <1>7. StealsFromVictim /\ SeenKept
    BY <1>2, <1>6 DEF StealsFromVictim, SeenKept
  <1>8. LockHeld
    BY <1>1, <1>2, <1>6, ProgramFacts DEF LockHeld
  <1>9. HintTrue
    BY <1>2, FS_EmptySet DEF HintTrue
  <1>10. Loop \notin Tasks /\ Ult \notin Tasks
    BY <1>1, ProgramFacts
  <1>11. \A e \in Executors : \A i \in DOMAIN frames[e] :
            i = 1 /\ e \in DOMAIN program.root /\ frames[e][i].tb = Loop /\ frames[e][i].todo = program.root[e]
    BY <1>2
  <1>12. AllOnce(queue, adding, frames, heap, state, by)
    <2>1. ASSUME NEW t \in Tasks, NEW k, NEW x, NEW i PROVE ~Held(queue, adding, frames, heap, t, k, x, i)
      <3>1. x \in QueueSet => ~(i \in DOMAIN queue[x] /\ queue[x][i] = t)
        BY <1>2, <1>10
      <3>2. x \in Executors => adding[x].tb # t
        BY <1>2, <1>10 DEF NoAdd
      <3>3. x \in Executors => ~(i \in DOMAIN frames[x] /\ frames[x][i].tb = t)
        BY <1>10, <1>11
      <3> QED
        BY <3>1, <3>2, <3>3, <1>2 DEF Held
    <2>2. \A t \in Tasks : state[t] # "ready"
      BY <1>2
    <2> QED
      BY <2>1, <2>2 DEF AllOnce, Once
  <1>13. AllSubmitted(frames, state, by)
    <2>1. \A t, e, i, k : TodoIn(frames, t, e, i, k) =>
             i = 1 /\ e \in DOMAIN program.root /\ k \in DOMAIN program.root[e] /\ program.root[e][k] = t
      BY <1>11 DEF TodoIn
    <2>2. SubmittedOnce(program)
      BY <1>1, ProgramsAssumption
    <2>3. ASSUME NEW t \in Tasks PROVE Submitted(frames, state, by, t)
      <3>1. ASSUME NEW e, NEW i, NEW k, NEW g, NEW j, NEW l, TodoIn(frames, t, e, i, k), TodoIn(frames, t, g, j, l)
            PROVE  e = g /\ i = j /\ k = l
        <4>1. i = 1 /\ e \in DOMAIN program.root /\ k \in DOMAIN program.root[e] /\ program.root[e][k] = t
          BY <2>1, <3>1
        <4>2. j = 1 /\ g \in DOMAIN program.root /\ l \in DOMAIN program.root[g] /\ program.root[g][l] = t
          BY <2>1, <3>1
        <4> QED
          BY <4>1, <4>2, <2>2, <1>10 DEF SubmittedOnce
      <3>2. state[t] = "new" /\ by[t] = Default
        BY <1>2
      <3>3. ASSUME NEW i \in DOMAIN Task(t).spawns
            PROVE  /\ state[Task(t).spawns[i]] = "new"
                   /\ \A e, j, k : ~TodoIn(frames, Task(t).spawns[i], e, j, k)
        <4>1. Task(t).spawns \in Seq(Tasks)
          BY <1>1, ProgramFacts
        <4>2. Task(t).spawns[i] \in Tasks
          BY <4>1
        <4>3. \A e \in DOMAIN program.root : \A k \in DOMAIN program.root[e] : program.root[e][k] # Task(t).spawns[i]
          BY <2>2 DEF SubmittedOnce, Tasks, Task
        <4> QED
          BY <4>2, <4>3, <2>1, <1>2
      <3> QED
        BY <3>1, <3>2, <3>3 DEF Submitted
    <2> QED
      BY <2>3 DEF AllSubmitted
  <1>14. InOnePlace /\ NotBegun /\ SubmissionsOnce
    <2>1. DOMAIN queue = QueueSet
      BY <1>2
    <2> QED
      BY <2>1, <1>12, <1>13, PlacesAreHeld, TodosAre
  <1> QED
    BY <1>5, <1>7, <1>8, <1>9, <1>14 DEF IInv

\* A step of any executor, or none at all, keeps the invariant.
LEMMA NextIInv == IInv /\ [Next]_vars => IInv'
  <1> SUFFICES ASSUME IInv, [Next]_vars PROVE IInv'
    OBVIOUS
  <1>1. ASSUME NEW e \in Executors, ExecutorStep(e) PROVE IInv'
    BY <1>1, AddTbStep, AddPushStep, AddNextStep, AddFailedStep, StartSearchStep, ExhaustedStep, GetSlotStep,
       QueueGetStep, PriorityPeekStep, PriorityLockStep, PriorityDrainStep, PriorityPopStep, FinishStep, LoopTellsStep
       DEF ExecutorStep
  <1>2. CASE UNCHANGED vars
    <2>1. /\ AllOnce(queue, adding, frames, heap, state, by) /\ AllSubmitted(frames, state, by)
      BY OnceBefore
    <2>2. LockHeld' /\ SeenKept' /\ HintTrue'
      BY <1>2, LockQuiet DEF vars
    <2>3. UNCHANGED <<program, eidSet, queue, heap, getLock, lastSteal, frames, adding, search, state, by>>
      BY <1>2 DEF vars
    <2> QED
      BY <2>1, <2>2, <2>3, TypesBefore, Assemble
  <1> QED
    BY <1>1, <1>2 DEF Next, ExecutorStep

\* IInv is an invariant of the schedulers.
THEOREM SpecIInv == Spec => []IInv
  BY InitIInv, NextIInv, PTL DEF Spec

\* Under every plugin, with any number of executors and any length of the queues, a
\* task that was made ready is in exactly one place until it is finished: it is
\* never lost between two queues, between the ring and the heap or in the hands of
\* the thread that adds it, and never run twice (kupl_sched_add_tb,
\* kupl_sched_execute_tb, priority_queue_get_tb, kupl_sched_mq_get_tb).
THEOREM SpecInOnePlace == Spec => []InOnePlace
  <1>1. IInv => InOnePlace
    BY DEF IInv
  <1> QED
    BY <1>1, SpecIInv, PTL

\* What the heap holds when its best task is taken is all that the taker saw, unless
\* that did not fit (priority_queue_get_tb).
LEMMA AllSeenInHeap ==
    ASSUME IInv, NEW e \in Executors, search[e].phase = "drain", ~Drains,
           Cardinality(search[e].seen) <= program.length
    PROVE  search[e].seen \subseteq heap
  <1> DEFINE seen == search[e].seen
  <1>1. program.length \in Nat
    BY OnceBefore, ProgramFacts
  <1>2. IsFiniteSet(heap) /\ IsFiniteSet(seen)
    BY TypesBefore DEF IInv, SeenKept, SeenIn
  <1>3. PICK k \in 0 .. Len(queue[Ring]) : /\ seen \subseteq heap \cup {queue[Ring][i] : i \in 1 .. k}
                                           /\ k > 0 => heap \cup {queue[Ring][i] : i \in 1 .. k} \subseteq seen
    BY DEF IInv, SeenKept, SeenIn
  <1> HIDE DEF seen
  <1>4. CASE k = 0
    BY <1>3, <1>4 DEF seen
  <1>5. CASE k > 0
    <2>1. heap \subseteq seen
      BY <1>3, <1>5
    <2>2. queue[Ring] # <<>>
      BY <1>3, <1>5, RingType
    <2>3. ~(Cardinality(heap) < program.length) /\ Cardinality(seen) <= program.length
      BY <2>2 DEF Drains, seen
    <2>4. Cardinality(heap) \in Nat /\ Cardinality(seen) \in Nat
      BY <1>2, FS_CardinalityType
    <2>5. Cardinality(heap) <= Cardinality(seen) /\ (Cardinality(seen) = Cardinality(heap) => seen = heap)
      BY <2>1, <1>2, FS_Subset
    <2>6. Cardinality(seen) = Cardinality(heap)
      BY <2>3, <2>4, <2>5, <1>1
    <2> QED
      BY <2>5, <2>6 DEF seen
  <1> QED
    BY <1>3, <1>4, <1>5

\* The task taken from the priority queue has the highest priority of all that were
\* in the ring or the heap when its taker got the lock, as long as they fit in the
\* heap, although other executors add to the ring meanwhile (priority_queue_get_tb).
THEOREM SpecPriorityRespected == Spec => PriorityRespected
  <1>1. ASSUME IInv, NEW e \in Executors, NEW t \in heap \ heap', PriorityPop(e),
               Cardinality(search[e].seen) <= program.length, NEW u \in search[e].seen
        PROVE  Task(u).prio <= Task(t).prio
    <2>1. search[e].phase = "drain" /\ ~Drains
      BY <1>1 DEF PriorityPop
    <2>2. u \in heap
      BY <2>1, <1>1, AllSeenInHeap
    <2>3. t \in Highest(heap)
      BY <1>1 DEF PriorityPop
    <2> QED
      BY <2>2, <2>3 DEF Highest
  <1>2. IInv /\ [Next]_vars => [\A e \in Executors : \A t \in heap \ heap' :
          LET seen == search[e].seen
          IN  PriorityPop(e) /\ Cardinality(seen) <= program.length =>
                 \A u \in seen : Task(u).prio <= Task(t).prio]_vars
    BY <1>1
  <1> QED
    BY <1>2, SpecIInv, PTL DEF Spec, PriorityRespected
=============================================================================
