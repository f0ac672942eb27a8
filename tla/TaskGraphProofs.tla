-------------------------- MODULE TaskGraphProofs --------------------------
(***************************************************************************)
(* What a dynamic graph keeps, for every number of executors, tasks and    *)
(* addresses and every program of the kind Disciplined describes: no task  *)
(* starts before the tasks its dependencies name have returned, and the    *)
(* references to it are counted, so that nothing freed is reached.         *)
(***************************************************************************)
EXTENDS TaskGraph, FiniteSetTheorems, TLAPS

-----------------------------------------------------------------------------
(* Disciplined programs *)

DepSet == [addr : Addrs \cup {AllAddr}, type : {"IN", "OUT", "INOUT", "ALL"}]

\* a submission, and the submission of t
Adds(i) == i \in DOMAIN prog /\ prog[i].op = "add_task"
AddAt(i, t) == Adds(i) /\ prog[i].task = t

\* the submission asks for every task before it
AllAt(i) == \E x \in Elems(prog[i].deps) : IsAll(x)

\* What the program keeps to: tasks of a dynamic graph, each created once, with
\* dependencies of a known type; no task without dependencies before one that
\* asks for all, which does not find it in the hash (kupl_dag.cpp:130); the graph
\* is destroyed last.
Disciplined ==
    /\ prog \in Seq(Elems(prog))
    /\ \A i \in DOMAIN prog :
          /\ prog[i].op \in {"add_task", "wait", "test", "destroy"}
          /\ prog[i].op = "destroy" => i = Len(prog)
          /\ prog[i].op = "add_task" => /\ prog[i].task \in Tasks /\ Kind[prog[i].task] = "dynamic"
                                        /\ prog[i].deps \in Seq(DepSet)
    /\ \A i, j \in DOMAIN prog : Adds(i) /\ Adds(j) /\ prog[i].task = prog[j].task => i = j
    /\ \A i, j \in DOMAIN prog : Adds(i) /\ Adds(j) /\ i < j /\ AllAt(j) => prog[i].deps # <<>>

\* u runs before p, directly or through one task between them
Before(u, p) == u = p \/ MustPrecede(u, p) \/ \E w \in Tasks : MustPrecede(u, w) /\ MustPrecede(w, p)

\* The edge Master is about to make is the only one to its task while other
\* executors may release it: what else the task depends on has returned, or
\* comes before this predecessor.  Without other executors a task may have any
\* number of predecessors; a third of UINT32_MAX keeps the count and the test at
\* the end of kupl_dag_add_task apart.
RaceFree ==
    NextOp("precede") /\ ~task[OpTask].finished =>
        /\ 3 * (task[call.task].nHard + 1) < UintMod
        /\ team # {Master} =>
              /\ task[call.task].nHard = 0
              /\ \A u \in Tasks : MustPrecede(u, call.task) /\ ended[u] = 0 => Before(u, OpTask)

-----------------------------------------------------------------------------
(* The inductive invariant: types and shapes *)

FrameSet == [task : Tasks \cup {None}, pc : {"main", "func", "finish", "release", "add", "deref"},
             todo : Seq(Tasks), ready : Seq(Tasks), counted : BOOLEAN]
TaskSet == [life : {"none", "live", "freed"}, finished : BOOLEAN, ref : Int, nPred : 0 .. UintMod - 1,
            nHard : 0 .. UintMod - 1, succ : Seq(Tasks), locked : BOOLEAN]
OpSet == [do : {"ref", "deref", "precede"}, of : Tasks]
CallSet == [pc : {"idle", "deps", "insert", "count"}, task : Tasks \cup {None}, deps : Seq(DepSet),
            addrs : SUBSET (Addrs \cup {AllAddr}), ops : Seq(OpSet), n : 0 .. UintMod - 1, err : {FALSE}]
EntrySet == [out : Tasks \cup {None}, in : Seq(Tasks)]

TypeOK ==
    /\ Master \in team
    /\ ip \in 1 .. Len(prog) + 1
    /\ call \in CallSet
    /\ task \in [Tasks -> TaskSet]
    /\ DOMAIN entry \subseteq Addrs \cup {AllAddr}
    /\ entry \in [DOMAIN entry -> EntrySet]
    /\ queue \in [Tasks -> {0, 1}]
    /\ stack \in [Executors -> Seq(FrameSet)]
    /\ begun \in [Tasks -> {0, 1}] /\ ended \in [Tasks -> {0, 1}]

Building == call.pc # "idle" /\ prog[ip].op = "add_task"

\* the submissions Master has made or is making
Made(i) == Adds(i) /\ (i < ip \/ (i = ip /\ call.pc # "idle"))
Known(t) == \E i \in DOMAIN prog : Made(i) /\ prog[i].task = t
Old(t) == \E i \in DOMAIN prog : i < ip /\ AddAt(i, t)

\* the submission of index i writes address a
Writes(i, a) == AllAt(i) \/ \E x \in Elems(prog[i].deps) : x.addr = a /\ x.type # "IN"

CallShape ==
    call.pc # "idle" =>
        /\ ip \in DOMAIN prog /\ prog[ip].op \in {"add_task", "destroy"}
        /\ call.addrs \subseteq DOMAIN entry
        /\ \A o \in Elems(call.ops) : Known(o.of)
        /\ call.pc \in {"insert", "count"} => call.ops # <<>> /\ Head(call.ops).do = "precede"
        /\ prog[ip].op = "add_task" =>
              /\ call.task = prog[ip].task /\ call.n = task[call.task].nHard
              /\ Elems(call.deps) \subseteq Elems(DepListRmDup(prog[ip].deps))
              /\ \A a \in call.addrs : Writes(ip, a)
        /\ prog[ip].op # "add_task" =>
              /\ call.task = None /\ call.deps = <<>>
              /\ \A o \in Elems(call.ops) : o.do = "deref"

\* Only the first frame of Master is "main"; inside a call (busy) Master has no
\* other, and executors outside the team do nothing.
Shape(stk, tm, busy) ==
    /\ stk[Master] # <<>>
    /\ busy => Len(stk[Master]) = 1 /\ stk[Master][1].todo = <<>>
    /\ \A e \in Executors : e \notin tm => stk[e] = <<>>
    /\ \A e \in Executors : \A d \in DOMAIN stk[e] :
          LET f == stk[e][d]
          IN  /\ f.pc = "main" <=> e = Master /\ d = 1
              /\ f.pc # "main" => f.task \in Tasks
              /\ f.pc \in {"func", "finish"} => f.ready = <<>>
FrameShape == Shape(stack, team, call.pc # "idle")

-----------------------------------------------------------------------------
(* Where a task is *)

\* the ready tasks a frame holds
Hold(f) == IF f.pc \in {"main", "add"} THEN f.todo ELSE IF f.pc = "release" THEN f.ready ELSE <<>>

\* Frame d of e runs t (place 0) or holds it, ready (place i).
Place(stk, t, e, d, i) ==
    /\ e \in Executors /\ d \in DOMAIN stk[e]
    /\ \/ i = 0 /\ stk[e][d].pc # "main" /\ stk[e][d].task = t
       \/ i \in DOMAIN Hold(stk[e][d]) /\ Hold(stk[e][d])[i] = t

\* a task is in one place at a time
OnePlace(stk) ==
    \A t \in Tasks, e, x \in Executors, d, b, i, k \in Nat :
        Place(stk, t, e, d, i) /\ Place(stk, t, x, b, k) => e = x /\ d = b /\ i = k

InFrames(t) == \E e \in Executors, d, i \in Nat : i > 0 /\ Place(stack, t, e, d, i)
Loose(t) == queue[t] = 1 \/ InFrames(t)

Runs ==
    \A t \in Tasks :
        /\ ended[t] = 1 => begun[t] = 1
        /\ task[t].finished <=> ended[t] = 1
        /\ queue[t] = 1 => begun[t] = 0
        /\ \A e \in Executors, d, i \in Nat : Place(stack, t, e, d, i) =>
              /\ queue[t] = 0
              /\ begun[t] = 1 <=> i = 0
              /\ i = 0 => /\ Kind[t] = "dynamic"
                          /\ stack[e][d].pc = "func" <=> ended[t] = 0

-----------------------------------------------------------------------------
(* Edges *)

\* the successors of p have not been taken by kupl_gnode_release_ready_safe
Waits(p) == ended[p] = 0 \/ \E e \in Executors : \E d \in DOMAIN stack[e] :
                                stack[e][d].task = p /\ stack[e][d].pc = "finish"

\* the list of p that still has to be walked is s
Listed(p, s) ==
    \/ Waits(p) /\ s = task[p].succ
    \/ \E e \in Executors : \E d \in DOMAIN stack[e] :
          stack[e][d].task = p /\ stack[e][d].pc = "release" /\ stack[e][d].todo = s

\* the edge from p to t, the k-th made, is not released
FromEnd(s, k, t) == k \in 1 .. Len(s) /\ s[Len(s) + 1 - k] = t
EdgeAt(p, k, t) == \E s \in Seq(Tasks) : Listed(p, s) /\ FromEnd(s, k, t)
Pend(t) == {pk \in Tasks \X Nat : EdgeAt(pk[1], pk[2], t)}

\* an edge is inserted and not counted
Uncounted(t) == IF call.pc = "count" /\ call.task = t THEN 1 ELSE 0
\* an edge was released before it was counted (finding lost_task)
Overtaken(t) == Uncounted(t) = 1 /\ task[t].nPred = UintMod - 1
Owed(t) == IF Overtaken(t) THEN 0 ELSE task[t].nPred + Uncounted(t)

Counts ==
    \A t \in Tasks :
        /\ 3 * (task[t].nHard + Uncounted(t)) < UintMod
        /\ Overtaken(t) \/ task[t].nPred <= task[t].nHard
        /\ IsFiniteSet(Pend(t)) /\ Cardinality(Pend(t)) <= Owed(t)

\* fewer edges left than counted: t never becomes ready
Stuck(t) == Cardinality(Pend(t)) < Owed(t)

\* u has returned, or t never runs, or it waits for something behind u
Safe(u, t) == ended[u] = 1 \/ Stuck(t) \/ \E pk \in Pend(t) : Before(u, pk[1])

Sent(t) == Old(t) \/ task[t].nHard > 0
Cleared(t) == \A u \in Tasks : MustPrecede(u, t) => ended[u] = 1

\* a task that is ready, or has run, was submitted, owes nothing and is in order
Ready == \A t \in Tasks : Loose(t) \/ begun[t] = 1 => Sent(t) /\ Owed(t) = 0 /\ Cleared(t)

Fresh == \A t \in Tasks : ~Known(t) => task[t] = NoTask

Quiet ==
    Building =>
        /\ team = {Master} \/ task[call.task].nHard = 0 => ~Loose(call.task) /\ begun[call.task] = 0
        /\ call.pc \in {"insert", "count"} /\ team # {Master} => task[call.task].nHard = 0
        /\ call.pc = "insert" => /\ 3 * (task[call.task].nHard + 1) < UintMod
                                 /\ task[OpTask].locked /\ Waits(OpTask)
        /\ call.pc = "count" => \A u \in Tasks : Before(u, OpTask) => Safe(u, call.task)
        /\ team # {Master} /\ call.pc = "insert" =>
              \A u \in Tasks : MustPrecede(u, call.task) /\ ended[u] = 0 => Before(u, OpTask)
        /\ team # {Master} /\ (call.pc = "count" \/ task[call.task].nHard > 0) =>
              \A u \in Tasks : MustPrecede(u, call.task) => Safe(u, call.task)

OrderKept == \A t \in Tasks : Old(t) => \A u \in Tasks : MustPrecede(u, t) => Safe(u, t)

-----------------------------------------------------------------------------
(* The hash *)

\* the last writer of an entry is u or follows u
OutBehind(u, ent) == ent.out # None /\ (u = ent.out \/ MustPrecede(u, ent.out))

\* the last writer asked for the address, the readers came after it
HoldsIn(hash) ==
    \A a \in DOMAIN hash :
        /\ hash[a].out # None => \E i \in DOMAIN prog : Made(i) /\ prog[i].task = hash[a].out /\ Writes(i, a)
        /\ \A r \in Elems(hash[a].in) :
              /\ Known(r)
              /\ hash[a].out # None => hash[a].out = r \/ MustPrecede(hash[a].out, r)

\* the submission of index i is in the hash where its dependencies lead
LedTo(hash, i) ==
    IF AllAt(i)
    THEN AllAddr \in DOMAIN hash /\ \A a \in DOMAIN hash : OutBehind(prog[i].task, hash[a])
    ELSE \A x \in Elems(prog[i].deps) :
            /\ x.addr \in DOMAIN hash
            /\ \/ OutBehind(prog[i].task, hash[x.addr])
               \/ x.type = "IN" /\ prog[i].task \in Elems(hash[x.addr].in)

HashHolds == HoldsIn(entry)

\* the hash leads to every task that has not returned
LeadsIn(hash) == \A i \in DOMAIN prog : Adds(i) /\ i < ip /\ ended[prog[i].task] = 0 => LedTo(hash, i)
HashLeads == ip \in DOMAIN prog /\ prog[ip].op # "destroy" => LeadsIn(entry)

\* the dependency x of the task being submitted is in the hash
Entered(x) ==
    LET at(a) == a \in call.addrs \/ entry[a].out = call.task
    IN  IF AllAt(ip) THEN AllAddr \in DOMAIN entry /\ \A a \in DOMAIN entry : at(a)
        ELSE x.addr \in DOMAIN entry /\ (at(x.addr) \/ (x.type = "IN" /\ call.task \in Elems(entry[x.addr].in)))

\* what is left of the submission, d or address a, leads to u
Asks(u, d) ==
    \E i \in DOMAIN prog :
        /\ i < ip /\ AddAt(i, u)
        /\ IF IsAll(d) THEN prog[i].deps # <<>>
           ELSE AllAt(i) \/ \E x \in Elems(prog[i].deps) : x.addr = d.addr /\ {x.type, d.type} # {"IN"}
Yields(u, ent) ==
    IF ent.in = <<>> THEN ent.out # None /\ Before(u, ent.out)
    ELSE \E r \in Elems(ent.in) : Before(u, r)

Submitting ==
    Building =>
        /\ \A x \in Elems(DepListRmDup(prog[ip].deps)) : x \in Elems(call.deps) \/ Entered(x)
        /\ \A u \in Tasks : MustPrecede(u, call.task) =>
              \/ Safe(u, call.task)
              \/ \E o \in Elems(call.ops) : o.do = "precede" /\ Before(u, o.of)
              \/ \E a \in call.addrs : Yields(u, entry[a])
              \/ \E d \in Elems(call.deps) : Asks(u, d)

IInv ==
    /\ Disciplined /\ TypeOK /\ CallShape /\ FrameShape /\ OnePlace(stack) /\ Runs
    /\ Counts /\ Ready /\ Fresh /\ Quiet /\ OrderKept /\ HashHolds /\ HashLeads /\ Submitting

-----------------------------------------------------------------------------
(* Numbers, sequences, finite sets *)

\* The 32-bit counters away from their ends (fetch_add and fetch_sub).
LEMMA Counting ==
    ASSUME NEW n \in 0 .. UintMod - 1
    PROVE  /\ n + 1 < UintMod => Inc(n) = n + 1
           /\ n = UintMod - 1 => Inc(n) = 0
           /\ n > 0 => Dec(n) = n - 1
           /\ n = 0 => Dec(n) = UintMod - 1
           /\ Inc(n) \in 0 .. UintMod - 1 /\ Dec(n) \in 0 .. UintMod - 1
  BY BoundsAssumption DEF Inc, Dec

\* The members of a list under the operations the model uses.
LEMMA Members ==
    ASSUME NEW S, NEW s \in Seq(S)
    PROVE  /\ Elems(s) \subseteq S
           /\ s = <<>> <=> Elems(s) = {}
           /\ s # <<>> => Head(s) \in Elems(s) /\ Head(s) \in S /\ Tail(s) \in Seq(S)
           /\ s # <<>> => \A y \in Elems(s) : y = Head(s) \/ y \in Elems(Tail(s))
           /\ s # <<>> => Elems(Tail(s)) \subseteq Elems(s)
  <1>1. Elems(s) \subseteq S /\ (s = <<>> <=> Elems(s) = {})
    BY DEF Elems
  <1>2. ASSUME s # <<>>
        PROVE  /\ Head(s) \in Elems(s) /\ Head(s) \in S /\ Tail(s) \in Seq(S)
               /\ \A y \in Elems(s) : y = Head(s) \/ y \in Elems(Tail(s))
               /\ Elems(Tail(s)) \subseteq Elems(s)
    <2>1. /\ Len(s) \in Nat \ {0} /\ Head(s) = s[1] /\ Tail(s) \in Seq(S) /\ DOMAIN s = 1 .. Len(s)
          /\ DOMAIN Tail(s) = 1 .. (Len(s) - 1) /\ \A i \in 1 .. (Len(s) - 1) : Tail(s)[i] = s[i + 1]
      BY <1>2
    <2>2. \A i \in DOMAIN s : i = 1 \/ (i - 1 \in DOMAIN Tail(s) /\ Tail(s)[i - 1] = s[i])
      BY <2>1
    <2>3. \A i \in DOMAIN Tail(s) : i + 1 \in DOMAIN s /\ s[i + 1] = Tail(s)[i]
      BY <2>1
    <2>4. 1 \in DOMAIN s
      BY <2>1
    <2>5. Head(s) \in Elems(s)
      BY <2>1, <2>4 DEF Elems
    <2>6. ASSUME NEW y \in Elems(s) PROVE y = Head(s) \/ y \in Elems(Tail(s))
      <3>1. PICK i \in DOMAIN s : y = s[i]
        BY DEF Elems
      <3> QED
        BY <3>1, <2>1, <2>2 DEF Elems
    <2>7. Elems(Tail(s)) \subseteq Elems(s)
      BY <2>3 DEF Elems
    <2> QED
      BY <2>1, <2>5, <2>6, <2>7, <1>1
  <1> QED
    BY <1>1, <1>2

\* A member put in front of a list.
LEMMA MembersAdded ==
    ASSUME NEW S, NEW s \in Seq(S), NEW x \in S
    PROVE  <<x>> \o s \in Seq(S) /\ \A y : y \in Elems(<<x>> \o s) <=> y = x \/ y \in Elems(s)
  <1> DEFINE r == <<x>> \o s
  <1>1. /\ r \in Seq(S) /\ DOMAIN r = 1 .. (Len(s) + 1) /\ r[1] = x /\ Len(s) \in Nat
        /\ \A i \in 1 .. Len(s) : r[i + 1] = s[i]
        /\ DOMAIN s = 1 .. Len(s)
    OBVIOUS
  <1> HIDE DEF r
  <1>2. \A i \in DOMAIN r : i = 1 \/ (i - 1 \in DOMAIN s /\ s[i - 1] = r[i])
    BY <1>1
  <1>3. \A i \in DOMAIN s : i + 1 \in DOMAIN r /\ r[i + 1] = s[i]
    BY <1>1
  <1>4. 1 \in DOMAIN r
    BY <1>1
  <1>5. \A y : y \in Elems(r) <=> y = x \/ y \in Elems(s)
    BY <1>1, <1>2, <1>3, <1>4, SMTT(30) DEF Elems
  <1> QED
    BY <1>1, <1>5 DEF r

\* The members of two lists one after the other.
LEMMA MembersJoined ==
    ASSUME NEW S, NEW s \in Seq(S), NEW r \in Seq(S)
    PROVE  s \o r \in Seq(S) /\ \A y : y \in Elems(s \o r) <=> y \in Elems(s) \/ y \in Elems(r)
  <1> DEFINE q == s \o r
  <1>1. /\ q \in Seq(S) /\ DOMAIN q = 1 .. (Len(s) + Len(r)) /\ Len(s) \in Nat /\ Len(r) \in Nat
        /\ DOMAIN s = 1 .. Len(s) /\ DOMAIN r = 1 .. Len(r)
        /\ \A i \in 1 .. Len(s) : q[i] = s[i]
        /\ \A i \in 1 .. Len(r) : q[Len(s) + i] = r[i]
    OBVIOUS
  <1> HIDE DEF q
  <1>2. \A i \in DOMAIN q : (i \in DOMAIN s /\ s[i] = q[i]) \/ (i - Len(s) \in DOMAIN r /\ r[i - Len(s)] = q[i])
    <2> TAKE i \in DOMAIN q
    <2>1. CASE i <= Len(s)
      BY <2>1, <1>1
    <2>2. CASE i > Len(s)
      <3>1. i - Len(s) \in 1 .. Len(r) /\ i = Len(s) + (i - Len(s))
        BY <2>2, <1>1
      <3> QED
        BY <3>1, <1>1
    <2> QED
      BY <2>1, <2>2, <1>1
  <1>3. \A i \in DOMAIN s : i \in DOMAIN q /\ q[i] = s[i]
    BY <1>1
  <1>4. \A i \in DOMAIN r : Len(s) + i \in DOMAIN q /\ q[Len(s) + i] = r[i]
    BY <1>1
  <1>5. \A y : y \in Elems(q) <=> y \in Elems(s) \/ y \in Elems(r)
    BY <1>2, <1>3, <1>4 DEF Elems
  <1> QED
    BY <1>1, <1>5 DEF q

\* A list read from its end: the first member is the last one made, and what is
\* put in front leaves the others where they are.
LEMMA FromEnds ==
    ASSUME NEW s \in Seq(Tasks), NEW t \in Tasks
    PROVE  /\ \A k, u : FromEnd(<<t>> \o s, k, u) <=> FromEnd(s, k, u) \/ (k = Len(s) + 1 /\ u = t)
           /\ s # <<>> => \A k, u : FromEnd(s, k, u) <=> FromEnd(Tail(s), k, u) \/ (k = Len(s) /\ u = Head(s))
           /\ \A u : ~FromEnd(s, Len(s) + 1, u)
           /\ s # <<>> => \A u : ~FromEnd(Tail(s), Len(s), u)
           /\ \A k, u : ~FromEnd(<<>>, k, u)
           /\ Len(s) \in Nat
  <1>1. ASSUME NEW r \in Seq(Tasks), NEW x \in Tasks, NEW q, q \in Seq(Tasks), Len(q) = Len(r) + 1, q[1] = x,
               \A i \in 1 .. Len(r) : q[i + 1] = r[i]
        PROVE  \A k, u : FromEnd(q, k, u) <=> FromEnd(r, k, u) \/ (k = Len(r) + 1 /\ u = x)
    <2> TAKE k, u
    <2>1. Len(r) \in Nat
      OBVIOUS
    <2>2. ASSUME k \in 1 .. Len(r) PROVE FromEnd(q, k, u) <=> FromEnd(r, k, u)
      <3>1. Len(r) + 1 - k \in 1 .. Len(r) /\ Len(q) + 1 - k = (Len(r) + 1 - k) + 1 /\ k \in 1 .. Len(q)
        BY <1>1, <2>1, <2>2
      <3>2. q[Len(q) + 1 - k] = r[Len(r) + 1 - k]
        BY <3>1, <1>1
      <3> QED
        BY <3>1, <3>2, <2>2 DEF FromEnd
    <2>3. ASSUME k = Len(r) + 1 PROVE (FromEnd(q, k, u) <=> u = x) /\ ~FromEnd(r, k, u)
      BY <1>1, <2>1, <2>3 DEF FromEnd
    <2>4. ASSUME k \notin 1 .. Len(r), k # Len(r) + 1 PROVE ~FromEnd(q, k, u) /\ ~FromEnd(r, k, u)
      BY <1>1, <2>1, <2>4 DEF FromEnd
    <2> QED
      BY <2>1, <2>2, <2>3, <2>4
  <1>2. \A k, u : FromEnd(<<t>> \o s, k, u) <=> FromEnd(s, k, u) \/ (k = Len(s) + 1 /\ u = t)
    <2>1. /\ <<t>> \o s \in Seq(Tasks) /\ Len(<<t>> \o s) = Len(s) + 1 /\ (<<t>> \o s)[1] = t
          /\ \A i \in 1 .. Len(s) : (<<t>> \o s)[i + 1] = s[i]
      OBVIOUS
    <2> QED
      BY <1>1, <2>1
  <1>3. ASSUME s # <<>>
        PROVE  /\ \A k, u : FromEnd(s, k, u) <=> FromEnd(Tail(s), k, u) \/ (k = Len(s) /\ u = Head(s))
               /\ Tail(s) \in Seq(Tasks) /\ Len(Tail(s)) = Len(s) - 1
    <2>1. /\ Tail(s) \in Seq(Tasks) /\ Len(s) = Len(Tail(s)) + 1 /\ s[1] = Head(s) /\ Head(s) \in Tasks
          /\ \A i \in 1 .. Len(Tail(s)) : s[i + 1] = Tail(s)[i]
      BY <1>3
    <2>2. Len(Tail(s)) \in Nat
      BY <2>1
    <2>3. \A k, u : FromEnd(s, k, u) <=> FromEnd(Tail(s), k, u) \/ (k = Len(Tail(s)) + 1 /\ u = Head(s))
      BY <1>1, <2>1
    <2> QED
      BY <2>1, <2>2, <2>3
  <1>4. Len(s) \in Nat /\ (\A u : ~FromEnd(s, Len(s) + 1, u)) /\ (\A k, u : ~FromEnd(<<>>, k, u))
    BY DEF FromEnd
  <1>5. s # <<>> => \A u : ~FromEnd(Tail(s), Len(s), u)
    BY <1>3, <1>4 DEF FromEnd
  <1> QED
    BY <1>2, <1>3, <1>4, <1>5

\* How the edges left and what is owed may change while t stays in order.
LEMMA EdgesLeft ==
    ASSUME NEW P, NEW Q, IsFiniteSet(P), NEW m \in Int, NEW n \in Int, Cardinality(P) <= m,
           NEW pk,
           \/ Q \subseteq P /\ n = m
           \/ Q \subseteq P \cup {pk} /\ n = m + 1
           \/ pk \in P /\ Q \subseteq P \ {pk} /\ n = m - 1
    PROVE  /\ IsFiniteSet(Q) /\ Cardinality(Q) <= n
           /\ Cardinality(P) < m => Cardinality(Q) < n
           /\ \A x \in P : x \in Q \/ Cardinality(Q) < n \/ (x = pk /\ n = m - 1)
  <1>1. Cardinality(P) \in Nat
    BY FS_CardinalityType
  <1>2. CASE Q \subseteq P /\ n = m
    <2>1. IsFiniteSet(Q) /\ Cardinality(Q) <= Cardinality(P) /\ (Cardinality(Q) = Cardinality(P) => Q = P)
      BY <1>2, FS_Subset
    <2>2. Cardinality(Q) \in Nat
      BY <2>1, FS_CardinalityType
    <2> QED
      BY <2>1, <2>2, <1>1, <1>2
  <1>3. CASE Q \subseteq P \cup {pk} /\ n = m + 1
    <2>1. IsFiniteSet(P \cup {pk}) /\ Cardinality(P \cup {pk}) <= Cardinality(P) + 1
      BY <1>1, FS_AddElement, SMTT(30)
    <2>2. /\ IsFiniteSet(Q) /\ Cardinality(Q) <= Cardinality(P \cup {pk})
          /\ Cardinality(Q) = Cardinality(P \cup {pk}) => Q = P \cup {pk}
      BY <1>3, <2>1, FS_Subset
    <2>3. Cardinality(Q) \in Nat /\ Cardinality(P \cup {pk}) \in Nat
      BY <2>1, <2>2, FS_CardinalityType
    <2> QED
      BY <2>1, <2>2, <2>3, <1>1, <1>3
  <1>4. CASE pk \in P /\ Q \subseteq P \ {pk} /\ n = m - 1
    <2>1. IsFiniteSet(P \ {pk}) /\ Cardinality(P \ {pk}) = Cardinality(P) - 1
      BY <1>4, FS_RemoveElement
    <2>2. /\ IsFiniteSet(Q) /\ Cardinality(Q) <= Cardinality(P \ {pk})
          /\ Cardinality(Q) = Cardinality(P \ {pk}) => Q = P \ {pk}
      BY <1>4, <2>1, FS_Subset
    <2>3. Cardinality(Q) \in Nat /\ Cardinality(P \ {pk}) \in Nat
      BY <2>1, <2>2, FS_CardinalityType
    <2> QED
      BY <2>1, <2>2, <2>3, <1>1, <1>4
  <1> QED
    BY <1>2, <1>3, <1>4

-----------------------------------------------------------------------------
(* The program and the order it asks for *)

\* The submissions of a disciplined program.
LEMMA Submissions ==
    ASSUME Disciplined
    PROVE  /\ prog \in Seq(Elems(prog)) /\ Len(prog) \in Nat /\ DOMAIN prog = 1 .. Len(prog)
           /\ \A i \in DOMAIN prog :
                 /\ prog[i].op \in {"add_task", "wait", "test", "destroy"}
                 /\ prog[i].op = "destroy" => i = Len(prog)
           /\ \A i : Adds(i) => /\ i \in DOMAIN prog /\ i \in Nat /\ prog[i].task \in Tasks
                                /\ Kind[prog[i].task] = "dynamic" /\ prog[i].deps \in Seq(DepSet)
           /\ \A i, j : Adds(i) /\ Adds(j) /\ prog[i].task = prog[j].task => i = j
           /\ \A i, j : Adds(i) /\ Adds(j) /\ i < j /\ AllAt(j) => prog[i].deps # <<>>
  BY DEF Disciplined, Adds

\* What it means for one submission to conflict with a later one.
LEMMA Conflicts ==
    ASSUME NEW i, NEW j
    PROVE  Conflict(prog[i].deps, prog[j].deps) <=>
              \/ AllAt(j)
              \/ prog[j].deps # <<>> /\ AllAt(i)
              \/ \E x \in Elems(prog[i].deps), y \in Elems(prog[j].deps) :
                    x.addr = y.addr /\ {x.type, y.type} # {"IN"}
  BY DEF Conflict, AllAt

\* The order is between submissions, the first before the second.
LEMMA Precedence ==
    ASSUME Disciplined, NEW u, NEW t
    PROVE  /\ MustPrecede(u, t) <=>
                 \E i, j \in DOMAIN prog : i < j /\ AddAt(i, u) /\ AddAt(j, t) /\ Conflict(prog[i].deps, prog[j].deps)
           /\ MustPrecede(u, t) => u \in Tasks /\ t \in Tasks
           /\ \A j : MustPrecede(u, t) /\ AddAt(j, t) =>
                 \E i \in DOMAIN prog : i < j /\ AddAt(i, u) /\ Conflict(prog[i].deps, prog[j].deps)
           /\ \A i, j : /\ i < j /\ AddAt(i, u) /\ AddAt(j, t) /\ Conflict(prog[i].deps, prog[j].deps)
                        => MustPrecede(u, t)
  <1>1. \A i \in DOMAIN prog : prog[i].op # "sgraph_add_dep"
    BY Submissions
  <1>2. MustPrecede(u, t) <=>
            \E i, j \in DOMAIN prog : i < j /\ AddAt(i, u) /\ AddAt(j, t) /\ Conflict(prog[i].deps, prog[j].deps)
    BY <1>1 DEF MustPrecede, AddAt, Adds
  <1>3. MustPrecede(u, t) => u \in Tasks /\ t \in Tasks
    BY <1>2, Submissions DEF AddAt
  <1>4. ASSUME NEW j, MustPrecede(u, t), AddAt(j, t)
        PROVE  \E i \in DOMAIN prog : i < j /\ AddAt(i, u) /\ Conflict(prog[i].deps, prog[j].deps)
    BY <1>2, <1>4, Submissions DEF AddAt
  <1>5. ASSUME NEW i, NEW j, i < j, AddAt(i, u), AddAt(j, t), Conflict(prog[i].deps, prog[j].deps)
        PROVE  MustPrecede(u, t)
    BY <1>2, <1>5 DEF AddAt, Adds
  <1> QED
    BY <1>2, <1>3, <1>4, <1>5

\* The order does not change while the program runs.
LEMMA OrderFixed ==
    ASSUME prog' = prog
    PROVE  /\ Disciplined <=> Disciplined'
           /\ \A i : (Adds(i) <=> Adds(i)') /\ (AllAt(i) <=> AllAt(i)')
           /\ \A i, t : AddAt(i, t) <=> AddAt(i, t)'
           /\ \A i, a : Writes(i, a) <=> Writes(i, a)'
           /\ \A u, t : MustPrecede(u, t) <=> MustPrecede(u, t)'
           /\ \A u, p : Before(u, p) <=> Before(u, p)'
  <1>1. \A i : (Adds(i) <=> Adds(i)') /\ (AllAt(i) <=> AllAt(i)')
    BY DEF Adds, AllAt
  <1>2. \A i, t : AddAt(i, t) <=> AddAt(i, t)'
    BY <1>1 DEF AddAt
  <1>3. \A i, a : Writes(i, a) <=> Writes(i, a)'
    BY <1>1 DEF Writes
  <1>4. \A u, t : MustPrecede(u, t) <=> MustPrecede(u, t)'
    BY DEF MustPrecede
  <1>5. \A u, p : Before(u, p) <=> Before(u, p)'
    BY <1>4 DEF Before
  <1>6. Disciplined <=> Disciplined'
    BY <1>1 DEF Disciplined
  <1> QED
    BY <1>1, <1>2, <1>3, <1>4, <1>5, <1>6

\* What comes before a task that has started has returned.
LEMMA BeforeEnded ==
    ASSUME Disciplined, TypeOK, Runs, Ready, NEW u \in Tasks, NEW p \in Tasks, Before(u, p), begun[p] = 1
    PROVE  u = p \/ ended[u] = 1
  <1>1. \A t \in Tasks : begun[t] = 1 => \A x \in Tasks : MustPrecede(x, t) => ended[x] = 1 /\ begun[x] = 1
    BY DEF Ready, Cleared, Runs
  <1> QED
    BY <1>1 DEF Before

-----------------------------------------------------------------------------

(* Where tasks are, after each kind of change of a stack *)

\* the innermost frame of e becomes f
TopSet(stk, stk2, e, f) ==
    /\ stk2 \in [Executors -> Seq(FrameSet)]
    /\ Len(stk[e]) \in DOMAIN stk[e] /\ stk2[e] # <<>>
    /\ \A x \in Executors : DOMAIN stk2[x] = DOMAIN stk[x] /\ Len(stk2[x]) = Len(stk[x])
    /\ \A x \in Executors : \A d \in DOMAIN stk[x] :
          stk2[x][d] = IF x = e /\ d = Len(stk[e]) THEN f ELSE stk[x][d]

\* e calls kupl_task_invoke: g is its new innermost frame
Pushed(stk, stk2, e, g) ==
    /\ stk2 \in [Executors -> Seq(FrameSet)]
    /\ Len(stk[e]) \in Nat /\ Len(stk[e]) + 1 \notin DOMAIN stk[e] /\ stk2[e] # <<>>
    /\ DOMAIN stk2[e] = DOMAIN stk[e] \cup {Len(stk[e]) + 1}
    /\ stk2[e][Len(stk[e]) + 1] = g
    /\ \A d \in DOMAIN stk[e] : stk2[e][d] = stk[e][d]
    /\ \A x \in Executors : x # e => stk2[x] = stk[x]

\* the innermost frame of e returns
Popped(stk, stk2, e) ==
    /\ stk2 \in [Executors -> Seq(FrameSet)]
    /\ Len(stk[e]) \in DOMAIN stk[e]
    /\ DOMAIN stk2[e] = DOMAIN stk[e] \ {Len(stk[e])}
    /\ \A d \in DOMAIN stk2[e] : stk2[e][d] = stk[e][d]
    /\ \A x \in Executors : x # e => stk2[x] = stk[x]

\* The innermost frame of an executor that is busy.
LEMMA Tops ==
    ASSUME TypeOK, NEW e \in Executors, stack[e] # <<>>
    PROVE  /\ stack[e] \in Seq(FrameSet) /\ Len(stack[e]) \in Nat \ {0} /\ DOMAIN stack[e] = 1 .. Len(stack[e])
           /\ Len(stack[e]) \in DOMAIN stack[e] /\ 1 \in DOMAIN stack[e]
           /\ Top(e) = stack[e][Len(stack[e])] /\ Top(e) \in FrameSet
  BY DEF TypeOK, Top

\* What SetTop does.
LEMMA SetTopIs ==
    ASSUME TypeOK, NEW e \in Executors, stack[e] # <<>>, NEW f \in FrameSet
    PROVE  TopSet(stack, [stack EXCEPT ![e][Len(stack[e])] = f], e, f)
  <1> DEFINE n == Len(stack[e])
             s == [stack[e] EXCEPT ![n] = f]
             stk == [stack EXCEPT ![e][n] = f]
  <1>1. stack[e] \in Seq(FrameSet) /\ n \in DOMAIN stack[e] /\ stack \in [Executors -> Seq(FrameSet)]
    BY Tops DEF TypeOK
  <1>2. /\ s \in Seq(FrameSet) /\ DOMAIN s = DOMAIN stack[e] /\ Len(s) = Len(stack[e]) /\ s # <<>>
        /\ \A d \in DOMAIN stack[e] : s[d] = IF d = n THEN f ELSE stack[e][d]
    BY <1>1
  <1>3. stk = [stack EXCEPT ![e] = s]
    OBVIOUS
  <1> HIDE DEF s, stk
  <1>4. stk \in [Executors -> Seq(FrameSet)] /\ stk[e] = s /\ \A x \in Executors : x # e => stk[x] = stack[x]
    BY <1>1, <1>2, <1>3
  <1>5. TopSet(stack, stk, e, f)
    BY <1>1, <1>2, <1>4 DEF TopSet
  <1> QED
    BY <1>5 DEF stk

\* What kupl_task_invoke does to a stack.
LEMMA PushIs ==
    ASSUME NEW stk \in [Executors -> Seq(FrameSet)], NEW e \in Executors, NEW g \in FrameSet
    PROVE  Pushed(stk, [stk EXCEPT ![e] = @ \o <<g>>], e, g)
  <1> DEFINE s == stk[e] \o <<g>>
             stk2 == [stk EXCEPT ![e] = @ \o <<g>>]
  <1>1. stk[e] \in Seq(FrameSet) /\ Len(stk[e]) \in Nat /\ DOMAIN stk[e] = 1 .. Len(stk[e])
    OBVIOUS
  <1>2. /\ s \in Seq(FrameSet) /\ DOMAIN s = 1 .. (Len(stk[e]) + 1) /\ s # <<>>
        /\ s[Len(stk[e]) + 1] = g /\ \A d \in 1 .. Len(stk[e]) : s[d] = stk[e][d]
    BY <1>1
  <1>3. stk2 = [stk EXCEPT ![e] = s]
    OBVIOUS
  <1> HIDE DEF s, stk2
  <1>4. stk2 \in [Executors -> Seq(FrameSet)] /\ stk2[e] = s /\ \A x \in Executors : x # e => stk2[x] = stk[x]
    BY <1>2, <1>3
  <1>5. 1 .. (Len(stk[e]) + 1) = 1 .. Len(stk[e]) \cup {Len(stk[e]) + 1} /\ Len(stk[e]) + 1 \notin 1 .. Len(stk[e])
    BY <1>1
  <1>6. Pushed(stk, stk2, e, g)
    BY <1>1, <1>2, <1>4, <1>5 DEF Pushed
  <1> QED
    BY <1>6 DEF stk2

\* What the return of kupl_task_invoke does to a stack.
LEMMA PopIs ==
    ASSUME TypeOK, NEW e \in Executors, stack[e] # <<>>
    PROVE  Popped(stack, [stack EXCEPT ![e] = SubSeq(@, 1, Len(@) - 1)], e)
  <1> DEFINE n == Len(stack[e])
             s == SubSeq(stack[e], 1, n - 1)
             stk == [stack EXCEPT ![e] = SubSeq(@, 1, Len(@) - 1)]
  <1>1. /\ stack[e] \in Seq(FrameSet) /\ n \in Nat \ {0} /\ n \in DOMAIN stack[e]
        /\ DOMAIN stack[e] = 1 .. n /\ stack \in [Executors -> Seq(FrameSet)]
    BY Tops DEF TypeOK
  <1>2. s \in Seq(FrameSet) /\ DOMAIN s = 1 .. (n - 1) /\ \A d \in 1 .. (n - 1) : s[d] = stack[e][d]
    BY <1>1
  <1>3. stk = [stack EXCEPT ![e] = s]
    OBVIOUS
  <1> HIDE DEF s, stk
  <1>4. stk \in [Executors -> Seq(FrameSet)] /\ stk[e] = s /\ \A x \in Executors : x # e => stk[x] = stack[x]
    BY <1>1, <1>2, <1>3
  <1>5. 1 .. (n - 1) = (1 .. n) \ {n}
    BY <1>1
  <1>6. Popped(stack, stk, e)
    BY <1>1, <1>2, <1>4, <1>5 DEF Popped
  <1> QED
    BY <1>6 DEF stk

\* The lists of ready tasks are lists of tasks.
LEMMA HoldType ==
    ASSUME NEW f \in FrameSet
    PROVE  Hold(f) \in Seq(Tasks) /\ Len(Hold(f)) \in Nat /\ DOMAIN Hold(f) = 1 .. Len(Hold(f)) /\ 0 \notin DOMAIN Hold(f)
  BY DEF FrameSet, Hold

\* The task a frame runs, of frames of the right type.
LEMMA RunPlaces ==
    ASSUME NEW stk \in [Executors -> Seq(FrameSet)], NEW t, NEW e, NEW d
    PROVE  Place(stk, t, e, d, 0) <=> /\ e \in Executors /\ d \in DOMAIN stk[e]
                                      /\ stk[e][d].pc # "main" /\ stk[e][d].task = t
  <1>1. ASSUME e \in Executors, d \in DOMAIN stk[e] PROVE 0 \notin DOMAIN Hold(stk[e][d])
    <2>1. stk[e][d] \in FrameSet
      BY <1>1
    <2> QED
      BY <2>1, HoldType
  <1> QED
    BY <1>1 DEF Place

\* t is nowhere
Nowhere(stk, t) == \A x \in Executors, d, i \in Nat : ~Place(stk, t, x, d, i)

\* A frame that goes on with the tasks it holds.
LEMMA SamePlaces ==
    ASSUME NEW stk, NEW stk2, NEW e \in Executors, NEW f, TopSet(stk, stk2, e, f),
           f.task = stk[e][Len(stk[e])].task, f.pc = "main" <=> stk[e][Len(stk[e])].pc = "main",
           Hold(f) = Hold(stk[e][Len(stk[e])])
    PROVE  /\ \A t, x, d, i : Place(stk2, t, x, d, i) <=> Place(stk, t, x, d, i)
           /\ OnePlace(stk) => OnePlace(stk2)
  <1>1. \A t, x, d, i : Place(stk2, t, x, d, i) <=> Place(stk, t, x, d, i)
    BY DEF TopSet, Place
  <1> QED
    BY <1>1 DEF OnePlace

\* t ran, or was ready, in frame d of x
WasPlace(stk, t, x, d, i) == \E k \in Nat : Place(stk, t, x, d, k) /\ (k = 0 <=> i = 0)

\* f holds what h holds without its first task
Drops(h, f) == Hold(h) # <<>> /\ Hold(f) = Tail(Hold(h))

\* A frame that hands over the first task it holds.
LEMMA DropPlaces ==
    ASSUME NEW stk \in [Executors -> Seq(FrameSet)], NEW stk2, NEW e \in Executors, NEW f \in FrameSet,
           TopSet(stk, stk2, e, f), NEW h, h = stk[e][Len(stk[e])],
           f.task = h.task, f.pc = "main" <=> h.pc = "main",
           Drops(h, f), NEW s, s = Head(Hold(h)), OnePlace(stk)
    PROVE  /\ OnePlace(stk2)
           /\ Place(stk, s, e, Len(stk[e]), 1) /\ Nowhere(stk2, s)
           /\ \A t, x, d, i : Place(stk2, t, x, d, i) => WasPlace(stk, t, x, d, i)
           /\ \A t, x, d : Place(stk2, t, x, d, 0) <=> Place(stk, t, x, d, 0)
  <1> DEFINE n == Len(stk[e])
             Was(x, d, i) == IF x = e /\ d = n /\ i # 0 THEN i + 1 ELSE i
  <1>1. h \in FrameSet /\ n \in DOMAIN stk[e] /\ n \in Nat
    BY DEF TopSet
  <1>2. /\ Hold(h) \in Seq(Tasks) /\ Len(Hold(h)) \in Nat \ {0} /\ DOMAIN Hold(h) = 1 .. Len(Hold(h))
        /\ Hold(f) \in Seq(Tasks) /\ DOMAIN Hold(f) = 1 .. (Len(Hold(h)) - 1)
        /\ \A i \in DOMAIN Hold(f) : i + 1 \in DOMAIN Hold(h) /\ Hold(f)[i] = Hold(h)[i + 1] /\ i # 0 /\ i \in Nat
        /\ Head(Hold(h)) = Hold(h)[1] /\ 1 \in DOMAIN Hold(h) /\ s \in Tasks
    BY <1>1, HoldType DEF Drops
  <1>3. \A x \in Executors : \A d \in DOMAIN stk[x] : d \in Nat /\ stk[x][d] \in FrameSet
    OBVIOUS
  <1>4. \A x \in Executors : \A d \in DOMAIN stk[x] :
           /\ Hold(stk[x][d]) \in Seq(Tasks) /\ DOMAIN Hold(stk[x][d]) \subseteq Nat \ {0}
    BY <1>3, HoldType
  <1>5. ASSUME NEW t, NEW x, NEW d, NEW i, Place(stk2, t, x, d, i)
        PROVE  /\ Place(stk, t, x, d, Was(x, d, i)) /\ x \in Executors /\ d \in Nat /\ i \in Nat
               /\ Was(x, d, i) \in Nat /\ (Was(x, d, i) = 0 <=> i = 0)
    <2>1. x \in Executors /\ d \in DOMAIN stk[x] /\ d \in Nat
      BY <1>5, <1>3 DEF Place, TopSet
    <2>2. CASE x = e /\ d = n
      <3>1. stk2[x][d] = f
        BY <2>1, <2>2 DEF TopSet
      <3>2. CASE i = 0
        BY <3>1, <3>2, <2>1, <2>2, <1>5, <1>2 DEF Place
      <3>3. CASE i # 0
        <4>1. i \in DOMAIN Hold(f) /\ Hold(f)[i] = t
          BY <3>1, <3>3, <1>5 DEF Place
        <4> QED
          BY <4>1, <3>3, <2>1, <2>2, <1>2 DEF Place
      <3> QED
        BY <3>2, <3>3
    <2>3. CASE ~(x = e /\ d = n)
      <3>1. stk2[x][d] = stk[x][d] /\ Was(x, d, i) = i
        BY <2>1, <2>3 DEF TopSet
      <3> QED
        BY <3>1, <2>1, <1>4, <1>5 DEF Place
    <2> QED
      BY <2>2, <2>3
  <1> HIDE DEF Was
  <1>6. \A t, x, d : Place(stk2, t, x, d, 0) <=> Place(stk, t, x, d, 0)
    <2> TAKE t, x, d
    <2>1. stk2 \in [Executors -> Seq(FrameSet)]
      BY DEF TopSet
    <2>2. ASSUME x \in Executors, d \in DOMAIN stk[x]
          PROVE  /\ d \in DOMAIN stk2[x] /\ stk2[x][d].task = stk[x][d].task
                 /\ stk2[x][d].pc = "main" <=> stk[x][d].pc = "main"
      BY <2>2 DEF TopSet
    <2>3. x \in Executors => DOMAIN stk2[x] = DOMAIN stk[x]
      BY DEF TopSet
    <2> QED
      BY <2>1, <2>2, <2>3, RunPlaces
  <1>7. Place(stk, s, e, n, 1)
    BY <1>1, <1>2 DEF Place
  <1>8. Nowhere(stk2, s)
    <2> SUFFICES ASSUME NEW x \in Executors, NEW d \in Nat, NEW i \in Nat, Place(stk2, s, x, d, i) PROVE FALSE
      BY DEF Nowhere
    <2>1. Place(stk, s, x, d, Was(x, d, i)) /\ Was(x, d, i) \in Nat
      BY <1>5
    <2>2. x = e /\ d = n /\ Was(x, d, i) = 1
      BY <2>1, <1>1, <1>2, <1>7 DEF OnePlace
    <2> QED
      BY <2>2 DEF Was
  <1>9. OnePlace(stk2)
    <2> SUFFICES ASSUME NEW t \in Tasks, NEW x \in Executors, NEW y \in Executors, NEW d \in Nat, NEW b \in Nat,
                        NEW i \in Nat, NEW k \in Nat, Place(stk2, t, x, d, i), Place(stk2, t, y, b, k)
                 PROVE  x = y /\ d = b /\ i = k
      BY DEF OnePlace
    <2>1. /\ Place(stk, t, x, d, Was(x, d, i)) /\ Was(x, d, i) \in Nat
          /\ Place(stk, t, y, b, Was(y, b, k)) /\ Was(y, b, k) \in Nat
          /\ Was(x, d, i) = 0 <=> i = 0
          /\ Was(y, b, k) = 0 <=> k = 0
      BY <1>5
    <2>2. x = y /\ d = b /\ Was(x, d, i) = Was(y, b, k)
      BY <2>1 DEF OnePlace
    <2> QED
      BY <2>1, <2>2 DEF Was
  <1>10. \A t, x, d, i : Place(stk2, t, x, d, i) => WasPlace(stk, t, x, d, i)
    BY <1>5 DEF WasPlace
  <1> QED
    BY <1>6, <1>7, <1>8, <1>9, <1>10

\* the places of ready tasks in a frame
ReadyPlaces == Nat \ {0}

\* f holds s after what h holds
Gains(h, f, s) == Hold(f) = Append(Hold(h), s)

\* no task but s has come to a place, and s to one of the ready tasks
Grown(stk, stk2, s) ==
    /\ OnePlace(stk2)
    /\ \A t, x, d, i : Place(stk2, t, x, d, i) => Place(stk, t, x, d, i) \/ (t = s /\ i \in ReadyPlaces)

\* A frame that comes to hold a task that was nowhere.
LEMMA GrowPlaces ==
    ASSUME NEW stk \in [Executors -> Seq(FrameSet)], NEW stk2, NEW e \in Executors, NEW f \in FrameSet,
           TopSet(stk, stk2, e, f), NEW h, h = stk[e][Len(stk[e])],
           f.task = h.task, f.pc = "main" <=> h.pc = "main", NEW s \in Tasks, Nowhere(stk, s),
           Gains(h, f, s), OnePlace(stk)
    PROVE  Grown(stk, stk2, s)
  <1> DEFINE n == Len(stk[e])
             m == Len(Hold(h)) + 1
  <1>1. h \in FrameSet /\ n \in DOMAIN stk[e] /\ n \in Nat
    BY DEF TopSet
  <1>2. /\ Hold(h) \in Seq(Tasks) /\ Len(Hold(h)) \in Nat /\ DOMAIN Hold(h) = 1 .. Len(Hold(h))
        /\ Hold(f) \in Seq(Tasks) /\ DOMAIN Hold(f) = DOMAIN Hold(h) \cup {m} /\ m \in Nat \ {0}
        /\ \A i \in DOMAIN Hold(h) : Hold(f)[i] = Hold(h)[i]
        /\ Hold(f)[m] = s
    BY <1>1, HoldType DEF Gains
  <1>3. \A x \in Executors : \A d \in DOMAIN stk[x] : d \in Nat /\ stk[x][d] \in FrameSet
    OBVIOUS
  <1>4. \A x \in Executors : \A d \in DOMAIN stk[x] :
           /\ Hold(stk[x][d]) \in Seq(Tasks) /\ DOMAIN Hold(stk[x][d]) \subseteq Nat \ {0}
    BY <1>3, HoldType
  <1>5. ASSUME NEW t, NEW x, NEW d, NEW i, Place(stk2, t, x, d, i)
        PROVE  /\ Place(stk, t, x, d, i) \/ (t = s /\ x = e /\ d = n /\ i = m)
               /\ x \in Executors /\ d \in Nat /\ i \in Nat
    <2>1. x \in Executors /\ d \in DOMAIN stk[x] /\ d \in Nat
      BY <1>5, <1>3 DEF Place, TopSet
    <2>2. CASE x = e /\ d = n
      <3>1. stk2[x][d] = f
        BY <2>1, <2>2 DEF TopSet
      <3>2. CASE i = 0
        BY <3>1, <3>2, <2>1, <2>2, <1>5, <1>2 DEF Place
      <3>3. CASE i # 0
        <4>1. i \in DOMAIN Hold(f) /\ Hold(f)[i] = t
          BY <3>1, <3>3, <1>5 DEF Place
        <4> QED
          BY <4>1, <3>3, <2>1, <2>2, <1>2 DEF Place
      <3> QED
        BY <3>2, <3>3
    <2>3. CASE ~(x = e /\ d = n)
      <3>1. stk2[x][d] = stk[x][d]
        BY <2>1, <2>3 DEF TopSet
      <3> QED
        BY <3>1, <2>1, <1>4, <1>5 DEF Place
    <2> QED
      BY <2>2, <2>3
  <1>6. OnePlace(stk2)
    <2> SUFFICES ASSUME NEW t \in Tasks, NEW x \in Executors, NEW y \in Executors, NEW d \in Nat, NEW b \in Nat,
                        NEW i \in Nat, NEW k \in Nat, Place(stk2, t, x, d, i), Place(stk2, t, y, b, k)
                 PROVE  x = y /\ d = b /\ i = k
      BY DEF OnePlace
    <2>1. /\ Place(stk, t, x, d, i) \/ (t = s /\ x = e /\ d = n /\ i = m)
          /\ Place(stk, t, y, b, k) \/ (t = s /\ y = e /\ b = n /\ k = m)
      BY <1>5
    <2> QED
      BY <2>1 DEF OnePlace, Nowhere
  <1>7. \A t, x, d, i : Place(stk2, t, x, d, i) => Place(stk, t, x, d, i) \/ (t = s /\ i \in ReadyPlaces)
    BY <1>5, <1>2 DEF ReadyPlaces
  <1> QED
    BY <1>6, <1>7 DEF Grown

\* the place of the task a new frame of e runs
NewPlace(stk, e, x, d, i) == x = e /\ d = Len(stk[e]) + 1 /\ i = 0

\* A task that was nowhere starts.
LEMMA PushPlaces ==
    ASSUME NEW stk \in [Executors -> Seq(FrameSet)], NEW stk2, NEW e \in Executors, NEW g \in FrameSet,
           Pushed(stk, stk2, e, g), g.pc = "func", g.task \in Tasks, Nowhere(stk, g.task), OnePlace(stk)
    PROVE  /\ OnePlace(stk2)
           /\ \A t, x, d, i : Place(stk2, t, x, d, i) <=>
                                 \/ Place(stk, t, x, d, i)
                                 \/ t = g.task /\ NewPlace(stk, e, x, d, i)
  <1> DEFINE n == Len(stk[e]) + 1
  <1>1. n \in Nat /\ DOMAIN Hold(g) = {}
    BY DEF Pushed, Hold
  <1>2. \A t, x, d, i : Place(stk2, t, x, d, i) <=> Place(stk, t, x, d, i) \/ (t = g.task /\ x = e /\ d = n /\ i = 0)
    <2> TAKE t, x, d, i
    <2>1. CASE x # e
      BY <2>1 DEF Pushed, Place
    <2>2. CASE x = e /\ d \in DOMAIN stk[e]
      BY <2>2 DEF Pushed, Place
    <2>3. CASE x = e /\ d = n
      BY <2>3, <1>1 DEF Pushed, Place
    <2>4. CASE x = e /\ d \notin DOMAIN stk[e] /\ d # n
      BY <2>4 DEF Pushed, Place
    <2> QED
      BY <2>1, <2>2, <2>3, <2>4
  <1>3. OnePlace(stk2)
    BY <1>1, <1>2, SMTT(30) DEF OnePlace, Nowhere
  <1> QED
    BY <1>2, <1>3 DEF NewPlace

\* A task returns.
LEMMA PopPlaces ==
    ASSUME NEW stk, NEW stk2, NEW e \in Executors, Popped(stk, stk2, e), OnePlace(stk)
    PROVE  /\ OnePlace(stk2)
           /\ \A t, x, d, i : Place(stk2, t, x, d, i) => Place(stk, t, x, d, i)
  <1>1. \A t, x, d, i : Place(stk2, t, x, d, i) => Place(stk, t, x, d, i)
    BY DEF Popped, Place
  <1> QED
    BY <1>1 DEF OnePlace
-----------------------------------------------------------------------------

(* What every step keeps of the order *)

\* The fields of the state of a task.
LEMMA TaskTypes ==
    ASSUME TypeOK, NEW t \in Tasks
    PROVE  /\ task[t] \in TaskSet /\ task[t].nPred \in 0 .. UintMod - 1 /\ task[t].nHard \in 0 .. UintMod - 1
           /\ task[t].succ \in Seq(Tasks) /\ task[t].finished \in BOOLEAN
           /\ begun[t] \in {0, 1} /\ ended[t] \in {0, 1} /\ queue[t] \in {0, 1}
           /\ Uncounted(t) \in {0, 1} /\ Owed(t) \in Nat
  <1>1. task[t] \in TaskSet /\ begun[t] \in {0, 1} /\ ended[t] \in {0, 1} /\ queue[t] \in {0, 1}
    BY DEF TypeOK
  <1>2. /\ task[t].nPred \in 0 .. UintMod - 1 /\ task[t].nHard \in 0 .. UintMod - 1
        /\ task[t].succ \in Seq(Tasks) /\ task[t].finished \in BOOLEAN
    BY <1>1 DEF TaskSet
  <1>3. Uncounted(t) \in {0, 1}
    BY DEF Uncounted
  <1>4. Owed(t) \in Nat
    BY <1>2, <1>3, BoundsAssumption DEF Owed
  <1> QED
    BY <1>1, <1>2, <1>3, <1>4

\* A step makes, loses or releases an edge to t: what t owes follows, except that
\* an edge that is lost stays owed.
EdgeStep(t) ==
    \/ Pend(t)' \subseteq Pend(t) /\ Owed(t)' = Owed(t)
    \/ \E pk \in Tasks \X Nat : Pend(t)' \subseteq Pend(t) \cup {pk} /\ Owed(t)' = Owed(t) + 1
    \/ \E pk \in Pend(t) : /\ Pend(t)' \subseteq Pend(t) \ {pk} /\ Owed(t)' = Owed(t) - 1
                           /\ begun[pk[1]] = 1 /\ ended[pk[1]] = 1

EndedKept == \A u \in Tasks : ended[u] = 1 => ended'[u] = 1

\* What is safe stays safe, and no task has more edges left than it owes.
LEMMA SafeKept ==
    ASSUME Disciplined, TypeOK, TypeOK', Runs, Ready, Counts, prog' = prog, EndedKept,
           NEW t \in Tasks, EdgeStep(t)
    PROVE  /\ IsFiniteSet(Pend(t))' /\ (Cardinality(Pend(t)) <= Owed(t))'
           /\ \A u \in Tasks : Safe(u, t) => Safe(u, t)'
  <1> DEFINE P == Pend(t)
             Q == Pend(t)'
             m == Owed(t)
             n == Owed(t)'
  <1>1. IsFiniteSet(P) /\ Cardinality(P) <= m
    BY DEF Counts
  <1>2. m \in Int /\ n \in Int
    <2>1. m \in Int
      BY TaskTypes
    <2>2. n \in Int
      <3>1. task'[t].nPred \in Int /\ Uncounted(t)' \in {0, 1}
        BY BoundsAssumption DEF TypeOK, TaskSet, Uncounted
      <3> QED
        BY <3>1 DEF Owed
    <2> QED
      BY <2>1, <2>2
  <1>3. \A u, p \in Tasks : Before(u, p) => Before(u, p)'
    BY OrderFixed
  <1>4. PICK pk : \/ Q \subseteq P /\ n = m
                  \/ Q \subseteq P \cup {pk} /\ n = m + 1
                  \/ /\ pk \in P /\ Q \subseteq P \ {pk} /\ n = m - 1
                     /\ begun[pk[1]] = 1 /\ ended[pk[1]] = 1
    BY DEF EdgeStep
  <1>5. \A x \in P : x[1] \in Tasks
    BY DEF Pend
  <1>6. /\ IsFiniteSet(Q) /\ Cardinality(Q) <= n
        /\ Cardinality(P) < m => Cardinality(Q) < n
        /\ \A x \in P : x \in Q \/ Cardinality(Q) < n \/ (x = pk /\ n = m - 1)
    BY <1>1, <1>2, <1>4, EdgesLeft
  <1>7. n = m - 1 => begun[pk[1]] = 1 /\ ended[pk[1]] = 1 /\ pk \in P
    BY <1>2, <1>4
  <1>8. ASSUME NEW u \in Tasks, Safe(u, t) PROVE Safe(u, t)'
    <2>1. CASE ended[u] = 1
      BY <2>1 DEF EndedKept, Safe
    <2>2. CASE Cardinality(P) < m
      BY <2>2, <1>6 DEF Safe, Stuck
    <2>3. CASE \E x \in P : Before(u, x[1])
      <3>1. PICK x \in P : Before(u, x[1])
        BY <2>3
      <3>2. CASE x \in Q
        <4>1. Before(u, x[1])'
          BY <3>1, <1>3, <1>5
        <4> QED
          BY <4>1, <3>2 DEF Safe
      <3>3. CASE Cardinality(Q) < n
        BY <3>3 DEF Safe, Stuck
      <3>4. CASE x = pk /\ n = m - 1
        <4>1. ended[u] = 1
          BY <3>1, <3>4, <1>7, <1>5, BeforeEnded
        <4> QED
          BY <4>1 DEF EndedKept, Safe
      <3> QED
        BY <3>2, <3>3, <3>4, <1>6
    <2> QED
      BY <1>8, <2>1, <2>2, <2>3 DEF Safe, Stuck
  <1> QED
    BY <1>6, <1>8

-----------------------------------------------------------------------------
(* What the steps of the executors keep *)

\* Master goes on to the next call without having submitted anything.
CallOver == ip' = ip + 1 /\ call.pc = "idle" /\ ip \in DOMAIN prog /\ prog[ip].op \in {"wait", "test"}

\* The step of an executor leaves the call of Master, the hash and the counts of
\* edges alone, and no task is taken back.
ExecKept ==
    /\ prog' = prog /\ team' = team /\ call' = call /\ entry' = entry /\ (ip' = ip \/ CallOver)
    /\ EndedKept
    /\ \A t \in Tasks : /\ task'[t].nHard = task[t].nHard /\ task'[t].locked = task[t].locked
                        /\ ~Known(t) => task'[t] = task[t]

\* The submissions are the same.
LEMMA SubmittedSame ==
    ASSUME Disciplined, TypeOK, prog' = prog, call' = call, ip' = ip \/ CallOver
    PROVE  /\ \A i : Made(i) <=> Made(i)'
           /\ \A t : (Known(t) <=> Known(t)') /\ (Old(t) <=> Old(t)')
           /\ \A i : Adds(i) => (i < ip <=> i < ip')
           /\ call.pc # "idle" => ip' = ip
           /\ Building <=> Building'
  <1>1. ip \in Nat /\ \A i : Adds(i) => i \in Nat
    BY Submissions DEF TypeOK
  <1>2. \A i : (Adds(i) <=> Adds(i)') /\ \A t : (AddAt(i, t) <=> AddAt(i, t)')
    BY OrderFixed
  <1>3. CallOver => ~Adds(ip)
    BY DEF CallOver, Adds
  <1>4. \A i : Adds(i) => (i < ip <=> i < ip')
    BY <1>1, <1>3 DEF CallOver
  <1>5. call.pc # "idle" => ip' = ip
    BY DEF CallOver
  <1>6. \A i : Made(i) <=> Made(i)'
    BY <1>2, <1>4, <1>5 DEF Made
  <1>7. \A t : (Known(t) <=> Known(t)') /\ (Old(t) <=> Old(t)')
    BY <1>2, <1>4, <1>6 DEF Known, Old, AddAt
  <1> QED
    BY <1>4, <1>5, <1>6, <1>7 DEF Building

\* Whoever executes tasks keeps the hash and what Master is submitting in order.
LEMMA ExecHash ==
    ASSUME IInv, TypeOK', ExecKept, \A t, u \in Tasks : Safe(u, t) => Safe(u, t)'
    PROVE  CallShape' /\ Fresh' /\ OrderKept' /\ HashHolds' /\ HashLeads' /\ Submitting'
  <1> USE DEF IInv
  <1>1. /\ \A i : Made(i) <=> Made(i)'
        /\ \A t : (Known(t) <=> Known(t)') /\ (Old(t) <=> Old(t)')
        /\ \A i : Adds(i) => (i < ip <=> i < ip')
        /\ call.pc # "idle" => ip' = ip
        /\ Building <=> Building'
    BY SubmittedSame DEF ExecKept
  <1>2. /\ \A i : (Adds(i) <=> Adds(i)') /\ (AllAt(i) <=> AllAt(i)')
        /\ \A i, t : AddAt(i, t) <=> AddAt(i, t)'
        /\ \A i, a : Writes(i, a) <=> Writes(i, a)'
        /\ \A u, t : MustPrecede(u, t) <=> MustPrecede(u, t)'
        /\ \A u, p : Before(u, p) <=> Before(u, p)'
    BY OrderFixed DEF ExecKept
  <1>3. prog' = prog /\ call' = call /\ entry' = entry
    BY DEF ExecKept
  <1>4. CallShape'
    <2>1. SUFFICES ASSUME call.pc # "idle" PROVE CallShape'
      BY <1>3 DEF CallShape
    <2>2. ip' = ip
      BY <2>1, <1>1
    <2>3. prog[ip].op = "add_task" => call.task \in Tasks
      BY <2>1, Submissions DEF CallShape, Adds
    <2> QED
      BY <2>1, <2>2, <2>3, <1>1, <1>2, <1>3 DEF CallShape, ExecKept
  <1>5. Fresh'
    BY <1>1 DEF Fresh, ExecKept
  <1>6. OrderKept'
    BY <1>1, <1>2 DEF OrderKept
  <1>7. HashHolds'
    BY <1>1, <1>2, <1>3 DEF HashHolds, HoldsIn
  <1>8. \A i : LedTo(entry, i) <=> LedTo(entry, i)'
    BY <1>2, <1>3 DEF LedTo, OutBehind
  <1>9. HashLeads'
    <2> SUFFICES ASSUME ip' \in DOMAIN prog, prog[ip'].op # "destroy",
                        NEW i \in DOMAIN prog, Adds(i), i < ip', ended'[prog[i].task] = 0
                 PROVE  LedTo(entry, i)
      BY <1>2, <1>3, <1>8 DEF HashLeads, LeadsIn
    <2>1. prog[i].task \in Tasks /\ ended[prog[i].task] = 0 /\ i < ip
      BY <1>1, Submissions, TaskTypes DEF ExecKept, EndedKept
    <2>2. ip \in DOMAIN prog /\ prog[ip].op # "destroy"
      BY DEF CallOver, ExecKept
    <2> QED
      BY <2>1, <2>2 DEF HashLeads, LeadsIn
  <1>10. Submitting'
    <2> SUFFICES ASSUME Building PROVE Submitting'
      BY <1>1 DEF Submitting
    <2>1. ip' = ip
      BY <1>1 DEF Building
    <2>2. call.task \in Tasks
      BY Submissions DEF Building, CallShape, Adds
    <2>3. \A x : Entered(x) <=> Entered(x)'
      BY <2>1, <1>2, <1>3 DEF Entered
    <2>4. \A u, d : Asks(u, d) <=> Asks(u, d)'
      BY <2>1, <1>2, <1>3 DEF Asks
    <2>5. \A u, a : Yields(u, entry[a]) <=> Yields(u, entry[a])'
      BY <2>1, <1>2, <1>3 DEF Yields
    <2> QED
      BY <2>1, <2>2, <2>3, <2>4, <2>5, <1>2, <1>3 DEF Submitting
  <1> QED
    BY <1>4, <1>5, <1>6, <1>7, <1>9, <1>10

\* Where t goes: a task that was ready or had started owes nothing still, and a
\* task becomes ready when it is in order, behind the submission or the race.
ReadyStep(t) ==
    /\ Loose(t) \/ begun[t] = 1 => Owed(t)' = Owed(t)
    /\ Loose(t)' \/ begun'[t] = 1 =>
          \/ Loose(t) \/ begun[t] = 1
          \/ /\ Sent(t) /\ Owed(t)' = 0 /\ Cleared(t)
             /\ Building /\ t = call.task => team # {Master} /\ task[t].nHard # 0

\* What the steps of executors have in common: if they release edges and start
\* tasks as they should, the order is kept.
LEMMA ExecStep ==
    ASSUME IInv, TypeOK', ExecKept, \A t \in Tasks : EdgeStep(t) /\ ReadyStep(t),
           \A t \in Tasks : Overtaken(t)' \/ task'[t].nPred <= task'[t].nHard,
           call.pc = "insert" /\ Building => Waits(OpTask)'
    PROVE  CallShape' /\ Counts' /\ Ready' /\ Fresh' /\ Quiet' /\ OrderKept' /\ HashHolds' /\ HashLeads' /\ Submitting'
  <1> USE DEF IInv
  <1>1. ASSUME NEW t \in Tasks
        PROVE  /\ IsFiniteSet(Pend(t))' /\ (Cardinality(Pend(t)) <= Owed(t))'
               /\ \A u \in Tasks : Safe(u, t) => Safe(u, t)'
    BY SafeKept DEF ExecKept
  <1>2. CallShape' /\ Fresh' /\ OrderKept' /\ HashHolds' /\ HashLeads' /\ Submitting'
    BY <1>1, ExecHash
  <1>3. /\ \A t : Old(t) <=> Old(t)'
        /\ call.pc # "idle" => ip' = ip
        /\ Building <=> Building'
    BY SubmittedSame DEF ExecKept
  <1>4. /\ \A u, t : MustPrecede(u, t) <=> MustPrecede(u, t)'
        /\ \A u, p : Before(u, p) <=> Before(u, p)'
    BY OrderFixed DEF ExecKept
  <1>5. Counts'
    <2> SUFFICES ASSUME NEW t \in Tasks PROVE (3 * (task[t].nHard + Uncounted(t)) < UintMod)'
      BY <1>1 DEF Counts
    <2>1. Uncounted(t)' = Uncounted(t) /\ task'[t].nHard = task[t].nHard
      BY DEF ExecKept, Uncounted
    <2> QED
      BY <2>1 DEF Counts
  <1>6. \A t \in Tasks : Cleared(t) => Cleared(t)'
    BY <1>4 DEF Cleared, ExecKept, EndedKept
  <1>7. \A t \in Tasks : Sent(t) => Sent(t)'
    BY <1>3 DEF Sent, ExecKept
  <1>8. Ready'
    <2> SUFFICES ASSUME NEW t \in Tasks, Loose(t)' \/ begun'[t] = 1
                 PROVE  Sent(t)' /\ Owed(t)' = 0 /\ Cleared(t)'
      BY DEF Ready
    <2>1. CASE Loose(t) \/ begun[t] = 1
      BY <2>1, <1>6, <1>7 DEF Ready, ReadyStep
    <2>2. CASE ~(Loose(t) \/ begun[t] = 1)
      BY <2>2, <1>6, <1>7 DEF ReadyStep
    <2> QED
      BY <2>1, <2>2
  <1>9. Quiet'
    <2> SUFFICES ASSUME Building PROVE Quiet'
      BY <1>3 DEF Quiet
    <2>1. PICK c \in Tasks : c = call.task /\ call'.task = c
      BY Submissions DEF Building, CallShape, Adds, ExecKept
    <2>2. call.pc = "insert" => OpTask \in Tasks
      <3>1. call.ops \in Seq(OpSet)
        BY DEF TypeOK, CallSet
      <3>2. ASSUME call.pc = "insert" PROVE OpTask \in Tasks
        <4>1. call.ops # <<>>
          BY <3>2 DEF CallShape
        <4>2. Head(call.ops) \in OpSet
          BY <3>1, <4>1
        <4> QED
          BY <4>2 DEF OpTask, OpSet
      <3> QED
        BY <3>2
    <2>3. PICK o : o = OpTask /\ OpTask' = o
      BY DEF ExecKept, OpTask
    <2>4. /\ call' = call /\ team' = team /\ task'[c].nHard = task[c].nHard
          /\ call.pc = "insert" => task'[o].locked = task[o].locked
      BY <2>1, <2>2, <2>3 DEF ExecKept
    <2>5. team = {Master} \/ task[c].nHard = 0 => ~Loose(c)' /\ begun'[c] = 0
      <3> SUFFICES ASSUME team = {Master} \/ task[c].nHard = 0 PROVE ~Loose(c)' /\ begun'[c] # 1
        BY <2>1 DEF TypeOK
      <3>1. ~Loose(c) /\ begun[c] = 0
        BY <2>1 DEF Quiet
      <3> QED
        BY <2>1, <3>1 DEF ReadyStep
    <2>6. \A u \in Tasks : Safe(u, c) => Safe(u, c)'
      BY <1>1, <2>1
    <2>7. \A u \in Tasks : ended'[u] = 0 => ended[u] = 0
      BY DEF ExecKept, EndedKept, TypeOK
    <2>8. call.pc = "insert" => Waits(o)'
      BY <2>3
    <2>9. /\ call.pc \in {"insert", "count"} /\ team # {Master} => task[c].nHard = 0
          /\ call.pc = "insert" => 3 * (task[c].nHard + 1) < UintMod /\ task[o].locked
          /\ call.pc = "count" => \A u \in Tasks : Before(u, o) => Safe(u, c)
          /\ team # {Master} /\ call.pc = "insert" =>
                \A u \in Tasks : MustPrecede(u, c) /\ ended[u] = 0 => Before(u, o)
          /\ team # {Master} /\ (call.pc = "count" \/ task[c].nHard > 0) =>
                \A u \in Tasks : MustPrecede(u, c) => Safe(u, c)
      BY <2>1, <2>3 DEF Quiet
    <2>10. /\ call'.pc \in {"insert", "count"} /\ team' # {Master} => task'[c].nHard = 0
           /\ call'.pc = "insert" => 3 * (task'[c].nHard + 1) < UintMod /\ task'[o].locked
           /\ call'.pc = "count" => \A u \in Tasks : Before(u, o)' => Safe(u, c)'
           /\ team' # {Master} /\ call'.pc = "insert" =>
                 \A u \in Tasks : MustPrecede(u, c)' /\ ended'[u] = 0 => Before(u, o)'
           /\ team' # {Master} /\ (call'.pc = "count" \/ task'[c].nHard > 0) =>
                 \A u \in Tasks : MustPrecede(u, c)' => Safe(u, c)'
      BY <2>4, <2>6, <2>7, <2>9, <1>4
    <2> QED
      BY <2>1, <2>3, <2>4, <2>5, <2>8, <2>10 DEF Quiet
  <1> QED
    BY <1>2, <1>5, <1>8, <1>9

-----------------------------------------------------------------------------
(* Frames that go on *)

\* An executor that is not in a loop of its own is outside the calls of Master.
LEMMA Outside ==
    ASSUME IInv, NEW e \in Executors, stack[e] # <<>>, Top(e).pc # "main" \/ Top(e).todo # <<>>
    PROVE  call.pc # "idle" => e # Master /\ team # {Master}
  <1>1. Top(e) = stack[e][Len(stack[e])] /\ Len(stack[e]) \in DOMAIN stack[e]
    BY Tops DEF IInv
  <1>2. ASSUME call.pc # "idle" PROVE e # Master
    BY <1>1, <1>2 DEF IInv, FrameShape, Shape
  <1> QED
    BY <1>2 DEF IInv, FrameShape, Shape

\* The innermost frame of e becomes f, which runs the same task.
LEMMA TopShape ==
    ASSUME TypeOK, NEW busy, FrameShape, NEW e \in Executors, stack[e] # <<>>, NEW f \in FrameSet, NEW stk,
           stk = [stack EXCEPT ![e][Len(stack[e])] = f],
           f.task = Top(e).task, f.pc = "main" <=> Top(e).pc = "main", f.pc \in {"func", "finish"} => f.ready = <<>>,
           busy => e # Master /\ call.pc # "idle"
    PROVE  TopSet(stack, stk, e, f) /\ Shape(stk, team, busy)
  <1>1. TopSet(stack, stk, e, f)
    BY SetTopIs
  <1>2. stack \in [Executors -> Seq(FrameSet)] /\ Top(e) = stack[e][Len(stack[e])] /\ Master \in Executors
    BY Tops, ExecutorsAssumption DEF TypeOK
  <1>3. /\ \A x \in Executors : DOMAIN stk[x] = DOMAIN stack[x] /\ (stack[x] = <<>> <=> stk[x] = <<>>)
        /\ \A x \in Executors : \A d \in DOMAIN stack[x] :
              stk[x][d] = IF x = e /\ d = Len(stack[e]) THEN f ELSE stack[x][d]
        /\ Len(stack[e]) \in DOMAIN stack[e]
    <2>1. stk \in [Executors -> Seq(FrameSet)] /\ \A x \in Executors : DOMAIN stk[x] = DOMAIN stack[x]
      BY <1>1 DEF TopSet
    <2>2. ASSUME NEW x \in Executors PROVE stack[x] = <<>> <=> stk[x] = <<>>
      <3>1. stack[x] \in Seq(FrameSet) /\ stk[x] \in Seq(FrameSet) /\ DOMAIN stk[x] = DOMAIN stack[x]
        BY <2>1, <1>2
      <3> QED
        BY <3>1
    <2> QED
      BY <1>1, <2>2 DEF TopSet
  <1>4. stk[Master] # <<>> /\ \A x \in Executors : x \notin team => stk[x] = <<>>
    BY <1>2, <1>3 DEF FrameShape, Shape
  <1>5. busy => Len(stk[Master]) = 1 /\ stk[Master][1].todo = <<>>
    <2> SUFFICES ASSUME busy PROVE stk[Master] = stack[Master]
      BY DEF FrameShape, Shape
    <2> QED
      BY <1>2
  <1>6. ASSUME NEW x \in Executors, NEW d \in DOMAIN stk[x]
        PROVE  /\ stk[x][d].pc = "main" <=> x = Master /\ d = 1
               /\ stk[x][d].pc # "main" => stk[x][d].task \in Tasks
               /\ stk[x][d].pc \in {"func", "finish"} => stk[x][d].ready = <<>>
    <2>1. d \in DOMAIN stack[x]
      BY <1>3
    <2>2. /\ stack[x][d].pc = "main" <=> x = Master /\ d = 1
          /\ stack[x][d].pc # "main" => stack[x][d].task \in Tasks
          /\ stack[x][d].pc \in {"func", "finish"} => stack[x][d].ready = <<>>
      BY <2>1 DEF FrameShape, Shape
    <2>3. CASE x = e /\ d = Len(stack[e])
      BY <2>1, <2>2, <2>3, <1>2, <1>3
    <2>4. CASE ~(x = e /\ d = Len(stack[e]))
      BY <2>1, <2>2, <2>4, <1>3
    <2> QED
      BY <2>3, <2>4
  <1> QED
    BY <1>1, <1>4, <1>5, <1>6 DEF Shape

\* The same, as a step.
LEMMA TopStep ==
    ASSUME TypeOK, FrameShape, NEW e \in Executors, stack[e] # <<>>, NEW f \in FrameSet,
           stack' = [stack EXCEPT ![e][Len(stack[e])] = f],
           f.task = Top(e).task, f.pc = "main" <=> Top(e).pc = "main", f.pc \in {"func", "finish"} => f.ready = <<>>,
           call'.pc # "idle" => e # Master /\ call.pc # "idle", team' = team
    PROVE  TopSet(stack, stack', e, f) /\ FrameShape'
  <1>1. PICK busy : busy = (call'.pc # "idle")
    OBVIOUS
  <1>2. TopSet(stack, stack', e, f) /\ Shape(stack', team, busy)
    BY <1>1, TopShape
  <1> QED
    BY <1>1, <1>2 DEF FrameShape

\* e starts a task.
LEMMA PushShape ==
    ASSUME NEW stk \in [Executors -> Seq(FrameSet)], NEW stk2, NEW tm, NEW busy, Shape(stk, tm, busy),
           NEW e \in Executors, e \in tm, busy => e # Master, NEW g \in FrameSet, Pushed(stk, stk2, e, g),
           g.task \in Tasks, g.pc = "func", g.ready = <<>>, stk[e] = <<>> => e # Master
    PROVE  Shape(stk2, tm, busy)
  <1>1. Master \in Executors
    BY ExecutorsAssumption
  <1>2. stk2[Master] # <<>> /\ \A x \in Executors : x \notin tm => stk2[x] = <<>>
    BY <1>1 DEF Shape, Pushed
  <1>3. busy => Len(stk2[Master]) = 1 /\ stk2[Master][1].todo = <<>>
    BY <1>1 DEF Shape, Pushed
  <1>4. ASSUME NEW x \in Executors, NEW d \in DOMAIN stk2[x]
        PROVE  /\ stk2[x][d].pc = "main" <=> x = Master /\ d = 1
               /\ stk2[x][d].pc # "main" => stk2[x][d].task \in Tasks
               /\ stk2[x][d].pc \in {"func", "finish"} => stk2[x][d].ready = <<>>
    <2>1. CASE x = e /\ d = Len(stk[e]) + 1
      <3>1. e = Master => d # 1
        <4>1. stk[e] \in Seq(FrameSet)
          OBVIOUS
        <4>2. e = Master => Len(stk[e]) # 0
          BY <4>1 DEF Shape
        <4> QED
          BY <2>1, <4>1, <4>2
      <3> QED
        BY <2>1, <3>1 DEF Pushed
    <2>2. CASE ~(x = e /\ d = Len(stk[e]) + 1)
      <3>1. d \in DOMAIN stk[x] /\ stk2[x][d] = stk[x][d]
        BY <2>2 DEF Pushed
      <3> QED
        BY <3>1 DEF Shape
    <2> QED
      BY <2>1, <2>2
  <1> QED
    BY <1>2, <1>3, <1>4 DEF Shape

\* No task comes to a new place.
Moved == \A t \in Tasks, x \in Executors, d, i \in Nat :
            Place(stack', t, x, d, i) => WasPlace(stack, t, x, d, i)

\* The runs go on when no task starts, returns or becomes ready.
LEMMA RunsSame ==
    ASSUME Runs, Moved, OnePlace(stack)', ended' = ended, begun' = begun, queue' = queue,
           \A t \in Tasks : task'[t].finished = task[t].finished,
           \A x \in Executors : \A d \in DOMAIN stack'[x] : stack'[x][d].pc = "func" <=> stack[x][d].pc = "func"
    PROVE  Runs' /\ \A t \in Tasks : (Loose(t)' => Loose(t)) /\ (InFrames(t)' => InFrames(t))
  <1>1. ASSUME NEW t \in Tasks, InFrames(t)' PROVE InFrames(t)
    <2>1. PICK x \in Executors, d, i \in Nat : i > 0 /\ Place(stack', t, x, d, i)
      BY <1>1 DEF InFrames
    <2>2. PICK k \in Nat : Place(stack, t, x, d, k) /\ (k = 0 <=> i = 0)
      BY <2>1 DEF Moved, WasPlace
    <2>3. k > 0
      BY <2>1, <2>2
    <2> QED
      BY <2>2, <2>3 DEF InFrames
  <1>2. ASSUME NEW t \in Tasks, NEW x \in Executors, NEW d \in Nat, NEW i \in Nat, Place(stack', t, x, d, i)
        PROVE  /\ queue'[t] = 0
               /\ begun'[t] = 1 <=> i = 0
               /\ i = 0 => /\ Kind[t] = "dynamic"
                           /\ stack'[x][d].pc = "func" <=> ended'[t] = 0
    <2>1. PICK k \in Nat : Place(stack, t, x, d, k) /\ (k = 0 <=> i = 0)
      BY <1>2 DEF Moved, WasPlace
    <2>2. /\ queue[t] = 0
          /\ begun[t] = 1 <=> k = 0
          /\ k = 0 => Kind[t] = "dynamic" /\ (stack[x][d].pc = "func" <=> ended[t] = 0)
      BY <2>1 DEF Runs
    <2>3. d \in DOMAIN stack'[x]
      BY <1>2 DEF Place
    <2> QED
      BY <2>1, <2>2, <2>3
  <1>3. Runs'
    BY <1>2 DEF Runs
  <1> QED
    BY <1>1, <1>3 DEF Loose

\* A step that leaves the lists of successors alone leaves the edges alone.
LEMMA EdgesSame ==
    ASSUME \A p \in Tasks, s \in Seq(Tasks) : Listed(p, s)' => Listed(p, s)
    PROVE  \A t \in Tasks : Pend(t)' \subseteq Pend(t)
  BY DEF Pend, EdgeAt

\* A frame whose task has nothing left to release.
LEMMA ListsSame ==
    ASSUME NEW e \in Executors, NEW f, TopSet(stack, stack', e, f),
           f.pc \notin {"finish", "release"}, stack[e][Len(stack[e])].pc # "finish",
           ended' = ended, \A p \in Tasks : task'[p].succ = task[p].succ
    PROVE  \A p \in Tasks : (Waits(p) <=> Waits(p)') /\ \A s : Listed(p, s)' => Listed(p, s)
  <1>1. \A x \in Executors : \A d \in DOMAIN stack[x] : stack'[x][d].pc \in {"finish", "release"} => stack'[x][d] = stack[x][d]
    BY DEF TopSet
  <1>2. \A x \in Executors : \A d \in DOMAIN stack[x] : stack[x][d].pc = "finish" => stack'[x][d] = stack[x][d]
    BY DEF TopSet
  <1>3. \A x \in Executors : DOMAIN stack'[x] = DOMAIN stack[x]
    BY DEF TopSet
  <1>4. ASSUME NEW p \in Tasks PROVE Waits(p) <=> Waits(p)'
    BY <1>1, <1>2, <1>3 DEF Waits
  <1>5. ASSUME NEW p \in Tasks, NEW s, Listed(p, s)' PROVE Listed(p, s)
    BY <1>1, <1>2, <1>3, <1>4, <1>5 DEF Listed
  <1> QED
    BY <1>4, <1>5

\* A step that leaves the counts of edges alone leaves what a task owes alone.
LEMMA OwedSame ==
    ASSUME NEW t \in Tasks, call' = call, task'[t].nPred = task[t].nPred
    PROVE  Owed(t)' = Owed(t) /\ (Overtaken(t) <=> Overtaken(t)')
  <1>1. Uncounted(t)' = Uncounted(t)
    BY DEF Uncounted
  <1> QED
    BY <1>1 DEF Owed, Overtaken

\* The task of the next operation of Master.
LEMMA OpTaskType ==
    ASSUME TypeOK, CallShape, call.pc # "idle", call.ops # <<>>
    PROVE  /\ Head(call.ops) \in OpSet /\ OpTask \in Tasks /\ Known(OpTask) /\ Head(call.ops) \in Elems(call.ops)
           /\ call.ops \in Seq(OpSet) /\ Tail(call.ops) \in Seq(OpSet) /\ OpTask = Head(call.ops).of
           /\ Elems(Tail(call.ops)) \subseteq Elems(call.ops)
           /\ \A o \in Elems(call.ops) : o = Head(call.ops) \/ o \in Elems(Tail(call.ops))
  <1>1. call.ops \in Seq(OpSet)
    BY DEF TypeOK, CallSet
  <1>2. Head(call.ops) \in OpSet
    BY <1>1
  <1>3. /\ Head(call.ops) \in Elems(call.ops) /\ Tail(call.ops) \in Seq(OpSet)
        /\ Elems(Tail(call.ops)) \subseteq Elems(call.ops)
        /\ \A o \in Elems(call.ops) : o = Head(call.ops) \/ o \in Elems(Tail(call.ops))
    BY <1>1, <1>2, Members
  <1>4. OpTask \in Tasks
    BY <1>2 DEF OpTask, OpSet
  <1>5. Known(OpTask)
    BY <1>3 DEF OpTask, CallShape
  <1> QED
    BY <1>1, <1>2, <1>3, <1>4, <1>5 DEF OpTask

\* A step of an executor that makes no edge and no task ready.
LEMMA QuietStep ==
    ASSUME IInv, TypeOK', FrameShape', OnePlace(stack)', Runs', ExecKept,
           \A p \in Tasks : (Waits(p) /\ task[p].locked => Waits(p)') /\ \A s \in Seq(Tasks) : Listed(p, s)' => Listed(p, s),
           \A t \in Tasks : task'[t].nPred = task[t].nPred,
           \A t \in Tasks : Loose(t)' \/ begun'[t] = 1 => Loose(t) \/ begun[t] = 1
    PROVE  IInv'
  <1>1. \A t \in Tasks : Pend(t)' \subseteq Pend(t)
    BY EdgesSame
  <1>2. \A t \in Tasks : Owed(t)' = Owed(t) /\ (Overtaken(t) <=> Overtaken(t)')
    BY OwedSame DEF ExecKept
  <1>3. \A t \in Tasks : EdgeStep(t) /\ ReadyStep(t)
    BY <1>1, <1>2 DEF EdgeStep, ReadyStep
  <1>4. \A t \in Tasks : Overtaken(t)' \/ task'[t].nPred <= task'[t].nHard
    BY <1>2 DEF IInv, Counts, ExecKept
  <1>5. call.pc = "insert" /\ Building => Waits(OpTask)'
    <2> SUFFICES ASSUME call.pc = "insert", Building PROVE Waits(OpTask)'
      OBVIOUS
    <2>1. PICK o \in Tasks : o = OpTask /\ OpTask' = o
      <3>1. OpTask \in Tasks
        BY OpTaskType DEF IInv, CallShape
      <3> QED
        BY <3>1 DEF OpTask, ExecKept
    <2>2. Waits(o) /\ task[o].locked
      BY <2>1 DEF IInv, Quiet
    <2>3. Waits(o)'
      BY <2>2
    <2> QED
      BY <2>1, <2>3
  <1>6. Disciplined'
    BY OrderFixed DEF ExecKept, IInv
  <1> QED
    BY <1>3, <1>4, <1>5, <1>6, ExecStep DEF IInv

\* kupl_tb_count_add counts the task before it is handed over.
LEMMA SchedAddTbCountStep == ASSUME IInv, NEW e \in Executors, SchedAddTbCount(e) PROVE IInv'
  <1> DEFINE h == Top(e)
             f == [h EXCEPT !.counted = TRUE]
  <1>1. stack[e] # <<>> /\ h.todo # <<>> /\ h.pc \in {"main", "body", "add"}
    BY DEF SchedAddTbCount, Adding, At
  <1>2. h \in FrameSet /\ h = stack[e][Len(stack[e])]
    BY <1>1, Tops DEF IInv
  <1>3. /\ f \in FrameSet /\ f.task = h.task /\ f.pc = h.pc /\ f.todo = h.todo /\ f.ready = h.ready
        /\ h.pc \in {"main", "add"}
    BY <1>1, <1>2 DEF FrameSet
  <1>4. /\ stack' = [stack EXCEPT ![e][Len(stack[e])] = f]
        /\ prog' = prog /\ team' = team /\ ip' = ip /\ call' = call /\ task' = task /\ entry' = entry
        /\ queue' = queue /\ begun' = begun /\ ended' = ended
    BY DEF SchedAddTbCount, SetTop, program, dagVars, schedVars, history
  <1>5. call.pc # "idle" => e # Master
    BY <1>1, Outside
  <1> HIDE DEF f, h
  <1>6. TopSet(stack, stack', e, f) /\ FrameShape'
    BY <1>1, <1>2, <1>3, <1>4, <1>5, TopStep DEF h, IInv
  <1>7. Hold(f) = Hold(h)
    BY <1>3 DEF Hold
  <1>8. (\A t, x, d, i : Place(stack', t, x, d, i) <=> Place(stack, t, x, d, i)) /\ OnePlace(stack')
    BY <1>2, <1>3, <1>6, <1>7, SamePlaces DEF IInv
  <1>9. Moved
    BY <1>8 DEF Moved, WasPlace
  <1>10. Runs' /\ \A t \in Tasks : Loose(t)' => Loose(t)
    <2>1. \A x \in Executors : \A d \in DOMAIN stack'[x] : stack'[x][d].pc = "func" <=> stack[x][d].pc = "func"
      BY <1>2, <1>3, <1>6 DEF TopSet
    <2> QED
      BY <2>1, <1>4, <1>8, <1>9, RunsSame DEF IInv
  <1>11. \A p \in Tasks : (Waits(p) <=> Waits(p)') /\ \A s : Listed(p, s)' => Listed(p, s)
    BY <1>2, <1>3, <1>4, <1>6, ListsSame
  <1>12. TypeOK'
    BY <1>4, <1>6 DEF IInv, TypeOK, TopSet
  <1>13. ExecKept
    BY <1>4 DEF ExecKept, EndedKept
  <1> QED
    BY <1>4, <1>6, <1>8, <1>10, <1>11, <1>12, <1>13, QuietStep

\* A task that was sent, or runs, was submitted.
LEMMA SentKnown ==
    ASSUME Disciplined, TypeOK, Fresh, Ready, NEW t \in Tasks
    PROVE  /\ Sent(t) => Known(t)
           /\ begun[t] = 1 \/ Loose(t) => Known(t)
           /\ Known(t) => Kind[t] = "dynamic"
  <1>1. Old(t) => Known(t)
    BY DEF Old, Known, Made, AddAt
  <1>2. Sent(t) => Known(t)
    BY <1>1 DEF Sent, Fresh, NoTask
  <1>3. Known(t) => Kind[t] = "dynamic"
    BY Submissions DEF Known, Made
  <1> QED
    BY <1>2, <1>3 DEF Ready

\* The task of a frame that is not the first one of Master.
LEMMA FrameTask ==
    ASSUME IInv, NEW e \in Executors, stack[e] # <<>>, Top(e).pc # "main"
    PROVE  /\ Top(e).task \in Tasks /\ Place(stack, Top(e).task, e, Len(stack[e]), 0)
           /\ begun[Top(e).task] = 1 /\ Kind[Top(e).task] = "dynamic" /\ Known(Top(e).task)
           /\ Top(e).pc = "func" <=> ended[Top(e).task] = 0
           /\ ended[Top(e).task] \in {0, 1}
           /\ \A x \in Executors : \A d \in DOMAIN stack[x] :
                 stack[x][d].pc # "main" /\ stack[x][d].task = Top(e).task => x = e /\ d = Len(stack[e])
  <1> DEFINE n == Len(stack[e])
  <1>1. n \in DOMAIN stack[e] /\ n \in Nat /\ Top(e) = stack[e][n] /\ stack \in [Executors -> Seq(FrameSet)]
    BY Tops DEF IInv, TypeOK
  <1>2. Top(e).task \in Tasks
    BY <1>1 DEF IInv, FrameShape, Shape
  <1>3. Place(stack, Top(e).task, e, n, 0)
    BY <1>1, RunPlaces
  <1>4. /\ begun[Top(e).task] = 1 /\ Kind[Top(e).task] = "dynamic"
        /\ Top(e).pc = "func" <=> ended[Top(e).task] = 0
    BY <1>1, <1>2, <1>3 DEF IInv, Runs
  <1>5. Known(Top(e).task) /\ ended[Top(e).task] \in {0, 1}
    BY <1>2, <1>4, SentKnown DEF IInv, TypeOK
  <1>6. ASSUME NEW x \in Executors, NEW d \in DOMAIN stack[x], stack[x][d].pc # "main", stack[x][d].task = Top(e).task
        PROVE  x = e /\ d = n
    <2>1. Place(stack, Top(e).task, x, d, 0) /\ d \in Nat
      BY <1>1, <1>6, RunPlaces
    <2> QED
      BY <2>1, <1>1, <1>2, <1>3 DEF IInv, OnePlace
  <1> QED
    BY <1>2, <1>3, <1>4, <1>5, <1>6

\* kupl_tb_count_sub, when the ready successors have been handed over.
LEMMA TaskCountSubStep == ASSUME IInv, NEW e \in Executors, TaskCountSub(e) PROVE IInv'
  <1> DEFINE h == Top(e)
             f == [h EXCEPT !.pc = "deref"]
  <1>1. stack[e] # <<>> /\ h.pc = "add" /\ h.todo = <<>>
    BY DEF TaskCountSub, At
  <1>2. h \in FrameSet /\ h = stack[e][Len(stack[e])]
    BY <1>1, Tops DEF IInv
  <1>3. f \in FrameSet /\ f.task = h.task /\ f.pc = "deref" /\ f.todo = h.todo
    BY <1>1, <1>2 DEF FrameSet
  <1>4. /\ stack' = [stack EXCEPT ![e][Len(stack[e])] = f]
        /\ prog' = prog /\ team' = team /\ ip' = ip /\ call' = call /\ task' = task /\ entry' = entry
        /\ queue' = queue /\ begun' = begun /\ ended' = ended
    BY DEF TaskCountSub, SetTop, program, dagVars, schedVars, history
  <1>5. call.pc # "idle" => e # Master
    BY <1>1, Outside
  <1> HIDE DEF f, h
  <1>6. TopSet(stack, stack', e, f) /\ FrameShape'
    BY <1>1, <1>2, <1>3, <1>4, <1>5, TopStep DEF h, IInv
  <1>7. Hold(f) = Hold(h)
    BY <1>1, <1>3 DEF Hold
  <1>8. (\A t, x, d, i : Place(stack', t, x, d, i) <=> Place(stack, t, x, d, i)) /\ OnePlace(stack')
    BY <1>1, <1>2, <1>3, <1>6, <1>7, SamePlaces DEF IInv
  <1>9. Moved
    BY <1>8 DEF Moved, WasPlace
  <1>10. Runs' /\ \A t \in Tasks : Loose(t)' => Loose(t)
    <2>1. \A x \in Executors : \A d \in DOMAIN stack'[x] : stack'[x][d].pc = "func" <=> stack[x][d].pc = "func"
      BY <1>1, <1>2, <1>3, <1>6 DEF TopSet
    <2> QED
      BY <2>1, <1>4, <1>8, <1>9, RunsSame DEF IInv
  <1>11. \A p \in Tasks : (Waits(p) <=> Waits(p)') /\ \A s : Listed(p, s)' => Listed(p, s)
    BY <1>1, <1>2, <1>3, <1>4, <1>6, ListsSame
  <1>12. TypeOK'
    BY <1>4, <1>6 DEF IInv, TypeOK, TopSet
  <1>13. ExecKept
    BY <1>4 DEF ExecKept, EndedKept
  <1> QED
    BY <1>4, <1>6, <1>8, <1>10, <1>11, <1>12, <1>13, QuietStep

\* kupl_gnode_release_ready_safe takes the list when no edge is being inserted.
LEMMA TaskFinishDynamicStep == ASSUME IInv, NEW e \in Executors, TaskFinishDynamic(e) PROVE IInv'
  <1> DEFINE h == Top(e)
             f == [h EXCEPT !.pc = "release", !.todo = task[h.task].succ]
  <1>1. stack[e] # <<>> /\ h.pc = "finish" /\ ~task[h.task].locked
    BY DEF TaskFinishDynamic, At
  <1>2. h \in FrameSet /\ h = stack[e][Len(stack[e])] /\ Len(stack[e]) \in DOMAIN stack[e]
    BY <1>1, Tops DEF IInv
  <1>3. h.task \in Tasks /\ h.ready = <<>> /\ task[h.task].succ \in Seq(Tasks)
    <2>1. h.task \in Tasks
      BY <1>1, FrameTask
    <2>2. h.ready = <<>>
      BY <1>1, <1>2 DEF IInv, FrameShape, Shape
    <2> QED
      BY <2>1, <2>2, TaskTypes DEF IInv
  <1>4. /\ f \in FrameSet /\ f.task = h.task /\ f.pc = "release" /\ f.todo = task[h.task].succ /\ f.ready = h.ready
    BY <1>1, <1>2, <1>3 DEF FrameSet
  <1>5. /\ stack' = [stack EXCEPT ![e][Len(stack[e])] = f]
        /\ prog' = prog /\ team' = team /\ ip' = ip /\ call' = call /\ task' = task /\ entry' = entry
        /\ queue' = queue /\ begun' = begun /\ ended' = ended
    BY DEF TaskFinishDynamic, SetTop, program, dagVars, schedVars, history
  <1>6. call.pc # "idle" => e # Master
    BY <1>1, Outside
  <1> HIDE DEF f, h
  <1>7. TopSet(stack, stack', e, f) /\ FrameShape'
    BY <1>1, <1>2, <1>3, <1>4, <1>5, <1>6, TopStep DEF h, IInv
  <1>8. Hold(f) = Hold(h)
    BY <1>1, <1>3, <1>4 DEF Hold
  <1>9. (\A t, x, d, i : Place(stack', t, x, d, i) <=> Place(stack, t, x, d, i)) /\ OnePlace(stack')
    BY <1>1, <1>2, <1>4, <1>7, <1>8, SamePlaces DEF IInv
  <1>10. Moved
    BY <1>9 DEF Moved, WasPlace
  <1>11. Runs' /\ \A t \in Tasks : Loose(t)' => Loose(t)
    <2>1. \A x \in Executors : \A d \in DOMAIN stack'[x] : stack'[x][d].pc = "func" <=> stack[x][d].pc = "func"
      BY <1>1, <1>2, <1>4, <1>7 DEF TopSet
    <2> QED
      BY <2>1, <1>5, <1>9, <1>10, RunsSame DEF IInv
  <1>12. ASSUME NEW p \in Tasks PROVE (Waits(p)' => Waits(p)) /\ (Waits(p) /\ task[p].locked => Waits(p)')
    <2>1. ASSUME NEW x \in Executors, NEW d \in DOMAIN stack'[x], stack'[x][d].pc = "finish"
          PROVE  d \in DOMAIN stack[x] /\ stack[x][d] = stack'[x][d]
      BY <2>1, <1>4, <1>7 DEF TopSet
    <2>2. ASSUME NEW x \in Executors, NEW d \in DOMAIN stack[x], stack[x][d].task # h.task
          PROVE  d \in DOMAIN stack'[x] /\ stack[x][d] = stack'[x][d]
      BY <2>2, <1>2, <1>7 DEF TopSet
    <2>3. task[p].locked => p # h.task
      BY <1>1
    <2> QED
      BY <2>1, <2>2, <2>3, <1>5 DEF Waits
  <1>13. ASSUME NEW p \in Tasks, NEW s \in Seq(Tasks), Listed(p, s)' PROVE Listed(p, s)
    <2>1. CASE Waits(p)' /\ s = task'[p].succ
      BY <2>1, <1>5, <1>12 DEF Listed
    <2>2. CASE \E x \in Executors : \E d \in DOMAIN stack'[x] :
                  stack'[x][d].task = p /\ stack'[x][d].pc = "release" /\ stack'[x][d].todo = s
      <3>0. PICK x \in Executors : \E d \in DOMAIN stack'[x] :
                  stack'[x][d].task = p /\ stack'[x][d].pc = "release" /\ stack'[x][d].todo = s
        BY <2>2
      <3>1. PICK d \in DOMAIN stack'[x] :
                  stack'[x][d].task = p /\ stack'[x][d].pc = "release" /\ stack'[x][d].todo = s
        BY <3>0
      <3>2. CASE x = e /\ d = Len(stack[e])
        <4>1. p = h.task /\ s = task[p].succ
          BY <3>1, <3>2, <1>2, <1>4, <1>7 DEF TopSet
        <4>2. Waits(p)
          BY <4>1, <1>1, <1>2 DEF Waits
        <4> QED
          BY <4>1, <4>2 DEF Listed
      <3>3. CASE ~(x = e /\ d = Len(stack[e]))
        <4>1. d \in DOMAIN stack[x] /\ stack[x][d] = stack'[x][d]
          BY <3>1, <3>3, <1>7 DEF TopSet
        <4> QED
          BY <3>1, <4>1 DEF Listed
      <3> QED
        BY <3>2, <3>3
    <2> QED
      BY <1>13, <2>1, <2>2 DEF Listed
  <1>14. TypeOK'
    BY <1>5, <1>7 DEF IInv, TypeOK, TopSet
  <1>15. ExecKept
    BY <1>5 DEF ExecKept, EndedKept
  <1> QED
    BY <1>5, <1>7, <1>9, <1>11, <1>12, <1>13, <1>14, <1>15, QuietStep

\* The function of a task returns: what waits for it goes on waiting until its
\* successors are released.
LEMMA TaskExecuteStep == ASSUME IInv, NEW e \in Executors, TaskExecute(e) PROVE IInv'
  <1> DEFINE h == Top(e)
             f == [h EXCEPT !.pc = "finish"]
  <1>1. stack[e] # <<>> /\ h.pc = "func"
    <2>1. stack[e] # <<>> /\ (h.pc = "func" \/ h.pc = "body")
      BY DEF TaskExecute, At
    <2>2. h \in FrameSet
      BY <2>1, Tops DEF IInv
    <2> QED
      BY <2>1, <2>2 DEF FrameSet
  <1>2. h \in FrameSet /\ h = stack[e][Len(stack[e])] /\ Len(stack[e]) \in DOMAIN stack[e]
    BY <1>1, Tops DEF IInv
  <1>3. PICK q \in Tasks : q = h.task
    BY <1>1, FrameTask
  <1>4. /\ begun[q] = 1 /\ ended[q] = 0 /\ Known(q)
        /\ \A x \in Executors : \A d \in DOMAIN stack[x] :
              stack[x][d].pc # "main" /\ stack[x][d].task = q => x = e /\ d = Len(stack[e])
    BY <1>1, <1>3, FrameTask
  <1>5. /\ f \in FrameSet /\ f.task = h.task /\ f.pc = "finish" /\ f.todo = h.todo /\ f.ready = h.ready /\ h.ready = <<>>
    <2>1. h.ready = <<>>
      BY <1>1, <1>2 DEF IInv, FrameShape, Shape
    <2> QED
      BY <1>1, <1>2, <2>1 DEF FrameSet
  <1>6. /\ stack' = [stack EXCEPT ![e][Len(stack[e])] = f]
        /\ prog' = prog /\ team' = team /\ ip' = ip /\ call' = call /\ entry' = entry
        /\ queue' = queue /\ begun' = begun
        /\ task' = [task EXCEPT ![q].finished = TRUE]
        /\ ended' = [ended EXCEPT ![q] = @ + 1]
    BY <1>3 DEF TaskExecute, SetTop, program, dagVars, schedVars, history
  <1>7. call.pc # "idle" => e # Master
    BY <1>1, Outside
  <1> HIDE DEF f, h
  <1>8. TopSet(stack, stack', e, f) /\ FrameShape'
    BY <1>1, <1>2, <1>5, <1>6, <1>7, TopStep DEF h, IInv
  <1>9. Hold(f) = Hold(h)
    BY <1>1, <1>5 DEF Hold
  <1>10. (\A t, x, d, i : Place(stack', t, x, d, i) <=> Place(stack, t, x, d, i)) /\ OnePlace(stack')
    BY <1>1, <1>2, <1>5, <1>8, <1>9, SamePlaces DEF IInv
  <1>11. /\ ended' \in [Tasks -> {0, 1}] /\ ended'[q] = 1 /\ \A t \in Tasks : t # q => ended'[t] = ended[t]
    BY <1>4, <1>6 DEF IInv, TypeOK
  <1>12. /\ task' \in [Tasks -> TaskSet] /\ task'[q].finished = TRUE
         /\ \A t \in Tasks : t # q => task'[t] = task[t]
         /\ \A t \in Tasks : /\ task'[t].nHard = task[t].nHard /\ task'[t].locked = task[t].locked
                             /\ task'[t].nPred = task[t].nPred /\ task'[t].succ = task[t].succ
    <2>1. PICK r \in TaskSet : r = [task[q] EXCEPT !.finished = TRUE]
      BY ZenonT(60) DEF IInv, TypeOK, TaskSet
    <2>2. task' = [task EXCEPT ![q] = r] /\ task \in [Tasks -> TaskSet]
      BY <1>6, <2>1 DEF IInv, TypeOK
    <2>3. /\ r.finished = TRUE /\ r.nHard = task[q].nHard /\ r.locked = task[q].locked
          /\ r.nPred = task[q].nPred /\ r.succ = task[q].succ
      BY <2>1, <2>2 DEF TaskSet
    <2> QED
      BY <2>2, <2>3
  <1>13. Runs'
    <2>1. ASSUME NEW t \in Tasks
          PROVE  /\ ended'[t] = 1 => begun'[t] = 1
                 /\ task'[t].finished <=> ended'[t] = 1
                 /\ queue'[t] = 1 => begun'[t] = 0
      BY <1>4, <1>6, <1>11, <1>12 DEF IInv, Runs
    <2>2. ASSUME NEW t \in Tasks, NEW x \in Executors, NEW d \in Nat, NEW i \in Nat, Place(stack', t, x, d, i)
          PROVE  /\ queue'[t] = 0
                 /\ begun'[t] = 1 <=> i = 0
                 /\ i = 0 => /\ Kind[t] = "dynamic"
                             /\ stack'[x][d].pc = "func" <=> ended'[t] = 0
      <3>1. /\ queue[t] = 0
            /\ begun[t] = 1 <=> i = 0
            /\ i = 0 => Kind[t] = "dynamic" /\ (stack[x][d].pc = "func" <=> ended[t] = 0)
        BY <2>2, <1>10 DEF IInv, Runs
      <3>2. ASSUME i = 0 PROVE stack'[x][d].pc = "func" <=> ended'[t] = 0
        <4>1. /\ stack' \in [Executors -> Seq(FrameSet)] /\ d \in DOMAIN stack[x]
          BY <2>2, <1>8 DEF TopSet, Place
        <4>2. stack'[x][d].pc # "main" /\ stack'[x][d].task = t
          BY <3>2, <2>2, <4>1, RunPlaces
        <4>3. CASE x = e /\ d = Len(stack[e])
          <5>1. stack'[x][d] = f
            BY <4>1, <4>3, <1>8 DEF TopSet
          <5>2. t = q
            BY <5>1, <4>2, <1>3, <1>5
          <5> QED
            BY <5>1, <5>2, <1>5, <1>11
        <4>4. CASE ~(x = e /\ d = Len(stack[e]))
          <5>1. stack'[x][d] = stack[x][d]
            BY <4>1, <4>4, <1>8 DEF TopSet
          <5>2. t # q
            BY <5>1, <4>1, <4>2, <4>4, <1>4
          <5> QED
            BY <5>1, <5>2, <3>1, <3>2, <1>11
        <4> QED
          BY <4>3, <4>4
      <3> QED
        BY <3>1, <3>2, <1>6
    <2> QED
      BY <2>1, <2>2 DEF Runs
  <1>14. \A t \in Tasks : InFrames(t)' => InFrames(t)
    BY <1>10 DEF InFrames
  <1>15. ASSUME NEW p \in Tasks PROVE Waits(p) <=> Waits(p)'
    <2>1. CASE p = q
      <3>1. stack'[e][Len(stack[e])] = f /\ Len(stack[e]) \in DOMAIN stack'[e]
        BY <1>2, <1>8 DEF TopSet
      <3> QED
        BY <2>1, <3>1, <1>3, <1>4, <1>5 DEF Waits
    <2>2. CASE p # q
      <3>1. ASSUME NEW x \in Executors, NEW d \in DOMAIN stack[x], stack[x][d].task = p
            PROVE  d \in DOMAIN stack'[x] /\ stack'[x][d] = stack[x][d]
        BY <3>1, <2>2, <1>2, <1>3, <1>8 DEF TopSet
      <3>2. ASSUME NEW x \in Executors, NEW d \in DOMAIN stack'[x], stack'[x][d].task = p
            PROVE  d \in DOMAIN stack[x] /\ stack'[x][d] = stack[x][d]
        BY <3>2, <2>2, <1>3, <1>5, <1>8 DEF TopSet
      <3> QED
        BY <3>1, <3>2, <2>2, <1>11 DEF Waits
    <2> QED
      BY <2>1, <2>2
  <1>16. ASSUME NEW p \in Tasks, NEW s, Listed(p, s)' PROVE Listed(p, s)
    <2>1. \A x \in Executors : \A d \in DOMAIN stack'[x] :
             d \in DOMAIN stack[x] /\ (stack'[x][d].pc = "release" => stack'[x][d] = stack[x][d])
      BY <1>5, <1>8 DEF TopSet
    <2> QED
      BY <1>16, <2>1, <1>12, <1>15 DEF Listed
  <1>17. TypeOK'
    BY <1>6, <1>8, <1>11, <1>12 DEF IInv, TypeOK, TopSet
  <1>18. ExecKept
    <2>1. \A t \in Tasks : ended[t] = 1 => ended'[t] = 1
      BY <1>11
    <2> QED
      BY <2>1, <1>4, <1>6, <1>12 DEF ExecKept, EndedKept
  <1>19. \A t \in Tasks : Loose(t)' \/ begun'[t] = 1 => Loose(t) \/ begun[t] = 1
    BY <1>6, <1>14 DEF Loose
  <1> QED
    BY <1>8, <1>10, <1>12, <1>13, <1>15, <1>16, <1>17, <1>18, <1>19, QuietStep

\* kupl_task_deref: the counts and the lock stay as they are.
LEMMA DerefIs ==
    ASSUME NEW r \in TaskSet
    PROVE  /\ Deref(r) \in TaskSet /\ Deref(r).finished = r.finished /\ Deref(r).nPred = r.nPred
           /\ Deref(r).nHard = r.nHard /\ Deref(r).locked = r.locked
           /\ Deref(r).succ = r.succ \/ Deref(r).succ = <<>>
  <1> DEFINE a == r.ref - 1
             b == IF r.ref = 1 THEN "freed" ELSE r.life
             c == IF r.ref = 1 THEN <<>> ELSE r.succ
  <1>1. a \in Int /\ b \in {"none", "live", "freed"} /\ c \in Seq(Tasks) /\ (c = r.succ \/ c = <<>>)
    BY DEF TaskSet
  <1>2. Deref(r) = [r EXCEPT !.ref = a, !.life = b, !.succ = c]
    BY DEF Deref
  <1> HIDE DEF a, b, c
  <1>3. PICK v : v = [r EXCEPT !.ref = a, !.life = b, !.succ = c]
    OBVIOUS
  <1>4. /\ v \in TaskSet /\ v.finished = r.finished /\ v.nPred = r.nPred
        /\ v.nHard = r.nHard /\ v.locked = r.locked /\ v.succ = c
    BY <1>1, <1>3 DEF TaskSet
  <1> QED
    BY <1>1, <1>2, <1>3, <1>4

\* The end of kupl_task_finish: the task drops its own reference.
LEMMA TaskDerefStep == ASSUME IInv, NEW e \in Executors, TaskDeref(e) PROVE IInv'
  <1> DEFINE h == Top(e)
             n == Len(stack[e])
  <1>1. stack[e] # <<>> /\ h.pc = "deref"
    BY DEF TaskDeref, At
  <1>2. /\ h \in FrameSet /\ h = stack[e][n] /\ n \in DOMAIN stack[e] /\ n \in Nat
        /\ stack \in [Executors -> Seq(FrameSet)]
    BY <1>1, Tops DEF IInv, TypeOK
  <1>3. PICK q \in Tasks : q = h.task
    BY <1>1, FrameTask
  <1>4. /\ begun[q] = 1 /\ ended[q] = 1 /\ Known(q) /\ Kind[q] = "dynamic"
        /\ \A x \in Executors : \A d \in DOMAIN stack[x] :
              stack[x][d].pc # "main" /\ stack[x][d].task = q => x = e /\ d = n
    BY <1>1, <1>3, FrameTask
  <1>5. /\ stack' = [stack EXCEPT ![e] = SubSeq(@, 1, Len(@) - 1)]
        /\ prog' = prog /\ team' = team /\ ip' = ip /\ call' = call /\ entry' = entry
        /\ queue' = queue /\ begun' = begun /\ ended' = ended
        /\ task' = [task EXCEPT ![q] = Deref(@)]
    BY <1>3, <1>4 DEF TaskDeref, program, dagVars, schedVars, history
  <1>6. call.pc # "idle" => e # Master
    BY <1>1, Outside
  <1> HIDE DEF h, n
  <1>7. Popped(stack, stack', e)
    BY <1>1, <1>5, PopIs DEF IInv
  <1>8. /\ task' \in [Tasks -> TaskSet]
        /\ \A t \in Tasks : t # q => task'[t] = task[t]
        /\ \A t \in Tasks : /\ task'[t].nHard = task[t].nHard /\ task'[t].locked = task[t].locked
                            /\ task'[t].nPred = task[t].nPred /\ task'[t].finished = task[t].finished
    <2>1. PICK r \in TaskSet : r = Deref(task[q])
      BY DerefIs DEF IInv, TypeOK
    <2>2. task' = [task EXCEPT ![q] = r] /\ task \in [Tasks -> TaskSet]
      BY <1>5, <2>1 DEF IInv, TypeOK
    <2>3. /\ r.finished = task[q].finished /\ r.nHard = task[q].nHard /\ r.locked = task[q].locked
          /\ r.nPred = task[q].nPred
      BY <2>1, <2>2, DerefIs
    <2> QED
      BY <2>2, <2>3
  <1>9. OnePlace(stack') /\ \A t, x, d, i : Place(stack', t, x, d, i) => Place(stack, t, x, d, i)
    BY <1>7, PopPlaces DEF IInv
  <1>10. /\ \A x \in Executors : DOMAIN stack'[x] \subseteq DOMAIN stack[x]
         /\ \A x \in Executors : \A d \in DOMAIN stack'[x] : stack'[x][d] = stack[x][d]
         /\ \A x \in Executors : \A d \in DOMAIN stack[x] : d \notin DOMAIN stack'[x] => x = e /\ d = n
         /\ n \notin DOMAIN stack'[e]
    BY <1>7 DEF Popped, n
  <1>11. Moved
    BY <1>9 DEF Moved, WasPlace
  <1>12. Runs' /\ \A t \in Tasks : Loose(t)' => Loose(t)
    BY <1>5, <1>8, <1>9, <1>10, <1>11, RunsSame DEF IInv
  <1>13. FrameShape'
    <2>1. Master \in Executors
      BY ExecutorsAssumption
    <2>2. e = Master => n # 1
      BY <1>1, <1>2 DEF IInv, FrameShape, Shape
    <2>3. 1 \in DOMAIN stack[Master]
      <3>1. stack[Master] \in Seq(FrameSet) /\ stack[Master] # <<>>
        BY <2>1, <1>2 DEF IInv, FrameShape, Shape
      <3> QED
        BY <3>1
    <2>4. 1 \in DOMAIN stack'[Master]
      BY <2>1, <2>2, <2>3, <1>10
    <2>5. stack'[Master] # <<>>
      BY <2>4
    <2>6. ASSUME NEW x \in Executors, x \notin team PROVE stack'[x] = <<>>
      <3>1. x # e
        BY <2>6, <1>1 DEF IInv, FrameShape, Shape
      <3> QED
        BY <2>6, <3>1, <1>7 DEF Popped, IInv, FrameShape, Shape
    <2>7. call.pc # "idle" => stack'[Master] = stack[Master]
      BY <2>1, <1>6, <1>7 DEF Popped
    <2>8. ASSUME NEW x \in Executors, NEW d \in DOMAIN stack'[x]
          PROVE  LET f == stack'[x][d]
                 IN  /\ f.pc = "main" <=> x = Master /\ d = 1
                     /\ f.pc # "main" => f.task \in Tasks
                     /\ f.pc \in {"func", "finish"} => f.ready = <<>>
      <3>1. d \in DOMAIN stack[x] /\ stack'[x][d] = stack[x][d]
        BY <1>10
      <3> QED
        BY <3>1 DEF IInv, FrameShape, Shape
    <2>9. call.pc # "idle" => Len(stack'[Master]) = 1 /\ stack'[Master][1].todo = <<>>
      BY <2>7 DEF IInv, FrameShape, Shape
    <2> QED
      BY <2>5, <2>6, <2>8, <2>9, <1>5 DEF FrameShape, Shape
  <1>14. ASSUME NEW p \in Tasks PROVE Waits(p) <=> Waits(p)'
    <2>1. ASSUME NEW x \in Executors, NEW d \in DOMAIN stack[x], stack[x][d].pc = "finish"
          PROVE  d \in DOMAIN stack'[x] /\ stack'[x][d] = stack[x][d]
      BY <2>1, <1>1, <1>2, <1>10
    <2> QED
      BY <2>1, <1>5, <1>10 DEF Waits
  <1>15. ~Waits(q)
    <2>1. ASSUME NEW x \in Executors, NEW d \in DOMAIN stack[x], stack[x][d].pc = "finish" PROVE stack[x][d].task # q
      BY <2>1, <1>1, <1>2, <1>4
    <2> QED
      BY <2>1, <1>4 DEF Waits
  <1>16. ASSUME NEW p \in Tasks, NEW s, Listed(p, s)' PROVE Listed(p, s)
    BY <1>8, <1>10, <1>14, <1>15, <1>16 DEF Listed
  <1>17. TypeOK'
    BY <1>5, <1>7, <1>8 DEF IInv, TypeOK, Popped
  <1>18. ExecKept
    BY <1>4, <1>5, <1>8 DEF ExecKept, EndedKept
  <1> QED
    BY <1>5, <1>8, <1>9, <1>12, <1>13, <1>14, <1>16, <1>17, <1>18, QuietStep

\* The list is walked: the ready successors go to the scheduler next.
LEMMA ReleaseDone == ASSUME IInv, NEW e \in Executors, GnodeReleaseReady(e), Top(e).todo = <<>> PROVE IInv'
  <1> DEFINE h == Top(e)
             f == [h EXCEPT !.pc = "add", !.todo = h.ready, !.ready = <<>>]
  <1>1. stack[e] # <<>> /\ h.pc = "release" /\ h.todo = <<>>
    BY DEF GnodeReleaseReady, At
  <1>2. h \in FrameSet /\ h = stack[e][Len(stack[e])]
    BY <1>1, Tops DEF IInv
  <1>3. f \in FrameSet /\ f.task = h.task /\ f.pc = "add" /\ f.todo = h.ready
    BY <1>1, <1>2 DEF FrameSet
  <1>4. /\ stack' = [stack EXCEPT ![e][Len(stack[e])] = f]
        /\ prog' = prog /\ team' = team /\ ip' = ip /\ call' = call /\ task' = task /\ entry' = entry
        /\ queue' = queue /\ begun' = begun /\ ended' = ended
    BY <1>1 DEF GnodeReleaseReady, SetTop, program, dagVars, schedVars, history
  <1>5. call.pc # "idle" => e # Master
    BY <1>1, Outside
  <1> HIDE DEF f, h
  <1>6. TopSet(stack, stack', e, f) /\ FrameShape'
    BY <1>1, <1>2, <1>3, <1>4, <1>5, TopStep DEF h, IInv
  <1>7. Hold(f) = Hold(h)
    BY <1>1, <1>3 DEF Hold
  <1>8. (\A t, x, d, i : Place(stack', t, x, d, i) <=> Place(stack, t, x, d, i)) /\ OnePlace(stack')
    BY <1>1, <1>2, <1>3, <1>6, <1>7, SamePlaces DEF IInv
  <1>9. Moved
    BY <1>8 DEF Moved, WasPlace
  <1>10. Runs' /\ \A t \in Tasks : Loose(t)' => Loose(t)
    <2>1. \A x \in Executors : \A d \in DOMAIN stack'[x] : stack'[x][d].pc = "func" <=> stack[x][d].pc = "func"
      BY <1>1, <1>2, <1>3, <1>6 DEF TopSet
    <2> QED
      BY <2>1, <1>4, <1>8, <1>9, RunsSame DEF IInv
  <1>11. \A p \in Tasks : (Waits(p) <=> Waits(p)') /\ \A s : Listed(p, s)' => Listed(p, s)
    BY <1>1, <1>2, <1>3, <1>4, <1>6, ListsSame
  <1>12. TypeOK'
    BY <1>4, <1>6 DEF IInv, TypeOK, TopSet
  <1>13. ExecKept
    BY <1>4 DEF ExecKept, EndedKept
  <1> QED
    BY <1>4, <1>6, <1>8, <1>10, <1>11, <1>12, <1>13, QuietStep

\* The edge at the head of a list, and the edges after it.
LEMMA FirstEdge ==
    ASSUME NEW l \in Seq(Tasks), l # <<>>
    PROVE  /\ Head(l) \in Tasks /\ Tail(l) \in Seq(Tasks) /\ Len(l) \in Nat /\ FromEnd(l, Len(l), Head(l))
           /\ \A k, u : FromEnd(Tail(l), k, u) => FromEnd(l, k, u)
           /\ \A u : ~FromEnd(Tail(l), Len(l), u)
  <1>1. Head(l) \in Tasks /\ Tail(l) \in Seq(Tasks) /\ Len(l) \in Nat
    OBVIOUS
  <1> DEFINE t == Head(l)
             r == Tail(l)
  <1>2. /\ \A k, u : FromEnd(l, k, u) <=> FromEnd(r, k, u) \/ (k = Len(l) /\ u = t)
        /\ \A u : ~FromEnd(r, Len(l), u)
    BY <1>1, FromEnds
  <1> HIDE DEF t, r
  <1>3. FromEnd(l, Len(l), t) /\ \A k, u : FromEnd(r, k, u) => FromEnd(l, k, u)
    BY <1>2
  <1> QED
    BY <1>1, <1>2, <1>3 DEF t, r

\* The edge gnode_release_ready is about to release is one of those its successor
\* waits for.
LEMMA EdgeReleased ==
    ASSUME IInv, NEW e \in Executors, stack[e] # <<>>, Top(e).pc = "release", Top(e).todo # <<>>,
           NEW q, q = Top(e).task, NEW s, s = Head(Top(e).todo), NEW k, k = Len(Top(e).todo)
    PROVE  /\ q \in Tasks /\ s \in Tasks /\ <<q, k>> \in Pend(s) /\ begun[q] = 1 /\ ended[q] = 1
           /\ Owed(s) >= 1 /\ Owed(s) \in Nat /\ ~Overtaken(s) /\ ~Loose(s) /\ begun[s] = 0 /\ Known(s)
           /\ <<q, k>> \in Tasks \X Nat
  <1> DEFINE h == Top(e)
             l == h.todo
  <1>1. h \in FrameSet /\ h = stack[e][Len(stack[e])] /\ Len(stack[e]) \in DOMAIN stack[e]
    BY Tops DEF IInv
  <1>2. q \in Tasks /\ begun[q] = 1 /\ ended[q] = 1
    BY FrameTask
  <1>3. l \in Seq(Tasks) /\ l # <<>>
    BY <1>1 DEF FrameSet
  <1>4. s \in Tasks
    BY <1>3
  <1>5. FromEnd(l, k, s) /\ k \in Nat
    BY <1>3, FirstEdge
  <1>6. Listed(q, l)
    BY <1>1 DEF Listed
  <1>7. EdgeAt(q, k, s)
    BY <1>3, <1>5, <1>6 DEF EdgeAt
  <1>8. <<q, k>> \in Pend(s)
    BY <1>2, <1>5, <1>7 DEF Pend
  <1>9. Owed(s) >= 1 /\ Owed(s) \in Nat
    <2>1. IsFiniteSet(Pend(s)) /\ Cardinality(Pend(s)) <= Owed(s)
      BY <1>4 DEF IInv, Counts
    <2>2. Cardinality(Pend(s)) \in Nat /\ Cardinality(Pend(s)) # 0
      BY <1>8, <2>1, FS_CardinalityType, FS_EmptySet
    <2>3. Owed(s) \in Nat
      BY <1>4, TaskTypes DEF IInv
    <2> QED
      BY <2>1, <2>2, <2>3
  <1>10. ~Overtaken(s)
    BY <1>9 DEF Owed
  <1>11. ~Loose(s) /\ begun[s] = 0
    <2>1. begun[s] \in {0, 1}
      BY <1>4, TaskTypes DEF IInv
    <2> QED
      BY <1>4, <1>9, <2>1 DEF IInv, Ready
  <1>12. Known(s)
    <2> SUFFICES ASSUME ~Known(s) PROVE FALSE
      OBVIOUS
    <2>1. task[s].nPred = 0
      BY <1>4 DEF IInv, Fresh, NoTask
    <2>2. Uncounted(s) # 0
      BY <1>9, <2>1 DEF Owed
    <2>3. call.pc = "count" /\ call.task = s
      BY <2>2 DEF Uncounted
    <2>4. ip \in DOMAIN prog /\ prog[ip].op = "add_task" /\ prog[ip].task = s
      BY <1>4, <2>3, TasksAssumption DEF IInv, CallShape
    <2> QED
      BY <2>3, <2>4 DEF Known, Made, Adds
  <1> QED
    BY <1>2, <1>4, <1>5, <1>8, <1>9, <1>10, <1>11, <1>12

\* Once it is released it is gone.
LEMMA EdgeGone ==
    ASSUME IInv, NEW e \in Executors, stack[e] # <<>>, Top(e).pc = "release", Top(e).todo # <<>>,
           NEW f \in FrameSet, TopSet(stack, stack', e, f), f.task = Top(e).task, f.pc = "release",
           NEW l, l = Top(e).todo, NEW r, r = f.todo, NEW u, u = Head(l), NEW m, m = Len(l),
           \A k, t : FromEnd(r, k, t) => FromEnd(l, k, t), \A t : ~FromEnd(r, m, t),
           ended' = ended, \A p \in Tasks : task'[p].succ = task[p].succ, NEW q, q = Top(e).task
    PROVE  /\ \A p \in Tasks : Waits(p) <=> Waits(p)'
           /\ \A t \in Tasks : Pend(t)' \subseteq Pend(t)
           /\ <<q, m>> \notin Pend(u)'
  <1> DEFINE h == Top(e)
             n == Len(stack[e])
  <1>1. h \in FrameSet /\ h = stack[e][n] /\ n \in DOMAIN stack[e] /\ h.pc = "release" /\ stack[e] # <<>>
    BY Tops DEF IInv
  <1>2. q \in Tasks /\ ended[q] = 1 /\ f.task = q
    BY FrameTask
  <1>3. \A x \in Executors : \A d \in DOMAIN stack[x] :
           stack[x][d].pc # "main" /\ stack[x][d].task = q => x = e /\ d = n
    BY FrameTask
  <1>4. l \in Seq(Tasks) /\ l # <<>> /\ Head(l) \in Tasks
    BY <1>1 DEF FrameSet
  <1> HIDE DEF h, n
  <1>7. /\ \A x \in Executors : DOMAIN stack'[x] = DOMAIN stack[x]
        /\ \A x \in Executors : \A d \in DOMAIN stack[x] :
              stack'[x][d] = IF x = e /\ d = n THEN f ELSE stack[x][d]
    BY DEF TopSet, n
  <1>8. ASSUME NEW p \in Tasks PROVE Waits(p) <=> Waits(p)'
    <2>1. \A x \in Executors : \A d \in DOMAIN stack[x] : stack'[x][d].pc = "finish" => stack'[x][d] = stack[x][d]
      BY <1>7
    <2>2. \A x \in Executors : \A d \in DOMAIN stack[x] : stack[x][d].pc = "finish" => stack'[x][d] = stack[x][d]
      BY <1>1, <1>7
    <2> QED
      BY <2>1, <2>2, <1>7 DEF Waits
  <1>9. ~Waits(q)'
    <2>1. ~Waits(q)
      <3>1. ASSUME NEW x \in Executors, NEW d \in DOMAIN stack[x], stack[x][d].pc = "finish" PROVE stack[x][d].task # q
        BY <3>1, <1>1, <1>3
      <3> QED
        BY <3>1, <1>2 DEF Waits
    <2> QED
      BY <2>1, <1>2, <1>8
  <1>10. ASSUME NEW p \in Tasks, NEW s, Listed(p, s)' PROVE Listed(p, s) \/ (p = q /\ s = r)
    BY <1>2, <1>7, <1>8, <1>10 DEF Listed
  <1>11. ASSUME NEW s, Listed(q, s)' PROVE s = r
    <2>1. PICK x \in Executors : \E d \in DOMAIN stack'[x] :
             stack'[x][d].task = q /\ stack'[x][d].pc = "release" /\ stack'[x][d].todo = s
      BY <1>9, <1>11 DEF Listed
    <2>2. PICK d \in DOMAIN stack'[x] :
             stack'[x][d].task = q /\ stack'[x][d].pc = "release" /\ stack'[x][d].todo = s
      BY <2>1
    <2>3. x = e /\ d = n
      BY <1>3, <1>7, <2>2
    <2> QED
      BY <2>2, <2>3, <1>1, <1>7
  <1>12. ASSUME NEW t \in Tasks PROVE Pend(t)' \subseteq Pend(t)
    <2>1. ASSUME NEW p \in Tasks, NEW k, EdgeAt(p, k, t)' PROVE EdgeAt(p, k, t)
      <3>1. PICK s \in Seq(Tasks) : Listed(p, s)' /\ FromEnd(s, k, t)
        BY <2>1 DEF EdgeAt
      <3>2. CASE Listed(p, s)
        BY <3>1, <3>2 DEF EdgeAt
      <3>3. CASE p = q /\ s = r
        <4>1. FromEnd(l, k, t)
          BY <3>1, <3>3
        <4>2. Listed(q, l)
          BY <1>1 DEF Listed, h
        <4> QED
          BY <4>1, <4>2, <3>3, <1>4 DEF EdgeAt
      <3> QED
        BY <3>1, <3>2, <3>3, <1>10
    <2> QED
      BY <2>1 DEF Pend
  <1>13. ~EdgeAt(q, m, u)'
    <2>1. ASSUME NEW s \in Seq(Tasks), Listed(q, s)' PROVE ~FromEnd(s, m, u)'
      <3>1. s = r
        BY <2>1, <1>11
      <3> QED
        BY <3>1 DEF FromEnd
    <2> QED
      BY <2>1 DEF EdgeAt
  <1>14. <<q, m>> \notin Pend(u)'
    BY <1>13 DEF Pend
  <1> QED
    BY <1>8, <1>12, <1>14

\* One fetch_sub of gnode_release_ready; the one that takes the counter to 0 makes
\* the successor ready: everything it depends on has returned.
LEMMA ReleaseOne == ASSUME IInv, NEW e \in Executors, GnodeReleaseReady(e), Top(e).todo # <<>> PROVE IInv'
  <1> DEFINE h == Top(e)
             n == Len(stack[e])
  <1>1. stack[e] # <<>> /\ h.pc = "release" /\ h.todo # <<>>
    BY DEF GnodeReleaseReady, At
  <1>2. h \in FrameSet /\ h = stack[e][n] /\ n \in DOMAIN stack[e] /\ stack \in [Executors -> Seq(FrameSet)]
    BY <1>1, Tops DEF IInv, TypeOK
  <1>3. PICK l \in Seq(Tasks) : l = h.todo
    BY <1>2 DEF FrameSet
  <1>4. PICK s \in Tasks : s = Head(l)
    BY <1>1, <1>3, FirstEdge
  <1>5. PICK r \in Seq(Tasks) : r = Tail(l) /\ (\A k, u : FromEnd(r, k, u) => FromEnd(l, k, u))
                                /\ (\A u : ~FromEnd(r, Len(l), u))
    BY <1>1, <1>3, FirstEdge
  <1>6. PICK m \in Nat : m = Len(l)
    BY <1>3
  <1>7. PICK q : q = h.task
    OBVIOUS
  <1>8. /\ q \in Tasks /\ <<q, m>> \in Pend(s) /\ begun[q] = 1 /\ ended[q] = 1 /\ <<q, m>> \in Tasks \X Nat
        /\ Owed(s) >= 1 /\ Owed(s) \in Nat /\ ~Overtaken(s) /\ ~Loose(s) /\ begun[s] = 0 /\ Known(s)
    BY <1>1, <1>3, <1>4, <1>6, <1>7, EdgeReleased
  <1>9. PICK g \in Seq(Tasks) : g = IF task[s].nPred = 1 THEN Append(h.ready, s) ELSE h.ready
    <2>1. h.ready \in Seq(Tasks)
      BY <1>2 DEF FrameSet
    <2>2. Append(h.ready, s) \in Seq(Tasks)
      BY <2>1
    <2> QED
      BY <2>1, <2>2
  <1>10. PICK f \in FrameSet : /\ f = [h EXCEPT !.todo = r, !.ready = g] /\ f.task = h.task /\ f.pc = "release"
                               /\ f.todo = r /\ f.ready = g
    <2>1. PICK f : f = [h EXCEPT !.todo = r, !.ready = g]
      OBVIOUS
    <2>2. f \in FrameSet /\ f.task = h.task /\ f.pc = h.pc /\ f.todo = r /\ f.ready = g
      BY <1>2, <2>1 DEF FrameSet
    <2> QED
      BY <1>1, <2>1, <2>2
  <1>11. /\ stack' = [stack EXCEPT ![e][Len(stack[e])] = f]
         /\ prog' = prog /\ team' = team /\ ip' = ip /\ call' = call /\ entry' = entry
         /\ queue' = queue /\ begun' = begun /\ ended' = ended
         /\ task' = [task EXCEPT ![s].nPred = Dec(@)]
    <2>1. f = [h EXCEPT !.todo = Tail(@), !.ready = IF task[s].nPred = 1 THEN Append(@, s) ELSE @]
      BY <1>2, <1>3, <1>5, <1>9, <1>10
    <2> QED
      BY <1>1, <1>3, <1>4, <2>1 DEF GnodeReleaseReady, SetTop, program, dagVars, schedVars, history
  <1>12. (call.pc # "idle" => e # Master) /\ (call.pc # "idle" => team # {Master})
    BY <1>1, Outside
  <1>13. TopSet(stack, stack', e, f) /\ FrameShape'
    BY <1>1, <1>2, <1>10, <1>11, <1>12, TopStep DEF IInv
  <1>14. /\ task' \in [Tasks -> TaskSet]
         /\ task'[s].nPred = Dec(task[s].nPred) /\ \A t \in Tasks : t # s => task'[t] = task[t]
         /\ \A t \in Tasks : /\ task'[t].nHard = task[t].nHard /\ task'[t].locked = task[t].locked
                             /\ task'[t].finished = task[t].finished /\ task'[t].succ = task[t].succ
    <2>1. PICK c \in 0 .. UintMod - 1 : c = Dec(task[s].nPred)
      BY TaskTypes, Counting DEF IInv
    <2>2. PICK v : v = [task[s] EXCEPT !.nPred = c]
      OBVIOUS
    <2>3. /\ v \in TaskSet /\ v.nPred = c /\ v.nHard = task[s].nHard /\ v.locked = task[s].locked
          /\ v.finished = task[s].finished /\ v.succ = task[s].succ
      BY <2>2, TaskTypes DEF IInv, TaskSet
    <2>4. task' = [task EXCEPT ![s] = v] /\ task \in [Tasks -> TaskSet]
      BY <1>11, <2>1, <2>2 DEF IInv, TypeOK
    <2> QED
      BY <2>1, <2>3, <2>4
  <1>15. /\ \A p \in Tasks : Waits(p) <=> Waits(p)'
         /\ \A t \in Tasks : Pend(t)' \subseteq Pend(t)
         /\ <<q, m>> \notin Pend(s)'
    <2>1. l = Top(e).todo /\ r = f.todo /\ q = Top(e).task /\ f.task = Top(e).task /\ f.pc = "release"
      BY <1>3, <1>7, <1>10
    <2>2. ended' = ended /\ \A p \in Tasks : task'[p].succ = task[p].succ
      BY <1>11, <1>14
    <2>3. stack[e] # <<>> /\ Top(e).pc = "release" /\ Top(e).todo # <<>>
      BY <1>1
    <2>4. (\A k, u : FromEnd(r, k, u) => FromEnd(l, k, u)) /\ \A u : ~FromEnd(r, m, u)
      BY <1>5, <1>6
    <2>5. TopSet(stack, stack', e, f)
      BY <1>13
    <2> QED
      BY <2>1, <2>2, <2>3, <2>4, <2>5, <1>4, <1>6, EdgeGone
  <1>16. /\ OnePlace(stack')
         /\ \A t, x, d, i : Place(stack', t, x, d, i) =>
               Place(stack, t, x, d, i) \/ (task[s].nPred = 1 /\ t = s /\ i \in ReadyPlaces)
    <2>1. f.task = h.task /\ (f.pc = "main" <=> h.pc = "main") /\ Hold(h) = h.ready /\ Hold(f) = g
      BY <1>1, <1>10 DEF Hold
    <2>2. CASE task[s].nPred = 1
      <3>1. Nowhere(stack, s)
        <4>1. ASSUME NEW x \in Executors, NEW d \in Nat, NEW i \in Nat, Place(stack, s, x, d, i) PROVE FALSE
          <5>1. i # 0
            <6>1. Runs
              BY DEF IInv
            <6>2. begun[s] = 1 <=> i = 0
              BY <4>1, <6>1 DEF Runs
            <6> QED
              BY <6>2, <1>8
          <5> QED
            BY <4>1, <5>1, <1>8 DEF Loose, InFrames
        <4> QED
          BY <4>1 DEF Nowhere
      <3>2. Gains(h, f, s)
        BY <2>1, <2>2, <1>9 DEF Gains
      <3> QED
        <4>1. OnePlace(stack) /\ TopSet(stack, stack', e, f) /\ h = stack[e][Len(stack[e])]
          BY <1>2, <1>13 DEF IInv
        <4>2. /\ OnePlace(stack')
              /\ \A t, x, d, i : Place(stack', t, x, d, i) => Place(stack, t, x, d, i) \/ (t = s /\ i \in ReadyPlaces)
          <5>1. f.task = h.task /\ (f.pc = "main" <=> h.pc = "main")
            BY <2>1
          <5> QED
            BY <3>1, <3>2, <4>1, <5>1, <1>2, GrowPlaces DEF Grown
        <4> QED
          BY <2>2, <4>2
    <2>3. CASE task[s].nPred # 1
      <3>1. Hold(f) = Hold(h)
        BY <2>1, <2>3, <1>9
      <3> QED
        BY <2>1, <3>1, <1>2, <1>13, SamePlaces DEF IInv
    <2> QED
      BY <2>2, <2>3
  <1>17. /\ Runs'
         /\ \A t \in Tasks : Loose(t)' => Loose(t) \/ (task[s].nPred = 1 /\ t = s)
    <2>1. ASSUME NEW t \in Tasks, NEW x \in Executors, NEW d \in Nat, NEW i \in Nat, Place(stack', t, x, d, i)
          PROVE  /\ queue'[t] = 0
                 /\ begun'[t] = 1 <=> i = 0
                 /\ i = 0 => /\ Kind[t] = "dynamic"
                             /\ stack'[x][d].pc = "func" <=> ended'[t] = 0
      <3>1. CASE Place(stack, t, x, d, i)
        <4>1. d \in DOMAIN stack[x]
          BY <3>1 DEF Place
        <4>2. stack'[x][d].pc = "func" <=> stack[x][d].pc = "func"
          BY <4>1, <1>1, <1>2, <1>10, <1>13 DEF TopSet
        <4> QED
          BY <3>1, <4>2, <1>11 DEF IInv, Runs
      <3>2. CASE t = s /\ i \in ReadyPlaces
        <4>1. queue[s] \in {0, 1}
          BY TaskTypes DEF IInv
        <4> QED
          BY <3>2, <4>1, <1>8, <1>11 DEF Loose, ReadyPlaces
      <3> QED
        BY <2>1, <3>1, <3>2, <1>16
    <2>2. Runs'
      <3>1. ASSUME NEW t \in Tasks
            PROVE  /\ ended'[t] = 1 => begun'[t] = 1
                   /\ task'[t].finished <=> ended'[t] = 1
                   /\ queue'[t] = 1 => begun'[t] = 0
        BY <1>11, <1>14 DEF IInv, Runs
      <3> QED
        BY <2>1, <3>1 DEF Runs
    <2>3. ASSUME NEW t \in Tasks, InFrames(t)', ~(task[s].nPred = 1 /\ t = s) PROVE InFrames(t)
      BY <2>3, <1>16 DEF InFrames
    <2> QED
      BY <2>2, <2>3, <1>11 DEF Loose
  <1>18. Owed(s)' = Owed(s) - 1 /\ (Overtaken(s)' \/ task'[s].nPred <= task'[s].nHard)
    <2>1. /\ task[s].nPred \in 0 .. UintMod - 1 /\ task[s].nHard \in 0 .. UintMod - 1 /\ Uncounted(s) \in {0, 1}
          /\ Owed(s) = task[s].nPred + Uncounted(s) /\ task[s].nPred <= task[s].nHard
          /\ task[s].nPred \in Nat /\ UintMod \in Nat /\ task[s].nPred < UintMod
          /\ Uncounted(s) \in Nat
      <3>1. /\ task[s].nPred \in 0 .. UintMod - 1 /\ task[s].nHard \in 0 .. UintMod - 1 /\ Uncounted(s) \in {0, 1}
            /\ Owed(s) = task[s].nPred + Uncounted(s) /\ task[s].nPred <= task[s].nHard
        BY <1>8, TaskTypes DEF IInv, Counts, Owed
      <3> QED
        BY <3>1, BoundsAssumption
    <2>2. Uncounted(s)' = Uncounted(s)
      BY <1>11 DEF Uncounted
    <2>3. CASE task[s].nPred = 0
      <3>1. task'[s].nPred = UintMod - 1
        BY <2>1, <2>3, <1>14, Counting
      <3>2. Uncounted(s) = 1 /\ Owed(s) = 1
        BY <2>1, <2>3, <1>8
      <3>3. Overtaken(s)'
        BY <2>2, <3>1, <3>2 DEF Overtaken
      <3> QED
        BY <3>2, <3>3 DEF Owed
    <2>4. CASE task[s].nPred # 0
      <3>1. task'[s].nPred = task[s].nPred - 1 /\ task'[s].nPred # UintMod - 1
        <4>1. Dec(task[s].nPred) = task[s].nPred - 1
          BY <2>1, <2>4, Counting
        <4> QED
          BY <2>1, <4>1, <1>14
      <3>2. ~Overtaken(s)'
        BY <3>1 DEF Overtaken
      <3>3. Owed(s)' = task'[s].nPred + Uncounted(s)
        BY <2>2, <3>2 DEF Owed
      <3> QED
        <4>1. Owed(s)' = Owed(s) - 1
          <5>1. PICK a \in Nat, b \in Nat : a = task[s].nPred /\ b = Uncounted(s)
            BY <2>1
          <5>2. Owed(s) = a + b /\ Owed(s)' = (a - 1) + b
            BY <2>1, <3>1, <3>3, <5>1
          <5> QED
            BY <5>2
        <4>2. task'[s].nPred <= task'[s].nHard
          <5>1. task'[s].nHard = task[s].nHard
            BY <1>14
          <5> QED
            BY <2>1, <3>1, <5>1
        <4> QED
          BY <4>1, <4>2
    <2> QED
      BY <2>3, <2>4
  <1>19. task[s].nPred = 1 => /\ Sent(s) /\ Owed(s) = 1 /\ Cleared(s)
                              /\ Building /\ s = call.task => team # {Master} /\ task[s].nHard # 0
    <2> SUFFICES ASSUME task[s].nPred = 1
                 PROVE  /\ Sent(s) /\ Owed(s) = 1 /\ Cleared(s)
                        /\ Building /\ s = call.task => team # {Master} /\ task[s].nHard # 0
      OBVIOUS
    <2>1. task[s].nHard \in Nat /\ task[s].nHard > 0
      <3>1. task[s].nHard \in 0 .. UintMod - 1 /\ task[s].nPred <= task[s].nHard
        BY <1>8, TaskTypes DEF IInv, Counts
      <3> QED
        BY <3>1
    <2>2. Building /\ s = call.task => team # {Master} /\ task[s].nHard # 0
      BY <2>1, <1>12 DEF Building
    <2>3. Uncounted(s) = 0
      <3> SUFFICES ASSUME call.pc = "count", call.task = s PROVE FALSE
        BY DEF Uncounted
      <3>1. prog[ip].op = "add_task"
        BY TasksAssumption DEF IInv, CallShape
      <3>2. Building /\ team # {Master}
        BY <3>1, <1>12 DEF Building
      <3> QED
        BY <3>2, <2>1 DEF IInv, Quiet
    <2>4. Owed(s) = 1
      BY <2>3, <1>8 DEF Owed
    <2>5. Sent(s)
      BY <2>1 DEF Sent
    <2>6. ASSUME NEW u \in Tasks, MustPrecede(u, s) PROVE Safe(u, s)
      <3>1. CASE Old(s)
        BY <3>1, <2>6 DEF IInv, OrderKept
      <3>2. CASE ~Old(s)
        <4>1. PICK i \in DOMAIN prog : Made(i) /\ prog[i].task = s
          BY <1>8 DEF Known
        <4>2. i = ip /\ call.pc # "idle" /\ prog[ip].op = "add_task" /\ call.task = s
          BY <4>1, <3>2 DEF Made, Old, AddAt, Adds, IInv, CallShape
        <4>3. Building /\ team # {Master}
          BY <4>2, <1>12 DEF Building
        <4> QED
          BY <4>2, <4>3, <2>1, <2>6 DEF IInv, Quiet
      <3> QED
        BY <3>1, <3>2
    <2>7. Pend(s) = {<<q, m>>}
      <3>1. IsFiniteSet(Pend(s)) /\ Cardinality(Pend(s)) <= 1
        BY <2>4 DEF IInv, Counts
      <3>2. /\ IsFiniteSet(Pend(s) \ {<<q, m>>}) /\ Cardinality(Pend(s)) \in Nat
            /\ Cardinality(Pend(s) \ {<<q, m>>}) = Cardinality(Pend(s)) - 1
            /\ Cardinality(Pend(s) \ {<<q, m>>}) \in Nat
        BY <3>1, <1>8, FS_RemoveElement, FS_CardinalityType
      <3>3. Pend(s) \ {<<q, m>>} = {}
        <4>1. Cardinality(Pend(s) \ {<<q, m>>}) = 0
          BY <3>1, <3>2
        <4> QED
          BY <3>2, <4>1, FS_EmptySet
      <3> QED
        BY <3>3, <1>8
    <2>8. ASSUME NEW u \in Tasks, MustPrecede(u, s) PROVE ended[u] = 1
      <3>1. CASE Stuck(s)
        <4>1. Cardinality(Pend(s)) = 1
          BY <2>7, FS_Singleton
        <4> QED
          BY <3>1, <4>1, <2>4 DEF Stuck
      <3>2. CASE \E pk \in Pend(s) : Before(u, pk[1])
        <4>1. Before(u, q)
          BY <3>2, <2>7
        <4> QED
          BY <4>1, <1>8, BeforeEnded DEF IInv
      <3> QED
        BY <3>1, <3>2, <2>6, <2>8 DEF Safe
    <2> QED
      BY <2>2, <2>4, <2>5, <2>8 DEF Cleared
  <1>20. ExecKept
    BY <1>8, <1>11, <1>14 DEF ExecKept, EndedKept
  <1>21. TypeOK'
    BY <1>11, <1>13, <1>14 DEF IInv, TypeOK, TopSet
  <1>22. ASSUME NEW t \in Tasks PROVE EdgeStep(t) /\ ReadyStep(t) /\ (Overtaken(t)' \/ task'[t].nPred <= task'[t].nHard)
    <2>1. CASE t = s
      <3>1. Pend(t)' \subseteq Pend(t) \ {<<q, m>>} /\ Owed(t)' = Owed(t) - 1
        BY <2>1, <1>15, <1>18
      <3>2. EdgeStep(t)
        <4>1. PICK pk : pk = <<q, m>>
          OBVIOUS
        <4>2. pk \in Pend(t) /\ begun[pk[1]] = 1 /\ ended[pk[1]] = 1
          BY <2>1, <4>1, <1>8
        <4> QED
          BY <3>1, <4>1, <4>2 DEF EdgeStep
      <3>3. ReadyStep(t)
        <4>1. ~(Loose(t) \/ begun[t] = 1)
          BY <2>1, <1>8
        <4>2. Loose(t)' \/ begun'[t] = 1 => task[s].nPred = 1
          BY <2>1, <1>8, <1>11, <1>17
        <4> QED
          BY <2>1, <4>1, <4>2, <3>1, <1>19 DEF ReadyStep
      <3> QED
        BY <2>1, <3>2, <3>3, <1>18
    <2>2. CASE t # s
      <3>1. Owed(t)' = Owed(t) /\ (Overtaken(t) <=> Overtaken(t)') /\ task'[t].nPred = task[t].nPred
        BY <2>2, <1>11, <1>14, OwedSame
      <3>2. Loose(t)' \/ begun'[t] = 1 => Loose(t) \/ begun[t] = 1
        BY <2>2, <1>11, <1>17
      <3>3. Overtaken(t) \/ task[t].nPred <= task[t].nHard
        BY DEF IInv, Counts
      <3> QED
        BY <3>1, <3>2, <3>3, <1>15, <1>14 DEF EdgeStep, ReadyStep
    <2> QED
      BY <2>1, <2>2
  <1>23. call.pc = "insert" /\ Building => Waits(OpTask)'
    <2> SUFFICES ASSUME call.pc = "insert", Building PROVE Waits(OpTask)'
      OBVIOUS
    <2>1. PICK o \in Tasks : o = OpTask /\ OpTask' = o
      <3>1. OpTask \in Tasks
        BY OpTaskType DEF IInv, CallShape
      <3> QED
        BY <3>1, <1>11 DEF OpTask
    <2>2. Waits(o)
      BY <2>1 DEF IInv, Quiet
    <2>3. Waits(o)'
      BY <2>2, <1>15
    <2> QED
      BY <2>1, <2>3
  <1>24. Disciplined'
    BY <1>11, OrderFixed DEF IInv
  <1> QED
    BY <1>13, <1>16, <1>17, <1>20, <1>21, <1>22, <1>23, <1>24, ExecStep DEF IInv

\* gnode_release_ready, and the end of its loop.
LEMMA GnodeReleaseReadyStep == ASSUME IInv, NEW e \in Executors, GnodeReleaseReady(e) PROVE IInv'
  BY ReleaseDone, ReleaseOne

\* A step that takes no list of successors and changes none.
LEMMA ListsKept ==
    ASSUME \A x \in Executors : \A d \in DOMAIN stack'[x] : stack'[x][d].pc \in {"finish", "release"} =>
              d \in DOMAIN stack[x] /\ stack'[x][d] = stack[x][d],
           \A x \in Executors : \A d \in DOMAIN stack[x] : stack[x][d].pc = "finish" =>
              d \in DOMAIN stack'[x] /\ stack'[x][d] = stack[x][d],
           ended' = ended, \A p \in Tasks : task'[p].succ = task[p].succ
    PROVE  \A p \in Tasks : (Waits(p) <=> Waits(p)') /\ \A s : Listed(p, s)' => Listed(p, s)
  <1>1. ASSUME NEW p \in Tasks PROVE Waits(p) <=> Waits(p)'
    BY DEF Waits
  <1>2. ASSUME NEW p \in Tasks, NEW s, Listed(p, s)' PROVE Listed(p, s)
    BY <1>1, <1>2 DEF Listed
  <1> QED
    BY <1>1, <1>2

\* mid is the stacks with t taken out of the place it waited in
TakenOut(mid, t) ==
    /\ mid \in [Executors -> Seq(FrameSet)] /\ OnePlace(mid) /\ Nowhere(mid, t)
    /\ \A u, x, d, i : Place(mid, u, x, d, i) => WasPlace(stack, u, x, d, i)
    /\ \A x \in Executors : DOMAIN mid[x] = DOMAIN stack[x]
    /\ \A x \in Executors : \A d \in DOMAIN stack[x] :
          mid[x][d].pc = stack[x][d].pc /\ (mid[x][d].pc \in {"finish", "release"} => mid[x][d] = stack[x][d])

\* e calls kupl_task_invoke on t
Invoked(mid, e, t) == stack' = [mid EXCEPT ![e] = @ \o <<Frame(t, "func", <<>>)>>]

\* kupl_task_invoke: a task that was ready starts.
LEMMA TaskStarts ==
    ASSUME IInv, NEW e \in Executors, NEW t \in Tasks, NEW mid, TakenOut(mid, t),
           Shape(mid, team, call.pc # "idle"), mid[e] = <<>> => e # Master, e \in team, call.pc # "idle" => e # Master,
           Invoked(mid, e, t),
           Loose(t), begun[t] = 0, begun' = [begun EXCEPT ![t] = @ + 1],
           queue' \in [Tasks -> {0, 1}], queue'[t] = 0, \A u \in Tasks : u # t => queue'[u] = queue[u],
           prog' = prog, team' = team, call' = call, task' = task, entry' = entry, ended' = ended,
           ip' = ip \/ CallOver
    PROVE  IInv'
  <1>1. PICK g \in FrameSet : /\ g = Frame(t, "func", <<>>)
                              /\ g.task = t /\ g.pc = "func" /\ g.ready = <<>>
    <2>1. PICK g : g = Frame(t, "func", <<>>)
      OBVIOUS
    <2>2. g \in FrameSet /\ g.task = t /\ g.pc = "func" /\ g.ready = <<>>
      <3>1. <<>> \in Seq(Tasks)
        OBVIOUS
      <3> QED
        BY <2>1, <3>1 DEF Frame, FrameSet
    <2> QED
      BY <2>1, <2>2
  <1>2. /\ mid \in [Executors -> Seq(FrameSet)] /\ OnePlace(mid) /\ Nowhere(mid, t)
        /\ \A u, x, d, i : Place(mid, u, x, d, i) => WasPlace(stack, u, x, d, i)
    BY DEF TakenOut
  <1>3. Pushed(mid, stack', e, g)
    BY <1>1, <1>2, PushIs DEF Invoked
  <1>4. FrameShape'
    BY <1>1, <1>2, <1>3, PushShape DEF FrameShape
  <1>5. /\ OnePlace(stack')
        /\ \A u, x, d, i : Place(stack', u, x, d, i) <=>
              Place(mid, u, x, d, i) \/ (u = t /\ NewPlace(mid, e, x, d, i))
    <2>1. mid \in [Executors -> Seq(FrameSet)] /\ OnePlace(mid) /\ Nowhere(mid, g.task)
      BY <1>1, <1>2
    <2>2. g.pc = "func" /\ g.task \in Tasks /\ g.task = t
      BY <1>1
    <2>3. /\ OnePlace(stack')
          /\ \A u, x, d, i : Place(stack', u, x, d, i) <=>
                Place(mid, u, x, d, i) \/ (u = g.task /\ NewPlace(mid, e, x, d, i))
      BY <2>1, <2>2, <1>3, PushPlaces
    <2> QED
      BY <2>2, <2>3
  <1>6. begun' \in [Tasks -> {0, 1}] /\ begun'[t] = 1 /\ \A u \in Tasks : u # t => begun'[u] = begun[u]
    BY DEF IInv, TypeOK
  <1>7. Known(t) /\ Kind[t] = "dynamic" /\ ended[t] = 0
    <2>1. ended[t] \in {0, 1} /\ (ended[t] = 1 => begun[t] = 1)
      BY TaskTypes DEF IInv, Runs
    <2> QED
      BY <2>1, SentKnown DEF IInv
  <1>8. /\ \A x \in Executors : \A d \in DOMAIN mid[x] : d \in DOMAIN stack'[x] /\ stack'[x][d] = mid[x][d]
        /\ \A x \in Executors : \A d \in DOMAIN stack'[x] : d \in DOMAIN mid[x] \/ stack'[x][d] = g
    BY <1>3 DEF Pushed
  <1>9. ASSUME NEW u \in Tasks, NEW x \in Executors, NEW d \in Nat, NEW i \in Nat, Place(stack', u, x, d, i)
        PROVE  /\ queue'[u] = 0
               /\ begun'[u] = 1 <=> i = 0
               /\ i = 0 => /\ Kind[u] = "dynamic"
                           /\ stack'[x][d].pc = "func" <=> ended'[u] = 0
    <2>1. CASE Place(mid, u, x, d, i)
      <3>1. u # t
        BY <2>1, <1>2 DEF Nowhere
      <3>2. PICK k \in Nat : Place(stack, u, x, d, k) /\ (k = 0 <=> i = 0)
        BY <2>1, <1>2 DEF WasPlace
      <3>3. /\ queue[u] = 0
            /\ begun[u] = 1 <=> k = 0
            /\ k = 0 => Kind[u] = "dynamic" /\ (stack[x][d].pc = "func" <=> ended[u] = 0)
        BY <3>2 DEF IInv, Runs
      <3>4. d \in DOMAIN mid[x] /\ d \in DOMAIN stack[x]
        BY <2>1, <3>2 DEF Place
      <3>5. stack'[x][d].pc = stack[x][d].pc
        BY <3>4, <1>8 DEF TakenOut
      <3> QED
        BY <3>1, <3>2, <3>3, <3>5, <1>6
    <2>2. CASE u = t /\ NewPlace(mid, e, x, d, i)
      <3>0. u = t /\ x = e /\ d = Len(mid[e]) + 1 /\ i = 0
        BY <2>2 DEF NewPlace
      <3>1. stack'[x][d] = g
        BY <3>0, <1>3 DEF Pushed
      <3> QED
        BY <3>0, <3>1, <1>1, <1>6, <1>7
    <2> QED
      BY <2>1, <2>2, <1>5, <1>9
  <1>10. Runs'
    <2>1. ASSUME NEW u \in Tasks
          PROVE  /\ ended'[u] = 1 => begun'[u] = 1
                 /\ task'[u].finished <=> ended'[u] = 1
                 /\ queue'[u] = 1 => begun'[u] = 0
      BY <1>6, <1>7 DEF IInv, Runs
    <2> QED
      BY <2>1, <1>9 DEF Runs
  <1>11. ASSUME NEW u \in Tasks, Loose(u)' \/ begun'[u] = 1 PROVE Loose(u) \/ begun[u] = 1
    <2>1. CASE u = t
      BY <2>1
    <2>2. CASE u # t
      <3>1. queue'[u] = queue[u] /\ begun'[u] = begun[u]
        BY <2>2, <1>6
      <3>2. InFrames(u)' => InFrames(u)
        <4> SUFFICES ASSUME NEW x \in Executors, NEW d \in Nat, NEW i \in Nat, i > 0, Place(stack', u, x, d, i)
                     PROVE  InFrames(u)
          BY DEF InFrames
        <4>0. i # 0
          OBVIOUS
        <4>1. i # 0 /\ Place(mid, u, x, d, i)
          BY <2>2, <4>0, <1>5
        <4>2. PICK k \in Nat : Place(stack, u, x, d, k) /\ (k = 0 <=> i = 0)
          BY <4>1, <1>2 DEF WasPlace
        <4> QED
          BY <4>1, <4>2 DEF InFrames
      <3> QED
        BY <3>1, <3>2, <1>11 DEF Loose
    <2> QED
      BY <2>1, <2>2
  <1>12. \A p \in Tasks : (Waits(p) <=> Waits(p)') /\ \A s : Listed(p, s)' => Listed(p, s)
    <2>1. ASSUME NEW x \in Executors, NEW d \in DOMAIN stack'[x], stack'[x][d].pc \in {"finish", "release"}
          PROVE  d \in DOMAIN stack[x] /\ stack'[x][d] = stack[x][d]
      BY <2>1, <1>1, <1>8 DEF TakenOut
    <2>2. ASSUME NEW x \in Executors, NEW d \in DOMAIN stack[x], stack[x][d].pc = "finish"
          PROVE  d \in DOMAIN stack'[x] /\ stack'[x][d] = stack[x][d]
      <3>1. d \in DOMAIN mid[x] /\ mid[x][d].pc = "finish"
        BY <2>2 DEF TakenOut
      <3>2. mid[x][d] = stack[x][d]
        BY <3>1 DEF TakenOut
      <3> QED
        BY <3>1, <3>2, <1>8
    <2> QED
      BY <2>1, <2>2, ListsKept
  <1>13. TypeOK'
    <2>1. ip' \in 1 .. Len(prog) + 1
      <3>1. CASE ip' = ip
        BY <3>1 DEF IInv, TypeOK
      <3>2. CASE CallOver
        BY <3>2, Submissions DEF IInv, TypeOK, CallOver
      <3> QED
        BY <3>1, <3>2
    <2>2. stack' \in [Executors -> Seq(FrameSet)]
      BY <1>3 DEF Pushed
    <2> QED
      BY <2>1, <2>2, <1>6 DEF IInv, TypeOK
  <1>14. ExecKept
    BY DEF ExecKept, EndedKept
  <1> QED
    BY <1>4, <1>5, <1>10, <1>11, <1>12, <1>13, <1>14, QuietStep

\* kupl_sched_add_tb: the task is queued, or runs on the spot.
LEMMA SchedAddTbPushStep == ASSUME IInv, NEW e \in Executors, SchedAddTbPush(e) PROVE IInv'
  <1> DEFINE h == Top(e)
             n == Len(stack[e])
             mid(f) == [stack EXCEPT ![e][Len(stack[e])] = f]
  <1>1. stack[e] # <<>> /\ h.todo # <<>> /\ h.pc \in {"main", "body", "add"}
    BY DEF SchedAddTbPush, Adding, At
  <1>2. h \in FrameSet /\ h = stack[e][n] /\ n \in DOMAIN stack[e] /\ stack \in [Executors -> Seq(FrameSet)]
    BY <1>1, Tops DEF IInv, TypeOK
  <1>3. h.pc \in {"main", "add"}
    BY <1>1, <1>2 DEF FrameSet
  <1>4. PICK t \in Tasks : t = Head(h.todo)
    BY <1>1, <1>2 DEF FrameSet
  <1>5. PICK f \in FrameSet : /\ f = [h EXCEPT !.todo = Tail(@), !.counted = FALSE]
                              /\ f.task = h.task /\ f.pc = h.pc /\ f.ready = h.ready /\ Drops(h, f)
    <2>0. h.todo \in Seq(Tasks)
      BY <1>2 DEF FrameSet
    <2>1. PICK r \in Seq(Tasks) : r = Tail(h.todo)
      <3>1. Tail(h.todo) \in Seq(Tasks)
        BY <2>0, <1>1
      <3> QED
        BY <3>1
    <2>2. PICK f : f = [h EXCEPT !.todo = r, !.counted = FALSE]
      OBVIOUS
    <2>3. f \in FrameSet /\ f.task = h.task /\ f.pc = h.pc /\ f.ready = h.ready /\ f.todo = r
      BY <1>2, <2>2 DEF FrameSet
    <2>4. Hold(h) = h.todo /\ Hold(f) = r
      BY <1>3, <2>3 DEF Hold
    <2>5. Drops(h, f)
      BY <2>1, <2>4, <1>1 DEF Drops
    <2> QED
      BY <2>1, <2>2, <2>3, <2>5
  <1>6. PICK m : m = mid(f)
    OBVIOUS
  <1>7. call.pc # "idle" => e # Master
    BY <1>1, Outside
  <1>8. TopSet(stack, m, e, f) /\ Shape(m, team, call.pc # "idle")
    <2>1. f.pc \in {"func", "finish"} => f.ready = <<>>
      BY <1>3, <1>5
    <2>2. f.task = Top(e).task /\ (f.pc = "main" <=> Top(e).pc = "main")
      BY <1>5
    <2> QED
      BY <2>1, <2>2, <1>1, <1>6, <1>7, TopShape DEF IInv
  <1>9. /\ OnePlace(m) /\ Place(stack, t, e, n, 1) /\ Nowhere(m, t)
        /\ \A u, x, d, i : Place(m, u, x, d, i) => WasPlace(stack, u, x, d, i)
    <2>1. t = Head(Hold(h))
      BY <1>3, <1>4 DEF Hold
    <2>2. f.task = h.task /\ (f.pc = "main" <=> h.pc = "main") /\ Drops(h, f)
      BY <1>5
    <2>3. OnePlace(stack) /\ TopSet(stack, m, e, f) /\ h = stack[e][Len(stack[e])]
      BY <1>2, <1>8 DEF IInv
    <2> QED
      BY <2>1, <2>2, <2>3, <1>2, DropPlaces
  <1>10. /\ \A x \in Executors : DOMAIN m[x] = DOMAIN stack[x]
         /\ \A x \in Executors : \A d \in DOMAIN stack[x] :
               m[x][d].pc = stack[x][d].pc /\ (m[x][d].pc \in {"finish", "release"} => m[x][d] = stack[x][d])
    BY <1>2, <1>3, <1>5, <1>8 DEF TopSet
  <1>11. queue[t] = 0 /\ begun[t] = 0 /\ InFrames(t) /\ Loose(t)
    <2>1. n \in Nat /\ 1 \in Nat /\ 1 > 0 /\ 1 # 0
      BY <1>2
    <2>2. queue[t] = 0 /\ begun[t] # 1
      BY <1>9, <2>1 DEF IInv, Runs
    <2>3. begun[t] = 0
      BY <2>2, TaskTypes DEF IInv
    <2>4. InFrames(t)
      BY <1>9, <2>1 DEF InFrames
    <2> QED
      BY <2>2, <2>3, <2>4 DEF Loose
  <1>12. /\ prog' = prog /\ team' = team /\ ip' = ip /\ call' = call /\ task' = task /\ entry' = entry
         /\ ended' = ended
    BY DEF SchedAddTbPush, program, dagVars
  <1>13. \/ queue' = [queue EXCEPT ![t] = @ + 1] /\ begun' = begun /\ stack' = m
         \/ /\ queue' = queue /\ begun' = [begun EXCEPT ![t] = @ + 1]
            /\ stack' = [stack EXCEPT ![e] = [@ EXCEPT ![Len(@)] = f] \o <<Frame(t, "func", <<>>)>>]
    BY <1>4, <1>5, <1>6 DEF SchedAddTbPush, SetTop, Invoke
  <1> HIDE DEF h, n, mid
  <1>14. ASSUME queue' = [queue EXCEPT ![t] = @ + 1], begun' = begun, stack' = m PROVE IInv'
    <2>1. queue' \in [Tasks -> {0, 1}] /\ \A u \in Tasks : u # t => queue'[u] = queue[u]
      BY <1>11, <1>14 DEF IInv, TypeOK
    <2>2. FrameShape'
      BY <1>8, <1>12, <1>14 DEF FrameShape
    <2>3. ASSUME NEW u \in Tasks, NEW x \in Executors, NEW d \in Nat, NEW i \in Nat, Place(stack', u, x, d, i)
          PROVE  /\ queue'[u] = 0
                 /\ begun'[u] = 1 <=> i = 0
                 /\ i = 0 => /\ Kind[u] = "dynamic"
                             /\ stack'[x][d].pc = "func" <=> ended'[u] = 0
      <3>1. Place(m, u, x, d, i) /\ u # t
        BY <2>3, <1>9, <1>14 DEF Nowhere
      <3>2. PICK k \in Nat : Place(stack, u, x, d, k) /\ (k = 0 <=> i = 0)
        BY <3>1, <1>9 DEF WasPlace
      <3>3. /\ queue[u] = 0
            /\ begun[u] = 1 <=> k = 0
            /\ k = 0 => Kind[u] = "dynamic" /\ (stack[x][d].pc = "func" <=> ended[u] = 0)
        BY <3>2 DEF IInv, Runs
      <3>4. d \in DOMAIN stack[x]
        BY <3>2 DEF Place
      <3>5. stack'[x][d].pc = stack[x][d].pc
        BY <3>4, <1>10, <1>14
      <3> QED
        BY <3>1, <3>2, <3>3, <3>5, <2>1, <1>12, <1>14
    <2>4. Runs'
      <3>1. ASSUME NEW u \in Tasks
            PROVE  /\ ended'[u] = 1 => begun'[u] = 1
                   /\ task'[u].finished <=> ended'[u] = 1
                   /\ queue'[u] = 1 => begun'[u] = 0
        BY <2>1, <1>11, <1>12, <1>14 DEF IInv, Runs
      <3> QED
        BY <2>3, <3>1 DEF Runs
    <2>5. ASSUME NEW u \in Tasks, Loose(u)' PROVE Loose(u)
      <3>1. CASE u = t
        BY <3>1, <1>11
      <3>2. CASE u # t
        <4>1. InFrames(u)' => InFrames(u)
          <5> SUFFICES ASSUME NEW x \in Executors, NEW d \in Nat, NEW i \in Nat, i > 0, Place(stack', u, x, d, i)
                       PROVE  InFrames(u)
            BY DEF InFrames
          <5>1. i # 0 /\ Place(m, u, x, d, i)
            BY <1>14
          <5>2. PICK k \in Nat : Place(stack, u, x, d, k) /\ (k = 0 <=> i = 0)
            BY <5>1, <1>9 DEF WasPlace
          <5> QED
            BY <5>1, <5>2 DEF InFrames
        <4> QED
          BY <3>2, <4>1, <2>1, <2>5 DEF Loose
      <3> QED
        BY <3>1, <3>2
    <2>6. \A p \in Tasks : (Waits(p) <=> Waits(p)') /\ \A s : Listed(p, s)' => Listed(p, s)
      <3>1. ASSUME NEW x \in Executors, NEW d \in DOMAIN stack'[x], stack'[x][d].pc \in {"finish", "release"}
            PROVE  d \in DOMAIN stack[x] /\ stack'[x][d] = stack[x][d]
        BY <3>1, <1>10, <1>14
      <3>2. ASSUME NEW x \in Executors, NEW d \in DOMAIN stack[x], stack[x][d].pc = "finish"
            PROVE  d \in DOMAIN stack'[x] /\ stack'[x][d] = stack[x][d]
        BY <3>2, <1>10, <1>14
      <3> QED
        BY <3>1, <3>2, <1>12, ListsKept
    <2>7. TypeOK'
      BY <2>1, <1>8, <1>12, <1>14 DEF IInv, TypeOK, TopSet
    <2>8. ExecKept
      BY <1>12 DEF ExecKept, EndedKept
    <2>9. OnePlace(stack)'
      BY <1>9, <1>14
    <2> QED
      BY <2>2, <2>4, <2>5, <2>6, <2>7, <2>8, <2>9, <1>12, <1>14, QuietStep
  <1>15. ASSUME queue' = queue, begun' = [begun EXCEPT ![t] = @ + 1],
                stack' = [stack EXCEPT ![e] = [@ EXCEPT ![Len(@)] = f] \o <<Frame(t, "func", <<>>)>>]
         PROVE  IInv'
    <2>1. Invoked(m, e, t)
      <3>1. m[e] = [stack[e] EXCEPT ![Len(stack[e])] = f]
        BY <1>2, <1>6 DEF mid
      <3>2. m = [stack EXCEPT ![e] = m[e]]
        BY <1>2, <1>6, <3>1 DEF mid
      <3> QED
        BY <1>2, <1>15, <3>1, <3>2 DEF Invoked
    <2>2. TakenOut(m, t)
      BY <1>8, <1>9, <1>10 DEF TakenOut, TopSet
    <2>3. m[e] # <<>> /\ e \in team
      BY <1>1, <1>8 DEF TopSet, IInv, FrameShape, Shape
    <2>4. queue' \in [Tasks -> {0, 1}] /\ queue'[t] = 0 /\ \A u \in Tasks : u # t => queue'[u] = queue[u]
      BY <1>11, <1>15 DEF IInv, TypeOK
    <2> QED
      BY <2>1, <2>2, <2>3, <2>4, <1>7, <1>8, <1>11, <1>12, <1>15, TaskStarts
  <1> QED
    BY <1>13, <1>14, <1>15

\* kupl_sched_execute_tb: a queued task starts.
LEMMA SchedExecuteTbStep ==
    ASSUME IInv, NEW e \in Executors, NEW t \in Tasks, SchedExecuteTb(e, t), e \in team,
           stack[e] = <<>> => e # Master, call.pc # "idle" => e # Master, ip' = ip \/ CallOver
    PROVE  IInv'
  <1>1. queue[t] = 1 /\ begun[t] = 0 /\ Loose(t)
    <2>1. queue[t] = 1
      BY TaskTypes DEF SchedExecuteTb, IInv
    <2> QED
      BY <2>1, TaskTypes DEF IInv, Runs, Loose
  <1>2. Nowhere(stack, t)
    <2> SUFFICES ASSUME NEW x \in Executors, NEW d \in Nat, NEW i \in Nat, Place(stack, t, x, d, i) PROVE FALSE
      BY DEF Nowhere
    <2>1. queue[t] = 0
      BY DEF IInv, Runs
    <2> QED
      BY <2>1, <1>1
  <1>3. TakenOut(stack, t)
    <2>1. ASSUME NEW u, NEW x, NEW d, NEW i, Place(stack, u, x, d, i) PROVE WasPlace(stack, u, x, d, i)
      <3>1. x \in Executors /\ stack[x] \in Seq(FrameSet) /\ d \in DOMAIN stack[x] /\ stack[x][d] \in FrameSet
        BY <2>1 DEF Place, IInv, TypeOK
      <3>2. i \in Nat
        BY <2>1, <3>1, HoldType DEF Place
      <3> QED
        BY <2>1, <3>2 DEF WasPlace
    <2> QED
      BY <2>1, <1>2 DEF TakenOut, IInv, TypeOK
  <1>4. Invoked(stack, e, t)
    BY DEF SchedExecuteTb, Invoked
  <1>5. /\ queue' \in [Tasks -> {0, 1}] /\ queue'[t] = 0 /\ \A u \in Tasks : u # t => queue'[u] = queue[u]
    <2>1. queue' = [queue EXCEPT ![t] = @ - 1] /\ queue \in [Tasks -> {0, 1}]
      BY DEF SchedExecuteTb, IInv, TypeOK
    <2> QED
      BY <1>1, <2>1
  <1>6. /\ prog' = prog /\ team' = team /\ call' = call /\ task' = task /\ entry' = entry /\ ended' = ended
        /\ begun' = [begun EXCEPT ![t] = @ + 1]
    BY DEF SchedExecuteTb, program, dagVars
  <1>7. Shape(stack, team, call.pc # "idle")
    BY DEF IInv, FrameShape
  <1> QED
    BY <1>1, <1>3, <1>4, <1>5, <1>6, <1>7, TaskStarts

\* A step of an executor in a disciplined program: static graphs, their bodies and
\* their nodes do not occur.
LEMMA ExecutorSteps == ASSUME IInv, NEW e \in Executors, ExecutorStep(e) PROVE IInv'
  <1>1. stack[e] # <<>> => e \in team /\ Top(e) \in FrameSet
    BY Tops DEF IInv, FrameShape, Shape
  <1>2. ~At(e, "body")
    BY <1>1 DEF At, FrameSet
  <1>3. ASSUME stack[e] # <<>>, Top(e).pc \in {"func", "finish"} PROVE Kind[Top(e).task] = "dynamic"
    BY <1>3, FrameTask
  <1>4. ~SgraphTaskBody(e) /\ ~TaskFinishStatic(e)
    BY <1>3 DEF SgraphTaskBody, TaskFinishStatic, At
  <1>5. ASSUME ExecutorPoll(e) PROVE IInv'
    <2>1. PICK t \in Tasks : SchedExecuteTb(e, t)
      BY <1>5 DEF ExecutorPoll
    <2>2. ip' = ip
      BY <1>5 DEF ExecutorPoll
    <2>3. \/ e \in team \ {Master} /\ stack[e] = <<>>
          \/ e = Master /\ stack[e] # <<>> /\ call.pc = "idle"
      BY <1>2, <1>5 DEF ExecutorPoll, Polling, AtCall, At
    <2>4. e \in team /\ (stack[e] = <<>> => e # Master) /\ (call.pc # "idle" => e # Master)
      BY <2>3, <1>1
    <2> QED
      BY <2>1, <2>2, <2>4, SchedExecuteTbStep
  <1> QED
    BY <1>4, <1>5, SchedAddTbCountStep, SchedAddTbPushStep, TaskExecuteStep, TaskFinishDynamicStep,
       GnodeReleaseReadyStep, TaskCountSubStep, TaskDerefStep DEF ExecutorStep

-----------------------------------------------------------------------------
(* What the steps of Master inside a call keep *)

\* Master does something to the hash, or to the counts, the references and the
\* edges of tasks it has submitted.
MasterKept ==
    /\ prog' = prog /\ team' = team /\ stack' = stack /\ queue' = queue /\ begun' = begun /\ ended' = ended
    /\ ip' = ip /\ call.pc # "idle" /\ call'.pc # "idle" /\ call'.task = call.task
    /\ \A t \in Tasks : /\ task'[t].finished = task[t].finished /\ task'[t].nHard >= task[t].nHard
                        /\ ~Known(t) => task'[t] = task[t]

\* The edges of t are in order, and a task that is ready owes nothing more.
EdgesMade(t) ==
    /\ EdgeStep(t) /\ (Loose(t) \/ begun[t] = 1 => Owed(t)' = Owed(t))
    /\ Overtaken(t)' \/ task'[t].nPred <= task'[t].nHard
    /\ 3 * (task'[t].nHard + Uncounted(t)') < UintMod

\* The submissions, the places of tasks and the order are the same.
LEMMA SubmissionSame ==
    ASSUME IInv, prog' = prog, ip' = ip, stack' = stack, queue' = queue, ended' = ended,
           call.pc # "idle", call'.pc # "idle"
    PROVE  /\ \A i : (Adds(i) <=> Adds(i)') /\ (AllAt(i) <=> AllAt(i)') /\ (Made(i) <=> Made(i)')
           /\ \A i, t : AddAt(i, t) <=> AddAt(i, t)'
           /\ \A i, a : Writes(i, a) <=> Writes(i, a)'
           /\ \A u, t : MustPrecede(u, t) <=> MustPrecede(u, t)'
           /\ \A u, p : Before(u, p) <=> Before(u, p)'
           /\ \A t : (Known(t) <=> Known(t)') /\ (Old(t) <=> Old(t)') /\ (Loose(t) <=> Loose(t)')
           /\ Disciplined' /\ (Building <=> Building')
           /\ \A p : Waits(p) <=> Waits(p)'
  <1>1. /\ \A i : (Adds(i) <=> Adds(i)') /\ (AllAt(i) <=> AllAt(i)')
        /\ \A i, t : AddAt(i, t) <=> AddAt(i, t)'
        /\ \A i, a : Writes(i, a) <=> Writes(i, a)'
        /\ \A u, t : MustPrecede(u, t) <=> MustPrecede(u, t)'
        /\ \A u, p : Before(u, p) <=> Before(u, p)'
        /\ Disciplined'
    BY OrderFixed DEF IInv
  <1>2. \A i : Made(i) <=> Made(i)'
    BY <1>1 DEF Made
  <1>3. \A t : (Known(t) <=> Known(t)') /\ (Old(t) <=> Old(t)')
    BY <1>1, <1>2 DEF Known, Old
  <1>4. \A t : Loose(t) <=> Loose(t)'
    BY DEF Loose, InFrames
  <1>5. \A p : Waits(p) <=> Waits(p)'
    BY DEF Waits
  <1> QED
    BY <1>1, <1>2, <1>3, <1>4, <1>5 DEF Building

\* The frames, the ready tasks and the order stay what they are.
LEMMA MasterStep ==
    ASSUME IInv, TypeOK', MasterKept, \A t \in Tasks : EdgesMade(t)
    PROVE  /\ Disciplined' /\ FrameShape' /\ OnePlace(stack)' /\ Runs' /\ Counts' /\ Ready' /\ Fresh' /\ OrderKept'
           /\ \A t, u \in Tasks : Safe(u, t) => Safe(u, t)'
  <1>1. /\ prog' = prog /\ team' = team /\ stack' = stack /\ queue' = queue /\ begun' = begun /\ ended' = ended
        /\ ip' = ip /\ call.pc # "idle" /\ call'.pc # "idle"
    BY DEF MasterKept
  <1>2. /\ \A u, t : MustPrecede(u, t) <=> MustPrecede(u, t)'
        /\ \A t : (Known(t) <=> Known(t)') /\ (Old(t) <=> Old(t)') /\ (Loose(t) <=> Loose(t)')
        /\ Disciplined'
    BY <1>1, SubmissionSame
  <1>3. ASSUME NEW t \in Tasks
        PROVE  /\ IsFiniteSet(Pend(t))' /\ (Cardinality(Pend(t)) <= Owed(t))'
               /\ \A u \in Tasks : Safe(u, t) => Safe(u, t)'
    <2>1. EdgeStep(t)
      BY DEF EdgesMade
    <2>2. EndedKept
      BY <1>1 DEF EndedKept
    <2> QED
      BY <2>1, <2>2, <1>1, SafeKept DEF IInv
  <1>4. FrameShape' /\ OnePlace(stack)'
    BY <1>1 DEF IInv, FrameShape
  <1>5. Runs'
    BY <1>1 DEF IInv, Runs, MasterKept
  <1>6. Counts'
    BY <1>3 DEF Counts, EdgesMade
  <1>7. Fresh'
    BY <1>2 DEF IInv, Fresh, MasterKept
  <1>8. OrderKept'
    BY <1>2, <1>3 DEF IInv, OrderKept
  <1>9. Ready'
    <2> SUFFICES ASSUME NEW t \in Tasks, Loose(t)' \/ begun'[t] = 1
                 PROVE  Sent(t)' /\ Owed(t)' = 0 /\ Cleared(t)'
      BY DEF Ready
    <2>1. Loose(t) \/ begun[t] = 1
      BY <1>1, <1>2
    <2>2. Sent(t) /\ Owed(t) = 0 /\ Cleared(t)
      BY <2>1 DEF IInv, Ready
    <2>3. Owed(t)' = 0
      BY <2>1, <2>2 DEF EdgesMade
    <2>4. Cleared(t)'
      BY <2>2, <1>1, <1>2 DEF Cleared
    <2>5. Sent(t)'
      <3>1. task[t].nHard \in Nat /\ task'[t].nHard \in Nat /\ task'[t].nHard >= task[t].nHard
        BY TaskTypes DEF IInv, MasterKept, TypeOK, TaskSet
      <3> QED
        BY <2>2, <3>1, <1>2 DEF Sent
    <2> QED
      BY <2>3, <2>4, <2>5
  <1> QED
    BY <1>2, <1>3, <1>4, <1>5, <1>6, <1>7, <1>8, <1>9

\* The hash is the same.
LEMMA HashSame ==
    ASSUME IInv, MasterKept, entry' = entry
    PROVE  HashHolds' /\ HashLeads'
  <1>1. /\ prog' = prog /\ stack' = stack /\ queue' = queue /\ ended' = ended
        /\ ip' = ip /\ call.pc # "idle" /\ call'.pc # "idle"
    BY DEF MasterKept
  <1>2. /\ \A i : (Adds(i) <=> Adds(i)') /\ (AllAt(i) <=> AllAt(i)') /\ (Made(i) <=> Made(i)')
        /\ \A i, a : Writes(i, a) <=> Writes(i, a)'
        /\ \A u, t : MustPrecede(u, t) <=> MustPrecede(u, t)'
        /\ \A t : Known(t) <=> Known(t)'
    BY <1>1, SubmissionSame
  <1>3. HashHolds'
    BY <1>1, <1>2 DEF IInv, HashHolds, HoldsIn
  <1>4. \A i : LedTo(entry, i) <=> LedTo(entry, i)'
    BY <1>1, <1>2 DEF LedTo, OutBehind
  <1>5. HashLeads'
    BY <1>1, <1>2, <1>4 DEF IInv, HashLeads, LeadsIn
  <1> QED
    BY <1>3, <1>5

\* A step that touches no edge and no count of edges.
LEMMA NoEdge ==
    ASSUME IInv, MasterKept, NEW t \in Tasks, task'[t].nPred = task[t].nPred, task'[t].nHard = task[t].nHard,
           call.pc # "count", call'.pc # "count",
           \A p \in Tasks : task'[p].succ = task[p].succ \/ task'[p].succ = <<>>
    PROVE  EdgesMade(t)
  <1>1. Uncounted(t) = 0 /\ Uncounted(t)' = 0
    BY DEF Uncounted
  <1>2. Owed(t)' = Owed(t) /\ ~Overtaken(t) /\ ~Overtaken(t)'
    BY <1>1 DEF Owed, Overtaken
  <1>3. stack' = stack /\ ended' = ended
    BY DEF MasterKept
  <1>4. ASSUME NEW p \in Tasks, NEW s, NEW k, Listed(p, s)', FromEnd(s, k, t) PROVE Listed(p, s)
    <2>1. Waits(p) <=> Waits(p)'
      BY <1>3 DEF Waits
    <2>2. ~FromEnd(<<>>, k, t)
      BY FromEnds DEF FromEnd
    <2>3. CASE Waits(p)' /\ s = task'[p].succ
      BY <2>1, <2>2, <2>3, <1>4 DEF Listed
    <2>4. CASE ~(Waits(p)' /\ s = task'[p].succ)
      BY <2>4, <1>3, <1>4 DEF Listed
    <2> QED
      BY <2>3, <2>4
  <1>5. Pend(t)' \subseteq Pend(t)
    <2>1. ASSUME NEW p \in Tasks, NEW k, EdgeAt(p, k, t)' PROVE EdgeAt(p, k, t)
      <3>1. PICK s \in Seq(Tasks) : Listed(p, s)' /\ FromEnd(s, k, t)
        BY <2>1 DEF EdgeAt
      <3> QED
        BY <3>1, <1>4 DEF EdgeAt
    <2> QED
      BY <2>1 DEF Pend
  <1>6. EdgeStep(t)
    BY <1>2, <1>5 DEF EdgeStep
  <1>7. 3 * (task[t].nHard + Uncounted(t)) < UintMod /\ task[t].nPred <= task[t].nHard
    BY <1>2 DEF IInv, Counts
  <1>8. 3 * (task'[t].nHard + Uncounted(t)') < UintMod /\ task'[t].nPred <= task'[t].nHard
    BY <1>1, <1>7
  <1> QED
    BY <1>2, <1>6, <1>8 DEF EdgesMade

\* The task Master submits.
LEMMA Submitted ==
    ASSUME IInv, call.pc # "idle"
    PROVE  /\ ip \in DOMAIN prog /\ ip \in Nat /\ prog[ip].op \in {"add_task", "destroy"}
           /\ Building <=> prog[ip].op = "add_task"
           /\ Building => /\ call.task \in Tasks /\ call.task = prog[ip].task /\ call.n = task[call.task].nHard
                          /\ Adds(ip) /\ AddAt(ip, call.task) /\ Made(ip) /\ Known(call.task)
                          /\ prog[ip].deps \in Seq(DepSet)
  <1>1. ip \in DOMAIN prog /\ prog[ip].op \in {"add_task", "destroy"}
    BY DEF IInv, CallShape
  <1>2. ip \in Nat
    BY Submissions DEF IInv, TypeOK
  <1>3. ASSUME Building
        PROVE  /\ call.task \in Tasks /\ call.task = prog[ip].task /\ call.n = task[call.task].nHard
               /\ Adds(ip) /\ AddAt(ip, call.task) /\ Made(ip) /\ Known(call.task)
               /\ prog[ip].deps \in Seq(DepSet)
    <2>1. call.task = prog[ip].task /\ call.n = task[call.task].nHard /\ Adds(ip)
      BY <1>1, <1>3 DEF Building, IInv, CallShape, Adds
    <2>2. Made(ip) /\ AddAt(ip, call.task)
      BY <2>1 DEF Made, AddAt
    <2>3. call.task \in Tasks /\ prog[ip].deps \in Seq(DepSet)
      BY <2>1, Submissions DEF IInv
    <2> QED
      BY <1>1, <2>1, <2>2, <2>3 DEF Known
  <1> QED
    BY <1>1, <1>2, <1>3 DEF Building

\* Master is done with an operation of its list.
LEMMA PopOpIs ==
    ASSUME TypeOK, CallShape, call.pc # "idle", call.ops # <<>>, call' = PopOp
    PROVE  /\ call' \in CallSet /\ call'.pc = "deps" /\ call'.task = call.task /\ call'.deps = call.deps
           /\ call'.addrs = call.addrs /\ call'.n = call.n
           /\ call'.ops \in Seq(OpSet) /\ Elems(call'.ops) \subseteq Elems(call.ops)
           /\ \A o \in Elems(call.ops) : o = Head(call.ops) \/ o \in Elems(call'.ops)
  <1>1. PICK r \in Seq(OpSet) : /\ r = Tail(call.ops) /\ Elems(r) \subseteq Elems(call.ops)
                                /\ \A o \in Elems(call.ops) : o = Head(call.ops) \/ o \in Elems(r)
    BY OpTaskType
  <1>2. call' = [call EXCEPT !.pc = "deps", !.ops = r]
    BY <1>1 DEF PopOp
  <1>3. PICK c : c = [call EXCEPT !.pc = "deps", !.ops = r]
    OBVIOUS
  <1>4. /\ c \in CallSet /\ c.pc = "deps" /\ c.task = call.task /\ c.deps = call.deps /\ c.addrs = call.addrs
        /\ c.n = call.n /\ c.ops = r
    BY <1>3 DEF TypeOK, CallSet
  <1> QED
    BY <1>1, <1>2, <1>3, <1>4

\* What has been entered stays so, and what is left still leads where it led.
LEMMA SubmissionLeft ==
    ASSUME IInv, MasterKept, entry' = entry, call'.addrs = call.addrs, call'.deps = call.deps
    PROVE  /\ \A x : Entered(x) <=> Entered(x)'
           /\ \A u, d : Asks(u, d) <=> Asks(u, d)'
           /\ \A u, a : Yields(u, entry[a]) <=> Yields(u, entry[a])'
  <1>1. /\ prog' = prog /\ stack' = stack /\ queue' = queue /\ ended' = ended
        /\ ip' = ip /\ call.pc # "idle" /\ call'.pc # "idle" /\ call'.task = call.task
    BY DEF MasterKept
  <1>2. /\ \A i : (AllAt(i) <=> AllAt(i)')
        /\ \A i, t : AddAt(i, t) <=> AddAt(i, t)'
        /\ \A u, p : Before(u, p) <=> Before(u, p)'
    BY <1>1, SubmissionSame
  <1>3. \A x : Entered(x) <=> Entered(x)'
    BY <1>1, <1>2 DEF Entered
  <1>4. \A u, d : Asks(u, d) <=> Asks(u, d)'
    BY <1>1, <1>2 DEF Asks
  <1>5. \A u, a : Yields(u, entry[a]) <=> Yields(u, entry[a])'
    BY <1>2 DEF Yields
  <1> QED
    BY <1>3, <1>4, <1>5

\* Master is done with an operation that leaves the order of its task in place.
LEMMA PopStep ==
    ASSUME IInv, call' \in CallSet, TypeOK', MasterKept, \A t \in Tasks : EdgesMade(t), entry' = entry,
           call.ops # <<>>, call' = [PopOp EXCEPT !.n = call'.n] \/ call' = PopOp,
           NEW r, r = call'.ops, Elems(r) \subseteq Elems(call.ops), call'.pc = "deps",
           call'.deps = call.deps, call'.addrs = call.addrs,
           \A o \in Elems(call.ops) : o = Head(call.ops) \/ o \in Elems(r),
           NEW c, c = call.task,
           Building => /\ call'.n = task'[c].nHard
                       /\ team = {Master} \/ task'[c].nHard = 0 => ~Loose(c) /\ begun[c] = 0
                       /\ team # {Master} /\ task'[c].nHard > 0 => \A u \in Tasks : MustPrecede(u, c) => Safe(u, c)
                       /\ Head(call.ops).do = "precede" => \A u \in Tasks : Before(u, OpTask) => Safe(u, c)
    PROVE  IInv'
  <1>1. /\ prog' = prog /\ team' = team /\ stack' = stack /\ queue' = queue /\ begun' = begun /\ ended' = ended
        /\ ip' = ip /\ call.pc # "idle" /\ call'.pc # "idle" /\ call'.task = call.task
    BY DEF MasterKept
  <1>2. /\ Disciplined' /\ FrameShape' /\ OnePlace(stack)' /\ Runs' /\ Counts' /\ Ready' /\ Fresh' /\ OrderKept'
        /\ \A t, u \in Tasks : Safe(u, t) => Safe(u, t)'
    BY MasterStep
  <1>3. HashHolds' /\ HashLeads'
    BY HashSame
  <1>4. /\ \A i, a : Writes(i, a) <=> Writes(i, a)'
        /\ \A u, t : MustPrecede(u, t) <=> MustPrecede(u, t)'
        /\ \A u, p : Before(u, p) <=> Before(u, p)'
        /\ \A t : (Known(t) <=> Known(t)') /\ (Loose(t) <=> Loose(t)')
        /\ Building <=> Building'
    BY <1>1, SubmissionSame
  <1>5. CallShape'
    <2>1. \A o \in Elems(r) : Known(o.of)'
      BY <1>1, <1>4 DEF IInv, CallShape
    <2>2. prog[ip].op # "add_task" => \A o \in Elems(r) : o.do = "deref"
      BY <1>1 DEF IInv, CallShape
    <2>3. prog[ip].op = "add_task" => call'.n = task'[c].nHard
      BY <1>1 DEF Building
    <2> QED
      BY <1>1, <1>4, <2>1, <2>2, <2>3 DEF IInv, CallShape
  <1>6. Quiet'
    <2> SUFFICES ASSUME Building PROVE Quiet'
      BY <1>4 DEF Quiet
    <2>1. c \in Tasks
      BY <1>1, Submitted
    <2>2. /\ team' = {Master} \/ task'[c].nHard = 0 => ~Loose(c)' /\ begun'[c] = 0
          /\ team' # {Master} /\ task'[c].nHard > 0 => \A u \in Tasks : MustPrecede(u, c)' => Safe(u, c)'
      BY <1>1, <1>2, <1>4, <2>1
    <2> QED
      BY <1>1, <2>2 DEF Quiet
  <1>7. Submitting'
    <2> SUFFICES ASSUME Building PROVE Submitting'
      BY <1>4 DEF Submitting
    <2>1. c \in Tasks
      BY <1>1, Submitted
    <2>2. /\ \A x : Entered(x) <=> Entered(x)'
          /\ \A u, d : Asks(u, d) <=> Asks(u, d)'
          /\ \A u, a : Yields(u, entry[a]) <=> Yields(u, entry[a])'
      BY SubmissionLeft
    <2>3. ASSUME NEW u \in Tasks, MustPrecede(u, c)
          PROVE  \/ Safe(u, c)'
                 \/ \E o \in Elems(r) : o.do = "precede" /\ Before(u, o.of)'
                 \/ \E a \in call'.addrs : Yields(u, entry[a])'
                 \/ \E d \in Elems(call'.deps) : Asks(u, d)'
      <3>1. CASE \E o \in Elems(call.ops) : o.do = "precede" /\ Before(u, o.of)
        <4>1. PICK o \in Elems(call.ops) : o.do = "precede" /\ Before(u, o.of)
          BY <3>1
        <4>2. CASE o = Head(call.ops)
          <5>1. Safe(u, c)
            BY <4>1, <4>2 DEF OpTask
          <5> QED
            BY <5>1, <2>1, <1>2
        <4> QED
          BY <4>1, <4>2, <1>4
      <3>2. CASE Safe(u, c)
        BY <3>2, <2>1, <1>2
      <3> QED
        BY <2>2, <2>3, <3>1, <3>2 DEF IInv, Submitting
    <2>4. \A x \in Elems(DepListRmDup(prog'[ip'].deps)) : x \in Elems(call'.deps) \/ Entered(x)'
      BY <1>1, <2>2 DEF IInv, Submitting
    <2> QED
      BY <1>1, <1>4, <2>3, <2>4 DEF Submitting
  <1> QED
    BY <1>2, <1>3, <1>5, <1>6, <1>7 DEF IInv

-----------------------------------------------------------------------------
(* The calls of Master *)

\* kupl_graph_wait has read zero, kupl_graph_test found no task: Master goes on.
LEMMA CallOverStep ==
    ASSUME IInv, CallOver, UNCHANGED <<program, call, task, dagVars, count, alive, schedVars, stack, history>>
    PROVE  IInv'
  <1>1. /\ prog' = prog /\ team' = team /\ call' = call /\ task' = task /\ entry' = entry
        /\ queue' = queue /\ stack' = stack /\ begun' = begun /\ ended' = ended
    BY DEF program, dagVars, schedVars, history
  <1>2. ip' \in 1 .. Len(prog) + 1
    BY Submissions DEF CallOver, IInv
  <1>3. TypeOK'
    BY <1>1, <1>2 DEF IInv, TypeOK
  <1>4. FrameShape' /\ OnePlace(stack)' /\ Runs'
    BY <1>1 DEF IInv, FrameShape, Runs
  <1>5. ExecKept
    BY <1>1 DEF ExecKept, EndedKept
  <1>6. \A p \in Tasks : (Waits(p) <=> Waits(p)') /\ \A s \in Seq(Tasks) : Listed(p, s)' => Listed(p, s)
    <2>1. \A p \in Tasks : Waits(p) <=> Waits(p)'
      BY <1>1 DEF Waits
    <2> QED
      BY <2>1, <1>1 DEF Listed
  <1>7. \A t \in Tasks : Loose(t)' \/ begun'[t] = 1 => Loose(t) \/ begun[t] = 1
    BY <1>1 DEF Loose, InFrames
  <1>8. \A t \in Tasks : task'[t].nPred = task[t].nPred
    BY <1>1
  <1> QED
    BY <1>3, <1>4, <1>5, <1>6, <1>7, <1>8, QuietStep

\* kupl_graph_wait returns.
LEMMA GraphWaitStep == ASSUME IInv, GraphWait PROVE IInv'
  <1>1. CallOver /\ UNCHANGED <<program, call, task, dagVars, count, alive, schedVars, stack, history>>
    <2>1. ip \in Nat /\ ip >= 1 /\ Len(prog) \in Nat /\ DOMAIN prog = 1 .. Len(prog)
      BY Submissions DEF IInv, TypeOK
    <2> QED
      BY <2>1 DEF GraphWait, AtCall, CallOver
  <1> QED
    BY <1>1, CallOverStep

\* kupl_graph_test runs a task on Master, or none.
LEMMA GraphTestStep == ASSUME IInv, GraphTest PROVE IInv'
  <1>1. CallOver
    <2>1. ip \in Nat /\ ip >= 1 /\ Len(prog) \in Nat /\ DOMAIN prog = 1 .. Len(prog)
      BY Submissions DEF IInv, TypeOK
    <2> QED
      BY <2>1 DEF GraphTest, AtCall, CallOver
  <1>2. CASE \E t \in Tasks : SchedExecuteTb(Master, t)
    <2>1. PICK t \in Tasks : SchedExecuteTb(Master, t)
      BY <1>2
    <2>2. stack[Master] # <<>> /\ Master \in team /\ Master \in Executors /\ call.pc = "idle"
      BY ExecutorsAssumption DEF GraphTest, AtCall, At, IInv, TypeOK
    <2> QED
      BY <1>1, <2>1, <2>2, SchedExecuteTbStep
  <1>3. CASE UNCHANGED <<program, call, task, dagVars, count, alive, schedVars, stack, history>>
    BY <1>1, <1>3, CallOverStep
  <1> QED
    BY <1>2, <1>3 DEF GraphTest

\* Master counts or drops a reference of a task.
LEMMA RefStep ==
    ASSUME IInv, call.pc = "deps", call.ops # <<>>, Head(call.ops).do # "precede", call' = PopOp,
           NEW o, o = OpTask, NEW r \in TaskSet, r.finished = task[o].finished, r.nPred = task[o].nPred,
           r.nHard = task[o].nHard, r.succ = task[o].succ \/ r.succ = <<>>, task' = [task EXCEPT ![o] = r],
           prog' = prog, team' = team, ip' = ip, entry' = entry, queue' = queue, stack' = stack,
           begun' = begun, ended' = ended
    PROVE  IInv'
  <1>1. o \in Tasks /\ Known(o)
    BY OpTaskType DEF IInv
  <1>2. /\ call' \in CallSet /\ call'.pc = "deps" /\ call'.task = call.task /\ call'.deps = call.deps
        /\ call'.addrs = call.addrs /\ call'.n = call.n
        /\ call'.ops \in Seq(OpSet) /\ Elems(call'.ops) \subseteq Elems(call.ops)
        /\ \A b \in Elems(call.ops) : b = Head(call.ops) \/ b \in Elems(call'.ops)
    BY PopOpIs DEF IInv
  <1>3. task \in [Tasks -> TaskSet]
    BY DEF IInv, TypeOK
  <1>4. /\ task' \in [Tasks -> TaskSet]
        /\ \A t \in Tasks : /\ task'[t].finished = task[t].finished /\ task'[t].nHard = task[t].nHard
                            /\ task'[t].nPred = task[t].nPred
                            /\ task'[t].succ = task[t].succ \/ task'[t].succ = <<>>
                            /\ t # o => task'[t] = task[t]
    BY <1>1, <1>3
  <1>5. \A t \in Tasks : task'[t].nHard >= task[t].nHard
    <2>1. \A t \in Tasks : task[t].nHard \in Nat
      BY TaskTypes DEF IInv
    <2> QED
      BY <1>4, <2>1
  <1>6. TypeOK'
    BY <1>2, <1>4 DEF IInv, TypeOK
  <1>7. MasterKept
    BY <1>1, <1>2, <1>4, <1>5 DEF MasterKept
  <1>8. \A t \in Tasks : EdgesMade(t)
    BY <1>2, <1>4, <1>7, NoEdge
  <1>9. PICK c : c = call.task
    OBVIOUS
  <1>10. ASSUME Building
         PROVE  /\ call'.n = task'[c].nHard
                /\ team = {Master} \/ task'[c].nHard = 0 => ~Loose(c) /\ begun[c] = 0
                /\ team # {Master} /\ task'[c].nHard > 0 => \A u \in Tasks : MustPrecede(u, c) => Safe(u, c)
    <2>1. c \in Tasks /\ call.n = task[c].nHard
      BY <1>9, <1>10, Submitted
    <2>2. Quiet
      BY DEF IInv
    <2> QED
      BY <1>2, <1>4, <1>9, <1>10, <2>1, <2>2 DEF Quiet
  <1>11. PICK q : q = call'.ops
    OBVIOUS
  <1> QED
    BY <1>2, <1>6, <1>7, <1>8, <1>9, <1>10, <1>11, PopStep

\* kupl_gnode_ref.
LEMMA GnodeRefStep == ASSUME IInv, GnodeRef PROVE IInv'
  <1>1. /\ call.pc = "deps" /\ call.ops # <<>> /\ Head(call.ops).do = "ref" /\ call' = PopOp
        /\ task' = [task EXCEPT ![OpTask].ref = @ + 1]
        /\ prog' = prog /\ team' = team /\ ip' = ip /\ entry' = entry /\ queue' = queue /\ stack' = stack
        /\ begun' = begun /\ ended' = ended
    BY DEF GnodeRef, NextOp, program, dagVars, schedVars, history
  <1>2. PICK o \in Tasks : o = OpTask
    BY <1>1, OpTaskType DEF IInv
  <1>3. task[o] \in TaskSet /\ task \in [Tasks -> TaskSet]
    BY DEF IInv, TypeOK
  <1>4. PICK n \in Int : n = task[o].ref + 1
    BY <1>3 DEF TaskSet
  <1>5. PICK r : r = [task[o] EXCEPT !.ref = n]
    OBVIOUS
  <1>6. r \in TaskSet /\ r.finished = task[o].finished /\ r.nPred = task[o].nPred /\ r.nHard = task[o].nHard /\ r.succ = task[o].succ
    BY <1>3, <1>5 DEF TaskSet
  <1>7. task' = [task EXCEPT ![o] = r]
    BY <1>1, <1>2, <1>4, <1>5
  <1> QED
    BY <1>1, <1>2, <1>6, <1>7, RefStep, ZenonT(60)

\* kupl_gnode_deref.
LEMMA GnodeDerefStep == ASSUME IInv, GnodeDeref PROVE IInv'
  <1>1. /\ call.pc = "deps" /\ call.ops # <<>> /\ Head(call.ops).do = "deref" /\ call' = PopOp
        /\ task' = [task EXCEPT ![OpTask] = Deref(@)]
        /\ prog' = prog /\ team' = team /\ ip' = ip /\ entry' = entry /\ queue' = queue /\ stack' = stack
        /\ begun' = begun /\ ended' = ended
    BY DEF GnodeDeref, NextOp, program, dagVars, schedVars, history
  <1>2. PICK o \in Tasks : o = OpTask
    BY <1>1, OpTaskType DEF IInv
  <1>3. task[o] \in TaskSet
    BY DEF IInv, TypeOK
  <1>4. PICK r \in TaskSet : r = Deref(task[o])
    BY <1>3, DerefIs
  <1>5. r.finished = task[o].finished /\ r.nPred = task[o].nPred /\ r.nHard = task[o].nHard /\ (r.succ = task[o].succ \/ r.succ = <<>>)
    BY <1>3, <1>4, DerefIs
  <1>6. task' = [task EXCEPT ![o] = r]
    BY <1>1, <1>2, <1>4
  <1> QED
    BY <1>1, <1>2, <1>5, <1>6, RefStep, ZenonT(60)

\* An edge is made for a submission.
LEMMA EdgeOfSubmission ==
    ASSUME IInv, call.pc # "idle", call.ops # <<>>, Head(call.ops).do = "precede"
    PROVE  Building
  <1>1. Head(call.ops) \in Elems(call.ops)
    BY OpTaskType DEF IInv
  <1> QED
    BY <1>1 DEF IInv, CallShape, Building

\* kupl_gnode_precede finds the predecessor finished: no edge.
LEMMA PrecedeFinished == ASSUME IInv, GnodePrecedeLock, task[OpTask].finished PROVE IInv'
  <1>1. /\ call.pc = "deps" /\ call.ops # <<>> /\ Head(call.ops).do = "precede" /\ call' = PopOp
        /\ task' = task
        /\ prog' = prog /\ team' = team /\ ip' = ip /\ entry' = entry /\ queue' = queue /\ stack' = stack
        /\ begun' = begun /\ ended' = ended
    BY DEF GnodePrecedeLock, NextOp, program, dagVars, schedVars, history
  <1>2. PICK o \in Tasks : o = OpTask
    BY <1>1, OpTaskType DEF IInv
  <1>3. /\ call' \in CallSet /\ call'.pc = "deps" /\ call'.task = call.task /\ call'.deps = call.deps
        /\ call'.addrs = call.addrs /\ call'.n = call.n
        /\ call'.ops \in Seq(OpSet) /\ Elems(call'.ops) \subseteq Elems(call.ops)
        /\ \A b \in Elems(call.ops) : b = Head(call.ops) \/ b \in Elems(call'.ops)
    BY <1>1, PopOpIs DEF IInv
  <1>4. TypeOK'
    BY <1>1, <1>3 DEF IInv, TypeOK
  <1>5. MasterKept
    <2>1. \A t \in Tasks : task[t].nHard \in Nat
      BY TaskTypes DEF IInv
    <2> QED
      BY <2>1, <1>1, <1>3 DEF MasterKept
  <1>6. \A t \in Tasks : EdgesMade(t)
    BY <1>1, <1>3, <1>5, NoEdge
  <1>7. PICK c : c = call.task
    OBVIOUS
  <1>8. c \in Tasks /\ call.n = task[c].nHard /\ Building
    BY <1>1, <1>7, EdgeOfSubmission, Submitted
  <1>9. /\ team = {Master} \/ task[c].nHard = 0 => ~Loose(c) /\ begun[c] = 0
        /\ team # {Master} /\ task[c].nHard > 0 => \A u \in Tasks : MustPrecede(u, c) => Safe(u, c)
    <2>1. Quiet
      BY DEF IInv
    <2> QED
      BY <1>7, <1>8, <2>1 DEF Quiet
  <1>10. ASSUME NEW u \in Tasks, Before(u, o) PROVE Safe(u, c)
    <2>1. ended[o] = 1 /\ begun[o] = 1
      BY <1>2 DEF IInv, Runs
    <2>2. ended[u] = 1
      BY <2>1, <1>2, <1>10, BeforeEnded DEF IInv
    <2> QED
      BY <2>2 DEF Safe
  <1>11. PICK q : q = call'.ops
    OBVIOUS
  <1> QED
    BY <1>1, <1>2, <1>3, <1>4, <1>5, <1>6, <1>7, <1>8, <1>9, <1>10, <1>11, PopStep

\* Master goes on with kupl_gnode_precede: all but Quiet is kept whatever the edges.
LEMMA PcStep ==
    ASSUME IInv, TypeOK', MasterKept, \A t \in Tasks : EdgesMade(t), entry' = entry, Building,
           call'.deps = call.deps, call'.addrs = call.addrs, call'.n = call.n, call'.ops = call.ops,
           call.ops # <<>>, Head(call.ops).do = "precede", NEW c, c = call.task, task'[c].nHard = task[c].nHard
    PROVE  Quiet' => IInv'
  <1>1. /\ prog' = prog /\ team' = team /\ stack' = stack /\ queue' = queue /\ begun' = begun /\ ended' = ended
        /\ ip' = ip /\ call.pc # "idle" /\ call'.pc # "idle" /\ call'.task = call.task
    BY DEF MasterKept
  <1>2. /\ Disciplined' /\ FrameShape' /\ OnePlace(stack)' /\ Runs' /\ Counts' /\ Ready' /\ Fresh' /\ OrderKept'
        /\ \A t, u \in Tasks : Safe(u, t) => Safe(u, t)'
    BY MasterStep
  <1>3. HashHolds' /\ HashLeads'
    BY HashSame
  <1>4. /\ \A i, a : Writes(i, a) <=> Writes(i, a)'
        /\ \A u, t : MustPrecede(u, t) <=> MustPrecede(u, t)'
        /\ \A u, p : Before(u, p) <=> Before(u, p)'
        /\ \A t : Known(t) <=> Known(t)'
        /\ Building'
    BY <1>1, SubmissionSame
  <1>5. c \in Tasks /\ call.n = task[c].nHard
    BY <1>1, Submitted
  <1>6. CallShape'
    <2>1. CallShape
      BY DEF IInv
    <2> QED
      BY <2>1, <1>1, <1>4, <1>5 DEF CallShape
  <1>7. Submitting'
    <2>1. /\ \A x : Entered(x) <=> Entered(x)'
          /\ \A u, d : Asks(u, d) <=> Asks(u, d)'
          /\ \A u, a : Yields(u, entry[a]) <=> Yields(u, entry[a])'
      BY SubmissionLeft
    <2>2. Submitting
      BY DEF IInv
    <2>3. \A x \in Elems(DepListRmDup(prog'[ip'].deps)) : x \in Elems(call'.deps) \/ Entered(x)'
      BY <2>1, <2>2, <1>1 DEF Submitting
    <2>4. ASSUME NEW u \in Tasks, MustPrecede(u, c)
          PROVE  \/ Safe(u, c)'
                 \/ \E b \in Elems(call'.ops) : b.do = "precede" /\ Before(u, b.of)'
                 \/ \E a \in call'.addrs : Yields(u, entry[a])'
                 \/ \E d \in Elems(call'.deps) : Asks(u, d)'
      <3>1. \/ Safe(u, c)
            \/ \E b \in Elems(call.ops) : b.do = "precede" /\ Before(u, b.of)
            \/ \E a \in call.addrs : Yields(u, entry[a])
            \/ \E d \in Elems(call.deps) : Asks(u, d)
        BY <2>2, <2>4 DEF Submitting
      <3> QED
        BY <3>1, <2>1, <1>2, <1>4, <1>5
    <2> QED
      BY <2>3, <2>4, <1>1, <1>4 DEF Submitting
  <1> QED
    BY <1>2, <1>3, <1>6, <1>7 DEF IInv

\* kupl_gnode_precede locks the predecessor.
LEMMA PrecedeLocks == ASSUME IInv, RaceFree, GnodePrecedeLock, ~task[OpTask].finished PROVE IInv'
  <1>1. /\ NextOp("precede") /\ call.pc = "deps" /\ call.ops # <<>> /\ Head(call.ops).do = "precede"
        /\ call' = [call EXCEPT !.pc = "insert"]
        /\ task' = [task EXCEPT ![OpTask].locked = TRUE]
        /\ prog' = prog /\ team' = team /\ ip' = ip /\ entry' = entry /\ queue' = queue /\ stack' = stack
        /\ begun' = begun /\ ended' = ended
    BY DEF GnodePrecedeLock, NextOp, program, dagVars, schedVars, history
  <1>2. PICK o \in Tasks : o = OpTask /\ Known(o)
    BY <1>1, OpTaskType DEF IInv
  <1>3. PICK k : k = [call EXCEPT !.pc = "insert"]
    OBVIOUS
  <1>4. /\ k \in CallSet /\ k.pc = "insert" /\ k.task = call.task /\ k.deps = call.deps
        /\ k.addrs = call.addrs /\ k.n = call.n /\ k.ops = call.ops
    BY <1>3 DEF IInv, TypeOK, CallSet
  <1>5. /\ call' \in CallSet /\ call'.pc = "insert" /\ call'.task = call.task /\ call'.deps = call.deps
        /\ call'.addrs = call.addrs /\ call'.n = call.n /\ call'.ops = call.ops
    BY <1>1, <1>3, <1>4
  <1>6. task \in [Tasks -> TaskSet]
    BY DEF IInv, TypeOK
  <1>7. PICK r : r = [task[o] EXCEPT !.locked = TRUE]
    OBVIOUS
  <1>8. /\ r \in TaskSet /\ r.finished = task[o].finished /\ r.nPred = task[o].nPred /\ r.nHard = task[o].nHard
        /\ r.succ = task[o].succ /\ r.locked
    BY <1>6, <1>7 DEF TaskSet
  <1>9. task' = [task EXCEPT ![o] = r]
    BY <1>1, <1>2, <1>7
  <1>10. /\ task' \in [Tasks -> TaskSet]
         /\ \A t \in Tasks : /\ task'[t].finished = task[t].finished /\ task'[t].nHard = task[t].nHard
                             /\ task'[t].nPred = task[t].nPred /\ task'[t].succ = task[t].succ
                             /\ t # o => task'[t] = task[t]
         /\ task'[o].locked
    BY <1>6, <1>8, <1>9
  <1>11. TypeOK'
    BY <1>1, <1>5, <1>10 DEF IInv, TypeOK
  <1>12. MasterKept
    <2>1. \A t \in Tasks : task[t].nHard \in Nat
      BY TaskTypes DEF IInv
    <2> QED
      BY <2>1, <1>1, <1>2, <1>5, <1>10 DEF MasterKept
  <1>13. \A t \in Tasks : EdgesMade(t)
    BY <1>1, <1>5, <1>10, <1>12, NoEdge
  <1>14. PICK c : c = call.task
    OBVIOUS
  <1>15. c \in Tasks /\ Building
    BY <1>1, <1>14, EdgeOfSubmission, Submitted
  <1>16. /\ \A u, t : MustPrecede(u, t) <=> MustPrecede(u, t)'
         /\ \A u, p : Before(u, p) <=> Before(u, p)'
         /\ \A t : Loose(t) <=> Loose(t)'
         /\ \A p : Waits(p) <=> Waits(p)'
    BY <1>1, <1>5, SubmissionSame
  <1>17. OpTask' = o
    BY <1>2, <1>5 DEF OpTask
  <1>18. Quiet'
    <2>1. /\ 3 * (task'[c].nHard + 1) < UintMod
          /\ team # {Master} => /\ task'[c].nHard = 0
                                /\ \A u \in Tasks : MustPrecede(u, c) /\ ended[u] = 0 => Before(u, o)
      BY <1>1, <1>2, <1>10, <1>14, <1>15 DEF RaceFree
    <2>2. Waits(o)
      BY <1>2 DEF Waits, Runs, IInv, TypeOK
    <2>3. team = {Master} \/ task'[c].nHard = 0 => ~Loose(c) /\ begun[c] = 0
      <3>1. Quiet
        BY DEF IInv
      <3> QED
        BY <3>1, <1>10, <1>14, <1>15 DEF Quiet
    <2> QED
      BY <2>1, <2>2, <2>3, <1>1, <1>5, <1>10, <1>14, <1>15, <1>16, <1>17 DEF Quiet
  <1> QED
    BY <1>1, <1>5, <1>10, <1>11, <1>12, <1>13, <1>14, <1>15, <1>18, PcStep

\* kupl_gnode_precede, up to the lock.
LEMMA GnodePrecedeLockStep == ASSUME IInv, RaceFree, GnodePrecedeLock PROVE IInv'
  BY PrecedeFinished, PrecedeLocks

\* Where the edges are after one from o to c was put in front of the list of o.
LEMMA EdgeMade ==
    ASSUME TypeOK, NEW o \in Tasks, NEW c \in Tasks, NEW s, s = task[o].succ, NEW r, r = task'[o].succ, r = <<c>> \o s,
           stack' = stack, ended' = ended, \A p \in Tasks : p # o => task'[p].succ = task[p].succ, Waits(o),
           NEW m, m = Len(s) + 1
    PROVE  /\ \A t \in Tasks : Pend(t)' \subseteq Pend(t) \cup (IF t = c THEN {<<o, m>>} ELSE {})
           /\ <<o, m>> \in Pend(c)' /\ <<o, m>> \in Tasks \X Nat
  <1>1. s \in Seq(Tasks) /\ r \in Seq(Tasks) /\ m \in Nat
    <2>1. s \in Seq(Tasks)
      BY TaskTypes
    <2> QED
      BY <2>1
  <1>2. \A k, u : FromEnd(r, k, u) <=> FromEnd(s, k, u) \/ (k = m /\ u = c)
    BY <1>1, FromEnds
  <1>3. \A p : Waits(p) <=> Waits(p)'
    BY DEF Waits
  <1>4. ASSUME NEW p \in Tasks, NEW k, NEW t \in Tasks, EdgeAt(p, k, t)'
        PROVE  EdgeAt(p, k, t) \/ (t = c /\ p = o /\ k = m)
    <2>1. PICK q \in Seq(Tasks) : Listed(p, q)' /\ FromEnd(q, k, t)
      BY <1>4 DEF EdgeAt
    <2>2. CASE Waits(p)' /\ q = task'[p].succ
      <3>1. CASE p = o
        <4>1. FromEnd(s, k, t) \/ (k = m /\ t = c)
          BY <2>1, <2>2, <3>1, <1>2
        <4>2. Listed(o, s)
          BY DEF Listed
        <4> QED
          BY <4>1, <4>2, <3>1, <1>1 DEF EdgeAt
      <3>2. CASE p # o
        <4>1. Listed(p, q)
          BY <2>2, <3>2, <1>3 DEF Listed
        <4> QED
          BY <4>1, <2>1 DEF EdgeAt
      <3> QED
        BY <3>1, <3>2
    <2>3. CASE ~(Waits(p)' /\ q = task'[p].succ)
      <3>1. Listed(p, q)
        BY <2>1, <2>3 DEF Listed
      <3> QED
        BY <3>1, <2>1 DEF EdgeAt
    <2> QED
      BY <2>2, <2>3
  <1>5. EdgeAt(o, m, c)'
    <2>1. Listed(o, r)'
      BY <1>3 DEF Listed
    <2>2. FromEnd(r, m, c)
      BY <1>2
    <2> QED
      BY <2>1, <2>2, <1>1 DEF EdgeAt
  <1>6. ASSUME NEW t \in Tasks PROVE Pend(t)' \subseteq Pend(t) \cup (IF t = c THEN {<<o, m>>} ELSE {})
    <2>1. ASSUME NEW p \in Tasks, NEW k \in Nat, EdgeAt(p, k, t)'
          PROVE  <<p, k>> \in Pend(t) \cup (IF t = c THEN {<<o, m>>} ELSE {})
      <3>1. EdgeAt(p, k, t) \/ (t = c /\ p = o /\ k = m)
        BY <1>4, <2>1
      <3> QED
        BY <3>1 DEF Pend
    <2> QED
      BY <2>1 DEF Pend
  <1> QED
    BY <1>1, <1>5, <1>6 DEF Pend

\* kupl_gnode_precede inserts the edge and unlocks the predecessor.
LEMMA GnodePrecedeInsertStep == ASSUME IInv, GnodePrecedeInsert PROVE IInv'
  <1>1. /\ call.pc = "insert" /\ call' = [call EXCEPT !.pc = "count"]
        /\ task' = [task EXCEPT ![OpTask].succ = <<call.task>> \o @, ![OpTask].locked = FALSE]
        /\ prog' = prog /\ team' = team /\ ip' = ip /\ entry' = entry /\ queue' = queue /\ stack' = stack
        /\ begun' = begun /\ ended' = ended
    BY DEF GnodePrecedeInsert, program, dagVars, schedVars, history
  <1>2. call.ops # <<>> /\ Head(call.ops).do = "precede"
    BY <1>1 DEF IInv, CallShape
  <1>3. PICK o \in Tasks : o = OpTask /\ Known(o)
    BY <1>1, <1>2, OpTaskType DEF IInv
  <1>4. PICK c \in Tasks : c = call.task /\ Building
    BY <1>1, <1>2, EdgeOfSubmission, Submitted
  <1>5. PICK k : k = [call EXCEPT !.pc = "count"]
    OBVIOUS
  <1>6. /\ k \in CallSet /\ k.pc = "count" /\ k.task = call.task /\ k.deps = call.deps
        /\ k.addrs = call.addrs /\ k.n = call.n /\ k.ops = call.ops
    BY <1>5 DEF IInv, TypeOK, CallSet
  <1>7. /\ call' \in CallSet /\ call'.pc = "count" /\ call'.task = call.task /\ call'.deps = call.deps
        /\ call'.addrs = call.addrs /\ call'.n = call.n /\ call'.ops = call.ops
    BY <1>1, <1>5, <1>6
  <1>8. task \in [Tasks -> TaskSet]
    BY DEF IInv, TypeOK
  <1>9. PICK q \in Seq(Tasks) : q = <<c>> \o task[o].succ
    <2>1. task[o].succ \in Seq(Tasks)
      BY TaskTypes DEF IInv
    <2> QED
      BY <2>1, MembersAdded
  <1>10. PICK r : r = [task[o] EXCEPT !.succ = q, !.locked = FALSE]
    OBVIOUS
  <1>11. /\ r \in TaskSet /\ r.finished = task[o].finished /\ r.nPred = task[o].nPred /\ r.nHard = task[o].nHard
         /\ r.succ = q
    BY <1>8, <1>10 DEF TaskSet
  <1>12. task' = [task EXCEPT ![o] = r]
    BY <1>1, <1>3, <1>4, <1>8, <1>9, <1>10
  <1>13. /\ task' \in [Tasks -> TaskSet]
         /\ \A t \in Tasks : /\ task'[t].finished = task[t].finished /\ task'[t].nHard = task[t].nHard
                             /\ task'[t].nPred = task[t].nPred
                             /\ t # o => task'[t] = task[t]
         /\ task'[o].succ = q
    BY <1>8, <1>11, <1>12
  <1>14. TypeOK'
    BY <1>1, <1>7, <1>13 DEF IInv, TypeOK
  <1>15. MasterKept
    <2>1. \A t \in Tasks : task[t].nHard \in Nat
      BY TaskTypes DEF IInv
    <2> QED
      BY <2>1, <1>1, <1>3, <1>7, <1>13 DEF MasterKept
  <1>16. PICK s, m : s = task[o].succ /\ m = Len(s) + 1
    OBVIOUS
  <1>17. Quiet
    BY DEF IInv
  <1>18. Waits(o) /\ 3 * (task[c].nHard + 1) < UintMod
    BY <1>1, <1>3, <1>4, <1>17 DEF Quiet
  <1>19. /\ \A t \in Tasks : Pend(t)' \subseteq Pend(t) \cup (IF t = c THEN {<<o, m>>} ELSE {})
         /\ <<o, m>> \in Pend(c)' /\ <<o, m>> \in Tasks \X Nat
    <2>1. TypeOK
      BY DEF IInv
    <2>2. \A p \in Tasks : p # o => task'[p].succ = task[p].succ
      BY <1>13
    <2>3. q = <<c>> \o s /\ q = task'[o].succ
      BY <1>9, <1>13, <1>16
    <2>4. stack' = stack /\ ended' = ended /\ Waits(o)
      BY <1>1, <1>18
    <2>5. s = task[o].succ /\ m = Len(s) + 1
      BY <1>16
    <2> QED
      BY <2>1, <2>2, <2>3, <2>4, <2>5, EdgeMade, ZenonT(60)
  <1>20. /\ team = {Master} \/ task[c].nHard = 0 => ~Loose(c) /\ begun[c] = 0
         /\ team # {Master} => /\ task[c].nHard = 0
                               /\ \A u \in Tasks : MustPrecede(u, c) /\ ended[u] = 0 => Before(u, o)
    BY <1>1, <1>3, <1>4, <1>17 DEF Quiet
  <1>21. ASSUME NEW t \in Tasks PROVE EdgesMade(t)
    <2>1. PICK a \in Nat, b \in Nat : a = task[t].nHard /\ b = task[t].nPred
      BY TaskTypes DEF IInv
    <2>2. task'[t].nHard = a /\ task'[t].nPred = b
      BY <2>1, <1>13
    <2>3. Uncounted(t) = 0 /\ Uncounted(t)' = IF t = c THEN 1 ELSE 0
      BY <1>1, <1>4, <1>7 DEF Uncounted
    <2>4. ~Overtaken(t) /\ Owed(t) = b /\ 3 * a < UintMod /\ b <= a
      BY <2>1, <2>3 DEF Overtaken, Owed, IInv, Counts
    <2>5. CASE t = c
      <3>1. 3 * (a + 1) < UintMod
        BY <1>18, <2>1, <2>5
      <3>2. ~Overtaken(t)'
        BY <2>2, <2>3, <2>4, <2>5, <3>1, BoundsAssumption DEF Overtaken
      <3>3. Owed(t)' = b + 1
        BY <2>2, <2>3, <2>5, <3>2 DEF Owed
      <3>4. EdgeStep(t)
        BY <3>3, <2>4, <2>5, <1>19 DEF EdgeStep
      <3>5. ~Loose(t) /\ begun[t] # 1
        BY <2>5, <1>20
      <3> QED
        BY <3>1, <3>4, <3>5, <2>2, <2>3, <2>4, <2>5 DEF EdgesMade
    <2>6. CASE t # c
      <3>1. ~Overtaken(t)' /\ Owed(t)' = b
        BY <2>2, <2>3, <2>6 DEF Overtaken, Owed
      <3>2. EdgeStep(t)
        BY <3>1, <2>4, <2>6, <1>19 DEF EdgeStep
      <3> QED
        BY <3>1, <3>2, <2>2, <2>3, <2>4, <2>6 DEF EdgesMade
    <2> QED
      BY <2>5, <2>6
  <1>22. /\ \A u, t : MustPrecede(u, t) <=> MustPrecede(u, t)'
         /\ \A u, p : Before(u, p) <=> Before(u, p)'
         /\ \A t : Loose(t) <=> Loose(t)'
    BY <1>1, <1>7, SubmissionSame
  <1>23. OpTask' = o
    BY <1>3, <1>7 DEF OpTask
  <1>24. ASSUME NEW u \in Tasks, Before(u, o) PROVE Safe(u, c)'
    <2>1. Before(u, o)'
      BY <1>22, <1>24
    <2>2. PICK pk : pk \in Pend(c)' /\ Before(u, pk[1])'
      BY <2>1, <1>19
    <2> QED
      BY <2>2 DEF Safe
  <1>25. ASSUME NEW u \in Tasks, MustPrecede(u, c), team # {Master} PROVE Safe(u, c)'
    <2>1. CASE ended[u] = 1
      BY <2>1, <1>1 DEF Safe
    <2>2. CASE ended[u] = 0
      BY <2>2, <1>20, <1>24, <1>25
    <2> QED
      BY <2>1, <2>2, TaskTypes DEF IInv
  <1>26. Quiet'
    BY <1>1, <1>4, <1>7, <1>13, <1>20, <1>22, <1>23, <1>24, <1>25 DEF Quiet
  <1> QED
    BY <1>1, <1>2, <1>4, <1>7, <1>13, <1>14, <1>15, <1>21, <1>26, PcStep

\* kupl_gnode_precede counts the edge at the successor.
LEMMA GnodePrecedeCountStep == ASSUME IInv, GnodePrecedeCount PROVE IInv'
  <1>1. /\ call.pc = "count" /\ call' = [PopOp EXCEPT !.n = Inc(@)]
        /\ task' = [task EXCEPT ![call.task].nHard = Inc(@), ![call.task].nPred = Inc(@)]
        /\ prog' = prog /\ team' = team /\ ip' = ip /\ entry' = entry /\ queue' = queue /\ stack' = stack
        /\ begun' = begun /\ ended' = ended
    BY DEF GnodePrecedeCount, program, dagVars, schedVars, history
  <1>2. call.ops # <<>> /\ Head(call.ops).do = "precede"
    BY <1>1 DEF IInv, CallShape
  <1>3. PICK o \in Tasks : o = OpTask
    BY <1>1, <1>2, OpTaskType DEF IInv
  <1>4. PICK c \in Tasks : c = call.task /\ Building /\ Known(c) /\ call.n = task[c].nHard
    BY <1>1, <1>2, EdgeOfSubmission, Submitted
  <1>5. PICK a \in Nat, b \in Nat : a = task[c].nHard /\ b = task[c].nPred
    BY TaskTypes DEF IInv
  <1>6. /\ a \in 0 .. UintMod - 1 /\ b \in 0 .. UintMod - 1 /\ 3 * (a + 1) < UintMod
        /\ b = UintMod - 1 \/ b <= a
        /\ Owed(c) = IF b = UintMod - 1 THEN 0 ELSE b + 1
    <2>1. Uncounted(c) = 1
      BY <1>1, <1>4 DEF Uncounted
    <2>2. Counts
      BY DEF IInv
    <2>3. 3 * (a + 1) < UintMod /\ (b = UintMod - 1 \/ b <= a)
      BY <2>1, <2>2, <1>5 DEF Counts, Overtaken
    <2>4. Owed(c) = IF b = UintMod - 1 THEN 0 ELSE b + 1
      BY <2>1, <1>5 DEF Owed, Overtaken
    <2> QED
      BY <2>3, <2>4, <1>5, TaskTypes DEF IInv
  <1>7. PICK n \in 0 .. UintMod - 1 : n = Inc(a) /\ n = a + 1
    <2>1. a + 1 < UintMod
      BY <1>6, BoundsAssumption
    <2> QED
      BY <2>1, <1>6, Counting
  <1>8. PICK z \in 0 .. UintMod - 1 : z = Inc(b) /\ z = (IF b = UintMod - 1 THEN 0 ELSE b + 1)
    <2>1. b = UintMod - 1 \/ b + 1 < UintMod
      BY <1>6, BoundsAssumption
    <2> QED
      BY <2>1, <1>6, Counting
  <1>9. PICK q \in Seq(OpSet) : /\ q = Tail(call.ops) /\ Elems(q) \subseteq Elems(call.ops)
                                /\ \A d \in Elems(call.ops) : d = Head(call.ops) \/ d \in Elems(q)
    BY <1>1, <1>2, OpTaskType DEF IInv
  <1>10. call' = [call EXCEPT !.pc = "deps", !.ops = q, !.n = n]
    <2>1. call \in CallSet
      BY DEF IInv, TypeOK
    <2>2. PopOp = [call EXCEPT !.pc = "deps", !.ops = q]
      BY <1>9 DEF PopOp
    <2>3. PICK v : v = [call EXCEPT !.pc = "deps", !.ops = q]
      OBVIOUS
    <2>4. v.n = a
      BY <2>1, <2>3, <1>4, <1>5 DEF CallSet
    <2>5. call' = [v EXCEPT !.n = n]
      BY <2>2, <2>3, <2>4, <1>1, <1>7
    <2> QED
      BY <2>1, <2>3, <2>5 DEF CallSet
  <1>11. PICK v : v = [call EXCEPT !.pc = "deps", !.ops = q, !.n = n]
    OBVIOUS
  <1>12. /\ v \in CallSet /\ v.pc = "deps" /\ v.task = call.task /\ v.deps = call.deps
         /\ v.addrs = call.addrs /\ v.n = n /\ v.ops = q
    BY <1>11 DEF IInv, TypeOK, CallSet
  <1>13. /\ call' \in CallSet /\ call'.pc = "deps" /\ call'.task = call.task /\ call'.deps = call.deps
         /\ call'.addrs = call.addrs /\ call'.n = n /\ call'.ops = q
    BY <1>10, <1>11, <1>12
  <1>14. task \in [Tasks -> TaskSet]
    BY DEF IInv, TypeOK
  <1>15. PICK r : r = [task[c] EXCEPT !.nHard = n, !.nPred = z]
    OBVIOUS
  <1>16. r \in TaskSet /\ r.finished = task[c].finished /\ r.nPred = z /\ r.nHard = n /\ r.succ = task[c].succ
    BY <1>14, <1>15 DEF TaskSet
  <1>17. task' = [task EXCEPT ![c] = r]
    BY <1>1, <1>4, <1>5, <1>7, <1>8, <1>14, <1>15
  <1>18. /\ task' \in [Tasks -> TaskSet]
         /\ \A t \in Tasks : /\ task'[t].finished = task[t].finished /\ task'[t].succ = task[t].succ
                             /\ t # c => task'[t] = task[t]
         /\ task'[c].nHard = n /\ task'[c].nPred = z
    BY <1>14, <1>16, <1>17
  <1>19. TypeOK'
    BY <1>1, <1>13, <1>18 DEF IInv, TypeOK
  <1>20. MasterKept
    <2>1. ASSUME NEW t \in Tasks PROVE task'[t].nHard >= task[t].nHard
      <3>1. task[t].nHard \in Nat
        BY TaskTypes DEF IInv
      <3> QED
        BY <3>1, <1>5, <1>7, <1>18
    <2> QED
      BY <2>1, <1>1, <1>4, <1>13, <1>18 DEF MasterKept
  <1>21. Quiet
    BY DEF IInv
  <1>22. /\ team = {Master} => ~Loose(c) /\ begun[c] = 0
         /\ team # {Master} => a = 0 /\ \A u \in Tasks : MustPrecede(u, c) => Safe(u, c)
         /\ \A u \in Tasks : Before(u, o) => Safe(u, c)
         /\ ~Loose(c) /\ begun[c] = 0
    BY <1>1, <1>3, <1>4, <1>5, <1>21 DEF Quiet
  <1>23. ASSUME NEW t \in Tasks PROVE EdgesMade(t)
    <2>1. Pend(t)' \subseteq Pend(t)
      <3>1. \A p \in Tasks : Waits(p)' <=> Waits(p)
        BY <1>1 DEF Waits
      <3>2. \A p \in Tasks, s \in Seq(Tasks) : Listed(p, s)' => Listed(p, s)
        BY <3>1, <1>1, <1>18 DEF Listed
      <3> QED
        BY <3>2, EdgesSame
    <2>2. CASE t = c
      <3>1. Uncounted(t)' = 0
        BY <1>13 DEF Uncounted
      <3>2. ~Overtaken(t)' /\ Owed(t)' = z
        BY <3>1, <2>2, <1>18 DEF Overtaken, Owed
      <3>3. Owed(t) = z
        BY <2>2, <1>6, <1>8
      <3>4. EdgeStep(t)
        BY <3>2, <3>3, <2>1 DEF EdgeStep
      <3>5. z <= n /\ 3 * n < UintMod
        BY <1>6, <1>7, <1>8
      <3> QED
        BY <3>1, <3>2, <3>3, <3>4, <3>5, <2>2, <1>18 DEF EdgesMade
    <2>3. CASE t # c
      <3>1. Uncounted(t) = 0 /\ Uncounted(t)' = 0 /\ task'[t] = task[t]
        BY <2>3, <1>4, <1>13, <1>18 DEF Uncounted
      <3>2. ~Overtaken(t) /\ ~Overtaken(t)' /\ Owed(t)' = Owed(t)
        BY <3>1 DEF Overtaken, Owed
      <3>3. EdgeStep(t)
        BY <3>2, <2>1 DEF EdgeStep
      <3>4. task[t].nPred <= task[t].nHard /\ 3 * (task[t].nHard + Uncounted(t)) < UintMod
        BY <3>2 DEF IInv, Counts
      <3> QED
        BY <3>1, <3>2, <3>3, <3>4 DEF EdgesMade
    <2> QED
      BY <2>2, <2>3
  <1>24. call' = [PopOp EXCEPT !.n = call'.n]
    <2>1. call' = [PopOp EXCEPT !.n = Inc(PopOp.n)]
      BY <1>1
    <2>2. PopOp.n = a
      BY <1>4, <1>5 DEF PopOp, IInv, TypeOK, CallSet
    <2> QED
      BY <2>1, <2>2, <1>7, <1>13
  <1>25. /\ call'.n = task'[c].nHard
         /\ team = {Master} \/ task'[c].nHard = 0 => ~Loose(c) /\ begun[c] = 0
         /\ team # {Master} /\ task'[c].nHard > 0 => \A u \in Tasks : MustPrecede(u, c) => Safe(u, c)
         /\ \A u \in Tasks : Before(u, OpTask) => Safe(u, c)
    BY <1>3, <1>13, <1>18, <1>22
  <1> QED
    BY <1>1, <1>2, <1>4, <1>9, <1>13, <1>19, <1>20, <1>23, <1>24, <1>25, PopStep

-----------------------------------------------------------------------------
(* What kupl_dag_add_task does to the hash *)

\* the list dep_list_rm_dup leaves: one dependency for all, or none of that kind
ListIs(i) ==
    \A x \in Elems(DepListRmDup(prog[i].deps)) :
        /\ (AllAt(i) <=> IsAll(x)) /\ (AllAt(i) <=> x.type = "ALL")
        /\ AllAt(i) => x = [addr |-> AllAddr, type |-> "ALL"]
        /\ ~AllAt(i) => x \in Elems(prog[i].deps) /\ x.addr # AllAddr

\* The dependencies kupl_dag_add_task works on.
LEMMA DepList == ASSUME NEW i, prog[i].deps \in Seq(DepSet) PROVE ListIs(i)
  <1>1. AllAt(i) <=> \E k \in DOMAIN prog[i].deps : IsAll(prog[i].deps[k])
    BY DEF AllAt, Elems
  <1>2. CASE AllAt(i)
    <2>1. PICK y : y = [addr |-> AllAddr, type |-> "ALL"]
      OBVIOUS
    <2>2. DepListRmDup(prog[i].deps) = <<y>>
      BY <1>1, <1>2, <2>1 DEF DepListRmDup
    <2>3. \A x : x \in Elems(<<y>>) <=> x = y
      BY DEF Elems
    <2>4. IsAll(y) /\ y.type = "ALL"
      BY <2>1 DEF IsAll
    <2> QED
      BY <1>2, <2>1, <2>2, <2>3, <2>4 DEF ListIs
  <1>3. CASE ~AllAt(i)
    <2>1. DepListRmDup(prog[i].deps) = prog[i].deps
      BY <1>1, <1>3 DEF DepListRmDup
    <2>2. \A x \in Elems(prog[i].deps) : ~IsAll(x)
      BY <1>3 DEF AllAt
    <2> QED
      BY <1>3, <2>1, <2>2 DEF IsAll, ListIs
  <1> QED
    BY <1>2, <1>3

\* A submission that reads or writes an address follows the earlier ones that
\* write it, and one that writes it follows those that read it.
LEMMA AddrOrder ==
    ASSUME Disciplined, NEW i, NEW j, i < j, NEW u, NEW t, AddAt(i, u), AddAt(j, t), NEW a
    PROVE  /\ Writes(i, a) /\ (\E x \in Elems(prog[j].deps) : x.addr = a) => MustPrecede(u, t)
           /\ Writes(j, a) /\ (AllAt(i) \/ \E x \in Elems(prog[i].deps) : x.addr = a) => MustPrecede(u, t)
  <1>1. Conflict(prog[i].deps, prog[j].deps) => MustPrecede(u, t)
    BY Precedence
  <1>2. \A x : x \in Elems(prog[j].deps) => prog[j].deps # <<>>
    BY DEF Elems
  <1>3. ASSUME Writes(i, a), NEW x \in Elems(prog[j].deps), x.addr = a
        PROVE  Conflict(prog[i].deps, prog[j].deps)
    <2>1. CASE AllAt(i)
      BY <2>1, <1>2, <1>3, Conflicts
    <2>2. CASE ~AllAt(i)
      <3>1. PICK y \in Elems(prog[i].deps) : y.addr = a /\ y.type # "IN"
        BY <2>2, <1>3 DEF Writes
      <3>2. y.addr = x.addr /\ {y.type, x.type} # {"IN"}
        BY <3>1, <1>3
      <3> QED
        BY <3>2, Conflicts
    <2> QED
      BY <2>1, <2>2
  <1>4. ASSUME Writes(j, a), AllAt(i) \/ \E x \in Elems(prog[i].deps) : x.addr = a
        PROVE  Conflict(prog[i].deps, prog[j].deps)
    <2>1. CASE AllAt(j)
      BY <2>1, Conflicts
    <2>2. CASE ~AllAt(j)
      <3>1. PICK y \in Elems(prog[j].deps) : y.addr = a /\ y.type # "IN"
        BY <2>2, <1>4 DEF Writes
      <3>2. CASE AllAt(i)
        BY <3>1, <3>2, <1>2, Conflicts
      <3>3. CASE ~AllAt(i)
        <4>1. PICK x \in Elems(prog[i].deps) : x.addr = a
          BY <3>3, <1>4
        <4>2. x.addr = y.addr /\ {x.type, y.type} # {"IN"}
          BY <3>1, <4>1
        <4> QED
          BY <4>2, Conflicts
      <3> QED
        BY <3>2, <3>3
    <2> QED
      BY <2>1, <2>2
  <1> QED
    BY <1>1, <1>3, <1>4

\* ops is about the tasks of the entry and the new writer, node, which follows the
\* readers, or the last writer when there are none
DepOutAsks(ent, node, ops) ==
    /\ \A o \in Elems(ops) :
          /\ o.of \in Elems(ent.in) \/ (o.of = ent.out /\ ent.out # None) \/ (o.of = node /\ node # None)
          /\ node = None => o.do = "deref"
    /\ node # None /\ ent.in = <<>> /\ ent.out # None =>
          \E o \in Elems(ops) : o.do = "precede" /\ o.of = ent.out
    /\ node # None => \A r \in Elems(ent.in) :
                         ent.in # <<>> => \E o \in Elems(ops) : o.do = "precede" /\ o.of = r

\* The operations of node_process_dep_out.
LEMMA DepOutOpsAre ==
    ASSUME NEW ent \in EntrySet, NEW node \in Tasks \cup {None}, NEW ops, ops = DepOutOps(ent, node)
    PROVE  /\ ops \in Seq(OpSet)
           /\ DepOutAsks(ent, node, ops)
  <1> DEFINE s == ent.in
             a == IF node = None THEN [i \in DOMAIN s |-> Op("deref", s[i])]
                  ELSE IF s = <<>> THEN OpOn("precede", ent.out)
                  ELSE [i \in 1 .. 2 * Len(s) |-> IF i % 2 = 1 THEN Op("precede", s[(i + 1) \div 2])
                                                  ELSE Op("deref", s[i \div 2])]
             b == OpOn("deref", ent.out)
             c == OpOn("ref", node)
             Of(o) == o.of \in Elems(s) \/ (o.of = ent.out /\ ent.out # None) \/ (o.of = node /\ node # None)
  <1>1. s \in Seq(Tasks) /\ ent.out \in Tasks \cup {None}
    BY DEF EntrySet
  <1>2. ops = (a \o b) \o c
    BY DEF DepOutOps
  <1>3. b \in Seq(OpSet) /\ \A o \in Elems(b) : Of(o) /\ o.do = "deref"
    <2>1. CASE ent.out = None
      BY <2>1 DEF OpOn, Elems
    <2>2. CASE ent.out # None
      BY <2>2, <1>1 DEF OpOn, Op, OpSet, Elems
    <2> QED
      BY <2>1, <2>2
  <1>4. c \in Seq(OpSet) /\ (\A o \in Elems(c) : Of(o)) /\ (node = None => c = <<>>)
    <2>1. CASE node = None
      BY <2>1 DEF OpOn, Elems
    <2>2. CASE node # None
      BY <2>2 DEF OpOn, Op, OpSet, Elems
    <2> QED
      BY <2>1, <2>2
  <1>5. /\ a \in Seq(OpSet) /\ \A o \in Elems(a) : Of(o) /\ (node = None => o.do = "deref")
        /\ node # None /\ s = <<>> /\ ent.out # None => \E o \in Elems(a) : o.do = "precede" /\ o.of = ent.out
        /\ node # None => \A r \in Elems(s) : s # <<>> => \E o \in Elems(a) : o.do = "precede" /\ o.of = r
    <2>1. CASE node = None
      <3>1. a = [i \in DOMAIN s |-> Op("deref", s[i])]
        BY <2>1
      <3>2. /\ DOMAIN s = 1 .. Len(s) /\ Len(s) \in Nat
            /\ \A i \in DOMAIN s : Op("deref", s[i]) \in OpSet /\ Op("deref", s[i]).of = s[i] /\ Op("deref", s[i]).do = "deref"
        BY <1>1 DEF Op, OpSet
      <3>3. a \in Seq(OpSet)
        BY <3>1, <3>2
      <3>4. \A o \in Elems(a) : \E i \in DOMAIN s : o = Op("deref", s[i])
        BY <3>1 DEF Elems
      <3> QED
        BY <2>1, <3>2, <3>3, <3>4 DEF Elems
    <2>2. CASE node # None /\ s = <<>>
      <3>1. a = OpOn("precede", ent.out)
        BY <2>2
      <3>2. CASE ent.out = None
        BY <2>2, <3>1, <3>2 DEF OpOn, Elems
      <3>3. CASE ent.out # None
        BY <2>2, <3>1, <3>3, <1>1 DEF OpOn, Op, OpSet, Elems
      <3> QED
        BY <3>2, <3>3
    <2>3. CASE node # None /\ s # <<>>
      <3>1. a = [i \in 1 .. 2 * Len(s) |-> IF i % 2 = 1 THEN Op("precede", s[(i + 1) \div 2])
                                           ELSE Op("deref", s[i \div 2])]
        BY <2>3
      <3>2. DOMAIN s = 1 .. Len(s) /\ Len(s) \in Nat
        BY <1>1
      <3>3. \A i \in 1 .. 2 * Len(s) : IF i % 2 = 1 THEN (i + 1) \div 2 \in 1 .. Len(s) ELSE i \div 2 \in 1 .. Len(s)
        BY <3>2
      <3>4. \A i \in 1 .. 2 * Len(s) : a[i] \in OpSet /\ \E k \in DOMAIN s : a[i] = Op("precede", s[k]) \/ a[i] = Op("deref", s[k])
        <4> HIDE DEF s
        <4> QED
          BY <3>1, <3>2, <3>3, <1>1 DEF Op, OpSet
      <3>5. \A k \in DOMAIN s : 2 * k - 1 \in 1 .. 2 * Len(s) /\ (2 * k - 1) % 2 = 1 /\ ((2 * k - 1) + 1) \div 2 = k
        BY <3>2
      <3>6. \A k \in DOMAIN s : 2 * k - 1 \in 1 .. 2 * Len(s) /\ a[2 * k - 1] = Op("precede", s[k])
        BY <3>1, <3>5
      <3> HIDE DEF a
      <3>7. a \in Seq(OpSet) /\ DOMAIN a = 1 .. 2 * Len(s)
        <4>1. PICK n \in Nat : n = 2 * Len(s)
          BY <3>2
        <4>2. DOMAIN a = 1 .. n /\ a = [i \in 1 .. n |-> a[i]]
          BY <3>1, <4>1
        <4>3. a \in [1 .. n -> OpSet]
          BY <4>1, <4>2, <3>4
        <4>4. a \in Seq(OpSet)
          BY <4>3
        <4> QED
          BY <4>1, <4>2, <4>4
      <3>8. \A o \in Elems(a) : Of(o)
        <4>1. \A x : Op("precede", x).of = x /\ Op("deref", x).of = x
          BY DEF Op
        <4> QED
          BY <4>1, <3>4, <3>7 DEF Elems
      <3>9. \A r \in Elems(s) : \E o \in Elems(a) : o.do = "precede" /\ o.of = r
        <4>1. \A x : Op("precede", x).of = x /\ Op("precede", x).do = "precede"
          BY DEF Op
        <4> QED
          BY <4>1, <3>6, <3>7 DEF Elems
      <3> QED
        BY <2>3, <3>7, <3>8, <3>9
    <2> QED
      BY <2>1, <2>2, <2>3
  <1> HIDE DEF a, b, c
  <1>6. PICK ab \in Seq(OpSet) : ab = a \o b /\ \A o : o \in Elems(ab) <=> o \in Elems(a) \/ o \in Elems(b)
    <2>1. a \in Seq(OpSet) /\ b \in Seq(OpSet)
      BY <1>3, <1>5
    <2>2. a \o b \in Seq(OpSet) /\ \A o : o \in Elems(a \o b) <=> o \in Elems(a) \/ o \in Elems(b)
      BY <2>1, MembersJoined
    <2> QED
      BY <2>2
  <1>7. ops \in Seq(OpSet) /\ \A o : o \in Elems(ops) <=> o \in Elems(ab) \/ o \in Elems(c)
    <2>1. c \in Seq(OpSet)
      BY <1>4
    <2>2. ab \o c \in Seq(OpSet) /\ \A o : o \in Elems(ab \o c) <=> o \in Elems(ab) \/ o \in Elems(c)
      BY <2>1, MembersJoined
    <2>3. ops = ab \o c
      BY <1>2, <1>6
    <2> QED
      BY <2>2, <2>3
  <1>8. node = None => \A o : o \notin Elems(c)
    BY <1>4 DEF Elems
  <1> QED
    BY <1>3, <1>4, <1>5, <1>6, <1>7, <1>8 DEF DepOutAsks

\* Master works on the hash: tasks and frames are kept.
LEMMA HashStep ==
    ASSUME IInv, call.pc = "deps", call'.pc = "deps", call' \in CallSet, call'.task = call.task,
           task' = task, prog' = prog, team' = team, ip' = ip, queue' = queue, stack' = stack,
           begun' = begun, ended' = ended,
           DOMAIN entry' \subseteq Addrs \cup {AllAddr}, entry' \in [DOMAIN entry' -> EntrySet]
    PROVE  /\ \A t, u \in Tasks : Safe(u, t) => Safe(u, t)'
           /\ CallShape' /\ HashHolds' /\ HashLeads' /\ Submitting' => IInv'
  <1>1. TypeOK'
    BY DEF IInv, TypeOK
  <1>2. MasterKept
    <2>1. \A t \in Tasks : task[t].nHard \in Nat
      BY TaskTypes DEF IInv
    <2> QED
      BY <2>1 DEF MasterKept
  <1>3. \A t \in Tasks : EdgesMade(t)
    BY <1>2, NoEdge
  <1>4. /\ Disciplined' /\ FrameShape' /\ OnePlace(stack)' /\ Runs' /\ Counts' /\ Ready' /\ Fresh' /\ OrderKept'
        /\ \A t, u \in Tasks : Safe(u, t) => Safe(u, t)'
    BY <1>1, <1>2, <1>3, MasterStep
  <1>5. PICK c : c = call.task
    OBVIOUS
  <1>6. /\ \A u, t : MustPrecede(u, t) <=> MustPrecede(u, t)'
        /\ \A t : Loose(t) <=> Loose(t)'
        /\ Building <=> Building'
    BY SubmissionSame
  <1>7. Quiet'
    <2> SUFFICES ASSUME Building PROVE Quiet'
      BY <1>6 DEF Quiet
    <2>1. c \in Tasks
      BY <1>5, Submitted
    <2>2. Quiet
      BY DEF IInv
    <2>3. /\ team = {Master} \/ task'[c].nHard = 0 => ~Loose(c)' /\ begun'[c] = 0
          /\ team # {Master} /\ task'[c].nHard > 0 => \A u \in Tasks : MustPrecede(u, c)' => Safe(u, c)'
      BY <2>1, <2>2, <1>4, <1>5, <1>6 DEF Quiet
    <2> QED
      BY <2>3, <1>5 DEF Quiet
  <1> QED
    BY <1>1, <1>4, <1>7 DEF IInv

\* node_process_dep_out, and kupl_addr_entry_destroy, on one entry.
LEMMA NodeProcessDepOutStep == ASSUME IInv, NEW a, NodeProcessDepOut(a) PROVE IInv'
  <1>1. PICK c, ops : c = call.task /\ ops = DepOutOps(entry[a], call.task)
    OBVIOUS
  <1>2. /\ call.pc = "deps" /\ call.ops = <<>> /\ a \in call.addrs
        /\ entry' = [entry EXCEPT ![a] = [out |-> c, in |-> <<>>]]
        /\ call' = [call EXCEPT !.addrs = @ \ {a}, !.ops = ops]
        /\ task' = task /\ prog' = prog /\ team' = team /\ ip' = ip /\ queue' = queue /\ stack' = stack
        /\ begun' = begun /\ ended' = ended
    BY <1>1 DEF NodeProcessDepOut, InDag, program, schedVars, history
  <1>3. call \in CallSet /\ c \in Tasks \cup {None} /\ DOMAIN entry \subseteq Addrs \cup {AllAddr}
        /\ entry \in [DOMAIN entry -> EntrySet] /\ None \notin Tasks
    BY <1>1, TasksAssumption DEF IInv, TypeOK, CallSet
  <1>4. a \in DOMAIN entry /\ call.addrs \subseteq DOMAIN entry
    BY <1>2 DEF IInv, CallShape
  <1>5. PICK ent \in EntrySet : ent = entry[a]
    BY <1>3, <1>4
  <1>6. /\ ops \in Seq(OpSet)
        /\ \A o \in Elems(ops) :
              /\ o.of \in Elems(ent.in) \/ (o.of = ent.out /\ ent.out # None) \/ (o.of = c /\ c # None)
              /\ c = None => o.do = "deref"
        /\ c # None /\ ent.in = <<>> /\ ent.out # None =>
              \E o \in Elems(ops) : o.do = "precede" /\ o.of = ent.out
        /\ c # None => \A r \in Elems(ent.in) :
                          ent.in # <<>> => \E o \in Elems(ops) : o.do = "precede" /\ o.of = r
    <2>1. ops = DepOutOps(ent, c) /\ c \in Tasks \cup {None}
      BY <1>1, <1>3, <1>5
    <2>2. ops \in Seq(OpSet) /\ DepOutAsks(ent, c, ops)
      BY <2>1, DepOutOpsAre
    <2> QED
      BY <2>2 DEF DepOutAsks
  <1>7. PICK ad : ad = call.addrs \ {a}
    OBVIOUS
  <1>8. PICK k : k = [call EXCEPT !.addrs = ad, !.ops = ops]
    OBVIOUS
  <1>9. /\ k \in CallSet /\ k.pc = call.pc /\ k.task = c /\ k.deps = call.deps /\ k.n = call.n
        /\ k.addrs = ad /\ k.ops = ops
    BY <1>1, <1>3, <1>6, <1>7, <1>8 DEF CallSet
  <1>10. /\ call' \in CallSet /\ call'.pc = "deps" /\ call'.task = c /\ call'.deps = call.deps /\ call'.n = call.n
         /\ call'.addrs = call.addrs \ {a} /\ call'.ops = ops
    BY <1>2, <1>7, <1>8, <1>9
  <1>11. PICK new : new = [out |-> c, in |-> <<>>]
    OBVIOUS
  <1>12. new \in EntrySet /\ new.out = c /\ new.in = <<>> /\ Elems(new.in) = {}
    BY <1>3, <1>11 DEF EntrySet, Elems
  <1>13. /\ DOMAIN entry' = DOMAIN entry /\ entry' \in [DOMAIN entry' -> EntrySet] /\ entry'[a] = new
         /\ \A b \in DOMAIN entry : b # a => entry'[b] = entry[b]
    BY <1>2, <1>3, <1>4, <1>11, <1>12
  <1>14. /\ \A t, u \in Tasks : Safe(u, t) => Safe(u, t)'
         /\ CallShape' /\ HashHolds' /\ HashLeads' /\ Submitting' => IInv'
    BY <1>1, <1>2, <1>3, <1>10, <1>13, HashStep
  <1>15. /\ \A i : (Adds(i) <=> Adds(i)') /\ (AllAt(i) <=> AllAt(i)') /\ (Made(i) <=> Made(i)')
         /\ \A i, t : AddAt(i, t) <=> AddAt(i, t)'
         /\ \A i, x : Writes(i, x) <=> Writes(i, x)'
         /\ \A u, t : MustPrecede(u, t) <=> MustPrecede(u, t)'
         /\ \A u, p : Before(u, p) <=> Before(u, p)'
         /\ \A t : Known(t) <=> Known(t)'
         /\ Building <=> Building'
    BY <1>2, <1>10, SubmissionSame
  <1>16. /\ ip \in DOMAIN prog /\ ip \in Nat /\ prog[ip].op \in {"add_task", "destroy"}
         /\ Building <=> prog[ip].op = "add_task"
         /\ Building => c \in Tasks /\ c = prog[ip].task /\ AddAt(ip, c) /\ Made(ip) /\ Known(c)
                        /\ Writes(ip, a)
         /\ ~Building => c = None /\ call.deps = <<>>
    <2>1. CallShape
      BY DEF IInv
    <2> QED
      BY <2>1, <1>1, <1>2, Submitted DEF CallShape
  <1>17. /\ HoldsIn(entry) /\ (Building => LeadsIn(entry)) /\ Disciplined
    BY <1>16 DEF IInv, HashHolds, HashLeads
  <1>18. \A r \in Elems(ent.in) : Known(r)
    BY <1>4, <1>5, <1>17 DEF HoldsIn
  <1>19. ent.out # None => Known(ent.out)
    BY <1>4, <1>5, <1>17 DEF HoldsIn, Known
  <1>20. CallShape'
    <2>1. CallShape
      BY DEF IInv
    <2>2. \A o \in Elems(ops) : Known(o.of)'
      BY <1>6, <1>15, <1>16, <1>18, <1>19
    <2>3. prog[ip].op # "add_task" => \A o \in Elems(ops) : o.do = "deref"
      BY <1>6, <1>16
    <2> QED
      BY <2>1, <2>2, <2>3, <1>1, <1>2, <1>10, <1>13, <1>15 DEF CallShape
  <1>21. HashHolds'
    BY <1>2, <1>12, <1>13, <1>15, <1>16, <1>17 DEF HashHolds, HoldsIn
  <1>22. ASSUME Building, NEW i, NEW u, i < ip, AddAt(i, u), AllAt(i) \/ \E x \in Elems(prog[i].deps) : x.addr = a
         PROVE  OutBehind(u, entry'[a])
    <2>1. MustPrecede(u, c)
      BY <1>16, <1>17, <1>22, AddrOrder
    <2>2. c # None
      BY <1>3, <1>16, <1>22
    <2> QED
      BY <2>1, <2>2, <1>12, <1>13 DEF OutBehind
  <1>23. ASSUME Building, NEW i \in DOMAIN prog, Adds(i), i < ip, ended[prog[i].task] = 0 PROVE LedTo(entry', i)
    <2>1. LedTo(entry, i) /\ AddAt(i, prog[i].task)
      BY <1>17, <1>23 DEF LeadsIn, AddAt
    <2>2. CASE AllAt(i)
      <3>1. AllAddr \in DOMAIN entry /\ \A b \in DOMAIN entry : OutBehind(prog[i].task, entry[b])
        BY <2>1, <2>2 DEF LedTo
      <3>2. OutBehind(prog[i].task, entry'[a])
        BY <2>1, <2>2, <1>22, <1>23
      <3> QED
        BY <2>2, <3>1, <3>2, <1>13 DEF LedTo
    <2>3. CASE ~AllAt(i)
      <3>1. ASSUME NEW x \in Elems(prog[i].deps)
            PROVE  /\ x.addr \in DOMAIN entry'
                   /\ \/ OutBehind(prog[i].task, entry'[x.addr])
                      \/ x.type = "IN" /\ prog[i].task \in Elems(entry'[x.addr].in)
        <4>1. /\ x.addr \in DOMAIN entry
              /\ \/ OutBehind(prog[i].task, entry[x.addr])
                 \/ x.type = "IN" /\ prog[i].task \in Elems(entry[x.addr].in)
          BY <2>1, <2>3 DEF LedTo
        <4>2. CASE x.addr = a
          BY <4>1, <4>2, <2>1, <1>13, <1>22, <1>23
        <4>3. CASE x.addr # a
          BY <4>1, <4>3, <1>13
        <4> QED
          BY <4>2, <4>3
      <3> QED
        BY <2>3, <3>1 DEF LedTo
    <2> QED
      BY <2>2, <2>3
  <1>24. HashLeads'
    <2>1. ASSUME NEW i, Building, LedTo(entry', i) PROVE LedTo(entry, i)'
      BY <2>1, <1>2, <1>15 DEF LedTo, OutBehind
    <2>2. ASSUME Building, NEW i \in DOMAIN prog, Adds(i), i < ip, ended[prog[i].task] = 0 PROVE LedTo(entry, i)'
      BY <2>1, <2>2, <1>23
    <2>3. Building => LeadsIn(entry)'
      BY <2>2, <1>2, <1>15 DEF LeadsIn
    <2> QED
      BY <2>3, <1>2, <1>16 DEF HashLeads
  <1>25. Submitting'
    <2> SUFFICES ASSUME Building PROVE Submitting'
      BY <1>15 DEF Submitting
    <2>1. Submitting
      BY DEF IInv
    <2>2. \A x : Entered(x) => Entered(x)'
      BY <1>1, <1>2, <1>10, <1>12, <1>13, <1>15 DEF Entered
    <2>3. \A x \in Elems(DepListRmDup(prog'[ip'].deps)) : x \in Elems(call'.deps) \/ Entered(x)'
      BY <2>1, <2>2, <1>2, <1>10 DEF Submitting
    <2>4. ASSUME NEW u \in Tasks, MustPrecede(u, c)
          PROVE  \/ Safe(u, c)'
                 \/ \E o \in Elems(call'.ops) : o.do = "precede" /\ Before(u, o.of)'
                 \/ \E b \in call'.addrs : Yields(u, entry[b])'
                 \/ \E d \in Elems(call'.deps) : Asks(u, d)'
      <3>1. \/ Safe(u, c)
            \/ \E b \in call.addrs : Yields(u, entry[b])
            \/ \E d \in Elems(call.deps) : Asks(u, d)
        BY <2>1, <2>4, <1>1, <1>2 DEF Submitting, Elems
      <3>2. CASE \E b \in call.addrs : b # a /\ Yields(u, entry[b])
        <4>1. PICK b \in call.addrs : b # a /\ Yields(u, entry[b])
          BY <3>2
        <4>2. b \in call'.addrs /\ entry'[b] = entry[b]
          BY <4>1, <1>4, <1>10, <1>13
        <4>3. Yields(u, entry[b])'
          BY <4>1, <4>2, <1>15 DEF Yields
        <4> QED
          BY <4>2, <4>3
      <3>3. CASE Yields(u, ent)
        <4>1. PICK r : Before(u, r) /\ \E o \in Elems(ops) : o.do = "precede" /\ o.of = r
          <5>1. c # None
            BY <1>3, <1>16
          <5>2. CASE ent.in = <<>>
            BY <3>3, <5>1, <5>2, <1>6 DEF Yields
          <5>3. CASE ent.in # <<>>
            BY <3>3, <5>1, <5>3, <1>6 DEF Yields
          <5> QED
            BY <5>2, <5>3
        <4> QED
          BY <4>1, <1>10, <1>15
      <3>4. CASE Safe(u, c)
        BY <3>4, <1>14, <1>16
      <3>5. CASE \E d \in Elems(call.deps) : Asks(u, d)
        BY <3>5, <1>2, <1>10, <1>15 DEF Asks
      <3> QED
        BY <3>1, <3>2, <3>3, <3>4, <3>5, <1>5
    <2> QED
      BY <2>3, <2>4, <1>2, <1>10, <1>15 DEF Submitting
  <1> QED
    BY <1>14, <1>20, <1>21, <1>24, <1>25

\* The last ALL task, as the lookup of a new address finds it.
LastAll(a) == IF a # AllAddr /\ AllAddr \in DOMAIN entry THEN entry[AllAddr].out ELSE None

\* h is the hash after the lookup of a new address: its writer is the last ALL
\* task, or nobody when that task is finished, and then it is dropped
Looked(h, a, w) ==
    /\ h[a].in = <<>> /\ h[a].out = IF w = None \/ task[w].finished THEN None ELSE w
    /\ \A b \in DOMAIN entry :
          \/ h[b] = entry[b]
          \/ b = AllAddr /\ w # None /\ task[w].finished /\ h[b].in = entry[b].in /\ h[b].out = None

LookupGives(a, h, ops, w) ==
    /\ DOMAIN h = DOMAIN entry \cup {a} /\ h \in [DOMAIN h -> EntrySet] /\ ops \in Seq(OpSet)
    /\ \A o \in Elems(ops) : o.do # "precede" /\ o.of = w /\ w # None /\ a \notin DOMAIN entry
    /\ IF a \in DOMAIN entry THEN h = entry ELSE Looked(h, a, w)

\* kupl_node_process_dep, the lookup.
LEMMA LookupIs ==
    ASSUME TypeOK, NEW a \in Addrs \cup {AllAddr}, NEW h, h = Lookup(a).hash, NEW ops, ops = Lookup(a).ops,
           NEW w, w = LastAll(a)
    PROVE  /\ LookupGives(a, h, ops, w)
           /\ w \in Tasks \cup {None}
           /\ w # None => AllAddr \in DOMAIN entry /\ a # AllAddr /\ w = entry[AllAddr].out
  <1>1. entry \in [DOMAIN entry -> EntrySet] /\ None \notin Tasks
    BY TasksAssumption DEF TypeOK
  <1>2. /\ w \in Tasks \cup {None}
        /\ w # None => AllAddr \in DOMAIN entry /\ a # AllAddr /\ w = entry[AllAddr].out
    BY <1>1 DEF LastAll, EntrySet
  <1>3. \A o : o \notin Elems(<<>>)
    BY DEF Elems
  <1>4. ASSUME NEW g, g \in [DOMAIN g -> EntrySet], DOMAIN g = DOMAIN entry, NEW ent \in EntrySet, a \notin DOMAIN entry,
               h = HashInsert(g, a, ent)
        PROVE  /\ DOMAIN h = DOMAIN entry \cup {a} /\ h \in [DOMAIN h -> EntrySet]
               /\ h[a] = ent /\ \A b \in DOMAIN entry : h[b] = g[b]
    BY <1>4 DEF HashInsert
  <1>5. CASE a \in DOMAIN entry
    <2>1. h = entry /\ ops = <<>>
      BY <1>5 DEF Lookup
    <2>2. DOMAIN h = DOMAIN entry \cup {a} /\ h \in [DOMAIN h -> EntrySet]
      BY <2>1, <1>1, <1>5
    <2>3. ops \in Seq(OpSet) /\ \A o : o \notin Elems(ops)
      BY <2>1, <1>3
    <2> QED
      BY <2>1, <2>2, <2>3, <1>5, <1>2 DEF LookupGives
  <1>6. CASE a \notin DOMAIN entry /\ w = None
    <2>1. PICK ent : ent = EmptyEntry
      OBVIOUS
    <2>2. ent \in EntrySet /\ ent.out = None /\ ent.in = <<>>
      BY <2>1 DEF EmptyEntry, EntrySet
    <2>3. h = HashInsert(entry, a, ent) /\ ops = <<>>
      BY <1>6, <2>1 DEF Lookup, LastAll
    <2>4. /\ DOMAIN h = DOMAIN entry \cup {a} /\ h \in [DOMAIN h -> EntrySet]
          /\ h[a] = ent /\ \A b \in DOMAIN entry : h[b] = entry[b]
      BY <2>2, <2>3, <1>1, <1>4, <1>6
    <2>5. ops \in Seq(OpSet) /\ \A o : o \notin Elems(ops)
      BY <2>3, <1>3
    <2>6. Looked(h, a, w)
      BY <2>2, <2>4, <1>6 DEF Looked
    <2> QED
      BY <2>4, <2>5, <2>6, <1>6, <1>2 DEF LookupGives
  <1>7. CASE a \notin DOMAIN entry /\ w # None /\ task[w].finished
    <2>1. PICK ent : ent = EmptyEntry
      OBVIOUS
    <2>2. ent \in EntrySet /\ ent.out = None /\ ent.in = <<>>
      BY <2>1 DEF EmptyEntry, EntrySet
    <2>3. PICK old : old = entry[AllAddr]
      OBVIOUS
    <2>4. PICK new : new = [old EXCEPT !.out = None]
      OBVIOUS
    <2>5. new \in EntrySet /\ new.out = None /\ new.in = old.in
      BY <2>3, <2>4, <1>1, <1>2, <1>7 DEF EntrySet
    <2>6. PICK g : g = [entry EXCEPT ![AllAddr] = new]
      OBVIOUS
    <2>7. /\ g \in [DOMAIN g -> EntrySet] /\ DOMAIN g = DOMAIN entry /\ g[AllAddr] = new
          /\ \A b \in DOMAIN entry : b # AllAddr => g[b] = entry[b]
      BY <2>5, <2>6, <1>1, <1>2, <1>7
    <2>8. h = HashInsert(g, a, ent) /\ ops = <<Op("deref", w)>>
      BY <1>7, <2>1, <2>3, <2>4, <2>6 DEF Lookup, LastAll
    <2>9. ops \in Seq(OpSet) /\ \A o \in Elems(ops) : o.do # "precede" /\ o.of = w
      BY <2>8, <1>2, <1>7 DEF Op, OpSet, Elems
    <2>10. /\ DOMAIN h = DOMAIN entry \cup {a} /\ h \in [DOMAIN h -> EntrySet]
           /\ h[a] = ent /\ \A b \in DOMAIN entry : h[b] = g[b]
      BY <2>2, <2>7, <2>8, <1>4, <1>7
    <2>11. Looked(h, a, w)
      BY <2>2, <2>3, <2>5, <2>7, <2>10, <1>7 DEF Looked
    <2> QED
      BY <2>9, <2>10, <2>11, <1>7, <1>2 DEF LookupGives
  <1>8. CASE a \notin DOMAIN entry /\ w # None /\ ~task[w].finished
    <2>1. PICK ent : ent = [out |-> w, in |-> <<>>]
      OBVIOUS
    <2>2. ent \in EntrySet /\ ent.out = w /\ ent.in = <<>>
      BY <2>1, <1>2 DEF EntrySet
    <2>3. h = HashInsert(entry, a, ent) /\ ops = <<Op("ref", w)>>
      BY <1>8, <2>1 DEF Lookup, LastAll
    <2>4. ops \in Seq(OpSet) /\ \A o \in Elems(ops) : o.do # "precede" /\ o.of = w
      BY <2>3, <1>2, <1>8 DEF Op, OpSet, Elems
    <2>5. /\ DOMAIN h = DOMAIN entry \cup {a} /\ h \in [DOMAIN h -> EntrySet]
          /\ h[a] = ent /\ \A b \in DOMAIN entry : h[b] = entry[b]
      BY <2>2, <2>3, <1>1, <1>4, <1>8
    <2>6. Looked(h, a, w)
      BY <2>2, <2>5, <1>8 DEF Looked
    <2> QED
      BY <2>4, <2>5, <2>6, <1>8, <1>2 DEF LookupGives
  <1> QED
    BY <1>2, <1>5, <1>6, <1>7, <1>8

\* The lookup keeps the hash leading where it led: a writer it drops is finished,
\* and so is everything before it.
LEMMA LookupKeeps ==
    ASSUME IInv, HoldsIn(entry), LeadsIn(entry), NEW a \in Addrs \cup {AllAddr},
           NEW h, h = Lookup(a).hash, NEW ops, ops = Lookup(a).ops
    PROVE  /\ DOMAIN h = DOMAIN entry \cup {a} /\ h \in [DOMAIN h -> EntrySet] /\ ops \in Seq(OpSet)
           /\ \A o \in Elems(ops) : o.do # "precede" /\ Known(o.of)
           /\ HoldsIn(h) /\ LeadsIn(h)
           /\ \A b \in DOMAIN entry : b # AllAddr => h[b] = entry[b]
  <1>1. PICK w : w = LastAll(a)
    OBVIOUS
  <1>2. /\ DOMAIN h = DOMAIN entry \cup {a} /\ h \in [DOMAIN h -> EntrySet] /\ ops \in Seq(OpSet)
        /\ \A o \in Elems(ops) : o.do # "precede" /\ o.of = w /\ w # None /\ a \notin DOMAIN entry
        /\ IF a \in DOMAIN entry THEN h = entry ELSE Looked(h, a, w)
        /\ w \in Tasks \cup {None}
        /\ w # None => AllAddr \in DOMAIN entry /\ a # AllAddr /\ w = entry[AllAddr].out
    <2>1. LookupGives(a, h, ops, w)
      BY <1>1, LookupIs DEF IInv
    <2>2. /\ w \in Tasks \cup {None}
          /\ w # None => AllAddr \in DOMAIN entry /\ a # AllAddr /\ w = entry[AllAddr].out
      BY <1>1, LookupIs DEF IInv
    <2> QED
      BY <2>1, <2>2 DEF LookupGives
  <1>3. w # None => w \in Tasks /\ Known(w) /\ \E i \in DOMAIN prog : Made(i) /\ prog[i].task = w /\ Writes(i, AllAddr)
    BY <1>2 DEF HoldsIn, Known
  <1>4. ASSUME NEW i, Adds(i), Writes(i, AllAddr) PROVE AllAt(i)
    BY <1>4 DEF Writes, AllAt, IsAll
  <1>5. CASE a \in DOMAIN entry
    BY <1>2, <1>3, <1>5
  <1>6. CASE a \notin DOMAIN entry
    <2>1. Looked(h, a, w)
      BY <1>2, <1>6
    <2>2. \A x : x \notin Elems(<<>>)
      BY DEF Elems
    <2>3. HoldsIn(h)
      <3>1. ASSUME NEW b \in DOMAIN h, h[b].out # None
            PROVE  \E i \in DOMAIN prog : Made(i) /\ prog[i].task = h[b].out /\ Writes(i, b)
        <4>1. CASE b = a
          <5>1. h[b].out = w /\ w # None
            BY <2>1, <3>1, <4>1 DEF Looked
          <5>2. PICK i \in DOMAIN prog : Made(i) /\ prog[i].task = w /\ Writes(i, AllAddr)
            BY <5>1, <1>3
          <5>3. AllAt(i)
            BY <5>2, <1>4 DEF Made
          <5> QED
            BY <5>1, <5>2, <5>3 DEF Writes
        <4>2. CASE b # a
          <5>1. b \in DOMAIN entry /\ h[b].out = entry[b].out
            BY <2>1, <3>1, <4>2, <1>2 DEF Looked
          <5> QED
            BY <5>1, <3>1 DEF HoldsIn
        <4> QED
          BY <4>1, <4>2
      <3>2. ASSUME NEW b \in DOMAIN h, NEW r \in Elems(h[b].in)
            PROVE  Known(r) /\ (h[b].out # None => h[b].out = r \/ MustPrecede(h[b].out, r))
        <4>1. b # a
          BY <2>1, <2>2, <3>2 DEF Looked
        <4>2. b \in DOMAIN entry /\ h[b].in = entry[b].in /\ (h[b].out = None \/ h[b].out = entry[b].out)
          BY <2>1, <4>1, <1>2 DEF Looked
        <4> QED
          BY <4>2, <3>2 DEF HoldsIn
      <3> QED
        BY <3>1, <3>2 DEF HoldsIn
    <2>4. ASSUME NEW i \in DOMAIN prog, Adds(i), i < ip, ended[prog[i].task] = 0 PROVE LedTo(h, i)
      <3>1. PICK u \in Tasks : u = prog[i].task /\ ended[u] = 0
        BY <2>4, Submissions DEF IInv
      <3>2. LedTo(entry, i)
        BY <2>4 DEF LeadsIn
      <3>3. ASSUME w # None, OutBehind(u, entry[AllAddr]) PROVE ~task[w].finished
        <4>1. SUFFICES ASSUME task[w].finished PROVE FALSE
          OBVIOUS
        <4>2. w \in Tasks /\ Before(u, w)
          BY <3>3, <1>2, <1>3 DEF OutBehind, Before
        <4>3. ended[w] = 1 /\ begun[w] = 1
          BY <4>1, <4>2 DEF IInv, Runs
        <4>4. ended[u] = 1
          BY <4>2, <4>3, BeforeEnded DEF IInv
        <4> QED
          BY <4>4, <3>1
      <3>4. CASE AllAt(i)
        <4>1. AllAddr \in DOMAIN entry /\ \A b \in DOMAIN entry : OutBehind(u, entry[b])
          BY <3>1, <3>2, <3>4 DEF LedTo
        <4>2. w = entry[AllAddr].out /\ w # None /\ ~task[w].finished
          <5>1. a # AllAddr
            BY <4>1, <1>6
          <5>2. w = entry[AllAddr].out
            BY <5>1, <4>1, <1>1 DEF LastAll
          <5>3. w # None
            BY <5>2, <4>1 DEF OutBehind
          <5> QED
            BY <5>2, <5>3, <4>1, <3>3
        <4>3. ASSUME NEW b \in DOMAIN h PROVE OutBehind(u, h[b])
          <5>1. CASE b = a
            BY <5>1, <4>1, <4>2, <2>1 DEF OutBehind, Looked
          <5>2. CASE b # a
            <6>1. b \in DOMAIN entry /\ h[b] = entry[b]
              BY <5>2, <4>2, <2>1, <1>2 DEF Looked
            <6> QED
              BY <6>1, <4>1
          <5> QED
            BY <5>1, <5>2
        <4> QED
          BY <4>1, <4>3, <3>1, <3>4, <1>2 DEF LedTo
      <3>5. CASE ~AllAt(i)
        <4>1. ASSUME NEW x \in Elems(prog[i].deps)
              PROVE  x.addr \in DOMAIN entry /\ h[x.addr] = entry[x.addr]
          <5>1. x.addr \in DOMAIN entry /\ x.addr # AllAddr
            BY <3>2, <3>5 DEF LedTo, AllAt, IsAll
          <5> QED
            BY <5>1, <2>1 DEF Looked
        <4> QED
          BY <4>1, <3>2, <3>5, <1>2 DEF LedTo
      <3> QED
        BY <3>4, <3>5
    <2>5. LeadsIn(h)
      BY <2>4 DEF LeadsIn
    <2>6. \A b \in DOMAIN entry : b # AllAddr => h[b] = entry[b]
      BY <2>1 DEF Looked
    <2> QED
      BY <2>3, <2>5, <2>6, <1>2, <1>3
  <1> QED
    BY <1>5, <1>6

\* A new writer of an address comes behind what the entry leads to.
LEMMA EntryYields ==
    ASSUME Disciplined, NEW h, HoldsIn(h), NEW b \in DOMAIN h, h[b] \in EntrySet, NEW u \in Tasks,
           OutBehind(u, h[b]) \/ u \in Elems(h[b].in)
    PROVE  Yields(u, h[b])
  <1>1. h[b].in \in Seq(Tasks)
    BY DEF EntrySet
  <1>2. CASE u \in Elems(h[b].in)
    <2>1. h[b].in # <<>>
      BY <1>1, <1>2, Members
    <2> QED
      BY <2>1, <1>2 DEF Yields, Before
  <1>3. CASE OutBehind(u, h[b])
    <2>1. CASE h[b].in = <<>>
      BY <2>1, <1>3 DEF Yields, OutBehind, Before
    <2>2. CASE h[b].in # <<>>
      <3>1. PICK r \in Elems(h[b].in) : TRUE
        BY <1>1, <2>2, Members
      <3>2. h[b].out = r \/ MustPrecede(h[b].out, r)
        BY <3>1, <1>3 DEF HoldsIn, OutBehind
      <3>3. u = h[b].out \/ MustPrecede(u, h[b].out)
        BY <1>3 DEF OutBehind
      <3>4. MustPrecede(u, h[b].out) => h[b].out \in Tasks
        BY Precedence
      <3>5. Before(u, r)
        BY <3>2, <3>3, <3>4 DEF Before
      <3> QED
        BY <2>2, <3>5 DEF Yields
    <2> QED
      BY <2>1, <2>2
  <1> QED
    BY <1>2, <1>3

\* Where the hash leads for a dependency d.
LEMMA AskedIs ==
    ASSUME IInv, NEW h, h \in [DOMAIN h -> EntrySet], HoldsIn(h), LeadsIn(h), NEW d, d.addr \in DOMAIN h,
           NEW u \in Tasks, Asks(u, d), ended[u] = 0
    PROVE  /\ IsAll(d) => \E b \in DOMAIN h : Yields(u, h[b])
           /\ ~IsAll(d) => OutBehind(u, h[d.addr]) \/ (d.type # "IN" /\ u \in Elems(h[d.addr].in))
  <1>1. PICK i \in DOMAIN prog : /\ i < ip /\ AddAt(i, u)
                                 /\ IF IsAll(d) THEN prog[i].deps # <<>>
                                    ELSE \/ AllAt(i)
                                         \/ \E x \in Elems(prog[i].deps) : x.addr = d.addr /\ {x.type, d.type} # {"IN"}
    BY DEF Asks
  <1>2. LedTo(h, i) /\ u = prog[i].task
    BY <1>1 DEF LeadsIn, AddAt
  <1>3. CASE AllAt(i)
    <2>1. AllAddr \in DOMAIN h /\ \A b \in DOMAIN h : OutBehind(u, h[b])
      BY <1>2, <1>3 DEF LedTo
    <2>2. Yields(u, h[AllAddr])
      BY <2>1, EntryYields DEF IInv
    <2> QED
      BY <2>1, <2>2
  <1>4. CASE ~AllAt(i) /\ IsAll(d)
    <2>1. prog[i].deps \in Seq(DepSet)
      BY <1>1, Submissions DEF IInv, AddAt
    <2>2. PICK x \in Elems(prog[i].deps) : TRUE
      BY <2>1, <1>1, <1>4, Members
    <2>3. PICK b \in DOMAIN h : OutBehind(u, h[b]) \/ u \in Elems(h[b].in)
      BY <2>2, <1>2, <1>4 DEF LedTo
    <2>4. Yields(u, h[b])
      BY <2>3, EntryYields DEF IInv
    <2> QED
      BY <2>4, <1>4
  <1>5. CASE ~AllAt(i) /\ ~IsAll(d)
    <2>1. PICK x \in Elems(prog[i].deps) : x.addr = d.addr /\ {x.type, d.type} # {"IN"}
      BY <1>1, <1>5
    <2>2. OutBehind(u, h[d.addr]) \/ (x.type = "IN" /\ u \in Elems(h[d.addr].in))
      BY <2>1, <1>2, <1>5 DEF LedTo
    <2> QED
      BY <2>1, <2>2, <1>5
  <1> QED
    BY <1>3, <1>4, <1>5

\* The dependency Master is about to enter.
LEMMA NextDep ==
    ASSUME IInv, call.pc = "deps", call.deps # <<>>, NEW d, d = Head(call.deps), NEW c, c = call.task
    PROVE  /\ Building /\ c \in Tasks /\ Known(c) /\ AddAt(ip, c) /\ Made(ip) /\ ip \in DOMAIN prog /\ ip \in Nat
           /\ prog[ip].op = "add_task"
           /\ d \in DepSet /\ Tail(call.deps) \in Seq(DepSet)
           /\ Elems(Tail(call.deps)) \subseteq Elems(call.deps)
           /\ \A x \in Elems(call.deps) : x = d \/ x \in Elems(Tail(call.deps))
           /\ d \in Elems(DepListRmDup(prog[ip].deps)) /\ prog[ip].deps \in Seq(DepSet)
  <1>1. Building
    BY DEF IInv, CallShape, Building
  <1>2. /\ c \in Tasks /\ Known(c) /\ AddAt(ip, c) /\ Made(ip) /\ ip \in DOMAIN prog /\ ip \in Nat
        /\ prog[ip].op = "add_task" /\ prog[ip].deps \in Seq(DepSet)
    BY <1>1, Submitted
  <1>3. call.deps \in Seq(DepSet)
    BY DEF IInv, TypeOK, CallSet
  <1>4. /\ d \in DepSet /\ Tail(call.deps) \in Seq(DepSet) /\ d \in Elems(call.deps)
        /\ Elems(Tail(call.deps)) \subseteq Elems(call.deps)
        /\ \A x \in Elems(call.deps) : x = d \/ x \in Elems(Tail(call.deps))
    BY <1>3, Members
  <1>5. Elems(call.deps) \subseteq Elems(DepListRmDup(prog[ip].deps))
    BY <1>2 DEF IInv, CallShape
  <1> QED
    BY <1>1, <1>2, <1>4, <1>5

\* kupl_node_process_dep for a task that writes: the addresses it has to rewrite.
LEMMA ProcessWrite == ASSUME IInv, NodeProcessDep, Head(call.deps).type # "IN" PROVE IInv'
  <1>1. PICK d, c : d = Head(call.deps) /\ c = call.task
    OBVIOUS
  <1>2. PICK h, ops, rest : h = Lookup(d.addr).hash /\ ops = Lookup(d.addr).ops /\ rest = Tail(call.deps)
    OBVIOUS
  <1>3. PICK ad : ad = IF d.type = "ALL" THEN DOMAIN h ELSE {d.addr}
    OBVIOUS
  <1>4. /\ call.pc = "deps" /\ call.ops = <<>> /\ call.addrs = {} /\ call.deps # <<>>
        /\ entry' = h /\ call' = [call EXCEPT !.deps = rest, !.ops = ops, !.addrs = ad]
        /\ task' = task /\ prog' = prog /\ team' = team /\ ip' = ip /\ queue' = queue /\ stack' = stack
        /\ begun' = begun /\ ended' = ended
    BY <1>1, <1>2, <1>3 DEF NodeProcessDep, InDag, program, schedVars, history
  <1>5. /\ Building /\ c \in Tasks /\ Known(c) /\ AddAt(ip, c) /\ Made(ip) /\ ip \in DOMAIN prog /\ ip \in Nat
        /\ prog[ip].op = "add_task" /\ prog[ip].deps \in Seq(DepSet)
        /\ d \in DepSet /\ rest \in Seq(DepSet) /\ Elems(rest) \subseteq Elems(call.deps)
        /\ \A x \in Elems(call.deps) : x = d \/ x \in Elems(rest)
        /\ d \in Elems(DepListRmDup(prog[ip].deps))
    BY <1>1, <1>2, <1>4, NextDep
  <1>6. d.addr \in Addrs \cup {AllAddr}
    BY <1>5 DEF DepSet
  <1>7. HoldsIn(entry) /\ LeadsIn(entry)
    BY <1>5 DEF IInv, HashHolds, HashLeads
  <1>8. /\ DOMAIN h = DOMAIN entry \cup {d.addr} /\ h \in [DOMAIN h -> EntrySet] /\ ops \in Seq(OpSet)
        /\ \A o \in Elems(ops) : o.do # "precede" /\ Known(o.of)
        /\ HoldsIn(h) /\ LeadsIn(h)
        /\ \A b \in DOMAIN entry : b # AllAddr => h[b] = entry[b]
    BY <1>2, <1>6, <1>7, LookupKeeps
  <1>9. DOMAIN entry \subseteq Addrs \cup {AllAddr} /\ call \in CallSet
    BY DEF IInv, TypeOK
  <1>10. ad \subseteq DOMAIN h /\ DOMAIN h \subseteq Addrs \cup {AllAddr}
    BY <1>3, <1>6, <1>8, <1>9
  <1>11. PICK k : k = [call EXCEPT !.deps = rest, !.ops = ops, !.addrs = ad]
    OBVIOUS
  <1>12. /\ k \in CallSet /\ k.pc = call.pc /\ k.task = c /\ k.deps = rest /\ k.n = call.n
         /\ k.addrs = ad /\ k.ops = ops
    BY <1>1, <1>5, <1>8, <1>9, <1>10, <1>11 DEF CallSet
  <1>13. /\ call' \in CallSet /\ call'.pc = "deps" /\ call'.task = c /\ call'.deps = rest /\ call'.n = call.n
         /\ call'.addrs = ad /\ call'.ops = ops
    BY <1>4, <1>11, <1>12
  <1>14. DOMAIN entry' \subseteq Addrs \cup {AllAddr} /\ entry' \in [DOMAIN entry' -> EntrySet]
    BY <1>4, <1>8, <1>10
  <1>15. /\ \A t, u \in Tasks : Safe(u, t) => Safe(u, t)'
         /\ CallShape' /\ HashHolds' /\ HashLeads' /\ Submitting' => IInv'
    BY <1>1, <1>4, <1>13, <1>14, HashStep
  <1>16. /\ \A i : (Adds(i) <=> Adds(i)') /\ (AllAt(i) <=> AllAt(i)') /\ (Made(i) <=> Made(i)')
         /\ \A i, t : AddAt(i, t) <=> AddAt(i, t)'
         /\ \A i, x : Writes(i, x) <=> Writes(i, x)'
         /\ \A u, t : MustPrecede(u, t) <=> MustPrecede(u, t)'
         /\ \A u, p : Before(u, p) <=> Before(u, p)'
         /\ \A t : Known(t) <=> Known(t)'
         /\ Building <=> Building'
    BY <1>4, <1>13, SubmissionSame
  <1>17. /\ \A x \in Elems(DepListRmDup(prog[ip].deps)) :
               /\ (AllAt(ip) <=> IsAll(x)) /\ (AllAt(ip) <=> x.type = "ALL")
               /\ AllAt(ip) => x.addr = AllAddr /\ x = d
               /\ ~AllAt(ip) => x \in Elems(prog[ip].deps) /\ x.addr # AllAddr
         /\ d.type # "IN"
    <2>1. ListIs(ip)
      BY <1>5, DepList
    <2> QED
      BY <2>1, <1>1, <1>5 DEF ListIs
  <1>18. \A b \in ad : Writes(ip, b)
    BY <1>3, <1>5, <1>17 DEF Writes
  <1>19. CallShape'
    <2>1. CallShape
      BY DEF IInv
    <2>2. \A o \in Elems(ops) : Known(o.of)'
      BY <1>8, <1>16
    <2>3. call.n = task[c].nHard /\ c = prog[ip].task
      BY <1>1, <1>4, <1>5, Submitted
    <2>4. Elems(rest) \subseteq Elems(DepListRmDup(prog[ip].deps))
      BY <2>1, <1>4, <1>5 DEF CallShape
    <2> QED
      BY <2>2, <2>3, <2>4, <1>4, <1>5, <1>10, <1>13, <1>16, <1>18 DEF CallShape
  <1>20. HashHolds'
    BY <1>4, <1>8, <1>16 DEF HashHolds, HoldsIn
  <1>21. HashLeads'
    <2>1. \A i : LedTo(h, i) => LedTo(entry, i)'
      BY <1>4, <1>16 DEF LedTo, OutBehind
    <2> QED
      BY <2>1, <1>4, <1>8, <1>16 DEF HashLeads, LeadsIn
  <1>22. Submitting'
    <2>1. Submitting
      BY DEF IInv
    <2>2. ASSUME NEW x \in Elems(DepListRmDup(prog[ip].deps)) PROVE x \in Elems(rest) \/ Entered(x)'
      <3>1. CASE x \in Elems(rest)
        BY <3>1
      <3>2. CASE x = d
        <4>1. CASE AllAt(ip)
          BY <3>2, <4>1, <1>3, <1>4, <1>8, <1>13, <1>16, <1>17 DEF Entered
        <4>2. CASE ~AllAt(ip)
          BY <3>2, <4>2, <1>3, <1>4, <1>8, <1>13, <1>16, <1>17, <1>5 DEF Entered
        <4> QED
          BY <4>1, <4>2
      <3>3. CASE x \notin Elems(rest) /\ x # d
        <4>1. x \notin Elems(call.deps) /\ ~AllAt(ip) /\ x.addr # AllAddr
          BY <3>3, <1>5, <1>17
        <4>2. Entered(x)
          BY <2>1, <4>1, <1>5 DEF Submitting
        <4>3. x.addr \in DOMAIN entry /\ h[x.addr] = entry[x.addr]
          BY <4>1, <4>2, <1>8 DEF Entered
        <4> QED
          BY <4>1, <4>2, <4>3, <1>1, <1>4, <1>8, <1>13, <1>16 DEF Entered
      <3> QED
        BY <3>1, <3>2, <3>3
    <2>3. ASSUME NEW u \in Tasks, MustPrecede(u, c)
          PROVE  \/ Safe(u, c)'
                 \/ \E o \in Elems(call'.ops) : o.do = "precede" /\ Before(u, o.of)'
                 \/ \E b \in call'.addrs : Yields(u, entry[b])'
                 \/ \E x \in Elems(call'.deps) : Asks(u, x)'
      <3>1. \/ Safe(u, c)
            \/ \E x \in Elems(call.deps) : Asks(u, x)
        BY <2>1, <2>3, <1>1, <1>4, <1>5 DEF Submitting, Elems
      <3>2. CASE Safe(u, c) \/ ended[u] = 1
        <4>1. Safe(u, c)
          BY <3>2 DEF Safe
        <4> QED
          BY <4>1, <1>5, <1>15
      <3>3. CASE \E x \in Elems(rest) : Asks(u, x)
        BY <3>3, <1>4, <1>13, <1>16 DEF Asks
      <3>4. CASE Asks(u, d) /\ ended[u] # 1
        <4>1. ended[u] = 0
          BY <3>4, TaskTypes DEF IInv
        <4>2. PICK b \in ad : Yields(u, h[b])
          <5>1. CASE IsAll(d)
            <6>1. PICK b \in DOMAIN h : Yields(u, h[b])
              BY <3>4, <4>1, <5>1, <1>8, AskedIs
            <6> QED
              BY <6>1, <5>1, <1>3, <1>5, <1>17
          <5>2. CASE ~IsAll(d)
            <6>1. OutBehind(u, h[d.addr]) \/ u \in Elems(h[d.addr].in)
              BY <3>4, <4>1, <5>2, <1>8, AskedIs
            <6>2. Yields(u, h[d.addr])
              BY <6>1, <1>8, EntryYields DEF IInv
            <6> QED
              BY <6>2, <5>2, <1>3, <1>5, <1>17
          <5> QED
            BY <5>1, <5>2
        <4>3. Yields(u, entry[b])'
          BY <4>2, <1>4, <1>16 DEF Yields
        <4> QED
          BY <4>2, <4>3, <1>13
      <3> QED
        BY <3>1, <3>2, <3>3, <3>4, <1>5
    <2>4. \A x \in Elems(DepListRmDup(prog'[ip'].deps)) : x \in Elems(call'.deps) \/ Entered(x)'
      BY <2>2, <1>4, <1>13
    <2> QED
      BY <2>3, <2>4, <1>1, <1>4, <1>13, <1>16 DEF Submitting
  <1> QED
    BY <1>15, <1>19, <1>20, <1>21, <1>22

\* ops does what was looked up, takes a reference on the reader, c, and makes it
\* follow the writer, w
ReadAsks(pre, c, w, ops) ==
    /\ \A o \in Elems(ops) : o \in Elems(pre) \/ o.of = c \/ (o.of = w /\ w # None)
    /\ w # None => \E o \in Elems(ops) : o.do = "precede" /\ o.of = w

\* The operations of a reader: a reference for the entry, an edge from the writer.
LEMMA ReadOps ==
    ASSUME NEW pre \in Seq(OpSet), NEW c \in Tasks, NEW w \in Tasks \cup {None},
           NEW ops, ops = pre \o OpOn("ref", c) \o OpOn("precede", w)
    PROVE  ops \in Seq(OpSet) /\ ReadAsks(pre, c, w, ops)
  <1>1. None \notin Tasks
    BY TasksAssumption
  <1>2. ASSUME NEW x \in OpSet PROVE <<x>> \in Seq(OpSet) /\ \A o : o \in Elems(<<x>>) <=> o = x
    BY DEF Elems
  <1>3. PICK r : r = OpOn("ref", c)
    OBVIOUS
  <1>4. r \in Seq(OpSet) /\ \A o \in Elems(r) : o.of = c
    <2>1. PICK x : x = Op("ref", c)
      OBVIOUS
    <2>2. x \in OpSet /\ x.of = c
      BY <2>1 DEF Op, OpSet
    <2>3. r = <<x>>
      BY <1>1, <1>3, <2>1 DEF OpOn
    <2> QED
      BY <1>2, <2>2, <2>3
  <1>5. PICK p : p = OpOn("precede", w)
    OBVIOUS
  <1>6. /\ p \in Seq(OpSet) /\ \A o \in Elems(p) : o.of = w /\ w # None
        /\ w # None => \E o \in Elems(p) : o.do = "precede" /\ o.of = w
    <2>1. CASE w = None
      <3>1. p = <<>>
        BY <2>1, <1>5 DEF OpOn
      <3>2. p \in Seq(OpSet) /\ \A o : o \notin Elems(p)
        BY <3>1 DEF Elems
      <3> QED
        BY <2>1, <3>2
    <2>2. CASE w # None
      <3>1. PICK x : x = Op("precede", w)
        OBVIOUS
      <3>2. x \in OpSet /\ x.of = w /\ x.do = "precede"
        BY <3>1, <2>2 DEF Op, OpSet
      <3>3. p = <<x>>
        BY <2>2, <1>5, <3>1 DEF OpOn
      <3> QED
        BY <1>2, <2>2, <3>2, <3>3
    <2> QED
      BY <2>1, <2>2
  <1>7. PICK q : q = pre \o r
    OBVIOUS
  <1>8. q \in Seq(OpSet) /\ \A o : o \in Elems(q) <=> o \in Elems(pre) \/ o \in Elems(r)
    BY <1>4, <1>7, MembersJoined
  <1>9. q \o p \in Seq(OpSet) /\ \A o : o \in Elems(q \o p) <=> o \in Elems(q) \/ o \in Elems(p)
    BY <1>6, <1>8, MembersJoined
  <1>10. ops = q \o p
    BY <1>3, <1>5, <1>7
  <1> QED
    BY <1>4, <1>6, <1>8, <1>9, <1>10 DEF ReadAsks

\* kupl_node_process_dep for a task that reads: it joins the readers and follows
\* the last writer.
LEMMA ProcessRead == ASSUME IInv, NodeProcessDep, Head(call.deps).type = "IN" PROVE IInv'
  <1>1. PICK d, c : d = Head(call.deps) /\ c = call.task
    OBVIOUS
  <1>2. PICK h, pre, rest : h = Lookup(d.addr).hash /\ pre = Lookup(d.addr).ops /\ rest = Tail(call.deps)
    OBVIOUS
  <1>3. PICK ops : ops = pre \o OpOn("ref", c) \o OpOn("precede", h[d.addr].out)
    OBVIOUS
  <1>4. /\ call.pc = "deps" /\ call.ops = <<>> /\ call.addrs = {} /\ call.deps # <<>>
        /\ entry' = [h EXCEPT ![d.addr].in = <<c>> \o @]
        /\ call' = [call EXCEPT !.deps = rest, !.ops = ops]
        /\ task' = task /\ prog' = prog /\ team' = team /\ ip' = ip /\ queue' = queue /\ stack' = stack
        /\ begun' = begun /\ ended' = ended
    BY <1>1, <1>2, <1>3 DEF NodeProcessDep, InDag, program, schedVars, history
  <1>5. /\ Building /\ c \in Tasks /\ Known(c) /\ AddAt(ip, c) /\ Made(ip) /\ ip \in DOMAIN prog /\ ip \in Nat
        /\ prog[ip].op = "add_task" /\ prog[ip].deps \in Seq(DepSet)
        /\ d \in DepSet /\ rest \in Seq(DepSet) /\ Elems(rest) \subseteq Elems(call.deps)
        /\ \A x \in Elems(call.deps) : x = d \/ x \in Elems(rest)
        /\ d \in Elems(DepListRmDup(prog[ip].deps))
    BY <1>1, <1>2, <1>4, NextDep
  <1>6. d.addr \in Addrs \cup {AllAddr}
    BY <1>5 DEF DepSet
  <1>7. HoldsIn(entry) /\ LeadsIn(entry)
    BY <1>5 DEF IInv, HashHolds, HashLeads
  <1>8. /\ DOMAIN h = DOMAIN entry \cup {d.addr} /\ h \in [DOMAIN h -> EntrySet] /\ pre \in Seq(OpSet)
        /\ \A o \in Elems(pre) : o.do # "precede" /\ Known(o.of)
        /\ HoldsIn(h) /\ LeadsIn(h)
        /\ \A b \in DOMAIN entry : b # AllAddr => h[b] = entry[b]
    BY <1>2, <1>6, <1>7, LookupKeeps
  <1>9. DOMAIN entry \subseteq Addrs \cup {AllAddr} /\ call \in CallSet
    BY DEF IInv, TypeOK
  <1>10. PICK ent \in EntrySet : ent = h[d.addr] /\ ent.in \in Seq(Tasks) /\ ent.out \in Tasks \cup {None}
    BY <1>8 DEF EntrySet
  <1>11. /\ ops \in Seq(OpSet)
         /\ \A o \in Elems(ops) : o \in Elems(pre) \/ o.of = c \/ (o.of = ent.out /\ ent.out # None)
         /\ ent.out # None => \E o \in Elems(ops) : o.do = "precede" /\ o.of = ent.out
    <2>1. PICK w \in Tasks \cup {None} : w = ent.out
      BY <1>10
    <2>2. ops = pre \o OpOn("ref", c) \o OpOn("precede", w)
      BY <2>1, <1>3, <1>10
    <2>3. ops \in Seq(OpSet) /\ ReadAsks(pre, c, w, ops)
      BY <2>2, <1>5, <1>8, ReadOps
    <2> QED
      BY <2>1, <2>3 DEF ReadAsks
  <1>12. PICK readers \in Seq(Tasks) : /\ readers = <<c>> \o ent.in
                                       /\ \A r : r \in Elems(readers) <=> r = c \/ r \in Elems(ent.in)
    <2>1. PICK s \in Seq(Tasks) : s = ent.in
      BY <1>10
    <2>2. <<c>> \o s \in Seq(Tasks) /\ \A r : r \in Elems(<<c>> \o s) <=> r = c \/ r \in Elems(s)
      BY <1>5, MembersAdded
    <2> QED
      BY <2>1, <2>2
  <1>13. PICK new : new = [ent EXCEPT !.in = readers]
    OBVIOUS
  <1>14. new \in EntrySet /\ new.out = ent.out /\ new.in = readers
    BY <1>10, <1>13 DEF EntrySet
  <1>15. entry' = [h EXCEPT ![d.addr] = new]
    BY <1>4, <1>8, <1>10, <1>12, <1>13
  <1>16. /\ DOMAIN entry' = DOMAIN h /\ entry' \in [DOMAIN entry' -> EntrySet] /\ entry'[d.addr] = new
         /\ \A b \in DOMAIN h : b # d.addr => entry'[b] = h[b]
    BY <1>8, <1>14, <1>15
  <1>17. PICK k : k = [call EXCEPT !.deps = rest, !.ops = ops]
    OBVIOUS
  <1>18. /\ k \in CallSet /\ k.pc = call.pc /\ k.task = c /\ k.deps = rest /\ k.n = call.n
         /\ k.addrs = call.addrs /\ k.ops = ops
    BY <1>1, <1>5, <1>9, <1>11, <1>17 DEF CallSet
  <1>19. /\ call' \in CallSet /\ call'.pc = "deps" /\ call'.task = c /\ call'.deps = rest /\ call'.n = call.n
         /\ call'.addrs = {} /\ call'.ops = ops
    BY <1>4, <1>17, <1>18
  <1>20. DOMAIN entry' \subseteq Addrs \cup {AllAddr}
    BY <1>6, <1>8, <1>9, <1>16
  <1>21. /\ \A t, u \in Tasks : Safe(u, t) => Safe(u, t)'
         /\ CallShape' /\ HashHolds' /\ HashLeads' /\ Submitting' => IInv'
    BY <1>1, <1>4, <1>16, <1>19, <1>20, HashStep
  <1>22. /\ \A i : (Adds(i) <=> Adds(i)') /\ (AllAt(i) <=> AllAt(i)') /\ (Made(i) <=> Made(i)')
         /\ \A i, t : AddAt(i, t) <=> AddAt(i, t)'
         /\ \A i, x : Writes(i, x) <=> Writes(i, x)'
         /\ \A u, t : MustPrecede(u, t) <=> MustPrecede(u, t)'
         /\ \A u, p : Before(u, p) <=> Before(u, p)'
         /\ \A t : Known(t) <=> Known(t)'
         /\ Building <=> Building'
    BY <1>4, <1>19, SubmissionSame
  <1>23. d.type = "IN" /\ ~AllAt(ip) /\ ~IsAll(d) /\ d \in Elems(prog[ip].deps) /\ d.addr # AllAddr
    <2>1. ListIs(ip)
      BY <1>5, DepList
    <2> QED
      BY <2>1, <1>1, <1>5 DEF ListIs
  <1>24. ent.out # None => Known(ent.out) /\ (ent.out = c \/ MustPrecede(ent.out, c))
    <2> SUFFICES ASSUME ent.out # None PROVE Known(ent.out) /\ (ent.out = c \/ MustPrecede(ent.out, c))
      OBVIOUS
    <2>1. PICK i \in DOMAIN prog : Made(i) /\ prog[i].task = ent.out /\ Writes(i, d.addr)
      BY <1>8, <1>10 DEF HoldsIn
    <2>2. CASE i = ip
      BY <2>1, <2>2, <1>5 DEF AddAt, Known
    <2>3. CASE i # ip
      <3>1. i < ip /\ AddAt(i, ent.out)
        BY <2>1, <2>3 DEF Made, AddAt
      <3>2. MustPrecede(ent.out, c)
        BY <3>1, <2>1, <1>5, <1>23, AddrOrder DEF IInv
      <3> QED
        BY <3>2, <2>1 DEF Known
    <2> QED
      BY <2>2, <2>3
  <1>25. CallShape'
    <2>1. CallShape
      BY DEF IInv
    <2>2. \A o \in Elems(ops) : Known(o.of)'
      BY <1>5, <1>8, <1>11, <1>22, <1>24
    <2>3. call.n = task[c].nHard /\ c = prog[ip].task
      BY <1>1, <1>4, <1>5, Submitted
    <2>4. Elems(rest) \subseteq Elems(DepListRmDup(prog[ip].deps))
      BY <2>1, <1>4, <1>5 DEF CallShape
    <2> QED
      BY <2>2, <2>3, <2>4, <1>4, <1>5, <1>19, <1>22 DEF CallShape
  <1>26. HashHolds'
    <2>1. ASSUME NEW b \in DOMAIN h
          PROVE  entry'[b].out = h[b].out /\ \A r \in Elems(entry'[b].in) : r \in Elems(h[b].in) \/ (b = d.addr /\ r = c)
      BY <1>10, <1>12, <1>14, <1>16
    <2>2. ASSUME NEW b \in DOMAIN h, NEW r \in Elems(entry'[b].in)
          PROVE  Known(r) /\ (entry'[b].out # None => entry'[b].out = r \/ MustPrecede(entry'[b].out, r))
      BY <2>1, <2>2, <1>5, <1>8, <1>10, <1>24 DEF HoldsIn
    <2>3. ASSUME NEW b \in DOMAIN h, entry'[b].out # None
          PROVE  \E i \in DOMAIN prog : Made(i) /\ prog[i].task = entry'[b].out /\ Writes(i, b)
      BY <2>1, <2>3, <1>8 DEF HoldsIn
    <2> QED
      BY <2>2, <2>3, <1>4, <1>16, <1>22 DEF HashHolds, HoldsIn
  <1>27. HashLeads'
    <2>1. ASSUME NEW b \in DOMAIN h
          PROVE  entry'[b].out = h[b].out /\ \A r \in Elems(h[b].in) : r \in Elems(entry'[b].in)
      BY <1>10, <1>12, <1>14, <1>16
    <2>2. ASSUME NEW u, NEW b \in DOMAIN h, OutBehind(u, h[b]) PROVE OutBehind(u, entry'[b])
      BY <2>1, <2>2 DEF OutBehind
    <2>3. ASSUME NEW i, LedTo(h, i) PROVE LedTo(entry', i)
      BY <2>1, <2>2, <2>3, <1>16 DEF LedTo
    <2>4. ASSUME NEW i, LedTo(entry', i) PROVE LedTo(entry, i)'
      BY <2>4, <1>4, <1>22 DEF LedTo, OutBehind
    <2> QED
      BY <2>3, <2>4, <1>4, <1>8, <1>22 DEF HashLeads, LeadsIn
  <1>28. Submitting'
    <2>1. Submitting
      BY DEF IInv
    <2>2. ASSUME NEW x \in Elems(DepListRmDup(prog[ip].deps)) PROVE x \in Elems(rest) \/ Entered(x)'
      <3>1. CASE x \in Elems(rest)
        BY <3>1
      <3>2. CASE x = d
        <4>1. d.addr \in DOMAIN entry' /\ c \in Elems(entry'[d.addr].in)
          BY <1>8, <1>12, <1>14, <1>16
        <4> QED
          BY <3>2, <4>1, <1>4, <1>19, <1>22, <1>23 DEF Entered
      <3>3. CASE x \notin Elems(rest) /\ x # d
        <4>1. x \notin Elems(call.deps) /\ x.addr # AllAddr
          <5>1. ListIs(ip)
            BY <1>5, DepList
          <5> QED
            BY <5>1, <3>3, <1>5, <1>23 DEF ListIs
        <4>2. Entered(x)
          BY <2>1, <4>1, <1>5 DEF Submitting
        <4>3. /\ x.addr \in DOMAIN entry /\ h[x.addr] = entry[x.addr]
              /\ entry[x.addr].out = c \/ (x.type = "IN" /\ c \in Elems(entry[x.addr].in))
          BY <4>1, <4>2, <1>1, <1>4, <1>8, <1>23 DEF Entered
        <4>4. /\ x.addr \in DOMAIN entry' /\ entry'[x.addr].out = h[x.addr].out
              /\ \A r \in Elems(h[x.addr].in) : r \in Elems(entry'[x.addr].in)
          BY <4>3, <1>8, <1>10, <1>12, <1>14, <1>16
        <4> QED
          BY <4>3, <4>4, <1>4, <1>19, <1>22, <1>23 DEF Entered
      <3> QED
        BY <3>1, <3>2, <3>3
    <2>3. ASSUME NEW u \in Tasks, MustPrecede(u, c)
          PROVE  \/ Safe(u, c)'
                 \/ \E o \in Elems(call'.ops) : o.do = "precede" /\ Before(u, o.of)'
                 \/ \E x \in Elems(call'.deps) : Asks(u, x)'
      <3>1. \/ Safe(u, c)
            \/ \E x \in Elems(call.deps) : Asks(u, x)
        BY <2>1, <2>3, <1>1, <1>4, <1>5 DEF Submitting, Elems
      <3>2. CASE Safe(u, c) \/ ended[u] = 1
        <4>1. Safe(u, c)
          BY <3>2 DEF Safe
        <4> QED
          BY <4>1, <1>5, <1>21
      <3>3. CASE \E x \in Elems(rest) : Asks(u, x)
        BY <3>3, <1>4, <1>19, <1>22 DEF Asks
      <3>4. CASE Asks(u, d) /\ ended[u] # 1
        <4>1. ended[u] = 0
          BY <3>4, TaskTypes DEF IInv
        <4>2. OutBehind(u, h[d.addr])
          BY <3>4, <4>1, <1>8, <1>23, AskedIs
        <4>3. ent.out # None /\ Before(u, ent.out)
          BY <4>2, <1>10 DEF OutBehind, Before
        <4> QED
          BY <4>3, <1>11, <1>19, <1>22
      <3> QED
        BY <3>1, <3>2, <3>3, <3>4, <1>5
    <2>4. \A x \in Elems(DepListRmDup(prog'[ip'].deps)) : x \in Elems(call'.deps) \/ Entered(x)'
      BY <2>2, <1>4, <1>19
    <2> QED
      BY <2>3, <2>4, <1>1, <1>4, <1>19, <1>22 DEF Submitting
  <1> QED
    BY <1>21, <1>25, <1>26, <1>27, <1>28

\* kupl_node_process_dep.
LEMMA NodeProcessDepStep == ASSUME IInv, NodeProcessDep PROVE IInv'
  BY ProcessRead, ProcessWrite

-----------------------------------------------------------------------------
(* Where calls begin and end *)

\* The dependencies dep_list_rm_dup leaves, as a list.
LEMMA DepListType ==
    ASSUME NEW i, prog[i].deps \in Seq(DepSet)
    PROVE  /\ DepListRmDup(prog[i].deps) \in Seq(DepSet)
           /\ AllAt(i) => \E y \in Elems(DepListRmDup(prog[i].deps)) : IsAll(y)
           /\ ~AllAt(i) => DepListRmDup(prog[i].deps) = prog[i].deps
  <1>1. AllAt(i) <=> \E k \in DOMAIN prog[i].deps : IsAll(prog[i].deps[k])
    BY DEF AllAt, Elems
  <1>2. CASE AllAt(i)
    <2>1. PICK y : y = [addr |-> AllAddr, type |-> "ALL"]
      OBVIOUS
    <2>2. y \in DepSet /\ IsAll(y)
      BY <2>1 DEF DepSet, IsAll
    <2>3. DepListRmDup(prog[i].deps) = <<y>>
      BY <1>1, <1>2, <2>1 DEF DepListRmDup
    <2>4. y \in Elems(<<y>>) /\ <<y>> \in Seq(DepSet)
      BY <2>2 DEF Elems
    <2> QED
      BY <1>2, <2>2, <2>3, <2>4
  <1>3. CASE ~AllAt(i)
    BY <1>1, <1>3 DEF DepListRmDup
  <1> QED
    BY <1>2, <1>3

\* Master begins a call that works on the graph: the order stays as it is.
LEMMA EnterStep ==
    ASSUME IInv, NEW op \in {"add_task", "destroy"}, AtCall(op), call' \in CallSet, call'.pc = "deps",
           prog' = prog, team' = team, ip' = ip, entry' = entry, queue' = queue, stack' = stack,
           begun' = begun, ended' = ended, task' \in [Tasks -> TaskSet],
           \A t \in Tasks : /\ task'[t].finished = task[t].finished /\ task'[t].nPred = task[t].nPred
                            /\ task'[t].nHard = task[t].nHard /\ task'[t].succ = task[t].succ
                            /\ task'[t] = task[t] \/ (op = "add_task" /\ t = prog[ip].task)
    PROVE  /\ Disciplined' /\ TypeOK' /\ FrameShape' /\ OnePlace(stack)' /\ Runs' /\ Counts' /\ Ready' /\ Fresh'
           /\ OrderKept' /\ HashHolds' /\ HashLeads' /\ ip \in DOMAIN prog /\ ip \in Nat /\ prog[ip].op = op
           /\ \A t : Known(t) => Known(t)'
           /\ op = "add_task" => Made(ip)' /\ AddAt(ip, prog[ip].task) /\ ~Known(prog[ip].task)
  <1>1. /\ ip \in DOMAIN prog /\ ip \in Nat /\ prog[ip].op = op /\ call.pc = "idle"
        /\ At(Master, "main") /\ Top(Master).todo = <<>>
    <2>1. ip \in Nat /\ ip >= 1 /\ Len(prog) \in Nat /\ DOMAIN prog = 1 .. Len(prog)
      BY Submissions DEF IInv, TypeOK
    <2> QED
      BY <2>1 DEF AtCall
  <1>2. /\ \A i : (Adds(i) <=> Adds(i)') /\ (AllAt(i) <=> AllAt(i)')
        /\ \A i, t : AddAt(i, t) <=> AddAt(i, t)'
        /\ \A i, a : Writes(i, a) <=> Writes(i, a)'
        /\ \A u, t : MustPrecede(u, t) <=> MustPrecede(u, t)'
        /\ \A u, p : Before(u, p) <=> Before(u, p)'
        /\ Disciplined'
    BY OrderFixed DEF IInv
  <1>3. \A i : Made(i) => Made(i)'
    BY <1>1, <1>2 DEF Made
  <1>4. \A t : (Known(t) => Known(t)') /\ (Old(t) <=> Old(t)')
    BY <1>2, <1>3 DEF Known, Old
  <1>5. op = "add_task" => Made(ip)' /\ AddAt(ip, prog[ip].task) /\ ~Known(prog[ip].task) /\ Known(prog[ip].task)'
    <2> SUFFICES ASSUME op = "add_task"
                 PROVE  Made(ip)' /\ AddAt(ip, prog[ip].task) /\ ~Known(prog[ip].task) /\ Known(prog[ip].task)'
      OBVIOUS
    <2>1. Adds(ip) /\ AddAt(ip, prog[ip].task)
      BY <1>1 DEF Adds, AddAt
    <2>2. Made(ip)'
      BY <2>1, <1>2 DEF Made
    <2>3. ~Known(prog[ip].task)
      <3> SUFFICES ASSUME NEW i \in DOMAIN prog, Made(i), prog[i].task = prog[ip].task PROVE FALSE
        BY DEF Known
      <3>1. i < ip /\ Adds(i)
        BY <1>1 DEF Made
      <3>2. i = ip
        BY <3>1, <2>1, <1>1 DEF IInv, Disciplined
      <3> QED
        BY <3>1, <3>2, <1>1
    <2> QED
      BY <1>1, <2>1, <2>2, <2>3 DEF Known
  <1>6. TypeOK'
    BY DEF IInv, TypeOK
  <1>7. FrameShape'
    <2>1. stack[Master] \in Seq(FrameSet) /\ Top(Master) = stack[Master][Len(stack[Master])] /\ Top(Master).pc = "main"
          /\ Len(stack[Master]) \in DOMAIN stack[Master] /\ Master \in Executors
      BY <1>1, Tops, ExecutorsAssumption DEF IInv, At
    <2>2. Len(stack[Master]) = 1
      BY <2>1 DEF IInv, FrameShape, Shape
    <2>3. Len(stack[Master]) = 1 /\ stack[Master][1].todo = <<>>
      BY <2>1, <2>2, <1>1
    <2> QED
      BY <2>3 DEF IInv, FrameShape, Shape
  <1>8. \A t : (Loose(t) <=> Loose(t)') /\ (Uncounted(t) = 0 /\ Uncounted(t)' = 0)
    BY <1>1 DEF Loose, InFrames, Uncounted
  <1>9. \A t \in Tasks : Owed(t)' = Owed(t) /\ ~Overtaken(t) /\ ~Overtaken(t)'
    BY <1>8 DEF Owed, Overtaken
  <1>10. \A t \in Tasks : EdgeStep(t)
    <2>1. \A p \in Tasks, s \in Seq(Tasks) : Listed(p, s)' => Listed(p, s)
      <3>1. \A p : Waits(p) <=> Waits(p)'
        BY DEF Waits
      <3> QED
        BY <3>1 DEF Listed
    <2>2. \A t \in Tasks : Pend(t)' \subseteq Pend(t)
      BY <2>1, EdgesSame
    <2> QED
      BY <2>2, <1>9 DEF EdgeStep
  <1>11. ASSUME NEW t \in Tasks
         PROVE  /\ IsFiniteSet(Pend(t))' /\ (Cardinality(Pend(t)) <= Owed(t))'
                /\ \A u \in Tasks : Safe(u, t) => Safe(u, t)'
    <2>1. EndedKept
      BY DEF EndedKept
    <2> QED
      BY <2>1, <1>6, <1>10, SafeKept DEF IInv
  <1>12. OnePlace(stack)' /\ Runs'
    BY SMTT(30) DEF IInv, Runs
  <1>13. Counts'
    BY <1>8, <1>9, <1>11 DEF IInv, Counts
  <1>14. Ready'
    BY <1>2, <1>4, <1>8, <1>9 DEF IInv, Ready, Sent, Cleared
  <1>15. Fresh'
    BY <1>4, <1>5 DEF IInv, Fresh
  <1>16. OrderKept'
    BY <1>2, <1>4, <1>11 DEF IInv, OrderKept
  <1>17. HashHolds'
    BY <1>2, <1>3, <1>4 DEF IInv, HashHolds, HoldsIn
  <1>18. HashLeads'
    <2>1. \A i : LedTo(entry, i) <=> LedTo(entry, i)'
      BY <1>2 DEF LedTo, OutBehind
    <2> QED
      BY <2>1, <1>2 DEF IInv, HashLeads, LeadsIn
  <1> QED
    BY <1>1, <1>2, <1>4, <1>5, <1>6, <1>7, <1>12, <1>13, <1>14, <1>15, <1>16, <1>17, <1>18

\* kupl_graph_add_task creates the task and begins with its dependencies: each
\* task that has to run before the new one is asked for by one of them.
LEMMA GraphAddTaskStep == ASSUME IInv, GraphAddTask PROVE IInv'
  <1>1. PICK c, l : c = prog[ip].task /\ l = DepListRmDup(prog[ip].deps)
    OBVIOUS
  <1>2. /\ AtCall("add_task") /\ task' = [task EXCEPT ![c] = TaskInit]
        /\ call' = [Idle EXCEPT !.pc = "deps", !.task = c, !.deps = l, !.addrs = {}, !.ops = <<>>]
        /\ prog' = prog /\ team' = team /\ ip' = ip /\ entry' = entry /\ queue' = queue /\ stack' = stack
        /\ begun' = begun /\ ended' = ended
    BY <1>1 DEF GraphAddTask, Enter, Args, program, dagVars, schedVars, history
  <1>3. ip \in DOMAIN prog /\ Adds(ip) /\ AddAt(ip, c) /\ call.pc = "idle"
    <2>1. ip \in Nat /\ ip >= 1 /\ Len(prog) \in Nat /\ DOMAIN prog = 1 .. Len(prog)
      BY Submissions DEF IInv, TypeOK
    <2> QED
      BY <2>1, <1>1, <1>2 DEF AtCall, Adds, AddAt
  <1>4. c \in Tasks /\ prog[ip].deps \in Seq(DepSet)
    BY <1>1, <1>3, Submissions DEF IInv
  <1>5. /\ l \in Seq(DepSet)
        /\ AllAt(ip) => \E y \in Elems(l) : IsAll(y)
        /\ ~AllAt(ip) => l = prog[ip].deps
    BY <1>1, <1>4, DepListType
  <1>6. PICK k : k = [Idle EXCEPT !.pc = "deps", !.task = c, !.deps = l, !.addrs = {}, !.ops = <<>>]
    OBVIOUS
  <1>7. /\ k \in CallSet /\ k.pc = "deps" /\ k.task = c /\ k.deps = l /\ k.addrs = {} /\ k.ops = <<>> /\ k.n = 0
    <2>1. k = [pc |-> "deps", task |-> c, deps |-> l, addrs |-> {}, ops |-> <<>>, n |-> 0, err |-> FALSE]
      BY <1>6 DEF Idle
    <2>2. 0 \in 0 .. UintMod - 1 /\ <<>> \in Seq(OpSet)
      BY BoundsAssumption
    <2> QED
      BY <2>1, <2>2, <1>4, <1>5 DEF CallSet
  <1>8. /\ call' \in CallSet /\ call'.pc = "deps" /\ call'.task = c /\ call'.deps = l /\ call'.addrs = {}
        /\ call'.ops = <<>> /\ call'.n = 0
    BY <1>2, <1>6, <1>7
  <1>9. ~Known(c)
    <2> SUFFICES ASSUME NEW i \in DOMAIN prog, Made(i), prog[i].task = c PROVE FALSE
      BY DEF Known
    <2>1. i < ip /\ Adds(i) /\ i \in Nat /\ ip \in Nat
      BY <1>3, Submissions DEF Made, IInv
    <2>2. i = ip
      BY <2>1, <1>1, <1>3 DEF IInv, Disciplined
    <2> QED
      BY <2>1, <2>2
  <1>10. task[c] = NoTask /\ task \in [Tasks -> TaskSet]
    BY <1>4, <1>9 DEF IInv, Fresh, TypeOK
  <1>11. PICK new : new = TaskInit
    OBVIOUS
  <1>12. /\ new \in TaskSet /\ new.finished = task[c].finished /\ new.nPred = task[c].nPred
         /\ new.nHard = task[c].nHard /\ new.succ = task[c].succ /\ new.nHard = 0
    <2>1. new = [life |-> "live", finished |-> FALSE, ref |-> 1, nPred |-> 0, nHard |-> 0, succ |-> <<>>,
                 locked |-> FALSE]
      BY <1>11 DEF TaskInit, NoTask
    <2>2. 0 \in 0 .. UintMod - 1 /\ <<>> \in Seq(Tasks)
      BY BoundsAssumption
    <2>3. new \in TaskSet
      BY <2>1, <2>2 DEF TaskSet
    <2> QED
      BY <2>1, <2>3, <1>10 DEF NoTask
  <1>13. task' \in [Tasks -> TaskSet] /\ task'[c] = new /\ \A t \in Tasks : t # c => task'[t] = task[t]
    BY <1>2, <1>4, <1>10, <1>11, <1>12
  <1>14. \A t \in Tasks : /\ task'[t].finished = task[t].finished /\ task'[t].nPred = task[t].nPred
                          /\ task'[t].nHard = task[t].nHard /\ task'[t].succ = task[t].succ
                          /\ task'[t] = task[t] \/ ("add_task" = "add_task" /\ t = prog[ip].task)
    BY <1>1, <1>12, <1>13
  <1>15. /\ Disciplined' /\ TypeOK' /\ FrameShape' /\ OnePlace(stack)' /\ Runs' /\ Counts' /\ Ready' /\ Fresh'
         /\ OrderKept' /\ HashHolds' /\ HashLeads' /\ ip \in DOMAIN prog /\ ip \in Nat /\ prog[ip].op = "add_task"
    BY <1>2, <1>8, <1>13, <1>14, EnterStep
  <1>16. /\ \A i : (AllAt(i) <=> AllAt(i)')
         /\ \A i, t : AddAt(i, t) <=> AddAt(i, t)'
         /\ \A u, t : MustPrecede(u, t) <=> MustPrecede(u, t)'
    BY <1>2, OrderFixed
  <1>17. \A x : x \notin Elems(<<>>)
    BY DEF Elems
  <1>18. CallShape'
    BY <1>1, <1>2, <1>8, <1>12, <1>13, <1>15, <1>17 DEF CallShape
  <1>19. Quiet'
    <2>1. ~Loose(c) /\ begun[c] # 1
      BY <1>4, <1>9, SentKnown DEF IInv
    <2>2. ~Loose(c)' /\ begun'[c] = 0
      BY <2>1, <1>2, <1>4 DEF Loose, InFrames, IInv, TypeOK
    <2> QED
      BY <2>2, <1>8, <1>12, <1>13 DEF Quiet
  <1>20. Submitting'
    <2>1. ASSUME NEW u \in Tasks, MustPrecede(u, c) PROVE \E d \in Elems(l) : Asks(u, d)'
      <3>1. PICK i \in DOMAIN prog : i < ip /\ AddAt(i, u) /\ Conflict(prog[i].deps, prog[ip].deps)
        BY <2>1, <1>3, Precedence DEF IInv
      <3>2. \/ AllAt(ip)
            \/ prog[ip].deps # <<>> /\ AllAt(i)
            \/ \E x \in Elems(prog[i].deps), y \in Elems(prog[ip].deps) : x.addr = y.addr /\ {x.type, y.type} # {"IN"}
        <4>1. Conflict(prog[i].deps, prog[ip].deps) <=>
                 \/ AllAt(ip)
                 \/ prog[ip].deps # <<>> /\ AllAt(i)
                 \/ \E x \in Elems(prog[i].deps), y \in Elems(prog[ip].deps) : x.addr = y.addr /\ {x.type, y.type} # {"IN"}
          BY DEF Conflict, AllAt
        <4> QED
          BY <4>1, <3>1
      <3>3. ASSUME NEW d, Asks(u, d) PROVE Asks(u, d)'
        BY <3>3, <1>2, <1>16 DEF Asks
      <3>4. CASE AllAt(ip)
        <4>1. PICK d \in Elems(l) : IsAll(d)
          BY <3>4, <1>5
        <4>2. prog[i].deps # <<>>
          BY <3>1, <3>4, <1>3 DEF IInv, Disciplined, AddAt
        <4>3. Asks(u, d)
          BY <3>1, <4>1, <4>2 DEF Asks
        <4> QED
          BY <4>3, <3>3
      <3>5. CASE ~AllAt(ip) /\ AllAt(i) /\ prog[ip].deps # <<>>
        <4>1. PICK d \in Elems(l) : TRUE
          BY <3>5, <1>4, <1>5, Members
        <4>2. ~IsAll(d)
          BY <3>5, <4>1, <1>5 DEF AllAt
        <4>3. Asks(u, d)
          BY <3>1, <3>5, <4>2 DEF Asks
        <4> QED
          BY <4>3, <3>3
      <3>6. CASE /\ ~AllAt(ip)
                 /\ \E x \in Elems(prog[i].deps), y \in Elems(prog[ip].deps) : x.addr = y.addr /\ {x.type, y.type} # {"IN"}
        <4>1. PICK x \in Elems(prog[i].deps), d \in Elems(l) : x.addr = d.addr /\ {x.type, d.type} # {"IN"}
          BY <3>6, <1>5
        <4>2. ~IsAll(d)
          BY <3>6, <4>1, <1>5 DEF AllAt
        <4>3. Asks(u, d)
          BY <3>1, <4>1, <4>2 DEF Asks
        <4> QED
          BY <4>3, <3>3
      <3> QED
        BY <3>2, <3>4, <3>5, <3>6
    <2> QED
      BY <2>1, <1>1, <1>2, <1>8, <1>16 DEF Submitting
  <1> QED
    BY <1>15, <1>18, <1>19, <1>20 DEF IInv

\* kupl_graph_destroy begins with every entry of the hash.
LEMMA GraphDestroyStep == ASSUME IInv, GraphDestroy PROVE IInv'
  <1>1. PICK ad : ad = DOMAIN entry
    OBVIOUS
  <1>2. /\ AtCall("destroy") /\ task' = task
        /\ call' = [Idle EXCEPT !.pc = "deps", !.task = None, !.deps = <<>>, !.addrs = ad, !.ops = <<>>]
        /\ prog' = prog /\ team' = team /\ ip' = ip /\ entry' = entry /\ queue' = queue /\ stack' = stack
        /\ begun' = begun /\ ended' = ended
    BY <1>1 DEF GraphDestroy, Enter, Args, program, dagVars, schedVars, history
  <1>3. PICK k : k = [Idle EXCEPT !.pc = "deps", !.task = None, !.deps = <<>>, !.addrs = ad, !.ops = <<>>]
    OBVIOUS
  <1>4. /\ k \in CallSet /\ k.pc = "deps" /\ k.task = None /\ k.deps = <<>> /\ k.addrs = ad /\ k.ops = <<>>
    <2>1. k = [pc |-> "deps", task |-> None, deps |-> <<>>, addrs |-> ad, ops |-> <<>>, n |-> 0, err |-> FALSE]
      BY <1>3 DEF Idle
    <2>2. 0 \in 0 .. UintMod - 1 /\ <<>> \in Seq(OpSet) /\ <<>> \in Seq(DepSet)
      BY BoundsAssumption
    <2>3. ad \subseteq Addrs \cup {AllAddr}
      BY <1>1 DEF IInv, TypeOK
    <2> QED
      BY <2>1, <2>2, <2>3 DEF CallSet
  <1>5. /\ call' \in CallSet /\ call'.pc = "deps" /\ call'.task = None /\ call'.deps = <<>> /\ call'.addrs = ad
        /\ call'.ops = <<>>
    BY <1>2, <1>3, <1>4
  <1>6. task' \in [Tasks -> TaskSet]
    BY <1>2 DEF IInv, TypeOK
  <1>7. \A t \in Tasks : /\ task'[t].finished = task[t].finished /\ task'[t].nPred = task[t].nPred
                         /\ task'[t].nHard = task[t].nHard /\ task'[t].succ = task[t].succ
                         /\ task'[t] = task[t] \/ ("destroy" = "add_task" /\ t = prog[ip].task)
    BY <1>2
  <1>8. /\ Disciplined' /\ TypeOK' /\ FrameShape' /\ OnePlace(stack)' /\ Runs' /\ Counts' /\ Ready' /\ Fresh'
        /\ OrderKept' /\ HashHolds' /\ HashLeads' /\ ip \in DOMAIN prog /\ prog[ip].op = "destroy"
    BY <1>2, <1>5, <1>6, <1>7, EnterStep
  <1>9. \A x : x \notin Elems(<<>>)
    BY DEF Elems
  <1>10. CallShape'
    BY <1>1, <1>2, <1>5, <1>8, <1>9 DEF CallShape
  <1>11. Quiet' /\ Submitting'
    BY <1>2, <1>8 DEF Quiet, Submitting, Building
  <1> QED
    BY <1>8, <1>10, <1>11 DEF IInv

\* Master ends a call that works on the graph: what was being submitted is now
\* submitted, and in order.
LEMMA DoneStep ==
    ASSUME IInv, call.pc = "deps", call' = Idle, ip' = ip + 1,
           prog' = prog, team' = team, task' = task, entry' = entry, queue' = queue, begun' = begun, ended' = ended,
           stack' \in [Executors -> Seq(FrameSet)], FrameShape', OnePlace(stack)', Runs', HashLeads',
           \A p \in Tasks, s \in Seq(Tasks) : Listed(p, s)' => Listed(p, s),
           NEW c, c = call.task,
           \A t \in Tasks : Loose(t)' => Loose(t) \/ (Building /\ t = c /\ Owed(c) = 0 /\ Cleared(c)),
           Building => \A u \in Tasks : MustPrecede(u, c) => Safe(u, c)
    PROVE  IInv'
  <1>1. /\ ip \in DOMAIN prog /\ ip \in Nat
        /\ Building <=> prog[ip].op = "add_task"
        /\ Building => c \in Tasks /\ c = prog[ip].task /\ Adds(ip) /\ AddAt(ip, c)
    BY Submitted
  <1>2. /\ \A i : (Adds(i) <=> Adds(i)') /\ (AllAt(i) <=> AllAt(i)')
        /\ \A i, t : AddAt(i, t) <=> AddAt(i, t)'
        /\ \A i, a : Writes(i, a) <=> Writes(i, a)'
        /\ \A u, t : MustPrecede(u, t) <=> MustPrecede(u, t)'
        /\ \A u, p : Before(u, p) <=> Before(u, p)'
        /\ Disciplined'
    BY OrderFixed DEF IInv
  <1>3. \A i : Adds(i) => i \in Nat /\ i \in DOMAIN prog
    BY Submissions DEF IInv, Adds
  <1>4. call'.pc = "idle" /\ call' \in CallSet /\ ~Building'
    <2>1. 0 \in 0 .. UintMod - 1 /\ <<>> \in Seq(OpSet) /\ <<>> \in Seq(DepSet)
      BY BoundsAssumption
    <2> QED
      BY <2>1 DEF Idle, CallSet, Building
  <1>5. \A i : Adds(i) => (i < ip' <=> i < ip \/ i = ip)
    BY <1>1, <1>3
  <1>6. \A i : Made(i) <=> Made(i)'
    BY <1>2, <1>4, <1>5 DEF Made
  <1>7. /\ \A t : (Known(t) <=> Known(t)') /\ (Old(t) => Old(t)')
        /\ \A t : Old(t)' => Old(t) \/ (Building /\ t = c)
        /\ Building => Old(c)'
    <2>1. \A t : Known(t) <=> Known(t)'
      BY <1>2, <1>6 DEF Known
    <2>2. \A t : Old(t)' <=> \E i \in DOMAIN prog : (i < ip \/ i = ip) /\ AddAt(i, t)
      BY <1>2, <1>5 DEF Old, AddAt
    <2>3. ASSUME NEW t, AddAt(ip, t) PROVE Building /\ t = c
      BY <2>3, <1>1 DEF AddAt, Adds
    <2> QED
      BY <2>1, <2>2, <2>3, <1>1 DEF Old
  <1>8. TypeOK'
    <2>1. ip' \in 1 .. Len(prog) + 1
      BY <1>1, Submissions DEF IInv
    <2> QED
      BY <2>1, <1>4 DEF IInv, TypeOK
  <1>9. \A t \in Tasks : Uncounted(t) = 0 /\ Uncounted(t)' = 0
    BY <1>4 DEF Uncounted
  <1>10. \A t \in Tasks : Owed(t)' = Owed(t) /\ ~Overtaken(t) /\ ~Overtaken(t)'
    BY <1>9 DEF Owed, Overtaken
  <1>11. \A t \in Tasks : EdgeStep(t)
    <2>1. \A t \in Tasks : Pend(t)' \subseteq Pend(t)
      BY EdgesSame
    <2> QED
      BY <2>1, <1>10 DEF EdgeStep
  <1>12. ASSUME NEW t \in Tasks
         PROVE  /\ IsFiniteSet(Pend(t))' /\ (Cardinality(Pend(t)) <= Owed(t))'
                /\ \A u \in Tasks : Safe(u, t) => Safe(u, t)'
    <2>1. EndedKept
      BY DEF EndedKept
    <2> QED
      BY <2>1, <1>8, <1>11, SafeKept DEF IInv
  <1>13. Counts'
    BY <1>9, <1>10, <1>12 DEF IInv, Counts
  <1>14. Ready'
    <2> SUFFICES ASSUME NEW t \in Tasks, Loose(t)' \/ begun'[t] = 1
                 PROVE  Sent(t)' /\ Owed(t)' = 0 /\ Cleared(t)'
      BY DEF Ready
    <2>1. Cleared(t) => Cleared(t)'
      BY <1>2 DEF Cleared
    <2>2. CASE Loose(t) \/ begun[t] = 1
      BY <2>1, <2>2, <1>7, <1>10 DEF IInv, Ready, Sent
    <2>3. CASE Building /\ t = c /\ Owed(c) = 0 /\ Cleared(c)
      BY <2>1, <2>3, <1>7, <1>10 DEF Sent
    <2> QED
      BY <2>2, <2>3
  <1>15. Fresh'
    BY <1>7 DEF IInv, Fresh
  <1>16. OrderKept'
    BY <1>1, <1>2, <1>7, <1>12 DEF IInv, OrderKept
  <1>17. HashHolds'
    BY <1>2, <1>6, <1>7 DEF IInv, HashHolds, HoldsIn
  <1>18. CallShape' /\ Quiet' /\ Submitting'
    BY <1>4 DEF CallShape, Quiet, Submitting
  <1> QED
    BY <1>2, <1>8, <1>13, <1>14, <1>15, <1>16, <1>17, <1>18 DEF IInv

\* Once every dependency is entered the hash leads to the task.
LEMMA HashLed ==
    ASSUME IInv, Building, call.deps = <<>>, call.addrs = {}, ip' = ip + 1,
           prog' = prog, entry' = entry, ended' = ended
    PROVE  HashLeads'
  <1>1. PICK c : c = call.task
    OBVIOUS
  <1>2. /\ ip \in DOMAIN prog /\ ip \in Nat /\ prog[ip].op = "add_task"
        /\ c \in Tasks /\ c = prog[ip].task /\ prog[ip].deps \in Seq(DepSet)
    BY <1>1, Submitted DEF Building
  <1>3. c # None
    BY <1>2, TasksAssumption
  <1>4. /\ \A i : (Adds(i) <=> Adds(i)') /\ (AllAt(i) <=> AllAt(i)')
        /\ \A u, t : MustPrecede(u, t) <=> MustPrecede(u, t)'
    BY OrderFixed
  <1>5. \A x \in Elems(DepListRmDup(prog[ip].deps)) : Entered(x)
    BY DEF IInv, Submitting, Elems
  <1>6. LedTo(entry, ip)
    <2>1. CASE AllAt(ip)
      <3>1. PICK y \in Elems(DepListRmDup(prog[ip].deps)) : TRUE
        BY <2>1, <1>2, DepListType
      <3>2. AllAddr \in DOMAIN entry /\ \A a \in DOMAIN entry : entry[a].out = c
        BY <3>1, <2>1, <1>1, <1>5 DEF Entered
      <3> QED
        BY <3>2, <2>1, <1>2, <1>3 DEF LedTo, OutBehind
    <2>2. CASE ~AllAt(ip)
      <3>1. DepListRmDup(prog[ip].deps) = prog[ip].deps
        BY <2>2, <1>2, DepListType
      <3>2. \A x \in Elems(prog[ip].deps) : /\ x.addr \in DOMAIN entry
                                            /\ entry[x.addr].out = c \/ (x.type = "IN" /\ c \in Elems(entry[x.addr].in))
        BY <3>1, <2>2, <1>1, <1>5 DEF Entered
      <3> QED
        BY <3>2, <2>2, <1>2, <1>3 DEF LedTo, OutBehind
    <2> QED
      BY <2>1, <2>2
  <1>7. ASSUME NEW i \in DOMAIN prog, Adds(i), i < ip + 1, ended[prog[i].task] = 0 PROVE LedTo(entry, i)
    <2>1. i \in Nat
      BY Submissions DEF IInv
    <2>2. i < ip \/ i = ip
      BY <2>1, <1>2, <1>7
    <2>3. LeadsIn(entry)
      BY <1>2 DEF IInv, HashLeads
    <2> QED
      BY <2>2, <2>3, <1>6, <1>7 DEF LeadsIn
  <1>8. \A i : LedTo(entry, i) <=> LedTo(entry, i)'
    BY <1>4 DEF LedTo, OutBehind
  <1> QED
    BY <1>4, <1>7, <1>8 DEF HashLeads, LeadsIn

\* kupl_graph_destroy is over.
LEMMA DestroyDoneStep == ASSUME IInv, DestroyDone PROVE IInv'
  <1>1. /\ call.pc = "deps" /\ call' = Idle /\ ip' = ip + 1
        /\ prog' = prog /\ team' = team /\ task' = task /\ entry' = entry /\ queue' = queue /\ stack' = stack
        /\ begun' = begun /\ ended' = ended
    BY DEF DestroyDone, DagDone, InDag, program, dagVars, schedVars, history
  <1>2. /\ ip \in DOMAIN prog /\ ip \in Nat /\ prog[ip].op = "destroy" /\ ~Building /\ prog \in Seq(Elems(prog))
    <2>1. ip \in DOMAIN prog /\ ip \in Nat /\ prog[ip].op \in {"add_task", "destroy"}
          /\ (Building <=> prog[ip].op = "add_task")
      BY <1>1, Submitted
    <2> QED
      BY <2>1 DEF DestroyDone, IInv, Disciplined
  <1>3. ip = Len(prog) /\ DOMAIN prog = 1 .. Len(prog) /\ Len(prog) \in Nat
    BY <1>2 DEF IInv, Disciplined
  <1>4. HashLeads'
    BY <1>1, <1>3 DEF HashLeads
  <1>5. FrameShape'
    BY <1>1 DEF IInv, FrameShape, Shape, Idle
  <1>6. OnePlace(stack)' /\ Runs' /\ stack' \in [Executors -> Seq(FrameSet)]
    BY <1>1 DEF IInv, Runs, TypeOK
  <1>7. \A t \in Tasks : Loose(t)' => Loose(t)
    BY <1>1 DEF Loose, InFrames
  <1>8. \A p \in Tasks, s \in Seq(Tasks) : Listed(p, s)' => Listed(p, s)
    <2>1. \A p : Waits(p) <=> Waits(p)'
      BY <1>1 DEF Waits
    <2> QED
      BY <2>1, <1>1 DEF Listed
  <1> QED
    BY <1>1, <1>2, <1>4, <1>5, <1>6, <1>7, <1>8, DoneStep

\* The test at the end of kupl_dag_add_task tells a task with no predecessor left
\* from any other, while the counts stay below a third of UINT32_MAX.
LEMMA ReadyTest ==
    ASSUME NEW p \in 0 .. UintMod - 1, NEW n \in 0 .. UintMod - 1, p <= n, 3 * n < UintMod
    PROVE  (p + n) % UintMod = (UintMod - n) % UintMod <=> n = 0
  <1>1. UintMod \in Nat \ {0}
    BY BoundsAssumption
  <1>2. p + n < UintMod /\ p + n \in Nat
    BY <1>1
  <1>3. (p + n) % UintMod = p + n
    BY <1>1, <1>2
  <1>4. CASE n = 0
    <2>1. UintMod % UintMod = 0 /\ UintMod - n = UintMod
      BY <1>1, <1>4
    <2> QED
      BY <2>1, <1>3, <1>4
  <1>5. CASE n > 0
    <2>1. UintMod - n \in Nat /\ UintMod - n < UintMod
      BY <1>1, <1>5
    <2>2. (UintMod - n) % UintMod = UintMod - n
      BY <2>1, <1>1
    <2> QED
      BY <2>2, <1>1, <1>3, <1>5
  <1> QED
    BY <1>4, <1>5

\* A task that comes behind nothing that is left to release.
LEMMA NothingOwed ==
    ASSUME IInv, NEW t \in Tasks, Owed(t) = 0, \A u \in Tasks : MustPrecede(u, t) => Safe(u, t)
    PROVE  Cleared(t)
  <1>1. IsFiniteSet(Pend(t)) /\ Cardinality(Pend(t)) <= 0
    BY DEF IInv, Counts
  <1>2. Cardinality(Pend(t)) = 0
    <2>1. Cardinality(Pend(t)) \in Nat
      BY <1>1, FS_CardinalityType
    <2> QED
      BY <2>1, <1>1
  <1>3. Pend(t) = {}
    BY <1>1, <1>2, FS_EmptySet
  <1>4. ~Stuck(t)
    BY <1>2 DEF Stuck
  <1> QED
    BY <1>3, <1>4 DEF Cleared, Safe

\* kupl_graph_add_task is over: the task goes to the scheduler when no edge was
\* made to it.
LEMMA GraphAddTaskDoneStep == ASSUME IInv, GraphAddTaskDone PROVE IInv'
  <1>1. PICK c, h : c = call.task /\ h = Top(Master)
    OBVIOUS
  <1>2. PICK f : f = [h EXCEPT !.todo = <<c>>]
    OBVIOUS
  <1>3. /\ call.pc = "deps" /\ call.ops = <<>> /\ call.addrs = {} /\ call.deps = <<>>
        /\ call' = Idle /\ ip' = ip + 1
        /\ prog' = prog /\ team' = team /\ task' = task /\ entry' = entry /\ queue' = queue
        /\ begun' = begun /\ ended' = ended
        /\ IF ~call.err /\ DagIsReady(c) THEN stack' = [stack EXCEPT ![Master][Len(stack[Master])] = f]
           ELSE stack' = stack
    BY <1>1, <1>2 DEF GraphAddTaskDone, DagDone, InDag, SetTop, program, dagVars, schedVars, history
  <1>4. Building /\ c \in Tasks /\ call.n = task[c].nHard
    BY <1>1, <1>3, Submitted DEF GraphAddTaskDone
  <1>5. \A x : x \notin Elems(<<>>)
    BY DEF Elems
  <1>6. \A u \in Tasks : MustPrecede(u, c) => Safe(u, c)
    BY <1>1, <1>3, <1>4, <1>5 DEF IInv, Submitting
  <1>7. HashLeads'
    BY <1>3, <1>4, HashLed
  <1>8. CASE ~(~call.err /\ DagIsReady(c))
    <2>1. stack' = stack
      BY <1>3, <1>8
    <2>2. FrameShape'
      BY <2>1, <1>3 DEF IInv, FrameShape, Shape, Idle
    <2>3. OnePlace(stack)' /\ Runs' /\ stack' \in [Executors -> Seq(FrameSet)]
      BY <2>1, <1>3 DEF IInv, Runs, TypeOK
    <2>4. \A t \in Tasks : Loose(t)' => Loose(t)
      BY <2>1, <1>3 DEF Loose, InFrames
    <2>5. \A p \in Tasks, s \in Seq(Tasks) : Listed(p, s)' => Listed(p, s)
      <3>1. \A p : Waits(p) <=> Waits(p)'
        BY <2>1, <1>3 DEF Waits
      <3> QED
        BY <3>1, <2>1, <1>3 DEF Listed
    <2> QED
      BY <2>2, <2>3, <2>4, <2>5, <1>1, <1>3, <1>4, <1>6, <1>7, DoneStep
  <1>9. CASE ~call.err /\ DagIsReady(c)
    <2>1. stack' = [stack EXCEPT ![Master][Len(stack[Master])] = f]
      BY <1>3, <1>9
    <2>2. Master \in Executors /\ stack[Master] # <<>>
      BY ExecutorsAssumption DEF IInv, FrameShape, Shape
    <2>3. h \in FrameSet /\ h = stack[Master][Len(stack[Master])] /\ Len(stack[Master]) \in DOMAIN stack[Master]
      BY <2>2, <1>1, Tops DEF IInv
    <2>4. h.pc = "main" /\ h.todo = <<>>
      <3>1. Len(stack[Master]) = 1 /\ stack[Master][1].todo = <<>>
        BY <1>3 DEF IInv, FrameShape, Shape
      <3> QED
        BY <3>1, <2>2, <2>3 DEF IInv, FrameShape, Shape
    <2>5. /\ f \in FrameSet /\ f.task = h.task /\ f.pc = "main" /\ f.todo = <<c>>
      <3>1. PICK q \in Seq(Tasks) : q = <<c>>
        <4>1. <<c>> \in Seq(Tasks)
          BY <1>4
        <4> QED
          BY <4>1
      <3>2. f = [h EXCEPT !.todo = q]
        BY <3>1, <1>2
      <3>3. f \in FrameSet /\ f.task = h.task /\ f.pc = h.pc /\ f.todo = q
        BY <3>2, <2>3 DEF FrameSet
      <3> QED
        BY <3>1, <3>3, <2>4
    <2>6. TopSet(stack, stack', Master, f) /\ FrameShape'
      <3>1. call'.pc = "idle"
        BY <1>3 DEF Idle
      <3> QED
        BY <3>1, <2>1, <2>2, <2>4, <2>5, <1>1, <1>3, TopStep DEF IInv
    <2>7. Uncounted(c) = 0 /\ Owed(c) = 0 /\ ~Loose(c) /\ begun[c] = 0
      <3>1. PICK p \in 0 .. UintMod - 1, n \in 0 .. UintMod - 1 : p = task[c].nPred /\ n = task[c].nHard
        BY <1>4, TaskTypes DEF IInv
      <3>2. Uncounted(c) = 0 /\ ~Overtaken(c) /\ Owed(c) = p
        BY <3>1, <1>3 DEF Uncounted, Overtaken, Owed
      <3>3. p <= n /\ 3 * n < UintMod
        BY <3>1, <3>2, <1>4 DEF IInv, Counts
      <3>4. (p + n) % UintMod = (UintMod - n) % UintMod
        BY <3>1, <1>4, <1>9 DEF DagIsReady
      <3>5. n = 0
        BY <3>3, <3>4, ReadyTest
      <3>6. p = 0
        BY <3>3, <3>5
      <3>7. ~Loose(c) /\ begun[c] = 0
        BY <3>1, <3>5, <1>1, <1>4 DEF IInv, Quiet
      <3> QED
        BY <3>2, <3>6, <3>7
    <2>8. Cleared(c)
      BY <2>7, <1>4, <1>6, NothingOwed
    <2>9. Nowhere(stack, c)
      <3> SUFFICES ASSUME NEW x \in Executors, NEW d \in Nat, NEW i \in Nat, Place(stack, c, x, d, i) PROVE FALSE
        BY DEF Nowhere
      <3>1. Runs
        BY DEF IInv
      <3>2. i # 0
        BY <3>1, <2>7, <1>4 DEF Runs
      <3>3. InFrames(c)
        BY <3>2 DEF InFrames
      <3> QED
        BY <3>3, <2>7 DEF Loose
    <2>10. Gains(h, f, c)
      <3>1. Hold(h) = <<>> /\ Hold(f) = <<c>>
        BY <2>4, <2>5 DEF Hold
      <3>2. Append(<<>>, c) = <<c>>
        OBVIOUS
      <3> QED
        BY <3>1, <3>2 DEF Gains
    <2>11. /\ OnePlace(stack')
           /\ \A t, x, d, i : Place(stack', t, x, d, i) => Place(stack, t, x, d, i) \/ (t = c /\ i \in ReadyPlaces)
      <3>1. PICK stk \in [Executors -> Seq(FrameSet)] : stk = stack
        BY DEF IInv, TypeOK
      <3>2. PICK stk2 : stk2 = stack'
        OBVIOUS
      <3>3. PICK e \in Executors : e = Master
        BY <2>2
      <3>4. /\ TopSet(stk, stk2, e, f) /\ h = stk[e][Len(stk[e])] /\ Nowhere(stk, c) /\ OnePlace(stk)
            /\ f.pc = "main" <=> h.pc = "main"
            /\ f \in FrameSet /\ f.task = h.task /\ c \in Tasks
        BY <3>1, <3>2, <3>3, <2>3, <2>4, <2>5, <2>6, <2>9, <1>4 DEF IInv
      <3>5. Grown(stk, stk2, c)
        BY <3>4, <2>10, GrowPlaces
      <3> QED
        BY <3>1, <3>2, <3>5 DEF Grown
    <2>12. Runs'
      <3>1. Runs
        BY DEF IInv
      <3>2. ASSUME NEW t \in Tasks, NEW x \in Executors, NEW d \in Nat, NEW i \in Nat, Place(stack', t, x, d, i)
            PROVE  /\ queue'[t] = 0
                   /\ begun'[t] = 1 <=> i = 0
                   /\ i = 0 => /\ Kind[t] = "dynamic"
                               /\ stack'[x][d].pc = "func" <=> ended'[t] = 0
        <4>1. CASE Place(stack, t, x, d, i)
          <5>1. /\ queue[t] = 0
                /\ begun[t] = 1 <=> i = 0
                /\ i = 0 => Kind[t] = "dynamic" /\ (stack[x][d].pc = "func" <=> ended[t] = 0)
            BY <3>1, <4>1 DEF Runs
          <5>2. d \in DOMAIN stack[x]
            BY <4>1 DEF Place
          <5>3. stack'[x][d].pc = stack[x][d].pc
            BY <5>2, <2>3, <2>4, <2>5, <2>6 DEF TopSet
          <5> QED
            BY <5>1, <5>3, <1>3
        <4>2. CASE t = c /\ i \in ReadyPlaces
          <5>1. queue[c] = 0
            BY <2>7, <1>4, TaskTypes DEF Loose, IInv
          <5> QED
            BY <4>2, <5>1, <2>7, <1>3 DEF ReadyPlaces
        <4> QED
          BY <4>1, <4>2, <3>2, <2>11
      <3> QED
        BY <3>1, <3>2, <1>3 DEF Runs
    <2>13. \A t \in Tasks : Loose(t)' => Loose(t) \/ t = c
      <3>1. ASSUME NEW t \in Tasks, InFrames(t)' PROVE InFrames(t) \/ t = c
        BY <3>1, <2>11 DEF InFrames
      <3> QED
        BY <3>1, <1>3 DEF Loose
    <2>14. \A p \in Tasks, s \in Seq(Tasks) : Listed(p, s)' => Listed(p, s)
      BY <2>2, <2>3, <2>4, <2>5, <2>6, <1>3, ListsSame
    <2>15. OnePlace(stack)' /\ stack' \in [Executors -> Seq(FrameSet)]
      BY <2>6, <2>11 DEF TopSet
    <2> QED
      BY <2>6, <2>7, <2>8, <2>12, <2>13, <2>14, <2>15, <1>1, <1>3, <1>4, <1>6, <1>7, DoneStep
  <1> QED
    BY <1>8, <1>9

-----------------------------------------------------------------------------
(* The specification *)

\* A disciplined program makes no static graph and no unknown dependency.
LEMMA NotHere ==
    ASSUME IInv
    PROVE  /\ ~NodeProcessDepError /\ ~SgraphAddDepDone /\ ~GraphAddSgraphTask /\ ~SgraphAddNode
           /\ ~SgraphAddDep /\ ~SgraphDestroy
  <1>1. ~NodeProcessDepError
    <2> SUFFICES ASSUME call.deps # <<>>, Head(call.deps).type = "BAD" PROVE FALSE
      BY DEF NodeProcessDepError
    <2>1. call.deps \in Seq(DepSet)
      BY DEF IInv, TypeOK, CallSet
    <2>2. Head(call.deps) \in DepSet
      BY <2>1, Members
    <2> QED
      BY <2>2 DEF DepSet
  <1>2. ~SgraphAddDepDone
    <2> SUFFICES ASSUME call.pc = "deps", prog[ip].op = "sgraph_add_dep" PROVE FALSE
      BY DEF SgraphAddDepDone, DagDone, InDag
    <2> QED
      BY DEF IInv, CallShape
  <1>3. ASSUME NEW op, AtCall(op) PROVE op \in {"add_task", "wait", "test", "destroy"}
    <2>1. ip \in Nat /\ ip >= 1 /\ Len(prog) \in Nat /\ DOMAIN prog = 1 .. Len(prog)
      BY Submissions DEF IInv, TypeOK
    <2>2. ip \in DOMAIN prog /\ prog[ip].op = op
      BY <2>1, <1>3 DEF AtCall
    <2> QED
      BY <2>2 DEF IInv, Disciplined
  <1>4. ~GraphAddSgraphTask /\ ~SgraphAddNode /\ ~SgraphAddDep /\ ~SgraphDestroy
    BY <1>3 DEF GraphAddSgraphTask, SgraphAddNode, SgraphAddDep, SgraphDestroy
  <1> QED
    BY <1>1, <1>2, <1>4

\* Nothing happens.
LEMMA StutterStep == ASSUME IInv, UNCHANGED vars PROVE IInv'
  <1>1. /\ prog' = prog /\ team' = team /\ ip' = ip /\ call' = call /\ task' = task /\ entry' = entry
        /\ queue' = queue /\ stack' = stack /\ begun' = begun /\ ended' = ended
    BY DEF vars, program, dagVars, schedVars, history
  <1>2. TypeOK'
    BY <1>1 DEF IInv, TypeOK
  <1>3. FrameShape' /\ OnePlace(stack)' /\ Runs'
    BY <1>1 DEF IInv, FrameShape, Runs
  <1>4. ExecKept
    BY <1>1 DEF ExecKept, EndedKept
  <1>5. \A p \in Tasks : (Waits(p) <=> Waits(p)') /\ \A s \in Seq(Tasks) : Listed(p, s)' => Listed(p, s)
    <2>1. \A p \in Tasks : Waits(p) <=> Waits(p)'
      BY <1>1 DEF Waits
    <2> QED
      BY <2>1, <1>1 DEF Listed
  <1>6. \A t \in Tasks : Loose(t)' \/ begun'[t] = 1 => Loose(t) \/ begun[t] = 1
    BY <1>1 DEF Loose, InFrames
  <1> QED
    BY <1>1, <1>2, <1>3, <1>4, <1>5, <1>6, QuietStep

\* The program begins in order: nothing is submitted.
LEMMA Start == ASSUME Init, Disciplined PROVE IInv
  <1>1. PICK p \in Programs : prog = p.calls /\ team = p.team
    BY DEF Init
  <1>2. /\ ip = 1 /\ call = Idle /\ task = [t \in Tasks |-> NoTask] /\ entry = <<>>
        /\ queue = [t \in Tasks |-> 0]
        /\ stack = [e \in Executors |-> IF e = Master THEN <<Frame(None, "main", <<>>)>> ELSE <<>>]
        /\ begun = [t \in Tasks |-> 0] /\ ended = [t \in Tasks |-> 0]
    BY DEF Init
  <1>3. Master \in team /\ Master \in Executors /\ Len(prog) \in Nat /\ DOMAIN prog = 1 .. Len(prog)
    BY <1>1, ProgramsAssumption, ExecutorsAssumption DEF Disciplined
  <1>4. 0 \in 0 .. UintMod - 1 /\ UintMod \in Nat \ {0}
    BY BoundsAssumption
  <1>5. call.pc = "idle" /\ call \in CallSet
    <2>1. <<>> \in Seq(OpSet) /\ <<>> \in Seq(DepSet)
      OBVIOUS
    <2> QED
      BY <2>1, <1>2, <1>4 DEF Idle, CallSet
  <1>6. /\ NoTask \in TaskSet /\ ~NoTask.finished /\ NoTask.nPred = 0 /\ NoTask.nHard = 0 /\ NoTask.succ = <<>>
    <2>1. <<>> \in Seq(Tasks)
      OBVIOUS
    <2> QED
      BY <2>1, <1>4 DEF NoTask, TaskSet
  <1>7. PICK f : f = Frame(None, "main", <<>>)
    OBVIOUS
  <1>8. f \in FrameSet /\ f.pc = "main" /\ f.todo = <<>> /\ Hold(f) = <<>>
    <2>1. <<>> \in Seq(Tasks)
      OBVIOUS
    <2> QED
      BY <2>1, <1>7 DEF Frame, FrameSet, Hold
  <1>9. /\ stack \in [Executors -> Seq(FrameSet)] /\ stack[Master] = <<f>>
        /\ \A e \in Executors : e # Master => stack[e] = <<>>
    BY <1>2, <1>3, <1>7, <1>8
  <1>10. /\ stack[Master] # <<>> /\ Len(stack[Master]) = 1 /\ stack[Master][1] = f
         /\ \A e \in Executors : \A d \in DOMAIN stack[e] : e = Master /\ d = 1 /\ stack[e][d] = f
    BY <1>9
  <1>11. TypeOK
    <2>1. ip \in 1 .. Len(prog) + 1
      BY <1>2, <1>3
    <2>2. DOMAIN entry \subseteq Addrs \cup {AllAddr} /\ entry \in [DOMAIN entry -> EntrySet]
      BY <1>2
    <2>3. /\ task \in [Tasks -> TaskSet] /\ queue \in [Tasks -> {0, 1}] /\ begun \in [Tasks -> {0, 1}]
          /\ ended \in [Tasks -> {0, 1}]
      BY <1>2, <1>6
    <2> QED
      BY <2>1, <2>2, <2>3, <1>3, <1>5, <1>9 DEF TypeOK
  <1>12. CallShape /\ Quiet /\ Submitting
    BY <1>5 DEF CallShape, Quiet, Submitting, Building
  <1>13. FrameShape
    BY <1>3, <1>5, <1>8, <1>9, <1>10 DEF FrameShape, Shape
  <1>14. \A t, e, d, i : ~Place(stack, t, e, d, i)
    BY <1>8, <1>10 DEF Place
  <1>15. OnePlace(stack)
    BY <1>14 DEF OnePlace
  <1>16. \A t \in Tasks : task[t] = NoTask /\ queue[t] = 0 /\ begun[t] = 0 /\ ended[t] = 0
    BY <1>2
  <1>17. Runs
    BY <1>6, <1>14, <1>16 DEF Runs
  <1>18. \A t \in Tasks : ~Loose(t)
    BY <1>14, <1>16 DEF Loose, InFrames
  <1>19. Counts
    <2> SUFFICES ASSUME NEW t \in Tasks
                 PROVE  /\ 3 * (task[t].nHard + Uncounted(t)) < UintMod
                        /\ task[t].nPred <= task[t].nHard
                        /\ IsFiniteSet(Pend(t)) /\ Cardinality(Pend(t)) <= Owed(t)
      BY DEF Counts
    <2>1. Uncounted(t) = 0
      BY <1>5 DEF Uncounted
    <2>2. Owed(t) = 0 /\ task[t].nHard = 0 /\ task[t].nPred = 0
      BY <2>1, <1>6, <1>16 DEF Owed, Overtaken
    <2>3. \A x \in Tasks : \A s : Listed(x, s) => s = <<>>
      BY <1>6, <1>8, <1>10, <1>16 DEF Listed
    <2>4. \A k : ~FromEnd(<<>>, k, t)
      BY DEF FromEnd
    <2>5. Pend(t) = {}
      BY <2>3, <2>4 DEF Pend, EdgeAt
    <2>6. IsFiniteSet({}) /\ Cardinality({}) = 0
      BY FS_EmptySet
    <2> QED
      BY <2>1, <2>2, <2>5, <2>6, <1>4
  <1>20. Ready
    BY <1>16, <1>18 DEF Ready
  <1>21. Fresh
    BY <1>16 DEF Fresh
  <1>22. \A i \in DOMAIN prog : ~(i < ip)
    BY <1>2, <1>3
  <1>23. OrderKept /\ HashLeads
    BY <1>22 DEF OrderKept, Old, AddAt, Adds, HashLeads, LeadsIn
  <1>24. HashHolds
    BY <1>2 DEF HashHolds, HoldsIn
  <1> QED
    BY <1>11, <1>12, <1>13, <1>15, <1>17, <1>19, <1>20, <1>21, <1>23, <1>24 DEF IInv

\* Every step keeps the invariant while the edges being made are the only ones to
\* their task that other executors can release.
LEMMA NextStep == ASSUME IInv, RaceFree, [Next]_vars PROVE IInv'
  <1>1. CASE DagStep
    BY <1>1, NotHere, NodeProcessDepStep, NodeProcessDepOutStep, GnodeRefStep, GnodeDerefStep, GnodePrecedeLockStep,
       GnodePrecedeInsertStep, GnodePrecedeCountStep, GraphAddTaskDoneStep, DestroyDoneStep DEF DagStep
  <1>2. CASE CallStep
    BY <1>2, NotHere, GraphAddTaskStep, GraphDestroyStep, GraphWaitStep, GraphTestStep DEF CallStep
  <1>3. CASE \E e \in Executors : ExecutorStep(e)
    BY <1>3, ExecutorSteps
  <1>4. CASE UNCHANGED vars
    BY <1>4, StutterStep
  <1> QED
    BY <1>1, <1>2, <1>3, <1>4 DEF Next

\* The invariant says what DependenciesRespected does of a dynamic graph.
LEMMA InOrder == ASSUME IInv PROVE DependenciesRespected
  <1> SUFFICES ASSUME NEW u \in Tasks, NEW t \in Tasks, begun[t] > ended[u], MustPrecede(u, t) PROVE FALSE
    BY DEF DependenciesRespected
  <1>1. begun[t] \in {0, 1} /\ ended[u] \in {0, 1}
    BY DEF IInv, TypeOK
  <1>2. begun[t] = 1 /\ ended[u] = 0
    BY <1>1
  <1>3. Cleared(t)
    BY <1>2 DEF IInv, Ready
  <1> QED
    BY <1>2, <1>3 DEF Cleared

\* The inductive invariant holds in every behaviour of a disciplined program in
\* which no edge is raced (kupl_gnode_precede against
\* kupl_gnode_release_ready_safe): what every submission has asked for is in the
\* hash, in an edge, in a count or already returned.
THEOREM SpecIInv == Spec /\ Disciplined /\ []RaceFree => []IInv
  <1>1. Init /\ Disciplined => IInv
    BY Start
  <1>2. IInv /\ RaceFree /\ [Next]_vars => IInv'
    BY NextStep
  <1> QED
    BY <1>1, <1>2, PTL DEF Spec

\* No function of a dynamic graph starts before the functions its dependencies
\* name have returned: kupl_dag_add_task finds each of them through the hash, and
\* the counts of kupl_gnode_precede hold the task back until the last one has
\* released it, on any number of executors, in any order of their steps.
THEOREM SpecDependenciesRespected == Spec /\ Disciplined /\ []RaceFree => []DependenciesRespected
  <1>1. IInv => DependenciesRespected
    BY InOrder
  <1> QED
    BY <1>1, SpecIInv, PTL

-----------------------------------------------------------------------------
(* The references to a task are counted, so that nothing freed is reached:   *)
(* the conditions.                                                           *)

\* a submission names an address once, or asks for all
NamesOnce ==
    \A i \in DOMAIN prog : Adds(i) /\ ~AllAt(i) =>
        \A j, k \in DOMAIN prog[i].deps : prog[i].deps[j].addr = prog[i].deps[k].addr => j = k

\* An edge that others may release is made after the hash counted its reference
\* to the task: a new writer is counted after its edges (kupl_dag.cpp:74).
HeldByHash ==
    NextOp("precede") /\ ~task[OpTask].finished /\ team # {Master} => task[call.task].ref > 1

-----------------------------------------------------------------------------
(* References *)

\* how often x is in a list
Occ(s, x) == Cardinality({i \in DOMAIN s : s[i] = x})

\* the references of the hash: an entry, its writers, its readers
EntryRefs(ent, t) == (IF ent.out = t THEN 1 ELSE 0) + Occ(ent.in, t)
Outs(hash, t) == {a \in DOMAIN hash : hash[a].out = t}
Ins(hash, t) == UNION {{<<a, i>> : i \in {j \in DOMAIN hash[a].in : hash[a].in[j] = t}} : a \in DOMAIN hash}
HashRefs(hash, t) == Cardinality(Outs(hash, t)) + Cardinality(Ins(hash, t))
Lacks(ent, t) == ent.out # t /\ t \notin Elems(ent.in)

\* a task's own reference, and those Master has still to count or drop
Own(t) == IF ended[t] = 0 \/ Running(t) THEN 1 ELSE 0
Pending(do, t) == Occ(call.ops, Op(do, t))

Counted ==
    \A t \in Tasks : Known(t) =>
        /\ task[t].ref + Pending("ref", t) = Own(t) + HashRefs(entry, t) + Pending("deref", t)
        /\ task[t].life = IF task[t].ref > 0 THEN "live" ELSE "freed"

\* A reference that is still to be counted is not the only one.
Backed ==
    /\ \A t \in Tasks : t # call.task /\ Pending("ref", t) > 0 => HashRefs(entry, t) > Pending("ref", t)
    /\ Building =>
          /\ HashRefs(entry, call.task) >= Pending("ref", call.task)
          /\ \/ team = {Master}
             \/ task[call.task].nHard = 0 /\ call.pc = "deps"
             \/ HashRefs(entry, call.task) > Pending("ref", call.task)

\* The task being submitted is not where the submission still has to look.
NotAhead ==
    Building =>
        /\ \A i, j \in DOMAIN call.deps : i # j => call.deps[i].addr # call.deps[j].addr /\ ~IsAll(call.deps[i])
        /\ \A d \in Elems(call.deps), a \in DOMAIN entry :
              a = d.addr \/ a = AllAddr \/ IsAll(d) => Lacks(entry[a], call.task)
        /\ \A a \in call.addrs : /\ Lacks(entry[a], call.task)
                                 /\ call.deps # <<>> => a # AllAddr
                                 /\ \A d \in Elems(call.deps) : d.addr # a /\ ~IsAll(d)
        /\ Op("deref", call.task) \notin Elems(call.ops)

\* The predecessor of an edge still to be made is held by the hash, or its
\* reference is dropped after the edge.
EdgesHeld ==
    \A k \in DOMAIN call.ops : call.ops[k].do = "precede" =>
        \/ \E a \in DOMAIN entry : ~Lacks(entry[a], call.ops[k].of)
        \/ \E j \in DOMAIN call.ops : j > k /\ call.ops[j] = Op("deref", call.ops[k].of)

\* lists a frame does not use are empty
Tidy(stk) ==
    \A e \in Executors : \A d \in DOMAIN stk[e] :
        LET f == stk[e][d]
        IN  /\ f.pc = "main" => f.task = None
            /\ f.pc \in {"func", "finish", "deref"} => f.todo = <<>>
            /\ f.pc # "release" => f.ready = <<>>

\* between calls nothing is left to do
Settled == call.pc = "idle" => call.task = None /\ call.ops = <<>>

RefInv ==
    /\ NamesOnce /\ IsFiniteSet(DOMAIN entry) /\ Tidy(stack) /\ Settled
    /\ Counted /\ Backed /\ NotAhead /\ EdgesHeld

-----------------------------------------------------------------------------
(* Counting *)

\* f pairs the members of S with those of T.
Pairs(f, S, T) ==
    /\ f \in [S -> T]
    /\ \A a, b \in S : f[a] = f[b] => a = b
    /\ \A t \in T : \E s \in S : f[s] = t

\* A set and its image under a one-to-one map have the same size.
LEMMA SameSize ==
    ASSUME NEW f, NEW S, NEW T, Pairs(f, S, T), IsFiniteSet(S)
    PROVE  IsFiniteSet(T) /\ Cardinality(T) = Cardinality(S)
  <1>1. f \in Bijection(S, T)
    BY DEF Pairs, Bijection, Injection, Surjection, IsInjective
  <1>2. ExistsBijection(S, T)
    BY <1>1 DEF ExistsBijection
  <1> QED
    BY <1>2, FS_Bijection

\* A set in two parts.
LEMMA TwoParts ==
    ASSUME NEW P, NEW Q, IsFiniteSet(P), IsFiniteSet(Q), P \cap Q = {}
    PROVE  IsFiniteSet(P \cup Q) /\ Cardinality(P \cup Q) = Cardinality(P) + Cardinality(Q)
  <1>1. Cardinality(P) \in Nat /\ Cardinality(Q) \in Nat
    BY FS_CardinalityType
  <1>2. IsFiniteSet(P \cup Q) /\ Cardinality(P \cup Q) = Cardinality(P) + Cardinality(Q) - Cardinality(P \cap Q)
    BY FS_Union
  <1>3. Cardinality(P \cap Q) = 0
    BY FS_EmptySet
  <1> QED
    BY <1>1, <1>2, <1>3

\* where x is in s
Spots(s, x) == {i \in DOMAIN s : s[i] = x}

\* The number of times a member is in a list.
LEMMA OccType ==
    ASSUME NEW S, NEW s \in Seq(S), NEW x
    PROVE  /\ IsFiniteSet(Spots(s, x)) /\ Cardinality(Spots(s, x)) = Occ(s, x) /\ Occ(s, x) \in Nat
           /\ Occ(s, x) = 0 <=> x \notin Elems(s)
  <1>1. DOMAIN s = 1 .. Len(s) /\ Len(s) \in Nat
    OBVIOUS
  <1>2. IsFiniteSet(DOMAIN s)
    BY <1>1, FS_Interval
  <1>3. Spots(s, x) \in SUBSET DOMAIN s
    BY DEF Spots
  <1>4. IsFiniteSet(Spots(s, x))
    BY <1>2, <1>3, FS_Subset
  <1>5. Cardinality(Spots(s, x)) = Occ(s, x)
    BY DEF Spots, Occ
  <1>6. Occ(s, x) \in Nat /\ (Occ(s, x) = 0 <=> Spots(s, x) = {})
    BY <1>4, <1>5, FS_CardinalityType, FS_EmptySet
  <1>7. Spots(s, x) = {} <=> x \notin Elems(s)
    BY DEF Spots, Elems
  <1> QED
    BY <1>4, <1>5, <1>6, <1>7

\* Two lists one after the other.
LEMMA OccJoin ==
    ASSUME NEW S, NEW s \in Seq(S), NEW r \in Seq(S), NEW x
    PROVE  Occ(s \o r, x) = Occ(s, x) + Occ(r, x)
  <1>1. PICK q : q = s \o r
    OBVIOUS
  <1>2. /\ q \in Seq(S) /\ DOMAIN q = 1 .. (Len(s) + Len(r)) /\ Len(s) \in Nat /\ Len(r) \in Nat
        /\ DOMAIN s = 1 .. Len(s) /\ DOMAIN r = 1 .. Len(r)
        /\ \A i \in 1 .. Len(s) : q[i] = s[i]
        /\ \A i \in 1 .. Len(r) : q[Len(s) + i] = r[i]
    BY <1>1
  <1>3. PICK n \in Nat, m \in Nat : n = Len(s) /\ m = Len(r)
    BY <1>2
  <1> DEFINE T == {i \in (n + 1) .. (n + m) : q[i] = x}
  <1>4. /\ Spots(s, x) = {i \in 1 .. n : s[i] = x} /\ Spots(r, x) = {i \in 1 .. m : r[i] = x}
        /\ Spots(q, x) = {i \in 1 .. (n + m) : q[i] = x}
    BY <1>2, <1>3 DEF Spots
  <1>5. Spots(q, x) = Spots(s, x) \cup T /\ Spots(s, x) \cap T = {}
    <2>1. \A i : i \in 1 .. (n + m) <=> i \in 1 .. n \/ i \in (n + 1) .. (n + m)
      OBVIOUS
    <2>2. \A i : ~(i \in 1 .. n /\ i \in (n + 1) .. (n + m))
      OBVIOUS
    <2> QED
      BY <1>2, <1>3, <1>4, <2>1, <2>2
  <1>6. IsFiniteSet(T) /\ Cardinality(T) = Cardinality(Spots(r, x))
    <2> DEFINE f == [i \in Spots(r, x) |-> n + i]
    <2>1. \A i \in Spots(r, x) : i \in 1 .. m /\ n + i \in (n + 1) .. (n + m) /\ q[n + i] = x
      BY <1>2, <1>3, <1>4, SMTT(60)
    <2>2. f \in [Spots(r, x) -> T]
      BY <2>1
    <2>3. \A a, b \in Spots(r, x) : f[a] = f[b] => a = b
      BY <2>1
    <2>4. \A t \in T : \E i \in Spots(r, x) : f[i] = t
      <3> TAKE t \in T
      <3>1. t - n \in 1 .. m /\ n + (t - n) = t /\ q[t] = x
        OBVIOUS
      <3>2. r[t - n] = x
        BY <3>1, <1>2, <1>3
      <3>3. t - n \in Spots(r, x)
        BY <3>1, <3>2, <1>4
      <3> QED
        BY <3>1, <3>3
    <2> HIDE DEF f
    <2> QED
      <3>1. Pairs(f, Spots(r, x), T)
        BY <2>2, <2>3, <2>4 DEF Pairs
      <3>2. IsFiniteSet(Spots(r, x))
        BY OccType
      <3> QED
        BY <3>1, <3>2, SameSize
  <1> HIDE DEF T
  <1>7. IsFiniteSet(Spots(s, x)) /\ Cardinality(Spots(s, x)) = Occ(s, x) /\ Cardinality(Spots(r, x)) = Occ(r, x)
    BY OccType
  <1>8. Cardinality(Spots(q, x)) = Occ(q, x)
    BY <1>2, OccType
  <1>9. Cardinality(Spots(s, x) \cup T) = Cardinality(Spots(s, x)) + Cardinality(T)
    BY <1>5, <1>6, <1>7, TwoParts
  <1> QED
    BY <1>1, <1>5, <1>6, <1>7, <1>8, <1>9

\* Lists of no and of one member.
LEMMA OccOne ==
    ASSUME NEW x, NEW y
    PROVE  Occ(<<>>, x) = 0 /\ Occ(<<y>>, x) = IF y = x THEN 1 ELSE 0
  <1>1. Occ(<<>>, x) = 0
    BY FS_EmptySet DEF Occ
  <1>2. {i \in DOMAIN <<y>> : <<y>>[i] = x} = IF y = x THEN {1} ELSE {}
    OBVIOUS
  <1>3. Occ(<<y>>, x) = IF y = x THEN 1 ELSE 0
    BY <1>2, FS_Singleton, FS_EmptySet DEF Occ
  <1> QED
    BY <1>1, <1>3

\* A list without its first member, and with one more.
LEMMA OccHead ==
    ASSUME NEW S, NEW s \in Seq(S), NEW x
    PROVE  /\ s # <<>> => Occ(s, x) = Occ(Tail(s), x) + IF Head(s) = x THEN 1 ELSE 0
           /\ \A y \in S : Occ(<<y>> \o s, x) = Occ(s, x) + IF y = x THEN 1 ELSE 0
  <1>1. ASSUME NEW y \in S, NEW r \in Seq(S)
        PROVE  Occ(<<y>> \o r, x) = Occ(r, x) + IF y = x THEN 1 ELSE 0
    <2>1. <<y>> \in Seq(S)
      OBVIOUS
    <2>2. Occ(<<y>> \o r, x) = Occ(<<y>>, x) + Occ(r, x)
      BY <2>1, OccJoin
    <2>3. Occ(r, x) \in Nat
      BY OccType
    <2> QED
      BY <2>2, <2>3, OccOne
  <1>2. ASSUME s # <<>> PROVE Occ(s, x) = Occ(Tail(s), x) + IF Head(s) = x THEN 1 ELSE 0
    <2>1. Head(s) \in S /\ Tail(s) \in Seq(S) /\ s = <<Head(s)>> \o Tail(s)
      BY <1>2
    <2> QED
      BY <2>1, <1>1
  <1> QED
    BY <1>1, <1>2

\* where the hash h has t, in the entries of D
OutsOf(h, D, t) == {a \in D : h[a].out = t}
InsOf(h, D, t) == UNION {{<<a, i>> : i \in Spots(h[a].in, t)} : a \in D}

\* The references of one entry.
LEMMA EntryRefsType ==
    ASSUME NEW ent \in EntrySet, NEW t
    PROVE  EntryRefs(ent, t) \in Nat /\ (EntryRefs(ent, t) = 0 <=> Lacks(ent, t)) /\ Occ(ent.in, t) \in Nat
  <1>1. ent.in \in Seq(Tasks)
    BY DEF EntrySet
  <1>2. Occ(ent.in, t) \in Nat /\ (Occ(ent.in, t) = 0 <=> t \notin Elems(ent.in))
    BY <1>1, OccType
  <1> QED
    BY <1>2 DEF EntryRefs, Lacks

\* The readers t is among, in finitely many entries.
LEMMA InsFinite ==
    ASSUME NEW h, NEW D, IsFiniteSet(D), \A b \in D : h[b] \in EntrySet, NEW t
    PROVE  IsFiniteSet(InsOf(h, D, t)) /\ IsFiniteSet(OutsOf(h, D, t))
  <1> DEFINE F(b) == {<<b, i>> : i \in Spots(h[b].in, t)}
             S == {F(b) : b \in D}
  <1>1. IsFiniteSet(S)
    <2> DEFINE f == [b \in D |-> F(b)]
    <2>1. f \in [D -> S]
      OBVIOUS
    <2>2. \A x \in S : \E b \in D : f[b] = x
      OBVIOUS
    <2>3. f \in Surjection(D, S)
      BY <2>1, <2>2 DEF Surjection
    <2> QED
      BY <2>3, FS_Surjection
  <1>2. ASSUME NEW b \in D PROVE IsFiniteSet(F(b))
    <2>1. h[b].in \in Seq(Tasks)
      BY DEF EntrySet
    <2>2. IsFiniteSet(Spots(h[b].in, t))
      BY <2>1, OccType
    <2> DEFINE f == [i \in Spots(h[b].in, t) |-> <<b, i>>]
    <2>3. f \in [Spots(h[b].in, t) -> F(b)] /\ \A x \in F(b) : \E i \in Spots(h[b].in, t) : f[i] = x
      OBVIOUS
    <2>4. f \in Surjection(Spots(h[b].in, t), F(b))
      BY <2>3 DEF Surjection
    <2> QED
      BY <2>2, <2>4, FS_Surjection
  <1>3. \A x \in S : IsFiniteSet(x)
    BY <1>2
  <1>4. IsFiniteSet(UNION S)
    BY <1>1, <1>3, FS_UNION
  <1>5. InsOf(h, D, t) = UNION S
    BY DEF InsOf
  <1>6. OutsOf(h, D, t) \in SUBSET D
    BY DEF OutsOf
  <1> QED
    BY <1>4, <1>5, <1>6, FS_Subset

\* One entry more.
LEMMA EntryMore ==
    ASSUME NEW h, NEW D, IsFiniteSet(D), \A b \in D : h[b] \in EntrySet, NEW a, a \notin D, h[a] \in EntrySet, NEW t
    PROVE  Cardinality(OutsOf(h, D \cup {a}, t)) + Cardinality(InsOf(h, D \cup {a}, t))
              = Cardinality(OutsOf(h, D, t)) + Cardinality(InsOf(h, D, t)) + EntryRefs(h[a], t)
  <1> DEFINE N == {<<a, i>> : i \in Spots(h[a].in, t)}
  <1>1. IsFiniteSet(Spots(h[a].in, t)) /\ Cardinality(Spots(h[a].in, t)) = Occ(h[a].in, t) /\ Occ(h[a].in, t) \in Nat
    <2>1. h[a].in \in Seq(Tasks)
      BY DEF EntrySet
    <2> QED
      BY <2>1, OccType
  <1>2. IsFiniteSet(N) /\ Cardinality(N) = Occ(h[a].in, t)
    <2> DEFINE f == [i \in Spots(h[a].in, t) |-> <<a, i>>]
    <2>1. f \in [Spots(h[a].in, t) -> N]
      OBVIOUS
    <2>2. \A x, y \in Spots(h[a].in, t) : f[x] = f[y] => x = y
      OBVIOUS
    <2>3. \A x \in N : \E i \in Spots(h[a].in, t) : f[i] = x
      OBVIOUS
    <2> HIDE DEF f, N
    <2> QED
      <3>1. Pairs(f, Spots(h[a].in, t), N)
        BY <2>1, <2>2, <2>3 DEF Pairs
      <3> QED
        BY <3>1, <1>1, SameSize
  <1>3. IsFiniteSet(InsOf(h, D, t)) /\ IsFiniteSet(OutsOf(h, D, t))
    BY InsFinite
  <1>4. Cardinality(InsOf(h, D, t)) \in Nat /\ Cardinality(OutsOf(h, D, t)) \in Nat
    BY <1>3, FS_CardinalityType
  <1>5. InsOf(h, D \cup {a}, t) = InsOf(h, D, t) \cup N
    BY DEF InsOf
  <1>6. InsOf(h, D, t) \cap N = {}
    BY DEF InsOf
  <1> HIDE DEF N
  <1>7. Cardinality(InsOf(h, D \cup {a}, t)) = Cardinality(InsOf(h, D, t)) + Occ(h[a].in, t)
    BY <1>2, <1>3, <1>5, <1>6, TwoParts
  <1>8. OutsOf(h, D \cup {a}, t) = IF h[a].out = t THEN OutsOf(h, D, t) \cup {a} ELSE OutsOf(h, D, t)
    BY DEF OutsOf
  <1>9. a \notin OutsOf(h, D, t)
    BY DEF OutsOf
  <1>10. Cardinality(OutsOf(h, D \cup {a}, t)) = Cardinality(OutsOf(h, D, t)) + IF h[a].out = t THEN 1 ELSE 0
    <2>1. PICK P : P = OutsOf(h, D, t)
      OBVIOUS
    <2>2. Cardinality(P \cup {a}) = Cardinality(P) + 1
      BY <2>1, <1>3, <1>9, FS_AddElement
    <2>3. OutsOf(h, D \cup {a}, t) = IF h[a].out = t THEN P \cup {a} ELSE P
      BY <2>1, <1>8
    <2>4. CASE h[a].out = t
      BY <2>1, <2>2, <2>3, <2>4
    <2>5. CASE h[a].out # t
      BY <2>1, <2>3, <2>5, <1>4
    <2> QED
      BY <2>4, <2>5
  <1> QED
    BY <1>1, <1>4, <1>7, <1>10 DEF EntryRefs

\* The references of the whole hash.
LEMMA HashRefsAre ==
    ASSUME NEW h, IsFiniteSet(DOMAIN h), h \in [DOMAIN h -> EntrySet], NEW t
    PROVE  /\ HashRefs(h, t) = Cardinality(OutsOf(h, DOMAIN h, t)) + Cardinality(InsOf(h, DOMAIN h, t))
           /\ HashRefs(h, t) \in Nat
           /\ HashRefs(h, t) = 0 <=> \A a \in DOMAIN h : Lacks(h[a], t)
  <1>1. Outs(h, t) = OutsOf(h, DOMAIN h, t)
    BY DEF Outs, OutsOf
  <1>2. Ins(h, t) = InsOf(h, DOMAIN h, t)
    BY DEF Ins, InsOf, Spots
  <1>3. IsFiniteSet(InsOf(h, DOMAIN h, t)) /\ IsFiniteSet(OutsOf(h, DOMAIN h, t))
    BY InsFinite
  <1>4. /\ Cardinality(InsOf(h, DOMAIN h, t)) \in Nat /\ Cardinality(OutsOf(h, DOMAIN h, t)) \in Nat
        /\ Cardinality(InsOf(h, DOMAIN h, t)) = 0 <=> InsOf(h, DOMAIN h, t) = {}
        /\ Cardinality(OutsOf(h, DOMAIN h, t)) = 0 <=> OutsOf(h, DOMAIN h, t) = {}
    BY <1>3, FS_CardinalityType, FS_EmptySet
  <1>5. OutsOf(h, DOMAIN h, t) = {} <=> \A a \in DOMAIN h : h[a].out # t
    BY DEF OutsOf
  <1>6. InsOf(h, DOMAIN h, t) = {} <=> \A a \in DOMAIN h : t \notin Elems(h[a].in)
    <2>1. ASSUME NEW a \in DOMAIN h, NEW i \in DOMAIN h[a].in, h[a].in[i] = t PROVE <<a, i>> \in InsOf(h, DOMAIN h, t)
      <3>1. i \in Spots(h[a].in, t)
        BY <2>1 DEF Spots
      <3> QED
        BY <3>1 DEF InsOf
    <2>2. ASSUME NEW x \in InsOf(h, DOMAIN h, t) PROVE \E a \in DOMAIN h : t \in Elems(h[a].in)
      <3>1. PICK a \in DOMAIN h : \E i \in Spots(h[a].in, t) : x = <<a, i>>
        BY DEF InsOf
      <3>2. PICK i \in Spots(h[a].in, t) : x = <<a, i>>
        BY <3>1
      <3>3. i \in DOMAIN h[a].in /\ h[a].in[i] = t
        BY <3>2 DEF Spots
      <3> QED
        BY <3>3 DEF Elems
    <2>3. \A a \in DOMAIN h : t \in Elems(h[a].in) => \E i \in DOMAIN h[a].in : h[a].in[i] = t
      BY DEF Elems
    <2> QED
      BY <2>1, <2>2, <2>3
  <1> QED
    BY <1>1, <1>2, <1>4, <1>5, <1>6 DEF HashRefs, Lacks

\* One entry is made or replaced.
LEMMA HashUpdate ==
    ASSUME NEW h, IsFiniteSet(DOMAIN h), h \in [DOMAIN h -> EntrySet], NEW a, NEW g, g \in [DOMAIN g -> EntrySet],
           DOMAIN g = DOMAIN h \cup {a}, \A b \in DOMAIN h : b # a => g[b] = h[b]
    PROVE  /\ IsFiniteSet(DOMAIN g)
           /\ \A t : HashRefs(g, t) = HashRefs(h, t) + EntryRefs(g[a], t)
                                      - IF a \in DOMAIN h THEN EntryRefs(h[a], t) ELSE 0
  <1>1. IsFiniteSet(DOMAIN g)
    BY FS_AddElement
  <1>2. ASSUME NEW t
        PROVE  HashRefs(g, t) = HashRefs(h, t) + EntryRefs(g[a], t) - IF a \in DOMAIN h THEN EntryRefs(h[a], t) ELSE 0
    <2>1. PICK D : D = DOMAIN h \ {a}
      OBVIOUS
    <2>2. IsFiniteSet(D) /\ a \notin D /\ D \cup {a} = DOMAIN g
      BY <2>1, FS_RemoveElement
    <2>3. (\A b \in D : h[b] \in EntrySet /\ g[b] \in EntrySet /\ g[b] = h[b]) /\ g[a] \in EntrySet
      BY <2>1
    <2>4. OutsOf(g, D, t) = OutsOf(h, D, t) /\ InsOf(g, D, t) = InsOf(h, D, t)
      <3>1. OutsOf(g, D, t) = OutsOf(h, D, t)
        BY <2>3 DEF OutsOf
      <3>2. InsOf(g, D, t) = InsOf(h, D, t)
        BY <2>3 DEF InsOf
      <3> QED
        BY <3>1, <3>2
    <2>5. PICK n : n = Cardinality(OutsOf(h, D, t)) + Cardinality(InsOf(h, D, t))
      OBVIOUS
    <2>6. n \in Nat
      BY <2>2, <2>3, <2>5, InsFinite, FS_CardinalityType
    <2>7. HashRefs(g, t) = n + EntryRefs(g[a], t)
      <3>1. HashRefs(g, t) = Cardinality(OutsOf(g, D \cup {a}, t)) + Cardinality(InsOf(g, D \cup {a}, t))
        BY <1>1, <2>2, HashRefsAre
      <3> QED
        BY <3>1, <2>2, <2>3, <2>4, <2>5, EntryMore
    <2>8. EntryRefs(g[a], t) \in Nat
      BY <2>3, EntryRefsType
    <2>9. CASE a \in DOMAIN h
      <3>1. h[a] \in EntrySet /\ D \cup {a} = DOMAIN h
        BY <2>9, <2>1
      <3>2. HashRefs(h, t) = n + EntryRefs(h[a], t)
        BY <3>1, <2>2, <2>3, <2>5, EntryMore, HashRefsAre
      <3>3. EntryRefs(h[a], t) \in Nat
        BY <3>1, EntryRefsType
      <3> QED
        BY <3>2, <3>3, <2>6, <2>7, <2>8, <2>9
    <2>10. CASE a \notin DOMAIN h
      <3>1. HashRefs(h, t) = n
        BY <2>10, <2>1, <2>5, HashRefsAre
      <3> QED
        BY <3>1, <2>6, <2>7, <2>8, <2>10
    <2> QED
      BY <2>9, <2>10
  <1> QED
    BY <1>1, <1>2

-----------------------------------------------------------------------------
(* What the operations on tasks do to the counts *)

\* A call on one task, or on none.
LEMMA OneOp ==
    ASSUME NEW u \in Tasks \cup {None}, NEW x \in {"ref", "deref", "precede"}
    PROVE  /\ OpOn(x, u) \in Seq(OpSet)
           /\ \A t \in Tasks : \A y : Occ(OpOn(x, u), Op(y, t)) = IF x = y /\ u = t THEN 1 ELSE 0
           /\ \A k \in DOMAIN OpOn(x, u) : k = 1 /\ u \in Tasks /\ OpOn(x, u)[k] = Op(x, u)
           /\ u \in Tasks => 1 \in DOMAIN OpOn(x, u)
  <1>1. None \notin Tasks
    BY TasksAssumption
  <1>2. CASE u = None
    <2>1. OpOn(x, u) = <<>>
      BY <1>2 DEF OpOn
    <2>2. \A t, y : Occ(OpOn(x, u), Op(y, t)) = 0
      BY <2>1, OccOne
    <2>3. OpOn(x, u) \in Seq(OpSet) /\ DOMAIN OpOn(x, u) = {}
      BY <2>1
    <2>4. u \notin Tasks /\ \A t \in Tasks : u # t
      BY <1>1, <1>2
    <2> QED
      BY <2>2, <2>3, <2>4
  <1>3. CASE u # None
    <2>1. OpOn(x, u) = <<Op(x, u)>>
      BY <1>3 DEF OpOn
    <2>2. Op(x, u) \in OpSet /\ (\A y, t : Op(x, u) = Op(y, t) <=> x = y /\ u = t) /\ u \in Tasks
      BY <1>3 DEF Op, OpSet
    <2>3. PICK o : o = Op(x, u)
      OBVIOUS
    <2>4. /\ <<o>> \in Seq(OpSet) /\ DOMAIN <<o>> = {1} /\ <<o>>[1] = o
      BY <2>2, <2>3
    <2>5. ASSUME NEW t \in Tasks, NEW y PROVE Occ(<<o>>, Op(y, t)) = IF x = y /\ u = t THEN 1 ELSE 0
      <3>1. Occ(<<o>>, Op(y, t)) = IF o = Op(y, t) THEN 1 ELSE 0
        BY OccOne
      <3> QED
        BY <3>1, <2>2, <2>3
    <2> QED
      BY <2>1, <2>2, <2>3, <2>4, <2>5
  <1> QED
    BY <1>2, <1>3

\* the first part of node_process_dep_out: the readers, or the last writer
ReaderOps(ent, node) ==
    IF node = None THEN [i \in DOMAIN ent.in |-> Op("deref", ent.in[i])]
    ELSE IF ent.in = <<>> THEN OpOn("precede", ent.out)
    ELSE [i \in 1 .. 2 * Len(ent.in) |-> IF i % 2 = 1 THEN Op("precede", ent.in[(i + 1) \div 2])
                                         ELSE Op("deref", ent.in[i \div 2])]

\* Two operations are the same only if they do the same to the same task.
LEMMA OpsDiffer ==
    ASSUME NEW x, NEW y, NEW u, NEW t
    PROVE  (Op(x, u) = Op(y, t) <=> x = y /\ u = t) /\ Op(x, u).do = x /\ Op(x, u).of = u
  BY DEF Op

\* The readers of an entry are dropped once each, after the edge from them.
LEMMA ReaderOpsAre ==
    ASSUME NEW ent \in EntrySet, NEW node \in Tasks \cup {None}, NEW t \in Tasks,
           NEW r, r = ReaderOps(ent, node)
    PROVE  /\ r \in Seq(OpSet)
           /\ Occ(r, Op("deref", t)) = Occ(ent.in, t) /\ Occ(r, Op("ref", t)) = 0
           /\ \A k \in DOMAIN r : r[k].do = "precede" =>
                  \/ r[k].of = ent.out /\ ent.out \in Tasks
                  \/ k + 1 \in DOMAIN r /\ r[k + 1] = Op("deref", r[k].of)
  <1>1. PICK s \in Seq(Tasks), n \in Nat : s = ent.in /\ n = Len(s) /\ DOMAIN s = 1 .. n
    BY DEF EntrySet
  <1>2. ent.out \in Tasks \cup {None}
    BY DEF EntrySet
  <1>3. /\ Cardinality(Spots(s, t)) = Occ(s, t) /\ IsFiniteSet(Spots(s, t))
        /\ \A i : i \in Spots(s, t) <=> i \in 1 .. n /\ s[i] = t
    <2>1. Cardinality(Spots(s, t)) = Occ(s, t) /\ IsFiniteSet(Spots(s, t))
      BY OccType
    <2> QED
      BY <1>1, <2>1 DEF Spots
  <1>4. ASSUME r \in Seq(OpSet), \A k \in DOMAIN r : r[k].do # "ref" PROVE Occ(r, Op("ref", t)) = 0
    <2>1. Op("ref", t) \notin Elems(r)
      BY <1>4, OpsDiffer DEF Elems
    <2> QED
      BY <1>4, <2>1, OccType
  <1>5. CASE node = None
    <2>1. r = [i \in 1 .. n |-> Op("deref", s[i])]
      BY <1>1, <1>5 DEF ReaderOps
    <2>2. \A i \in 1 .. n : Op("deref", s[i]) \in OpSet
      BY <1>1 DEF Op, OpSet
    <2>3. r \in Seq(OpSet) /\ DOMAIN r = 1 .. n /\ \A i \in 1 .. n : r[i] = Op("deref", s[i])
      BY <2>1, <2>2
    <2> HIDE <2>1
    <2>4. Spots(r, Op("deref", t)) = Spots(s, t)
      BY <1>1, <2>3, OpsDiffer DEF Spots
    <2>5. Occ(r, Op("deref", t)) = Cardinality(Spots(r, Op("deref", t)))
      BY DEF Occ, Spots
    <2>6. \A k \in DOMAIN r : r[k].do = "deref"
      BY <2>3, OpsDiffer
    <2> QED
      BY <1>1, <1>3, <1>4, <2>3, <2>4, <2>5, <2>6
  <1>6. CASE node # None /\ s = <<>>
    <2>1. r = OpOn("precede", ent.out)
      BY <1>1, <1>6 DEF ReaderOps
    <2>2. r \in Seq(OpSet) /\ Occ(r, Op("deref", t)) = 0 /\ Occ(r, Op("ref", t)) = 0
      BY <2>1, <1>2, OneOp, SMTT(60)
    <2>3. Occ(s, t) = 0
      BY <1>6, OccOne
    <2>4. ASSUME NEW k \in DOMAIN r PROVE r[k].of = ent.out /\ ent.out \in Tasks
      <3>1. ent.out \in Tasks /\ r[k] = Op("precede", ent.out)
        BY <2>1, <1>2, OneOp
      <3> QED
        BY <3>1, OpsDiffer
    <2> QED
      BY <1>1, <2>2, <2>3, <2>4
  <1>7. CASE node # None /\ s # <<>>
    <2>1. PICK m \in Nat : m = 2 * n
      OBVIOUS
    <2>2. r = [i \in 1 .. m |-> IF i % 2 = 1 THEN Op("precede", s[(i + 1) \div 2]) ELSE Op("deref", s[i \div 2])]
      BY <1>1, <1>7, <2>1 DEF ReaderOps
    <2>3. \A i \in 1 .. m : IF i % 2 = 1 THEN (i + 1) \div 2 \in 1 .. n ELSE i \div 2 \in 1 .. n
      BY <2>1
    <2>4. \A i \in 1 .. n : \A x \in {"precede", "deref"} : Op(x, s[i]) \in OpSet
      BY <1>1 DEF Op, OpSet
    <2>5. /\ DOMAIN r = 1 .. m
          /\ \A i \in 1 .. m : r[i] = IF i % 2 = 1 THEN Op("precede", s[(i + 1) \div 2]) ELSE Op("deref", s[i \div 2])
      BY <2>2
    <2>6. r \in Seq(OpSet)
      <3>1. \A i \in 1 .. m : r[i] \in OpSet
        BY <2>3, <2>4, <2>5
      <3>2. r \in [1 .. m -> OpSet]
        BY <2>2, <3>1
      <3> HIDE <2>2
      <3> QED
        BY <3>2
    <2> HIDE <2>2
    <2>7. Occ(r, Op("deref", t)) = Occ(s, t)
      <3>1. PICK T : T = Spots(r, Op("deref", t))
        OBVIOUS
      <3>2. \A k : k \in T <=> k \in 1 .. m /\ k % 2 # 1 /\ s[k \div 2] = t
        BY <3>1, <2>5, OpsDiffer DEF Spots
      <3> DEFINE f == [i \in Spots(s, t) |-> 2 * i]
      <3>3. \A i \in 1 .. n : 2 * i \in 1 .. m /\ (2 * i) % 2 # 1 /\ (2 * i) \div 2 = i
        BY <2>1
      <3>4. f \in [Spots(s, t) -> T]
        BY <3>2, <3>3, <1>3
      <3>5. \A a, b \in Spots(s, t) : f[a] = f[b] => a = b
        BY <1>3
      <3>6. \A k \in 1 .. m : k % 2 # 1 => k \div 2 \in 1 .. n /\ 2 * (k \div 2) = k
        BY <2>1
      <3>7. \A k \in T : \E i \in Spots(s, t) : f[i] = k
        <4> TAKE k \in T
        <4>1. k \in 1 .. m /\ k % 2 # 1 /\ s[k \div 2] = t
          BY <3>2
        <4>2. k \div 2 \in Spots(s, t) /\ 2 * (k \div 2) = k
          BY <4>1, <3>6, <1>3
        <4> QED
          BY <4>2
      <3> HIDE DEF f
      <3>8. Cardinality(T) = Cardinality(Spots(s, t))
        <4>1. Pairs(f, Spots(s, t), T)
          BY <3>4, <3>5, <3>7 DEF Pairs
        <4>2. IsFiniteSet(Spots(s, t))
          BY <1>3
        <4> QED
          BY <4>1, <4>2, SameSize
      <3>9. Occ(r, Op("deref", t)) = Cardinality(T)
        BY <3>1 DEF Occ, Spots
      <3> QED
        BY <3>8, <3>9, <1>3
    <2>8. \A k \in DOMAIN r : r[k].do # "ref"
      BY <2>5, OpsDiffer
    <2>9. ASSUME NEW k \in DOMAIN r, r[k].do = "precede" PROVE k + 1 \in DOMAIN r /\ r[k + 1] = Op("deref", r[k].of)
      <3>1. k \in 1 .. m /\ k % 2 = 1 /\ r[k] = Op("precede", s[(k + 1) \div 2])
        BY <2>5, <2>9, OpsDiffer
      <3>2. k + 1 \in 1 .. m /\ (k + 1) % 2 # 1
        BY <2>1, <3>1
      <3> QED
        BY <2>5, <3>1, <3>2, OpsDiffer
    <2> QED
      BY <1>1, <1>4, <2>6, <2>7, <2>8, <2>9
  <1> QED
    BY <1>5, <1>6, <1>7

\* An operation that follows a list stays behind what the list has before it.
EdgesFollowed(s) ==
    \A k \in DOMAIN s : s[k].do = "precede" => \E j \in DOMAIN s : j > k /\ s[j] = Op("deref", s[k].of)

\* node_process_dep_out drops every reference of the entry, after the edges from
\* the tasks it drops, and takes one on the new writer.
LEMMA DepOutCounts ==
    ASSUME NEW ent \in EntrySet, NEW node \in Tasks \cup {None}, NEW ops, ops = DepOutOps(ent, node)
    PROVE  /\ ops \in Seq(OpSet) /\ EdgesFollowed(ops)
           /\ \A t \in Tasks : /\ Occ(ops, Op("deref", t)) = EntryRefs(ent, t)
                               /\ Occ(ops, Op("ref", t)) = IF node = t THEN 1 ELSE 0
  <1>1. PICK r, b, c : r = ReaderOps(ent, node) /\ b = OpOn("deref", ent.out) /\ c = OpOn("ref", node)
    OBVIOUS
  <1>2. ops = (r \o b) \o c
    BY <1>1 DEF DepOutOps, ReaderOps
  <1>3. ent.out \in Tasks \cup {None} /\ None \notin Tasks
    BY TasksAssumption DEF EntrySet
  <1>4. b \in Seq(OpSet) /\ c \in Seq(OpSet)
    BY <1>1, <1>3, OneOp
  <1>5. r \in Seq(OpSet) /\ \A k \in DOMAIN r : r[k].do = "precede" =>
                  \/ r[k].of = ent.out /\ ent.out \in Tasks
                  \/ k + 1 \in DOMAIN r /\ r[k + 1] = Op("deref", r[k].of)
    <2>1. CASE \E t : t \in Tasks
      BY <2>1, <1>1, ReaderOpsAre
    <2>2. CASE ~\E t : t \in Tasks
      <3>1. node = None /\ ent.in = <<>>
        BY <2>2 DEF EntrySet
      <3>2. r = <<>>
        BY <3>1, <1>1 DEF ReaderOps
      <3> QED
        BY <3>2
    <2> QED
      BY <2>1, <2>2
  <1>6. PICK q : q = r \o b
    OBVIOUS
  <1>7. q \in Seq(OpSet) /\ ops = q \o c /\ ops \in Seq(OpSet)
    BY <1>2, <1>4, <1>5, <1>6
  <1>8. ASSUME NEW t \in Tasks
        PROVE  /\ Occ(ops, Op("deref", t)) = EntryRefs(ent, t)
               /\ Occ(ops, Op("ref", t)) = IF node = t THEN 1 ELSE 0
    <2>1. Occ(r, Op("deref", t)) = Occ(ent.in, t) /\ Occ(r, Op("ref", t)) = 0
      BY <1>1, ReaderOpsAre
    <2>2. Occ(b, Op("deref", t)) = (IF ent.out = t THEN 1 ELSE 0) /\ Occ(b, Op("ref", t)) = 0
      <3>1. \A y : Occ(OpOn("deref", ent.out), Op(y, t)) = IF "deref" = y /\ ent.out = t THEN 1 ELSE 0
        BY <1>3, OneOp
      <3> QED
        BY <3>1, <1>1
    <2>3. Occ(c, Op("deref", t)) = 0 /\ Occ(c, Op("ref", t)) = IF node = t THEN 1 ELSE 0
      BY <1>1, <1>3, OneOp, SMTT(60)
    <2>4. ASSUME NEW y PROVE Occ(ops, y) = Occ(q, y) + Occ(c, y) /\ Occ(q, y) = Occ(r, y) + Occ(b, y)
      <3>1. Occ(q \o c, y) = Occ(q, y) + Occ(c, y)
        BY <1>4, <1>7, OccJoin
      <3>2. Occ(r \o b, y) = Occ(r, y) + Occ(b, y)
        BY <1>4, <1>5, OccJoin
      <3> QED
        BY <3>1, <3>2, <1>6, <1>7
    <2>5. Occ(ent.in, t) \in Nat
      BY EntryRefsType
    <2> QED
      BY <2>1, <2>2, <2>3, <2>4, <2>5 DEF EntryRefs
  <1>9. /\ DOMAIN r = 1 .. Len(r) /\ Len(r) \in Nat /\ DOMAIN b = 1 .. Len(b) /\ Len(b) \in Nat
        /\ DOMAIN c = 1 .. Len(c) /\ Len(c) \in Nat
        /\ DOMAIN ops = 1 .. (Len(r) + Len(b) + Len(c))
        /\ \A i \in 1 .. Len(r) : ops[i] = r[i]
        /\ \A i \in 1 .. Len(b) : ops[Len(r) + i] = b[i]
        /\ \A i \in 1 .. Len(c) : ops[Len(r) + Len(b) + i] = c[i]
    BY <1>2, <1>4, <1>5
  <1>10. EdgesFollowed(ops)
    <2> SUFFICES ASSUME NEW k \in DOMAIN ops, ops[k].do = "precede"
                 PROVE  \E j \in DOMAIN ops : j > k /\ ops[j] = Op("deref", ops[k].of)
      BY DEF EdgesFollowed
    <2>1. PICK n \in Nat, m \in Nat, l \in Nat : n = Len(r) /\ m = Len(b) /\ l = Len(c)
      BY <1>9
    <2>2. \/ k \in 1 .. n
          \/ k - n \in 1 .. m /\ ops[k] = b[k - n]
          \/ k - n - m \in 1 .. l /\ ops[k] = c[k - n - m]
      <3>1. k \in 1 .. (n + m + l)
        BY <1>9, <2>1
      <3>2. k \in 1 .. n \/ (k - n \in 1 .. m /\ k = n + (k - n)) \/ (k - n - m \in 1 .. l /\ k = n + m + (k - n - m))
        BY <3>1
      <3> QED
        BY <3>2, <2>1, <1>9
    <2>3. ASSUME NEW i \in DOMAIN b PROVE b[i].do = "deref"
      <3>1. ent.out \in Tasks /\ b[i] = Op("deref", ent.out)
        BY <1>1, <1>3, OneOp
      <3> QED
        BY <3>1, OpsDiffer
    <2>4. ASSUME NEW i \in DOMAIN c PROVE c[i].do = "ref"
      <3>1. node \in Tasks /\ c[i] = Op("ref", node)
        BY <1>1, <1>3, OneOp
      <3> QED
        BY <3>1, OpsDiffer
    <2>5. k \in 1 .. n /\ ops[k] = r[k]
      BY <2>1, <2>2, <2>3, <2>4, <1>9
    <2>6. CASE r[k].of = ent.out /\ ent.out \in Tasks
      <3>1. 1 \in DOMAIN b /\ b[1] = Op("deref", ent.out)
        BY <2>6, <1>1, OneOp
      <3>2. 1 \in 1 .. m
        BY <3>1, <2>1, <1>9
      <3>3. n + 1 \in 1 .. (n + m + l) /\ n + 1 > k
        BY <3>2, <2>5
      <3>4. n + 1 \in DOMAIN ops /\ ops[n + 1] = b[1]
        BY <3>2, <3>3, <2>1, <1>9
      <3> QED
        BY <3>1, <3>3, <3>4, <2>5, <2>6
    <2>7. CASE k + 1 \in DOMAIN r /\ r[k + 1] = Op("deref", r[k].of)
      <3>1. k + 1 \in DOMAIN ops /\ ops[k + 1] = r[k + 1] /\ k + 1 > k
        BY <2>7, <2>1, <2>5, <1>9
      <3> QED
        BY <3>1, <2>5, <2>7
    <2> QED
      <3>1. k \in DOMAIN r /\ r[k].do = "precede"
        BY <2>1, <2>5, <1>9
      <3> QED
        BY <3>1, <2>6, <2>7, <1>5
  <1> QED
    BY <1>7, <1>8, <1>10

\* The lookup of an address moves the reference of the last ALL task as it says: a
\* task it refers to once more is in the hash already.
LEMMA LookupCounts ==
    ASSUME TypeOK, IsFiniteSet(DOMAIN entry), NEW a \in Addrs \cup {AllAddr},
           NEW h, h = Lookup(a).hash, NEW ops, ops = Lookup(a).ops
    PROVE  /\ IsFiniteSet(DOMAIN h) /\ ops \in Seq(OpSet)
           /\ \A t \in Tasks :
                 /\ HashRefs(h, t) + Occ(ops, Op("deref", t)) = HashRefs(entry, t) + Occ(ops, Op("ref", t))
                 /\ Occ(ops, Op("ref", t)) > 0 => HashRefs(entry, t) > 0 /\ Occ(ops, Op("deref", t)) = 0
  <1>1. PICK w : w = LastAll(a)
    OBVIOUS
  <1>2. /\ DOMAIN h = DOMAIN entry \cup {a} /\ h \in [DOMAIN h -> EntrySet] /\ ops \in Seq(OpSet)
        /\ w \in Tasks \cup {None}
        /\ w # None => AllAddr \in DOMAIN entry /\ a # AllAddr /\ w = entry[AllAddr].out
    <2>1. LookupGives(a, h, ops, w) /\ w \in Tasks \cup {None}
          /\ (w # None => AllAddr \in DOMAIN entry /\ a # AllAddr /\ w = entry[AllAddr].out)
      BY <1>1, LookupIs
    <2> QED
      BY <2>1 DEF LookupGives
  <1>3. entry \in [DOMAIN entry -> EntrySet] /\ None \notin Tasks
    BY TasksAssumption DEF TypeOK
  <1>4. IsFiniteSet(DOMAIN h)
    BY <1>2, FS_AddElement
  <1>5. \A t : HashRefs(entry, t) \in Nat
    BY <1>3, HashRefsAre
  <1>6. \A t \in Tasks : \A x : Occ(<<Op(x, w)>>, Op("ref", t)) = (IF x = "ref" /\ w = t THEN 1 ELSE 0)
                             /\ Occ(<<Op(x, w)>>, Op("deref", t)) = (IF x = "deref" /\ w = t THEN 1 ELSE 0)
    BY OccOne, OpsDiffer
  <1>7. \A y : Occ(<<>>, y) = 0
    BY OccOne
  <1>8. ASSUME NEW u PROVE \A t : EntryRefs([out |-> u, in |-> <<>>], t) = IF u = t THEN 1 ELSE 0
    BY <1>7 DEF EntryRefs
  <1>9. ASSUME NEW g, IsFiniteSet(DOMAIN g), g \in [DOMAIN g -> EntrySet], DOMAIN g = DOMAIN entry, a \notin DOMAIN entry,
               NEW u \in Tasks \cup {None}, h = HashInsert(g, a, [out |-> u, in |-> <<>>])
        PROVE  \A t \in Tasks : HashRefs(h, t) = HashRefs(g, t) + IF u = t THEN 1 ELSE 0
    <2>1. h[a] = [out |-> u, in |-> <<>>] /\ \A b \in DOMAIN g : h[b] = g[b]
      BY <1>9 DEF HashInsert
    <2>2. \A t : HashRefs(h, t) = HashRefs(g, t) + EntryRefs(h[a], t) - IF a \in DOMAIN g THEN EntryRefs(g[a], t) ELSE 0
      <3>1. DOMAIN h = DOMAIN g \cup {a}
        BY <1>2, <1>9
      <3>2. \A b \in DOMAIN g : b # a => h[b] = g[b]
        BY <2>1
      <3>3. IsFiniteSet(DOMAIN g) /\ g \in [DOMAIN g -> EntrySet] /\ h \in [DOMAIN h -> EntrySet]
        BY <1>2, <1>9
      <3> QED
        BY <3>1, <3>2, <3>3, HashUpdate
    <2>3. \A t : HashRefs(g, t) \in Nat
      BY <1>9, HashRefsAre
    <2> QED
      BY <2>1, <2>2, <2>3, <1>8, <1>9
  <1>10. EmptyEntry = [out |-> None, in |-> <<>>]
    BY DEF EmptyEntry
  <1>11. CASE a \in DOMAIN entry
    <2>1. h = entry /\ ops = <<>>
      BY <1>11 DEF Lookup
    <2> QED
      BY <2>1, <1>2, <1>4, <1>5, <1>7
  <1>12. CASE a \notin DOMAIN entry /\ w = None
    <2>1. h = HashInsert(entry, a, EmptyEntry) /\ ops = <<>>
      BY <1>12, <1>1 DEF Lookup, LastAll
    <2>2. \A t \in Tasks : HashRefs(h, t) = HashRefs(entry, t) + IF None = t THEN 1 ELSE 0
      BY <2>1, <1>3, <1>9, <1>10, <1>12
    <2> QED
      BY <2>1, <2>2, <1>2, <1>3, <1>4, <1>5, <1>7
  <1>13. CASE a \notin DOMAIN entry /\ w # None /\ task[w].finished
    <2>1. PICK old \in EntrySet : old = entry[AllAddr]
      BY <1>2, <1>3, <1>13
    <2>2. PICK new \in EntrySet : new = [old EXCEPT !.out = None] /\ new.out = None /\ new.in = old.in
      <3>1. PICK new : new = [old EXCEPT !.out = None]
        OBVIOUS
      <3>2. new \in EntrySet /\ new.out = None /\ new.in = old.in
        BY <3>1 DEF EntrySet
      <3> QED
        BY <3>1, <3>2
    <2>3. PICK g : g = [entry EXCEPT ![AllAddr] = new]
      OBVIOUS
    <2>4. /\ g \in [DOMAIN g -> EntrySet] /\ DOMAIN g = DOMAIN entry /\ g[AllAddr] = new
          /\ \A b \in DOMAIN entry : b # AllAddr => g[b] = entry[b]
      BY <2>3, <1>2, <1>3, <1>13
    <2>5. h = HashInsert(g, a, EmptyEntry) /\ ops = <<Op("deref", w)>>
      BY <1>1, <1>13, <2>1, <2>2, <2>3 DEF Lookup, LastAll
    <2>6. \A t \in Tasks : HashRefs(h, t) = HashRefs(g, t) + IF None = t THEN 1 ELSE 0
      BY <2>4, <2>5, <1>9, <1>10, <1>13
    <2>7. AllAddr \in DOMAIN entry /\ DOMAIN g = DOMAIN entry \cup {AllAddr}
      BY <2>4, <1>2, <1>13
    <2>8. \A t : HashRefs(g, t) = HashRefs(entry, t) + EntryRefs(new, t) - EntryRefs(old, t)
      <3>1. DOMAIN g = DOMAIN entry \cup {AllAddr} /\ \A b \in DOMAIN entry : b # AllAddr => g[b] = entry[b]
        BY <2>4, <2>7
      <3>2. \A t : HashRefs(g, t) = HashRefs(entry, t) + EntryRefs(g[AllAddr], t)
                                    - IF AllAddr \in DOMAIN entry THEN EntryRefs(entry[AllAddr], t) ELSE 0
        BY <3>1, <2>4, <1>3, HashUpdate
      <3> QED
        BY <3>2, <2>1, <2>4, <2>7
    <2>9. old.out = w
      BY <2>1, <1>2, <1>13
    <2>10. \A t \in Tasks : EntryRefs(old, t) = EntryRefs(new, t) + IF w = t THEN 1 ELSE 0
      <3>1. \A t : Occ(old.in, t) \in Nat
        BY EntryRefsType
      <3> QED
        BY <3>1, <2>2, <2>9, <1>3 DEF EntryRefs
    <2>11. \A t : EntryRefs(new, t) \in Nat
      BY EntryRefsType
    <2> QED
      BY <2>5, <2>6, <2>8, <2>10, <2>11, <1>2, <1>3, <1>4, <1>5, <1>6
  <1>14. CASE a \notin DOMAIN entry /\ w # None /\ ~task[w].finished
    <2>1. h = HashInsert(entry, a, [out |-> w, in |-> <<>>]) /\ ops = <<Op("ref", w)>>
      BY <1>14, <1>1 DEF Lookup, LastAll
    <2>2. \A t \in Tasks : HashRefs(h, t) = HashRefs(entry, t) + IF w = t THEN 1 ELSE 0
      BY <2>1, <1>2, <1>3, <1>9, <1>14
    <2>3. HashRefs(entry, w) > 0
      <3>1. ~Lacks(entry[AllAddr], w)
        BY <1>2, <1>14 DEF Lacks
      <3>2. HashRefs(entry, w) # 0
        BY <3>1, <1>2, <1>3, <1>14, HashRefsAre
      <3> QED
        BY <3>2, <1>5
    <2> QED
      BY <2>1, <2>2, <2>3, <1>2, <1>4, <1>5, <1>6
  <1> QED
    BY <1>11, <1>12, <1>13, <1>14

-----------------------------------------------------------------------------
(* The frames *)

\* a frame is of t
RunIn(stk, t) == \E e \in Executors : \E d \in DOMAIN stk[e] : stk[e][d].task = t

TidyFrame(f) ==
    /\ f.pc = "main" => f.task = None
    /\ f.pc \in {"func", "finish", "deref"} => f.todo = <<>>
    /\ f.pc # "release" => f.ready = <<>>

\* The frames of all executors.
LEMMA RunningIs ==
    /\ \A t : Running(t) <=> RunIn(stack, t)
    /\ \A t : Running(t)' <=> RunIn(stack', t)
    /\ \A stk : Tidy(stk) <=> \A e \in Executors : \A d \in DOMAIN stk[e] : TidyFrame(stk[e][d])
  BY DEF Running, RunIn, Frames, Elems, Tidy, TidyFrame

\* The innermost frame of e becomes f, of the same task.
LEMMA TopTidy ==
    ASSUME TypeOK, Tidy(stack), NEW e \in Executors, stack[e] # <<>>, NEW f, NEW stk,
           stk = [stack EXCEPT ![e][Len(stack[e])] = f], f.task = Top(e).task, TidyFrame(f)
    PROVE  Tidy(stk) /\ \A t : RunIn(stk, t) <=> RunIn(stack, t)
  <1>1. /\ stack[e] \in Seq(FrameSet) /\ Len(stack[e]) \in DOMAIN stack[e] /\ Top(e) = stack[e][Len(stack[e])]
        /\ stack \in [Executors -> Seq(FrameSet)]
    BY Tops DEF TypeOK
  <1>2. PICK s : s = [stack[e] EXCEPT ![Len(stack[e])] = f]
    OBVIOUS
  <1>3. DOMAIN s = DOMAIN stack[e] /\ \A d \in DOMAIN s : s[d] = IF d = Len(stack[e]) THEN f ELSE stack[e][d]
    BY <1>1, <1>2
  <1>4. stk = [stack EXCEPT ![e] = s]
    BY <1>2
  <1>5. \A x \in Executors : stk[x] = IF x = e THEN s ELSE stack[x]
    BY <1>1, <1>4
  <1>6. \A x \in Executors : /\ DOMAIN stk[x] = DOMAIN stack[x]
                             /\ \A d \in DOMAIN stk[x] : /\ stk[x][d].task = stack[x][d].task
                                                         /\ stk[x][d] = f \/ stk[x][d] = stack[x][d]
    BY <1>1, <1>3, <1>5
  <1>7. \A t : RunIn(stk, t) <=> RunIn(stack, t)
    BY <1>6 DEF RunIn
  <1>8. Tidy(stk)
    <2>1. \A x \in Executors : \A d \in DOMAIN stk[x] : TidyFrame(stk[x][d])
      BY <1>6, RunningIs
    <2> QED
      BY <2>1, RunningIs
  <1> QED
    BY <1>7, <1>8

\* e calls kupl_task_invoke on t.
LEMMA PushTidy ==
    ASSUME NEW mid \in [Executors -> Seq(FrameSet)], Tidy(mid), NEW e \in Executors, NEW t \in Tasks, NEW stk,
           NEW g, g = Frame(t, "func", <<>>), Pushed(mid, stk, e, g)
    PROVE  Tidy(stk) /\ \A u : RunIn(stk, u) <=> RunIn(mid, u) \/ u = t
  <1>1. g.task = t /\ g.pc = "func" /\ g.ready = <<>> /\ g.todo = <<>>
    BY DEF Frame
  <1>3. /\ \A x \in Executors : \A d \in DOMAIN stk[x] :
              \/ x = e /\ d = Len(mid[e]) + 1 /\ stk[x][d] = g
              \/ d \in DOMAIN mid[x] /\ stk[x][d] = mid[x][d]
        /\ \A x \in Executors : \A d \in DOMAIN mid[x] : d \in DOMAIN stk[x] /\ stk[x][d] = mid[x][d]
        /\ Len(mid[e]) + 1 \in DOMAIN stk[e] /\ stk[e][Len(mid[e]) + 1] = g
    BY DEF Pushed
  <1>4. \A u : RunIn(stk, u) <=> RunIn(mid, u) \/ u = t
    BY <1>1, <1>3 DEF RunIn
  <1>5. TidyFrame(g)
    BY <1>1 DEF TidyFrame
  <1>6. \A x \in Executors : \A d \in DOMAIN stk[x] : TidyFrame(stk[x][d])
    BY <1>3, <1>5, RunningIs
  <1> QED
    BY <1>4, <1>6, RunningIs

\* kupl_task_invoke returns.
LEMMA PopTidy ==
    ASSUME Tidy(stack), NEW e \in Executors, NEW stk, Popped(stack, stk, e)
    PROVE  /\ Tidy(stk)
           /\ \A t : RunIn(stk, t) <=> \E x \in Executors : \E d \in DOMAIN stack[x] :
                                          stack[x][d].task = t /\ ~(x = e /\ d = Len(stack[e]))
  <1>2. /\ \A x \in Executors : \A d \in DOMAIN stk[x] :
              d \in DOMAIN stack[x] /\ stk[x][d] = stack[x][d] /\ ~(x = e /\ d = Len(stack[e]))
        /\ \A x \in Executors : \A d \in DOMAIN stack[x] :
              ~(x = e /\ d = Len(stack[e])) => d \in DOMAIN stk[x] /\ stk[x][d] = stack[x][d]
    BY DEF Popped
  <1>3. \A x \in Executors : \A d \in DOMAIN stk[x] : TidyFrame(stk[x][d])
    BY <1>2, RunningIs
  <1>4. \A t : RunIn(stk, t) <=> \E x \in Executors : \E d \in DOMAIN stack[x] :
                                    stack[x][d].task = t /\ ~(x = e /\ d = Len(stack[e]))
    BY <1>2 DEF RunIn
  <1> QED
    BY <1>3, <1>4, RunningIs

-----------------------------------------------------------------------------
(* The steps of executors *)

\* Executors leave the hash and the call of Master alone, and tasks their edges.
ExecRefKept ==
    /\ prog' = prog /\ team' = team /\ call' = call /\ entry' = entry /\ (ip' = ip \/ CallOver)
    /\ \A t \in Tasks : task'[t].nHard = task[t].nHard

\* What is pending, and what is in the hash, stays.
LEMMA ExecRefs ==
    ASSUME IInv, RefInv, ExecRefKept, Tidy(stack'), Counted'
    PROVE  RefInv'
  <1>1. /\ prog' = prog /\ team' = team /\ call' = call /\ entry' = entry /\ (ip' = ip \/ CallOver)
        /\ \A t \in Tasks : task'[t].nHard = task[t].nHard
    BY DEF ExecRefKept
  <1>2. Building <=> Building'
    BY <1>1, SubmittedSame DEF IInv
  <1>3. NamesOnce'
    BY <1>1 DEF RefInv, NamesOnce, AllAt, Adds
  <1>4. Backed'
    <2>1. \A t : HashRefs(entry', t) = HashRefs(entry, t) /\ \A do : Pending(do, t)' = Pending(do, t)
      BY <1>1 DEF Pending
    <2>2. Building => call.task \in Tasks
      BY Submitted DEF Building
    <2>3. ASSUME NEW t \in Tasks, t # call'.task, Pending("ref", t)' > 0 PROVE HashRefs(entry', t) > Pending("ref", t)'
      BY <2>1, <2>3, <1>1 DEF RefInv, Backed
    <2>4. ASSUME Building'
          PROVE  /\ (HashRefs(entry, call.task) >= Pending("ref", call.task))'
                 /\ \/ team' = {Master}
                    \/ task'[call'.task].nHard = 0 /\ call'.pc = "deps"
                    \/ (HashRefs(entry, call.task) > Pending("ref", call.task))'
      <3>1. PICK c \in Tasks : c = call.task
        BY <2>2, <2>4, <1>2
      <3>2. /\ HashRefs(entry, c) >= Pending("ref", c)
            /\ \/ team = {Master}
               \/ task[c].nHard = 0 /\ call.pc = "deps"
               \/ HashRefs(entry, c) > Pending("ref", c)
        BY <2>4, <3>1, <1>2 DEF RefInv, Backed
      <3>3. task'[c].nHard = task[c].nHard
        BY <1>1
      <3> QED
        BY <2>1, <3>1, <3>2, <3>3, <1>1
    <2> QED
      BY <2>3, <2>4, Zenon DEF Backed
  <1>5. NotAhead'
    BY <1>1, <1>2 DEF RefInv, NotAhead
  <1>6. EdgesHeld' /\ Settled' /\ IsFiniteSet(DOMAIN entry')
    BY <1>1 DEF RefInv, EdgesHeld, Settled
  <1> QED
    BY <1>3, <1>4, <1>5, <1>6 DEF RefInv

\* The references stay what they are when the holders do.
LEMMA CountedSame ==
    ASSUME IInv, RefInv, ExecRefKept, \A t \in Tasks : ended'[t] \in {0, 1}, NEW Changed,
           \A t \in Tasks \ Changed : /\ task'[t].ref = task[t].ref /\ task'[t].life = task[t].life
                                      /\ ended'[t] = 0 \/ RunIn(stack', t) <=> ended[t] = 0 \/ RunIn(stack, t)
    PROVE  \A t \in Tasks \ Changed : Known(t)' =>
              /\ task'[t].ref + Pending("ref", t)' = Own(t)' + HashRefs(entry', t) + Pending("deref", t)'
              /\ task'[t].life = IF task'[t].ref > 0 THEN "live" ELSE "freed"
  <1> SUFFICES ASSUME NEW t \in Tasks \ Changed, Known(t)'
               PROVE  /\ task'[t].ref + Pending("ref", t)' = Own(t)' + HashRefs(entry', t) + Pending("deref", t)'
                      /\ task'[t].life = IF task'[t].ref > 0 THEN "live" ELSE "freed"
    OBVIOUS
  <1>1. prog' = prog /\ call' = call /\ entry' = entry /\ (ip' = ip \/ CallOver)
    BY DEF ExecRefKept
  <1>2. Known(t)
    BY <1>1, SubmittedSame DEF IInv
  <1>3. Own(t)' = Own(t)
    BY RunningIs DEF Own
  <1>4. HashRefs(entry', t) = HashRefs(entry, t) /\ Pending("ref", t)' = Pending("ref", t) /\ Pending("deref", t)' = Pending("deref", t)
    BY <1>1 DEF Pending
  <1> QED
    BY <1>2, <1>3, <1>4 DEF RefInv, Counted

\* A step of an executor that starts and ends no task.
LEMMA FrameStep ==
    ASSUME IInv, IInv', RefInv, ExecRefKept, Tidy(stack'),
           \A t \in Tasks : /\ task'[t].ref = task[t].ref /\ task'[t].life = task[t].life
                            /\ ended'[t] = 0 \/ RunIn(stack', t) <=> ended[t] = 0 \/ RunIn(stack, t)
    PROVE  RefInv'
  <1>1. \A t \in Tasks : ended'[t] \in {0, 1}
    BY DEF IInv, TypeOK
  <1>2. Counted'
    BY <1>1, CountedSame DEF Counted
  <1> QED
    BY <1>2, ExecRefs

\* The innermost frame of e changes, and no reference.
LEMMA TopRefs ==
    ASSUME IInv, IInv', RefInv, NEW e \in Executors, stack[e] # <<>>, NEW f,
           stack' = [stack EXCEPT ![e][Len(stack[e])] = f], f.task = Top(e).task, TidyFrame(f),
           prog' = prog, team' = team, call' = call, entry' = entry, ip' = ip,
           \A t \in Tasks : /\ task'[t].ref = task[t].ref /\ task'[t].life = task[t].life
                            /\ task'[t].nHard = task[t].nHard
                            /\ ended'[t] = ended[t] \/ t = f.task
    PROVE  RefInv'
  <1>1. Tidy(stack') /\ \A t : RunIn(stack', t) <=> RunIn(stack, t)
    BY TopTidy DEF IInv, RefInv
  <1>2. RunIn(stack, f.task)
    <2>1. Top(e) = stack[e][Len(stack[e])] /\ Len(stack[e]) \in DOMAIN stack[e]
      BY Tops DEF IInv
    <2> QED
      BY <2>1 DEF RunIn
  <1>3. ExecRefKept
    BY DEF ExecRefKept
  <1>4. ASSUME NEW t \in Tasks PROVE ended'[t] = 0 \/ RunIn(stack', t) <=> ended[t] = 0 \/ RunIn(stack, t)
    BY <1>1, <1>2
  <1> QED
    BY <1>1, <1>3, <1>4, FrameStep

\* The innermost frame of e before its step.
LEMMA TopTidyFrame ==
    ASSUME IInv, RefInv, NEW e \in Executors, stack[e] # <<>>
    PROVE  Top(e) \in FrameSet /\ TidyFrame(Top(e))
  <1>1. Top(e) = stack[e][Len(stack[e])] /\ Len(stack[e]) \in DOMAIN stack[e] /\ Top(e) \in FrameSet
    BY Tops DEF IInv
  <1> QED
    BY <1>1, RunningIs DEF RefInv

\* kupl_tb_count_add.
LEMMA SchedAddTbCountRefs == ASSUME IInv, IInv', RefInv, NEW e \in Executors, SchedAddTbCount(e) PROVE RefInv'
  <1> DEFINE h == Top(e)
             f == [h EXCEPT !.counted = TRUE]
  <1>1. stack[e] # <<>>
    BY DEF SchedAddTbCount, Adding, At
  <1>2. h \in FrameSet /\ TidyFrame(h)
    BY <1>1, TopTidyFrame
  <1>3. f.task = h.task /\ TidyFrame(f)
    BY <1>2 DEF FrameSet, TidyFrame
  <1>4. /\ stack' = [stack EXCEPT ![e][Len(stack[e])] = f]
        /\ prog' = prog /\ team' = team /\ ip' = ip /\ call' = call /\ task' = task /\ entry' = entry /\ ended' = ended
    BY DEF SchedAddTbCount, SetTop, program, dagVars, history
  <1> HIDE DEF f
  <1> QED
    BY <1>1, <1>3, <1>4, TopRefs

\* The user function returns: the task is running until its frame is gone.
LEMMA TaskExecuteRefs == ASSUME IInv, IInv', RefInv, NEW e \in Executors, TaskExecute(e) PROVE RefInv'
  <1> DEFINE h == Top(e)
             f == [h EXCEPT !.pc = "finish"]
  <1>1. stack[e] # <<>> /\ (h.pc = "func" \/ h.pc = "body")
    BY DEF TaskExecute, At
  <1>2. h \in FrameSet /\ TidyFrame(h)
    BY <1>1, TopTidyFrame
  <1>3. h.pc = "func"
    BY <1>1, <1>2 DEF FrameSet
  <1>4. f.task = h.task /\ TidyFrame(f)
    BY <1>2, <1>3 DEF FrameSet, TidyFrame
  <1>5. PICK q \in Tasks : q = h.task
    BY <1>1, <1>3, FrameTask
  <1>6. /\ stack' = [stack EXCEPT ![e][Len(stack[e])] = f]
        /\ prog' = prog /\ team' = team /\ ip' = ip /\ call' = call /\ entry' = entry
        /\ task' = [task EXCEPT ![q].finished = TRUE] /\ ended' = [ended EXCEPT ![q] = @ + 1]
    BY <1>5 DEF TaskExecute, SetTop, program, dagVars
  <1> HIDE DEF f
  <1>7. \A t \in Tasks : /\ task'[t].ref = task[t].ref /\ task'[t].life = task[t].life
                         /\ task'[t].nHard = task[t].nHard
                         /\ ended'[t] = ended[t] \/ t = f.task
    BY <1>4, <1>5, <1>6 DEF IInv, TypeOK, TaskSet
  <1> QED
    BY <1>1, <1>4, <1>6, <1>7, TopRefs

\* kupl_gnode_release_ready_safe takes the list of successors.
LEMMA TaskFinishDynamicRefs == ASSUME IInv, IInv', RefInv, NEW e \in Executors, TaskFinishDynamic(e) PROVE RefInv'
  <1> DEFINE h == Top(e)
             f == [h EXCEPT !.pc = "release", !.todo = task[h.task].succ]
  <1>1. stack[e] # <<>>
    BY DEF TaskFinishDynamic, At
  <1>2. h \in FrameSet /\ TidyFrame(h)
    BY <1>1, TopTidyFrame
  <1>3. f.task = h.task /\ TidyFrame(f)
    BY <1>2 DEF FrameSet, TidyFrame
  <1>4. /\ stack' = [stack EXCEPT ![e][Len(stack[e])] = f]
        /\ prog' = prog /\ team' = team /\ ip' = ip /\ call' = call /\ task' = task /\ entry' = entry /\ ended' = ended
    BY DEF TaskFinishDynamic, SetTop, program, dagVars, history
  <1> HIDE DEF f
  <1> QED
    BY <1>1, <1>3, <1>4, TopRefs

\* gnode_release_ready.
LEMMA GnodeReleaseReadyRefs == ASSUME IInv, IInv', RefInv, NEW e \in Executors, GnodeReleaseReady(e) PROVE RefInv'
  <1> DEFINE h == Top(e)
  <1>1. stack[e] # <<>> /\ h.pc = "release"
    BY DEF GnodeReleaseReady, At
  <1>2. h \in FrameSet /\ TidyFrame(h)
    BY <1>1, TopTidyFrame
  <1>3. prog' = prog /\ team' = team /\ ip' = ip /\ call' = call /\ entry' = entry /\ ended' = ended
    BY DEF GnodeReleaseReady, program, dagVars, history
  <1>4. CASE h.todo = <<>>
    <2> DEFINE f == [h EXCEPT !.pc = "add", !.todo = h.ready, !.ready = <<>>]
    <2>1. f.task = h.task /\ TidyFrame(f)
      BY <1>2 DEF FrameSet, TidyFrame
    <2>2. stack' = [stack EXCEPT ![e][Len(stack[e])] = f] /\ task' = task
      BY <1>4 DEF GnodeReleaseReady, SetTop
    <2> HIDE DEF f
    <2> QED
      BY <2>1, <2>2, <1>1, <1>3, TopRefs
  <1>5. CASE h.todo # <<>>
    <2>1. PICK s : s = Head(h.todo)
      OBVIOUS
    <2> DEFINE f == [h EXCEPT !.todo = Tail(@), !.ready = IF task[s].nPred = 1 THEN Append(@, s) ELSE @]
    <2>2. f.task = h.task /\ TidyFrame(f)
      BY <1>1, <1>2 DEF FrameSet, TidyFrame
    <2>3. stack' = [stack EXCEPT ![e][Len(stack[e])] = f] /\ task' = [task EXCEPT ![s].nPred = Dec(@)]
      BY <1>5, <2>1 DEF GnodeReleaseReady, SetTop
    <2> HIDE DEF f
    <2>4. \A t \in Tasks : task'[t].ref = task[t].ref /\ task'[t].life = task[t].life /\ task'[t].nHard = task[t].nHard
      BY <2>3, SMTT(60) DEF IInv, TypeOK, TaskSet
    <2> QED
      BY <2>2, <2>3, <2>4, <1>1, <1>3, TopRefs
  <1> QED
    BY <1>4, <1>5

\* kupl_tb_count_sub.
LEMMA TaskCountSubRefs == ASSUME IInv, IInv', RefInv, NEW e \in Executors, TaskCountSub(e) PROVE RefInv'
  <1> DEFINE h == Top(e)
             f == [h EXCEPT !.pc = "deref"]
  <1>1. stack[e] # <<>> /\ h.pc = "add" /\ h.todo = <<>>
    BY DEF TaskCountSub, At
  <1>2. h \in FrameSet /\ TidyFrame(h)
    BY <1>1, TopTidyFrame
  <1>3. f.task = h.task /\ TidyFrame(f)
    BY <1>1, <1>2 DEF FrameSet, TidyFrame
  <1>4. /\ stack' = [stack EXCEPT ![e][Len(stack[e])] = f]
        /\ prog' = prog /\ team' = team /\ ip' = ip /\ call' = call /\ task' = task /\ entry' = entry /\ ended' = ended
    BY DEF TaskCountSub, SetTop, program, dagVars, history
  <1> HIDE DEF f
  <1> QED
    BY <1>1, <1>3, <1>4, TopRefs

\* A task that somebody holds has a reference left.
LEMMA Backing ==
    ASSUME IInv, RefInv, NEW t \in Tasks, Known(t)
    PROVE  /\ Own(t) \in {0, 1} /\ HashRefs(entry, t) \in Nat
           /\ Pending("ref", t) \in Nat /\ Pending("deref", t) \in Nat /\ task[t].ref \in Int
           /\ task[t].ref + Pending("ref", t) = Own(t) + HashRefs(entry, t) + Pending("deref", t)
           /\ task[t].life = IF task[t].ref > 0 THEN "live" ELSE "freed"
           /\ \/ task[t].ref >= 1
              \/ /\ t # call.task /\ task[t].ref = 0 /\ Own(t) = 0 /\ HashRefs(entry, t) = 0
                 /\ Pending("ref", t) = 0 /\ Pending("deref", t) = 0
  <1>1. PICK n : n = HashRefs(entry, t)
    OBVIOUS
  <1>2. PICK p, q : p = Pending("ref", t) /\ q = Pending("deref", t)
    OBVIOUS
  <1>3. n \in Nat
    BY <1>1, HashRefsAre DEF IInv, TypeOK, RefInv
  <1>4. p \in Nat /\ q \in Nat
    <2>1. call.ops \in Seq(OpSet)
      BY DEF IInv, TypeOK, CallSet
    <2> QED
      BY <2>1, <1>2, OccType DEF Pending
  <1>5. Own(t) \in {0, 1} /\ task[t].ref \in Int
    BY DEF Own, IInv, TypeOK, TaskSet
  <1>6. /\ task[t].ref + p = Own(t) + n + q
        /\ task[t].life = IF task[t].ref > 0 THEN "live" ELSE "freed"
    BY <1>1, <1>2 DEF RefInv, Counted
  <1>7. CASE t # call.task
    <2>1. p > 0 => n > p
      BY <1>1, <1>2, <1>7 DEF RefInv, Backed
    <2>2. \/ task[t].ref >= 1
          \/ task[t].ref = 0 /\ Own(t) = 0 /\ n = 0 /\ p = 0 /\ q = 0
      <3>1. PICK r \in Int, o \in {0, 1} : r = task[t].ref /\ o = Own(t)
        BY <1>5
      <3>2. r + p = o + n + q
        BY <3>1, <1>6
      <3>3. r >= 1 \/ (r = 0 /\ o = 0 /\ n = 0 /\ p = 0 /\ q = 0)
        BY <3>2, <2>1, <1>3, <1>4
      <3> QED
        BY <3>1, <3>3
    <2> QED
      BY <2>2, <1>1, <1>2, <1>3, <1>4, <1>5, <1>6, <1>7
  <1>8. CASE t = call.task
    <2>1. Building
      <3>1. t # None
        BY TasksAssumption
      <3> QED
        BY <3>1, <1>8 DEF RefInv, Settled, IInv, CallShape, Building
    <2>2. CASE team = {Master} \/ task[t].nHard = 0
      <3>1. begun[t] = 0
        BY <2>1, <2>2, <1>8 DEF IInv, Quiet
      <3>2. ended[t] = 0
        BY <3>1, TaskTypes DEF IInv, Runs
      <3>3. Own(t) = 1 /\ n >= p
        BY <3>2, <2>1, <1>1, <1>2, <1>8 DEF Own, RefInv, Backed
      <3> QED
        BY <3>3, <1>1, <1>2, <1>3, <1>4, <1>5, <1>6
    <2>3. CASE ~(team = {Master} \/ task[t].nHard = 0)
      <3>1. n > p
        BY <2>1, <2>3, <1>1, <1>2, <1>8 DEF RefInv, Backed
      <3> QED
        BY <3>1, <1>1, <1>2, <1>3, <1>4, <1>5, <1>6
    <2> QED
      BY <2>2, <2>3
  <1> QED
    BY <1>7, <1>8

\* A task starts: its own reference has been there since it was created.
LEMMA StartRefs ==
    ASSUME IInv, IInv', RefInv, NEW mid \in [Executors -> Seq(FrameSet)], Tidy(mid),
           \A u : RunIn(mid, u) <=> RunIn(stack, u), NEW e \in Executors, NEW t \in Tasks,
           stack' = [mid EXCEPT ![e] = @ \o <<Frame(t, "func", <<>>)>>],
           prog' = prog, team' = team, call' = call, entry' = entry, ip' = ip \/ CallOver,
           task' = task, ended' = ended
    PROVE  RefInv'
  <1>1. PICK g \in FrameSet : g = Frame(t, "func", <<>>) /\ g.task = t /\ g.pc = "func"
    <2>1. PICK g : g = Frame(t, "func", <<>>)
      OBVIOUS
    <2>2. g \in FrameSet /\ g.task = t /\ g.pc = "func"
      <3>1. <<>> \in Seq(Tasks)
        OBVIOUS
      <3> QED
        BY <2>1, <3>1 DEF Frame, FrameSet
    <2> QED
      BY <2>1, <2>2
  <1>2. Pushed(mid, stack', e, g)
    BY <1>1, PushIs
  <1>3. Tidy(stack') /\ \A u : RunIn(stack', u) <=> RunIn(mid, u) \/ u = t
    <2>1. PICK stk : stk = stack'
      OBVIOUS
    <2>2. Pushed(mid, stk, e, g)
      BY <2>1, <1>2
    <2>3. Tidy(stk) /\ \A u : RunIn(stk, u) <=> RunIn(mid, u) \/ u = t
      BY <2>2, <1>1, PushTidy, SMTT(60)
    <2> QED
      BY <2>1, <2>3
  <1>4. ended[t] = 0
    <2>4. PICK d \in Nat : d \in DOMAIN stack'[e] /\ stack'[e][d] = g
      BY <1>2 DEF Pushed
    <2>5. Place(stack', t, e, d, 0)
      <3>1. stack' \in [Executors -> Seq(FrameSet)]
        BY DEF IInv, TypeOK
      <3> QED
        BY <3>1, <1>1, <2>4, RunPlaces
    <2>6. ended'[t] = 0
      <3>1. Runs'
        BY DEF IInv
      <3>2. \A x \in Executors, b, i \in Nat : Place(stack', t, x, b, i) =>
                  (i = 0 => (stack'[x][b].pc = "func" <=> ended'[t] = 0))
        BY <3>1 DEF Runs
      <3> QED
        BY <3>2, <1>1, <2>4, <2>5
    <2> QED
      BY <2>6
  <1>5. ExecRefKept
    BY DEF ExecRefKept
  <1>6. \A u \in Tasks : ended'[u] = 0 \/ RunIn(stack', u) <=> ended[u] = 0 \/ RunIn(stack, u)
    BY <1>3, <1>4
  <1> QED
    BY <1>3, <1>5, <1>6, FrameStep

\* kupl_sched_execute_tb.
LEMMA SchedExecuteTbRefs ==
    ASSUME IInv, IInv', RefInv, NEW e \in Executors, NEW t \in Tasks, SchedExecuteTb(e, t), ip' = ip \/ CallOver
    PROVE  RefInv'
  <1>1. /\ stack' = [stack EXCEPT ![e] = @ \o <<Frame(t, "func", <<>>)>>]
        /\ prog' = prog /\ team' = team /\ call' = call /\ entry' = entry /\ task' = task /\ ended' = ended
    BY DEF SchedExecuteTb, program, dagVars
  <1>2. stack \in [Executors -> Seq(FrameSet)] /\ Tidy(stack)
    BY DEF IInv, TypeOK, RefInv
  <1> QED
    BY <1>1, <1>2, StartRefs

\* kupl_sched_add_tb, the plugin or the task on the spot.
LEMMA SchedAddTbPushRefs == ASSUME IInv, IInv', RefInv, NEW e \in Executors, SchedAddTbPush(e) PROVE RefInv'
  <1> DEFINE h == Top(e)
             f == [h EXCEPT !.todo = Tail(@), !.counted = FALSE]
  <1>1. stack[e] # <<>> /\ h.todo # <<>> /\ h.pc \in {"main", "body", "add"}
    BY DEF SchedAddTbPush, Adding, At
  <1>2. h \in FrameSet /\ TidyFrame(h)
    BY <1>1, TopTidyFrame
  <1>3. f.task = h.task /\ TidyFrame(f)
    BY <1>1, <1>2 DEF FrameSet, TidyFrame
  <1>4. PICK t \in Tasks : t = Head(h.todo)
    BY <1>1, <1>2 DEF FrameSet
  <1>5. prog' = prog /\ team' = team /\ ip' = ip /\ call' = call /\ task' = task /\ entry' = entry /\ ended' = ended
    BY DEF SchedAddTbPush, program, dagVars
  <1>6. \/ stack' = [stack EXCEPT ![e][Len(stack[e])] = f]
        \/ stack' = [stack EXCEPT ![e] = [@ EXCEPT ![Len(@)] = f] \o <<Frame(t, "func", <<>>)>>]
    BY <1>4 DEF SchedAddTbPush, SetTop, Invoke
  <1>7. f \in FrameSet
    <2>1. h.todo \in Seq(Tasks)
      BY <1>2 DEF FrameSet
    <2>2. PICK r \in Seq(Tasks) : r = Tail(h.todo)
      <3>1. Tail(h.todo) \in Seq(Tasks)
        BY <2>1, <1>1
      <3> QED
        BY <3>1
    <2>3. PICK g : g = [h EXCEPT !.todo = r, !.counted = FALSE]
      OBVIOUS
    <2>4. g \in FrameSet
      BY <2>3, <1>2 DEF FrameSet
    <2> QED
      BY <2>2, <2>3, <2>4
  <1> HIDE DEF f
  <1>8. CASE stack' = [stack EXCEPT ![e][Len(stack[e])] = f]
    BY <1>1, <1>3, <1>5, <1>8, TopRefs
  <1>9. CASE stack' = [stack EXCEPT ![e] = [@ EXCEPT ![Len(@)] = f] \o <<Frame(t, "func", <<>>)>>]
    <2>1. PICK mid : mid = [stack EXCEPT ![e][Len(stack[e])] = f]
      OBVIOUS
    <2>2. Tidy(mid) /\ \A u : RunIn(mid, u) <=> RunIn(stack, u)
      BY <2>1, <1>1, <1>3, TopTidy DEF IInv, RefInv
    <2>3. mid \in [Executors -> Seq(FrameSet)]
      BY <2>1, <1>1, <1>7, SetTopIs DEF IInv, TopSet
    <2>4. PICK g : g = Frame(t, "func", <<>>)
      OBVIOUS
    <2>5. stack' = [mid EXCEPT ![e] = @ \o <<g>>]
      <3>1. stack \in [Executors -> Seq(FrameSet)]
        BY DEF IInv, TypeOK
      <3>2. mid[e] = [stack[e] EXCEPT ![Len(stack[e])] = f] /\ \A x \in Executors : x # e => mid[x] = stack[x]
        BY <2>1, <3>1
      <3>3. DOMAIN mid = Executors
        BY <2>3
      <3> QED
        BY <3>1, <3>2, <3>3, <1>9, <2>4
    <2> QED
      BY <2>2, <2>3, <2>4, <2>5, <1>5, StartRefs
  <1> QED
    BY <1>6, <1>8, <1>9

\* The end of kupl_task_finish: the task drops its own reference.
LEMMA TaskDerefRefs == ASSUME IInv, IInv', RefInv, NEW e \in Executors, TaskDeref(e) PROVE RefInv'
  <1> DEFINE h == Top(e)
  <1>1. stack[e] # <<>> /\ h.pc = "deref" /\ h = stack[e][Len(stack[e])] /\ Len(stack[e]) \in DOMAIN stack[e]
    BY Tops DEF TaskDeref, At, IInv
  <1>2. PICK q \in Tasks : q = h.task
    BY <1>1, FrameTask
  <1>3. /\ ended[q] = 1 /\ Known(q) /\ Kind[q] = "dynamic"
        /\ \A x \in Executors : \A d \in DOMAIN stack[x] :
              stack[x][d].pc # "main" /\ stack[x][d].task = q => x = e /\ d = Len(stack[e])
    BY <1>1, <1>2, FrameTask
  <1>4. /\ stack' = [stack EXCEPT ![e] = SubSeq(@, 1, Len(@) - 1)]
        /\ prog' = prog /\ team' = team /\ ip' = ip /\ call' = call /\ entry' = entry /\ ended' = ended
        /\ task' = [task EXCEPT ![q] = Deref(@)]
    BY <1>2, <1>3 DEF TaskDeref, program, dagVars, history
  <1>5. /\ Tidy(stack')
        /\ \A t : RunIn(stack', t) <=> \E x \in Executors : \E d \in DOMAIN stack[x] :
                                          stack[x][d].task = t /\ ~(x = e /\ d = Len(stack[e]))
    <2>1. PICK stk : stk = stack'
      OBVIOUS
    <2>2. Popped(stack, stk, e) /\ Tidy(stack)
      BY <2>1, <1>1, <1>4, PopIs DEF IInv, RefInv
    <2>3. /\ Tidy(stk)
          /\ \A t : RunIn(stk, t) <=> \E x \in Executors : \E d \in DOMAIN stack[x] :
                                          stack[x][d].task = t /\ ~(x = e /\ d = Len(stack[e]))
      BY <2>2, <1>1, PopTidy
    <2> QED
      BY <2>1, <2>3
  <1>6. RunIn(stack, q) /\ ~RunIn(stack', q)
    <2>1. RunIn(stack, q)
      BY <1>1, <1>2 DEF RunIn
    <2>2. \A x \in Executors : \A d \in DOMAIN stack[x] : stack[x][d].task = q => stack[x][d].pc # "main"
      <3>1. q # None
        BY TasksAssumption
      <3> QED
        BY <3>1 DEF RefInv, Tidy
    <2> QED
      BY <2>1, <2>2, <1>3, <1>5
  <1>7. task \in [Tasks -> TaskSet]
    BY DEF IInv, TypeOK
  <1>8. ExecRefKept
    BY <1>4, <1>7, DerefIs DEF ExecRefKept
  <1>9. \A t \in Tasks \ {q} : Known(t)' =>
              /\ task'[t].ref + Pending("ref", t)' = Own(t)' + HashRefs(entry', t) + Pending("deref", t)'
              /\ task'[t].life = IF task'[t].ref > 0 THEN "live" ELSE "freed"
    <2>1. \A t \in Tasks : ended'[t] \in {0, 1}
      BY DEF IInv, TypeOK
    <2>2. ASSUME NEW t \in Tasks \ {q} PROVE RunIn(stack', t) <=> RunIn(stack, t)
      BY <1>1, <1>2, <1>5 DEF RunIn
    <2>3. \A t \in Tasks \ {q} : /\ task'[t].ref = task[t].ref /\ task'[t].life = task[t].life
                                 /\ ended'[t] = 0 \/ RunIn(stack', t) <=> ended[t] = 0 \/ RunIn(stack, t)
      BY <2>2, <1>4, <1>7
    <2> QED
      BY <2>1, <2>3, <1>8, CountedSame
  <1>10. /\ task'[q].ref + Pending("ref", q)' = Own(q)' + HashRefs(entry', q) + Pending("deref", q)'
         /\ task'[q].life = IF task'[q].ref > 0 THEN "live" ELSE "freed"
    <2>1. Own(q) = 1 /\ Own(q)' = 0
      <3>1. Running(q) /\ ~Running(q)'
        BY <1>6, RunningIs
      <3> QED
        BY <3>1, <1>3, <1>4 DEF Own
    <2>2. /\ task[q].ref >= 1 /\ task[q].ref \in Int /\ task[q].life = "live"
          /\ task[q].ref + Pending("ref", q) = 1 + HashRefs(entry, q) + Pending("deref", q)
          /\ HashRefs(entry, q) \in Nat /\ Pending("ref", q) \in Nat /\ Pending("deref", q) \in Nat
      BY <2>1, <1>3, Backing
    <2>3. task'[q].ref = task[q].ref - 1 /\ task'[q].life = IF task[q].ref = 1 THEN "freed" ELSE "live"
      <3>1. task'[q] = Deref(task[q]) /\ task[q] \in TaskSet
        BY <1>4, <1>7
      <3> QED
        BY <3>1, <2>2 DEF Deref, TaskSet
    <2>4. HashRefs(entry', q) = HashRefs(entry, q) /\ Pending("ref", q)' = Pending("ref", q)
          /\ Pending("deref", q)' = Pending("deref", q)
      BY <1>4 DEF Pending
    <2> QED
      BY <2>1, <2>2, <2>3, <2>4
  <1>11. Counted'
    BY <1>9, <1>10 DEF Counted
  <1> QED
    BY <1>5, <1>8, <1>11, ExecRefs

\* A step of an executor keeps the references counted.
LEMMA ExecutorRefs == ASSUME IInv, IInv', RefInv, NEW e \in Executors, ExecutorStep(e) PROVE RefInv'
  <1>1. stack[e] # <<>> => Top(e) \in FrameSet
    BY Tops DEF IInv
  <1>2. ASSUME stack[e] # <<>>, Top(e).pc \in {"func", "finish"} PROVE Kind[Top(e).task] = "dynamic"
    BY <1>2, FrameTask
  <1>3. ~SgraphTaskBody(e) /\ ~TaskFinishStatic(e)
    BY <1>2 DEF SgraphTaskBody, TaskFinishStatic, At
  <1>4. ASSUME ExecutorPoll(e) PROVE RefInv'
    <2>1. PICK t \in Tasks : SchedExecuteTb(e, t)
      BY <1>4 DEF ExecutorPoll
    <2> QED
      BY <2>1, <1>4, SchedExecuteTbRefs DEF ExecutorPoll
  <1> QED
    BY <1>3, <1>4, SchedAddTbCountRefs, SchedAddTbPushRefs, TaskExecuteRefs, TaskFinishDynamicRefs,
       GnodeReleaseReadyRefs, TaskCountSubRefs, TaskDerefRefs DEF ExecutorStep

-----------------------------------------------------------------------------
(* The hash *)

\* A step of Master that only changes the hash and lists what it has still to do:
\* the references it moves balance.
LEMMA HashRefStep ==
    ASSUME IInv, IInv', RefInv, call.pc = "deps", call.ops = <<>>, call'.pc = "deps", call'.task = call.task,
           prog' = prog, team' = team, ip' = ip, task' = task, stack' = stack, ended' = ended,
           IsFiniteSet(DOMAIN entry'), NotAhead', EdgesHeld',
           NEW ops, ops = call'.ops,
           \A t \in Tasks : HashRefs(entry', t) + Occ(ops, Op("deref", t)) = HashRefs(entry, t) + Occ(ops, Op("ref", t)),
           \A t \in Tasks : t # call.task /\ Occ(ops, Op("ref", t)) > 0 =>
                              HashRefs(entry, t) > 0 /\ Occ(ops, Op("deref", t)) = 0
    PROVE  RefInv'
  <1>1. (Building <=> Building') /\ \A t : Known(t) <=> Known(t)'
    <2>1. Building <=> Building'
      BY DEF Building
    <2>2. \A t : Known(t) <=> Known(t)'
      BY DEF Known, Made, Adds
    <2> QED
      BY <2>1, <2>2
  <1>2. NamesOnce' /\ Tidy(stack') /\ Settled'
    BY DEF RefInv, NamesOnce, AllAt, Adds, Settled
  <1>3. \A t : Pending("ref", t) = 0 /\ Pending("deref", t) = 0
    BY OccOne DEF Pending
  <1>4. \A do, t : Pending(do, t)' = Occ(ops, Op(do, t))
    BY DEF Pending
  <1>5. \A t : HashRefs(entry, t) \in Nat /\ HashRefs(entry', t) \in Nat
    <2>1. \A t : HashRefs(entry, t) \in Nat
      BY HashRefsAre DEF IInv, TypeOK, RefInv
    <2>2. PICK h : h = entry'
      OBVIOUS
    <2>3. \A t : HashRefs(h, t) \in Nat
      <3>1. IsFiniteSet(DOMAIN h) /\ h \in [DOMAIN h -> EntrySet]
        BY <2>2 DEF IInv, TypeOK
      <3> QED
        BY <3>1, HashRefsAre
    <2> QED
      BY <2>1, <2>2, <2>3
  <1>6. ops \in Seq(OpSet)
    BY DEF IInv, TypeOK, CallSet
  <1>7. \A t \in Tasks : Occ(ops, Op("ref", t)) \in Nat /\ Occ(ops, Op("deref", t)) \in Nat
    BY <1>6, OccType
  <1>8. Counted'
    <2> SUFFICES ASSUME NEW t \in Tasks, Known(t)'
                 PROVE  /\ task'[t].ref + Pending("ref", t)' = Own(t)' + HashRefs(entry', t) + Pending("deref", t)'
                        /\ task'[t].life = IF task'[t].ref > 0 THEN "live" ELSE "freed"
      BY Zenon DEF Counted
    <2>1. Own(t)' = Own(t)
      BY RunningIs DEF Own
    <2>2. Own(t) \in {0, 1} /\ task[t].ref \in Int
      BY DEF Own, IInv, TypeOK, TaskSet
    <2>3. /\ task[t].ref + Pending("ref", t) = Own(t) + HashRefs(entry, t) + Pending("deref", t)
          /\ task[t].life = IF task[t].ref > 0 THEN "live" ELSE "freed"
      BY <1>1 DEF RefInv, Counted
    <2>4. task[t].ref = Own(t) + HashRefs(entry, t)
      BY <2>2, <2>3, <1>3, <1>5
    <2>5. task[t].ref + Occ(ops, Op("ref", t)) = Own(t) + HashRefs(entry', t) + Occ(ops, Op("deref", t))
      BY <2>2, <2>4, <1>5, <1>7
    <2> QED
      BY <2>1, <2>3, <2>5, <1>4
  <1>9. Backed'
    <2>1. ASSUME NEW t \in Tasks, t # call'.task, Pending("ref", t)' > 0 PROVE HashRefs(entry', t) > Pending("ref", t)'
      BY <2>1, <1>4, <1>5, <1>7
    <2>2. ASSUME Building'
          PROVE  /\ (HashRefs(entry, call.task) >= Pending("ref", call.task))'
                 /\ \/ team' = {Master}
                    \/ task'[call'.task].nHard = 0 /\ call'.pc = "deps"
                    \/ (HashRefs(entry, call.task) > Pending("ref", call.task))'
      <3>1. PICK c \in Tasks : c = call.task
        BY <2>2, <1>1, Submitted DEF Building
      <3>2. Occ(ops, Op("deref", c)) = 0
        <4>1. Op("deref", c) \notin Elems(ops)
          BY <2>2, <3>1 DEF NotAhead
        <4> QED
          BY <4>1, <1>6, OccType
      <3>3. HashRefs(entry', c) = HashRefs(entry, c) + Occ(ops, Op("ref", c))
        BY <3>2, <1>5, <1>7
      <3>4. team = {Master} \/ task[c].nHard = 0 \/ HashRefs(entry, c) > 0
        BY <2>2, <3>1, <1>1, <1>3 DEF RefInv, Backed
      <3>5. Pending("ref", c)' = Occ(ops, Op("ref", c))
        BY <1>4
      <3>6. HashRefs(entry', c) >= Pending("ref", c)' /\ (HashRefs(entry, c) > 0 => HashRefs(entry', c) > Pending("ref", c)')
        BY <3>3, <3>5, <1>5, <1>7
      <3> QED
        BY <3>1, <3>4, <3>6
    <2> QED
      BY <2>1, <2>2, Zenon DEF Backed
  <1> QED
    BY <1>2, <1>8, <1>9 DEF RefInv

\* node_process_dep_out on one entry.
LEMMA NodeProcessDepOutRefs == ASSUME IInv, IInv', RefInv, NEW a, NodeProcessDepOut(a) PROVE RefInv'
  <1>1. PICK c, ops : c = call.task /\ ops = DepOutOps(entry[a], c)
    OBVIOUS
  <1>2. PICK new : new = [out |-> c, in |-> <<>>]
    OBVIOUS
  <1>3. /\ call.pc = "deps" /\ call.ops = <<>> /\ a \in call.addrs
        /\ entry' = [entry EXCEPT ![a] = new]
        /\ call' = [call EXCEPT !.addrs = @ \ {a}, !.ops = ops]
        /\ prog' = prog /\ team' = team /\ ip' = ip /\ task' = task /\ stack' = stack /\ ended' = ended
    BY <1>1, <1>2 DEF NodeProcessDepOut, InDag, program, history
  <1>4. call \in CallSet /\ c \in Tasks \cup {None} /\ call.deps \in Seq(DepSet) /\ None \notin Tasks
    BY <1>1, TasksAssumption DEF IInv, TypeOK, CallSet
  <1>5. PICK left : left = call.addrs \ {a}
    OBVIOUS
  <1>6. /\ call'.pc = "deps" /\ call'.task = c /\ call'.deps = call.deps /\ call'.addrs = left /\ call'.ops = ops
    BY <1>1, <1>3, <1>4, <1>5 DEF CallSet
  <1>7. a \in DOMAIN entry /\ entry \in [DOMAIN entry -> EntrySet]
    BY <1>3 DEF IInv, TypeOK, CallShape
  <1>8. PICK ent \in EntrySet : ent = entry[a]
    BY <1>7
  <1>9. new \in EntrySet /\ \A t : EntryRefs(new, t) = IF c = t THEN 1 ELSE 0
    <2>1. new \in EntrySet
      BY <1>2, <1>4 DEF EntrySet
    <2>2. new.out = c /\ \A t : Occ(new.in, t) = 0
      BY <1>2, OccOne
    <2> QED
      BY <2>1, <2>2 DEF EntryRefs
  <1>10. /\ ops \in Seq(OpSet) /\ EdgesFollowed(ops)
         /\ \A t \in Tasks : /\ Occ(ops, Op("deref", t)) = EntryRefs(ent, t)
                             /\ Occ(ops, Op("ref", t)) = IF c = t THEN 1 ELSE 0
    BY <1>1, <1>4, <1>8, DepOutCounts
  <1>11. PICK g : g = entry'
    OBVIOUS
  <1>12. /\ g \in [DOMAIN g -> EntrySet] /\ DOMAIN g = DOMAIN entry /\ DOMAIN g = DOMAIN entry \cup {a}
         /\ g[a] = new /\ \A b \in DOMAIN entry : b # a => g[b] = entry[b]
    BY <1>3, <1>7, <1>9, <1>11
  <1>13. IsFiniteSet(DOMAIN entry) /\ IsFiniteSet(DOMAIN g)
    BY <1>12 DEF RefInv
  <1>14. \A t : HashRefs(g, t) = HashRefs(entry, t) + EntryRefs(new, t) - EntryRefs(ent, t)
    <2>1. \A t : HashRefs(g, t) = HashRefs(entry, t) + EntryRefs(g[a], t)
                                  - IF a \in DOMAIN entry THEN EntryRefs(entry[a], t) ELSE 0
      BY <1>7, <1>12, <1>13, HashUpdate
    <2> QED
      BY <2>1, <1>7, <1>8, <1>12
  <1>15. \A t : HashRefs(entry, t) \in Nat /\ EntryRefs(ent, t) \in Nat
    BY <1>7, <1>8, <1>13, HashRefsAre, EntryRefsType
  <1>16. \A t \in Tasks : HashRefs(entry', t) + Occ(ops, Op("deref", t)) = HashRefs(entry, t) + Occ(ops, Op("ref", t))
    BY <1>9, <1>10, <1>11, <1>14, <1>15
  <1>17. \A t \in Tasks : t # call.task /\ Occ(ops, Op("ref", t)) > 0 =>
                              HashRefs(entry, t) > 0 /\ Occ(ops, Op("deref", t)) = 0
    BY <1>1, <1>10
  <1>18. EdgesHeld'
    BY <1>6, <1>10 DEF EdgesHeld, EdgesFollowed
  <1>19. NotAhead'
    <2> SUFFICES ASSUME Building' PROVE NotAhead'
      BY DEF NotAhead
    <2>1. Building
      BY <1>3 DEF Building
    <2>2. /\ \A i, j \in DOMAIN call.deps : i # j => call.deps[i].addr # call.deps[j].addr /\ ~IsAll(call.deps[i])
          /\ \A d \in Elems(call.deps), b \in DOMAIN entry :
                b = d.addr \/ b = AllAddr \/ IsAll(d) => Lacks(entry[b], c)
          /\ \A b \in call.addrs : /\ Lacks(entry[b], c)
                                   /\ call.deps # <<>> => b # AllAddr
                                   /\ \A d \in Elems(call.deps) : d.addr # b /\ ~IsAll(d)
      BY <2>1, <1>1 DEF RefInv, NotAhead
    <2>3. \A d : d \in Elems(call.deps) => call.deps # <<>>
      BY <1>4, Members
    <2>4. \A d \in Elems(call.deps), b \in DOMAIN g : b = d.addr \/ b = AllAddr \/ IsAll(d) => Lacks(g[b], c)
      BY <2>2, <2>3, <1>3, <1>12
    <2>5. \A b \in left : /\ Lacks(g[b], c)
                          /\ call.deps # <<>> => b # AllAddr
                          /\ \A d \in Elems(call.deps) : d.addr # b /\ ~IsAll(d)
      <3>1. \A b \in left : b \in call.addrs /\ b # a /\ b \in DOMAIN entry
        BY <1>3, <1>5 DEF IInv, CallShape
      <3> QED
        BY <3>1, <2>2, <1>12
    <2>6. Op("deref", c) \notin Elems(ops)
      <3>1. c \in Tasks
        BY <2>1, <1>1, Submitted DEF Building
      <3>2. EntryRefs(ent, c) = 0
        BY <2>2, <1>3, <1>8, EntryRefsType
      <3>3. Occ(ops, Op("deref", c)) = 0
        BY <3>1, <3>2, <1>10
      <3> QED
        BY <3>3, <1>10, OccType
    <2> QED
      BY <2>2, <2>4, <2>5, <2>6, <1>6, <1>11 DEF NotAhead
  <1> QED
    BY <1>1, <1>3, <1>6, <1>11, <1>13, <1>16, <1>17, <1>18, <1>19, HashRefStep

\* a dependency and those behind it have different addresses, and none asks for all
Apart(d, rest) ==
    /\ \A x \in Elems(rest) : x.addr # d.addr /\ ~IsAll(x) /\ ~IsAll(d)
    /\ \A i, j \in DOMAIN rest : i # j => rest[i].addr # rest[j].addr /\ ~IsAll(rest[i])

\* The dependencies behind the one Master enters now.
LEMMA RestIs ==
    ASSUME IInv, RefInv, Building, call.deps # <<>>, NEW d, d = Head(call.deps), NEW rest, rest = Tail(call.deps)
    PROVE  Apart(d, rest)
  <1>1. PICK s \in Seq(DepSet) : s = call.deps
    BY DEF IInv, TypeOK, CallSet
  <1>2. /\ Len(s) \in Nat \ {0} /\ d = s[1] /\ DOMAIN s = 1 .. Len(s)
        /\ DOMAIN rest = 1 .. (Len(s) - 1) /\ \A i \in 1 .. (Len(s) - 1) : rest[i] = s[i + 1]
    BY <1>1
  <1>3. \A i, j \in DOMAIN s : i # j => s[i].addr # s[j].addr /\ ~IsAll(s[i])
    BY <1>1 DEF RefInv, NotAhead
  <1>4. \A i \in DOMAIN rest : i + 1 \in DOMAIN s /\ i + 1 # 1 /\ 1 \in DOMAIN s /\ rest[i] = s[i + 1]
    BY <1>2
  <1>5. \A x \in Elems(rest) : x.addr # d.addr /\ ~IsAll(x) /\ ~IsAll(d)
    <2> TAKE x \in Elems(rest)
    <2>1. PICK i \in DOMAIN rest : x = rest[i]
      BY DEF Elems
    <2> QED
      BY <2>1, <1>2, <1>3, <1>4
  <1>6. ASSUME NEW i \in DOMAIN rest, NEW j \in DOMAIN rest, i # j
        PROVE  rest[i].addr # rest[j].addr /\ ~IsAll(rest[i])
    <2>1. i + 1 # j + 1
      BY <1>2, <1>6
    <2> QED
      BY <2>1, <1>3, <1>4
  <1> QED
    BY <1>5, <1>6 DEF Apart

\* The lookup does not find the task being submitted.
LEMMA LookupLacks ==
    ASSUME IInv, RefInv, Building, call.deps # <<>>, NEW d, d = Head(call.deps), NEW c, c = call.task,
           NEW h, h = Lookup(d.addr).hash, NEW pre, pre = Lookup(d.addr).ops
    PROVE  /\ Lacks(h[d.addr], c)
           /\ \A b \in DOMAIN entry : Lacks(entry[b], c) => Lacks(h[b], c)
           /\ \A o \in Elems(pre) : o.of # c
  <1>1. d \in Elems(call.deps) /\ d \in DepSet
    <2>1. call.deps \in Seq(DepSet)
      BY DEF IInv, TypeOK, CallSet
    <2> QED
      BY <2>1, Members
  <1>2. c \in Tasks /\ None \notin Tasks /\ d.addr \in Addrs \cup {AllAddr}
    BY <1>1, Submitted, TasksAssumption DEF Building, DepSet
  <1>3. PICK w : w = LastAll(d.addr)
    OBVIOUS
  <1>4. /\ LookupGives(d.addr, h, pre, w)
        /\ w # None => AllAddr \in DOMAIN entry /\ w = entry[AllAddr].out
    BY <1>2, <1>3, LookupIs DEF IInv
  <1>5. \A b \in DOMAIN entry : b = d.addr \/ b = AllAddr => Lacks(entry[b], c)
    BY <1>1 DEF RefInv, NotAhead
  <1>6. w # c
    BY <1>2, <1>4, <1>5 DEF Lacks
  <1>7. \A o \in Elems(pre) : o.of # c
    BY <1>4, <1>6 DEF LookupGives
  <1>8. CASE d.addr \in DOMAIN entry
    BY <1>4, <1>5, <1>7, <1>8 DEF LookupGives
  <1>9. CASE d.addr \notin DOMAIN entry
    <2>1. Looked(h, d.addr, w)
      BY <1>4, <1>9 DEF LookupGives
    <2>2. c \notin Elems(<<>>)
      BY DEF Elems
    <2>3. Lacks(h[d.addr], c)
      BY <2>1, <2>2, <1>2, <1>6 DEF Looked, Lacks
    <2>4. \A b \in DOMAIN entry : Lacks(entry[b], c) => Lacks(h[b], c)
      BY <2>1, <1>2 DEF Looked, Lacks
    <2> QED
      BY <2>3, <2>4, <1>7
  <1> QED
    BY <1>8, <1>9

\* kupl_node_process_dep for a task that writes.
LEMMA ProcessWriteRefs == ASSUME IInv, IInv', RefInv, NodeProcessDep, Head(call.deps).type # "IN" PROVE RefInv'
  <1>1. PICK d, c : d = Head(call.deps) /\ c = call.task
    OBVIOUS
  <1>2. PICK h, pre, rest : h = Lookup(d.addr).hash /\ pre = Lookup(d.addr).ops /\ rest = Tail(call.deps)
    OBVIOUS
  <1>3. PICK left : left = IF d.type = "ALL" THEN DOMAIN h ELSE {d.addr}
    OBVIOUS
  <1>4. /\ call.pc = "deps" /\ call.ops = <<>> /\ call.deps # <<>>
        /\ entry' = h
        /\ call' = [call EXCEPT !.deps = rest, !.ops = pre, !.addrs = left]
        /\ task' = task /\ prog' = prog /\ team' = team /\ ip' = ip /\ stack' = stack /\ ended' = ended
    BY <1>1, <1>2, <1>3 DEF NodeProcessDep, InDag, program, history
  <1>5. /\ Building /\ c \in Tasks /\ d \in DepSet /\ rest \in Seq(DepSet) /\ Elems(rest) \subseteq Elems(call.deps)
        /\ d \in Elems(DepListRmDup(prog[ip].deps)) /\ prog[ip].deps \in Seq(DepSet) /\ d \in Elems(call.deps)
    <2>1. d \in Elems(call.deps)
      <3>1. call.deps \in Seq(DepSet)
        BY DEF IInv, TypeOK, CallSet
      <3> QED
        BY <3>1, <1>1, <1>4, Members
    <2> QED
      BY <2>1, <1>1, <1>2, <1>4, NextDep
  <1>6. d.addr \in Addrs \cup {AllAddr} /\ (IsAll(d) <=> d.type = "ALL") /\ (d.type = "ALL" => d.addr = AllAddr)
    <2>1. ListIs(ip)
      BY <1>5, DepList
    <2>2. (IsAll(d) <=> d.type = "ALL") /\ (d.type = "ALL" => d = [addr |-> AllAddr, type |-> "ALL"])
      BY <2>1, <1>5 DEF ListIs
    <2>3. d.addr \in Addrs \cup {AllAddr}
      BY <1>5 DEF DepSet
    <2> QED
      BY <2>2, <2>3
  <1>7. /\ DOMAIN h = DOMAIN entry \cup {d.addr}
        /\ IsFiniteSet(DOMAIN h) /\ pre \in Seq(OpSet)
        /\ \A o \in Elems(pre) : o.do # "precede"
    <2>1. IsFiniteSet(DOMAIN h) /\ pre \in Seq(OpSet)
      BY <1>2, <1>6, LookupCounts DEF IInv, RefInv
    <2>2. LookupGives(d.addr, h, pre, LastAll(d.addr))
      BY <1>2, <1>6, LookupIs DEF IInv
    <2> QED
      BY <2>1, <2>2 DEF LookupGives
  <1>8. \A t \in Tasks :
           /\ HashRefs(h, t) + Occ(pre, Op("deref", t)) = HashRefs(entry, t) + Occ(pre, Op("ref", t))
           /\ Occ(pre, Op("ref", t)) > 0 => HashRefs(entry, t) > 0 /\ Occ(pre, Op("deref", t)) = 0
    BY <1>2, <1>6, LookupCounts DEF IInv, RefInv
  <1>9. call'.pc = "deps" /\ call'.task = c /\ call'.deps = rest /\ call'.ops = pre /\ call'.addrs = left
    BY <1>1, <1>4 DEF IInv, TypeOK, CallSet
  <1>10. EdgesHeld'
    <2>1. \A k \in DOMAIN pre : pre[k].do # "precede"
      BY <1>7 DEF Elems
    <2> QED
      BY <2>1, <1>9 DEF EdgesHeld
  <1>11. /\ \A x \in Elems(rest) : x.addr # d.addr /\ ~IsAll(x) /\ ~IsAll(d)
         /\ \A i, j \in DOMAIN rest : i # j => rest[i].addr # rest[j].addr /\ ~IsAll(rest[i])
    <2>1. d = Head(call.deps)
      BY <1>1
    <2>2. rest = Tail(call.deps)
      BY <1>2
    <2>3. Building /\ call.deps # <<>>
      BY <1>4, <1>5
    <2>4. Apart(d, rest)
      BY <2>1, <2>2, <2>3, RestIs
    <2> QED
      BY <2>4 DEF Apart
  <1>12. /\ Lacks(h[d.addr], c) /\ \A b \in DOMAIN entry : Lacks(entry[b], c) => Lacks(h[b], c)
         /\ \A o \in Elems(pre) : o.of # c
    BY <1>1, <1>2, <1>4, <1>5, LookupLacks
  <1>13. \A x \in Elems(call.deps), b \in DOMAIN entry : b = x.addr \/ b = AllAddr \/ IsAll(x) => Lacks(entry[b], c)
    BY <1>1, <1>5 DEF RefInv, NotAhead
  <1>14. \A x \in Elems(rest), b \in DOMAIN h : b = x.addr \/ b = AllAddr \/ IsAll(x) => Lacks(h[b], c)
    <2> TAKE x \in Elems(rest), b \in DOMAIN h
    <2>1. b # d.addr /\ (b = x.addr \/ b = AllAddr \/ IsAll(x)) => b \in DOMAIN entry /\ Lacks(entry[b], c)
      BY <1>5, <1>7, <1>13
    <2> QED
      BY <2>1, <1>12
  <1>15. \A b \in left : /\ Lacks(h[b], c)
                         /\ rest # <<>> => b # AllAddr
                         /\ \A x \in Elems(rest) : x.addr # b /\ ~IsAll(x)
    <2>1. rest # <<>> => ~IsAll(d)
      <3>1. rest # <<>> => \E x : x \in Elems(rest)
        BY <1>5, Members
      <3> QED
        BY <3>1, <1>11
    <2>2. CASE d.type = "ALL"
      <3>1. rest = <<>> /\ \A x : x \notin Elems(rest)
        BY <2>1, <2>2, <1>6 DEF Elems
      <3>2. \A b \in DOMAIN h : Lacks(h[b], c)
        BY <2>2, <1>5, <1>6, <1>7, <1>12, <1>13
      <3> QED
        BY <3>1, <3>2, <2>2, <1>3
    <2>3. CASE d.type # "ALL"
      <3>1. left = {d.addr} /\ ~IsAll(d) /\ d.addr # AllAddr
        BY <2>3, <1>3, <1>6 DEF IsAll
      <3> QED
        BY <3>1, <1>11, <1>12
    <2> QED
      BY <2>2, <2>3
  <1>16. Op("deref", c) \notin Elems(pre)
    BY <1>12, OpsDiffer
  <1>17. NotAhead'
    BY <1>4, <1>9, <1>11, <1>14, <1>15, <1>16 DEF NotAhead
  <1> QED
    BY <1>1, <1>4, <1>7, <1>8, <1>9, <1>10, <1>17, HashRefStep

\* kupl_node_process_dep for a task that reads.
LEMMA ProcessReadRefs == ASSUME IInv, IInv', RefInv, NodeProcessDep, Head(call.deps).type = "IN" PROVE RefInv'
  <1>1. PICK d, c : d = Head(call.deps) /\ c = call.task
    OBVIOUS
  <1>2. PICK h, pre, rest : h = Lookup(d.addr).hash /\ pre = Lookup(d.addr).ops /\ rest = Tail(call.deps)
    OBVIOUS
  <1>3. PICK w, ops : w = h[d.addr].out /\ ops = pre \o OpOn("ref", c) \o OpOn("precede", w)
    OBVIOUS
  <1>4. /\ call.pc = "deps" /\ call.ops = <<>> /\ call.addrs = {} /\ call.deps # <<>>
        /\ entry' = [h EXCEPT ![d.addr].in = <<c>> \o @]
        /\ call' = [call EXCEPT !.deps = rest, !.ops = ops]
        /\ task' = task /\ prog' = prog /\ team' = team /\ ip' = ip /\ stack' = stack /\ ended' = ended
    BY <1>1, <1>2, <1>3 DEF NodeProcessDep, InDag, program, history
  <1>5. /\ Building /\ c \in Tasks /\ d \in DepSet /\ rest \in Seq(DepSet) /\ Elems(rest) \subseteq Elems(call.deps)
        /\ d \in Elems(DepListRmDup(prog[ip].deps)) /\ prog[ip].deps \in Seq(DepSet) /\ d \in Elems(call.deps)
    <2>1. d \in Elems(call.deps)
      <3>1. call.deps \in Seq(DepSet)
        BY DEF IInv, TypeOK, CallSet
      <3> QED
        BY <3>1, <1>1, <1>4, Members
    <2> QED
      BY <2>1, <1>1, <1>2, <1>4, NextDep
  <1>6. d.addr \in Addrs \cup {AllAddr} /\ ~IsAll(d) /\ d.addr # AllAddr
    BY <1>1, <1>5, DepList DEF DepSet, ListIs, IsAll
  <1>7. /\ DOMAIN h = DOMAIN entry \cup {d.addr} /\ h \in [DOMAIN h -> EntrySet]
        /\ IsFiniteSet(DOMAIN h) /\ pre \in Seq(OpSet)
        /\ \A o \in Elems(pre) : o.do # "precede"
    <2>1. IsFiniteSet(DOMAIN h) /\ pre \in Seq(OpSet)
      BY <1>2, <1>6, LookupCounts DEF IInv, RefInv
    <2>2. LookupGives(d.addr, h, pre, LastAll(d.addr))
      BY <1>2, <1>6, LookupIs DEF IInv
    <2> QED
      BY <2>1, <2>2 DEF LookupGives
  <1>8. \A t \in Tasks :
           /\ HashRefs(h, t) + Occ(pre, Op("deref", t)) = HashRefs(entry, t) + Occ(pre, Op("ref", t))
           /\ Occ(pre, Op("ref", t)) > 0 => HashRefs(entry, t) > 0 /\ Occ(pre, Op("deref", t)) = 0
    BY <1>2, <1>6, LookupCounts DEF IInv, RefInv
  <1>9. call'.pc = "deps" /\ call'.task = c /\ call'.deps = rest /\ call'.ops = ops /\ call'.addrs = {}
    BY <1>1, <1>4 DEF IInv, TypeOK, CallSet
  <1>10. PICK ent \in EntrySet : ent = h[d.addr]
    BY <1>7
  <1>11. PICK new \in EntrySet : new = [ent EXCEPT !.in = <<c>> \o @] /\ new.out = w /\ new.in = <<c>> \o ent.in
    <2>1. PICK r \in Seq(Tasks) : r = <<c>> \o ent.in
      <3>1. ent.in \in Seq(Tasks)
        BY DEF EntrySet
      <3>2. c \in Tasks
        BY <1>5
      <3>3. <<c>> \o ent.in \in Seq(Tasks)
        BY <3>1, <3>2, MembersAdded
      <3> QED
        BY <3>3
    <2>2. PICK n : n = [ent EXCEPT !.in = r]
      OBVIOUS
    <2>3. n \in EntrySet /\ n.out = ent.out /\ n.in = r
      BY <2>2 DEF EntrySet
    <2> QED
      BY <2>1, <2>2, <2>3, <1>3, <1>10
  <1>12. PICK g : g = entry'
    OBVIOUS
  <1>13. /\ g \in [DOMAIN g -> EntrySet] /\ DOMAIN g = DOMAIN h /\ DOMAIN g = DOMAIN h \cup {d.addr}
         /\ g[d.addr] = new /\ \A b \in DOMAIN h : b # d.addr => g[b] = h[b]
    <2>1. g = [h EXCEPT ![d.addr] = new]
      BY <1>4, <1>10, <1>11, <1>12
    <2> QED
      BY <2>1, <1>7
  <1>14. w \in Tasks \cup {None}
    BY <1>3, <1>10 DEF EntrySet
  <1>15. \A t : HashRefs(g, t) = HashRefs(h, t) + (IF c = t THEN 1 ELSE 0)
    <2>1. \A t : HashRefs(g, t) = HashRefs(h, t) + EntryRefs(g[d.addr], t)
                                  - IF d.addr \in DOMAIN h THEN EntryRefs(h[d.addr], t) ELSE 0
      BY <1>7, <1>13, HashUpdate
    <2>2. \A t : EntryRefs(new, t) = EntryRefs(ent, t) + IF c = t THEN 1 ELSE 0
      <3>1. ent.in \in Seq(Tasks)
        BY DEF EntrySet
      <3>2. \A t : Occ(new.in, t) = Occ(ent.in, t) + IF c = t THEN 1 ELSE 0
        BY <3>1, <1>5, <1>11, OccHead
      <3>3. \A t : Occ(ent.in, t) \in Nat
        BY EntryRefsType
      <3> QED
        BY <3>2, <3>3, <1>3, <1>10, <1>11 DEF EntryRefs
    <2>3. \A t : HashRefs(h, t) \in Nat /\ EntryRefs(ent, t) \in Nat
      BY <1>7, HashRefsAre, EntryRefsType
    <2> QED
      BY <2>1, <2>2, <2>3, <1>7, <1>10, <1>13
  <1>16. PICK r, p, q : r = OpOn("ref", c) /\ p = OpOn("precede", w) /\ q = pre \o r
    OBVIOUS
  <1>17. /\ r \in Seq(OpSet) /\ p \in Seq(OpSet) /\ q \in Seq(OpSet) /\ ops = q \o p /\ ops \in Seq(OpSet)
    <2>1. r \in Seq(OpSet) /\ p \in Seq(OpSet)
      BY <1>5, <1>14, <1>16, OneOp
    <2>2. q \in Seq(OpSet)
      BY <2>1, <1>7, <1>16
    <2>3. ops = q \o p
      BY <1>3, <1>16
    <2> QED
      BY <2>1, <2>2, <2>3
  <1>18. \A t \in Tasks : /\ Occ(ops, Op("deref", t)) = Occ(pre, Op("deref", t))
                          /\ Occ(ops, Op("ref", t)) = Occ(pre, Op("ref", t)) + IF c = t THEN 1 ELSE 0
    <2> TAKE t \in Tasks
    <2>1. \A y : Occ(OpOn("ref", c), Op(y, t)) = IF "ref" = y /\ c = t THEN 1 ELSE 0
      BY <1>5, OneOp
    <2>2. \A y : Occ(OpOn("precede", w), Op(y, t)) = IF "precede" = y /\ w = t THEN 1 ELSE 0
      BY <1>14, OneOp
    <2>3. ASSUME NEW y PROVE Occ(ops, y) = Occ(q, y) + Occ(p, y) /\ Occ(q, y) = Occ(pre, y) + Occ(r, y)
      <3>1. Occ(q \o p, y) = Occ(q, y) + Occ(p, y)
        BY <1>17, OccJoin
      <3>2. Occ(pre \o r, y) = Occ(pre, y) + Occ(r, y)
        BY <1>7, <1>17, OccJoin
      <3> QED
        BY <3>1, <3>2, <1>16, <1>17
    <2>4. \A y : Occ(pre, y) \in Nat
      BY <1>7, OccType
    <2>5. Occ(r, Op("deref", t)) = 0 /\ Occ(r, Op("ref", t)) = IF c = t THEN 1 ELSE 0
      BY <2>1, <1>16
    <2>6. Occ(p, Op("deref", t)) = 0 /\ Occ(p, Op("ref", t)) = 0
      BY <2>2, <1>16
    <2> QED
      BY <2>3, <2>4, <2>5, <2>6
  <1>19. \A t \in Tasks : HashRefs(entry', t) + Occ(ops, Op("deref", t)) = HashRefs(entry, t) + Occ(ops, Op("ref", t))
    <2>1. \A t : HashRefs(h, t) \in Nat /\ HashRefs(entry, t) \in Nat
      <3>1. \A t : HashRefs(h, t) \in Nat
        BY <1>7, HashRefsAre
      <3>2. \A t : HashRefs(entry, t) \in Nat
        BY HashRefsAre DEF IInv, TypeOK, RefInv
      <3> QED
        BY <3>1, <3>2
    <2>2. \A y : Occ(pre, y) \in Nat
      BY <1>7, OccType
    <2> QED
      BY <2>1, <2>2, <1>8, <1>12, <1>15, <1>18
  <1>20. \A t \in Tasks : t # call.task /\ Occ(ops, Op("ref", t)) > 0 =>
                              HashRefs(entry, t) > 0 /\ Occ(ops, Op("deref", t)) = 0
    <2>1. \A y : Occ(pre, y) \in Nat
      BY <1>7, OccType
    <2> QED
      BY <2>1, <1>1, <1>8, <1>18
  <1>21. /\ \A x \in Elems(rest) : x.addr # d.addr /\ ~IsAll(x) /\ ~IsAll(d)
         /\ \A i, j \in DOMAIN rest : i # j => rest[i].addr # rest[j].addr /\ ~IsAll(rest[i])
    <2>1. d = Head(call.deps)
      BY <1>1
    <2>2. rest = Tail(call.deps)
      BY <1>2
    <2>3. Building /\ call.deps # <<>>
      BY <1>4, <1>5
    <2>4. Apart(d, rest)
      BY <2>1, <2>2, <2>3, RestIs
    <2> QED
      BY <2>4 DEF Apart
  <1>22. /\ Lacks(h[d.addr], c) /\ \A b \in DOMAIN entry : Lacks(entry[b], c) => Lacks(h[b], c)
         /\ \A o \in Elems(pre) : o.of # c
    BY <1>1, <1>2, <1>4, <1>5, LookupLacks
  <1>23. \A x \in Elems(call.deps), b \in DOMAIN entry : b = x.addr \/ b = AllAddr \/ IsAll(x) => Lacks(entry[b], c)
    BY <1>1, <1>5 DEF RefInv, NotAhead
  <1>24. \A x \in Elems(rest), b \in DOMAIN g : b = x.addr \/ b = AllAddr \/ IsAll(x) => Lacks(g[b], c)
    <2> TAKE x \in Elems(rest), b \in DOMAIN g
    <2>1. b = x.addr \/ b = AllAddr \/ IsAll(x) => b # d.addr
      BY <1>6, <1>21
    <2>2. b # d.addr => b \in DOMAIN entry /\ g[b] = h[b]
      BY <1>7, <1>13
    <2> QED
      BY <2>1, <2>2, <1>5, <1>22, <1>23
  <1>25. Op("deref", c) \notin Elems(ops)
    <2>1. Op("deref", c) \notin Elems(pre)
      BY <1>22, OpsDiffer
    <2>2. Occ(pre, Op("deref", c)) = 0
      BY <2>1, <1>7, OccType
    <2>3. Occ(ops, Op("deref", c)) = 0
      BY <2>2, <1>5, <1>18
    <2> QED
      BY <2>3, <1>17, OccType
  <1>26. NotAhead'
    <2> SUFFICES ASSUME Building' PROVE NotAhead'
      BY DEF NotAhead
    <2>1. \A i, j \in DOMAIN call'.deps : i # j => call'.deps[i].addr # call'.deps[j].addr /\ ~IsAll(call'.deps[i])
      BY <1>9, <1>21
    <2>2. \A x \in Elems(call'.deps), b \in DOMAIN entry' : b = x.addr \/ b = AllAddr \/ IsAll(x) => Lacks(entry'[b], call'.task)
      BY <1>9, <1>12, <1>24
    <2>3. call'.addrs = {} /\ Op("deref", call'.task) \notin Elems(call'.ops)
      BY <1>9, <1>25
    <2> QED
      BY <2>1, <2>2, <2>3 DEF NotAhead
  <1>27. EdgesHeld'
    <2>1. ASSUME NEW k \in DOMAIN ops, ops[k].do = "precede" PROVE \E a \in DOMAIN g : ~Lacks(g[a], ops[k].of)
      <3>1. ops[k] \in Elems(ops)
        BY DEF Elems
      <3>2. ops[k] \in Elems(pre) \/ ops[k] \in Elems(r) \/ ops[k] \in Elems(p)
        <4>1. \A o : o \in Elems(q \o p) <=> o \in Elems(q) \/ o \in Elems(p)
          BY <1>17, MembersJoined
        <4>2. \A o : o \in Elems(pre \o r) <=> o \in Elems(pre) \/ o \in Elems(r)
          BY <1>7, <1>17, MembersJoined
        <4> QED
          BY <4>1, <4>2, <3>1, <1>16, <1>17
      <3>3. \A o \in Elems(r) : o.do = "ref"
        <4>1. \A i \in DOMAIN r : r[i] = Op("ref", c)
          BY <1>5, <1>16, OneOp
        <4> QED
          BY <4>1, OpsDiffer DEF Elems
      <3>4. \A o \in Elems(p) : o.of = w /\ w \in Tasks
        <4>1. \A i \in DOMAIN p : w \in Tasks /\ p[i] = Op("precede", w)
          BY <1>14, <1>16, OneOp
        <4> QED
          BY <4>1, OpsDiffer DEF Elems
      <3>5. ops[k].of = w
        BY <2>1, <3>2, <3>3, <3>4, <1>7
      <3>6. d.addr \in DOMAIN g /\ ~Lacks(g[d.addr], w)
        BY <1>7, <1>11, <1>13 DEF Lacks
      <3> QED
        BY <3>5, <3>6
    <2> QED
      BY <2>1, <1>9, <1>12 DEF EdgesHeld
  <1>28. IsFiniteSet(DOMAIN entry')
    BY <1>7, <1>12, <1>13
  <1> QED
    BY <1>1, <1>4, <1>9, <1>19, <1>20, <1>26, <1>27, <1>28, HashRefStep

-----------------------------------------------------------------------------
(* The operations on tasks *)

\* what is left of the operations of Master, r, when the first, x of o, is done
OpsAfter(x, o, r) ==
    /\ r \in Seq(OpSet) /\ Elems(r) \subseteq Elems(call.ops) /\ o \in Tasks /\ Known(o)
    /\ x \in {"ref", "deref", "precede"}
    /\ \A t \in Tasks : \A y : /\ Occ(r, Op(y, t)) \in Nat
                               /\ Pending(y, t) = Occ(r, Op(y, t)) + IF y = x /\ t = o THEN 1 ELSE 0
    /\ \A k \in DOMAIN r : r[k].do = "precede" =>
           \/ \E a \in DOMAIN entry : ~Lacks(entry[a], r[k].of)
           \/ \E j \in DOMAIN r : j > k /\ r[j] = Op("deref", r[k].of)

\* The first operation is taken off the list.
LEMMA OpsLeft ==
    ASSUME IInv, RefInv, call.pc # "idle", call.ops # <<>>, NEW x, x = Head(call.ops).do, NEW o, o = OpTask,
           NEW r, r = Tail(call.ops)
    PROVE  OpsAfter(x, o, r)
  <1>1. /\ Head(call.ops) \in OpSet /\ o \in Tasks /\ Known(o) /\ call.ops \in Seq(OpSet) /\ r \in Seq(OpSet)
        /\ o = Head(call.ops).of /\ Elems(r) \subseteq Elems(call.ops)
    BY OpTaskType DEF IInv
  <1>2. PICK h \in OpSet : h = Head(call.ops) /\ h.do = x /\ h.of = o
    BY <1>1
  <1>3. x \in {"ref", "deref", "precede"} /\ \A t, y : h = Op(y, t) <=> y = x /\ t = o
    BY <1>2 DEF OpSet, Op
  <1>4. ASSUME NEW y, NEW t \in Tasks
        PROVE  /\ Occ(r, Op(y, t)) \in Nat
               /\ Pending(y, t) = Occ(r, Op(y, t)) + IF y = x /\ t = o THEN 1 ELSE 0
    <2>1. PICK z : z = Op(y, t)
      OBVIOUS
    <2>2. Occ(call.ops, z) = Occ(r, z) + IF h = z THEN 1 ELSE 0
      BY <1>1, <1>2, OccHead
    <2>3. Occ(r, z) \in Nat
      BY <1>1, OccType
    <2> QED
      BY <2>1, <2>2, <2>3, <1>3 DEF Pending
  <1>5. PICK s \in Seq(OpSet), n \in Nat : s = call.ops /\ n = Len(s) /\ DOMAIN s = 1 .. n /\ n > 0
    <2>1. call.ops \in Seq(OpSet) /\ Len(call.ops) \in Nat /\ DOMAIN call.ops = 1 .. Len(call.ops) /\ Len(call.ops) > 0
      BY <1>1
    <2> QED
      BY <2>1
  <1>6. DOMAIN r = 1 .. (n - 1) /\ \A i \in 1 .. (n - 1) : r[i] = s[i + 1]
    BY <1>5
  <1>7. \A k \in DOMAIN s : s[k].do = "precede" =>
           \/ \E a \in DOMAIN entry : ~Lacks(entry[a], s[k].of)
           \/ \E j \in DOMAIN s : j > k /\ s[j] = Op("deref", s[k].of)
    BY <1>5 DEF RefInv, EdgesHeld
  <1>8. ASSUME NEW k \in DOMAIN r, r[k].do = "precede", ~\E a \in DOMAIN entry : ~Lacks(entry[a], r[k].of)
        PROVE  \E j \in DOMAIN r : j > k /\ r[j] = Op("deref", r[k].of)
    <2>1. k + 1 \in DOMAIN s /\ s[k + 1] = r[k] /\ k \in Nat
      BY <1>5, <1>6
    <2>2. PICK j \in DOMAIN s : j > k + 1 /\ s[j] = Op("deref", r[k].of)
      BY <2>1, <1>7, <1>8
    <2>3. j - 1 \in 1 .. (n - 1) /\ j - 1 > k /\ (j - 1) + 1 = j
      BY <2>1, <2>2, <1>5
    <2>4. j - 1 \in DOMAIN r /\ r[j - 1] = s[j]
      BY <2>3, <1>6
    <2> QED
      BY <2>2, <2>3, <2>4
  <1> QED
    BY <1>1, <1>3, <1>4, <1>8 DEF OpsAfter

\* An operation of Master that leaves the hash alone.
LEMMA OpRefs ==
    ASSUME IInv, RefInv, call.pc # "idle", call'.pc # "idle", call'.task = call.task, call'.deps = call.deps,
           call'.addrs = call.addrs, Elems(call'.ops) \subseteq Elems(call.ops),
           prog' = prog, team' = team, ip' = ip, entry' = entry, stack' = stack,
           Counted', Backed', EdgesHeld'
    PROVE  RefInv'
  <1>1. NamesOnce' /\ Tidy(stack') /\ Settled' /\ IsFiniteSet(DOMAIN entry')
    BY DEF RefInv, NamesOnce, AllAt, Adds, Settled
  <1>2. NotAhead'
    <2> SUFFICES ASSUME Building' PROVE NotAhead'
      BY DEF NotAhead
    <2>1. Building
      BY DEF Building
    <2> QED
      BY <2>1 DEF RefInv, NotAhead
  <1> QED
    BY <1>1, <1>2 DEF RefInv

\* Master is done with one operation of its list.
LEMMA PopRefs ==
    ASSUME IInv, IInv', RefInv, call.pc # "idle", call.ops # <<>>, call'.pc = "deps", call'.task = call.task,
           call'.deps = call.deps, call'.addrs = call.addrs, call'.ops = Tail(call.ops),
           prog' = prog, team' = team, ip' = ip, entry' = entry, stack' = stack, ended' = ended,
           NEW x, x = Head(call.ops).do, NEW o, o = OpTask,
           \A t \in Tasks : t # o => task'[t].ref = task[t].ref /\ task'[t].life = task[t].life,
           task'[o].ref = task[o].ref + IF x = "ref" THEN 1 ELSE IF x = "deref" THEN -1 ELSE 0,
           task'[o].life = IF task'[o].ref > 0 THEN "live" ELSE "freed",
           Building => \/ team = {Master} \/ task'[call.task].nHard = 0
                       \/ HashRefs(entry, call.task) > Pending("ref", call.task)
    PROVE  RefInv'
  <1>1. PICK r : r = Tail(call.ops)
    OBVIOUS
  <1>2. /\ r \in Seq(OpSet) /\ Elems(r) \subseteq Elems(call.ops) /\ o \in Tasks /\ Known(o)
        /\ x \in {"ref", "deref", "precede"}
        /\ \A t \in Tasks : \A y : /\ Occ(r, Op(y, t)) \in Nat
                                   /\ Pending(y, t) = Occ(r, Op(y, t)) + IF y = x /\ t = o THEN 1 ELSE 0
        /\ \A k \in DOMAIN r : r[k].do = "precede" =>
               \/ \E a \in DOMAIN entry : ~Lacks(entry[a], r[k].of)
               \/ \E j \in DOMAIN r : j > k /\ r[j] = Op("deref", r[k].of)
    <2>1. OpsAfter(x, o, r)
      BY <1>1, OpsLeft
    <2> QED
      BY <2>1 DEF OpsAfter
  <1>3. call'.ops = r /\ \A y, t : Pending(y, t)' = Occ(r, Op(y, t))
    BY <1>1 DEF Pending
  <1>4. (Building <=> Building') /\ \A t : Known(t) <=> Known(t)'
    <2>1. Building <=> Building'
      BY DEF Building
    <2>2. \A t : Known(t) <=> Known(t)'
      BY DEF Known, Made, Adds
    <2> QED
      BY <2>1, <2>2
  <1>5. \A t : HashRefs(entry, t) \in Nat
    BY HashRefsAre DEF IInv, TypeOK, RefInv
  <1>6. Counted'
    <2> SUFFICES ASSUME NEW t \in Tasks, Known(t)'
                 PROVE  /\ task'[t].ref + Pending("ref", t)' = Own(t)' + HashRefs(entry', t) + Pending("deref", t)'
                        /\ task'[t].life = IF task'[t].ref > 0 THEN "live" ELSE "freed"
      BY Zenon DEF Counted
    <2>1. Own(t)' = Own(t) /\ Own(t) \in {0, 1}
      BY RunningIs DEF Own
    <2>2. task[t].ref \in Int
      BY DEF IInv, TypeOK, TaskSet
    <2>3. /\ task[t].ref + Pending("ref", t) = Own(t) + HashRefs(entry, t) + Pending("deref", t)
          /\ task[t].life = IF task[t].ref > 0 THEN "live" ELSE "freed"
      BY <1>4 DEF RefInv, Counted
    <2>4. task'[t].ref = task[t].ref + (IF t = o /\ x = "ref" THEN 1 ELSE IF t = o /\ x = "deref" THEN -1 ELSE 0)
      BY <2>2
    <2>5. PICK p \in Nat, q \in Nat : p = Occ(r, Op("ref", t)) /\ q = Occ(r, Op("deref", t))
      BY <1>2
    <2>6. /\ Pending("ref", t) = p + (IF t = o /\ x = "ref" THEN 1 ELSE 0)
          /\ Pending("deref", t) = q + (IF t = o /\ x = "deref" THEN 1 ELSE 0)
      BY <2>5, <1>2
    <2>7. task'[t].ref + p = Own(t) + HashRefs(entry, t) + q
      <3>1. PICK n \in Int, h \in Nat, w \in Nat : n = task[t].ref /\ h = HashRefs(entry, t) /\ w = Own(t)
        BY <2>1, <2>2, <1>5
      <3>2. /\ n + (p + (IF t = o /\ x = "ref" THEN 1 ELSE 0)) = w + h + (q + (IF t = o /\ x = "deref" THEN 1 ELSE 0))
            /\ task'[t].ref = n + (IF t = o /\ x = "ref" THEN 1 ELSE IF t = o /\ x = "deref" THEN -1 ELSE 0)
        BY <3>1, <2>3, <2>4, <2>6
      <3>3. task'[t].ref + p = w + h + q
        BY <3>2
      <3> QED
        BY <3>1, <3>3
    <2>8. task'[t].life = IF task'[t].ref > 0 THEN "live" ELSE "freed"
      BY <2>3
    <2> QED
      BY <2>1, <2>5, <2>7, <2>8, <1>3
  <1>7. \A t \in Tasks : Pending("ref", t) \in Nat /\ Pending("ref", t)' \in Nat /\ Pending("ref", t)' <= Pending("ref", t)
    BY <1>2, <1>3
  <1>8. Backed'
    <2>1. ASSUME NEW t \in Tasks, t # call'.task, Pending("ref", t)' > 0 PROVE HashRefs(entry', t) > Pending("ref", t)'
      <3>1. PICK p \in Nat, q \in Nat : p = Pending("ref", t) /\ q = Pending("ref", t)' /\ q <= p /\ q > 0
        BY <2>1, <1>7
      <3>2. HashRefs(entry, t) > p
        BY <2>1, <3>1 DEF RefInv, Backed
      <3> QED
        BY <3>1, <3>2, <1>5
    <2>2. ASSUME Building'
          PROVE  /\ (HashRefs(entry, call.task) >= Pending("ref", call.task))'
                 /\ \/ team' = {Master}
                    \/ task'[call'.task].nHard = 0 /\ call'.pc = "deps"
                    \/ (HashRefs(entry, call.task) > Pending("ref", call.task))'
      <3>1. PICK c \in Tasks : c = call.task
        BY <2>2, <1>4, Submitted DEF Building
      <3>2. PICK p \in Nat, q \in Nat : p = Pending("ref", c) /\ q = Pending("ref", c)' /\ q <= p
        BY <1>7
      <3>3. HashRefs(entry, c) >= p
        BY <2>2, <3>1, <3>2, <1>4 DEF RefInv, Backed
      <3>4. team = {Master} \/ task'[c].nHard = 0 \/ HashRefs(entry, c) > p
        BY <2>2, <3>1, <3>2, <1>4
      <3> QED
        BY <3>1, <3>2, <3>3, <3>4, <1>5
    <2> QED
      BY <2>1, <2>2, Zenon DEF Backed
  <1>9. EdgesHeld'
    BY <1>2, <1>3 DEF EdgesHeld
  <1> QED
    BY <1>2, <1>3, <1>6, <1>8, <1>9, OpRefs

\* kupl_gnode_ref: the task has another reference, so it is not freed.
LEMMA GnodeRefRefs == ASSUME IInv, IInv', RefInv, GnodeRef PROVE RefInv'
  <1>1. /\ call.pc = "deps" /\ call.pc # "idle" /\ call.ops # <<>> /\ Head(call.ops).do = "ref" /\ call' = PopOp
        /\ task' = [task EXCEPT ![OpTask].ref = @ + 1]
        /\ prog' = prog /\ team' = team /\ ip' = ip /\ entry' = entry /\ stack' = stack /\ ended' = ended
    BY DEF GnodeRef, NextOp, program, dagVars, history
  <1>2. /\ call'.pc = "deps" /\ call'.task = call.task /\ call'.deps = call.deps /\ call'.addrs = call.addrs
        /\ call'.ops = Tail(call.ops)
    BY <1>1 DEF IInv, TypeOK, CallSet, PopOp
  <1>3. PICK o \in Tasks, x \in {"ref"} : o = OpTask /\ Known(o)
    BY <1>1, OpTaskType DEF IInv
  <1>4. task \in [Tasks -> TaskSet] /\ task[o] \in TaskSet
    BY DEF IInv, TypeOK
  <1>5. /\ \A t \in Tasks : /\ t # o => task'[t].ref = task[t].ref /\ task'[t].life = task[t].life
                            /\ task'[t].nHard = task[t].nHard
        /\ task'[o].ref = task[o].ref + 1 /\ task'[o].life = task[o].life
    BY <1>1, <1>3, <1>4 DEF TaskSet
  <1>6. task[o].ref >= 1 /\ task[o].ref \in Int /\ task[o].life = "live"
    <2>1. Pending("ref", o) > 0
      <3>1. PICK r : r = Tail(call.ops)
        OBVIOUS
      <3>2. OpsAfter(x, o, r)
        BY <1>1, <1>3, <3>1, OpsLeft
      <3>3. Occ(r, Op("ref", o)) \in Nat /\ Pending("ref", o) = Occ(r, Op("ref", o)) + 1
        BY <3>2, <1>3 DEF OpsAfter
      <3> QED
        BY <3>3
    <2>2. \/ task[o].ref >= 1
          \/ Pending("ref", o) = 0
      BY <1>3, Backing
    <2>3. task[o].ref \in Int /\ task[o].life = IF task[o].ref > 0 THEN "live" ELSE "freed"
      BY <1>3, Backing
    <2> QED
      BY <2>1, <2>2, <2>3
  <1>7. /\ task'[o].ref = task[o].ref + IF x = "ref" THEN 1 ELSE IF x = "deref" THEN -1 ELSE 0
        /\ task'[o].life = IF task'[o].ref > 0 THEN "live" ELSE "freed"
    BY <1>3, <1>5, <1>6
  <1>8. Building => \/ team = {Master} \/ task'[call.task].nHard = 0
                    \/ HashRefs(entry, call.task) > Pending("ref", call.task)
    <2> SUFFICES ASSUME Building PROVE \/ team = {Master} \/ task'[call.task].nHard = 0
                                       \/ HashRefs(entry, call.task) > Pending("ref", call.task)
      OBVIOUS
    <2>1. call.task \in Tasks
      BY Submitted DEF Building
    <2> QED
      BY <2>1, <1>5 DEF RefInv, Backed
  <1> QED
    BY <1>1, <1>2, <1>3, <1>5, <1>7, <1>8, PopRefs

\* kupl_gnode_deref: what it drops was still counted.
LEMMA GnodeDerefRefs == ASSUME IInv, IInv', RefInv, GnodeDeref PROVE RefInv'
  <1>1. /\ call.pc = "deps" /\ call.pc # "idle" /\ call.ops # <<>> /\ Head(call.ops).do = "deref" /\ call' = PopOp
        /\ task' = [task EXCEPT ![OpTask] = Deref(@)]
        /\ prog' = prog /\ team' = team /\ ip' = ip /\ entry' = entry /\ stack' = stack /\ ended' = ended
    BY DEF GnodeDeref, NextOp, program, dagVars, history
  <1>2. /\ call'.pc = "deps" /\ call'.task = call.task /\ call'.deps = call.deps /\ call'.addrs = call.addrs
        /\ call'.ops = Tail(call.ops)
    BY <1>1 DEF IInv, TypeOK, CallSet, PopOp
  <1>3. PICK o \in Tasks, x \in {"deref"} : o = OpTask /\ Known(o)
    BY <1>1, OpTaskType DEF IInv
  <1>4. task \in [Tasks -> TaskSet] /\ task[o] \in TaskSet
    BY DEF IInv, TypeOK
  <1>5. task[o].ref >= 1 /\ task[o].ref \in Int /\ task[o].life = "live"
    <2>1. Pending("deref", o) > 0
      <3>1. PICK r : r = Tail(call.ops)
        OBVIOUS
      <3>2. OpsAfter(x, o, r)
        BY <1>1, <1>3, <3>1, OpsLeft
      <3>3. Occ(r, Op("deref", o)) \in Nat /\ Pending("deref", o) = Occ(r, Op("deref", o)) + 1
        BY <3>2, <1>3 DEF OpsAfter
      <3> QED
        BY <3>3
    <2>2. \/ task[o].ref >= 1
          \/ Pending("deref", o) = 0
      BY <1>3, Backing
    <2>3. task[o].ref \in Int /\ task[o].life = IF task[o].ref > 0 THEN "live" ELSE "freed"
      BY <1>3, Backing
    <2> QED
      BY <2>1, <2>2, <2>3
  <1>6. /\ task'[o] = Deref(task[o])
        /\ \A t \in Tasks : /\ t # o => task'[t].ref = task[t].ref /\ task'[t].life = task[t].life
                            /\ task'[t].nHard = task[t].nHard
    BY <1>1, <1>3, <1>4, DerefIs
  <1>7. /\ task'[o].ref = task[o].ref + IF x = "ref" THEN 1 ELSE IF x = "deref" THEN -1 ELSE 0
        /\ task'[o].life = IF task'[o].ref > 0 THEN "live" ELSE "freed"
    <2>1. task'[o].ref = task[o].ref - 1 /\ task'[o].life = IF task[o].ref = 1 THEN "freed" ELSE "live"
      BY <1>4, <1>5, <1>6 DEF Deref, TaskSet
    <2> QED
      BY <2>1, <1>3, <1>5
  <1>8. Building => \/ team = {Master} \/ task'[call.task].nHard = 0
                    \/ HashRefs(entry, call.task) > Pending("ref", call.task)
    <2> SUFFICES ASSUME Building PROVE \/ team = {Master} \/ task'[call.task].nHard = 0
                                       \/ HashRefs(entry, call.task) > Pending("ref", call.task)
      OBVIOUS
    <2>1. call.task \in Tasks
      BY Submitted DEF Building
    <2> QED
      BY <2>1, <1>6 DEF RefInv, Backed
  <1> QED
    BY <1>1, <1>2, <1>3, <1>6, <1>7, <1>8, PopRefs

\* kupl_gnode_precede of a task that is finished: no edge.
LEMMA PrecedeFinishedRefs == ASSUME IInv, IInv', RefInv, GnodePrecedeLock, task[OpTask].finished PROVE RefInv'
  <1>1. /\ call.pc = "deps" /\ call.pc # "idle" /\ call.ops # <<>> /\ Head(call.ops).do = "precede" /\ call' = PopOp
        /\ task' = task
        /\ prog' = prog /\ team' = team /\ ip' = ip /\ entry' = entry /\ stack' = stack /\ ended' = ended
    BY DEF GnodePrecedeLock, NextOp, program, dagVars, history
  <1>2. /\ call'.pc = "deps" /\ call'.task = call.task /\ call'.deps = call.deps /\ call'.addrs = call.addrs
        /\ call'.ops = Tail(call.ops)
    BY <1>1 DEF IInv, TypeOK, CallSet, PopOp
  <1>3. PICK o \in Tasks, x \in {"precede"} : o = OpTask /\ Known(o)
    BY <1>1, OpTaskType DEF IInv
  <1>4. task[o].ref \in Int /\ task[o].life = IF task[o].ref > 0 THEN "live" ELSE "freed"
    BY <1>3, Backing
  <1>5. /\ task'[o].ref = task[o].ref + IF x = "ref" THEN 1 ELSE IF x = "deref" THEN -1 ELSE 0
        /\ task'[o].life = IF task'[o].ref > 0 THEN "live" ELSE "freed"
    BY <1>1, <1>3, <1>4
  <1>6. Building => \/ team = {Master} \/ task'[call.task].nHard = 0
                    \/ HashRefs(entry, call.task) > Pending("ref", call.task)
    BY <1>1 DEF RefInv, Backed
  <1> QED
    BY <1>1, <1>2, <1>3, <1>5, <1>6, PopRefs

\* Master goes on with the edge it is making.
LEMMA EdgeRefs ==
    ASSUME IInv, IInv', RefInv, Building, call'.pc \in {"insert", "count"}, call'.task = call.task,
           call'.deps = call.deps, call'.addrs = call.addrs, call'.ops = call.ops,
           prog' = prog, team' = team, ip' = ip, entry' = entry, stack' = stack, ended' = ended,
           \A t \in Tasks : task'[t].ref = task[t].ref /\ task'[t].life = task[t].life,
           team = {Master} \/ HashRefs(entry, call.task) > Pending("ref", call.task)
    PROVE  RefInv'
  <1>1. call.pc # "idle" /\ call'.pc # "idle"
    BY DEF Building
  <1>2. (Building <=> Building') /\ \A t : Known(t) <=> Known(t)'
    <2>1. Building <=> Building'
      BY <1>1 DEF Building
    <2>2. \A t : Known(t) <=> Known(t)'
      BY <1>1 DEF Known, Made, Adds
    <2> QED
      BY <2>1, <2>2
  <1>3. \A y, t : Pending(y, t)' = Pending(y, t)
    BY DEF Pending
  <1>4. Counted'
    <2> SUFFICES ASSUME NEW t \in Tasks, Known(t)'
                 PROVE  /\ task'[t].ref + Pending("ref", t)' = Own(t)' + HashRefs(entry', t) + Pending("deref", t)'
                        /\ task'[t].life = IF task'[t].ref > 0 THEN "live" ELSE "freed"
      BY Zenon DEF Counted
    <2>1. Own(t)' = Own(t)
      BY RunningIs DEF Own
    <2> QED
      BY <2>1, <1>2, <1>3 DEF RefInv, Counted
  <1>5. Backed'
    <2>1. ASSUME NEW t \in Tasks, t # call'.task, Pending("ref", t)' > 0 PROVE HashRefs(entry', t) > Pending("ref", t)'
      BY <2>1, <1>3 DEF RefInv, Backed
    <2>2. ASSUME Building'
          PROVE  /\ (HashRefs(entry, call.task) >= Pending("ref", call.task))'
                 /\ \/ team' = {Master}
                    \/ task'[call'.task].nHard = 0 /\ call'.pc = "deps"
                    \/ (HashRefs(entry, call.task) > Pending("ref", call.task))'
      <3>1. PICK c : c = call.task
        OBVIOUS
      <3>2. HashRefs(entry, c) >= Pending("ref", c) /\ (team = {Master} \/ HashRefs(entry, c) > Pending("ref", c))
        BY <3>1 DEF RefInv, Backed
      <3>3. Pending("ref", c)' = Pending("ref", c)
        BY <1>3
      <3> QED
        BY <3>1, <3>2, <3>3
    <2> QED
      BY <2>1, <2>2, Zenon DEF Backed
  <1>6. EdgesHeld'
    BY DEF RefInv, EdgesHeld
  <1> QED
    BY <1>1, <1>4, <1>5, <1>6, OpRefs

\* kupl_gnode_precede locks the predecessor: from here on others may release the
\* edge, and the hash holds the task.
LEMMA PrecedeLockRefs ==
    ASSUME IInv, IInv', RefInv, HeldByHash, GnodePrecedeLock, ~task[OpTask].finished
    PROVE  RefInv'
  <1>1. /\ call.pc = "deps" /\ call.pc # "idle" /\ call.ops # <<>> /\ Head(call.ops).do = "precede"
        /\ NextOp("precede") /\ call' = [call EXCEPT !.pc = "insert"]
        /\ task' = [task EXCEPT ![OpTask].locked = TRUE]
        /\ prog' = prog /\ team' = team /\ ip' = ip /\ entry' = entry /\ stack' = stack /\ ended' = ended
    BY DEF GnodePrecedeLock, NextOp, program, dagVars, history
  <1>2. /\ call'.pc = "insert" /\ call'.task = call.task /\ call'.deps = call.deps /\ call'.addrs = call.addrs
        /\ call'.ops = call.ops
    BY <1>1 DEF IInv, TypeOK, CallSet
  <1>3. Building
    BY <1>1, EdgeOfSubmission
  <1>4. PICK c \in Tasks : c = call.task /\ Known(c)
    BY <1>3, Submitted DEF Building
  <1>5. \A t \in Tasks : task'[t].ref = task[t].ref /\ task'[t].life = task[t].life
    BY <1>1, SMTT(60) DEF IInv, TypeOK, TaskSet
  <1>6. ASSUME team # {Master} PROVE HashRefs(entry, c) > Pending("ref", c)
    <2>1. task[c].ref > 1
      BY <1>1, <1>4, <1>6 DEF HeldByHash
    <2>2. /\ Own(c) \in {0, 1} /\ HashRefs(entry, c) \in Nat
          /\ Pending("ref", c) \in Nat /\ Pending("deref", c) \in Nat /\ task[c].ref \in Int
          /\ task[c].ref + Pending("ref", c) = Own(c) + HashRefs(entry, c) + Pending("deref", c)
      BY <1>4, Backing
    <2>3. Pending("deref", c) = 0
      <3>1. Op("deref", c) \notin Elems(call.ops)
        BY <1>3, <1>4 DEF RefInv, NotAhead
      <3>2. call.ops \in Seq(OpSet)
        BY DEF IInv, TypeOK, CallSet
      <3> QED
        BY <3>1, <3>2, OccType DEF Pending
    <2> QED
      BY <2>1, <2>2, <2>3
  <1> QED
    BY <1>1, <1>2, <1>3, <1>4, <1>5, <1>6, EdgeRefs

\* The edge is in the list of the predecessor.
LEMMA PrecedeInsertRefs == ASSUME IInv, IInv', RefInv, GnodePrecedeInsert PROVE RefInv'
  <1>1. /\ call.pc = "insert" /\ call.pc # "idle" /\ call' = [call EXCEPT !.pc = "count"]
        /\ task' = [task EXCEPT ![OpTask].succ = <<call.task>> \o @, ![OpTask].locked = FALSE]
        /\ prog' = prog /\ team' = team /\ ip' = ip /\ entry' = entry /\ stack' = stack /\ ended' = ended
    BY DEF GnodePrecedeInsert, program, dagVars, history
  <1>2. call.ops # <<>> /\ Head(call.ops).do = "precede"
    BY <1>1 DEF IInv, CallShape
  <1>3. /\ call'.pc = "count" /\ call'.task = call.task /\ call'.deps = call.deps /\ call'.addrs = call.addrs
        /\ call'.ops = call.ops
    BY <1>1 DEF IInv, TypeOK, CallSet
  <1>4. Building
    BY <1>1, <1>2, EdgeOfSubmission
  <1>5. \A t \in Tasks : task'[t].ref = task[t].ref /\ task'[t].life = task[t].life
    <2>1. task \in [Tasks -> TaskSet]
      BY DEF IInv, TypeOK
    <2>2. \A t \in Tasks : t # OpTask => task'[t] = task[t]
      BY <1>1, <2>1
    <2>3. OpTask \in Tasks
      BY <1>1, <1>2, OpTaskType DEF IInv
    <2>4. task'[OpTask].ref = task[OpTask].ref /\ task'[OpTask].life = task[OpTask].life
      BY <1>1, <2>1, <2>3 DEF TaskSet
    <2> QED
      BY <2>2, <2>4
  <1>6. team = {Master} \/ HashRefs(entry, call.task) > Pending("ref", call.task)
    BY <1>1, <1>4 DEF RefInv, Backed
  <1> QED
    BY <1>1, <1>3, <1>4, <1>5, <1>6, EdgeRefs

\* The edge is counted.
LEMMA PrecedeCountRefs == ASSUME IInv, IInv', RefInv, GnodePrecedeCount PROVE RefInv'
  <1>1. /\ call.pc = "count" /\ call.pc # "idle" /\ call' = [PopOp EXCEPT !.n = Inc(@)]
        /\ task' = [task EXCEPT ![call.task].nHard = Inc(@), ![call.task].nPred = Inc(@)]
        /\ prog' = prog /\ team' = team /\ ip' = ip /\ entry' = entry /\ stack' = stack /\ ended' = ended
    BY DEF GnodePrecedeCount, program, dagVars, history
  <1>2. call.ops # <<>> /\ Head(call.ops).do = "precede"
    BY <1>1 DEF IInv, CallShape
  <1>3. /\ call'.pc = "deps" /\ call'.task = call.task /\ call'.deps = call.deps /\ call'.addrs = call.addrs
        /\ call'.ops = Tail(call.ops)
    BY <1>1 DEF IInv, TypeOK, CallSet, PopOp
  <1>4. Building
    BY <1>1, <1>2, EdgeOfSubmission
  <1>5. PICK o \in Tasks, x \in {"precede"} : o = OpTask /\ Known(o)
    BY <1>1, <1>2, OpTaskType DEF IInv
  <1>6. \A t \in Tasks : task'[t].ref = task[t].ref /\ task'[t].life = task[t].life
    <2>1. task \in [Tasks -> TaskSet]
      BY DEF IInv, TypeOK
    <2>2. \A t \in Tasks : t # call.task => task'[t] = task[t]
      BY <1>1, <2>1
    <2>3. call.task \in Tasks
      BY <1>4, Submitted DEF Building
    <2>4. task'[call.task].ref = task[call.task].ref /\ task'[call.task].life = task[call.task].life
      BY <1>1, <2>1, <2>3 DEF TaskSet
    <2> QED
      BY <2>2, <2>4
  <1>7. task[o].ref \in Int /\ task[o].life = IF task[o].ref > 0 THEN "live" ELSE "freed"
    BY <1>5, Backing
  <1>8. /\ task'[o].ref = task[o].ref + IF x = "ref" THEN 1 ELSE IF x = "deref" THEN -1 ELSE 0
        /\ task'[o].life = IF task'[o].ref > 0 THEN "live" ELSE "freed"
    BY <1>5, <1>6, <1>7
  <1>9. team = {Master} \/ HashRefs(entry, call.task) > Pending("ref", call.task)
    BY <1>1, <1>4 DEF RefInv, Backed
  <1> QED
    <2>1. /\ call.pc # "idle" /\ call.ops # <<>>
          /\ prog' = prog /\ team' = team /\ ip' = ip /\ entry' = entry /\ stack' = stack /\ ended' = ended
          /\ x = Head(call.ops).do /\ o = OpTask
      BY <1>1, <1>2, <1>5
    <2> QED
      BY <2>1, <1>3, <1>6, <1>8, <1>9, PopRefs

-----------------------------------------------------------------------------
(* The calls of Master *)

\* Master enters or leaves a call with nothing to do on tasks.
LEMMA CallRefs ==
    ASSUME IInv, IInv', RefInv, call.ops = <<>>, call'.ops = <<>>, ~Building', Settled',
           prog' = prog, team' = team, entry' = entry, ended' = ended, task' = task,
           Tidy(stack'), \A t : RunIn(stack', t) <=> RunIn(stack, t), \A t : Known(t)' => Known(t)
    PROVE  RefInv'
  <1>1. NamesOnce' /\ IsFiniteSet(DOMAIN entry')
    BY DEF RefInv, NamesOnce, AllAt, Adds
  <1>2. \A y, t : Pending(y, t) = 0 /\ Pending(y, t)' = 0
    BY OccOne DEF Pending
  <1>3. Counted'
    <2> SUFFICES ASSUME NEW t \in Tasks, Known(t)'
                 PROVE  /\ task'[t].ref + Pending("ref", t)' = Own(t)' + HashRefs(entry', t) + Pending("deref", t)'
                        /\ task'[t].life = IF task'[t].ref > 0 THEN "live" ELSE "freed"
      BY Zenon DEF Counted
    <2>1. Own(t)' = Own(t)
      BY RunningIs DEF Own
    <2> QED
      BY <2>1, <1>2 DEF RefInv, Counted
  <1>4. Backed'
    <2>1. \A t \in Tasks : ~(Pending("ref", t)' > 0)
      BY <1>2
    <2> QED
      BY <2>1 DEF Backed
  <1>5. NotAhead'
    BY DEF NotAhead
  <1>6. EdgesHeld'
    BY DEF EdgesHeld
  <1> QED
    BY <1>1, <1>3, <1>4, <1>5, <1>6 DEF RefInv

\* kupl_graph_destroy begins.
LEMMA GraphDestroyRefs == ASSUME IInv, IInv', RefInv, GraphDestroy PROVE RefInv'
  <1>1. PICK ad : ad = DOMAIN entry
    OBVIOUS
  <1>2. /\ AtCall("destroy") /\ task' = task
        /\ call' = [Idle EXCEPT !.pc = "deps", !.task = None, !.deps = <<>>, !.addrs = ad, !.ops = <<>>]
        /\ prog' = prog /\ team' = team /\ ip' = ip /\ entry' = entry /\ stack' = stack /\ ended' = ended
    BY <1>1 DEF GraphDestroy, Enter, Args, program, dagVars, history
  <1>3. call.pc = "idle" /\ call.ops = <<>> /\ prog[ip].op = "destroy"
    BY <1>2 DEF AtCall, RefInv, Settled
  <1>4. call'.pc = "deps" /\ call'.ops = <<>>
    BY <1>2 DEF Idle
  <1>5. ~Building' /\ Settled'
    BY <1>2, <1>3, <1>4 DEF Building, Settled
  <1>6. \A t : Known(t)' => Known(t)
    BY <1>2, <1>3 DEF Known, Made, Adds
  <1> QED
    BY <1>2, <1>3, <1>4, <1>5, <1>6, CallRefs DEF RefInv

\* Master returns from a call that works on the graph.
LEMMA DoneRefs ==
    ASSUME IInv, IInv', RefInv, DagDone, call' = Idle, ip' = ip + 1,
           prog' = prog, team' = team, entry' = entry, ended' = ended, task' = task,
           Tidy(stack'), \A t : RunIn(stack', t) <=> RunIn(stack, t)
    PROVE  RefInv'
  <1>1. call.ops = <<>> /\ call.pc = "deps"
    BY DEF DagDone, InDag
  <1>2. call'.pc = "idle" /\ call'.ops = <<>> /\ call'.task = None
    BY DEF Idle
  <1>3. ip \in DOMAIN prog /\ ip \in Nat
    BY <1>1, Submitted
  <1>4. \A t : Known(t)' => Known(t)
    <2> SUFFICES ASSUME NEW t, NEW i \in DOMAIN prog, Made(i)', prog[i].task = t PROVE Made(i)
      BY DEF Known
    <2>1. i \in Nat
      BY Submissions DEF IInv
    <2>2. Adds(i) /\ i < ip + 1
      BY <1>2 DEF Made, Adds
    <2>3. i < ip \/ i = ip
      BY <2>1, <2>2, <1>3
    <2> QED
      BY <2>2, <2>3, <1>1 DEF Made
  <1>5. ~Building' /\ Settled'
    BY <1>2 DEF Building, Settled
  <1> QED
    BY <1>1, <1>2, <1>4, <1>5, CallRefs

\* kupl_graph_add_task returns, with the task handed over or waiting.
LEMMA GraphAddTaskDoneRefs == ASSUME IInv, IInv', RefInv, GraphAddTaskDone PROVE RefInv'
  <1> DEFINE h == Top(Master)
             f == [h EXCEPT !.todo = <<call.task>>]
  <1>1. /\ DagDone /\ call' = Idle /\ ip' = ip + 1
        /\ prog' = prog /\ team' = team /\ entry' = entry /\ ended' = ended /\ task' = task
        /\ stack' = stack \/ stack' = [stack EXCEPT ![Master][Len(stack[Master])] = f]
    BY DEF GraphAddTaskDone, SetTop, program, dagVars, history
  <1>2. Master \in Executors /\ stack[Master] # <<>>
    BY ExecutorsAssumption DEF IInv, FrameShape, Shape
  <1>3. h \in FrameSet /\ TidyFrame(h)
    BY <1>2, TopTidyFrame
  <1>4. h.pc = "main"
    <2>1. Len(stack[Master]) = 1 /\ h = stack[Master][Len(stack[Master])] /\ Len(stack[Master]) \in DOMAIN stack[Master]
      BY <1>1, <1>2, Tops DEF IInv, FrameShape, Shape, DagDone, InDag
    <2> QED
      BY <2>1, <1>2 DEF IInv, FrameShape, Shape
  <1>5. f.task = h.task /\ TidyFrame(f)
    BY <1>3, <1>4 DEF FrameSet, TidyFrame
  <1> HIDE DEF f
  <1>6. Tidy(stack') /\ \A t : RunIn(stack', t) <=> RunIn(stack, t)
    <2>1. CASE stack' = stack
      BY <2>1 DEF RefInv
    <2>2. CASE stack' = [stack EXCEPT ![Master][Len(stack[Master])] = f]
      BY <2>2, <1>2, <1>5, TopTidy DEF IInv, RefInv
    <2> QED
      BY <2>1, <2>2, <1>1
  <1> QED
    BY <1>1, <1>6, DoneRefs

\* kupl_graph_destroy returns.
LEMMA DestroyDoneRefs == ASSUME IInv, IInv', RefInv, DestroyDone PROVE RefInv'
  <1>1. /\ DagDone /\ call' = Idle /\ ip' = ip + 1
        /\ prog' = prog /\ team' = team /\ entry' = entry /\ ended' = ended /\ task' = task /\ stack' = stack
    BY DEF DestroyDone, program, dagVars, history
  <1> QED
    BY <1>1, DoneRefs DEF RefInv

\* kupl_graph_add_task creates the task with a reference of its own; the hash does
\* not know it yet.
LEMMA GraphAddTaskRefs == ASSUME IInv, IInv', RefInv, GraphAddTask PROVE RefInv'
  <1>1. PICK c, l : c = prog[ip].task /\ l = DepListRmDup(prog[ip].deps)
    OBVIOUS
  <1>2. /\ AtCall("add_task") /\ task' = [task EXCEPT ![c] = TaskInit]
        /\ call' = [Idle EXCEPT !.pc = "deps", !.task = c, !.deps = l, !.addrs = {}, !.ops = <<>>]
        /\ prog' = prog /\ team' = team /\ ip' = ip /\ entry' = entry /\ stack' = stack /\ ended' = ended
    BY <1>1 DEF GraphAddTask, Enter, Args, program, dagVars, history
  <1>3. ip \in DOMAIN prog /\ Adds(ip) /\ AddAt(ip, c) /\ call.pc = "idle" /\ call.ops = <<>> /\ ip \in Nat
    <2>1. ip \in Nat /\ ip >= 1 /\ Len(prog) \in Nat /\ DOMAIN prog = 1 .. Len(prog)
      BY Submissions DEF IInv, TypeOK
    <2> QED
      BY <2>1, <1>1, <1>2 DEF AtCall, Adds, AddAt, RefInv, Settled
  <1>4. c \in Tasks /\ prog[ip].deps \in Seq(DepSet)
    BY <1>1, <1>3, Submissions DEF IInv
  <1>5. /\ call'.pc = "deps" /\ call'.task = c /\ call'.deps = l /\ call'.addrs = {} /\ call'.ops = <<>>
    BY <1>2 DEF Idle
  <1>6. ~Known(c)
    <2> SUFFICES ASSUME NEW i \in DOMAIN prog, Made(i), prog[i].task = c PROVE FALSE
      BY DEF Known
    <2>1. i < ip /\ Adds(i) /\ i \in Nat /\ ip \in Nat
      BY <1>3, Submissions DEF Made, IInv
    <2>2. i = ip
      BY <2>1, <1>1, <1>3 DEF IInv, Disciplined
    <2> QED
      BY <2>1, <2>2
  <1>7. ASSUME NEW t, Known(t)', t # c PROVE Known(t)
    <2>1. PICK i \in DOMAIN prog : Made(i)' /\ prog[i].task = t
      BY <1>2, <1>7 DEF Known
    <2>2. Made(i)
      BY <2>1, <1>1, <1>2, <1>7 DEF Made, Adds
    <2> QED
      BY <2>1, <2>2 DEF Known
  <1>8. task[c] = NoTask /\ task \in [Tasks -> TaskSet] /\ ended[c] = 0
    <2>1. task[c] = NoTask /\ task \in [Tasks -> TaskSet]
      BY <1>4, <1>6 DEF IInv, Fresh, TypeOK
    <2>2. ended[c] # 1 /\ ended[c] \in {0, 1}
      BY <2>1, <1>4 DEF IInv, Runs, TypeOK, NoTask
    <2> QED
      BY <2>1, <2>2
  <1>9. /\ \A t \in Tasks : t # c => task'[t] = task[t]
        /\ task'[c].ref = 1 /\ task'[c].life = "live" /\ task'[c].nHard = 0
    <2>1. TaskInit.ref = 1 /\ TaskInit.life = "live" /\ TaskInit.nHard = 0
      BY DEF TaskInit, NoTask
    <2> QED
      BY <2>1, <1>2, <1>4, <1>8
  <1>10. \A a \in DOMAIN entry : Lacks(entry[a], c)
    <2> TAKE a \in DOMAIN entry
    <2>1. entry[a].out # c
      <3> SUFFICES ASSUME entry[a].out = c PROVE FALSE
        OBVIOUS
      <3>1. c # None
        BY <1>4, TasksAssumption
      <3>2. \E i \in DOMAIN prog : Made(i) /\ prog[i].task = c
        BY <3>1 DEF IInv, HashHolds, HoldsIn
      <3> QED
        BY <3>2, <1>6 DEF Known
    <2>2. c \notin Elems(entry[a].in)
      BY <1>6 DEF IInv, HashHolds, HoldsIn
    <2> QED
      BY <2>1, <2>2 DEF Lacks
  <1>11. HashRefs(entry, c) = 0 /\ \A t : HashRefs(entry, t) \in Nat
    BY <1>10, HashRefsAre DEF IInv, TypeOK, RefInv
  <1>12. \A y, t : Pending(y, t) = 0 /\ Pending(y, t)' = 0
    BY <1>3, <1>5, OccOne DEF Pending
  <1>13. Counted'
    <2> SUFFICES ASSUME NEW t \in Tasks, Known(t)'
                 PROVE  /\ task'[t].ref + Pending("ref", t)' = Own(t)' + HashRefs(entry', t) + Pending("deref", t)'
                        /\ task'[t].life = IF task'[t].ref > 0 THEN "live" ELSE "freed"
      BY Zenon DEF Counted
    <2>1. Own(t)' = Own(t)
      BY <1>2, RunningIs DEF Own
    <2>2. CASE t = c
      <3>1. Own(c) = 1
        BY <1>8 DEF Own
      <3> QED
        BY <3>1, <2>1, <2>2, <1>2, <1>9, <1>11, <1>12
    <2>3. CASE t # c
      <3>1. Known(t)
        BY <2>3, <1>7
      <3>2. /\ task[t].ref + Pending("ref", t) = Own(t) + HashRefs(entry, t) + Pending("deref", t)
            /\ task[t].life = IF task[t].ref > 0 THEN "live" ELSE "freed"
        BY <3>1 DEF RefInv, Counted
      <3> QED
        BY <3>2, <2>1, <2>3, <1>2, <1>9, <1>12
    <2> QED
      BY <2>2, <2>3
  <1>14. Backed'
    <2>1. \A t \in Tasks : ~(Pending("ref", t)' > 0)
      BY <1>12
    <2>2. (HashRefs(entry, call.task) >= Pending("ref", call.task))'
      BY <1>2, <1>5, <1>11, <1>12
    <2>3. task'[call'.task].nHard = 0 /\ call'.pc = "deps"
      BY <1>5, <1>9
    <2> QED
      BY <2>1, <2>2, <2>3, Zenon DEF Backed
  <1>15. \A i, j \in DOMAIN l : i # j => l[i].addr # l[j].addr /\ ~IsAll(l[i])
    <2>1. CASE AllAt(ip)
      <3>1. l = <<[addr |-> AllAddr, type |-> "ALL"]>>
        BY <2>1, <1>1 DEF AllAt, DepListRmDup, Elems
      <3>2. DOMAIN l = {1}
        BY <3>1
      <3> QED
        BY <3>2
    <2>2. CASE ~AllAt(ip)
      <3>1. l = prog[ip].deps
        BY <2>2, <1>1 DEF AllAt, DepListRmDup, Elems
      <3>2. \A i \in DOMAIN l : ~IsAll(l[i])
        BY <2>2, <3>1 DEF AllAt, Elems
      <3>3. \A i, j \in DOMAIN l : l[i].addr = l[j].addr => i = j
        BY <2>2, <3>1, <1>3 DEF RefInv, NamesOnce
      <3> QED
        BY <3>2, <3>3
    <2> QED
      BY <2>1, <2>2
  <1>16. NotAhead'
    <2>1. \A i, j \in DOMAIN call'.deps : i # j => call'.deps[i].addr # call'.deps[j].addr /\ ~IsAll(call'.deps[i])
      BY <1>5, <1>15
    <2>2. \A x \in Elems(call'.deps), b \in DOMAIN entry' : b = x.addr \/ b = AllAddr \/ IsAll(x) => Lacks(entry'[b], call'.task)
      BY <1>2, <1>5, <1>10
    <2>3. call'.addrs = {} /\ Op("deref", call'.task) \notin Elems(call'.ops)
      BY <1>5 DEF Elems
    <2> QED
      BY <2>1, <2>2, <2>3 DEF NotAhead
  <1>17. EdgesHeld' /\ Settled'
    BY <1>5 DEF EdgesHeld, Settled
  <1>18. NamesOnce' /\ IsFiniteSet(DOMAIN entry') /\ Tidy(stack')
    BY <1>2 DEF RefInv, NamesOnce, AllAt, Adds
  <1> QED
    BY <1>13, <1>14, <1>16, <1>17, <1>18 DEF RefInv

\* kupl_graph_wait and kupl_graph_test go on, or nothing happens.
LEMMA CallOverRefs ==
    ASSUME IInv, IInv', RefInv, ip' = ip \/ CallOver,
           UNCHANGED <<program, call, task, dagVars, count, alive, schedVars, stack, history>>
    PROVE  RefInv'
  <1>1. /\ prog' = prog /\ team' = team /\ call' = call /\ task' = task /\ entry' = entry /\ stack' = stack
        /\ ended' = ended
    BY DEF program, dagVars, history
  <1>2. ExecRefKept /\ Tidy(stack')
    BY <1>1 DEF ExecRefKept, RefInv
  <1> QED
    BY <1>1, <1>2, FrameStep

\* kupl_graph_wait returns.
LEMMA GraphWaitRefs == ASSUME IInv, IInv', RefInv, GraphWait PROVE RefInv'
  <1>1. CallOver /\ UNCHANGED <<program, call, task, dagVars, count, alive, schedVars, stack, history>>
    <2>1. ip \in Nat /\ ip >= 1 /\ Len(prog) \in Nat /\ DOMAIN prog = 1 .. Len(prog)
      BY Submissions DEF IInv, TypeOK
    <2> QED
      BY <2>1 DEF GraphWait, AtCall, CallOver
  <1> QED
    BY <1>1, CallOverRefs

\* kupl_graph_test runs a task on Master, or none.
LEMMA GraphTestRefs == ASSUME IInv, IInv', RefInv, GraphTest PROVE RefInv'
  <1>1. CallOver
    <2>1. ip \in Nat /\ ip >= 1 /\ Len(prog) \in Nat /\ DOMAIN prog = 1 .. Len(prog)
      BY Submissions DEF IInv, TypeOK
    <2> QED
      BY <2>1 DEF GraphTest, AtCall, CallOver
  <1>2. CASE \E t \in Tasks : SchedExecuteTb(Master, t)
    BY <1>1, <1>2, ExecutorsAssumption, SchedExecuteTbRefs
  <1>3. CASE UNCHANGED <<program, call, task, dagVars, count, alive, schedVars, stack, history>>
    BY <1>1, <1>3, CallOverRefs
  <1> QED
    BY <1>2, <1>3 DEF GraphTest

\* The references are counted before anything is submitted.
LEMMA StartRefInv == ASSUME Init, Disciplined, NamesOnce PROVE RefInv
  <1>1. /\ ip = 1 /\ call = Idle /\ entry = <<>>
        /\ stack = [e \in Executors |-> IF e = Master THEN <<Frame(None, "main", <<>>)>> ELSE <<>>]
    BY DEF Init
  <1>2. call.pc = "idle" /\ call.task = None /\ call.ops = <<>>
    BY <1>1 DEF Idle
  <1>3. \A t : ~Known(t)
    <2>1. DOMAIN prog = 1 .. Len(prog)
      BY DEF Disciplined
    <2> QED
      BY <2>1, <1>1, <1>2 DEF Known, Made
  <1>4. Counted /\ NotAhead /\ EdgesHeld /\ Settled /\ ~Building
    BY <1>2, <1>3 DEF Counted, NotAhead, EdgesHeld, Settled, Building
  <1>5. Backed
    <2>1. \A t : Pending("ref", t) = 0
      BY <1>2, OccOne DEF Pending
    <2>2. \A t \in Tasks : ~(Pending("ref", t) > 0)
      BY <2>1
    <2> QED
      BY <2>2, <1>4 DEF Backed
  <1>6. IsFiniteSet(DOMAIN entry)
    <2>1. DOMAIN entry = {}
      BY <1>1
    <2> QED
      BY <2>1, FS_EmptySet
  <1>7. Tidy(stack)
    <2>1. PICK f : f = Frame(None, "main", <<>>)
      OBVIOUS
    <2>2. \A e \in Executors : \A d \in DOMAIN stack[e] : stack[e][d] = f
      BY <1>1, <2>1
    <2>3. TidyFrame(f)
      BY <2>1 DEF Frame, TidyFrame
    <2> QED
      BY <2>2, <2>3, RunningIs
  <1> QED
    BY <1>4, <1>5, <1>6, <1>7 DEF RefInv

\* Every step keeps the references counted.
LEMMA NextRefs == ASSUME IInv, IInv', RefInv, HeldByHash, [Next]_vars PROVE RefInv'
  <1>1. CASE DagStep
    <2>1. NodeProcessDep => RefInv'
      BY ProcessWriteRefs, ProcessReadRefs
    <2>2. GnodePrecedeLock => RefInv'
      BY PrecedeFinishedRefs, PrecedeLockRefs
    <2> QED
      BY <1>1, <2>1, <2>2, NotHere, NodeProcessDepOutRefs, GnodeRefRefs, GnodeDerefRefs,
         PrecedeInsertRefs, PrecedeCountRefs, GraphAddTaskDoneRefs, DestroyDoneRefs DEF DagStep
  <1>2. CASE CallStep
    BY <1>2, NotHere, GraphAddTaskRefs, GraphDestroyRefs, GraphWaitRefs, GraphTestRefs DEF CallStep
  <1>3. CASE \E e \in Executors : ExecutorStep(e)
    BY <1>3, ExecutorRefs
  <1>4. CASE UNCHANGED vars
    BY <1>4, CallOverRefs DEF vars
  <1> QED
    BY <1>1, <1>2, <1>3, <1>4 DEF Next

-----------------------------------------------------------------------------
(* The properties *)

\* The counts of the invariant are those of ReferencesCounted.
LEMMA HoldersAre ==
    ASSUME IInv, RefInv, NEW t \in Tasks, Known(t)
    PROVE  Holders(t) = Own(t) + HashRefs(entry, t) + Pending("deref", t) - Pending("ref", t)
  <1>1. Kind[t] = "dynamic"
    BY SentKnown DEF IInv
  <1>2. PICK n \in Nat, m \in Nat : n = Cardinality(Outs(entry, t)) /\ m = Cardinality(Ins(entry, t))
    <2>1. Outs(entry, t) = OutsOf(entry, DOMAIN entry, t)
      BY DEF Outs, OutsOf
    <2>2. Ins(entry, t) = InsOf(entry, DOMAIN entry, t)
      BY DEF Ins, InsOf, Spots
    <2>3. IsFiniteSet(DOMAIN entry) /\ \A b \in DOMAIN entry : entry[b] \in EntrySet
      BY DEF RefInv, IInv, TypeOK
    <2> QED
      BY <2>1, <2>2, <2>3, InsFinite, FS_CardinalityType
  <1>3. Holders(t) = (IF ended[t] = 0 \/ Running(t) THEN 1 ELSE 0) + n + m + Pending("deref", t) - Pending("ref", t)
    BY <1>1, <1>2, Zenon DEF Holders, Outs, Ins, Pending, Occ
  <1>4. HashRefs(entry, t) = n + m
    BY <1>2 DEF HashRefs
  <1>5. Pending("ref", t) \in Nat /\ Pending("deref", t) \in Nat
    BY Backing
  <1>6. PICK r \in Nat, d \in Nat : r = Pending("ref", t) /\ d = Pending("deref", t)
    BY <1>5
  <1> QED
    BY <1>3, <1>4, <1>6 DEF Own

\* The invariant says what ReferencesCounted does of a dynamic graph.
LEMMA CountsHold == ASSUME IInv, RefInv PROVE ReferencesCounted
  <1> SUFFICES ASSUME NEW t \in Tasks
               PROVE  /\ task[t].life = "live" => task[t].ref = Holders(t) /\ Holders(t) > 0
                      /\ task[t].life = "freed" => Holders(t) = 0
    BY DEF ReferencesCounted
  <1>1. CASE ~Known(t)
    BY <1>1 DEF IInv, Fresh, NoTask
  <1>2. CASE Known(t)
    <2>1. /\ Own(t) \in {0, 1} /\ HashRefs(entry, t) \in Nat
          /\ Pending("ref", t) \in Nat /\ Pending("deref", t) \in Nat /\ task[t].ref \in Int
          /\ task[t].ref + Pending("ref", t) = Own(t) + HashRefs(entry, t) + Pending("deref", t)
          /\ task[t].life = IF task[t].ref > 0 THEN "live" ELSE "freed"
          /\ task[t].ref >= 1 \/ task[t].ref = 0
      BY <1>2, Backing
    <2>2. Holders(t) = Own(t) + HashRefs(entry, t) + Pending("deref", t) - Pending("ref", t)
      BY <1>2, HoldersAre
    <2>3. Holders(t) = task[t].ref
      BY <2>1, <2>2
    <2> QED
      BY <2>1, <2>3
  <1> QED
    BY <1>1, <1>2

\* A task that has begun is not in a list that still has to be walked.
LEMMA NotListed ==
    ASSUME IInv, NEW t \in Tasks, begun[t] = 1, NEW p \in Tasks, NEW s \in Seq(Tasks), Listed(p, s)
    PROVE  t \notin Elems(s)
  <1> SUFFICES ASSUME NEW i \in DOMAIN s, s[i] = t PROVE FALSE
    BY DEF Elems
  <1>1. PICK n \in Nat : n = Len(s) /\ DOMAIN s = 1 .. n
    OBVIOUS
  <1>2. PICK k \in 1 .. n : k = n + 1 - i /\ n + 1 - k = i /\ k \in Nat
    BY <1>1
  <1>3. FromEnd(s, k, t)
    BY <1>1, <1>2 DEF FromEnd
  <1>4. <<p, k>> \in Pend(t)
    BY <1>2, <1>3 DEF Pend, EdgeAt
  <1>5. IsFiniteSet(Pend(t)) /\ Cardinality(Pend(t)) <= Owed(t) /\ Owed(t) = 0
    BY DEF IInv, Counts, Ready
  <1>6. Cardinality(Pend(t)) \in Nat /\ (Cardinality(Pend(t)) = 0 <=> Pend(t) = {})
    BY <1>5, FS_CardinalityType, FS_EmptySet
  <1> QED
    BY <1>4, <1>5, <1>6

\* The invariant says what NoUseAfterFree does of a dynamic graph.
LEMMA NothingReached == ASSUME IInv, RefInv PROVE NoUseAfterFree
  <1> SUFFICES ASSUME NEW t \in Tasks, task[t].life = "freed"
               PROVE  /\ queue[t] = 0
                      /\ ~Running(t)
                      /\ \A f \in Frames : t \notin Elems(f.todo) /\ t \notin Elems(f.ready)
                      /\ \A o \in Elems(call.ops) : o.of # t
                      /\ \A a \in DOMAIN entry : entry[a].out # t /\ t \notin Elems(entry[a].in)
                      /\ \A p \in Tasks : task[p].life = "live" /\ ended[p] = 0 /\ Kind[p] # "static" =>
                                              t \notin Elems(task[p].succ)
    BY DEF NoUseAfterFree
  <1>1. Known(t)
    BY DEF IInv, Fresh, NoTask
  <1>2. Own(t) = 0 /\ HashRefs(entry, t) = 0 /\ Pending("ref", t) = 0 /\ Pending("deref", t) = 0
    BY <1>1, Backing
  <1>3. ended[t] = 1 /\ begun[t] = 1 /\ ~Running(t)
    <2>1. ended[t] # 0 /\ ~Running(t)
      BY <1>2 DEF Own
    <2> QED
      BY <2>1 DEF IInv, TypeOK, Runs
  <1>4. queue[t] = 0
    BY <1>3 DEF IInv, TypeOK, Runs
  <1>5. ASSUME NEW e \in Executors, NEW d \in DOMAIN stack[e], NEW f, f = stack[e][d]
        PROVE  t \notin Elems(f.todo) /\ t \notin Elems(f.ready)
    <2>1. f \in FrameSet /\ d \in Nat /\ TidyFrame(f) /\ (f.pc # "main" => f.task \in Tasks)
      <3>1. stack[e] \in Seq(FrameSet)
        BY DEF IInv, TypeOK
      <3>2. f \in FrameSet /\ d \in Nat
        BY <3>1, <1>5
      <3>3. TidyFrame(f)
        BY <1>5, RunningIs DEF RefInv
      <3> QED
        BY <3>2, <3>3, <1>5 DEF IInv, FrameShape, Shape
    <2>2. t \notin Elems(Hold(f))
      <3> SUFFICES ASSUME NEW i \in DOMAIN Hold(f), Hold(f)[i] = t PROVE FALSE
        BY DEF Elems
      <3>1. Hold(f) \in Seq(Tasks)
        BY <2>1, HoldType
      <3>2. i \in Nat /\ i # 0
        BY <3>1
      <3>3. Place(stack, t, e, d, i)
        BY <1>5 DEF Place
      <3>4. begun[t] = 1 <=> i = 0
        BY <2>1, <3>2, <3>3 DEF IInv, Runs
      <3> QED
        BY <3>2, <3>4, <1>3
    <2>3. t \notin Elems(<<>>)
      BY DEF Elems
    <2>4. CASE f.pc = "release"
      <3>1. f.todo \in Seq(Tasks) /\ Listed(f.task, f.todo)
        BY <2>1, <2>4, <1>5 DEF FrameSet, Listed
      <3>2. t \notin Elems(f.todo)
        BY <3>1, <2>1, <2>4, <1>3, NotListed
      <3>3. Hold(f) = f.ready
        BY <2>4 DEF Hold
      <3> QED
        BY <3>2, <3>3, <2>2
    <2>5. CASE f.pc \in {"main", "add"}
      <3>1. Hold(f) = f.todo /\ f.ready = <<>>
        BY <2>1, <2>5 DEF Hold, TidyFrame
      <3> QED
        BY <3>1, <2>2, <2>3
    <2>6. CASE f.pc \in {"func", "finish", "deref"}
      <3>1. f.todo = <<>> /\ f.ready = <<>>
        BY <2>1, <2>6 DEF TidyFrame
      <3> QED
        BY <3>1, <2>3
    <2> QED
      BY <2>1, <2>4, <2>5, <2>6 DEF FrameSet
  <1>6. \A f \in Frames : t \notin Elems(f.todo) /\ t \notin Elems(f.ready)
    <2>1. \A f \in Frames : \E e \in Executors : \E d \in DOMAIN stack[e] : f = stack[e][d]
      BY DEF Frames, Elems
    <2> QED
      BY <2>1, <1>5
  <1>7. \A a \in DOMAIN entry : Lacks(entry[a], t)
    BY <1>2, HashRefsAre DEF IInv, TypeOK, RefInv
  <1>8. \A o \in Elems(call.ops) : o.of # t
    <2> SUFFICES ASSUME NEW o \in Elems(call.ops), o.of = t PROVE FALSE
      OBVIOUS
    <2>1. call.ops \in Seq(OpSet)
      BY DEF IInv, TypeOK, CallSet
    <2>2. PICK k \in DOMAIN call.ops : call.ops[k] = o /\ o \in OpSet
      BY <2>1 DEF Elems
    <2>3. Op("ref", t) \notin Elems(call.ops) /\ Op("deref", t) \notin Elems(call.ops)
      BY <2>1, <1>2, OccType DEF Pending
    <2>4. o = Op(o.do, t) /\ o.do \in {"ref", "deref", "precede"}
      BY <2>2 DEF OpSet, Op
    <2>5. o.do = "precede"
      BY <2>3, <2>4
    <2>6. \/ \E a \in DOMAIN entry : ~Lacks(entry[a], t)
          \/ \E j \in DOMAIN call.ops : call.ops[j] = Op("deref", t)
      BY <2>2, <2>5 DEF RefInv, EdgesHeld
    <2> QED
      BY <2>3, <2>6, <1>7 DEF Elems
  <1>9. ASSUME NEW p \in Tasks, ended[p] = 0 PROVE t \notin Elems(task[p].succ)
    <2>1. task[p].succ \in Seq(Tasks)
      BY DEF IInv, TypeOK, TaskSet
    <2>2. Listed(p, task[p].succ)
      BY <1>9 DEF Listed, Waits
    <2> QED
      BY <2>1, <2>2, <1>3, NotListed
  <1> QED
    BY <1>3, <1>4, <1>6, <1>7, <1>8, <1>9 DEF Lacks

\* The invariant of the references holds in every behaviour of a disciplined
\* program that names an address once per submission: what the hash, the tasks and
\* the list of Master hold is counted in gnode->ref, when no edge is raced and the
\* hash has counted its reference to a task before an edge makes it visible.
THEOREM SpecRefInv ==
    Spec /\ Disciplined /\ NamesOnce /\ []RaceFree /\ []HeldByHash => [](IInv /\ RefInv)
  <1>1. Init /\ Disciplined /\ NamesOnce => IInv /\ RefInv
    BY Start, StartRefInv
  <1>2. IInv /\ RefInv /\ RaceFree /\ HeldByHash /\ [Next]_vars => IInv' /\ RefInv'
    BY NextStep, NextRefs
  <1> QED
    BY <1>1, <1>2, PTL DEF Spec

\* A task is freed exactly when its own reference and those of the hash are gone
\* (kupl_task_deref): none is lost between node_process_dep_in/out, the entry made
\* behind an ALL task, kupl_dag_destroy and kupl_task_finish.
THEOREM SpecReferencesCounted ==
    Spec /\ Disciplined /\ NamesOnce /\ []RaceFree /\ []HeldByHash => []ReferencesCounted
  <1>1. IInv /\ RefInv => ReferencesCounted
    BY CountsHold
  <1> QED
    BY <1>1, SpecRefInv, PTL

\* No executor reaches a task that has been freed: not in the queue, a frame, a
\* list of successors being walked, the hash, or an edge Master has still to make.
THEOREM SpecNoUseAfterFree ==
    Spec /\ Disciplined /\ NamesOnce /\ []RaceFree /\ []HeldByHash => []NoUseAfterFree
  <1>1. IInv /\ RefInv => NoUseAfterFree
    BY NothingReached
  <1> QED
    BY <1>1, SpecRefInv, PTL
=============================================================================
