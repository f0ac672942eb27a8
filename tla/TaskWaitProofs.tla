--------------------------- MODULE TaskWaitProofs ---------------------------
(***************************************************************************)
(* What a wait for a dynamic graph has waited for, for every number of     *)
(* executors, tasks and addresses: every task submitted before it, those   *)
(* that a racing edge may lose apart.  Rests on the order and the          *)
(* references proved in TaskGraphProofs.                                   *)
(***************************************************************************)
EXTENDS TaskGraphProofs, WellFoundedInduction

-----------------------------------------------------------------------------
(* What the graph counts *)

\* fewer submissions than graph->count has values
Few == Len(prog) < UintMod

\* the tasks a frame counts: the one it runs, the one it is about to hand over
CountedBy(f) ==
    {t \in Tasks : \/ t = f.task /\ f.pc \in {"func", "finish", "release", "add"}
                   \/ f.counted /\ t = Head(f.todo)}
InSome(stk, t) == \E e \in Executors : \E d \in DOMAIN stk[e] : t \in CountedBy(stk[e][d])
Active(q, stk) == {t \in Tasks : q[t] = 1 \/ InSome(stk, t)}

HeadsIn(stk) ==
    \A e \in Executors : \A d \in DOMAIN stk[e] :
        stk[e][d].counted => stk[e][d].pc \in {"main", "add"} /\ stk[e][d].todo # <<>>
HeadsCounted == HeadsIn(stack)

CountIs == "graph" \in DOMAIN count /\ count["graph"] = Cardinality(Active(queue, stack))

\* a task that has been entered and not left is running
Going == \A t \in Tasks : begun[t] = 1 /\ ended[t] = 0 => InSome(stack, t)

CountInv == Few /\ HeadsCounted /\ CountIs /\ Going

-----------------------------------------------------------------------------
(* What holds a task back *)

\* Alone, Master leaves an edge for everything that is counted, and for the edge
\* that is about to be: none is released before.
Exact == team = {Master} => \A t \in Tasks : task[t].nPred + Uncounted(t) <= Cardinality(Pend(t))

\* what has been counted at the task being submitted is still there
AloneEven == Building /\ team = {Master} => task[call.task].nPred = task[call.task].nHard

\* With other executors running, edges are made only to tasks that may be lost.
Pristine ==
    team # {Master} =>
        /\ Building /\ call.pc \in {"insert", "count"} => MayBeLost(call.task)
        /\ \A t \in Tasks : MayBeLost(t) \/ task[t].nHard = 0

\* the readers of an entry asked for its address
ReadersAsked ==
    \A a \in DOMAIN entry : \A r \in Elems(entry[a].in) :
        \E i \in DOMAIN prog : Made(i) /\ prog[i].task = r /\ \E x \in Elems(prog[i].deps) : x.addr = a

\* edges are made to tasks that have to follow
OpsOrdered ==
    Building => \A o \in Elems(call.ops) : o.do = "precede" => MustPrecede(o.of, call.task)
EdgesOrdered == \A p \in Tasks : \A t \in Elems(task[p].succ) : MustPrecede(p, t)

\* A task that is submitted and has not started is ready, or waits for others.
NotLost ==
    \A t \in Tasks : Old(t) /\ begun[t] = 0 => MayBeLost(t) \/ Loose(t) \/ task[t].nPred > 0

EdgeInv == Exact /\ AloneEven /\ Pristine /\ ReadersAsked /\ OpsOrdered /\ EdgesOrdered /\ NotLost

\* a wait has waited
Waited ==
    \A i, j \in DOMAIN prog :
        i < ip /\ prog[i].op = "wait" /\ j < i /\ Adds(j) => ended[prog[j].task] = 1 \/ MayBeLost(prog[j].task)

WaitInv == CountInv /\ EdgeInv /\ Waited

-----------------------------------------------------------------------------
(* What is counted *)

\* The frame a task is counted by is the one it is in.
LEMMA CountedPlace ==
    ASSUME IInv, HeadsCounted, NEW e \in Executors, NEW d \in DOMAIN stack[e], NEW t, t \in CountedBy(stack[e][d])
    PROVE  \E i \in {0, 1} : /\ Place(stack, t, e, d, i)
                             /\ i = 0 => t = stack[e][d].task /\ stack[e][d].pc # "main"
                             /\ i = 1 => stack[e][d].counted /\ t = Head(stack[e][d].todo)
  <1>1. PICK f \in FrameSet : f = stack[e][d]
    BY DEF IInv, TypeOK
  <1>2. t \in Tasks
    BY DEF CountedBy
  <1>3. CASE t = f.task /\ f.pc \in {"func", "finish", "release", "add"}
    <2>1. Place(stack, t, e, d, 0)
      BY <1>1, <1>3 DEF Place
    <2> QED
      BY <1>1, <1>3, <2>1
  <1>4. CASE f.counted /\ t = Head(f.todo)
    <2>1. f.pc \in {"main", "add"} /\ f.todo # <<>> /\ f.todo \in Seq(Tasks)
      BY <1>1, <1>4 DEF HeadsCounted, HeadsIn, FrameSet
    <2>2. Hold(f) = f.todo /\ 1 \in DOMAIN f.todo /\ f.todo[1] = t
      BY <2>1, <1>4 DEF Hold
    <2>3. Place(stack, t, e, d, 1)
      BY <1>1, <2>2 DEF Place
    <2> QED
      BY <1>1, <1>4, <2>3
  <1> QED
    BY <1>1, <1>3, <1>4 DEF CountedBy

\* There are fewer tasks than the counter has values.
LEMMA FewTasks ==
    ASSUME IInv, Few, NEW S \in SUBSET Tasks, \A t \in S : Known(t)
    PROVE  IsFiniteSet(S) /\ Cardinality(S) \in Nat /\ Cardinality(S) < UintMod
  <1>1. Len(prog) \in Nat /\ UintMod \in Nat /\ Disciplined
    BY Submissions, BoundsAssumption DEF IInv
  <1>2. \A t \in S : \E i \in 1 .. Len(prog) : AddAt(i, t)
    BY <1>1, Submissions DEF Known, Made, AddAt
  <1> DEFINE f == [t \in S |-> CHOOSE i \in 1 .. Len(prog) : AddAt(i, t)]
  <1>3. \A t \in S : f[t] \in 1 .. Len(prog) /\ prog[f[t]].task = t
    BY <1>2 DEF AddAt
  <1>4. f \in [S -> 1 .. Len(prog)]
    BY <1>3
  <1> HIDE DEF f
  <1>5. f \in Injection(S, 1 .. Len(prog))
    BY <1>3, <1>4 DEF Injection, IsInjective
  <1>6. IsFiniteSet(1 .. Len(prog)) /\ Cardinality(1 .. Len(prog)) = Len(prog)
    <2>1. 1 \in Int /\ Len(prog) \in Int
      BY <1>1
    <2>2. /\ IsFiniteSet(1 .. Len(prog))
          /\ Cardinality(1 .. Len(prog)) = IF 1 > Len(prog) THEN 0 ELSE Len(prog) - 1 + 1
      BY <2>1, FS_Interval
    <2> QED
      BY <1>1, <2>2
  <1>7. IsFiniteSet(S) /\ Cardinality(S) <= Len(prog)
    BY <1>5, <1>6, FS_Injection
  <1>8. Cardinality(S) \in Nat
    BY <1>7, FS_CardinalityType
  <1> QED
    BY <1>1, <1>7, <1>8 DEF Few

\* some frame other than the innermost of e counts t
Else(stk, e, t) ==
    \E x \in Executors : \E d \in DOMAIN stk[x] : ~(x = e /\ d = Len(stk[e])) /\ t \in CountedBy(stk[x][d])

\* The innermost frame of e becomes f.
LEMMA SomeTop ==
    ASSUME NEW stk, NEW stk2, NEW e \in Executors, NEW f, TopSet(stk, stk2, e, f), NEW h, h = stk[e][Len(stk[e])]
    PROVE  /\ \A t : InSome(stk, t) <=> t \in CountedBy(h) \/ Else(stk, e, t)
           /\ \A t : InSome(stk2, t) <=> t \in CountedBy(f) \/ Else(stk, e, t)
           /\ HeadsIn(stk) /\ (f.counted => f.pc \in {"main", "add"} /\ f.todo # <<>>) => HeadsIn(stk2)
  <1>1. /\ Len(stk[e]) \in DOMAIN stk[e]
        /\ \A x \in Executors : DOMAIN stk2[x] = DOMAIN stk[x]
        /\ \A x \in Executors : \A d \in DOMAIN stk[x] :
              stk2[x][d] = IF x = e /\ d = Len(stk[e]) THEN f ELSE stk[x][d]
    BY DEF TopSet
  <1>2. \A t : InSome(stk, t) <=> t \in CountedBy(h) \/ Else(stk, e, t)
    BY <1>1 DEF InSome, Else
  <1>3. ASSUME NEW t PROVE InSome(stk2, t) <=> t \in CountedBy(f) \/ Else(stk, e, t)
    <2>1. ASSUME InSome(stk2, t) PROVE t \in CountedBy(f) \/ Else(stk, e, t)
      BY <1>1, <2>1 DEF InSome, Else
    <2>2. ASSUME t \in CountedBy(f) PROVE InSome(stk2, t)
      BY <1>1, <2>2 DEF InSome
    <2>3. ASSUME Else(stk, e, t) PROVE InSome(stk2, t)
      BY <1>1, <2>3 DEF InSome, Else
    <2> QED
      BY <2>1, <2>2, <2>3
  <1>4. HeadsIn(stk) /\ (f.counted => f.pc \in {"main", "add"} /\ f.todo # <<>>) => HeadsIn(stk2)
    BY <1>1 DEF HeadsIn
  <1> QED
    BY <1>2, <1>3, <1>4

\* A task is started.
LEMMA SomePush ==
    ASSUME NEW stk, NEW stk2, NEW e \in Executors, NEW g, Pushed(stk, stk2, e, g), NEW t \in Tasks,
           g = Frame(t, "func", <<>>)
    PROVE  /\ \A u : InSome(stk2, u) <=> u = t \/ InSome(stk, u)
           /\ HeadsIn(stk) => HeadsIn(stk2)
  <1>1. CountedBy(g) = {t} /\ ~g.counted
    BY DEF Frame, CountedBy
  <1>2. /\ DOMAIN stk2[e] = DOMAIN stk[e] \cup {Len(stk[e]) + 1}
        /\ stk2[e][Len(stk[e]) + 1] = g
        /\ \A d \in DOMAIN stk[e] : stk2[e][d] = stk[e][d]
        /\ \A x \in Executors : x # e => stk2[x] = stk[x]
        /\ Len(stk[e]) + 1 \notin DOMAIN stk[e]
    BY DEF Pushed
  <1>3. ASSUME NEW u PROVE InSome(stk2, u) <=> u = t \/ InSome(stk, u)
    <2>1. ASSUME InSome(stk2, u) PROVE u = t \/ InSome(stk, u)
      <3>0. PICK x \in Executors : \E d \in DOMAIN stk2[x] : u \in CountedBy(stk2[x][d])
        BY <2>1 DEF InSome
      <3>1. PICK d \in DOMAIN stk2[x] : u \in CountedBy(stk2[x][d])
        BY <3>0
      <3>2. CASE x = e /\ d = Len(stk[e]) + 1
        BY <3>1, <3>2, <1>1, <1>2
      <3>3. CASE ~(x = e /\ d = Len(stk[e]) + 1)
        <4>1. d \in DOMAIN stk[x] /\ stk2[x][d] = stk[x][d]
          BY <3>3, <1>2
        <4> QED
          BY <3>1, <4>1 DEF InSome
      <3> QED
        BY <3>2, <3>3
    <2>2. InSome(stk2, t)
      BY <1>1, <1>2 DEF InSome
    <2>3. ASSUME InSome(stk, u) PROVE InSome(stk2, u)
      <3>1. PICK x \in Executors : \E d \in DOMAIN stk[x] : u \in CountedBy(stk[x][d])
        BY <2>3 DEF InSome
      <3>2. PICK d \in DOMAIN stk[x] : u \in CountedBy(stk[x][d])
        BY <3>1
      <3>3. d \in DOMAIN stk2[x] /\ stk2[x][d] = stk[x][d]
        BY <3>2, <1>2
      <3> QED
        BY <3>2, <3>3 DEF InSome
    <2> QED
      BY <2>1, <2>2, <2>3
  <1>4. HeadsIn(stk) => HeadsIn(stk2)
    <2> SUFFICES ASSUME HeadsIn(stk), NEW x \in Executors, NEW d \in DOMAIN stk2[x], stk2[x][d].counted
                 PROVE  stk2[x][d].pc \in {"main", "add"} /\ stk2[x][d].todo # <<>>
      BY DEF HeadsIn
    <2>1. ~(x = e /\ d = Len(stk[e]) + 1)
      BY <1>1, <1>2
    <2>2. d \in DOMAIN stk[x] /\ stk2[x][d] = stk[x][d]
      BY <2>1, <1>2
    <2> QED
      BY <2>2 DEF HeadsIn
  <1> QED
    BY <1>3, <1>4

\* A task that has been uncounted returns.
LEMMA SomePop ==
    ASSUME NEW stk, NEW stk2, NEW e \in Executors, Popped(stk, stk2, e), CountedBy(stk[e][Len(stk[e])]) = {}
    PROVE  /\ \A u : InSome(stk2, u) <=> InSome(stk, u)
           /\ HeadsIn(stk) => HeadsIn(stk2)
  <1>1. /\ DOMAIN stk2[e] = DOMAIN stk[e] \ {Len(stk[e])}
        /\ \A d \in DOMAIN stk2[e] : stk2[e][d] = stk[e][d]
        /\ \A x \in Executors : x # e => stk2[x] = stk[x]
    BY DEF Popped
  <1>2. ASSUME NEW u, InSome(stk2, u) PROVE InSome(stk, u)
    <2>1. PICK x \in Executors : \E d \in DOMAIN stk2[x] : u \in CountedBy(stk2[x][d])
      BY <1>2 DEF InSome
    <2>2. PICK d \in DOMAIN stk2[x] : u \in CountedBy(stk2[x][d])
      BY <2>1
    <2>3. d \in DOMAIN stk[x] /\ stk2[x][d] = stk[x][d]
      BY <2>2, <1>1
    <2> QED
      BY <2>2, <2>3 DEF InSome
  <1>3. ASSUME NEW u, InSome(stk, u) PROVE InSome(stk2, u)
    <2>1. PICK x \in Executors : \E d \in DOMAIN stk[x] : u \in CountedBy(stk[x][d])
      BY <1>3 DEF InSome
    <2>2. PICK d \in DOMAIN stk[x] : u \in CountedBy(stk[x][d])
      BY <2>1
    <2>3. ~(x = e /\ d = Len(stk[e]))
      BY <2>2
    <2>4. d \in DOMAIN stk2[x] /\ stk2[x][d] = stk[x][d]
      BY <2>2, <2>3, <1>1
    <2> QED
      BY <2>2, <2>4 DEF InSome
  <1>4. HeadsIn(stk) => HeadsIn(stk2)
    <2> SUFFICES ASSUME HeadsIn(stk), NEW x \in Executors, NEW d \in DOMAIN stk2[x], stk2[x][d].counted
                 PROVE  stk2[x][d].pc \in {"main", "add"} /\ stk2[x][d].todo # <<>>
      BY DEF HeadsIn
    <2>1. d \in DOMAIN stk[x] /\ stk2[x][d] = stk[x][d]
      BY <1>1
    <2> QED
      BY <2>1 DEF HeadsIn
  <1> QED
    BY <1>2, <1>3, <1>4

\* What is counted was submitted.
LEMMA ActiveKnown ==
    ASSUME IInv, HeadsCounted
    PROVE  Active(queue, stack) \subseteq Tasks /\ \A t \in Active(queue, stack) : Known(t)
  <1>1. ASSUME NEW t \in Active(queue, stack) PROVE Known(t)
    <2>1. t \in Tasks
      BY DEF Active
    <2>2. CASE queue[t] = 1
      BY <2>1, <2>2, SentKnown DEF IInv, Loose
    <2>3. CASE InSome(stack, t)
      <3>1. PICK e \in Executors : \E d \in DOMAIN stack[e] : t \in CountedBy(stack[e][d])
        BY <2>3 DEF InSome
      <3>2. PICK d \in DOMAIN stack[e] : t \in CountedBy(stack[e][d])
        BY <3>1
      <3>3. PICK i \in {0, 1} : Place(stack, t, e, d, i)
        BY <3>2, CountedPlace
      <3>4. d \in Nat
        BY DEF IInv, TypeOK
      <3>5. CASE i = 0
        <4>1. begun[t] = 1
          BY <2>1, <3>3, <3>4, <3>5 DEF IInv, Runs
        <4> QED
          BY <2>1, <4>1, SentKnown DEF IInv
      <3>6. CASE i = 1
        <4>1. Loose(t)
          BY <3>3, <3>4, <3>6 DEF Loose, InFrames
        <4> QED
          BY <2>1, <4>1, SentKnown DEF IInv
      <3> QED
        BY <3>5, <3>6
    <2> QED
      BY <2>2, <2>3 DEF Active
  <1> QED
    BY <1>1 DEF Active

\* The count follows what is counted.
LEMMA CountMoves ==
    ASSUME IInv, Few, CountIs, HeadsCounted, NEW A, A = Active(queue, stack), NEW t \in Tasks, Known(t)
    PROVE  /\ Active(queue, stack)' = A /\ count' = count => CountIs'
           /\ /\ t \notin A /\ Active(queue, stack)' = A \cup {t} /\ count' = [count EXCEPT !["graph"] = Inc(@)]
              => CountIs'
           /\ /\ t \in A /\ Active(queue, stack)' = A \ {t} /\ count' = [count EXCEPT !["graph"] = Dec(@)]
              => CountIs'
  <1>1. A \in SUBSET Tasks /\ \A u \in A : Known(u)
    BY ActiveKnown
  <1>2. IsFiniteSet(A) /\ Cardinality(A) \in Nat /\ Cardinality(A) < UintMod
    BY <1>1, FewTasks
  <1>3. IsFiniteSet(A \cup {t}) /\ Cardinality(A \cup {t}) \in Nat /\ Cardinality(A \cup {t}) < UintMod
    BY <1>1, FewTasks
  <1>4. "graph" \in DOMAIN count /\ count["graph"] = Cardinality(A)
    BY DEF CountIs
  <1>5. Active(queue, stack)' = A /\ count' = count => CountIs'
    BY <1>4 DEF CountIs
  <1>6. ASSUME t \notin A, Active(queue, stack)' = A \cup {t}, count' = [count EXCEPT !["graph"] = Inc(@)]
        PROVE  CountIs'
    <2>1. Cardinality(A \cup {t}) = Cardinality(A) + 1
      BY <1>2, <1>6, FS_AddElement
    <2>2. Inc(Cardinality(A)) = Cardinality(A) + 1
      <3>1. PICK n \in Nat : n = Cardinality(A) /\ n + 1 < UintMod
        BY <1>2, <1>3, <2>1
      <3>2. n \in 0 .. UintMod - 1
        BY <3>1, BoundsAssumption
      <3> QED
        BY <3>1, <3>2, Counting
    <2>3. "graph" \in DOMAIN count' /\ count'["graph"] = Cardinality(A) + 1
      BY <1>4, <1>6, <2>2
    <2>4. Cardinality(Active(queue, stack)') = Cardinality(A) + 1
      BY <1>6, <2>1
    <2> QED
      BY <2>3, <2>4 DEF CountIs
  <1>7. ASSUME t \in A, Active(queue, stack)' = A \ {t}, count' = [count EXCEPT !["graph"] = Dec(@)]
        PROVE  CountIs'
    <2>1. Cardinality(A \ {t}) = Cardinality(A) - 1 /\ Cardinality(A \ {t}) \in Nat
      <3>1. IsFiniteSet(A \ {t}) /\ Cardinality(A \ {t}) = Cardinality(A) - 1
        BY <1>2, <1>7, FS_RemoveElement
      <3> QED
        BY <3>1, FS_CardinalityType
    <2>2. Dec(Cardinality(A)) = Cardinality(A) - 1
      <3>1. PICK n \in Nat : n = Cardinality(A) /\ n < UintMod /\ n > 0
        BY <1>2, <2>1
      <3>2. n \in 0 .. UintMod - 1
        BY <3>1, BoundsAssumption
      <3> QED
        BY <3>1, <3>2, Counting
    <2>3. "graph" \in DOMAIN count' /\ count'["graph"] = Cardinality(A) - 1
      BY <1>4, <1>7, <2>2
    <2>4. Cardinality(Active(queue, stack)') = Cardinality(A) - 1
      BY <1>7, <2>1
    <2> QED
      BY <2>3, <2>4 DEF CountIs
  <1> QED
    BY <1>5, <1>6, <1>7

\* kupl_tb_count_add: the task at the head of the list is counted from now on.
LEMMA CountAddCount ==
    ASSUME IInv, Few, CountIs, HeadsCounted, NEW e \in Executors, SchedAddTbCount(e)
    PROVE  CountIs' /\ HeadsCounted'
  <1>1. PICK h \in FrameSet : /\ stack[e] # <<>> /\ h = stack[e][Len(stack[e])] /\ h = Top(e) /\ h.todo # <<>>
                              /\ h.pc \in {"main", "add"} /\ ~h.counted /\ Len(stack[e]) \in DOMAIN stack[e]
                              /\ h.todo \in Seq(Tasks) /\ Len(stack[e]) \in Nat
    <2>1. stack[e] # <<>> /\ Top(e).todo # <<>> /\ Top(e).pc \in {"main", "body", "add"} /\ ~Top(e).counted
      BY DEF SchedAddTbCount, Adding, At
    <2>2. Top(e) \in FrameSet /\ Top(e) = stack[e][Len(stack[e])] /\ Len(stack[e]) \in DOMAIN stack[e] /\ Len(stack[e]) \in Nat
      BY <2>1, Tops DEF IInv
    <2> QED
      BY <2>1, <2>2 DEF FrameSet
  <1>2. PICK t \in Tasks : t = Head(h.todo)
    BY <1>1
  <1>3. PICK f \in FrameSet : /\ f = [h EXCEPT !.counted = TRUE]
                              /\ f.task = h.task /\ f.pc = h.pc /\ f.todo = h.todo /\ f.counted
    <2>1. PICK f : f = [h EXCEPT !.counted = TRUE]
      OBVIOUS
    <2>2. f \in FrameSet /\ f.task = h.task /\ f.pc = h.pc /\ f.todo = h.todo /\ f.counted
      BY <1>1, <2>1 DEF FrameSet
    <2> QED
      BY <2>1, <2>2
  <1>4. Place(stack, t, e, Len(stack[e]), 1) /\ Loose(t) /\ Known(t) /\ Kind[t] = "dynamic" /\ queue[t] = 0
    <2>1. Hold(h) = h.todo /\ 1 \in DOMAIN h.todo /\ h.todo[1] = t
      BY <1>1, <1>2 DEF Hold
    <2>2. Place(stack, t, e, Len(stack[e]), 1)
      BY <1>1, <2>1 DEF Place
    <2>3. InFrames(t) /\ queue[t] = 0
      BY <1>1, <2>2 DEF InFrames, IInv, Runs
    <2> QED
      BY <2>2, <2>3, SentKnown DEF IInv, Loose
  <1>5. TopSet(stack, stack', e, f)
    <2>1. stack' = [stack EXCEPT ![e][Len(stack[e])] = f]
      BY <1>1, <1>3 DEF SchedAddTbCount, SetTop
    <2> QED
      BY <1>1, <2>1, SetTopIs DEF IInv
  <1>6. HeadsCounted'
    <2>1. HeadsIn(stack) /\ (f.counted => f.pc \in {"main", "add"} /\ f.todo # <<>>)
      BY <1>1, <1>3 DEF HeadsCounted
    <2>2. HeadsIn(stack')
      BY <2>1, <1>1, <1>5, SomeTop
    <2> QED
      BY <2>2 DEF HeadsCounted
  <1>7. PICK A : A = Active(queue, stack)
    OBVIOUS
  <1>8. t \notin A
    <2> SUFFICES ASSUME InSome(stack, t) PROVE FALSE
      BY <1>4, <1>7 DEF Active
    <2>1. PICK x \in Executors : \E d \in DOMAIN stack[x] : t \in CountedBy(stack[x][d])
      BY DEF InSome
    <2>2. PICK d \in DOMAIN stack[x] : t \in CountedBy(stack[x][d])
      BY <2>1
    <2>3. PICK i \in {0, 1} : /\ Place(stack, t, x, d, i)
                              /\ i = 1 => stack[x][d].counted
      BY <2>2, CountedPlace
    <2>4. d \in Nat
      BY DEF IInv, TypeOK
    <2>5. i = 1 /\ x = e /\ d = Len(stack[e])
      BY <1>1, <1>4, <2>3, <2>4 DEF IInv, OnePlace
    <2> QED
      BY <1>1, <2>3, <2>5
  <1>9. Active(queue, stack)' = A \cup {t}
    <2>1. \A u : u \in CountedBy(f) <=> u \in CountedBy(h) \/ u = t
      BY <1>1, <1>2, <1>3 DEF CountedBy
    <2>2. \A u : InSome(stack', u) <=> InSome(stack, u) \/ u = t
      <3>1. /\ \A u : InSome(stack, u) <=> u \in CountedBy(h) \/ Else(stack, e, u)
            /\ \A u : InSome(stack', u) <=> u \in CountedBy(f) \/ Else(stack, e, u)
        BY <1>1, <1>5, SomeTop
      <3> QED
        BY <2>1, <3>1
    <2>3. queue' = queue
      BY DEF SchedAddTbCount, schedVars
    <2> QED
      BY <2>2, <2>3, <1>7 DEF Active
  <1>10. count' = [count EXCEPT !["graph"] = Inc(@)]
    BY <1>1, <1>2, <1>4 DEF SchedAddTbCount, CountOf
  <1> QED
    BY <1>4, <1>6, <1>7, <1>8, <1>9, <1>10, CountMoves

-----------------------------------------------------------------------------
(* Tasks that may be lost *)

\* the submitted tasks of the program
Submits == {prog[i].task : i \in {j \in DOMAIN prog : prog[j].op = "add_task"}}

\* S has every task with a racing edge, and what follows it
Spreads(S) == /\ \A u \in Submits : EdgeRaces(u) => u \in S
              /\ \A u \in S, v \in Submits : MustPrecede(u, v) => v \in S

\* What MayBeLost says, in these words.
LEMMA LostIs == ASSUME NEW t PROVE MayBeLost(t) <=> \A S \in SUBSET Submits : Spreads(S) => t \in S
  BY DEF MayBeLost, Submits, Spreads

\* A racing edge may lose its task and what follows it; one executor loses none.
LEMMA LostFacts ==
    ASSUME NEW i, NEW t, AddAt(i, t)
    PROVE  /\ EdgeRaces(t) => MayBeLost(t)
           /\ \A u : MustPrecede(u, t) /\ MayBeLost(u) => MayBeLost(t)
           /\ team = {Master} => ~MayBeLost(t)
  <1>1. t \in Submits
    BY DEF AddAt, Adds, Submits
  <1>2. EdgeRaces(t) => MayBeLost(t)
    BY <1>1, LostIs DEF Spreads
  <1>3. ASSUME NEW u, MustPrecede(u, t), MayBeLost(u) PROVE MayBeLost(t)
    <2> SUFFICES ASSUME NEW S \in SUBSET Submits, Spreads(S) PROVE t \in S
      BY LostIs
    <2>1. u \in S
      BY <1>3, LostIs
    <2> QED
      BY <1>1, <1>3, <2>1 DEF Spreads
  <1>4. ASSUME team = {Master} PROVE ~MayBeLost(t)
    <2>1. \A u : ~EdgeRaces(u)
      BY <1>4 DEF EdgeRaces
    <2>2. Spreads({})
      BY <2>1 DEF Spreads
    <2> QED
      BY <2>2, LostIs
  <1> QED
    BY <1>2, <1>3, <1>4

\* Whether a task may be lost does not change while the program runs.
LEMMA LostFixed ==
    ASSUME prog' = prog, team' = team, NEW t
    PROVE  MayBeLost(t) <=> MayBeLost(t)'
  <1>1. \A u, v : MustPrecede(u, v) <=> MustPrecede(u, v)'
    BY OrderFixed
  <1>2. \A u : EdgeRaces(u) <=> EdgeRaces(u)'
    BY DEF EdgeRaces
  <1>3. Submits' = Submits
    BY DEF Submits
  <1>4. \A S : Spreads(S) <=> Spreads(S)'
    BY <1>1, <1>2, <1>3 DEF Spreads
  <1>5. MayBeLost(t)' <=> \A S \in SUBSET Submits' : Spreads(S)' => t \in S
    BY DEF MayBeLost, Submits, Spreads
  <1> QED
    BY <1>3, <1>4, <1>5, LostIs

-----------------------------------------------------------------------------
(* Tasks that are ready *)

\* some frame of the stacks holds t, ready
HeldIn(stk, t) == \E e \in Executors : \E d \in DOMAIN stk[e] : t \in Elems(Hold(stk[e][d]))

\* A ready task is queued or held.
LEMMA HeldIs ==
    ASSUME TypeOK, NEW t
    PROVE  Loose(t) <=> queue[t] = 1 \/ HeldIn(stack, t)
  <1>1. \A e \in Executors : \A d \in DOMAIN stack[e] : d \in Nat /\ stack[e][d] \in FrameSet
    BY DEF TypeOK
  <1>2. ASSUME NEW e \in Executors, NEW d \in DOMAIN stack[e]
        PROVE  t \in Elems(Hold(stack[e][d])) <=> \E i \in Nat : i > 0 /\ Place(stack, t, e, d, i)
    <2>1. DOMAIN Hold(stack[e][d]) = 1 .. Len(Hold(stack[e][d])) /\ Len(Hold(stack[e][d])) \in Nat
      BY <1>1, HoldType
    <2>2. \A i : i \in DOMAIN Hold(stack[e][d]) <=> i \in Nat /\ i > 0 /\ i \in DOMAIN Hold(stack[e][d])
      BY <2>1
    <2> QED
      BY <2>2 DEF Elems, Place
  <1>3. \A e \in Executors, d, i \in Nat : Place(stack, t, e, d, i) => d \in DOMAIN stack[e]
    BY DEF Place
  <1>4. HeldIn(stack, t) <=> InFrames(t)
    BY <1>1, <1>2, <1>3 DEF HeldIn, InFrames
  <1> QED
    BY <1>4 DEF Loose

\* The same after a step.
LEMMA HeldAfter ==
    ASSUME TypeOK', NEW t
    PROVE  Loose(t)' <=> queue'[t] = 1 \/ HeldIn(stack', t)
  <1>1. \A e \in Executors : \A d \in DOMAIN stack'[e] : d \in Nat /\ stack'[e][d] \in FrameSet
    BY DEF TypeOK
  <1>2. ASSUME NEW e \in Executors, NEW d \in DOMAIN stack'[e]
        PROVE  t \in Elems(Hold(stack'[e][d])) <=> \E i \in Nat : i > 0 /\ Place(stack', t, e, d, i)
    <2>1. DOMAIN Hold(stack'[e][d]) = 1 .. Len(Hold(stack'[e][d])) /\ Len(Hold(stack'[e][d])) \in Nat
      BY <1>1, HoldType
    <2>2. \A i : i \in DOMAIN Hold(stack'[e][d]) <=> i \in Nat /\ i > 0 /\ i \in DOMAIN Hold(stack'[e][d])
      BY <2>1
    <2> QED
      BY <2>2 DEF Elems, Place
  <1>3. \A e \in Executors, d, i \in Nat : Place(stack', t, e, d, i) => d \in DOMAIN stack'[e]
    BY DEF Place
  <1>4. HeldIn(stack', t) <=> InFrames(t)'
    BY <1>1, <1>2, <1>3 DEF HeldIn, InFrames
  <1> QED
    BY <1>4 DEF Loose

\* The innermost frame of e becomes f: what it held has gone on, or f holds it.
LEMMA HeldTop ==
    ASSUME NEW stk, NEW stk2, NEW e \in Executors, NEW f, TopSet(stk, stk2, e, f), NEW h, h = stk[e][Len(stk[e])]
    PROVE  /\ \A t : HeldIn(stk, t) => HeldIn(stk2, t) \/ t \in Elems(Hold(h))
           /\ \A t : t \in Elems(Hold(f)) => HeldIn(stk2, t)
  <1>1. /\ Len(stk[e]) \in DOMAIN stk[e]
        /\ \A x \in Executors : DOMAIN stk2[x] = DOMAIN stk[x]
        /\ \A x \in Executors : \A d \in DOMAIN stk[x] :
              stk2[x][d] = IF x = e /\ d = Len(stk[e]) THEN f ELSE stk[x][d]
    BY DEF TopSet
  <1>2. ASSUME NEW t, HeldIn(stk, t) PROVE HeldIn(stk2, t) \/ t \in Elems(Hold(h))
    BY <1>1, <1>2 DEF HeldIn
  <1>3. ASSUME NEW t, t \in Elems(Hold(f)) PROVE HeldIn(stk2, t)
    BY <1>1, <1>3 DEF HeldIn
  <1> QED
    BY <1>2, <1>3

\* A new frame leaves the others with what they hold.
LEMMA HeldPush ==
    ASSUME NEW stk, NEW stk2, NEW e \in Executors, NEW g, Pushed(stk, stk2, e, g)
    PROVE  \A t : HeldIn(stk, t) => HeldIn(stk2, t)
  <1> SUFFICES ASSUME NEW t, NEW x \in Executors, NEW d \in DOMAIN stk[x], t \in Elems(Hold(stk[x][d]))
               PROVE  HeldIn(stk2, t)
    BY DEF HeldIn
  <1>1. d \in DOMAIN stk2[x] /\ stk2[x][d] = stk[x][d]
    BY DEF Pushed
  <1> QED
    BY <1>1 DEF HeldIn

\* A task that is done holds none.
LEMMA HeldPop ==
    ASSUME NEW stk, NEW stk2, NEW e \in Executors, Popped(stk, stk2, e), Elems(Hold(stk[e][Len(stk[e])])) = {}
    PROVE  \A t : HeldIn(stk, t) => HeldIn(stk2, t)
  <1> SUFFICES ASSUME NEW t, NEW x \in Executors, NEW d \in DOMAIN stk[x], t \in Elems(Hold(stk[x][d]))
               PROVE  HeldIn(stk2, t)
    BY DEF HeldIn
  <1>1. ~(x = e /\ d = Len(stk[e]))
    OBVIOUS
  <1>2. d \in DOMAIN stk2[x] /\ stk2[x][d] = stk[x][d]
    BY <1>1 DEF Popped
  <1> QED
    BY <1>2 DEF HeldIn

-----------------------------------------------------------------------------
(* What the steps of executors keep of what holds a task back *)

\* Executors make no edge, and none works while Master is in a call of its own,
\* unless there are others.
FlowKept ==
    /\ prog' = prog /\ team' = team /\ call' = call /\ entry' = entry /\ (ip' = ip \/ CallOver)
    /\ \A t \in Tasks : /\ task'[t].nHard = task[t].nHard
                        /\ task'[t].succ = task[t].succ \/ task'[t].succ = <<>>
    /\ team = {Master} => call.pc = "idle"

\* Executors leave the order of the edges alone.
LEMMA ExecEdges ==
    ASSUME IInv, IInv', EdgeInv, FlowKept, Exact', NotLost'
    PROVE  EdgeInv'
  <1>1. /\ \A i : Made(i) <=> Made(i)'
        /\ \A t : Old(t) <=> Old(t)'
        /\ Building <=> Building'
    BY SubmittedSame DEF IInv, FlowKept
  <1>2. \A u, t : MustPrecede(u, t) <=> MustPrecede(u, t)'
    BY OrderFixed DEF FlowKept
  <1>3. \A t : MayBeLost(t) <=> MayBeLost(t)'
    BY LostFixed DEF FlowKept
  <1>4. AloneEven'
    <2>1. team' = {Master} => ~Building'
      BY DEF FlowKept, Building
    <2> QED
      BY <2>1 DEF AloneEven
  <1>5. Pristine'
    <2>1. Building /\ call.pc \in {"insert", "count"} <=> (Building /\ call.pc \in {"insert", "count"})'
      BY <1>1 DEF FlowKept
    <2>2. \A t \in Tasks : task'[t].nHard = task[t].nHard
      BY DEF FlowKept
    <2> QED
      BY <1>3, <2>1, <2>2 DEF EdgeInv, Pristine, FlowKept
  <1>6. ReadersAsked'
    BY <1>1 DEF EdgeInv, ReadersAsked, FlowKept
  <1>7. OpsOrdered'
    BY <1>1, <1>2 DEF EdgeInv, OpsOrdered, FlowKept
  <1>8. EdgesOrdered'
    <2> SUFFICES ASSUME NEW p \in Tasks, NEW t \in Elems(task'[p].succ) PROVE MustPrecede(p, t)
      BY <1>2 DEF EdgesOrdered
    <2>1. Elems(<<>>) = {}
      BY DEF Elems
    <2>2. t \in Elems(task[p].succ)
      BY <2>1 DEF FlowKept
    <2> QED
      BY <2>2 DEF EdgeInv, EdgesOrdered
  <1> QED
    BY <1>4, <1>5, <1>6, <1>7, <1>8 DEF EdgeInv

\* Lists that are kept keep their edges.
LEMMA PendKept ==
    ASSUME \A p \in Tasks : \A s \in Seq(Tasks) : s # <<>> /\ Listed(p, s) => Listed(p, s)', NEW t
    PROVE  Pend(t) \subseteq Pend(t)'
  <1> SUFFICES ASSUME NEW p \in Tasks, NEW k \in Nat, EdgeAt(p, k, t) PROVE EdgeAt(p, k, t)'
    BY DEF Pend
  <1>1. PICK s \in Seq(Tasks) : Listed(p, s) /\ FromEnd(s, k, t)
    BY DEF EdgeAt
  <1>2. s # <<>>
    BY <1>1 DEF FromEnd
  <1> QED
    BY <1>1, <1>2 DEF EdgeAt

\* An executor that leaves counts and lists of successors alone, and takes back no
\* task that is ready, leaves what holds others back alone.
LEMMA FlowSame ==
    ASSUME IInv, IInv', EdgeInv, FlowKept, \A t \in Tasks : task'[t].nPred = task[t].nPred,
           \A p \in Tasks : \A s \in Seq(Tasks) : s # <<>> /\ Listed(p, s) => Listed(p, s)',
           \A t \in Tasks : Loose(t) => Loose(t)' \/ begun'[t] = 1,
           \A t \in Tasks : begun[t] = 1 => begun'[t] = 1
    PROVE  EdgeInv'
  <1>1. ASSUME team' = {Master}, NEW t \in Tasks
        PROVE  task'[t].nPred + Uncounted(t)' <= Cardinality(Pend(t)')
    <2>1. task[t].nPred + Uncounted(t) <= Cardinality(Pend(t))
      BY <1>1 DEF FlowKept, EdgeInv, Exact
    <2>2. Uncounted(t)' = Uncounted(t)
      BY DEF Uncounted, FlowKept
    <2>3. IsFiniteSet(Pend(t)') /\ IsFiniteSet(Pend(t))
      BY DEF IInv, Counts
    <2>4. Pend(t) \subseteq Pend(t)'
      BY PendKept
    <2>5. Cardinality(Pend(t)) <= Cardinality(Pend(t)') /\ Cardinality(Pend(t)) \in Nat /\ Cardinality(Pend(t)') \in Nat
      BY <2>3, <2>4, FS_Subset, FS_CardinalityType
    <2>6. task[t].nPred \in Nat /\ Uncounted(t) \in Nat
      BY BoundsAssumption, TaskTypes DEF IInv
    <2>7. task'[t].nPred = task[t].nPred
      OBVIOUS
    <2> QED
      BY <2>1, <2>2, <2>5, <2>6, <2>7
  <1>2. Exact'
    BY <1>1 DEF Exact
  <1>3. NotLost'
    <2> SUFFICES ASSUME NEW t \in Tasks, Old(t)', begun'[t] = 0
                 PROVE  MayBeLost(t)' \/ Loose(t)' \/ task'[t].nPred > 0
      BY DEF NotLost
    <2>1. Old(t)
      BY SubmittedSame DEF IInv, FlowKept
    <2>2. begun[t] = 0
      BY DEF IInv, TypeOK
    <2>3. MayBeLost(t) \/ Loose(t) \/ task[t].nPred > 0
      BY <2>1, <2>2 DEF EdgeInv, NotLost
    <2>4. MayBeLost(t) <=> MayBeLost(t)'
      BY LostFixed DEF FlowKept
    <2>5. CASE MayBeLost(t)
      BY <2>4, <2>5
    <2>6. CASE Loose(t)
      <3>1. Loose(t)' \/ begun'[t] = 1
        BY <2>6
      <3> QED
        BY <3>1
    <2>7. CASE task[t].nPred > 0
      <3>1. task'[t].nPred = task[t].nPred
        OBVIOUS
      <3> QED
        BY <2>7, <3>1
    <2> QED
      BY <2>3, <2>5, <2>6, <2>7
  <1> QED
    BY <1>2, <1>3, ExecEdges

\* The counting goes on when what is counted is the same.
LEMMA CountSame ==
    ASSUME IInv, CountInv, prog' = prog, count' = count, Active(queue, stack)' = Active(queue, stack),
           HeadsIn(stack'), \A t \in Tasks : begun'[t] = 1 /\ ended'[t] = 0 => InSome(stack', t)
    PROVE  CountInv'
  <1>1. CountIs'
    <2>1. Cardinality(Active(queue, stack)') = Cardinality(Active(queue, stack))
      OBVIOUS
    <2>2. "graph" \in DOMAIN count' /\ count'["graph"] = Cardinality(Active(queue, stack)')
      BY <2>1 DEF CountInv, CountIs
    <2> QED
      BY <2>2 DEF CountIs
  <1> QED
    BY <1>1 DEF CountInv, Few, HeadsCounted, Going

\* No frame comes or goes, and no queue changes: what is counted is the same.
LEMMA ActiveSame ==
    ASSUME queue' = queue, \A t \in Tasks : InSome(stack, t) <=> InSome(stack', t)
    PROVE  Active(queue, stack)' = Active(queue, stack)
  BY DEF Active

-----------------------------------------------------------------------------
(* The steps of executors *)

\* What the innermost frame of e counts before and after a step.
LEMMA TopSome ==
    ASSUME NEW e \in Executors, NEW f, TopSet(stack, stack', e, f), NEW h, h = stack[e][Len(stack[e])]
    PROVE  /\ \A t : InSome(stack, t) <=> t \in CountedBy(h) \/ Else(stack, e, t)
           /\ \A t : InSome(stack', t) <=> t \in CountedBy(f) \/ Else(stack, e, t)
  BY SomeTop

\* A frame that counts a task has it at hand.
LEMMA TopHeads ==
    ASSUME NEW e \in Executors, NEW f, TopSet(stack, stack', e, f), HeadsIn(stack),
           f.counted => f.pc \in {"main", "add"} /\ f.todo # <<>>
    PROVE  HeadsIn(stack')
  BY SomeTop

\* What the innermost frame of e counts no other frame does, and it is not queued.
LEMMA TopOnce ==
    ASSUME IInv, CountInv, NEW e \in Executors, stack[e] # <<>>, NEW q \in Tasks, q \in CountedBy(Top(e))
    PROVE  queue[q] = 0 /\ ~Else(stack, e, q)
  <1>1. PICK d \in DOMAIN stack[e] : d = Len(stack[e]) /\ q \in CountedBy(stack[e][d])
    BY Tops DEF IInv
  <1>2. HeadsCounted
    BY DEF CountInv
  <1>3. PICK i \in {0, 1} : Place(stack, q, e, d, i)
    BY <1>1, <1>2, CountedPlace
  <1>4. d \in Nat /\ i \in Nat
    BY <1>1, Tops DEF IInv
  <1>5. queue[q] = 0
    BY <1>3, <1>4 DEF IInv, Runs
  <1>6. ASSUME NEW x \in Executors, NEW b \in DOMAIN stack[x], q \in CountedBy(stack[x][b]) PROVE x = e /\ b = d
    <2>1. PICK k \in {0, 1} : Place(stack, q, x, b, k)
      BY <1>2, <1>6, CountedPlace
    <2>2. b \in Nat /\ k \in Nat
      BY DEF IInv, TypeOK
    <2> QED
      BY <1>3, <1>4, <2>1, <2>2 DEF IInv, OnePlace
  <1> QED
    BY <1>1, <1>5, <1>6 DEF Else

\* The innermost frame of e becomes f, which counts what the frame before counted.
LEMMA TopCount ==
    ASSUME IInv, CountInv, prog' = prog, count' = count, queue' = queue, begun' = begun,
           \A t \in Tasks : ended'[t] = 0 => ended[t] = 0,
           NEW e \in Executors, NEW f, TopSet(stack, stack', e, f), NEW h, h = stack[e][Len(stack[e])],
           CountedBy(f) = CountedBy(h), f.counted => f.pc \in {"main", "add"} /\ f.todo # <<>>
    PROVE  CountInv'
  <1>1. /\ \A t : InSome(stack, t) <=> t \in CountedBy(h) \/ Else(stack, e, t)
        /\ \A t : InSome(stack', t) <=> t \in CountedBy(f) \/ Else(stack, e, t)
    BY TopSome
  <1>2. \A t : InSome(stack, t) <=> InSome(stack', t)
    BY <1>1
  <1>3. HeadsIn(stack')
    <2>1. HeadsIn(stack) /\ (f.counted => f.pc \in {"main", "add"} /\ f.todo # <<>>)
      BY DEF CountInv, HeadsCounted
    <2> QED
      BY <2>1, SomeTop
  <1>4. Active(queue, stack)' = Active(queue, stack)
    BY <1>2, ActiveSame
  <1>5. \A t \in Tasks : begun'[t] = 1 /\ ended'[t] = 0 => InSome(stack', t)
    BY <1>2 DEF CountInv, Going
  <1> QED
    BY <1>3, <1>4, <1>5, CountSame

\* The innermost frame of e becomes f, which holds what the frame before held.
LEMMA TopFlow ==
    ASSUME IInv, IInv', EdgeInv, FlowKept, queue' = queue, begun' = begun,
           NEW e \in Executors, NEW f, TopSet(stack, stack', e, f), NEW h, h = stack[e][Len(stack[e])],
           Hold(f) = Hold(h), \A t \in Tasks : task'[t].nPred = task[t].nPred,
           \A p \in Tasks : \A s \in Seq(Tasks) : s # <<>> /\ Listed(p, s) => Listed(p, s)'
    PROVE  EdgeInv'
  <1>1. ASSUME NEW t \in Tasks, Loose(t) PROVE Loose(t)'
    <2>1. queue[t] = 1 \/ HeldIn(stack, t)
      BY <1>1, HeldIs DEF IInv
    <2>2. HeldIn(stack, t) => HeldIn(stack', t)
      BY HeldTop
    <2>3. Loose(t)' <=> queue'[t] = 1 \/ HeldIn(stack', t)
      BY HeldAfter DEF IInv
    <2> QED
      BY <2>1, <2>2, <2>3
  <1> QED
    BY <1>1, FlowSame

\* A list that is neither taken nor walked is still there.
LEMMA ListsOn ==
    ASSUME NEW e \in Executors, NEW f, TopSet(stack, stack', e, f), NEW h, h = stack[e][Len(stack[e])],
           NEW p \in Tasks, NEW s, Listed(p, s), Waits(p) => Waits(p)', task'[p].succ = task[p].succ,
           ~(h.pc = "release" /\ h.task = p /\ h.todo = s)
    PROVE  Listed(p, s)'
  <1>1. CASE Waits(p) /\ s = task[p].succ
    BY <1>1 DEF Listed
  <1>2. CASE \E x \in Executors : \E d \in DOMAIN stack[x] :
                  stack[x][d].task = p /\ stack[x][d].pc = "release" /\ stack[x][d].todo = s
    <2>0. PICK x \in Executors : \E d \in DOMAIN stack[x] :
                  stack[x][d].task = p /\ stack[x][d].pc = "release" /\ stack[x][d].todo = s
      BY <1>2
    <2>1. PICK d \in DOMAIN stack[x] : stack[x][d].task = p /\ stack[x][d].pc = "release" /\ stack[x][d].todo = s
      BY <2>0
    <2>2. ~(x = e /\ d = Len(stack[e]))
      BY <2>1
    <2>3. d \in DOMAIN stack'[x] /\ stack'[x][d] = stack[x][d]
      BY <2>1, <2>2 DEF TopSet
    <2> QED
      BY <2>1, <2>3 DEF Listed
  <1> QED
    BY <1>1, <1>2 DEF Listed

\* A task whose list has not been taken still waits.
LEMMA WaitsOn ==
    ASSUME NEW e \in Executors, NEW f, TopSet(stack, stack', e, f), NEW h, h = stack[e][Len(stack[e])],
           NEW p, Waits(p), \/ h.pc # "finish" \/ h.task # p,
           ended'[p] = ended[p] \/ (f.pc = "finish" /\ f.task = p)
    PROVE  Waits(p)'
  <1>1. CASE f.pc = "finish" /\ f.task = p
    <2>1. Len(stack[e]) \in DOMAIN stack'[e] /\ stack'[e][Len(stack[e])] = f
      BY DEF TopSet
    <2> QED
      BY <1>1, <2>1 DEF Waits
  <1>2. CASE ended'[p] = ended[p] /\ ended[p] = 0
    BY <1>2 DEF Waits
  <1>3. ASSUME NEW x \in Executors, NEW d \in DOMAIN stack[x], stack[x][d].task = p, stack[x][d].pc = "finish"
        PROVE  Waits(p)'
    <2>1. ~(x = e /\ d = Len(stack[e]))
      BY <1>3
    <2>2. d \in DOMAIN stack'[x] /\ stack'[x][d] = stack[x][d]
      BY <2>1 DEF TopSet
    <2> QED
      BY <1>3, <2>2 DEF Waits
  <1> QED
    BY <1>1, <1>2, <1>3 DEF Waits

\* kupl_tb_count_add.
LEMMA SchedAddTbCountFlow ==
    ASSUME IInv, IInv', CountInv, EdgeInv, NEW e \in Executors, SchedAddTbCount(e)
    PROVE  CountInv' /\ EdgeInv'
  <1>1. stack[e] # <<>> /\ Top(e).todo # <<>> /\ Top(e).pc \in {"main", "body", "add"}
    BY DEF SchedAddTbCount, Adding, At
  <1>2. PICK h \in FrameSet : /\ h = stack[e][Len(stack[e])] /\ h = Top(e) /\ h.pc \in {"main", "add"}
    BY <1>1, Tops DEF IInv, FrameSet
  <1>3. PICK f \in FrameSet : /\ f = [h EXCEPT !.counted = TRUE]
                              /\ f.task = h.task /\ f.pc = h.pc /\ f.todo = h.todo /\ f.ready = h.ready /\ f.counted
    <2>1. PICK f : f = [h EXCEPT !.counted = TRUE]
      OBVIOUS
    <2>2. f \in FrameSet /\ f.task = h.task /\ f.pc = h.pc /\ f.todo = h.todo /\ f.ready = h.ready /\ f.counted
      BY <1>2, <2>1 DEF FrameSet
    <2> QED
      BY <2>1, <2>2
  <1>4. /\ stack' = [stack EXCEPT ![e][Len(stack[e])] = f]
        /\ prog' = prog /\ team' = team /\ ip' = ip /\ call' = call /\ task' = task /\ entry' = entry
        /\ queue' = queue /\ begun' = begun /\ ended' = ended /\ ~h.counted
    BY <1>2, <1>3 DEF SchedAddTbCount, SetTop, program, dagVars, schedVars, history
  <1>5. TopSet(stack, stack', e, f)
    BY <1>1, <1>4, SetTopIs DEF IInv
  <1>6. CountIs' /\ HeadsCounted'
    BY CountAddCount DEF CountInv
  <1>7. Going'
    <2>1. \A t : t \in CountedBy(h) => t \in CountedBy(f)
      BY <1>3, <1>4 DEF CountedBy
    <2>2. \A t : InSome(stack, t) => InSome(stack', t)
      BY <2>1, <1>2, <1>5, TopSome
    <2> QED
      BY <2>2, <1>4 DEF CountInv, Going
  <1>8. CountInv'
    BY <1>4, <1>6, <1>7 DEF CountInv, Few
  <1>9. FlowKept
    <2>1. call.pc # "idle" => team # {Master}
      BY <1>1, Outside
    <2> QED
      BY <2>1, <1>4 DEF FlowKept
  <1>10. \A p \in Tasks : \A s \in Seq(Tasks) : s # <<>> /\ Listed(p, s) => Listed(p, s)'
    <2> SUFFICES ASSUME NEW p \in Tasks, NEW s \in Seq(Tasks), Listed(p, s) PROVE Listed(p, s)'
      OBVIOUS
    <2>1. Waits(p) => Waits(p)'
      BY <1>2, <1>4, <1>5, WaitsOn
    <2> QED
      BY <2>1, <1>2, <1>4, <1>5, ListsOn
  <1>11. Hold(f) = Hold(h)
    BY <1>3 DEF Hold
  <1>12. EdgeInv'
    BY <1>2, <1>4, <1>5, <1>9, <1>10, <1>11, TopFlow
  <1> QED
    BY <1>8, <1>12

\* The function of a task returns.
LEMMA TaskExecuteFlow ==
    ASSUME IInv, IInv', CountInv, EdgeInv, NEW e \in Executors, TaskExecute(e)
    PROVE  CountInv' /\ EdgeInv'
  <1>1. stack[e] # <<>> /\ (Top(e).pc = "func" \/ Top(e).pc = "body")
    BY DEF TaskExecute, At
  <1>2. PICK h \in FrameSet : /\ h = stack[e][Len(stack[e])] /\ h = Top(e) /\ h.pc = "func"
                              /\ Len(stack[e]) \in DOMAIN stack[e]
    BY <1>1, Tops DEF IInv, FrameSet
  <1>3. PICK f \in FrameSet : /\ f = [h EXCEPT !.pc = "finish"]
                              /\ f.task = h.task /\ f.pc = "finish" /\ f.todo = h.todo /\ f.ready = h.ready
                              /\ f.counted = h.counted
    <2>1. PICK f : f = [h EXCEPT !.pc = "finish"]
      OBVIOUS
    <2>2. f \in FrameSet /\ f.task = h.task /\ f.pc = "finish" /\ f.todo = h.todo /\ f.ready = h.ready
          /\ f.counted = h.counted
      BY <1>2, <2>1 DEF FrameSet
    <2> QED
      BY <2>1, <2>2
  <1>4. PICK q \in Tasks : q = h.task /\ begun[q] = 1 /\ ended[q] = 0
    BY <1>1, <1>2, FrameTask
  <1>5. /\ stack' = [stack EXCEPT ![e][Len(stack[e])] = f]
        /\ prog' = prog /\ team' = team /\ ip' = ip /\ call' = call /\ entry' = entry /\ count' = count
        /\ queue' = queue /\ begun' = begun
        /\ task' = [task EXCEPT ![q].finished = TRUE]
        /\ ended' = [ended EXCEPT ![q] = @ + 1]
    BY <1>2, <1>3, <1>4 DEF TaskExecute, SetTop, program, dagVars, schedVars, history
  <1>6. TopSet(stack, stack', e, f)
    BY <1>1, <1>5, SetTopIs DEF IInv
  <1>7. \A t \in Tasks : /\ task'[t].nPred = task[t].nPred /\ task'[t].nHard = task[t].nHard
                         /\ task'[t].succ = task[t].succ
    BY <1>5 DEF IInv, TypeOK, TaskSet
  <1>8. \A t \in Tasks : t # q => ended'[t] = ended[t]
    BY <1>5 DEF IInv, TypeOK
  <1>9. ~h.counted
    BY <1>2 DEF CountInv, HeadsCounted, HeadsIn
  <1>10. CountInv'
    <2>1. CountedBy(f) = CountedBy(h)
      BY <1>2, <1>3, <1>9 DEF CountedBy
    <2>2. \A t \in Tasks : ended'[t] = 0 => ended[t] = 0
      BY <1>4, <1>8
    <2>3. f.counted => f.pc \in {"main", "add"} /\ f.todo # <<>>
      BY <1>3, <1>9
    <2> QED
      BY <2>1, <2>2, <2>3, <1>2, <1>5, <1>6, TopCount
  <1>11. FlowKept
    <2>1. call.pc # "idle" => team # {Master}
      BY <1>1, <1>2, Outside
    <2> QED
      BY <2>1, <1>5, <1>7 DEF FlowKept
  <1>12. \A p \in Tasks : \A s \in Seq(Tasks) : s # <<>> /\ Listed(p, s) => Listed(p, s)'
    <2> SUFFICES ASSUME NEW p \in Tasks, NEW s \in Seq(Tasks), Listed(p, s) PROVE Listed(p, s)'
      OBVIOUS
    <2>1. ended'[p] = ended[p] \/ (f.pc = "finish" /\ f.task = p)
      BY <1>3, <1>4, <1>8
    <2>2. Waits(p) => Waits(p)'
      BY <2>1, <1>2, <1>6, WaitsOn
    <2> QED
      BY <2>2, <1>2, <1>6, <1>7, ListsOn
  <1>13. Hold(f) = Hold(h)
    BY <1>2, <1>3 DEF Hold
  <1>14. EdgeInv'
    BY <1>2, <1>5, <1>6, <1>7, <1>11, <1>12, <1>13, TopFlow
  <1> QED
    BY <1>10, <1>14

\* kupl_gnode_release_ready_safe takes the list.
LEMMA TaskFinishDynamicFlow ==
    ASSUME IInv, IInv', CountInv, EdgeInv, NEW e \in Executors, TaskFinishDynamic(e)
    PROVE  CountInv' /\ EdgeInv'
  <1>1. stack[e] # <<>> /\ Top(e).pc = "finish"
    BY DEF TaskFinishDynamic, At
  <1>2. PICK h \in FrameSet : /\ h = stack[e][Len(stack[e])] /\ h = Top(e) /\ h.pc = "finish" /\ h.ready = <<>>
                              /\ Len(stack[e]) \in DOMAIN stack[e]
    BY <1>1, Tops DEF IInv, FrameShape, Shape
  <1>3. PICK q \in Tasks : q = h.task /\ ended[q] # 0 /\ task[q].succ \in Seq(Tasks)
    BY <1>1, <1>2, FrameTask, TaskTypes DEF IInv
  <1>4. PICK f \in FrameSet : /\ f = [h EXCEPT !.pc = "release", !.todo = task[q].succ]
                              /\ f.task = h.task /\ f.pc = "release" /\ f.todo = task[q].succ /\ f.ready = h.ready
                              /\ f.counted = h.counted
    <2>1. PICK f : f = [h EXCEPT !.pc = "release", !.todo = task[q].succ]
      OBVIOUS
    <2>2. /\ f \in FrameSet /\ f.task = h.task /\ f.pc = "release" /\ f.todo = task[q].succ /\ f.ready = h.ready
          /\ f.counted = h.counted
      BY <1>2, <1>3, <2>1 DEF FrameSet
    <2> QED
      BY <2>1, <2>2
  <1>5. /\ stack' = [stack EXCEPT ![e][Len(stack[e])] = f]
        /\ prog' = prog /\ team' = team /\ ip' = ip /\ call' = call /\ task' = task /\ entry' = entry
        /\ queue' = queue /\ begun' = begun /\ ended' = ended /\ count' = count
    BY <1>2, <1>3, <1>4 DEF TaskFinishDynamic, SetTop, program, dagVars, schedVars, history
  <1>6. TopSet(stack, stack', e, f)
    BY <1>1, <1>5, SetTopIs DEF IInv
  <1>7. ~h.counted
    BY <1>2 DEF CountInv, HeadsCounted, HeadsIn
  <1>8. CountInv'
    <2>1. CountedBy(f) = CountedBy(h)
      BY <1>2, <1>4, <1>7 DEF CountedBy
    <2>2. f.counted => f.pc \in {"main", "add"} /\ f.todo # <<>>
      BY <1>4, <1>7
    <2> QED
      BY <2>1, <2>2, <1>2, <1>5, <1>6, TopCount
  <1>9. FlowKept
    <2>1. call.pc # "idle" => team # {Master}
      BY <1>1, <1>2, Outside
    <2> QED
      BY <2>1, <1>5 DEF FlowKept
  <1>10. \A p \in Tasks : \A s \in Seq(Tasks) : s # <<>> /\ Listed(p, s) => Listed(p, s)'
    <2> SUFFICES ASSUME NEW p \in Tasks, NEW s \in Seq(Tasks), Listed(p, s) PROVE Listed(p, s)'
      OBVIOUS
    <2>1. CASE p # q
      <3>1. Waits(p) => Waits(p)'
        BY <2>1, <1>2, <1>3, <1>5, <1>6, WaitsOn
      <3> QED
        BY <3>1, <1>2, <1>5, <1>6, ListsOn
    <2>2. CASE p = q /\ Waits(p) /\ s = task[p].succ
      <3>1. Len(stack[e]) \in DOMAIN stack'[e] /\ stack'[e][Len(stack[e])] = f
        BY <1>6 DEF TopSet
      <3>2. f.task = p /\ f.pc = "release" /\ f.todo = s
        BY <2>2, <1>3, <1>4
      <3>3. \E d \in DOMAIN stack'[e] : stack'[e][d].task = p /\ stack'[e][d].pc = "release" /\ stack'[e][d].todo = s
        BY <3>1, <3>2
      <3> QED
        BY <3>3 DEF Listed
    <2>3. CASE p = q /\ ~(Waits(p) /\ s = task[p].succ)
      <3>1. PICK x \in Executors : \E d \in DOMAIN stack[x] :
                  stack[x][d].task = p /\ stack[x][d].pc = "release" /\ stack[x][d].todo = s
        BY <2>3 DEF Listed
      <3>2. PICK d \in DOMAIN stack[x] : stack[x][d].task = p /\ stack[x][d].pc = "release" /\ stack[x][d].todo = s
        BY <3>1
      <3>3. ~(x = e /\ d = Len(stack[e]))
        BY <3>2, <1>2
      <3>4. d \in DOMAIN stack'[x] /\ stack'[x][d] = stack[x][d]
        BY <3>2, <3>3, <1>6 DEF TopSet
      <3> QED
        BY <3>2, <3>4 DEF Listed
    <2> QED
      BY <2>1, <2>2, <2>3
  <1>11. Hold(f) = Hold(h)
    BY <1>2, <1>4 DEF Hold
  <1>12. EdgeInv'
    BY <1>2, <1>5, <1>6, <1>9, <1>10, <1>11, TopFlow
  <1> QED
    BY <1>8, <1>12

\* The list has been walked.
LEMMA ReleaseDoneFlow ==
    ASSUME IInv, IInv', CountInv, EdgeInv, NEW e \in Executors, GnodeReleaseReady(e), Top(e).todo = <<>>
    PROVE  CountInv' /\ EdgeInv'
  <1>1. stack[e] # <<>> /\ Top(e).pc = "release"
    BY DEF GnodeReleaseReady, At
  <1>2. PICK h \in FrameSet : h = stack[e][Len(stack[e])] /\ h = Top(e) /\ h.pc = "release" /\ h.todo = <<>>
    BY <1>1, Tops DEF IInv
  <1>3. PICK f \in FrameSet : /\ f = [h EXCEPT !.pc = "add", !.todo = h.ready, !.ready = <<>>]
                              /\ f.task = h.task /\ f.pc = "add" /\ f.todo = h.ready /\ f.counted = h.counted
    <2>1. PICK f : f = [h EXCEPT !.pc = "add", !.todo = h.ready, !.ready = <<>>]
      OBVIOUS
    <2>2. f \in FrameSet /\ f.task = h.task /\ f.pc = "add" /\ f.todo = h.ready /\ f.counted = h.counted
      BY <1>2, <2>1 DEF FrameSet
    <2> QED
      BY <2>1, <2>2
  <1>4. /\ stack' = [stack EXCEPT ![e][Len(stack[e])] = f]
        /\ prog' = prog /\ team' = team /\ ip' = ip /\ call' = call /\ task' = task /\ entry' = entry
        /\ queue' = queue /\ begun' = begun /\ ended' = ended /\ count' = count
    BY <1>2, <1>3 DEF GnodeReleaseReady, SetTop, program, dagVars, schedVars, history
  <1>5. TopSet(stack, stack', e, f)
    BY <1>1, <1>4, SetTopIs DEF IInv
  <1>6. ~h.counted
    BY <1>2, Tops, <1>1 DEF CountInv, HeadsCounted, HeadsIn, IInv
  <1>7. CountInv'
    <2>1. CountedBy(f) = CountedBy(h)
      BY <1>2, <1>3, <1>6 DEF CountedBy
    <2>2. f.counted => f.pc \in {"main", "add"} /\ f.todo # <<>>
      BY <1>3, <1>6
    <2> QED
      BY <2>1, <2>2, <1>2, <1>4, <1>5, TopCount
  <1>8. FlowKept
    <2>1. call.pc # "idle" => team # {Master}
      BY <1>1, <1>2, Outside
    <2> QED
      BY <2>1, <1>4 DEF FlowKept
  <1>9. \A p \in Tasks : \A s \in Seq(Tasks) : s # <<>> /\ Listed(p, s) => Listed(p, s)'
    <2> SUFFICES ASSUME NEW p \in Tasks, NEW s \in Seq(Tasks), s # <<>>, Listed(p, s) PROVE Listed(p, s)'
      OBVIOUS
    <2>1. Waits(p) => Waits(p)'
      BY <1>2, <1>4, <1>5, WaitsOn
    <2> QED
      BY <2>1, <1>2, <1>4, <1>5, ListsOn
  <1>10. Hold(f) = Hold(h)
    BY <1>2, <1>3 DEF Hold
  <1>11. EdgeInv'
    BY <1>2, <1>4, <1>5, <1>8, <1>9, <1>10, TopFlow
  <1> QED
    BY <1>7, <1>11

\* kupl_tb_count_sub: the task is not counted any more.
LEMMA TaskCountSubFlow ==
    ASSUME IInv, IInv', CountInv, EdgeInv, NEW e \in Executors, TaskCountSub(e)
    PROVE  CountInv' /\ EdgeInv'
  <1>1. stack[e] # <<>> /\ Top(e).pc = "add"
    BY DEF TaskCountSub, At
  <1>2. PICK h \in FrameSet : /\ h = stack[e][Len(stack[e])] /\ h = Top(e) /\ h.pc = "add" /\ h.todo = <<>>
                              /\ Len(stack[e]) \in DOMAIN stack[e]
    BY <1>1, Tops DEF IInv, TaskCountSub
  <1>3. PICK f \in FrameSet : /\ f = [h EXCEPT !.pc = "deref"]
                              /\ f.task = h.task /\ f.pc = "deref" /\ f.todo = h.todo /\ f.counted = h.counted
    <2>1. PICK f : f = [h EXCEPT !.pc = "deref"]
      OBVIOUS
    <2>2. f \in FrameSet /\ f.task = h.task /\ f.pc = "deref" /\ f.todo = h.todo /\ f.counted = h.counted
      BY <1>2, <2>1 DEF FrameSet
    <2> QED
      BY <2>1, <2>2
  <1>4. PICK q \in Tasks : q = h.task /\ ended[q] # 0 /\ Known(q) /\ Kind[q] = "dynamic"
    BY <1>1, <1>2, FrameTask
  <1>5. /\ stack' = [stack EXCEPT ![e][Len(stack[e])] = f]
        /\ prog' = prog /\ team' = team /\ ip' = ip /\ call' = call /\ task' = task /\ entry' = entry
        /\ queue' = queue /\ begun' = begun /\ ended' = ended
        /\ count' = [count EXCEPT !["graph"] = Dec(@)]
    BY <1>2, <1>3, <1>4 DEF TaskCountSub, SetTop, CountOf, program, dagVars, schedVars, history
  <1>6. TopSet(stack, stack', e, f)
    BY <1>1, <1>5, SetTopIs DEF IInv
  <1>7. ~h.counted
    <2>1. HeadsIn(stack)
      BY DEF CountInv, HeadsCounted
    <2>2. stack[e][Len(stack[e])].counted => stack[e][Len(stack[e])].todo # <<>>
      BY <2>1, <1>2 DEF HeadsIn
    <2> QED
      BY <2>2, <1>2
  <1>8. CountedBy(h) = {q} /\ CountedBy(f) = {}
    BY <1>2, <1>3, <1>4, <1>7 DEF CountedBy
  <1>9. /\ \A t : InSome(stack, t) <=> t = q \/ Else(stack, e, t)
        /\ \A t : InSome(stack', t) <=> Else(stack, e, t)
    BY <1>2, <1>6, <1>8, TopSome
  <1>10. queue[q] = 0 /\ ~Else(stack, e, q)
    <2>1. q \in CountedBy(Top(e))
      BY <1>2, <1>8
    <2> QED
      BY <2>1, <1>1, TopOnce
  <1>11. PICK A : A = Active(queue, stack)
    OBVIOUS
  <1>12. q \in A /\ Active(queue, stack)' = A \ {q}
    <2>1. q \in A
      BY <1>9, <1>11 DEF Active
    <2>2. ASSUME NEW u \in Tasks
          PROVE  queue'[u] = 1 \/ InSome(stack', u) <=> (queue[u] = 1 \/ InSome(stack, u)) /\ u # q
      <3>1. queue'[u] = queue[u]
        BY <1>5
      <3>2. CASE u = q
        BY <3>1, <3>2, <1>9, <1>10
      <3>3. CASE u # q
        BY <3>1, <3>3, <1>9
      <3> QED
        BY <3>2, <3>3
    <2>3. Active(queue, stack)' = {u \in Tasks : queue'[u] = 1 \/ InSome(stack', u)}
      BY DEF Active
    <2>4. A = {u \in Tasks : queue[u] = 1 \/ InSome(stack, u)}
      BY <1>11 DEF Active
    <2> QED
      BY <2>1, <2>2, <2>3, <2>4
  <1>13. CountInv'
    <2>1. CountIs'
      BY <1>4, <1>5, <1>11, <1>12, CountMoves DEF CountInv
    <2>2. HeadsIn(stack')
      <3>1. HeadsIn(stack) /\ (f.counted => f.pc \in {"main", "add"} /\ f.todo # <<>>)
        BY <1>3, <1>7 DEF CountInv, HeadsCounted
      <3> QED
        BY <3>1, <1>6, TopHeads
    <2>3. \A t \in Tasks : begun'[t] = 1 /\ ended'[t] = 0 => InSome(stack', t)
      BY <1>4, <1>5, <1>9 DEF CountInv, Going
    <2> QED
      BY <2>1, <2>2, <2>3, <1>5 DEF CountInv, Few, HeadsCounted, Going
  <1>14. FlowKept
    <2>1. call.pc # "idle" => team # {Master}
      BY <1>1, <1>2, Outside
    <2> QED
      BY <2>1, <1>5 DEF FlowKept
  <1>15. \A p \in Tasks : \A s \in Seq(Tasks) : s # <<>> /\ Listed(p, s) => Listed(p, s)'
    <2> SUFFICES ASSUME NEW p \in Tasks, NEW s \in Seq(Tasks), s # <<>>, Listed(p, s) PROVE Listed(p, s)'
      OBVIOUS
    <2>1. Waits(p) => Waits(p)'
      BY <1>2, <1>5, <1>6, WaitsOn
    <2> QED
      BY <2>1, <1>2, <1>5, <1>6, ListsOn
  <1>16. Hold(f) = Hold(h)
    BY <1>2, <1>3 DEF Hold
  <1>17. EdgeInv'
    BY <1>2, <1>5, <1>6, <1>14, <1>15, <1>16, TopFlow
  <1> QED
    BY <1>13, <1>17

\* kupl_task_invoke returns.
LEMMA TaskDerefFlow ==
    ASSUME IInv, IInv', CountInv, EdgeInv, NEW e \in Executors, TaskDeref(e)
    PROVE  CountInv' /\ EdgeInv'
  <1>1. stack[e] # <<>> /\ Top(e).pc = "deref"
    BY DEF TaskDeref, At
  <1>2. PICK h \in FrameSet : /\ h = stack[e][Len(stack[e])] /\ h = Top(e) /\ h.pc = "deref"
                              /\ Len(stack[e]) \in DOMAIN stack[e]
    BY <1>1, Tops DEF IInv
  <1>3. PICK q \in Tasks : /\ q = h.task /\ ended[q] # 0 /\ Kind[q] = "dynamic"
                           /\ \A x \in Executors : \A d \in DOMAIN stack[x] :
                                 stack[x][d].pc # "main" /\ stack[x][d].task = q => x = e /\ d = Len(stack[e])
    BY <1>1, <1>2, FrameTask
  <1>4. /\ stack' = [stack EXCEPT ![e] = SubSeq(@, 1, Len(@) - 1)]
        /\ prog' = prog /\ team' = team /\ ip' = ip /\ call' = call /\ entry' = entry /\ count' = count
        /\ queue' = queue /\ begun' = begun /\ ended' = ended
        /\ task' = [task EXCEPT ![q] = Deref(@)]
    BY <1>2, <1>3 DEF TaskDeref, program, dagVars, schedVars, history
  <1>5. Popped(stack, stack', e)
    BY <1>1, <1>4, PopIs DEF IInv
  <1>6. /\ \A t \in Tasks : /\ task'[t].nPred = task[t].nPred /\ task'[t].nHard = task[t].nHard
                            /\ task'[t].succ = task[t].succ \/ task'[t].succ = <<>>
        /\ \A t \in Tasks : t # q => task'[t] = task[t]
    BY <1>4, TaskTypes, DerefIs DEF IInv, TypeOK
  <1>7. ~h.counted
    BY <1>2 DEF CountInv, HeadsCounted, HeadsIn
  <1>8. CountedBy(stack[e][Len(stack[e])]) = {}
    BY <1>2, <1>7 DEF CountedBy
  <1>9. CountInv'
    <2>1. \A u : InSome(stack', u) <=> InSome(stack, u)
      BY <1>5, <1>8, SomePop
    <2>2. HeadsIn(stack')
      <3>1. HeadsIn(stack)
        BY DEF CountInv, HeadsCounted
      <3> QED
        BY <3>1, <1>5, <1>8, SomePop
    <2>3. Active(queue, stack)' = Active(queue, stack)
      BY <2>1, <1>4, ActiveSame
    <2>4. \A t \in Tasks : begun'[t] = 1 /\ ended'[t] = 0 => InSome(stack', t)
      BY <2>1, <1>4 DEF CountInv, Going
    <2> QED
      BY <2>2, <2>3, <2>4, <1>4, CountSame
  <1>10. FlowKept
    <2>1. call.pc # "idle" => team # {Master}
      BY <1>1, <1>2, Outside
    <2> QED
      BY <2>1, <1>4, <1>6 DEF FlowKept
  <1>11. \A p \in Tasks : \A s \in Seq(Tasks) : s # <<>> /\ Listed(p, s) => Listed(p, s)'
    <2> SUFFICES ASSUME NEW p \in Tasks, NEW s \in Seq(Tasks), Listed(p, s) PROVE Listed(p, s)'
      OBVIOUS
    <2>1. ASSUME NEW x \in Executors, NEW d \in DOMAIN stack[x], stack[x][d].pc \in {"finish", "release"}
          PROVE  d \in DOMAIN stack'[x] /\ stack'[x][d] = stack[x][d]
      <3>1. ~(x = e /\ d = Len(stack[e]))
        BY <2>1, <1>2
      <3> QED
        BY <3>1, <1>5 DEF Popped
    <2>2. CASE Waits(p) /\ s = task[p].succ
      <3>1. p # q
        <4> SUFFICES ASSUME p = q PROVE FALSE
          OBVIOUS
        <4>1. PICK x \in Executors : \E d \in DOMAIN stack[x] : stack[x][d].task = p /\ stack[x][d].pc = "finish"
          BY <2>2, <1>3 DEF Waits
        <4> QED
          BY <4>1, <1>2, <1>3
      <3>2. Waits(p)'
        BY <2>1, <2>2, <1>4 DEF Waits
      <3> QED
        BY <2>2, <3>1, <3>2, <1>6 DEF Listed
    <2>3. CASE \E x \in Executors : \E d \in DOMAIN stack[x] :
                  stack[x][d].task = p /\ stack[x][d].pc = "release" /\ stack[x][d].todo = s
      BY <2>1, <2>3 DEF Listed
    <2> QED
      BY <2>2, <2>3 DEF Listed
  <1>12. ASSUME NEW t \in Tasks, Loose(t) PROVE Loose(t)'
    <2>1. queue[t] = 1 \/ HeldIn(stack, t)
      BY <1>12, HeldIs DEF IInv
    <2>2. Elems(Hold(stack[e][Len(stack[e])])) = {}
      BY <1>2 DEF Hold, Elems
    <2>3. HeldIn(stack, t) => HeldIn(stack', t)
      BY <2>2, <1>5, HeldPop
    <2>4. Loose(t)' <=> queue'[t] = 1 \/ HeldIn(stack', t)
      BY HeldAfter DEF IInv
    <2> QED
      BY <2>1, <2>3, <2>4, <1>4
  <1>13. EdgeInv'
    BY <1>4, <1>6, <1>10, <1>11, <1>12, FlowSame
  <1> QED
    BY <1>9, <1>13

\* No edge goes but the m-th that was made from q, to s.
Releases(q, m, s) == /\ \A t \in Tasks : t # s => Pend(t) \subseteq Pend(t)'
                     /\ Pend(s) \ {<<q, m>>} \subseteq Pend(s)'

\* The first edge of the list is released: the others are still to be.
LEMMA EdgesGoOn ==
    ASSUME IInv, NEW e \in Executors, stack[e] # <<>>, Top(e).pc = "release", Top(e).todo # <<>>,
           NEW f \in FrameSet, TopSet(stack, stack', e, f), f.task = Top(e).task, f.pc = "release",
           f.todo = Tail(Top(e).todo), ended' = ended, \A p \in Tasks : task'[p].succ = task[p].succ,
           NEW l, l = Top(e).todo, NEW q, NEW m, NEW s, q = Top(e).task /\ m = Len(l) /\ s = Head(l)
    PROVE  Releases(q, m, s)
  <1>0. l = Top(e).todo /\ s = Head(l) /\ m = Len(l) /\ q = Top(e).task
    OBVIOUS
  <1>1. PICK h \in FrameSet : h = Top(e) /\ h = stack[e][Len(stack[e])] /\ Len(stack[e]) \in DOMAIN stack[e]
    BY Tops DEF IInv
  <1>2. l # <<>> /\ Tail(l) \in Seq(Tasks) /\ Head(l) \in Tasks /\ l \in Seq(Tasks)
    <2>1. l # <<>> /\ l \in Seq(Tasks)
      BY <1>0, <1>1 DEF FrameSet
    <2> QED
      BY <2>1, FirstEdge
  <1>3. Listed(q, Tail(l))'
    <2>1. Len(stack[e]) \in DOMAIN stack'[e] /\ stack'[e][Len(stack[e])] = f
      BY DEF TopSet
    <2>2. f.task = q /\ f.pc = "release" /\ f.todo = Tail(l)
      BY <1>0
    <2> QED
      BY <2>1, <2>2 DEF Listed
  <1>4. \A k, u : FromEnd(l, k, u) => FromEnd(Tail(l), k, u) \/ (k = m /\ u = s)
    <2>1. \A k, u : FromEnd(l, k, u) <=> FromEnd(Tail(l), k, u) \/ (k = Len(l) /\ u = Head(l))
      BY <1>2, FromEnds
    <2> QED
      BY <2>1, <1>0
  <1>5. ASSUME NEW t \in Tasks, NEW p \in Tasks, NEW k \in Nat, EdgeAt(p, k, t)
        PROVE  EdgeAt(p, k, t)' \/ (t = s /\ p = q /\ k = m)
    <2>1. PICK z \in Seq(Tasks) : Listed(p, z) /\ FromEnd(z, k, t)
      BY <1>5 DEF EdgeAt
    <2>2. CASE p = q /\ z = l
      <3>1. CASE FromEnd(Tail(l), k, t)
        BY <2>2, <3>1, <1>2, <1>3 DEF EdgeAt
      <3>2. CASE k = m /\ t = s
        BY <2>2, <3>2
      <3> QED
        BY <2>1, <2>2, <3>1, <3>2, <1>4
    <2>3. CASE ~(p = q /\ z = l)
      <3>1. Waits(p) => Waits(p)'
        BY <1>1, WaitsOn
      <3>2. ~(h.pc = "release" /\ h.task = p /\ h.todo = z)
        BY <2>3, <1>0, <1>1
      <3>3. Listed(p, z)'
        BY <2>1, <3>1, <3>2, <1>1, ListsOn
      <3> QED
        BY <2>1, <3>3 DEF EdgeAt
    <2> QED
      BY <2>2, <2>3
  <1>6. ASSUME NEW t \in Tasks, NEW pk \in Pend(t), ~(t = s /\ pk = <<q, m>>) PROVE pk \in Pend(t)'
    <2>1. pk \in Tasks \X Nat /\ EdgeAt(pk[1], pk[2], t)
      BY DEF Pend
    <2>2. ~(t = s /\ pk[1] = q /\ pk[2] = m)
      BY <1>6, <2>1
    <2>3. EdgeAt(pk[1], pk[2], t)'
      BY <1>5, <2>1, <2>2
    <2> QED
      BY <2>1, <2>3 DEF Pend
  <1>7. s \in Tasks
    BY <1>0, <1>2
  <1> QED
    BY <1>0, <1>6, <1>7 DEF Releases

\* One fetch_sub of gnode_release_ready: a task loses an edge and a count, and is
\* held when it has none left.
LEMMA ReleaseOneFlow ==
    ASSUME IInv, IInv', CountInv, EdgeInv, NEW e \in Executors, GnodeReleaseReady(e), Top(e).todo # <<>>
    PROVE  CountInv' /\ EdgeInv'
  <1>1. stack[e] # <<>> /\ Top(e).pc = "release"
    BY DEF GnodeReleaseReady, At
  <1>2. PICK h \in FrameSet : h = stack[e][Len(stack[e])] /\ h = Top(e) /\ h.pc = "release" /\ h.todo # <<>>
                              /\ h.ready \in Seq(Tasks)
    <2>1. Top(e) \in FrameSet /\ Top(e) = stack[e][Len(stack[e])]
      BY <1>1, Tops DEF IInv
    <2>2. Top(e).ready \in Seq(Tasks)
      BY <2>1 DEF FrameSet
    <2> QED
      BY <1>1, <2>1, <2>2
  <1>3. PICK l \in Seq(Tasks) : l = h.todo /\ l # <<>>
    BY <1>2 DEF FrameSet
  <1>4. PICK s \in Tasks : s = Head(l)
    BY <1>3, FirstEdge
  <1>5. PICK r \in Seq(Tasks) : r = Tail(l)
    BY <1>3, FirstEdge
  <1>6. PICK m \in Nat : m = Len(l)
    BY <1>3
  <1>7. PICK q : q = h.task
    OBVIOUS
  <1>8. /\ q \in Tasks /\ <<q, m>> \in Pend(s)
        /\ Owed(s) >= 1 /\ Owed(s) \in Nat /\ ~Overtaken(s) /\ ~Loose(s)
    BY <1>1, <1>2, <1>3, <1>4, <1>6, <1>7, EdgeReleased
  <1>9. PICK g \in Seq(Tasks) : g = IF task[s].nPred = 1 THEN Append(h.ready, s) ELSE h.ready
    <2>1. Append(h.ready, s) \in Seq(Tasks)
      BY <1>2
    <2> QED
      BY <2>1, <1>2
  <1>10. PICK f \in FrameSet : /\ f = [h EXCEPT !.todo = r, !.ready = g] /\ f.task = h.task /\ f.pc = "release"
                               /\ f.todo = r /\ f.ready = g /\ f.counted = h.counted
    <2>1. PICK f : f = [h EXCEPT !.todo = r, !.ready = g]
      OBVIOUS
    <2>2. f \in FrameSet /\ f.task = h.task /\ f.pc = h.pc /\ f.todo = r /\ f.ready = g /\ f.counted = h.counted
      BY <1>2, <2>1 DEF FrameSet
    <2> QED
      BY <1>2, <2>1, <2>2
  <1>11. /\ stack' = [stack EXCEPT ![e][Len(stack[e])] = f]
         /\ prog' = prog /\ team' = team /\ ip' = ip /\ call' = call /\ entry' = entry /\ count' = count
         /\ queue' = queue /\ begun' = begun /\ ended' = ended
         /\ task' = [task EXCEPT ![s].nPred = Dec(@)]
    <2>1. f = [h EXCEPT !.todo = Tail(@), !.ready = IF task[s].nPred = 1 THEN Append(@, s) ELSE @]
      BY <1>2, <1>3, <1>5, <1>9, <1>10
    <2> QED
      BY <1>1, <1>2, <1>3, <1>4, <2>1 DEF GnodeReleaseReady, SetTop, program, dagVars, schedVars, history
  <1>12. TopSet(stack, stack', e, f)
    BY <1>1, <1>11, SetTopIs DEF IInv
  <1>13. /\ task'[s].nPred = Dec(task[s].nPred) /\ \A t \in Tasks : t # s => task'[t] = task[t]
         /\ \A t \in Tasks : task'[t].nHard = task[t].nHard /\ task'[t].succ = task[t].succ
    <2>1. task' = [task EXCEPT ![s] = [task[s] EXCEPT !.nPred = Dec(task[s].nPred)]] /\ task \in [Tasks -> TaskSet]
      BY <1>11 DEF IInv, TypeOK
    <2>2. PICK v : v = [task[s] EXCEPT !.nPred = Dec(task[s].nPred)]
      OBVIOUS
    <2>3. v.nPred = Dec(task[s].nPred) /\ v.nHard = task[s].nHard /\ v.succ = task[s].succ
      BY <2>1, <2>2 DEF TaskSet
    <2>4. task'[s] = v /\ \A t \in Tasks : t # s => task'[t] = task[t]
      BY <2>1, <2>2
    <2> QED
      BY <2>3, <2>4
  <1>14. CountInv'
    <2>1. ~h.counted
      <3>1. HeadsIn(stack)
        BY DEF CountInv, HeadsCounted
      <3> QED
        BY <3>1, <1>1, <1>2, Tops DEF HeadsIn, IInv
    <2>2. CountedBy(f) = CountedBy(h)
      BY <1>2, <1>10, <2>1 DEF CountedBy
    <2>3. f.counted => f.pc \in {"main", "add"} /\ f.todo # <<>>
      BY <1>10, <2>1
    <2> QED
      BY <2>2, <2>3, <1>2, <1>11, <1>12, TopCount
  <1>15. FlowKept
    <2>1. call.pc # "idle" => team # {Master}
      BY <1>1, Outside
    <2> QED
      BY <2>1, <1>11, <1>13 DEF FlowKept
  <1>16. /\ \A t \in Tasks : t # s => Pend(t) \subseteq Pend(t)'
         /\ Pend(s) \ {<<q, m>>} \subseteq Pend(s)'
    <2>1. stack[e] # <<>> /\ Top(e).pc = "release" /\ Top(e).todo # <<>>
      BY <1>1
    <2>2. /\ q = Top(e).task /\ f.task = Top(e).task /\ f.pc = "release"
          /\ f.todo = Tail(Top(e).todo) /\ l = Top(e).todo
      BY <1>2, <1>3, <1>5, <1>7, <1>10
    <2>3. ended' = ended /\ \A p \in Tasks : task'[p].succ = task[p].succ
      BY <1>11, <1>13
    <2>5. Releases(q, m, s)
      BY <2>1, <2>2, <2>3, <1>4, <1>6, <1>12, EdgesGoOn
    <2> QED
      BY <2>5 DEF Releases
  <1>17. /\ \A t \in Tasks : task[t].nPred \in Nat /\ task[t].nPred < UintMod
         /\ task[s].nPred > 0 => task'[s].nPred = task[s].nPred - 1
    <2>1. \A t \in Tasks : task[t].nPred \in 0 .. UintMod - 1
      BY TaskTypes DEF IInv
    <2>2. task[s].nPred > 0 => Dec(task[s].nPred) = task[s].nPred - 1
      BY <2>1, Counting
    <2> QED
      BY <2>1, <2>2, <1>13, BoundsAssumption
  <1>18. ASSUME team' = {Master}, NEW t \in Tasks
         PROVE  task'[t].nPred + Uncounted(t)' <= Cardinality(Pend(t)')
    <2>1. Uncounted(t) = 0 /\ Uncounted(t)' = 0
      BY <1>18, <1>11, <1>15 DEF Uncounted, FlowKept
    <2>2. task[t].nPred + 0 <= Cardinality(Pend(t))
      BY <1>11, <1>18, <2>1 DEF EdgeInv, Exact
    <2>3. /\ IsFiniteSet(Pend(t)') /\ IsFiniteSet(Pend(t))
          /\ Cardinality(Pend(t)') \in Nat /\ Cardinality(Pend(t)) \in Nat
      <3>1. IsFiniteSet(Pend(t)') /\ IsFiniteSet(Pend(t))
        BY DEF IInv, Counts
      <3> QED
        BY <3>1, FS_CardinalityType
    <2>4. CASE t # s
      <3>1. Pend(t) \subseteq Pend(t)'
        BY <2>4, <1>16
      <3>2. Cardinality(Pend(t)) <= Cardinality(Pend(t)')
        BY <2>3, <3>1, FS_Subset
      <3>3. task'[t].nPred = task[t].nPred
        BY <2>4, <1>13
      <3> QED
        BY <2>1, <2>2, <2>3, <3>2, <3>3, <1>17
    <2>5. CASE t = s
      <3>1. Pend(s) \ {<<q, m>>} \subseteq Pend(s)'
        BY <1>16
      <3>2. IsFiniteSet(Pend(s) \ {<<q, m>>}) /\ Cardinality(Pend(s) \ {<<q, m>>}) = Cardinality(Pend(s)) - 1
        BY <2>3, <2>5, <1>8, FS_RemoveElement
      <3>3. Cardinality(Pend(s)) - 1 <= Cardinality(Pend(s)')
        BY <2>3, <2>5, <3>1, <3>2, FS_Subset
      <3>4. task[s].nPred > 0
        <4>1. Uncounted(s) = 0
          BY <2>1, <2>5
        <4>2. Owed(s) = task[s].nPred + 0
          BY <4>1, <1>8 DEF Owed
        <4> QED
          BY <4>2, <1>8, <1>17
      <3> QED
        BY <2>1, <2>2, <2>3, <2>5, <3>3, <3>4, <1>17
    <2> QED
      BY <2>4, <2>5
  <1>19. Exact'
    BY <1>18 DEF Exact
  <1>20. Elems(h.ready) \subseteq Elems(g) /\ (task[s].nPred = 1 => s \in Elems(g)) /\ Hold(h) = h.ready /\ Hold(f) = g
    <2>1. Elems(h.ready) \subseteq Elems(Append(h.ready, s)) /\ s \in Elems(Append(h.ready, s))
      <3>1. DOMAIN Append(h.ready, s) = 1 .. Len(h.ready) + 1 /\ DOMAIN h.ready = 1 .. Len(h.ready) /\ Len(h.ready) \in Nat
        BY <1>2
      <3>2. /\ \A i \in DOMAIN h.ready : i \in DOMAIN Append(h.ready, s) /\ Append(h.ready, s)[i] = h.ready[i]
            /\ Len(h.ready) + 1 \in DOMAIN Append(h.ready, s) /\ Append(h.ready, s)[Len(h.ready) + 1] = s
        BY <1>2, <3>1
      <3> QED
        BY <3>2 DEF Elems
    <2> QED
      BY <2>1, <1>2, <1>9, <1>10 DEF Hold
  <1>21. ASSUME NEW t \in Tasks, t \in Elems(g) \/ Loose(t) PROVE Loose(t)'
    <2>1. Loose(t) => queue[t] = 1 \/ HeldIn(stack, t)
      BY HeldIs DEF IInv
    <2>2. HeldIn(stack, t) => HeldIn(stack', t) \/ t \in Elems(Hold(h))
      BY <1>2, <1>12, HeldTop
    <2>3. t \in Elems(Hold(f)) => HeldIn(stack', t)
      BY <1>2, <1>12, HeldTop
    <2>4. Loose(t)' <=> queue'[t] = 1 \/ HeldIn(stack', t)
      BY HeldAfter DEF IInv
    <2>5. t \in Elems(Hold(h)) => t \in Elems(Hold(f))
      BY <1>20
    <2>6. CASE t \in Elems(g)
      BY <2>3, <2>4, <2>6, <1>20
    <2> QED
      BY <2>1, <2>2, <2>3, <2>4, <2>5, <2>6, <1>11, <1>21
  <1>22. NotLost'
    <2> SUFFICES ASSUME NEW t \in Tasks, Old(t)', begun'[t] = 0
                 PROVE  MayBeLost(t)' \/ Loose(t)' \/ task'[t].nPred > 0
      BY DEF NotLost
    <2>1. Old(t)
      BY <1>15, SubmittedSame DEF IInv, FlowKept
    <2>2. MayBeLost(t) \/ Loose(t) \/ task[t].nPred > 0
      BY <2>1, <1>11 DEF EdgeInv, NotLost
    <2>3. MayBeLost(t) => MayBeLost(t)'
      BY <1>11, LostFixed
    <2>4. Loose(t) => Loose(t)'
      BY <1>21
    <2>5. CASE task[t].nPred > 0
      <3>1. CASE t # s
        BY <2>5, <3>1, <1>13
      <3>2. CASE t = s /\ task[s].nPred = 1
        BY <3>2, <1>20, <1>21
      <3>3. CASE t = s /\ task[s].nPred # 1
        BY <2>5, <3>3, <1>17
      <3> QED
        BY <3>1, <3>2, <3>3
    <2> QED
      BY <2>2, <2>3, <2>4, <2>5
  <1>23. EdgeInv'
    BY <1>15, <1>19, <1>22, ExecEdges
  <1> QED
    BY <1>14, <1>23

\* Frames that release are left alone: their lists are still there.
LEMMA ListsStay ==
    ASSUME \A x \in Executors : \A d \in DOMAIN stack[x] : stack[x][d].pc \in {"finish", "release"} =>
              d \in DOMAIN stack'[x] /\ stack'[x][d] = stack[x][d],
           ended' = ended, \A p \in Tasks : task'[p].succ = task[p].succ
    PROVE  \A p \in Tasks : \A s \in Seq(Tasks) : s # <<>> /\ Listed(p, s) => Listed(p, s)'
  <1> SUFFICES ASSUME NEW p \in Tasks, NEW s \in Seq(Tasks), Listed(p, s) PROVE Listed(p, s)'
    OBVIOUS
  <1>1. Waits(p) => Waits(p)'
    <2>1. ASSUME NEW x \in Executors, NEW d \in DOMAIN stack[x], stack[x][d].task = p, stack[x][d].pc = "finish"
          PROVE  Waits(p)'
      BY <2>1 DEF Waits
    <2> QED
      BY <2>1 DEF Waits
  <1>2. ASSUME NEW x \in Executors, NEW d \in DOMAIN stack[x], stack[x][d].task = p, stack[x][d].pc = "release",
               stack[x][d].todo = s
        PROVE  Listed(p, s)'
    BY <1>2 DEF Listed
  <1>3. CASE Waits(p) /\ s = task[p].succ
    BY <1>1, <1>3 DEF Listed
  <1> QED
    BY <1>2, <1>3 DEF Listed

\* What is counted and held where t is about to start, as mid says of the stacks.
Starting(mid, t) ==
    /\ mid \in [Executors -> Seq(FrameSet)] /\ HeadsIn(mid)
    /\ \A u \in Tasks : queue[u] = 1 \/ InSome(stack, u) <=> u = t \/ queue'[u] = 1 \/ InSome(mid, u)
    /\ \A u \in Tasks : InSome(stack, u) => u = t \/ InSome(mid, u)
    /\ \A u \in Tasks : queue[u] = 1 \/ HeldIn(stack, u) => u = t \/ queue'[u] = 1 \/ HeldIn(mid, u)
    /\ \A x \in Executors : \A d \in DOMAIN stack[x] : stack[x][d].pc \in {"finish", "release"} =>
          d \in DOMAIN mid[x] /\ mid[x][d] = stack[x][d]

\* kupl_task_invoke: a task that was counted and ready starts.
LEMMA TaskStartsFlow ==
    ASSUME IInv, IInv', CountInv, EdgeInv, NEW e \in Executors, NEW t \in Tasks, NEW mid, Starting(mid, t),
           Invoked(mid, e, t), begun[t] = 0, begun' = [begun EXCEPT ![t] = @ + 1],
           call.pc # "idle" => team # {Master}, ip' = ip \/ CallOver,
           prog' = prog, team' = team, call' = call, task' = task, entry' = entry, ended' = ended, count' = count
    PROVE  CountInv' /\ EdgeInv'
  <1>1. PICK g \in FrameSet : g = Frame(t, "func", <<>>)
    <2>1. Frame(t, "func", <<>>) \in FrameSet
      BY DEF Frame, FrameSet
    <2> QED
      BY <2>1
  <1>2. Pushed(mid, stack', e, g)
    BY <1>1, PushIs DEF Invoked, Starting
  <1>3. (\A u : InSome(stack', u) <=> u = t \/ InSome(mid, u)) /\ HeadsIn(stack')
    <2>1. /\ \A u : InSome(stack', u) <=> u = t \/ InSome(mid, u)
          /\ HeadsIn(mid) => HeadsIn(stack')
      BY <1>1, <1>2, SomePush
    <2> QED
      BY <2>1 DEF Starting
  <1>4. begun'[t] = 1 /\ \A u \in Tasks : u # t => begun'[u] = begun[u]
    BY DEF IInv, TypeOK
  <1>5. CountInv'
    <2>1. \A u \in Tasks : queue'[u] = 1 \/ InSome(stack', u) <=> queue[u] = 1 \/ InSome(stack, u)
      BY <1>3 DEF Starting
    <2>2. Active(queue, stack)' = Active(queue, stack)
      <3>1. Active(queue, stack)' = {u \in Tasks : queue'[u] = 1 \/ InSome(stack', u)}
        BY DEF Active
      <3> QED
        BY <2>1, <3>1 DEF Active
    <2>3. ASSUME NEW u \in Tasks, begun'[u] = 1, ended'[u] = 0 PROVE InSome(stack', u)
      <3>1. CASE u = t
        BY <3>1, <1>3
      <3>2. CASE u # t
        <4>1. InSome(stack, u)
          BY <2>3, <3>2, <1>4 DEF CountInv, Going
        <4> QED
          BY <3>2, <4>1, <1>3 DEF Starting
      <3> QED
        BY <3>1, <3>2
    <2> QED
      BY <2>2, <2>3, <1>3, CountSame
  <1>6. FlowKept
    BY DEF FlowKept
  <1>7. \A p \in Tasks : \A s \in Seq(Tasks) : s # <<>> /\ Listed(p, s) => Listed(p, s)'
    <2>1. ASSUME NEW x \in Executors, NEW d \in DOMAIN stack[x], stack[x][d].pc \in {"finish", "release"}
          PROVE  d \in DOMAIN stack'[x] /\ stack'[x][d] = stack[x][d]
      <3>1. d \in DOMAIN mid[x] /\ mid[x][d] = stack[x][d]
        BY <2>1 DEF Starting
      <3> QED
        BY <3>1, <1>2 DEF Pushed
    <2> QED
      BY <2>1, ListsStay
  <1>8. ASSUME NEW u \in Tasks, Loose(u) PROVE Loose(u)' \/ begun'[u] = 1
    <2>1. queue[u] = 1 \/ HeldIn(stack, u)
      BY <1>8, HeldIs DEF IInv
    <2>2. u = t \/ queue'[u] = 1 \/ HeldIn(mid, u)
      BY <2>1 DEF Starting
    <2>3. HeldIn(mid, u) => HeldIn(stack', u)
      BY <1>2, HeldPush
    <2>4. Loose(u)' <=> queue'[u] = 1 \/ HeldIn(stack', u)
      BY HeldAfter DEF IInv
    <2> QED
      BY <2>2, <2>3, <2>4, <1>4
  <1>9. \A u \in Tasks : begun[u] = 1 => begun'[u] = 1
    BY <1>4
  <1>10. EdgeInv'
    BY <1>6, <1>7, <1>8, <1>9, FlowSame
  <1> QED
    BY <1>5, <1>10

\* kupl_sched_execute_tb: a queued task starts.
LEMMA SchedExecuteTbFlow ==
    ASSUME IInv, IInv', CountInv, EdgeInv, NEW e \in Executors, NEW t \in Tasks, SchedExecuteTb(e, t),
           call.pc # "idle" => team # {Master}, ip' = ip \/ CallOver
    PROVE  CountInv' /\ EdgeInv'
  <1>1. queue[t] = 1 /\ begun[t] = 0
    <2>1. queue[t] = 1
      BY TaskTypes DEF SchedExecuteTb, IInv
    <2> QED
      BY <2>1, TaskTypes DEF IInv, Runs
  <1>2. queue'[t] = 0 /\ \A u \in Tasks : u # t => queue'[u] = queue[u]
    <2>1. queue' = [queue EXCEPT ![t] = @ - 1] /\ queue \in [Tasks -> {0, 1}]
      BY DEF SchedExecuteTb, IInv, TypeOK
    <2> QED
      BY <1>1, <2>1
  <1>3. /\ prog' = prog /\ team' = team /\ call' = call /\ task' = task /\ entry' = entry /\ ended' = ended
        /\ begun' = [begun EXCEPT ![t] = @ + 1] /\ count' = count
    BY DEF SchedExecuteTb, program, dagVars
  <1>4. Invoked(stack, e, t)
    BY DEF SchedExecuteTb, Invoked
  <1>5. Starting(stack, t)
    BY <1>1, <1>2 DEF Starting, CountInv, HeadsCounted, IInv, TypeOK
  <1> QED
    BY <1>1, <1>3, <1>4, <1>5, TaskStartsFlow

\* kupl_sched_add_tb: the task at the head of the list is queued, or starts.
LEMMA SchedAddTbPushFlow ==
    ASSUME IInv, IInv', CountInv, EdgeInv, NEW e \in Executors, SchedAddTbPush(e)
    PROVE  CountInv' /\ EdgeInv'
  <1>1. stack[e] # <<>> /\ Top(e).todo # <<>> /\ Top(e).pc \in {"main", "body", "add"} /\ Top(e).counted
    BY DEF SchedAddTbPush, Adding, At
  <1>2. PICK h \in FrameSet : /\ h = stack[e][Len(stack[e])] /\ h = Top(e) /\ h.pc \in {"main", "add"} /\ h.counted
                              /\ h.todo \in Seq(Tasks) /\ h.todo # <<>> /\ Len(stack[e]) \in DOMAIN stack[e]
                              /\ Len(stack[e]) \in Nat
    BY <1>1, Tops DEF IInv, FrameSet
  <1>3. PICK t \in Tasks : t = Head(h.todo)
    BY <1>2
  <1>4. PICK r \in Seq(Tasks) : r = Tail(h.todo)
    <2>1. Tail(h.todo) \in Seq(Tasks)
      BY <1>2
    <2> QED
      BY <2>1
  <1>5. PICK f \in FrameSet : /\ f = [h EXCEPT !.todo = r, !.counted = FALSE]
                              /\ f.task = h.task /\ f.pc = h.pc /\ f.todo = r /\ ~f.counted
    <2>1. PICK f : f = [h EXCEPT !.todo = r, !.counted = FALSE]
      OBVIOUS
    <2>2. f \in FrameSet /\ f.task = h.task /\ f.pc = h.pc /\ f.todo = r /\ ~f.counted
      BY <1>2, <2>1 DEF FrameSet
    <2> QED
      BY <2>1, <2>2
  <1>6. PICK mid : mid = [stack EXCEPT ![e][Len(stack[e])] = f]
    OBVIOUS
  <1>7. /\ prog' = prog /\ team' = team /\ ip' = ip /\ call' = call /\ task' = task /\ entry' = entry
        /\ ended' = ended /\ count' = count
        /\ \/ queue' = [queue EXCEPT ![t] = @ + 1] /\ begun' = begun /\ stack' = mid
           \/ /\ queue' = queue /\ begun' = [begun EXCEPT ![t] = @ + 1]
              /\ stack' = [stack EXCEPT ![e] = [@ EXCEPT ![Len(@)] = f] \o <<Frame(t, "func", <<>>)>>]
    BY <1>2, <1>3, <1>4, <1>5, <1>6 DEF SchedAddTbPush, SetTop, Invoke, program, dagVars
  <1>8. TopSet(stack, mid, e, f)
    BY <1>1, <1>6, SetTopIs DEF IInv
  <1>9. queue[t] = 0 /\ begun[t] = 0
    <2>1. Hold(h) = h.todo /\ 1 \in DOMAIN h.todo /\ h.todo[1] = t
      BY <1>2, <1>3 DEF Hold
    <2>2. Place(stack, t, e, Len(stack[e]), 1)
      BY <1>2, <2>1 DEF Place
    <2>3. queue[t] = 0 /\ begun[t] # 1
      BY <1>2, <2>2 DEF IInv, Runs
    <2> QED
      BY <2>3, TaskTypes DEF IInv
  <1>10. /\ \A u : InSome(stack, u) <=> u \in CountedBy(h) \/ Else(stack, e, u)
         /\ \A u : InSome(mid, u) <=> u \in CountedBy(f) \/ Else(stack, e, u)
    BY <1>2, <1>8, SomeTop
  <1>11. HeadsIn(mid)
    <2>1. HeadsIn(stack) /\ (f.counted => f.pc \in {"main", "add"} /\ f.todo # <<>>)
      BY <1>5 DEF CountInv, HeadsCounted
    <2> QED
      BY <1>8, <2>1 DEF HeadsIn, TopSet
  <1>12. \A u : u \in CountedBy(h) <=> u \in CountedBy(f) \/ u = t
    BY <1>2, <1>3, <1>5 DEF CountedBy
  <1>13. \A u : InSome(stack, u) <=> u = t \/ InSome(mid, u)
    BY <1>10, <1>12
  <1>14. ASSUME NEW u, HeldIn(stack, u) PROVE u = t \/ HeldIn(mid, u)
    <2>1. Hold(h) = h.todo /\ Hold(f) = r
      BY <1>2, <1>5 DEF Hold
    <2>2. u \in Elems(Hold(h)) => u = t \/ u \in Elems(Hold(f))
      <3>1. \A y \in Elems(h.todo) : y = Head(h.todo) \/ y \in Elems(Tail(h.todo))
        BY <1>2, Members
      <3> QED
        BY <2>1, <3>1, <1>3, <1>4
    <2>3. /\ HeldIn(stack, u) => HeldIn(mid, u) \/ u \in Elems(Hold(h))
          /\ u \in Elems(Hold(f)) => HeldIn(mid, u)
      BY <1>2, <1>8, HeldTop
    <2> QED
      BY <1>14, <2>2, <2>3
  <1>15. \A x \in Executors : \A d \in DOMAIN stack[x] : stack[x][d].pc \in {"finish", "release"} =>
            d \in DOMAIN mid[x] /\ mid[x][d] = stack[x][d]
    BY <1>2, <1>8 DEF TopSet
  <1>16. call.pc # "idle" => team # {Master}
    BY <1>1, Outside
  <1>17. ASSUME queue' = [queue EXCEPT ![t] = @ + 1], begun' = begun, stack' = mid PROVE CountInv' /\ EdgeInv'
    <2>1. queue'[t] = 1 /\ \A u \in Tasks : u # t => queue'[u] = queue[u]
      BY <1>9, <1>17 DEF IInv, TypeOK
    <2>2. ASSUME NEW u \in Tasks
          PROVE  queue'[u] = 1 \/ InSome(stack', u) <=> queue[u] = 1 \/ InSome(stack, u)
      BY <2>1, <1>13, <1>17
    <2>3. Active(queue, stack)' = Active(queue, stack)
      <3>1. Active(queue, stack)' = {u \in Tasks : queue'[u] = 1 \/ InSome(stack', u)}
        BY DEF Active
      <3> QED
        BY <2>2, <3>1 DEF Active
    <2>4. \A u \in Tasks : begun'[u] = 1 /\ ended'[u] = 0 => InSome(stack', u)
      <3>1. \A u \in Tasks : begun[u] = 1 /\ ended[u] = 0 => InSome(stack, u)
        BY DEF CountInv, Going
      <3> QED
        BY <3>1, <1>7, <1>9, <1>13, <1>17
    <2>5. CountInv'
      BY <2>3, <2>4, <1>7, <1>11, <1>17, CountSame
    <2>6. FlowKept
      BY <1>7, <1>16 DEF FlowKept
    <2>7. \A p \in Tasks : \A s \in Seq(Tasks) : s # <<>> /\ Listed(p, s) => Listed(p, s)'
      BY <1>7, <1>15, <1>17, ListsStay
    <2>8. ASSUME NEW u \in Tasks, Loose(u) PROVE Loose(u)'
      <3>1. queue[u] = 1 \/ HeldIn(stack, u)
        BY <2>8, HeldIs DEF IInv
      <3>2. Loose(u)' <=> queue'[u] = 1 \/ HeldIn(stack', u)
        BY HeldAfter DEF IInv
      <3> QED
        BY <3>1, <3>2, <2>1, <1>14, <1>17
    <2>9. EdgeInv'
      BY <2>6, <2>7, <2>8, <1>7, <1>17, FlowSame
    <2> QED
      BY <2>5, <2>9
  <1>18. ASSUME queue' = queue, begun' = [begun EXCEPT ![t] = @ + 1],
                stack' = [stack EXCEPT ![e] = [@ EXCEPT ![Len(@)] = f] \o <<Frame(t, "func", <<>>)>>]
         PROVE  CountInv' /\ EdgeInv'
    <2>1. Invoked(mid, e, t)
      <3>0. stack \in [Executors -> Seq(FrameSet)]
        BY DEF IInv, TypeOK
      <3>1. mid[e] = [stack[e] EXCEPT ![Len(stack[e])] = f]
        BY <3>0, <1>6
      <3>2. mid = [stack EXCEPT ![e] = mid[e]]
        BY <3>0, <1>6, <3>1
      <3> QED
        BY <3>0, <1>18, <3>1, <3>2 DEF Invoked
    <2>2. Starting(mid, t)
      <3>1. mid \in [Executors -> Seq(FrameSet)]
        BY <1>8 DEF TopSet
      <3>2. ASSUME NEW u \in Tasks
            PROVE  queue[u] = 1 \/ HeldIn(stack, u) => u = t \/ queue'[u] = 1 \/ HeldIn(mid, u)
        BY <1>14, <1>18
      <3>3. \A u \in Tasks : queue[u] = 1 \/ InSome(stack, u) <=> u = t \/ queue'[u] = 1 \/ InSome(mid, u)
        BY <1>13, <1>18
      <3>4. \A u \in Tasks : InSome(stack, u) => u = t \/ InSome(mid, u)
        BY <1>13
      <3> QED
        BY <3>1, <3>2, <3>3, <3>4, <1>11, <1>15 DEF Starting
    <2> QED
      BY <2>1, <2>2, <1>7, <1>9, <1>16, <1>18, TaskStartsFlow
  <1> QED
    BY <1>7, <1>17, <1>18

\* A step of an executor.
LEMMA ExecutorFlow ==
    ASSUME IInv, IInv', CountInv, EdgeInv, NEW e \in Executors, ExecutorStep(e)
    PROVE  CountInv' /\ EdgeInv'
  <1>1. stack[e] # <<>> => e \in team /\ Top(e) \in FrameSet
    BY Tops DEF IInv, FrameShape, Shape
  <1>2. ~At(e, "body")
    BY <1>1 DEF At, FrameSet
  <1>3. ASSUME stack[e] # <<>>, Top(e).pc \in {"func", "finish"} PROVE Kind[Top(e).task] = "dynamic"
    BY <1>3, FrameTask
  <1>4. ~SgraphTaskBody(e) /\ ~TaskFinishStatic(e)
    BY <1>3 DEF SgraphTaskBody, TaskFinishStatic, At
  <1>5. ASSUME ExecutorPoll(e) PROVE CountInv' /\ EdgeInv'
    <2>1. PICK t \in Tasks : SchedExecuteTb(e, t)
      BY <1>5 DEF ExecutorPoll
    <2>2. ip' = ip
      BY <1>5 DEF ExecutorPoll
    <2>3. \/ e \in team \ {Master}
          \/ e = Master /\ call.pc = "idle"
      BY <1>2, <1>5 DEF ExecutorPoll, Polling, AtCall
    <2>4. call.pc # "idle" => team # {Master}
      BY <2>3
    <2> QED
      BY <2>1, <2>2, <2>4, SchedExecuteTbFlow
  <1>6. ASSUME GnodeReleaseReady(e) PROVE CountInv' /\ EdgeInv'
    BY <1>6, ReleaseDoneFlow, ReleaseOneFlow
  <1> QED
    BY <1>4, <1>5, <1>6, SchedAddTbCountFlow, SchedAddTbPushFlow, TaskExecuteFlow, TaskFinishDynamicFlow,
       TaskCountSubFlow, TaskDerefFlow DEF ExecutorStep

-----------------------------------------------------------------------------
(* What Master keeps of what holds a task back *)

\* Master counts no task while it makes edges.
LEMMA MasterCount ==
    ASSUME IInv, CountInv, prog' = prog, count' = count, queue' = queue, stack' = stack, begun' = begun, ended' = ended
    PROVE  CountInv'
  <1>1. Active(queue, stack)' = Active(queue, stack)
    BY DEF Active
  <1>2. HeadsIn(stack')
    BY DEF CountInv, HeadsCounted
  <1>3. \A t \in Tasks : begun'[t] = 1 /\ ended'[t] = 0 => InSome(stack', t)
    BY DEF CountInv, Going
  <1> QED
    BY <1>1, <1>2, <1>3, CountSame

\* What an edge that is about to be made may do to the task being submitted.
LateEdge(pc) == team # {Master} /\ pc \in {"insert", "count"} => MayBeLost(call.task)

\* Master works on the hash, the references and the locks.
LEMMA CallFlow ==
    ASSUME IInv, IInv', EdgeInv, MasterKept, call.pc # "count", call'.pc # "count",
           \A t \in Tasks : /\ task'[t].nPred = task[t].nPred /\ task'[t].nHard = task[t].nHard
                            /\ task'[t].succ = task[t].succ \/ task'[t].succ = <<>>,
           \A p \in Tasks : \A s \in Seq(Tasks) : s # <<>> /\ Listed(p, s) => Listed(p, s)',
           Building => LateEdge(call'.pc), ReadersAsked', OpsOrdered'
    PROVE  EdgeInv'
  <1>1. /\ prog' = prog /\ team' = team /\ stack' = stack /\ queue' = queue /\ begun' = begun /\ ended' = ended
        /\ ip' = ip /\ call.pc # "idle" /\ call'.pc # "idle" /\ call'.task = call.task
    BY DEF MasterKept
  <1>2. /\ \A u, t : MustPrecede(u, t) <=> MustPrecede(u, t)'
        /\ \A t : (Old(t) <=> Old(t)') /\ (Loose(t) <=> Loose(t)')
        /\ Building <=> Building'
    BY <1>1, SubmissionSame
  <1>3. \A t : MayBeLost(t) <=> MayBeLost(t)'
    BY <1>1, LostFixed
  <1>4. ASSUME team' = {Master}, NEW t \in Tasks
        PROVE  task'[t].nPred + Uncounted(t)' <= Cardinality(Pend(t)')
    <2>1. task[t].nPred + Uncounted(t) <= Cardinality(Pend(t))
      BY <1>1, <1>4 DEF EdgeInv, Exact
    <2>2. Uncounted(t)' = 0 /\ Uncounted(t) = 0
      BY DEF Uncounted
    <2>3. IsFiniteSet(Pend(t)') /\ IsFiniteSet(Pend(t))
      BY DEF IInv, Counts
    <2>4. Pend(t) \subseteq Pend(t)'
      BY PendKept
    <2>5. Cardinality(Pend(t)) <= Cardinality(Pend(t)') /\ Cardinality(Pend(t)) \in Nat /\ Cardinality(Pend(t)') \in Nat
      BY <2>3, <2>4, FS_Subset, FS_CardinalityType
    <2>6. task[t].nPred \in Nat
      BY TaskTypes DEF IInv
    <2>7. task'[t].nPred = task[t].nPred
      OBVIOUS
    <2> QED
      BY <2>1, <2>2, <2>5, <2>6, <2>7
  <1>5. Exact'
    BY <1>4 DEF Exact
  <1>6. AloneEven'
    <2> SUFFICES ASSUME Building, team = {Master} PROVE task'[call.task].nPred = task'[call.task].nHard
      BY <1>1, <1>2 DEF AloneEven
    <2>1. call.task \in Tasks
      BY <1>1, Submitted
    <2>2. task[call.task].nPred = task[call.task].nHard
      BY DEF EdgeInv, AloneEven
    <2> QED
      BY <2>1, <2>2
  <1>7. Pristine'
    <2>1. ASSUME team # {Master}, Building, call'.pc \in {"insert", "count"} PROVE MayBeLost(call.task)
      BY <2>1 DEF LateEdge
    <2>2. ASSUME team # {Master}, NEW t \in Tasks PROVE MayBeLost(t) \/ task'[t].nHard = 0
      <3>1. MayBeLost(t) \/ task[t].nHard = 0
        BY <2>2 DEF EdgeInv, Pristine
      <3>2. task'[t].nHard = task[t].nHard
        OBVIOUS
      <3> QED
        BY <3>1, <3>2
    <2> QED
      BY <1>1, <1>2, <1>3, <2>1, <2>2 DEF Pristine
  <1>8. EdgesOrdered'
    <2> SUFFICES ASSUME NEW p \in Tasks, NEW t \in Elems(task'[p].succ) PROVE MustPrecede(p, t)
      BY <1>2 DEF EdgesOrdered
    <2>1. Elems(<<>>) = {}
      BY DEF Elems
    <2>2. t \in Elems(task[p].succ)
      BY <2>1
    <2> QED
      BY <2>2 DEF EdgeInv, EdgesOrdered
  <1>9. NotLost'
    <2> SUFFICES ASSUME NEW t \in Tasks, Old(t), begun[t] = 0
                 PROVE  MayBeLost(t) \/ Loose(t) \/ task'[t].nPred > 0
      BY <1>1, <1>2, <1>3 DEF NotLost
    <2>1. MayBeLost(t) \/ Loose(t) \/ task[t].nPred > 0
      BY DEF EdgeInv, NotLost
    <2>2. task'[t].nPred = task[t].nPred
      OBVIOUS
    <2> QED
      BY <2>1, <2>2
  <1> QED
    BY <1>5, <1>6, <1>7, <1>8, <1>9 DEF EdgeInv

\* Where the hash is the same its readers are.
LEMMA ReadersSame ==
    ASSUME IInv, EdgeInv, MasterKept, entry' = entry
    PROVE  ReadersAsked'
  <1>1. /\ prog' = prog /\ stack' = stack /\ queue' = queue /\ ended' = ended
        /\ ip' = ip /\ call.pc # "idle" /\ call'.pc # "idle"
    BY DEF MasterKept
  <1>2. \A i : Made(i) <=> Made(i)'
    BY <1>1, SubmissionSame
  <1> QED
    BY <1>1, <1>2 DEF EdgeInv, ReadersAsked

\* What Master has still to do is part of what it had.
LEMMA OpsFewer ==
    ASSUME IInv, EdgeInv, MasterKept, Elems(call'.ops) \subseteq Elems(call.ops)
    PROVE  OpsOrdered'
  <1>1. /\ prog' = prog /\ stack' = stack /\ queue' = queue /\ ended' = ended
        /\ ip' = ip /\ call.pc # "idle" /\ call'.pc # "idle" /\ call'.task = call.task
    BY DEF MasterKept
  <1>2. /\ \A u, t : MustPrecede(u, t) <=> MustPrecede(u, t)'
        /\ Building <=> Building'
    BY <1>1, SubmissionSame
  <1> QED
    BY <1>1, <1>2 DEF EdgeInv, OpsOrdered

\* The lists stay where the successors do.
LEMMA ListsMaster ==
    ASSUME stack' = stack, ended' = ended,
           \A p \in Tasks : task'[p].succ = task[p].succ \/ (task'[p].succ = <<>> /\ ~Waits(p))
    PROVE  \A p \in Tasks : \A s \in Seq(Tasks) : s # <<>> /\ Listed(p, s) => Listed(p, s)'
  <1>1. \A p : Waits(p) <=> Waits(p)'
    BY DEF Waits
  <1> QED
    BY <1>1 DEF Listed

\* Master is done with an operation that makes no edge.
LEMMA PopFlow ==
    ASSUME IInv, IInv', EdgeInv, call.pc = "deps", call.ops # <<>>, call' = PopOp,
           NEW o, o = OpTask, NEW r \in TaskSet, r.finished = task[o].finished, r.nPred = task[o].nPred,
           r.nHard = task[o].nHard, r.succ = task[o].succ \/ (r.succ = <<>> /\ ~Waits(o)),
           task' = [task EXCEPT ![o] = r],
           prog' = prog, team' = team, ip' = ip, entry' = entry, queue' = queue, stack' = stack,
           begun' = begun, ended' = ended
    PROVE  EdgeInv'
  <1>1. o \in Tasks /\ Known(o)
    BY OpTaskType DEF IInv
  <1>2. /\ call'.pc = "deps" /\ call'.task = call.task
        /\ Elems(call'.ops) \subseteq Elems(call.ops)
    BY PopOpIs DEF IInv
  <1>3. task \in [Tasks -> TaskSet]
    BY DEF IInv, TypeOK
  <1>4. \A t \in Tasks : /\ task'[t].finished = task[t].finished /\ task'[t].nHard = task[t].nHard
                         /\ task'[t].nPred = task[t].nPred
                         /\ task'[t].succ = task[t].succ \/ (task'[t].succ = <<>> /\ ~Waits(t))
                         /\ t # o => task'[t] = task[t]
    BY <1>1, <1>3
  <1>5. \A t \in Tasks : task'[t].nHard >= task[t].nHard
    <2>1. \A t \in Tasks : task[t].nHard \in Nat
      BY TaskTypes DEF IInv
    <2> QED
      BY <1>4, <2>1
  <1>6. MasterKept
    BY <1>1, <1>2, <1>4, <1>5 DEF MasterKept
  <1>7. \A p \in Tasks : \A s \in Seq(Tasks) : s # <<>> /\ Listed(p, s) => Listed(p, s)'
    BY <1>4, ListsMaster
  <1>8. ReadersAsked' /\ OpsOrdered'
    BY <1>2, <1>6, ReadersSame, OpsFewer
  <1>9. LateEdge(call'.pc)
    BY <1>2 DEF LateEdge
  <1> QED
    BY <1>2, <1>4, <1>6, <1>7, <1>8, <1>9, CallFlow

\* kupl_gnode_ref.
LEMMA GnodeRefFlow == ASSUME IInv, IInv', CountInv, EdgeInv, GnodeRef PROVE CountInv' /\ EdgeInv'
  <1>1. /\ call.pc = "deps" /\ call.ops # <<>> /\ call' = PopOp
        /\ task' = [task EXCEPT ![OpTask].ref = @ + 1]
        /\ prog' = prog /\ team' = team /\ ip' = ip /\ entry' = entry /\ queue' = queue /\ stack' = stack
        /\ begun' = begun /\ ended' = ended /\ count' = count
    BY DEF GnodeRef, NextOp, program, dagVars, schedVars, history
  <1>2. PICK o \in Tasks : o = OpTask
    BY <1>1, OpTaskType DEF IInv
  <1>3. task[o] \in TaskSet /\ task \in [Tasks -> TaskSet]
    BY DEF IInv, TypeOK
  <1>4. PICK n \in Int : n = task[o].ref + 1
    BY <1>3 DEF TaskSet
  <1>5. PICK r : r = [task[o] EXCEPT !.ref = n]
    OBVIOUS
  <1>6. r \in TaskSet /\ r.finished = task[o].finished /\ r.nPred = task[o].nPred /\ r.nHard = task[o].nHard /\ r.succ = task[o].succ
    BY <1>3, <1>5 DEF TaskSet
  <1>7. task' = [task EXCEPT ![o] = r]
    BY <1>1, <1>2, <1>4, <1>5
  <1>8. EdgeInv'
    BY <1>1, <1>2, <1>6, <1>7, PopFlow, ZenonT(60)
  <1> QED
    BY <1>1, <1>8, MasterCount

\* The last reference is not dropped before the list of successors is taken.
LEMMA LastDeref ==
    ASSUME IInv, RefInv, call.pc = "deps", call.ops # <<>>, Head(call.ops).do = "deref", NEW o, o = OpTask, task[o].ref = 1
    PROVE  ~Waits(o)
  <1>1. o \in Tasks /\ Known(o) /\ Head(call.ops) \in OpSet /\ Head(call.ops).of = o /\ Head(call.ops) \in Elems(call.ops)
        /\ call.ops \in Seq(OpSet)
    BY OpTaskType DEF IInv
  <1>2. /\ Own(o) \in {0, 1} /\ HashRefs(entry, o) \in Nat
        /\ Pending("ref", o) \in Nat /\ Pending("deref", o) \in Nat
        /\ 1 + Pending("ref", o) = Own(o) + HashRefs(entry, o) + Pending("deref", o)
    BY <1>1, Backing
  <1>3. Pending("deref", o) # 0
    <2>1. Op("deref", o) = Head(call.ops)
      BY <1>1 DEF Op, OpSet
    <2> QED
      BY <1>1, <2>1, OccType DEF Pending
  <1>4. Pending("ref", o) = 0 \/ Pending("ref", o) <= HashRefs(entry, o)
    <2>1. CASE o # call.task
      BY <2>1, <1>1, <1>2 DEF RefInv, Backed
    <2>2. CASE o = call.task
      <3>1. Building
        BY <2>2, <1>1, TasksAssumption DEF IInv, CallShape, Building
      <3> QED
        BY <2>2, <3>1, <1>2 DEF RefInv, Backed
    <2> QED
      BY <2>1, <2>2
  <1>5. Own(o) = 0
    BY <1>2, <1>3, <1>4
  <1>6. ended[o] # 0 /\ ~Running(o)
    BY <1>5 DEF Own
  <1>7. ~RunIn(stack, o)
    BY <1>6, RunningIs
  <1> QED
    BY <1>6, <1>7 DEF Waits, RunIn

\* kupl_gnode_deref.
LEMMA GnodeDerefFlow == ASSUME IInv, IInv', RefInv, CountInv, EdgeInv, GnodeDeref PROVE CountInv' /\ EdgeInv'
  <1>1. /\ call.pc = "deps" /\ call.ops # <<>> /\ Head(call.ops).do = "deref" /\ call' = PopOp
        /\ task' = [task EXCEPT ![OpTask] = Deref(@)]
        /\ prog' = prog /\ team' = team /\ ip' = ip /\ entry' = entry /\ queue' = queue /\ stack' = stack
        /\ begun' = begun /\ ended' = ended /\ count' = count
    BY DEF GnodeDeref, NextOp, program, dagVars, schedVars, history
  <1>2. PICK o \in Tasks : o = OpTask
    BY <1>1, OpTaskType DEF IInv
  <1>3. task[o] \in TaskSet
    BY DEF IInv, TypeOK
  <1>4. PICK r \in TaskSet : r = Deref(task[o])
    BY <1>3, DerefIs
  <1>5. r.finished = task[o].finished /\ r.nPred = task[o].nPred /\ r.nHard = task[o].nHard /\ (r.succ = task[o].succ \/ r.succ = <<>>)
    BY <1>3, <1>4, DerefIs
  <1>6. r.succ = task[o].succ \/ (r.succ = <<>> /\ ~Waits(o))
    <2>1. CASE task[o].ref = 1
      BY <2>1, <1>1, <1>2, <1>5, LastDeref
    <2>2. CASE task[o].ref # 1
      BY <2>2, <1>3, <1>4 DEF Deref, TaskSet
    <2> QED
      BY <2>1, <2>2
  <1>7. task' = [task EXCEPT ![o] = r]
    BY <1>1, <1>2, <1>4
  <1>8. EdgeInv'
    BY <1>1, <1>2, <1>5, <1>6, <1>7, PopFlow, ZenonT(60)
  <1> QED
    BY <1>1, <1>8, MasterCount

\* kupl_gnode_precede of a task that is finished: no edge.
LEMMA PrecedeFinishedFlow ==
    ASSUME IInv, IInv', CountInv, EdgeInv, GnodePrecedeLock, task[OpTask].finished
    PROVE  CountInv' /\ EdgeInv'
  <1>1. /\ call.pc = "deps" /\ call.ops # <<>> /\ call' = PopOp /\ task' = task
        /\ prog' = prog /\ team' = team /\ ip' = ip /\ entry' = entry /\ queue' = queue /\ stack' = stack
        /\ begun' = begun /\ ended' = ended /\ count' = count
    BY DEF GnodePrecedeLock, NextOp, program, dagVars, schedVars, history
  <1>2. PICK o \in Tasks : o = OpTask
    BY <1>1, OpTaskType DEF IInv
  <1>3. task \in [Tasks -> TaskSet]
    BY DEF IInv, TypeOK
  <1>4. PICK r \in TaskSet : r = task[o]
    BY <1>3
  <1>5. task' = [task EXCEPT ![o] = r]
    BY <1>1, <1>3, <1>4
  <1>6. r.finished = task[o].finished /\ r.nPred = task[o].nPred /\ r.nHard = task[o].nHard /\ r.succ = task[o].succ
    BY <1>4
  <1>7. EdgeInv'
    BY <1>1, <1>2, <1>5, <1>6, PopFlow, ZenonT(60)
  <1> QED
    BY <1>1, <1>7, MasterCount

\* An edge from a task that has not returned, made while others run: no wait came
\* between, or one that the predecessor may be lost to, so the task may be lost.
LEMMA EdgeMayLose ==
    ASSUME IInv, EdgeInv, Waited, call.pc = "deps", call.ops # <<>>, Head(call.ops).do = "precede",
           NEW o, o = OpTask, ended[o] = 0, team # {Master}
    PROVE  MayBeLost(call.task)
  <1>1. PICK c \in Tasks : c = call.task /\ Building /\ AddAt(ip, c) /\ ip \in DOMAIN prog /\ ip \in Nat
    BY EdgeOfSubmission, Submitted
  <1>2. MustPrecede(o, c)
    <2>1. Head(call.ops) \in Elems(call.ops) /\ Head(call.ops).of = o
      BY OpTaskType DEF IInv
    <2> QED
      BY <1>1, <2>1 DEF EdgeInv, OpsOrdered
  <1>3. PICK i \in DOMAIN prog : i < ip /\ AddAt(i, o) /\ Conflict(prog[i].deps, prog[ip].deps)
    BY <1>1, <1>2, Precedence DEF IInv
  <1>4. i \in Nat /\ Adds(i) /\ prog[i].task = o /\ prog[i].op = "add_task" /\ prog[ip].op = "add_task" /\ prog[ip].task = c
        /\ DOMAIN prog = 1 .. Len(prog) /\ Len(prog) \in Nat
    BY <1>1, <1>3, Submissions DEF AddAt, Adds, IInv
  <1>5. CASE \E k \in i .. ip : prog[k].op = "wait"
    <2>1. PICK k \in i .. ip : prog[k].op = "wait"
      BY <1>5
    <2>2. k # i /\ k # ip
      BY <2>1, <1>4
    <2>3. i < k /\ k < ip /\ k \in DOMAIN prog
      BY <2>2, <1>1, <1>3, <1>4
    <2>4. MayBeLost(o)
      BY <2>1, <2>3, <1>3, <1>4 DEF Waited
    <2> QED
      BY <2>4, <1>1, <1>2, LostFacts
  <1>6. CASE \A k \in i .. ip : prog[k].op # "wait"
    <2>1. EdgeRaces(c)
      BY <1>1, <1>3, <1>4, <1>6 DEF EdgeRaces
    <2> QED
      BY <2>1, <1>1, LostFacts
  <1> QED
    BY <1>5, <1>6

\* kupl_gnode_precede locks the predecessor.
LEMMA PrecedeLocksFlow ==
    ASSUME IInv, IInv', CountInv, EdgeInv, Waited, GnodePrecedeLock, ~task[OpTask].finished
    PROVE  CountInv' /\ EdgeInv'
  <1>1. /\ call.pc = "deps" /\ call.ops # <<>> /\ Head(call.ops).do = "precede"
        /\ call' = [call EXCEPT !.pc = "insert"]
        /\ task' = [task EXCEPT ![OpTask].locked = TRUE]
        /\ prog' = prog /\ team' = team /\ ip' = ip /\ entry' = entry /\ queue' = queue /\ stack' = stack
        /\ begun' = begun /\ ended' = ended /\ count' = count
    BY DEF GnodePrecedeLock, NextOp, program, dagVars, schedVars, history
  <1>2. PICK o \in Tasks : o = OpTask /\ Known(o)
    BY <1>1, OpTaskType DEF IInv
  <1>3. PICK k : k = [call EXCEPT !.pc = "insert"]
    OBVIOUS
  <1>4. k.pc = "insert" /\ k.task = call.task /\ k.ops = call.ops
    BY <1>3 DEF IInv, TypeOK, CallSet
  <1>5. call'.pc = "insert" /\ call'.task = call.task /\ call'.ops = call.ops
    BY <1>1, <1>3, <1>4
  <1>6. task \in [Tasks -> TaskSet]
    BY DEF IInv, TypeOK
  <1>7. PICK r : r = [task[o] EXCEPT !.locked = TRUE]
    OBVIOUS
  <1>8. /\ r.finished = task[o].finished /\ r.nPred = task[o].nPred /\ r.nHard = task[o].nHard
        /\ r.succ = task[o].succ
    BY <1>6, <1>7 DEF TaskSet
  <1>9. task' = [task EXCEPT ![o] = r]
    BY <1>1, <1>2, <1>7
  <1>10. \A t \in Tasks : /\ task'[t].finished = task[t].finished /\ task'[t].nHard = task[t].nHard
                          /\ task'[t].nPred = task[t].nPred /\ task'[t].succ = task[t].succ
                          /\ t # o => task'[t] = task[t]
    BY <1>6, <1>8, <1>9
  <1>11. MasterKept
    <2>1. \A t \in Tasks : task[t].nHard \in Nat
      BY TaskTypes DEF IInv
    <2> QED
      BY <2>1, <1>1, <1>2, <1>5, <1>10 DEF MasterKept
  <1>12. \A p \in Tasks : \A s \in Seq(Tasks) : s # <<>> /\ Listed(p, s) => Listed(p, s)'
    BY <1>1, <1>10, ListsMaster
  <1>13. ReadersAsked' /\ OpsOrdered'
    BY <1>1, <1>5, <1>11, ReadersSame, OpsFewer
  <1>14. LateEdge(call'.pc)
    <2>1. ended[o] = 0
      BY <1>2, TaskTypes DEF IInv, Runs
    <2> QED
      BY <2>1, <1>1, <1>2, EdgeMayLose DEF LateEdge
  <1>15. EdgeInv'
    BY <1>1, <1>5, <1>10, <1>11, <1>12, <1>13, <1>14, CallFlow
  <1> QED
    BY <1>1, <1>15, MasterCount

-----------------------------------------------------------------------------
(* What Master keeps while it works on the hash *)

\* r asked for address a
Asked(r, a) == \E i \in DOMAIN prog : Made(i) /\ prog[i].task = r /\ \E x \in Elems(prog[i].deps) : x.addr = a

\* Master works on the hash: the edges it is to make are in order, the readers asked.
LEMMA HashFlow ==
    ASSUME IInv, IInv', CountInv, EdgeInv, call.pc = "deps", call'.pc = "deps", call'.task = call.task,
           task' = task, prog' = prog, team' = team, ip' = ip, count' = count, queue' = queue, stack' = stack,
           begun' = begun, ended' = ended,
           Building => \A o \in Elems(call'.ops) : o.do = "precede" => MustPrecede(o.of, call.task),
           \A a \in DOMAIN entry' : \A r \in Elems(entry'[a].in) : Asked(r, a)
    PROVE  CountInv' /\ EdgeInv'
  <1>1. /\ \A i : Made(i) <=> Made(i)'
        /\ \A u, t : MustPrecede(u, t) <=> MustPrecede(u, t)'
        /\ Building <=> Building'
    BY SubmissionSame
  <1>2. ReadersAsked'
    BY <1>1 DEF ReadersAsked, Asked
  <1>3. OpsOrdered'
    BY <1>1 DEF OpsOrdered
  <1>4. MasterKept
    <2>1. \A t \in Tasks : task[t].nHard \in Nat
      BY TaskTypes DEF IInv
    <2> QED
      BY <2>1 DEF MasterKept
  <1>5. \A p \in Tasks : \A s \in Seq(Tasks) : s # <<>> /\ Listed(p, s) => Listed(p, s)'
    BY ListsMaster
  <1>6. LateEdge(call'.pc)
    BY DEF LateEdge
  <1>7. EdgeInv'
    BY <1>2, <1>3, <1>4, <1>5, <1>6, CallFlow
  <1> QED
    BY <1>7, MasterCount

\* What an entry leads to comes before the task being submitted.
LEMMA HashOrder ==
    ASSUME IInv, NEW c \in Tasks, AddAt(ip, c), NEW h, HoldsIn(h), NEW b \in DOMAIN h, NEW u, u # c,
           \/ u = h[b].out /\ u # None /\ (Writes(ip, b) \/ \E x \in Elems(prog[ip].deps) : x.addr = b)
           \/ Asked(u, b) /\ Writes(ip, b)
    PROVE  MustPrecede(u, c)
  <1>1. ip \in DOMAIN prog /\ prog[ip].task = c
    BY DEF AddAt, Adds
  <1>2. CASE u = h[b].out /\ u # None /\ (Writes(ip, b) \/ \E x \in Elems(prog[ip].deps) : x.addr = b)
    <2>1. PICK i \in DOMAIN prog : Made(i) /\ prog[i].task = u /\ Writes(i, b)
      BY <1>2 DEF HoldsIn
    <2>2. i < ip /\ AddAt(i, u)
      BY <1>1, <2>1 DEF Made, AddAt
    <2>3. AllAt(i) \/ \E x \in Elems(prog[i].deps) : x.addr = b
      BY <2>1 DEF Writes
    <2> QED
      BY <1>2, <2>1, <2>2, <2>3, AddrOrder DEF IInv
  <1>3. CASE Asked(u, b) /\ Writes(ip, b)
    <2>1. PICK i \in DOMAIN prog : Made(i) /\ prog[i].task = u /\ \E x \in Elems(prog[i].deps) : x.addr = b
      BY <1>3 DEF Asked
    <2>2. i < ip /\ AddAt(i, u)
      BY <1>1, <2>1 DEF Made, AddAt
    <2> QED
      BY <1>3, <2>1, <2>2, AddrOrder DEF IInv
  <1> QED
    BY <1>2, <1>3

\* node_process_dep_out, and kupl_addr_entry_destroy, on one entry.
LEMMA NodeProcessDepOutFlow ==
    ASSUME IInv, IInv', RefInv, CountInv, EdgeInv, NEW a, NodeProcessDepOut(a)
    PROVE  CountInv' /\ EdgeInv'
  <1>1. PICK c, ops : c = call.task /\ ops = DepOutOps(entry[a], call.task)
    OBVIOUS
  <1>2. /\ call.pc = "deps" /\ a \in call.addrs
        /\ entry' = [entry EXCEPT ![a] = [out |-> c, in |-> <<>>]]
        /\ call' = [call EXCEPT !.addrs = @ \ {a}, !.ops = ops]
        /\ task' = task /\ prog' = prog /\ team' = team /\ ip' = ip /\ queue' = queue /\ stack' = stack
        /\ begun' = begun /\ ended' = ended /\ count' = count
    BY <1>1 DEF NodeProcessDepOut, InDag, program, schedVars, history
  <1>3. call \in CallSet /\ c \in Tasks \cup {None}
        /\ entry \in [DOMAIN entry -> EntrySet] /\ None \notin Tasks
    BY <1>1, TasksAssumption DEF IInv, TypeOK, CallSet
  <1>4. a \in DOMAIN entry
    BY <1>2 DEF IInv, CallShape
  <1>5. PICK ent \in EntrySet : ent = entry[a]
    BY <1>3, <1>4
  <1>6. PICK ad : ad = call.addrs \ {a}
    OBVIOUS
  <1>7. PICK k : k = [call EXCEPT !.addrs = ad, !.ops = ops]
    OBVIOUS
  <1>8. k.pc = call.pc /\ k.task = call.task /\ k.ops = ops
    BY <1>3, <1>7 DEF CallSet
  <1>9. call'.pc = "deps" /\ call'.task = call.task /\ call'.ops = ops
    BY <1>2, <1>6, <1>7, <1>8
  <1>10. ASSUME Building, NEW o \in Elems(ops), o.do = "precede" PROVE MustPrecede(o.of, c)
    <2>1. AddAt(ip, c) /\ c \in Tasks
      BY <1>1, <1>10, Submitted DEF Building
    <2>2. Writes(ip, a)
      BY <1>2, <1>10 DEF IInv, CallShape, Building
    <2>3. Lacks(ent, c)
      BY <1>1, <1>2, <1>5, <1>10 DEF RefInv, NotAhead
    <2>4. ops \in Seq(OpSet) /\ EdgesFollowed(ops) /\ \A t \in Tasks : Occ(ops, Op("deref", t)) = EntryRefs(ent, t)
      BY <1>1, <1>3, <1>5, DepOutCounts
    <2>5. o \in OpSet /\ o.of \in Tasks
      <3>1. o \in OpSet
        BY <2>4, Members
      <3> QED
        BY <3>1 DEF OpSet
    <2>6. Op("deref", o.of) \in Elems(ops)
      <3>1. PICK j \in DOMAIN ops : ops[j] = o
        BY DEF Elems
      <3> QED
        BY <3>1, <1>10, <2>4 DEF EdgesFollowed, Elems
    <2>7. ~Lacks(ent, o.of)
      <3>1. Occ(ops, Op("deref", o.of)) # 0
        BY <2>4, <2>6, OccType
      <3> QED
        BY <3>1, <2>4, <2>5, EntryRefsType
    <2>8. o.of # c /\ (o.of = ent.out \/ o.of \in Elems(ent.in))
      BY <2>3, <2>7 DEF Lacks
    <2>9. o.of \in Elems(ent.in) => Asked(o.of, a)
      BY <1>4, <1>5 DEF EdgeInv, ReadersAsked, Asked
    <2>10. HoldsIn(entry)
      BY DEF IInv, HashHolds
    <2> QED
      BY <2>1, <2>2, <2>5, <2>8, <2>9, <2>10, <1>3, <1>4, <1>5, HashOrder
  <1>11. ASSUME NEW b \in DOMAIN entry', NEW r \in Elems(entry'[b].in) PROVE Asked(r, b)
    <2>1. b \in DOMAIN entry
      BY <1>2, <1>3
    <2>2. CASE b = a
      <3>1. entry'[b].in = <<>>
        BY <1>2, <1>3, <1>4, <2>2
      <3> QED
        BY <3>1 DEF Elems
    <2>3. CASE b # a
      <3>1. entry'[b] = entry[b]
        BY <1>2, <1>3, <2>1, <2>3
      <3> QED
        BY <3>1, <2>1 DEF EdgeInv, ReadersAsked, Asked
    <2> QED
      BY <2>2, <2>3
  <1> QED
    BY <1>1, <1>2, <1>9, <1>10, <1>11, HashFlow

\* The lookup of an address finds no reader that was not there.
LEMMA LookupReaders ==
    ASSUME IInv, EdgeInv, NEW a \in Addrs \cup {AllAddr}, NEW h, h = Lookup(a).hash
    PROVE  \A b \in DOMAIN h : \A r \in Elems(h[b].in) : Asked(r, b)
  <1>1. PICK w, ops : w = LastAll(a) /\ ops = Lookup(a).ops
    OBVIOUS
  <1>2. LookupGives(a, h, ops, w)
    BY <1>1, LookupIs DEF IInv
  <1>3. \A r : r \notin Elems(<<>>)
    BY DEF Elems
  <1>4. \A b \in DOMAIN entry : \A r \in Elems(entry[b].in) : Asked(r, b)
    BY DEF EdgeInv, ReadersAsked, Asked
  <1>5. CASE a \in DOMAIN entry
    BY <1>2, <1>4, <1>5 DEF LookupGives
  <1>6. CASE a \notin DOMAIN entry
    <2>1. Looked(h, a, w) /\ DOMAIN h = DOMAIN entry \cup {a}
      BY <1>2, <1>6 DEF LookupGives
    <2> SUFFICES ASSUME NEW b \in DOMAIN h, NEW r \in Elems(h[b].in) PROVE Asked(r, b)
      OBVIOUS
    <2>2. b # a
      BY <2>1, <1>3 DEF Looked
    <2>3. b \in DOMAIN entry /\ h[b].in = entry[b].in
      BY <2>1, <2>2 DEF Looked
    <2> QED
      BY <2>3, <1>4
  <1> QED
    BY <1>5, <1>6

\* kupl_node_process_dep for a task that writes: no edge yet.
LEMMA ProcessWriteFlow ==
    ASSUME IInv, IInv', CountInv, EdgeInv, NodeProcessDep, Head(call.deps).type # "IN"
    PROVE  CountInv' /\ EdgeInv'
  <1>1. PICK d, c : d = Head(call.deps) /\ c = call.task
    OBVIOUS
  <1>2. PICK h, ops, rest : h = Lookup(d.addr).hash /\ ops = Lookup(d.addr).ops /\ rest = Tail(call.deps)
    OBVIOUS
  <1>3. PICK ad : ad = IF d.type = "ALL" THEN DOMAIN h ELSE {d.addr}
    OBVIOUS
  <1>4. /\ call.pc = "deps" /\ call.deps # <<>>
        /\ entry' = h /\ call' = [call EXCEPT !.deps = rest, !.ops = ops, !.addrs = ad]
        /\ task' = task /\ prog' = prog /\ team' = team /\ ip' = ip /\ queue' = queue /\ stack' = stack
        /\ begun' = begun /\ ended' = ended /\ count' = count
    BY <1>1, <1>2, <1>3 DEF NodeProcessDep, InDag, program, schedVars, history
  <1>5. d.addr \in Addrs \cup {AllAddr}
    BY <1>1, <1>4, NextDep DEF DepSet
  <1>6. HoldsIn(entry) /\ LeadsIn(entry)
    BY <1>4, NextDep DEF IInv, HashHolds, HashLeads
  <1>7. \A o \in Elems(ops) : o.do # "precede"
    BY <1>2, <1>5, <1>6, LookupKeeps
  <1>8. PICK k : k = [call EXCEPT !.deps = rest, !.ops = ops, !.addrs = ad]
    OBVIOUS
  <1>9. k.pc = call.pc /\ k.task = call.task /\ k.ops = ops
    BY <1>8 DEF IInv, TypeOK, CallSet
  <1>10. call'.pc = "deps" /\ call'.task = call.task /\ call'.ops = ops
    BY <1>4, <1>8, <1>9
  <1>11. \A b \in DOMAIN entry' : \A r \in Elems(entry'[b].in) : Asked(r, b)
    BY <1>2, <1>4, <1>5, LookupReaders
  <1> QED
    BY <1>4, <1>7, <1>10, <1>11, HashFlow

\* kupl_node_process_dep for a task that reads: it follows the last writer.
LEMMA ProcessReadFlow ==
    ASSUME IInv, IInv', RefInv, CountInv, EdgeInv, NodeProcessDep, Head(call.deps).type = "IN"
    PROVE  CountInv' /\ EdgeInv'
  <1>1. PICK d, c : d = Head(call.deps) /\ c = call.task
    OBVIOUS
  <1>2. PICK h, pre, rest : h = Lookup(d.addr).hash /\ pre = Lookup(d.addr).ops /\ rest = Tail(call.deps)
    OBVIOUS
  <1>3. PICK ops : ops = pre \o OpOn("ref", c) \o OpOn("precede", h[d.addr].out)
    OBVIOUS
  <1>4. /\ call.pc = "deps" /\ call.deps # <<>>
        /\ entry' = [h EXCEPT ![d.addr].in = <<c>> \o @]
        /\ call' = [call EXCEPT !.deps = rest, !.ops = ops]
        /\ task' = task /\ prog' = prog /\ team' = team /\ ip' = ip /\ queue' = queue /\ stack' = stack
        /\ begun' = begun /\ ended' = ended /\ count' = count
    BY <1>1, <1>2, <1>3 DEF NodeProcessDep, InDag, program, schedVars, history
  <1>5. /\ Building /\ c \in Tasks /\ AddAt(ip, c) /\ Made(ip) /\ ip \in DOMAIN prog
        /\ d \in DepSet /\ d \in Elems(DepListRmDup(prog[ip].deps)) /\ prog[ip].deps \in Seq(DepSet)
    BY <1>1, <1>4, NextDep
  <1>6. d.addr \in Addrs \cup {AllAddr}
    BY <1>5 DEF DepSet
  <1>7. HoldsIn(entry) /\ LeadsIn(entry)
    BY <1>4, NextDep DEF IInv, HashHolds, HashLeads
  <1>8. /\ DOMAIN h = DOMAIN entry \cup {d.addr} /\ h \in [DOMAIN h -> EntrySet] /\ pre \in Seq(OpSet)
        /\ \A o \in Elems(pre) : o.do # "precede"
        /\ HoldsIn(h)
    BY <1>2, <1>6, <1>7, LookupKeeps
  <1>9. d \in Elems(prog[ip].deps)
    <2>1. ListIs(ip)
      BY <1>5, DepList
    <2> QED
      BY <1>1, <1>5, <2>1 DEF ListIs
  <1>10. PICK ent \in EntrySet : ent = h[d.addr] /\ ent.in \in Seq(Tasks) /\ ent.out \in Tasks \cup {None}
    BY <1>8 DEF EntrySet
  <1>11. ent.out # c /\ None \notin Tasks
    BY <1>1, <1>2, <1>4, <1>5, <1>10, LookupLacks, TasksAssumption DEF Lacks
  <1>12. ASSUME NEW o \in Elems(ops), o.do = "precede" PROVE MustPrecede(o.of, c)
    <2>1. PICK w \in Tasks \cup {None} : w = ent.out
      BY <1>10
    <2>2. ops = pre \o OpOn("ref", c) \o OpOn("precede", w)
      BY <2>1, <1>3, <1>10
    <2>3. ops \in Seq(OpSet) /\ ReadAsks(pre, c, w, ops)
      BY <2>2, <1>5, <1>8, ReadOps
    <2>4. o.of # c
      <3>1. PICK p, q, v : p = OpOn("ref", c) /\ q = OpOn("precede", w) /\ v = pre \o p
        OBVIOUS
      <3>2. p \in Seq(OpSet) /\ q \in Seq(OpSet)
        BY <3>1, <1>5, OneOp
      <3>3. Occ(p, Op("precede", c)) = 0 /\ Occ(q, Op("precede", c)) = 0
        BY <3>1, <1>5, <1>11, <2>1, OneOp
      <3>4. Occ(pre, Op("precede", c)) = 0
        <4>1. Op("precede", c) \notin Elems(pre)
          BY <1>8 DEF Op
        <4> QED
          BY <4>1, <1>8, OccType
      <3>5. v \in Seq(OpSet) /\ Occ(v, Op("precede", c)) = 0
        BY <3>1, <3>2, <3>3, <3>4, <1>8, OccJoin
      <3>6. Occ(ops, Op("precede", c)) = 0
        <4>1. ops = v \o q
          BY <2>2, <3>1
        <4>2. Occ(v \o q, Op("precede", c)) = Occ(v, Op("precede", c)) + Occ(q, Op("precede", c))
          BY <3>2, <3>5, OccJoin
        <4> QED
          BY <3>3, <3>5, <4>1, <4>2
      <3>7. Op("precede", c) \notin Elems(ops)
        BY <2>3, <3>6, OccType
      <3>8. o \in OpSet
        BY <2>3, Members
      <3>9. o = Op("precede", o.of)
        BY <3>8, <1>12 DEF Op, OpSet
      <3> QED
        BY <3>7, <3>9
    <2>5. o.of = ent.out /\ ent.out # None
      BY <2>1, <2>3, <2>4, <1>8, <1>12 DEF ReadAsks
    <2> QED
      BY <2>4, <2>5, <1>5, <1>8, <1>9, <1>10, HashOrder
  <1>13. PICK k : k = [call EXCEPT !.deps = rest, !.ops = ops]
    OBVIOUS
  <1>14. k.pc = call.pc /\ k.task = call.task /\ k.ops = ops
    BY <1>13 DEF IInv, TypeOK, CallSet
  <1>15. call'.pc = "deps" /\ call'.task = c /\ call'.ops = ops
    BY <1>1, <1>4, <1>13, <1>14
  <1>16. ASSUME NEW b \in DOMAIN entry', NEW r \in Elems(entry'[b].in) PROVE Asked(r, b)
    <2>1. b \in DOMAIN h
      BY <1>4, <1>8
    <2>2. \A x \in DOMAIN h : \A y \in Elems(h[x].in) : Asked(y, x)
      BY <1>2, <1>6, LookupReaders
    <2>3. CASE b = d.addr
      <3>1. entry'[b].in = <<c>> \o ent.in
        BY <1>4, <1>8, <1>10, <2>3 DEF EntrySet
      <3>2. r = c \/ r \in Elems(ent.in)
        <4>1. PICK s \in Seq(Tasks) : s = ent.in
          BY <1>10
        <4>2. \A y : y \in Elems(<<c>> \o s) <=> y = c \/ y \in Elems(s)
          BY <1>5, MembersAdded
        <4> QED
          BY <3>1, <4>1, <4>2
      <3>3. Asked(c, b)
        BY <2>3, <1>5, <1>9 DEF Asked, AddAt
      <3> QED
        BY <2>1, <2>2, <2>3, <3>2, <3>3, <1>10
    <2>4. CASE b # d.addr
      <3>1. entry'[b] = h[b]
        BY <1>4, <1>8, <2>1, <2>4
      <3> QED
        BY <2>1, <2>2, <3>1
    <2> QED
      BY <2>3, <2>4
  <1> QED
    BY <1>1, <1>4, <1>12, <1>15, <1>16, HashFlow

-----------------------------------------------------------------------------
(* What Master keeps while it makes an edge *)

\* An edge that is put in front of a list leaves the others; while Master is alone
\* in a call it is a new one.
LEMMA EdgeStays ==
    ASSUME IInv, NEW o \in Tasks, NEW c \in Tasks, NEW s, s = task[o].succ, NEW r, r = task'[o].succ, r = <<c>> \o s,
           stack' = stack, ended' = ended, \A p \in Tasks : p # o => task'[p].succ = task[p].succ, Waits(o),
           NEW m, m = Len(s) + 1
    PROVE  /\ \A t \in Tasks : Pend(t) \subseteq Pend(t)'
           /\ team = {Master} /\ call.pc # "idle" => <<o, m>> \notin Pend(c)
  <1>1. s \in Seq(Tasks) /\ r \in Seq(Tasks) /\ m \in Nat
    <2>1. s \in Seq(Tasks)
      BY TaskTypes DEF IInv
    <2> QED
      BY <2>1
  <1>2. /\ \A k, u : FromEnd(r, k, u) <=> FromEnd(s, k, u) \/ (k = m /\ u = c)
        /\ \A u : ~FromEnd(s, m, u)
    BY <1>1, FromEnds
  <1>3. \A p : Waits(p) <=> Waits(p)'
    BY DEF Waits
  <1>4. ASSUME NEW t \in Tasks PROVE Pend(t) \subseteq Pend(t)'
    <2> SUFFICES ASSUME NEW p \in Tasks, NEW k \in Nat, EdgeAt(p, k, t) PROVE EdgeAt(p, k, t)'
      BY DEF Pend
    <2>1. PICK q \in Seq(Tasks) : Listed(p, q) /\ FromEnd(q, k, t)
      BY DEF EdgeAt
    <2>2. CASE p = o /\ q = s
      <3>1. Listed(p, r)'
        BY <2>2, <1>3 DEF Listed
      <3>2. FromEnd(r, k, t)
        BY <2>1, <2>2, <1>2
      <3> QED
        BY <3>1, <3>2, <1>1 DEF EdgeAt
    <2>3. CASE ~(p = o /\ q = s)
      <3>1. Listed(p, q)'
        BY <2>1, <2>3, <1>3 DEF Listed
      <3> QED
        BY <3>1, <2>1 DEF EdgeAt
    <2> QED
      BY <2>2, <2>3
  <1>5. ASSUME team = {Master}, call.pc # "idle" PROVE <<o, m>> \notin Pend(c)
    <2>1. ASSUME NEW e \in Executors, NEW d \in DOMAIN stack[e] PROVE stack[e][d].pc = "main"
      <3>1. Shape(stack, team, TRUE)
        BY <1>5 DEF IInv, FrameShape
      <3>2. e = Master
        <4>1. stack[e] = <<>> => DOMAIN stack[e] = {}
          OBVIOUS
        <4> QED
          BY <4>1, <3>1, <1>5 DEF Shape
      <3>3. d = 1
        <4>1. Len(stack[e]) = 1 /\ stack[e] \in Seq(FrameSet)
          BY <3>1, <3>2, ExecutorsAssumption DEF Shape, IInv, TypeOK
        <4>2. DOMAIN stack[e] = 1 .. 1
          BY <4>1
        <4> QED
          BY <4>2
      <3> QED
        BY <3>1, <3>2, <3>3 DEF Shape
    <2>2. \A q : Listed(o, q) => q = s
      BY <2>1 DEF Listed
    <2>3. ~EdgeAt(o, m, c)
      BY <2>2, <1>2 DEF EdgeAt
    <2> QED
      BY <2>3 DEF Pend
  <1> QED
    BY <1>4, <1>5

\* kupl_gnode_precede inserts the edge and unlocks the predecessor.
LEMMA GnodePrecedeInsertFlow ==
    ASSUME IInv, IInv', CountInv, EdgeInv, GnodePrecedeInsert
    PROVE  CountInv' /\ EdgeInv'
  <1>1. /\ call.pc = "insert" /\ call' = [call EXCEPT !.pc = "count"]
        /\ task' = [task EXCEPT ![OpTask].succ = <<call.task>> \o @, ![OpTask].locked = FALSE]
        /\ prog' = prog /\ team' = team /\ ip' = ip /\ entry' = entry /\ queue' = queue /\ stack' = stack
        /\ begun' = begun /\ ended' = ended /\ count' = count
    BY DEF GnodePrecedeInsert, program, dagVars, schedVars, history
  <1>2. call.ops # <<>> /\ Head(call.ops).do = "precede"
    BY <1>1 DEF IInv, CallShape
  <1>3. PICK o \in Tasks : o = OpTask /\ Known(o) /\ Head(call.ops) \in Elems(call.ops) /\ Head(call.ops).of = o
    BY <1>1, <1>2, OpTaskType DEF IInv
  <1>4. PICK c \in Tasks : c = call.task /\ Building
    BY <1>1, <1>2, EdgeOfSubmission, Submitted
  <1>5. PICK k : k = [call EXCEPT !.pc = "count"]
    OBVIOUS
  <1>6. k.pc = "count" /\ k.task = call.task /\ k.ops = call.ops
    BY <1>5 DEF IInv, TypeOK, CallSet
  <1>7. call'.pc = "count" /\ call'.task = call.task /\ call'.ops = call.ops
    BY <1>1, <1>5, <1>6
  <1>8. task \in [Tasks -> TaskSet]
    BY DEF IInv, TypeOK
  <1>9. PICK s \in Seq(Tasks) : s = task[o].succ
    BY TaskTypes DEF IInv
  <1>10. PICK q \in Seq(Tasks) : q = <<c>> \o s /\ \A y : y \in Elems(q) <=> y = c \/ y \in Elems(s)
    BY MembersAdded
  <1>11. PICK r : r = [task[o] EXCEPT !.succ = q, !.locked = FALSE]
    OBVIOUS
  <1>12. /\ r.finished = task[o].finished /\ r.nPred = task[o].nPred /\ r.nHard = task[o].nHard
         /\ r.succ = q
    BY <1>8, <1>11 DEF TaskSet
  <1>13. task' = [task EXCEPT ![o] = r]
    BY <1>1, <1>3, <1>4, <1>8, <1>9, <1>10, <1>11
  <1>14. /\ \A t \in Tasks : /\ task'[t].finished = task[t].finished /\ task'[t].nHard = task[t].nHard
                             /\ task'[t].nPred = task[t].nPred
                             /\ t # o => task'[t] = task[t]
         /\ task'[o].succ = q
    BY <1>8, <1>12, <1>13
  <1>15. MasterKept
    <2>1. /\ prog' = prog /\ team' = team /\ stack' = stack /\ queue' = queue /\ begun' = begun /\ ended' = ended
          /\ ip' = ip /\ call.pc # "idle" /\ call'.pc # "idle" /\ call'.task = call.task
      BY <1>1, <1>7
    <2>2. \A t \in Tasks : task[t].nHard \in Nat
      BY TaskTypes DEF IInv
    <2>3. \A t \in Tasks : /\ task'[t].finished = task[t].finished /\ task'[t].nHard >= task[t].nHard
                           /\ ~Known(t) => task'[t] = task[t]
      BY <2>2, <1>3, <1>14
    <2> QED
      BY <2>1, <2>3, ZenonT(60) DEF MasterKept
  <1>16. PICK m : m = Len(s) + 1
    OBVIOUS
  <1>17. Waits(o)
    BY <1>1, <1>3, <1>4 DEF IInv, Quiet
  <1>18. /\ \A t \in Tasks : Pend(t) \subseteq Pend(t)'
         /\ team = {Master} => <<o, m>> \notin Pend(c)
         /\ <<o, m>> \in Pend(c)'
    <2>1. \A p \in Tasks : p # o => task'[p].succ = task[p].succ
      BY <1>14
    <2>2. q = <<c>> \o s /\ q = task'[o].succ /\ TypeOK
      BY <1>10, <1>14 DEF IInv
    <2>3. stack' = stack /\ ended' = ended /\ call.pc # "idle"
      BY <1>1
    <2>4. /\ \A t \in Tasks : Pend(t) \subseteq Pend(t)'
          /\ team = {Master} /\ call.pc # "idle" => <<o, m>> \notin Pend(c)
      BY <2>1, <2>2, <2>3, <1>9, <1>16, <1>17, EdgeStays, ZenonT(60)
    <2>5. <<o, m>> \in Pend(c)'
      BY <2>1, <2>2, <2>3, <1>9, <1>16, <1>17, EdgeMade, ZenonT(60)
    <2> QED
      BY <2>3, <2>4, <2>5
  <1>19. /\ \A u, t : MustPrecede(u, t) <=> MustPrecede(u, t)'
         /\ \A t : (Old(t) <=> Old(t)') /\ (Loose(t) <=> Loose(t)')
         /\ Building <=> Building'
    BY <1>1, <1>7, SubmissionSame
  <1>20. \A t : MayBeLost(t) <=> MayBeLost(t)'
    BY <1>1, LostFixed
  <1>21. ASSUME team = {Master}, NEW t \in Tasks
         PROVE  task'[t].nPred + Uncounted(t)' <= Cardinality(Pend(t)')
    <2>0. UintMod \in Nat /\ task[t].nPred \in 0 .. UintMod - 1 /\ TypeOK
      BY TaskTypes, BoundsAssumption DEF IInv
    <2>1. PICK n \in Nat : n = task[t].nPred /\ n = task'[t].nPred
      BY <2>0, <1>14
    <2>2. Uncounted(t) = 0 /\ Uncounted(t)' = IF t = c THEN 1 ELSE 0
      BY <1>1, <1>4, <1>7 DEF Uncounted
    <2>3. PICK P, Q : P = Pend(t) /\ Q = Pend(t)'
      OBVIOUS
    <2>4. IsFiniteSet(P) /\ IsFiniteSet(Q) /\ P \subseteq Q
      BY <2>3, <1>18 DEF IInv, Counts
    <2>5. n <= Cardinality(P)
      <3>1. task[t].nPred + Uncounted(t) <= Cardinality(Pend(t))
        BY <1>21 DEF EdgeInv, Exact
      <3>2. n + 0 <= Cardinality(P)
        BY <3>1, <2>1, <2>2, <2>3
      <3> QED
        BY <3>2
    <2>6. Cardinality(P) \in Nat /\ Cardinality(Q) \in Nat /\ Cardinality(P) <= Cardinality(Q)
      BY <2>4, FS_Subset, FS_CardinalityType
    <2>7. CASE t = c
      <3>1. <<o, m>> \notin P /\ <<o, m>> \in Q
        BY <2>3, <2>7, <1>18, <1>21
      <3>2. P \cup {<<o, m>>} \subseteq Q
        BY <2>4, <3>1
      <3>3. IsFiniteSet(P \cup {<<o, m>>}) /\ Cardinality(P \cup {<<o, m>>}) = Cardinality(P) + 1
        BY <2>4, <3>1, FS_AddElement
      <3>4. Cardinality(P \cup {<<o, m>>}) <= Cardinality(Q)
        BY <2>4, <3>2, FS_Subset
      <3> QED
        BY <2>1, <2>2, <2>3, <2>5, <2>6, <2>7, <3>3, <3>4
    <2>8. CASE t # c
      BY <2>1, <2>2, <2>3, <2>5, <2>6, <2>8
    <2> QED
      BY <2>7, <2>8
  <1>22. Exact'
    BY <1>1, <1>21 DEF Exact
  <1>23. AloneEven'
    BY <1>1, <1>4, <1>7, <1>14, <1>19 DEF EdgeInv, AloneEven
  <1>24. Pristine'
    <2>1. team # {Master} => MayBeLost(c)
      BY <1>1, <1>4 DEF EdgeInv, Pristine
    <2>2. ASSUME team # {Master}, NEW t \in Tasks PROVE MayBeLost(t) \/ task'[t].nHard = 0
      BY <2>2, <1>14 DEF EdgeInv, Pristine
    <2> QED
      BY <2>1, <2>2, <1>1, <1>4, <1>7, <1>20 DEF Pristine
  <1>25. ReadersAsked' /\ OpsOrdered'
    BY <1>1, <1>7, <1>15, ReadersSame, OpsFewer
  <1>26. EdgesOrdered'
    <2> SUFFICES ASSUME NEW p \in Tasks, NEW t \in Elems(task'[p].succ) PROVE MustPrecede(p, t)
      BY <1>19 DEF EdgesOrdered
    <2>1. MustPrecede(o, c)
      BY <1>2, <1>3, <1>4 DEF EdgeInv, OpsOrdered
    <2>2. \A x \in Tasks : \A y \in Elems(task[x].succ) : MustPrecede(x, y)
      BY DEF EdgeInv, EdgesOrdered
    <2>3. CASE p = o
      BY <2>1, <2>2, <2>3, <1>9, <1>10, <1>14
    <2>4. CASE p # o
      BY <2>2, <2>4, <1>14
    <2> QED
      BY <2>3, <2>4
  <1>27. NotLost'
    <2> SUFFICES ASSUME NEW t \in Tasks, Old(t), begun[t] = 0
                 PROVE  MayBeLost(t) \/ Loose(t) \/ task'[t].nPred > 0
      BY <1>1, <1>19, <1>20 DEF NotLost
    <2>1. MayBeLost(t) \/ Loose(t) \/ task[t].nPred > 0
      BY DEF EdgeInv, NotLost
    <2> QED
      BY <2>1, <1>14
  <1>28. EdgeInv'
    BY <1>22, <1>23, <1>24, <1>25, <1>26, <1>27 DEF EdgeInv
  <1> QED
    BY <1>1, <1>28, MasterCount

\* kupl_gnode_precede counts the edge.
LEMMA GnodePrecedeCountFlow ==
    ASSUME IInv, IInv', CountInv, EdgeInv, GnodePrecedeCount
    PROVE  CountInv' /\ EdgeInv'
  <1>1. /\ call.pc = "count" /\ call' = [PopOp EXCEPT !.n = Inc(@)]
        /\ task' = [task EXCEPT ![call.task].nHard = Inc(@), ![call.task].nPred = Inc(@)]
        /\ prog' = prog /\ team' = team /\ ip' = ip /\ entry' = entry /\ queue' = queue /\ stack' = stack
        /\ begun' = begun /\ ended' = ended /\ count' = count
    BY DEF GnodePrecedeCount, program, dagVars, schedVars, history
  <1>2. call.ops # <<>> /\ Head(call.ops).do = "precede"
    BY <1>1 DEF IInv, CallShape
  <1>3. PICK c \in Tasks : c = call.task /\ Building /\ Known(c) /\ AddAt(ip, c)
    BY <1>1, <1>2, EdgeOfSubmission, Submitted
  <1>4. UintMod \in Nat /\ task[c].nPred \in 0 .. UintMod - 1 /\ task[c].nHard \in 0 .. UintMod - 1
    BY TaskTypes, BoundsAssumption DEF IInv
  <1>5. PICK a \in Nat, b \in Nat : a = task[c].nHard /\ b = task[c].nPred /\ a \in 0 .. UintMod - 1 /\ b \in 0 .. UintMod - 1
    BY <1>4
  <1>6. Uncounted(c) = 1
    BY <1>1, <1>3 DEF Uncounted
  <1>7. 3 * (a + 1) < UintMod
    BY <1>5, <1>6 DEF IInv, Counts
  <1>8. PICK n \in Nat : n = Inc(a) /\ n = a + 1
    <2>1. a + 1 < UintMod
      BY <1>5, <1>7, BoundsAssumption
    <2> QED
      BY <2>1, <1>5, Counting
  <1>9. PICK P : P = Pend(c) /\ IsFiniteSet(P) /\ Cardinality(P) \in Nat /\ Cardinality(P) <= Owed(c)
    BY FS_CardinalityType DEF IInv, Counts
  <1>10. PICK z : z = Inc(b)
    OBVIOUS
  <1>11. team = {Master} => z = b + 1 /\ b + 1 <= Cardinality(P)
    <2> SUFFICES ASSUME team = {Master} PROVE z = b + 1 /\ b + 1 <= Cardinality(P)
      OBVIOUS
    <2>1. task[c].nPred + Uncounted(c) <= Cardinality(Pend(c))
      BY DEF EdgeInv, Exact
    <2>2. b + 1 <= Cardinality(P)
      BY <2>1, <1>5, <1>6, <1>9
    <2>3. ~Overtaken(c)
      BY <2>2, <1>9 DEF Owed
    <2>4. b # UintMod - 1
      BY <2>3, <1>5, <1>6 DEF Overtaken
    <2>5. b + 1 < UintMod
      BY <2>4, <1>4, <1>5
    <2> QED
      BY <2>2, <2>5, <1>5, <1>10, Counting
  <1>12. PICK q \in Seq(OpSet) : q = Tail(call.ops) /\ Elems(q) \subseteq Elems(call.ops)
    BY <1>1, <1>2, OpTaskType DEF IInv
  <1>13. call'.pc = "deps" /\ call'.task = call.task /\ call'.ops = q
    <2>1. call \in CallSet
      BY DEF IInv, TypeOK
    <2>2. PICK v : v = PopOp
      OBVIOUS
    <2>3. v.pc = "deps" /\ v.task = call.task /\ v.ops = q /\ v = [pc |-> "deps", task |-> call.task, deps |-> call.deps,
             addrs |-> call.addrs, ops |-> q, n |-> call.n, err |-> call.err]
      BY <2>1, <2>2, <1>12 DEF PopOp, CallSet
    <2>4. call' = [v EXCEPT !.n = Inc(@)]
      BY <2>2, <1>1
    <2> QED
      BY <2>3, <2>4
  <1>14. task \in [Tasks -> TaskSet]
    BY DEF IInv, TypeOK
  <1>15. PICK r : r = [task[c] EXCEPT !.nHard = n, !.nPred = z]
    OBVIOUS
  <1>16. r.finished = task[c].finished /\ r.nPred = z /\ r.nHard = n /\ r.succ = task[c].succ
    BY <1>14, <1>15 DEF TaskSet
  <1>17. task' = [task EXCEPT ![c] = r]
    BY <1>1, <1>3, <1>5, <1>8, <1>10, <1>14, <1>15
  <1>18. /\ \A t \in Tasks : /\ task'[t].finished = task[t].finished /\ task'[t].succ = task[t].succ
                             /\ t # c => task'[t] = task[t]
         /\ task'[c].nHard = n /\ task'[c].nPred = z
    BY <1>14, <1>16, <1>17
  <1>19. /\ prog' = prog /\ team' = team /\ stack' = stack /\ queue' = queue /\ begun' = begun /\ ended' = ended
         /\ ip' = ip /\ call.pc # "idle" /\ call'.pc # "idle" /\ call'.task = call.task
    BY <1>1, <1>13
  <1>20. MasterKept
    <2>1. \A t \in Tasks : task[t].nHard \in Nat
      BY TaskTypes DEF IInv
    <2>2. \A t \in Tasks : /\ task'[t].finished = task[t].finished /\ task'[t].nHard >= task[t].nHard
                           /\ ~Known(t) => task'[t] = task[t]
      BY <2>1, <1>3, <1>5, <1>8, <1>18
    <2> QED
      BY <2>2, <1>19, ZenonT(60) DEF MasterKept
  <1>21. /\ \A u, t : MustPrecede(u, t) <=> MustPrecede(u, t)'
         /\ \A t : (Old(t) <=> Old(t)') /\ (Loose(t) <=> Loose(t)')
         /\ Building <=> Building'
    BY <1>19, SubmissionSame
  <1>22. \A t : MayBeLost(t) <=> MayBeLost(t)'
    BY <1>1, LostFixed
  <1>23. \A t \in Tasks : Pend(t) \subseteq Pend(t)'
    <2>1. \A p \in Tasks : \A s \in Seq(Tasks) : s # <<>> /\ Listed(p, s) => Listed(p, s)'
      BY <1>18, <1>19, ListsMaster
    <2> QED
      BY <2>1, PendKept
  <1>24. ASSUME team = {Master}, NEW t \in Tasks
         PROVE  task'[t].nPred + Uncounted(t)' <= Cardinality(Pend(t)')
    <2>1. Uncounted(t)' = 0
      BY <1>13 DEF Uncounted
    <2>2. PICK R, Q : R = Pend(t) /\ Q = Pend(t)'
      OBVIOUS
    <2>3. IsFiniteSet(R) /\ IsFiniteSet(Q) /\ R \subseteq Q
      BY <2>2, <1>23 DEF IInv, Counts
    <2>4. Cardinality(R) \in Nat /\ Cardinality(Q) \in Nat /\ Cardinality(R) <= Cardinality(Q)
      BY <2>3, FS_Subset, FS_CardinalityType
    <2>5. CASE t = c
      <3>1. b + 1 <= Cardinality(R) /\ task'[t].nPred = b + 1
        BY <2>2, <2>5, <1>9, <1>11, <1>18, <1>24
      <3> QED
        BY <3>1, <2>1, <2>2, <2>4, <1>5
    <2>6. CASE t # c
      <3>1. Uncounted(t) = 0 /\ task'[t].nPred = task[t].nPred
        BY <2>6, <1>3, <1>18 DEF Uncounted
      <3>2. task[t].nPred + Uncounted(t) <= Cardinality(Pend(t))
        BY <1>24 DEF EdgeInv, Exact
      <3>3. task[t].nPred \in Nat
        BY <1>4, TaskTypes DEF IInv
      <3> QED
        BY <3>1, <3>2, <3>3, <2>1, <2>2, <2>4
    <2> QED
      BY <2>5, <2>6
  <1>25. Exact'
    BY <1>1, <1>24 DEF Exact
  <1>26. AloneEven'
    <2>1. team = {Master} => a = b
      BY <1>3, <1>5 DEF EdgeInv, AloneEven
    <2>2. team = {Master} => z = n
      BY <2>1, <1>8, <1>11
    <2> QED
      BY <2>2, <1>3, <1>18, <1>19 DEF AloneEven
  <1>27. Pristine'
    <2>1. team # {Master} => MayBeLost(c)
      BY <1>1, <1>3 DEF EdgeInv, Pristine
    <2>2. ASSUME team # {Master}, NEW t \in Tasks PROVE MayBeLost(t) \/ task'[t].nHard = 0
      BY <2>1, <2>2, <1>18 DEF EdgeInv, Pristine
    <2> QED
      BY <2>2, <1>13, <1>19, <1>22 DEF Pristine
  <1>28. ReadersAsked' /\ OpsOrdered'
    BY <1>1, <1>12, <1>13, <1>20, ReadersSame, OpsFewer
  <1>29. EdgesOrdered'
    <2>1. \A x \in Tasks : \A y \in Elems(task[x].succ) : MustPrecede(x, y)
      BY DEF EdgeInv, EdgesOrdered
    <2> QED
      BY <2>1, <1>18, <1>21 DEF EdgesOrdered
  <1>30. NotLost'
    <2> SUFFICES ASSUME NEW t \in Tasks, Old(t), begun[t] = 0
                 PROVE  MayBeLost(t) \/ Loose(t) \/ task'[t].nPred > 0
      BY <1>19, <1>21, <1>22 DEF NotLost
    <2>1. MayBeLost(t) \/ Loose(t) \/ task[t].nPred > 0
      BY DEF EdgeInv, NotLost
    <2>2. t # c
      <3>1. PICK i \in DOMAIN prog : i < ip /\ AddAt(i, t)
        BY DEF Old
      <3>2. Disciplined
        BY DEF IInv
      <3>3. i \in Nat /\ ip \in Nat
        BY <3>1, <3>2, <1>3, Submissions DEF AddAt
      <3> QED
        BY <3>1, <3>2, <3>3, <1>3, Submissions DEF AddAt
    <2> QED
      BY <2>1, <2>2, <1>18
  <1>31. EdgeInv'
    BY <1>25, <1>26, <1>27, <1>28, <1>29, <1>30 DEF EdgeInv
  <1> QED
    BY <1>1, <1>31, MasterCount

\* Master begins a call that works on the graph.
LEMMA EnterFlow ==
    ASSUME IInv, IInv', CountInv, EdgeInv, call.pc = "idle", call'.pc = "deps", call'.ops = <<>>,
           prog' = prog, team' = team, ip' = ip, entry' = entry, queue' = queue, stack' = stack,
           begun' = begun, ended' = ended, count' = count,
           \A t \in Tasks : /\ task'[t].nPred = task[t].nPred /\ task'[t].nHard = task[t].nHard
                            /\ task'[t].succ = task[t].succ,
           Building' => task[call'.task].nPred = task[call'.task].nHard /\ call'.task \in Tasks
    PROVE  CountInv' /\ EdgeInv'
  <1>1. /\ \A i : Adds(i) <=> Adds(i)'
        /\ \A i, t : AddAt(i, t) <=> AddAt(i, t)'
        /\ \A u, t : MustPrecede(u, t) <=> MustPrecede(u, t)'
    BY OrderFixed
  <1>2. \A i : Made(i) => Made(i)'
    BY <1>1 DEF Made
  <1>3. \A t : (Old(t) <=> Old(t)') /\ (Loose(t) <=> Loose(t)')
    BY <1>1 DEF Old, Loose, InFrames
  <1>4. \A t : MayBeLost(t) <=> MayBeLost(t)'
    BY LostFixed
  <1>5. \A t : Uncounted(t) = 0 /\ Uncounted(t)' = 0
    BY DEF Uncounted
  <1>6. \A t \in Tasks : Pend(t) \subseteq Pend(t)'
    <2>1. \A p \in Tasks : \A s \in Seq(Tasks) : s # <<>> /\ Listed(p, s) => Listed(p, s)'
      BY ListsMaster
    <2> QED
      BY <2>1, PendKept
  <1>7. Exact'
    <2> SUFFICES ASSUME team = {Master}, NEW t \in Tasks PROVE task'[t].nPred + Uncounted(t)' <= Cardinality(Pend(t)')
      BY DEF Exact
    <2>1. PICK R, Q : R = Pend(t) /\ Q = Pend(t)'
      OBVIOUS
    <2>2. IsFiniteSet(R) /\ IsFiniteSet(Q) /\ R \subseteq Q
      BY <2>1, <1>6 DEF IInv, Counts
    <2>3. Cardinality(R) \in Nat /\ Cardinality(Q) \in Nat /\ Cardinality(R) <= Cardinality(Q)
      BY <2>2, FS_Subset, FS_CardinalityType
    <2>4. task[t].nPred + Uncounted(t) <= Cardinality(R)
      BY <2>1 DEF EdgeInv, Exact
    <2>5. UintMod \in Nat /\ task[t].nPred \in 0 .. UintMod - 1
      BY TaskTypes, BoundsAssumption DEF IInv
    <2>6. task[t].nPred \in Nat
      BY <2>5
    <2> QED
      BY <2>1, <2>3, <2>4, <2>6, <1>5
  <1>8. AloneEven'
    BY DEF AloneEven
  <1>9. Pristine'
    <2>1. ASSUME team # {Master}, NEW t \in Tasks PROVE MayBeLost(t) \/ task'[t].nHard = 0
      BY <2>1 DEF EdgeInv, Pristine
    <2> QED
      BY <2>1, <1>4 DEF Pristine
  <1>10. ReadersAsked'
    <2>1. ReadersAsked
      BY DEF EdgeInv
    <2> QED
      BY <2>1, <1>2 DEF ReadersAsked
  <1>11. OpsOrdered'
    BY DEF OpsOrdered, Elems
  <1>12. EdgesOrdered'
    <2>1. \A x \in Tasks : \A y \in Elems(task[x].succ) : MustPrecede(x, y)
      BY DEF EdgeInv, EdgesOrdered
    <2> QED
      BY <2>1, <1>1 DEF EdgesOrdered
  <1>13. NotLost'
    <2>1. NotLost
      BY DEF EdgeInv
    <2> QED
      BY <2>1, <1>3, <1>4 DEF NotLost
  <1> QED
    BY <1>7, <1>8, <1>9, <1>10, <1>11, <1>12, <1>13, MasterCount DEF EdgeInv

\* kupl_graph_add_task creates the task.
LEMMA GraphAddTaskFlow == ASSUME IInv, IInv', CountInv, EdgeInv, GraphAddTask PROVE CountInv' /\ EdgeInv'
  <1>1. PICK c, l : c = prog[ip].task /\ l = DepListRmDup(prog[ip].deps)
    OBVIOUS
  <1>2. /\ AtCall("add_task") /\ task' = [task EXCEPT ![c] = TaskInit]
        /\ call' = [Idle EXCEPT !.pc = "deps", !.task = c, !.deps = l, !.addrs = {}, !.ops = <<>>]
        /\ prog' = prog /\ team' = team /\ ip' = ip /\ entry' = entry /\ queue' = queue /\ stack' = stack
        /\ begun' = begun /\ ended' = ended /\ count' = count
    BY <1>1 DEF GraphAddTask, Enter, Args, program, dagVars, schedVars, history
  <1>3. ip \in DOMAIN prog /\ Adds(ip) /\ AddAt(ip, c) /\ call.pc = "idle"
    <2>1. ip \in Nat /\ ip >= 1 /\ Len(prog) \in Nat /\ DOMAIN prog = 1 .. Len(prog)
      BY Submissions DEF IInv, TypeOK
    <2> QED
      BY <2>1, <1>1, <1>2 DEF AtCall, Adds, AddAt
  <1>4. c \in Tasks
    BY <1>1, <1>3, Submissions DEF IInv
  <1>5. call'.pc = "deps" /\ call'.task = c /\ call'.ops = <<>>
    BY <1>2 DEF Idle
  <1>6. ~Known(c)
    <2> SUFFICES ASSUME NEW i \in DOMAIN prog, Made(i), prog[i].task = c PROVE FALSE
      BY DEF Known
    <2>1. i < ip /\ Adds(i) /\ i \in Nat /\ ip \in Nat
      BY <1>3, Submissions DEF Made, IInv
    <2>2. i = ip
      BY <2>1, <1>1, <1>3 DEF IInv, Disciplined
    <2> QED
      BY <2>1, <2>2
  <1>7. task[c] = NoTask /\ task \in [Tasks -> TaskSet]
    BY <1>4, <1>6 DEF IInv, Fresh, TypeOK
  <1>8. PICK new : new = TaskInit
    OBVIOUS
  <1>9. new.nPred = task[c].nPred /\ new.nHard = task[c].nHard /\ new.succ = task[c].succ /\ task[c].nPred = task[c].nHard
    BY <1>7, <1>8 DEF TaskInit, NoTask
  <1>10. task'[c] = new /\ \A t \in Tasks : t # c => task'[t] = task[t]
    BY <1>2, <1>4, <1>7, <1>8
  <1>11. \A t \in Tasks : /\ task'[t].nPred = task[t].nPred /\ task'[t].nHard = task[t].nHard
                          /\ task'[t].succ = task[t].succ
    BY <1>9, <1>10
  <1>12. task[call'.task].nPred = task[call'.task].nHard /\ call'.task \in Tasks
    BY <1>4, <1>5, <1>9
  <1>13. /\ prog' = prog /\ team' = team /\ ip' = ip /\ entry' = entry /\ queue' = queue /\ stack' = stack
         /\ begun' = begun /\ ended' = ended /\ count' = count
    BY <1>2
  <1> QED
    BY <1>3, <1>5, <1>11, <1>12, <1>13, EnterFlow, ZenonT(60)

\* kupl_graph_destroy begins.
LEMMA GraphDestroyFlow == ASSUME IInv, IInv', CountInv, EdgeInv, GraphDestroy PROVE CountInv' /\ EdgeInv'
  <1>1. PICK ad : ad = DOMAIN entry
    OBVIOUS
  <1>2. /\ AtCall("destroy") /\ task' = task
        /\ call' = [Idle EXCEPT !.pc = "deps", !.task = None, !.deps = <<>>, !.addrs = ad, !.ops = <<>>]
        /\ prog' = prog /\ team' = team /\ ip' = ip /\ entry' = entry /\ queue' = queue /\ stack' = stack
        /\ begun' = begun /\ ended' = ended /\ count' = count
    BY <1>1 DEF GraphDestroy, Enter, Args, program, dagVars, schedVars, history
  <1>3. call'.pc = "deps" /\ call'.ops = <<>> /\ call.pc = "idle" /\ prog[ip].op = "destroy"
    BY <1>2 DEF Idle, AtCall
  <1>4. ~Building'
    BY <1>2, <1>3 DEF Building
  <1>5. \A t \in Tasks : /\ task'[t].nPred = task[t].nPred /\ task'[t].nHard = task[t].nHard
                         /\ task'[t].succ = task[t].succ
    BY <1>2
  <1>6. /\ prog' = prog /\ team' = team /\ ip' = ip /\ entry' = entry /\ queue' = queue /\ stack' = stack
        /\ begun' = begun /\ ended' = ended /\ count' = count
    BY <1>2
  <1> QED
    BY <1>3, <1>4, <1>5, <1>6, EnterFlow, ZenonT(60)

\* Master ends a call that works on the graph.
LEMMA DoneFlow ==
    ASSUME IInv, IInv', EdgeInv, call.pc = "deps", call' = Idle, ip' = ip + 1,
           prog' = prog, team' = team, task' = task, entry' = entry, begun' = begun, ended' = ended,
           NEW c, c = call.task, \A t \in Tasks : Pend(t) \subseteq Pend(t)', \A t \in Tasks : Loose(t) => Loose(t)',
           Building => MayBeLost(c) \/ Loose(c)' \/ task[c].nPred > 0
    PROVE  EdgeInv'
  <1>1. /\ ip \in DOMAIN prog /\ ip \in Nat
        /\ Building <=> prog[ip].op = "add_task"
        /\ Building => c \in Tasks /\ c = prog[ip].task /\ Adds(ip) /\ AddAt(ip, c)
    BY Submitted
  <1>2. /\ \A i : Adds(i) <=> Adds(i)'
        /\ \A i, t : AddAt(i, t) <=> AddAt(i, t)'
        /\ \A u, t : MustPrecede(u, t) <=> MustPrecede(u, t)'
    BY OrderFixed
  <1>3. \A i : Adds(i) => i \in Nat /\ i \in DOMAIN prog
    BY Submissions DEF IInv, Adds
  <1>4. call'.pc = "idle" /\ ~Building'
    BY DEF Idle, Building
  <1>5. \A i : Adds(i) => (i < ip' <=> i < ip \/ i = ip)
    BY <1>1, <1>3
  <1>6. \A i : Made(i) => Made(i)'
    BY <1>2, <1>4, <1>5 DEF Made
  <1>7. \A t : Old(t)' => Old(t) \/ (Building /\ t = c)
    <2>1. \A t : Old(t)' => \E i \in DOMAIN prog : (i < ip \/ i = ip) /\ AddAt(i, t)
      BY <1>2, <1>5 DEF Old, AddAt
    <2>2. ASSUME NEW t, AddAt(ip, t) PROVE Building /\ t = c
      BY <2>2, <1>1 DEF AddAt, Adds
    <2> QED
      BY <2>1, <2>2 DEF Old
  <1>8. \A t : MayBeLost(t) <=> MayBeLost(t)'
    BY LostFixed
  <1>9. \A t : Uncounted(t) = 0 /\ Uncounted(t)' = 0
    BY <1>4 DEF Uncounted
  <1>10. Exact'
    <2> SUFFICES ASSUME team = {Master}, NEW t \in Tasks PROVE task[t].nPred + Uncounted(t)' <= Cardinality(Pend(t)')
      BY DEF Exact
    <2>1. PICK R, Q : R = Pend(t) /\ Q = Pend(t)'
      OBVIOUS
    <2>2. IsFiniteSet(R) /\ IsFiniteSet(Q) /\ R \subseteq Q
      BY <2>1 DEF IInv, Counts
    <2>3. Cardinality(R) \in Nat /\ Cardinality(Q) \in Nat /\ Cardinality(R) <= Cardinality(Q)
      BY <2>2, FS_Subset, FS_CardinalityType
    <2>4. task[t].nPred + Uncounted(t) <= Cardinality(R)
      BY <2>1 DEF EdgeInv, Exact
    <2>5. UintMod \in Nat /\ task[t].nPred \in 0 .. UintMod - 1
      BY TaskTypes, BoundsAssumption DEF IInv
    <2>6. task[t].nPred \in Nat
      BY <2>5
    <2> QED
      BY <2>1, <2>3, <2>4, <2>6, <1>9
  <1>11. AloneEven' /\ OpsOrdered'
    BY <1>4 DEF AloneEven, OpsOrdered
  <1>12. Pristine'
    <2>1. ASSUME team # {Master}, NEW t \in Tasks PROVE MayBeLost(t) \/ task[t].nHard = 0
      BY <2>1 DEF EdgeInv, Pristine
    <2> QED
      BY <2>1, <1>4, <1>8 DEF Pristine
  <1>13. ReadersAsked'
    <2>1. ReadersAsked
      BY DEF EdgeInv
    <2> QED
      BY <2>1, <1>6 DEF ReadersAsked
  <1>14. EdgesOrdered'
    BY <1>2 DEF EdgeInv, EdgesOrdered
  <1>15. NotLost'
    <2> SUFFICES ASSUME NEW t \in Tasks, Old(t)', begun[t] = 0
                 PROVE  MayBeLost(t) \/ Loose(t)' \/ task[t].nPred > 0
      BY <1>8 DEF NotLost
    <2>1. NotLost
      BY DEF EdgeInv
    <2>2. CASE Old(t)
      BY <2>1, <2>2 DEF NotLost
    <2>3. CASE Building /\ t = c
      BY <2>3
    <2> QED
      BY <2>2, <2>3, <1>7
  <1> QED
    BY <1>10, <1>11, <1>12, <1>13, <1>14, <1>15 DEF EdgeInv

\* kupl_graph_destroy ends.
LEMMA DestroyDoneFlow == ASSUME IInv, IInv', CountInv, EdgeInv, DestroyDone PROVE CountInv' /\ EdgeInv'
  <1>1. /\ call.pc = "deps" /\ call' = Idle /\ ip' = ip + 1
        /\ prog' = prog /\ team' = team /\ task' = task /\ entry' = entry /\ queue' = queue /\ stack' = stack
        /\ begun' = begun /\ ended' = ended /\ count' = count
    BY DEF DestroyDone, DagDone, InDag, program, dagVars, schedVars, history
  <1>2. ~Building
    BY DEF DestroyDone, Building
  <1>3. \A t \in Tasks : Pend(t) \subseteq Pend(t)'
    <2>1. \A p \in Tasks : \A s \in Seq(Tasks) : s # <<>> /\ Listed(p, s) => Listed(p, s)'
      BY <1>1, ListsMaster
    <2> QED
      BY <2>1, PendKept
  <1>4. \A t \in Tasks : Loose(t) => Loose(t)'
    BY <1>1 DEF Loose, InFrames
  <1> QED
    BY <1>1, <1>2, <1>3, <1>4, DoneFlow, MasterCount

\* kupl_graph_add_task ends: the task is ready, or it waits for what was counted.
LEMMA GraphAddTaskDoneFlow == ASSUME IInv, IInv', CountInv, EdgeInv, GraphAddTaskDone PROVE CountInv' /\ EdgeInv'
  <1>1. PICK c, h : c = call.task /\ h = Top(Master)
    OBVIOUS
  <1>2. PICK f : f = [h EXCEPT !.todo = <<c>>]
    OBVIOUS
  <1>3. /\ call.pc = "deps" /\ call' = Idle /\ ip' = ip + 1
        /\ prog' = prog /\ team' = team /\ task' = task /\ entry' = entry /\ queue' = queue
        /\ begun' = begun /\ ended' = ended /\ count' = count
        /\ IF ~call.err /\ DagIsReady(c) THEN stack' = [stack EXCEPT ![Master][Len(stack[Master])] = f]
           ELSE stack' = stack
    BY <1>1, <1>2 DEF GraphAddTaskDone, DagDone, InDag, SetTop, program, dagVars, schedVars, history
  <1>4. Building /\ c \in Tasks /\ call.n = task[c].nHard /\ call.err = FALSE
    <2>1. call \in CallSet
      BY DEF IInv, TypeOK
    <2> QED
      BY <2>1, <1>1, <1>3, Submitted DEF GraphAddTaskDone, CallSet
  <1>5. PICK p \in 0 .. UintMod - 1, n \in 0 .. UintMod - 1 : p = task[c].nPred /\ n = task[c].nHard
    BY <1>4, TaskTypes DEF IInv
  <1>6. p <= n /\ 3 * n < UintMod
    <2>1. Uncounted(c) = 0 /\ ~Overtaken(c)
      BY <1>3 DEF Uncounted, Overtaken
    <2>2. Counts /\ UintMod \in Nat
      BY BoundsAssumption DEF IInv
    <2>3. 3 * (n + 0) < UintMod
      BY <2>1, <2>2, <1>4, <1>5 DEF Counts
    <2> QED
      BY <2>1, <2>2, <2>3, <1>4, <1>5 DEF Counts
  <1>7. DagIsReady(c) <=> n = 0
    BY <1>4, <1>5, <1>6, ReadyTest DEF DagIsReady
  <1>8. CASE ~DagIsReady(c)
    <2>1. stack' = stack
      BY <1>3, <1>8
    <2>2. \A t \in Tasks : Pend(t) \subseteq Pend(t)'
      <3>1. \A x \in Tasks : \A s \in Seq(Tasks) : s # <<>> /\ Listed(x, s) => Listed(x, s)'
        BY <1>3, <2>1, ListsMaster
      <3> QED
        BY <3>1, PendKept
    <2>3. \A t \in Tasks : Loose(t) => Loose(t)'
      BY <1>3, <2>1 DEF Loose, InFrames
    <2>4. n > 0
      BY <1>5, <1>7, <1>8, BoundsAssumption
    <2>5. CASE team = {Master}
      <3>1. task[c].nPred > 0
        BY <2>4, <2>5, <1>1, <1>4, <1>5 DEF EdgeInv, AloneEven
      <3>2. EdgeInv'
        BY <3>1, <2>2, <2>3, <1>1, <1>3, DoneFlow
      <3> QED
        BY <3>2, <2>1, <1>3, MasterCount
    <2>6. CASE team # {Master}
      <3>1. MayBeLost(c)
        BY <2>4, <2>6, <1>4, <1>5 DEF EdgeInv, Pristine
      <3>2. EdgeInv'
        BY <3>1, <2>2, <2>3, <1>1, <1>3, DoneFlow
      <3> QED
        BY <3>2, <2>1, <1>3, MasterCount
    <2> QED
      BY <2>5, <2>6
  <1>9. CASE DagIsReady(c)
    <2>1. stack' = [stack EXCEPT ![Master][Len(stack[Master])] = f]
      BY <1>3, <1>4, <1>9
    <2>2. Master \in Executors /\ stack[Master] # <<>>
      BY ExecutorsAssumption DEF IInv, FrameShape, Shape
    <2>3. h \in FrameSet /\ h = stack[Master][Len(stack[Master])] /\ Len(stack[Master]) \in DOMAIN stack[Master]
      BY <2>2, <1>1, Tops DEF IInv
    <2>4. h.pc = "main" /\ h.todo = <<>> /\ h.counted = FALSE
      <3>1. Len(stack[Master]) = 1 /\ stack[Master][1].todo = <<>>
        BY <1>3 DEF IInv, FrameShape, Shape
      <3>2. h.counted => h.todo # <<>>
        BY <2>2, <2>3 DEF CountInv, HeadsCounted, HeadsIn
      <3>3. h.counted \in BOOLEAN
        BY <2>3 DEF FrameSet
      <3> QED
        BY <3>1, <3>2, <3>3, <2>2, <2>3 DEF IInv, FrameShape, Shape
    <2>5. /\ f \in FrameSet /\ f.task = h.task /\ f.pc = "main" /\ f.todo = <<c>> /\ f.counted = FALSE
      <3>1. PICK q \in Seq(Tasks) : q = <<c>>
        <4>1. <<c>> \in Seq(Tasks)
          BY <1>4
        <4> QED
          BY <4>1
      <3>2. f = [h EXCEPT !.todo = q]
        BY <3>1, <1>2
      <3>3. f \in FrameSet /\ f.task = h.task /\ f.pc = h.pc /\ f.todo = q /\ f.counted = h.counted
        BY <3>2, <2>3 DEF FrameSet
      <3> QED
        BY <3>1, <3>3, <2>4
    <2>6. TopSet(stack, stack', Master, f)
      <3>1. call'.pc = "idle"
        BY <1>3 DEF Idle
      <3> QED
        BY <3>1, <2>1, <2>2, <2>4, <2>5, <1>1, <1>3, TopStep DEF IInv
    <2>7. CountInv'
      <3>1. CountedBy(f) = CountedBy(h)
        BY <2>4, <2>5 DEF CountedBy
      <3>2. \A t \in Tasks : ended'[t] = 0 => ended[t] = 0
        BY <1>3
      <3> QED
        BY <3>1, <3>2, <2>2, <2>3, <2>5, <2>6, <1>3, TopCount
    <2>8. Hold(h) = <<>> /\ Hold(f) = <<c>> /\ c \in Elems(Hold(f)) /\ Elems(Hold(h)) = {}
      BY <2>4, <2>5 DEF Hold, Elems
    <2>9. Loose(c)' /\ \A t \in Tasks : Loose(t) => Loose(t)'
      <3>1. TypeOK /\ TypeOK'
        BY DEF IInv
      <3>2. \A t : HeldIn(stack, t) => HeldIn(stack', t)
        BY <2>2, <2>3, <2>6, <2>8, HeldTop
      <3>3. HeldIn(stack', c)
        BY <2>2, <2>3, <2>6, <2>8, HeldTop
      <3> QED
        BY <3>1, <3>2, <3>3, <1>3, HeldIs, HeldAfter
    <2>10. \A t \in Tasks : Pend(t) \subseteq Pend(t)'
      <3>1. \A x \in Executors : \A d \in DOMAIN stack[x] : stack[x][d].pc \in {"finish", "release"} =>
              d \in DOMAIN stack'[x] /\ stack'[x][d] = stack[x][d]
        BY <2>3, <2>4, <2>6 DEF TopSet
      <3>2. \A x \in Tasks : \A s \in Seq(Tasks) : s # <<>> /\ Listed(x, s) => Listed(x, s)'
        BY <3>1, <1>3, ListsStay
      <3> QED
        BY <3>2, PendKept
    <2>11. EdgeInv'
      BY <2>9, <2>10, <1>1, <1>3, DoneFlow
    <2> QED
      BY <2>7, <2>11
  <1> QED
    BY <1>8, <1>9

\* Master goes on to the next call, or nothing happens.
LEMMA SameFlow ==
    ASSUME IInv, IInv', CountInv, EdgeInv, ip' = ip \/ CallOver,
           prog' = prog, team' = team, call' = call, task' = task, entry' = entry, count' = count,
           queue' = queue, stack' = stack, begun' = begun, ended' = ended
    PROVE  CountInv' /\ EdgeInv'
  <1>1. /\ \A i : Adds(i) <=> Adds(i)'
        /\ \A u, t : MustPrecede(u, t) <=> MustPrecede(u, t)'
    BY OrderFixed
  <1>2. /\ \A i : Made(i) <=> Made(i)'
        /\ \A t : (Old(t) <=> Old(t)')
        /\ Building <=> Building'
    BY SubmittedSame DEF IInv
  <1>3. \A t : Loose(t) <=> Loose(t)'
    BY DEF Loose, InFrames
  <1>4. \A t : MayBeLost(t) <=> MayBeLost(t)'
    BY LostFixed
  <1>5. \A t : Uncounted(t) = Uncounted(t)'
    BY DEF Uncounted
  <1>6. \A t \in Tasks : Pend(t) \subseteq Pend(t)'
    <2>1. \A p \in Tasks : \A s \in Seq(Tasks) : s # <<>> /\ Listed(p, s) => Listed(p, s)'
      BY ListsMaster
    <2> QED
      BY <2>1, PendKept
  <1>7. Exact'
    <2> SUFFICES ASSUME team = {Master}, NEW t \in Tasks PROVE task[t].nPred + Uncounted(t) <= Cardinality(Pend(t)')
      BY <1>5 DEF Exact
    <2>1. PICK R, Q : R = Pend(t) /\ Q = Pend(t)'
      OBVIOUS
    <2>2. IsFiniteSet(R) /\ IsFiniteSet(Q) /\ R \subseteq Q
      BY <2>1, <1>6 DEF IInv, Counts
    <2>3. Cardinality(R) \in Nat /\ Cardinality(Q) \in Nat /\ Cardinality(R) <= Cardinality(Q)
      BY <2>2, FS_Subset, FS_CardinalityType
    <2>4. task[t].nPred + Uncounted(t) <= Cardinality(R)
      BY <2>1 DEF EdgeInv, Exact
    <2>5. UintMod \in Nat /\ task[t].nPred \in 0 .. UintMod - 1 /\ Uncounted(t) \in {0, 1}
      BY TaskTypes, BoundsAssumption DEF IInv
    <2>6. task[t].nPred + Uncounted(t) \in Nat
      BY <2>5
    <2> QED
      BY <2>1, <2>3, <2>4, <2>6
  <1>8. AloneEven' /\ OpsOrdered'
    BY <1>1, <1>2 DEF EdgeInv, AloneEven, OpsOrdered
  <1>9. Pristine'
    BY <1>2, <1>4 DEF EdgeInv, Pristine
  <1>10. ReadersAsked'
    <2>1. ReadersAsked
      BY DEF EdgeInv
    <2> QED
      BY <2>1, <1>2 DEF ReadersAsked
  <1>11. EdgesOrdered'
    BY <1>1 DEF EdgeInv, EdgesOrdered
  <1>12. NotLost'
    BY <1>2, <1>3, <1>4 DEF EdgeInv, NotLost
  <1> QED
    BY <1>7, <1>8, <1>9, <1>10, <1>11, <1>12, MasterCount DEF EdgeInv

\* The return of kupl_graph_wait leaves the tasks, their edges and the count alone.
LEMMA GraphWaitFlow == ASSUME IInv, IInv', CountInv, EdgeInv, GraphWait PROVE CountInv' /\ EdgeInv'
  <1>1. CallOver
    <2>1. ip \in Nat /\ ip >= 1 /\ Len(prog) \in Nat /\ DOMAIN prog = 1 .. Len(prog)
      BY Submissions DEF IInv, TypeOK
    <2> QED
      BY <2>1 DEF GraphWait, AtCall, CallOver
  <1>2. /\ prog' = prog /\ team' = team /\ call' = call /\ task' = task /\ entry' = entry /\ count' = count
        /\ queue' = queue /\ stack' = stack /\ begun' = begun /\ ended' = ended
    BY DEF GraphWait, program, dagVars, schedVars, history
  <1> QED
    BY <1>1, <1>2, SameFlow

\* So does kupl_graph_test.
LEMMA GraphTestFlow == ASSUME IInv, IInv', CountInv, EdgeInv, GraphTest PROVE CountInv' /\ EdgeInv'
  <1>1. CallOver
    <2>1. ip \in Nat /\ ip >= 1 /\ Len(prog) \in Nat /\ DOMAIN prog = 1 .. Len(prog)
      BY Submissions DEF IInv, TypeOK
    <2> QED
      BY <2>1 DEF GraphTest, AtCall, CallOver
  <1>2. CASE \E t \in Tasks : SchedExecuteTb(Master, t)
    <2>1. PICK t \in Tasks : SchedExecuteTb(Master, t)
      BY <1>2
    <2>2. Master \in Executors /\ call.pc = "idle"
      BY ExecutorsAssumption, <1>1 DEF CallOver
    <2> QED
      BY <1>1, <2>1, <2>2, SchedExecuteTbFlow
  <1>3. CASE UNCHANGED <<program, call, task, dagVars, count, alive, schedVars, stack, history>>
    <2>1. /\ prog' = prog /\ team' = team /\ call' = call /\ task' = task /\ entry' = entry /\ count' = count
          /\ queue' = queue /\ stack' = stack /\ begun' = begun /\ ended' = ended
      BY <1>3 DEF program, dagVars, schedVars, history
    <2> QED
      BY <1>1, <2>1, SameFlow
  <1> QED
    BY <1>2, <1>3 DEF GraphTest

-----------------------------------------------------------------------------
(* What a wait has waited for *)

\* A set of indices has a first one.
LEMMA Least == ASSUME NEW S \in SUBSET Nat, S # {} PROVE \E m \in S : \A k \in S : ~(k < m)
  <1>1. PICK R : R = OpToRel(<, Nat) /\ IsWellFoundedOn(R, Nat)
    BY NatLessThanWellFounded
  <1>2. \E x \in S : \A y \in S : ~(<<y, x>> \in R)
    BY <1>1, WFMin
  <1>3. \A x, y \in Nat : y < x => <<y, x>> \in R
    BY <1>1 DEF OpToRel
  <1> QED
    BY <1>2, <1>3

\* When the graph counts nothing no task is queued, held or running.
LEMMA NothingLeft ==
    ASSUME IInv, CountInv, AtCall("wait"), count["graph"] = 0
    PROVE  /\ \A t \in Tasks : ~Loose(t) /\ (begun[t] = 1 => ended[t] = 1)
           /\ \A e \in Executors : \A d \in DOMAIN stack[e] : stack[e][d].pc \notin {"finish", "release"}
  <1>1. PICK A : A = Active(queue, stack)
    OBVIOUS
  <1>2. A = {}
    <2>1. A \subseteq Tasks /\ \A t \in A : Known(t)
      BY <1>1, ActiveKnown DEF CountInv
    <2>2. IsFiniteSet(A)
      BY <2>1, FewTasks DEF CountInv
    <2>3. Cardinality(A) = 0
      BY <1>1 DEF CountInv, CountIs
    <2> QED
      BY <2>2, <2>3, FS_EmptySet
  <1>3. \A t \in Tasks : queue[t] # 1 /\ ~InSome(stack, t)
    BY <1>1, <1>2 DEF Active
  <1>4. ASSUME NEW e \in Executors, NEW d \in DOMAIN stack[e]
        PROVE  stack[e][d].pc \notin {"func", "finish", "release", "add"} /\ Elems(Hold(stack[e][d])) = {}
    <2>1. PICK f \in FrameSet : f = stack[e][d] /\ d \in Nat
      BY DEF IInv, TypeOK
    <2>2. f.pc = "main" <=> e = Master /\ d = 1
      BY <2>1 DEF IInv, FrameShape, Shape
    <2>3. f.pc # "main" => f.task \in Tasks
      BY <2>1 DEF IInv, FrameShape, Shape
    <2>4. f.pc \notin {"func", "finish", "release", "add"}
      BY <2>1, <2>3, <1>3 DEF InSome, CountedBy
    <2>5. CASE f.pc = "main"
      <3>1. stack[Master] # <<>> /\ Top(Master).pc = "main" /\ Top(Master).todo = <<>> /\ Master \in Executors
        BY ExecutorsAssumption DEF AtCall, At
      <3>2. Top(Master) = stack[Master][Len(stack[Master])] /\ Len(stack[Master]) \in DOMAIN stack[Master]
        BY <3>1, Tops DEF IInv
      <3>3. Len(stack[Master]) = 1
        BY <3>1, <3>2 DEF IInv, FrameShape, Shape
      <3>4. f.todo = <<>>
        BY <3>1, <3>2, <3>3, <2>1, <2>2, <2>5
      <3> QED
        BY <3>4, <2>1, <2>5 DEF Hold, Elems
    <2>6. CASE f.pc # "main"
      BY <2>1, <2>4, <2>6 DEF Hold, Elems
    <2> QED
      BY <2>1, <2>4, <2>5, <2>6
  <1>5. ASSUME NEW t \in Tasks PROVE ~Loose(t)
    <2>1. ~HeldIn(stack, t)
      BY <1>4 DEF HeldIn
    <2> QED
      BY <2>1, <1>3, HeldIs DEF IInv
  <1>6. ASSUME NEW t \in Tasks, begun[t] = 1 PROVE ended[t] = 1
    <2>1. ended[t] \in {0, 1}
      BY TaskTypes DEF IInv
    <2> QED
      BY <2>1, <1>3, <1>6 DEF CountInv, Going
  <1> QED
    BY <1>4, <1>5, <1>6

\* Then every task submitted has returned, or may be lost.
LEMMA WaitOver ==
    ASSUME IInv, CountInv, EdgeInv, AtCall("wait"), count["graph"] = 0, NEW j, j < ip, Adds(j)
    PROVE  ended[prog[j].task] = 1 \/ MayBeLost(prog[j].task)
  <1>1. call.pc = "idle"
    BY DEF AtCall
  <1>2. \A i : Adds(i) => i \in DOMAIN prog /\ i \in Nat /\ prog[i].task \in Tasks
    BY Submissions DEF IInv
  <1>3. ASSUME NEW i, i < ip, Adds(i), NEW t, t = prog[i].task, ended[t] = 0, ~MayBeLost(t)
        PROVE  task[t].nPred > 0 /\ t \in Tasks
    <2>1. t \in Tasks /\ Old(t)
      BY <1>2, <1>3 DEF Old, AddAt
    <2>2. begun[t] = 0 /\ ~Loose(t)
      BY <2>1, <1>3, NothingLeft, TaskTypes DEF IInv
    <2> QED
      BY <2>1, <2>2, <1>3 DEF EdgeInv, NotLost
  <1>4. ip \in Nat
    BY Submissions DEF IInv, TypeOK
  <1>5. CASE team # {Master}
    <2> SUFFICES ASSUME NEW t, t = prog[j].task, ended[t] = 0, ~MayBeLost(t) PROVE FALSE
      BY <1>2, TaskTypes DEF IInv
    <2>1. task[t].nPred > 0 /\ t \in Tasks
      BY <1>3
    <2>2. task[t].nHard = 0
      BY <2>1, <1>5 DEF EdgeInv, Pristine
    <2>3. ~Overtaken(t)
      BY <1>1 DEF Overtaken, Uncounted
    <2>4. task[t].nPred <= 0
      BY <2>1, <2>2, <2>3 DEF IInv, Counts
    <2>5. task[t].nPred \in 0 .. UintMod - 1 /\ UintMod \in Nat
      BY <2>1, TaskTypes, BoundsAssumption DEF IInv
    <2> QED
      BY <2>1, <2>4, <2>5
  <1>6. CASE team = {Master}
    <2> DEFINE S == {i \in Nat : i < ip /\ Adds(i) /\ ended[prog[i].task] = 0}
    <2> SUFFICES ASSUME S # {} PROVE FALSE
      <3>1. j \in Nat /\ prog[j].task \in Tasks
        BY <1>2
      <3>2. ended[prog[j].task] \in {0, 1}
        BY <3>1, TaskTypes DEF IInv
      <3> QED
        BY <3>1, <3>2
    <2>1. PICK i \in S : \A k \in S : ~(k < i)
      BY Least
    <2>2. PICK t : t = prog[i].task
      OBVIOUS
    <2>3. ~MayBeLost(t) /\ AddAt(i, t) /\ t \in Tasks
      BY <2>1, <2>2, <1>2, <1>6, LostFacts DEF AddAt
    <2>4. task[t].nPred > 0
      BY <2>1, <2>2, <2>3, <1>3
    <2>5. Pend(t) # {}
      <3> SUFFICES ASSUME Pend(t) = {} PROVE FALSE
        OBVIOUS
      <3>1. Uncounted(t) = 0
        BY <1>1 DEF Uncounted
      <3>2. Cardinality(Pend(t)) = 0
        BY FS_EmptySet
      <3>3. task[t].nPred + Uncounted(t) <= Cardinality(Pend(t))
        BY <2>3, <1>6 DEF EdgeInv, Exact
      <3>4. task[t].nPred \in 0 .. UintMod - 1 /\ UintMod \in Nat
        BY <2>3, TaskTypes, BoundsAssumption DEF IInv
      <3> QED
        BY <3>1, <3>2, <3>3, <3>4, <2>4
    <2>6. PICK p \in Tasks, k \in Nat, s \in Seq(Tasks) : Listed(p, s) /\ FromEnd(s, k, t)
      BY <2>5 DEF Pend, EdgeAt
    <2>7. s = task[p].succ /\ ended[p] = 0
      BY <2>6, NothingLeft DEF Listed, Waits
    <2>8. t \in Elems(task[p].succ)
      BY <2>6, <2>7 DEF FromEnd, Elems
    <2>9. MustPrecede(p, t)
      BY <2>8 DEF EdgeInv, EdgesOrdered
    <2>10. PICK m \in DOMAIN prog : m < i /\ AddAt(m, p)
      BY <2>3, <2>9, Precedence DEF IInv
    <2>11. m \in Nat /\ i \in Nat /\ m < ip /\ Adds(m) /\ prog[m].task = p
      BY <2>1, <2>10, <1>2, <1>4 DEF AddAt
    <2>12. m \in S
      BY <2>7, <2>11
    <2> QED
      BY <2>1, <2>10, <2>12
  <1> QED
    BY <1>5, <1>6

\* What a wait has waited for stays finished.
LEMMA WaitedOn ==
    ASSUME IInv, Waited, prog' = prog, team' = team, EndedKept,
           \A i \in DOMAIN prog : i < ip' /\ prog[i].op = "wait" => i < ip
    PROVE  Waited'
  <1>1. \A i : Adds(i) <=> Adds(i)'
    BY OrderFixed
  <1>2. \A t : MayBeLost(t) <=> MayBeLost(t)'
    BY LostFixed
  <1>3. \A i : Adds(i) => prog[i].task \in Tasks
    BY Submissions DEF IInv
  <1>4. ASSUME NEW i \in DOMAIN prog, NEW j \in DOMAIN prog, i < ip', prog[i].op = "wait", j < i, Adds(j)
        PROVE  ended'[prog[j].task] = 1 \/ MayBeLost(prog[j].task)
    <2>1. i < ip
      BY <1>4
    <2>2. ended[prog[j].task] = 1 \/ MayBeLost(prog[j].task)
      BY <2>1, <1>4 DEF Waited
    <2> QED
      BY <2>2, <1>3, <1>4 DEF EndedKept
  <1> QED
    BY <1>1, <1>2, <1>4 DEF Waited

\* The step of an executor: what has returned stays so, and Master's program too.
LEMMA ExecutorWaited == ASSUME IInv, IInv', Waited, NEW e \in Executors, ExecutorStep(e) PROVE Waited'
  <1>1. prog' = prog /\ team' = team /\ ip' = ip
    BY DEF ExecutorStep, SchedAddTbCount, SchedAddTbPush, ExecutorPoll, SchedExecuteTb, TaskExecute, SgraphTaskBody,
           TaskFinishStatic, TaskFinishDynamic, GnodeReleaseReady, TaskCountSub, TaskDeref, program
  <1>2. ended' = ended \/ TaskExecute(e)
    BY DEF ExecutorStep, SchedAddTbCount, SchedAddTbPush, ExecutorPoll, SchedExecuteTb, SgraphTaskBody,
           TaskFinishStatic, TaskFinishDynamic, GnodeReleaseReady, TaskCountSub, TaskDeref, history
  <1>3. EndedKept
    <2>1. CASE ended' = ended
      BY <2>1 DEF EndedKept
    <2>2. CASE TaskExecute(e)
      <3>1. PICK t : ended' = [ended EXCEPT ![t] = @ + 1]
        BY <2>2 DEF TaskExecute
      <3>2. ended \in [Tasks -> {0, 1}] /\ ended' \in [Tasks -> {0, 1}]
        BY DEF IInv, TypeOK
      <3>3. ASSUME NEW u \in Tasks, ended[u] = 1 PROVE ended'[u] = 1
        <4>1. ended'[u] = IF u = t THEN ended[u] + 1 ELSE ended[u]
          BY <3>1, <3>2
        <4>2. ended'[u] \in {0, 1}
          BY <3>2
        <4> QED
          BY <4>1, <4>2, <3>3
      <3> QED
        BY <3>3 DEF EndedKept
    <2> QED
      BY <2>1, <2>2, <1>2
  <1> QED
    BY <1>1, <1>3, WaitedOn

\* The program begins without a wait.
LEMMA StartWait == ASSUME Init, Disciplined, Few PROVE WaitInv
  <1>1. IInv
    BY Start
  <1>2. /\ ip = 1 /\ call = Idle /\ task = [t \in Tasks |-> NoTask] /\ entry = <<>>
        /\ queue = [t \in Tasks |-> 0] /\ count = [graph |-> 0, sgraph |-> 0]
        /\ stack = [e \in Executors |-> IF e = Master THEN <<Frame(None, "main", <<>>)>> ELSE <<>>]
        /\ begun = [t \in Tasks |-> 0]
    BY DEF Init
  <1>3. PICK f : f = Frame(None, "main", <<>>)
    OBVIOUS
  <1>4. f.pc = "main" /\ f.counted = FALSE /\ CountedBy(f) = {}
    BY <1>3 DEF Frame, CountedBy
  <1>5. \A e \in Executors : \A d \in DOMAIN stack[e] : stack[e][d] = f
    BY <1>2, <1>3
  <1>6. HeadsCounted /\ \A t \in Tasks : ~InSome(stack, t)
    BY <1>4, <1>5 DEF HeadsCounted, HeadsIn, InSome
  <1>7. Active(queue, stack) = {}
    BY <1>2, <1>6 DEF Active
  <1>8. CountIs
    <2>1. Cardinality(Active(queue, stack)) = 0
      BY <1>7, FS_EmptySet
    <2> QED
      BY <2>1, <1>2 DEF CountIs
  <1>9. CountInv
    BY <1>2, <1>6, <1>8 DEF CountInv, Going
  <1>10. \A t \in Tasks : task[t].nPred = 0 /\ task[t].nHard = 0 /\ task[t].succ = <<>>
    BY <1>2 DEF NoTask
  <1>11. call.pc = "idle" /\ ~Building
    BY <1>2 DEF Idle, Building
  <1>12. Exact
    <2> SUFFICES ASSUME NEW t \in Tasks PROVE task[t].nPred + Uncounted(t) <= Cardinality(Pend(t))
      BY DEF Exact
    <2>1. Uncounted(t) = 0
      BY <1>11 DEF Uncounted
    <2>2. Cardinality(Pend(t)) \in Nat
      BY <1>1, FS_CardinalityType DEF IInv, Counts
    <2> QED
      BY <2>1, <2>2, <1>10
  <1>13. AloneEven /\ Pristine /\ OpsOrdered
    BY <1>10, <1>11 DEF AloneEven, Pristine, OpsOrdered
  <1>14. ReadersAsked /\ EdgesOrdered
    BY <1>2, <1>10 DEF ReadersAsked, EdgesOrdered, Elems
  <1>15. \A i \in DOMAIN prog : ~(i < ip)
    BY <1>1, <1>2, Submissions DEF IInv
  <1>16. NotLost /\ Waited
    BY <1>15 DEF NotLost, Old, Waited
  <1> QED
    BY <1>9, <1>12, <1>13, <1>14, <1>16 DEF EdgeInv, WaitInv

\* Every step keeps it.
LEMMA NextWait == ASSUME IInv, IInv', RefInv, WaitInv, [Next]_vars PROVE WaitInv'
  <1>1. CountInv /\ EdgeInv /\ Waited
    BY DEF WaitInv
  <1>2. /\ ip \in Nat /\ Len(prog) \in Nat /\ DOMAIN prog = 1 .. Len(prog)
    BY Submissions DEF IInv, TypeOK
  <1>3. CASE DagStep
    <2>1. CountInv' /\ EdgeInv'
      BY <1>1, <1>3, NotHere, ProcessWriteFlow, ProcessReadFlow, NodeProcessDepOutFlow, GnodeRefFlow, GnodeDerefFlow,
         PrecedeFinishedFlow, PrecedeLocksFlow, GnodePrecedeInsertFlow, GnodePrecedeCountFlow, GraphAddTaskDoneFlow,
         DestroyDoneFlow DEF DagStep
    <2>2. prog' = prog /\ team' = team /\ ended' = ended
      BY <1>3 DEF DagStep, NodeProcessDep, NodeProcessDepError, NodeProcessDepOut, GnodeRef, GnodeDeref, GnodePrecedeLock,
                  GnodePrecedeInsert, GnodePrecedeCount, GraphAddTaskDone, SgraphAddDepDone, DestroyDone, program, history
    <2>3. ip' = ip \/ (ip' = ip + 1 /\ prog[ip].op # "wait")
      <3>1. ~SgraphAddDepDone
        BY NotHere
      <3> QED
        BY <3>1, <1>3 DEF DagStep, NodeProcessDep, NodeProcessDepError, NodeProcessDepOut, GnodeRef, GnodeDeref,
              GnodePrecedeLock, GnodePrecedeInsert, GnodePrecedeCount, GraphAddTaskDone, DestroyDone
    <2>4. \A i \in DOMAIN prog : i < ip' /\ prog[i].op = "wait" => i < ip
      BY <2>3, <1>2
    <2> QED
      BY <2>1, <2>2, <2>4, <1>1, WaitedOn DEF WaitInv, EndedKept
  <1>4. CASE CallStep /\ ~GraphWait
    <2>1. CountInv' /\ EdgeInv'
      BY <1>1, <1>4, NotHere, GraphAddTaskFlow, GraphDestroyFlow, GraphTestFlow DEF CallStep
    <2>2. GraphAddTask \/ GraphDestroy \/ GraphTest
      BY <1>4, NotHere DEF CallStep
    <2>3. prog' = prog /\ team' = team /\ ended' = ended
      BY <2>2 DEF GraphAddTask, GraphDestroy, GraphTest, SchedExecuteTb, program, history
    <2>4. ip' = ip \/ (ip' = ip + 1 /\ prog[ip].op # "wait")
      BY <2>2 DEF GraphAddTask, GraphDestroy, GraphTest, AtCall
    <2>5. \A i \in DOMAIN prog : i < ip' /\ prog[i].op = "wait" => i < ip
      BY <2>4, <1>2
    <2> QED
      BY <2>1, <2>3, <2>5, <1>1, WaitedOn DEF WaitInv, EndedKept
  <1>5. CASE GraphWait
    <2>1. CountInv' /\ EdgeInv'
      BY <1>1, <1>5, GraphWaitFlow
    <2>2. AtCall("wait") /\ count["graph"] = 0 /\ ip' = ip + 1 /\ prog' = prog /\ team' = team /\ ended' = ended
      BY <1>5 DEF GraphWait, program, history
    <2>3. ASSUME NEW i \in DOMAIN prog, NEW j \in DOMAIN prog, i < ip', prog[i].op = "wait", j < i, Adds(j)
          PROVE  ended[prog[j].task] = 1 \/ MayBeLost(prog[j].task)
      <3>1. i < ip \/ i = ip
        BY <2>2, <2>3, <1>2
      <3>2. CASE i < ip
        BY <3>2, <2>3, <1>1 DEF Waited
      <3>3. CASE i = ip
        BY <3>3, <2>2, <2>3, <1>1, WaitOver
      <3> QED
        BY <3>1, <3>2, <3>3
    <2>4. Waited'
      <3>1. \A i : Adds(i) <=> Adds(i)'
        BY <2>2, OrderFixed
      <3>2. \A t : MayBeLost(t) <=> MayBeLost(t)'
        BY <2>2, LostFixed
      <3> QED
        BY <3>1, <3>2, <2>2, <2>3 DEF Waited
    <2> QED
      BY <2>1, <2>4 DEF WaitInv
  <1>6. CASE \E e \in Executors : ExecutorStep(e)
    BY <1>1, <1>6, ExecutorFlow, ExecutorWaited DEF WaitInv
  <1>7. CASE UNCHANGED vars
    <2>1. /\ prog' = prog /\ team' = team /\ ip' = ip /\ call' = call /\ task' = task /\ entry' = entry /\ count' = count
          /\ queue' = queue /\ stack' = stack /\ begun' = begun /\ ended' = ended
      BY <1>7 DEF vars, program, dagVars, schedVars, history
    <2>2. CountInv' /\ EdgeInv'
      BY <2>1, <1>1, SameFlow
    <2>3. Waited'
      BY <2>1, <1>1, WaitedOn DEF EndedKept
    <2> QED
      BY <2>2, <2>3 DEF WaitInv
  <1> QED
    BY <1>3, <1>4, <1>5, <1>6, <1>7 DEF Next

\* A disciplined program asks for one run of each task.
LEMMA DueOnce ==
    ASSUME IInv, NEW i \in 1 .. (ip - 1), NEW t \in Tasks
    PROVE  Due(t, i) = 0 \/ (Due(t, i) = 1 /\ \E j \in DOMAIN prog : j < i /\ AddAt(j, t))
  <1>1. PICK D : D = {j \in 1 .. (i - 1) :
              IF Kind[t] = "static" THEN prog[j].op = "add_sgraph_task" /\ task[t].life # "none"
              ELSE prog[j].op \in {"add_task", "add_sgraph_task"} /\ prog[j].task = t /\ ~Rejected(prog[j])}
    OBVIOUS
  <1>2. Due(t, i) = Cardinality(D)
    BY <1>1 DEF Due
  <1>3. Len(prog) \in Nat /\ DOMAIN prog = 1 .. Len(prog) /\ ip \in 1 .. Len(prog) + 1
    BY Submissions DEF IInv, TypeOK
  <1>4. \A j \in D : j \in DOMAIN prog /\ j < i
    BY <1>1, <1>3
  <1>5. \A j \in D : AddAt(j, t)
    <2>1. \A j \in D : prog[j].op # "add_sgraph_task"
      BY <1>4, Submissions DEF IInv
    <2> QED
      BY <2>1, <1>1, <1>4 DEF AddAt, Adds
  <1>6. CASE D = {}
    BY <1>2, <1>6, FS_EmptySet
  <1>7. CASE D # {}
    <2>1. PICK j \in D : TRUE
      BY <1>7
    <2>2. \A k \in D : k = j
      BY <2>1, <1>5, Submissions DEF IInv, AddAt
    <2>3. D = {j}
      BY <2>1, <2>2
    <2> QED
      BY <2>1, <2>3, <1>2, <1>4, <1>5, FS_Singleton
  <1> QED
    BY <1>6, <1>7

\* What the waits have waited for is what WaitMeansFinished asks for.
LEMMA WaitSays == ASSUME IInv, Waited PROVE WaitMeansFinished
  <1> SUFFICES ASSUME NEW i \in 1 .. (ip - 1), prog[i].op = "wait", NEW t \in Tasks
               PROVE  ended[t] >= Due(t, i) \/ MayBeLost(t)
    BY DEF WaitMeansFinished
  <1>1. ended[t] \in {0, 1}
    BY TaskTypes DEF IInv
  <1>2. i \in DOMAIN prog /\ i < ip
    BY Submissions DEF IInv, TypeOK
  <1>3. CASE Due(t, i) = 0
    BY <1>1, <1>3
  <1>4. CASE Due(t, i) = 1 /\ \E j \in DOMAIN prog : j < i /\ AddAt(j, t)
    BY <1>1, <1>2, <1>4 DEF Waited, AddAt
  <1> QED
    BY <1>3, <1>4, DueOnce

-----------------------------------------------------------------------------
(* The specification *)

\* The invariant of the waits holds in every behaviour of a disciplined program
\* with fewer submissions than graph->count has values, under the conditions of
\* the order and the references: the graph counts exactly the tasks that are
\* queued, handed over or running, and a task that waits for others is counted
\* behind them.
THEOREM SpecWaitInv ==
    Spec /\ Disciplined /\ NamesOnce /\ Few /\ []RaceFree /\ []HeldByHash => [](IInv /\ RefInv /\ WaitInv)
  <1>1. Init /\ Disciplined /\ NamesOnce /\ Few => IInv /\ RefInv /\ WaitInv
    BY Start, StartRefInv, StartWait
  <1>2. IInv /\ RefInv /\ WaitInv /\ RaceFree /\ HeldByHash /\ [Next]_vars => IInv' /\ RefInv' /\ WaitInv'
    BY NextStep, NextRefs, NextWait
  <1> QED
    BY <1>1, <1>2, PTL DEF Spec

\* When kupl_graph_wait returns every task submitted before it has run, those that
\* a racing edge may lose apart: kupl_graph_wait reads zero only once nothing is
\* queued, running or about to be, since kupl_task_finish counts the successors it
\* releases before it uncounts the task (kupl_tb_count_add, kupl_tb_count_sub).
THEOREM SpecWaitMeansFinished ==
    Spec /\ Disciplined /\ NamesOnce /\ Few /\ []RaceFree /\ []HeldByHash => []WaitMeansFinished
  <1>1. IInv /\ RefInv /\ WaitInv => WaitMeansFinished
    BY WaitSays DEF WaitInv
  <1> QED
    BY <1>1, SpecWaitInv, PTL
=============================================================================
