-------------------------- MODULE QueueEventProofs --------------------------
(***************************************************************************)
(* For any number of executors, queues, events and items: a queue runs its *)
(* items once and in the order of their submission in every disciplined    *)
(* scenario; no item is lost, and a wait that has returned has really      *)
(* waited, in every scenario whose waits are disciplined.                  *)
(***************************************************************************)
EXTENDS QueueInvariant, TLAPS, FiniteSetTheorems, WellFoundedInduction

-----------------------------------------------------------------------------
(* Calls and frames *)

\* The calls of a scenario have the arguments their operation takes.
LEMMA CallTypes ==
    ASSUME TypeOK, NEW e \in Executors, NEW i \in DOMAIN Calls(e)
    PROVE  /\ i \in Nat /\ i <= Len(Calls(e)) /\ Calls(e)[i] \in CallSet
           /\ Calls(e)[i].op \in Submits \cup {"queue_wait_event"} \cup Creates
                 \cup {"queue_wait", "queue_destroy"} => Calls(e)[i].q \in Queues
           /\ Calls(e)[i].op \in Submits \cup {"queue_wait_event", "event_create", "event_destroy",
                 "event_query", "event_wait"} => Calls(e)[i].ev \in Events
           /\ Calls(e)[i].op = "queue_wait_event" => Calls(e)[i].wait \in Events
  <1>1. Calls(e) \in Seq(CallSet)
    BY ScenariosAssumption DEF TypeOK, Calls
  <1>2. i \in Nat /\ i <= Len(Calls(e)) /\ Calls(e)[i] \in CallSet
    BY <1>1
  <1> DEFINE c == Calls(e)[i]
  <1>3. /\ c.op \in Submits \cup {"queue_wait_event"} \cup Creates \cup {"queue_wait", "queue_destroy"} => c.q \in Queues
        /\ c.op \in Submits \cup {"queue_wait_event", "event_create", "event_destroy",
                 "event_query", "event_wait"} => c.ev \in Events
        /\ c.op = "queue_wait_event" => c.wait \in Events
    <2> c \in CallSet
      BY <1>2
    <2> HIDE DEF c
    <2> QED
      BY DEF CallSet, Submits, Creates
  <1> QED
    BY <1>2, <1>3

\* The items of the log.
LEMMA ItemTypes ==
    ASSUME TypeOK
    PROVE  /\ Items = 1 .. Len(log) /\ Len(log) \in Nat
           /\ \A k \in Items : /\ log[k] \in ItemSet /\ k \in Nat \ {0}
                               /\ log[k].by \in Executors /\ log[k].ev \in Events /\ log[k].q \in Queues
                               /\ log[k].at \in Nat /\ log[k].begun \in Int /\ log[k].ended \in Int
  <1>1. log \in Seq(ItemSet)
    BY DEF TypeOK
  <1>2. Items = 1 .. Len(log) /\ Len(log) \in Nat /\ \A k \in Items : log[k] \in ItemSet /\ k \in Nat \ {0}
    BY <1>1 DEF Items
  <1>3. \A it \in ItemSet : /\ it.by \in Executors /\ it.ev \in Events /\ it.q \in Queues
                           /\ it.at \in Nat /\ it.begun \in Int /\ it.ended \in Int
    BY DEF ItemSet
  <1> QED
    BY <1>2, <1>3

\* A call that is made is one of the program.
LEMMA CallMade ==
    ASSUME TypeOK, NEW e \in Executors, ip[e] <= Len(Calls(e))
    PROVE  ip[e] \in DOMAIN Calls(e)
  BY ScenariosAssumption DEF TypeOK, Calls

\* User code is at the bottom of the stack: an executor inside a call of the API
\* has nothing else on it.
LEMMA Tops ==
    ASSUME TypeOK, UserShape, RunShape, NEW e \in Executors
    PROVE  /\ stack[e] \in Seq(FrameSet) /\ Len(stack[e]) \in Nat \ {0}
           /\ Len(stack[e]) \in DOMAIN stack[e] /\ 1 \in DOMAIN stack[e] /\ DOMAIN stack[e] = 1 .. Len(stack[e])
           /\ Top(e) = stack[e][Len(stack[e])] /\ Top(e) \in FrameSet
           /\ Top(e).pc \in UserPcs => Len(stack[e]) = 1 /\ Top(e) = stack[e][1]
           /\ Top(e).pc \in RunPcs => Len(stack[e]) # 1 /\ RunFrame(Top(e))
  <1>1. stack[e] \in Seq(FrameSet) /\ stack[e] # <<>>
    BY DEF TypeOK, UserShape
  <1>2. /\ Len(stack[e]) \in Nat \ {0} /\ DOMAIN stack[e] = 1 .. Len(stack[e])
        /\ Len(stack[e]) \in DOMAIN stack[e] /\ 1 \in DOMAIN stack[e]
    BY <1>1
  <1>3. Top(e) = stack[e][Len(stack[e])] /\ Top(e) \in FrameSet
    BY <1>1, <1>2 DEF Top
  <1>4. UserFrame(stack[e][1]) /\ (Len(stack[e]) # 1 => RunFrame(Top(e)))
    BY <1>2, <1>3 DEF UserShape, RunShape
  <1>5. stack[e][1].pc \in UserPcs /\ (Len(stack[e]) # 1 => Top(e).pc \in RunPcs)
    BY <1>4 DEF UserFrame, RunFrame
  <1>6. \A c : ~(c \in UserPcs /\ c \in RunPcs)
    BY DEF UserPcs, RunPcs, EnqueuePcs, LockPcs
  <1> QED
    BY <1>1, <1>2, <1>3, <1>4, <1>5, <1>6

-----------------------------------------------------------------------------
(* What the steps do to the stacks *)

\* e, which is in user code, goes on in frame f.
UserMoves(e, f) ==
    /\ stack' \in [Executors -> Seq(FrameSet)]
    /\ DOMAIN stack[e] = {1} /\ DOMAIN stack'[e] = {1} /\ stack'[e] # <<>>
    /\ stack[e][1] = Top(e) /\ stack'[e][1] = f
    /\ \A x \in Executors : x # e => stack'[x] = stack[x]

\* The frame of the task that e runs becomes f.
RunMoves(e, f) ==
    /\ stack' \in [Executors -> Seq(FrameSet)]
    /\ Len(stack[e]) \in DOMAIN stack[e] /\ Len(stack[e]) # 1
    /\ stack[e][Len(stack[e])] = Top(e) /\ stack'[e][Len(stack[e])] = f
    /\ DOMAIN stack'[e] = DOMAIN stack[e] /\ 1 \in DOMAIN stack[e] /\ stack'[e] # <<>>
    /\ \A d \in DOMAIN stack[e] : d # Len(stack[e]) => stack'[e][d] = stack[e][d]
    /\ \A x \in Executors : x # e => stack'[x] = stack[x]

\* The frame of e becomes f and g is pushed on it.
Pushes(e, f, g) ==
    /\ stack' \in [Executors -> Seq(FrameSet)]
    /\ Len(stack[e]) \in DOMAIN stack[e] /\ 1 \in DOMAIN stack[e]
    /\ Len(stack[e]) + 1 # 1 /\ Len(stack[e]) + 1 \notin DOMAIN stack[e]
    /\ stack[e][Len(stack[e])] = Top(e) /\ stack'[e][Len(stack[e])] = f
    /\ stack'[e][Len(stack[e]) + 1] = g
    /\ DOMAIN stack'[e] = DOMAIN stack[e] \cup {Len(stack[e]) + 1} /\ stack'[e] # <<>>
    /\ \A d \in DOMAIN stack[e] : d # Len(stack[e]) => stack'[e][d] = stack[e][d]
    /\ \A x \in Executors : x # e => stack'[x] = stack[x]

\* The frame of the task that e ran is gone.
Pops(e) ==
    /\ stack' \in [Executors -> Seq(FrameSet)]
    /\ Len(stack[e]) \in DOMAIN stack[e] /\ Len(stack[e]) # 1
    /\ stack[e][Len(stack[e])] = Top(e)
    /\ DOMAIN stack'[e] = DOMAIN stack[e] \ {Len(stack[e])} /\ 1 \in DOMAIN stack[e] /\ stack'[e] # <<>>
    /\ \A d \in DOMAIN stack'[e] : stack'[e][d] = stack[e][d]
    /\ \A x \in Executors : x # e => stack'[x] = stack[x]

\* SetTop in user code and in a run.
LEMMA SetTopMoves ==
    ASSUME TypeOK, UserShape, RunShape, NEW e \in Executors, NEW f \in FrameSet, SetTop(e, f)
    PROVE  /\ Top(e).pc \in UserPcs => UserMoves(e, f)
           /\ Top(e).pc \in RunPcs => RunMoves(e, f)
  <1> DEFINE n == Len(stack[e])
  <1>1. /\ stack[e] \in Seq(FrameSet) /\ n \in Nat \ {0} /\ n \in DOMAIN stack[e] /\ 1 \in DOMAIN stack[e]
        /\ DOMAIN stack[e] = 1 .. n /\ stack[e][n] = Top(e)
        /\ Top(e).pc \in UserPcs => n = 1
        /\ Top(e).pc \in RunPcs => n # 1
    BY Tops
  <1>2. stack \in [Executors -> Seq(FrameSet)] /\ stack' = [stack EXCEPT ![e][n] = f]
    BY DEF TypeOK, SetTop
  <1>3. stack'[e] = [stack[e] EXCEPT ![n] = f] /\ \A x \in Executors : x # e => stack'[x] = stack[x]
    BY <1>2
  <1>4. /\ [stack[e] EXCEPT ![n] = f] \in Seq(FrameSet)
        /\ DOMAIN [stack[e] EXCEPT ![n] = f] = DOMAIN stack[e]
        /\ [stack[e] EXCEPT ![n] = f][n] = f
        /\ \A d \in DOMAIN stack[e] : d # n => [stack[e] EXCEPT ![n] = f][d] = stack[e][d]
    BY <1>1
  <1>5. stack' \in [Executors -> Seq(FrameSet)]
    BY <1>2, <1>3, <1>4
  <1>6. stack'[e] # <<>>
    BY <1>1, <1>3, <1>4
  <1>7. n = 1 => DOMAIN stack[e] = {1}
    BY <1>1
  <1> HIDE DEF n
  <1>8. ASSUME n = 1 PROVE UserMoves(e, f)
    BY <1>8, <1>1, <1>3, <1>4, <1>5, <1>6, <1>7 DEF UserMoves
  <1>9. ASSUME n # 1 PROVE RunMoves(e, f)
    BY <1>9, <1>1, <1>3, <1>4, <1>5, <1>6 DEF RunMoves, n
  <1> QED
    BY <1>1, <1>8, <1>9

\* A task is run on top of what its executor does.
LEMMA PushMoves ==
    ASSUME TypeOK, UserShape, RunShape, NEW e \in Executors, NEW f \in FrameSet, NEW g \in FrameSet,
           \/ stack' = [stack EXCEPT ![e] = Append([stack[e] EXCEPT ![Len(stack[e])] = f], g)]
           \/ f = Top(e) /\ stack' = [stack EXCEPT ![e] = Append(@, g)]
    PROVE  Pushes(e, f, g)
  <1> DEFINE n == Len(stack[e])
             s == [stack[e] EXCEPT ![n] = f]
  <1>1. /\ stack[e] \in Seq(FrameSet) /\ n \in Nat \ {0} /\ n \in DOMAIN stack[e] /\ 1 \in DOMAIN stack[e]
        /\ DOMAIN stack[e] = 1 .. n /\ stack[e][n] = Top(e)
    BY Tops
  <1>2. /\ s \in Seq(FrameSet) /\ DOMAIN s = DOMAIN stack[e] /\ Len(s) = n /\ s[n] = f
        /\ \A d \in DOMAIN stack[e] : d # n => s[d] = stack[e][d]
        /\ f = Top(e) => s = stack[e]
    BY <1>1
  <1>3. stack \in [Executors -> Seq(FrameSet)] /\ stack' = [stack EXCEPT ![e] = Append(s, g)]
    BY <1>2 DEF TypeOK
  <1> HIDE DEF s
  <1>4. stack'[e] = Append(s, g) /\ \A x \in Executors : x # e => stack'[x] = stack[x]
    BY <1>3
  <1>5. /\ Append(s, g) \in Seq(FrameSet) /\ DOMAIN Append(s, g) = 1 .. (n + 1)
        /\ Append(s, g)[n + 1] = g /\ \A d \in 1 .. n : Append(s, g)[d] = s[d]
        /\ Append(s, g) # <<>>
    BY <1>1, <1>2
  <1>6. stack' \in [Executors -> Seq(FrameSet)]
    BY <1>3, <1>5
  <1>7. DOMAIN Append(s, g) = DOMAIN stack[e] \cup {n + 1} /\ n + 1 \notin DOMAIN stack[e] /\ n + 1 # 1
    BY <1>1, <1>5
  <1> HIDE DEF n
  <1>8. stack'[e][n + 1] = g /\ stack'[e][n] = f /\ \A d \in DOMAIN stack[e] : d # n => stack'[e][d] = stack[e][d]
    BY <1>1, <1>2, <1>4, <1>5
  <1> QED
    BY <1>1, <1>4, <1>5, <1>6, <1>7, <1>8 DEF Pushes, n

\* The end of a run uncovers the frame below it.
LEMMA PopMoves ==
    ASSUME TypeOK, UserShape, RunShape, NEW e \in Executors, Top(e).pc \in RunPcs,
           stack' = [stack EXCEPT ![e] = SubSeq(@, 1, Len(@) - 1)]
    PROVE  Pops(e)
  <1> DEFINE n == Len(stack[e])
             s == SubSeq(stack[e], 1, n - 1)
  <1>1. /\ stack[e] \in Seq(FrameSet) /\ n \in Nat \ {0} /\ n # 1 /\ n \in DOMAIN stack[e] /\ 1 \in DOMAIN stack[e]
        /\ DOMAIN stack[e] = 1 .. n /\ stack[e][n] = Top(e)
    BY Tops
  <1>2. /\ s \in Seq(FrameSet) /\ Len(s) = n - 1 /\ \A d \in 1 .. (n - 1) : s[d] = stack[e][d]
    BY <1>1
  <1>3. DOMAIN s = DOMAIN stack[e] \ {n} /\ DOMAIN s = 1 .. (n - 1) /\ s # <<>>
    <2> HIDE DEF s
    <2>1. DOMAIN s = 1 .. (n - 1) /\ Len(s) # 0
      BY <1>1, <1>2
    <2> HIDE DEF n
    <2>2. 1 .. (n - 1) = (1 .. n) \ {n}
      BY <1>1
    <2> QED
      BY <2>1, <2>2, <1>1
  <1>4. stack \in [Executors -> Seq(FrameSet)] /\ stack' = [stack EXCEPT ![e] = s]
    BY DEF TypeOK
  <1> HIDE DEF s
  <1>5. stack'[e] = s /\ stack' \in [Executors -> Seq(FrameSet)] /\ \A x \in Executors : x # e => stack'[x] = stack[x]
    BY <1>2, <1>4
  <1> HIDE DEF n
  <1> QED
    BY <1>1, <1>2, <1>3, <1>5 DEF Pops, n

-----------------------------------------------------------------------------
(* What stays true while items are added and run *)

SameItem(x) == event'[x].item = event[x].item /\ event'[x].q = event[x].q
ItemsKept == \A x \in Events : Submitted(x) => SameItem(x)
ItemsSame == \A x \in Events : SameItem(x)

SameCall(k) == /\ log'[k].q = log[k].q /\ log'[k].ev = log[k].ev
               /\ log'[k].by = log[k].by /\ log'[k].at = log[k].at

\* Items are only added at the end, and never lose their return.
Grows ==
    /\ \A k \in Items : k \in Items' /\ SameCall(k) /\ (log[k].ended = 1 => log'[k].ended = 1)
    /\ \A k \in Items, i \in Items' : i \in Items \/ ~(i < k)

\* No item is added; an item run by its caller is left alone.
LogSame ==
    /\ Items' = Items
    /\ \A k \in Items : /\ SameCall(k) /\ (log[k].ended = 1 => log'[k].ended = 1)
                        /\ ~Submitted(log[k].ev) => log'[k] = log[k]

QueueSame(q) == queue'[q].lock = queue[q].lock /\ queue'[q].last = queue[q].last /\ queue'[q].sync = queue[q].sync

\* A queue may forget its last event once everything on it has run.
LastGone(q) == queue'[q].last = None /\ \A i \in Items : log[i].q = q => Busy(i) \/ log'[i].ended = 1
QueueKept(q) ==
    /\ queue'[q].lock = queue[q].lock /\ queue'[q].sync = queue[q].sync
    /\ queue'[q].last = queue[q].last \/ LastGone(q)

\* The user code of e is in the same part of the same call.
UserKept(e) ==
    /\ stack'[e] # <<>> /\ UserFrame(stack'[e][1])
    /\ stack'[e][1].pc \in EnqueuePcs <=> stack[e][1].pc \in EnqueuePcs
    /\ stack'[e][1].pc \in LockPcs <=> stack[e][1].pc \in LockPcs
    /\ stack[e][1].pc \in EnqueuePcs => stack'[e][1].ev = stack[e][1].ev /\ stack'[e][1].q = stack[e][1].q

\* Items that do not change number do not change order.
LEMMA SameGrows == LogSame => Grows
  BY DEF LogSame, Grows

\* The order of the items is settled when they are submitted.
LEMMA OrderKept ==
    ASSUME TypeOK, Numbered, Grows, ItemsKept, NEW x \in Events, NEW p \in Events
    PROVE  /\ Submitted(x) => Submitted(x)'
           /\ Submitted(x) /\ Cleared(x) => Cleared(x)'
           /\ Follows(x, p) => Follows(x, p)'
  <1>1. \A y \in Events : Submitted(y) => Submitted(y)' /\ SameItem(y) /\ event[y].item \in Items
    BY DEF ItemsKept, Submitted, SameItem, Numbered
  <1>2. ASSUME Submitted(x), NEW i \in Items', i < event'[x].item, log'[i].q = event'[x].q
        PROVE  i \in Items /\ i < event[x].item /\ log[i].q = event[x].q
    <2>1. event'[x].item = event[x].item /\ event'[x].q = event[x].q /\ event[x].item \in Items
      BY <1>1, <1>2 DEF SameItem
    <2>2. i \in Items
      BY <2>1, <1>2 DEF Grows
    <2> QED
      BY <2>1, <2>2, <1>2 DEF Grows, SameCall
  <1>3. ASSUME Submitted(x), Cleared(x) PROVE Cleared(x)'
    BY <1>2, <1>3 DEF Cleared, Grows
  <1>4. ASSUME Follows(x, p) PROVE Follows(x, p)'
    <2>1. Submitted(x) /\ Submitted(p)
      BY <1>4 DEF Follows
    <2>2. SameItem(x) /\ SameItem(p) /\ Submitted(x)' /\ Submitted(p)'
      BY <1>1, <2>1
    <2>3. \A i \in Items' : i < event'[x].item /\ log'[i].q = event'[x].q => i <= event'[p].item
      BY <1>2, <1>4, <2>1, <2>2 DEF Follows, SameItem
    <2> QED
      BY <1>4, <2>2, <2>3 DEF Follows, SameItem
  <1> QED
    BY <1>1, <1>3, <1>4

\* A step that leaves the calls, the queues and the list of items alone does not
\* disturb what is known of the calls.
LEMMA CallsKept ==
    ASSUME TypeOK, CallsInv, UNCHANGED users, \A e \in Executors : UserKept(e), ItemsSame, LogSame,
           \A q \in Queues : QueueKept(q)
    PROVE  CallsInv'
  <1> USE DEF LogSame, SameCall, ItemsSame, SameItem
  <1>1. UserShape'
    BY DEF CallsInv, UserShape, UserKept
  <1>2. scenario' = scenario /\ ip' = ip
    BY DEF users
  <1>3. \A k \in Items : log[k].by \in Executors /\ log[k].ev \in Events
    BY ItemTypes
  <1>4. \A k \in Items : Busy(k)' <=> Busy(k)
    BY <1>2 DEF Busy
  <1>5. InCall'
    <2> SUFFICES ASSUME NEW e \in Executors, stack[e][1].pc \in EnqueuePcs
                 PROVE  /\ ip[e] \in DOMAIN Calls(e) /\ Call(e).op \in Submits
                        /\ stack[e][1].ev = Call(e).ev /\ stack[e][1].q = Call(e).q
                        /\ event'[Call(e).ev].q = Call(e).q
                        /\ stack[e][1].pc \in LockPcs => event'[Call(e).ev].item # 0
      BY <1>2 DEF InCall, UserKept, Submitted, Call, Calls
    <2>1. ip[e] \in DOMAIN Calls(e) /\ Call(e).op \in Submits
      BY DEF CallsInv, InCall
    <2>2. Call(e).ev \in Events
      BY <2>1, CallTypes DEF Call
    <2> QED
      BY <2>1, <2>2 DEF CallsInv, InCall, Submitted
  <1>6. Logged'
    <2> SUFFICES ASSUME NEW k \in Items
                 PROVE  /\ log[k].at \in DOMAIN Calls(log[k].by) /\ log[k].at <= ip[log[k].by]
                        /\ Calls(log[k].by)[log[k].at].op \in Submits
                        /\ Calls(log[k].by)[log[k].at].q = log[k].q
                        /\ Calls(log[k].by)[log[k].at].ev = log[k].ev
                        /\ Busy(k) => stack'[log[k].by][1].pc \in LockPcs
      BY <1>2, <1>4 DEF Logged, Calls
    <2> QED
      BY <1>3 DEF CallsInv, Logged, UserKept
  <1>7. LoggedOnce'
    BY DEF CallsInv, LoggedOnce
  <1>8. Numbered'
    BY <1>3 DEF CallsInv, Numbered, Submitted
  <1>9. Locks'
    BY DEF CallsInv, Locks, UserKept, QueueKept, EnqueuePcs
  <1>10. BusyNewest'
    BY <1>4 DEF CallsInv, BusyNewest
  <1>11. LastNewest'
    <2>1. \A q \in Queues : queue[q].last # None => queue[q].last \in Events
      BY DEF TypeOK, QueueSet
    <2> SUFFICES ASSUME NEW q \in Queues
                 PROVE  /\ queue'[q].last = None => \A i \in Items : log[i].q = q => Busy(i) \/ log'[i].ended = 1
                        /\ queue'[q].last # None =>
                              /\ Submitted(queue'[q].last) /\ event[queue'[q].last].q = q
                              /\ queue'[q].last \in Events
                              /\ \A i \in Items : log[i].q = q => Busy(i) \/ i <= event[queue'[q].last].item
      BY <1>4 DEF LastNewest, Submitted
    <2>2. CASE queue'[q].last = queue[q].last
      BY <2>1, <2>2 DEF CallsInv, LastNewest
    <2>3. CASE LastGone(q)
      BY <2>3 DEF LastGone
    <2> QED
      BY <2>2, <2>3 DEF QueueKept
  <1>12. SyncRuns'
    <2> SUFFICES ASSUME NEW q \in Queues, queue[q].sync
                 PROVE  /\ q = SyncQueue
                        /\ \A i \in Items : log[i].q = q /\ Submitted(log[i].ev) => Calls(log[i].by)[log[i].at].op # "submit"
                        /\ \A e \in Executors : stack'[e][1].pc \in EnqueuePcs /\ stack'[e][1].q = q => Call(e).op # "submit"
      BY <1>2, <1>3 DEF SyncRuns, QueueKept, Submitted, Calls, Call
    <2> QED
      BY DEF CallsInv, SyncRuns, UserKept
  <1> QED
    BY <1>1, <1>5, <1>6, <1>7, <1>8, <1>9, <1>10, <1>11, <1>12 DEF CallsInv

\* The run of y has neither been handed over nor begun in this step.
Untouched(y) == ready'[y] = ready[y] /\ (NotBegun(y) => NotBegun(y)')
StillEnqueuing(e, y) == Enqueuing(e, y) /\ stack'[e][1].todo = stack[e][1].todo /\ Untouched(y)
StillChained(p, y) == Chained(p, y) /\ Untouched(y)
\* It is handed over in this step, to a place where it may be.
FineEnqueuing(e, y) ==
    /\ NotBegun(y)' /\ ready'[y] = 0
    /\ stack'[e][1].todo = <<>> => Cleared(y)'
    /\ \A p \in Events : (stack'[e][1].todo = <<p>> => Follows(y, p)') /\ ~Chained(p, y)'
FineChained(p, y) ==
    /\ NotBegun(y)' /\ Follows(y, p)' /\ ready'[y] = 0
    /\ \A e \in Executors : ~Enqueuing(e, y)'
FineReady(y) == \/ ready'[y] = ready[y] /\ Untouched(y)
                \/ ready'[y] = 1 /\ NotBegun(y)' /\ Cleared(y)'

\* A run that is not handed over is in the place where it was.
LEMMA OrdersKept ==
    ASSUME TypeOK, CallsInv, ChainInv, Grows, ItemsKept,
           \A e \in Executors, y \in Events : Enqueuing(e, y)' => StillEnqueuing(e, y) \/ FineEnqueuing(e, y),
           \A p, y \in Events : Chained(p, y)' => StillChained(p, y) \/ FineChained(p, y),
           \A y \in Events : ready'[y] # 0 => FineReady(y)
    PROVE  EnqueueOrder' /\ ChainOrder' /\ ReadyOrder'
  <1> Numbered /\ EnqueueOrder /\ ChainOrder /\ ReadyOrder
    BY DEF CallsInv, ChainInv
  <1>1. \A x, p \in Events : /\ Submitted(x) /\ Cleared(x) => Cleared(x)'
                             /\ Follows(x, p) => Follows(x, p)'
    BY OrderKept
  <1>2. \A x : NotBegun(x) => Submitted(x)
    BY DEF NotBegun
  <1>3. EnqueueOrder'
    <2> SUFFICES ASSUME NEW e \in Executors, NEW x \in Events, Enqueuing(e, x)'
                 PROVE  /\ NotBegun(x)' /\ ready'[x] = 0
                        /\ stack'[e][1].todo = <<>> => Cleared(x)'
                        /\ \A p \in Events : stack'[e][1].todo = <<p>> => Follows(x, p)'
                        /\ \A p \in Events : ~Chained(p, x)'
      BY DEF EnqueueOrder
    <2>0. CASE FineEnqueuing(e, x)
      BY <2>0 DEF FineEnqueuing
    <2> SUFFICES ASSUME StillEnqueuing(e, x)
                 PROVE  /\ NotBegun(x)' /\ ready'[x] = 0
                        /\ stack'[e][1].todo = <<>> => Cleared(x)'
                        /\ \A p \in Events : stack'[e][1].todo = <<p>> => Follows(x, p)'
                        /\ \A p \in Events : ~Chained(p, x)'
      BY <2>0
    <2>1. Enqueuing(e, x) /\ stack'[e][1].todo = stack[e][1].todo /\ Untouched(x)
      BY DEF StillEnqueuing
    <2>2. /\ NotBegun(x) /\ ready[x] = 0
          /\ stack[e][1].todo = <<>> => Cleared(x)
          /\ \A p \in Events : stack[e][1].todo = <<p>> => Follows(x, p)
          /\ \A p \in Events : ~Chained(p, x)
      BY <2>1 DEF EnqueueOrder
    <2>3. NotBegun(x)' /\ ready'[x] = 0
      BY <2>1, <2>2 DEF Untouched
    <2>4. \A p \in Events : ~Chained(p, x)'
      BY <2>2 DEF StillChained, FineChained
    <2> QED
      BY <1>1, <1>2, <2>1, <2>2, <2>3, <2>4
  <1>4. ChainOrder'
    <2> SUFFICES ASSUME NEW p \in Events, NEW x \in Events, Chained(p, x)'
                 PROVE  NotBegun(x)' /\ Follows(x, p)' /\ ready'[x] = 0
      BY DEF ChainOrder
    <2>0. CASE FineChained(p, x)
      BY <2>0 DEF FineChained
    <2> SUFFICES ASSUME StillChained(p, x) PROVE NotBegun(x)' /\ Follows(x, p)' /\ ready'[x] = 0
      BY <2>0
    <2>1. Chained(p, x) /\ Untouched(x)
      BY DEF StillChained
    <2>2. NotBegun(x) /\ Follows(x, p) /\ ready[x] = 0
      BY <2>1 DEF ChainOrder
    <2> QED
      BY <1>1, <2>1, <2>2 DEF Untouched
  <1>5. ReadyOrder'
    <2> SUFFICES ASSUME NEW x \in Events, ready'[x] # 0
                 PROVE  ready'[x] = 1 /\ NotBegun(x)' /\ Cleared(x)'
      BY DEF ReadyOrder
    <2>1. CASE ready'[x] = ready[x] /\ Untouched(x)
      <3>1. ready[x] = 1 /\ NotBegun(x) /\ Cleared(x)
        BY <2>1 DEF ReadyOrder
      <3> QED
        BY <1>1, <1>2, <2>1, <3>1 DEF Untouched
    <2> QED
      BY <2>1 DEF FineReady
  <1> QED
    BY <1>3, <1>4, <1>5

\* The item that begins, if any, has everything before it behind it.
BegunSame(j) == log'[j].begun = log[j].begun
LateBegin(j) == log'[j].begun = 1 /\ \A i \in Items' : i < j /\ log'[i].q = log'[j].q => log'[i].ended = 1

\* Items that ran in order still have.
LEMMA RunsKept ==
    ASSUME TypeOK, RunsInOrder, Counts, Grows, \A j \in Items' : (j \in Items /\ BegunSame(j)) \/ LateBegin(j) \/ log'[j].begun = 0,
           TypeOK'
    PROVE  RunsInOrder'
  <1> SUFFICES ASSUME NEW j \in Items'
               PROVE  /\ log'[j].begun <= 1
                      /\ log'[j].begun = 1 => \A i \in 1 .. (j - 1) : log'[i].q = log'[j].q => log'[i].ended = 1
    BY DEF RunsInOrder
  <1>1. Items' = 1 .. Len(log') /\ Len(log') \in Nat
    BY DEF TypeOK, Items
  <1>2. \A i \in 1 .. (j - 1) : i \in Items' /\ i < j
    BY <1>1
  <1>3. CASE j \in Items /\ BegunSame(j)
    <2>1. \A i \in Items' : i < j => i \in Items
      BY <1>3 DEF Grows
    <2>2. \A i \in Items : i < j => i \in 1 .. (j - 1)
      BY <1>3, ItemTypes
    <2>3. log[j].begun <= 1 /\ (log[j].begun = 1 => \A i \in 1 .. (j - 1) : log[i].q = log[j].q => log[i].ended = 1)
      BY <1>3 DEF RunsInOrder
    <2> QED
      BY <1>2, <1>3, <2>1, <2>3 DEF Grows, BegunSame, SameCall
  <1>4. CASE LateBegin(j)
    BY <1>4, <1>2 DEF LateBegin
  <1>5. CASE log'[j].begun = 0
    BY <1>5
  <1> QED
    BY <1>3, <1>4, <1>5

-----------------------------------------------------------------------------
(* Steps of user code *)

\* The frames of the tasks that run are left alone.
RunsSame ==
    \A e \in Executors : \A d : d # 1 => /\ d \in DOMAIN stack'[e] <=> d \in DOMAIN stack[e]
                                         /\ d \in DOMAIN stack[e] => stack'[e][d] = stack[e][d]

\* The task of p starts over.
Blank(p) == task'[p].succ = <<>> /\ ~task'[p].finished
TaskKept(p) == \/ task'[p].succ = task[p].succ /\ task'[p].finished = task[p].finished
               \/ ~Submitted(p) /\ Blank(p)

ItemSame(k) == log'[k].begun = log[k].begun /\ log'[k].ended = log[k].ended
NewItem(k) == k \notin Items /\ (\/ log'[k].begun = 0 /\ log'[k].ended = 0
                                 \/ LateBegin(k) /\ log'[k].ended = 1)

\* A step of user code leaves the stacks above it alone.
LEMMA UserRunsSame ==
    ASSUME NEW e \in Executors, NEW f, UserMoves(e, f)
    PROVE  RunsSame
  BY DEF UserMoves, RunsSame

\* What is on the frames of the runs.
LEMMA FramesSame ==
    ASSUME RunsSame
    PROVE  /\ \A e \in Executors, x \in Events : \A d : InFrame(e, d, x)' <=> InFrame(e, d, x)
           /\ \A p \in Events : AtFinish(p)' <=> AtFinish(p)
           /\ \A p, x \in Events : Fetched(p, x)' <=> Fetched(p, x)
  <1>1. \A e \in Executors, x \in Events : \A d : InFrame(e, d, x)' <=> InFrame(e, d, x)
    BY DEF RunsSame, InFrame
  <1>2. \A e \in Executors, x \in Events : \A d : InFrame(e, d, x) =>
            d \in DOMAIN stack[e] /\ d \in DOMAIN stack'[e] /\ stack'[e][d] = stack[e][d]
    BY DEF RunsSame, InFrame
  <1>3. ASSUME NEW p \in Events PROVE AtFinish(p)' <=> AtFinish(p)
    BY <1>1, <1>2 DEF AtFinish
  <1>4. ASSUME NEW p \in Events, NEW x \in Events PROVE Fetched(p, x)' <=> Fetched(p, x)
    BY <1>1, <1>2 DEF Fetched
  <1> QED
    BY <1>1, <1>3, <1>4

\* The runs are not disturbed.
LEMMA RunsUndisturbed ==
    ASSUME TypeOK, CallsInv, ChainInv, RunsSame, Grows, ItemsKept,
           \A p \in Events : Submitted(p) => task'[p].finished = task[p].finished,
           \A k \in Items : ItemSame(k)
    PROVE  RunShape' /\ FetchedOrder' /\ RunOrder' /\ OneRun'
  <1> RunShape /\ FetchedOrder /\ RunOrder /\ OneRun /\ ChainOrder /\ Numbered
    BY DEF ChainInv, CallsInv
  <1>1. RunShape' /\ OneRun'
    BY DEF RunShape, RunsSame, OneRun
  <1>2. \A x \in Events : Submitted(x) /\ Cleared(x) => Cleared(x)'
    BY OrderKept
  <1>3. FetchedOrder'
    <2> SUFFICES ASSUME NEW e \in Executors, NEW d \in DOMAIN stack[e], NEW x \in Events,
                        d # 1, stack[e][d].ready = <<x>>
                 PROVE  Cleared(x)'
      BY DEF FetchedOrder, RunsSame
    <2>1. stack[e][d].ev \in Events
      BY DEF RunShape, RunFrame
    <2>2. Chained(stack[e][d].ev, x)
      BY DEF Chained, Fetched, InFrame
    <2>3. Submitted(x)
      BY <2>1, <2>2 DEF ChainOrder, NotBegun
    <2> QED
      BY <1>2, <2>3 DEF FetchedOrder
  <1>4. RunOrder'
    <2> SUFFICES ASSUME NEW e \in Executors, NEW x \in Events, NEW d \in DOMAIN stack'[e], InFrame(e, d, x)'
                 PROVE  /\ Submitted(x)' /\ Cleared(x)'
                        /\ log'[event'[x].item].begun = 1
                        /\ log'[event'[x].item].ended = IF stack'[e][d].pc = "func" THEN 0 ELSE 1
                        /\ task'[x].finished <=> stack'[e][d].pc \in {"finish", "release", "add"}
      BY DEF RunOrder
    <2>1. InFrame(e, d, x) /\ stack'[e][d] = stack[e][d] /\ d \in DOMAIN stack[e]
      BY FramesSame DEF InFrame, RunsSame
    <2>2. /\ Submitted(x) /\ Cleared(x)
          /\ log[event[x].item].begun = 1
          /\ log[event[x].item].ended = IF stack[e][d].pc = "func" THEN 0 ELSE 1
          /\ task[x].finished <=> stack[e][d].pc \in {"finish", "release", "add"}
      BY <2>1 DEF RunOrder
    <2>3. event'[x].item = event[x].item /\ event[x].item \in Items
      BY <2>2 DEF ItemsKept, SameItem, Numbered
    <2>4. Submitted(x)'
      BY <2>2, <2>3 DEF Submitted
    <2> QED
      BY <1>2, <2>1, <2>2, <2>3, <2>4 DEF ItemSame
  <1> QED
    BY <1>1, <1>3, <1>4

\* A step of user code that hands over nothing.
LEMMA UserStepKept ==
    ASSUME TypeOK, CallsInv, ChainInv, TypeOK', RunsSame, Grows, ItemsKept, ready' = ready,
           \A p \in Events : TaskKept(p),
           \A k \in Items : ItemSame(k),
           \A k \in Items' : k \in Items \/ NewItem(k),
           \A e \in Executors, y \in Events :
               Enqueuing(e, y)' => \/ Enqueuing(e, y) /\ stack'[e][1].todo = stack[e][1].todo
                                   \/ FineEnqueuing(e, y)
    PROVE  ChainInv'
  <1> Numbered /\ Counts /\ FinishedRan /\ OneSuccessor /\ RunsInOrder
    BY DEF CallsInv, ChainInv
  <1>0. \A p \in Events, x \in Events : OnNode(p, x) => Submitted(p)
    BY DEF ChainInv, ChainOrder, Chained, Follows
  <1>1. \A y \in Events : Untouched(y)
    <2> SUFFICES ASSUME NEW y \in Events, NotBegun(y) PROVE NotBegun(y)'
      BY DEF Untouched
    <2>1. event'[y].item = event[y].item /\ event[y].item \in Items /\ event[y].item # 0
      BY DEF NotBegun, ItemsKept, SameItem, Numbered, Submitted
    <2> QED
      BY <2>1 DEF NotBegun, Submitted, ItemSame
  <1>2. \A p, y \in Events : Chained(p, y)' => StillChained(p, y)
    <2> SUFFICES ASSUME NEW p \in Events, NEW y \in Events, Chained(p, y)' PROVE Chained(p, y)
      BY <1>1 DEF StillChained
    <2>1. CASE Fetched(p, y)'
      BY <2>1, FramesSame DEF Chained
    <2>2. CASE OnNode(p, y)'
      <3>1. task'[p].succ # <<>>
        BY <2>2 DEF OnNode
      <3>2. task'[p].succ = task[p].succ /\ task'[p].finished = task[p].finished
        BY <3>1 DEF TaskKept, Blank
      <3> QED
        BY <2>2, <3>2, FramesSame DEF Chained, OnNode
    <2> QED
      BY <2>1, <2>2 DEF Chained
  <1>3. EnqueueOrder' /\ ChainOrder' /\ ReadyOrder'
    <2>1. \A y \in Events : ready'[y] # 0 => FineReady(y)
      BY <1>1 DEF FineReady
    <2>2. \A e \in Executors, y \in Events : Enqueuing(e, y)' => StillEnqueuing(e, y) \/ FineEnqueuing(e, y)
      BY <1>1 DEF StillEnqueuing
    <2> QED
      BY <1>2, <2>1, <2>2, OrdersKept
  <1>4. RunsInOrder'
    <2>1. \A j \in Items' : (j \in Items /\ BegunSame(j)) \/ LateBegin(j) \/ log'[j].begun = 0
      BY DEF NewItem, ItemSame, BegunSame
    <2> QED
      BY <2>1, RunsKept
  <1>5. Counts'
    BY DEF Counts, ItemSame, NewItem, LateBegin
  <1>6. OneSuccessor'
    <2> SUFFICES ASSUME NEW p \in Events, task'[p].finished => AtFinish(p)' PROVE Lone(task'[p].succ)
      BY DEF OneSuccessor, Lone
    <2>1. CASE task'[p].succ = <<>>
      BY <2>1 DEF Lone
    <2>2. CASE task'[p].succ = task[p].succ /\ task'[p].finished = task[p].finished
      BY <2>2, FramesSame DEF OneSuccessor
    <2> QED
      BY <2>1, <2>2 DEF TaskKept, Blank
  <1>8. FinishedRan'
    <2> SUFFICES ASSUME NEW p \in Events, task'[p].finished PROVE Submitted(p)' /\ log'[event'[p].item].ended = 1
      BY DEF FinishedRan
    <2>1. task[p].finished
      BY DEF TaskKept, Blank
    <2>2. Submitted(p) /\ log[event[p].item].ended = 1 /\ event[p].item \in Items
      BY <2>1 DEF FinishedRan, Numbered
    <2>3. event'[p].item = event[p].item
      BY <2>2 DEF ItemsKept, SameItem
    <2> QED
      BY <2>2, <2>3 DEF Submitted, ItemSame
  <1>7. RunShape' /\ FetchedOrder' /\ RunOrder' /\ OneRun'
    <2>1. \A p \in Events : Submitted(p) => task'[p].finished = task[p].finished
      BY DEF TaskKept
    <2> QED
      BY <2>1, RunsUndisturbed
  <1> QED
    BY <1>3, <1>4, <1>5, <1>6, <1>7, <1>8 DEF ChainInv

\* e is outside of an enqueue before the step and has no lock after it, in the same
\* call or the next.
Outside(e) ==
    /\ stack[e][1].pc \notin EnqueuePcs /\ stack'[e][1].pc \notin LockPcs
    /\ stack'[e] # <<>> /\ UserFrame(stack'[e][1])
    /\ \A x \in Executors : x # e => stack'[x] = stack[x]
    /\ scenario' = scenario
    /\ \/ ip' = ip
       \/ ip' = [ip EXCEPT ![e] = @ + 1]

\* No item of an executor outside of an enqueue is still being enqueued.
LEMMA NotBusy ==
    ASSUME TypeOK, Logged, NEW e \in Executors, Outside(e)
    PROVE  /\ \A k \in Items : log[k].by = e => log[k].at < ip[e] /\ log[k].at < ip'[e]
           /\ \A x \in Executors : x # e => ip'[x] = ip[x]
           /\ ip'[e] \in Nat /\ ip[e] <= ip'[e] /\ ip[e] \in Nat
  <1>1. ip \in [Executors -> Nat \ {0}]
    BY DEF TypeOK
  <1>2. /\ \A x \in Executors : x # e => ip'[x] = ip[x]
        /\ ip'[e] \in Nat /\ ip[e] <= ip'[e] /\ ip[e] \in Nat
    BY <1>1 DEF Outside
  <1>3. ASSUME NEW k \in Items, log[k].by = e PROVE log[k].at < ip[e] /\ log[k].at < ip'[e]
    <2>1. log[k].at <= ip[e] /\ log[k].at # ip[e] /\ log[k].at \in Nat
      BY <1>3, ItemTypes DEF Logged, Outside, Busy, EnqueuePcs
    <2> QED
      BY <1>2, <2>1
  <1> QED
    BY <1>2, <1>3

\* An event that has not been submitted, nor is about to be, may start over.
FreshItem(x) == /\ ~Submitted(x) /\ event'[x].item = 0
                /\ \A y \in Executors : stack[y][1].pc \in EnqueuePcs => Call(y).ev # x

\* The enqueue that e begins is that of its call.
Asks(e) ==
    /\ ip'[e] \in DOMAIN Calls(e) /\ Calls(e)[ip'[e]].op \in Submits
    /\ stack'[e][1].ev = Calls(e)[ip'[e]].ev /\ stack'[e][1].q = Calls(e)[ip'[e]].q
    /\ event'[Calls(e)[ip'[e]].ev].q = Calls(e)[ip'[e]].q
    /\ queue'[Calls(e)[ip'[e]].q].sync => Calls(e)[ip'[e]].op # "submit"

\* A queue without items may be made anew.
FreshQ(q) ==
    /\ \A k \in Items : log[k].q # q
    /\ \A y \in Executors : stack[y][1].pc \in EnqueuePcs => stack[y][1].q # q
    /\ queue'[q].lock = None /\ queue'[q].last = None
    /\ queue'[q].sync => q = SyncQueue

\* What is known of the calls, after a step outside of an enqueue or into it.
LEMMA QuietCalls ==
    ASSUME TypeOK, CallsInv, NEW e \in Executors, Outside(e), log' = log,
           stack'[e][1].pc \in EnqueuePcs => Asks(e),
           \A x \in Events : SameItem(x) \/ FreshItem(x),
           \A q \in Queues : QueueSame(q) \/ FreshQ(q)
    PROVE  CallsInv'
  <1>0. \A x \in Events : event'[x].item = event[x].item /\ (Submitted(x) => event'[x].q = event[x].q)
    BY DEF SameItem, FreshItem, Submitted
  <1> UserShape /\ InCall /\ Logged /\ LoggedOnce /\ Numbered /\ Locks /\ BusyNewest /\ LastNewest /\ SyncRuns
    BY DEF CallsInv
  <1>1. UserShape'
    BY DEF UserShape, Outside
  <1>2. Items' = Items /\ scenario' = scenario /\ \A x : Calls(x)' = Calls(x)
    BY DEF Items, Outside, Calls
  <1>3. \A k \in Items : log[k].by \in Executors /\ log[k].ev \in Events /\ log[k].at \in Nat /\ log[k].q \in Queues
    BY ItemTypes
  <1>4. \A k \in Items : Busy(k)' <=> Busy(k)
    BY <1>3, NotBusy DEF Busy
  <1>5. InCall'
    <2> SUFFICES ASSUME NEW x \in Executors, stack'[x][1].pc \in EnqueuePcs
                 PROVE  /\ ip'[x] \in DOMAIN Calls(x) /\ Calls(x)[ip'[x]].op \in Submits
                        /\ stack'[x][1].ev = Calls(x)[ip'[x]].ev /\ stack'[x][1].q = Calls(x)[ip'[x]].q
                        /\ event'[Calls(x)[ip'[x]].ev].q = Calls(x)[ip'[x]].q
                        /\ stack'[x][1].pc \in LockPcs => event'[Calls(x)[ip'[x]].ev].item # 0
      BY <1>2 DEF InCall, Submitted, Call
    <2>1. CASE x # e
      <3>1. stack'[x] = stack[x] /\ ip'[x] = ip[x]
        BY <2>1, NotBusy DEF Outside
      <3>2. ip[x] \in DOMAIN Calls(x) /\ Call(x).op \in Submits
        BY <3>1 DEF InCall
      <3>3. Call(x).ev \in Events
        BY <3>2, CallTypes DEF Call
      <3>4. SameItem(Call(x).ev)
        BY <3>1, <3>3 DEF FreshItem
      <3> QED
        BY <3>1, <3>2, <3>3, <3>4 DEF InCall, Submitted, Call, SameItem
    <2>2. CASE x = e
      BY <2>2 DEF Asks, Outside
    <2> QED
      BY <2>1, <2>2
  <1>6. Logged'
    <2> SUFFICES ASSUME NEW k \in Items
                 PROVE  log[k].at <= ip'[log[k].by] /\ (Busy(k) => stack'[log[k].by][1].pc \in LockPcs)
      BY <1>2, <1>4 DEF Logged
    <2>1. CASE log[k].by = e
      <3>1. log[k].at < ip[e] /\ log[k].at < ip'[e]
        BY <2>1, NotBusy
      <3>2. log[k].at \in Nat /\ ip[e] \in Nat /\ ip'[e] \in Nat
        BY <1>3, NotBusy
      <3> QED
        BY <2>1, <3>1, <3>2 DEF Busy
    <2>2. CASE log[k].by # e
      BY <2>2, <1>3, NotBusy DEF Logged, Outside
    <2> QED
      BY <2>1, <2>2
  <1>7. LoggedOnce' /\ BusyNewest'
    BY <1>2, <1>4 DEF LoggedOnce, BusyNewest
  <1>8. Numbered'
    BY <1>0, <1>2, <1>3 DEF Numbered, Submitted
  <1>9. Locks'
    <2> SUFFICES ASSUME NEW q \in Queues, NEW x \in Executors
                 PROVE  queue'[q].lock = x <=> stack'[x][1].pc \in LockPcs /\ stack'[x][1].q = q
      BY DEF Locks
    <2>1. CASE QueueSame(q)
      BY <2>1 DEF Locks, Outside, QueueSame, EnqueuePcs
    <2>2. CASE FreshQ(q)
      BY <2>2, NamesAssumption DEF Outside, FreshQ, EnqueuePcs
    <2> QED
      BY <2>1, <2>2
  <1>10. LastNewest'
    <2>1. \A q \in Queues : queue[q].last # None => queue[q].last \in Events
      BY DEF TypeOK, QueueSet
    <2> QED
      BY <1>0, <1>2, <1>4, <2>1 DEF LastNewest, QueueSame, FreshQ, Submitted
  <1>11. SyncRuns'
    <2> SUFFICES ASSUME NEW q \in Queues, queue'[q].sync
                 PROVE  /\ q = SyncQueue
                        /\ \A i \in Items : log[i].q = q /\ Submitted(log[i].ev) => Calls(log[i].by)[log[i].at].op # "submit"
                        /\ \A x \in Executors : stack'[x][1].pc \in EnqueuePcs /\ stack'[x][1].q = q =>
                              Calls(x)[ip'[x]].op # "submit"
      BY <1>0, <1>2, <1>3 DEF SyncRuns, Submitted, Call
    <2>1. \A x \in Executors : x # e => stack'[x] = stack[x] /\ Calls(x)[ip'[x]] = Call(x)
      BY NotBusy DEF Outside, Call
    <2>2. stack'[e][1].pc \in EnqueuePcs /\ stack'[e][1].q = q => Calls(e)[ip'[e]].op # "submit"
      BY DEF Asks
    <2>3. CASE QueueSame(q)
      BY <2>1, <2>2, <2>3 DEF SyncRuns, QueueSame
    <2>4. CASE FreshQ(q)
      BY <2>1, <2>2, <2>4 DEF FreshQ
    <2> QED
      BY <2>3, <2>4
  <1> QED
    BY <1>1, <1>5, <1>6, <1>7, <1>8, <1>9, <1>10, <1>11 DEF CallsInv

TaskSame(p) == task'[p].succ = task[p].succ /\ task'[p].finished = task[p].finished

\* A step outside of an enqueue, or into it, that touches no item, no lock and no
\* edge, except those of an event that starts over.
LEMMA FreshStep ==
    ASSUME Inv, TypeOK', NEW e \in Executors, Outside(e), RunsSame, log' = log, ready' = ready,
           stack'[e][1].pc \in EnqueuePcs => Asks(e),
           \A x \in Events : (SameItem(x) /\ TaskSame(x)) \/ (FreshItem(x) /\ Blank(x)),
           \A q \in Queues : QueueSame(q) \/ FreshQ(q)
    PROVE  Inv'
  <1> TypeOK /\ CallsInv /\ ChainInv /\ Disciplined(scenario)
    BY DEF Inv
  <1>1. CallsInv'
    BY QuietCalls
  <1>2. Grows /\ Items' = Items
    BY DEF Grows, Items, SameCall
  <1>3. ItemsKept
    BY DEF ItemsKept, FreshItem
  <1>4. \A k \in Items : ItemSame(k)
    BY DEF ItemSame
  <1>5. \A k \in Items' : k \in Items \/ NewItem(k)
    BY <1>2
  <1>6. \A p \in Events : TaskKept(p)
    BY DEF TaskSame, TaskKept, FreshItem
  <1>7. \A x \in Executors, y \in Events :
            Enqueuing(x, y)' => Enqueuing(x, y) /\ stack'[x][1].todo = stack[x][1].todo
    BY DEF Enqueuing, Outside, EnqueuePcs, LockPcs
  <1>8. ChainInv'
    BY <1>2, <1>3, <1>4, <1>5, <1>6, <1>7, UserStepKept
  <1>9. Disciplined(scenario)'
    BY DEF Outside
  <1> QED
    BY <1>1, <1>8, <1>9 DEF Inv

\* A step outside of an enqueue that touches no item, no lock and no edge.
LEMMA QuietStep ==
    ASSUME Inv, TypeOK', NEW e \in Executors, Outside(e), RunsSame, ItemsSame, log' = log, ready' = ready,
           stack'[e][1].pc \notin EnqueuePcs,
           \A q \in Queues : QueueSame(q), \A p \in Events : TaskSame(p)
    PROVE  Inv'
  BY FreshStep DEF ItemsSame

\* An executor that makes a call is at the bottom of its stack.
LEMMA AtCallFacts ==
    ASSUME Inv, NEW e \in Executors, NEW op, AtCall(e, op)
    PROVE  /\ ip[e] \in DOMAIN Calls(e) /\ Call(e) = Calls(e)[ip[e]] /\ Call(e).op = op
           /\ Top(e).pc = "call" /\ Top(e).pc \in UserPcs /\ stack[e][1] = Top(e)
           /\ op # "queue_wait_event"
  <1>1. Top(e).pc = "call" /\ Top(e).pc \in UserPcs
    BY DEF AtCall, At, UserPcs
  <1>2. stack[e][1] = Top(e)
    BY <1>1, Tops DEF Inv, CallsInv, ChainInv
  <1>3. ip[e] \in DOMAIN Calls(e) /\ Call(e) = Calls(e)[ip[e]] /\ Call(e).op = op
    BY CallMade DEF AtCall, Inv, Call
  <1>4. Agree(scenario, e, ip[e], e, ip[e])
    BY <1>3 DEF Inv, Disciplined, Calls
  <1>5. op # "queue_wait_event"
    BY <1>3, <1>4 DEF Agree, Calls
  <1> QED
    BY <1>1, <1>2, <1>3, <1>5

\* The frame of user code outside of the calls.
LEMMA UserType ==
    /\ User \in FrameSet /\ User.pc = "call" /\ UserFrame(User)
    /\ \A f \in FrameSet : f.pc \in {"call", "twait", "qwait"} => UserFrame(f) /\ f.pc \notin EnqueuePcs
  <1>1. User \in FrameSet
    BY DEF User, FrameSet, UserPcs
  <1>2. \A f \in FrameSet : f.pc \in {"call", "twait", "qwait"} => UserFrame(f) /\ f.pc \notin EnqueuePcs
    BY DEF UserFrame, EnqueuePcs, LockPcs, UserPcs
  <1>3. User.pc = "call"
    BY DEF User
  <1> QED
    BY <1>1, <1>2, <1>3

\* Dropping a reference changes no more than the count and the life.
LEMMA DerefType ==
    /\ \A x \in EventSet : Deref(x) \in EventSet /\ Deref(x).item = x.item /\ Deref(x).q = x.q
    /\ \A x \in TaskSet : Deref(x) \in TaskSet /\ Deref(x).succ = x.succ /\ Deref(x).finished = x.finished
  <1>1. ASSUME NEW x \in EventSet PROVE Deref(x) \in EventSet /\ Deref(x).item = x.item /\ Deref(x).q = x.q
    <2> DEFINE r == x.ref - 1
               l == IF x.ref = 1 THEN "freed" ELSE x.life
    <2>1. r \in Int /\ l \in Lives
      BY <1>1 DEF EventSet, Lives
    <2>2. Deref(x) = [x EXCEPT !.ref = r, !.life = l]
      BY DEF Deref
    <2> HIDE DEF r, l
    <2> QED
      BY <2>1, <2>2 DEF EventSet
  <1>2. ASSUME NEW x \in TaskSet PROVE Deref(x) \in TaskSet
    <2> DEFINE r == x.ref - 1
               l == IF x.ref = 1 THEN "freed" ELSE x.life
    <2>1. r \in Int /\ l \in Lives
      BY <1>2 DEF TaskSet, Lives
    <2>2. Deref(x) = [x EXCEPT !.ref = r, !.life = l]
      BY DEF Deref
    <2> HIDE DEF r, l
    <2> QED
      BY <2>1, <2>2 DEF TaskSet
  <1>3. ASSUME NEW x \in TaskSet PROVE Deref(x).succ = x.succ /\ Deref(x).finished = x.finished
    BY <1>3 DEF Deref, TaskSet
  <1> QED
    BY <1>1, <1>2, <1>3

\* kupl_event_deref, on an event that may have changed otherwise.
LEMMA EventDerefType ==
    ASSUME TypeOK, NEW ev \in Events, NEW x \in EventSet, x.item = event[ev].item, x.q = event[ev].q,
           EventDeref(ev, x)
    PROVE  /\ event' \in [Events -> EventSet] /\ task' \in [Events -> TaskSet]
           /\ ItemsSame /\ \A p \in Events : TaskSame(p)
  <1>1. event \in [Events -> EventSet] /\ task \in [Events -> TaskSet]
    BY DEF TypeOK
  <1>2. event' = [event EXCEPT ![ev] = Deref(x)]
    BY DEF EventDeref
  <1>3. task' = task \/ task' = [task EXCEPT ![ev] = Deref(task[ev])]
    BY DEF EventDeref
  <1>4. event' \in [Events -> EventSet] /\ ItemsSame
    BY <1>1, <1>2, DerefType DEF ItemsSame, SameItem
  <1>5. task' \in [Events -> TaskSet] /\ \A p \in Events : TaskSame(p)
    BY <1>1, <1>3, DerefType DEF TaskSame
  <1> QED
    BY <1>4, <1>5

\* A call that returns at once.
LEMMA ReturnsAtOnce ==
    ASSUME Inv, NEW e \in Executors, NEW op, AtCall(e, op), Return(e), stack' = stack
    PROVE  /\ Outside(e) /\ RunsSame /\ scenario' = scenario /\ ip' \in [Executors -> Nat \ {0}]
           /\ stack'[e][1].pc \notin EnqueuePcs
  <1>1. stack[e][1].pc = "call"
    BY AtCallFacts
  <1>2. stack[e] # <<>> /\ UserFrame(stack[e][1])
    BY DEF Inv, CallsInv, UserShape
  <1>3. scenario' = scenario /\ ip' = [ip EXCEPT ![e] = @ + 1]
    BY DEF Return
  <1>4. ip' \in [Executors -> Nat \ {0}]
    BY <1>3 DEF Inv, TypeOK
  <1>5. Outside(e)
    BY <1>1, <1>2, <1>3 DEF Outside, EnqueuePcs, LockPcs
  <1>6. RunsSame
    BY DEF RunsSame
  <1> QED
    BY <1>1, <1>3, <1>4, <1>5, <1>6 DEF EnqueuePcs, LockPcs

\* User code that goes on outside of an enqueue.
LEMMA MovesOutside ==
    ASSUME Inv, NEW e \in Executors, NEW f \in FrameSet, SetTop(e, f),
           Top(e).pc \in {"call", "twait", "qwait"}, f.pc \in {"call", "twait", "qwait"},
           UNCHANGED users \/ Return(e)
    PROVE  /\ Outside(e) /\ RunsSame /\ scenario' = scenario /\ ip' \in [Executors -> Nat \ {0}]
           /\ stack' \in [Executors -> Seq(FrameSet)] /\ stack'[e][1].pc \notin EnqueuePcs
  <1>1. UserMoves(e, f)
    BY SetTopMoves DEF Inv, CallsInv, ChainInv, UserPcs
  <1>2. RunsSame
    BY <1>1, UserRunsSame
  <1>3. scenario' = scenario /\ (ip' = ip \/ ip' = [ip EXCEPT ![e] = @ + 1])
    BY DEF Return, users
  <1>4. ip' \in [Executors -> Nat \ {0}]
    <2> ip \in [Executors -> Nat \ {0}]
      BY DEF Inv, TypeOK
    <2> QED
      BY <1>3
  <1>5. UserFrame(f) /\ f.pc \notin EnqueuePcs /\ Top(e).pc \notin EnqueuePcs
    BY UserType DEF EnqueuePcs, LockPcs
  <1>6. Outside(e)
    BY <1>1, <1>3, <1>5 DEF Outside, UserMoves, EnqueuePcs
  <1> QED
    BY <1>1, <1>2, <1>3, <1>4, <1>5, <1>6 DEF UserMoves

\* KUPL_ERROR, a poll of an event, and the end of the program touch nothing.
LEMMA RefusedStep == ASSUME Inv, NEW e \in Executors, Refused(e) \/ EventQuery(e) \/ GraphWait(e)
                     PROVE  Inv'
  <1>1. PICK op : AtCall(e, op)
    BY DEF Refused, EventQuery, GraphWait
  <1>2. Return(e) /\ UNCHANGED <<stack, queue, event, task, sched, log>>
    BY DEF Refused, EventQuery, GraphWait
  <1>3. Outside(e) /\ RunsSame /\ scenario' = scenario /\ ip' \in [Executors -> Nat \ {0}]
        /\ stack'[e][1].pc \notin EnqueuePcs
    BY <1>1, <1>2, ReturnsAtOnce
  <1>4. TypeOK'
    BY <1>2, <1>3 DEF Inv, TypeOK, sched
  <1> QED
    BY <1>2, <1>3, <1>4, QuietStep DEF ItemsSame, SameItem, QueueSame, TaskSame, sched

\* kupl_event_destroy drops a reference.
LEMMA EventDestroyStep == ASSUME Inv, NEW e \in Executors, EventDestroy(e) PROVE Inv'
  <1>1. AtCall(e, "event_destroy") /\ Return(e) /\ stack' = stack
    BY DEF EventDestroy
  <1>2. Outside(e) /\ RunsSame /\ scenario' = scenario /\ ip' \in [Executors -> Nat \ {0}]
        /\ stack'[e][1].pc \notin EnqueuePcs
    BY <1>1, ReturnsAtOnce
  <1>3. TypeOK
    BY DEF Inv
  <1>4. Call(e).ev \in Events
    BY <1>1, <1>3, AtCallFacts, CallTypes
  <1>5. event[Call(e).ev] \in EventSet
    BY <1>3, <1>4 DEF TypeOK
  <1>6. /\ event' \in [Events -> EventSet] /\ task' \in [Events -> TaskSet]
        /\ ItemsSame /\ \A p \in Events : TaskSame(p)
    BY <1>3, <1>4, <1>5, EventDerefType DEF EventDestroy
  <1>7. UNCHANGED <<stack, queue, sched, log>>
    BY DEF EventDestroy
  <1>8. TypeOK'
    BY <1>2, <1>3, <1>6, <1>7 DEF TypeOK, sched
  <1> QED
    BY <1>2, <1>6, <1>7, <1>8, QuietStep DEF QueueSame, sched

\* kupl_event_wait goes to kupl_task_wait.
LEMMA EventWaitStep == ASSUME Inv, NEW e \in Executors, EventWait(e) PROVE Inv'
  <1> DEFINE f == [User EXCEPT !.pc = "twait", !.ev = Call(e).ev]
  <1>1. AtCall(e, "event_wait") /\ SetTop(e, f) /\ UNCHANGED <<users, queue, event, task, sched, log>>
    BY DEF EventWait
  <1>2. TypeOK
    BY DEF Inv
  <1>3. Call(e).ev \in Events /\ Top(e).pc = "call"
    BY <1>1, <1>2, AtCallFacts, CallTypes
  <1>4. f \in FrameSet /\ f.pc = "twait"
    BY <1>3, UserType DEF FrameSet, UserPcs
  <1> HIDE DEF f
  <1>5. /\ Outside(e) /\ RunsSame /\ scenario' = scenario /\ ip' \in [Executors -> Nat \ {0}]
        /\ stack' \in [Executors -> Seq(FrameSet)] /\ stack'[e][1].pc \notin EnqueuePcs
    BY <1>1, <1>3, <1>4, MovesOutside
  <1>6. TypeOK'
    BY <1>1, <1>2, <1>5 DEF TypeOK, sched
  <1> QED
    BY <1>1, <1>5, <1>6, QuietStep DEF ItemsSame, SameItem, QueueSame, TaskSame, sched

\* A queue changes, but not its lock, its last event or its kind.
LEMMA QueueUpdate ==
    ASSUME TypeOK, NEW c, NEW r, queue' = [queue EXCEPT ![c] = r],
           c \in Queues => /\ r \in QueueSet /\ r.lock = queue[c].lock
                          /\ r.last = queue[c].last /\ r.sync = queue[c].sync
    PROVE  queue' \in [Queues -> QueueSet] /\ \A q \in Queues : QueueSame(q)
  <1>1. queue \in [Queues -> QueueSet]
    BY DEF TypeOK
  <1>2. queue' \in [Queues -> QueueSet]
    BY <1>1
  <1>3. ASSUME NEW q \in Queues PROVE QueueSame(q)
    <2>1. CASE q = c
      BY <1>1, <2>1 DEF QueueSame
    <2>2. CASE q # c
      BY <1>1, <2>2 DEF QueueSame
    <2> QED
      BY <2>1, <2>2
  <1> QED
    BY <1>2, <1>3

\* kupl_queue_wait, kupl_queue_wait_all and kupl_queue_destroy collect the queues.
LEMMA QueueWaitBeginStep == ASSUME Inv, NEW e \in Executors, QueueWaitBegin(e) PROVE Inv'
  <1>1. TypeOK
    BY DEF Inv
  <1>2. PICK op : AtCall(e, op) /\ op \in {"queue_wait", "queue_wait_all", "queue_destroy"}
    BY DEF QueueWaitBegin
  <1>3. Top(e).pc = "call" /\ (op # "queue_wait_all" => Call(e).q \in Queues) /\ Call(e).op = op
    BY <1>1, <1>2, AtCallFacts, CallTypes
  <1>4. PICK qs \in SUBSET Queues : SetTop(e, [User EXCEPT !.pc = "qwait", !.qs = qs])
    <2>1. Acquired \in SUBSET Queues
      BY DEF Acquired
    <2> QED
      BY <1>2, <1>3, <2>1 DEF QueueWaitBegin, AtCall
  <1> DEFINE f == [User EXCEPT !.pc = "qwait", !.qs = qs]
  <1>5. f \in FrameSet /\ f.pc = "qwait"
    BY UserType DEF FrameSet, UserPcs
  <1>6. SetTop(e, f) /\ UNCHANGED <<users, event, task, sched, log>>
    BY <1>4 DEF QueueWaitBegin
  <1> HIDE DEF f
  <1>7. /\ Outside(e) /\ RunsSame /\ scenario' = scenario /\ ip' \in [Executors -> Nat \ {0}]
        /\ stack' \in [Executors -> Seq(FrameSet)] /\ stack'[e][1].pc \notin EnqueuePcs
    BY <1>3, <1>5, <1>6, MovesOutside
  <1>8. queue' = queue \/ (queue' = [queue EXCEPT ![Call(e).q].acquired = FALSE] /\ Call(e).q \in Queues)
    BY <1>2, <1>3 DEF QueueWaitBegin, AtCall
  <1>9. queue' \in [Queues -> QueueSet] /\ \A q \in Queues : QueueSame(q)
    <2> DEFINE c == Call(e).q
               r == [queue[c] EXCEPT !.acquired = FALSE]
    <2>1. CASE queue' = queue
      BY <1>1, <2>1 DEF TypeOK, QueueSame
    <2>2. CASE queue' = [queue EXCEPT ![c] = r]
      <3>1. c \in Queues => queue[c] \in QueueSet
        BY <1>1 DEF TypeOK
      <3>2. c \in Queues => /\ r \in QueueSet /\ r.lock = queue[c].lock
                           /\ r.last = queue[c].last /\ r.sync = queue[c].sync
        BY <3>1 DEF QueueSet
      <3> HIDE DEF r, c
      <3> QED
        BY <1>1, <2>2, <3>2, QueueUpdate
    <2> QED
      BY <1>8, <2>1, <2>2
  <1>10. TypeOK'
    BY <1>1, <1>6, <1>7, <1>9 DEF TypeOK, sched
  <1> QED
    BY <1>6, <1>7, <1>9, <1>10, QuietStep DEF ItemsSame, SameItem, TaskSame, sched

\* kupl_queue_wait takes a reference to the task of the last event.
LEMMA QueueWaitStep == ASSUME Inv, NEW e \in Executors, NEW q \in Queues, QueueWait(e, q) PROVE Inv'
  <1> DEFINE f == [Top(e) EXCEPT !.qs = @ \ {q}]
             last == queue[q].last
             g == [f EXCEPT !.pc = "twait", !.ev = last]
  <1>1. TypeOK
    BY DEF Inv
  <1>2. Top(e).pc = "qwait" /\ Top(e) \in FrameSet
    BY Tops DEF QueueWait, At, Inv, CallsInv, ChainInv
  <1>3. last \in Events \cup {None}
    BY <1>1 DEF TypeOK, QueueSet
  <1>4. f \in FrameSet /\ f.pc = "qwait"
    BY <1>2 DEF FrameSet
  <1>5. g \in FrameSet /\ g.pc = "twait"
    <2> HIDE DEF f, last
    <2> QED
      BY <1>3, <1>4 DEF FrameSet, UserPcs
  <1>6. UNCHANGED <<users, queue, event, sched, log>>
    BY DEF QueueWait
  <1>7. \/ SetTop(e, f) /\ task' = task
        \/ SetTop(e, g) /\ last \in Events /\ task' = [task EXCEPT ![last].ref = @ + 1]
    <2>1. queue[q].last # None => last \in Events
      BY <1>3
    <2> QED
      BY <2>1 DEF QueueWait
  <1>8. task' \in [Events -> TaskSet] /\ \A p \in Events : TaskSame(p)
    <2>1. task \in [Events -> TaskSet]
      BY <1>1 DEF TypeOK
    <2>2. CASE last \in Events /\ task' = [task EXCEPT ![last].ref = @ + 1]
      <3> HIDE DEF last
      <3>1. task[last] \in TaskSet
        BY <2>1, <2>2
      <3> DEFINE t == [task[last] EXCEPT !.ref = @ + 1]
      <3>2. t \in TaskSet /\ t.succ = task[last].succ /\ t.finished = task[last].finished
        BY <3>1 DEF TaskSet
      <3>3. task' = [task EXCEPT ![last] = t]
        BY <2>2
      <3> HIDE DEF t
      <3> QED
        BY <2>1, <2>2, <3>2, <3>3 DEF TaskSame
    <2>3. CASE task' = task
      BY <2>1, <2>3 DEF TaskSame
    <2> QED
      BY <1>7, <2>2, <2>3
  <1> HIDE DEF f, g
  <1>9. PICK h \in FrameSet : SetTop(e, h) /\ h.pc \in {"twait", "qwait"}
    BY <1>4, <1>5, <1>7
  <1>10. /\ Outside(e) /\ RunsSame /\ scenario' = scenario /\ ip' \in [Executors -> Nat \ {0}]
         /\ stack' \in [Executors -> Seq(FrameSet)] /\ stack'[e][1].pc \notin EnqueuePcs
    BY <1>2, <1>6, <1>9, MovesOutside
  <1>11. TypeOK'
    BY <1>1, <1>6, <1>8, <1>10 DEF TypeOK, sched
  <1> QED
    BY <1>6, <1>8, <1>10, <1>11, QuietStep DEF ItemsSame, SameItem, QueueSame, sched

\* kupl_task_wait returns and its caller drops what it held.
LEMMA TaskWaitStep == ASSUME Inv, NEW e \in Executors, TaskWait(e) PROVE Inv'
  <1> DEFINE ev == Top(e).ev
             g == [Top(e) EXCEPT !.pc = "qwait", !.ev = None]
  <1>1. TypeOK
    BY DEF Inv
  <1>2. Top(e).pc = "twait" /\ Top(e) \in FrameSet
    BY Tops DEF TaskWait, At, Inv, CallsInv, ChainInv
  <1>3. g \in FrameSet /\ g.pc = "qwait"
    BY <1>2 DEF FrameSet, UserPcs
  <1>4. event \in [Events -> EventSet] /\ task \in [Events -> TaskSet]
    BY <1>1 DEF TypeOK
  <1>5. /\ event' \in [Events -> EventSet] /\ task' \in [Events -> TaskSet]
        /\ ItemsSame /\ \A p \in Events : TaskSame(p)
    <2>1. CASE EventDeref(ev, event[ev]) /\ ev \in Events
      <3> HIDE DEF ev
      <3> event[ev] \in EventSet
        BY <1>4, <2>1
      <3> QED
        BY <1>1, <2>1, EventDerefType
    <2>2. CASE event' = event /\ (task' = task \/ task' = [task EXCEPT ![ev] = Deref(@)])
      <3> HIDE DEF ev
      <3>1. task' \in [Events -> TaskSet] /\ \A p \in Events : TaskSame(p)
        BY <1>4, <2>2, DerefType DEF TaskSame
      <3> QED
        BY <2>2, <1>4, <3>1 DEF ItemsSame, SameItem
    <2>3. CASE EventDeref(ev, event[ev]) /\ ev \notin Events
      <3> HIDE DEF ev
      <3>1. event' = event
        BY <1>4, <2>3 DEF EventDeref
      <3>2. task' = task
        BY <1>4, <2>3 DEF EventDeref
      <3> QED
        BY <3>1, <3>2, <1>4 DEF ItemsSame, SameItem, TaskSame
    <2> QED
      BY <2>1, <2>2, <2>3 DEF TaskWait
  <1>6. PICK h \in FrameSet : SetTop(e, h) /\ h.pc \in {"call", "qwait"} /\ (UNCHANGED users \/ Return(e))
    <2> User \in FrameSet /\ User.pc = "call"
      BY UserType
    <2> QED
      BY <1>3 DEF TaskWait
  <1>7. /\ Outside(e) /\ RunsSame /\ scenario' = scenario /\ ip' \in [Executors -> Nat \ {0}]
        /\ stack' \in [Executors -> Seq(FrameSet)] /\ stack'[e][1].pc \notin EnqueuePcs
    BY <1>2, <1>6, MovesOutside
  <1>8. UNCHANGED <<queue, sched, log>>
    BY DEF TaskWait
  <1>9. TypeOK'
    BY <1>1, <1>5, <1>7, <1>8 DEF TypeOK, sched
  <1> QED
    BY <1>5, <1>7, <1>8, <1>9, QuietStep DEF QueueSame, sched

\* The end of kupl_queue_wait and of kupl_queue_destroy, which frees the queue.
LEMMA QueueWaitEndStep == ASSUME Inv, NEW e \in Executors, QueueWaitEnd(e) PROVE Inv'
  <1>1. TypeOK
    BY DEF Inv
  <1>2. Top(e).pc = "qwait"
    BY DEF QueueWaitEnd, At
  <1>3. SetTop(e, User) /\ Return(e) /\ UNCHANGED <<event, task, sched, log>>
    BY DEF QueueWaitEnd
  <1>4. /\ Outside(e) /\ RunsSame /\ scenario' = scenario /\ ip' \in [Executors -> Nat \ {0}]
        /\ stack' \in [Executors -> Seq(FrameSet)] /\ stack'[e][1].pc \notin EnqueuePcs
    BY <1>2, <1>3, UserType, MovesOutside
  <1>5. queue' = queue \/ queue' = [queue EXCEPT ![Call(e).q].life = "freed"]
    BY DEF QueueWaitEnd
  <1>6. queue' \in [Queues -> QueueSet] /\ \A q \in Queues : QueueSame(q)
    <2> DEFINE c == Call(e).q
               r == [queue[c] EXCEPT !.life = "freed"]
    <2>1. CASE queue' = queue
      BY <1>1, <2>1 DEF TypeOK, QueueSame
    <2>2. CASE queue' = [queue EXCEPT ![c] = r]
      <3>1. c \in Queues => queue[c] \in QueueSet
        BY <1>1 DEF TypeOK
      <3>2. c \in Queues => /\ r \in QueueSet /\ r.lock = queue[c].lock
                           /\ r.last = queue[c].last /\ r.sync = queue[c].sync
        BY <3>1 DEF QueueSet, Lives
      <3> HIDE DEF r, c
      <3> QED
        BY <1>1, <2>2, <3>2, QueueUpdate
    <2> QED
      BY <1>5, <2>1, <2>2
  <1>7. TypeOK'
    BY <1>1, <1>3, <1>4, <1>6 DEF TypeOK, sched
  <1> QED
    BY <1>3, <1>4, <1>6, <1>7, QuietStep DEF ItemsSame, SameItem, TaskSame, sched

-----------------------------------------------------------------------------
(* Calls that create *)

\* In a disciplined scenario the call that creates or submits an event is ahead of
\* everything else that happens to it.
LEMMA FreshEvent ==
    ASSUME Inv, NEW e \in Executors, NEW op \in Submits \cup {"event_create"}, AtCall(e, op)
    PROVE  /\ Call(e).ev \in Events /\ ~Submitted(Call(e).ev)
           /\ \A k \in Items : log[k].ev # Call(e).ev
           /\ \A y \in Executors : stack[y][1].pc \in EnqueuePcs => Call(y).ev # Call(e).ev
  <1> TypeOK /\ InCall /\ Logged /\ Numbered /\ Disciplined(scenario)
    BY DEF Inv, CallsInv
  <1>1. /\ ip[e] \in DOMAIN Calls(e) /\ Call(e) = Calls(e)[ip[e]] /\ Call(e).op = op
        /\ stack[e][1].pc = "call"
    BY AtCallFacts
  <1>2. Call(e).ev \in Events
    BY <1>1, CallTypes
  <1>3. ASSUME NEW k \in Items, log[k].ev = Call(e).ev PROVE FALSE
    <2>1. /\ log[k].at \in DOMAIN Calls(log[k].by) /\ log[k].at <= ip[log[k].by]
          /\ Calls(log[k].by)[log[k].at].op \in Submits
          /\ Calls(log[k].by)[log[k].at].ev = Call(e).ev
          /\ Busy(k) => stack[log[k].by][1].pc \in LockPcs
          /\ log[k].by \in Executors /\ log[k].at \in Nat /\ ip[e] \in Nat
      BY <1>3, ItemTypes DEF Logged, TypeOK
    <2>2. Agree(scenario, e, ip[e], log[k].by, log[k].at)
      BY <1>1, <2>1 DEF Disciplined, Calls
    <2>3. log[k].by = e /\ (log[k].at = ip[e] \/ ip[e] < log[k].at)
      BY <1>1, <2>1, <2>2 DEF Agree, Calls
    <2>4. Busy(k)
      BY <2>1, <2>3 DEF Busy
    <2> QED
      BY <1>1, <2>1, <2>3, <2>4 DEF LockPcs
  <1>4. ~Submitted(Call(e).ev)
    BY <1>2, <1>3 DEF Numbered
  <1>5. ASSUME NEW y \in Executors, stack[y][1].pc \in EnqueuePcs, Call(y).ev = Call(e).ev PROVE FALSE
    <2>1. ip[y] \in DOMAIN Calls(y) /\ Call(y).op \in Submits
      BY <1>5 DEF InCall
    <2>2. Agree(scenario, e, ip[e], y, ip[y])
      BY <1>1, <2>1 DEF Disciplined, Calls
    <2>3. y = e
      BY <1>1, <1>5, <2>1, <2>2 DEF Agree, Calls, Call
    <2> QED
      BY <1>1, <1>5, <2>3 DEF EnqueuePcs, LockPcs
  <1> QED
    BY <1>2, <1>3, <1>4, <1>5

\* In a disciplined scenario the call that creates a queue is ahead of all its items.
LEMMA FreshQueue ==
    ASSUME Inv, NEW e \in Executors, NEW op \in Creates, AtCall(e, op)
    PROVE  /\ Call(e).q \in Queues
           /\ \A k \in Items : log[k].q # Call(e).q
           /\ \A y \in Executors : stack[y][1].pc \in EnqueuePcs => stack[y][1].q # Call(e).q
  <1> TypeOK /\ InCall /\ Logged /\ Disciplined(scenario)
    BY DEF Inv, CallsInv
  <1>1. /\ ip[e] \in DOMAIN Calls(e) /\ Call(e) = Calls(e)[ip[e]] /\ Call(e).op = op
        /\ stack[e][1].pc = "call"
    BY AtCallFacts
  <1>2. Call(e).q \in Queues
    BY <1>1, CallTypes
  <1>3. ASSUME NEW k \in Items, log[k].q = Call(e).q PROVE FALSE
    <2>1. /\ log[k].at \in DOMAIN Calls(log[k].by) /\ log[k].at <= ip[log[k].by]
          /\ Calls(log[k].by)[log[k].at].op \in Submits
          /\ Calls(log[k].by)[log[k].at].q = Call(e).q
          /\ log[k].by \in Executors /\ log[k].at \in Nat /\ ip[e] \in Nat
      BY <1>3, ItemTypes DEF Logged, TypeOK
    <2>2. Agree(scenario, e, ip[e], log[k].by, log[k].at)
      BY <1>1, <2>1 DEF Disciplined, Calls
    <2>3. log[k].by = e /\ ip[e] < log[k].at
      BY <1>1, <2>1, <2>2 DEF Agree, Calls
    <2> QED
      BY <2>1, <2>3
  <1>4. ASSUME NEW y \in Executors, stack[y][1].pc \in EnqueuePcs, stack[y][1].q = Call(e).q PROVE FALSE
    <2>1. ip[y] \in DOMAIN Calls(y) /\ Call(y).op \in Submits /\ Call(y).q = Call(e).q
      BY <1>4 DEF InCall
    <2>2. Agree(scenario, e, ip[e], y, ip[y])
      BY <1>1, <2>1 DEF Disciplined, Calls
    <2>3. y = e
      BY <1>1, <2>1, <2>2 DEF Agree, Calls, Call
    <2> QED
      BY <1>1, <1>4, <2>3 DEF EnqueuePcs, LockPcs
  <1> QED
    BY <1>2, <1>3, <1>4

\* What kupl_event_create, kupl_queue_create and kupl_event_init make.
LEMMA NewTypes ==
    /\ NewEvent \in EventSet /\ NewEvent.item = 0
    /\ NewTask \in TaskSet /\ NewTask.succ = <<>> /\ NewTask.finished = FALSE
    /\ NewQueue \in QueueSet /\ NewQueue.lock = None /\ NewQueue.last = None /\ NewQueue.sync = FALSE
    /\ NoQueue \in QueueSet /\ NoQueue.lock = None /\ NoQueue.last = None /\ NoQueue.sync = FALSE
    /\ NoEvent \in EventSet /\ NoEvent.item = 0
    /\ NoTask \in TaskSet /\ NoTask.succ = <<>> /\ NoTask.finished = FALSE
  <1>1. NoEvent \in EventSet /\ NoEvent.item = 0
    BY DEF NoEvent, EventSet, Lives
  <1>2. NoTask \in TaskSet /\ NoTask.succ = <<>> /\ NoTask.finished = FALSE
    BY DEF NoTask, TaskSet, Lives
  <1>3. NoQueue \in QueueSet /\ NoQueue.lock = None /\ NoQueue.last = None /\ NoQueue.sync = FALSE
    BY DEF NoQueue, QueueSet, Lives
  <1>4. NewEvent \in EventSet /\ NewEvent.item = 0
    <2>1. ASSUME NEW l \in Lives, NEW r \in Int
          PROVE  [NoEvent EXCEPT !.life = l, !.ref = r] \in EventSet /\ [NoEvent EXCEPT !.life = l, !.ref = r].item = 0
      BY <1>1 DEF EventSet
    <2>2. "live" \in Lives /\ 1 \in Int
      BY DEF Lives
    <2> QED
      BY <2>1, <2>2 DEF NewEvent
  <1>5. NewTask \in TaskSet /\ NewTask.succ = <<>> /\ NewTask.finished = FALSE
    <2>1. ASSUME NEW l \in Lives, NEW r \in Int
          PROVE  /\ [NoTask EXCEPT !.life = l, !.ref = r] \in TaskSet /\ [NoTask EXCEPT !.life = l, !.ref = r].succ = <<>>
                 /\ [NoTask EXCEPT !.life = l, !.ref = r].finished = FALSE
      BY <1>2 DEF TaskSet
    <2>2. "live" \in Lives /\ 1 \in Int
      BY DEF Lives
    <2> QED
      BY <2>1, <2>2 DEF NewTask
  <1>6. NewQueue \in QueueSet /\ NewQueue.lock = None /\ NewQueue.last = None /\ NewQueue.sync = FALSE
    BY <1>3 DEF NewQueue, QueueSet, Lives
  <1> QED
    BY <1>1, <1>2, <1>3, <1>4, <1>5, <1>6

\* kupl_event_init throws the node away.
LEMMA InitTypes ==
    /\ \A x \in EventSet, type \in {"KERNEL", "RECORD"}, q \in Queues :
           /\ InitEvent(x, type, q, None) \in EventSet
           /\ InitEvent(x, type, q, None).item = x.item /\ InitEvent(x, type, q, None).q = q
    /\ \A t \in TaskSet : InitTask(t) \in TaskSet /\ InitTask(t).succ = <<>> /\ InitTask(t).finished = FALSE
  <1>1. ASSUME NEW x \in EventSet, NEW type \in {"KERNEL", "RECORD"}, NEW q \in Queues
        PROVE  /\ InitEvent(x, type, q, None) \in EventSet
               /\ InitEvent(x, type, q, None).item = x.item /\ InitEvent(x, type, q, None).q = q
    BY <1>1 DEF InitEvent, EventSet
  <1>2. ASSUME NEW t \in TaskSet PROVE InitTask(t) \in TaskSet /\ InitTask(t).succ = <<>> /\ InitTask(t).finished = FALSE
    <2> DEFINE r == t.ref + 1
               u == t.use + 1
    <2>1. r \in Int /\ u \in Int
      BY <1>2 DEF TaskSet
    <2>2. InitTask(t) = [NewTask EXCEPT !.ref = r, !.use = u]
      BY DEF InitTask
    <2> HIDE DEF r, u
    <2> QED
      BY <2>1, <2>2, NewTypes DEF TaskSet
  <1> QED
    BY <1>1, <1>2

\* kupl_event_create.
LEMMA EventCreateStep == ASSUME Inv, NEW e \in Executors, EventCreate(e) PROVE Inv'
  <1> DEFINE ev == Call(e).ev
  <1>1. AtCall(e, "event_create") /\ Return(e) /\ UNCHANGED <<stack, queue, sched, log>>
    BY DEF EventCreate
  <1>2. /\ Outside(e) /\ RunsSame /\ scenario' = scenario /\ ip' \in [Executors -> Nat \ {0}]
        /\ stack'[e][1].pc \notin EnqueuePcs
    BY <1>1, ReturnsAtOnce
  <1>3. TypeOK
    BY DEF Inv
  <1>4. /\ ev \in Events /\ ~Submitted(ev)
        /\ \A y \in Executors : stack[y][1].pc \in EnqueuePcs => Call(y).ev # ev
    BY <1>1, FreshEvent
  <1>5. event' = [event EXCEPT ![ev] = NewEvent] /\ task' = [task EXCEPT ![ev] = NewTask]
    BY DEF EventCreate
  <1> HIDE DEF ev
  <1>6. event \in [Events -> EventSet] /\ task \in [Events -> TaskSet]
    BY <1>3 DEF TypeOK
  <1>7. event' \in [Events -> EventSet] /\ task' \in [Events -> TaskSet]
    BY <1>5, <1>6, NewTypes
  <1>8. FreshItem(ev) /\ Blank(ev)
    BY <1>4, <1>5, <1>6, NewTypes DEF FreshItem, Blank
  <1>9. \A x \in Events : x # ev => SameItem(x) /\ TaskSame(x)
    BY <1>5, <1>6 DEF SameItem, TaskSame
  <1>10. TypeOK'
    BY <1>1, <1>2, <1>3, <1>7 DEF TypeOK, sched
  <1>11. \A x \in Events : (SameItem(x) /\ TaskSame(x)) \/ (FreshItem(x) /\ Blank(x))
    BY <1>8, <1>9
  <1> QED
    BY <1>1, <1>2, <1>10, <1>11, FreshStep DEF QueueSame, sched

\* An event of a call that submits is initialised, and its enqueue begins.
LEMMA EnqueueBegins ==
    ASSUME Inv, NEW e \in Executors, NEW op \in Submits, AtCall(e, op), NEW x \in EventSet, NEW t \in TaskSet,
           x.item = 0 \/ x.item = event[Call(e).ev].item, x.q = Call(e).q, t.succ = <<>>, ~t.finished,
           queue[Call(e).q].sync => Call(e).op # "submit",
           event' = [event EXCEPT ![Call(e).ev] = x], task' = [task EXCEPT ![Call(e).ev] = t],
           Enqueue(e, Call(e).q, Call(e).ev), UNCHANGED <<users, queue, sched, log>>
    PROVE  Inv'
  <1> DEFINE ev == Call(e).ev
             q == Call(e).q
             f == [User EXCEPT !.pc = "enqueue", !.q = q, !.ev = ev]
  <1>1. TypeOK /\ UserShape /\ RunShape
    BY DEF Inv, CallsInv, ChainInv
  <1>2. /\ ip[e] \in DOMAIN Calls(e) /\ Call(e) = Calls(e)[ip[e]] /\ Call(e).op \in Submits
        /\ Top(e).pc = "call" /\ Top(e).pc \in UserPcs
    BY AtCallFacts
  <1>3. q \in Queues
    BY <1>1, <1>2, CallTypes
  <1>4. /\ ev \in Events /\ ~Submitted(ev)
        /\ \A y \in Executors : stack[y][1].pc \in EnqueuePcs => Call(y).ev # ev
    BY FreshEvent
  <1>5. f \in FrameSet /\ f.pc = "enqueue" /\ f.q = q /\ f.ev = ev
    BY <1>3, <1>4, UserType DEF FrameSet, UserPcs, EnqueuePcs
  <1>6. SetTop(e, f)
    BY DEF Enqueue
  <1>7. event' = [event EXCEPT ![ev] = x] /\ task' = [task EXCEPT ![ev] = t] /\ (x.item = 0 \/ x.item = event[ev].item) /\ x.q = q
    OBVIOUS
  <1>8. Call(e).ev = ev /\ Call(e).q = q
    OBVIOUS
  <1> HIDE DEF f, ev, q
  <1>9. UserMoves(e, f)
    BY <1>1, <1>2, <1>5, <1>6, SetTopMoves
  <1>10. UserFrame(f)
    BY <1>5 DEF UserFrame, UserPcs, EnqueuePcs
  <1>11. Outside(e)
    BY <1>2, <1>5, <1>9, <1>10 DEF UserMoves, Outside, EnqueuePcs, LockPcs, users
  <1>12. RunsSame
    BY <1>9, UserRunsSame
  <1>13. event \in [Events -> EventSet] /\ task \in [Events -> TaskSet]
    BY <1>1 DEF TypeOK
  <1>14. event' \in [Events -> EventSet] /\ task' \in [Events -> TaskSet]
    BY <1>7, <1>13
  <1>15. FreshItem(ev) /\ Blank(ev) /\ event'[ev].q = q
    BY <1>4, <1>7, <1>13 DEF FreshItem, Submitted, Blank
  <1>16. \A y \in Events : y # ev => SameItem(y) /\ TaskSame(y)
    BY <1>7, <1>13 DEF SameItem, TaskSame
  <1>17. TypeOK'
    BY <1>1, <1>9, <1>14 DEF TypeOK, sched, users, UserMoves
  <1>18. \A y \in Events : (SameItem(y) /\ TaskSame(y)) \/ (FreshItem(y) /\ Blank(y))
    BY <1>15, <1>16
  <1>19. Asks(e)
    BY <1>2, <1>5, <1>8, <1>9, <1>15 DEF Asks, UserMoves, users
  <1> QED
    BY <1>11, <1>12, <1>17, <1>18, <1>19, FreshStep DEF QueueSame, sched

\* A kernel is submitted (kupl_queue_submit, kupl::queue_submit).
LEMMA SubmitStep == ASSUME Inv, NEW e \in Executors, QueueSubmit(e) \/ QueueSubmitLambda(e) PROVE Inv'
  <1>1. PICK op \in Submits : AtCall(e, op)
    BY DEF QueueSubmit, QueueSubmitLambda, Submits
  <1>2. SubmitKernel(e)
    BY DEF QueueSubmit, QueueSubmitLambda
  <1>3. Call(e).q \in Queues /\ Call(e).ev \in Events
    BY <1>1, AtCallFacts, CallTypes DEF Inv
  <1> DEFINE x == InitEvent(NewEvent, "KERNEL", Call(e).q, None)
             t == InitTask(NewTask)
  <1>4. x \in EventSet /\ x.item = 0 /\ x.q = Call(e).q /\ t \in TaskSet /\ t.succ = <<>> /\ ~t.finished
    BY <1>3, NewTypes, InitTypes
  <1>5. /\ event' = [event EXCEPT ![Call(e).ev] = x] /\ task' = [task EXCEPT ![Call(e).ev] = t]
        /\ Enqueue(e, Call(e).q, Call(e).ev) /\ UNCHANGED <<users, queue, sched, log>>
    BY <1>2 DEF SubmitKernel
  <1>6. queue[Call(e).q].sync => Call(e).op # "submit"
    BY DEF QueueSubmit, QueueSubmitLambda, AtCall
  <1> HIDE DEF x, t
  <1> QED
    BY <1>1, <1>4, <1>5, <1>6, EnqueueBegins

\* An event is recorded (kupl_event_record).
LEMMA EventRecordStep == ASSUME Inv, NEW e \in Executors, EventRecord(e) PROVE Inv'
  <1>1. AtCall(e, "event_record") /\ "event_record" \in Submits
    BY DEF EventRecord, Submits
  <1>2. Call(e).q \in Queues /\ Call(e).ev \in Events
    BY <1>1, AtCallFacts, CallTypes DEF Inv
  <1>3. event[Call(e).ev] \in EventSet /\ task[Call(e).ev] \in TaskSet
    BY <1>2 DEF Inv, TypeOK
  <1> DEFINE x == InitEvent(event[Call(e).ev], "RECORD", Call(e).q, None)
             t == InitTask(task[Call(e).ev])
  <1>4. x \in EventSet /\ x.item = event[Call(e).ev].item /\ x.q = Call(e).q /\ t \in TaskSet /\ t.succ = <<>> /\ ~t.finished
    BY <1>2, <1>3, InitTypes
  <1>5. /\ event' = [event EXCEPT ![Call(e).ev] = x] /\ task' = [task EXCEPT ![Call(e).ev] = t]
        /\ Enqueue(e, Call(e).q, Call(e).ev) /\ UNCHANGED <<users, queue, sched, log>>
    BY DEF EventRecord
  <1>6. Call(e).op # "submit"
    BY <1>1 DEF AtCall
  <1> HIDE DEF x, t
  <1> QED
    BY <1>1, <1>4, <1>5, <1>6, EnqueueBegins

\* kupl_queue_create and kupl_queue_acquire make a queue that nobody uses.
LEMMA QueueCreateStep == ASSUME Inv, NEW e \in Executors, QueueCreate(e) \/ QueueAcquire(e) PROVE Inv'
  <1> DEFINE q == Call(e).q
  <1>1. PICK op \in Creates : AtCall(e, op)
    BY DEF QueueCreate, QueueAcquire, Creates
  <1>2. Return(e) /\ UNCHANGED <<stack, event, task, sched, log>>
    BY DEF QueueCreate, QueueAcquire
  <1>3. /\ Outside(e) /\ RunsSame /\ scenario' = scenario /\ ip' \in [Executors -> Nat \ {0}]
        /\ stack'[e][1].pc \notin EnqueuePcs
    BY <1>1, <1>2, ReturnsAtOnce
  <1>4. /\ q \in Queues /\ \A k \in Items : log[k].q # q
        /\ \A y \in Executors : stack[y][1].pc \in EnqueuePcs => stack[y][1].q # q
    BY <1>1, FreshQueue
  <1> DEFINE a == [NewQueue EXCEPT !.acquired = TRUE, !.sync = (q = SyncQueue)]
  <1>5. a \in QueueSet /\ a.lock = None /\ a.last = None /\ (a.sync => q = SyncQueue)
    <2> DEFINE b == (q = SyncQueue)
    <2>1. a = [NewQueue EXCEPT !.acquired = TRUE, !.sync = b] /\ b \in BOOLEAN /\ TRUE \in BOOLEAN
      OBVIOUS
    <2>2. b => q = SyncQueue
      OBVIOUS
    <2> HIDE DEF b, a, q
    <2>3. a \in QueueSet /\ a.lock = None /\ a.last = None
      BY <2>1, NewTypes DEF QueueSet
    <2>4. a.sync = b
      BY <2>1, NewTypes DEF QueueSet
    <2> QED
      BY <2>2, <2>3, <2>4
  <1>6. NewQueue \in QueueSet /\ NewQueue.lock = None /\ NewQueue.last = None /\ ~NewQueue.sync
    BY NewTypes
  <1>7. \/ queue' = queue
        \/ queue' = [queue EXCEPT ![q] = NewQueue]
        \/ queue' = [queue EXCEPT ![q] = a]
    BY DEF QueueCreate, QueueAcquire
  <1> HIDE DEF a, q
  <1>8. queue \in [Queues -> QueueSet] /\ TypeOK
    BY DEF Inv, TypeOK
  <1>9. CASE queue' = queue
    <2>1. TypeOK'
      BY <1>2, <1>3, <1>8, <1>9 DEF TypeOK, sched
    <2> QED
      BY <1>2, <1>3, <1>9, <2>1, QuietStep DEF ItemsSame, SameItem, QueueSame, TaskSame, sched
  <1>10. ASSUME NEW r \in QueueSet, r.lock = None, r.last = None, r.sync => q = SyncQueue,
                queue' = [queue EXCEPT ![q] = r]
         PROVE  Inv'
    <2>1. queue' \in [Queues -> QueueSet] /\ queue'[q] = r /\ \A x \in Queues : x # q => queue'[x] = queue[x]
      BY <1>4, <1>8, <1>10
    <2>2. TypeOK'
      BY <1>2, <1>3, <1>8, <2>1 DEF TypeOK, sched
    <2>3. FreshQ(q)
      BY <1>4, <1>10, <2>1 DEF FreshQ
    <2>4. \A x \in Queues : QueueSame(x) \/ FreshQ(x)
      BY <2>1, <2>3 DEF QueueSame
    <2>5. \A x \in Events : SameItem(x) /\ TaskSame(x)
      BY <1>2 DEF SameItem, TaskSame
    <2> QED
      BY <1>2, <1>3, <2>2, <2>4, <2>5, FreshStep DEF sched
  <1> QED
    BY <1>5, <1>6, <1>7, <1>9, <1>10

-----------------------------------------------------------------------------
(* Calls that add an item *)

\* The item n is added to the log.
Adds(n, it) ==
    /\ n = Len(log) + 1 /\ n \in Nat \ {0} /\ n \notin Items /\ Items' = Items \cup {n} /\ log'[n] = it
    /\ \A k \in Items : log'[k] = log[k] /\ k < n /\ ~(n < k)

\* The fields of an item.
LEMMA ItemType ==
    ASSUME NEW q \in Queues, NEW ev \in Events, NEW e \in Executors, NEW a \in Nat, NEW b \in Int, NEW c \in Int,
           NEW it, it = [q |-> q, ev |-> ev, by |-> e, at |-> a, begun |-> b, ended |-> c]
    PROVE  /\ it \in ItemSet /\ it.q = q /\ it.ev = ev /\ it.by = e /\ it.at = a
           /\ it.begun = b /\ it.ended = c
  BY DEF ItemSet

\* An item goes to the end of the log.
LEMMA LogAdds ==
    ASSUME TypeOK, NEW it \in ItemSet, log' = Append(log, it)
    PROVE  /\ Adds(Len(log) + 1, it) /\ Grows /\ log' \in Seq(ItemSet)
           /\ \A k \in Items : ItemSame(k)
  <1> DEFINE n == Len(log) + 1
  <1>1. log \in Seq(ItemSet) /\ Items = 1 .. Len(log) /\ Len(log) \in Nat
    BY ItemTypes DEF TypeOK
  <1>2. /\ log' \in Seq(ItemSet) /\ DOMAIN log' = 1 .. n /\ log'[n] = it
        /\ \A k \in 1 .. Len(log) : log'[k] = log[k]
    BY <1>1
  <1>3. n \notin Items /\ 1 .. n = (1 .. Len(log)) \cup {n} /\ n \in Nat \ {0}
    BY <1>1
  <1>4. \A k \in Items : k < n /\ ~(n < k)
    BY <1>1
  <1>5. Items' = Items \cup {n}
    BY <1>1, <1>2, <1>3 DEF Items
  <1> HIDE DEF n
  <1>6. Adds(n, it)
    BY <1>1, <1>2, <1>3, <1>4, <1>5 DEF Adds, n
  <1>7. Grows
    BY <1>1, <1>2, <1>4, <1>5 DEF Grows, SameCall
  <1>8. \A k \in Items : ItemSame(k)
    BY <1>1, <1>2 DEF ItemSame
  <1> QED
    BY <1>2, <1>6, <1>7, <1>8 DEF n

\* Nothing has been enqueued on a synchronous queue on which functions are still run.
LEMMA SyncQuiet ==
    ASSUME Inv, NEW e \in Executors, QueueSubmitSync(e)
    PROVE  /\ \A k \in Items : log[k].q = Call(e).q => ~Submitted(log[k].ev) /\ ~Busy(k) /\ log[k].ended = 1
           /\ queue[Call(e).q].last = None
  <1> TypeOK /\ InCall /\ Logged /\ Numbered /\ SyncRuns /\ LastNewest /\ Disciplined(scenario)
    BY DEF Inv, CallsInv
  <1> DEFINE q == Call(e).q
  <1>1. AtCall(e, "submit") /\ queue[q].sync
    BY DEF QueueSubmitSync
  <1>2. /\ ip[e] \in DOMAIN Calls(e) /\ Call(e) = Calls(e)[ip[e]] /\ Call(e).op = "submit"
        /\ stack[e][1].pc = "call"
    BY <1>1, AtCallFacts
  <1>3. q \in Queues
    BY <1>2, CallTypes DEF Submits
  <1>4. q = SyncQueue
    BY <1>1, <1>3 DEF SyncRuns
  <1>5. ASSUME NEW k \in Items, log[k].q = q, Submitted(log[k].ev) PROVE FALSE
    <2>1. Calls(log[k].by)[log[k].at].op # "submit"
      BY <1>1, <1>3, <1>5 DEF SyncRuns
    <2>2. /\ log[k].at \in DOMAIN Calls(log[k].by) /\ log[k].at <= ip[log[k].by]
          /\ Calls(log[k].by)[log[k].at].op \in Submits
          /\ Calls(log[k].by)[log[k].at].q = q
          /\ log[k].by \in Executors /\ log[k].at \in Nat /\ ip[e] \in Nat
      BY <1>5, ItemTypes DEF Logged, TypeOK
    <2>3. Agree(scenario, log[k].by, log[k].at, e, ip[e])
      BY <1>2, <2>2 DEF Disciplined, Calls
    <2>4. log[k].by = e /\ ip[e] < log[k].at
      BY <1>2, <1>4, <2>1, <2>2, <2>3 DEF Agree, Calls
    <2> QED
      BY <2>2, <2>4
  <1>6. ASSUME NEW k \in Items, Busy(k) PROVE Submitted(log[k].ev)
    <2>1. stack[log[k].by][1].pc \in LockPcs /\ log[k].by \in Executors /\ log[k].at = ip[log[k].by]
      BY <1>6, ItemTypes DEF Logged, Busy
    <2>2. log[k].ev = Call(log[k].by).ev
      BY <2>1 DEF Logged, Call
    <2> QED
      BY <2>1, <2>2 DEF InCall, EnqueuePcs
  <1>7. queue[q].last = None
    <2> SUFFICES ASSUME queue[q].last # None PROVE FALSE
      OBVIOUS
    <2>1. Submitted(queue[q].last) /\ event[queue[q].last].q = q
      BY <1>3 DEF LastNewest
    <2>2. queue[q].last \in Events
      BY <1>3 DEF TypeOK, QueueSet
    <2>3. /\ event[queue[q].last].item \in Items
          /\ log[event[queue[q].last].item].ev = queue[q].last
          /\ log[event[queue[q].last].item].q = q
      BY <2>1, <2>2 DEF Numbered
    <2> QED
      BY <1>5, <2>1, <2>3
  <1> QED
    BY <1>5, <1>6, <1>7 DEF Numbered

\* A synchronous queue runs the function in its caller.
LEMMA QueueSubmitSyncStep == ASSUME Inv, NEW e \in Executors, QueueSubmitSync(e) PROVE Inv'
  <1> TypeOK /\ CallsInv /\ ChainInv /\ Disciplined(scenario)
    BY DEF Inv
  <1> UserShape /\ InCall /\ Logged /\ LoggedOnce /\ Numbered /\ Locks /\ BusyNewest /\ LastNewest /\ SyncRuns
    BY DEF CallsInv
  <1>0. PICK q, ev, a, n, it :
            /\ q = Call(e).q /\ ev = Call(e).ev /\ a = ip[e] /\ n = Len(log) + 1
            /\ it = [Item(e, q, ev) EXCEPT !.begun = 1, !.ended = 1]
    OBVIOUS
  <1>1. /\ AtCall(e, "submit") /\ Return(e) /\ UNCHANGED <<stack, queue, event, task, sched>>
        /\ log' = Append(log, it)
    BY <1>0 DEF QueueSubmitSync
  <1>2. /\ a \in DOMAIN Calls(e) /\ Call(e) = Calls(e)[a] /\ Call(e).op = "submit"
        /\ stack[e][1].pc = "call"
    BY <1>0, <1>1, AtCallFacts
  <1>3. q \in Queues /\ ev \in Events /\ a \in Nat
    BY <1>0, <1>2, CallTypes DEF Submits, TypeOK
  <1>4. /\ it \in ItemSet /\ it.q = q /\ it.ev = ev /\ it.by = e /\ it.at = a
        /\ it.begun = 1 /\ it.ended = 1
    <2>1. it = [q |-> q, ev |-> ev, by |-> e, at |-> a, begun |-> 1, ended |-> 1]
      BY <1>0 DEF Item
    <2>2. 1 \in Int
      OBVIOUS
    <2> QED
      BY <2>1, <2>2, <1>3, ItemType
  <1>5. ~Submitted(ev) /\ \A k \in Items : log[k].ev # ev
    BY <1>0, <1>1, FreshEvent DEF Submits
  <1>6. /\ \A k \in Items : log[k].q = q => ~Submitted(log[k].ev) /\ ~Busy(k) /\ log[k].ended = 1
        /\ queue[q].last = None
    BY <1>0, SyncQuiet
  <1>7. Call(e).q = q /\ Call(e).ev = ev
    BY <1>0
  <1>8. Adds(n, it) /\ Grows /\ log' \in Seq(ItemSet) /\ \A k \in Items : ItemSame(k)
    BY <1>0, <1>1, <1>4, LogAdds
  <1>9. /\ Outside(e) /\ RunsSame /\ scenario' = scenario /\ ip' \in [Executors -> Nat \ {0}]
        /\ stack'[e][1].pc \notin EnqueuePcs
    BY <1>1, ReturnsAtOnce
  <1>10. ip'[e] = a + 1
    BY <1>0, <1>1, <1>3 DEF Return, TypeOK
  <1>11. TypeOK'
    BY <1>1, <1>8, <1>9 DEF TypeOK, sched
  <1>12. \A x : Calls(x)' = Calls(x)
    BY <1>9 DEF Calls
  <1>13. \A k \in Items : log[k].by \in Executors /\ log[k].ev \in Events /\ log[k].at \in Nat /\ log[k].q \in Queues
    BY ItemTypes
  <1>14. \A k \in Items : Busy(k)' <=> Busy(k)
    BY <1>8, <1>9, <1>13, NotBusy DEF Busy, Adds
  <1>15. ~Busy(n)'
    BY <1>3, <1>4, <1>8, <1>10 DEF Busy, Adds
  <1>16. CallsInv'
    <2>1. UserShape' /\ Locks'
      BY <1>1 DEF UserShape, Locks
    <2>2. InCall'
      <3> SUFFICES ASSUME NEW x \in Executors, stack[x][1].pc \in EnqueuePcs
                   PROVE  /\ ip'[x] \in DOMAIN Calls(x) /\ Calls(x)[ip'[x]].op \in Submits
                          /\ stack[x][1].ev = Calls(x)[ip'[x]].ev /\ stack[x][1].q = Calls(x)[ip'[x]].q
                          /\ event[Calls(x)[ip'[x]].ev].q = Calls(x)[ip'[x]].q
                          /\ stack[x][1].pc \in LockPcs => event[Calls(x)[ip'[x]].ev].item # 0
        BY <1>1, <1>12 DEF InCall, Submitted, Call
      <3>1. x # e /\ ip'[x] = ip[x]
        BY <1>9, NotBusy DEF Outside
      <3> QED
        BY <3>1 DEF InCall, Submitted, Call
    <2>3. Logged'
      <3> SUFFICES ASSUME NEW k \in Items'
                   PROVE  /\ log'[k].at \in DOMAIN Calls(log'[k].by) /\ log'[k].at <= ip'[log'[k].by]
                          /\ Calls(log'[k].by)[log'[k].at].op \in Submits
                          /\ Calls(log'[k].by)[log'[k].at].q = log'[k].q
                          /\ Calls(log'[k].by)[log'[k].at].ev = log'[k].ev
                          /\ Busy(k)' => stack[log'[k].by][1].pc \in LockPcs
        BY <1>1, <1>12 DEF Logged
      <3>1. CASE k = n
        BY <3>1, <1>2, <1>3, <1>4, <1>7, <1>8, <1>10, <1>15 DEF Adds, Submits
      <3>2. CASE k \in Items
        <4>1. log'[k] = log[k]
          BY <3>2, <1>8 DEF Adds
        <4>2. log[k].at <= ip'[log[k].by]
          <5>1. CASE log[k].by = e
            <6>1. log[k].at < ip'[e] /\ log[k].at \in Nat /\ ip'[e] \in Nat
              BY <3>2, <5>1, <1>9, <1>13, NotBusy
            <6> QED
              BY <5>1, <6>1
          <5>2. CASE log[k].by # e
            BY <3>2, <5>2, <1>9, <1>13, NotBusy DEF Logged
          <5> QED
            BY <5>1, <5>2
        <4> QED
          BY <3>2, <4>1, <4>2, <1>14 DEF Logged
      <3> QED
        BY <3>1, <3>2, <1>8 DEF Adds
    <2>4. LoggedOnce'
      BY <1>4, <1>5, <1>8 DEF LoggedOnce, Adds
    <2>5. Numbered'
      BY <1>1, <1>4, <1>5, <1>8 DEF Numbered, Adds, Submitted
    <2>6. BusyNewest'
      <3> SUFFICES ASSUME NEW i \in Items', NEW k \in Items', Busy(i)', log'[k].q = log'[i].q PROVE k <= i
        BY DEF BusyNewest
      <3>1. i \in Items /\ Busy(i) /\ log'[i] = log[i]
        BY <1>8, <1>14, <1>15 DEF Adds
      <3>2. k # n
        BY <3>1, <1>4, <1>6, <1>8 DEF Adds
      <3> QED
        BY <3>1, <3>2, <1>8 DEF BusyNewest, Adds
    <2>7. LastNewest'
      <3> SUFFICES ASSUME NEW z \in Queues
                   PROVE  /\ queue[z].last = None => \A i \in Items' : log'[i].q = z => Busy(i)' \/ log'[i].ended = 1
                          /\ queue[z].last # None =>
                                /\ Submitted(queue[z].last) /\ event[queue[z].last].q = z
                                /\ \A i \in Items' : log'[i].q = z => Busy(i)' \/ i <= event[queue[z].last].item
        BY <1>1 DEF LastNewest, Submitted
      <3>1. \A i \in Items : log'[i] = log[i] /\ (Busy(i)' <=> Busy(i))
        BY <1>8, <1>14 DEF Adds
      <3>2. \A i \in Items' : i \in Items \/ i = n
        BY <1>8 DEF Adds
      <3>3. log'[n].q = q /\ log'[n].ended = 1
        BY <1>4, <1>8 DEF Adds
      <3> QED
        BY <3>1, <3>2, <3>3, <1>6 DEF LastNewest
    <2>8. SyncRuns'
      <3>1. ~Submitted(log'[n].ev) /\ \A i \in Items : log'[i] = log[i]
        BY <1>4, <1>5, <1>8 DEF Adds
      <3>2. \A i \in Items' : i \in Items \/ i = n
        BY <1>8 DEF Adds
      <3>3. \A x \in Executors : stack[x][1].pc \in EnqueuePcs => Call(x)' = Call(x)
        BY <1>2, <1>9, <1>12, NotBusy DEF Call, EnqueuePcs, LockPcs
      <3> QED
        BY <1>1, <1>12, <3>1, <3>2, <3>3 DEF SyncRuns, Submitted
    <2> QED
      BY <2>1, <2>2, <2>3, <2>4, <2>5, <2>6, <2>7, <2>8 DEF CallsInv
  <1>17. LateBegin(n) /\ log'[n].ended = 1 /\ n \notin Items
    BY <1>4, <1>6, <1>8 DEF Adds, LateBegin
  <1>18. \A k \in Items' : k \in Items \/ NewItem(k)
    BY <1>8, <1>17 DEF NewItem, Adds
  <1>19. ItemsKept /\ ready' = ready /\ \A p \in Events : TaskKept(p)
    BY <1>1 DEF ItemsKept, SameItem, TaskKept, sched
  <1>20. \A x \in Executors, y \in Events :
            Enqueuing(x, y)' => Enqueuing(x, y) /\ stack'[x][1].todo = stack[x][1].todo
    BY <1>1 DEF Enqueuing
  <1>21. ChainInv'
    BY <1>8, <1>9, <1>11, <1>18, <1>19, <1>20, UserStepKept
  <1> QED
    BY <1>9, <1>11, <1>16, <1>21 DEF Inv

-----------------------------------------------------------------------------
(* Enqueuing *)

\* An enqueue in progress is the only one of its event, and has added its item iff
\* it is past the queue's lock.
LEMMA EnqueueFacts ==
    ASSUME Inv, NEW e \in Executors, Top(e).pc \in EnqueuePcs
    PROVE  /\ stack[e][1] = Top(e) /\ Top(e) \in FrameSet /\ Top(e).pc \in UserPcs /\ UserFrame(Top(e))
           /\ ip[e] \in DOMAIN Calls(e) /\ Call(e) = Calls(e)[ip[e]] /\ Call(e).op \in Submits
           /\ Top(e).ev = Call(e).ev /\ Top(e).q = Call(e).q
           /\ Top(e).ev \in Events /\ Top(e).q \in Queues /\ event[Top(e).ev].q = Top(e).q
           /\ \A y \in Executors : y # e /\ stack[y][1].pc \in EnqueuePcs =>
                 Call(y).ev # Top(e).ev /\ stack[y][1].ev # Top(e).ev
           /\ \A k \in Items : log[k].ev = Top(e).ev => log[k].by = e /\ log[k].at = ip[e] /\ Busy(k)
           /\ Top(e).pc = "enqueue" => ~Submitted(Top(e).ev) /\ \A k \in Items : log[k].ev # Top(e).ev
           /\ Top(e).pc \in LockPcs => Submitted(Top(e).ev)
  <1> TypeOK /\ UserShape /\ RunShape /\ InCall /\ Logged /\ Numbered /\ Disciplined(scenario)
    BY DEF Inv, CallsInv, ChainInv
  <1>1. Top(e).pc \in UserPcs
    BY DEF UserPcs
  <1>2. stack[e][1] = Top(e) /\ Top(e) \in FrameSet /\ UserFrame(Top(e))
    BY <1>1, Tops DEF UserShape
  <1>3. /\ ip[e] \in DOMAIN Calls(e) /\ Call(e) = Calls(e)[ip[e]] /\ Call(e).op \in Submits
        /\ Top(e).ev = Call(e).ev /\ Top(e).q = Call(e).q
        /\ event[Call(e).ev].q = Call(e).q
        /\ Top(e).pc \in LockPcs => Submitted(Call(e).ev)
    BY <1>2 DEF InCall, Call
  <1>4. Call(e).ev \in Events /\ Call(e).q \in Queues
    BY <1>3, CallTypes
  <1>5. ASSUME NEW y \in Executors, y # e, stack[y][1].pc \in EnqueuePcs, Call(y).ev = Top(e).ev PROVE FALSE
    <2>1. ip[y] \in DOMAIN Calls(y) /\ Call(y).op \in Submits
      BY <1>5 DEF InCall
    <2>2. Agree(scenario, e, ip[e], y, ip[y])
      BY <1>3, <2>1 DEF Disciplined, Calls
    <2> QED
      BY <1>3, <1>5, <2>1, <2>2 DEF Agree, Calls, Call
  <1>6. ASSUME NEW k \in Items, log[k].ev = Top(e).ev PROVE log[k].by = e /\ log[k].at = ip[e] /\ Busy(k)
    <2>1. /\ log[k].at \in DOMAIN Calls(log[k].by) /\ log[k].by \in Executors
          /\ Calls(log[k].by)[log[k].at].op \in Submits
          /\ Calls(log[k].by)[log[k].at].ev = Call(e).ev
      BY <1>3, <1>6, ItemTypes DEF Logged
    <2>2. Agree(scenario, e, ip[e], log[k].by, log[k].at)
      BY <1>3, <2>1 DEF Disciplined, Calls
    <2>3. log[k].by = e /\ log[k].at = ip[e]
      BY <1>3, <2>1, <2>2 DEF Agree, Calls
    <2> QED
      BY <2>3 DEF Busy
  <1>7. ASSUME Top(e).pc = "enqueue", NEW k \in Items PROVE log[k].ev # Top(e).ev
    <2>1. Top(e).pc \notin LockPcs
      BY <1>7 DEF LockPcs
    <2> QED
      BY <1>2, <1>6, <2>1 DEF Logged
  <1>8. Top(e).pc = "enqueue" => ~Submitted(Top(e).ev)
    BY <1>3, <1>4, <1>7 DEF Numbered
  <1>9. \A y \in Executors : stack[y][1].pc \in EnqueuePcs => stack[y][1].ev = Call(y).ev
    BY DEF InCall
  <1> QED
    BY <1>1, <1>2, <1>3, <1>4, <1>5, <1>6, <1>7, <1>8, <1>9

\* Nobody is enqueuing on a queue whose lock is free.
LEMMA Unlocked ==
    ASSUME Inv, NEW q \in Queues, queue[q].lock = None, NEW k \in Items, log[k].q = q
    PROVE  ~Busy(k)
  <1> TypeOK /\ InCall /\ Logged /\ Locks
    BY DEF Inv, CallsInv
  <1> SUFFICES ASSUME Busy(k) PROVE FALSE
    OBVIOUS
  <1>1. stack[log[k].by][1].pc \in LockPcs /\ log[k].by \in Executors /\ log[k].at = ip[log[k].by]
    BY ItemTypes DEF Logged, Busy
  <1>2. stack[log[k].by][1].q = q
    BY <1>1 DEF InCall, Logged, Call, EnqueuePcs
  <1> QED
    BY <1>1, <1>2, NamesAssumption DEF Locks

\* The queue's lock is taken and the item gets its place: what changes.
EnqueueLocks(e, q, ev, n, it, f) ==
    /\ Top(e).pc = "enqueue" /\ Top(e).ev = ev /\ Top(e).q = q /\ queue[q].lock = None
    /\ it \in ItemSet /\ it.q = q /\ it.ev = ev /\ it.by = e /\ it.at = ip[e] /\ it.begun = 0 /\ it.ended = 0
    /\ Adds(n, it) /\ Grows /\ \A k \in Items : ItemSame(k)
    /\ f \in FrameSet /\ f.pc = "preds" /\ f.n = 0 /\ f.ev = ev /\ f.q = q /\ f.todo = IfAny(queue[q].last)
    /\ UserMoves(e, f)
    /\ event'[ev].item = n /\ event'[ev].q = q /\ event'[ev].status = "SUBMITTED"
    /\ \A x \in Events : x # ev => event'[x] = event[x]
    /\ queue'[q].lock = e /\ queue'[q].last = queue[q].last /\ queue'[q].sync = queue[q].sync
    /\ queue'[q].events = queue[q].events + 1
    /\ \A z \in Queues : z # q => queue'[z] = queue[z]
    /\ UNCHANGED <<users, task, sched>> /\ TypeOK'

\* kupl_enqueue_event up to the predecessors.
LEMMA EnqueueEventLocks ==
    ASSUME Inv, NEW e \in Executors, EnqueueEvent(e)
    PROVE  \E q, ev, n, it, f : EnqueueLocks(e, q, ev, n, it, f)
  <1> TypeOK /\ UserShape /\ RunShape
    BY DEF Inv, CallsInv, ChainInv
  <1>0. PICK q, ev, n, it, l :
            /\ q = Top(e).q /\ ev = Top(e).ev /\ n = Len(log) + 1 /\ it = Item(e, q, ev) /\ l = IfAny(queue[q].last)
    OBVIOUS
  <1>1. Top(e).pc = "enqueue" /\ Top(e).pc \in EnqueuePcs
    BY DEF EnqueueEvent, At, EnqueuePcs
  <1>2. /\ Top(e) \in FrameSet /\ Top(e).pc \in UserPcs /\ ev \in Events /\ q \in Queues /\ event[ev].q = q
    BY <1>0, <1>1, EnqueueFacts
  <1>3. ip[e] \in Nat /\ n \in Nat /\ queue \in [Queues -> QueueSet] /\ event \in [Events -> EventSet]
    BY <1>0, ItemTypes DEF TypeOK
  <1>4. /\ it \in ItemSet /\ it.q = q /\ it.ev = ev /\ it.by = e /\ it.at = ip[e] /\ it.begun = 0 /\ it.ended = 0
    <2>1. it = [q |-> q, ev |-> ev, by |-> e, at |-> ip[e], begun |-> 0, ended |-> 0] /\ 0 \in Int
      BY <1>0 DEF Item
    <2> QED
      BY <2>1, <1>2, <1>3, ItemType
  <1>5. log' = Append(log, it)
    BY <1>0 DEF EnqueueEvent
  <1>6. Adds(n, it) /\ Grows /\ log' \in Seq(ItemSet) /\ \A k \in Items : ItemSame(k)
    BY <1>0, <1>4, <1>5, LogAdds
  <1>7. queue[q] \in QueueSet /\ event[ev] \in EventSet
    BY <1>2, <1>3
  <1>8. queue[q].last \in Events \cup {None} /\ event[ev].type # "WAIT"
    BY <1>7 DEF QueueSet, EventSet
  <1>9. l \in Seq(Events) /\ l \o IfAny(None) = l
    <2>1. CASE queue[q].last = None
      BY <1>0, <2>1 DEF IfAny
    <2>2. CASE queue[q].last # None
      <3>1. PICK p \in Events : queue[q].last = p
        BY <1>8, <2>2
      <3>2. l = <<p>> /\ IfAny(None) = <<>>
        BY <1>0, <2>2, <3>1 DEF IfAny
      <3> QED
        BY <3>2
    <2> QED
      BY <2>1, <2>2
  <1>10. PICK f : f = [Top(e) EXCEPT !.pc = "preds", !.n = 0, !.todo = l]
    OBVIOUS
  <1>11. f \in FrameSet /\ f.pc = "preds" /\ f.n = 0 /\ f.ev = ev /\ f.q = q /\ f.todo = l
    <2>1. ASSUME NEW pc \in UserPcs, NEW z \in Nat, f = [Top(e) EXCEPT !.pc = pc, !.n = z, !.todo = l]
          PROVE  f \in FrameSet /\ f.pc = pc /\ f.n = z /\ f.ev = ev /\ f.q = q /\ f.todo = l
      BY <2>1, <1>0, <1>2, <1>9 DEF FrameSet
    <2>2. "preds" \in UserPcs /\ 0 \in Nat
      BY DEF UserPcs, EnqueuePcs, LockPcs
    <2> QED
      BY <1>10, <2>1, <2>2
  <1>12. SetTop(e, f)
    <2>1. IF event[ev].type = "WAIT" THEN event[ev].wait ELSE None = None
      BY <1>8
    <2>2. SetTop(e, [Top(e) EXCEPT !.pc = "preds", !.n = 0,
                 !.todo = IfAny(queue[q].last) \o IfAny(IF event[ev].type = "WAIT" THEN event[ev].wait ELSE None)])
      BY <1>0 DEF EnqueueEvent
    <2> QED
      BY <1>0, <1>8, <1>9, <1>10, <2>2
  <1>13. UserMoves(e, f)
    BY <1>2, <1>11, <1>12, SetTopMoves
  <1>14. PICK x : /\ x \in EventSet /\ x.item = n /\ x.q = q /\ x.status = "SUBMITTED" /\ event' = [event EXCEPT ![ev] = x]
    <2>1. PICK st, r : /\ st = "SUBMITTED" /\ r = IF event[ev].type = "KERNEL" THEN event[ev].ref ELSE event[ev].ref + 1
      OBVIOUS
    <2>2. st \in {"CREATED", "SUBMITTED", "COMPLETE"} /\ r \in Int
      BY <2>1, <1>7 DEF EventSet
    <2>3. event' = [event EXCEPT ![ev] = [event[ev] EXCEPT !.status = st, !.ref = r, !.item = n]]
      BY <1>0, <1>2, <1>3, <2>1 DEF EnqueueEvent
    <2>4. PICK x : x = [event[ev] EXCEPT !.status = st, !.ref = r, !.item = n]
      OBVIOUS
    <2>5. x \in EventSet /\ x.item = n /\ x.q = q /\ x.status = st
      BY <1>2, <1>3, <1>7, <2>2, <2>4 DEF EventSet
    <2> QED
      BY <2>1, <2>3, <2>4, <2>5
  <1>15. PICK y : /\ y \in QueueSet /\ y.lock = e /\ y.last = queue[q].last /\ y.sync = queue[q].sync
                  /\ y.events = queue[q].events + 1 /\ queue' = [queue EXCEPT ![q] = y]
    <2>1. PICK c : c = queue[q].events + 1
      OBVIOUS
    <2>2. c \in Int
      BY <2>1, <1>7 DEF QueueSet
    <2>3. queue' = [queue EXCEPT ![q] = [queue[q] EXCEPT !.lock = e, !.events = c]]
      BY <1>0, <1>2, <1>3, <2>1 DEF EnqueueEvent
    <2>4. PICK y : y = [queue[q] EXCEPT !.lock = e, !.events = c]
      OBVIOUS
    <2>5. y \in QueueSet /\ y.lock = e /\ y.last = queue[q].last /\ y.sync = queue[q].sync /\ y.events = c
      BY <1>7, <2>2, <2>4 DEF QueueSet
    <2> QED
      BY <2>1, <2>3, <2>4, <2>5
  <1>16. /\ event' \in [Events -> EventSet] /\ event'[ev] = x /\ \A z \in Events : z # ev => event'[z] = event[z]
         /\ queue' \in [Queues -> QueueSet] /\ queue'[q] = y /\ \A z \in Queues : z # q => queue'[z] = queue[z]
    BY <1>2, <1>3, <1>14, <1>15
  <1>17. UNCHANGED <<users, task, sched>> /\ queue[q].lock = None
    BY <1>0 DEF EnqueueEvent
  <1>18. TypeOK'
    BY <1>6, <1>13, <1>16, <1>17 DEF TypeOK, UserMoves, users, sched
  <1>19. f.todo = IfAny(queue[q].last)
    BY <1>0, <1>11
  <1> QED
    BY <1>0, <1>1, <1>4, <1>6, <1>11, <1>13, <1>14, <1>15, <1>16, <1>17, <1>18, <1>19 DEF EnqueueLocks

\* What is known of the calls when an item has got its place.
LEMMA EnqueueEventCalls ==
    ASSUME Inv, NEW e \in Executors, NEW q, NEW ev, NEW n, NEW it, NEW f, EnqueueLocks(e, q, ev, n, it, f)
    PROVE  CallsInv'
  <1> TypeOK /\ UserShape /\ RunShape /\ InCall /\ Logged /\ LoggedOnce /\ Numbered /\ Locks /\ BusyNewest
        /\ LastNewest /\ SyncRuns
    BY DEF Inv, CallsInv, ChainInv
  <1>1. /\ Top(e).pc = "enqueue" /\ Top(e).pc \in EnqueuePcs /\ Top(e).pc \notin LockPcs
        /\ Top(e).ev = ev /\ Top(e).q = q /\ queue[q].lock = None
    BY DEF EnqueueLocks, EnqueuePcs, LockPcs
  <1>2. /\ stack[e][1] = Top(e) /\ ev \in Events /\ q \in Queues /\ event[ev].q = q
        /\ ip[e] \in DOMAIN Calls(e) /\ Call(e) = Calls(e)[ip[e]] /\ Call(e).op \in Submits
        /\ ev = Call(e).ev /\ q = Call(e).q
        /\ \A y \in Executors : y # e /\ stack[y][1].pc \in EnqueuePcs => Call(y).ev # ev
        /\ ~Submitted(ev) /\ \A k \in Items : log[k].ev # ev
    BY <1>1, EnqueueFacts
  <1>3. /\ it.q = q /\ it.ev = ev /\ it.by = e /\ it.at = ip[e] /\ it.begun = 0 /\ it.ended = 0
        /\ n \in Nat \ {0} /\ Items' = Items \cup {n} /\ n \notin Items /\ log'[n] = it
        /\ \A k \in Items : log'[k] = log[k] /\ k < n /\ ~(n < k)
    BY DEF EnqueueLocks, Adds
  <1>4. /\ stack'[e] # <<>> /\ stack'[e][1] = f /\ f.pc = "preds" /\ f.n = 0 /\ f.ev = ev /\ f.q = q
        /\ f.todo = IfAny(queue[q].last) /\ f.pc \in LockPcs /\ f.pc \in EnqueuePcs
        /\ \A x \in Executors : x # e => stack'[x] = stack[x]
    BY DEF EnqueueLocks, UserMoves, LockPcs, EnqueuePcs
  <1>5. /\ event'[ev].item = n /\ event'[ev].q = q /\ \A x \in Events : x # ev => event'[x] = event[x]
        /\ queue'[q].lock = e /\ queue'[q].last = queue[q].last /\ queue'[q].sync = queue[q].sync
        /\ \A z \in Queues : z # q => queue'[z] = queue[z]
        /\ ip' = ip /\ scenario' = scenario
    BY DEF EnqueueLocks, users
  <1>6. \A x : Calls(x)' = Calls(x) /\ Call(x)' = Call(x)
    BY <1>5 DEF Calls, Call
  <1>7. \A k \in Items : log[k].by \in Executors /\ log[k].ev \in Events /\ log[k].at \in Nat /\ log[k].q \in Queues
    BY ItemTypes
  <1>8. (\A k \in Items : Busy(k)' <=> Busy(k)) /\ Busy(n)'
    BY <1>3, <1>5 DEF Busy
  <1>9. \A k \in Items : log[k].q = q => ~Busy(k)
    BY <1>1, <1>2, Unlocked
  <1>10. \A z \in Queues : queue[z].last # None => queue[z].last \in Events
    BY DEF TypeOK, QueueSet
  <1>11. UserShape'
    <2>1. queue[q].last = None \/ queue[q].last \in Events
      BY <1>2, <1>10
    <2>2. Lone(IfAny(queue[q].last))
      BY <2>1 DEF Lone, IfAny
    <2>3. UserFrame(f)
      BY <2>2, <1>4 DEF UserFrame, UserPcs
    <2> QED
      BY <2>3, <1>4 DEF UserShape
  <1>12. InCall'
    <2> SUFFICES ASSUME NEW x \in Executors, stack'[x][1].pc \in EnqueuePcs
                 PROVE  /\ ip[x] \in DOMAIN Calls(x) /\ Call(x).op \in Submits
                        /\ stack'[x][1].ev = Call(x).ev /\ stack'[x][1].q = Call(x).q
                        /\ event'[Call(x).ev].q = Call(x).q
                        /\ stack'[x][1].pc \in LockPcs => event'[Call(x).ev].item # 0
      BY <1>5, <1>6 DEF InCall, Submitted
    <2>1. CASE x = e
      BY <2>1, <1>2, <1>3, <1>4, <1>5
    <2>2. CASE x # e
      <3>1. stack'[x] = stack[x] /\ Call(x).ev # ev
        BY <2>2, <1>2, <1>4
      <3>2. ip[x] \in DOMAIN Calls(x) /\ Call(x).op \in Submits
        BY <3>1 DEF InCall
      <3>3. Call(x).ev \in Events
        BY <3>2, CallTypes DEF Call
      <3> QED
        BY <3>1, <3>2, <3>3, <1>5 DEF InCall, Submitted
    <2> QED
      BY <2>1, <2>2
  <1>13. Logged'
    <2> SUFFICES ASSUME NEW k \in Items'
                 PROVE  /\ log'[k].at \in DOMAIN Calls(log'[k].by) /\ log'[k].at <= ip[log'[k].by]
                        /\ Calls(log'[k].by)[log'[k].at].op \in Submits
                        /\ Calls(log'[k].by)[log'[k].at].q = log'[k].q
                        /\ Calls(log'[k].by)[log'[k].at].ev = log'[k].ev
                        /\ Busy(k)' => stack'[log'[k].by][1].pc \in LockPcs
      BY <1>5, <1>6 DEF Logged
    <2>1. CASE k = n
      <3>1. ip[e] \in Nat
        BY DEF TypeOK
      <3> QED
        BY <2>1, <3>1, <1>2, <1>3, <1>4
    <2>2. CASE k \in Items
      <3>1. log'[k] = log[k] /\ (Busy(k)' <=> Busy(k)) /\ log[k].by \in Executors
        BY <2>2, <1>3, <1>7, <1>8
      <3>2. Busy(k) => stack'[log[k].by][1].pc \in LockPcs
        <4>1. CASE log[k].by = e
          BY <4>1, <1>4
        <4>2. CASE log[k].by # e
          BY <4>2, <2>2, <3>1, <1>4 DEF Logged
        <4> QED
          BY <4>1, <4>2
      <3> QED
        BY <2>2, <3>1, <3>2 DEF Logged
    <2> QED
      BY <2>1, <2>2, <1>3
  <1>14. LoggedOnce'
    BY <1>2, <1>3 DEF LoggedOnce
  <1>15. Numbered'
    <2>1. ASSUME NEW x \in Events, event'[x].item # 0
          PROVE  /\ event'[x].item \in Items' /\ log'[event'[x].item].ev = x
                 /\ log'[event'[x].item].q = event'[x].q
      <3>1. CASE x = ev
        BY <3>1, <1>3, <1>5
      <3>2. CASE x # ev
        BY <3>2, <2>1, <1>3, <1>5 DEF Numbered, Submitted
      <3> QED
        BY <3>1, <3>2
    <2>2. ASSUME NEW k \in Items', event'[log'[k].ev].item = 0 PROVE log'[k].begun = 1 /\ log'[k].ended = 1
      <3>1. k # n
        BY <2>2, <1>3, <1>5
      <3>2. k \in Items /\ log'[k] = log[k] /\ log[k].ev # ev
        BY <3>1, <1>2, <1>3
      <3> QED
        BY <2>2, <3>2, <1>5, <1>7 DEF Numbered, Submitted
    <2> QED
      BY <2>1, <2>2 DEF Numbered, Submitted
  <1>16. Locks'
    <2> SUFFICES ASSUME NEW z \in Queues, NEW x \in Executors
                 PROVE  queue'[z].lock = x <=> stack'[x][1].pc \in LockPcs /\ stack'[x][1].q = z
      BY DEF Locks
    <2>1. CASE x = e
      BY <2>1, <1>1, <1>2, <1>4, <1>5 DEF Locks
    <2>2. CASE x # e /\ z = q
      BY <2>2, <1>1, <1>4, <1>5, NamesAssumption DEF Locks
    <2>3. CASE x # e /\ z # q
      BY <2>3, <1>4, <1>5 DEF Locks
    <2> QED
      BY <2>1, <2>2, <2>3
  <1>17. BusyNewest'
    <2> SUFFICES ASSUME NEW i \in Items', NEW k \in Items', Busy(i)', log'[k].q = log'[i].q PROVE k <= i
      BY DEF BusyNewest
    <2>1. CASE i = n
      <3>1. k \in Items \/ k = n
        BY <1>3
      <3>2. \A j \in Items : j \in Nat
        BY ItemTypes
      <3> QED
        BY <2>1, <3>1, <3>2, <1>3
    <2>2. CASE i \in Items
      <3>1. Busy(i) /\ log'[i] = log[i] /\ log[i].q # q
        BY <2>2, <1>3, <1>8, <1>9
      <3>2. k \in Items /\ log'[k] = log[k]
        BY <3>1, <1>3
      <3> QED
        BY <2>2, <3>1, <3>2 DEF BusyNewest
    <2> QED
      BY <2>1, <2>2, <1>3
  <1>18. LastNewest'
    <2> SUFFICES ASSUME NEW z \in Queues
                 PROVE  /\ queue[z].last = None => \A i \in Items' : log'[i].q = z => Busy(i)' \/ log'[i].ended = 1
                        /\ queue[z].last # None =>
                              /\ event'[queue[z].last].item # 0 /\ event'[queue[z].last].q = z
                              /\ \A i \in Items' : log'[i].q = z => Busy(i)' \/ i <= event'[queue[z].last].item
      <3> \A z \in Queues : queue'[z].last = queue[z].last
        BY <1>5
      <3> QED
        BY DEF LastNewest, Submitted
    <2>1. \A i \in Items : log'[i] = log[i] /\ (Busy(i)' <=> Busy(i))
      BY <1>3, <1>8
    <2>2. \A i \in Items' : i \in Items \/ i = n
      BY <1>3
    <2>3. ASSUME queue[z].last # None PROVE event'[queue[z].last] = event[queue[z].last]
      <3>1. queue[z].last \in Events /\ queue[z].last # ev
        BY <2>3, <1>2, <1>10 DEF LastNewest
      <3> QED
        BY <3>1, <1>5
    <2> QED
      BY <2>1, <2>2, <2>3, <1>8 DEF LastNewest, Submitted
  <1>19. SyncRuns'
    <2> SUFFICES ASSUME NEW z \in Queues, queue[z].sync
                 PROVE  /\ z = SyncQueue
                        /\ \A i \in Items' : log'[i].q = z /\ event'[log'[i].ev].item # 0 =>
                              Calls(log'[i].by)[log'[i].at].op # "submit"
                        /\ \A x \in Executors : stack'[x][1].pc \in EnqueuePcs /\ stack'[x][1].q = z =>
                              Call(x).op # "submit"
      <3> \A z \in Queues : queue'[z].sync = queue[z].sync
        BY <1>5
      <3> QED
        BY <1>6 DEF SyncRuns, Submitted
    <2>1. z = q => Call(e).op # "submit"
      BY <1>1, <1>2 DEF SyncRuns
    <2>2. \A x \in Executors : stack'[x][1].pc \in EnqueuePcs /\ stack'[x][1].q = z => Call(x).op # "submit"
      BY <2>1, <1>4 DEF SyncRuns
    <2>3. ASSUME NEW i \in Items', log'[i].q = z, event'[log'[i].ev].item # 0
          PROVE  Calls(log'[i].by)[log'[i].at].op # "submit"
      <3>1. CASE i = n
        BY <2>1, <2>3, <3>1, <1>2, <1>3
      <3>2. CASE i \in Items
        BY <2>3, <3>2, <1>2, <1>3, <1>5, <1>7 DEF SyncRuns, Submitted
      <3> QED
        BY <3>1, <3>2, <1>3
    <2> QED
      BY <2>2, <2>3 DEF SyncRuns
  <1> QED
    BY <1>11, <1>12, <1>13, <1>14, <1>15, <1>16, <1>17, <1>18, <1>19 DEF CallsInv

\* kupl_enqueue_event takes the queue's lock: the item goes behind the last event,
\* or is ready when there is none.
LEMMA EnqueueEventStep == ASSUME Inv, NEW e \in Executors, EnqueueEvent(e) PROVE Inv'
  <1> TypeOK /\ CallsInv /\ ChainInv /\ Disciplined(scenario)
    BY DEF Inv
  <1> Numbered /\ LastNewest /\ ChainOrder /\ ReadyOrder
    BY DEF CallsInv, ChainInv
  <1>0. PICK q, ev, n, it, f : EnqueueLocks(e, q, ev, n, it, f)
    BY EnqueueEventLocks
  <1>1. CallsInv'
    BY <1>0, EnqueueEventCalls
  <1>2. /\ Top(e).pc = "enqueue" /\ Top(e).pc \in EnqueuePcs /\ Top(e).ev = ev /\ Top(e).q = q /\ queue[q].lock = None
    BY <1>0 DEF EnqueueLocks, EnqueuePcs
  <1>3. /\ ev \in Events /\ q \in Queues /\ ~Submitted(ev)
    BY <1>2, EnqueueFacts
  <1>4. /\ it.q = q /\ it.ev = ev /\ it.by = e /\ it.at = ip[e] /\ it.begun = 0 /\ it.ended = 0
        /\ n \in Nat \ {0} /\ Items' = Items \cup {n} /\ n \notin Items /\ log'[n] = it
        /\ \A k \in Items : log'[k] = log[k] /\ k < n
        /\ Grows /\ \A k \in Items : ItemSame(k)
    BY <1>0 DEF EnqueueLocks, Adds
  <1>5. /\ UserMoves(e, f) /\ f.todo = IfAny(queue[q].last) /\ f.ev = ev
        /\ event'[ev].item = n /\ event'[ev].q = q /\ \A x \in Events : x # ev => event'[x] = event[x]
        /\ task' = task /\ ready' = ready /\ scenario' = scenario /\ TypeOK'
    BY <1>0 DEF EnqueueLocks, users, sched
  <1>6. RunsSame
    BY <1>5, UserRunsSame
  <1>7. ItemsKept
    BY <1>3, <1>5 DEF ItemsKept, SameItem
  <1>8. \A p \in Events : TaskKept(p)
    BY <1>5 DEF TaskKept
  <1>9. \A k \in Items' : k \in Items \/ NewItem(k)
    BY <1>4 DEF NewItem
  <1>10. FineEnqueuing(e, ev)
    <2>1. NotBegun(ev)'
      BY <1>4, <1>5 DEF NotBegun, Submitted
    <2>2. ready'[ev] = 0
      BY <1>3, <1>5 DEF ReadyOrder, NotBegun
    <2>3. ASSUME NEW i \in Items', i < n, log'[i].q = q PROVE i \in Items /\ log'[i] = log[i] /\ log[i].q = q /\ ~Busy(i)
      <3>1. i \in Items /\ log'[i] = log[i]
        BY <2>3, <1>4
      <3> QED
        BY <2>3, <3>1, <1>2, <1>3, Unlocked
    <2>4. ASSUME stack'[e][1].todo = <<>> PROVE Cleared(ev)'
      <3>1. queue[q].last = None
        BY <2>4, <1>5 DEF UserMoves, IfAny
      <3> QED
        BY <2>3, <3>1, <1>3, <1>5 DEF Cleared, LastNewest
    <2>5. ASSUME NEW p \in Events, stack'[e][1].todo = <<p>> PROVE Follows(ev, p)'
      <3>1. f.todo = <<p>>
        BY <2>5, <1>5 DEF UserMoves
      <3>2. queue[q].last = p /\ p # None
        BY <3>1, <1>5, NamesAssumption DEF IfAny
      <3>3. Submitted(p) /\ event[p].q = q /\ \A i \in Items : log[i].q = q => Busy(i) \/ i <= event[p].item
        BY <3>2, <1>3 DEF LastNewest
      <3>4. event'[p] = event[p] /\ event[p].item \in Items
        BY <3>3, <1>3, <1>5 DEF Numbered
      <3>5. event[p].item < n
        BY <3>4, <1>4
      <3>6. \A i \in Items' : i < n /\ log'[i].q = q => i <= event[p].item
        BY <2>3, <3>3
      <3> QED
        BY <3>3, <3>4, <3>5, <3>6, <1>4, <1>5 DEF Follows, Submitted
    <2>6. ASSUME NEW p \in Events, Chained(p, ev)' PROVE FALSE
      <3>1. Chained(p, ev)
        BY <2>6, <1>3, <1>5, <1>6, FramesSame DEF Chained, OnNode
      <3> QED
        BY <3>1, <1>3 DEF ChainOrder, NotBegun
    <2> QED
      BY <2>1, <2>2, <2>4, <2>5, <2>6 DEF FineEnqueuing
  <1>11. ASSUME NEW x \in Executors, NEW y \in Events, Enqueuing(x, y)'
         PROVE  \/ Enqueuing(x, y) /\ stack'[x][1].todo = stack[x][1].todo
                \/ FineEnqueuing(x, y)
    <2>1. CASE x = e
      <3>1. y = ev
        BY <2>1, <1>5, <1>11 DEF Enqueuing, UserMoves
      <3> QED
        BY <2>1, <3>1, <1>10
    <2>2. CASE x # e
      BY <2>2, <1>5, <1>11 DEF Enqueuing, UserMoves
    <2> QED
      BY <2>1, <2>2
  <1>12. ChainInv'
    BY <1>4, <1>5, <1>6, <1>7, <1>8, <1>9, <1>11, UserStepKept
  <1> QED
    BY <1>1, <1>5, <1>12 DEF Inv

\* What comes right behind an item that has returned has everything behind it.
LEMMA ClearedBehind ==
    ASSUME Inv, NEW x \in Events, NEW p \in Events, Follows(x, p), log[event[p].item].ended = 1
    PROVE  Cleared(x)
  <1> TypeOK /\ Numbered /\ Counts /\ RunsInOrder
    BY DEF Inv, CallsInv, ChainInv
  <1>1. PICK j : j = event[p].item
    OBVIOUS
  <1>2. j \in Items /\ log[j].q = event[x].q /\ log[j].ended = 1 /\ log[j].begun = 1
    BY <1>1 DEF Follows, Numbered, Counts
  <1> SUFFICES ASSUME NEW i \in Items, i < event[x].item, log[i].q = event[x].q PROVE log[i].ended = 1
    BY DEF Cleared
  <1>3. i <= j
    BY <1>1 DEF Follows
  <1>4. CASE i = j
    BY <1>2, <1>4
  <1>5. CASE i # j
    <2>1. i \in 1 .. (j - 1)
      BY <1>2, <1>3, <1>5, ItemTypes
    <2> QED
      BY <1>2, <2>1 DEF RunsInOrder
  <1> QED
    BY <1>4, <1>5

\* An item has one item right behind it, and is right behind one.
LEMMA FollowsOnce ==
    ASSUME Inv, NEW x \in Events, NEW y \in Events, NEW p \in Events
    PROVE  /\ Follows(x, p) /\ Follows(y, p) => x = y
           /\ Follows(p, x) /\ Follows(p, y) => x = y
  <1> TypeOK /\ Numbered
    BY DEF Inv, CallsInv
  <1>1. \A z \in Events : Submitted(z) => /\ event[z].item \in Items /\ event[z].item \in Nat
                                          /\ log[event[z].item].ev = z /\ log[event[z].item].q = event[z].q
    BY ItemTypes DEF Numbered
  <1>2. ASSUME Follows(x, p), Follows(y, p) PROVE x = y
    <2>1. /\ Submitted(x) /\ Submitted(y) /\ Submitted(p) /\ event[x].q = event[y].q
          /\ event[p].item < event[x].item /\ event[p].item < event[y].item
      BY <1>2 DEF Follows
    <2>2. ~(event[x].item < event[y].item)
      <3>1. event[x].item < event[y].item => event[x].item <= event[p].item
        BY <1>1, <1>2, <2>1 DEF Follows
      <3> QED
        BY <1>1, <2>1, <3>1
    <2>3. ~(event[y].item < event[x].item)
      <3>1. event[y].item < event[x].item => event[y].item <= event[p].item
        BY <1>1, <1>2, <2>1 DEF Follows
      <3> QED
        BY <1>1, <2>1, <3>1
    <2>4. event[x].item = event[y].item
      BY <1>1, <2>1, <2>2, <2>3
    <2> QED
      BY <1>1, <2>1, <2>4
  <1>3. ASSUME Follows(p, x), Follows(p, y) PROVE x = y
    <2>1. /\ Submitted(x) /\ Submitted(y) /\ event[x].q = event[p].q /\ event[y].q = event[p].q
          /\ event[x].item < event[p].item /\ event[y].item < event[p].item
      BY <1>3 DEF Follows
    <2>2. event[x].item <= event[y].item /\ event[y].item <= event[x].item
      BY <1>1, <1>3, <2>1 DEF Follows
    <2>3. event[x].item = event[y].item
      BY <1>1, <2>1, <2>2
    <2> QED
      BY <1>1, <2>1, <2>3
  <1> QED
    BY <1>2, <1>3

\* A step that touches neither items nor queues nor the log keeps what is known of
\* the calls.
LEMMA SameCalls ==
    ASSUME Inv, UNCHANGED <<users, queue, log>>, ItemsSame, \A e \in Executors : UserKept(e)
    PROVE  CallsInv' /\ Grows /\ ItemsKept /\ Items' = Items /\ log' = log /\ scenario' = scenario
           /\ \A k \in Items : ItemSame(k) /\ BegunSame(k)
  <1>1. TypeOK /\ CallsInv
    BY DEF Inv
  <1>2. LogSame
    BY DEF LogSame, Items, SameCall
  <1>3. \A q \in Queues : QueueKept(q)
    BY DEF QueueKept
  <1>4. CallsInv'
    BY <1>1, <1>2, <1>3, CallsKept
  <1> QED
    BY <1>2, <1>4, SameGrows DEF users, ItemsKept, ItemsSame, Items, ItemSame, BegunSame

\* An enqueue goes on under the queue's lock.
LEMMA EnqueueMoves ==
    ASSUME Inv, NEW e \in Executors, Top(e).pc \in LockPcs, NEW f \in FrameSet, f.pc \in LockPcs, UserFrame(f),
           f.ev = Top(e).ev, f.q = Top(e).q, SetTop(e, f)
    PROVE  UserMoves(e, f) /\ RunsSame /\ \A x \in Executors : UserKept(x)
  <1>1. Top(e).pc \in UserPcs /\ Top(e).pc \in EnqueuePcs /\ f.pc \in EnqueuePcs
    BY DEF UserPcs, EnqueuePcs
  <1>2. UserMoves(e, f)
    BY <1>1, SetTopMoves DEF Inv, CallsInv, ChainInv
  <1>3. ASSUME NEW x \in Executors PROVE UserKept(x)
    <2>1. CASE x = e
      BY <2>1, <1>1, <1>2 DEF UserKept, UserMoves
    <2>2. CASE x # e
      BY <2>2, <1>2 DEF UserKept, UserMoves, Inv, CallsInv, UserShape
    <2> QED
      BY <2>1, <2>2
  <1> QED
    BY <1>2, <1>3, UserRunsSame

\* The tasks change, but neither their edges nor their end.
LEMMA TaskUpdate ==
    ASSUME TypeOK, NEW c \in Events, NEW r \in TaskSet, task' = [task EXCEPT ![c] = r],
           r.succ = task[c].succ, r.finished = task[c].finished
    PROVE  task' \in [Events -> TaskSet] /\ \A p \in Events : TaskSame(p)
  <1>1. task \in [Events -> TaskSet]
    BY DEF TypeOK
  <1> QED
    BY <1>1 DEF TaskSame

\* The items, the edges and the scheduler stay as they are while an enqueue goes on.
LEMMA EnqueueGoesOn ==
    ASSUME Inv, NEW e \in Executors, Top(e).pc \in LockPcs, NEW f \in FrameSet, f.pc \in LockPcs, UserFrame(f),
           f.ev = Top(e).ev, f.q = Top(e).q, SetTop(e, f), UNCHANGED <<users, queue, event, sched, log>>,
           task' \in [Events -> TaskSet], \A p \in Events : TaskSame(p),
           f.pc \in {"preds", "insert"} /\ f.n = 0 =>
               /\ Enqueuing(e, Top(e).ev)
               /\ f.todo = Top(e).todo \/ (f.todo = <<>> /\ Cleared(Top(e).ev))
    PROVE  Inv'
  <1> TypeOK /\ CallsInv /\ ChainInv /\ Disciplined(scenario)
    BY DEF Inv
  <1>1. Top(e).pc \in EnqueuePcs
    BY DEF EnqueuePcs
  <1>2. stack[e][1] = Top(e) /\ Top(e).ev \in Events
    BY <1>1, EnqueueFacts
  <1>3. UserMoves(e, f) /\ RunsSame /\ \A x \in Executors : UserKept(x)
    BY EnqueueMoves
  <1>4. ItemsSame
    BY DEF ItemsSame, SameItem
  <1>5. /\ CallsInv' /\ Grows /\ ItemsKept /\ Items' = Items /\ scenario' = scenario
        /\ \A k \in Items : ItemSame(k)
    BY <1>3, <1>4, SameCalls
  <1>6. TypeOK'
    BY <1>3 DEF TypeOK, users, sched, UserMoves
  <1>7. \A p \in Events : TaskKept(p)
    BY DEF TaskKept, TaskSame
  <1>8. \A p, y \in Events : Chained(p, y)' <=> Chained(p, y)
    BY <1>3, FramesSame DEF Chained, OnNode, TaskSame
  <1>9. ASSUME NEW x \in Executors, NEW y \in Events, Enqueuing(x, y)'
        PROVE  \/ Enqueuing(x, y) /\ stack'[x][1].todo = stack[x][1].todo
               \/ FineEnqueuing(x, y)
    <2>1. CASE x # e
      BY <2>1, <1>3, <1>9 DEF Enqueuing, UserMoves
    <2>2. CASE x = e
      <3>1. y = Top(e).ev /\ f.pc \in {"preds", "insert"} /\ f.n = 0 /\ stack'[e][1].todo = f.todo
        BY <2>2, <1>3, <1>9 DEF Enqueuing, UserMoves
      <3>2. Enqueuing(e, y) /\ (f.todo = Top(e).todo \/ (f.todo = <<>> /\ Cleared(y)))
        BY <3>1
      <3>3. CASE f.todo = Top(e).todo
        BY <2>2, <3>1, <3>2, <3>3, <1>2
      <3>4. CASE f.todo = <<>> /\ Cleared(y)
        <4>1. NotBegun(y) /\ ready[y] = 0 /\ \A p \in Events : ~Chained(p, y)
          BY <3>2 DEF ChainInv, EnqueueOrder
        <4>2. NotBegun(y)' /\ ready'[y] = 0
          BY <4>1 DEF NotBegun, Submitted, sched
        <4>3. Cleared(y)'
          BY <3>4, <1>5 DEF Cleared
        <4>4. \A p \in Events : <<>> # <<p>>
          OBVIOUS
        <4> QED
          BY <2>2, <3>1, <3>4, <4>1, <4>2, <4>3, <4>4, <1>8 DEF FineEnqueuing
      <3> QED
        BY <3>2, <3>3, <3>4
    <2> QED
      BY <2>1, <2>2
  <1>10. ready' = ready
    BY DEF sched
  <1>11. \A k \in Items' : k \in Items \/ NewItem(k)
    BY <1>5
  <1>12. ChainInv'
    BY <1>3, <1>5, <1>6, <1>7, <1>9, <1>10, <1>11, UserStepKept
  <1> QED
    BY <1>5, <1>6, <1>12 DEF Inv

\* kupl_gnode_precede passes over a finished predecessor and locks another.
LEMMA GnodePrecedeLockStep == ASSUME Inv, NEW e \in Executors, GnodePrecedeLock(e) PROVE Inv'
  <1> TypeOK /\ FinishedRan /\ EnqueueOrder
    BY DEF Inv, ChainInv
  <1>1. Top(e).pc = "preds" /\ Top(e).pc \in LockPcs /\ Top(e).pc \in EnqueuePcs /\ Top(e).todo # <<>>
    BY DEF GnodePrecedeLock, At, LockPcs, EnqueuePcs
  <1>2. stack[e][1] = Top(e) /\ Top(e) \in FrameSet /\ UserFrame(Top(e)) /\ Top(e).ev \in Events
    BY <1>1, EnqueueFacts
  <1>3. PICK p \in Events : Top(e).todo = <<p>>
    BY <1>1, <1>2 DEF UserFrame, Lone
  <1>4. Top(e).n = 0 /\ Lone(Top(e).todo)
    BY <1>1, <1>2 DEF UserFrame
  <1>5. Enqueuing(e, Top(e).ev)
    BY <1>1, <1>2, <1>4 DEF Enqueuing
  <1>6. Follows(Top(e).ev, p)
    BY <1>2, <1>3, <1>5 DEF EnqueueOrder
  <1>7. UNCHANGED <<users, queue, event, sched, log>>
    BY DEF GnodePrecedeLock
  <1>8. Head(Top(e).todo) = p /\ Tail(Top(e).todo) = <<>>
    BY <1>3
  <1>9. task \in [Events -> TaskSet] /\ task[p] \in TaskSet
    BY DEF TypeOK
  <1>10. CASE task[p].finished /\ SetTop(e, [Top(e) EXCEPT !.todo = Tail(@)]) /\ task' = task
    <2>1. PICK f : f = [Top(e) EXCEPT !.todo = <<>>]
      OBVIOUS
    <2>2. /\ f \in FrameSet /\ f.pc = "preds" /\ f.n = 0 /\ f.ev = Top(e).ev /\ f.q = Top(e).q /\ f.todo = <<>>
      <3>1. ASSUME NEW z \in Seq(Events), f = [Top(e) EXCEPT !.todo = z]
            PROVE  /\ f \in FrameSet /\ f.pc = Top(e).pc /\ f.n = Top(e).n /\ f.ev = Top(e).ev
                   /\ f.q = Top(e).q /\ f.todo = z
        BY <3>1, <1>2 DEF FrameSet
      <3>2. <<>> \in Seq(Events)
        OBVIOUS
      <3> QED
        BY <2>1, <3>1, <3>2, <1>1, <1>4
    <2>3. SetTop(e, f)
      BY <2>1, <1>8, <1>10
    <2>4. UserFrame(f) /\ f.pc \in LockPcs
      BY <2>2, <1>1 DEF UserFrame, UserPcs, EnqueuePcs, Lone
    <2>5. Cleared(Top(e).ev)
      BY <1>2, <1>6, <1>10, ClearedBehind DEF FinishedRan
    <2>6. \A x \in Events : TaskSame(x)
      BY <1>10 DEF TaskSame
    <2> QED
      BY <1>1, <1>5, <1>7, <1>9, <1>10, <2>2, <2>3, <2>4, <2>5, <2>6, EnqueueGoesOn
  <1>11. CASE task' = [task EXCEPT ![p].locked = TRUE] /\ SetTop(e, [Top(e) EXCEPT !.pc = "insert"])
    <2>1. PICK f : f = [Top(e) EXCEPT !.pc = "insert"]
      OBVIOUS
    <2>2. /\ f \in FrameSet /\ f.pc = "insert" /\ f.n = 0 /\ f.ev = Top(e).ev /\ f.q = Top(e).q /\ f.todo = Top(e).todo
      BY <2>1, <1>1, <1>2, <1>4 DEF FrameSet, UserPcs, EnqueuePcs, LockPcs
    <2>3. SetTop(e, f)
      BY <2>1, <1>11
    <2>4. UserFrame(f) /\ f.pc \in LockPcs
      BY <2>2, <1>1, <1>4 DEF UserFrame, UserPcs, EnqueuePcs, LockPcs
    <2>5. PICK r : r = [task[p] EXCEPT !.locked = TRUE]
      OBVIOUS
    <2>6. r \in TaskSet /\ r.succ = task[p].succ /\ r.finished = task[p].finished
      BY <1>9, <2>5 DEF TaskSet
    <2>7. task' = [task EXCEPT ![p] = r]
      BY <1>11, <2>5
    <2>8. task' \in [Events -> TaskSet] /\ \A x \in Events : TaskSame(x)
      BY <2>6, <2>7, TaskUpdate
    <2> QED
      BY <1>1, <1>5, <1>7, <2>2, <2>3, <2>4, <2>8, EnqueueGoesOn
  <1> QED
    BY <1>8, <1>10, <1>11 DEF GnodePrecedeLock

\* The edge is counted at the successor.
LEMMA GnodePrecedeCountStep == ASSUME Inv, NEW e \in Executors, GnodePrecedeCount(e) PROVE Inv'
  <1> TypeOK
    BY DEF Inv
  <1>1. Top(e).pc = "count" /\ Top(e).pc \in LockPcs /\ Top(e).pc \in EnqueuePcs
    BY DEF GnodePrecedeCount, At, LockPcs, EnqueuePcs
  <1>2. stack[e][1] = Top(e) /\ Top(e) \in FrameSet /\ UserFrame(Top(e)) /\ Top(e).ev \in Events
    BY <1>1, EnqueueFacts
  <1>3. PICK p \in Events : Top(e).todo = <<p>>
    BY <1>1, <1>2 DEF UserFrame, Lone
  <1>4. PICK ev, n : ev = Top(e).ev /\ n = Top(e).n + 1
    OBVIOUS
  <1>5. n \in Nat /\ n # 0 /\ Tail(Top(e).todo) = <<>> /\ ev \in Events
    BY <1>2, <1>3, <1>4 DEF FrameSet
  <1>6. UNCHANGED <<users, queue, event, sched, log>> /\ task' = [task EXCEPT ![ev].nPred = @ + 1]
    BY <1>4 DEF GnodePrecedeCount
  <1>7. PICK f : f = [Top(e) EXCEPT !.pc = "preds", !.todo = <<>>, !.n = n]
    OBVIOUS
  <1>8. /\ f \in FrameSet /\ f.pc = "preds" /\ f.n = n /\ f.ev = Top(e).ev /\ f.q = Top(e).q /\ f.todo = <<>>
    <2>1. ASSUME NEW pc \in UserPcs, NEW z \in Seq(Events), f = [Top(e) EXCEPT !.pc = pc, !.todo = z, !.n = n]
          PROVE  /\ f \in FrameSet /\ f.pc = pc /\ f.n = n /\ f.ev = Top(e).ev
                 /\ f.q = Top(e).q /\ f.todo = z
      BY <2>1, <1>2, <1>5 DEF FrameSet
    <2>2. <<>> \in Seq(Events) /\ "preds" \in UserPcs
      BY DEF UserPcs, EnqueuePcs, LockPcs
    <2> QED
      BY <2>1, <2>2, <1>7
  <1>9. SetTop(e, f)
    <2>1. SetTop(e, [Top(e) EXCEPT !.pc = "preds", !.todo = Tail(Top(e).todo), !.n = Top(e).n + 1])
      BY DEF GnodePrecedeCount
    <2> QED
      BY <2>1, <1>4, <1>5, <1>7
  <1>10. UserFrame(f) /\ f.pc \in LockPcs
    BY <1>8 DEF UserFrame, UserPcs, EnqueuePcs, LockPcs, Lone
  <1>11. task[ev] \in TaskSet
    BY <1>5 DEF TypeOK
  <1>12. PICK c, r : c = task[ev].nPred + 1 /\ r = [task[ev] EXCEPT !.nPred = c]
    OBVIOUS
  <1>13. c \in Int
    BY <1>11, <1>12 DEF TaskSet
  <1>14. r \in TaskSet /\ r.succ = task[ev].succ /\ r.finished = task[ev].finished
    BY <1>11, <1>12, <1>13 DEF TaskSet
  <1>15. task' = [task EXCEPT ![ev] = r]
    BY <1>6, <1>12
  <1>16. task' \in [Events -> TaskSet] /\ \A x \in Events : TaskSame(x)
    BY <1>5, <1>14, <1>15, TaskUpdate
  <1> QED
    BY <1>1, <1>5, <1>6, <1>8, <1>9, <1>10, <1>16, EnqueueGoesOn

\* The edge is inserted: the run of the item is handed to its predecessor.
LEMMA GnodePrecedeInsertStep == ASSUME Inv, NEW e \in Executors, GnodePrecedeInsert(e) PROVE Inv'
  <1> TypeOK /\ CallsInv /\ ChainInv /\ Disciplined(scenario)
    BY DEF Inv
  <1> Numbered /\ OneSuccessor /\ EnqueueOrder /\ ChainOrder /\ Counts /\ FinishedRan /\ RunsInOrder
    BY DEF CallsInv, ChainInv
  <1>1. Top(e).pc = "insert" /\ Top(e).pc \in LockPcs /\ Top(e).pc \in EnqueuePcs
    BY DEF GnodePrecedeInsert, At, LockPcs, EnqueuePcs
  <1>2. /\ stack[e][1] = Top(e) /\ Top(e) \in FrameSet /\ UserFrame(Top(e))
        /\ \A y \in Executors : y # e /\ stack[y][1].pc \in EnqueuePcs => stack[y][1].ev # Top(e).ev
    BY <1>1, EnqueueFacts
  <1>3. PICK x \in Events : x = Top(e).ev
    BY <1>1, EnqueueFacts
  <1>4. PICK p \in Events : Top(e).todo = <<p>>
    BY <1>1, <1>2 DEF UserFrame, Lone
  <1>5. Top(e).n = 0 /\ Head(Top(e).todo) = p
    BY <1>1, <1>2, <1>4 DEF UserFrame
  <1>6. Enqueuing(e, x)
    BY <1>1, <1>2, <1>3, <1>5 DEF Enqueuing
  <1>7. NotBegun(x) /\ ready[x] = 0 /\ Follows(x, p) /\ \A y \in Events : ~Chained(y, x)
    BY <1>2, <1>4, <1>6 DEF EnqueueOrder
  <1>8. UNCHANGED <<users, queue, event, sched, log>>
    BY DEF GnodePrecedeInsert
  <1>9. PICK f : f = [Top(e) EXCEPT !.pc = "count"]
    OBVIOUS
  <1>10. /\ f \in FrameSet /\ f.pc = "count" /\ f.ev = Top(e).ev /\ f.q = Top(e).q /\ f.todo = Top(e).todo
    BY <1>2, <1>9 DEF FrameSet, UserPcs, EnqueuePcs, LockPcs
  <1>11. SetTop(e, f) /\ UserFrame(f) /\ f.pc \in LockPcs
    <2>1. SetTop(e, f) /\ f.pc \in LockPcs
      BY <1>9, <1>10 DEF GnodePrecedeInsert, LockPcs
    <2>2. UserFrame(f)
      BY <1>4, <1>10 DEF UserFrame, UserPcs, EnqueuePcs, LockPcs, Lone
    <2> QED
      BY <2>1, <2>2
  <1>12. UserMoves(e, f) /\ RunsSame /\ \A y \in Executors : UserKept(y)
    BY <1>1, <1>10, <1>11, EnqueueMoves
  <1>13. PICK s, r : s = <<x>> \o task[p].succ /\ r = [task[p] EXCEPT !.succ = s, !.locked = FALSE]
    OBVIOUS
  <1>14. task \in [Events -> TaskSet] /\ task[p] \in TaskSet /\ task[p].succ \in Seq(Events)
    BY DEF TypeOK, TaskSet
  <1>15. s \in Seq(Events) /\ (task[p].succ = <<>> => s = <<x>>)
    <2>1. ASSUME NEW t \in Seq(Events) PROVE <<x>> \o t \in Seq(Events)
      OBVIOUS
    <2>2. <<x>> \o <<>> = <<x>>
      OBVIOUS
    <2> QED
      BY <2>1, <2>2, <1>13, <1>14
  <1>16. r \in TaskSet /\ r.succ = s /\ r.finished = task[p].finished
    BY <1>13, <1>14, <1>15 DEF TaskSet
  <1>17. task' = [task EXCEPT ![p] = r]
    BY <1>3, <1>5, <1>13, <1>14 DEF GnodePrecedeInsert
  <1>18. /\ task' \in [Events -> TaskSet] /\ task'[p].succ = s
         /\ \A y \in Events : task'[y].finished = task[y].finished /\ (y # p => task'[y].succ = task[y].succ)
    BY <1>14, <1>16, <1>17
  <1>19. ItemsSame
    BY <1>8 DEF ItemsSame, SameItem
  <1>20. /\ CallsInv' /\ Grows /\ ItemsKept /\ Items' = Items /\ log' = log /\ scenario' = scenario
         /\ \A k \in Items : ItemSame(k)
    BY <1>8, <1>12, <1>19, SameCalls
  <1>21. TypeOK'
    BY <1>8, <1>12, <1>18 DEF TypeOK, users, sched, UserMoves
  <1>22. RunShape' /\ FetchedOrder' /\ RunOrder' /\ OneRun'
    BY <1>12, <1>18, <1>20, RunsUndisturbed
  <1>23. /\ \A y \in Events : AtFinish(y)' <=> AtFinish(y)
         /\ \A y, z \in Events : Fetched(y, z)' <=> Fetched(y, z)
    BY <1>12, FramesSame
  <1>24. ASSUME task[p].finished => AtFinish(p) PROVE task[p].succ = <<>>
    <2>1. Lone(task[p].succ)
      BY <1>24 DEF OneSuccessor
    <2>2. ASSUME NEW y \in Events, task[p].succ = <<y>> PROVE FALSE
      <3>1. Chained(p, y)
        BY <1>24, <2>2 DEF Chained, OnNode
      <3>2. Follows(y, p)
        BY <3>1 DEF ChainOrder
      <3>3. y = x
        BY <3>2, <1>7, FollowsOnce
      <3> QED
        BY <3>1, <3>3, <1>7
    <2> QED
      BY <2>1, <2>2 DEF Lone
  <1>25. OneSuccessor'
    <2> SUFFICES ASSUME NEW y \in Events, task'[y].finished => AtFinish(y)' PROVE Lone(task'[y].succ)
      BY DEF OneSuccessor, Lone
    <2>1. task[y].finished => AtFinish(y)
      BY <1>18, <1>23
    <2>2. CASE y = p
      BY <2>1, <2>2, <1>15, <1>18, <1>24 DEF Lone
    <2>3. CASE y # p
      BY <2>1, <2>3, <1>18 DEF OneSuccessor
    <2> QED
      BY <2>2, <2>3
  <1>26. Counts' /\ FinishedRan' /\ RunsInOrder'
    BY <1>8, <1>18, <1>20 DEF Counts, FinishedRan, RunsInOrder, Submitted
  <1>27. \A y \in Events : Untouched(y)
    BY <1>8 DEF Untouched, NotBegun, Submitted, sched
  <1>28. \A a \in Executors, y \in Events : Enqueuing(a, y)' => a # e /\ y # x /\ StillEnqueuing(a, y)
    <2> SUFFICES ASSUME NEW a \in Executors, NEW y \in Events, Enqueuing(a, y)'
                 PROVE  a # e /\ y # x /\ StillEnqueuing(a, y)
      OBVIOUS
    <2>1. a # e
      BY <1>10, <1>12 DEF Enqueuing, UserMoves
    <2>2. stack'[a] = stack[a] /\ Enqueuing(a, y)
      BY <2>1, <1>12 DEF UserMoves, Enqueuing
    <2>3. y # x
      BY <2>1, <2>2, <1>2, <1>3 DEF Enqueuing, EnqueuePcs, LockPcs
    <2> QED
      BY <2>1, <2>2, <2>3, <1>27 DEF StillEnqueuing
  <1>29. ASSUME NEW z \in Events, NEW y \in Events, Chained(z, y)' PROVE StillChained(z, y) \/ FineChained(z, y)
    <2>1. CASE Fetched(z, y)'
      BY <2>1, <1>23, <1>27 DEF StillChained, Chained
    <2>2. CASE OnNode(z, y)' /\ z # p
      BY <2>2, <1>18, <1>23, <1>27 DEF StillChained, Chained, OnNode
    <2>3. CASE OnNode(z, y)' /\ z = p
      <3>1. s = <<x>> /\ s = <<y>>
        BY <2>3, <1>15, <1>18, <1>23, <1>24 DEF OnNode
      <3>2. y = x
        BY <3>1
      <3>3. NotBegun(x)' /\ ready'[x] = 0 /\ Follows(x, p)'
        BY <1>7, <1>8, <1>20, OrderKept DEF NotBegun, Submitted, sched
      <3> QED
        BY <2>3, <3>2, <3>3, <1>28 DEF FineChained
    <2> QED
      BY <1>29, <2>1, <2>2, <2>3 DEF Chained
  <1>30. \A y \in Events : ready'[y] # 0 => FineReady(y)
    BY <1>8, <1>27 DEF FineReady, sched
  <1>31. EnqueueOrder' /\ ChainOrder' /\ ReadyOrder'
    BY <1>20, <1>28, <1>29, <1>30, OrdersKept
  <1>32. ChainInv'
    BY <1>22, <1>25, <1>26, <1>31 DEF ChainInv
  <1> QED
    BY <1>20, <1>21, <1>32 DEF Inv

\* The new event becomes the last one of its queue and the call returns.
LEMMA EnqueueUnlockStep == ASSUME Inv, NEW e \in Executors, EnqueueUnlock(e) PROVE Inv'
  <1> TypeOK /\ CallsInv /\ ChainInv /\ Disciplined(scenario)
    BY DEF Inv
  <1> UserShape /\ RunShape /\ InCall /\ Logged /\ LoggedOnce /\ Numbered /\ Locks /\ BusyNewest /\ LastNewest /\ SyncRuns
    BY DEF CallsInv, ChainInv
  <1>1. Top(e).pc = "unlock" /\ Top(e).pc \in LockPcs /\ Top(e).pc \in EnqueuePcs
    BY DEF EnqueueUnlock, At, LockPcs, EnqueuePcs
  <1>2. PICK q, ev, n : q \in Queues /\ ev \in Events /\ q = Top(e).q /\ ev = Top(e).ev /\ n = event[ev].item
    BY <1>1, EnqueueFacts
  <1> q \in Queues /\ ev \in Events
    BY <1>2
  <1>3. /\ stack[e][1] = Top(e) /\ Top(e).pc \in UserPcs
        /\ ip[e] \in DOMAIN Calls(e) /\ Call(e) = Calls(e)[ip[e]] /\ Call(e).op \in Submits
        /\ ev = Call(e).ev /\ q = Call(e).q /\ event[ev].q = q /\ Submitted(ev)
        /\ \A k \in Items : log[k].ev = ev => log[k].by = e /\ log[k].at = ip[e] /\ Busy(k)
    BY <1>1, <1>2, EnqueueFacts
  <1>4. n \in Items /\ log[n].ev = ev /\ log[n].q = q /\ Busy(n)
    BY <1>2, <1>3 DEF Numbered
  <1>5. /\ SetTop(e, User) /\ Return(e) /\ UNCHANGED <<event, task, sched, log>>
        /\ queue' = [queue EXCEPT ![q].last = ev, ![q].lock = None]
    BY <1>2, <1>3 DEF EnqueueUnlock, Submits
  <1>6. UserMoves(e, User) /\ RunsSame
    BY <1>3, <1>5, UserType, SetTopMoves, UserRunsSame
  <1>7. /\ scenario' = scenario /\ ip' \in [Executors -> Nat \ {0}] /\ ip[e] \in Nat /\ ip'[e] = ip[e] + 1
        /\ \A x \in Executors : x # e => ip'[x] = ip[x]
    BY <1>5 DEF Return, TypeOK
  <1>8. queue \in [Queues -> QueueSet] /\ queue[q] \in QueueSet
    BY DEF TypeOK
  <1>9. PICK r : r = [queue[q] EXCEPT !.last = ev, !.lock = None]
    OBVIOUS
  <1>10. r \in QueueSet /\ r.last = ev /\ r.lock = None /\ r.sync = queue[q].sync
    BY <1>8, <1>9 DEF QueueSet
  <1>11. queue' = [queue EXCEPT ![q] = r]
    BY <1>5, <1>8, <1>9
  <1>12. /\ queue' \in [Queues -> QueueSet] /\ queue'[q] = r /\ \A z \in Queues : z # q => queue'[z] = queue[z]
    BY <1>8, <1>10, <1>11
  <1>13. TypeOK'
    BY <1>5, <1>6, <1>7, <1>12 DEF TypeOK, sched, UserMoves
  <1>14. Items' = Items /\ log' = log /\ event' = event /\ \A x : Calls(x)' = Calls(x)
    BY <1>5, <1>7 DEF Items, Calls
  <1>15. \A k \in Items : log[k].by \in Executors /\ log[k].ev \in Events /\ log[k].at \in Nat /\ log[k].q \in Queues
    BY ItemTypes
  <1>16. stack'[e] # <<>> /\ stack'[e][1] = User /\ \A x \in Executors : x # e => stack'[x] = stack[x]
    BY <1>6 DEF UserMoves
  <1>17. User.pc \notin EnqueuePcs /\ User.pc \notin LockPcs /\ UserFrame(User)
    BY UserType DEF EnqueuePcs
  <1>18. \A k \in Items : Busy(k)' <=> Busy(k) /\ log[k].by # e
    <2> SUFFICES ASSUME NEW k \in Items PROVE Busy(k)' <=> Busy(k) /\ log[k].by # e
      OBVIOUS
    <2>1. CASE log[k].by = e
      <3>1. log[k].at <= ip[e] /\ log[k].at \in Nat
        BY <2>1, <1>15 DEF Logged
      <3>2. log[k].at # ip'[e]
        BY <3>1, <1>7
      <3> QED
        BY <2>1, <3>2, <1>14 DEF Busy
    <2>2. CASE log[k].by # e
      BY <2>2, <1>7, <1>14, <1>15 DEF Busy
    <2> QED
      BY <2>1, <2>2
  <1>19. \A k \in Items : Busy(k) /\ log[k].by = e => log[k].q = q
    BY <1>3 DEF Busy, Logged
  <1>20. CallsInv'
    <2>1. UserShape'
      BY <1>16, <1>17 DEF UserShape
    <2>2. InCall'
      <3> SUFFICES ASSUME NEW x \in Executors, stack'[x][1].pc \in EnqueuePcs
                   PROVE  /\ ip'[x] \in DOMAIN Calls(x) /\ Calls(x)[ip'[x]].op \in Submits
                          /\ stack'[x][1].ev = Calls(x)[ip'[x]].ev /\ stack'[x][1].q = Calls(x)[ip'[x]].q
                          /\ event[Calls(x)[ip'[x]].ev].q = Calls(x)[ip'[x]].q
                          /\ stack'[x][1].pc \in LockPcs => event[Calls(x)[ip'[x]].ev].item # 0
        BY <1>14 DEF InCall, Submitted, Call
      <3>1. x # e
        BY <1>16, <1>17
      <3>2. stack'[x] = stack[x] /\ ip'[x] = ip[x]
        BY <3>1, <1>7, <1>16
      <3> QED
        BY <3>2 DEF InCall, Submitted, Call
    <2>3. Logged'
      <3> SUFFICES ASSUME NEW k \in Items
                   PROVE  /\ log[k].at <= ip'[log[k].by]
                          /\ Busy(k)' => stack'[log[k].by][1].pc \in LockPcs
        BY <1>14 DEF Logged
      <3>1. log[k].at <= ip'[log[k].by]
        <4>1. CASE log[k].by = e
          <5>1. log[k].at <= ip[e] /\ log[k].at \in Nat
            BY <4>1, <1>15 DEF Logged
          <5> QED
            BY <4>1, <5>1, <1>7
        <4>2. CASE log[k].by # e
          BY <4>2, <1>7, <1>15 DEF Logged
        <4> QED
          BY <4>1, <4>2
      <3>2. Busy(k)' => stack'[log[k].by][1].pc \in LockPcs
        BY <1>15, <1>16, <1>18 DEF Logged
      <3> QED
        BY <3>1, <3>2
    <2>4. LoggedOnce' /\ Numbered'
      BY <1>14 DEF LoggedOnce, Numbered, Submitted
    <2>5. Locks'
      <3> SUFFICES ASSUME NEW z \in Queues, NEW x \in Executors
                   PROVE  queue'[z].lock = x <=> stack'[x][1].pc \in LockPcs /\ stack'[x][1].q = z
        BY DEF Locks
      <3>0. stack[e][1].pc \in LockPcs /\ stack[e][1].q = q
        BY <1>1, <1>2, <1>3
      <3>1. queue[q].lock = e /\ (z # q => queue[z].lock # e)
        BY <3>0 DEF Locks
      <3>2. CASE x = e
        <4>1. queue'[z].lock # e
          BY <3>1, <1>10, <1>12, NamesAssumption
        <4> QED
          BY <3>2, <4>1, <1>16, <1>17
      <3>3. CASE x # e /\ z = q
        BY <3>1, <3>3, <1>10, <1>12, <1>16, NamesAssumption DEF Locks
      <3>4. CASE x # e /\ z # q
        BY <3>4, <1>12, <1>16 DEF Locks
      <3> QED
        BY <3>2, <3>3, <3>4
    <2>6. BusyNewest'
      BY <1>14, <1>18 DEF BusyNewest
    <2>7. LastNewest'
      <3> SUFFICES ASSUME NEW z \in Queues
                   PROVE  /\ queue'[z].last = None => \A i \in Items : log[i].q = z => Busy(i)' \/ log[i].ended = 1
                          /\ queue'[z].last # None =>
                                /\ Submitted(queue'[z].last) /\ event[queue'[z].last].q = z
                                /\ \A i \in Items : log[i].q = z => Busy(i)' \/ i <= event[queue'[z].last].item
        BY <1>14 DEF LastNewest, Submitted
      <3>1. CASE z = q
        <4>1. queue'[z].last = ev /\ ev # None
          BY <3>1, <1>10, <1>12, NamesAssumption
        <4>2. \A i \in Items : log[i].q = q => i <= n
          BY <1>4 DEF BusyNewest
        <4> QED
          BY <3>1, <4>1, <4>2, <1>2, <1>3
      <3>2. CASE z # q
        BY <3>2, <1>12, <1>18, <1>19 DEF LastNewest
      <3> QED
        BY <3>1, <3>2
    <2>8. SyncRuns'
      <3> SUFFICES ASSUME NEW z \in Queues, queue[z].sync
                   PROVE  /\ z = SyncQueue
                          /\ \A i \in Items : log[i].q = z /\ Submitted(log[i].ev) =>
                                Calls(log[i].by)[log[i].at].op # "submit"
                          /\ \A x \in Executors : stack'[x][1].pc \in EnqueuePcs /\ stack'[x][1].q = z =>
                                Calls(x)[ip'[x]].op # "submit"
        <4> \A z \in Queues : queue'[z].sync = queue[z].sync
          BY <1>10, <1>12
        <4> QED
          BY <1>14 DEF SyncRuns, Submitted, Call
      <3>1. \A x \in Executors : x # e => stack'[x] = stack[x] /\ ip'[x] = ip[x]
        BY <1>7, <1>16
      <3> QED
        BY <3>1, <1>16, <1>17 DEF SyncRuns, Call
    <2> QED
      BY <2>1, <2>2, <2>3, <2>4, <2>5, <2>6, <2>7, <2>8 DEF CallsInv
  <1>21. Grows /\ ItemsKept /\ ready' = ready
    BY <1>5, <1>14 DEF Grows, SameCall, ItemsKept, SameItem, sched
  <1>22. /\ \A k \in Items : ItemSame(k)
         /\ \A k \in Items' : k \in Items \/ NewItem(k)
         /\ \A p \in Events : TaskKept(p)
    BY <1>5, <1>14 DEF ItemSame, TaskKept
  <1>23. \A x \in Executors, y \in Events :
            Enqueuing(x, y)' => Enqueuing(x, y) /\ stack'[x][1].todo = stack[x][1].todo
    BY <1>16, <1>17 DEF Enqueuing, LockPcs
  <1>24. ChainInv'
    BY <1>6, <1>13, <1>21, <1>22, <1>23, UserStepKept
  <1> QED
    BY <1>7, <1>13, <1>20, <1>24 DEF Inv

-----------------------------------------------------------------------------
(* Running an item *)

\* The run on top of a stack.
LEMMA RunFacts ==
    ASSUME Inv, NEW e \in Executors, Top(e).pc \in RunPcs
    PROVE  /\ Len(stack[e]) \in DOMAIN stack[e] /\ Len(stack[e]) # 1 /\ stack[e][Len(stack[e])] = Top(e)
           /\ Top(e) \in FrameSet /\ RunFrame(Top(e)) /\ Top(e).ev \in Events
           /\ InFrame(e, Len(stack[e]), Top(e).ev)
           /\ Submitted(Top(e).ev) /\ Cleared(Top(e).ev)
           /\ event[Top(e).ev].item \in Items /\ log[event[Top(e).ev].item].ev = Top(e).ev
           /\ log[event[Top(e).ev].item].q = event[Top(e).ev].q
           /\ log[event[Top(e).ev].item].begun = 1
           /\ log[event[Top(e).ev].item].ended = IF Top(e).pc = "func" THEN 0 ELSE 1
           /\ task[Top(e).ev].finished <=> Top(e).pc \in {"finish", "release", "add"}
  <1> TypeOK /\ UserShape /\ RunShape /\ RunOrder /\ Numbered
    BY DEF Inv, CallsInv, ChainInv
  <1>1. /\ Len(stack[e]) \in DOMAIN stack[e] /\ Len(stack[e]) # 1 /\ stack[e][Len(stack[e])] = Top(e)
        /\ Top(e) \in FrameSet /\ RunFrame(Top(e))
    BY Tops
  <1>2. Top(e).ev \in Events
    BY <1>1 DEF RunFrame
  <1>3. InFrame(e, Len(stack[e]), Top(e).ev)
    BY <1>1 DEF InFrame
  <1>4. /\ Submitted(Top(e).ev) /\ Cleared(Top(e).ev)
        /\ log[event[Top(e).ev].item].begun = 1
        /\ log[event[Top(e).ev].item].ended = IF Top(e).pc = "func" THEN 0 ELSE 1
        /\ task[Top(e).ev].finished <=> Top(e).pc \in {"finish", "release", "add"}
    BY <1>1, <1>2, <1>3 DEF RunOrder
  <1> QED
    BY <1>1, <1>2, <1>3, <1>4 DEF Numbered

\* The frames of the runs, when the run on top of the stack of e goes on.
LEMMA RunMoved ==
    ASSUME Inv, NEW e \in Executors, NEW f, RunMoves(e, f), NEW ev \in Events, Top(e).ev = ev, f.ev = ev,
           Top(e).pc \in RunPcs, RunFrame(f)
    PROVE  /\ RunShape' /\ OneRun' /\ \A x \in Executors : UserKept(x) /\ stack'[x][1] = stack[x][1]
           /\ AtFinish(ev) <=> Top(e).pc = "finish"
           /\ AtFinish(ev)' <=> f.pc = "finish"
           /\ \A y \in Events : /\ Fetched(ev, y) <=> Top(e).todo = <<y>> \/ Top(e).ready = <<y>>
                                /\ Fetched(ev, y)' <=> f.todo = <<y>> \/ f.ready = <<y>>
           /\ \A p \in Events : p # ev => /\ AtFinish(p)' <=> AtFinish(p)
                                          /\ \A y \in Events : Fetched(p, y)' <=> Fetched(p, y)
           /\ \A x \in Executors, y \in Events : \A d : InFrame(x, d, y)' =>
                 /\ InFrame(x, d, y)
                 /\ \/ x = e /\ d = Len(stack[e]) /\ y = ev /\ stack'[x][d] = f
                    \/ y # ev /\ stack'[x][d] = stack[x][d]
  <1> UserShape /\ RunShape /\ OneRun
    BY DEF Inv, CallsInv, ChainInv
  <1>1. PICK m : m = Len(stack[e])
    OBVIOUS
  <1>2. /\ m \in DOMAIN stack[e] /\ m # 1 /\ stack[e][m] = Top(e) /\ stack'[e][m] = f
        /\ DOMAIN stack'[e] = DOMAIN stack[e] /\ 1 \in DOMAIN stack[e] /\ stack'[e] # <<>>
        /\ \A d \in DOMAIN stack[e] : d # m => stack'[e][d] = stack[e][d]
        /\ \A x \in Executors : x # e => stack'[x] = stack[x]
    BY <1>1 DEF RunMoves
  <1>3. \A x \in Executors : /\ stack'[x] # <<>> /\ stack'[x][1] = stack[x][1] /\ DOMAIN stack'[x] = DOMAIN stack[x]
                             /\ \A d \in DOMAIN stack[x] : ~(x = e /\ d = m) => stack'[x][d] = stack[x][d]
    BY <1>2 DEF UserShape
  <1>4. \A x \in Executors : UserKept(x)
    BY <1>3 DEF UserKept, UserShape
  <1>5. \A x \in Executors : \A d \in DOMAIN stack[x] : stack'[x][d].ev = stack[x][d].ev
    BY <1>2, <1>3
  <1>6. RunShape'
    BY <1>2, <1>3 DEF RunShape
  <1>7. OneRun'
    BY <1>3, <1>5 DEF OneRun
  <1>8. \A x \in Executors, y \in Events : \A d : InFrame(x, d, y)' <=> InFrame(x, d, y)
    BY <1>3, <1>5 DEF InFrame
  <1>9. \A x \in Executors : \A d : InFrame(x, d, ev) <=> x = e /\ d = m
    BY <1>2 DEF InFrame, OneRun
  <1>10. \A x \in Executors, y \in Events : \A d : InFrame(x, d, y) /\ y # ev =>
            d \in DOMAIN stack[x] /\ d \in DOMAIN stack'[x] /\ stack'[x][d] = stack[x][d]
    BY <1>2, <1>3 DEF InFrame
  <1>11. (AtFinish(ev) <=> Top(e).pc = "finish") /\ (AtFinish(ev)' <=> f.pc = "finish")
    BY <1>2, <1>8, <1>9 DEF AtFinish
  <1>12. ASSUME NEW y \in Events
         PROVE  /\ Fetched(ev, y) <=> Top(e).todo = <<y>> \/ Top(e).ready = <<y>>
                /\ Fetched(ev, y)' <=> f.todo = <<y>> \/ f.ready = <<y>>
    BY <1>2, <1>8, <1>9 DEF Fetched
  <1>13. ASSUME NEW p \in Events, p # ev PROVE AtFinish(p)' <=> AtFinish(p)
    BY <1>8, <1>10, <1>13 DEF AtFinish
  <1>14. ASSUME NEW p \in Events, p # ev, NEW y \in Events PROVE Fetched(p, y)' <=> Fetched(p, y)
    BY <1>8, <1>10, <1>14 DEF Fetched
  <1>15. ASSUME NEW x \in Executors, NEW y \in Events, NEW d, InFrame(x, d, y)'
         PROVE  /\ InFrame(x, d, y)
                /\ \/ x = e /\ d = Len(stack[e]) /\ y = ev /\ stack'[x][d] = f
                   \/ y # ev /\ stack'[x][d] = stack[x][d]
    BY <1>1, <1>2, <1>8, <1>9, <1>10, <1>15
  <1> QED
    BY <1>3, <1>4, <1>6, <1>7, <1>11, <1>12, <1>13, <1>14, <1>15

\* The item of a run may return in this step, and no other.
EndsOnly(n) == \A k \in Items : /\ BegunSame(k) /\ log'[k].ended \in {0, 1}
                                /\ k # n => log'[k].ended = log[k].ended

\* A run goes on.
LEMMA RunGoesOn ==
    ASSUME Inv, TypeOK', CallsInv', UNCHANGED <<users, sched>>, ItemsSame, LogSame,
           NEW e \in Executors, Top(e).pc \in RunPcs, NEW ev \in Events, Top(e).ev = ev,
           NEW f, RunMoves(e, f), RunFrame(f), f.ev = ev,
           EndsOnly(event[ev].item), log'[event[ev].item].ended = IF f.pc = "func" THEN 0 ELSE 1,
           \A p \in Events : p # ev => TaskSame(p),
           task'[ev].succ = task[ev].succ, task'[ev].finished <=> f.pc \in {"finish", "release", "add"},
           (task'[ev].finished => f.pc = "finish") => (task[ev].finished => Top(e).pc = "finish"),
           \A y \in Events : f.todo = <<y>> \/ f.ready = <<y>> => Chained(ev, y),
           \A y \in Events : f.ready = <<y>> => Cleared(y)
    PROVE  Inv'
  <1> TypeOK /\ CallsInv /\ ChainInv /\ Disciplined(scenario)
    BY DEF Inv
  <1> Numbered /\ RunShape /\ Counts /\ FinishedRan /\ OneSuccessor /\ ChainOrder /\ FetchedOrder /\ RunOrder
        /\ OneRun /\ RunsInOrder
    BY DEF CallsInv, ChainInv
  <1>1. Grows /\ ItemsKept /\ ready' = ready /\ scenario' = scenario
    BY SameGrows DEF ItemsKept, ItemsSame, users, sched
  <1>2. PICK n : n = event[ev].item
    OBVIOUS
  <1>3. n \in Items /\ log[n].begun = 1 /\ Submitted(ev)
    BY <1>2, RunFacts
  <1>4. /\ Items' = Items
        /\ \A k \in Items : /\ log'[k].begun = log[k].begun /\ log'[k].ended \in {0, 1}
                            /\ k # n => log'[k].ended = log[k].ended
        /\ log'[n].ended = IF f.pc = "func" THEN 0 ELSE 1
    BY <1>2 DEF LogSame, EndsOnly, BegunSame
  <1>5. \A x \in Events : event'[x].item = event[x].item /\ (Submitted(x)' <=> Submitted(x))
    BY DEF ItemsSame, SameItem, Submitted
  <1>6. /\ RunShape' /\ OneRun' /\ \A x \in Executors : stack'[x][1] = stack[x][1]
        /\ AtFinish(ev) <=> Top(e).pc = "finish"
        /\ AtFinish(ev)' <=> f.pc = "finish"
        /\ \A y \in Events : /\ Fetched(ev, y) <=> Top(e).todo = <<y>> \/ Top(e).ready = <<y>>
                             /\ Fetched(ev, y)' <=> f.todo = <<y>> \/ f.ready = <<y>>
        /\ \A p \in Events : p # ev => /\ AtFinish(p)' <=> AtFinish(p)
                                       /\ \A y \in Events : Fetched(p, y)' <=> Fetched(p, y)
        /\ \A x \in Executors, y \in Events : \A d : InFrame(x, d, y)' =>
              /\ InFrame(x, d, y)
              /\ \/ x = e /\ d = Len(stack[e]) /\ y = ev /\ stack'[x][d] = f
                 \/ y # ev /\ stack'[x][d] = stack[x][d]
    BY RunMoved
  <1>7. \A y \in Events : Untouched(y)
    <2> SUFFICES ASSUME NEW y \in Events, NotBegun(y) PROVE NotBegun(y)'
      BY <1>1 DEF Untouched
    <2>1. event[y].item \in Items
      BY DEF NotBegun, Numbered
    <2> QED
      BY <2>1, <1>4, <1>5 DEF NotBegun
  <1>8. ASSUME NEW p \in Events, NEW y \in Events, Chained(p, y)' PROVE Chained(p, y)
    <2>1. CASE p = ev /\ Fetched(ev, y)'
      BY <2>1, <1>6
    <2>2. CASE p = ev /\ OnNode(ev, y)'
      <3>1. task'[ev].succ = <<y>> /\ (task'[ev].finished => f.pc = "finish")
        BY <2>2, <1>6 DEF OnNode
      <3>2. task[ev].succ = <<y>> /\ (task[ev].finished => AtFinish(ev))
        BY <3>1, <1>6
      <3> QED
        BY <2>2, <3>2 DEF Chained, OnNode
    <2>3. CASE p # ev
      BY <2>3, <1>6, <1>8 DEF Chained, OnNode, TaskSame
    <2> QED
      BY <1>8, <2>1, <2>2, <2>3 DEF Chained
  <1>9. EnqueueOrder' /\ ChainOrder' /\ ReadyOrder'
    <2>1. \A x \in Executors, y \in Events : Enqueuing(x, y)' => StillEnqueuing(x, y) \/ FineEnqueuing(x, y)
      BY <1>6, <1>7 DEF Enqueuing, StillEnqueuing
    <2>2. \A p, y \in Events : Chained(p, y)' => StillChained(p, y) \/ FineChained(p, y)
      BY <1>7, <1>8 DEF StillChained
    <2>3. \A y \in Events : ready'[y] # 0 => FineReady(y)
      BY <1>1, <1>7 DEF FineReady
    <2> QED
      BY <1>1, <2>1, <2>2, <2>3, OrdersKept
  <1>10. RunsInOrder'
    <2>1. \A j \in Items' : (j \in Items /\ BegunSame(j)) \/ LateBegin(j) \/ log'[j].begun = 0
      BY <1>4 DEF BegunSame
    <2> QED
      BY <1>1, <2>1, RunsKept
  <1>11. Counts'
    BY <1>3, <1>4 DEF Counts
  <1>12. FinishedRan'
    <2> SUFFICES ASSUME NEW p \in Events, task'[p].finished PROVE Submitted(p)' /\ log'[event'[p].item].ended = 1
      BY DEF FinishedRan
    <2>1. CASE p = ev
      <3>1. f.pc # "func"
        BY <2>1
      <3> QED
        BY <2>1, <3>1, <1>2, <1>3, <1>4, <1>5
    <2>2. CASE p # ev
      <3>1. Submitted(p) /\ log[event[p].item].ended = 1 /\ event[p].item \in Items
        BY <2>2 DEF FinishedRan, TaskSame, Numbered
      <3> QED
        BY <3>1, <1>1, <1>5 DEF Grows
    <2> QED
      BY <2>1, <2>2
  <1>13. OneSuccessor'
    <2> SUFFICES ASSUME NEW p \in Events, task'[p].finished => AtFinish(p)' PROVE Lone(task'[p].succ)
      BY DEF OneSuccessor, Lone
    <2>1. CASE p = ev
      BY <2>1, <1>6 DEF OneSuccessor
    <2>2. CASE p # ev
      BY <2>2, <1>6 DEF OneSuccessor, TaskSame
    <2> QED
      BY <2>1, <2>2
  <1>14. \A y \in Events : Submitted(y) /\ Cleared(y) => Cleared(y)'
    BY <1>1, OrderKept
  <1>15. FetchedOrder'
    <2> SUFFICES ASSUME NEW x \in Executors, NEW d \in DOMAIN stack'[x], NEW y \in Events,
                        d # 1, stack'[x][d].ready = <<y>>
                 PROVE  Cleared(y)'
      BY DEF FetchedOrder
    <2>0. PICK z \in Events : z = stack'[x][d].ev
      BY <1>6 DEF RunShape, RunFrame
    <2>1. InFrame(x, d, z)'
      BY <2>0 DEF InFrame
    <2>2. Fetched(z, y)'
      BY <2>1 DEF Fetched
    <2>3. Submitted(y)
      BY <2>2, <1>8 DEF Chained, ChainOrder, NotBegun
    <2>4. Cleared(y)
      <3>1. CASE stack'[x][d] = f
        BY <3>1
      <3>2. CASE stack'[x][d] = stack[x][d]
        BY <3>2, <2>1, <1>6 DEF FetchedOrder, InFrame
      <3> QED
        BY <3>1, <3>2, <2>1, <1>6
    <2> QED
      BY <2>3, <2>4, <1>14
  <1>16. RunOrder'
    <2> SUFFICES ASSUME NEW x \in Executors, NEW y \in Events, NEW d \in DOMAIN stack'[x], InFrame(x, d, y)'
                 PROVE  /\ Submitted(y)' /\ Cleared(y)'
                        /\ log'[event'[y].item].begun = 1
                        /\ log'[event'[y].item].ended = IF stack'[x][d].pc = "func" THEN 0 ELSE 1
                        /\ task'[y].finished <=> stack'[x][d].pc \in {"finish", "release", "add"}
      BY DEF RunOrder
    <2>1. InFrame(x, d, y) /\ (y = ev => stack'[x][d] = f) /\ (y # ev => stack'[x][d] = stack[x][d])
      BY <1>6
    <2>2. d \in DOMAIN stack[x]
      BY <2>1 DEF InFrame
    <2>3. /\ Submitted(y) /\ Cleared(y)
          /\ log[event[y].item].begun = 1
          /\ log[event[y].item].ended = IF stack[x][d].pc = "func" THEN 0 ELSE 1
          /\ task[y].finished <=> stack[x][d].pc \in {"finish", "release", "add"}
      BY <2>1, <2>2 DEF RunOrder
    <2>4. event[y].item \in Items /\ log[event[y].item].ev = y /\ event'[y].item = event[y].item
      BY <2>3, <1>5 DEF Numbered
    <2>5. Submitted(y)' /\ Cleared(y)' /\ log'[event'[y].item].begun = 1
      BY <2>3, <2>4, <1>4, <1>5, <1>14
    <2>6. CASE y = ev
      BY <2>1, <2>4, <2>5, <2>6, <1>2, <1>4
    <2>7. CASE y # ev
      <3>1. event[y].item # n
        BY <2>4, <2>7, <1>2, <1>3 DEF Numbered
      <3>2. log'[event'[y].item].ended = log[event[y].item].ended
        BY <2>4, <3>1, <1>4
      <3>3. task'[y].finished = task[y].finished
        BY <2>7 DEF TaskSame
      <3> QED
        BY <2>1, <2>3, <2>5, <2>7, <3>2, <3>3
    <2> QED
      BY <2>6, <2>7
  <1>17. ChainInv'
    BY <1>6, <1>9, <1>10, <1>11, <1>12, <1>13, <1>15, <1>16 DEF ChainInv
  <1> QED
    BY <1>1, <1>17 DEF Inv

\* An item of the log changes, but not what was submitted.
LEMMA LogUpdate ==
    ASSUME TypeOK, NEW n \in Items, NEW it \in ItemSet, log' = [log EXCEPT ![n] = it],
           it.q = log[n].q, it.ev = log[n].ev, it.by = log[n].by, it.at = log[n].at
    PROVE  /\ log' \in Seq(ItemSet) /\ Items' = Items /\ log'[n] = it
           /\ \A k \in Items : SameCall(k) /\ (k # n => log'[k] = log[k])
  <1>1. log \in Seq(ItemSet)
    BY DEF TypeOK
  <1>2. log' \in Seq(ItemSet) /\ Items' = Items /\ log'[n] = it /\ \A k \in Items : k # n => log'[k] = log[k]
    BY <1>1 DEF Items
  <1> QED
    BY <1>2 DEF SameCall

\* The event of a run changes, but not its item.
LEMMA EventUpdate ==
    ASSUME TypeOK, NEW c \in Events, NEW r \in EventSet, event' = [event EXCEPT ![c] = r],
           r.item = event[c].item, r.q = event[c].q
    PROVE  event' \in [Events -> EventSet] /\ ItemsSame
  <1>1. event \in [Events -> EventSet]
    BY DEF TypeOK
  <1> QED
    BY <1>1 DEF ItemsSame, SameItem

\* The frame of a run with another pc.
LEMMA RunFramePc ==
    ASSUME NEW t \in FrameSet, RunFrame(t), NEW pc \in RunPcs, NEW f, f = [t EXCEPT !.pc = pc]
    PROVE  /\ f \in FrameSet /\ f.pc = pc /\ f.ev = t.ev /\ f.todo = t.todo /\ f.ready = t.ready
           /\ t.todo = <<>> /\ (t.ready = <<>> \/ pc = "add") => RunFrame(f)
  <1>1. f \in FrameSet /\ f.pc = pc /\ f.ev = t.ev /\ f.todo = t.todo /\ f.ready = t.ready
    BY DEF FrameSet
  <1>2. ASSUME t.todo = <<>>, t.ready = <<>> \/ pc = "add" PROVE RunFrame(f)
    BY <1>1, <1>2 DEF RunFrame, Lone
  <1> QED
    BY <1>1, <1>2

\* The run moves on.
LEMMA RunStays ==
    ASSUME Inv, NEW e \in Executors, Top(e).pc \in RunPcs, NEW f \in FrameSet, SetTop(e, f), RunFrame(f), f.ev = Top(e).ev
    PROVE  /\ RunMoves(e, f) /\ stack' \in [Executors -> Seq(FrameSet)]
           /\ \A x \in Executors : UserKept(x)
  <1>1. RunMoves(e, f)
    BY SetTopMoves DEF Inv, CallsInv, ChainInv
  <1>2. Top(e).ev \in Events
    BY RunFacts
  <1> QED
    BY <1>1, <1>2, RunMoved DEF RunMoves

\* The run of ev on top of the stack of e goes on in frame f, what is submitted
\* and what is in the scheduler stays.
RunsOn(e, ev, f) ==
    /\ Top(e).pc \in RunPcs /\ Top(e).ev = ev /\ RunFrame(Top(e)) /\ f.ev = ev /\ RunFrame(f) /\ RunMoves(e, f)
    /\ UNCHANGED <<users, sched>> /\ ItemsSame /\ LogSame /\ EndsOnly(event[ev].item)

\* The user function returns.
LEMMA EventFuncStep ==
    ASSUME Inv, NEW e \in Executors, EventFunc(e)
    PROVE  /\ Inv'
           /\ \E ev \in Events : \E f :
                 /\ RunsOn(e, ev, f) /\ UNCHANGED <<queue, task>>
                 /\ Top(e).pc = "func" /\ f.pc = "dequeue" /\ f.todo = <<>>
                 /\ log'[event[ev].item].ended = 1 /\ event'[ev].status = "COMPLETE"
                 /\ \A x \in Events : x # ev => event'[x] = event[x]
  <1> TypeOK /\ CallsInv
    BY DEF Inv
  <1> Counts /\ Numbered
    BY DEF Inv, CallsInv, ChainInv
  <1>1. Top(e).pc = "func" /\ Top(e).pc \in RunPcs
    BY DEF EventFunc, At, RunPcs
  <1>2. PICK ev, n : ev \in Events /\ ev = Top(e).ev /\ n = event[ev].item
    BY <1>1, RunFacts
  <1> ev \in Events
    BY <1>2
  <1>3. /\ Top(e) \in FrameSet /\ RunFrame(Top(e)) /\ Submitted(ev) /\ n \in Items /\ log[n].ev = ev
        /\ log[n].begun = 1 /\ log[n].ended = 0 /\ ~task[ev].finished
    BY <1>1, <1>2, RunFacts
  <1>4. PICK f : f = [Top(e) EXCEPT !.pc = "dequeue"]
    OBVIOUS
  <1>5. Top(e).todo = <<>> /\ Top(e).ready = <<>>
    BY <1>1, <1>3 DEF RunFrame
  <1>6. f \in FrameSet /\ f.pc = "dequeue" /\ f.ev = ev /\ f.todo = <<>> /\ f.ready = <<>> /\ RunFrame(f)
    <2>1. "dequeue" \in RunPcs
      BY DEF RunPcs
    <2> QED
      BY <2>1, <1>2, <1>3, <1>4, <1>5, RunFramePc
  <1>7. /\ SetTop(e, f) /\ UNCHANGED <<users, queue, task, sched>>
        /\ log' = [log EXCEPT ![n].ended = @ + 1] /\ event' = [event EXCEPT ![ev].status = "COMPLETE"]
    BY <1>2, <1>4 DEF EventFunc
  <1>8. RunMoves(e, f) /\ stack' \in [Executors -> Seq(FrameSet)] /\ \A x \in Executors : UserKept(x)
    BY <1>1, <1>2, <1>6, <1>7, RunStays
  <1>9. event[ev] \in EventSet /\ log[n] \in ItemSet /\ log[n].q \in Queues
    BY <1>3, ItemTypes DEF TypeOK
  <1>10. PICK r : r = [event[ev] EXCEPT !.status = "COMPLETE"]
    OBVIOUS
  <1>11. r \in EventSet /\ r.item = event[ev].item /\ r.q = event[ev].q
    BY <1>9, <1>10 DEF EventSet
  <1>12. event' \in [Events -> EventSet] /\ ItemsSame
    BY <1>7, <1>10, <1>11, EventUpdate
  <1>13. PICK c, it : c = log[n].ended + 1 /\ it = [log[n] EXCEPT !.ended = c]
    OBVIOUS
  <1>14. c = 1 /\ c \in Int
    BY <1>3, <1>13
  <1>15. /\ it \in ItemSet /\ it.ended = c /\ it.begun = log[n].begun
         /\ it.q = log[n].q /\ it.ev = log[n].ev /\ it.by = log[n].by /\ it.at = log[n].at
    <2> HIDE <1>14
    <2> c \in Int
      BY <1>14
    <2> QED
      BY <1>9, <1>13 DEF ItemSet
  <1>16. log' = [log EXCEPT ![n] = it]
    BY <1>7, <1>13
  <1>17. /\ log' \in Seq(ItemSet) /\ Items' = Items /\ log'[n] = it
         /\ \A k \in Items : SameCall(k) /\ (k # n => log'[k] = log[k])
    BY <1>3, <1>15, <1>16, LogUpdate
  <1>18. LogSame
    <2> SUFFICES ASSUME NEW k \in Items
                 PROVE  /\ SameCall(k) /\ (log[k].ended = 1 => log'[k].ended = 1)
                        /\ ~Submitted(log[k].ev) => log'[k] = log[k]
      BY <1>17 DEF LogSame
    <2>1. CASE k = n
      BY <2>1, <1>3, <1>14, <1>15, <1>17
    <2>2. CASE k # n
      BY <2>2, <1>17
    <2> QED
      BY <2>1, <2>2
  <1>19. EndsOnly(n) /\ log'[n].ended = 1
    <2>1. \A k \in Items : k # n => log'[k] = log[k] /\ log[k].ended \in {0, 1}
      BY <1>17 DEF Counts
    <2> QED
      BY <2>1, <1>14, <1>15, <1>17 DEF EndsOnly, BegunSame
  <1>20. TypeOK'
    BY <1>7, <1>8, <1>12, <1>17 DEF TypeOK, users, sched
  <1>21. \A q \in Queues : QueueKept(q)
    BY <1>7 DEF QueueKept
  <1>22. CallsInv'
    BY <1>7, <1>8, <1>12, <1>18, <1>21, CallsKept
  <1>23. /\ \A p \in Events : TaskSame(p)
         /\ task'[ev].finished <=> f.pc \in {"finish", "release", "add"}
         /\ ~task[ev].finished
    BY <1>3, <1>6, <1>7 DEF TaskSame
  <1>24. \A y \in Events : <<>> # <<y>>
    OBVIOUS
  <1>25. Inv'
    BY <1>1, <1>2, <1>6, <1>7, <1>8, <1>12, <1>18, <1>19, <1>20, <1>22, <1>23, <1>24, RunGoesOn DEF TaskSame
  <1>26. RunsOn(e, ev, f)
    BY <1>1, <1>2, <1>3, <1>6, <1>7, <1>8, <1>12, <1>18, <1>19 DEF RunsOn
  <1>27. event'[ev].status = "COMPLETE" /\ \A x \in Events : x # ev => event'[x] = event[x]
    <2> event \in [Events -> EventSet]
      BY DEF TypeOK
    <2> QED
      BY <1>7, <1>9 DEF EventSet
  <1> QED
    BY <1>1, <1>2, <1>6, <1>7, <1>19, <1>25, <1>26, <1>27

\* A step of a run that changes no item.
LEMMA RunKeepsLog ==
    ASSUME Inv, NEW n, log' = log, n \in Items
    PROVE  LogSame /\ EndsOnly(n)
  BY DEF LogSame, SameCall, EndsOnly, BegunSame, Items, Inv, ChainInv, Counts

\* kupl_dequeue_event: a queue forgets its last event when all of its items have run.
LEMMA DequeueEventStep ==
    ASSUME Inv, NEW e \in Executors, DequeueEvent(e)
    PROVE  /\ Inv'
           /\ \E ev \in Events : \E f :
                 /\ RunsOn(e, ev, f) /\ log' = log
                 /\ Top(e).pc = "dequeue" /\ f.pc = "execute" /\ f.todo = <<>>
                 /\ \A p \in Events : TaskSame(p) /\ task'[p].nPred = task[p].nPred
                 /\ event'[ev].status = "COMPLETE"
                 /\ \A x \in Events : x # ev => event'[x] = event[x]
                 /\ \E q \in Queues :
                       /\ q = event[ev].q /\ queue[q].lock = None
                       /\ queue'[q].events = queue[q].events - 1
                       /\ queue'[q].last = IF queue[q].last = ev THEN None ELSE queue[q].last
                       /\ \A z \in Queues : z # q => queue'[z] = queue[z]
  <1> TypeOK /\ CallsInv
    BY DEF Inv
  <1> Numbered /\ LastNewest
    BY DEF CallsInv
  <1>1. Top(e).pc = "dequeue" /\ Top(e).pc \in RunPcs
    BY DEF DequeueEvent, At, RunPcs
  <1>2. PICK ev, n, q : ev \in Events /\ ev = Top(e).ev /\ n = event[ev].item /\ q = event[ev].q
    BY <1>1, RunFacts
  <1> ev \in Events
    BY <1>2
  <1>3. /\ Top(e) \in FrameSet /\ RunFrame(Top(e)) /\ Submitted(ev) /\ n \in Items /\ log[n].ev = ev /\ log[n].q = q
        /\ log[n].begun = 1 /\ log[n].ended = 1 /\ ~task[ev].finished /\ Cleared(ev)
    BY <1>1, <1>2, RunFacts
  <1>4. q \in Queues /\ n \in Nat
    BY <1>3, ItemTypes
  <1>5. PICK f : f = [Top(e) EXCEPT !.pc = "execute"]
    OBVIOUS
  <1>6. Top(e).todo = <<>> /\ Top(e).ready = <<>>
    BY <1>1, <1>3 DEF RunFrame
  <1>7. f \in FrameSet /\ f.pc = "execute" /\ f.ev = ev /\ f.todo = <<>> /\ f.ready = <<>> /\ RunFrame(f)
    <2>1. "execute" \in RunPcs
      BY DEF RunPcs
    <2> QED
      BY <2>1, <1>2, <1>3, <1>5, <1>6, RunFramePc
  <1>8. /\ SetTop(e, f) /\ UNCHANGED <<users, sched, log>>
        /\ queue' = [queue EXCEPT ![q].events = @ - 1, ![q].last = IF @ = ev THEN None ELSE @]
        /\ EventDeref(ev, [event[ev] EXCEPT !.status = "COMPLETE"])
    BY <1>2, <1>5 DEF DequeueEvent
  <1>9. RunMoves(e, f) /\ stack' \in [Executors -> Seq(FrameSet)] /\ \A x \in Executors : UserKept(x)
    BY <1>1, <1>2, <1>7, <1>8, RunStays
  <1>10. event[ev] \in EventSet /\ queue \in [Queues -> QueueSet] /\ queue[q] \in QueueSet
    BY <1>4 DEF TypeOK
  <1>11. PICK r : r = [event[ev] EXCEPT !.status = "COMPLETE"]
    OBVIOUS
  <1>12. r \in EventSet /\ r.item = event[ev].item /\ r.q = event[ev].q
    BY <1>10, <1>11 DEF EventSet
  <1>13. /\ event' \in [Events -> EventSet] /\ task' \in [Events -> TaskSet]
         /\ ItemsSame /\ \A p \in Events : TaskSame(p)
    BY <1>8, <1>11, <1>12, EventDerefType
  <1>14. PICK c, l, y : /\ c = queue[q].events - 1 /\ l = IF queue[q].last = ev THEN None ELSE queue[q].last
                        /\ y = [queue[q] EXCEPT !.events = c, !.last = l]
    OBVIOUS
  <1>15. c \in Int /\ l \in Events \cup {None}
    BY <1>10, <1>14 DEF QueueSet
  <1>16. y \in QueueSet /\ y.lock = queue[q].lock /\ y.sync = queue[q].sync /\ y.last = l
    <2>1. y = [queue[q] EXCEPT !.events = c, !.last = l]
      BY <1>14
    <2> QED
      BY <2>1, <1>10, <1>15 DEF QueueSet
  <1>17. queue' = [queue EXCEPT ![q] = y]
    BY <1>4, <1>8, <1>10, <1>14
  <1>18. queue' \in [Queues -> QueueSet] /\ queue'[q] = y /\ \A z \in Queues : z # q => queue'[z] = queue[z]
    BY <1>4, <1>10, <1>16, <1>17
  <1>19. ASSUME queue[q].last = ev PROVE LastGone(q)
    <2>1. queue'[q].last = None
      BY <1>14, <1>16, <1>18, <1>19
    <2>2. \A i \in Items : log[i].q = q => Busy(i) \/ i <= n
      BY <1>2, <1>4, <1>19, NamesAssumption DEF LastNewest
    <2>3. \A i \in Items : i < n /\ log[i].q = q => log[i].ended = 1
      BY <1>2, <1>3 DEF Cleared
    <2>4. \A i \in Items : log[i].q = q => Busy(i) \/ log[i].ended = 1
      <3> SUFFICES ASSUME NEW i \in Items, log[i].q = q, ~Busy(i) PROVE log[i].ended = 1
        OBVIOUS
      <3>1. i <= n /\ i \in Nat
        BY <2>2, ItemTypes
      <3>2. i < n \/ i = n
        BY <3>1, <1>4
      <3> QED
        BY <2>3, <3>2, <1>3
    <2> QED
      BY <2>1, <2>4, <1>8 DEF LastGone
  <1>20. \A z \in Queues : QueueKept(z)
    <2>1. QueueKept(q)
      <3>1. CASE queue[q].last = ev
        BY <3>1, <1>16, <1>18, <1>19 DEF QueueKept
      <3>2. CASE queue[q].last # ev
        BY <3>2, <1>14, <1>16, <1>18 DEF QueueKept
      <3> QED
        BY <3>1, <3>2
    <2> QED
      BY <2>1, <1>18 DEF QueueKept
  <1>21. LogSame /\ EndsOnly(n) /\ log'[n].ended = 1
    BY <1>3, <1>8, RunKeepsLog
  <1>22. TypeOK'
    BY <1>8, <1>9, <1>13, <1>18 DEF TypeOK, users, sched
  <1>23. CallsInv'
    BY <1>8, <1>9, <1>13, <1>20, <1>21, CallsKept
  <1>24. task'[ev].finished <=> f.pc \in {"finish", "release", "add"}
    BY <1>3, <1>7, <1>13 DEF TaskSame
  <1>25. \A y1 \in Events : <<>> # <<y1>>
    OBVIOUS
  <1>26. Inv'
    BY <1>1, <1>2, <1>3, <1>7, <1>8, <1>9, <1>13, <1>21, <1>22, <1>23, <1>24, <1>25, RunGoesOn DEF TaskSame
  <1>27. RunsOn(e, ev, f)
    BY <1>1, <1>2, <1>3, <1>7, <1>8, <1>9, <1>13, <1>21 DEF RunsOn
  <1>28. /\ event'[ev].status = "COMPLETE" /\ \A x \in Events : x # ev => event'[x] = event[x]
         /\ \A p \in Events : task'[p].nPred = task[p].nPred
    <2>1. event \in [Events -> EventSet] /\ task \in [Events -> TaskSet]
      BY DEF TypeOK
    <2>2. r.status = "COMPLETE" /\ Deref(r).status = r.status
      BY <1>10, <1>11, <1>12 DEF EventSet, Deref
    <2>3. \A t \in TaskSet : Deref(t).nPred = t.nPred
      BY DEF Deref, TaskSet
    <2>4. event' = [event EXCEPT ![ev] = Deref(r)] /\ (task' = task \/ task' = [task EXCEPT ![ev] = Deref(@)])
      BY <1>8, <1>11 DEF EventDeref
    <2> QED
      BY <2>1, <2>2, <2>3, <2>4
  <1>29. queue[q].lock = None /\ queue'[q].events = queue[q].events - 1 /\ queue'[q].last = l
    <2>1. y = [queue[q] EXCEPT !.events = c, !.last = l]
      BY <1>14
    <2>2. y.events = c
      BY <2>1, <1>10, <1>15 DEF QueueSet
    <2> QED
      BY <2>2, <1>2, <1>14, <1>16, <1>18 DEF DequeueEvent
  <1>30. queue'[q].last = IF queue[q].last = ev THEN None ELSE queue[q].last
    BY <1>14, <1>29
  <1>31. \A z \in Queues : z # q => queue'[z] = queue[z]
    BY <1>18
  <1>32. \E z \in Queues :
            /\ z = event[ev].q /\ queue[z].lock = None
            /\ queue'[z].events = queue[z].events - 1
            /\ queue'[z].last = IF queue[z].last = ev THEN None ELSE queue[z].last
            /\ \A y1 \in Queues : y1 # z => queue'[y1] = queue[y1]
    BY <1>2, <1>4, <1>29, <1>30, <1>31
  <1>33. /\ log' = log /\ f.pc = "execute" /\ f.todo = <<>>
         /\ \A p \in Events : TaskSame(p) /\ task'[p].nPred = task[p].nPred
    BY <1>7, <1>8, <1>13, <1>28
  <1> QED
    BY <1>1, <1>26, <1>27, <1>28, <1>32, <1>33

\* A step of a run that touches only tasks and its own frame.
LEMMA TaskOfRunStep ==
    ASSUME Inv, NEW e \in Executors, Top(e).pc \in RunPcs, Top(e).pc \notin {"func", "dequeue"},
           NEW ev \in Events, Top(e).ev = ev,
           NEW f \in FrameSet, SetTop(e, f), RunFrame(f), f.ev = ev, f.pc \in {"finish", "release", "add"},
           UNCHANGED <<users, queue, event, sched, log>>, task' \in [Events -> TaskSet],
           \A p \in Events : p # ev => TaskSame(p),
           task'[ev].succ = task[ev].succ, task'[ev].finished,
           f.pc = "finish" => Top(e).pc = "execute",
           \A y \in Events : f.todo = <<y>> \/ f.ready = <<y>> => Chained(ev, y),
           \A y \in Events : f.ready = <<y>> => Cleared(y)
    PROVE  Inv' /\ RunsOn(e, ev, f)
  <1> TypeOK /\ CallsInv
    BY DEF Inv
  <1>1. RunMoves(e, f) /\ stack' \in [Executors -> Seq(FrameSet)] /\ \A x \in Executors : UserKept(x)
    BY RunStays
  <1>2. PICK n : n = event[ev].item
    OBVIOUS
  <1>3. n \in Items /\ log[n].ended = 1 /\ (task[ev].finished <=> Top(e).pc \in {"finish", "release", "add"})
    BY <1>2, RunFacts
  <1>4. ItemsSame
    BY DEF ItemsSame, SameItem
  <1>5. CallsInv'
    BY <1>1, <1>4, SameCalls
  <1>6. TypeOK'
    BY <1>1 DEF TypeOK, users, sched
  <1>7. LogSame /\ EndsOnly(n) /\ log'[n].ended = 1
    BY <1>3, RunKeepsLog
  <1>8. f.pc # "func" /\ ((task'[ev].finished => f.pc = "finish") => (task[ev].finished => Top(e).pc = "finish"))
    BY <1>3
  <1>9. Inv'
    BY <1>1, <1>2, <1>4, <1>5, <1>6, <1>7, <1>8, RunGoesOn
  <1>10. RunFrame(Top(e))
    BY RunFacts
  <1> QED
    BY <1>1, <1>2, <1>4, <1>7, <1>9, <1>10 DEF RunsOn

\* kupl_task_execute.
LEMMA TaskExecuteStep ==
    ASSUME Inv, NEW e \in Executors, TaskExecute(e)
    PROVE  /\ Inv'
           /\ \E ev \in Events : \E f :
                 /\ RunsOn(e, ev, f) /\ UNCHANGED <<queue, event, log>>
                 /\ Top(e).pc = "execute" /\ f.pc = "finish" /\ f.todo = <<>>
                 /\ task'[ev].finished /\ task'[ev].succ = task[ev].succ
                 /\ \A p \in Events : p # ev => TaskSame(p)
                 /\ \A p \in Events : task'[p].nPred = task[p].nPred
  <1> TypeOK
    BY DEF Inv
  <1>1. Top(e).pc = "execute" /\ Top(e).pc \in RunPcs
    BY DEF TaskExecute, At, RunPcs
  <1>2. PICK ev \in Events : ev = Top(e).ev
    BY <1>1, RunFacts
  <1>3. /\ Top(e) \in FrameSet /\ RunFrame(Top(e))
    BY <1>1, RunFacts
  <1>4. PICK f : f = [Top(e) EXCEPT !.pc = "finish"]
    OBVIOUS
  <1>5. Top(e).todo = <<>> /\ Top(e).ready = <<>>
    BY <1>1, <1>3 DEF RunFrame
  <1>6. f \in FrameSet /\ f.pc = "finish" /\ f.ev = ev /\ f.todo = <<>> /\ f.ready = <<>> /\ RunFrame(f)
    <2>1. "finish" \in RunPcs
      BY DEF RunPcs
    <2> QED
      BY <2>1, <1>2, <1>3, <1>4, <1>5, RunFramePc
  <1>7. /\ SetTop(e, f) /\ UNCHANGED <<users, queue, event, sched, log>>
        /\ task' = [task EXCEPT ![ev].finished = TRUE]
    BY <1>2, <1>4 DEF TaskExecute
  <1>8. task \in [Events -> TaskSet] /\ task[ev] \in TaskSet
    BY DEF TypeOK
  <1>9. PICK r : r = [task[ev] EXCEPT !.finished = TRUE]
    OBVIOUS
  <1>10. r \in TaskSet /\ r.succ = task[ev].succ /\ r.finished
    BY <1>8, <1>9 DEF TaskSet
  <1>11. task' = [task EXCEPT ![ev] = r]
    BY <1>7, <1>9
  <1>12. /\ task' \in [Events -> TaskSet] /\ task'[ev] = r /\ \A p \in Events : p # ev => TaskSame(p)
    BY <1>8, <1>10, <1>11 DEF TaskSame
  <1>13. \A y \in Events : <<>> # <<y>>
    OBVIOUS
  <1>14. \A y \in Events : f.todo # <<y>> /\ f.ready # <<y>>
    BY <1>6, <1>13
  <1>15. task'[ev].succ = task[ev].succ /\ task'[ev].finished
    BY <1>10, <1>12
  <1>16. Inv' /\ RunsOn(e, ev, f)
    BY <1>1, <1>2, <1>6, <1>7, <1>12, <1>14, <1>15, TaskOfRunStep
  <1>17. \A p \in Events : task'[p].nPred = task[p].nPred
    BY <1>7, <1>8 DEF TaskSet
  <1> QED
    BY <1>1, <1>2, <1>6, <1>7, <1>12, <1>15, <1>16, <1>17

\* kupl_gnode_release_ready_safe fetches the successor that is on the node.
LEMMA TaskFinishStep ==
    ASSUME Inv, NEW e \in Executors, TaskFinish(e)
    PROVE  /\ Inv'
           /\ \E ev \in Events : \E f :
                 /\ RunsOn(e, ev, f) /\ UNCHANGED <<queue, event, task, log>>
                 /\ Top(e).pc = "finish" /\ f.pc = "release" /\ f.todo = task[ev].succ
  <1> TypeOK /\ OneSuccessor
    BY DEF Inv, ChainInv
  <1>1. Top(e).pc = "finish" /\ Top(e).pc \in RunPcs
    BY DEF TaskFinish, At, RunPcs
  <1>2. PICK ev, m : ev \in Events /\ ev = Top(e).ev /\ m = Len(stack[e])
    BY <1>1, RunFacts
  <1> ev \in Events
    BY <1>2
  <1>3. /\ Top(e) \in FrameSet /\ RunFrame(Top(e)) /\ InFrame(e, m, ev) /\ m \in DOMAIN stack[e]
        /\ stack[e][m] = Top(e) /\ task[ev].finished
    BY <1>1, <1>2, RunFacts
  <1>4. AtFinish(ev)
    BY <1>1, <1>3 DEF AtFinish
  <1>5. Lone(task[ev].succ)
    BY <1>4 DEF OneSuccessor
  <1>6. PICK s, f : s = task[ev].succ /\ f = [Top(e) EXCEPT !.pc = "release", !.todo = s]
    OBVIOUS
  <1>7. s \in Seq(Events)
    BY <1>6 DEF TypeOK, TaskSet
  <1>8. Top(e).todo = <<>> /\ Top(e).ready = <<>>
    BY <1>1, <1>3 DEF RunFrame
  <1>9. f \in FrameSet /\ f.pc = "release" /\ f.ev = ev /\ f.todo = s /\ f.ready = <<>>
    BY <1>2, <1>3, <1>6, <1>7, <1>8 DEF FrameSet, RunPcs
  <1>10. RunFrame(f)
    BY <1>5, <1>6, <1>9 DEF RunFrame, RunPcs, Lone
  <1>11. SetTop(e, f) /\ UNCHANGED <<users, queue, event, task, sched, log>>
    BY <1>2, <1>6 DEF TaskFinish
  <1>12. task' \in [Events -> TaskSet] /\ \A p \in Events : TaskSame(p)
    BY <1>11 DEF TypeOK, TaskSame
  <1>13. \A y \in Events : f.todo = <<y>> => Chained(ev, y)
    BY <1>4, <1>6, <1>9 DEF Chained, OnNode
  <1>14. \A y \in Events : f.ready # <<y>>
    BY <1>9
  <1>15. Inv' /\ RunsOn(e, ev, f)
    BY <1>1, <1>2, <1>3, <1>9, <1>10, <1>11, <1>12, <1>13, <1>14, TaskOfRunStep DEF TaskSame
  <1> QED
    BY <1>1, <1>2, <1>6, <1>9, <1>11, <1>15

\* gnode_release_ready: the successor is ready, or left to another predecessor.
LEMMA GnodeReleaseReadyStep ==
    ASSUME Inv, NEW e \in Executors, GnodeReleaseReady(e)
    PROVE  /\ Inv'
           /\ \E ev \in Events : \E f :
                 /\ RunsOn(e, ev, f) /\ UNCHANGED <<queue, event, log>> /\ Top(e).pc = "release"
                 /\ \A p \in Events : TaskSame(p)
                 /\ \/ task' = task /\ f.todo = <<>> /\ Top(e).todo = <<>> /\ f.ready = Top(e).ready /\ f.pc = "add"
                    \/ \E x \in Events : /\ Top(e).todo = <<x>> /\ f.todo = <<>> /\ f.pc = "release"
                                         /\ task[x].nPred = 1 => f.ready = <<x>>
                                         /\ task'[x].nPred = task[x].nPred - 1
                                         /\ \A p \in Events : p # x => task'[p].nPred = task[p].nPred
  <1> TypeOK /\ ChainOrder /\ FetchedOrder
    BY DEF Inv, ChainInv
  <1>1. Top(e).pc = "release" /\ Top(e).pc \in RunPcs
    BY DEF GnodeReleaseReady, At, RunPcs
  <1>2. PICK ev, m : ev \in Events /\ ev = Top(e).ev /\ m = Len(stack[e])
    BY <1>1, RunFacts
  <1> ev \in Events
    BY <1>2
  <1>3. /\ Top(e) \in FrameSet /\ RunFrame(Top(e)) /\ InFrame(e, m, ev) /\ m \in DOMAIN stack[e] /\ m # 1
        /\ stack[e][m] = Top(e) /\ task[ev].finished /\ log[event[ev].item].ended = 1
    BY <1>1, <1>2, RunFacts
  <1>4. \A y \in Events : Top(e).todo = <<y>> \/ Top(e).ready = <<y>> => Chained(ev, y)
    BY <1>3 DEF Chained, Fetched
  <1>5. \A y \in Events : Top(e).ready = <<y>> => Cleared(y)
    BY <1>3 DEF FetchedOrder
  <1>6. UNCHANGED <<users, queue, event, sched, log>>
    BY DEF GnodeReleaseReady
  <1>7. task \in [Events -> TaskSet]
    BY DEF TypeOK
  <1>8. CASE Top(e).todo = <<>>
    <2>1. PICK f : f = [Top(e) EXCEPT !.pc = "add"]
      OBVIOUS
    <2>2. f \in FrameSet /\ f.pc = "add" /\ f.ev = ev /\ f.todo = <<>> /\ f.ready = Top(e).ready /\ RunFrame(f)
      <3>1. "add" \in RunPcs
        BY DEF RunPcs
      <3> QED
        BY <2>1, <3>1, <1>2, <1>3, <1>8, RunFramePc
    <2>3. SetTop(e, f) /\ task' = task
      BY <2>1, <1>8 DEF GnodeReleaseReady
    <2>4. task' \in [Events -> TaskSet] /\ \A p \in Events : TaskSame(p)
      BY <2>3, <1>7 DEF TaskSame
    <2>5. \A y \in Events : f.todo # <<y>>
      BY <2>2
    <2>6. Inv' /\ RunsOn(e, ev, f)
      BY <1>1, <1>2, <1>3, <1>4, <1>5, <1>6, <2>2, <2>3, <2>4, <2>5, TaskOfRunStep DEF TaskSame
    <2> QED
      BY <1>1, <1>2, <1>6, <1>8, <2>2, <2>3, <2>4, <2>6
  <1>9. CASE Top(e).todo # <<>>
    <2>1. PICK s \in Events : Top(e).todo = <<s>> /\ Top(e).ready = <<>>
      BY <1>3, <1>9 DEF RunFrame, Lone
    <2>2. Head(Top(e).todo) = s /\ Tail(Top(e).todo) = <<>> /\ Append(<<>>, s) = <<s>>
      BY <2>1
    <2>3. Follows(s, ev) /\ Chained(ev, s)
      BY <2>1, <1>4 DEF ChainOrder
    <2>4. Cleared(s)
      BY <2>3, <1>3, ClearedBehind
    <2>5. PICK l : l = (IF task[s].nPred = 1 THEN <<s>> ELSE <<>>)
      OBVIOUS
    <2>6. l \in Seq(Events) /\ (l = <<>> \/ l = <<s>>)
      BY <2>5
    <2>7. PICK f : f = [Top(e) EXCEPT !.todo = <<>>, !.ready = l]
      OBVIOUS
    <2>8. f \in FrameSet /\ f.pc = "release" /\ f.ev = ev /\ f.todo = <<>> /\ f.ready = l
      <3>1. ASSUME NEW t \in Seq(Events), f = [Top(e) EXCEPT !.todo = t, !.ready = l]
            PROVE  f \in FrameSet /\ f.pc = Top(e).pc /\ f.ev = Top(e).ev /\ f.todo = t /\ f.ready = l
        BY <3>1, <2>6, <1>3 DEF FrameSet
      <3>2. <<>> \in Seq(Events)
        OBVIOUS
      <3> QED
        BY <3>1, <3>2, <2>7, <1>1, <1>2
    <2>9. RunFrame(f)
      BY <2>6, <2>8, <1>1 DEF RunFrame, Lone
    <2>10. SetTop(e, f) /\ task' = [task EXCEPT ![s].nPred = @ - 1]
      <3>1. /\ SetTop(e, [Top(e) EXCEPT !.todo = Tail(Top(e).todo),
                               !.ready = IF task[s].nPred = 1 THEN Append(Top(e).ready, s) ELSE Top(e).ready])
            /\ task' = [task EXCEPT ![s].nPred = @ - 1]
        BY <2>2, <1>9 DEF GnodeReleaseReady
      <3>2. (IF task[s].nPred = 1 THEN Append(Top(e).ready, s) ELSE Top(e).ready) = l
        BY <2>1, <2>2, <2>5
      <3> QED
        BY <3>1, <3>2, <2>2, <2>7
    <2>11. PICK c, r : c = task[s].nPred - 1 /\ r = [task[s] EXCEPT !.nPred = c]
      OBVIOUS
    <2>12. c \in Int /\ task[s] \in TaskSet
      BY <2>11, <1>7 DEF TaskSet
    <2>13. r \in TaskSet /\ r.succ = task[s].succ /\ r.finished = task[s].finished
      BY <2>11, <2>12 DEF TaskSet
    <2>14. task' = [task EXCEPT ![s] = r]
      BY <2>10, <2>11
    <2>15. task' \in [Events -> TaskSet] /\ \A p \in Events : TaskSame(p)
      BY <2>13, <2>14, TaskUpdate
    <2>16. \A y \in Events : f.todo # <<y>> /\ (f.ready = <<y>> => y = s)
      <3>1. \A y \in Events : <<>> # <<y>> /\ (<<s>> = <<y>> => y = s)
        OBVIOUS
      <3> QED
        BY <3>1, <2>6, <2>8
    <2>17. \A y \in Events : f.todo = <<y>> \/ f.ready = <<y>> => Chained(ev, y)
      BY <2>3, <2>16
    <2>18. \A y \in Events : f.ready = <<y>> => Cleared(y)
      BY <2>4, <2>16
    <2>19. task'[ev].succ = task[ev].succ /\ task'[ev].finished
      BY <2>15, <1>3 DEF TaskSame
    <2>20. Inv' /\ RunsOn(e, ev, f)
      BY <1>1, <1>2, <1>6, <2>8, <2>9, <2>10, <2>15, <2>17, <2>18, <2>19, TaskOfRunStep
    <2>21. task'[s].nPred = task[s].nPred - 1 /\ \A p \in Events : p # s => task'[p].nPred = task[p].nPred
      BY <1>7, <2>10, <2>12 DEF TaskSet
    <2> QED
      BY <1>1, <1>2, <1>6, <2>1, <2>5, <2>8, <2>15, <2>20, <2>21
  <1> QED
    BY <1>8, <1>9

-----------------------------------------------------------------------------
(* Handing a run over *)

\* The runs on the stacks go on as they are, except that a run may have handed over
\* the successor it has made ready.
Shrunk(a, b) == /\ b.ev = a.ev /\ b.pc = a.pc /\ b.todo = a.todo /\ (b.ready = a.ready \/ b.ready = <<>>)
                /\ RunFrame(a) => RunFrame(b)
RunsGoOn ==
    \A z \in Executors : \A d : d # 1 /\ d \in DOMAIN stack[z] =>
        d \in DOMAIN stack'[z] /\ Shrunk(stack[z][d], stack'[z][d])

\* A frame that was not there before is that of the run of x, and the only one.
Fresh(z, d) == d # 1 /\ d \in DOMAIN stack'[z] /\ d \notin DOMAIN stack[z]
RunOf(x, g) == g.pc = "func" /\ g.ev = x /\ g.todo = <<>> /\ g.ready = <<>>
OnlyRunOf(x) ==
    /\ \A z \in Executors : \A d : Fresh(z, d) => RunOf(x, stack'[z][d])
    /\ \A z, w \in Executors : \A d, c : Fresh(z, d) /\ Fresh(w, c) => z = w /\ d = c
Starts == \E z \in Executors : \E d : Fresh(z, d)

\* The frames after such a step.
LEMMA FramesAfter ==
    ASSUME Inv, NEW x \in Events, NotBegun(x), RunsGoOn, OnlyRunOf(x)
    PROVE  /\ RunShape' /\ OneRun'
           /\ \A z \in Executors : \A d : d # 1 /\ d \in DOMAIN stack'[z] =>
                 Fresh(z, d) \/ (d \in DOMAIN stack[z] /\ Shrunk(stack[z][d], stack'[z][d]) /\ stack[z][d].ev # x)
           /\ \A p \in Events : AtFinish(p)' <=> AtFinish(p)
           /\ \A p, y \in Events : Fetched(p, y)' => Fetched(p, y)
  <1> RunShape /\ OneRun /\ RunOrder
    BY DEF Inv, ChainInv
  <1>1. \A y \in Events : <<>> # <<y>>
    OBVIOUS
  <1>2. \A z \in Executors : \A d \in DOMAIN stack[z] : d # 1 => stack[z][d].ev # x
    <2> SUFFICES ASSUME NEW z \in Executors, NEW d \in DOMAIN stack[z], d # 1, stack[z][d].ev = x PROVE FALSE
      OBVIOUS
    <2>1. InFrame(z, d, x)
      BY DEF InFrame
    <2>2. log[event[x].item].begun = 1
      BY <2>1 DEF RunOrder
    <2> QED
      BY <2>2 DEF NotBegun
  <1>3. ASSUME NEW z \in Executors, NEW d, d # 1, d \in DOMAIN stack'[z], ~Fresh(z, d)
        PROVE  d \in DOMAIN stack[z] /\ Shrunk(stack[z][d], stack'[z][d]) /\ stack[z][d].ev # x
    BY <1>2, <1>3 DEF Fresh, RunsGoOn
  <1>4. \A z \in Executors : \A d : Fresh(z, d) => RunOf(x, stack'[z][d])
    BY DEF OnlyRunOf
  <1>5. RunShape'
    <2> SUFFICES ASSUME NEW z \in Executors, NEW d \in DOMAIN stack'[z], d # 1 PROVE RunFrame(stack'[z][d])
      BY DEF RunShape, RunFrame, Lone
    <2>1. CASE Fresh(z, d)
      BY <2>1, <1>4 DEF RunOf, RunFrame, RunPcs, Lone
    <2>2. CASE ~Fresh(z, d)
      BY <2>2, <1>3 DEF Shrunk, RunShape
    <2> QED
      BY <2>1, <2>2
  <1>6. OneRun'
    <2> SUFFICES ASSUME NEW z \in Executors, NEW w \in Executors, NEW d \in DOMAIN stack'[z], NEW c \in DOMAIN stack'[w],
                        d # 1, c # 1, stack'[z][d].ev = stack'[w][c].ev
                 PROVE  z = w /\ d = c
      BY DEF OneRun
    <2>1. CASE Fresh(z, d) /\ Fresh(w, c)
      BY <2>1 DEF OnlyRunOf
    <2>2. CASE Fresh(z, d) /\ ~Fresh(w, c)
      BY <2>2, <1>3, <1>4 DEF RunOf, Shrunk
    <2>3. CASE ~Fresh(z, d) /\ Fresh(w, c)
      BY <2>3, <1>3, <1>4 DEF RunOf, Shrunk
    <2>4. CASE ~Fresh(z, d) /\ ~Fresh(w, c)
      BY <2>4, <1>3 DEF Shrunk, OneRun
    <2> QED
      BY <2>1, <2>2, <2>3, <2>4
  <1>7. ASSUME NEW p \in Events PROVE AtFinish(p)' <=> AtFinish(p)
    <2>1. ASSUME AtFinish(p)' PROVE AtFinish(p)
      <3>1. PICK z, d : z \in Executors /\ d \in DOMAIN stack'[z] /\ d # 1 /\ stack'[z][d].ev = p /\ stack'[z][d].pc = "finish"
        BY <2>1 DEF AtFinish, InFrame
      <3>2. ~Fresh(z, d)
        BY <3>1, <1>4 DEF RunOf
      <3> QED
        BY <3>1, <3>2, <1>3 DEF Shrunk, AtFinish, InFrame
    <2>2. ASSUME AtFinish(p) PROVE AtFinish(p)'
      <3>1. PICK z, d : z \in Executors /\ d \in DOMAIN stack[z] /\ d # 1 /\ stack[z][d].ev = p /\ stack[z][d].pc = "finish"
        BY <2>2 DEF AtFinish, InFrame
      <3>2. d \in DOMAIN stack'[z] /\ stack'[z][d].ev = p /\ stack'[z][d].pc = "finish"
        BY <3>1 DEF RunsGoOn, Shrunk
      <3> QED
        BY <3>1, <3>2 DEF AtFinish, InFrame
    <2> QED
      BY <2>1, <2>2
  <1>8. ASSUME NEW p \in Events, NEW y \in Events, Fetched(p, y)' PROVE Fetched(p, y)
    <2>1. PICK z, d :
             z \in Executors /\ d \in DOMAIN stack'[z] /\ d # 1 /\ stack'[z][d].ev = p /\ (stack'[z][d].todo = <<y>> \/ stack'[z][d].ready = <<y>>)
      BY <1>8 DEF Fetched, InFrame
    <2>2. ~Fresh(z, d)
      BY <2>1, <1>1, <1>4 DEF RunOf
    <2>3. d \in DOMAIN stack[z] /\ stack[z][d].ev = p /\ (stack[z][d].todo = <<y>> \/ stack[z][d].ready = <<y>>)
      BY <2>1, <2>2, <1>1, <1>3 DEF Shrunk
    <2> QED
      BY <2>1, <2>3 DEF Fetched, InFrame
  <1> QED
    BY <1>3, <1>5, <1>6, <1>7, <1>8

\* A run that may begin is handed to the scheduler, or begins.
LEMMA HandedOver ==
    ASSUME Inv, TypeOK', CallsInv', UNCHANGED <<users, queue, event, task>>, LogSame,
           NEW x \in Events, NotBegun(x), Cleared(x), RunsGoOn, OnlyRunOf(x),
           \A y \in Events : y # x => ready'[y] = ready[y],
           \A k \in Items : log'[k].ended = log[k].ended /\ (k # event[x].item => BegunSame(k)),
           \/ Starts /\ ready'[x] = 0 /\ log'[event[x].item].begun = 1
           \/ ~Starts /\ ready'[x] = 1 /\ log'[event[x].item].begun = 0,
           \A z \in Executors, y \in Events : Enqueuing(z, y)' =>
               y # x /\ Enqueuing(z, y) /\ stack'[z][1].todo = stack[z][1].todo,
           \A p \in Events : ~OnNode(p, x),
           \A z \in Executors : \A d \in DOMAIN stack'[z] : d # 1 =>
               stack'[z][d].todo # <<x>> /\ stack'[z][d].ready # <<x>>
    PROVE  Inv'
  <1> TypeOK /\ CallsInv /\ ChainInv /\ Disciplined(scenario)
    BY DEF Inv
  <1> Numbered /\ RunShape /\ Counts /\ FinishedRan /\ OneSuccessor /\ ChainOrder /\ FetchedOrder /\ RunOrder
        /\ OneRun /\ RunsInOrder
    BY DEF CallsInv, ChainInv
  <1>1. /\ Grows /\ ItemsKept /\ scenario' = scenario /\ Items' = Items /\ event' = event /\ task' = task
        /\ \A y : Submitted(y)' <=> Submitted(y)
    BY SameGrows DEF ItemsKept, SameItem, users, LogSame, Submitted
  <1>2. PICK n : n = event[x].item
    OBVIOUS
  <1>3. n \in Items /\ log[n].begun = 0 /\ log[n].ended = 0 /\ log[n].ev = x /\ log[n].q = event[x].q /\ Submitted(x)
    BY <1>2 DEF NotBegun, Numbered, Counts
  <1>4. /\ \A k \in Items : /\ SameCall(k) /\ log'[k].ended = log[k].ended
                            /\ k # n => log'[k].begun = log[k].begun
        /\ log'[n].begun \in {0, 1}
        /\ Starts => ready'[x] = 0 /\ log'[n].begun = 1
        /\ ~Starts => ready'[x] = 1 /\ log'[n].begun = 0
    BY <1>2 DEF LogSame, BegunSame
  <1>5. \A y \in Events : Submitted(y) => event[y].item \in Items /\ (y # x => event[y].item # n)
    BY <1>3 DEF Numbered
  <1>6. /\ RunShape' /\ OneRun'
        /\ \A z \in Executors : \A d : d # 1 /\ d \in DOMAIN stack'[z] =>
              Fresh(z, d) \/ (d \in DOMAIN stack[z] /\ Shrunk(stack[z][d], stack'[z][d]) /\ stack[z][d].ev # x)
        /\ \A p \in Events : AtFinish(p)' <=> AtFinish(p)
        /\ \A p, y \in Events : Fetched(p, y)' => Fetched(p, y)
    BY FramesAfter
  <1>7. \A y \in Events : y # x => Untouched(y)
    BY <1>1, <1>4, <1>5 DEF Untouched, NotBegun
  <1>8. ASSUME NEW p \in Events, NEW y \in Events, Chained(p, y)' PROVE y # x /\ Chained(p, y)
    <2>1. CASE OnNode(p, y)'
      <3>1. OnNode(p, y)
        BY <2>1, <1>1, <1>6 DEF OnNode
      <3> QED
        BY <3>1 DEF Chained
    <2>2. CASE Fetched(p, y)'
      <3>1. y # x
        BY <2>2 DEF Fetched, InFrame
      <3> QED
        BY <2>2, <3>1, <1>6 DEF Chained
    <2> QED
      BY <1>8, <2>1, <2>2 DEF Chained
  <1>9. \A y \in Events : Submitted(y) /\ Cleared(y) => Cleared(y)'
    BY <1>1, OrderKept
  <1>10. EnqueueOrder' /\ ChainOrder' /\ ReadyOrder'
    <2>1. \A z \in Executors, y \in Events : Enqueuing(z, y)' => StillEnqueuing(z, y) \/ FineEnqueuing(z, y)
      BY <1>7 DEF StillEnqueuing
    <2>2. \A p, y \in Events : Chained(p, y)' => StillChained(p, y) \/ FineChained(p, y)
      BY <1>7, <1>8 DEF StillChained
    <2>3. ASSUME NEW y \in Events, ready'[y] # 0 PROVE FineReady(y)
      <3>1. CASE y # x
        BY <3>1, <1>7 DEF FineReady
      <3>2. CASE y = x
        <4>1. ready'[x] = 1 /\ log'[n].begun = 0
          BY <2>3, <3>2, <1>4
        <4>2. NotBegun(x)'
          BY <4>1, <1>1, <1>2, <1>3 DEF NotBegun
        <4> QED
          BY <3>2, <4>1, <4>2, <1>3, <1>9 DEF FineReady
      <3> QED
        BY <3>1, <3>2
    <2> QED
      BY <1>1, <2>1, <2>2, <2>3, OrdersKept
  <1>11. RunsInOrder'
    <2>1. \A j \in Items' : (j \in Items /\ BegunSame(j)) \/ LateBegin(j) \/ log'[j].begun = 0
      <3> SUFFICES ASSUME NEW j \in Items, j = n, log'[n].begun = 1 PROVE LateBegin(n)
        BY <1>1, <1>4 DEF BegunSame
      <3>1. \A i \in Items : i < n /\ log[i].q = log[n].q => log[i].ended = 1
        BY <1>2, <1>3 DEF Cleared
      <3> QED
        BY <3>1, <1>1, <1>3, <1>4 DEF LateBegin, SameCall
    <2> QED
      BY <1>1, <2>1, RunsKept
  <1>12. Counts'
    BY <1>1, <1>3, <1>4 DEF Counts
  <1>13. FinishedRan'
    BY <1>1, <1>4, <1>5 DEF FinishedRan
  <1>14. OneSuccessor'
    BY <1>1, <1>6 DEF OneSuccessor, Lone
  <1>15. FetchedOrder'
    <2> SUFFICES ASSUME NEW z \in Executors, NEW d \in DOMAIN stack'[z], NEW y \in Events,
                        d # 1, stack'[z][d].ready = <<y>>
                 PROVE  Cleared(y)'
      BY DEF FetchedOrder
    <2>1. <<>> # <<y>>
      OBVIOUS
    <2>2. ~Fresh(z, d)
      BY <2>1 DEF OnlyRunOf, RunOf
    <2>3. d \in DOMAIN stack[z] /\ stack[z][d].ready = <<y>>
      BY <2>1, <2>2, <1>6 DEF Shrunk
    <2>4. Cleared(y) /\ stack[z][d].ev \in Events
      BY <2>3 DEF FetchedOrder, RunShape, RunFrame
    <2>5. Chained(stack[z][d].ev, y)
      BY <2>3, <2>4 DEF Chained, Fetched, InFrame
    <2>6. Submitted(y)
      BY <2>4, <2>5 DEF ChainOrder, NotBegun
    <2> QED
      BY <2>4, <2>6, <1>9
  <1>16. RunOrder'
    <2> SUFFICES ASSUME NEW z \in Executors, NEW y \in Events, NEW d \in DOMAIN stack'[z], d # 1, stack'[z][d].ev = y
                 PROVE  /\ Submitted(y) /\ Cleared(y)'
                        /\ log'[event[y].item].begun = 1
                        /\ log'[event[y].item].ended = IF stack'[z][d].pc = "func" THEN 0 ELSE 1
                        /\ task[y].finished <=> stack'[z][d].pc \in {"finish", "release", "add"}
      BY <1>1 DEF RunOrder, InFrame
    <2>1. CASE Fresh(z, d)
      <3>1. Starts /\ y = x /\ stack'[z][d].pc = "func"
        BY <2>1 DEF Starts, OnlyRunOf, RunOf
      <3>2. ~task[x].finished
        BY <1>2, <1>3 DEF FinishedRan
      <3> QED
        BY <3>1, <3>2, <1>2, <1>3, <1>4, <1>9
    <2>2. CASE ~Fresh(z, d)
      <3>1. d \in DOMAIN stack[z] /\ stack'[z][d].pc = stack[z][d].pc /\ stack[z][d].ev = y /\ y # x
        BY <2>2, <1>6 DEF Shrunk
      <3>2. /\ Submitted(y) /\ Cleared(y)
            /\ log[event[y].item].begun = 1
            /\ log[event[y].item].ended = IF stack[z][d].pc = "func" THEN 0 ELSE 1
            /\ task[y].finished <=> stack[z][d].pc \in {"finish", "release", "add"}
        BY <3>1 DEF RunOrder, InFrame
      <3>3. event[y].item \in Items /\ event[y].item # n
        BY <3>1, <3>2, <1>5
      <3> QED
        BY <3>1, <3>2, <3>3, <1>4, <1>9
    <2> QED
      BY <2>1, <2>2
  <1>17. ChainInv'
    BY <1>6, <1>10, <1>11, <1>12, <1>13, <1>14, <1>15, <1>16 DEF ChainInv
  <1> QED
    BY <1>1, <1>17 DEF Inv

\* The innermost frame of e becomes f: an enqueue goes on to its end, a run hands over
\* what it made ready, or nothing changes.
TopGoesOn(e, f) ==
    /\ Len(stack[e]) = 1 => /\ UserFrame(f) /\ f.ev = Top(e).ev /\ f.q = Top(e).q
                            /\ f.pc \in EnqueuePcs <=> Top(e).pc \in EnqueuePcs
                            /\ f.pc \in LockPcs <=> Top(e).pc \in LockPcs
                            /\ f = Top(e) \/ f.pc = "unlock"
    /\ Len(stack[e]) # 1 => Shrunk(Top(e), f)

\* No place but that frame holds the run of x.
Without(h, x) == h.todo # <<x>> /\ h.ready # <<x>>
OnlyAt(e, f, x) ==
    /\ \A z \in Executors : Enqueuing(z, x) => z = e /\ Len(stack[e]) = 1 /\ f.pc = "unlock"
    /\ \A p \in Events : ~OnNode(p, x)
    /\ Len(stack[e]) # 1 => Without(f, x)
    /\ \A z \in Executors : \A d \in DOMAIN stack[z] :
          d # 1 /\ ~(z = e /\ d = Len(stack[e])) => Without(stack[z][d], x)

\* What SetTop and a push have in common.
Replaces(e, f) ==
    /\ stack'[e] # <<>> /\ Len(stack[e]) \in DOMAIN stack[e] /\ 1 \in DOMAIN stack[e]
    /\ stack[e][Len(stack[e])] = Top(e) /\ stack'[e][Len(stack[e])] = f
    /\ DOMAIN stack[e] \subseteq DOMAIN stack'[e]
    /\ \A d \in DOMAIN stack[e] : d # Len(stack[e]) => stack'[e][d] = stack[e][d]
    /\ \A z \in Executors : z # e => stack'[z] = stack[z]

\* The stacks when x is handed over.
LEMMA Replaced ==
    ASSUME Inv, NEW e \in Executors, NEW f, NEW x \in Events, Replaces(e, f), TopGoesOn(e, f), OnlyAt(e, f, x),
           \A z \in Executors : \A d : Fresh(z, d) => z = e /\ d = Len(stack[e]) + 1 /\ RunOf(x, stack'[z][d])
    PROVE  /\ RunsGoOn /\ OnlyRunOf(x) /\ \A z \in Executors : UserKept(z)
           /\ \A z \in Executors, y \in Events : Enqueuing(z, y)' =>
                 y # x /\ Enqueuing(z, y) /\ stack'[z][1].todo = stack[z][1].todo
           /\ \A z \in Executors : \A d \in DOMAIN stack'[z] : d # 1 => Without(stack'[z][d], x)
  <1> UserShape /\ RunShape
    BY DEF Inv, CallsInv, ChainInv
  <1>1. PICK m : m = Len(stack[e])
    OBVIOUS
  <1>2. /\ stack'[e] # <<>> /\ m \in DOMAIN stack[e] /\ 1 \in DOMAIN stack[e]
        /\ stack[e][m] = Top(e) /\ stack'[e][m] = f
        /\ DOMAIN stack[e] \subseteq DOMAIN stack'[e]
        /\ \A d \in DOMAIN stack[e] : d # m => stack'[e][d] = stack[e][d]
        /\ \A z \in Executors : z # e => stack'[z] = stack[z]
    BY <1>1 DEF Replaces
  <1>3. RunsGoOn
    <2> SUFFICES ASSUME NEW z \in Executors, NEW d, d # 1, d \in DOMAIN stack[z]
                 PROVE  d \in DOMAIN stack'[z] /\ Shrunk(stack[z][d], stack'[z][d])
      BY DEF RunsGoOn
    <2>1. CASE z = e /\ d = m
      BY <2>1, <1>1, <1>2 DEF TopGoesOn
    <2>2. CASE ~(z = e /\ d = m)
      BY <2>2, <1>2 DEF Shrunk
    <2> QED
      BY <2>1, <2>2
  <1>4. OnlyRunOf(x)
    BY DEF OnlyRunOf
  <1>5. \A z \in Executors : stack'[z][1] = stack[z][1] \/ (z = e /\ m = 1 /\ stack'[e][1] = f /\ stack[e][1] = Top(e))
    BY <1>2
  <1>6. ASSUME NEW z \in Executors PROVE UserKept(z)
    <2>1. stack'[z] # <<>> /\ UserFrame(stack[z][1])
      BY <1>2 DEF UserShape
    <2>2. CASE stack'[z][1] = stack[z][1]
      BY <2>1, <2>2 DEF UserKept
    <2>3. CASE z = e /\ m = 1 /\ stack'[e][1] = f /\ stack[e][1] = Top(e)
      BY <2>1, <2>3, <1>1 DEF UserKept, TopGoesOn
    <2> QED
      BY <2>2, <2>3, <1>5
  <1>7. ASSUME NEW z \in Executors, NEW y \in Events, Enqueuing(z, y)'
        PROVE  y # x /\ Enqueuing(z, y) /\ stack'[z][1].todo = stack[z][1].todo
    <2>1. CASE stack'[z][1] = stack[z][1]
      <3>1. Enqueuing(z, y) /\ stack[z][1].pc # "unlock"
        BY <2>1, <1>7 DEF Enqueuing
      <3>2. y = x => z = e /\ m = 1 /\ f.pc = "unlock"
        BY <3>1, <1>1 DEF OnlyAt
      <3> QED
        BY <2>1, <3>1, <3>2, <1>2
    <2>2. CASE z = e /\ m = 1 /\ stack'[e][1] = f /\ stack[e][1] = Top(e)
      <3>1. f.pc # "unlock"
        BY <2>2, <1>7 DEF Enqueuing
      <3>2. f = Top(e)
        BY <2>2, <3>1, <1>1 DEF TopGoesOn
      <3>3. Enqueuing(z, y)
        BY <2>2, <3>2, <1>7 DEF Enqueuing
      <3> QED
        BY <2>2, <3>1, <3>2, <3>3 DEF OnlyAt
    <2> QED
      BY <2>1, <2>2, <1>5
  <1>8. ASSUME NEW z \in Executors, NEW d \in DOMAIN stack'[z], d # 1 PROVE Without(stack'[z][d], x)
    <2>0. <<>> # <<x>>
      OBVIOUS
    <2>1. CASE d \notin DOMAIN stack[z]
      BY <2>0, <2>1, <1>8 DEF Fresh, RunOf, Without
    <2>2. CASE z = e /\ d = m
      BY <2>2, <1>1, <1>2, <1>8 DEF OnlyAt
    <2>3. CASE d \in DOMAIN stack[z] /\ ~(z = e /\ d = m)
      BY <2>3, <1>1, <1>2, <1>8 DEF OnlyAt
    <2> QED
      BY <2>1, <2>2, <2>3
  <1> QED
    BY <1>3, <1>4, <1>6, <1>7, <1>8

\* The frame of a run that begins.
LEMMA NewRun ==
    ASSUME TypeOK, NEW x \in Events
    PROVE  Frame("func", x) \in FrameSet /\ RunOf(x, Frame("func", x))
  <1>1. x # None /\ task[x].use \in Int
    BY NamesAssumption DEF TypeOK, TaskSet
  <1>2. PICK u, g : u \in Int /\ u = task[x].use /\ g = Frame("func", x)
    BY <1>1
  <1> u \in Int
    BY <1>2
  <1>3. g = [pc |-> "func", ev |-> x, use |-> u, q |-> None, todo |-> <<>>, ready |-> <<>>, n |-> 0, qs |-> {}]
    BY <1>1, <1>2 DEF Frame
  <1>4. ASSUME NEW s \in Seq(Events), NEW qs \in SUBSET Queues,
               g = [pc |-> "func", ev |-> x, use |-> u, q |-> None, todo |-> s, ready |-> s, n |-> 0, qs |-> qs]
        PROVE  g \in FrameSet /\ g.pc = "func" /\ g.ev = x /\ g.todo = s /\ g.ready = s
    BY <1>4 DEF FrameSet, RunPcs
  <1>5. <<>> \in Seq(Events) /\ {} \in SUBSET Queues
    OBVIOUS
  <1> QED
    BY <1>2, <1>3, <1>4, <1>5 DEF RunOf

\* The item of a run that begins.
LEMMA BeginsItem ==
    ASSUME Inv, NEW x \in Events, NotBegun(x), log' = Begin(log, x)
    PROVE  /\ log' \in Seq(ItemSet) /\ LogSame /\ log'[event[x].item].begun = 1
           /\ \A k \in Items : log'[k].ended = log[k].ended /\ (k # event[x].item => BegunSame(k))
  <1> TypeOK /\ Numbered
    BY DEF Inv, CallsInv
  <1>1. PICK n, b, it : n = event[x].item /\ b = log[n].begun + 1 /\ it = [log[n] EXCEPT !.begun = b]
    OBVIOUS
  <1>2. n \in Items /\ log[n].begun = 0 /\ log[n].ev = x /\ Submitted(x)
    BY <1>1 DEF NotBegun, Numbered
  <1>3. log[n] \in ItemSet
    BY <1>2, ItemTypes
  <1>4. b = 1 /\ b \in Int
    BY <1>1, <1>2
  <1>5. /\ it \in ItemSet /\ it.q = log[n].q /\ it.ev = log[n].ev /\ it.by = log[n].by /\ it.at = log[n].at
        /\ it.ended = log[n].ended /\ it.begun = b
    <2>1. it = [log[n] EXCEPT !.begun = b]
      BY <1>1
    <2> QED
      BY <2>1, <1>3, <1>4 DEF ItemSet
  <1>6. log' = [log EXCEPT ![n] = it]
    BY <1>1 DEF Begin
  <1>7. /\ log' \in Seq(ItemSet) /\ Items' = Items /\ log'[n] = it
        /\ \A k \in Items : SameCall(k) /\ (k # n => log'[k] = log[k])
    BY <1>2, <1>5, <1>6, LogUpdate
  <1>8. \A k \in Items : log'[k].ended = log[k].ended /\ (k # n => BegunSame(k))
    BY <1>5, <1>7 DEF BegunSame
  <1>9. LogSame
    <2>1. \A k \in Items : ~Submitted(log[k].ev) => k # n
      BY <1>2
    <2> QED
      BY <2>1, <1>7, <1>8 DEF LogSame
  <1> QED
    BY <1>1, <1>4, <1>5, <1>7, <1>8, <1>9

\* x is handed over: to the scheduler or, in a new frame, to its run.  It comes
\* from the scheduler, from its enqueue or from the run before it.
Hands(e, f, x) ==
    /\ NotBegun(x) /\ Replaces(e, f) /\ TopGoesOn(e, f) /\ RunsGoOn /\ OnlyRunOf(x)
    /\ UNCHANGED <<users, queue, event, task>> /\ LogSame
    /\ \A y \in Events : y # x => ready'[y] = ready[y]
    /\ \A k \in Items : log'[k].ended = log[k].ended /\ (k # event[x].item => BegunSame(k))
    /\ \/ Starts /\ ready'[x] = 0 /\ log'[event[x].item].begun = 1
       \/ ~Starts /\ ready'[x] = 1 /\ log'[event[x].item].begun = 0
Gives(e, f, x) ==
    \/ f = Top(e) /\ ready[x] # 0
    \/ Len(stack[e]) = 1 /\ Enqueuing(e, x) /\ f.pc = "unlock" /\ ready[x] = 0
    \/ Len(stack[e]) # 1 /\ Top(e).ready = <<x>> /\ ready[x] = 0

\* A run begins on top of what e does.
LEMMA RunBegins ==
    ASSUME Inv, NEW e \in Executors, NEW f, NEW x \in Events, NotBegun(x), Cleared(x),
           Pushes(e, f, Frame("func", x)), TopGoesOn(e, f), OnlyAt(e, f, x),
           UNCHANGED <<users, queue, event, task>>, log' = Begin(log, x),
           ready' \in [Events -> Nat], ready'[x] = 0, \A y \in Events : y # x => ready'[y] = ready[y],
           schedFull' \in [Executors -> BOOLEAN], count' \in Int
    PROVE  Inv' /\ Hands(e, f, x)
  <1> TypeOK /\ CallsInv
    BY DEF Inv
  <1>1. RunOf(x, Frame("func", x))
    BY NewRun
  <1>2. Replaces(e, f) /\ stack' \in [Executors -> Seq(FrameSet)]
    BY DEF Pushes, Replaces
  <1>3. \A z \in Executors : \A d : Fresh(z, d) => z = e /\ d = Len(stack[e]) + 1 /\ RunOf(x, stack'[z][d])
    BY <1>1 DEF Pushes, Fresh
  <1>4. Starts
    BY DEF Pushes, Starts, Fresh
  <1>5. /\ RunsGoOn /\ OnlyRunOf(x) /\ \A z \in Executors : UserKept(z)
        /\ \A z \in Executors, y \in Events : Enqueuing(z, y)' =>
              y # x /\ Enqueuing(z, y) /\ stack'[z][1].todo = stack[z][1].todo
        /\ \A z \in Executors : \A d \in DOMAIN stack'[z] : d # 1 => Without(stack'[z][d], x)
    BY <1>2, <1>3, Replaced
  <1>6. /\ log' \in Seq(ItemSet) /\ LogSame /\ log'[event[x].item].begun = 1
        /\ \A k \in Items : log'[k].ended = log[k].ended /\ (k # event[x].item => BegunSame(k))
    BY BeginsItem
  <1>7. TypeOK'
    BY <1>2, <1>6 DEF TypeOK, users
  <1>8. ItemsSame /\ \A q \in Queues : QueueKept(q)
    BY DEF ItemsSame, SameItem, QueueKept
  <1>9. CallsInv'
    BY <1>5, <1>6, <1>8, CallsKept
  <1>10. \A p \in Events : ~OnNode(p, x)
    BY DEF OnlyAt
  <1>11. \A z \in Executors : \A d \in DOMAIN stack'[z] : d # 1 =>
               stack'[z][d].todo # <<x>> /\ stack'[z][d].ready # <<x>>
    BY <1>5 DEF Without
  <1>12. Inv'
    BY <1>4, <1>5, <1>6, <1>7, <1>9, <1>10, <1>11, HandedOver
  <1> QED
    BY <1>2, <1>4, <1>5, <1>6, <1>12 DEF Hands

\* kupl_sched_add_tb: the run of x waits in the scheduler, or begins at once.
LEMMA SchedAdded ==
    ASSUME Inv, NEW e \in Executors, NEW f \in FrameSet, NEW x \in Events, NotBegun(x), Cleared(x), ready[x] = 0,
           SchedAddTb(e, f, x), TopGoesOn(e, f), OnlyAt(e, f, x), UNCHANGED <<users, queue, event, task>>
    PROVE  Inv' /\ Hands(e, f, x) /\ count' = count + 1
  <1> TypeOK /\ CallsInv /\ UserShape /\ RunShape /\ Numbered
    BY DEF Inv, CallsInv, ChainInv
  <1>1. /\ ready \in [Events -> Nat] /\ schedFull \in [Executors -> BOOLEAN] /\ count \in Int /\ count' \in Int
        /\ count' = count + 1
    BY DEF TypeOK, SchedAddTb
  <1>2. CASE ready' = [ready EXCEPT ![x] = @ + 1] /\ SetTop(e, f) /\ UNCHANGED <<schedFull, log>>
    <2>1. UserMoves(e, f) \/ RunMoves(e, f)
      <3>1. Top(e).pc \in UserPcs \cup RunPcs
        BY Tops DEF FrameSet
      <3> QED
        BY <3>1, <1>2, SetTopMoves
    <2>2. /\ Len(stack[e]) \in DOMAIN stack[e] /\ 1 \in DOMAIN stack[e] /\ stack[e][Len(stack[e])] = Top(e)
      BY Tops
    <2>3. /\ Replaces(e, f) /\ stack' \in [Executors -> Seq(FrameSet)]
          /\ \A z \in Executors : DOMAIN stack'[z] = DOMAIN stack[z]
      <3>1. CASE UserMoves(e, f)
        <4>1. Len(stack[e]) = 1
          BY <3>1, <2>2 DEF UserMoves
        <4> QED
          BY <3>1, <4>1, <2>2 DEF UserMoves, Replaces
      <3>2. CASE RunMoves(e, f)
        BY <3>2 DEF RunMoves, Replaces
      <3> QED
        BY <2>1, <3>1, <3>2
    <2>4. ~Starts /\ \A z \in Executors : \A d : ~Fresh(z, d)
      BY <2>3 DEF Starts, Fresh
    <2>5. /\ RunsGoOn /\ OnlyRunOf(x) /\ \A z \in Executors : UserKept(z)
          /\ \A z \in Executors, y \in Events : Enqueuing(z, y)' =>
                y # x /\ Enqueuing(z, y) /\ stack'[z][1].todo = stack[z][1].todo
          /\ \A z \in Executors : \A d \in DOMAIN stack'[z] : d # 1 => Without(stack'[z][d], x)
      BY <2>3, <2>4, Replaced
    <2>6. ready' \in [Events -> Nat] /\ ready'[x] = 1 /\ \A y \in Events : y # x => ready'[y] = ready[y]
      BY <1>1, <1>2
    <2>7. ItemsSame /\ \A q \in Queues : QueueKept(q)
      BY DEF ItemsSame, SameItem, QueueKept
    <2>8. /\ CallsInv' /\ \A k \in Items : ItemSame(k) /\ BegunSame(k)
      BY <1>2, <2>5, <2>7, SameCalls
    <2>9. TypeOK'
      BY <1>1, <1>2, <2>3, <2>6 DEF TypeOK, users
    <2>10. event[x].item \in Items /\ log[event[x].item].begun = 0
      BY DEF NotBegun, Numbered
    <2>11. LogSame /\ log'[event[x].item].begun = 0
      BY <1>2, <2>10 DEF LogSame, SameCall, Items
    <2>12. \A k \in Items : log'[k].ended = log[k].ended /\ (k # event[x].item => BegunSame(k))
      BY <2>8 DEF ItemSame
    <2>13. \A p \in Events : ~OnNode(p, x)
      BY DEF OnlyAt
    <2>14. \A z \in Executors : \A d \in DOMAIN stack'[z] : d # 1 =>
               stack'[z][d].todo # <<x>> /\ stack'[z][d].ready # <<x>>
      BY <2>5 DEF Without
    <2>15. Inv'
      BY <2>4, <2>5, <2>6, <2>8, <2>9, <2>11, <2>12, <2>13, <2>14, HandedOver
    <2> QED
      BY <1>1, <2>3, <2>4, <2>5, <2>6, <2>11, <2>12, <2>15 DEF Hands
  <1>3. CASE /\ schedFull' = [schedFull EXCEPT ![e] = TRUE]
             /\ stack' = [stack EXCEPT ![e] = Append([stack[e] EXCEPT ![Len(stack[e])] = f], Frame("func", x))]
             /\ log' = Begin(log, x)
             /\ UNCHANGED ready
    <2>1. Frame("func", x) \in FrameSet
      BY NewRun
    <2>2. Pushes(e, f, Frame("func", x))
      BY <1>3, <2>1, PushMoves
    <2>3. schedFull' \in [Executors -> BOOLEAN] /\ ready' \in [Events -> Nat]
      BY <1>1, <1>3
    <2> QED
      BY <1>1, <1>3, <2>2, <2>3, RunBegins
  <1> QED
    BY <1>2, <1>3 DEF SchedAddTb

\* kupl_event_submit: an event that goes behind nothing unfinished may run.
LEMMA EventSubmitStep ==
    ASSUME Inv, NEW e \in Executors, EventSubmit(e)
    PROVE  /\ Inv'
           /\ Top(e).n = 0 => \E x \in Events : \E f :
                 Hands(e, f, x) /\ Gives(e, f, x) /\ ready[x] = 0 /\ count' = count + 1
  <1> TypeOK /\ EnqueueOrder /\ UserShape /\ RunShape
    BY DEF Inv, ChainInv, CallsInv
  <1>1. Top(e).pc = "preds" /\ Top(e).pc \in LockPcs /\ Top(e).pc \in EnqueuePcs /\ Top(e).todo = <<>>
    BY DEF EventSubmit, At, LockPcs, EnqueuePcs
  <1>2. /\ stack[e][1] = Top(e) /\ Top(e) \in FrameSet /\ Top(e).ev \in Events /\ Top(e).pc \in UserPcs
        /\ \A y \in Executors : y # e /\ stack[y][1].pc \in EnqueuePcs => stack[y][1].ev # Top(e).ev
    BY <1>1, EnqueueFacts
  <1>3. Len(stack[e]) = 1
    BY <1>2, Tops
  <1>4. PICK f, x : f = [Top(e) EXCEPT !.pc = "unlock"] /\ x = Top(e).ev
    OBVIOUS
  <1>5. f \in FrameSet /\ f.pc = "unlock" /\ f.ev = Top(e).ev /\ f.q = Top(e).q
    <2>1. f = [Top(e) EXCEPT !.pc = "unlock"]
      BY <1>4
    <2> QED
      BY <2>1, <1>2 DEF FrameSet, UserPcs, EnqueuePcs, LockPcs
  <1>6. UserFrame(f) /\ f.pc \in LockPcs /\ f.pc \in EnqueuePcs
    BY <1>5 DEF UserFrame, UserPcs, EnqueuePcs, LockPcs
  <1>7. UNCHANGED <<users, queue, event, task>>
    BY DEF EventSubmit
  <1>8. CASE Top(e).n = 0
    <2>1. SchedAddTb(e, f, x)
      BY <1>4, <1>8 DEF EventSubmit
    <2>2. Enqueuing(e, x)
      BY <1>1, <1>2, <1>4, <1>8 DEF Enqueuing
    <2>3. NotBegun(x) /\ ready[x] = 0 /\ Cleared(x) /\ \A p \in Events : ~Chained(p, x)
      BY <1>1, <1>2, <1>4, <2>2 DEF EnqueueOrder
    <2>4. TopGoesOn(e, f)
      BY <1>1, <1>3, <1>5, <1>6 DEF TopGoesOn
    <2>5. OnlyAt(e, f, x)
      <3>1. ASSUME NEW z \in Executors, Enqueuing(z, x) PROVE z = e
        <4>1. stack[z][1].pc \in EnqueuePcs /\ stack[z][1].ev = x
          BY <3>1 DEF Enqueuing, EnqueuePcs, LockPcs
        <4> QED
          BY <4>1, <1>2, <1>4
      <3>2. ASSUME NEW z \in Executors, NEW d \in DOMAIN stack[z], d # 1 PROVE Without(stack[z][d], x)
        <4>1. stack[z][d].ev \in Events
          BY <3>2 DEF RunShape, RunFrame
        <4>2. ~Fetched(stack[z][d].ev, x)
          BY <2>3, <4>1 DEF Chained
        <4> QED
          BY <3>2, <4>2 DEF Fetched, InFrame, Without
      <3> QED
        BY <3>1, <3>2, <2>3, <1>3, <1>5 DEF OnlyAt, Chained
    <2>6. Inv' /\ Hands(e, f, x) /\ count' = count + 1
      BY <1>2, <1>4, <1>5, <1>7, <2>1, <2>3, <2>4, <2>5, SchedAdded
    <2>7. Gives(e, f, x)
      BY <2>2, <2>3, <1>3, <1>5 DEF Gives
    <2> QED
      BY <2>3, <2>6, <2>7, <1>2, <1>4
  <1>9. CASE Top(e).n # 0
    <2>1. SetTop(e, f) /\ UNCHANGED <<sched, log>>
      BY <1>4, <1>9 DEF EventSubmit
    <2>2. task' \in [Events -> TaskSet] /\ \A p \in Events : TaskSame(p)
      BY <1>7 DEF TypeOK, TaskSame
    <2>3. UNCHANGED <<users, queue, event, sched, log>>
      BY <1>7, <2>1
    <2>4. f.pc \notin {"preds", "insert"}
      BY <1>5
    <2>5. Inv'
      BY <1>1, <1>5, <1>6, <2>1, <2>2, <2>3, <2>4, EnqueueGoesOn
    <2> QED
      BY <1>9, <2>5
  <1> QED
    BY <1>8, <1>9

\* kupl_sched_execute_tb: a task of the scheduler begins.
LEMMA SchedExecuteTbStep ==
    ASSUME Inv, NEW e \in Executors, NEW x \in Events, SchedExecuteTb(e, x)
    PROVE  Inv' /\ \E f : Hands(e, f, x) /\ Gives(e, f, x) /\ ready[x] # 0 /\ count' = count
  <1> TypeOK /\ ReadyOrder /\ EnqueueOrder /\ ChainOrder /\ UserShape /\ RunShape
    BY DEF Inv, ChainInv, CallsInv
  <1>1. ready \in [Events -> Nat] /\ ready[x] > 0 /\ schedFull \in [Executors -> BOOLEAN] /\ count \in Int
    BY DEF TypeOK, SchedExecuteTb
  <1>2. ready[x] = 1 /\ NotBegun(x) /\ Cleared(x)
    BY <1>1 DEF ReadyOrder
  <1>3. /\ ready' = [ready EXCEPT ![x] = @ - 1] /\ schedFull' = [schedFull EXCEPT ![e] = FALSE] /\ count' = count
        /\ stack' = [stack EXCEPT ![e] = Append(@, Frame("func", x))] /\ log' = Begin(log, x)
        /\ UNCHANGED <<users, queue, event, task>>
    BY DEF SchedExecuteTb
  <1>4. ready' \in [Events -> Nat] /\ ready'[x] = 0 /\ \A y \in Events : y # x => ready'[y] = ready[y]
    BY <1>1, <1>2, <1>3
  <1>5. schedFull' \in [Executors -> BOOLEAN] /\ count' \in Int
    BY <1>1, <1>3
  <1>6. PICK f : f = Top(e)
    OBVIOUS
  <1>7. /\ f \in FrameSet /\ Frame("func", x) \in FrameSet /\ Len(stack[e]) \in DOMAIN stack[e]
        /\ stack[e][Len(stack[e])] = f
    BY <1>6, Tops, NewRun
  <1>8. Pushes(e, f, Frame("func", x))
    BY <1>3, <1>6, <1>7, PushMoves
  <1>9. TopGoesOn(e, f)
    <2>1. Len(stack[e]) = 1 => UserFrame(f)
      BY <1>7 DEF UserShape
    <2> QED
      BY <2>1, <1>6 DEF TopGoesOn, Shrunk
  <1>10. \A p \in Events : ~Chained(p, x)
    BY <1>2 DEF ChainOrder
  <1>11. \A z \in Executors : ~Enqueuing(z, x)
    BY <1>2 DEF EnqueueOrder
  <1>12. ASSUME NEW z \in Executors, NEW d \in DOMAIN stack[z], d # 1 PROVE Without(stack[z][d], x)
    <2>1. stack[z][d].ev \in Events
      BY <1>12 DEF RunShape, RunFrame
    <2>2. ~Fetched(stack[z][d].ev, x)
      BY <1>10, <2>1 DEF Chained
    <2> QED
      BY <1>12, <2>2 DEF Fetched, InFrame, Without
  <1>13. OnlyAt(e, f, x)
    BY <1>7, <1>10, <1>11, <1>12 DEF OnlyAt, Chained
  <1>14. Inv' /\ Hands(e, f, x)
    BY <1>2, <1>3, <1>4, <1>5, <1>8, <1>9, <1>13, RunBegins
  <1>15. ready[x] # 0
    BY <1>2
  <1> QED
    BY <1>3, <1>6, <1>14, <1>15 DEF Gives

\* kupl_task_finish hands the successor it made ready to the scheduler.
LEMMA TaskFinishAddStep ==
    ASSUME Inv, NEW e \in Executors, TaskFinishAdd(e)
    PROVE  Inv' /\ \E x \in Events : \E f : Hands(e, f, x) /\ Gives(e, f, x) /\ ready[x] = 0 /\ count' = count + 1
  <1> TypeOK /\ ChainOrder /\ FetchedOrder /\ EnqueueOrder /\ OneRun /\ RunShape
    BY DEF Inv, ChainInv
  <1>1. Top(e).pc = "add" /\ Top(e).pc \in RunPcs /\ Top(e).ready # <<>>
    BY DEF TaskFinishAdd, At, RunPcs
  <1>2. PICK ev, m : ev \in Events /\ ev = Top(e).ev /\ m = Len(stack[e])
    BY <1>1, RunFacts
  <1> ev \in Events
    BY <1>2
  <1>3. /\ Top(e) \in FrameSet /\ RunFrame(Top(e)) /\ InFrame(e, m, ev) /\ m \in DOMAIN stack[e] /\ m # 1
        /\ stack[e][m] = Top(e) /\ task[ev].finished
    BY <1>1, <1>2, RunFacts
  <1>4. PICK x \in Events : Top(e).ready = <<x>> /\ Top(e).todo = <<>>
    BY <1>1, <1>3 DEF RunFrame, Lone
  <1>5. Chained(ev, x) /\ Cleared(x)
    BY <1>3, <1>4 DEF Chained, Fetched, FetchedOrder
  <1>6. NotBegun(x) /\ Follows(x, ev) /\ ready[x] = 0
    BY <1>5 DEF ChainOrder
  <1>7. Head(Top(e).ready) = x /\ Tail(Top(e).ready) = <<>>
    BY <1>4
  <1>8. PICK f : f = [Top(e) EXCEPT !.ready = <<>>]
    OBVIOUS
  <1>9. f \in FrameSet /\ f.pc = "add" /\ f.ev = ev /\ f.todo = <<>> /\ f.ready = <<>>
    <2>1. ASSUME NEW t \in Seq(Events), f = [Top(e) EXCEPT !.ready = t]
          PROVE  f \in FrameSet /\ f.pc = Top(e).pc /\ f.ev = Top(e).ev /\ f.todo = Top(e).todo /\ f.ready = t
      BY <2>1, <1>3 DEF FrameSet
    <2>2. <<>> \in Seq(Events)
      OBVIOUS
    <2> QED
      BY <2>1, <2>2, <1>1, <1>2, <1>4, <1>8
  <1>10. RunFrame(f)
    BY <1>1, <1>9 DEF RunFrame, Lone
  <1>11. SchedAddTb(e, f, x) /\ UNCHANGED <<users, queue, event, task>>
    BY <1>7, <1>8 DEF TaskFinishAdd
  <1>12. TopGoesOn(e, f)
    BY <1>1, <1>2, <1>3, <1>4, <1>9, <1>10 DEF TopGoesOn, Shrunk
  <1>13. \A z \in Executors : ~Enqueuing(z, x)
    BY <1>5 DEF EnqueueOrder
  <1>14. \A p \in Events : Chained(p, x) => p = ev
    <2> SUFFICES ASSUME NEW p \in Events, Chained(p, x) PROVE p = ev
      OBVIOUS
    <2>1. Follows(x, p)
      BY DEF ChainOrder
    <2> QED
      BY <1>6, <2>1, FollowsOnce
  <1>15. ASSUME NEW z \in Executors, NEW d \in DOMAIN stack[z], d # 1, stack[z][d].ev = ev PROVE z = e /\ d = m
    <2>1. stack[e][m].ev = stack[z][d].ev
      BY <1>2, <1>3, <1>15
    <2> QED
      BY <2>1, <1>3, <1>15 DEF OneRun
  <1>16. ~AtFinish(ev)
    BY <1>1, <1>3, <1>15 DEF AtFinish, InFrame
  <1>17. \A p \in Events : ~OnNode(p, x)
    <2>1. ~OnNode(ev, x)
      BY <1>3, <1>16 DEF OnNode
    <2> QED
      BY <2>1, <1>14 DEF Chained
  <1>18. ASSUME NEW z \in Executors, NEW d \in DOMAIN stack[z], d # 1, ~(z = e /\ d = m) PROVE Without(stack[z][d], x)
    <2>1. stack[z][d].ev \in Events /\ stack[z][d].ev # ev
      BY <1>15, <1>18 DEF RunShape, RunFrame
    <2>2. ~Fetched(stack[z][d].ev, x)
      BY <1>14, <2>1 DEF Chained
    <2> QED
      BY <1>18, <2>2 DEF Fetched, InFrame, Without
  <1>19. Without(f, x)
    <2>1. <<>> # <<x>>
      OBVIOUS
    <2> QED
      BY <2>1, <1>9 DEF Without
  <1>20. OnlyAt(e, f, x)
    BY <1>2, <1>13, <1>17, <1>18, <1>19 DEF OnlyAt
  <1>21. Inv' /\ Hands(e, f, x) /\ count' = count + 1
    BY <1>5, <1>6, <1>9, <1>11, <1>12, <1>20, SchedAdded
  <1>22. Gives(e, f, x)
    BY <1>2, <1>3, <1>4, <1>6 DEF Gives
  <1> QED
    BY <1>6, <1>21, <1>22

\* The end of kupl_task_finish: the run is over.
LEMMA TaskFinishDerefStep == ASSUME Inv, NEW e \in Executors, TaskFinishDeref(e) PROVE Inv'
  <1> TypeOK /\ CallsInv /\ ChainInv /\ Disciplined(scenario)
    BY DEF Inv
  <1> Numbered /\ UserShape /\ RunShape /\ Counts /\ FinishedRan /\ OneSuccessor /\ ChainOrder /\ FetchedOrder
        /\ RunOrder /\ OneRun /\ RunsInOrder
    BY DEF CallsInv, ChainInv
  <1>1. Top(e).pc = "add" /\ Top(e).pc \in RunPcs
    BY DEF TaskFinishDeref, At, RunPcs
  <1>2. PICK ev, m : ev \in Events /\ ev = Top(e).ev /\ m = Len(stack[e])
    BY <1>1, RunFacts
  <1> ev \in Events
    BY <1>2
  <1>3. /\ task' = [task EXCEPT ![ev] = Deref(task[ev])] /\ count' = count - 1
        /\ stack' = [stack EXCEPT ![e] = SubSeq(@, 1, Len(@) - 1)]
        /\ UNCHANGED <<users, queue, event, ready, schedFull, log>>
    BY <1>2 DEF TaskFinishDeref
  <1>4. Pops(e)
    BY <1>1, <1>3, PopMoves
  <1>5. /\ stack' \in [Executors -> Seq(FrameSet)] /\ stack'[e] # <<>>
        /\ m \in DOMAIN stack[e] /\ m # 1 /\ stack[e][m] = Top(e)
        /\ DOMAIN stack'[e] = DOMAIN stack[e] \ {m} /\ 1 \in DOMAIN stack[e]
        /\ \A d \in DOMAIN stack'[e] : stack'[e][d] = stack[e][d]
        /\ \A x \in Executors : x # e => stack'[x] = stack[x]
    BY <1>2, <1>4 DEF Pops
  <1>6. task' \in [Events -> TaskSet] /\ \A p \in Events : TaskSame(p)
    BY <1>3, DerefType DEF TypeOK, TaskSame
  <1>7. TypeOK'
    <2>1. count' \in Int
      BY <1>3 DEF TypeOK
    <2>2. scenario' = scenario /\ ip' = ip
      BY <1>3 DEF users
    <2> QED
      BY <1>3, <1>5, <1>6, <2>1, <2>2 DEF TypeOK
  <1>8. \A z \in Executors : /\ stack'[z] # <<>> /\ stack'[z][1] = stack[z][1]
                             /\ \A d \in DOMAIN stack'[z] : d \in DOMAIN stack[z] /\ stack'[z][d] = stack[z][d]
                             /\ \A d \in DOMAIN stack[z] : d \in DOMAIN stack'[z] \/ (z = e /\ d = m)
    BY <1>5 DEF UserShape
  <1>9. \A z \in Executors : UserKept(z)
    BY <1>8 DEF UserKept, UserShape
  <1>10. ItemsSame
    BY <1>3 DEF ItemsSame, SameItem
  <1>11. /\ CallsInv' /\ Grows /\ ItemsKept /\ Items' = Items /\ log' = log /\ scenario' = scenario
         /\ \A k \in Items : BegunSame(k)
    BY <1>3, <1>9, <1>10, SameCalls
  <1>12. RunShape' /\ OneRun'
    BY <1>8 DEF RunShape, OneRun
  <1>13. ASSUME NEW p \in Events PROVE AtFinish(p)' <=> AtFinish(p)
    <2>1. AtFinish(p)' => AtFinish(p)
      BY <1>8 DEF AtFinish, InFrame
    <2>2. ASSUME AtFinish(p) PROVE AtFinish(p)'
      <3>1. PICK z, d : z \in Executors /\ d \in DOMAIN stack[z] /\ d # 1 /\ stack[z][d].ev = p /\ stack[z][d].pc = "finish"
        BY <2>2 DEF AtFinish, InFrame
      <3>2. d \in DOMAIN stack'[z] /\ stack'[z][d] = stack[z][d]
        BY <3>1, <1>1, <1>5, <1>8
      <3> QED
        BY <3>1, <3>2 DEF AtFinish, InFrame
    <2> QED
      BY <2>1, <2>2
  <1>14. \A p, y \in Events : Fetched(p, y)' => Fetched(p, y)
    BY <1>8 DEF Fetched, InFrame
  <1>15. ASSUME NEW p \in Events, NEW y \in Events, Chained(p, y)' PROVE Chained(p, y)
    BY <1>6, <1>13, <1>14, <1>15 DEF Chained, OnNode, TaskSame
  <1>16. \A y \in Events : Untouched(y)
    BY <1>3 DEF Untouched, NotBegun, Submitted
  <1>17. EnqueueOrder' /\ ChainOrder' /\ ReadyOrder'
    <2>1. \A z \in Executors, y \in Events : Enqueuing(z, y)' => StillEnqueuing(z, y) \/ FineEnqueuing(z, y)
      BY <1>8, <1>16 DEF Enqueuing, StillEnqueuing
    <2>2. \A p, y \in Events : Chained(p, y)' => StillChained(p, y) \/ FineChained(p, y)
      BY <1>15, <1>16 DEF StillChained
    <2>3. \A y \in Events : ready'[y] # 0 => FineReady(y)
      BY <1>3, <1>16 DEF FineReady
    <2> QED
      BY <1>11, <2>1, <2>2, <2>3, OrdersKept
  <1>18. RunsInOrder' /\ Counts'
    BY <1>11 DEF RunsInOrder, Counts
  <1>19. FinishedRan'
    BY <1>3, <1>6 DEF FinishedRan, TaskSame, Submitted
  <1>20. OneSuccessor'
    BY <1>6, <1>13 DEF OneSuccessor, TaskSame, Lone
  <1>21. \A y : (Submitted(y)' <=> Submitted(y)) /\ (Cleared(y)' <=> Cleared(y))
    BY <1>3, <1>11 DEF Submitted, Cleared
  <1>22. FetchedOrder'
    BY <1>8, <1>21 DEF FetchedOrder
  <1>23. RunOrder'
    <2> SUFFICES ASSUME NEW z \in Executors, NEW y \in Events, NEW d \in DOMAIN stack'[z], d # 1, stack'[z][d].ev = y
                 PROVE  /\ Submitted(y) /\ Cleared(y)
                        /\ log[event[y].item].begun = 1
                        /\ log[event[y].item].ended = IF stack[z][d].pc = "func" THEN 0 ELSE 1
                        /\ task'[y].finished <=> stack[z][d].pc \in {"finish", "release", "add"}
      BY <1>3, <1>8, <1>21 DEF RunOrder, InFrame
    <2>1. InFrame(z, d, y) /\ d \in DOMAIN stack[z] /\ task'[y].finished = task[y].finished
      BY <1>6, <1>8 DEF InFrame, TaskSame
    <2> QED
      BY <2>1 DEF RunOrder
  <1>24. ChainInv'
    BY <1>12, <1>17, <1>18, <1>19, <1>20, <1>22, <1>23 DEF ChainInv
  <1> QED
    BY <1>7, <1>11, <1>24 DEF Inv

-----------------------------------------------------------------------------
(* The theorems *)

\* Nothing is submitted and nobody runs anything at first.
LEMMA InitIInv == Init => IInv
  <1> SUFFICES ASSUME Init, Disciplined(scenario) PROVE Inv
    BY DEF Init, IInv
  <1>1. scenario \in Scenarios /\ scenario.open \subseteq Queues
    BY ScenariosAssumption DEF Init
  <1>2. User \in FrameSet /\ UserFrame(User) /\ User.pc = "call" /\ User.todo = <<>>
    BY UserType DEF User
  <1>3. /\ stack = [e \in Executors |-> <<User>>] /\ event = [x \in Events |-> NoEvent] /\ task = [x \in Events |-> NoTask]
        /\ queue = [q \in Queues |-> IF q \in scenario.open THEN NewQueue ELSE NoQueue]
        /\ ready = [x \in Events |-> 0] /\ log = <<>> /\ ip = [e \in Executors |-> 1]
        /\ schedFull = [e \in Executors |-> FALSE] /\ count = 0
    BY DEF Init
  <1>4. NoEvent \in EventSet /\ NoEvent.item = 0
    BY DEF NoEvent, EventSet, Lives
  <1>5. NoTask \in TaskSet /\ NoTask.succ = <<>> /\ NoTask.finished = FALSE
    <2>1. ASSUME NEW s \in Seq(Events), NEW r,
                 r = [life |-> "none", ref |-> 0, finished |-> FALSE, nPred |-> 0, succ |-> s, locked |-> FALSE, use |-> 0]
          PROVE  r \in TaskSet /\ r.succ = s /\ r.finished = FALSE
      BY <2>1 DEF TaskSet, Lives
    <2>2. <<>> \in Seq(Events)
      OBVIOUS
    <2> QED
      BY <2>1, <2>2 DEF NoTask
  <1>6. /\ NoQueue \in QueueSet /\ NoQueue.last = None /\ NoQueue.sync = FALSE /\ NoQueue.lock = None
        /\ NewQueue \in QueueSet /\ NewQueue.last = None /\ NewQueue.sync = FALSE /\ NewQueue.lock = None
    <2>1. ASSUME NEW l \in Lives, NEW r,
                 r = [life |-> l, events |-> 0, last |-> None, lock |-> None, acquired |-> FALSE, sync |-> FALSE]
          PROVE  r \in QueueSet /\ r.last = None /\ r.sync = FALSE /\ r.lock = None
      BY <2>1 DEF QueueSet
    <2>2. "none" \in Lives
      BY DEF Lives
    <2> QED
      BY <2>1, <2>2, NewTypes DEF NoQueue
  <1>7. TypeOK
    <2>1. <<User>> \in Seq(FrameSet)
      BY <1>2
    <2>2. stack \in [Executors -> Seq(FrameSet)]
      BY <1>3, <2>1
    <2>3. queue \in [Queues -> QueueSet] /\ event \in [Events -> EventSet] /\ task \in [Events -> TaskSet]
      BY <1>3, <1>4, <1>5, <1>6
    <2>4. ip \in [Executors -> Nat \ {0}] /\ ready \in [Events -> Nat] /\ schedFull \in [Executors -> BOOLEAN]
      BY <1>3
    <2>5. log \in Seq(ItemSet) /\ count \in Int
      BY <1>3
    <2> QED
      BY <1>1, <2>2, <2>3, <2>4, <2>5 DEF TypeOK
  <1>8. \A e \in Executors : stack[e] # <<>> /\ DOMAIN stack[e] = {1} /\ stack[e][1] = User /\ stack[e][1].pc = "call"
    <2>1. <<User>> # <<>> /\ DOMAIN <<User>> = {1} /\ <<User>>[1] = User
      OBVIOUS
    <2> QED
      BY <2>1, <1>2, <1>3
  <1>9. Items = {}
    BY <1>3 DEF Items
  <1>10. \A x \in Events : ~Submitted(x) /\ task[x].succ = <<>> /\ ~task[x].finished /\ ready[x] = 0
    BY <1>3, <1>4, <1>5 DEF Submitted
  <1>11. \A q \in Queues : queue[q].last = None /\ ~queue[q].sync /\ queue[q].lock = None
    BY <1>3, <1>6
  <1>12. "call" \notin EnqueuePcs /\ "call" \notin LockPcs /\ "call" \notin {"preds", "insert"}
    BY DEF EnqueuePcs, LockPcs
  <1>13. CallsInv
    <2>1. UserShape /\ InCall
      BY <1>2, <1>8, <1>12 DEF UserShape, InCall
    <2>2. Logged /\ LoggedOnce /\ Numbered /\ BusyNewest
      BY <1>9, <1>10 DEF Logged, LoggedOnce, Numbered, BusyNewest
    <2>3. Locks
      BY <1>8, <1>11, <1>12, NamesAssumption DEF Locks
    <2>4. LastNewest /\ SyncRuns
      BY <1>9, <1>11 DEF LastNewest, SyncRuns
    <2> QED
      BY <2>1, <2>2, <2>3, <2>4 DEF CallsInv
  <1>14. ChainInv
    <2>1. RunShape /\ OneRun /\ FetchedOrder
      BY <1>8 DEF RunShape, OneRun, FetchedOrder
    <2>2. Counts /\ RunsInOrder
      BY <1>9 DEF Counts, RunsInOrder
    <2>3. FinishedRan /\ OneSuccessor /\ ReadyOrder
      BY <1>10 DEF FinishedRan, OneSuccessor, ReadyOrder, Lone
    <2>4. \A p, x \in Events : ~Chained(p, x)
      <3>1. \A x \in Events : <<>> # <<x>>
        OBVIOUS
      <3> QED
        BY <3>1, <1>8, <1>10 DEF Chained, OnNode, Fetched, InFrame
    <2>5. EnqueueOrder /\ ChainOrder
      BY <2>4, <1>8 DEF EnqueueOrder, ChainOrder, Enqueuing
    <2>6. RunOrder
      BY <1>8 DEF RunOrder, InFrame
    <2> QED
      BY <2>1, <2>2, <2>3, <2>4, <2>5, <2>6 DEF ChainInv
  <1> QED
    BY <1>7, <1>13, <1>14 DEF Inv

\* No disciplined scenario calls kupl_queue_wait_event.
LEMMA NoQueueWaitEvent == ASSUME Inv, NEW e \in Executors, QueueWaitEvent(e) PROVE FALSE
  <1>1. AtCall(e, "queue_wait_event")
    BY DEF QueueWaitEvent
  <1> QED
    BY <1>1, AtCallFacts

\* The scenario is chosen once.
LEMMA ScenarioKept == ASSUME [Next]_vars PROVE scenario' = scenario
  <1>1. CASE UNCHANGED vars
    BY <1>1 DEF vars, users
  <1>2. CASE Next
    <2>1. PICK e \in Executors : Step(e)
      BY <1>2 DEF Next
    <2>2. CASE CallStep(e)
      BY <2>2 DEF CallStep, QueueSubmit, QueueSubmitLambda, SubmitKernel, QueueSubmitSync, EventRecord, QueueWaitEvent,
            Refused, QueueCreate, QueueAcquire, EventCreate, EventDestroy, EventQuery, EventWait, QueueWaitBegin,
            QueueWaitEnd, QueueWait, TaskWait, GraphWait, Return, users
    <2>3. CASE EnqueueStep(e)
      BY <2>3 DEF EnqueueStep, EnqueueEvent, GnodePrecedeLock, GnodePrecedeInsert, GnodePrecedeCount, EventSubmit,
            EnqueueUnlock, Return, users
    <2>4. CASE RunStep(e)
      BY <2>4 DEF RunStep, SchedExecuteTb, EventFunc, DequeueEvent, TaskExecute, TaskFinish, GnodeReleaseReady,
            TaskFinishAdd, TaskFinishDeref, users
    <2> QED
      BY <2>1, <2>2, <2>3, <2>4 DEF Step
  <1> QED
    BY <1>1, <1>2

\* A step that changes nothing.
LEMMA StutterInv == ASSUME Inv, UNCHANGED vars PROVE Inv'
  <1>1. /\ scenario' = scenario /\ ip' = ip /\ stack' = stack /\ queue' = queue /\ event' = event /\ task' = task
        /\ ready' = ready /\ schedFull' = schedFull /\ count' = count /\ log' = log
    BY DEF vars, users, sched
  <1>2. TypeOK'
    BY <1>1 DEF Inv, TypeOK
  <1>3. \A e \in Executors : UserKept(e)
    BY <1>1 DEF Inv, CallsInv, UserShape, UserKept
  <1>4. ItemsSame /\ RunsSame
    BY <1>1 DEF ItemsSame, SameItem, RunsSame
  <1>5. CallsInv' /\ Grows /\ ItemsKept /\ Items' = Items /\ \A k \in Items : ItemSame(k)
    BY <1>1, <1>3, <1>4, SameCalls DEF users
  <1>6. /\ \A p \in Events : TaskKept(p)
        /\ \A k \in Items' : k \in Items \/ NewItem(k)
        /\ \A e \in Executors, y \in Events :
               Enqueuing(e, y)' => Enqueuing(e, y) /\ stack'[e][1].todo = stack[e][1].todo
    BY <1>1, <1>5 DEF TaskKept, Enqueuing
  <1>7. ChainInv'
    BY <1>1, <1>2, <1>4, <1>5, <1>6, UserStepKept DEF Inv
  <1> QED
    BY <1>1, <1>2, <1>5, <1>7 DEF Inv

\* Every step of every executor.
LEMMA StepInv == ASSUME Inv, NEW e \in Executors, Step(e) PROVE Inv'
  <1>1. CASE CallStep(e)
    <2>1. CASE \E q \in Queues : QueueWait(e, q)
      BY <2>1, QueueWaitStep
    <2> QED
      BY <1>1, <2>1, SubmitStep, QueueSubmitSyncStep, EventRecordStep, NoQueueWaitEvent, RefusedStep, QueueCreateStep,
         EventCreateStep, EventDestroyStep, EventWaitStep, QueueWaitBeginStep, QueueWaitEndStep, TaskWaitStep
         DEF CallStep
  <1>2. CASE EnqueueStep(e)
    BY <1>2, EnqueueEventStep, GnodePrecedeLockStep, GnodePrecedeInsertStep, GnodePrecedeCountStep, EventSubmitStep,
       EnqueueUnlockStep DEF EnqueueStep
  <1>3. CASE RunStep(e)
    BY <1>3, SchedExecuteTbStep, EventFuncStep, DequeueEventStep, TaskExecuteStep, TaskFinishStep,
       GnodeReleaseReadyStep, TaskFinishAddStep, TaskFinishDerefStep DEF RunStep
  <1> QED
    BY <1>1, <1>2, <1>3 DEF Step

\* Calls, enqueues and runs keep the invariant, whatever their interleaving.
LEMMA NextIInv == IInv /\ [Next]_vars => IInv'
  <1> SUFFICES ASSUME IInv, [Next]_vars PROVE IInv'
    OBVIOUS
  <1>1. scenario' = scenario
    BY ScenarioKept
  <1>2. scenario \in Scenarios
    BY DEF IInv
  <1>3. ASSUME Disciplined(scenario) PROVE Inv'
    <2>1. Inv
      BY <1>3 DEF IInv
    <2>2. CASE UNCHANGED vars
      BY <2>1, <2>2, StutterInv
    <2>3. CASE Next
      BY <2>1, <2>3, StepInv DEF Next
    <2> QED
      BY <2>2, <2>3
  <1>4. Disciplined(scenario)' => Disciplined(scenario)
    BY <1>1 DEF Disciplined, Agree
  <1> QED
    BY <1>1, <1>2, <1>3, <1>4 DEF IInv

\* The inductive invariant of queues and events.
THEOREM SpecIInv == Spec => []IInv
  BY InitIInv, NextIInv, PTL DEF Spec

\* The promise of a queue: in every disciplined scenario each item runs at most once,
\* after every item submitted to the queue before it has returned
\* (kupl_enqueue_event, kupl_event_submit, kupl_task_finish, kupl_dequeue_event).
THEOREM SpecRunsInOrder == Spec => [](Disciplined(scenario) => RunsInOrder)
  <1>1. IInv => (Disciplined(scenario) => RunsInOrder)
    BY DEF IInv, Inv, ChainInv
  <1> QED
    BY <1>1, SpecIInv, PTL

-----------------------------------------------------------------------------
(* Steps that leave the runs alone *)

\* An event in its queue is not finished.
LEMMA HeldUnfinished ==
    ASSUME Inv, NEW x \in Events, Held(x)
    PROVE  ~task[x].finished
  <1> FinishedRan /\ RunOrder
    BY DEF Inv, ChainInv
  <1>1. CASE log[event[x].item].ended = 0
    BY <1>1 DEF FinishedRan
  <1>2. CASE AtDequeue(x)
    BY <1>2 DEF AtDequeue, RunOrder
  <1> QED
    BY <1>1, <1>2 DEF Held

\* What Deref leaves alone besides the item: the status of an event, the counter
\* of a task.
LEMMA DerefKeeps ==
    /\ \A x \in EventSet : Deref(x).status = x.status
    /\ \A x \in TaskSet : Deref(x).nPred = x.nPred
  BY DEF Deref, EventSet, TaskSet

\* Where runs, items and nodes are the same, so is where the runs are.
LEMMA SamePlaces ==
    ASSUME Inv, RunsSame, Grows, ItemsKept, \A k \in Items : ItemSame(k), NEW x \in Events
    PROVE  /\ Running(x)' <=> Running(x)
           /\ AtDequeue(x)' <=> AtDequeue(x)
           /\ \A p \in Events : ToRelease(p, x)' <=> ToRelease(p, x)
           /\ Submitted(x) => /\ Submitted(x)' /\ (Held(x)' <=> Held(x)) /\ (NotBegun(x)' <=> NotBegun(x))
                              /\ log'[event'[x].item].ended = log[event[x].item].ended
                              /\ log'[event'[x].item].begun = log[event[x].item].begun
  <1> Numbered
    BY DEF Inv, CallsInv
  <1>1. Running(x)' <=> Running(x)
    BY FramesSame DEF Running, InFrame
  <1>2. AtDequeue(x)' <=> AtDequeue(x)
    BY DEF RunsSame, AtDequeue, InFrame
  <1>3. \A p \in Events : ToRelease(p, x)' <=> ToRelease(p, x)
    BY DEF RunsSame, ToRelease, InFrame
  <1>4. ASSUME Submitted(x)
        PROVE  /\ Submitted(x)' /\ (Held(x)' <=> Held(x)) /\ (NotBegun(x)' <=> NotBegun(x))
               /\ log'[event'[x].item].ended = log[event[x].item].ended
               /\ log'[event'[x].item].begun = log[event[x].item].begun
    <2>1. event'[x].item = event[x].item /\ event[x].item \in Items
      BY <1>4 DEF ItemsKept, SameItem, Numbered
    <2>2. ItemSame(event[x].item)
      BY <2>1
    <2> QED
      BY <1>2, <1>4, <2>1, <2>2 DEF Held, NotBegun, Submitted, ItemSame
  <1> QED
    BY <1>1, <1>2, <1>3, <1>4

\* The same runs and the same scheduler are the same count of the graph.
LEMMA GraphCountsSame ==
    ASSUME GraphCounts, ready' = ready, count' = count, \A x \in Events : Running(x)' <=> Running(x)
    PROVE  GraphCounts'
  <1>1. Active' = Active
    BY DEF Active
  <1> QED
    BY <1>1 DEF GraphCounts

EventSame(x) == /\ SameItem(x) /\ event'[x].status = event[x].status
                /\ TaskSame(x) /\ task'[x].nPred = task[x].nPred
EventFresh(x) == /\ ~Submitted(x) /\ event'[x].item = 0 /\ event'[x].status = "CREATED"
                 /\ Blank(x) /\ task'[x].nPred = 0
BaseQuiet(e) ==
    \/ stack'[e][1] = stack[e][1]
    \/ /\ stack[e][1].pc \notin EnqueuePcs /\ stack'[e][1].pc \notin LockPcs
       /\ stack'[e][1].pc = "enqueue" => task'[stack'[e][1].ev].nPred = 0
QueueQuiet(q) ==
    \/ queue'[q].events = queue[q].events /\ queue'[q].last = queue[q].last
    \/ /\ queue'[q].events = 0 /\ queue'[q].last = None
       /\ \A x \in Events : event[x].q = q => ~Submitted(x)

\* A call outside an enqueue moves no item: it may make an event or a queue that
\* nothing uses yet.
LEMMA QuietPlaces ==
    ASSUME Inv, PlacesInv, Inv', RunsSame, Grows, \A k \in Items : ItemSame(k), ready' = ready, count' = count,
           \A x \in Events : EventSame(x) \/ EventFresh(x),
           \A e \in Executors : BaseQuiet(e),
           \A q \in Queues : QueueQuiet(q)
    PROVE  PlacesInv'
  <1> /\ Status /\ LastHeld /\ EnqueueHeld /\ CountEdge /\ Predecessors
      /\ Placed /\ InRun /\ QueueCounts /\ GraphCounts
    BY DEF PlacesInv
  <1> ItemsKept
    BY DEF ItemsKept, EventSame, EventFresh
  <1>1. \A x \in Events :
           /\ Running(x)' <=> Running(x)
           /\ \A p \in Events : ToRelease(p, x)' <=> ToRelease(p, x)
           /\ Submitted(x) => /\ Submitted(x)' /\ (Held(x)' <=> Held(x)) /\ (NotBegun(x)' <=> NotBegun(x))
                              /\ log'[event'[x].item].ended = log[event[x].item].ended
                              /\ log'[event'[x].item].begun = log[event[x].item].begun
    BY SamePlaces
  <1>2. \A x \in Events : ~Submitted(x) => ~Submitted(x)'
    BY DEF EventSame, EventFresh, SameItem, Submitted
  <1>3. \A x \in Events : (Held(x)' <=> Held(x)) /\ (NotBegun(x)' <=> NotBegun(x))
    BY <1>1, <1>2 DEF Held, NotBegun
  <1>4. \A x \in Events : Submitted(x) => EventSame(x) /\ event'[x].q = event[x].q
    BY DEF EventFresh, EventSame, SameItem
  <1>5. \A e \in Executors : stack[e][1].pc \in EnqueuePcs \/ stack'[e][1].pc \in LockPcs => stack'[e][1] = stack[e][1]
    BY DEF BaseQuiet
  <1>6. \A p, x \in Events : /\ AtFinish(p)' <=> AtFinish(p)
                             /\ Fetched(p, x)' <=> Fetched(p, x)
    BY FramesSame
  <1>7. \A p, x \in Events : /\ OnNode(p, x)' => OnNode(p, x)
                             /\ Submitted(p) /\ OnNode(p, x) => OnNode(p, x)'
    <2> TAKE p, x \in Events
    <2>1. EventSame(p) => (OnNode(p, x)' <=> OnNode(p, x))
      BY <1>6 DEF EventSame, TaskSame, OnNode
    <2>2. EventFresh(p) => ~OnNode(p, x)'
      BY DEF EventFresh, Blank, OnNode
    <2> QED
      BY <2>1, <2>2, <1>4
  <1>8. ChainOrder /\ ChainOrder' /\ EnqueueOrder /\ InCall /\ LastNewest /\ TypeOK /\ TypeOK'
    BY DEF Inv, ChainInv, CallsInv
  <1>9. \A p, x \in Events : Chained(p, x)' <=> Chained(p, x)
    <2>1. \A p, x \in Events : Chained(p, x) => Submitted(p)
      BY <1>8 DEF ChainOrder, Follows
    <2> QED
      BY <2>1, <1>6, <1>7 DEF Chained
  <1>10. \A e \in Executors, x \in Events : Enqueuing(e, x)' <=> Enqueuing(e, x)
    BY <1>5 DEF Enqueuing, EnqueuePcs, LockPcs
  <1>11. \A x \in Events : Counting(x)' <=> Counting(x)
    BY <1>5 DEF Counting, EnqueuePcs, LockPcs
  <1>12. Status'
    <2> SUFFICES ASSUME NEW x \in Events
                 PROVE  /\ Submitted(x)' <=> event'[x].status # "CREATED"
                        /\ event'[x].status = "COMPLETE" => log'[event'[x].item].ended = 1
      BY DEF Status
    <2>1. CASE EventSame(x)
      <3>1. Submitted(x)' <=> Submitted(x)
        BY <2>1 DEF EventSame, SameItem, Submitted
      <3> QED
        BY <2>1, <3>1, <1>1 DEF EventSame, Status
    <2>2. CASE EventFresh(x)
      BY <2>2 DEF EventFresh, Submitted
    <2> QED
      BY <2>1, <2>2
  <1>13. LastHeld'
    BY <1>3, NamesAssumption DEF LastHeld, QueueQuiet
  <1>14. EnqueueHeld'
    <2> SUFFICES ASSUME NEW e \in Executors, NEW x \in Events, stack'[e][1].pc \in LockPcs
                 PROVE  /\ stack'[e][1].ev = x => Held(x)'
                        /\ stack'[e][1].pc # "unlock" /\ stack'[e][1].todo = <<x>> =>
                              Held(x)' /\ event'[x].q = stack'[e][1].q
      BY DEF EnqueueHeld
    <2>1. stack'[e][1] = stack[e][1]
      BY <1>5
    <2>2. Held(x) => Held(x)' /\ event'[x].q = event[x].q
      BY <1>3, <1>4 DEF Held
    <2> QED
      BY <2>1, <2>2 DEF EnqueueHeld
  <1>15. CountEdge'
    <2> SUFFICES ASSUME NEW e \in Executors, NEW x \in Events, stack'[e][1].pc = "count", stack'[e][1].ev = x
                 PROVE  \E p \in Events : stack'[e][1].todo = <<p>> /\ OnNode(p, x)'
      BY DEF CountEdge
    <2>1. stack'[e][1] = stack[e][1]
      BY <1>5 DEF EnqueuePcs, LockPcs
    <2>2. PICK p \in Events : stack[e][1].todo = <<p>> /\ OnNode(p, x)
      BY <2>1 DEF CountEdge
    <2>3. Submitted(p)
      BY <2>2, <1>8 DEF ChainOrder, Chained, Follows
    <2>4. OnNode(p, x)'
      BY <2>2, <2>3, <1>7
    <2> QED
      BY <2>1, <2>2, <2>4
  <1>16. Predecessors'
    <2>1. ASSUME NEW x \in Events, Uncounted(x)' PROVE task'[x].nPred = 0
      <3>1. PICK e \in Executors : \/ stack'[e][1].pc \in {"enqueue", "count"} /\ stack'[e][1].ev = x
                                   \/ Enqueuing(e, x)'
        BY <2>1 DEF Uncounted
      <3>2. CASE stack'[e][1] = stack[e][1]
        <4>1. Uncounted(x)
          BY <3>1, <3>2, <1>10 DEF Uncounted
        <4> QED
          BY <4>1 DEF Predecessors, EventSame, EventFresh
      <3>3. CASE stack'[e][1] # stack[e][1]
        <4>1. stack'[e][1].pc \notin LockPcs /\ (stack'[e][1].pc = "enqueue" => task'[stack'[e][1].ev].nPred = 0)
          BY <3>3 DEF BaseQuiet
        <4> QED
          BY <4>1, <3>1 DEF Enqueuing, LockPcs
      <3> QED
        BY <3>2, <3>3
    <2>2. ASSUME NEW p \in Events, NEW x \in Events, OnNode(p, x)' \/ ToRelease(p, x)', ~Counting(x)'
          PROVE  task'[x].nPred = 1
      <3>1. (OnNode(p, x) \/ ToRelease(p, x)) /\ ~Counting(x)
        BY <2>2, <1>1, <1>7, <1>11
      <3>2. task[x].nPred = 1
        BY <3>1 DEF Predecessors
      <3>3. Submitted(x)
        <4>1. Chained(p, x)
          BY <3>1 DEF Chained, Fetched, ToRelease
        <4> QED
          BY <4>1, <1>8 DEF ChainOrder, NotBegun
      <3> QED
        BY <3>2, <3>3, <1>4 DEF EventSame
    <2> QED
      BY <2>1, <2>2 DEF Predecessors
  <1>17. Placed'
    BY <1>3, <1>9, <1>10 DEF Placed
  <1>18. InRun'
    <2> SUFFICES ASSUME NEW x \in Events, Submitted(x)', log'[event'[x].item].begun = 1, ~task'[x].finished
                 PROVE  Running(x)'
      BY DEF InRun
    <2>1. Submitted(x) /\ EventSame(x)
      BY <1>2, <1>4
    <2> QED
      BY <2>1, <1>1 DEF InRun, EventSame, TaskSame
  <1>19. QueueCounts'
    <2> SUFFICES ASSUME NEW q \in Queues
                 PROVE  IsFiniteSet(InQueue(q)') /\ queue'[q].events = Cardinality(InQueue(q)')
      BY DEF QueueCounts
    <2>1. InQueue(q)' = InQueue(q)
      BY <1>3, <1>4 DEF InQueue, Held
    <2>2. IsFiniteSet(InQueue(q)) /\ queue[q].events = Cardinality(InQueue(q))
      BY DEF QueueCounts
    <2>3. CASE queue'[q].events = queue[q].events
      BY <2>1, <2>2, <2>3
    <2>4. CASE queue'[q].events = 0 /\ \A x \in Events : event[x].q = q => ~Submitted(x)
      <3>1. InQueue(q) = {}
        BY <2>4 DEF InQueue, Held
      <3> QED
        BY <2>1, <2>4, <3>1, FS_EmptySet
    <2> QED
      BY <2>3, <2>4 DEF QueueQuiet
  <1>20. GraphCounts'
    BY <1>1, GraphCountsSame
  <1> QED
    BY <1>12, <1>13, <1>14, <1>15, <1>16, <1>17, <1>18, <1>19, <1>20 DEF PlacesInv

-----------------------------------------------------------------------------
(* Calls *)

\* A call of e that makes nothing and enqueues nothing.
Still(e) ==
    /\ Outside(e) /\ RunsSame /\ stack'[e][1].pc \notin EnqueuePcs
    /\ log' = log /\ ready' = ready /\ count' = count
    /\ \A x \in Events : EventSame(x)
    /\ \A q \in Queues : queue'[q].events = queue[q].events /\ queue'[q].last = queue[q].last

\* kupl_event_deref keeps what the places of the items depend on.
LEMMA EventDerefSame ==
    ASSUME TypeOK, NEW ev \in Events, EventDeref(ev, event[ev])
    PROVE  \A x \in Events : EventSame(x)
  <1>1. event \in [Events -> EventSet] /\ task \in [Events -> TaskSet] /\ event[ev] \in EventSet /\ task[ev] \in TaskSet
    BY DEF TypeOK
  <1>2. ItemsSame /\ \A x \in Events : TaskSame(x)
    BY <1>1, EventDerefType
  <1>3. \A x \in Events : event'[x].status = event[x].status
    BY <1>1, DerefKeeps DEF EventDeref
  <1>4. \A x \in Events : task'[x].nPred = task[x].nPred
    BY <1>1, DerefKeeps DEF EventDeref
  <1> QED
    BY <1>2, <1>3, <1>4 DEF EventSame, ItemsSame

\* Calls that return at once: refused, a status read, the graph empty, an event
\* destroyed.
LEMMA StillReturns ==
    ASSUME Inv, NEW e \in Executors, Refused(e) \/ EventQuery(e) \/ GraphWait(e) \/ EventDestroy(e)
    PROVE  Still(e) /\ Return(e) /\ stack' = stack /\ queue' = queue
  <1>1. PICK op : AtCall(e, op)
    BY DEF Refused, EventQuery, GraphWait, EventDestroy
  <1>2. Return(e) /\ UNCHANGED <<stack, queue, sched, log>>
    BY DEF Refused, EventQuery, GraphWait, EventDestroy
  <1>3. Outside(e) /\ RunsSame /\ stack'[e][1].pc \notin EnqueuePcs
    BY <1>1, <1>2, ReturnsAtOnce
  <1>4. \A x \in Events : EventSame(x)
    <2>1. CASE event' = event /\ task' = task
      BY <2>1 DEF EventSame, SameItem, TaskSame
    <2>2. CASE EventDestroy(e)
      <3>1. TypeOK /\ Call(e).ev \in Events
        BY <2>2, AtCallFacts, CallTypes DEF Inv, EventDestroy
      <3> QED
        BY <2>2, <3>1, EventDerefSame DEF EventDestroy
    <2> QED
      BY <2>1, <2>2 DEF Refused, EventQuery, GraphWait
  <1> QED
    BY <1>2, <1>3, <1>4 DEF Still, sched

\* kupl_event_wait and the beginnings of the waits for queues.
LEMMA StillBegins ==
    ASSUME Inv, NEW e \in Executors, EventWait(e) \/ QueueWaitBegin(e)
    PROVE  /\ Still(e) /\ UNCHANGED users
           /\ \/ EventWait(e) /\ queue' = queue
              \/ Call(e).op = "queue_destroy" /\ queue' = [queue EXCEPT ![Call(e).q].acquired = FALSE]
              \/ Call(e).op # "queue_destroy" /\ queue' = queue
           /\ \E f \in FrameSet : /\ UserMoves(e, f)
                                  /\ EventWait(e) => f.pc = "twait" /\ f.ev = Call(e).ev
                                  /\ QueueWaitBegin(e) => /\ f.pc = "qwait"
                                                          /\ f.qs = IF Call(e).op = "queue_wait_all" THEN Acquired ELSE {Call(e).q}
  <1> TypeOK /\ UserShape /\ RunShape
    BY DEF Inv, CallsInv, ChainInv
  <1>1. PICK op : AtCall(e, op) /\ op \in {"event_wait", "queue_wait", "queue_wait_all", "queue_destroy"}
    BY DEF EventWait, QueueWaitBegin
  <1>2. /\ Top(e).pc = "call" /\ Call(e).op = op /\ Top(e).pc \in UserPcs
        /\ op = "event_wait" => Call(e).ev \in Events
        /\ op \in {"queue_wait", "queue_destroy"} => Call(e).q \in Queues
    BY <1>1, AtCallFacts, CallTypes
  <1>3. UNCHANGED <<users, event, task, sched, log>>
    BY DEF EventWait, QueueWaitBegin
  <1>4. PICK f : /\ SetTop(e, f) /\ f \in FrameSet /\ f.pc \in {"twait", "qwait"}
                 /\ EventWait(e) => f.pc = "twait" /\ f.ev = Call(e).ev
                 /\ QueueWaitBegin(e) => /\ f.pc = "qwait"
                                         /\ f.qs = IF Call(e).op = "queue_wait_all" THEN Acquired ELSE {Call(e).q}
    <2>1. CASE EventWait(e)
      <3>1. PICK f : f = [User EXCEPT !.pc = "twait", !.ev = Call(e).ev]
        OBVIOUS
      <3>2. op = "event_wait" /\ SetTop(e, f)
        BY <2>1, <3>1, <1>1 DEF EventWait, AtCall
      <3>3. f \in FrameSet /\ f.pc = "twait" /\ f.ev = Call(e).ev
        BY <3>1, <3>2, <1>2, UserType DEF FrameSet, UserPcs
      <3>4. ~QueueWaitBegin(e)
        BY <3>2, <1>1 DEF QueueWaitBegin, AtCall
      <3> QED
        BY <3>2, <3>3, <3>4
    <2>2. CASE QueueWaitBegin(e)
      <3>1. PICK qs : qs = IF Call(e).op = "queue_wait_all" THEN Acquired ELSE {Call(e).q}
        OBVIOUS
      <3>2. PICK f : f = [User EXCEPT !.pc = "qwait", !.qs = qs]
        OBVIOUS
      <3>3. op # "event_wait" /\ SetTop(e, f)
        BY <2>2, <3>1, <3>2, <1>1 DEF QueueWaitBegin, AtCall
      <3>4. qs \in SUBSET Queues
        BY <3>1, <3>3, <1>1, <1>2 DEF Acquired
      <3>5. f \in FrameSet /\ f.pc = "qwait" /\ f.qs = qs
        BY <3>2, <3>4, UserType DEF FrameSet, UserPcs
      <3>6. ~EventWait(e)
        BY <3>3, <1>1 DEF EventWait, AtCall
      <3> QED
        BY <3>1, <3>3, <3>5, <3>6
    <2> QED
      BY <2>1, <2>2
  <1>5. Outside(e) /\ RunsSame /\ stack'[e][1].pc \notin EnqueuePcs
    BY <1>2, <1>3, <1>4, MovesOutside
  <1>6. UserMoves(e, f)
    BY <1>2, <1>4, SetTopMoves
  <1>7. \/ EventWait(e) /\ queue' = queue
        \/ Call(e).op = "queue_destroy" /\ queue' = [queue EXCEPT ![Call(e).q].acquired = FALSE]
        \/ Call(e).op # "queue_destroy" /\ queue' = queue
    BY DEF EventWait, QueueWaitBegin, AtCall
  <1>8. \A q \in Queues : queue'[q].events = queue[q].events /\ queue'[q].last = queue[q].last
    <2> queue \in [Queues -> QueueSet]
      BY DEF TypeOK
    <2>1. CASE queue' = queue
      BY <2>1
    <2>2. CASE queue' = [queue EXCEPT ![Call(e).q].acquired = FALSE]
      <3>1. PICK c : c = Call(e).q
        OBVIOUS
      <3>2. queue' = [queue EXCEPT ![c].acquired = FALSE]
        BY <2>2, <3>1
      <3> QED
        BY <3>2 DEF QueueSet
    <2> QED
      BY <1>7, <2>1, <2>2
  <1>9. \A x \in Events : EventSame(x)
    BY <1>3 DEF EventSame, SameItem, TaskSame
  <1> QED
    BY <1>3, <1>4, <1>5, <1>6, <1>7, <1>8, <1>9 DEF Still, sched

\* kupl_queue_wait on one queue.
LEMMA StillQueueWait ==
    ASSUME Inv, NEW e \in Executors, NEW q \in Queues, QueueWait(e, q)
    PROVE  /\ Still(e) /\ UNCHANGED <<users, queue>> /\ Top(e).pc = "qwait"
           /\ \E f \in FrameSet :
                 /\ UserMoves(e, f) /\ f.qs = Top(e).qs \ {q}
                 /\ \/ f.pc = "twait" /\ queue[q].events # 0 /\ f.ev = queue[q].last /\ f.ev \in Events
                    \/ f.pc = "qwait" /\ (queue[q].events = 0 \/ queue[q].last = None)
  <1> TypeOK /\ UserShape /\ RunShape
    BY DEF Inv, CallsInv, ChainInv
  <1>1. Top(e).pc = "qwait" /\ Top(e) \in FrameSet /\ Top(e).pc \in UserPcs
    BY Tops DEF QueueWait, At, UserPcs
  <1>2. PICK f, l, g : /\ f = [Top(e) EXCEPT !.qs = @ \ {q}] /\ l = queue[q].last
                       /\ g = [f EXCEPT !.pc = "twait", !.ev = l]
    OBVIOUS
  <1>3. l \in Events \cup {None}
    BY <1>2 DEF TypeOK, QueueSet
  <1>4. f \in FrameSet /\ f.pc = "qwait" /\ f.qs = Top(e).qs \ {q}
    BY <1>1, <1>2 DEF FrameSet
  <1>5. g \in FrameSet /\ g.pc = "twait" /\ g.qs = f.qs /\ g.ev = l
    BY <1>2, <1>3, <1>4 DEF FrameSet, UserPcs
  <1>6. UNCHANGED <<users, queue, event, sched, log>>
    BY DEF QueueWait
  <1>7. \/ SetTop(e, f) /\ task' = task /\ (queue[q].events = 0 \/ l = None)
        \/ SetTop(e, g) /\ l \in Events /\ queue[q].events # 0 /\ task' = [task EXCEPT ![l].ref = @ + 1]
    <2>1. queue[q].last # None => l \in Events
      BY <1>2, <1>3
    <2> QED
      BY <2>1, <1>2 DEF QueueWait
  <1>8. PICK h \in FrameSet : /\ SetTop(e, h) /\ h.pc \in {"twait", "qwait"} /\ h.qs = Top(e).qs \ {q}
                              /\ \/ h.pc = "twait" /\ queue[q].events # 0 /\ h.ev = l /\ l \in Events
                                 \/ h.pc = "qwait" /\ (queue[q].events = 0 \/ l = None)
    BY <1>4, <1>5, <1>7
  <1>9. Outside(e) /\ RunsSame /\ stack'[e][1].pc \notin EnqueuePcs
    BY <1>1, <1>6, <1>8, MovesOutside
  <1>10. UserMoves(e, h)
    BY <1>1, <1>8, SetTopMoves
  <1>11. \A x \in Events : EventSame(x)
    <2>1. CASE task' = task
      BY <2>1, <1>6 DEF EventSame, SameItem, TaskSame
    <2>2. CASE l \in Events /\ task' = [task EXCEPT ![l].ref = @ + 1]
      <3>1. task \in [Events -> TaskSet]
        BY DEF TypeOK
      <3>2. \A x \in Events : TaskSame(x) /\ task'[x].nPred = task[x].nPred
        BY <2>2, <3>1 DEF TaskSame, TaskSet
      <3> QED
        BY <3>2, <1>6 DEF EventSame, SameItem
    <2> QED
      BY <1>7, <2>1, <2>2
  <1> QED
    BY <1>1, <1>2, <1>6, <1>8, <1>9, <1>10, <1>11 DEF Still, sched

\* The end of kupl_task_wait in its callers.
LEMMA StillTaskWait ==
    ASSUME Inv, NEW e \in Executors, TaskWait(e)
    PROVE  /\ Still(e) /\ UNCHANGED queue /\ Top(e).pc = "twait" /\ task[Top(e).ev].finished
           /\ \E f \in FrameSet :
                 /\ UserMoves(e, f)
                 /\ \/ f.pc = "call" /\ Return(e) /\ Call(e).op \in {"event_wait", "queue_wait_event"}
                    \/ f.pc = "qwait" /\ UNCHANGED users /\ Call(e).op \in QueueWaits /\ f.qs = Top(e).qs
  <1> TypeOK /\ UserShape /\ RunShape
    BY DEF Inv, CallsInv, ChainInv
  <1>1. Top(e).pc = "twait" /\ Top(e) \in FrameSet /\ Top(e).pc \in UserPcs /\ task[Top(e).ev].finished
    BY Tops DEF TaskWait, At, UserPcs
  <1>2. PICK g : g = [Top(e) EXCEPT !.pc = "qwait", !.ev = None]
    OBVIOUS
  <1>3. g \in FrameSet /\ g.pc = "qwait" /\ g.qs = Top(e).qs
    BY <1>1, <1>2 DEF FrameSet, UserPcs
  <1>4. event \in [Events -> EventSet] /\ task \in [Events -> TaskSet]
    BY DEF TypeOK
  <1>5. PICK ev : ev = Top(e).ev
    OBVIOUS
  <1>6. \A x \in Events : EventSame(x)
    <2>1. CASE EventDeref(ev, event[ev]) /\ ev \in Events
      BY <2>1, EventDerefSame
    <2>2. CASE event' = event /\ task' = [task EXCEPT ![ev] = Deref(@)]
      <3>1. \A x \in Events : TaskSame(x) /\ task'[x].nPred = task[x].nPred
        BY <1>4, <2>2, DerefType, DerefKeeps DEF TaskSame
      <3> QED
        BY <2>2, <3>1 DEF EventSame, SameItem
    <2>3. CASE EventDeref(ev, event[ev]) /\ ev \notin Events
      <3>1. event' = event
        BY <1>4, <2>3 DEF EventDeref
      <3>2. task' = task
        BY <1>4, <2>3 DEF EventDeref
      <3> QED
        BY <3>1, <3>2 DEF EventSame, SameItem, TaskSame
    <2>4. CASE event' = event /\ task' = task
      BY <2>4 DEF EventSame, SameItem, TaskSame
    <2> QED
      BY <1>5, <2>1, <2>2, <2>3, <2>4 DEF TaskWait
  <1>7. PICK h \in FrameSet : /\ SetTop(e, h) /\ h.pc \in {"call", "qwait"} /\ (UNCHANGED users \/ Return(e))
                              /\ \/ h.pc = "call" /\ Return(e) /\ Call(e).op \in {"event_wait", "queue_wait_event"}
                                 \/ h.pc = "qwait" /\ UNCHANGED users /\ Call(e).op \in QueueWaits /\ h.qs = Top(e).qs
    <2> User \in FrameSet /\ User.pc = "call"
      BY UserType
    <2> QED
      BY <1>2, <1>3 DEF TaskWait, QueueWaits
  <1>8. Outside(e) /\ RunsSame /\ stack'[e][1].pc \notin EnqueuePcs
    BY <1>1, <1>7, MovesOutside
  <1>9. UserMoves(e, h)
    BY <1>1, <1>7, SetTopMoves
  <1>10. UNCHANGED <<queue, sched, log>>
    BY DEF TaskWait
  <1> QED
    BY <1>1, <1>6, <1>7, <1>8, <1>9, <1>10 DEF Still, sched

\* The end of a wait for queues.
LEMMA StillQueueWaitEnd ==
    ASSUME Inv, NEW e \in Executors, QueueWaitEnd(e)
    PROVE  /\ Still(e) /\ Return(e) /\ Top(e).pc = "qwait" /\ Top(e).qs = {}
           /\ UserMoves(e, User)
           /\ \A q \in Queues : queue'[q].acquired = queue[q].acquired
  <1> TypeOK /\ UserShape /\ RunShape
    BY DEF Inv, CallsInv, ChainInv
  <1>1. /\ Top(e).pc = "qwait" /\ Top(e).qs = {} /\ Top(e).pc \in UserPcs
        /\ SetTop(e, User) /\ Return(e) /\ UNCHANGED <<event, task, sched, log>>
    BY DEF QueueWaitEnd, At, UserPcs
  <1>2. Outside(e) /\ RunsSame /\ stack'[e][1].pc \notin EnqueuePcs /\ UserMoves(e, User)
    BY <1>1, UserType, MovesOutside, SetTopMoves
  <1>3. PICK c : c = Call(e).q
    OBVIOUS
  <1>4. queue' = queue \/ queue' = [queue EXCEPT ![c].life = "freed"]
    BY <1>3 DEF QueueWaitEnd
  <1>5. \A q \in Queues : /\ queue'[q].events = queue[q].events /\ queue'[q].last = queue[q].last
                          /\ queue'[q].acquired = queue[q].acquired
    <2> queue \in [Queues -> QueueSet]
      BY DEF TypeOK
    <2> QED
      BY <1>4 DEF QueueSet
  <1>6. \A x \in Events : EventSame(x)
    BY <1>1 DEF EventSame, SameItem, TaskSame
  <1> QED
    BY <1>1, <1>2, <1>5, <1>6 DEF Still, sched

\* None of these calls moves an item.
LEMMA StillPlaces ==
    ASSUME Inv, PlacesInv, Inv', NEW e \in Executors, Still(e)
    PROVE  PlacesInv'
  <1>1. Grows /\ \A k \in Items : ItemSame(k)
    <2> log' = log
      BY DEF Still
    <2> QED
      BY DEF Grows, ItemSame, SameCall, Items
  <1>2. \A x \in Executors : BaseQuiet(x)
    BY DEF Still, Outside, BaseQuiet, EnqueuePcs
  <1>3. \A q \in Queues : QueueQuiet(q)
    BY DEF Still, QueueQuiet
  <1> QED
    BY <1>1, <1>2, <1>3, QuietPlaces DEF Still

\* kupl_event_create makes an event that nothing uses.
LEMMA EventCreatePlaces ==
    ASSUME Inv, PlacesInv, Inv', NEW e \in Executors, EventCreate(e)
    PROVE  PlacesInv' /\ Outside(e) /\ ItemsKept
  <1> TypeOK
    BY DEF Inv
  <1>1. AtCall(e, "event_create") /\ Return(e) /\ UNCHANGED <<stack, queue, sched, log>>
    BY DEF EventCreate
  <1>2. Outside(e) /\ RunsSame /\ stack'[e][1].pc \notin EnqueuePcs
    BY <1>1, ReturnsAtOnce
  <1>3. PICK ev \in Events : ev = Call(e).ev /\ ~Submitted(ev)
    BY <1>1, FreshEvent
  <1>4. event' = [event EXCEPT ![ev] = NewEvent] /\ task' = [task EXCEPT ![ev] = NewTask]
    BY <1>3 DEF EventCreate
  <1>5. NewEvent.item = 0 /\ NewEvent.status = "CREATED" /\ NewTask.succ = <<>> /\ ~NewTask.finished /\ NewTask.nPred = 0
    BY DEF NewEvent, NoEvent, NewTask, NoTask
  <1>6. event \in [Events -> EventSet] /\ task \in [Events -> TaskSet]
    BY DEF TypeOK
  <1>7. EventFresh(ev)
    BY <1>3, <1>4, <1>5, <1>6 DEF EventFresh, Blank
  <1>8. \A x \in Events : EventSame(x) \/ EventFresh(x)
    BY <1>4, <1>6, <1>7 DEF EventSame, SameItem, TaskSame
  <1>9. Grows /\ \A k \in Items : ItemSame(k)
    BY <1>1 DEF Grows, ItemSame, SameCall, Items
  <1>10. \A x \in Executors : BaseQuiet(x)
    BY <1>1 DEF BaseQuiet
  <1>11. \A q \in Queues : QueueQuiet(q)
    BY <1>1 DEF QueueQuiet
  <1>12. ItemsKept
    BY <1>8 DEF ItemsKept, EventSame, EventFresh
  <1> QED
    BY <1>1, <1>2, <1>8, <1>9, <1>10, <1>11, <1>12, QuietPlaces DEF sched

\* The calls that submit take an event that nothing uses, up to the enqueue.
LEMMA SubmitPlaces ==
    ASSUME Inv, PlacesInv, Inv', NEW e \in Executors, QueueSubmit(e) \/ QueueSubmitLambda(e) \/ EventRecord(e)
    PROVE  /\ PlacesInv' /\ Outside(e) /\ ItemsKept /\ UNCHANGED <<users, queue, sched, log>>
           /\ stack'[e][1].pc = "enqueue" /\ Call(e).op \in Submits
  <1> TypeOK /\ UserShape /\ RunShape
    BY DEF Inv, CallsInv, ChainInv
  <1>1. PICK op \in Submits : AtCall(e, op)
    BY DEF QueueSubmit, QueueSubmitLambda, EventRecord, Submits
  <1>2. PICK ev \in Events : ev = Call(e).ev /\ ~Submitted(ev)
    BY <1>1, FreshEvent
  <1>3. PICK q \in Queues : q = Call(e).q
    BY <1>1, AtCallFacts, CallTypes
  <1>4. Top(e).pc = "call" /\ Top(e).pc \in UserPcs /\ stack[e][1] = Top(e) /\ Call(e).op \in Submits
    BY <1>1, AtCallFacts
  <1>5. PICK x, t : event' = [event EXCEPT ![ev] = x] /\ task' = [task EXCEPT ![ev] = t] /\ x.item = 0
                    /\ x.status = "CREATED" /\ t.succ = <<>> /\ ~t.finished /\ t.nPred = 0
    <2> DEFINE t(u) == InitTask(u)
    <2>1. \A u \in TaskSet : InitTask(u).succ = <<>> /\ ~InitTask(u).finished /\ InitTask(u).nPred = 0
      BY DEF InitTask, NewTask, NoTask
    <2>2. NewTask \in TaskSet /\ task[ev] \in TaskSet /\ event[ev] \in EventSet /\ NewEvent \in EventSet
      BY NewTypes DEF TypeOK
    <2>3. event[ev].item = 0 /\ event[ev].status = "CREATED"
      BY <1>2 DEF Submitted, PlacesInv, Status
    <2>4. NewEvent.item = 0 /\ NewEvent.status = "CREATED"
      BY DEF NewEvent, NoEvent
    <2>5. \A y \in EventSet : \A type : /\ InitEvent(y, type, q, None).item = y.item
                                        /\ InitEvent(y, type, q, None).status = y.status
      BY DEF InitEvent, EventSet
    <2>6. CASE EventRecord(e)
      <3>1. PICK x, u : x = InitEvent(event[ev], "RECORD", q, None) /\ u = InitTask(task[ev])
        OBVIOUS
      <3>2. event' = [event EXCEPT ![ev] = x] /\ task' = [task EXCEPT ![ev] = u]
        BY <2>6, <3>1, <1>2, <1>3 DEF EventRecord
      <3>3. x.item = 0 /\ x.status = "CREATED"
        BY <2>2, <2>3, <2>5, <3>1
      <3>4. u.succ = <<>> /\ ~u.finished /\ u.nPred = 0
        BY <2>1, <2>2, <3>1
      <3> QED
        BY <3>2, <3>3, <3>4
    <2>7. CASE SubmitKernel(e)
      <3>1. PICK x, u : x = InitEvent(NewEvent, "KERNEL", q, None) /\ u = InitTask(NewTask)
        OBVIOUS
      <3>2. event' = [event EXCEPT ![ev] = x] /\ task' = [task EXCEPT ![ev] = u]
        BY <2>7, <3>1, <1>2, <1>3 DEF SubmitKernel
      <3>3. x.item = 0 /\ x.status = "CREATED"
        BY <2>2, <2>4, <2>5, <3>1
      <3>4. u.succ = <<>> /\ ~u.finished /\ u.nPred = 0
        BY <2>1, <2>2, <3>1
      <3> QED
        BY <3>2, <3>3, <3>4
    <2> QED
      BY <2>6, <2>7 DEF QueueSubmit, QueueSubmitLambda
  <1>6. Enqueue(e, q, ev) /\ UNCHANGED <<users, queue, sched, log>>
    BY <1>2, <1>3 DEF QueueSubmit, QueueSubmitLambda, EventRecord, SubmitKernel
  <1>7. PICK f \in FrameSet : SetTop(e, f) /\ f.pc = "enqueue" /\ f.ev = ev /\ UserFrame(f)
    <2>1. PICK f : f = [User EXCEPT !.pc = "enqueue", !.q = q, !.ev = ev]
      OBVIOUS
    <2>2. f \in FrameSet /\ f.pc = "enqueue" /\ f.ev = ev
      BY <2>1, UserType DEF FrameSet, UserPcs, EnqueuePcs
    <2>3. UserFrame(f)
      BY <2>2 DEF UserFrame, UserPcs, EnqueuePcs
    <2> QED
      BY <2>1, <2>2, <2>3, <1>6 DEF Enqueue
  <1>8. UserMoves(e, f)
    BY <1>4, <1>7, SetTopMoves
  <1>9. RunsSame
    BY <1>8, UserRunsSame
  <1>10. Outside(e)
    BY <1>4, <1>6, <1>7, <1>8 DEF UserMoves, Outside, EnqueuePcs, LockPcs, users
  <1>11. event \in [Events -> EventSet] /\ task \in [Events -> TaskSet]
    BY DEF TypeOK
  <1>12. EventFresh(ev)
    BY <1>2, <1>5, <1>11 DEF EventFresh, Blank
  <1>13. \A y \in Events : EventSame(y) \/ EventFresh(y)
    BY <1>5, <1>11, <1>12 DEF EventSame, SameItem, TaskSame
  <1>14. Grows /\ \A k \in Items : ItemSame(k)
    BY <1>6 DEF Grows, ItemSame, SameCall, Items
  <1>15. \A y \in Executors : BaseQuiet(y)
    <2>1. stack[e][1].pc \notin EnqueuePcs /\ stack'[e][1].pc \notin LockPcs
      BY <1>10 DEF Outside
    <2>2. stack'[e][1].ev = ev /\ task'[ev].nPred = 0
      BY <1>7, <1>8, <1>12 DEF UserMoves, EventFresh
    <2> QED
      BY <2>1, <2>2, <1>8 DEF BaseQuiet, UserMoves
  <1>16. \A z \in Queues : QueueQuiet(z)
    BY <1>6 DEF QueueQuiet
  <1>17. ItemsKept
    BY <1>13 DEF ItemsKept, EventSame, EventFresh
  <1> QED
    BY <1>4, <1>6, <1>7, <1>8, <1>9, <1>10, <1>13, <1>14, <1>15, <1>16, <1>17, QuietPlaces DEF sched, UserMoves

\* kupl_queue_create and kupl_queue_acquire make a queue that nothing uses.
LEMMA QueueCreatePlaces ==
    ASSUME Inv, PlacesInv, Inv', NEW e \in Executors, QueueCreate(e) \/ QueueAcquire(e)
    PROVE  /\ PlacesInv' /\ Outside(e) /\ Return(e) /\ UNCHANGED <<stack, event, log>>
           /\ Call(e).q \in Queues /\ \A z \in Queues : z # Call(e).q => queue'[z] = queue[z]
           /\ QueueAcquire(e) => queue'[Call(e).q].acquired
  <1> TypeOK /\ Numbered
    BY DEF Inv, CallsInv
  <1>1. PICK op \in Creates : AtCall(e, op)
    BY DEF QueueCreate, QueueAcquire, Creates
  <1>2. Return(e) /\ UNCHANGED <<stack, event, task, sched, log>>
    BY DEF QueueCreate, QueueAcquire
  <1>3. Outside(e) /\ RunsSame
    BY <1>1, <1>2, ReturnsAtOnce
  <1>4. PICK q \in Queues : q = Call(e).q /\ \A k \in Items : log[k].q # q
    BY <1>1, FreshQueue
  <1>5. queue \in [Queues -> QueueSet]
    BY DEF TypeOK
  <1>6. PICK a, b : b = (q = SyncQueue) /\ a = [NewQueue EXCEPT !.acquired = TRUE, !.sync = b]
    OBVIOUS
  <1>7. NewQueue.events = 0 /\ NewQueue.last = None /\ a.events = 0 /\ a.last = None /\ a.acquired
    BY <1>6 DEF NewQueue, NoQueue
  <1>8. \/ queue' = queue /\ (QueueAcquire(e) => queue[q].acquired)
        \/ queue' = [queue EXCEPT ![q] = NewQueue] /\ ~QueueAcquire(e)
        \/ queue' = [queue EXCEPT ![q] = a]
    <2>1. CASE QueueCreate(e)
      <3>1. ~QueueAcquire(e)
        BY <2>1 DEF QueueCreate, QueueAcquire, AtCall
      <3> QED
        BY <2>1, <3>1, <1>4 DEF QueueCreate
    <2>2. CASE QueueAcquire(e)
      BY <2>2, <1>4, <1>6 DEF QueueAcquire
    <2> QED
      BY <2>1, <2>2
  <1>9. \A x \in Events : event[x].q = q => ~Submitted(x)
    BY <1>4 DEF Numbered
  <1>10. /\ \A z \in Queues : z # q => queue'[z] = queue[z]
         /\ QueueAcquire(e) => queue'[q].acquired
         /\ \/ queue'[q] = queue[q]
            \/ queue'[q].events = 0 /\ queue'[q].last = None
    BY <1>5, <1>7, <1>8
  <1>11. \A z \in Queues : QueueQuiet(z)
    BY <1>9, <1>10 DEF QueueQuiet
  <1>12. Grows /\ \A k \in Items : ItemSame(k)
    BY <1>2 DEF Grows, ItemSame, SameCall, Items
  <1>13. \A x \in Executors : BaseQuiet(x)
    BY <1>2 DEF BaseQuiet
  <1>14. \A x \in Events : EventSame(x)
    BY <1>2 DEF EventSame, SameItem, TaskSame
  <1> QED
    BY <1>2, <1>3, <1>4, <1>10, <1>11, <1>12, <1>13, <1>14, QuietPlaces DEF sched

\* A synchronous queue adds an item that has run.
LEMMA QueueSubmitSyncPlaces ==
    ASSUME Inv, PlacesInv, Inv', NEW e \in Executors, QueueSubmitSync(e)
    PROVE  /\ PlacesInv' /\ Outside(e) /\ Return(e) /\ UNCHANGED <<stack, queue, event>>
           /\ Call(e).op = "submit"
           /\ \E it \in ItemSet : /\ Adds(Len(log) + 1, it) /\ Grows /\ it.by = e /\ it.at = ip[e]
                                  /\ it.q = Call(e).q /\ it.ended = 1
  <1> TypeOK
    BY DEF Inv
  <1>1. AtCall(e, "submit") /\ Return(e) /\ UNCHANGED <<stack, queue, event, task, sched>>
    BY DEF QueueSubmitSync
  <1>2. Outside(e) /\ RunsSame
    BY <1>1, ReturnsAtOnce
  <1>3. PICK q, ev, a : q = Call(e).q /\ ev = Call(e).ev /\ a = ip[e] /\ q \in Queues /\ ev \in Events /\ a \in Nat
    <2>1. ip[e] \in DOMAIN Calls(e) /\ Call(e) = Calls(e)[ip[e]] /\ Call(e).op = "submit"
      BY <1>1, AtCallFacts
    <2>2. Call(e).q \in Queues /\ Call(e).ev \in Events /\ ip[e] \in Nat
      BY <2>1, CallTypes DEF Submits
    <2> QED
      BY <2>2
  <1>4. PICK it : it = [Item(e, q, ev) EXCEPT !.begun = 1, !.ended = 1]
    OBVIOUS
  <1>5. log' = Append(log, it) /\ it = [q |-> q, ev |-> ev, by |-> e, at |-> a, begun |-> 1, ended |-> 1]
    <2>1. log' = Append(log, it)
      BY <1>3, <1>4 DEF QueueSubmitSync
    <2>2. it = [q |-> q, ev |-> ev, by |-> e, at |-> a, begun |-> 1, ended |-> 1]
      BY <1>3, <1>4 DEF Item
    <2> QED
      BY <2>1, <2>2
  <1>6. 1 \in Int
    OBVIOUS
  <1>7. it \in ItemSet /\ it.q = q /\ it.by = e /\ it.at = a /\ it.ended = 1
    BY <1>3, <1>5, <1>6, ItemType
  <1>8. Adds(Len(log) + 1, it) /\ Grows /\ \A k \in Items : ItemSame(k)
    BY <1>5, <1>7, LogAdds
  <1>9. \A x \in Executors : BaseQuiet(x)
    BY <1>1 DEF BaseQuiet
  <1>10. \A x \in Events : EventSame(x)
    BY <1>1 DEF EventSame, SameItem, TaskSame
  <1>11. \A z \in Queues : QueueQuiet(z)
    BY <1>1 DEF QueueQuiet
  <1>12. PlacesInv'
    BY <1>1, <1>2, <1>8, <1>9, <1>10, <1>11, QuietPlaces DEF sched
  <1>13. Call(e).op = "submit"
    BY <1>1 DEF AtCall
  <1> QED
    BY <1>1, <1>2, <1>3, <1>7, <1>8, <1>12, <1>13

-----------------------------------------------------------------------------
(* The steps of an enqueue *)

\* kupl_enqueue_event puts the event in its queue, and counts it.
LEMMA EnqueueEventPlaces ==
    ASSUME Inv, PlacesInv, Inv', NEW e \in Executors, EnqueueEvent(e)
    PROVE  PlacesInv'
  <1> /\ Status /\ LastHeld /\ EnqueueHeld /\ CountEdge /\ Predecessors
      /\ Placed /\ InRun /\ QueueCounts /\ GraphCounts
    BY DEF PlacesInv
  <1> TypeOK /\ Numbered /\ LastNewest /\ ChainOrder
    BY DEF Inv, CallsInv, ChainInv
  <1>1. PICK q, ev, n, it, f : EnqueueLocks(e, q, ev, n, it, f)
    BY EnqueueEventLocks
  <1>2. Top(e).pc = "enqueue" /\ Top(e).pc \in EnqueuePcs /\ Top(e).ev = ev /\ Top(e).q = q
    BY <1>1 DEF EnqueueLocks, EnqueuePcs
  <1>3. /\ stack[e][1] = Top(e) /\ ev \in Events /\ q \in Queues /\ ~Submitted(ev)
        /\ \A y \in Executors : y # e /\ stack[y][1].pc \in EnqueuePcs => stack[y][1].ev # ev
    BY <1>2, EnqueueFacts
  <1> ev \in Events /\ q \in Queues
    BY <1>3
  <1>4. /\ f.pc = "preds" /\ f.n = 0 /\ f.ev = ev /\ f.q = q /\ f.todo = IfAny(queue[q].last)
        /\ stack'[e][1] = f /\ \A y \in Executors : y # e => stack'[y] = stack[y]
        /\ UserMoves(e, f)
    BY <1>1 DEF EnqueueLocks, UserMoves
  <1>5. /\ Adds(n, it) /\ Grows /\ \A k \in Items : ItemSame(k)
        /\ log'[n].ended = 0 /\ log'[n].begun = 0 /\ n # 0
        /\ event'[ev].item = n /\ event'[ev].q = q /\ event'[ev].status = "SUBMITTED"
        /\ \A x \in Events : x # ev => event'[x] = event[x]
        /\ queue'[q].last = queue[q].last /\ queue'[q].events = queue[q].events + 1
        /\ \A z \in Queues : z # q => queue'[z] = queue[z]
        /\ task' = task /\ ready' = ready /\ count' = count
    BY <1>1 DEF EnqueueLocks, Adds, sched
  <1>6. RunsSame
    BY <1>4, UserRunsSame
  <1>7. ItemsKept
    BY <1>3, <1>5 DEF ItemsKept, SameItem
  <1>8. \A x \in Events :
           /\ Running(x)' <=> Running(x)
           /\ \A p \in Events : ToRelease(p, x)' <=> ToRelease(p, x)
           /\ Submitted(x) => /\ Submitted(x)' /\ (Held(x)' <=> Held(x)) /\ (NotBegun(x)' <=> NotBegun(x))
                              /\ log'[event'[x].item].ended = log[event[x].item].ended
                              /\ log'[event'[x].item].begun = log[event[x].item].begun
    BY <1>5, <1>6, <1>7, SamePlaces
  <1>9. \A x \in Events : x # ev => /\ Submitted(x)' <=> Submitted(x)
                                    /\ Held(x)' <=> Held(x)
                                    /\ NotBegun(x)' <=> NotBegun(x)
    BY <1>5, <1>8 DEF Submitted, Held, NotBegun
  <1>10. Submitted(ev)' /\ Held(ev)' /\ ~Held(ev) /\ NotBegun(ev)'
    BY <1>3, <1>5 DEF Submitted, Held, NotBegun
  <1>11. \A p, x \in Events : /\ OnNode(p, x)' <=> OnNode(p, x)
                              /\ Chained(p, x)' <=> Chained(p, x)
    BY <1>5, <1>6, FramesSame DEF OnNode, Chained
  <1>12. \A y \in Executors, x \in Events : y # e => (Enqueuing(y, x)' <=> Enqueuing(y, x))
    BY <1>4 DEF Enqueuing
  <1>13. Status'
    <2> SUFFICES ASSUME NEW x \in Events
                 PROVE  /\ Submitted(x)' <=> event'[x].status # "CREATED"
                        /\ event'[x].status = "COMPLETE" => log'[event'[x].item].ended = 1
      BY DEF Status
    <2>1. CASE x = ev
      BY <2>1, <1>5, <1>10
    <2>2. CASE x # ev
      BY <2>2, <1>5, <1>8, <1>9 DEF Status
    <2> QED
      BY <2>1, <2>2
  <1>14. LastHeld'
    BY <1>3, <1>5, <1>9, <1>10 DEF LastHeld
  <1>15. EnqueueHeld'
    <2> SUFFICES ASSUME NEW y \in Executors, NEW x \in Events, stack'[y][1].pc \in LockPcs
                 PROVE  /\ stack'[y][1].ev = x => Held(x)'
                        /\ stack'[y][1].pc # "unlock" /\ stack'[y][1].todo = <<x>> =>
                              Held(x)' /\ event'[x].q = stack'[y][1].q
      BY DEF EnqueueHeld
    <2>0. Held(x) => Held(x)' /\ event'[x].q = event[x].q
      BY <1>3, <1>5, <1>8 DEF Held
    <2>1. CASE y = e
      <3>1. f.todo = <<x>> => queue[q].last = x
        BY <1>4 DEF IfAny
      <3>2. queue[q].last = x => Held(x) /\ event[x].q = q
        BY NamesAssumption DEF LastHeld, LastNewest
      <3> QED
        BY <2>0, <2>1, <3>1, <3>2, <1>4, <1>10
    <2>2. CASE y # e
      BY <2>0, <2>2, <1>4 DEF EnqueueHeld
    <2> QED
      BY <2>1, <2>2
  <1>16. CountEdge'
    <2> SUFFICES ASSUME NEW y \in Executors, NEW x \in Events, stack'[y][1].pc = "count", stack'[y][1].ev = x
                 PROVE  \E p \in Events : stack'[y][1].todo = <<p>> /\ OnNode(p, x)'
      BY DEF CountEdge
    <2>1. y # e /\ stack'[y] = stack[y]
      BY <1>4
    <2> QED
      BY <2>1, <1>11 DEF CountEdge
  <1>17. Predecessors'
    <2>1. ASSUME NEW x \in Events, Uncounted(x)' PROVE task'[x].nPred = 0
      <3>1. Uncounted(x)
        <4>1. PICK y \in Executors : \/ stack'[y][1].pc \in {"enqueue", "count"} /\ stack'[y][1].ev = x
                                     \/ Enqueuing(y, x)'
          BY <2>1 DEF Uncounted
        <4>2. CASE y = e
          <5>1. x = ev
            BY <4>1, <4>2, <1>4 DEF Enqueuing
          <5> QED
            BY <5>1, <1>2, <1>3 DEF Uncounted
        <4>3. CASE y # e
          BY <4>1, <4>3, <1>4, <1>12 DEF Uncounted
        <4> QED
          BY <4>2, <4>3
      <3> QED
        BY <3>1, <1>5 DEF Predecessors
    <2>2. ASSUME NEW p \in Events, NEW x \in Events, OnNode(p, x)' \/ ToRelease(p, x)', ~Counting(x)'
          PROVE  task'[x].nPred = 1
      <3>1. ~Counting(x)
        <4>1. \A y \in Executors : stack[y][1].pc = "count" => stack'[y] = stack[y]
          BY <1>2, <1>3, <1>4
        <4> QED
          BY <4>1, <2>2 DEF Counting
      <3> QED
        BY <2>2, <3>1, <1>5, <1>8, <1>11 DEF Predecessors
    <2> QED
      BY <2>1, <2>2 DEF Predecessors
  <1>18. Placed'
    <2> SUFFICES ASSUME NEW x \in Events, NotBegun(x)'
                 PROVE  \/ ready'[x] # 0
                        \/ \E y \in Executors : Enqueuing(y, x)'
                        \/ \E p \in Events : Chained(p, x)'
      BY DEF Placed
    <2>1. CASE x = ev
      <3>1. Enqueuing(e, ev)'
        BY <1>4 DEF Enqueuing
      <3> QED
        BY <2>1, <3>1
    <2>2. CASE x # ev
      <3>1. NotBegun(x)
        BY <2>2, <1>9
      <3>2. ~Enqueuing(e, x)
        BY <1>2, <1>3 DEF Enqueuing
      <3> QED
        BY <3>1, <3>2, <1>5, <1>11, <1>12 DEF Placed
    <2> QED
      BY <2>1, <2>2
  <1>19. InRun'
    <2> SUFFICES ASSUME NEW x \in Events, Submitted(x)', log'[event'[x].item].begun = 1, ~task'[x].finished
                 PROVE  Running(x)'
      BY DEF InRun
    <2>1. x # ev
      BY <1>5
    <2> QED
      BY <2>1, <1>5, <1>8, <1>9 DEF InRun
  <1>20. QueueCounts'
    <2> SUFFICES ASSUME NEW z \in Queues
                 PROVE  IsFiniteSet(InQueue(z)') /\ queue'[z].events = Cardinality(InQueue(z)')
      BY DEF QueueCounts
    <2>1. IsFiniteSet(InQueue(z)) /\ queue[z].events = Cardinality(InQueue(z))
      BY DEF QueueCounts
    <2>2. CASE z = q
      <3>1. InQueue(z)' = InQueue(z) \cup {ev} /\ ev \notin InQueue(z)
        BY <2>2, <1>5, <1>9, <1>10 DEF InQueue
      <3>2. PICK S : S = InQueue(z)
        OBVIOUS
      <3>3. IsFiniteSet(S \cup {ev}) /\ Cardinality(S \cup {ev}) = Cardinality(S) + 1
        BY <2>1, <3>1, <3>2, FS_AddElement
      <3> QED
        BY <2>1, <2>2, <3>1, <3>2, <3>3, <1>5
    <2>3. CASE z # q
      <3>1. InQueue(z)' = InQueue(z)
        BY <2>3, <1>5, <1>9, <1>10 DEF InQueue
      <3> QED
        BY <2>1, <2>3, <3>1, <1>5
    <2> QED
      BY <2>2, <2>3
  <1>21. GraphCounts'
    BY <1>5, <1>8, GraphCountsSame
  <1> QED
    BY <1>13, <1>14, <1>15, <1>16, <1>17, <1>18, <1>19, <1>20, <1>21 DEF PlacesInv

\* An enqueue under the lock goes on in frame f: the edges stay as they are, its
\* own counter may change.
LEMMA EnqueuePlaces ==
    ASSUME Inv, PlacesInv, Inv', NEW e \in Executors, NEW ev \in Events, NEW f, UserMoves(e, f),
           stack[e][1].pc \in LockPcs, stack[e][1].ev = ev,
           f.pc \in LockPcs \ {"count"}, f.ev = ev, f.q = stack[e][1].q,
           f.todo = stack[e][1].todo \/ f.todo = <<>>, f.pc # "unlock" => stack[e][1].pc # "unlock",
           UNCHANGED <<queue, event, sched, log>>, \A x \in Events : TaskSame(x),
           \A x \in Events : x # ev => task'[x].nPred = task[x].nPred,
           f.pc \in {"preds", "insert"} /\ f.n = 0 <=> Enqueuing(e, ev),
           task'[ev].nPred = IF stack[e][1].pc = "count" THEN task[ev].nPred + 1 ELSE task[ev].nPred
    PROVE  PlacesInv'
  <1> /\ Status /\ LastHeld /\ EnqueueHeld /\ CountEdge /\ Predecessors
      /\ Placed /\ InRun /\ QueueCounts /\ GraphCounts
    BY DEF PlacesInv
  <1>1. /\ stack'[e][1] = f /\ \A y \in Executors : y # e => stack'[y] = stack[y]
    BY DEF UserMoves
  <1>2. \A y \in Executors : y # e /\ stack[y][1].pc \in EnqueuePcs => stack[y][1].ev # ev
    <2>1. Top(e).pc \in EnqueuePcs /\ Top(e).ev = ev
      BY DEF UserMoves, EnqueuePcs
    <2> QED
      BY <2>1, EnqueueFacts
  <1>3. RunsSame
    BY UserRunsSame
  <1>4. Grows /\ ItemsKept /\ \A k \in Items : ItemSame(k)
    BY DEF Grows, SameCall, ItemSame, Items, ItemsKept, SameItem
  <1>5. \A x \in Events :
           /\ Running(x)' <=> Running(x)
           /\ AtDequeue(x)' <=> AtDequeue(x)
           /\ \A p \in Events : ToRelease(p, x)' <=> ToRelease(p, x)
    BY <1>3, <1>4, SamePlaces
  <1>6. \A x \in Events : /\ Submitted(x)' <=> Submitted(x)
                          /\ Held(x)' <=> Held(x)
                          /\ NotBegun(x)' <=> NotBegun(x)
                          /\ event'[x] = event[x] /\ log'[event'[x].item] = log[event[x].item]
    BY <1>5 DEF Submitted, Held, NotBegun
  <1>7. \A p, x \in Events : /\ OnNode(p, x)' <=> OnNode(p, x)
                             /\ Chained(p, x)' <=> Chained(p, x)
    BY <1>3, FramesSame DEF OnNode, Chained, TaskSame
  <1>8. \A y \in Executors, x \in Events : Enqueuing(y, x)' <=> Enqueuing(y, x)
    <2> TAKE y \in Executors, x \in Events
    <2>1. CASE y = e
      BY <2>1, <1>1 DEF Enqueuing
    <2>2. CASE y # e
      BY <2>2, <1>1 DEF Enqueuing
    <2> QED
      BY <2>1, <2>2
  <1>9. Status'
    BY <1>6 DEF Status
  <1>10. LastHeld'
    BY <1>6 DEF LastHeld
  <1>11. EnqueueHeld'
    <2> SUFFICES ASSUME NEW y \in Executors, NEW x \in Events, stack'[y][1].pc \in LockPcs
                 PROVE  /\ stack'[y][1].ev = x => Held(x)'
                        /\ stack'[y][1].pc # "unlock" /\ stack'[y][1].todo = <<x>> =>
                              Held(x)' /\ event'[x].q = stack'[y][1].q
      BY DEF EnqueueHeld
    <2>1. CASE y = e
      <3>1. f.todo = <<x>> => stack[e][1].todo = <<x>>
        OBVIOUS
      <3> QED
        BY <2>1, <3>1, <1>1, <1>6 DEF EnqueueHeld
    <2>2. CASE y # e
      BY <2>2, <1>1, <1>6 DEF EnqueueHeld
    <2> QED
      BY <2>1, <2>2
  <1>12. CountEdge'
    <2> SUFFICES ASSUME NEW y \in Executors, NEW x \in Events, stack'[y][1].pc = "count", stack'[y][1].ev = x
                 PROVE  \E p \in Events : stack'[y][1].todo = <<p>> /\ OnNode(p, x)'
      BY DEF CountEdge
    <2>1. y # e /\ stack'[y] = stack[y]
      BY <1>1
    <2> QED
      BY <2>1, <1>7 DEF CountEdge
  <1>13. Predecessors'
    <2>1. ASSUME NEW x \in Events, Uncounted(x)' PROVE task'[x].nPred = 0
      <3>1. PICK y \in Executors : \/ stack'[y][1].pc \in {"enqueue", "count"} /\ stack'[y][1].ev = x
                                   \/ Enqueuing(y, x)'
        BY <2>1 DEF Uncounted
      <3>2. CASE y = e
        <4>1. Enqueuing(e, x) /\ x = ev
          BY <3>1, <3>2, <1>1, <1>8 DEF LockPcs, Enqueuing
        <4>2. Uncounted(x)
          BY <4>1 DEF Uncounted
        <4>3. stack[e][1].pc # "count"
          BY <4>1 DEF Enqueuing
        <4> QED
          BY <4>1, <4>2, <4>3 DEF Predecessors
      <3>3. CASE y # e
        <4>1. stack[y][1].pc \in EnqueuePcs /\ stack[y][1].ev = x
          BY <3>1, <3>3, <1>1 DEF Enqueuing, EnqueuePcs, LockPcs
        <4>2. Uncounted(x)
          BY <3>1, <3>3, <1>1, <1>8 DEF Uncounted
        <4>3. x # ev
          BY <3>3, <4>1, <1>2
        <4> QED
          BY <4>2, <4>3 DEF Predecessors
      <3> QED
        BY <3>2, <3>3
    <2>2. ASSUME NEW p \in Events, NEW x \in Events, OnNode(p, x)' \/ ToRelease(p, x)', ~Counting(x)'
          PROVE  task'[x].nPred = 1
      <3>1. OnNode(p, x) \/ ToRelease(p, x)
        BY <2>2, <1>5, <1>7
      <3>2. CASE x = ev /\ stack[e][1].pc = "count"
        <4>1. Uncounted(ev)
          BY <3>2 DEF Uncounted
        <4> QED
          BY <3>2, <4>1 DEF Predecessors
      <3>3. CASE ~(x = ev /\ stack[e][1].pc = "count")
        <4>1. ~Counting(x)
          <5>1. \A y \in Executors : y # e => stack'[y] = stack[y]
            BY <1>1
          <5> QED
            BY <5>1, <2>2, <3>3 DEF Counting
        <4> QED
          BY <3>1, <3>3, <4>1 DEF Predecessors
      <3> QED
        BY <3>2, <3>3
    <2> QED
      BY <2>1, <2>2 DEF Predecessors
  <1>14. Placed'
    BY <1>6, <1>7, <1>8 DEF Placed, sched
  <1>15. InRun'
    BY <1>5, <1>6 DEF InRun, TaskSame
  <1>16. QueueCounts'
    <2>1. \A z \in Queues : InQueue(z)' = InQueue(z)
      BY <1>6 DEF InQueue
    <2> QED
      BY <2>1 DEF QueueCounts
  <1>17. GraphCounts'
    BY <1>5, GraphCountsSame DEF sched
  <1> QED
    BY <1>9, <1>10, <1>11, <1>12, <1>13, <1>14, <1>15, <1>16, <1>17 DEF PlacesInv

\* kupl_gnode_precede looks at the predecessor and takes its lock.
LEMMA GnodePrecedeLockPlaces ==
    ASSUME Inv, PlacesInv, Inv', NEW e \in Executors, GnodePrecedeLock(e)
    PROVE  PlacesInv'
  <1> TypeOK /\ UserShape /\ RunShape
    BY DEF Inv, CallsInv, ChainInv
  <1>1. Top(e).pc = "preds" /\ Top(e).pc \in LockPcs /\ Top(e).pc \in EnqueuePcs /\ Top(e).todo # <<>>
    BY DEF GnodePrecedeLock, At, LockPcs, EnqueuePcs
  <1>2. stack[e][1] = Top(e) /\ Top(e) \in FrameSet /\ UserFrame(Top(e)) /\ Top(e).pc \in UserPcs /\ Top(e).ev \in Events
    BY <1>1, EnqueueFacts
  <1>3. PICK p \in Events : Top(e).todo = <<p>>
    BY <1>1, <1>2 DEF UserFrame, Lone
  <1>4. Top(e).n = 0 /\ Head(Top(e).todo) = p /\ Tail(Top(e).todo) = <<>>
    BY <1>1, <1>2, <1>3 DEF UserFrame
  <1>5. PICK ev \in Events : ev = Top(e).ev
    BY <1>2
  <1>6. UNCHANGED <<users, queue, event, sched, log>>
    BY DEF GnodePrecedeLock
  <1>7. PICK f \in FrameSet : /\ SetTop(e, f) /\ f.pc \in {"preds", "insert"} /\ f.n = 0 /\ f.ev = ev /\ f.q = Top(e).q
                              /\ f.todo = Top(e).todo \/ f.todo = <<>>
    <2>2. "preds" \in UserPcs /\ "insert" \in UserPcs /\ <<>> \in Seq(Events) /\ Top(e).todo \in Seq(Events)
      BY <1>2 DEF UserPcs, EnqueuePcs, LockPcs, FrameSet
    <2>3. CASE SetTop(e, [Top(e) EXCEPT !.todo = Tail(Top(e).todo)])
      <3>1. PICK f : f = [Top(e) EXCEPT !.pc = "preds", !.todo = <<>>]
        OBVIOUS
      <3>2. f = [Top(e) EXCEPT !.todo = Tail(Top(e).todo)]
        BY <3>1, <1>1, <1>2, <1>4 DEF FrameSet
      <3>3. f \in FrameSet /\ f.pc = "preds" /\ f.todo = <<>> /\ f.n = 0 /\ f.ev = ev /\ f.q = Top(e).q
        <4>1. ASSUME NEW pc \in UserPcs, NEW z \in Seq(Events), f = [Top(e) EXCEPT !.pc = pc, !.todo = z]
              PROVE  f \in FrameSet /\ f.pc = pc /\ f.todo = z /\ f.n = 0 /\ f.ev = ev /\ f.q = Top(e).q
          BY <4>1, <1>2, <1>4, <1>5 DEF FrameSet
        <4> QED
          BY <4>1, <2>2, <3>1
      <3>4. SetTop(e, f)
        BY <2>3, <3>2
      <3> QED
        BY <3>3, <3>4
    <2>4. CASE SetTop(e, [Top(e) EXCEPT !.pc = "insert"])
      <3>1. PICK f : f = [Top(e) EXCEPT !.pc = "insert", !.todo = Top(e).todo]
        OBVIOUS
      <3>2. f = [Top(e) EXCEPT !.pc = "insert"]
        BY <3>1, <1>2 DEF FrameSet
      <3>3. f \in FrameSet /\ f.pc = "insert" /\ f.todo = Top(e).todo /\ f.n = 0 /\ f.ev = ev /\ f.q = Top(e).q
        <4>1. ASSUME NEW pc \in UserPcs, NEW z \in Seq(Events), f = [Top(e) EXCEPT !.pc = pc, !.todo = z]
              PROVE  f \in FrameSet /\ f.pc = pc /\ f.todo = z /\ f.n = 0 /\ f.ev = ev /\ f.q = Top(e).q
          BY <4>1, <1>2, <1>4, <1>5 DEF FrameSet
        <4> QED
          BY <4>1, <2>2, <3>1
      <3>4. SetTop(e, f)
        BY <2>4, <3>2
      <3> QED
        BY <3>3, <3>4
    <2> QED
      BY <2>3, <2>4 DEF GnodePrecedeLock
  <1>8. UserMoves(e, f)
    BY <1>2, <1>7, SetTopMoves
  <1>9. task' = task \/ task' = [task EXCEPT ![p].locked = TRUE]
    BY <1>4 DEF GnodePrecedeLock
  <1>10. \A x \in Events : TaskSame(x) /\ task'[x].nPred = task[x].nPred
    <2> task \in [Events -> TaskSet]
      BY DEF TypeOK
    <2>1. CASE task' = task
      BY <2>1 DEF TaskSame
    <2>2. CASE task' = [task EXCEPT ![p].locked = TRUE]
      BY <2>2 DEF TaskSame, TaskSet
    <2> QED
      BY <1>9, <2>1, <2>2
  <1>11. Enqueuing(e, ev)
    BY <1>1, <1>2, <1>4, <1>5 DEF Enqueuing
  <1>12. f.pc \in LockPcs \ {"count"} /\ f.pc # "unlock" /\ stack[e][1].pc # "unlock" /\ stack[e][1].pc # "count"
    BY <1>1, <1>2, <1>7 DEF LockPcs
  <1> QED
    BY <1>1, <1>2, <1>5, <1>6, <1>7, <1>8, <1>10, <1>11, <1>12, EnqueuePlaces

\* The edge is counted: from here on its release finds the counter at one.
LEMMA GnodePrecedeCountPlaces ==
    ASSUME Inv, PlacesInv, Inv', NEW e \in Executors, GnodePrecedeCount(e)
    PROVE  PlacesInv'
  <1> TypeOK /\ UserShape /\ RunShape
    BY DEF Inv, CallsInv, ChainInv
  <1>1. Top(e).pc = "count" /\ Top(e).pc \in LockPcs /\ Top(e).pc \in EnqueuePcs
    BY DEF GnodePrecedeCount, At, LockPcs, EnqueuePcs
  <1>2. stack[e][1] = Top(e) /\ Top(e) \in FrameSet /\ UserFrame(Top(e)) /\ Top(e).pc \in UserPcs /\ Top(e).ev \in Events
    BY <1>1, EnqueueFacts
  <1>3. PICK p \in Events : Top(e).todo = <<p>>
    BY <1>1, <1>2 DEF UserFrame, Lone
  <1>4. PICK ev \in Events : ev = Top(e).ev
    BY <1>2
  <1>5. PICK n : n = Top(e).n + 1
    OBVIOUS
  <1>6. n \in Nat /\ n # 0 /\ Tail(Top(e).todo) = <<>>
    BY <1>2, <1>3, <1>5 DEF FrameSet
  <1>7. UNCHANGED <<users, queue, event, sched, log>> /\ task' = [task EXCEPT ![ev].nPred = @ + 1]
    BY <1>4 DEF GnodePrecedeCount
  <1>8. PICK f : f = [Top(e) EXCEPT !.pc = "preds", !.todo = <<>>, !.n = n]
    OBVIOUS
  <1>9. /\ f \in FrameSet /\ f.pc = "preds" /\ f.n = n /\ f.ev = Top(e).ev /\ f.q = Top(e).q /\ f.todo = <<>>
    <2>1. ASSUME NEW pc \in UserPcs, NEW z \in Seq(Events), f = [Top(e) EXCEPT !.pc = pc, !.todo = z, !.n = n]
          PROVE  /\ f \in FrameSet /\ f.pc = pc /\ f.n = n /\ f.ev = Top(e).ev
                 /\ f.q = Top(e).q /\ f.todo = z
      BY <2>1, <1>2, <1>6 DEF FrameSet
    <2>2. <<>> \in Seq(Events) /\ "preds" \in UserPcs
      BY DEF UserPcs, EnqueuePcs, LockPcs
    <2> QED
      BY <2>1, <2>2, <1>8
  <1>10. SetTop(e, f)
    <2>1. SetTop(e, [Top(e) EXCEPT !.pc = "preds", !.todo = Tail(Top(e).todo), !.n = Top(e).n + 1])
      BY DEF GnodePrecedeCount
    <2> QED
      BY <2>1, <1>5, <1>6, <1>8
  <1>11. UserMoves(e, f)
    BY <1>2, <1>9, <1>10, SetTopMoves
  <1>12. /\ \A x \in Events : TaskSame(x) /\ (x # ev => task'[x].nPred = task[x].nPred)
         /\ task'[ev].nPred = task[ev].nPred + 1
    <2> task \in [Events -> TaskSet]
      BY DEF TypeOK
    <2> QED
      BY <1>7 DEF TaskSame, TaskSet
  <1>13. ~Enqueuing(e, ev)
    BY <1>1, <1>2 DEF Enqueuing
  <1>14. f.pc \in LockPcs \ {"count"} /\ stack[e][1].pc = "count"
    BY <1>1, <1>2, <1>9 DEF LockPcs
  <1> QED
    BY <1>1, <1>2, <1>4, <1>6, <1>7, <1>9, <1>11, <1>12, <1>13, <1>14, EnqueuePlaces

\* The edge is inserted: the item is behind its predecessor, which cannot end
\* before it has given up the queue's lock.
LEMMA GnodePrecedeInsertPlaces ==
    ASSUME Inv, PlacesInv, Inv', NEW e \in Executors, GnodePrecedeInsert(e)
    PROVE  PlacesInv'
  <1> /\ Status /\ LastHeld /\ EnqueueHeld /\ CountEdge /\ Predecessors
      /\ Placed /\ InRun /\ QueueCounts /\ GraphCounts
    BY DEF PlacesInv
  <1> TypeOK /\ UserShape /\ RunShape /\ OneSuccessor /\ EnqueueOrder /\ ChainOrder
    BY DEF Inv, CallsInv, ChainInv
  <1>1. Top(e).pc = "insert" /\ Top(e).pc \in LockPcs /\ Top(e).pc \in EnqueuePcs
    BY DEF GnodePrecedeInsert, At, LockPcs, EnqueuePcs
  <1>2. /\ stack[e][1] = Top(e) /\ Top(e) \in FrameSet /\ UserFrame(Top(e)) /\ Top(e).pc \in UserPcs
        /\ \A y \in Executors : y # e /\ stack[y][1].pc \in EnqueuePcs => stack[y][1].ev # Top(e).ev
    BY <1>1, EnqueueFacts
  <1>3. PICK x \in Events : x = Top(e).ev
    BY <1>1, EnqueueFacts
  <1>4. PICK p \in Events : Top(e).todo = <<p>>
    BY <1>1, <1>2 DEF UserFrame, Lone
  <1>5. Top(e).n = 0 /\ Head(Top(e).todo) = p
    BY <1>1, <1>2, <1>4 DEF UserFrame
  <1>6. Enqueuing(e, x)
    BY <1>1, <1>2, <1>3, <1>5 DEF Enqueuing
  <1>7. NotBegun(x) /\ Follows(x, p) /\ \A y \in Events : ~Chained(y, x)
    BY <1>2, <1>4, <1>6 DEF EnqueueOrder
  <1>8. UNCHANGED <<users, queue, event, sched, log>>
    BY DEF GnodePrecedeInsert
  <1>9. PICK f : f = [Top(e) EXCEPT !.pc = "count"]
    OBVIOUS
  <1>10. f \in FrameSet /\ f.pc = "count" /\ f.ev = x /\ f.q = Top(e).q /\ f.todo = <<p>>
    BY <1>2, <1>3, <1>4, <1>9 DEF FrameSet, UserPcs, EnqueuePcs, LockPcs
  <1>11. SetTop(e, f)
    BY <1>9 DEF GnodePrecedeInsert
  <1>12. UserMoves(e, f) /\ stack'[e][1] = f /\ \A y \in Executors : y # e => stack'[y] = stack[y]
    BY <1>2, <1>10, <1>11, SetTopMoves DEF UserMoves
  <1>13. RunsSame
    BY <1>12, UserRunsSame
  <1>14. Held(p) /\ event[p].q = Top(e).q /\ Held(x)
    BY <1>1, <1>2, <1>3, <1>4 DEF EnqueueHeld
  <1>15. ~task[p].finished
    BY <1>14, HeldUnfinished
  <1>16. task[p].succ = <<>>
    <2>1. Lone(task[p].succ)
      BY <1>15 DEF OneSuccessor
    <2>2. ASSUME NEW y \in Events, task[p].succ = <<y>> PROVE FALSE
      <3>1. Chained(p, y)
        BY <1>15, <2>2 DEF Chained, OnNode
      <3>2. y = x
        BY <3>1, <1>7, FollowsOnce DEF ChainOrder
      <3> QED
        BY <3>1, <3>2, <1>7
    <2> QED
      BY <2>1, <2>2 DEF Lone
  <1>17. PICK r : r = [task[p] EXCEPT !.succ = <<x>>, !.locked = FALSE]
    OBVIOUS
  <1>18. task \in [Events -> TaskSet] /\ task[p] \in TaskSet
    BY DEF TypeOK
  <1>19. r.succ = <<x>> /\ r.finished = task[p].finished /\ r.nPred = task[p].nPred
    BY <1>15, <1>17, <1>18 DEF TaskSet
  <1>20. task' = [task EXCEPT ![p] = r]
    <2>1. task' = [task EXCEPT ![p] = [task[p] EXCEPT !.succ = <<x>> \o task[p].succ, !.locked = FALSE]]
      BY <1>3, <1>5, <1>18 DEF GnodePrecedeInsert
    <2>2. <<x>> \o <<>> = <<x>>
      OBVIOUS
    <2> QED
      BY <2>1, <2>2, <1>16, <1>17
  <1>21. /\ task'[p].succ = <<x>>
         /\ \A y \in Events : /\ task'[y].finished = task[y].finished /\ task'[y].nPred = task[y].nPred
                              /\ y # p => task'[y].succ = task[y].succ
    BY <1>15, <1>18, <1>19, <1>20
  <1>22. Grows /\ ItemsKept /\ \A k \in Items : ItemSame(k)
    BY <1>8 DEF Grows, SameCall, ItemSame, Items, ItemsKept, SameItem
  <1>23. \A y \in Events :
           /\ Running(y)' <=> Running(y)
           /\ AtDequeue(y)' <=> AtDequeue(y)
           /\ \A z \in Events : ToRelease(z, y)' <=> ToRelease(z, y)
    BY <1>13, <1>22, SamePlaces
  <1>24. \A y \in Events : /\ Submitted(y)' <=> Submitted(y)
                           /\ Held(y)' <=> Held(y)
                           /\ NotBegun(y)' <=> NotBegun(y)
                           /\ event'[y] = event[y] /\ log'[event'[y].item] = log[event[y].item]
    BY <1>8, <1>23 DEF Submitted, Held, NotBegun
  <1>25. /\ \A y \in Events : AtFinish(y)' <=> AtFinish(y)
         /\ \A z, y \in Events : Fetched(z, y)' <=> Fetched(z, y)
    BY <1>13, FramesSame
  <1>26. \A y \in Events : ~OnNode(p, y) /\ (OnNode(p, y)' <=> y = x)
    BY <1>15, <1>16, <1>21 DEF OnNode
  <1>27. \A z, y \in Events : z # p => (OnNode(z, y)' <=> OnNode(z, y))
    BY <1>21, <1>25 DEF OnNode
  <1>28. \A z, y \in Events : OnNode(z, y) => OnNode(z, y)'
    BY <1>26, <1>27
  <1>29. \A y \in Executors, z \in Events : y # e => (Enqueuing(y, z)' <=> Enqueuing(y, z))
    BY <1>12 DEF Enqueuing
  <1>30. Status'
    BY <1>24 DEF Status
  <1>31. LastHeld'
    BY <1>8, <1>24 DEF LastHeld
  <1>32. EnqueueHeld'
    <2> SUFFICES ASSUME NEW y \in Executors, NEW z \in Events, stack'[y][1].pc \in LockPcs
                 PROVE  /\ stack'[y][1].ev = z => Held(z)'
                        /\ stack'[y][1].pc # "unlock" /\ stack'[y][1].todo = <<z>> =>
                              Held(z)' /\ event'[z].q = stack'[y][1].q
      BY DEF EnqueueHeld
    <2>1. CASE y = e
      BY <2>1, <1>10, <1>12, <1>14, <1>24
    <2>2. CASE y # e
      BY <2>2, <1>12, <1>24 DEF EnqueueHeld
    <2> QED
      BY <2>1, <2>2
  <1>33. CountEdge'
    <2> SUFFICES ASSUME NEW y \in Executors, NEW z \in Events, stack'[y][1].pc = "count", stack'[y][1].ev = z
                 PROVE  \E w \in Events : stack'[y][1].todo = <<w>> /\ OnNode(w, z)'
      BY DEF CountEdge
    <2>1. CASE y = e
      BY <2>1, <1>10, <1>12, <1>26
    <2>2. CASE y # e
      BY <2>2, <1>12, <1>28 DEF CountEdge
    <2> QED
      BY <2>1, <2>2
  <1>34. Predecessors'
    <2>1. ASSUME NEW z \in Events, Uncounted(z)' PROVE task'[z].nPred = 0
      <3>1. PICK y \in Executors : \/ stack'[y][1].pc \in {"enqueue", "count"} /\ stack'[y][1].ev = z
                                   \/ Enqueuing(y, z)'
        BY <2>1 DEF Uncounted
      <3>2. Uncounted(z)
        <4>1. CASE y = e
          BY <3>1, <4>1, <1>6, <1>10, <1>12 DEF Uncounted, Enqueuing
        <4>2. CASE y # e
          BY <3>1, <4>2, <1>12, <1>29 DEF Uncounted
        <4> QED
          BY <4>1, <4>2
      <3> QED
        BY <3>2, <1>21 DEF Predecessors
    <2>2. ASSUME NEW z \in Events, NEW y \in Events, OnNode(z, y)' \/ ToRelease(z, y)', ~Counting(y)'
          PROVE  task'[y].nPred = 1
      <3>1. Counting(x)'
        BY <1>10, <1>12 DEF Counting
      <3>2. OnNode(z, y) \/ ToRelease(z, y)
        BY <2>2, <3>1, <1>23, <1>26, <1>27
      <3>3. ~Counting(y)
        <4>1. \A a \in Executors : stack[a][1].pc = "count" => stack'[a] = stack[a]
          BY <1>1, <1>2, <1>12
        <4> QED
          BY <4>1, <2>2 DEF Counting
      <3> QED
        BY <3>2, <3>3, <1>21 DEF Predecessors
    <2> QED
      BY <2>1, <2>2 DEF Predecessors
  <1>35. Placed'
    <2> SUFFICES ASSUME NEW y \in Events, NotBegun(y)'
                 PROVE  \/ ready'[y] # 0
                        \/ \E a \in Executors : Enqueuing(a, y)'
                        \/ \E z \in Events : Chained(z, y)'
      BY DEF Placed
    <2>1. CASE y = x
      BY <2>1, <1>26 DEF Chained
    <2>2. CASE y # x
      <3>1. ~Enqueuing(e, y)
        BY <2>2, <1>2, <1>3 DEF Enqueuing
      <3>2. \A z \in Events : Chained(z, y) => Chained(z, y)'
        BY <1>25, <1>28 DEF Chained
      <3> QED
        BY <3>1, <3>2, <1>8, <1>24, <1>29 DEF Placed, sched
    <2> QED
      BY <2>1, <2>2
  <1>36. InRun'
    BY <1>21, <1>23, <1>24 DEF InRun
  <1>37. QueueCounts'
    <2>1. \A z \in Queues : InQueue(z)' = InQueue(z)
      BY <1>24 DEF InQueue
    <2> QED
      BY <2>1, <1>8 DEF QueueCounts
  <1>38. GraphCounts'
    BY <1>8, <1>23, GraphCountsSame DEF sched
  <1> QED
    BY <1>30, <1>31, <1>32, <1>33, <1>34, <1>35, <1>36, <1>37, <1>38 DEF PlacesInv

-----------------------------------------------------------------------------
(* Handing an item over *)

\* Where the runs are after an item was handed over.
LEMMA HandsFrames ==
    ASSUME Inv, NEW e \in Executors, NEW f, NEW x \in Events, Hands(e, f, x), Gives(e, f, x)
    PROVE  /\ \A y \in Events : /\ AtDequeue(y)' <=> AtDequeue(y)
                                /\ AtFinish(y)' <=> AtFinish(y)
                                /\ y # x => (Running(y)' <=> Running(y))
           /\ ~Running(x) /\ (Starts => Running(x)')
           /\ \A p, y \in Events : /\ ToRelease(p, y)' <=> ToRelease(p, y)
                                   /\ y # x /\ Fetched(p, y) => Fetched(p, y)'
           /\ \A z \in Executors : \/ stack'[z][1] = stack[z][1]
                                   \/ /\ Enqueuing(z, x) /\ stack'[z][1].pc = "unlock"
                                      /\ stack'[z][1].ev = x /\ stack'[z][1].q = stack[z][1].q
  <1> /\ NotBegun(x) /\ RunsGoOn /\ OnlyRunOf(x) /\ Replaces(e, f) /\ TopGoesOn(e, f)
    BY DEF Hands
  <1> RunOrder
    BY DEF Inv, ChainInv
  <1>1. /\ \A z \in Executors : \A d : d # 1 /\ d \in DOMAIN stack'[z] =>
              Fresh(z, d) \/ (d \in DOMAIN stack[z] /\ Shrunk(stack[z][d], stack'[z][d]) /\ stack[z][d].ev # x)
        /\ \A p \in Events : AtFinish(p)' <=> AtFinish(p)
    BY FramesAfter
  <1>2. \A z \in Executors : \A d : Fresh(z, d) => RunOf(x, stack'[z][d])
    BY DEF OnlyRunOf
  <1>3. \A z \in Executors : \A d : d # 1 /\ d \in DOMAIN stack[z] =>
           d \in DOMAIN stack'[z] /\ Shrunk(stack[z][d], stack'[z][d])
    BY DEF RunsGoOn
  <1>4. ~Running(x)
    BY DEF Running, RunOrder, NotBegun
  <1>5. ASSUME Starts PROVE Running(x)'
    <2>1. PICK z, d : z \in Executors /\ Fresh(z, d)
      BY <1>5 DEF Starts
    <2>2. d # 1 /\ d \in DOMAIN stack'[z] /\ stack'[z][d].ev = x
      BY <2>1, <1>2 DEF Fresh, RunOf
    <2> QED
      BY <2>1, <2>2 DEF Running, InFrame
  <1>6. ASSUME NEW y \in Events, y # x PROVE Running(y)' <=> Running(y)
    <2>1. ASSUME Running(y) PROVE Running(y)'
      <3>1. PICK z \in Executors : \E d \in DOMAIN stack[z] : InFrame(z, d, y)
        BY <2>1 DEF Running
      <3>2. PICK d \in DOMAIN stack[z] : InFrame(z, d, y)
        BY <3>1
      <3> QED
        BY <3>2, <1>3 DEF Running, InFrame, Shrunk
    <2>2. ASSUME Running(y)' PROVE Running(y)
      <3>1. PICK z, d : z \in Executors /\ d \in DOMAIN stack'[z] /\ d # 1 /\ stack'[z][d].ev = y
        BY <2>2 DEF Running, InFrame
      <3>2. ~Fresh(z, d)
        BY <3>1, <1>2, <1>6 DEF RunOf
      <3> QED
        BY <3>1, <3>2, <1>1 DEF Running, InFrame, Shrunk
    <2> QED
      BY <2>1, <2>2
  <1>7. ASSUME NEW y \in Events PROVE AtDequeue(y)' <=> AtDequeue(y)
    <2>1. ASSUME AtDequeue(y) PROVE AtDequeue(y)'
      <3>1. PICK z, d : z \in Executors /\ d \in DOMAIN stack[z] /\ d # 1 /\ stack[z][d].ev = y /\ stack[z][d].pc = "dequeue"
        BY <2>1 DEF AtDequeue, InFrame
      <3> QED
        BY <3>1, <1>3 DEF AtDequeue, InFrame, Shrunk
    <2>2. ASSUME AtDequeue(y)' PROVE AtDequeue(y)
      <3>1. PICK z, d : z \in Executors /\ d \in DOMAIN stack'[z] /\ d # 1 /\ stack'[z][d].ev = y /\ stack'[z][d].pc = "dequeue"
        BY <2>2 DEF AtDequeue, InFrame
      <3>2. ~Fresh(z, d)
        BY <3>1, <1>2 DEF RunOf
      <3> QED
        BY <3>1, <3>2, <1>1 DEF AtDequeue, InFrame, Shrunk
    <2> QED
      BY <2>1, <2>2
  <1>8. ASSUME NEW p \in Events, NEW y \in Events PROVE ToRelease(p, y)' <=> ToRelease(p, y)
    <2>0. <<>> # <<y>>
      OBVIOUS
    <2>1. ASSUME ToRelease(p, y) PROVE ToRelease(p, y)'
      <3>1. PICK z, d : z \in Executors /\ d \in DOMAIN stack[z] /\ d # 1 /\ stack[z][d].ev = p /\ stack[z][d].todo = <<y>>
        BY <2>1 DEF ToRelease, InFrame
      <3> QED
        BY <3>1, <1>3 DEF ToRelease, InFrame, Shrunk
    <2>2. ASSUME ToRelease(p, y)' PROVE ToRelease(p, y)
      <3>1. PICK z, d : z \in Executors /\ d \in DOMAIN stack'[z] /\ d # 1 /\ stack'[z][d].ev = p /\ stack'[z][d].todo = <<y>>
        BY <2>2 DEF ToRelease, InFrame
      <3>2. ~Fresh(z, d)
        BY <2>0, <3>1, <1>2 DEF RunOf
      <3> QED
        BY <3>1, <3>2, <1>1 DEF ToRelease, InFrame, Shrunk
    <2> QED
      BY <2>1, <2>2
  <1>9. ASSUME NEW p \in Events, NEW y \in Events, y # x, Fetched(p, y) PROVE Fetched(p, y)'
    <2>1. PICK z, d : /\ z \in Executors /\ d \in DOMAIN stack[z] /\ d # 1 /\ stack[z][d].ev = p
                      /\ stack[z][d].todo = <<y>> \/ stack[z][d].ready = <<y>>
      BY <1>9 DEF Fetched, InFrame
    <2>2. stack[z][d].ready = <<y>> => stack'[z][d].ready = stack[z][d].ready
      <3>1. <<y>> # <<x>>
        BY <1>9
      <3>2. CASE z = e /\ d = Len(stack[e])
        BY <2>1, <3>1, <3>2 DEF Gives, Replaces
      <3>3. CASE ~(z = e /\ d = Len(stack[e]))
        BY <2>1, <3>3 DEF Replaces
      <3> QED
        BY <3>2, <3>3
    <2> QED
      BY <2>1, <2>2, <1>3 DEF Fetched, InFrame, Shrunk
  <1>10. ASSUME NEW z \in Executors
         PROVE  \/ stack'[z][1] = stack[z][1]
                \/ /\ Enqueuing(z, x) /\ stack'[z][1].pc = "unlock"
                   /\ stack'[z][1].ev = x /\ stack'[z][1].q = stack[z][1].q
    <2>1. CASE z = e /\ Len(stack[e]) = 1
      <3>1. stack[e][1] = Top(e) /\ stack'[e][1] = f /\ f.ev = Top(e).ev /\ f.q = Top(e).q
        BY <2>1 DEF Replaces, TopGoesOn
      <3>2. CASE f = Top(e)
        BY <2>1, <3>1, <3>2
      <3>3. CASE Enqueuing(e, x) /\ f.pc = "unlock"
        BY <2>1, <3>1, <3>3 DEF Enqueuing
      <3> QED
        BY <2>1, <3>2, <3>3 DEF Gives
    <2>2. CASE ~(z = e /\ Len(stack[e]) = 1)
      BY <2>2 DEF Replaces
    <2> QED
      BY <2>1, <2>2
  <1> QED
    BY <1>1, <1>4, <1>5, <1>6, <1>7, <1>8, <1>9, <1>10

\* An item that is handed over is in the scheduler or in a frame, and counted.
LEMMA HandsPlaces ==
    ASSUME Inv, PlacesInv, NEW e \in Executors, NEW f, NEW x \in Events, Hands(e, f, x), Gives(e, f, x),
           count' = IF ready[x] = 0 THEN count + 1 ELSE count
    PROVE  PlacesInv'
  <1> /\ Status /\ LastHeld /\ EnqueueHeld /\ CountEdge /\ Predecessors
      /\ Placed /\ InRun /\ QueueCounts /\ GraphCounts
    BY DEF PlacesInv
  <1> Numbered
    BY DEF Inv, CallsInv
  <1>1. /\ \A y \in Events : /\ AtDequeue(y)' <=> AtDequeue(y)
                             /\ AtFinish(y)' <=> AtFinish(y)
                             /\ y # x => (Running(y)' <=> Running(y))
        /\ ~Running(x) /\ (Starts => Running(x)')
        /\ \A p, y \in Events : /\ ToRelease(p, y)' <=> ToRelease(p, y)
                                /\ y # x /\ Fetched(p, y) => Fetched(p, y)'
        /\ \A z \in Executors : \/ stack'[z][1] = stack[z][1]
                                \/ /\ Enqueuing(z, x) /\ stack'[z][1].pc = "unlock"
                                   /\ stack'[z][1].ev = x /\ stack'[z][1].q = stack[z][1].q
    BY HandsFrames
  <1>2. /\ event' = event /\ task' = task /\ queue' = queue
        /\ \A y \in Events : y # x => ready'[y] = ready[y]
        /\ \A k \in Items : log'[k].ended = log[k].ended /\ (k # event[x].item => log'[k].begun = log[k].begun)
        /\ NotBegun(x)
        /\ \/ Starts /\ ready'[x] = 0 /\ log'[event[x].item].begun = 1
           \/ ~Starts /\ ready'[x] = 1 /\ log'[event[x].item].begun = 0
    BY DEF Hands, BegunSame
  <1>3. \A y \in Events : Submitted(y) => /\ event[y].item \in Items
                                          /\ y # x => event[y].item # event[x].item
    BY <1>2 DEF Numbered, NotBegun
  <1>4. \A y \in Events : /\ Submitted(y)' <=> Submitted(y)
                          /\ Held(y)' <=> Held(y)
                          /\ y # x => (NotBegun(y)' <=> NotBegun(y))
    BY <1>1, <1>2, <1>3 DEF Submitted, Held, NotBegun
  <1>5. \A p, y \in Events : /\ OnNode(p, y)' <=> OnNode(p, y)
                             /\ y # x /\ Chained(p, y) => Chained(p, y)'
    BY <1>1, <1>2 DEF OnNode, Chained
  <1>6. \A z \in Executors : stack[z][1].pc = "count" \/ stack'[z][1].pc # "unlock" => stack'[z][1] = stack[z][1]
    BY <1>1 DEF Enqueuing
  <1>7. Status'
    BY <1>2, <1>3, <1>4 DEF Status
  <1>8. LastHeld'
    BY <1>2, <1>4 DEF LastHeld
  <1>9. EnqueueHeld'
    <2> SUFFICES ASSUME NEW z \in Executors, NEW y \in Events, stack'[z][1].pc \in LockPcs
                 PROVE  /\ stack'[z][1].ev = y => Held(y)
                        /\ stack'[z][1].pc # "unlock" /\ stack'[z][1].todo = <<y>> =>
                              Held(y) /\ event[y].q = stack'[z][1].q
      BY <1>2, <1>4 DEF EnqueueHeld
    <2>1. CASE stack'[z][1] = stack[z][1]
      BY <2>1 DEF EnqueueHeld
    <2>2. CASE Enqueuing(z, x) /\ stack'[z][1].pc = "unlock" /\ stack'[z][1].ev = x
      <3>1. stack[z][1].pc \in LockPcs /\ stack[z][1].ev = x
        BY <2>2 DEF Enqueuing, LockPcs
      <3> QED
        BY <2>2, <3>1 DEF EnqueueHeld
    <2> QED
      BY <2>1, <2>2, <1>1
  <1>10. CountEdge'
    <2> SUFFICES ASSUME NEW z \in Executors, NEW y \in Events, stack'[z][1].pc = "count", stack'[z][1].ev = y
                 PROVE  \E p \in Events : stack'[z][1].todo = <<p>> /\ OnNode(p, y)'
      BY DEF CountEdge
    <2>1. stack'[z][1] = stack[z][1]
      BY <1>6
    <2> QED
      BY <2>1, <1>5 DEF CountEdge
  <1>11. Predecessors'
    <2>1. \A y \in Events : (Uncounted(y)' => Uncounted(y)) /\ (Counting(y) => Counting(y)')
      BY <1>6 DEF Uncounted, Counting, Enqueuing
    <2> QED
      BY <2>1, <1>1, <1>2, <1>5 DEF Predecessors
  <1>12. Placed'
    <2> SUFFICES ASSUME NEW y \in Events, NotBegun(y)'
                 PROVE  \/ ready'[y] # 0
                        \/ \E z \in Executors : Enqueuing(z, y)'
                        \/ \E p \in Events : Chained(p, y)'
      BY DEF Placed
    <2>1. CASE y = x
      BY <2>1, <1>2 DEF NotBegun
    <2>2. CASE y # x
      <3>1. \A z \in Executors : Enqueuing(z, y) => Enqueuing(z, y)'
        BY <2>2, <1>1 DEF Enqueuing
      <3> QED
        BY <2>2, <3>1, <1>2, <1>4, <1>5 DEF Placed
    <2> QED
      BY <2>1, <2>2
  <1>13. InRun'
    <2> SUFFICES ASSUME NEW y \in Events, Submitted(y), log'[event[y].item].begun = 1, ~task[y].finished
                 PROVE  Running(y)'
      BY <1>2, <1>4 DEF InRun
    <2>1. CASE y = x
      BY <2>1, <1>1, <1>2
    <2>2. CASE y # x
      BY <2>2, <1>1, <1>2, <1>3 DEF InRun
    <2> QED
      BY <2>1, <2>2
  <1>14. QueueCounts'
    <2>1. \A z \in Queues : InQueue(z)' = InQueue(z)
      BY <1>2, <1>4 DEF InQueue
    <2> QED
      BY <2>1, <1>2 DEF QueueCounts
  <1>15. GraphCounts'
    <2>1. Active' = Active \cup {x}
      BY <1>1, <1>2 DEF Active
    <2>2. PICK S : S = Active
      OBVIOUS
    <2>3. IsFiniteSet(S) /\ count = Cardinality(S)
      BY <2>2 DEF GraphCounts
    <2>4. CASE ready[x] = 0
      <3>1. x \notin S
        BY <2>2, <2>4, <1>1 DEF Active
      <3>2. IsFiniteSet(S \cup {x}) /\ Cardinality(S \cup {x}) = Cardinality(S) + 1
        BY <2>3, <3>1, FS_AddElement
      <3> QED
        BY <2>1, <2>2, <2>3, <2>4, <3>2 DEF GraphCounts
    <2>5. CASE ready[x] # 0
      <3>1. S \cup {x} = S
        BY <2>2, <2>5 DEF Active
      <3> QED
        BY <2>1, <2>2, <2>3, <2>5, <3>1 DEF GraphCounts
    <2> QED
      BY <2>4, <2>5
  <1> QED
    BY <1>7, <1>8, <1>9, <1>10, <1>11, <1>12, <1>13, <1>14, <1>15 DEF PlacesInv

\* kupl_event_submit behind an unfinished predecessor does nothing more.
LEMMA EventSubmitPlaces ==
    ASSUME Inv, PlacesInv, Inv', NEW e \in Executors, EventSubmit(e)
    PROVE  PlacesInv'
  <1> TypeOK
    BY DEF Inv
  <1>1. Top(e).pc = "preds" /\ Top(e).pc \in LockPcs /\ Top(e).pc \in EnqueuePcs
    BY DEF EventSubmit, At, LockPcs, EnqueuePcs
  <1>2. stack[e][1] = Top(e) /\ Top(e) \in FrameSet /\ Top(e).pc \in UserPcs /\ Top(e).ev \in Events
    BY <1>1, EnqueueFacts
  <1>3. CASE Top(e).n = 0
    <2>1. PICK x \in Events : \E f : Hands(e, f, x) /\ Gives(e, f, x) /\ ready[x] = 0 /\ count' = count + 1
      BY <1>3, EventSubmitStep
    <2>2. PICK f : Hands(e, f, x) /\ Gives(e, f, x) /\ ready[x] = 0 /\ count' = count + 1
      BY <2>1
    <2> QED
      BY <2>2, HandsPlaces
  <1>4. CASE Top(e).n # 0
    <2>1. PICK ev \in Events : ev = Top(e).ev
      BY <1>2
    <2>2. PICK f : f = [Top(e) EXCEPT !.pc = "unlock"]
      OBVIOUS
    <2>3. f \in FrameSet /\ f.pc = "unlock" /\ f.ev = ev /\ f.q = Top(e).q /\ f.todo = Top(e).todo
      BY <2>1, <2>2, <1>2 DEF FrameSet, UserPcs, EnqueuePcs, LockPcs
    <2>4. SetTop(e, f) /\ UNCHANGED <<queue, event, task, sched, log>>
      BY <2>2, <1>4 DEF EventSubmit
    <2>5. UserMoves(e, f)
      BY <1>2, <2>3, <2>4, SetTopMoves DEF Inv, CallsInv, ChainInv
    <2>6. \A x \in Events : TaskSame(x) /\ task'[x].nPred = task[x].nPred
      BY <2>4 DEF TaskSame
    <2>7. ~Enqueuing(e, ev) /\ f.pc \in LockPcs \ {"count"} /\ f.pc \notin {"preds", "insert"} /\ stack[e][1].pc # "count"
      BY <1>1, <1>2, <1>4, <2>3 DEF Enqueuing, LockPcs
    <2> QED
      BY <1>1, <1>2, <2>1, <2>3, <2>4, <2>5, <2>6, <2>7, EnqueuePlaces
  <1> QED
    BY <1>3, <1>4

\* The end of kupl_enqueue_event: the event, still in the queue, is the last one.
LEMMA EnqueueUnlockPlaces ==
    ASSUME Inv, PlacesInv, NEW e \in Executors, EnqueueUnlock(e)
    PROVE  /\ PlacesInv' /\ stack[e][1].pc = "unlock" /\ UserMoves(e, User) /\ Return(e)
           /\ UNCHANGED <<event, task, sched, log>> /\ Call(e).op \in Submits
           /\ \A z \in Queues : queue'[z].acquired = queue[z].acquired
  <1> /\ Status /\ LastHeld /\ EnqueueHeld /\ CountEdge /\ Predecessors
      /\ Placed /\ InRun /\ QueueCounts /\ GraphCounts
    BY DEF PlacesInv
  <1> TypeOK /\ UserShape /\ RunShape
    BY DEF Inv, CallsInv, ChainInv
  <1>1. Top(e).pc = "unlock" /\ Top(e).pc \in LockPcs /\ Top(e).pc \in EnqueuePcs
    BY DEF EnqueueUnlock, At, LockPcs, EnqueuePcs
  <1>2. PICK q, ev : q \in Queues /\ ev \in Events /\ q = Top(e).q /\ ev = Top(e).ev
    BY <1>1, EnqueueFacts
  <1>3. stack[e][1] = Top(e) /\ Top(e).pc \in UserPcs /\ Call(e).op \in Submits
    BY <1>1, EnqueueFacts
  <1>4. /\ SetTop(e, User) /\ Return(e) /\ UNCHANGED <<event, task, sched, log>>
        /\ queue' = [queue EXCEPT ![q].last = ev, ![q].lock = None]
    BY <1>2, <1>3 DEF EnqueueUnlock, Submits
  <1>5. UserMoves(e, User) /\ RunsSame
    BY <1>3, <1>4, UserType, SetTopMoves, UserRunsSame
  <1>6. stack'[e][1] = User /\ User.pc \notin EnqueuePcs /\ \A y \in Executors : y # e => stack'[y] = stack[y]
    BY <1>5, UserType DEF UserMoves, EnqueuePcs
  <1>7. /\ queue'[q].last = ev
        /\ \A z \in Queues : /\ queue'[z].events = queue[z].events /\ queue'[z].acquired = queue[z].acquired
                             /\ z # q => queue'[z].last = queue[z].last
    <2> queue \in [Queues -> QueueSet] /\ q \in Queues
      BY <1>2 DEF TypeOK
    <2> QED
      BY <1>4 DEF QueueSet
  <1>8. Grows /\ ItemsKept /\ \A k \in Items : ItemSame(k)
    BY <1>4 DEF Grows, SameCall, ItemSame, Items, ItemsKept, SameItem
  <1>9. \A y \in Events :
           /\ Running(y)' <=> Running(y)
           /\ AtDequeue(y)' <=> AtDequeue(y)
           /\ \A z \in Events : ToRelease(z, y)' <=> ToRelease(z, y)
    BY <1>5, <1>8, SamePlaces
  <1>10. \A y \in Events : /\ Submitted(y)' <=> Submitted(y)
                           /\ Held(y)' <=> Held(y)
                           /\ NotBegun(y)' <=> NotBegun(y)
    BY <1>4, <1>9 DEF Submitted, Held, NotBegun
  <1>11. \A z, y \in Events : (OnNode(z, y)' <=> OnNode(z, y)) /\ (Chained(z, y)' <=> Chained(z, y))
    BY <1>4, <1>5, FramesSame DEF OnNode, Chained
  <1>12. \A y \in Executors : stack[y][1].pc \in {"enqueue", "preds", "insert", "count"} \/ stack'[y][1].pc \in EnqueuePcs =>
            stack'[y] = stack[y]
    BY <1>1, <1>3, <1>6
  <1>13. Status'
    BY <1>4, <1>10 DEF Status
  <1>14. LastHeld'
    <2>1. Held(ev)
      BY <1>1, <1>2, <1>3 DEF EnqueueHeld
    <2> QED
      BY <2>1, <1>2, <1>7, <1>10 DEF LastHeld
  <1>15. EnqueueHeld'
    BY <1>4, <1>10, <1>12 DEF EnqueueHeld, EnqueuePcs
  <1>16. CountEdge'
    <2> SUFFICES ASSUME NEW y \in Executors, NEW z \in Events, stack'[y][1].pc = "count", stack'[y][1].ev = z
                 PROVE  \E w \in Events : stack'[y][1].todo = <<w>> /\ OnNode(w, z)'
      BY DEF CountEdge
    <2>1. stack'[y] = stack[y]
      BY <1>12 DEF EnqueuePcs, LockPcs
    <2> QED
      BY <2>1, <1>11 DEF CountEdge
  <1>17. Predecessors'
    <2>1. \A y \in Events : (Uncounted(y)' => Uncounted(y)) /\ (Counting(y) => Counting(y)')
      BY <1>12 DEF Uncounted, Counting, Enqueuing, EnqueuePcs, LockPcs
    <2> QED
      BY <2>1, <1>4, <1>9, <1>11 DEF Predecessors
  <1>18. Placed'
    <2>1. \A y \in Executors, z \in Events : Enqueuing(y, z) => Enqueuing(y, z)'
      BY <1>12 DEF Enqueuing
    <2> QED
      BY <2>1, <1>4, <1>10, <1>11 DEF Placed, sched
  <1>19. InRun'
    BY <1>4, <1>9, <1>10 DEF InRun
  <1>20. QueueCounts'
    <2>1. \A z \in Queues : InQueue(z)' = InQueue(z)
      BY <1>4, <1>10 DEF InQueue
    <2> QED
      BY <2>1, <1>7 DEF QueueCounts
  <1>21. GraphCounts'
    BY <1>4, <1>9, GraphCountsSame DEF sched
  <1>22. PlacesInv'
    BY <1>13, <1>14, <1>15, <1>16, <1>17, <1>18, <1>19, <1>20, <1>21 DEF PlacesInv
  <1> QED
    BY <1>1, <1>3, <1>4, <1>5, <1>7, <1>22

-----------------------------------------------------------------------------
(* The steps of a run *)

\* Where the runs are when the one on top of the stack of e goes on.
LEMMA RunsOnFrames ==
    ASSUME Inv, NEW e \in Executors, NEW ev \in Events, NEW f, RunsOn(e, ev, f)
    PROVE  /\ \A z \in Executors : stack'[z][1] = stack[z][1]
           /\ \A x \in Events : Running(x)' <=> Running(x)
           /\ AtDequeue(ev) <=> Top(e).pc = "dequeue"
           /\ AtDequeue(ev)' <=> f.pc = "dequeue"
           /\ AtFinish(ev) <=> Top(e).pc = "finish"
           /\ AtFinish(ev)' <=> f.pc = "finish"
           /\ \A y \in Events : /\ ToRelease(ev, y) <=> Top(e).todo = <<y>>
                                /\ ToRelease(ev, y)' <=> f.todo = <<y>>
                                /\ Fetched(ev, y) <=> Top(e).todo = <<y>> \/ Top(e).ready = <<y>>
                                /\ Fetched(ev, y)' <=> f.todo = <<y>> \/ f.ready = <<y>>
           /\ \A p \in Events : p # ev =>
                 /\ AtDequeue(p)' <=> AtDequeue(p)
                 /\ AtFinish(p)' <=> AtFinish(p)
                 /\ \A y \in Events : /\ ToRelease(p, y)' <=> ToRelease(p, y)
                                      /\ Fetched(p, y)' <=> Fetched(p, y)
  <1> OneRun
    BY DEF Inv, ChainInv
  <1>0. /\ RunMoves(e, f) /\ Top(e).ev = ev /\ f.ev = ev /\ Top(e).pc \in RunPcs /\ RunFrame(f)
    BY DEF RunsOn
  <1>1. PICK m : m = Len(stack[e])
    OBVIOUS
  <1>2. /\ m \in DOMAIN stack[e] /\ m # 1 /\ stack[e][m] = Top(e) /\ stack'[e][m] = f
        /\ DOMAIN stack'[e] = DOMAIN stack[e] /\ 1 \in DOMAIN stack[e] /\ stack'[e] # <<>>
        /\ \A d \in DOMAIN stack[e] : d # m => stack'[e][d] = stack[e][d]
        /\ \A x \in Executors : x # e => stack'[x] = stack[x]
    BY <1>0, <1>1 DEF RunMoves
  <1>3. \A x \in Executors : /\ DOMAIN stack'[x] = DOMAIN stack[x]
                             /\ \A d \in DOMAIN stack[x] : ~(x = e /\ d = m) => stack'[x][d] = stack[x][d]
    BY <1>2
  <1>4. \A x \in Executors, y \in Events : \A d : InFrame(x, d, y)' <=> InFrame(x, d, y)
    BY <1>0, <1>2, <1>3 DEF InFrame
  <1>5. \A x \in Executors : \A d : InFrame(x, d, ev) <=> x = e /\ d = m
    BY <1>0, <1>2 DEF InFrame, OneRun
  <1>6. \A x \in Executors, y \in Events : \A d : InFrame(x, d, y) /\ y # ev =>
            d \in DOMAIN stack[x] /\ d \in DOMAIN stack'[x] /\ stack'[x][d] = stack[x][d]
    BY <1>0, <1>2, <1>3 DEF InFrame
  <1>7. \A x \in Events : Running(x)' <=> Running(x)
    BY <1>3, <1>4 DEF Running
  <1>8. (AtDequeue(ev) <=> Top(e).pc = "dequeue") /\ (AtDequeue(ev)' <=> f.pc = "dequeue")
    BY <1>2, <1>4, <1>5 DEF AtDequeue
  <1>9. ASSUME NEW y \in Events
        PROVE  (ToRelease(ev, y) <=> Top(e).todo = <<y>>) /\ (ToRelease(ev, y)' <=> f.todo = <<y>>)
    BY <1>2, <1>4, <1>5 DEF ToRelease
  <1>10. ASSUME NEW p \in Events, p # ev PROVE AtDequeue(p)' <=> AtDequeue(p)
    BY <1>4, <1>6, <1>10 DEF AtDequeue
  <1>11. ASSUME NEW p \in Events, p # ev, NEW y \in Events PROVE ToRelease(p, y)' <=> ToRelease(p, y)
    BY <1>4, <1>6, <1>11 DEF ToRelease
  <1>12. /\ \A x \in Executors : stack'[x][1] = stack[x][1]
         /\ AtFinish(ev) <=> Top(e).pc = "finish"
         /\ AtFinish(ev)' <=> f.pc = "finish"
         /\ \A y \in Events : /\ Fetched(ev, y) <=> Top(e).todo = <<y>> \/ Top(e).ready = <<y>>
                              /\ Fetched(ev, y)' <=> f.todo = <<y>> \/ f.ready = <<y>>
         /\ \A p \in Events : p # ev => /\ AtFinish(p)' <=> AtFinish(p)
                                        /\ \A y \in Events : Fetched(p, y)' <=> Fetched(p, y)
    BY <1>0, RunMoved
  <1> QED
    BY <1>7, <1>8, <1>9, <1>10, <1>11, <1>12

\* The items when a run goes on: that of the run may return.
LEMMA RunsOnItems ==
    ASSUME Inv, NEW e \in Executors, NEW ev \in Events, NEW f, RunsOn(e, ev, f)
    PROVE  \A x \in Events :
              /\ Submitted(x)' <=> Submitted(x)
              /\ event'[x].q = event[x].q
              /\ NotBegun(x)' <=> NotBegun(x)
              /\ Submitted(x) => log'[event'[x].item].begun = log[event[x].item].begun
              /\ x # ev /\ Submitted(x) => log'[event'[x].item].ended = log[event[x].item].ended
              /\ x # ev => (Held(x)' <=> Held(x))
              /\ log' = log /\ (AtDequeue(x)' <=> AtDequeue(x)) => (Held(x)' <=> Held(x))
  <1> Numbered
    BY DEF Inv, CallsInv
  <1>1. ItemsSame /\ EndsOnly(event[ev].item) /\ LogSame /\ Top(e).pc \in RunPcs /\ Top(e).ev = ev
    BY DEF RunsOn
  <1>2. Submitted(ev)
    BY <1>1, RunFacts
  <1>3. \A x \in Events : Submitted(x) => event[x].item \in Items /\ (x # ev => event[x].item # event[ev].item)
    BY <1>2 DEF Numbered
  <1>4. \A x \in Events : event'[x].item = event[x].item /\ event'[x].q = event[x].q
    BY <1>1 DEF ItemsSame, SameItem
  <1>5. \A x \in Events : Submitted(x) => /\ log'[event'[x].item].begun = log[event[x].item].begun
                                          /\ x # ev => log'[event'[x].item].ended = log[event[x].item].ended
    BY <1>1, <1>3, <1>4 DEF EndsOnly, BegunSame
  <1>6. \A x \in Events : x # ev => (AtDequeue(x)' <=> AtDequeue(x))
    BY RunsOnFrames
  <1>7. \A x \in Events : (Submitted(x)' <=> Submitted(x)) /\ (NotBegun(x)' <=> NotBegun(x))
    BY <1>4, <1>5 DEF Submitted, NotBegun
  <1>8. \A x \in Events : x # ev => (Held(x)' <=> Held(x))
    BY <1>5, <1>6, <1>7 DEF Held
  <1>9. \A x \in Events : log' = log /\ (AtDequeue(x)' <=> AtDequeue(x)) => (Held(x)' <=> Held(x))
    BY <1>4, <1>7 DEF Held
  <1> QED
    BY <1>4, <1>5, <1>7, <1>8, <1>9

\* What a step of a run has to keep.
LEMMA RunPlaces ==
    ASSUME Inv, PlacesInv, NEW e \in Executors, NEW ev \in Events, NEW f, RunsOn(e, ev, f),
           Status', LastHeld', EnqueueHeld', QueueCounts',
           \A p, y \in Events : Chained(p, y) => Chained(p, y)',
           \A p, y \in Events : OnNode(p, y) /\ ~task[p].finished => OnNode(p, y)',
           \A p, y \in Events : OnNode(p, y)' \/ ToRelease(p, y)' => OnNode(p, y) \/ ToRelease(p, y),
           \A y \in Events : \/ task'[y].nPred = task[y].nPred
                             \/ task'[y].nPred = 0 /\ \A p \in Events : ~OnNode(p, y)' /\ ~ToRelease(p, y)',
           \A y \in Events : task[y].finished => task'[y].finished
    PROVE  PlacesInv'
  <1> /\ EnqueueHeld /\ CountEdge /\ Predecessors /\ Placed /\ InRun /\ GraphCounts
    BY DEF PlacesInv
  <1>1. \A z \in Executors : stack'[z][1] = stack[z][1]
    BY RunsOnFrames
  <1>2. \A x \in Events : Running(x)' <=> Running(x)
    BY RunsOnFrames
  <1>3. \A x \in Events : /\ Submitted(x)' <=> Submitted(x)
                          /\ NotBegun(x)' <=> NotBegun(x)
                          /\ Submitted(x) => log'[event'[x].item].begun = log[event[x].item].begun
    BY RunsOnItems
  <1>4. ready' = ready /\ count' = count
    BY DEF RunsOn, sched
  <1>5. \A y \in Executors, x \in Events : Enqueuing(y, x)' <=> Enqueuing(y, x)
    BY <1>1 DEF Enqueuing
  <1>6. CountEdge'
    <2> SUFFICES ASSUME NEW y \in Executors, NEW x \in Events, stack[y][1].pc = "count", stack[y][1].ev = x
                 PROVE  \E p \in Events : stack[y][1].todo = <<p>> /\ OnNode(p, x)'
      BY <1>1 DEF CountEdge
    <2>1. PICK p \in Events : stack[y][1].todo = <<p>> /\ OnNode(p, x)
      BY DEF CountEdge
    <2>2. Held(p)
      BY <2>1 DEF EnqueueHeld, LockPcs
    <2>3. ~task[p].finished
      BY <2>2, HeldUnfinished
    <2> QED
      BY <2>1, <2>3
  <1>7. Predecessors'
    <2>1. \A x \in Events : (Uncounted(x)' <=> Uncounted(x)) /\ (Counting(x)' <=> Counting(x))
      BY <1>1, <1>5 DEF Uncounted, Counting
    <2>2. ASSUME NEW x \in Events, Uncounted(x)' PROVE task'[x].nPred = 0
      BY <2>1, <2>2 DEF Predecessors
    <2>3. ASSUME NEW p \in Events, NEW x \in Events, OnNode(p, x)' \/ ToRelease(p, x)', ~Counting(x)'
          PROVE  task'[x].nPred = 1
      BY <2>1, <2>3 DEF Predecessors
    <2> QED
      BY <2>2, <2>3 DEF Predecessors
  <1>8. Placed'
    BY <1>3, <1>4, <1>5 DEF Placed
  <1>9. InRun'
    BY <1>2, <1>3 DEF InRun
  <1>10. GraphCounts'
    BY <1>2, <1>4, GraphCountsSame
  <1> QED
    BY <1>6, <1>7, <1>8, <1>9, <1>10 DEF PlacesInv

\* The queues keep what they hold.
LEMMA HeldSame ==
    ASSUME PlacesInv, queue' = queue, \A x \in Events : (Held(x)' <=> Held(x)) /\ event'[x].q = event[x].q,
           \A z \in Executors : stack'[z][1] = stack[z][1]
    PROVE  LastHeld' /\ EnqueueHeld' /\ QueueCounts'
  <1> LastHeld /\ EnqueueHeld /\ QueueCounts
    BY DEF PlacesInv
  <1>1. LastHeld' /\ EnqueueHeld'
    BY DEF LastHeld, EnqueueHeld
  <1>2. \A z \in Queues : InQueue(z)' = InQueue(z)
    BY DEF InQueue
  <1> QED
    BY <1>1, <1>2 DEF QueueCounts

\* The user function returns: the event stays in its queue until it is dequeued.
LEMMA EventFuncPlaces ==
    ASSUME Inv, PlacesInv, NEW e \in Executors, EventFunc(e)
    PROVE  PlacesInv'
  <1> Status
    BY DEF PlacesInv
  <1>1. PICK ev \in Events : \E f :
                 /\ RunsOn(e, ev, f) /\ UNCHANGED <<queue, task>>
                 /\ Top(e).pc = "func" /\ f.pc = "dequeue" /\ f.todo = <<>>
                 /\ log'[event[ev].item].ended = 1 /\ event'[ev].status = "COMPLETE"
                 /\ \A x \in Events : x # ev => event'[x] = event[x]
    BY EventFuncStep
  <1>2. PICK f : /\ RunsOn(e, ev, f) /\ UNCHANGED <<queue, task>>
                 /\ Top(e).pc = "func" /\ f.pc = "dequeue" /\ f.todo = <<>>
                 /\ log'[event[ev].item].ended = 1 /\ event'[ev].status = "COMPLETE"
                 /\ \A x \in Events : x # ev => event'[x] = event[x]
    BY <1>1
  <1>3. /\ \A z \in Executors : stack'[z][1] = stack[z][1]
        /\ AtDequeue(ev)' <=> f.pc = "dequeue"
        /\ AtFinish(ev) <=> Top(e).pc = "finish"
        /\ AtFinish(ev)' <=> f.pc = "finish"
        /\ \A y \in Events : /\ ToRelease(ev, y) <=> Top(e).todo = <<y>>
                             /\ ToRelease(ev, y)' <=> f.todo = <<y>>
                             /\ Fetched(ev, y) <=> Top(e).todo = <<y>> \/ Top(e).ready = <<y>>
        /\ \A p \in Events : p # ev =>
              /\ AtFinish(p)' <=> AtFinish(p)
              /\ \A y \in Events : /\ ToRelease(p, y)' <=> ToRelease(p, y)
                                   /\ Fetched(p, y)' <=> Fetched(p, y)
    BY <1>2, RunsOnFrames
  <1>4. \A x \in Events :
           /\ Submitted(x)' <=> Submitted(x)
           /\ event'[x].q = event[x].q
           /\ x # ev /\ Submitted(x) => log'[event'[x].item].ended = log[event[x].item].ended
           /\ x # ev => (Held(x)' <=> Held(x))
    BY <1>2, RunsOnItems
  <1>5. Submitted(ev) /\ log[event[ev].item].ended = 0 /\ RunFrame(Top(e)) /\ ItemsSame /\ Top(e).ev = ev /\ Top(e).pc \in RunPcs
    <2>1. Top(e).ev = ev /\ Top(e).pc \in RunPcs /\ RunFrame(Top(e)) /\ ItemsSame
      BY <1>2 DEF RunsOn
    <2> QED
      BY <1>2, <2>1, RunFacts
  <1>6. Held(ev) /\ Held(ev)'
    BY <1>2, <1>3, <1>4, <1>5 DEF Held
  <1>7. \A x \in Events : (Held(x)' <=> Held(x)) /\ event'[x].q = event[x].q
    BY <1>4, <1>6
  <1>8. LastHeld' /\ EnqueueHeld' /\ QueueCounts'
    BY <1>2, <1>3, <1>7, HeldSame
  <1>9. Status'
    <2> SUFFICES ASSUME NEW x \in Events
                 PROVE  /\ Submitted(x)' <=> event'[x].status # "CREATED"
                        /\ event'[x].status = "COMPLETE" => log'[event'[x].item].ended = 1
      BY DEF Status
    <2>1. CASE x = ev
      <3>1. event'[ev].item = event[ev].item
        BY <1>5 DEF ItemsSame, SameItem
      <3> QED
        BY <2>1, <3>1, <1>2, <1>4, <1>5
    <2>2. CASE x # ev
      BY <2>2, <1>2, <1>4 DEF Status
    <2> QED
      BY <2>1, <2>2
  <1>10. \A y \in Events : Top(e).todo # <<y>> /\ Top(e).ready # <<y>> /\ f.todo # <<y>>
    <2>1. \A y \in Events : <<>> # <<y>>
      OBVIOUS
    <2> QED
      BY <2>1, <1>2, <1>5 DEF RunFrame
  <1>11. \A p, y \in Events : /\ OnNode(p, y)' <=> OnNode(p, y)
                              /\ ToRelease(p, y)' <=> ToRelease(p, y)
                              /\ Chained(p, y) => Chained(p, y)'
    <2>1. \A p \in Events : AtFinish(p)' <=> AtFinish(p)
      BY <1>2, <1>3
    <2>2. \A p, y \in Events : (ToRelease(p, y)' <=> ToRelease(p, y)) /\ (Fetched(p, y) => Fetched(p, y)')
      BY <1>3, <1>10
    <2>3. \A p, y \in Events : OnNode(p, y)' <=> OnNode(p, y)
      BY <1>2, <2>1 DEF OnNode
    <2> QED
      BY <2>2, <2>3 DEF Chained
  <1>12. \A y \in Events : task'[y].nPred = task[y].nPred /\ (task[y].finished => task'[y].finished)
    BY <1>2
  <1> QED
    BY <1>2, <1>8, <1>9, <1>11, <1>12, RunPlaces

\* kupl_dequeue_event takes the event out of its queue; no enqueue goes behind it,
\* for it has the queue's lock.
LEMMA DequeueEventPlaces ==
    ASSUME Inv, PlacesInv, NEW e \in Executors, DequeueEvent(e)
    PROVE  /\ PlacesInv'
           /\ \A z \in Queues : queue'[z].acquired = queue[z].acquired
  <1> Status /\ LastHeld /\ EnqueueHeld /\ QueueCounts
    BY DEF PlacesInv
  <1> TypeOK /\ LastNewest /\ Locks /\ InCall
    BY DEF Inv, CallsInv
  <1>1. PICK ev \in Events : \E f :
                 /\ RunsOn(e, ev, f) /\ log' = log
                 /\ Top(e).pc = "dequeue" /\ f.pc = "execute" /\ f.todo = <<>>
                 /\ \A p \in Events : TaskSame(p) /\ task'[p].nPred = task[p].nPred
                 /\ event'[ev].status = "COMPLETE"
                 /\ \A x \in Events : x # ev => event'[x] = event[x]
                 /\ \E q \in Queues :
                       /\ q = event[ev].q /\ queue[q].lock = None
                       /\ queue'[q].events = queue[q].events - 1
                       /\ queue'[q].last = IF queue[q].last = ev THEN None ELSE queue[q].last
                       /\ \A z \in Queues : z # q => queue'[z] = queue[z]
    BY DequeueEventStep
  <1>2. PICK f : /\ RunsOn(e, ev, f) /\ log' = log
                 /\ Top(e).pc = "dequeue" /\ f.pc = "execute" /\ f.todo = <<>>
                 /\ \A p \in Events : TaskSame(p) /\ task'[p].nPred = task[p].nPred
                 /\ event'[ev].status = "COMPLETE"
                 /\ \A x \in Events : x # ev => event'[x] = event[x]
                 /\ \E q \in Queues :
                       /\ q = event[ev].q /\ queue[q].lock = None
                       /\ queue'[q].events = queue[q].events - 1
                       /\ queue'[q].last = IF queue[q].last = ev THEN None ELSE queue[q].last
                       /\ \A z \in Queues : z # q => queue'[z] = queue[z]
    BY <1>1
  <1>3. PICK q \in Queues :
                       /\ q = event[ev].q /\ queue[q].lock = None
                       /\ queue'[q].events = queue[q].events - 1
                       /\ queue'[q].last = IF queue[q].last = ev THEN None ELSE queue[q].last
                       /\ \A z \in Queues : z # q => queue'[z] = queue[z]
    BY <1>2
  <1>17. RunsOn(e, ev, f)
    BY <1>2
  <1>4. /\ \A z \in Executors : stack'[z][1] = stack[z][1]
        /\ AtDequeue(ev) <=> Top(e).pc = "dequeue"
        /\ AtDequeue(ev)' <=> f.pc = "dequeue"
        /\ AtFinish(ev) <=> Top(e).pc = "finish"
        /\ AtFinish(ev)' <=> f.pc = "finish"
        /\ \A y \in Events : /\ ToRelease(ev, y) <=> Top(e).todo = <<y>>
                             /\ ToRelease(ev, y)' <=> f.todo = <<y>>
                             /\ Fetched(ev, y) <=> Top(e).todo = <<y>> \/ Top(e).ready = <<y>>
        /\ \A p \in Events : p # ev =>
              /\ AtFinish(p)' <=> AtFinish(p)
              /\ \A y \in Events : /\ ToRelease(p, y)' <=> ToRelease(p, y)
                                   /\ Fetched(p, y)' <=> Fetched(p, y)
    BY <1>17, RunsOnFrames
  <1>5. \A x \in Events :
           /\ Submitted(x)' <=> Submitted(x)
           /\ event'[x].q = event[x].q
           /\ x # ev /\ Submitted(x) => log'[event'[x].item].ended = log[event[x].item].ended
           /\ x # ev => (Held(x)' <=> Held(x))
    BY <1>2, RunsOnItems
  <1>6. /\ Submitted(ev) /\ log[event[ev].item].ended = 1 /\ RunFrame(Top(e)) /\ event'[ev].item = event[ev].item
    <2>1. Top(e).ev = ev /\ Top(e).pc \in RunPcs /\ RunFrame(Top(e)) /\ ItemsSame
      BY <1>2 DEF RunsOn
    <2> QED
      BY <1>2, <2>1, RunFacts DEF ItemsSame, SameItem
  <1>7. Held(ev) /\ ~Held(ev)'
    BY <1>2, <1>4, <1>6 DEF Held
  <1>8. Status'
    <2> SUFFICES ASSUME NEW x \in Events
                 PROVE  /\ Submitted(x)' <=> event'[x].status # "CREATED"
                        /\ event'[x].status = "COMPLETE" => log'[event'[x].item].ended = 1
      BY DEF Status
    <2>1. CASE x = ev
      BY <2>1, <1>2, <1>5, <1>6
    <2>2. CASE x # ev
      BY <2>2, <1>2, <1>5 DEF Status
    <2> QED
      BY <2>1, <2>2
  <1>9. LastHeld'
    <2> SUFFICES ASSUME NEW z \in Queues, NEW x \in Events, queue'[z].last = x PROVE Held(x)'
      BY DEF LastHeld
    <2>1. x # None
      BY NamesAssumption
    <2>2. queue[z].last = x /\ x # ev
      <3>1. CASE z = q
        BY <2>1, <3>1, <1>3
      <3>2. CASE z # q
        <4>1. queue[z].last = x
          BY <3>2, <1>3
        <4>2. event[x].q = z
          BY <4>1, <2>1 DEF LastNewest
        <4> QED
          BY <3>2, <4>1, <4>2, <1>3
      <3> QED
        BY <3>1, <3>2
    <2> QED
      BY <2>2, <1>5 DEF LastHeld
  <1>10. EnqueueHeld'
    <2> SUFFICES ASSUME NEW y \in Executors, NEW x \in Events, stack[y][1].pc \in LockPcs
                 PROVE  /\ stack[y][1].ev = x => Held(x)'
                        /\ stack[y][1].pc # "unlock" /\ stack[y][1].todo = <<x>> =>
                              Held(x)' /\ event'[x].q = stack[y][1].q
      BY <1>4 DEF EnqueueHeld
    <2>1. stack[y][1].q # q
      BY <1>3, NamesAssumption DEF Locks
    <2>2. stack[y][1].ev = x => event[x].q = stack[y][1].q
      BY DEF InCall, EnqueuePcs
    <2>3. stack[y][1].ev = x => Held(x)'
      BY <2>1, <2>2, <1>3, <1>5 DEF EnqueueHeld
    <2>4. stack[y][1].pc # "unlock" /\ stack[y][1].todo = <<x>> => Held(x) /\ event[x].q = stack[y][1].q
      BY DEF EnqueueHeld
    <2> QED
      BY <2>1, <2>3, <2>4, <1>3, <1>5
  <1>11. QueueCounts'
    <2> SUFFICES ASSUME NEW z \in Queues
                 PROVE  IsFiniteSet(InQueue(z)') /\ queue'[z].events = Cardinality(InQueue(z)')
      BY DEF QueueCounts
    <2>1. PICK S : S = InQueue(z)
      OBVIOUS
    <2>2. IsFiniteSet(S) /\ queue[z].events = Cardinality(S)
      BY <2>1 DEF QueueCounts
    <2>3. CASE z = q
      <3>1. InQueue(z)' = S \ {ev} /\ ev \in S
        BY <2>1, <2>3, <1>3, <1>5, <1>7 DEF InQueue
      <3>2. IsFiniteSet(S \ {ev}) /\ Cardinality(S \ {ev}) = Cardinality(S) - 1
        BY <2>2, <3>1, FS_RemoveElement
      <3> QED
        BY <2>2, <2>3, <3>1, <3>2, <1>3
    <2>4. CASE z # q
      <3>1. InQueue(z)' = S
        BY <2>1, <2>4, <1>3, <1>5, <1>7 DEF InQueue
      <3> QED
        BY <2>2, <2>4, <3>1, <1>3
    <2> QED
      BY <2>3, <2>4
  <1>12. \A y \in Events : Top(e).todo # <<y>> /\ Top(e).ready # <<y>> /\ f.todo # <<y>>
    <2>1. \A y \in Events : <<>> # <<y>>
      OBVIOUS
    <2> QED
      BY <2>1, <1>2, <1>6 DEF RunFrame
  <1>13. \A p, y \in Events : /\ OnNode(p, y)' <=> OnNode(p, y)
                              /\ ToRelease(p, y)' <=> ToRelease(p, y)
                              /\ Chained(p, y) => Chained(p, y)'
    <2>1. \A p \in Events : AtFinish(p)' <=> AtFinish(p)
      BY <1>2, <1>4
    <2>2. \A p, y \in Events : (ToRelease(p, y)' <=> ToRelease(p, y)) /\ (Fetched(p, y) => Fetched(p, y)')
      BY <1>4, <1>12
    <2>3. \A p, y \in Events : OnNode(p, y)' <=> OnNode(p, y)
      BY <1>2, <2>1 DEF OnNode, TaskSame
    <2> QED
      BY <2>2, <2>3 DEF Chained
  <1>14. \A y \in Events : task'[y].nPred = task[y].nPred /\ (task[y].finished => task'[y].finished)
    BY <1>2 DEF TaskSame
  <1>15. PlacesInv'
    BY <1>2, <1>8, <1>9, <1>10, <1>11, <1>13, <1>14, RunPlaces
  <1>16. \A z \in Queues : queue'[z].acquired = queue[z].acquired
    <2>1. PICK x : queue' = [queue EXCEPT ![x].events = @ - 1, ![x].last = IF @ = Top(e).ev THEN None ELSE @]
      BY DEF DequeueEvent
    <2>2. queue \in [Queues -> QueueSet]
      BY DEF TypeOK
    <2> QED
      BY <2>1, <2>2 DEF QueueSet
  <1> QED
    BY <1>15, <1>16

\* kupl_task_execute marks the task; its successor stays on the node.
LEMMA TaskExecutePlaces ==
    ASSUME Inv, PlacesInv, NEW e \in Executors, TaskExecute(e)
    PROVE  PlacesInv'
  <1> Status
    BY DEF PlacesInv
  <1>1. PICK ev \in Events : \E f :
                 /\ RunsOn(e, ev, f) /\ UNCHANGED <<queue, event, log>>
                 /\ Top(e).pc = "execute" /\ f.pc = "finish" /\ f.todo = <<>>
                 /\ task'[ev].finished /\ task'[ev].succ = task[ev].succ
                 /\ \A p \in Events : p # ev => TaskSame(p)
                 /\ \A p \in Events : task'[p].nPred = task[p].nPred
    BY TaskExecuteStep
  <1>2. PICK f : /\ RunsOn(e, ev, f) /\ UNCHANGED <<queue, event, log>>
                 /\ Top(e).pc = "execute" /\ f.pc = "finish" /\ f.todo = <<>>
                 /\ task'[ev].finished /\ task'[ev].succ = task[ev].succ
                 /\ \A p \in Events : p # ev => TaskSame(p)
                 /\ \A p \in Events : task'[p].nPred = task[p].nPred
    BY <1>1
  <1>3. RunsOn(e, ev, f)
    BY <1>2
  <1>4. /\ \A z \in Executors : stack'[z][1] = stack[z][1]
        /\ AtDequeue(ev) <=> Top(e).pc = "dequeue"
        /\ AtDequeue(ev)' <=> f.pc = "dequeue"
        /\ AtFinish(ev)' <=> f.pc = "finish"
        /\ \A y \in Events : /\ ToRelease(ev, y)' <=> f.todo = <<y>>
                             /\ Fetched(ev, y) <=> Top(e).todo = <<y>> \/ Top(e).ready = <<y>>
        /\ \A p \in Events : p # ev =>
              /\ AtDequeue(p)' <=> AtDequeue(p)
              /\ AtFinish(p)' <=> AtFinish(p)
              /\ \A y \in Events : /\ ToRelease(p, y)' <=> ToRelease(p, y)
                                   /\ Fetched(p, y)' <=> Fetched(p, y)
    BY <1>3, RunsOnFrames
  <1>5. \A x \in Events : AtDequeue(x)' <=> AtDequeue(x)
    BY <1>2, <1>4
  <1>6. \A x \in Events : (Held(x)' <=> Held(x)) /\ event'[x].q = event[x].q
    BY <1>2, <1>3, <1>5, RunsOnItems
  <1>7. LastHeld' /\ EnqueueHeld' /\ QueueCounts'
    BY <1>2, <1>4, <1>6, HeldSame
  <1>8. Status'
    BY <1>2 DEF Status, Submitted
  <1>9. ~task[ev].finished /\ RunFrame(Top(e))
    <2>1. Top(e).ev = ev /\ Top(e).pc \in RunPcs /\ RunFrame(Top(e))
      BY <1>3 DEF RunsOn
    <2> QED
      BY <1>2, <2>1, RunFacts
  <1>10. \A y \in Events : Top(e).todo # <<y>> /\ Top(e).ready # <<y>> /\ f.todo # <<y>>
    <2>1. \A y \in Events : <<>> # <<y>>
      OBVIOUS
    <2> QED
      BY <2>1, <1>2, <1>9 DEF RunFrame
  <1>11. \A p, y \in Events : OnNode(p, y)' <=> OnNode(p, y)
    <2>1. \A y \in Events : OnNode(ev, y)' <=> OnNode(ev, y)
      BY <1>2, <1>4, <1>9 DEF OnNode
    <2>2. \A p, y \in Events : p # ev => (OnNode(p, y)' <=> OnNode(p, y))
      BY <1>2, <1>4 DEF OnNode, TaskSame
    <2> QED
      BY <2>1, <2>2
  <1>12. \A p, y \in Events : (ToRelease(p, y)' => ToRelease(p, y)) /\ (Chained(p, y) => Chained(p, y)')
    BY <1>4, <1>10, <1>11 DEF Chained
  <1>13. \A y \in Events : task'[y].nPred = task[y].nPred /\ (task[y].finished => task'[y].finished)
    BY <1>2 DEF TaskSame
  <1> QED
    BY <1>3, <1>7, <1>8, <1>11, <1>12, <1>13, RunPlaces

\* kupl_gnode_release_ready_safe: the successor goes from the node to the frame.
LEMMA TaskFinishPlaces ==
    ASSUME Inv, PlacesInv, NEW e \in Executors, TaskFinish(e)
    PROVE  PlacesInv'
  <1> Status
    BY DEF PlacesInv
  <1>1. PICK ev \in Events : \E f :
                 /\ RunsOn(e, ev, f) /\ UNCHANGED <<queue, event, task, log>>
                 /\ Top(e).pc = "finish" /\ f.pc = "release" /\ f.todo = task[ev].succ
    BY TaskFinishStep
  <1>2. PICK f : /\ RunsOn(e, ev, f) /\ UNCHANGED <<queue, event, task, log>>
                 /\ Top(e).pc = "finish" /\ f.pc = "release" /\ f.todo = task[ev].succ
    BY <1>1
  <1>3. RunsOn(e, ev, f)
    BY <1>2
  <1>4. /\ \A z \in Executors : stack'[z][1] = stack[z][1]
        /\ AtDequeue(ev) <=> Top(e).pc = "dequeue"
        /\ AtDequeue(ev)' <=> f.pc = "dequeue"
        /\ AtFinish(ev) <=> Top(e).pc = "finish"
        /\ AtFinish(ev)' <=> f.pc = "finish"
        /\ \A y \in Events : /\ ToRelease(ev, y)' <=> f.todo = <<y>>
                             /\ Fetched(ev, y) <=> Top(e).todo = <<y>> \/ Top(e).ready = <<y>>
                             /\ Fetched(ev, y)' <=> f.todo = <<y>> \/ f.ready = <<y>>
        /\ \A p \in Events : p # ev =>
              /\ AtDequeue(p)' <=> AtDequeue(p)
              /\ AtFinish(p)' <=> AtFinish(p)
              /\ \A y \in Events : /\ ToRelease(p, y)' <=> ToRelease(p, y)
                                   /\ Fetched(p, y)' <=> Fetched(p, y)
    BY <1>3, RunsOnFrames
  <1>5. \A x \in Events : AtDequeue(x)' <=> AtDequeue(x)
    BY <1>2, <1>4
  <1>6. \A x \in Events : (Held(x)' <=> Held(x)) /\ event'[x].q = event[x].q
    BY <1>2, <1>3, <1>5, RunsOnItems
  <1>7. LastHeld' /\ EnqueueHeld' /\ QueueCounts'
    BY <1>2, <1>4, <1>6, HeldSame
  <1>8. Status'
    BY <1>2 DEF Status, Submitted
  <1>9. task[ev].finished /\ RunFrame(Top(e))
    <2>1. Top(e).ev = ev /\ Top(e).pc \in RunPcs /\ RunFrame(Top(e))
      BY <1>3 DEF RunsOn
    <2> QED
      BY <1>2, <2>1, RunFacts
  <1>10. \A y \in Events : Top(e).todo # <<y>> /\ Top(e).ready # <<y>>
    <2>1. \A y \in Events : <<>> # <<y>>
      OBVIOUS
    <2> QED
      BY <2>1, <1>2, <1>9 DEF RunFrame
  <1>11. \A y \in Events : /\ OnNode(ev, y) <=> task[ev].succ = <<y>>
                           /\ ToRelease(ev, y)' <=> task[ev].succ = <<y>>
                           /\ ~OnNode(ev, y)' /\ ~Fetched(ev, y) /\ (ToRelease(ev, y)' => Fetched(ev, y)')
    BY <1>2, <1>4, <1>9, <1>10 DEF OnNode
  <1>12. \A p, y \in Events : p # ev => (OnNode(p, y)' <=> OnNode(p, y))
    BY <1>2, <1>4 DEF OnNode
  <1>13. \A p, y \in Events : Chained(p, y) => Chained(p, y)'
    BY <1>4, <1>11, <1>12 DEF Chained
  <1>14. \A p, y \in Events : OnNode(p, y)' \/ ToRelease(p, y)' => OnNode(p, y) \/ ToRelease(p, y)
    BY <1>4, <1>11, <1>12
  <1>15. \A p, y \in Events : OnNode(p, y) /\ ~task[p].finished => OnNode(p, y)'
    BY <1>9, <1>12
  <1>16. \A y \in Events : task'[y].nPred = task[y].nPred /\ (task[y].finished => task'[y].finished)
    BY <1>2
  <1> QED
    BY <1>3, <1>7, <1>8, <1>13, <1>14, <1>15, <1>16, RunPlaces

\* gnode_release_ready: the fetch_sub finds the counter at one, for the edge is
\* counted before its predecessor can get here.
LEMMA GnodeReleaseReadyPlaces ==
    ASSUME Inv, PlacesInv, NEW e \in Executors, GnodeReleaseReady(e)
    PROVE  PlacesInv'
  <1> Status /\ Predecessors /\ CountEdge /\ EnqueueHeld
    BY DEF PlacesInv
  <1> ChainOrder
    BY DEF Inv, ChainInv
  <1>1. PICK ev \in Events : \E f :
                 /\ RunsOn(e, ev, f) /\ UNCHANGED <<queue, event, log>> /\ Top(e).pc = "release"
                 /\ \A p \in Events : TaskSame(p)
                 /\ \/ task' = task /\ f.todo = <<>> /\ Top(e).todo = <<>> /\ f.ready = Top(e).ready /\ f.pc = "add"
                    \/ \E x \in Events : /\ Top(e).todo = <<x>> /\ f.todo = <<>> /\ f.pc = "release"
                                         /\ task[x].nPred = 1 => f.ready = <<x>>
                                         /\ task'[x].nPred = task[x].nPred - 1
                                         /\ \A p \in Events : p # x => task'[p].nPred = task[p].nPred
    BY GnodeReleaseReadyStep
  <1>2. PICK f : /\ RunsOn(e, ev, f) /\ UNCHANGED <<queue, event, log>> /\ Top(e).pc = "release"
                 /\ \A p \in Events : TaskSame(p)
                 /\ \/ task' = task /\ f.todo = <<>> /\ Top(e).todo = <<>> /\ f.ready = Top(e).ready /\ f.pc = "add"
                    \/ \E x \in Events : /\ Top(e).todo = <<x>> /\ f.todo = <<>> /\ f.pc = "release"
                                         /\ task[x].nPred = 1 => f.ready = <<x>>
                                         /\ task'[x].nPred = task[x].nPred - 1
                                         /\ \A p \in Events : p # x => task'[p].nPred = task[p].nPred
    BY <1>1
  <1>3. RunsOn(e, ev, f) /\ f.pc \in {"release", "add"} /\ f.todo = <<>>
    BY <1>2
  <1>4. /\ \A z \in Executors : stack'[z][1] = stack[z][1]
        /\ AtDequeue(ev) <=> Top(e).pc = "dequeue"
        /\ AtDequeue(ev)' <=> f.pc = "dequeue"
        /\ AtFinish(ev) <=> Top(e).pc = "finish"
        /\ AtFinish(ev)' <=> f.pc = "finish"
        /\ \A y \in Events : /\ ToRelease(ev, y) <=> Top(e).todo = <<y>>
                             /\ ToRelease(ev, y)' <=> f.todo = <<y>>
                             /\ Fetched(ev, y) <=> Top(e).todo = <<y>> \/ Top(e).ready = <<y>>
                             /\ Fetched(ev, y)' <=> f.todo = <<y>> \/ f.ready = <<y>>
        /\ \A p \in Events : p # ev =>
              /\ AtDequeue(p)' <=> AtDequeue(p)
              /\ AtFinish(p)' <=> AtFinish(p)
              /\ \A y \in Events : /\ ToRelease(p, y)' <=> ToRelease(p, y)
                                   /\ Fetched(p, y)' <=> Fetched(p, y)
    BY <1>3, RunsOnFrames
  <1>5. \A x \in Events : (AtDequeue(x)' <=> AtDequeue(x)) /\ (AtFinish(x)' <=> AtFinish(x))
    BY <1>2, <1>3, <1>4
  <1>6. \A x \in Events : (Held(x)' <=> Held(x)) /\ event'[x].q = event[x].q
    BY <1>2, <1>3, <1>5, RunsOnItems
  <1>7. LastHeld' /\ EnqueueHeld' /\ QueueCounts'
    BY <1>2, <1>4, <1>6, HeldSame
  <1>8. Status'
    BY <1>2 DEF Status, Submitted
  <1>9. task[ev].finished /\ RunFrame(Top(e)) /\ RunFrame(f)
    <2>1. Top(e).ev = ev /\ Top(e).pc \in RunPcs /\ RunFrame(Top(e)) /\ RunFrame(f)
      BY <1>3 DEF RunsOn
    <2> QED
      BY <1>2, <2>1, RunFacts
  <1>10. \A p, y \in Events : OnNode(p, y)' <=> OnNode(p, y)
    BY <1>2, <1>5 DEF OnNode, TaskSame
  <1>11. \A y \in Events : <<>> # <<y>>
    OBVIOUS
  <1>12. \A p, y \in Events : OnNode(p, y)' \/ ToRelease(p, y)' => OnNode(p, y) \/ ToRelease(p, y)
    BY <1>3, <1>4, <1>10, <1>11
  <1>13. \A y \in Events : task[y].finished => task'[y].finished
    BY <1>2 DEF TaskSame
  <1>14. CASE task' = task /\ Top(e).todo = <<>> /\ f.ready = Top(e).ready
    <2>1. \A p, y \in Events : Chained(p, y) => Chained(p, y)'
      BY <1>4, <1>10, <1>11, <1>14 DEF Chained
    <2>2. \A y \in Events : task'[y].nPred = task[y].nPred
      BY <1>14
    <2> QED
      BY <2>1, <2>2, <1>3, <1>7, <1>8, <1>10, <1>12, <1>13, RunPlaces
  <1>15. ASSUME NEW s \in Events, Top(e).todo = <<s>>, task[s].nPred = 1 => f.ready = <<s>>,
                task'[s].nPred = task[s].nPred - 1, \A p \in Events : p # s => task'[p].nPred = task[p].nPred
         PROVE  PlacesInv'
    <2>1. ToRelease(ev, s) /\ Chained(ev, s)
      BY <1>4, <1>15 DEF Chained
    <2>2. \A p \in Events : Chained(p, s) => p = ev
      <3> SUFFICES ASSUME NEW p \in Events, Chained(p, s) PROVE p = ev
        OBVIOUS
      <3>1. Follows(s, p) /\ Follows(s, ev)
        BY <2>1 DEF ChainOrder
      <3> QED
        BY <3>1, FollowsOnce
    <2>3. ~Counting(s)
      <3> SUFFICES ASSUME NEW y \in Executors, stack[y][1].pc = "count", stack[y][1].ev = s PROVE FALSE
        BY DEF Counting
      <3>1. PICK p \in Events : stack[y][1].todo = <<p>> /\ OnNode(p, s)
        BY DEF CountEdge
      <3>2. p = ev
        BY <2>2, <3>1 DEF Chained
      <3>3. Held(p)
        BY <3>1 DEF EnqueueHeld, LockPcs
      <3> QED
        BY <3>2, <3>3, <1>9, HeldUnfinished
    <2>4. task[s].nPred = 1 /\ task'[s].nPred = 0 /\ f.ready = <<s>>
      <3>1. task[s].nPred = 1
        BY <2>1, <2>3 DEF Predecessors
      <3> QED
        BY <3>1, <1>15
    <2>5. \A p \in Events : ~OnNode(p, s)' /\ ~ToRelease(p, s)'
      <3> SUFFICES ASSUME NEW p \in Events, OnNode(p, s)' \/ ToRelease(p, s)' PROVE FALSE
        OBVIOUS
      <3>1. p = ev
        <4>1. CASE OnNode(p, s)'
          BY <4>1, <2>2, <1>10 DEF Chained
        <4>2. CASE p # ev /\ ToRelease(p, s)'
          <5>1. ToRelease(p, s)
            BY <4>2, <1>4
          <5>2. Fetched(p, s)
            BY <5>1 DEF ToRelease, Fetched
          <5> QED
            BY <5>2, <2>2 DEF Chained
        <4> QED
          BY <4>1, <4>2
      <3>2. ~OnNode(ev, s)
        BY <1>2, <1>4, <1>9 DEF OnNode
      <3>3. ~ToRelease(ev, s)'
        BY <1>3, <1>4, <1>11
      <3> QED
        BY <3>1, <3>2, <3>3, <1>10
    <2>6. \A p, y \in Events : Chained(p, y) => Chained(p, y)'
      <3> SUFFICES ASSUME NEW p \in Events, NEW y \in Events, Fetched(p, y) PROVE Fetched(p, y)'
        BY <1>10 DEF Chained
      <3>1. CASE p # ev
        BY <3>1, <1>4
      <3>2. CASE p = ev
        <4>1. Top(e).ready = <<>> /\ (<<s>> = <<y>> => s = y)
          BY <1>9, <1>11, <1>15 DEF RunFrame
        <4>2. y = s
          BY <3>2, <4>1, <1>4, <1>11, <1>15
        <4> QED
          BY <3>2, <4>2, <2>4, <1>4
      <3> QED
        BY <3>1, <3>2
    <2>7. \A y \in Events : \/ task'[y].nPred = task[y].nPred
                            \/ task'[y].nPred = 0 /\ \A p \in Events : ~OnNode(p, y)' /\ ~ToRelease(p, y)'
      BY <2>4, <2>5, <1>15
    <2> QED
      BY <2>6, <2>7, <1>3, <1>7, <1>8, <1>10, <1>12, <1>13, RunPlaces
  <1> QED
    BY <1>2, <1>14, <1>15

\* The end of kupl_task_finish: the run leaves the stack and the count.
LEMMA TaskFinishDerefPlaces ==
    ASSUME Inv, PlacesInv, NEW e \in Executors, TaskFinishDeref(e)
    PROVE  /\ PlacesInv' /\ UNCHANGED <<users, queue, event, log>>
           /\ \A z \in Executors : stack'[z][1] = stack[z][1]
  <1> /\ Status /\ LastHeld /\ EnqueueHeld /\ CountEdge /\ Predecessors
      /\ Placed /\ InRun /\ QueueCounts /\ GraphCounts
    BY DEF PlacesInv
  <1> TypeOK /\ UserShape /\ RunShape /\ OneRun /\ ReadyOrder
    BY DEF Inv, CallsInv, ChainInv
  <1>1. Top(e).pc = "add" /\ Top(e).pc \in RunPcs /\ Top(e).ready = <<>>
    BY DEF TaskFinishDeref, At, RunPcs
  <1>2. PICK ev, m : ev \in Events /\ ev = Top(e).ev /\ m = Len(stack[e])
    BY <1>1, RunFacts
  <1> ev \in Events
    BY <1>2
  <1>3. /\ task' = [task EXCEPT ![ev] = Deref(task[ev])] /\ count' = count - 1
        /\ stack' = [stack EXCEPT ![e] = SubSeq(@, 1, Len(@) - 1)]
        /\ UNCHANGED <<users, queue, event, ready, schedFull, log>>
    BY <1>2 DEF TaskFinishDeref
  <1>4. Pops(e)
    BY <1>1, <1>3, PopMoves
  <1>5. /\ m \in DOMAIN stack[e] /\ m # 1 /\ stack[e][m] = Top(e) /\ 1 \in DOMAIN stack[e]
        /\ DOMAIN stack'[e] = DOMAIN stack[e] \ {m}
        /\ \A d \in DOMAIN stack'[e] : stack'[e][d] = stack[e][d]
        /\ \A x \in Executors : x # e => stack'[x] = stack[x]
    BY <1>2, <1>4 DEF Pops
  <1>6. /\ Top(e).todo = <<>> /\ task[ev].finished /\ InFrame(e, m, ev) /\ log[event[ev].item].begun = 1
    <2>1. RunFrame(Top(e)) /\ InFrame(e, m, ev) /\ log[event[ev].item].begun = 1
      BY <1>1, <1>2, RunFacts
    <2>2. task[ev].finished
      BY <1>1, <1>2, RunFacts
    <2> QED
      BY <2>1, <2>2, <1>1 DEF RunFrame
  <1>7. \A x \in Events : TaskSame(x) /\ task'[x].nPred = task[x].nPred
    BY <1>3, DerefType, DerefKeeps DEF TypeOK, TaskSame
  <1>8. \A z \in Executors : /\ stack'[z][1] = stack[z][1]
                             /\ \A d \in DOMAIN stack'[z] : d \in DOMAIN stack[z] /\ stack'[z][d] = stack[z][d]
                             /\ \A d \in DOMAIN stack[z] : d \in DOMAIN stack'[z] <=> ~(z = e /\ d = m)
    BY <1>5
  <1>9. \A z \in Executors, x \in Events : \A d : InFrame(z, d, x)' <=> InFrame(z, d, x) /\ ~(z = e /\ d = m)
    BY <1>8 DEF InFrame
  <1>10. \A x \in Events : Running(x)' <=> Running(x) /\ x # ev
    <2>1. \A z \in Executors : \A d : InFrame(z, d, ev) => z = e /\ d = m
      BY <1>6 DEF InFrame, OneRun
    <2>2. ~Running(ev)'
      BY <2>1, <1>9 DEF Running
    <2>3. \A x \in Events : x # ev => ~InFrame(e, m, x)
      BY <1>2, <1>5 DEF InFrame
    <2>4. \A x \in Events : x # ev => (Running(x)' <=> Running(x))
      BY <2>3, <1>8, <1>9 DEF Running, InFrame
    <2> QED
      BY <2>2, <2>4
  <1>11. \A x \in Events : (AtDequeue(x)' <=> AtDequeue(x)) /\ (AtFinish(x)' <=> AtFinish(x))
    <2>1. \A z \in Executors : \A d \in DOMAIN stack[z] : stack[z][d].pc # "add" =>
             d \in DOMAIN stack'[z] /\ stack'[z][d] = stack[z][d]
      BY <1>1, <1>5, <1>8
    <2> QED
      BY <2>1, <1>8 DEF AtDequeue, AtFinish, InFrame
  <1>12. \A p, y \in Events : (ToRelease(p, y)' <=> ToRelease(p, y)) /\ (Fetched(p, y)' <=> Fetched(p, y))
    <2> SUFFICES ASSUME NEW p \in Events, NEW y \in Events
                 PROVE  (ToRelease(p, y)' <=> ToRelease(p, y)) /\ (Fetched(p, y)' <=> Fetched(p, y))
      OBVIOUS
    <2>1. <<>> # <<y>>
      OBVIOUS
    <2>2. \A z \in Executors : \A d \in DOMAIN stack[z] : stack[z][d].todo = <<y>> \/ stack[z][d].ready = <<y>> =>
             d \in DOMAIN stack'[z] /\ stack'[z][d] = stack[z][d]
      BY <2>1, <1>1, <1>5, <1>6, <1>8
    <2> QED
      BY <2>2, <1>8 DEF ToRelease, Fetched, InFrame
  <1>13. \A x \in Events : /\ Submitted(x)' <=> Submitted(x)
                           /\ Held(x)' <=> Held(x)
                           /\ NotBegun(x)' <=> NotBegun(x)
    BY <1>3, <1>11 DEF Submitted, Held, NotBegun
  <1>14. \A p, y \in Events : (OnNode(p, y)' <=> OnNode(p, y)) /\ (Chained(p, y)' <=> Chained(p, y))
    BY <1>7, <1>11, <1>12 DEF OnNode, Chained, TaskSame
  <1>15. Status'
    BY <1>3, <1>13 DEF Status
  <1>16. LastHeld' /\ EnqueueHeld' /\ QueueCounts'
    BY <1>3, <1>8, <1>13, HeldSame
  <1>17. CountEdge'
    BY <1>8, <1>14 DEF CountEdge
  <1>18. Predecessors'
    <2>1. \A x \in Events : (Uncounted(x)' <=> Uncounted(x)) /\ (Counting(x)' <=> Counting(x))
      BY <1>8 DEF Uncounted, Counting, Enqueuing
    <2> QED
      BY <2>1, <1>7, <1>12, <1>14 DEF Predecessors
  <1>19. Placed'
    <2>1. \A z \in Executors, x \in Events : Enqueuing(z, x)' <=> Enqueuing(z, x)
      BY <1>8 DEF Enqueuing
    <2> QED
      BY <2>1, <1>3, <1>13, <1>14 DEF Placed
  <1>20. InRun'
    BY <1>3, <1>6, <1>7, <1>10, <1>13 DEF InRun, TaskSame
  <1>21. GraphCounts'
    <2>1. ready[ev] = 0
      BY <1>6 DEF ReadyOrder, NotBegun
    <2>2. PICK S : S = Active
      OBVIOUS
    <2>3. IsFiniteSet(S) /\ count = Cardinality(S)
      BY <2>2 DEF GraphCounts
    <2>4. Running(ev)
      BY <1>5, <1>6 DEF Running
    <2>5. Active' = S \ {ev} /\ ev \in S
      BY <2>1, <2>2, <2>4, <1>3, <1>10 DEF Active
    <2>6. IsFiniteSet(S \ {ev}) /\ Cardinality(S \ {ev}) = Cardinality(S) - 1
      BY <2>3, <2>5, FS_RemoveElement
    <2> QED
      BY <2>3, <2>5, <2>6, <1>3 DEF GraphCounts
  <1> QED
    BY <1>3, <1>8, <1>15, <1>16, <1>17, <1>18, <1>19, <1>20, <1>21 DEF PlacesInv

\* A ready task is taken from the scheduler.
LEMMA SchedExecuteTbPlaces ==
    ASSUME Inv, PlacesInv, NEW e \in Executors, NEW x \in Events, SchedExecuteTb(e, x)
    PROVE  PlacesInv'
  <1>1. PICK f : Hands(e, f, x) /\ Gives(e, f, x) /\ ready[x] # 0 /\ count' = count
    BY SchedExecuteTbStep
  <1> QED
    BY <1>1, HandsPlaces

\* The successor of a finished task is handed to the scheduler.
LEMMA TaskFinishAddPlaces ==
    ASSUME Inv, PlacesInv, NEW e \in Executors, TaskFinishAdd(e)
    PROVE  PlacesInv'
  <1>1. PICK x \in Events : \E f : Hands(e, f, x) /\ Gives(e, f, x) /\ ready[x] = 0 /\ count' = count + 1
    BY TaskFinishAddStep
  <1>2. PICK f : Hands(e, f, x) /\ Gives(e, f, x) /\ ready[x] = 0 /\ count' = count + 1
    BY <1>1
  <1> QED
    BY <1>2, HandsPlaces

-----------------------------------------------------------------------------
(* No item is lost *)

\* Nothing is submitted at first.
LEMMA InitPlaces == ASSUME Init PROVE PlacesInv
  <1>1. User.pc = "call"
    BY DEF User
  <1>2. \A e \in Executors : DOMAIN stack[e] = {1} /\ stack[e][1] = User /\ stack[e][1].pc = "call"
    <2>1. <<User>> # <<>> /\ DOMAIN <<User>> = {1} /\ <<User>>[1] = User
      OBVIOUS
    <2>2. stack = [e \in Executors |-> <<User>>]
      BY DEF Init
    <2> QED
      BY <2>1, <2>2, <1>1
  <1>3. \A x \in Events : event[x].item = 0 /\ event[x].status = "CREATED" /\ task[x].nPred = 0 /\ task[x].succ = <<>> /\ ready[x] = 0
    BY DEF Init, NoEvent, NoTask
  <1>4. \A q \in Queues : queue[q].last = None /\ queue[q].events = 0
    BY DEF Init, NoQueue, NewQueue
  <1>5. \A x \in Events : ~Submitted(x) /\ ~Held(x) /\ ~NotBegun(x)
    BY <1>3 DEF Submitted, Held, NotBegun
  <1>6. \A x, p \in Events : ~Running(x) /\ ~ToRelease(p, x)
    BY <1>2 DEF Running, ToRelease, InFrame
  <1>7. \A x, p \in Events : ~OnNode(p, x)
    BY <1>3 DEF OnNode
  <1>8. Status /\ LastHeld
    BY <1>3, <1>4, <1>5, NamesAssumption DEF Status, LastHeld
  <1>9. EnqueueHeld /\ CountEdge
    BY <1>2 DEF EnqueueHeld, CountEdge, LockPcs
  <1>10. Predecessors
    BY <1>2, <1>3, <1>6, <1>7 DEF Predecessors
  <1>11. Placed /\ InRun
    BY <1>5 DEF Placed, InRun
  <1>12. QueueCounts
    <2>1. \A q \in Queues : InQueue(q) = {}
      BY <1>5 DEF InQueue
    <2> QED
      BY <2>1, <1>4, FS_EmptySet DEF QueueCounts
  <1>13. GraphCounts
    <2>1. Active = {}
      BY <1>3, <1>6 DEF Active
    <2>2. count = 0
      BY DEF Init
    <2> QED
      BY <2>1, <2>2, FS_EmptySet DEF GraphCounts
  <1> QED
    BY <1>8, <1>9, <1>10, <1>11, <1>12, <1>13 DEF PlacesInv

\* A step that changes nothing.
LEMMA StutterPlaces == ASSUME PlacesInv, UNCHANGED vars PROVE PlacesInv'
  <1>1. /\ stack' = stack /\ queue' = queue /\ event' = event /\ task' = task
        /\ ready' = ready /\ count' = count /\ log' = log
    BY DEF vars, users, sched
  <1>2. Items' = Items
    BY <1>1 DEF Items
  <1>3. \A x \in Events : /\ Submitted(x)' <=> Submitted(x)
                          /\ Held(x)' <=> Held(x)
                          /\ NotBegun(x)' <=> NotBegun(x)
                          /\ Running(x)' <=> Running(x)
                          /\ Counting(x)' <=> Counting(x)
                          /\ Uncounted(x)' <=> Uncounted(x)
    BY <1>1 DEF Submitted, Held, AtDequeue, NotBegun, Running, InFrame, Counting, Uncounted, Enqueuing
  <1>4. \A x, p \in Events : /\ ToRelease(p, x)' <=> ToRelease(p, x)
                             /\ OnNode(p, x)' <=> OnNode(p, x)
                             /\ Chained(p, x)' <=> Chained(p, x)
    BY <1>1 DEF ToRelease, OnNode, Chained, Fetched, AtFinish, InFrame
  <1>5. Status' /\ LastHeld' /\ EnqueueHeld' /\ CountEdge'
    BY <1>1, <1>3, <1>4 DEF PlacesInv, Status, LastHeld, EnqueueHeld, CountEdge
  <1>6. Predecessors' /\ Placed' /\ InRun'
    BY <1>1, <1>3, <1>4 DEF PlacesInv, Predecessors, Placed, InRun, Enqueuing
  <1>7. QueueCounts'
    <2>1. \A q \in Queues : InQueue(q)' = InQueue(q)
      BY <1>1, <1>3 DEF InQueue
    <2> QED
      BY <1>1, <2>1 DEF PlacesInv, QueueCounts
  <1>8. GraphCounts'
    BY <1>1, <1>3, GraphCountsSame DEF PlacesInv
  <1> QED
    BY <1>5, <1>6, <1>7, <1>8 DEF PlacesInv

\* Every step of every executor.
LEMMA StepPlaces == ASSUME Inv, PlacesInv, NEW e \in Executors, Step(e) PROVE PlacesInv'
  <1>1. Inv'
    BY StepInv
  <1>2. CASE CallStep(e)
    <2>1. CASE QueueSubmit(e) \/ QueueSubmitLambda(e) \/ EventRecord(e)
      BY <1>1, <2>1, SubmitPlaces
    <2>2. CASE QueueSubmitSync(e)
      BY <1>1, <2>2, QueueSubmitSyncPlaces
    <2>3. CASE QueueCreate(e) \/ QueueAcquire(e)
      BY <1>1, <2>3, QueueCreatePlaces
    <2>4. CASE EventCreate(e)
      BY <1>1, <2>4, EventCreatePlaces
    <2>5. CASE Refused(e) \/ EventQuery(e) \/ GraphWait(e) \/ EventDestroy(e)
      <3>1. Still(e)
        BY <2>5, StillReturns
      <3> QED
        BY <1>1, <3>1, StillPlaces
    <2>6. CASE EventWait(e) \/ QueueWaitBegin(e)
      <3>1. Still(e)
        BY <2>6, StillBegins
      <3> QED
        BY <1>1, <3>1, StillPlaces
    <2>7. CASE \E q \in Queues : QueueWait(e, q)
      <3>1. PICK q \in Queues : QueueWait(e, q)
        BY <2>7
      <3>2. Still(e)
        BY <3>1, StillQueueWait
      <3> QED
        BY <1>1, <3>2, StillPlaces
    <2>8. CASE TaskWait(e)
      <3>1. Still(e)
        BY <2>8, StillTaskWait
      <3> QED
        BY <1>1, <3>1, StillPlaces
    <2>9. CASE QueueWaitEnd(e)
      <3>1. Still(e)
        BY <2>9, StillQueueWaitEnd
      <3> QED
        BY <1>1, <3>1, StillPlaces
    <2> QED
      BY <1>2, <2>1, <2>2, <2>3, <2>4, <2>5, <2>6, <2>7, <2>8, <2>9, NoQueueWaitEvent DEF CallStep
  <1>3. CASE EnqueueStep(e)
    BY <1>1, <1>3, EnqueueEventPlaces, GnodePrecedeLockPlaces, GnodePrecedeInsertPlaces, GnodePrecedeCountPlaces,
       EventSubmitPlaces, EnqueueUnlockPlaces DEF EnqueueStep
  <1>4. CASE RunStep(e)
    BY <1>4, SchedExecuteTbPlaces, EventFuncPlaces, DequeueEventPlaces, TaskExecutePlaces, TaskFinishPlaces,
       GnodeReleaseReadyPlaces, TaskFinishAddPlaces, TaskFinishDerefPlaces DEF RunStep
  <1> QED
    BY <1>2, <1>3, <1>4 DEF Step

PlacesIInv == IInv /\ (Disciplined(scenario) => PlacesInv)

\* The inductive invariant of the places of the items.
THEOREM SpecPlacesIInv == Spec => []PlacesIInv
  <1>1. Init => PlacesIInv
    BY InitIInv, InitPlaces DEF PlacesIInv
  <1>2. PlacesIInv /\ [Next]_vars => PlacesIInv'
    <2> SUFFICES ASSUME PlacesIInv, [Next]_vars PROVE PlacesIInv'
      OBVIOUS
    <2>1. scenario' = scenario /\ IInv /\ IInv'
      BY ScenarioKept, NextIInv DEF PlacesIInv
    <2>2. Disciplined(scenario)' => Disciplined(scenario)
      BY <2>1 DEF Disciplined, Agree
    <2>3. ASSUME Disciplined(scenario) PROVE PlacesInv'
      <3>1. Inv /\ PlacesInv
        BY <2>3 DEF PlacesIInv, IInv
      <3>2. CASE UNCHANGED vars
        BY <3>1, <3>2, StutterPlaces
      <3>3. CASE Next
        BY <3>1, <3>3, StepPlaces DEF Next
      <3> QED
        BY <3>2, <3>3
    <2> QED
      BY <2>1, <2>2, <2>3 DEF PlacesIInv
  <1> QED
    BY <1>1, <1>2, PTL DEF Spec

\* No item is lost: one that has not begun is with its enqueuer, behind another item
\* or in the scheduler, and one that has begun is in a frame until its task is finished
\* (kupl_event_submit, kupl_gnode_precede, gnode_release_ready, kupl_task_finish);
\* num_events of every queue (kupl_enqueue_event, kupl_dequeue_event) and count of the
\* global graph (kupl_sched_add_tb, kupl_task_finish) are exactly what they count.
THEOREM SpecNothingLost ==
    Spec => [](Disciplined(scenario) => Placed /\ InRun /\ QueueCounts /\ GraphCounts)
  <1>1. PlacesIInv => (Disciplined(scenario) => Placed /\ InRun /\ QueueCounts /\ GraphCounts)
    BY DEF PlacesIInv, PlacesInv
  <1> QED
    BY <1>1, SpecPlacesIInv, PTL

-----------------------------------------------------------------------------
(* What the waits have waited for *)

\* An item that is added comes from the call its executor is in.
NewFrom(k) ==
    \E e \in Executors : /\ log'[k].by = e /\ log'[k].at = ip[e] /\ log'[k].q = Call(e).q
                         /\ ip[e] \in DOMAIN Calls(e) /\ Call(e).op \in Submits
Later == /\ scenario' = scenario /\ Grows /\ ItemsKept
         /\ \A k \in Items' : k \in Items \/ NewFrom(k)

\* A call waits for what its caller submitted before.
LEMMA AwaitedMine ==
    ASSUME NEW e, NEW i, NEW j \in Awaited(e, i)
    PROVE  j \in Items /\ log[j].by = e /\ log[j].at < i
  BY DEF Awaited

\* The same after a step.
LEMMA AwaitedMineNext ==
    ASSUME NEW e, NEW i, NEW j \in Awaited(e, i)'
    PROVE  j \in Items' /\ log'[j].by = e /\ log'[j].at < i
  BY DEF Awaited

\* It still waits for the same items.
LEMMA AwaitedKept ==
    ASSUME scenario' = scenario, Grows, NEW e, NEW i, NEW j \in Items, j \in Awaited(e, i)'
    PROVE  j \in Awaited(e, i)
  <1>1. Calls(e)' = Calls(e)
    BY DEF Calls
  <1>2. /\ log'[j].q = log[j].q /\ log'[j].ev = log[j].ev
        /\ log'[j].by = log[j].by /\ log'[j].at = log[j].at
    BY DEF Grows, SameCall
  <1> QED
    BY <1>1, <1>2 DEF Awaited

\* Waits that have returned stay done; a call that returns has to be done.
LEMMA DoneKept ==
    ASSUME Inv, WaitMeansDone, Later,
           \A z \in Executors : \/ ip'[z] = ip[z]
                                \/ /\ ip'[z] = ip[z] + 1
                                   /\ \A j \in Awaited(z, ip[z]) : log[j].ended = 1
    PROVE  WaitMeansDone'
  <1> SUFFICES ASSUME NEW z \in Executors, NEW i \in 1 .. (ip'[z] - 1), NEW j \in Awaited(z, i)'
               PROVE  log'[j].ended = 1
    BY DEF WaitMeansDone
  <1>1. ip[z] \in Nat \ {0} /\ (ip'[z] = ip[z] \/ ip'[z] = ip[z] + 1)
    BY DEF Inv, TypeOK
  <1>2. i \in Nat /\ i <= ip[z] /\ 1 <= i
    BY <1>1
  <1>3. j \in Items' /\ log'[j].by = z /\ log'[j].at < i
    BY AwaitedMineNext
  <1>4. j \in Items
    <2>1. CASE NewFrom(j)
      BY <2>1, <1>1, <1>2, <1>3 DEF NewFrom
    <2> QED
      BY <1>3, <2>1 DEF Later
  <1>5. j \in Awaited(z, i)
    BY <1>4, AwaitedKept DEF Later
  <1>6. log[j].ended = 1
    <2>1. CASE i = ip[z]
      <3>1. ip'[z] # ip[z]
        BY <2>1, <1>1
      <3> QED
        BY <2>1, <3>1, <1>5
    <2>2. CASE i # ip[z]
      <3>1. i \in 1 .. (ip[z] - 1)
        BY <2>2, <1>1, <1>2
      <3> QED
        BY <3>1, <1>5 DEF WaitMeansDone
    <2> QED
      BY <2>1, <2>2
  <1> QED
    BY <1>4, <1>6 DEF Later, Grows

\* A wait in progress goes on.
LEMMA WaitingKept ==
    ASSUME Inv, NEW z \in Executors, WaitingOn(z), Later, ip'[z] = ip[z], stack'[z][1] = stack[z][1]
    PROVE  WaitingOn(z)'
  <1>1. PICK f, i : f = stack[z][1] /\ i = ip[z]
    OBVIOUS
  <1>2. Calls(z)' = Calls(z) /\ Call(z)' = Call(z)
    BY DEF Later, Calls, Call
  <1>3. f.pc = "twait" => f.ev \in Events /\ Submitted(f.ev) /\ Submitted(f.ev)' /\ SameItem(f.ev)
    BY <1>1 DEF WaitingOn, Later, ItemsKept, SameItem, Submitted
  <1>4. ASSUME f.pc \in WaitPcs, Call(z).op \in QueueWaits, NEW j \in Awaited(z, i)'
        PROVE  \/ log'[j].ended = 1 \/ log'[j].q \in f.qs
               \/ f.pc = "twait" /\ event'[f.ev].q = log'[j].q /\ j <= event'[f.ev].item
    <2>1. j \in Items' /\ log'[j].by = z /\ log'[j].at < i
      BY <1>4, AwaitedMineNext
    <2>2. i \in Nat
      BY <1>1 DEF Inv, TypeOK
    <2>3. j \in Items
      <3>1. CASE NewFrom(j)
        BY <3>1, <1>1, <2>1, <2>2 DEF NewFrom
      <3> QED
        BY <2>1, <3>1 DEF Later
    <2>4. j \in Awaited(z, i)
      BY <1>4, <2>3, AwaitedKept DEF Later
    <2>5. \/ log[j].ended = 1 \/ log[j].q \in f.qs
          \/ f.pc = "twait" /\ event[f.ev].q = log[j].q /\ j <= event[f.ev].item
      BY <1>1, <1>4, <2>4 DEF WaitingOn
    <2>6. log'[j].q = log[j].q /\ (log[j].ended = 1 => log'[j].ended = 1)
      BY <2>3 DEF Later, Grows, SameCall
    <2> QED
      BY <1>3, <2>5, <2>6 DEF SameItem
  <1>5. /\ f.pc \in WaitPcs => i \in DOMAIN Calls(z)
        /\ f.pc = "qwait" => Call(z).op \in QueueWaits
        /\ f.pc = "twait" => Call(z).op \in QueueWaits \/ (Call(z).op = "event_wait" /\ f.ev = Call(z).ev)
    BY <1>1 DEF WaitingOn
  <1>6. stack'[z][1] = f /\ ip'[z] = i
    BY <1>1
  <1> QED
    BY <1>2, <1>3, <1>4, <1>5, <1>6 DEF WaitingOn

\* An executor that does not wait.
LEMMA NotWaiting ==
    ASSUME NEW z, stack'[z][1].pc \notin WaitPcs
    PROVE  WaitingOn(z)'
  BY DEF WaitingOn, WaitPcs

\* A queue that a thread has acquired stays in the table.
LEMMA TableKept ==
    ASSUME Inv, Later, NEW z \in Executors, NEW q \in Queues, TableOf(z, q),
           HasAcquired(z, q)' => HasAcquired(z, q), ip[z] <= ip'[z], ip'[z] \in Nat,
           queue[q].acquired => queue'[q].acquired,
           Destroying(z, q) => \/ Destroying(z, q)'
                               \/ \A j \in Items : log[j].by = z /\ log[j].q = q => log[j].ended = 1
    PROVE  TableOf(z, q)'
  <1> SUFFICES ASSUME HasAcquired(z, q)' PROVE
                 /\ WillSubmit(z, q)' => queue'[q].acquired
                 /\ \A j \in Items' : log'[j].by = z /\ log'[j].q = q =>
                       queue'[q].acquired \/ log'[j].ended = 1 \/ Destroying(z, q)'
    BY DEF TableOf
  <1>1. HasAcquired(z, q) /\ Calls(z)' = Calls(z)
    BY DEF Later, Calls
  <1>2. ip[z] \in Nat /\ \A d \in DOMAIN Calls(z) : d \in Nat
    BY CallTypes DEF Inv, TypeOK
  <1>3. WillSubmit(z, q)' => WillSubmit(z, q)
    BY <1>1, <1>2 DEF WillSubmit
  <1>4. ASSUME NEW j \in Items', log'[j].by = z, log'[j].q = q
        PROVE  queue'[q].acquired \/ log'[j].ended = 1 \/ Destroying(z, q)'
    <2>1. CASE j \in Items
      <3>1. log[j].by = z /\ log[j].q = q /\ (log[j].ended = 1 => log'[j].ended = 1)
        BY <1>4, <2>1 DEF Later, Grows, SameCall
      <3> QED
        BY <1>1, <2>1, <3>1 DEF TableOf
    <2>2. CASE NewFrom(j)
      <3>1. WillSubmit(z, q)
        BY <1>2, <1>4, <2>2 DEF NewFrom, WillSubmit, Call
      <3> QED
        BY <1>1, <3>1 DEF TableOf
    <2> QED
      BY <2>1, <2>2 DEF Later
  <1> QED
    BY <1>1, <1>3, <1>4 DEF TableOf

\* A step of an enqueue or of a run, in which no call is made or returns.
LEMMA PlainWaits ==
    ASSUME Inv, WaitsInv, Later, ip' = ip, \A q \in Queues : queue'[q].acquired = queue[q].acquired,
           \A z \in Executors : \/ stack'[z][1] = stack[z][1]
                                \/ stack[z][1].pc \in EnqueuePcs /\ stack'[z][1].pc \in EnqueuePcs
    PROVE  WaitsInv'
  <1> Waiting /\ InTable /\ WaitMeansDone
    BY DEF WaitsInv
  <1>1. WaitMeansDone'
    BY DoneKept
  <1>2. ASSUME NEW z \in Executors PROVE WaitingOn(z)'
    <2>1. CASE stack'[z][1] = stack[z][1]
      BY <2>1, WaitingKept DEF Waiting
    <2>2. CASE stack'[z][1].pc \in EnqueuePcs
      <3>1. stack'[z][1].pc \notin WaitPcs
        BY <2>2 DEF EnqueuePcs, LockPcs, WaitPcs
      <3> QED
        BY <3>1, NotWaiting
    <2> QED
      BY <2>1, <2>2
  <1>3. ASSUME NEW z \in Executors, NEW q \in Queues PROVE TableOf(z, q)'
    <2>1. Calls(z)' = Calls(z) /\ Call(z)' = Call(z)
      BY DEF Later, Calls, Call
    <2>2. HasAcquired(z, q)' => HasAcquired(z, q)
      BY <2>1 DEF HasAcquired
    <2>3. ip'[z] = ip[z] /\ ip[z] \in Nat /\ ip[z] <= ip'[z]
      BY DEF Inv, TypeOK
    <2>4. Destroying(z, q) => Destroying(z, q)'
      <3>1. stack[z][1].pc \in WaitPcs => stack'[z][1] = stack[z][1]
        BY DEF WaitPcs, EnqueuePcs, LockPcs
      <3> QED
        BY <3>1, <2>1 DEF Destroying
    <2>5. TableOf(z, q) /\ (queue[q].acquired => queue'[q].acquired)
      BY DEF InTable
    <2> QED
      BY <2>2, <2>3, <2>4, <2>5, TableKept
  <1> QED
    BY <1>1, <1>2, <1>3 DEF WaitsInv, Waiting, InTable

\* A call of e outside of an enqueue: the waits of the others go on.
LEMMA CallDone ==
    ASSUME Inv, WaitsInv, Later, NEW e \in Executors, Outside(e), WaitingOn(e)',
           ip' = ip \/ \A j \in Awaited(e, ip[e]) : log[j].ended = 1
    PROVE  Waiting' /\ WaitMeansDone'
  <1> Waiting /\ WaitMeansDone
    BY DEF WaitsInv
  <1>1. ip \in [Executors -> Nat \ {0}]
    BY DEF Inv, TypeOK
  <1>2. \A z \in Executors : z # e => ip'[z] = ip[z] /\ stack'[z] = stack[z]
    BY <1>1 DEF Outside
  <1>3. ip' = ip \/ ip'[e] = ip[e] + 1
    BY <1>1 DEF Outside
  <1>4. WaitMeansDone'
    BY <1>2, <1>3, DoneKept
  <1>5. ASSUME NEW z \in Executors, z # e PROVE WaitingOn(z)'
    <2>1. WaitingOn(z) /\ ip'[z] = ip[z] /\ stack'[z][1] = stack[z][1]
      BY <1>2, <1>5 DEF Waiting
    <2> QED
      BY <2>1, WaitingKept
  <1> QED
    BY <1>4, <1>5 DEF Waiting

\* A call of e that takes nothing out of the table.
LEMMA CallTable ==
    ASSUME Inv, WaitsInv, Later, NEW e \in Executors, Outside(e), NEW z \in Executors, NEW q \in Queues,
           ip' = ip \/ Call(e).op # "queue_acquire" \/ Call(e).q # q, queue[q].acquired => queue'[q].acquired,
           Destroying(e, q) => \/ Destroying(e, q)'
                               \/ \A j \in Items : log[j].by = e /\ log[j].q = q => log[j].ended = 1
    PROVE  TableOf(z, q)'
  <1>1. ip \in [Executors -> Nat \ {0}]
    BY DEF Inv, TypeOK
  <1>2. Calls(z)' = Calls(z)
    BY DEF Later, Calls
  <1>3. z # e => ip'[z] = ip[z] /\ stack'[z] = stack[z] /\ Call(z)' = Call(z)
    BY <1>1, <1>2 DEF Outside, Call
  <1>4. ip[z] <= ip'[z] /\ ip'[z] \in Nat
    BY <1>1 DEF Outside
  <1>5. HasAcquired(z, q)' => HasAcquired(z, q)
    <2>1. CASE ip'[z] = ip[z]
      BY <2>1, <1>2 DEF HasAcquired
    <2>2. CASE z = e /\ ip'[e] = ip[e] + 1
      <3>1. Call(e).op # "queue_acquire" \/ Call(e).q # q
        BY <2>2, <1>1
      <3>2. ASSUME NEW a \in DOMAIN Calls(e), a < ip'[e], Calls(e)[a].op = "queue_acquire", Calls(e)[a].q = q
            PROVE  a < ip[e]
        <4>1. a # ip[e]
          BY <3>1, <3>2 DEF Call
        <4>2. a \in Nat
          BY CallTypes DEF Inv
        <4> QED
          BY <2>2, <3>2, <4>1, <4>2, <1>1
      <3> QED
        BY <2>2, <3>2, <1>2 DEF HasAcquired
    <2> QED
      BY <2>1, <2>2, <1>1, <1>3 DEF Outside
  <1>6. Destroying(z, q) => \/ Destroying(z, q)'
                            \/ \A j \in Items : log[j].by = z /\ log[j].q = q => log[j].ended = 1
    BY <1>3 DEF Destroying
  <1>7. TableOf(z, q)
    BY DEF WaitsInv, InTable
  <1> QED
    BY <1>4, <1>5, <1>6, <1>7, TableKept

-----------------------------------------------------------------------------
(* The waits while items are enqueued and run *)

\* A run goes on.
LEMMA RunsOnWaits ==
    ASSUME Inv, WaitsInv, NEW e \in Executors, NEW ev \in Events, NEW f, RunsOn(e, ev, f),
           \A q \in Queues : queue'[q].acquired = queue[q].acquired
    PROVE  WaitsInv'
  <1>1. UNCHANGED users /\ ItemsSame /\ LogSame
    BY DEF RunsOn
  <1>2. scenario' = scenario /\ ip' = ip
    BY <1>1 DEF users
  <1>3. Later
    BY <1>1, <1>2, SameGrows DEF Later, LogSame, ItemsSame, ItemsKept
  <1>4. \A z \in Executors : stack'[z][1] = stack[z][1]
    BY RunsOnFrames
  <1> QED
    BY <1>2, <1>3, <1>4, PlainWaits

\* A run is handed over.
LEMMA HandsWaits ==
    ASSUME Inv, WaitsInv, NEW e \in Executors, NEW f, NEW x \in Events, Hands(e, f, x), Gives(e, f, x)
    PROVE  WaitsInv'
  <1>1. UNCHANGED <<users, queue, event, task>> /\ LogSame
    BY DEF Hands
  <1>2. scenario' = scenario /\ ip' = ip /\ queue' = queue /\ event' = event
    BY <1>1 DEF users
  <1>3. Later
    BY <1>1, <1>2, SameGrows DEF Later, LogSame, SameItem, ItemsKept
  <1>4. \A z \in Executors : \/ stack'[z][1] = stack[z][1]
                             \/ stack[z][1].pc \in EnqueuePcs /\ stack'[z][1].pc \in EnqueuePcs
    <2>1. \A z \in Executors : \/ stack'[z][1] = stack[z][1]
                               \/ Enqueuing(z, x) /\ stack'[z][1].pc = "unlock"
      BY HandsFrames
    <2> QED
      BY <2>1 DEF Enqueuing, EnqueuePcs, LockPcs
  <1> QED
    BY <1>2, <1>3, <1>4, PlainWaits

\* A run begins, goes on and ends.
LEMMA RunWaits == ASSUME Inv, PlacesInv, WaitsInv, NEW e \in Executors, RunStep(e) PROVE WaitsInv'
  <1>1. ASSUME NEW x \in Events, SchedExecuteTb(e, x) PROVE WaitsInv'
    <2>1. PICK f : Hands(e, f, x) /\ Gives(e, f, x)
      BY <1>1, SchedExecuteTbStep
    <2> QED
      BY <2>1, HandsWaits
  <1>2. CASE EventFunc(e)
    <2>1. PICK ev \in Events : \E f : RunsOn(e, ev, f) /\ queue' = queue
      BY <1>2, EventFuncStep
    <2> QED
      BY <2>1, RunsOnWaits
  <1>3. CASE DequeueEvent(e)
    <2>1. PICK ev \in Events : \E f : RunsOn(e, ev, f)
      BY <1>3, DequeueEventStep
    <2>2. \A q \in Queues : queue'[q].acquired = queue[q].acquired
      BY <1>3, DequeueEventPlaces
    <2> QED
      BY <2>1, <2>2, RunsOnWaits
  <1>4. CASE TaskExecute(e)
    <2>1. PICK ev \in Events : \E f : RunsOn(e, ev, f) /\ queue' = queue
      BY <1>4, TaskExecuteStep
    <2> QED
      BY <2>1, RunsOnWaits
  <1>5. CASE TaskFinish(e)
    <2>1. PICK ev \in Events : \E f : RunsOn(e, ev, f) /\ queue' = queue
      BY <1>5, TaskFinishStep
    <2> QED
      BY <2>1, RunsOnWaits
  <1>6. CASE GnodeReleaseReady(e)
    <2>1. PICK ev \in Events : \E f : RunsOn(e, ev, f) /\ queue' = queue
      BY <1>6, GnodeReleaseReadyStep
    <2> QED
      BY <2>1, RunsOnWaits
  <1>7. CASE TaskFinishAdd(e)
    <2>1. PICK x \in Events : \E f : Hands(e, f, x) /\ Gives(e, f, x)
      BY <1>7, TaskFinishAddStep
    <2> QED
      BY <2>1, HandsWaits
  <1>8. CASE TaskFinishDeref(e)
    <2>1. UNCHANGED <<users, queue, event, log>> /\ \A z \in Executors : stack'[z][1] = stack[z][1]
      BY <1>8, TaskFinishDerefPlaces
    <2>2. scenario' = scenario /\ ip' = ip /\ queue' = queue /\ event' = event /\ log' = log /\ Items' = Items
      BY <2>1 DEF users, Items
    <2>3. Later
      BY <2>2, ItemTypes DEF Later, Grows, SameCall, ItemsKept, SameItem, Inv
    <2> QED
      BY <2>1, <2>2, <2>3, PlainWaits
  <1> QED
    BY <1>1, <1>2, <1>3, <1>4, <1>5, <1>6, <1>7, <1>8 DEF RunStep

\* An enqueue goes on under the lock of the queue.
LEMMA GnodePrecedeWaits ==
    ASSUME Inv, WaitsInv, NEW e \in Executors,
           GnodePrecedeLock(e) \/ GnodePrecedeInsert(e) \/ GnodePrecedeCount(e) \/ (EventSubmit(e) /\ Top(e).n # 0)
    PROVE  WaitsInv'
  <1> TypeOK /\ UserShape /\ RunShape
    BY DEF Inv, CallsInv, ChainInv
  <1>1. Top(e).pc \in {"preds", "insert", "count"}
    BY DEF GnodePrecedeLock, GnodePrecedeInsert, GnodePrecedeCount, EventSubmit, At
  <1>2. Top(e).pc \in EnqueuePcs /\ Top(e).pc \in UserPcs
    BY <1>1 DEF UserPcs, EnqueuePcs, LockPcs
  <1>3. Top(e) = stack[e][1] /\ Len(stack[e]) = 1 /\ 1 \in DOMAIN stack[e] /\ Top(e) \in FrameSet
    BY <1>2, Tops
  <1>4. PICK f : SetTop(e, f) /\ f.pc \in EnqueuePcs
    <2>1. CASE GnodePrecedeLock(e)
      BY <2>1, <1>2, <1>3 DEF GnodePrecedeLock, FrameSet, EnqueuePcs, LockPcs
    <2>2. CASE GnodePrecedeInsert(e)
      <3>1. PICK f : f = [Top(e) EXCEPT !.pc = "count"]
        OBVIOUS
      <3>2. SetTop(e, f)
        BY <2>2, <3>1 DEF GnodePrecedeInsert
      <3> QED
        BY <1>3, <3>1, <3>2 DEF FrameSet, EnqueuePcs, LockPcs
    <2>3. CASE GnodePrecedeCount(e)
      <3>1. PICK f, t, n : f = [Top(e) EXCEPT !.pc = "preds", !.todo = t, !.n = n] /\ t = Tail(Top(e).todo) /\ n = Top(e).n + 1
        OBVIOUS
      <3>2. SetTop(e, f)
        BY <2>3, <3>1 DEF GnodePrecedeCount
      <3>3. f.pc = "preds"
        BY <1>3, <3>1 DEF FrameSet
      <3> QED
        BY <3>2, <3>3 DEF EnqueuePcs, LockPcs
    <2>4. CASE EventSubmit(e) /\ Top(e).n # 0
      BY <2>4, <1>3 DEF EventSubmit, FrameSet, EnqueuePcs, LockPcs
    <2> QED
      BY <2>1, <2>2, <2>3, <2>4
  <1>5. UNCHANGED <<users, queue, event, log>>
    BY DEF GnodePrecedeLock, GnodePrecedeInsert, GnodePrecedeCount, EventSubmit
  <1>6. scenario' = scenario /\ ip' = ip /\ queue' = queue /\ event' = event /\ log' = log /\ Items' = Items
    BY <1>5 DEF users, Items
  <1>7. Later
    BY <1>6, ItemTypes DEF Later, Grows, SameCall, ItemsKept, SameItem
  <1>8. stack \in [Executors -> Seq(FrameSet)] /\ stack' = [stack EXCEPT ![e][1] = f]
    BY <1>3, <1>4 DEF SetTop, TypeOK
  <1>9. stack'[e][1] = f /\ \A z \in Executors : z # e => stack'[z] = stack[z]
    BY <1>3, <1>8
  <1> QED
    BY <1>2, <1>3, <1>4, <1>6, <1>7, <1>9, PlainWaits

\* An item is enqueued.
LEMMA EnqueueEventWaits == ASSUME Inv, WaitsInv, NEW e \in Executors, EnqueueEvent(e) PROVE WaitsInv'
  <1> TypeOK
    BY DEF Inv
  <1>1. PICK q, ev, n, it, f : EnqueueLocks(e, q, ev, n, it, f)
    BY EnqueueEventLocks
  <1>2. /\ Top(e).pc = "enqueue" /\ Top(e).ev = ev /\ Top(e).q = q
        /\ it.q = q /\ it.by = e /\ it.at = ip[e]
        /\ Items' = Items \cup {n} /\ log'[n] = it /\ Grows
        /\ f.pc = "preds" /\ UserMoves(e, f)
        /\ \A x \in Events : x # ev => event'[x] = event[x]
        /\ UNCHANGED users
    BY <1>1 DEF EnqueueLocks, Adds
  <1>3. Top(e).pc \in EnqueuePcs /\ f.pc \in EnqueuePcs
    BY <1>2 DEF EnqueuePcs, LockPcs
  <1>4. /\ stack[e][1] = Top(e) /\ ip[e] \in DOMAIN Calls(e) /\ Call(e).op \in Submits /\ q = Call(e).q
        /\ q \in Queues /\ ev \in Events /\ ~Submitted(ev)
    BY <1>2, <1>3, EnqueueFacts
  <1>5. scenario' = scenario /\ ip' = ip
    BY <1>2 DEF users
  <1>6. NewFrom(n)
    BY <1>2, <1>4 DEF NewFrom
  <1>7. Later
    BY <1>2, <1>4, <1>5, <1>6 DEF Later, ItemsKept, SameItem
  <1>8. \A z \in Queues : queue'[z].acquired = queue[z].acquired
    <2>1. queue \in [Queues -> QueueSet]
      BY DEF TypeOK
    <2>2. queue' = [queue EXCEPT ![q].lock = e, ![q].events = @ + 1]
      BY <1>2 DEF EnqueueEvent
    <2> QED
      BY <2>1, <2>2 DEF QueueSet
  <1>9. \A z \in Executors : \/ stack'[z][1] = stack[z][1]
                             \/ stack[z][1].pc \in EnqueuePcs /\ stack'[z][1].pc \in EnqueuePcs
    BY <1>2, <1>3, <1>4 DEF UserMoves
  <1> QED
    BY <1>5, <1>7, <1>8, <1>9, PlainWaits

\* The operations that wait for nothing.
LEMMA AwaitsNothing ==
    ASSUME NEW e, NEW i, Calls(e)[i].op \in Submits \cup Creates \cup {"event_create", "event_destroy"}
    PROVE  Awaited(e, i) = {}
  BY DEF Awaited, Submits, Creates

\* A wait that is over has no part in the table.
LEMMA NotDestroying ==
    ASSUME NEW e, stack[e][1].pc \notin WaitPcs
    PROVE  \A q : ~Destroying(e, q)
  BY DEF Destroying

\* The lock of the queue is released and the call returns.
LEMMA EnqueueUnlockWaits == ASSUME Inv, PlacesInv, WaitsInv, NEW e \in Executors, EnqueueUnlock(e) PROVE WaitsInv'
  <1> TypeOK
    BY DEF Inv
  <1>1. /\ stack[e][1].pc = "unlock" /\ UserMoves(e, User) /\ Return(e)
        /\ event' = event /\ log' = log /\ Call(e).op \in Submits
        /\ \A q \in Queues : queue'[q].acquired = queue[q].acquired
    BY EnqueueUnlockPlaces
  <1>2. /\ scenario' = scenario /\ ip' = [ip EXCEPT ![e] = @ + 1] /\ ip \in [Executors -> Nat \ {0}]
        /\ Items' = Items /\ \A z \in Executors : z # e => ip'[z] = ip[z] /\ stack'[z][1] = stack[z][1]
        /\ ip'[e] = ip[e] + 1 /\ \A z \in Executors : ip[z] <= ip'[z] /\ ip'[z] \in Nat
    BY <1>1 DEF Return, TypeOK, UserMoves, Items
  <1>3. Later
    BY <1>1, <1>2, ItemTypes DEF Later, Grows, SameCall, ItemsKept, SameItem
  <1> Waiting /\ InTable /\ WaitMeansDone
    BY DEF WaitsInv
  <1>4. WaitMeansDone'
    <2>1. Awaited(e, ip[e]) = {}
      BY <1>1, AwaitsNothing DEF Call
    <2> QED
      BY <1>2, <1>3, <2>1, DoneKept
  <1>5. ASSUME NEW z \in Executors PROVE WaitingOn(z)'
    <2>1. CASE z = e
      <3>1. stack'[e][1].pc \notin WaitPcs
        BY <1>1, UserType DEF UserMoves, WaitPcs
      <3> QED
        BY <2>1, <3>1, NotWaiting
    <2>2. CASE z # e
      BY <2>2, <1>2, <1>3, WaitingKept DEF Waiting
    <2> QED
      BY <2>1, <2>2
  <1>6. ASSUME NEW z \in Executors, NEW q \in Queues PROVE TableOf(z, q)'
    <2>1. Calls(z)' = Calls(z) /\ (z # e => Call(z)' = Call(z))
      BY <1>2 DEF Calls, Call
    <2>2. HasAcquired(z, q)' => HasAcquired(z, q)
      <3>1. CASE z # e
        BY <2>1, <3>1, <1>2 DEF HasAcquired
      <3>2. CASE z = e
        <4>1. ASSUME NEW a \in DOMAIN Calls(e), a < ip'[e], Calls(e)[a].op = "queue_acquire" PROVE a < ip[e]
          <5>1. a # ip[e]
            BY <4>1, <1>1 DEF Call, Submits
          <5>2. a \in Nat
            BY CallTypes
          <5> QED
            BY <4>1, <5>1, <5>2, <1>2
        <4> QED
          BY <2>1, <3>2, <4>1 DEF HasAcquired
      <3> QED
        BY <3>1, <3>2
    <2>3. Destroying(z, q) => Destroying(z, q)'
      <3>1. CASE z = e
        BY <3>1, <1>1 DEF Destroying, WaitPcs
      <3>2. CASE z # e
        BY <3>2, <2>1, <1>2 DEF Destroying
      <3> QED
        BY <3>1, <3>2
    <2>4. TableOf(z, q)
      BY DEF InTable
    <2> QED
      BY <1>1, <1>2, <1>3, <2>2, <2>3, <2>4, TableKept
  <1> QED
    BY <1>4, <1>5, <1>6 DEF WaitsInv, Waiting, InTable

\* Every step of an enqueue.
LEMMA EnqueueWaits == ASSUME Inv, PlacesInv, WaitsInv, NEW e \in Executors, EnqueueStep(e) PROVE WaitsInv'
  <1>1. CASE EventSubmit(e) /\ Top(e).n = 0
    <2>1. PICK x \in Events : \E f : Hands(e, f, x) /\ Gives(e, f, x)
      BY <1>1, EventSubmitStep
    <2> QED
      BY <2>1, HandsWaits
  <1> QED
    BY <1>1, GnodePrecedeWaits, EnqueueEventWaits, EnqueueUnlockWaits DEF EnqueueStep

-----------------------------------------------------------------------------
(* The waits while calls are made *)

\* A call that goes on to wait for nothing: it returns with what it waited for done.
LEMMA ReturnWaits ==
    ASSUME Inv, WaitsInv, Later, NEW e \in Executors, Outside(e), stack'[e][1].pc \notin WaitPcs,
           Call(e).op # "queue_acquire", \A q \in Queues : queue'[q].acquired = queue[q].acquired,
           ip' = ip \/ \A j \in Awaited(e, ip[e]) : log[j].ended = 1,
           Call(e).op = "queue_destroy" =>
               \A j \in Items : log[j].by = e /\ log[j].q = Call(e).q => log[j].ended = 1
    PROVE  WaitsInv'
  <1>1. Waiting' /\ WaitMeansDone'
    BY NotWaiting, CallDone
  <1>2. ASSUME NEW z \in Executors, NEW q \in Queues PROVE TableOf(z, q)'
    <2>1. Destroying(e, q) => \A j \in Items : log[j].by = e /\ log[j].q = q => log[j].ended = 1
      BY DEF Destroying
    <2> QED
      BY <2>1, CallTable
  <1> QED
    BY <1>1, <1>2 DEF WaitsInv, InTable

\* The items of a step that submits nothing.
LEMMA LogUnchanged ==
    ASSUME Inv, log' = log, scenario' = scenario, ItemsKept
    PROVE  Later
  <1>1. Items' = Items
    BY DEF Items
  <1> QED
    BY <1>1, ItemTypes DEF Later, Grows, SameCall, Inv

\* The submissions begin their enqueue.
LEMMA SubmitWaits ==
    ASSUME Inv, PlacesInv, WaitsInv, Inv', NEW e \in Executors, QueueSubmit(e) \/ QueueSubmitLambda(e) \/ EventRecord(e)
    PROVE  WaitsInv'
  <1>1. /\ Outside(e) /\ ItemsKept /\ UNCHANGED <<users, queue, log>>
        /\ stack'[e][1].pc = "enqueue" /\ Call(e).op \in Submits
    BY SubmitPlaces
  <1>2. scenario' = scenario /\ ip' = ip /\ queue' = queue
    BY <1>1 DEF users
  <1>3. Later
    BY <1>1, <1>2, LogUnchanged
  <1>4. stack'[e][1].pc \notin WaitPcs /\ Call(e).op # "queue_acquire" /\ Call(e).op # "queue_destroy"
    BY <1>1 DEF WaitPcs, Submits
  <1> QED
    BY <1>1, <1>2, <1>3, <1>4, ReturnWaits

\* A function is run by its caller.
LEMMA QueueSubmitSyncWaits ==
    ASSUME Inv, PlacesInv, WaitsInv, Inv', NEW e \in Executors, QueueSubmitSync(e)
    PROVE  WaitsInv'
  <1>1. Outside(e) /\ UNCHANGED <<stack, queue, event>> /\ Call(e).op = "submit"
    BY QueueSubmitSyncPlaces
  <1>2. PICK it \in ItemSet : Adds(Len(log) + 1, it) /\ Grows /\ it.by = e /\ it.at = ip[e] /\ it.q = Call(e).q
    BY QueueSubmitSyncPlaces
  <1>3. ip[e] \in DOMAIN Calls(e) /\ stack[e][1].pc = "call"
    BY AtCallFacts DEF QueueSubmitSync
  <1>4. Call(e).op \in Submits /\ Call(e).op # "queue_acquire" /\ Call(e).op # "queue_destroy" /\ stack'[e][1].pc \notin WaitPcs
    BY <1>1, <1>3 DEF Submits, WaitPcs
  <1>5. Later
    <2>1. \A k \in Items' : k \in Items \/ NewFrom(k)
      BY <1>2, <1>3, <1>4 DEF Adds, NewFrom
    <2> QED
      BY <2>1, <1>1, <1>2 DEF Later, Outside, ItemsKept, SameItem
  <1>6. Awaited(e, ip[e]) = {}
    BY <1>4, AwaitsNothing DEF Call
  <1> QED
    BY <1>1, <1>4, <1>5, <1>6, ReturnWaits

\* An event is created.
LEMMA EventCreateWaits ==
    ASSUME Inv, PlacesInv, WaitsInv, Inv', NEW e \in Executors, EventCreate(e)
    PROVE  WaitsInv'
  <1>1. Outside(e) /\ ItemsKept
    BY EventCreatePlaces
  <1>2. stack' = stack /\ queue' = queue /\ log' = log /\ scenario' = scenario
    BY DEF EventCreate, Return
  <1>3. Call(e).op = "event_create" /\ stack[e][1].pc = "call"
    BY AtCallFacts DEF EventCreate
  <1>4. stack'[e][1].pc \notin WaitPcs
    BY <1>2, <1>3 DEF WaitPcs
  <1>5. Later
    BY <1>1, <1>2, LogUnchanged
  <1>6. Awaited(e, ip[e]) = {}
    BY <1>3, AwaitsNothing DEF Call
  <1> QED
    BY <1>1, <1>2, <1>3, <1>4, <1>5, <1>6, ReturnWaits

\* The item of an event is the only one.
LEMMA ItemOf ==
    ASSUME Inv, NEW x \in Events, NEW j \in Items, log[j].ev = x, Submitted(x)
    PROVE  event[x].item = j
  BY DEF Inv, CallsInv, Numbered, LoggedOnce

\* Every non-empty set of numbers has a least one.
LEMMA NatMin == ASSUME NEW S \in SUBSET Nat, S # {}
                PROVE  \E m \in S : \A n \in S : m <= n
  <1> DEFINE R == OpToRel(<, Nat)
  <1>1. IsWellFoundedOn(R, Nat)
    BY NatLessThanWellFounded
  <1>2. \A x, y \in Nat : <<y, x>> \in R <=> y < x
    BY DEF OpToRel
  <1> HIDE DEF R
  <1>3. PICK x \in S : \A y \in S : <<y, x>> \notin R
    BY <1>1, WFMin
  <1>4. \A y \in S : ~(y < x)
    BY <1>2, <1>3
  <1> QED
    BY <1>4

\* When the global graph counts no task, only items whose enqueue is in progress
\* have not run: the oldest item of a queue that has not run is with its enqueuer.
LEMMA GraphEmpty ==
    ASSUME Inv, PlacesInv, count = 0, NEW j \in Items, log[j].ended # 1
    PROVE  Busy(j)
  <1> /\ TypeOK /\ Numbered /\ Logged /\ InCall /\ BusyNewest
      /\ Counts /\ FinishedRan /\ ChainOrder
    BY DEF Inv, CallsInv, ChainInv
  <1>1. \A x \in Events : ready[x] = 0 /\ ~Running(x)
    <2>1. Active = {}
      BY FS_EmptySet DEF PlacesInv, GraphCounts
    <2> QED
      BY <2>1 DEF Active
  <1>2. ASSUME NEW p \in Events, Submitted(p), ~task[p].finished PROVE NotBegun(p)
    <2>1. event[p].item \in Items
      BY <1>2 DEF Numbered
    <2>2. log[event[p].item].begun # 1
      BY <1>1, <1>2 DEF PlacesInv, InRun
    <2> QED
      BY <1>2, <2>1, <2>2 DEF Counts, NotBegun
  <1>3. ASSUME NEW p \in Events, NEW x \in Events, Chained(p, x)
        PROVE  /\ event[p].item \in Items /\ log[event[p].item].ended # 1
               /\ log[event[p].item].q = event[x].q /\ event[p].item < event[x].item
    <2>1. ~Fetched(p, x) /\ ~AtFinish(p)
      BY <1>1 DEF Fetched, AtFinish, Running
    <2>2. ~task[p].finished
      BY <1>3, <2>1 DEF Chained, OnNode
    <2>3. Follows(x, p)
      BY <1>3 DEF ChainOrder
    <2>4. /\ Submitted(p) /\ event[p].item \in Items /\ event[p].q = event[x].q /\ event[p].item < event[x].item
          /\ log[event[p].item].q = event[p].q
      BY <2>3 DEF Follows, Numbered
    <2>5. NotBegun(p)
      BY <1>2, <2>2, <2>4
    <2> QED
      BY <2>4, <2>5 DEF NotBegun, Counts
  <1>4. PICK S : S = {k \in Items : log[k].q = log[j].q /\ log[k].ended # 1}
    OBVIOUS
  <1>5. PICK k \in S : \A i \in S : k <= i
    <2>1. S \in SUBSET Nat /\ S # {}
      BY <1>4, ItemTypes
    <2> QED
      BY <2>1, NatMin
  <1>6. k \in Items /\ log[k].q = log[j].q /\ log[k].ended # 1 /\ k <= j /\ k \in Nat /\ j \in Nat
    BY <1>4, <1>5, ItemTypes
  <1>7. PICK x \in Events : x = log[k].ev
    BY <1>6, ItemTypes
  <1>8. Submitted(x) /\ event[x].item = k /\ event[x].q = log[j].q
    <2>1. Submitted(x)
      BY <1>6, <1>7 DEF Numbered
    <2>2. event[x].item = k
      BY <1>6, <1>7, <2>1, ItemOf
    <2> QED
      BY <2>1, <2>2, <1>6 DEF Numbered
  <1>9. NotBegun(x)
    BY <1>2, <1>6, <1>8 DEF FinishedRan
  <1>10. \A p \in Events : ~Chained(p, x)
    <2> SUFFICES ASSUME NEW p \in Events, Chained(p, x) PROVE FALSE
      OBVIOUS
    <2>1. PICK i : i = event[p].item
      OBVIOUS
    <2>2. i \in Items /\ log[i].ended # 1 /\ log[i].q = log[j].q /\ i < k
      BY <2>1, <1>3, <1>8
    <2>3. i \in S /\ i \in Nat
      BY <2>2, <1>4, ItemTypes
    <2> QED
      BY <2>2, <2>3, <1>5, <1>6
  <1>11. PICK z \in Executors : Enqueuing(z, x)
    BY <1>1, <1>9, <1>10 DEF PlacesInv, Placed
  <1>12. /\ stack[z][1].ev = x /\ stack[z][1].ev = Calls(z)[ip[z]].ev
         /\ ip[z] \in DOMAIN Calls(z) /\ Calls(z)[ip[z]].op \in Submits
    BY <1>11 DEF Enqueuing, InCall, EnqueuePcs, LockPcs, Call
  <1>13. PICK y \in Executors : y = log[k].by
    BY <1>6, ItemTypes
  <1>14. PICK a : a = log[k].at
    OBVIOUS
  <1>15. a \in DOMAIN Calls(y) /\ Calls(y)[a].op \in Submits /\ Calls(y)[a].ev = x
    BY <1>6, <1>7, <1>13, <1>14 DEF Logged
  <1>16. y = z /\ a = ip[z]
    <2>1. Agree(scenario, y, a, z, ip[z])
      BY <1>12, <1>15 DEF Inv, Disciplined, Calls
    <2> QED
      BY <2>1, <1>12, <1>15 DEF Agree, Calls
  <1>17. Busy(k)
    BY <1>13, <1>14, <1>16 DEF Busy
  <1>18. j <= k
    BY <1>6, <1>17 DEF BusyNewest
  <1> QED
    BY <1>6, <1>17, <1>18

\* What a call outside of an enqueue that makes nothing leaves alone.
LEMMA StillLater ==
    ASSUME Inv, NEW e \in Executors, Still(e)
    PROVE  Later /\ Outside(e) /\ ItemsSame /\ log' = log /\ Items' = Items /\ scenario' = scenario
  <1>1. log' = log /\ Outside(e) /\ ItemsSame
    BY DEF Still, EventSame, ItemsSame
  <1>2. scenario' = scenario /\ ItemsKept
    BY <1>1 DEF Outside, ItemsSame, ItemsKept
  <1> QED
    BY <1>1, <1>2, LogUnchanged DEF Items

\* Calls that return at once have nothing left to wait for: an event never enqueued,
\* one that is complete, the global graph when it counts no task.
LEMMA ReturnsWaits ==
    ASSUME Inv, PlacesInv, WaitsInv, NEW e \in Executors, Refused(e) \/ EventQuery(e) \/ GraphWait(e) \/ EventDestroy(e)
    PROVE  WaitsInv'
  <1> TypeOK /\ Logged /\ Numbered
    BY DEF Inv, CallsInv
  <1>1. Still(e) /\ stack' = stack /\ queue' = queue
    BY StillReturns
  <1>2. Later /\ Outside(e)
    BY <1>1, StillLater
  <1>3. PICK op : AtCall(e, op) /\ op \in {"event_record", "event_wait", "queue_wait_event", "event_query", "graph_wait", "event_destroy"}
    BY DEF Refused, EventQuery, GraphWait, EventDestroy
  <1>4. Call(e).op = op /\ op # "queue_wait_event" /\ ip[e] \in DOMAIN Calls(e) /\ stack[e][1].pc = "call" /\ Call(e) = Calls(e)[ip[e]]
    BY <1>3, AtCallFacts
  <1>5. Call(e).op # "queue_acquire" /\ Call(e).op # "queue_destroy" /\ stack'[e][1].pc \notin WaitPcs
    BY <1>1, <1>3, <1>4 DEF WaitPcs
  <1>6. \A j \in Awaited(e, ip[e]) : log[j].ended = 1
    <2>1. CASE op \in {"event_record", "event_destroy"}
      BY <2>1, <1>4, AwaitsNothing DEF Submits
    <2>2. CASE op \in {"event_wait", "event_query"}
      <3> SUFFICES ASSUME NEW j \in Awaited(e, ip[e]) PROVE log[j].ended = 1
        OBVIOUS
      <3>1. j \in Items /\ log[j].ev = Call(e).ev
        BY <2>2, <1>4 DEF Awaited
      <3>2. PICK x \in Events : x = Call(e).ev
        BY <3>1, ItemTypes
      <3>3. CASE ~Submitted(x)
        BY <3>1, <3>2, <3>3 DEF Numbered
      <3>4. CASE Submitted(x)
        <4>1. event[x].status # "CREATED"
          BY <3>4 DEF PlacesInv, Status
        <4>2. event[x].status = "COMPLETE"
          BY <4>1, <3>2, <1>4, <2>2 DEF Refused, EventQuery, GraphWait, EventDestroy, AtCall
        <4>3. log[event[x].item].ended = 1
          BY <4>2 DEF PlacesInv, Status
        <4>4. event[x].item = j
          BY <3>1, <3>2, <3>4, ItemOf
        <4> QED
          BY <4>3, <4>4
      <3> QED
        BY <3>3, <3>4
    <2>3. CASE op = "graph_wait"
      <3> SUFFICES ASSUME NEW j \in Awaited(e, ip[e]), log[j].ended # 1 PROVE FALSE
        OBVIOUS
      <3>1. j \in Items /\ log[j].by = e /\ log[j].at < ip[e]
        BY AwaitedMine
      <3>2. count = 0
        BY <1>4, <2>3 DEF Refused, EventQuery, GraphWait, EventDestroy, AtCall
      <3>3. Busy(j)
        BY <3>1, <3>2, GraphEmpty
      <3>4. ip[e] \in Nat
        BY DEF TypeOK
      <3> QED
        BY <3>1, <3>3, <3>4 DEF Busy
    <2> QED
      BY <2>1, <2>2, <2>3, <1>3, <1>4
  <1> QED
    BY <1>1, <1>2, <1>5, <1>6, ReturnWaits

\* e waits in frame f.
LEMMA WaitsOn ==
    ASSUME NEW e \in Executors, NEW f, stack'[e][1] = f, ip' = ip, scenario' = scenario, log' = log, ItemsSame,
           ip[e] \in DOMAIN Calls(e),
           f.pc = "qwait" => Call(e).op \in QueueWaits,
           f.pc = "twait" => /\ f.ev \in Events /\ Submitted(f.ev)
                             /\ Call(e).op \in QueueWaits \/ (Call(e).op = "event_wait" /\ f.ev = Call(e).ev),
           f.pc \in WaitPcs /\ Call(e).op \in QueueWaits =>
               \A j \in Awaited(e, ip[e]) :
                   \/ log[j].ended = 1 \/ log[j].q \in f.qs
                   \/ f.pc = "twait" /\ event[f.ev].q = log[j].q /\ j <= event[f.ev].item
    PROVE  WaitingOn(e)'
  <1>1. Calls(e)' = Calls(e) /\ Call(e)' = Call(e) /\ Items' = Items
    BY DEF Calls, Call, Items
  <1>2. Awaited(e, ip[e])' = Awaited(e, ip[e])
    BY <1>1 DEF Awaited
  <1>3. f.pc = "twait" => Submitted(f.ev)' /\ SameItem(f.ev)
    BY DEF ItemsSame, SameItem, Submitted
  <1> QED
    BY <1>1, <1>2, <1>3 DEF WaitingOn, SameItem

\* kupl_event_wait begins.
LEMMA EventWaitWaits == ASSUME Inv, PlacesInv, WaitsInv, NEW e \in Executors, EventWait(e) PROVE WaitsInv'
  <1>1. Still(e) /\ UNCHANGED users
    BY StillBegins
  <1>2. PICK f \in FrameSet : UserMoves(e, f) /\ f.pc = "twait" /\ f.ev = Call(e).ev
    BY StillBegins
  <1>3. Later /\ Outside(e) /\ ItemsSame /\ log' = log /\ scenario' = scenario
    BY <1>1, StillLater
  <1>4. Call(e).op = "event_wait" /\ ip[e] \in DOMAIN Calls(e) /\ Call(e) = Calls(e)[ip[e]]
    BY AtCallFacts DEF EventWait
  <1>5. Call(e).ev \in Events
    BY <1>4, CallTypes DEF Inv
  <1>6. Submitted(Call(e).ev)
    BY <1>5 DEF EventWait, PlacesInv, Status
  <1>7. Call(e).op \notin QueueWaits
    BY <1>4 DEF QueueWaits
  <1>8. ip' = ip /\ stack'[e][1] = f
    BY <1>1, <1>2 DEF users, UserMoves
  <1>9. WaitingOn(e)'
    <2>1. f.pc # "qwait"
      BY <1>2
    <2> QED
      BY <2>1, <1>2, <1>3, <1>4, <1>5, <1>6, <1>7, <1>8, WaitsOn
  <1>10. Waiting' /\ WaitMeansDone'
    BY <1>3, <1>8, <1>9, CallDone
  <1>11. ASSUME NEW z \in Executors, NEW q \in Queues PROVE TableOf(z, q)'
    <2>1. ~Destroying(e, q) /\ queue' = queue
      BY <1>4 DEF Destroying, EventWait
    <2> QED
      BY <1>3, <1>8, <2>1, CallTable
  <1> QED
    BY <1>10, <1>11 DEF WaitsInv, InTable

\* A wait for queues begins with all the queues that it has to wait for: those that
\* are in the table hold what the caller submitted.
LEMMA QueueWaitBeginWaits ==
    ASSUME Inv, WaitDisciplined(scenario), WaitsInv, NEW e \in Executors, QueueWaitBegin(e)
    PROVE  WaitsInv'
  <1> TypeOK /\ Logged
    BY DEF Inv, CallsInv
  <1>1. Still(e) /\ UNCHANGED users
    BY StillBegins
  <1>2. PICK f \in FrameSet : /\ UserMoves(e, f) /\ f.pc = "qwait"
                              /\ f.qs = IF Call(e).op = "queue_wait_all" THEN Acquired ELSE {Call(e).q}
    BY StillBegins
  <1>3. Later /\ Outside(e) /\ ItemsSame /\ log' = log /\ scenario' = scenario
    BY <1>1, StillLater
  <1>4. PICK op : AtCall(e, op) /\ op \in QueueWaits
    BY DEF QueueWaitBegin, QueueWaits
  <1>5. Call(e).op = op /\ ip[e] \in DOMAIN Calls(e) /\ Call(e) = Calls(e)[ip[e]] /\ stack[e][1].pc = "call"
    BY <1>4, AtCallFacts
  <1>6. ip' = ip /\ stack'[e][1] = f /\ f.pc # "twait" /\ f.pc \in WaitPcs
    BY <1>1, <1>2 DEF users, UserMoves, WaitPcs
  <1>7. \A q : ~Destroying(e, q)
    BY <1>5 DEF Destroying, WaitPcs
  <1>8. ASSUME NEW j \in Awaited(e, ip[e]) PROVE log[j].ended = 1 \/ log[j].q \in f.qs
    <2>1. j \in Items /\ log[j].by = e /\ log[j].q \in Queues
      BY AwaitedMine, ItemTypes
    <2>2. CASE op # "queue_wait_all"
      <3>1. log[j].q = Call(e).q
        BY <1>4, <1>5, <2>2 DEF Awaited, QueueWaits
      <3> QED
        BY <1>2, <1>5, <2>2, <3>1
    <2>3. CASE op = "queue_wait_all"
      <3>1. PICK k \in 1 .. ip[e] : Calls(e)[k].op = "queue_acquire" /\ Calls(e)[k].q = log[j].q
        BY <1>5, <2>3 DEF Awaited
      <3>2. ip[e] \in Nat /\ k # ip[e]
        BY <1>5, <2>3, <3>1 DEF TypeOK
      <3>3. k \in DOMAIN Calls(e) /\ k < ip[e]
        BY <1>5, <3>1, <3>2, ScenariosAssumption DEF TypeOK, Calls
      <3>4. HasAcquired(e, log[j].q)
        BY <3>1, <3>3 DEF HasAcquired
      <3>5. queue[log[j].q].acquired \/ log[j].ended = 1
        BY <1>7, <2>1, <3>4 DEF WaitsInv, InTable, TableOf
      <3> QED
        BY <1>2, <1>5, <2>1, <2>3, <3>5 DEF Acquired
    <2> QED
      BY <2>2, <2>3
  <1>9. WaitingOn(e)'
    BY <1>2, <1>3, <1>4, <1>5, <1>6, <1>8, WaitsOn
  <1>10. Waiting' /\ WaitMeansDone'
    BY <1>3, <1>6, <1>9, CallDone
  <1>11. ASSUME NEW z \in Executors, NEW q \in Queues PROVE TableOf(z, q)'
    <2>1. CASE op # "queue_destroy" \/ q # Call(e).q
      <3>1. queue[q].acquired => queue'[q].acquired
        <4>1. CASE queue' = queue
          BY <4>1
        <4>2. CASE op = "queue_destroy" /\ queue' = [queue EXCEPT ![Call(e).q].acquired = FALSE]
          <5>1. queue \in [Queues -> QueueSet] /\ q # Call(e).q
            BY <2>1, <4>2 DEF TypeOK
          <5> QED
            BY <4>2, <5>1
        <4> QED
          BY <4>1, <4>2, <1>4, <1>5, StillBegins
      <3> QED
        BY <1>3, <1>6, <1>7, <3>1, CallTable
    <2>2. CASE op = "queue_destroy" /\ q = Call(e).q
      <3>1. Calls(z)' = Calls(z) /\ ip'[z] = ip[z]
        BY <1>3, <1>6 DEF Calls
      <3> SUFFICES ASSUME HasAcquired(z, q)' PROVE
                     /\ ~WillSubmit(z, q)'
                     /\ \A j \in Items' : log'[j].by = z /\ log'[j].q = q => Destroying(z, q)'
        BY DEF TableOf
      <3>2. PICK a \in DOMAIN Calls(z) : a < ip[z] /\ Calls(z)[a].op = "queue_acquire" /\ Calls(z)[a].q = q
        BY <3>1 DEF HasAcquired
      <3>3. ASSUME NEW d \in DOMAIN Calls(z), Calls(z)[d].op \in Submits, Calls(z)[d].q = q
            PROVE  z = e /\ d < ip[e]
        <4>1. Agree(scenario, z, a, z, d) /\ WaitAgree(scenario, e, ip[e], z, d)
          BY <1>5, <3>2, <3>3 DEF WaitDisciplined, Disciplined, Calls
        <4>2. q \notin scenario.open
          BY <4>1, <3>2, <3>3 DEF Agree, Calls, Creates
        <4> QED
          BY <4>1, <4>2, <1>5, <2>2, <3>3 DEF WaitAgree, Calls
      <3>4. ~WillSubmit(z, q)'
        <4> SUFFICES ASSUME NEW d \in DOMAIN Calls(z), ip[z] <= d, Calls(z)[d].op \in Submits, Calls(z)[d].q = q
                     PROVE  FALSE
          BY <3>1 DEF WillSubmit
        <4>1. d \in Nat /\ ip[z] \in Nat
          BY CallTypes DEF TypeOK
        <4> QED
          BY <3>3, <4>1
      <3>5. ASSUME NEW j \in Items, log[j].by = z, log[j].q = q PROVE z = e
        <4>1. log[j].at \in DOMAIN Calls(z) /\ Calls(z)[log[j].at].op \in Submits /\ Calls(z)[log[j].at].q = q
          BY <3>5 DEF Logged
        <4> QED
          BY <4>1, <3>3
      <3>6. Items' = Items
        BY <1>3 DEF Items
      <3>7. Destroying(e, q)'
        <4>1. Call(e)' = Call(e)
          BY <1>3, <1>6 DEF Call, Calls
        <4> QED
          BY <4>1, <1>5, <1>6, <2>2 DEF Destroying
      <3> QED
        BY <1>3, <3>4, <3>5, <3>6, <3>7
    <2> QED
      BY <2>1, <2>2
  <1> QED
    BY <1>10, <1>11 DEF WaitsInv, InTable

\* kupl_queue_wait takes up one queue: everything on it is behind last_event, or has
\* run when there is none.
LEMMA QueueWaitWaits ==
    ASSUME Inv, PlacesInv, WaitsInv, NEW e \in Executors, NEW q \in Queues, QueueWait(e, q)
    PROVE  WaitsInv'
  <1> TypeOK /\ Logged /\ LastNewest /\ UserShape /\ RunShape
    BY DEF Inv, CallsInv, ChainInv
  <1>1. Still(e) /\ UNCHANGED <<users, queue>> /\ Top(e).pc = "qwait"
    BY StillQueueWait
  <1>2. PICK f \in FrameSet : /\ UserMoves(e, f) /\ f.qs = Top(e).qs \ {q}
                              /\ \/ f.pc = "twait" /\ queue[q].events # 0 /\ f.ev = queue[q].last /\ f.ev \in Events
                                 \/ f.pc = "qwait" /\ (queue[q].events = 0 \/ queue[q].last = None)
    BY StillQueueWait
  <1>3. Later /\ Outside(e) /\ ItemsSame /\ log' = log /\ scenario' = scenario
    BY <1>1, StillLater
  <1>4. ip' = ip /\ queue' = queue /\ stack'[e][1] = f /\ stack[e][1] = Top(e) /\ f.pc \in WaitPcs
    BY <1>1, <1>2 DEF users, UserMoves, WaitPcs
  <1>5. /\ ip[e] \in DOMAIN Calls(e) /\ Call(e).op \in QueueWaits
        /\ \A j \in Awaited(e, ip[e]) : log[j].ended = 1 \/ log[j].q \in Top(e).qs
    BY <1>1, <1>4 DEF WaitsInv, Waiting, WaitingOn, WaitPcs
  <1>6. queue[q].lock = None
    BY DEF QueueWait
  <1>7. \A j \in Items : log[j].q = q => ~Busy(j)
    BY <1>6, Unlocked
  <1>8. CASE f.pc = "twait"
    <2>1. f.ev = queue[q].last /\ f.ev \in Events /\ queue[q].last # None
      BY <1>2, <1>8, NamesAssumption
    <2>2. /\ Submitted(f.ev) /\ event[f.ev].q = q
          /\ \A j \in Items : log[j].q = q => j <= event[f.ev].item
      BY <2>1, <1>7 DEF LastNewest
    <2>3. \A j \in Awaited(e, ip[e]) : \/ log[j].ended = 1 \/ log[j].q \in f.qs
                                       \/ event[f.ev].q = log[j].q /\ j <= event[f.ev].item
      BY <1>2, <1>5, <2>2, AwaitedMine
    <2>4. f.pc # "qwait"
      BY <1>8
    <2> QED
      <3>1. WaitingOn(e)'
        BY <1>3, <1>4, <1>5, <1>8, <2>1, <2>2, <2>3, <2>4, WaitsOn
      <3>2. Waiting' /\ WaitMeansDone'
        BY <1>3, <1>4, <3>1, CallDone
      <3>3. InTable'
        <4> SUFFICES ASSUME NEW z \in Executors, NEW r \in Queues PROVE TableOf(z, r)'
          BY DEF InTable
        <4>1. Destroying(e, r) => Destroying(e, r)'
          BY <1>3, <1>4 DEF Destroying, Call, Calls
        <4> QED
          BY <1>3, <1>4, <4>1, CallTable
      <3> QED
        BY <3>2, <3>3 DEF WaitsInv
  <1>9. CASE f.pc = "qwait"
    <2>1. queue[q].last = None
      <3> SUFFICES ASSUME queue[q].last # None PROVE FALSE
        OBVIOUS
      <3>1. PICK x \in Events : x = queue[q].last
        BY DEF TypeOK, QueueSet
      <3>2. Held(x) /\ event[x].q = q
        BY <3>1 DEF PlacesInv, LastHeld, LastNewest
      <3>3. x \in InQueue(q)
        BY <3>2 DEF InQueue
      <3>4. queue[q].events = 0
        BY <1>2, <1>9
      <3>5. InQueue(q) = {}
        BY <3>4, FS_EmptySet DEF PlacesInv, QueueCounts
      <3> QED
        BY <3>3, <3>5
    <2>2. \A j \in Items : log[j].q = q => log[j].ended = 1
      BY <1>7, <2>1 DEF LastNewest
    <2>3. \A j \in Awaited(e, ip[e]) : log[j].ended = 1 \/ log[j].q \in f.qs
      BY <1>2, <1>5, <2>2, AwaitedMine
    <2>4. f.pc # "twait"
      BY <1>9
    <2> QED
      <3>1. WaitingOn(e)'
        BY <1>3, <1>4, <1>5, <1>9, <2>3, <2>4, WaitsOn
      <3>2. Waiting' /\ WaitMeansDone'
        BY <1>3, <1>4, <3>1, CallDone
      <3>3. InTable'
        <4> SUFFICES ASSUME NEW z \in Executors, NEW r \in Queues PROVE TableOf(z, r)'
          BY DEF InTable
        <4>1. Destroying(e, r) => Destroying(e, r)'
          BY <1>3, <1>4 DEF Destroying, Call, Calls
        <4> QED
          BY <1>3, <1>4, <4>1, CallTable
      <3> QED
        BY <3>2, <3>3 DEF WaitsInv
  <1> QED
    BY <1>2, <1>8, <1>9

\* kupl_task_wait returns: the task has run, and everything before it on its queue.
LEMMA TaskWaitWaits ==
    ASSUME Inv, PlacesInv, WaitsInv, NEW e \in Executors, TaskWait(e)
    PROVE  WaitsInv'
  <1> TypeOK /\ Numbered /\ Counts /\ FinishedRan /\ RunsInOrder
    BY DEF Inv, CallsInv, ChainInv
  <1>1. Still(e) /\ UNCHANGED queue /\ Top(e).pc = "twait" /\ task[Top(e).ev].finished
    BY StillTaskWait
  <1>2. PICK f \in FrameSet :
            /\ UserMoves(e, f)
            /\ \/ f.pc = "call" /\ Return(e) /\ Call(e).op \in {"event_wait", "queue_wait_event"}
               \/ f.pc = "qwait" /\ UNCHANGED users /\ Call(e).op \in QueueWaits /\ f.qs = Top(e).qs
    BY StillTaskWait
  <1>3. Later /\ Outside(e) /\ ItemsSame /\ log' = log /\ scenario' = scenario
    BY <1>1, StillLater
  <1>4. queue' = queue /\ stack'[e][1] = f /\ stack[e][1] = Top(e)
    BY <1>1, <1>2 DEF UserMoves
  <1>5. PICK x : x = Top(e).ev
    OBVIOUS
  <1>6. /\ ip[e] \in DOMAIN Calls(e) /\ x \in Events /\ Submitted(x)
        /\ Call(e).op \in QueueWaits \/ (Call(e).op = "event_wait" /\ x = Call(e).ev)
    BY <1>1, <1>4, <1>5 DEF WaitsInv, Waiting, WaitingOn, WaitPcs
  <1>7. event[x].item \in Items /\ log[event[x].item].ended = 1 /\ log[event[x].item].begun = 1
    BY <1>1, <1>5, <1>6 DEF FinishedRan, Numbered, Counts
  <1>8. CASE f.pc = "call"
    <2>1. Call(e).op = "event_wait" /\ x = Call(e).ev
      BY <1>2, <1>6, <1>8 DEF QueueWaits
    <2>2. ASSUME NEW j \in Awaited(e, ip[e]) PROVE log[j].ended = 1
      <3>1. j \in Items /\ log[j].ev = x
        BY <2>1 DEF Awaited, Call
      <3>2. event[x].item = j
        BY <1>6, <3>1, ItemOf
      <3> QED
        BY <1>7, <3>2
    <2>3. stack'[e][1].pc \notin WaitPcs
      BY <1>4, <1>8 DEF WaitPcs
    <2> QED
      BY <1>3, <1>4, <2>1, <2>2, <2>3, ReturnWaits
  <1>9. CASE f.pc = "qwait"
    <2>1. ip' = ip /\ Call(e).op \in QueueWaits /\ f.qs = Top(e).qs /\ f.pc \in WaitPcs /\ f.pc # "twait"
      BY <1>2, <1>9 DEF users, WaitPcs
    <2>2. ASSUME NEW j \in Awaited(e, ip[e]) PROVE log[j].ended = 1 \/ log[j].q \in f.qs
      <3>1. \/ log[j].ended = 1 \/ log[j].q \in f.qs
            \/ event[x].q = log[j].q /\ j <= event[x].item
        BY <1>1, <1>4, <1>5, <2>1, <2>2 DEF WaitsInv, Waiting, WaitingOn, WaitPcs
      <3>2. ASSUME event[x].q = log[j].q, j <= event[x].item PROVE log[j].ended = 1
        <4>1. j \in Items /\ j \in Nat \ {0} /\ event[x].item \in Nat
          BY <1>7, AwaitedMine, ItemTypes
        <4>2. log[event[x].item].q = log[j].q
          BY <1>6, <3>2 DEF Numbered
        <4>3. CASE j = event[x].item
          BY <1>7, <4>3
        <4>4. CASE j # event[x].item
          <5>1. j \in 1 .. (event[x].item - 1)
            BY <3>2, <4>1, <4>4
          <5> QED
            BY <1>7, <4>2, <5>1 DEF RunsInOrder
        <4> QED
          BY <4>3, <4>4
      <3> QED
        BY <3>1, <3>2
    <2>3. WaitingOn(e)'
      BY <1>3, <1>4, <1>6, <1>9, <2>1, <2>2, WaitsOn
    <2>4. Waiting' /\ WaitMeansDone'
      BY <1>3, <2>1, <2>3, CallDone
    <2>5. InTable'
      <3> SUFFICES ASSUME NEW z \in Executors, NEW r \in Queues PROVE TableOf(z, r)'
        BY DEF InTable
      <3>1. Destroying(e, r) => Destroying(e, r)'
        BY <1>3, <1>4, <2>1 DEF Destroying, Call, Calls
      <3> QED
        BY <1>3, <1>4, <2>1, <3>1, CallTable
    <2> QED
      BY <2>4, <2>5 DEF WaitsInv
  <1> QED
    BY <1>2, <1>8, <1>9

\* No queue is left to wait for.
LEMMA QueueWaitEndWaits ==
    ASSUME Inv, WaitsInv, NEW e \in Executors, QueueWaitEnd(e)
    PROVE  WaitsInv'
  <1> TypeOK /\ Logged
    BY DEF Inv, CallsInv
  <1>1. /\ Still(e) /\ Top(e).pc = "qwait" /\ Top(e).qs = {} /\ UserMoves(e, User)
        /\ \A q \in Queues : queue'[q].acquired = queue[q].acquired
    BY StillQueueWaitEnd
  <1>2. Later /\ Outside(e)
    BY <1>1, StillLater
  <1>3. stack[e][1] = Top(e) /\ stack'[e][1].pc \notin WaitPcs
    BY <1>1, UserType DEF UserMoves, WaitPcs
  <1>4. Call(e).op \in QueueWaits /\ \A j \in Awaited(e, ip[e]) : log[j].ended = 1
    BY <1>1, <1>3 DEF WaitsInv, Waiting, WaitingOn, WaitPcs
  <1>5. ASSUME Call(e).op = "queue_destroy", NEW j \in Items, log[j].by = e, log[j].q = Call(e).q
        PROVE  log[j].ended = 1
    <2>1. log[j].at < ip[e]
      BY <1>2, <1>5, NotBusy
    <2>2. j \in Awaited(e, ip[e])
      BY <1>5, <2>1 DEF Awaited, Call
    <2> QED
      BY <1>4, <2>2
  <1>6. Call(e).op # "queue_acquire"
    BY <1>4 DEF QueueWaits
  <1> QED
    BY <1>1, <1>2, <1>3, <1>4, <1>5, <1>6, ReturnWaits

\* A queue is created, or acquired and put in the table.
LEMMA QueueCreateWaits ==
    ASSUME Inv, WaitDisciplined(scenario), PlacesInv, WaitsInv, Inv', NEW e \in Executors, QueueCreate(e) \/ QueueAcquire(e)
    PROVE  WaitsInv'
  <1>1. /\ Outside(e) /\ UNCHANGED <<stack, event, log>>
        /\ Call(e).q \in Queues /\ \A z \in Queues : z # Call(e).q => queue'[z] = queue[z]
        /\ QueueAcquire(e) => queue'[Call(e).q].acquired
    BY QueueCreatePlaces
  <1>2. Later
    BY <1>1, LogUnchanged DEF Outside, ItemsKept, SameItem
  <1>3. PICK op : AtCall(e, op) /\ op \in Creates /\ (QueueCreate(e) => op = "queue_create")
    BY DEF QueueCreate, QueueAcquire, Creates
  <1>4. Call(e).op = op /\ ip[e] \in DOMAIN Calls(e) /\ Call(e) = Calls(e)[ip[e]] /\ stack[e][1].pc = "call"
    BY <1>3, AtCallFacts
  <1>5. Awaited(e, ip[e]) = {}
    BY <1>3, <1>4, AwaitsNothing
  <1>6. stack'[e][1].pc \notin WaitPcs /\ stack[e][1].pc \notin WaitPcs
    BY <1>1, <1>4 DEF WaitPcs
  <1>7. Waiting' /\ WaitMeansDone'
    BY <1>1, <1>2, <1>5, <1>6, NotWaiting, CallDone
  <1>8. ASSUME NEW z \in Executors, NEW q \in Queues PROVE TableOf(z, q)'
    <2>1. CASE q # Call(e).q
      <3>1. ~Destroying(e, q) /\ queue'[q] = queue[q]
        BY <1>1, <1>6, <2>1, NotDestroying
      <3> QED
        BY <1>1, <1>2, <2>1, <3>1, CallTable
    <2>2. CASE q = Call(e).q /\ QueueAcquire(e)
      BY <1>1, <2>2 DEF TableOf
    <2>3. CASE q = Call(e).q /\ QueueCreate(e)
      <3> SUFFICES ASSUME HasAcquired(z, q)' PROVE FALSE
        BY DEF TableOf
      <3>1. PICK a \in DOMAIN Calls(z) : Calls(z)[a].op = "queue_acquire" /\ Calls(z)[a].q = q
        BY <1>2 DEF HasAcquired, Later, Calls
      <3>2. WaitAgree(scenario, e, ip[e], z, a)
        BY <1>4, <3>1 DEF WaitDisciplined, Calls
      <3> QED
        BY <1>3, <1>4, <2>3, <3>1, <3>2 DEF WaitAgree, Calls
    <2> QED
      BY <2>1, <2>2, <2>3
  <1> QED
    BY <1>7, <1>8 DEF WaitsInv, InTable

-----------------------------------------------------------------------------
(* A wait that has returned has waited *)

\* No call has returned at first.
LEMMA InitWaits == ASSUME Init PROVE WaitsInv
  <1>1. \A e \in Executors : stack[e][1].pc = "call" /\ ip[e] = 1
    BY DEF Init, User
  <1>2. Items = {}
    BY DEF Init, Items
  <1>3. Waiting
    BY <1>1 DEF Waiting, WaitingOn, WaitPcs
  <1>4. InTable
    <2>1. \A e \in Executors, q \in Queues : ~HasAcquired(e, q)
      <3> SUFFICES ASSUME NEW e \in Executors, NEW a \in DOMAIN Calls(e), a < ip[e] PROVE FALSE
        BY DEF HasAcquired
      <3>1. scenario.calls \in [Executors -> Seq(CallSet)]
        BY ScenariosAssumption DEF Init
      <3>2. a \in Nat /\ 1 <= a
        BY <3>1 DEF Calls
      <3> QED
        BY <1>1, <3>2
    <2> QED
      BY <2>1 DEF InTable, TableOf
  <1>5. WaitMeansDone
    BY <1>1 DEF WaitMeansDone
  <1> QED
    BY <1>3, <1>4, <1>5 DEF WaitsInv

\* A step that changes nothing.
LEMMA StutterWaits == ASSUME Inv, WaitsInv, UNCHANGED vars PROVE WaitsInv'
  <1>1. scenario' = scenario /\ ip' = ip /\ stack' = stack /\ queue' = queue /\ event' = event /\ log' = log
    BY DEF vars, users
  <1>2. Later
    BY <1>1, LogUnchanged DEF ItemsKept, SameItem
  <1> QED
    BY <1>1, <1>2, PlainWaits

\* Every step of every executor.
LEMMA StepWaits ==
    ASSUME Inv, WaitDisciplined(scenario), PlacesInv, WaitsInv, NEW e \in Executors, Step(e)
    PROVE  WaitsInv'
  <1>1. Inv'
    BY StepInv
  <1>2. CASE CallStep(e)
    <2>1. CASE \E q \in Queues : QueueWait(e, q)
      BY <2>1, QueueWaitWaits
    <2> QED
      BY <1>1, <1>2, <2>1, SubmitWaits, QueueSubmitSyncWaits, NoQueueWaitEvent, ReturnsWaits, QueueCreateWaits,
         EventCreateWaits, EventWaitWaits, QueueWaitBeginWaits, QueueWaitEndWaits, TaskWaitWaits DEF CallStep
  <1> QED
    BY <1>2, EnqueueWaits, RunWaits DEF Step

WaitsIInv == PlacesIInv /\ (WaitDisciplined(scenario) => WaitsInv)

\* The inductive invariant of the waits.
THEOREM SpecWaitsIInv == Spec => []WaitsIInv
  <1>1. Init => WaitsIInv
    BY InitIInv, InitPlaces, InitWaits DEF WaitsIInv, PlacesIInv
  <1>2. WaitsIInv /\ PlacesIInv' /\ [Next]_vars => WaitsIInv'
    <2> SUFFICES ASSUME WaitsIInv, PlacesIInv', [Next]_vars PROVE WaitsIInv'
      OBVIOUS
    <2>1. scenario' = scenario
      BY ScenarioKept
    <2>2. WaitDisciplined(scenario)' => WaitDisciplined(scenario)
      BY <2>1 DEF WaitDisciplined, Disciplined, Agree, WaitAgree
    <2>3. ASSUME WaitDisciplined(scenario) PROVE WaitsInv'
      <3>1. Inv /\ PlacesInv /\ WaitsInv
        BY <2>3 DEF WaitsIInv, PlacesIInv, IInv, WaitDisciplined
      <3>2. CASE UNCHANGED vars
        BY <3>1, <3>2, StutterWaits
      <3>3. CASE Next
        BY <2>3, <3>1, <3>3, StepWaits DEF Next
      <3> QED
        BY <3>2, <3>3
    <2> QED
      BY <2>2, <2>3 DEF WaitsIInv
  <1> QED
    BY <1>1, <1>2, SpecPlacesIInv, PTL DEF Spec

\* A wait that has returned has really waited: for a queue or for all of them
\* (kupl_queue_wait, kupl_queue_wait_all, kupl_queue_destroy), for an event, waited for
\* or polled (kupl_event_wait, kupl_event_query), or for the global graph at exit
\* (kupl_global_graph_destroy), in every scenario whose waits are disciplined.
THEOREM SpecWaitMeansDone == Spec => [](WaitDisciplined(scenario) => WaitMeansDone)
  <1>1. WaitsIInv => (WaitDisciplined(scenario) => WaitMeansDone)
    BY DEF WaitsIInv, WaitsInv
  <1> QED
    BY <1>1, SpecWaitsIInv, PTL
=============================================================================
