-------------------------- MODULE SchedQueueProofs --------------------------
(***************************************************************************)
(* The ring of a scheduler queue works for every length, number of threads *)
(* and number of tasks: its inductive invariant, and the refinement of the *)
(* abstract queue TaskFifo.                                                *)
(***************************************************************************)
EXTENDS SchedQueue, SequenceTheorems, TLAPS

\* Division with remainder by the capacity (tail % capacity in kupl_vector.h).
LEMMA DivMod == \A n \in Nat : /\ n = Capacity * (n \div Capacity) + (n % Capacity)
                               /\ n % Capacity \in 0 .. (Capacity - 1)
                               /\ n \div Capacity \in Int
  BY CapacityAssumption

\* Multiples of the capacity are at least a round apart.
LEMMA Multiples == \A k \in Int : /\ k >= 1 => Capacity * k >= Capacity
                                  /\ k <= 0 => Capacity * k <= 0
  BY CapacityAssumption

\* A slot number is in range.
LEMMA SlotInRange == \A n \in Nat : Slot(n) \in Slots
  BY DivMod DEF Slot, Slots

\* Two positions less than a whole round apart never share a slot.
LEMMA SlotsApart == ASSUME NEW a \in Nat, NEW b \in Nat, b < a, a - b < Capacity
                    PROVE  Slot(a) # Slot(b)
  <1> SUFFICES ASSUME a % Capacity = b % Capacity PROVE FALSE
      BY DEF Slot
  <1> DEFINE k == (a \div Capacity) - (b \div Capacity)
  <1>1. k \in Int /\ a \div Capacity \in Int /\ b \div Capacity \in Int
      BY DivMod
  <1>2. a - b = Capacity * (a \div Capacity) - Capacity * (b \div Capacity)
      BY DivMod, CapacityAssumption
  <1>3. Capacity * k = Capacity * (a \div Capacity) - Capacity * (b \div Capacity)
      BY <1>1, CapacityAssumption
  <1>4. a - b = Capacity * k
      BY <1>2, <1>3
  <1>5. CASE k >= 1
      BY <1>5, <1>1, <1>4, Multiples, CapacityAssumption
  <1>6. CASE k <= 0
      BY <1>6, <1>1, <1>4, Multiples, CapacityAssumption
  <1> QED BY <1>1, <1>5, <1>6

\* The empty queue that queue_create makes satisfies the inductive invariant.
LEMMA InitIInv == Init => IInv
  <1> SUFFICES ASSUME Init PROVE IInv
      OBVIOUS
  <1> USE DEF Init
  <1>1. TypeOK
      BY DEF TypeOK, Locations
  <1>2. LocksHeld
      BY NoneAssumption DEF LocksHeld, Adding, Getting
  <1>3. InBounds /\ SlotsHold
      BY CapacityAssumption DEF InBounds, SlotsHold
  <1> QED BY <1>1, <1>2, <1>3 DEF IInv

-----------------------------------------------------------------------------
(* Every step of queue_add_tb and queue_get_tb preserves the invariant     *)

\* Every step of queue_add_tb preserves the inductive invariant.
LEMMA AddIInv == ASSUME IInv, NEW t \in Threads, AddLock(t) \/ AddStep(t) PROVE IInv'
  <1>0. TypeOK /\ LocksHeld /\ InBounds /\ SlotsHold
      BY DEF IInv
  <1> USE DEF Goto
  <1>1. CASE AddLock(t)
    <2> USE <1>0, <1>1 DEF AddLock
    <2>1. TypeOK'
        BY DEF TypeOK, Locations
    <2>2. LocksHeld'
        BY NoneAssumption DEF LocksHeld, TypeOK, Adding, Getting
    <2>3. InBounds' /\ SlotsHold'
        BY DEF InBounds, SlotsHold, TypeOK
    <2> QED BY <2>1, <2>2, <2>3 DEF IInv
  <1>2. CASE AddCheck(t)
    <2> USE <1>0, <1>2 DEF AddCheck
    <2>1. TypeOK'
        BY DEF TypeOK, Locations, Full
    <2>2. LocksHeld'
        BY DEF LocksHeld, TypeOK, Adding, Getting
    <2>3. InBounds'
        BY DEF InBounds, TypeOK, HasRoom
    <2>4. SlotsHold'
        BY DEF SlotsHold, TypeOK
    <2> QED BY <2>1, <2>2, <2>3, <2>4 DEF IInv
  <1>3. CASE AddWrite(t)
    <2> USE <1>0, <1>3 DEF AddWrite
    <2>0. head \in Nat /\ tail \in Nat /\ Slot(tail) \in Slots /\ tb[t] \in Tasks
        BY SlotInRange DEF TypeOK, SlotsHold
    <2>1. TypeOK'
        BY <2>0 DEF TypeOK, Locations
    <2>2. LocksHeld'
        BY DEF LocksHeld, TypeOK, Adding, Getting
    <2>3. InBounds'
        BY DEF InBounds, TypeOK
    <2>4. \A n \in head .. (tail - 1) : Slot(n) # Slot(tail)
      <3> TAKE n \in head .. (tail - 1)
      <3>1. n \in Nat /\ n < tail /\ tail - n < Capacity
          BY <2>0, CapacityAssumption DEF InBounds
      <3> QED BY <3>1, <2>0, SlotsApart
    <2>5. ASSUME NEW u \in Threads, pc[u] = "late_front" PROVE Slot(head - 1) # Slot(tail)
      <3>1. head - 1 \in Nat /\ head - 1 < tail /\ tail - (head - 1) < Capacity
          BY <2>0, <2>5, CapacityAssumption DEF InBounds
      <3> QED BY <3>1, <2>0, SlotsApart
    <2>6. \A u \in Threads : u # t => pc[u] \notin Adding
        BY DEF LocksHeld, Adding
    <2>7. SlotsHold'
      <3>1. \A n \in head' .. (tail' - 1) : data'[Slot(n)] \in Tasks
        <4> TAKE n \in head' .. (tail' - 1)
        <4>1. n \in head .. (tail - 1) /\ n \in Nat /\ Slot(n) \in Slots
            BY <2>0, SlotInRange
        <4>2. data'[Slot(n)] = data[Slot(n)]
            BY <2>4, <4>1 DEF TypeOK
        <4> QED BY <4>1, <4>2 DEF SlotsHold
      <3>2. ASSUME NEW u \in Threads, pc'[u] = "pop" PROVE tb'[u] = data'[Slot(head')]
        <4>1. pc[u] = "pop" /\ head < tail
            BY <3>2 DEF TypeOK, InBounds
        <4>2. head \in head .. (tail - 1) /\ Slot(head) \in Slots
            BY <4>1, <2>0, SlotInRange
        <4>3. data'[Slot(head)] = data[Slot(head)]
            BY <2>4, <4>2 DEF TypeOK
        <4> QED BY <4>1, <4>3 DEF SlotsHold
      <3>3. ASSUME NEW u \in Threads, pc'[u] = "late_front" PROVE data'[Slot(head' - 1)] \in Tasks
        <4>1. pc[u] = "late_front" /\ head - 1 \in Nat
            BY <3>3, <2>0 DEF TypeOK, InBounds
        <4>2. Slot(head - 1) \in Slots /\ data'[Slot(head - 1)] = data[Slot(head - 1)]
            BY <4>1, <2>5, SlotInRange DEF TypeOK
        <4> QED BY <4>1, <4>2 DEF SlotsHold
      <3>4. ASSUME NEW u \in Threads PROVE /\ pc'[u] \in {"check", "write", "publish"} => tb'[u] \in Tasks
                                           /\ pc'[u] = "publish" => data'[Slot(tail')] = tb'[u]
                                           /\ pc'[u] # "empty_read"
          BY <2>0, <2>6 DEF SlotsHold, TypeOK, Adding
      <3> QED BY <3>1, <3>2, <3>3, <3>4 DEF SlotsHold
    <2> QED BY <2>1, <2>2, <2>3, <2>7 DEF IInv
  <1>4. CASE AddPublish(t)
    <2> USE <1>0, <1>4 DEF AddPublish
    <2>1. TypeOK'
        BY DEF TypeOK, Locations, Ok
    <2>2. LocksHeld'
        BY DEF LocksHeld, TypeOK, Adding, Getting
    <2>3. \A u \in Threads : u # t => pc[u] \notin Adding
        BY DEF LocksHeld, Adding
    <2>4. InBounds'
        BY <2>3 DEF InBounds, TypeOK, Adding
    <2>5. head \in Nat /\ tail \in Nat /\ data[Slot(tail)] \in Tasks
        BY DEF TypeOK, SlotsHold
    <2>6. \A n \in head .. tail : data[Slot(n)] \in Tasks
        BY <2>5 DEF SlotsHold
    <2>7. SlotsHold'
        BY <2>3, <2>5, <2>6 DEF SlotsHold, TypeOK, Adding
    <2> QED BY <2>1, <2>2, <2>4, <2>7 DEF IInv
  <1>5. CASE AddUnlock(t)
    <2> USE <1>0, <1>5 DEF AddUnlock
    <2>1. TypeOK'
        BY DEF TypeOK, Locations
    <2>2. LocksHeld'
        BY NoneAssumption DEF LocksHeld, TypeOK, Adding, Getting
    <2>3. InBounds' /\ SlotsHold'
        BY DEF InBounds, SlotsHold, TypeOK
    <2> QED BY <2>1, <2>2, <2>3 DEF IInv
  <1> QED BY <1>1, <1>2, <1>3, <1>4, <1>5 DEF AddStep

\* Every step of queue_get_tb preserves the inductive invariant.
LEMMA GetIInv == ASSUME IInv, NEW t \in Threads, GetLock(t) \/ GetStep(t) PROVE IInv'
  <1>0. TypeOK /\ LocksHeld /\ InBounds /\ SlotsHold
      BY DEF IInv
  <1> USE DEF Goto
  <1>1. CASE GetLock(t)
    <2> USE <1>0, <1>1 DEF GetLock
    <2>1. TypeOK'
        BY DEF TypeOK, Locations
    <2>2. LocksHeld'
        BY NoneAssumption DEF LocksHeld, TypeOK, Adding, Getting
    <2>3. InBounds' /\ SlotsHold'
        BY DEF InBounds, SlotsHold, TypeOK
    <2> QED BY <2>1, <2>2, <2>3 DEF IInv
  <1>2. CASE GetEmpty(t)
    <2> USE <1>0, <1>2 DEF GetEmpty
    <2>0. pc[t] = "empty"
        BY DEF SlotsHold
    <2>1. TypeOK'
        BY <2>0 DEF TypeOK, Locations
    <2>2. LocksHeld'
        BY <2>0 DEF LocksHeld, TypeOK, Adding, Getting
    <2>3. InBounds' /\ SlotsHold'
        BY <2>0 DEF InBounds, SlotsHold, TypeOK
    <2> QED BY <2>1, <2>2, <2>3 DEF IInv
  <1>3. CASE GetFront(t)
    <2> USE <1>0, <1>3 DEF GetFront
    <2>0. head \in Nat /\ tail \in Nat /\ Slot(head) \in Slots
        BY SlotInRange DEF TypeOK
    <2>1. TypeOK'
        BY <2>0 DEF TypeOK, Locations
    <2>2. LocksHeld'
        BY DEF LocksHeld, TypeOK, Adding, Getting
    <2>3. InBounds' /\ SlotsHold'
        BY DEF InBounds, SlotsHold, TypeOK
    <2> QED BY <2>1, <2>2, <2>3 DEF IInv
  <1>4. CASE GetPop(t)
    <2> USE <1>0, <1>4 DEF GetPop
    <2>1. TypeOK'
        BY DEF TypeOK, Locations
    <2>2. LocksHeld'
        BY DEF LocksHeld, TypeOK, Adding, Getting
    <2>3. \A u \in Threads : u # t => pc[u] \notin Getting
        BY DEF LocksHeld, Getting
    <2>4. InBounds'
        BY <2>3, CapacityAssumption DEF InBounds, TypeOK, Getting
    <2>5. SlotsHold'
        BY <2>3 DEF SlotsHold, TypeOK, Getting
    <2> QED BY <2>1, <2>2, <2>4, <2>5 DEF IInv
  <1>5. CASE GetPopEarly(t)
    <2> USE <1>0, <1>5 DEF GetPopEarly
    <2>1. TypeOK'
        BY DEF TypeOK, Locations
    <2>2. LocksHeld'
        BY DEF LocksHeld, TypeOK, Adding, Getting
    <2>3. \A u \in Threads : u # t => pc[u] \notin Getting
        BY DEF LocksHeld, Getting
    <2>4. InBounds'
        BY <2>3, CapacityAssumption DEF InBounds, TypeOK, Getting
    <2>5. head \in head .. (tail - 1) /\ head' - 1 = head
        BY DEF InBounds, TypeOK
    <2>6. SlotsHold'
        BY <2>3, <2>5 DEF SlotsHold, TypeOK, Getting
    <2> QED BY <2>1, <2>2, <2>4, <2>6 DEF IInv
  <1>6. CASE GetFrontLate(t)
    <2> USE <1>0, <1>6 DEF GetFrontLate
    <2>0. data[Slot(head - 1)] \in Tasks
        BY DEF SlotsHold
    <2>1. TypeOK'
        BY <2>0 DEF TypeOK, Locations
    <2>2. LocksHeld'
        BY DEF LocksHeld, TypeOK, Adding, Getting
    <2>3. InBounds' /\ SlotsHold'
        BY DEF InBounds, SlotsHold, TypeOK
    <2> QED BY <2>1, <2>2, <2>3 DEF IInv
  <1>7. CASE GetUnlock(t)
    <2> USE <1>0, <1>7 DEF GetUnlock
    <2>1. TypeOK'
        BY DEF TypeOK, Locations
    <2>2. LocksHeld'
        BY NoneAssumption DEF LocksHeld, TypeOK, Adding, Getting
    <2>3. InBounds' /\ SlotsHold'
        BY DEF InBounds, SlotsHold, TypeOK
    <2> QED BY <2>1, <2>2, <2>3 DEF IInv
  <1> QED BY <1>1, <1>2, <1>3, <1>4, <1>5, <1>6, <1>7 DEF GetStep

\* Every step of queue_add_tb and queue_get_tb preserves the inductive invariant.
LEMMA NextIInv == IInv /\ [Next]_vars => IInv'
  <1> SUFFICES ASSUME IInv, [Next]_vars PROVE IInv'
      OBVIOUS
  <1>1. CASE UNCHANGED vars
      BY <1>1 DEF vars, IInv, TypeOK, LocksHeld, InBounds, SlotsHold
  <1>2. CASE Next
      BY <1>2, AddIInv, GetIInv DEF Next
  <1> QED BY <1>1, <1>2

\* The ring stays in order in every reachable state: locks, bounds and slots agree,
\* whatever the length of the queue and however add and get interleave.
THEOREM SpecIInv == Spec => []IInv
  BY InitIInv, NextIInv, PTL DEF Spec

\* queue_get_tb never returns a slot that was not written or is not the oldest.
THEOREM SpecGetsQueuedTask == Spec => []GetsQueuedTask
  <1>1. IInv => GetsQueuedTask
    <2> SUFFICES ASSUME IInv, NEW t \in Threads, pc[t] = "pop"
                 PROVE  tb[t] = data[Slot(head)] /\ tb[t] # None
        BY DEF GetsQueuedTask
    <2>1. head \in head .. (tail - 1)
        BY DEF IInv, InBounds, TypeOK
    <2> QED BY <2>1, NoneAssumption DEF IInv, SlotsHold
  <1> QED BY <1>1, SpecIInv, PTL

-----------------------------------------------------------------------------
(* Refinement                                                              *)

\* A stretch of the ring whose slots hold tasks reads as a sequence of tasks.
LEMMA StretchSeq == ASSUME NEW h \in Nat, NEW l \in Nat, h <= l, NEW d,
                           \A n \in h .. (l - 1) : d[Slot(n)] \in Tasks
                    PROVE  /\ [i \in 1 .. (l - h) |-> d[Slot(h + i - 1)]] \in Seq(Tasks)
                           /\ Len([i \in 1 .. (l - h) |-> d[Slot(h + i - 1)]]) = l - h
  <1>1. \A i \in 1 .. (l - h) : d[Slot(h + i - 1)] \in Tasks
    <2> TAKE i \in 1 .. (l - h)
    <2>1. h + i - 1 \in h .. (l - 1)
        OBVIOUS
    <2> QED BY <2>1
  <1>2. [i \in 1 .. (l - h) |-> d[Slot(h + i - 1)]] \in [1 .. (l - h) -> Tasks] /\ l - h \in Nat
      BY <1>1
  <1> QED BY <1>2

\* What lies between head and tail is a sequence of tasks.
LEMMA ContentsSeq == ASSUME IInv
                     PROVE  /\ Contents \in Seq(Tasks)
                            /\ Len(Contents) = tail - head
                            /\ tail - head \in Nat
                            /\ \A i \in 1 .. (tail - head) : Contents[i] = data[Slot(head + i - 1)]
  <1>1. head \in Nat /\ tail \in Nat /\ head <= tail
      BY DEF IInv, TypeOK, InBounds
  <1>2. Contents \in Seq(Tasks) /\ Len(Contents) = tail - head
      BY <1>1, StretchSeq DEF IInv, SlotsHold, Contents
  <1> QED BY <1>1, <1>2 DEF Contents

\* The same after a step.
LEMMA ContentsSeqAfter == ASSUME IInv' PROVE Contents' \in Seq(Tasks) /\ Len(Contents') = tail' - head'
  <1>1. head' \in Nat /\ tail' \in Nat /\ head' <= tail'
      BY DEF IInv, TypeOK, InBounds
  <1>2. \A n \in head' .. (tail' - 1) : data'[Slot(n)] \in Tasks
      BY DEF IInv, SlotsHold, Slot
  <1>3. Contents' = [i \in 1 .. (tail' - head') |-> data'[Slot(head' + i - 1)]]
      BY DEF Contents, Slot
  <1> QED BY <1>1, <1>2, <1>3, StretchSeq

\* Steps that leave head, tail, the queued slots and the results alone are invisible.
LEMMA SameContents == ASSUME IInv, head' = head, tail' = tail,
                             \A n \in head .. (tail - 1) : data'[Slot(n)] = data[Slot(n)]
                      PROVE  Contents' = Contents
  <1>1. head \in Nat /\ tail \in Nat
      BY DEF IInv, TypeOK
  <1>2. \A i \in 1 .. (tail - head) : data'[Slot(head + i - 1)] = data[Slot(head + i - 1)]
    <2> TAKE i \in 1 .. (tail - head)
    <2>1. head + i - 1 \in head .. (tail - 1)
        BY <1>1
    <2> QED BY <2>1
  <1> QED BY <1>2 DEF Contents, Slot

\* Publishing tail appends the task that was written (kupl_vector_push_back_macro).
LEMMA PublishAppends == ASSUME IInv, NEW t \in Threads, AddPublish(t)
                        PROVE  Contents' = Append(Contents, tb[t])
  <1>0. IInv'
      BY AddIInv DEF AddStep
  <1>1. head \in Nat /\ tail \in Nat /\ head' = head /\ tail' = tail + 1 /\ data' = data
      BY DEF IInv, TypeOK, AddPublish
  <1>2. tb[t] \in Tasks /\ data[Slot(tail)] = tb[t]
      BY DEF IInv, SlotsHold, AddPublish
  <1>3. Contents' \in Seq(Tasks) /\ Len(Contents') = tail + 1 - head
      BY <1>0, <1>1, ContentsSeqAfter
  <1>4. /\ Append(Contents, tb[t]) \in Seq(Tasks)
        /\ Len(Append(Contents, tb[t])) = tail - head + 1
        /\ \A i \in 1 .. (tail - head) : Append(Contents, tb[t])[i] = Contents[i]
        /\ Append(Contents, tb[t])[tail - head + 1] = tb[t]
      BY <1>2, ContentsSeq, AppendProperties
  <1>5. \A i \in 1 .. (tail + 1 - head) : Contents'[i] = data[Slot(head + i - 1)]
      BY <1>1 DEF Contents, Slot
  <1>6. ASSUME NEW i \in 1 .. Len(Contents') PROVE Contents'[i] = Append(Contents, tb[t])[i]
    <2>1. CASE i = tail - head + 1
        BY <2>1, <1>1, <1>2, <1>3, <1>4, <1>5
    <2>2. CASE i # tail - head + 1
      <3>1. i \in 1 .. (tail - head) /\ i \in 1 .. (tail + 1 - head)
          BY <2>2, <1>1, <1>3
      <3> QED BY <3>1, <1>4, <1>5, ContentsSeq
    <2> QED BY <2>1, <2>2
  <1> QED BY <1>1, <1>3, <1>4, <1>6, SeqEqual

\* Bumping head takes the oldest task off (kupl_vector_pop_front_macro).
LEMMA PopTakesHead == ASSUME IInv, IInv', head < tail, head' = head + 1, tail' = tail, data' = data
                      PROVE  /\ Contents # <<>>
                             /\ Head(Contents) = data[Slot(head)]
                             /\ Contents' = Tail(Contents)
  <1>1. head \in Nat /\ tail \in Nat /\ tail - head >= 1
      BY DEF IInv, TypeOK
  <1>2. Contents # <<>>
      BY <1>1, ContentsSeq
  <1>3. Head(Contents) = data[Slot(head)]
      BY <1>1, <1>2, ContentsSeq
  <1>4. Contents' \in Seq(Tasks) /\ Len(Contents') = tail - head - 1
      BY <1>1, ContentsSeqAfter
  <1>5. /\ Tail(Contents) \in Seq(Tasks)
        /\ Len(Tail(Contents)) = tail - head - 1
        /\ \A i \in 1 .. Len(Tail(Contents)) : Tail(Contents)[i] = Contents[i + 1]
      BY <1>2, ContentsSeq, HeadTailProperties
  <1>6. ASSUME NEW i \in 1 .. Len(Contents') PROVE Contents'[i] = Tail(Contents)[i]
    <2>1. i \in 1 .. (tail - head - 1) /\ i + 1 \in 1 .. (tail - head)
        BY <1>1, <1>4
    <2>2. Contents'[i] = data[Slot(head + 1 + i - 1)]
        BY <1>1, <2>1 DEF Contents, Slot
    <2>3. Contents[i + 1] = data[Slot(head + (i + 1) - 1)]
        BY <2>1, ContentsSeq
    <2>4. head + 1 + i - 1 = head + (i + 1) - 1
        BY <1>1, <2>1
    <2> QED BY <1>5, <2>1, <2>2, <2>3, <2>4
  <1> QED BY <1>2, <1>3, <1>4, <1>5, <1>6, SeqEqual

\* Each step of the ring is a step of the abstract queue or changes nothing it shows.
LEMMA NextRefines == IInv /\ [Next]_vars => [Fifo!Next]_<<Contents, Returned>>
  <1> SUFFICES ASSUME IInv, [Next]_vars PROVE [Fifo!Next]_<<Contents, Returned>>
      OBVIOUS
  <1>0. TypeOK /\ LocksHeld /\ InBounds /\ SlotsHold /\ IInv' /\ head \in Nat /\ tail \in Nat
      BY NextIInv DEF IInv, TypeOK
  <1>1. CASE UNCHANGED vars
      BY <1>1 DEF vars, Contents, Returned, Slot
  <1>2. ASSUME NEW t \in Threads,
               AddLock(t) \/ AddUnlock(t) \/ GetLock(t) \/ GetFront(t) \/ GetUnlock(t)
        PROVE  UNCHANGED <<Contents, Returned>>
    <2>1. Contents' = Contents
        BY <1>2, SameContents DEF AddLock, AddUnlock, GetLock, GetFront, GetUnlock
    <2>2. Returned' = Returned
        BY <1>0, <1>2 DEF AddLock, AddUnlock, GetLock, GetFront, GetUnlock, Goto, Returned, TypeOK, Slot
    <2> QED BY <2>1, <2>2
  <1>3. ASSUME NEW t \in Threads, AddCheck(t)
        PROVE  Fifo!AddRefused(t) \/ UNCHANGED <<Contents, Returned>>
    <2> USE <1>0, <1>3 DEF AddCheck, Goto
    <2>1. Contents' = Contents
        BY SameContents
    <2>2. CASE HasRoom
        BY <2>1, <2>2 DEF Returned, TypeOK, Slot
    <2>3. CASE ~HasRoom
      <3>1. Len(Contents) >= Capacity - 1
          BY <2>3, ContentsSeq, CapacityAssumption DEF HasRoom
      <3>2. Returned' = [Returned EXCEPT ![t] = Full]
          BY <2>3 DEF Returned, TypeOK, Slot
      <3> QED BY <2>1, <3>1, <3>2 DEF Fifo!AddRefused, Fifo!Full, Full
    <2> QED BY <2>2, <2>3
  <1>4. ASSUME NEW t \in Threads, AddWrite(t) PROVE UNCHANGED <<Contents, Returned>>
    <2> USE <1>0, <1>4 DEF AddWrite, Goto
    <2>1. \A n \in head .. (tail - 1) : data'[Slot(n)] = data[Slot(n)]
      <3> TAKE n \in head .. (tail - 1)
      <3>1. n \in Nat /\ n < tail /\ tail - n < Capacity
          BY CapacityAssumption DEF InBounds
      <3>2. Slot(n) # Slot(tail) /\ Slot(n) \in Slots
          BY <3>1, SlotsApart, SlotInRange
      <3> QED BY <3>2 DEF TypeOK
    <2>2. Contents' = Contents
        BY <2>1, SameContents
    <2>3. ASSUME NEW u \in Threads, pc[u] = "late_front"
          PROVE  data'[Slot(head - 1)] = data[Slot(head - 1)]
      <3>1. head - 1 \in Nat /\ head - 1 < tail /\ tail - (head - 1) < Capacity
          BY <2>3, CapacityAssumption DEF InBounds
      <3>2. Slot(head - 1) # Slot(tail) /\ Slot(head - 1) \in Slots
          BY <3>1, SlotsApart, SlotInRange
      <3> QED BY <3>2 DEF TypeOK
    <2>4. Returned' = Returned
        BY <2>3 DEF Returned, TypeOK, Slot
    <2> QED BY <2>2, <2>4
  <1>5. ASSUME NEW t \in Threads, AddPublish(t) PROVE \E x \in Tasks : Fifo!Add(t, x)
    <2> USE <1>0, <1>5 DEF AddPublish, Goto
    <2>1. Contents' = Append(Contents, tb[t])
        BY PublishAppends
    <2>2. tb[t] \in Tasks /\ Len(Contents) < Capacity - 1
        BY ContentsSeq, CapacityAssumption DEF SlotsHold, InBounds
    <2>3. Returned' = [Returned EXCEPT ![t] = Ok]
        BY DEF Returned, TypeOK, Slot
    <2> QED BY <2>1, <2>2, <2>3 DEF Fifo!Add, Fifo!Ok, Ok
  <1>6. ASSUME NEW t \in Threads, GetEmpty(t)
        PROVE  Fifo!GetNothing(t) \/ UNCHANGED <<Contents, Returned>>
    <2> USE <1>0, <1>6 DEF GetEmpty, Goto
    <2>1. Contents' = Contents
        BY SameContents
    <2>2. CASE head # tail
        BY <2>1, <2>2 DEF Returned, TypeOK, Slot
    <2>3. CASE head = tail
      <3>1. Contents = <<>>
          BY <2>3, ContentsSeq
      <3>2. Returned' = [Returned EXCEPT ![t] = None]
          BY <2>3 DEF Returned, TypeOK, Slot
      <3> QED BY <2>1, <3>1, <3>2 DEF Fifo!GetNothing
    <2> QED BY <2>2, <2>3
  <1>7. ASSUME NEW t \in Threads, GetPop(t) PROVE Fifo!Get(t)
    <2> USE <1>0, <1>7 DEF GetPop, Goto
    <2>1. head < tail /\ tb[t] = data[Slot(head)]
        BY DEF InBounds, SlotsHold
    <2>2. \A u \in Threads : pc[u] # "late_front"
        BY DEF LocksHeld, Getting
    <2>3. Returned' = [Returned EXCEPT ![t] = data[Slot(head)]]
        BY <2>1, <2>2 DEF Returned, TypeOK
    <2> QED BY <2>1, <2>3, PopTakesHead DEF Fifo!Get
  <1>8. ASSUME NEW t \in Threads, GetPopEarly(t) PROVE Fifo!Get(t)
    <2> USE <1>0, <1>8 DEF GetPopEarly, Goto
    <2>1. head < tail /\ head' - 1 = head
        BY DEF InBounds
    <2>2. \A u \in Threads : pc[u] # "late_front"
        BY DEF LocksHeld, Getting
    <2>3. Returned' = [Returned EXCEPT ![t] = data[Slot(head)]]
        BY <2>1, <2>2 DEF Returned, TypeOK, Slot
    <2> QED BY <2>1, <2>3, PopTakesHead DEF Fifo!Get
  <1>9. ASSUME NEW t \in Threads, GetFrontLate(t) PROVE UNCHANGED <<Contents, Returned>>
    <2> USE <1>0, <1>9 DEF GetFrontLate, Goto
    <2>1. Contents' = Contents
        BY SameContents
    <2>2. Returned' = Returned
        BY DEF Returned, TypeOK, Slot
    <2> QED BY <2>1, <2>2
  <1> QED BY <1>1, <1>2, <1>3, <1>4, <1>5, <1>6, <1>7, <1>8, <1>9
          DEF Next, AddStep, GetStep, Fifo!Next

\* The ring with its two locks implements the abstract bounded FIFO queue with room
\* for one task less than it has slots: queue_add_tb and queue_get_tb are linearizable.
THEOREM SpecIsFifo == Spec => IsFifo
  <1>1. Init => Fifo!Init
    <2> SUFFICES ASSUME Init PROVE Fifo!Init
        OBVIOUS
    <2>1. Contents = <<>>
        BY InitIInv, ContentsSeq DEF Init
    <2> QED BY <2>1 DEF Init, Returned, Fifo!Init
  <1> QED BY <1>1, NextRefines, SpecIInv, PTL DEF Spec, IsFifo, Fifo!Spec
=============================================================================
