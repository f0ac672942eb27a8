----------------------------- MODULE SchedQueue -----------------------------
(***************************************************************************)
(* The ready queue of the scheduler plugins (queue_t of mq, static_mq and  *)
(* expand_static_mq, and the spsc stage of the priority queue): the ring   *)
(* of tools/struct/kupl_vector.h with one lock for the adders and another  *)
(* for the getters, so that one adder and one getter work at a time.       *)
(*                                                                         *)
(* Each access to head, tail and a slot is a step.  The accesses are       *)
(* relaxed except the release of tail, and slots are plain memory, so the  *)
(* Kunpeng (AArch64) memory model lets a getter's accesses change order    *)
(* inside its critical section: the slot may be read after head has been   *)
(* bumped (GetPopEarly). That it may also be read before tail has been     *)
(* compared is left out: the queue is not correct then (README).           *)
(* The adder's accesses stay in order: control dependency before the store *)
(* to the slot, release before tail.                                       *)
(***************************************************************************)
EXTENDS Integers, Sequences

CONSTANTS
    Threads,    \* the executors
    Tasks,      \* kupl_taskbase_t pointers
    None,       \* nullptr
    Length,     \* the size asked for (KUPL_SCHED_QUEUE_LENGTH)
    MaxAdds     \* bound: successful adds

\* kupl_vector_create: the first power of two that is no smaller
Capacity == CHOOSE c \in 1 .. 2 * Length :
                /\ c >= Length
                /\ \E k \in 0 .. Length : c = 2 ^ k
                /\ \A k \in 0 .. Length : 2 ^ k >= Length => c <= 2 ^ k

ASSUME LengthAssumption == Length \in Nat \ {0}
ASSUME CapacityAssumption == Capacity \in Nat \ {0} /\ Capacity >= Length
ASSUME NoneAssumption == None \notin Tasks \cup Threads
ASSUME MaxAddsAssumption == MaxAdds \in Nat

VARIABLES
    head,       \* vector->head, only ever grows
    tail,       \* vector->tail, only ever grows
    data,       \* vector->data
    addLock,    \* owner of queue->add_lock, or None
    getLock,    \* owner of queue->get_lock, or None
    tb,         \* the local tb of a call: argument of add, result of get
    res,        \* what the last call of each thread returned
    pc

vars == <<head, tail, data, addLock, getLock, tb, res, pc>>

Ok == "KUPL_OK"
Full == "KUPL_ERROR"

Slots == 0 .. (Capacity - 1)
Slot(n) == n % Capacity

Goto(t, l) == pc' = [pc EXCEPT ![t] = l]

Init ==
    /\ head = 0 /\ tail = 0
    /\ data = [i \in Slots |-> None]
    /\ addLock = None /\ getLock = None
    /\ tb = [t \in Threads |-> None]
    /\ res = [t \in Threads |-> None]
    /\ pc = [t \in Threads |-> "idle"]

-----------------------------------------------------------------------------
(* queue_add_tb                                                            *)

AddLock(t) ==
    /\ pc[t] = "idle" /\ addLock = None /\ tail < MaxAdds
    /\ addLock' = t
    /\ \E x \in Tasks : tb' = [tb EXCEPT ![t] = x]
    /\ Goto(t, "check")
    /\ UNCHANGED <<head, tail, data, getLock, res>>

\* mutant: all slots are used, none is left spare
HasRoomMutant == tail - head < Capacity

\* kupl_vector_push_back_macro, the test
HasRoom == tail - head + 1 < Capacity

AddCheck(t) ==
    /\ pc[t] = "check"
    /\ IF HasRoom
       THEN Goto(t, "write") /\ UNCHANGED res
       ELSE Goto(t, "add_unlock") /\ res' = [res EXCEPT ![t] = Full]
    /\ UNCHANGED <<head, tail, data, addLock, getLock, tb>>

AddWrite(t) ==
    /\ pc[t] = "write"
    /\ data' = [data EXCEPT ![Slot(tail)] = tb[t]]
    /\ Goto(t, "publish")
    /\ UNCHANGED <<head, tail, addLock, getLock, tb, res>>

AddPublish(t) ==
    /\ pc[t] = "publish"
    /\ tail' = tail + 1
    /\ res' = [res EXCEPT ![t] = Ok]
    /\ Goto(t, "add_unlock")
    /\ UNCHANGED <<head, data, addLock, getLock, tb>>

AddUnlock(t) ==
    /\ pc[t] = "add_unlock"
    /\ addLock' = None
    /\ tb' = [tb EXCEPT ![t] = None]
    /\ Goto(t, "idle")
    /\ UNCHANGED <<head, tail, data, getLock, res>>

-----------------------------------------------------------------------------
(* queue_get_tb                                                            *)

\* mutant: getters do not exclude each other
GetLockMutant(t) ==
    /\ pc[t] = "idle"
    /\ getLock' = t
    /\ Goto(t, "empty")
    /\ UNCHANGED <<head, tail, data, addLock, tb, res>>

GetLock(t) ==
    /\ pc[t] = "idle" /\ getLock = None
    /\ getLock' = t
    /\ Goto(t, "empty")
    /\ UNCHANGED <<head, tail, data, addLock, tb, res>>

\* kupl_vector_empty_macro
GetEmpty(t) ==
    /\ pc[t] \in {"empty", "empty_read"}
    /\ IF head = tail
       THEN Goto(t, "get_unlock") /\ res' = [res EXCEPT ![t] = None]
       ELSE Goto(t, IF pc[t] = "empty" THEN "front" ELSE "pop") /\ UNCHANGED res
    /\ UNCHANGED <<head, tail, data, addLock, getLock, tb>>

\* kupl_vector_front_macro
GetFront(t) ==
    /\ pc[t] = "front"
    /\ tb' = [tb EXCEPT ![t] = data[Slot(head)]]
    /\ Goto(t, "pop")
    /\ UNCHANGED <<head, tail, data, addLock, getLock, res>>

\* kupl_vector_pop_front_macro
GetPop(t) ==
    /\ pc[t] = "pop"
    /\ head' = head + 1
    /\ res' = [res EXCEPT ![t] = tb[t]]
    /\ Goto(t, "get_unlock")
    /\ UNCHANGED <<tail, data, addLock, getLock, tb>>

\* head is bumped first, the slot read afterwards
GetPopEarly(t) ==
    /\ pc[t] = "front"
    /\ head' = head + 1
    /\ Goto(t, "late_front")
    /\ UNCHANGED <<tail, data, addLock, getLock, tb, res>>

GetFrontLate(t) ==
    /\ pc[t] = "late_front"
    /\ tb' = [tb EXCEPT ![t] = data[Slot(head - 1)]]
    /\ res' = [res EXCEPT ![t] = data[Slot(head - 1)]]
    /\ Goto(t, "get_unlock")
    /\ UNCHANGED <<head, tail, data, addLock, getLock>>

GetUnlock(t) ==
    /\ pc[t] = "get_unlock"
    /\ getLock' = None
    /\ tb' = [tb EXCEPT ![t] = None]
    /\ Goto(t, "idle")
    /\ UNCHANGED <<head, tail, data, addLock, res>>

-----------------------------------------------------------------------------
AddStep(t) == AddCheck(t) \/ AddWrite(t) \/ AddPublish(t) \/ AddUnlock(t)
GetStep(t) == \/ GetEmpty(t) \/ GetFront(t) \/ GetPop(t)
              \/ GetPopEarly(t) \/ GetFrontLate(t) \/ GetUnlock(t)

Next == \E t \in Threads : AddLock(t) \/ AddStep(t) \/ GetLock(t) \/ GetStep(t)

\* Threads do not stop inside a call, and an executor polls its queue again and
\* again (executor_body).  The spin locks are not fair.
Fairness == /\ \A t \in Threads : WF_vars(AddStep(t)) /\ WF_vars(GetStep(t))
            /\ WF_vars(\E t \in Threads : GetLock(t))

Spec == Init /\ [][Next]_vars
FairSpec == Spec /\ Fairness

-----------------------------------------------------------------------------
Locations == {"idle", "check", "write", "publish", "add_unlock", "empty", "empty_read",
              "front", "pop", "late_front", "get_unlock"}
Adding == {"check", "write", "publish", "add_unlock"}
Getting == {"empty", "empty_read", "front", "pop", "late_front", "get_unlock"}

TypeOK ==
    /\ head \in Nat /\ tail \in Nat
    /\ data \in [Slots -> Tasks \cup {None}]
    /\ addLock \in Threads \cup {None}
    /\ getLock \in Threads \cup {None}
    /\ tb \in [Threads -> Tasks \cup {None}]
    /\ res \in [Threads -> Tasks \cup {None, Ok, Full}]
    /\ pc \in [Threads -> Locations]

\* The queue as its callers see it: what lies between head and tail.  A getter that
\* has bumped head and not read the slot yet has, for its caller, the task in it.
Contents == [i \in 1 .. (tail - head) |-> data[Slot(head + i - 1)]]
Returned == [t \in Threads |-> IF pc[t] = "late_front" THEN data[Slot(head - 1)] ELSE res[t]]

Fifo == INSTANCE TaskFifo WITH Room <- Capacity - 1, q <- Contents, res <- Returned

\* The ring with its two locks is a FIFO queue, although add and get overlap and the
\* slot may be read after head is bumped: nothing is lost, duplicated, overtaken or
\* read after it was overwritten (queue_add_tb, queue_get_tb).  The slot that
\* kupl_vector_push_back_macro keeps spare is what makes the late read safe.
IsFifo == Fifo!Spec

\* The task a getter is about to return is the oldest one queued, and a real one.
GetsQueuedTask == \A t \in Threads : pc[t] = "pop" => tb[t] = data[Slot(head)] /\ tb[t] # None

-----------------------------------------------------------------------------
(* The inductive invariant, for the reorderings that are safe              *)

LocksHeld ==
    /\ \A t \in Threads : addLock = t <=> pc[t] \in Adding
    /\ \A t \in Threads : getLock = t <=> pc[t] \in Getting

InBounds ==
    /\ head <= tail /\ tail - head < Capacity
    /\ \A t \in Threads : /\ pc[t] \in {"write", "publish"} => tail - head + 1 < Capacity
                          /\ pc[t] \in {"front", "pop"} => head < tail
                          /\ pc[t] = "late_front" => head > 0

SlotsHold ==
    /\ \A n \in head .. (tail - 1) : data[Slot(n)] \in Tasks
    /\ \A t \in Threads : /\ pc[t] = "pop" => tb[t] = data[Slot(head)]
                          /\ pc[t] \in {"check", "write", "publish"} => tb[t] \in Tasks
                          /\ pc[t] = "publish" => data[Slot(tail)] = tb[t]
                          /\ pc[t] = "late_front" => data[Slot(head - 1)] \in Tasks
                          /\ pc[t] # "empty_read"

IInv == TypeOK /\ LocksHeld /\ InBounds /\ SlotsHold
=============================================================================
