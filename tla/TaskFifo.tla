------------------------------ MODULE TaskFifo ------------------------------
(***************************************************************************)
(* What a queue of the scheduler plugins promises: a first-in first-out    *)
(* queue with room for Room tasks, on which queue_add_tb and queue_get_tb  *)
(* take effect in one step each.                                           *)
(***************************************************************************)
EXTENDS Naturals, Sequences

CONSTANTS
    Threads,    \* callers
    Tasks,      \* kupl_taskbase_t pointers
    Room,       \* how many tasks fit
    None        \* nullptr

VARIABLES
    q,          \* the tasks queued, oldest first
    res         \* what the last call of each thread returned

Ok == "KUPL_OK"
Full == "KUPL_ERROR"

Init == q = <<>> /\ res = [t \in Threads |-> None]

Add(t, tb) ==
    /\ Len(q) < Room
    /\ q' = Append(q, tb)
    /\ res' = [res EXCEPT ![t] = Ok]

\* the queue has no room: the caller keeps the task
AddRefused(t) ==
    /\ Len(q) >= Room
    /\ res' = [res EXCEPT ![t] = Full]
    /\ UNCHANGED q

Get(t) ==
    /\ q # <<>>
    /\ res' = [res EXCEPT ![t] = Head(q)]
    /\ q' = Tail(q)

GetNothing(t) ==
    /\ q = <<>>
    /\ res' = [res EXCEPT ![t] = None]
    /\ UNCHANGED q

Next == \E t \in Threads :
            \/ \E tb \in Tasks : Add(t, tb)
            \/ AddRefused(t) \/ Get(t) \/ GetNothing(t)

Spec == Init /\ [][Next]_<<q, res>>
=============================================================================
