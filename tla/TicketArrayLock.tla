--------------------------- MODULE TicketArrayLock ---------------------------
(***************************************************************************)
(* The ticket array lock of utils/lock/ticket_array_lock, the lock every   *)
(* executor descriptor carries (kupl_executor.cpp creates it).  A locker   *)
(* draws a ticket from head with one fetch_add and spins on its own slot   *)
(* of the values array until the slot holds its ticket; the unlocker bumps *)
(* next and publishes it into the next slot.  trylock reads head, looks at *)
(* the slot and then tries to take the ticket with a compare-and-swap.     *)
(*                                                                         *)
(* Each atomic access of the C++ code is one action; next is a plain field *)
(* that only the owner writes.  Tickets are uint64_t in the code and never *)
(* wrap in practice: MaxTicket caps them here.                             *)
(***************************************************************************)
EXTENDS Integers

CONSTANTS
    Threads,    \* the threads that share the lock
    Size,       \* raw->size: the number of slots (2 * pu_cnt in the code)
    MaxTicket   \* bound: tickets are drawn only below it

ASSUME SizeAssumption == Size \in Nat \ {0}
ASSUME MaxTicketAssumption == MaxTicket \in Nat

VARIABLES
    head,       \* raw->head: the next ticket to draw
    next,       \* raw->next: the ticket being served
    values,     \* raw->values[i].value
    ticket,     \* the local variable `head` of tal_lock / tal_trylock
    pc          \* where each thread is

vars == <<head, next, values, ticket, pc>>

Slots == 0 .. (Size - 1)

\* the slot a ticket spins on
Slot(n) == n % Size

Locations == {"idle", "spin", "cs", "publish", "try_check", "try_cas"}

Init ==
    /\ head = 0
    /\ next = 0
    /\ values = [i \in Slots |-> 0]
    /\ ticket = [t \in Threads |-> 0]
    /\ pc = [t \in Threads |-> "idle"]

\* kupl_tal_lock: head = fetch_add(&raw->head, 1)
TalTakeTicket(t) ==
    /\ pc[t] = "idle"
    /\ head < MaxTicket
    /\ ticket' = [ticket EXCEPT ![t] = head]
    /\ head' = head + 1
    /\ pc' = [pc EXCEPT ![t] = "spin"]
    /\ UNCHANGED <<next, values>>

\* kupl_tal_lock: the spin loop ends once the slot shows the ticket
TalSpinDone(t) ==
    /\ pc[t] = "spin"
    /\ values[Slot(ticket[t])] = ticket[t]
    /\ pc' = [pc EXCEPT ![t] = "cs"]
    /\ UNCHANGED <<head, next, values, ticket>>

\* kupl_tal_unlock: ++raw->next, by the owner only
TalUnlockBump(t) ==
    /\ pc[t] = "cs"
    /\ next' = next + 1
    /\ pc' = [pc EXCEPT ![t] = "publish"]
    /\ UNCHANGED <<head, values, ticket>>

\* mutant: unlock publishes into the slot of the ticket it releases
TalUnlockPublishMutant(t) ==
    /\ pc[t] = "publish"
    /\ values' = [values EXCEPT ![Slot(ticket[t])] = next]
    /\ pc' = [pc EXCEPT ![t] = "idle"]
    /\ UNCHANGED <<head, next, ticket>>

\* kupl_tal_unlock: store raw->next into its slot
TalUnlockPublish(t) ==
    /\ pc[t] = "publish"
    /\ values' = [values EXCEPT ![Slot(next)] = next]
    /\ pc' = [pc EXCEPT ![t] = "idle"]
    /\ UNCHANGED <<head, next, ticket>>

\* kupl_tal_trylock: load raw->head
TalTryLoad(t) ==
    /\ pc[t] = "idle"
    /\ head < MaxTicket
    /\ ticket' = [ticket EXCEPT ![t] = head]
    /\ pc' = [pc EXCEPT ![t] = "try_check"]
    /\ UNCHANGED <<head, next, values>>

\* kupl_tal_trylock: give up when the slot does not show the ticket
TalTryCheck(t) ==
    /\ pc[t] = "try_check"
    /\ pc' = [pc EXCEPT ![t] = IF values[Slot(ticket[t])] = ticket[t] THEN "try_cas" ELSE "idle"]
    /\ UNCHANGED <<head, next, values, ticket>>

\* mutant: trylock enters on the slot alone, without the compare-and-swap succeeding
TalTryCasMutant(t) ==
    /\ pc[t] = "try_cas"
    /\ head' = head + 1
    /\ pc' = [pc EXCEPT ![t] = "cs"]
    /\ UNCHANGED <<next, values, ticket>>

\* kupl_tal_trylock: the compare-and-swap takes the lock or fails
TalTryCas(t) ==
    /\ pc[t] = "try_cas"
    /\ IF head = ticket[t]
       THEN /\ head' = head + 1
            /\ pc' = [pc EXCEPT ![t] = "cs"]
       ELSE /\ pc' = [pc EXCEPT ![t] = "idle"]
            /\ UNCHANGED head
    /\ UNCHANGED <<next, values, ticket>>

\* the steps a thread must not stop in the middle of: everything but asking
\* for the lock
Progress(t) ==
    \/ TalSpinDone(t)
    \/ TalUnlockBump(t)
    \/ TalUnlockPublish(t)
    \/ TalTryCheck(t)
    \/ TalTryCas(t)

Next == \E t \in Threads : TalTakeTicket(t) \/ TalTryLoad(t) \/ Progress(t)

\* A thread inside lock, trylock, unlock or the protected section keeps running.
Fairness == \A t \in Threads : WF_vars(Progress(t))

Spec == Init /\ [][Next]_vars

FairSpec == Spec /\ Fairness

-----------------------------------------------------------------------------
TypeOK ==
    /\ head \in Nat
    /\ next \in Nat
    /\ values \in [Slots -> Nat]
    /\ ticket \in [Threads -> Nat]
    /\ pc \in [Threads -> Locations]

Owner(t) == pc[t] \in {"cs", "publish"}

\* Two threads never both own the lock, whichever mix of lock and trylock they
\* came in by and however slots are reused once tickets exceed Size
\* (kupl_tal_lock, kupl_tal_trylock, kupl_tal_unlock).
MutualExclusion == \A t, u \in Threads : Owner(t) /\ Owner(u) => t = u

\* Every thread that drew a ticket in kupl_tal_lock eventually owns the lock: the
\* published slot is never overwritten before the waiter sees it.
LockIsGranted == \A t \in Threads : (pc[t] = "spin") ~> (pc[t] = "cs")

-----------------------------------------------------------------------------
(* Strengthening of MutualExclusion that every step preserves.             *)

Drawn(t) == pc[t] \in {"spin", "cs", "publish"}

\* tickets are drawn once each, below head, and wait only while not yet served
TicketsDrawn ==
    /\ \A t \in Threads : Drawn(t) => ticket[t] < head
    /\ \A t \in Threads : pc[t] = "spin" => next <= ticket[t]
    /\ \A t, u \in Threads : Drawn(t) /\ Drawn(u) /\ ticket[t] = ticket[u] => t = u

\* the ticket served, and which slot shows it
ServiceState ==
    /\ next <= head
    /\ \A i \in Slots : values[i] <= next
    /\ \A t \in Threads : pc[t] = "cs" =>
          /\ ticket[t] = next
          /\ values[Slot(next)] = next
    /\ \A t \in Threads : pc[t] = "publish" =>
          /\ ticket[t] + 1 = next
          /\ \A i \in Slots : values[i] < next

\* what trylock saw stays true as long as its compare-and-swap can succeed
TrySawTicket ==
    \A t \in Threads :
        /\ pc[t] \in {"try_check", "try_cas"} => ticket[t] <= head
        /\ pc[t] = "try_cas" /\ head = ticket[t] => values[Slot(head)] = head

IInv == TypeOK /\ TicketsDrawn /\ ServiceState /\ TrySawTicket

=============================================================================
