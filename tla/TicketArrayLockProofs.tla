------------------------ MODULE TicketArrayLockProofs ------------------------
(***************************************************************************)
(* Mutual exclusion of the ticket array lock for any number of threads,    *)
(* slots and tickets.                                                      *)
(***************************************************************************)
EXTENDS TicketArrayLock, TLAPS

\* A slot number is always in range, whatever the ticket (head % raw->size).
LEMMA SlotInRange == \A n \in Nat : Slot(n) \in Slots
  BY SizeAssumption DEF Slot, Slots

\* The initial state of the lock satisfies the inductive invariant
\* (kupl_tal_init zeroes head, next and the values array).
LEMMA InitIInv == Init => IInv
  <1> SUFFICES ASSUME Init PROVE IInv
      OBVIOUS
  <1>1. TypeOK
      BY DEF Init, TypeOK, Locations
  <1>2. TicketsDrawn /\ TrySawTicket
      BY DEF Init, TicketsDrawn, Drawn, TrySawTicket
  <1>3. ServiceState
      BY DEF Init, ServiceState
  <1> QED BY <1>1, <1>2, <1>3 DEF IInv

\* Every atomic step of lock, unlock and trylock preserves the inductive
\* invariant.
LEMMA NextIInv == IInv /\ [Next]_vars => IInv'
  <1> SUFFICES ASSUME IInv, [Next]_vars PROVE IInv'
      OBVIOUS
  <1>0. TypeOK /\ TicketsDrawn /\ ServiceState /\ TrySawTicket
      BY DEF IInv
  <1>1. ASSUME NEW t \in Threads, TalTakeTicket(t) PROVE IInv'
    <2>1. TypeOK'
        BY <1>0, <1>1, SlotInRange, MaxTicketAssumption DEF TalTakeTicket, TypeOK, Locations
    <2>2. TicketsDrawn'
        BY <1>0, <1>1, SlotInRange DEF TalTakeTicket, TypeOK, Locations, TicketsDrawn, Drawn, ServiceState, TrySawTicket
    <2>3. ServiceState'
        BY <1>0, <1>1, SlotInRange DEF TalTakeTicket, TypeOK, Locations, TicketsDrawn, Drawn, ServiceState, TrySawTicket
    <2>4. TrySawTicket'
        BY <1>0, <1>1, SlotInRange DEF TalTakeTicket, TypeOK, Locations, ServiceState, TrySawTicket
    <2> QED BY <2>1, <2>2, <2>3, <2>4 DEF IInv
  <1>2. ASSUME NEW t \in Threads, TalSpinDone(t) PROVE IInv'
    <2>1. TypeOK'
        BY <1>0, <1>2, SlotInRange, MaxTicketAssumption DEF TalSpinDone, TypeOK, Locations
    <2>2. TicketsDrawn'
        BY <1>0, <1>2, SlotInRange DEF TalSpinDone, TypeOK, Locations, TicketsDrawn, Drawn, ServiceState, TrySawTicket
    <2>3. ServiceState'
        BY <1>0, <1>2, SlotInRange DEF TalSpinDone, TypeOK, Locations, TicketsDrawn, Drawn, ServiceState, TrySawTicket
    <2>4. TrySawTicket'
        BY <1>0, <1>2, SlotInRange DEF TalSpinDone, TypeOK, Locations, ServiceState, TrySawTicket
    <2> QED BY <2>1, <2>2, <2>3, <2>4 DEF IInv
  <1>3. ASSUME NEW t \in Threads, TalUnlockBump(t) PROVE IInv'
    <2>1. TypeOK'
        BY <1>0, <1>3, SlotInRange, MaxTicketAssumption DEF TalUnlockBump, TypeOK, Locations
    <2>2. TicketsDrawn'
        BY <1>0, <1>3, SlotInRange DEF TalUnlockBump, TypeOK, Locations, TicketsDrawn, Drawn, ServiceState, TrySawTicket
    <2>3. ServiceState'
        BY <1>0, <1>3, SlotInRange DEF TalUnlockBump, TypeOK, Locations, TicketsDrawn, Drawn, ServiceState, TrySawTicket
    <2>4. TrySawTicket'
        BY <1>0, <1>3, SlotInRange DEF TalUnlockBump, TypeOK, Locations, ServiceState, TrySawTicket
    <2> QED BY <2>1, <2>2, <2>3, <2>4 DEF IInv
  <1>4. ASSUME NEW t \in Threads, TalUnlockPublish(t) PROVE IInv'
    <2>1. TypeOK'
        BY <1>0, <1>4, SlotInRange, MaxTicketAssumption DEF TalUnlockPublish, TypeOK, Locations
    <2>2. TicketsDrawn'
        BY <1>0, <1>4, SlotInRange DEF TalUnlockPublish, TypeOK, Locations, TicketsDrawn, Drawn, ServiceState, TrySawTicket
    <2>3. ServiceState'
        BY <1>0, <1>4, SlotInRange DEF TalUnlockPublish, TypeOK, Locations, TicketsDrawn, Drawn, ServiceState, TrySawTicket
    <2>4. TrySawTicket'
        BY <1>0, <1>4, SlotInRange DEF TalUnlockPublish, TypeOK, Locations, ServiceState, TrySawTicket
    <2> QED BY <2>1, <2>2, <2>3, <2>4 DEF IInv
  <1>5. ASSUME NEW t \in Threads, TalTryLoad(t) PROVE IInv'
    <2>1. TypeOK'
        BY <1>0, <1>5, SlotInRange, MaxTicketAssumption DEF TalTryLoad, TypeOK, Locations
    <2>2. TicketsDrawn'
        BY <1>0, <1>5, SlotInRange DEF TalTryLoad, TypeOK, Locations, TicketsDrawn, Drawn, ServiceState, TrySawTicket
    <2>3. ServiceState'
        BY <1>0, <1>5, SlotInRange DEF TalTryLoad, TypeOK, Locations, TicketsDrawn, Drawn, ServiceState, TrySawTicket
    <2>4. TrySawTicket'
        BY <1>0, <1>5, SlotInRange DEF TalTryLoad, TypeOK, Locations, ServiceState, TrySawTicket
    <2> QED BY <2>1, <2>2, <2>3, <2>4 DEF IInv
  <1>6. ASSUME NEW t \in Threads, TalTryCheck(t) PROVE IInv'
    <2>1. TypeOK'
        BY <1>0, <1>6, SlotInRange, MaxTicketAssumption DEF TalTryCheck, TypeOK, Locations
    <2>2. TicketsDrawn'
        BY <1>0, <1>6, SlotInRange DEF TalTryCheck, TypeOK, Locations, TicketsDrawn, Drawn, ServiceState, TrySawTicket
    <2>3. ServiceState'
        BY <1>0, <1>6, SlotInRange DEF TalTryCheck, TypeOK, Locations, TicketsDrawn, Drawn, ServiceState, TrySawTicket
    <2>4. TrySawTicket'
        BY <1>0, <1>6, SlotInRange DEF TalTryCheck, TypeOK, Locations, ServiceState, TrySawTicket
    <2> QED BY <2>1, <2>2, <2>3, <2>4 DEF IInv
  <1>7. ASSUME NEW t \in Threads, TalTryCas(t) PROVE IInv'
    <2>1. TypeOK'
        BY <1>0, <1>7, SlotInRange, MaxTicketAssumption DEF TalTryCas, TypeOK, Locations
    <2>2. TicketsDrawn'
        BY <1>0, <1>7, SlotInRange DEF TalTryCas, TypeOK, Locations, TicketsDrawn, Drawn, ServiceState, TrySawTicket
    <2>3. ServiceState'
        BY <1>0, <1>7, SlotInRange DEF TalTryCas, TypeOK, Locations, TicketsDrawn, Drawn, ServiceState, TrySawTicket
    <2>4. TrySawTicket'
        BY <1>0, <1>7, SlotInRange DEF TalTryCas, TypeOK, Locations, ServiceState, TrySawTicket
    <2> QED BY <2>1, <2>2, <2>3, <2>4 DEF IInv
  <1>8. CASE UNCHANGED vars
    <2>1. TypeOK' /\ TicketsDrawn'
        BY <1>0, <1>8 DEF vars, TypeOK, TicketsDrawn, Drawn
    <2>2. ServiceState' /\ TrySawTicket'
        BY <1>0, <1>8 DEF vars, ServiceState, TrySawTicket
    <2> QED BY <2>1, <2>2 DEF IInv
  <1> QED BY <1>1, <1>2, <1>3, <1>4, <1>5, <1>6, <1>7, <1>8 DEF Next, Progress

\* The inductive invariant rules out two owners: two critical sections would
\* hold the same ticket, and an unlock in progress leaves no slot showing next.
LEMMA IInvMutualExclusion == IInv => MutualExclusion
  <1> SUFFICES ASSUME IInv, NEW t \in Threads, NEW u \in Threads, Owner(t), Owner(u)
               PROVE  t = u
      BY DEF MutualExclusion
  <1>1. ticket[t] \in Nat /\ ticket[u] \in Nat /\ next \in Nat /\ Slot(next) \in Slots
      BY SlotInRange DEF IInv, TypeOK
  <1>2. ticket[t] = ticket[u]
      BY <1>1 DEF IInv, ServiceState, Owner
  <1> QED BY <1>2 DEF IInv, TicketsDrawn, Drawn, Owner

\* The bookkeeping of tickets, slots and the served counter holds in every
\* reachable state of kupl_tal_lock, kupl_tal_unlock and kupl_tal_trylock.
THEOREM SpecIInv == Spec => []IInv
  BY InitIInv, NextIInv, PTL DEF Spec

\* At most one thread is between acquiring the lock (by kupl_tal_lock or
\* kupl_tal_trylock) and publishing its release in kupl_tal_unlock.
THEOREM SpecMutualExclusion == Spec => []MutualExclusion
  BY SpecIInv, IInvMutualExclusion, PTL
=============================================================================
