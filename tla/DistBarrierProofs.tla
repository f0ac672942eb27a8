-------------------------- MODULE DistBarrierProofs --------------------------
(***************************************************************************)
(* Proofs about the distributed barrier, for every number of threads, any  *)
(* number of rounds and both ways to start.  IInv says what the flags mean *)
(* (FlagsCount), which half each thread is in (Phases) and that no slave   *)
(* is behind the master's gathers (Distance); that a slave is never ahead  *)
(* of the master by more than one half follows from these, and with it     *)
(* that nobody leaves early.                                               *)
(***************************************************************************)
EXTENDS DistBarrier, TLAPS

\* The master and the slaves are the threads.
LEMMA ThreadFacts ==
    /\ 0 \in Threads
    /\ \A i \in Slaves : i \in Threads /\ i # 0 /\ i \in Nat /\ i < N /\ i >= 1
    /\ \A i \in Threads : i = 0 \/ i \in Slaves
    /\ N \in Nat /\ N >= 1
BY NAssumption DEF Threads, Slaves

\* The state kupl_barrier_dist_create leaves satisfies the invariant; when the group
\* starts with a fork, a release is next for everybody.
LEMMA InitIInv == Init => IInv
<1> SUFFICES ASSUME Init PROVE IInv
  OBVIOUS
<1>1. TypeOK
  BY ThreadFacts DEF Init, TypeOK, NOT_READY, READY_TO_GO
<1>2. FlagsCount
  BY ThreadFacts DEF Init, FlagsCount, Issued, NOT_READY, READY_TO_GO, BUMP
<1>3. Phases
  BY ThreadFacts DEF Init, Phases, GatherNext, ReleaseNext
<1>4. Distance
  BY ThreadFacts DEF Init, Distance
<1> QED
  BY <1>1, <1>2, <1>3, <1>4 DEF IInv

\* A slave that sees its flag down is one release behind what the master has issued,
\* and a slave whose next half is a gather is not behind the master.
LEMMA SlaveNotBehind ==
    ASSUME IInv, NEW i \in Slaves
    PROVE  /\ gathers[i] \in Nat /\ releases[i] \in Nat
           /\ gathers[0] \in Nat /\ releases[0] \in Nat
           /\ gathers[i] <= gathers[0] + 1
           /\ releases[i] <= Issued(i)
           /\ Issued(i) <= releases[i] + 1
<1>l. lead \in {0, 1}
  BY DEF IInv, TypeOK
<1>1. /\ gathers[i] \in Nat /\ releases[i] \in Nat
      /\ gathers[0] \in Nat /\ releases[0] \in Nat
      /\ leave[i] \in {NOT_READY, READY_TO_GO}
  BY ThreadFacts DEF IInv, TypeOK
<1>2. releases[i] <= Issued(i) /\ Issued(i) <= releases[i] + 1
  BY <1>1 DEF IInv, FlagsCount, Issued
<1>3. gathers[i] <= gathers[0] + 1
  BY <1>l, <1>1, <1>2, ThreadFacts DEF IInv, Phases, GatherNext, ReleaseNext, Issued
<1> QED
  BY <1>1, <1>2, <1>3

\* Every step of a barrier call keeps the invariant.
LEMMA NextIInv == IInv /\ [Next]_vars => IInv'
<1> SUFFICES ASSUME IInv, [Next]_vars PROVE IInv'
  OBVIOUS
<1>l. lead \in {0, 1}
  BY DEF IInv, TypeOK
<1> USE ThreadFacts, <1>l
<1>t. TypeOK /\ FlagsCount /\ Phases /\ Distance
  BY DEF IInv
<1>1. CASE MasterGather
  <2>1. TypeOK'
    BY <1>t, <1>1 DEF MasterGather, TypeOK
  <2>2. FlagsCount'
    BY <1>t, <1>1 DEF MasterGather, TypeOK, FlagsCount, Issued
  <2>3. Phases'
    BY <1>t, <1>1 DEF MasterGather, TypeOK, Phases, GatherNext, ReleaseNext
  <2>4. Distance'
    BY <1>t, <1>1 DEF MasterGather, TypeOK, Distance
  <2> QED BY <2>1, <2>2, <2>3, <2>4 DEF IInv
<1>2. CASE MasterSees
  <2>1. TypeOK'
    BY <1>t, <1>2 DEF MasterSees, TypeOK
  <2>2. FlagsCount'
    BY <1>t, <1>2 DEF MasterSees, TypeOK, FlagsCount, Issued
  <2>3. Phases'
    BY <1>t, <1>2 DEF MasterSees, TypeOK, Phases, GatherNext, ReleaseNext
  <2>4. Distance'
    <3>1. k \in Slaves
      BY <1>t, <1>2 DEF MasterSees, TypeOK, Slaves
    <3>2. gathers[k] = gathers[0] + 1
      BY <1>t, <1>2, <3>1 DEF MasterSees, TypeOK, FlagsCount, BUMP, NOT_READY
    <3> QED BY <1>t, <1>2, <3>1, <3>2 DEF MasterSees, TypeOK, Distance
  <2> QED BY <2>1, <2>2, <2>3, <2>4 DEF IInv
<1>3. CASE MasterGathered
  <2>1. TypeOK'
    BY <1>t, <1>3 DEF MasterGathered, TypeOK, BUMP
  <2>2. FlagsCount'
    BY <1>t, <1>3 DEF MasterGathered, TypeOK, FlagsCount, Issued, BUMP, NOT_READY
  <2>3. Phases'
    BY <1>t, <1>3 DEF MasterGathered, TypeOK, Phases, GatherNext, ReleaseNext
  <2>4. Distance'
    BY <1>t, <1>3 DEF MasterGathered, TypeOK, Distance
  <2> QED BY <2>1, <2>2, <2>3, <2>4 DEF IInv
<1>4. CASE MasterRelease
  <2>1. TypeOK'
    BY <1>t, <1>4 DEF MasterRelease, TypeOK
  <2>2. FlagsCount'
    BY <1>t, <1>4 DEF MasterRelease, TypeOK, FlagsCount, Issued
  <2>3. Phases'
    BY <1>t, <1>4 DEF MasterRelease, TypeOK, Phases, GatherNext, ReleaseNext
  <2>4. Distance'
    BY <1>t, <1>4 DEF MasterRelease, TypeOK, Distance
  <2> QED BY <2>1, <2>2, <2>3, <2>4 DEF IInv
<1>5. CASE MasterFrees
  <2>k. k \in Slaves
    BY <1>t, <1>5 DEF MasterFrees, TypeOK, Slaves
  <2>1. TypeOK'
    <3>1. leave' \in [Threads -> {NOT_READY, READY_TO_GO}]
      BY <1>t, <1>5, <2>k DEF MasterFrees, TypeOK
    <3>2. k' \in 1 .. N
      BY <1>t, <1>5 DEF MasterFrees, TypeOK
    <3> QED BY <1>t, <1>5, <3>1, <3>2 DEF MasterFrees, TypeOK
  <2>2. FlagsCount'
    <3>1. /\ gathers[k] \in Nat /\ releases[k] \in Nat
          /\ gathers[0] \in Nat /\ releases[0] \in Nat
          /\ Issued(k) = releases[0]
      BY <1>t, <1>5, <2>k DEF MasterFrees, TypeOK, Issued
    <3>2. releases[k] <= releases[0] /\ releases[0] <= releases[k] + 1
      BY <2>k, <3>1, SlaveNotBehind
    <3>3. releases[k] >= releases[0]
      BY <1>t, <1>5, <2>k, <3>1
         DEF MasterFrees, Phases, Distance, GatherNext, ReleaseNext
    <3>4. releases[k] = releases[0]
      BY <3>1, <3>2, <3>3
    <3> QED
      BY <1>t, <1>5, <2>k, <3>1, <3>4
         DEF MasterFrees, TypeOK, FlagsCount, Issued, NOT_READY, READY_TO_GO
  <2>3. Phases'
    BY <1>t, <1>5, <2>k DEF MasterFrees, TypeOK, Phases, GatherNext, ReleaseNext
  <2>4. Distance'
    BY <1>t, <1>5 DEF MasterFrees, TypeOK, Distance
  <2> QED BY <2>1, <2>2, <2>3, <2>4 DEF IInv
<1>6. CASE MasterReleased
  <2>1. TypeOK'
    BY <1>t, <1>6 DEF MasterReleased, TypeOK
  <2>2. FlagsCount'
    BY <1>t, <1>6 DEF MasterReleased, TypeOK, FlagsCount, Issued
  <2>3. Phases'
    BY <1>t, <1>6 DEF MasterReleased, TypeOK, Phases, GatherNext, ReleaseNext
  <2>4. Distance'
    BY <1>t, <1>6 DEF MasterReleased, TypeOK, Distance
  <2> QED BY <2>1, <2>2, <2>3, <2>4 DEF IInv
<1>7. ASSUME NEW i \in Slaves, SlaveGather(i) PROVE IInv'
  <2>1. TypeOK'
    BY <1>t, <1>7 DEF SlaveGather, TypeOK, BUMP
  <2>2. FlagsCount'
    BY <1>t, <1>7 DEF SlaveGather, TypeOK, FlagsCount, Issued, BUMP, NOT_READY
  <2>3. Phases'
    BY <1>t, <1>7 DEF SlaveGather, TypeOK, Phases, GatherNext, ReleaseNext
  <2>4. Distance'
    <3>1. /\ gathers[i] \in Nat /\ releases[i] \in Nat
          /\ gathers[0] \in Nat /\ releases[0] \in Nat
          /\ releases[i] <= Issued(i)
      BY <1>7, SlaveNotBehind
    <3>2. ~(pc[0] = "gather" /\ i < k)
      <4> SUFFICES ASSUME pc[0] = "gather", i < k PROVE FALSE
        OBVIOUS
      <4>1. gathers[i] = gathers[0] + 1 /\ GatherNext(0) /\ GatherNext(i)
        BY <1>t, <1>7 DEF Distance, Phases, SlaveGather
      <4>2. Issued(i) = releases[0]
        BY <3>1 DEF Issued
      <4> QED BY <3>1, <4>1, <4>2 DEF GatherNext
    <3> QED BY <1>t, <1>7, <3>1, <3>2 DEF SlaveGather, TypeOK, Distance
  <2> QED BY <2>1, <2>2, <2>3, <2>4 DEF IInv
<1>8. ASSUME NEW i \in Slaves, SlaveSees(i) PROVE IInv'
  <2>1. TypeOK'
    BY <1>t, <1>8 DEF SlaveSees, TypeOK
  <2>2. FlagsCount'
    BY <1>t, <1>8 DEF SlaveSees, TypeOK, FlagsCount, Issued
  <2>3. Phases'
    BY <1>t, <1>8 DEF SlaveSees, TypeOK, Phases, GatherNext, ReleaseNext
  <2>4. Distance'
    BY <1>t, <1>8 DEF SlaveSees, TypeOK, Distance
  <2> QED BY <2>1, <2>2, <2>3, <2>4 DEF IInv
<1>9. ASSUME NEW i \in Slaves, SlaveReset(i) PROVE IInv'
  <2>1. TypeOK'
    BY <1>t, <1>9 DEF SlaveReset, TypeOK
  <2>2. FlagsCount'
    BY <1>t, <1>9
       DEF SlaveReset, TypeOK, FlagsCount, Phases, Issued, NOT_READY, READY_TO_GO
  <2>3. Phases'
    BY <1>t, <1>9 DEF SlaveReset, TypeOK, Phases, GatherNext, ReleaseNext
  <2>4. Distance'
    BY <1>t, <1>9 DEF SlaveReset, TypeOK, Distance
  <2> QED BY <2>1, <2>2, <2>3, <2>4 DEF IInv
<1>10. CASE UNCHANGED vars
  <2>1. TypeOK'
    BY <1>t, <1>10 DEF vars, TypeOK
  <2>2. FlagsCount'
    BY <1>t, <1>10 DEF vars, FlagsCount, Issued
  <2>3. Phases'
    BY <1>t, <1>10 DEF vars, Phases, GatherNext, ReleaseNext
  <2>4. Distance'
    BY <1>t, <1>10 DEF vars, Distance
  <2> QED BY <2>1, <2>2, <2>3, <2>4 DEF IInv
<1> QED
  BY <1>1, <1>2, <1>3, <1>4, <1>5, <1>6, <1>7, <1>8, <1>9, <1>10
     DEF Next, MasterStep, SlaveStep

\* The invariant holds in every reachable state.
THEOREM SpecIInv == Spec => []IInv
<1> QED
  BY InitIInv, NextIInv, PTL DEF Spec

\* Each thread is at most one half away from every other, so the releases of any two
\* are covered by the gathers of all: the invariant implies the barrier property.
LEMMA IInvBarrierHolds == IInv => BarrierHolds
<1> SUFFICES ASSUME IInv, NEW i \in Threads, NEW j \in Threads
             PROVE  releases[i] - lead <= gathers[j]
  BY DEF BarrierHolds
<1>l. lead \in {0, 1}
  BY DEF IInv, TypeOK
<1> USE ThreadFacts, <1>l
<1>1. /\ gathers[0] \in Nat /\ releases[0] \in Nat
      /\ GatherNext(0) \/ ReleaseNext(0)
      /\ pc[0] = "release" => ReleaseNext(0)
  BY DEF IInv, TypeOK, Phases
<1>2. releases[i] \in Nat /\ gathers[j] \in Nat
  BY DEF IInv, TypeOK
<1>3. releases[0] - lead <= gathers[0]
  BY <1>1 DEF GatherNext, ReleaseNext
<1>4. releases[i] - lead <= gathers[0]
  <2>1. CASE i = 0
    BY <1>3, <2>1
  <2>2. CASE i \in Slaves
    <3>1. releases[i] <= Issued(i)
      BY <2>2, SlaveNotBehind
    <3> QED BY <1>1, <1>2, <1>3, <3>1 DEF Issued, ReleaseNext
  <2> QED BY <2>1, <2>2
<1>5. gathers[0] <= gathers[j]
  <2>1. CASE j = 0
    BY <1>1, <2>1
  <2>2. CASE j \in Slaves
    BY <2>2 DEF IInv, Distance
  <2> QED BY <2>1, <2>2
<1> QED
  BY <1>1, <1>2, <1>4, <1>5

\* The master lowers the flag of a slave only when the slave has consumed every
\* release before: were it still down, the slave would be short of a gather.
LEMMA IInvNoLostRelease == IInv => NoLostRelease
<1> SUFFICES ASSUME IInv, pc[0] = "release", k < N PROVE leave[k] = NOT_READY
  BY DEF NoLostRelease
<1>l. lead \in {0, 1}
  BY DEF IInv, TypeOK
<1> USE ThreadFacts, <1>l
<1>1. k \in Slaves
  BY DEF IInv, TypeOK, Slaves
<1>2. /\ gathers[k] \in Nat /\ releases[k] \in Nat
      /\ gathers[0] \in Nat /\ releases[0] \in Nat
      /\ leave[k] \in {NOT_READY, READY_TO_GO}
      /\ k \in Nat
  BY <1>1 DEF IInv, TypeOK
<1>3. Issued(k) = releases[0]
  BY <1>2 DEF Issued
<1>4. releases[k] >= releases[0]
  BY <1>1, <1>2 DEF IInv, Phases, Distance, GatherNext, ReleaseNext
<1> QED
  BY <1>1, <1>2, <1>3, <1>4 DEF IInv, FlagsCount

\* A slave is through a fork only when the master has begun the release.
LEMMA IInvForkWaits == IInv => ForkWaitsForMaster
<1> SUFFICES ASSUME IInv, NEW i \in Slaves
             PROVE  releases[i] <= releases[0] + (IF pc[0] = "release" THEN 1 ELSE 0)
  BY DEF ForkWaitsForMaster
<1> QED
  BY SlaveNotBehind DEF Issued

\* Nobody gets through kupl_barrier_dist_wait (or a fork after a join) before
\* everybody has arrived, for any number of threads and rounds.
THEOREM SpecBarrierHolds == Spec => []BarrierHolds
<1> QED
  BY SpecIInv, IInvBarrierHolds, PTL

\* No release is swallowed by a leave flag that is already down.
THEOREM SpecNoLostRelease == Spec => []NoLostRelease
<1> QED
  BY SpecIInv, IInvNoLostRelease, PTL

\* The master's join waits for all slaves, the slaves' fork waits for the master.
THEOREM SpecForkJoin == Spec => [](MasterJoinsAll /\ ForkWaitsForMaster)
<1>1. IInv => MasterJoinsAll
  BY DEF IInv, Distance, MasterJoinsAll
<1> QED
  BY <1>1, SpecIInv, IInvForkWaits, PTL
=============================================================================
