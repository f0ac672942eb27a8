----------------------------- MODULE DistBarrier -----------------------------
(***************************************************************************)
(* The distributed barrier of mt/barrier/kupl_barrier_dist.cpp, behind     *)
(* kupl_egroup_barrier, kupl_egroup_fork_barrier and                       *)
(* kupl_egroup_join_barrier.                                               *)
(*                                                                         *)
(* The three operations are made of two halves.  Gather: every slave bumps *)
(* its enter flag, the master waits for each flag to equal its own next    *)
(* value and then bumps its own.  Release: the master lowers the leave     *)
(* flag of each slave, a slave waits for its flag and raises it again.     *)
(* wait = gather then release, join = gather, fork = release, so a group   *)
(* alternates gathers and releases, beginning with either.  A barrier call *)
(* begins when the thread gets to it: threads run freely in between.       *)
(*                                                                         *)
(* The flags are int and compared for equality only; the rounds of a run   *)
(* are bounded by MaxRounds, far below the 2^29 bumps of the flag's width. *)
(***************************************************************************)
EXTENDS Integers

CONSTANTS
    N,              \* local_tnum: threads 0 .. N-1, thread 0 is the master
    MaxRounds       \* bound: releases per thread

ASSUME NAssumption == N \in Nat \ {0}
ASSUME MaxRoundsAssumption == MaxRounds \in Nat

Threads == 0 .. (N - 1)
Slaves == 1 .. (N - 1)

NOT_READY == 1      \* KUPL_BAR_NOT_READY
READY_TO_GO == 0    \* KUPL_BAR_READY_TO_GO
BUMP == 4           \* KUPL_BARRIER_STATE_BUMP

VARIABLES
    lead,       \* 1 when the program begins with a fork, whose release has no gather before it
    enter,      \* bar->enter[i].b
    leave,      \* bar->leave[i].b
    pc,         \* what each thread does inside a barrier call
    k,          \* the index of the master's loop
    gathers,    \* history: gathers a thread has gone through
    releases    \* history: releases a thread has gone through

vars == <<lead, enter, leave, pc, k, gathers, releases>>

Init ==
    /\ lead \in {0, 1}
    /\ enter = [i \in Threads |-> NOT_READY]
    /\ leave = [i \in Threads |-> NOT_READY]
    /\ pc = [i \in Threads |-> "out"]
    /\ k = 1
    /\ gathers = [i \in Threads |-> 0]
    /\ releases = [i \in Threads |-> 0]

\* which half is next for thread i
GatherNext(i) == gathers[i] = releases[i] - lead
ReleaseNext(i) == gathers[i] = releases[i] - lead + 1

\* wait and join, slave: the arrival
SlaveGather(i) ==
    /\ pc[i] = "out" /\ GatherNext(i) /\ releases[i] < MaxRounds
    /\ enter' = [enter EXCEPT ![i] = @ + BUMP]
    /\ gathers' = [gathers EXCEPT ![i] = @ + 1]
    /\ UNCHANGED <<lead, leave, pc, k, releases>>

\* wait and join, master: start of the loop over the slaves
MasterGather ==
    /\ pc[0] = "out" /\ GatherNext(0) /\ releases[0] < MaxRounds
    /\ pc' = [pc EXCEPT ![0] = "gather"]
    /\ k' = 1
    /\ UNCHANGED <<lead, enter, leave, gathers, releases>>

\* mutant: the master takes a flag that has not moved for an arrival
MasterSeesMutant ==
    /\ pc[0] = "gather" /\ k < N
    /\ enter[k] >= enter[0]
    /\ k' = k + 1
    /\ UNCHANGED <<lead, enter, leave, pc, gathers, releases>>

\* the flag of slave k equals new_state
MasterSees ==
    /\ pc[0] = "gather" /\ k < N
    /\ enter[k] = enter[0] + BUMP
    /\ k' = k + 1
    /\ UNCHANGED <<lead, enter, leave, pc, gathers, releases>>

\* all slaves are in: the master's own flag follows
MasterGathered ==
    /\ pc[0] = "gather" /\ k = N
    /\ enter' = [enter EXCEPT ![0] = @ + BUMP]
    /\ gathers' = [gathers EXCEPT ![0] = @ + 1]
    /\ pc' = [pc EXCEPT ![0] = "out"]
    /\ UNCHANGED <<lead, leave, k, releases>>

\* wait and fork, master: start of the loop over the leave flags
MasterRelease ==
    /\ pc[0] = "out" /\ ReleaseNext(0) /\ releases[0] < MaxRounds
    /\ pc' = [pc EXCEPT ![0] = "release"]
    /\ k' = 1
    /\ UNCHANGED <<lead, enter, leave, gathers, releases>>

\* mutant: one slave too few is released
MasterFreesMutant ==
    /\ pc[0] = "release" /\ k < N
    /\ leave' = IF k = N - 1 THEN leave ELSE [leave EXCEPT ![k] = READY_TO_GO]
    /\ k' = k + 1
    /\ UNCHANGED <<lead, enter, pc, gathers, releases>>

MasterFrees ==
    /\ pc[0] = "release" /\ k < N
    /\ leave' = [leave EXCEPT ![k] = READY_TO_GO]
    /\ k' = k + 1
    /\ UNCHANGED <<lead, enter, pc, gathers, releases>>

MasterReleased ==
    /\ pc[0] = "release" /\ k = N
    /\ releases' = [releases EXCEPT ![0] = @ + 1]
    /\ pc' = [pc EXCEPT ![0] = "out"]
    /\ UNCHANGED <<lead, enter, leave, k, gathers>>

\* wait and fork, slave: the flag is down
SlaveSees(i) ==
    /\ pc[i] = "out" /\ ReleaseNext(i) /\ releases[i] < MaxRounds
    /\ leave[i] = READY_TO_GO
    /\ pc' = [pc EXCEPT ![i] = "reset"]
    /\ UNCHANGED <<lead, enter, leave, k, gathers, releases>>

\* mutant: the slave does not raise its flag again
SlaveResetMutant(i) ==
    /\ pc[i] = "reset"
    /\ releases' = [releases EXCEPT ![i] = @ + 1]
    /\ pc' = [pc EXCEPT ![i] = "out"]
    /\ UNCHANGED <<lead, enter, leave, k, gathers>>

\* and is raised again before the slave leaves
SlaveReset(i) ==
    /\ pc[i] = "reset"
    /\ leave' = [leave EXCEPT ![i] = NOT_READY]
    /\ releases' = [releases EXCEPT ![i] = @ + 1]
    /\ pc' = [pc EXCEPT ![i] = "out"]
    /\ UNCHANGED <<lead, enter, k, gathers>>

MasterStep == \/ MasterGather \/ MasterSees \/ MasterGathered
              \/ MasterRelease \/ MasterFrees \/ MasterReleased
SlaveStep(i) == SlaveGather(i) \/ SlaveSees(i) \/ SlaveReset(i)

Next == MasterStep \/ \E i \in Slaves : SlaveStep(i)

\* Every thread of the group makes the barrier calls of the program and keeps
\* running inside them.
Fairness == WF_vars(MasterStep) /\ \A i \in Slaves : WF_vars(SlaveStep(i))

Spec == Init /\ [][Next]_vars
FairSpec == Spec /\ Fairness

-----------------------------------------------------------------------------
TypeOK ==
    /\ lead \in {0, 1}
    /\ enter \in [Threads -> Int]
    /\ leave \in [Threads -> {NOT_READY, READY_TO_GO}]
    /\ pc \in [Threads -> {"out", "gather", "release", "reset"}]
    /\ k \in 1 .. N
    /\ gathers \in [Threads -> Nat]
    /\ releases \in [Threads -> Nat]

\* Nobody leaves the release half of a barrier before everybody has arrived at the
\* gather half in front of it, for any mix of wait and fork/join and however far
\* fast slaves run ahead (kupl_barrier_dist_wait).
BarrierHolds == \A i, j \in Threads : releases[i] - lead <= gathers[j]

\* join: the master is through only when every slave has arrived
\* (kupl_barrier_dist_join); fork: a slave is through only when the master has
\* started to release (kupl_barrier_dist_fork).
MasterJoinsAll == \A i \in Slaves : gathers[0] <= gathers[i]
ForkWaitsForMaster ==
    \A i \in Slaves : releases[i] <= releases[0] + (IF pc[0] = "release" THEN 1 ELSE 0)

\* The single leave flag of a slave never swallows a release: the master lowers it
\* only after the slave has raised it from the release before.
NoLostRelease == pc[0] = "release" /\ k < N => leave[k] = NOT_READY

\* Every thread gets through every barrier.
EveryoneLeaves == \A i \in Threads : <>(releases[i] = MaxRounds)

-----------------------------------------------------------------------------
(* The inductive invariant: the flags encode how far each slave is from    *)
(* the master.                                                             *)

\* releases the master has issued to slave i
Issued(i) == releases[0] + (IF pc[0] = "release" /\ i < k THEN 1 ELSE 0)

FlagsCount ==
    /\ \A i \in Threads : enter[i] = NOT_READY + BUMP * gathers[i]
    /\ \A i \in Slaves : /\ leave[i] = READY_TO_GO => Issued(i) = releases[i] + 1
                         /\ leave[i] = NOT_READY => Issued(i) = releases[i]

Phases ==
    /\ \A i \in Threads : GatherNext(i) \/ ReleaseNext(i)
    /\ pc[0] \in {"out", "gather", "release"}
    /\ pc[0] = "gather" => GatherNext(0)
    /\ pc[0] = "release" => ReleaseNext(0)
    /\ \A i \in Slaves : /\ pc[i] \in {"out", "reset"}
                         /\ pc[i] = "reset" => ReleaseNext(i) /\ leave[i] = READY_TO_GO

Distance ==
    \A i \in Slaves : /\ gathers[0] <= gathers[i]
                      /\ pc[0] = "gather" /\ i < k => gathers[i] = gathers[0] + 1

IInv == TypeOK /\ FlagsCount /\ Phases /\ Distance
=============================================================================
