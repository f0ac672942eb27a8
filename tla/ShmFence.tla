------------------------------ MODULE ShmFence ------------------------------
(***************************************************************************)
(* The fences of memory/shm/fence.  Every window has three flags per rank   *)
(* for the fence of the communicator and three per pair of ranks for the    *)
(* peer fence; each rank writes only its own flags and spins on those of    *)
(* the others.  A rank moves from one flag to the next after every fence,   *)
(* so that a fast rank in the next fence leaves the flag of this one alone. *)
(*                                                                         *)
(* A fence is given as the sequence of its accesses to shared memory, the   *)
(* instructions a rank executes one at a time (module ShmColl).             *)
(***************************************************************************)
EXTENDS Integers, Sequences, SequencesExt

FlagWinSize == 3            \* KUPL_SHM_FENCE_FLAG_WIN_SIZE

Instr(op, w, peer) == [op |-> op, win |-> w, peer |-> peer, in |-> FALSE, out |-> FALSE]

\* kupl_fence_peer_wait, and kupl_shm_peer_fence_internal which repeats it
PeerFence(w, peer) == <<Instr("peer_toggle", w, peer), Instr("peer_meet", w, peer)>>

FenceLinear(w) == <<Instr("toggle", w, 0), Instr("meet_all", w, 0)>>

\* kupl_fence_rd_create: loop_times, the largest power of two within size
LoopTimes(n) == CHOOSE k \in 0 .. n : 2 ^ k <= n /\ n < 2 ^ (k + 1)
NearPowerOfTwo(n) == 2 ^ LoopTimes(n)

\* off by one: the first rank of the pairs is left out
OddPhaseMutant(w, r, n) ==
    LET extra == n - NearPowerOfTwo(n)
    IN IF r <= n - 2 * extra THEN <<>>
       ELSE PeerFence(w, IF r < NearPowerOfTwo(n) THEN r + extra ELSE r - extra)

\* the ranks from size - 2 (size - near_poweroftwo) on meet in pairs, before
\* the rounds and after them
OddPhase(w, r, n) ==
    LET extra == n - NearPowerOfTwo(n)
    IN IF r < n - 2 * extra THEN <<>>
       ELSE PeerFence(w, IF r < NearPowerOfTwo(n) THEN r + extra ELSE r - extra)

RoundPeer(r, i) == IF (r \div 2 ^ i) % 2 = 0 THEN r + 2 ^ i ELSE r - 2 ^ i

Round(w, r, n, i) ==
    <<Instr("inc", w, 0)>>
        \o IF RoundPeer(r, i) < n THEN <<Instr("meet", w, RoundPeer(r, i))>> ELSE <<>>

FenceRd(w, r, n) ==
    OddPhase(w, r, n)
        \o FlattenSeq([i \in 1 .. LoopTimes(n) |-> Round(w, r, n, i - 1)])
        \o <<Instr("turn", w, 0)>>
        \o OddPhase(w, r, n)

\* kupl_fence_algo_select
FenceAlgoSelect(config) == IF config = "1" THEN "linear" ELSE "rd"

\* kupl_shm_fence.  in and out mark where the rank enters and leaves.
Fence(w, r, n, config) ==
    LET body == IF FenceAlgoSelect(config) = "linear" THEN FenceLinear(w) ELSE FenceRd(w, r, n)
    IN [i \in DOMAIN body |-> [body[i] EXCEPT !.in = (i = 1), !.out = (i = Len(body))]]

VARIABLES flag,       \* per window, rank and index: the flag of the communicator fence
          index,      \* per window and rank: flag_idx
          peerFlag,   \* per window, rank, peer and index: the flag of the peer fence
          peerIndex,  \* per window, rank and peer: flag_peer_idx
          entered,    \* per window and rank: fences entered (history)
          left        \* per window and rank: fences left (history)

fenceVars == <<flag, index, peerFlag, peerIndex, entered, left>>

FenceInit(Wins, ranks) ==
    /\ flag = [w \in Wins |-> [r \in ranks |-> [i \in 0 .. FlagWinSize - 1 |-> 0]]]
    /\ index = [w \in Wins |-> [r \in ranks |-> 0]]
    /\ peerFlag = [w \in Wins |-> [r \in ranks |-> [q \in ranks |-> [i \in 0 .. FlagWinSize - 1 |-> 0]]]]
    /\ peerIndex = [w \in Wins |-> [r \in ranks |-> [q \in ranks |-> 0]]]
    /\ entered = [w \in Wins |-> [r \in ranks |-> 0]]
    /\ left = [w \in Wins |-> [r \in ranks |-> 0]]

Mine(w, r) == flag[w][r][index[w][r]]
MinePeer(w, r, q) == peerFlag[w][r][q][peerIndex[w][r][q]]

(***************************************************************************)
(* What each instruction does.  The spins are guards.                      *)
(***************************************************************************)
Toggle(r, i) ==
    /\ i.op = "toggle"
    /\ flag' = [flag EXCEPT ![i.win][r][index[i.win][r]] = 1 - @]
    /\ UNCHANGED <<index, peerFlag, peerIndex>>

MeetAll(ranks, r, i) ==
    /\ i.op = "meet_all"
    /\ \A q \in ranks : flag[i.win][q][index[i.win][r]] = Mine(i.win, r)
    /\ index' = [index EXCEPT ![i.win][r] = 1 - @]
    /\ UNCHANGED <<flag, peerFlag, peerIndex>>

Inc(r, i) ==
    /\ i.op = "inc"
    /\ flag' = [flag EXCEPT ![i.win][r][index[i.win][r]] = @ + 1]
    /\ UNCHANGED <<index, peerFlag, peerIndex>>

Meet(r, i) ==
    /\ i.op = "meet"
    /\ flag[i.win][i.peer][index[i.win][r]] >= Mine(i.win, r)
    /\ UNCHANGED <<flag, index, peerFlag, peerIndex>>

\* the flag of the next round is the one that is cleared
ResetIndexMutant(idx) == (idx + 1) % FlagWinSize

\* the flag of the fence before this one is the next but one to be used
ResetIndex(idx) == (idx + 2) % FlagWinSize

Turn(r, i) ==
    /\ i.op = "turn"
    /\ flag' = [flag EXCEPT ![i.win][r][ResetIndex(index[i.win][r])] = 0]
    /\ index' = [index EXCEPT ![i.win][r] = (@ + 1) % FlagWinSize]
    /\ UNCHANGED <<peerFlag, peerIndex>>

PeerToggle(r, i) ==
    /\ i.op = "peer_toggle"
    /\ peerFlag' = [peerFlag EXCEPT ![i.win][r][i.peer][peerIndex[i.win][r][i.peer]] = 1 - @]
    /\ UNCHANGED <<flag, index, peerIndex>>

PeerMeet(r, i) ==
    /\ i.op = "peer_meet"
    /\ peerFlag[i.win][i.peer][r][peerIndex[i.win][r][i.peer]] = MinePeer(i.win, r, i.peer)
    /\ peerIndex' = [peerIndex EXCEPT ![i.win][r][i.peer] = (@ + 1) % FlagWinSize]
    /\ UNCHANGED <<flag, index, peerFlag>>

FenceStep(ranks, r, i) ==
    /\ \/ Toggle(r, i)
       \/ MeetAll(ranks, r, i)
       \/ Inc(r, i)
       \/ Meet(r, i)
       \/ Turn(r, i)
       \/ PeerToggle(r, i)
       \/ PeerMeet(r, i)
    /\ entered' = IF i.in THEN [entered EXCEPT ![i.win][r] = @ + 1] ELSE entered
    /\ left' = IF i.out THEN [left EXCEPT ![i.win][r] = @ + 1] ELSE left
=============================================================================
