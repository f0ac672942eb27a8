------------------------------- MODULE ShmColl -------------------------------
(***************************************************************************)
(* The collectives of memory/shm: broadcast, allreduce and alltoall over    *)
(* windows that every rank of a communicator can read and write, on the     *)
(* fences of module ShmFence.                                               *)
(*                                                                         *)
(* Each rank is a process.  What it does to shared memory is a sequence of  *)
(* instructions (a copy, a reduction, a bump of a counter, a spin), which   *)
(* the algorithms below compute from the rank, the size and the request;    *)
(* ranks execute their instructions in any interleaving.  Before a call the *)
(* caller fills its send buffer with data of that call, and it may do so as *)
(* soon as the call before has returned.                                    *)
(***************************************************************************)
EXTENDS ShmFence, FiniteSets, FiniteSetsExt

CONSTANTS Programs,     \* the programs: see below
          MaxSize,      \* bound: ranks of a communicator
          WinLen,       \* elements in a window
          ChunkSize,    \* chunk_size of the ring pipeline, in elements
          TopoSplit     \* KUPL_BCAST_TOPO_SPLIT

\* A program: [size, fence, calls]; the ranks make the same calls.  A call:
\*   [kind |-> "fence", win]                     kupl_shm_fence
\*   [kind |-> "peer", win, peers]               kupl_shm_peer_fence, by the ranks in peers
\*   [kind |-> "init", req]                      kupl_shm_*_init
\*   [kind |-> "start", req, no, settle]         kupl_shm_request_start; settle: the caller
\*                                               fences before it uses the buffers again
\*   [kind |-> "free", req]                      kupl_shm_request_free
\* A request: [id, coll, algo, count, root, send, recv], send and recv the
\* <<window, position>> of the buffers (a broadcast has one, in recv).
Wins == {"a", "b"}
Counters == {"notify_root", "notify_others", "p2p"}

ASSUME BoundsAssumption == WinLen \in Nat /\ MaxSize \in Nat /\ ChunkSize \in Nat \ {0} /\ TopoSplit \in Nat \ {0}

(* A location: a rank's copy of a window, from a position on; shifted says   *)
(* that the position is relative to win->offset of the executing rank.      *)
Loc(rank, buf, pos, shifted) == [rank |-> rank, win |-> buf[1], pos |-> buf[2] + pos, shifted |-> shifted]
Local(r, buf, pos) == Loc(r, buf, pos, FALSE)
Remote(q, buf, pos) == Loc(q, buf, pos, FALSE)
AtOffset(q, buf, pos) == Loc(q, <<buf[1], 0>>, pos, TRUE)

Copy(to, from, len) == <<[op |-> "copy", to |-> to, a |-> from, len |-> len]>>
Reduce(to, a, b, len) == <<[op |-> "reduce", to |-> to, a |-> a, b |-> b, len |-> len]>>
Bump(req, c, owner, slot) == <<[op |-> "bump", req |-> req, c |-> c, owner |-> owner, slot |-> slot]>>
Spin(op, req, c, owner, slot) == <<[op |-> op, req |-> req, c |-> c, owner |-> owner, slot |-> slot]>>
For(S, Code(_)) == FlattenSeq([i \in 1 .. Cardinality(S) |-> Code(SetToSortSeq(S, <)[i])])
When(cond, code) == IF cond THEN code ELSE <<>>

(***************************************************************************)
(* Broadcast.  q is the request, r the rank, n the size.                   *)
(***************************************************************************)
NotifyRoot(id, owner, S, r) ==
    Bump(id, "notify_root", owner, r)
        \o When(r = owner, For(S \ {r}, LAMBDA i : Spin("reached", id, "notify_root", owner, i)))

NotifyOthers(id, owner, r) ==
    When(r /= owner, Spin("above", id, "notify_others", owner, owner))
        \o Bump(id, "notify_others", owner, r)

BcastLinear(q, r, n) ==
    NotifyOthers(q.id, q.root, r)
        \o When(r /= q.root, Copy(Local(r, q.recv, 0), AtOffset(q.root, q.recv, 0), q.count))
        \o NotifyRoot(q.id, q.root, 0 .. n - 1, r)

\* groups of subsize ranks; the first of a group, its leader, reads from the root
\* and waits only for its own group
Subsize(n) == (n + TopoSplit - 1) \div TopoSplit
Leader(r, n) == Subsize(n) * (r \div Subsize(n))
GroupOf(r, n) == Leader(r, n) .. Min({n, Leader(r, n) + Subsize(n)}) - 1

FromRoot(q, r, n) ==
    NotifyOthers(q.id, q.root, r)
        \o When(r > 0 /\ r % Subsize(n) = 0,
                Copy(Local(r, q.recv, 0), AtOffset(q.root, q.recv, 0), q.count))
        \o When(r \div Subsize(n) > 0, NotifyOthers(q.id, Leader(r, n), r))

BcastLinearTopo(q, r, n) ==
    FromRoot(q, r, n)
        \o When(r /= Leader(r, n), Copy(Local(r, q.recv, 0), AtOffset(Leader(r, n), q.recv, 0), q.count))
        \o NotifyRoot(q.id, Leader(r, n), GroupOf(r, n), r)

\* the sender writes the first part to the others, who read the rest: p2p
\* counters, ownerOf[i] the rank that keeps the one of i, tell them when their
\* part has arrived
HalfAndHalf(q, r, leader, group, part, ownerOf) ==
    IF r /= leader
    THEN Copy(Local(r, q.recv, part), AtOffset(leader, q.recv, part), q.count - part)
    ELSE For(group \ {r}, LAMBDA i : Copy(AtOffset(i, q.recv, 0), Local(r, q.recv, 0), part)
                                         \o Bump(q.id, "p2p", ownerOf[i], i))

BcastLinearOpt(q, r, n) ==
    When(r = q.root, Bump(q.id, "p2p", q.root, q.root))
        \o NotifyOthers(q.id, q.root, r)
        \o Spin("read_p2p", q.id, "p2p", q.root, q.root)
        \o NotifyRoot(q.id, q.root, 0 .. n - 1, r)
        \o HalfAndHalf(q, r, q.root, 0 .. n - 1, q.count \div n, [i \in 0 .. n - 1 |-> q.root])
        \o NotifyRoot(q.id, q.root, 0 .. n - 1, r)
        \o When(r /= q.root, Spin("arrived", q.id, "p2p", q.root, r))

BcastLinearTopoOpt(q, r, n) ==
    LET leader == Leader(r, n)
        part == IF r \div Subsize(n) /= TopoSplit - 1 THEN q.count \div Subsize(n)
                ELSE q.count \div (n - leader)
    IN When(r = q.root, Bump(q.id, "p2p", q.root, q.root))
           \o Spin("read_p2p", q.id, "p2p", q.root, q.root)
           \o FromRoot(q, r, n)
           \o NotifyRoot(q.id, leader, GroupOf(r, n), r)
           \o HalfAndHalf(q, r, leader, GroupOf(r, n), part, [i \in GroupOf(r, n) |-> i])
           \o NotifyRoot(q.id, leader, GroupOf(r, n), r)
           \o When(r /= leader, Spin("arrived", q.id, "p2p", r, r))

\* one chunk of the pipeline
RingChunk(q, r, n, i) ==
    LET from == i * ChunkSize
        len == IF i = (q.count + ChunkSize - 1) \div ChunkSize - 1 THEN q.count - from ELSE ChunkSize
        pass == Copy(AtOffset((r + 1) % n, q.recv, from), Local(r, q.recv, from), len)
                    \o NotifyOthers(q.id, r, r)
    IN IF r = q.root THEN pass
       ELSE NotifyOthers(q.id, (r - 1 + n) % n, r) \o When(r /= (q.root + n - 1) % n, pass)

BcastRingPipeline(q, r, n) ==
    NotifyOthers(q.id, q.root, r)
        \o NotifyRoot(q.id, q.root, 0 .. n - 1, r)
        \o For(0 .. (q.count + ChunkSize - 1) \div ChunkSize - 1, LAMBDA i : RingChunk(q, r, n, i))

\* calc_offset: the first rem blocks have one element more
BlockOffset(i, count, n) ==
    LET div == count \div n
        rem == count % n
    IN IF i - 1 < rem THEN i * (div + 1) ELSE rem * (div + 1) + (i - rem) * div
BlockSize(i, count, n) == IF i < count % n THEN count \div n + 1 ELSE count \div n

FetchBlock(q, r, n, from, i) ==
    Copy(Local(r, q.recv, BlockOffset(i, q.count, n)),
         AtOffset(from, q.recv, BlockOffset(i, q.count, n)), BlockSize(i, q.count, n))

BcastScatterAllgather(q, r, n, config) ==
    NotifyOthers(q.id, q.root, r)
        \o When(r /= q.root, FetchBlock(q, r, n, q.root, r))
        \o Fence(q.recv[1], r, n, config)
        \o For(0 .. n - 1 \ {r}, LAMBDA i : FetchBlock(q, r, n, i, i))

\* the topology aware algorithms only know root 0
BcastAlgo(q) == IF q.algo \in {"topo", "topo_opt"} /\ q.root /= 0 THEN "auto" ELSE q.algo

DoBcast(q, r, n, config) ==
    CASE BcastAlgo(q) \in {"auto", "ring"} -> BcastRingPipeline(q, r, n)
      [] BcastAlgo(q) = "linear" -> BcastLinear(q, r, n)
      [] BcastAlgo(q) = "linear_opt" -> BcastLinearOpt(q, r, n)
      [] BcastAlgo(q) = "topo" -> BcastLinearTopo(q, r, n)
      [] BcastAlgo(q) = "topo_opt" -> BcastLinearTopoOpt(q, r, n)
      [] BcastAlgo(q) = "scatter" -> BcastScatterAllgather(q, r, n, config)

(***************************************************************************)
(* Allreduce (the only operation is the sum).                              *)
(***************************************************************************)
AllreduceLinear(q, r, n, config) ==
    Copy(Local(r, q.recv, 0), Local(r, q.send, 0), q.count)
        \o Fence(q.send[1], r, n, config)
        \o For(0 .. n - 1 \ {r}, LAMBDA i : Reduce(Local(r, q.recv, 0), Local(r, q.recv, 0),
                                                   Remote(i, q.send, 0), q.count))
        \o Fence(q.send[1], r, n, config)

\* calc_offset: the elements left to rank after halving once for each of its
\* bits 0 .. step, as <<first, length>>
CalcOffset(rank, count, step) ==
    LET half[i \in 0 .. step + 1] ==
            IF i = 0 THEN <<0, count - 1>>
            ELSE LET s == half[i - 1]
                     mid == (s[1] + s[2]) \div 2
                 IN IF (rank \div 2 ^ (i - 1)) % 2 = 0 THEN <<s[1], mid>> ELSE <<mid + 1, s[2]>>
    IN <<half[step + 1][1], half[step + 1][2] - half[step + 1][1] + 1>>

\* the odd ranks below 2 rem drop out after the first phase
CalcVrank(r, rem) == IF r >= 2 * rem THEN r - rem ELSE IF r % 2 /= 0 THEN -1 ELSE r \div 2
RealRank(v, rem) == IF v < rem THEN 2 * v ELSE v + rem

PreReduce(q, r) ==
    LET part == CalcOffset(r, q.count, 0)
        dest == IF r % 2 /= 0 THEN r - 1 ELSE r + 1
        to == IF r % 2 /= 0 THEN Remote(dest, q.recv, part[1]) ELSE Local(r, q.recv, part[1])
    IN PeerFence(q.send[1], dest)
           \o Reduce(to, Local(r, q.send, part[1]), Remote(dest, q.send, part[1]), part[2])

\* recursive halving: with the partner at distance 2^j, reduce one half of
\* what is left
ReduceScatter(q, r, v, rem, j) ==
    LET dest == RealRank(RoundPeer(v, j), rem)
        part == CalcOffset(v, q.count, j)
        from == IF j = 0 /\ dest >= 2 * rem THEN q.send ELSE q.recv
        mine == IF j = 0 /\ r >= 2 * rem THEN q.send ELSE q.recv
    IN PeerFence(q.recv[1], dest)
           \o Reduce(Local(r, q.recv, part[1]), Local(r, mine, part[1]), Remote(dest, from, part[1]), part[2])

\* the block is fetched at the own offset, not the peer's
AllgatherMutant(q, r, v, rem, j) ==
    LET dest == RealRank(RoundPeer(v, j), rem)
        part == CalcOffset(v, q.count, j)
    IN PeerFence(q.recv[1], dest)
           \o Copy(Local(r, q.recv, part[1]), Remote(dest, q.recv, part[1]), part[2])

\* recursive doubling, back along the same partners
Allgather(q, r, v, rem, j) ==
    LET dest == RealRank(RoundPeer(v, j), rem)
        part == CalcOffset(RoundPeer(v, j), q.count, j)
    IN PeerFence(q.recv[1], dest)
           \o Copy(Local(r, q.recv, part[1]), Remote(dest, q.recv, part[1]), part[2])

PostAllgather(q, r) ==
    When(r % 2 = 0, Copy(Remote(r + 1, q.recv, 0), Local(r, q.recv, 0), q.count))

AllreduceRbRhRd(q, r, n, config) ==
    LET nsteps == LoopTimes(n)      \* calc_hibit
        rem == n - 2 ^ nsteps
        v == CalcVrank(r, rem)
    IN IF n = 1 THEN Copy(Local(r, q.recv, 0), Local(r, q.send, 0), q.count)
       ELSE When(r < 2 * rem, PreReduce(q, r))
                \o Fence(q.send[1], r, n, config)
                \o When(v /= -1, For(0 .. nsteps - 1, LAMBDA j : ReduceScatter(q, r, v, rem, j))
                                     \o For(0 .. nsteps - 1, LAMBDA j : Allgather(q, r, v, rem, nsteps - 1 - j)))
                \o When(r < 2 * rem, PostAllgather(q, r))
                \o Fence(q.send[1], r, n, config)

DoAllreduce(q, r, n, config) ==
    IF q.algo = "linear" /\ n > 1 THEN AllreduceLinear(q, r, n, config) ELSE AllreduceRbRhRd(q, r, n, config)

(***************************************************************************)
(* Alltoall: count elements from every rank to every rank.                 *)
(***************************************************************************)
AlltoallRead(q, r, n, config) ==
    Fence(q.send[1], r, n, config)
        \o For(0 .. n - 1, LAMBDA i : LET p == (r + i) % n
                                     IN Copy(Local(r, q.recv, q.count * p), Remote(p, q.send, q.count * r), q.count))
        \o Fence(q.send[1], r, n, config)

AlltoallWrite(q, r, n, config) ==
    Fence(q.recv[1], r, n, config)
        \o For(0 .. n - 1, LAMBDA i : LET p == (r + i) % n
                                     IN Copy(Remote(p, q.recv, q.count * r), Local(r, q.send, q.count * p), q.count))
        \o Fence(q.recv[1], r, n, config)

DoAlltoall(q, r, n, config) ==
    IF q.algo = "read" THEN AlltoallRead(q, r, n, config) ELSE AlltoallWrite(q, r, n, config)

(***************************************************************************)
(* Requests.                                                               *)
(***************************************************************************)
\* the checks of kupl_shm_*_init and of kupl_shm_request_start
RequestOK(q, n) == q.count > 0 /\ (q.coll = "bcast" => q.root \in 0 .. n - 1)

\* all ranks allocate the windows of the counters (a collective call), clear
\* their own copies, and meet once more
BcastInit(q, r, n, config) ==
    <<[op |-> "offset", bufs |-> <<q.recv>>], [op |-> "oob_arrive"], [op |-> "oob_leave"],
      [op |-> "clear", req |-> q.id]>>
        \o Fence(q.recv[1], r, n, config)

RequestInit(q, r, n, config) ==
    CASE ~RequestOK(q, n) -> <<>>
      [] q.coll = "bcast" -> BcastInit(q, r, n, config)
      [] OTHER -> <<[op |-> "offset", bufs |-> <<q.recv, q.send>>]>>

\* what the caller writes before it starts the request
FillBuffer(q, r, n, no) ==
    CASE q.coll = "bcast" -> When(r = q.root, <<[op |-> "fill", buf |-> q.recv, len |-> q.count, no |-> no]>>)
      [] q.coll = "allreduce" -> <<[op |-> "fill", buf |-> q.send, len |-> q.count, no |-> no]>>
      [] OTHER -> <<[op |-> "fill", buf |-> q.send, len |-> q.count * n, no |-> no]>>

RequestStart(q, r, n, config) ==
    CASE ~RequestOK(q, n) -> <<>>
      [] q.coll = "bcast" -> DoBcast(q, r, n, config)
      [] q.coll = "allreduce" -> DoAllreduce(q, r, n, config)
      [] OTHER -> DoAlltoall(q, r, n, config)

\* kupl_shm_win_free of the three windows begins with the caller's barrier
RequestFree(q) == When(q.coll = "bcast", <<[op |-> "oob_arrive"], [op |-> "oob_leave"]>>)

CallCode(c, r, n, config) ==
    CASE c.kind = "fence" -> Fence(c.win, r, n, config)
      [] c.kind = "peer" -> When(r \in DOMAIN c.peers, PeerFence(c.win, c.peers[r]))
      [] c.kind = "init" -> RequestInit(c.req, r, n, config)
      [] c.kind = "free" -> RequestFree(c.req)
      [] c.kind = "start" ->
           FillBuffer(c.req, r, n, c.no)
               \o RequestStart(c.req, r, n, config)
               \o When(RequestOK(c.req, n),
                       <<[op |-> "return", call |-> c]>>
                           \o When(c.settle, Fence(c.req.recv[1], r, n, config) \o <<[op |-> "settled", call |-> c]>>))

Code == [p \in Programs |->
            [r \in 0 .. p.size - 1 |->
                FlattenSeq([i \in DOMAIN p.calls |-> CallCode(p.calls[i], r, p.size, p.fence)])]]

VARIABLES program,    \* the program of this behaviour
          pc,         \* per rank: the next instruction
          mem,        \* per window and rank: its elements
          offset,     \* per rank and window: win->offset in the rank's own win
          counter,    \* per request, kind, owner's copy and slot: the notify and p2p counters
          seen,       \* per rank: p2p_win_val
          oob         \* per rank: how often it reached the caller's barrier

vars == <<program, pc, mem, offset, counter, seen, oob, fenceVars>>

Ranks == 0 .. program.size - 1
Requests(p) == {p.calls[i].req.id : i \in {j \in DOMAIN p.calls : p.calls[j].kind \in {"init", "start"}}}
Junk == 9       \* what a counter holds before it is cleared

\* element i of what rank r contributes to call no: sums of different
\* contributions differ
Data(no, r, i) == (4 * i + 2 * no - 1) * 32 ^ r

Init ==
    /\ program \in Programs
    /\ pc = [r \in Ranks |-> 1]
    /\ mem = [w \in Wins |-> [r \in Ranks |-> [i \in 0 .. WinLen - 1 |-> 0]]]
    /\ offset = [r \in Ranks |-> [w \in Wins |-> 0]]
    /\ counter = [q \in Requests(program) |-> [c \in Counters |-> [o \in Ranks |-> [s \in Ranks |-> Junk]]]]
    /\ seen = [r \in Ranks |-> 0]
    /\ oob = [r \in Ranks |-> 0]
    /\ FenceInit(Wins, Ranks)

HasNext(r) == pc[r] <= Len(Code[program][r])
Ahead(r) == Code[program][r][pc[r]]
Advance(r) == pc' = [pc EXCEPT ![r] = @ + 1]

Fencing(r) ==
    /\ HasNext(r)
    /\ Ahead(r).op \in {"toggle", "meet_all", "inc", "meet", "turn", "peer_toggle", "peer_meet"}
    /\ FenceStep(Ranks, r, Ahead(r))
    /\ Advance(r)
    /\ UNCHANGED <<program, mem, offset, counter, seen, oob>>

Is(r, op) == HasNext(r) /\ Ahead(r).op = op

(* memory *)
Position(r, loc, i) == loc.pos + i + (IF loc.shifted THEN offset[r][loc.win] ELSE 0)
Read(r, loc, i) == mem[loc.win][loc.rank][Position(r, loc, i)]
\* len elements from loc on become Value(0), Value(1), ...
Written(r, loc, len, Value(_)) ==
    [mem EXCEPT ![loc.win][loc.rank] =
        [p \in DOMAIN @ |->
            IF p - Position(r, loc, 0) \in 0 .. len - 1 THEN Value(p - Position(r, loc, 0)) ELSE @[p]]]

CopyElements(r) ==
    /\ Is(r, "copy")
    /\ mem' = Written(r, Ahead(r).to, Ahead(r).len, LAMBDA i : Read(r, Ahead(r).a, i))
    /\ Advance(r)
    /\ UNCHANGED <<program, offset, counter, seen, oob, fenceVars>>

ReduceOp(r) ==
    /\ Is(r, "reduce")
    /\ mem' = Written(r, Ahead(r).to, Ahead(r).len,
                      LAMBDA i : Read(r, Ahead(r).a, i) + Read(r, Ahead(r).b, i))
    /\ Advance(r)
    /\ UNCHANGED <<program, offset, counter, seen, oob, fenceVars>>

Fill(r) ==
    /\ Is(r, "fill")
    /\ mem' = Written(r, Local(r, Ahead(r).buf, 0), Ahead(r).len, LAMBDA i : Data(Ahead(r).no, r, i))
    /\ Advance(r)
    /\ UNCHANGED <<program, offset, counter, seen, oob, fenceVars>>

(* the counters of a broadcast *)
Counter(r, slot) == counter[Ahead(r).req][Ahead(r).c][Ahead(r).owner][slot]

BumpCounter(r) ==
    /\ Is(r, "bump")
    /\ counter' = [counter EXCEPT ![Ahead(r).req][Ahead(r).c][Ahead(r).owner][Ahead(r).slot] = @ + 1]
    /\ Advance(r)
    /\ UNCHANGED <<program, mem, offset, seen, oob, fenceVars>>

Spinning(r) ==
    /\ \/ Is(r, "above") /\ Counter(r, Ahead(r).slot) > Counter(r, r)
       \/ Is(r, "reached") /\ Counter(r, Ahead(r).slot) >= Counter(r, r)
       \/ Is(r, "arrived") /\ Counter(r, Ahead(r).slot) >= seen[r]
    /\ Advance(r)
    /\ UNCHANGED <<program, mem, offset, counter, seen, oob, fenceVars>>

ReadP2p(r) ==
    /\ Is(r, "read_p2p")
    /\ seen' = [seen EXCEPT ![r] = Counter(r, Ahead(r).slot)]
    /\ Advance(r)
    /\ UNCHANGED <<program, mem, offset, counter, oob, fenceVars>>

Clear(r) ==
    /\ Is(r, "clear")
    /\ counter' = [counter EXCEPT ![Ahead(r).req] =
                      [c \in Counters |-> [@[c] EXCEPT ![r] = [s \in Ranks |-> 0]]]]
    /\ Advance(r)
    /\ UNCHANGED <<program, mem, offset, seen, oob, fenceVars>>

\* kupl_find_win_by_buffer_address stores the offset in the window
FindWin(r) ==
    /\ Is(r, "offset")
    /\ offset' = [offset EXCEPT ![r] =
                     FoldLeft(LAMBDA f, buf : [f EXCEPT ![buf[1]] = buf[2]], @, Ahead(r).bufs)]
    /\ Advance(r)
    /\ UNCHANGED <<program, mem, counter, seen, oob, fenceVars>>

(* the barrier that the caller supplies *)
OobArrive(r) ==
    /\ Is(r, "oob_arrive")
    /\ oob' = [oob EXCEPT ![r] = @ + 1]
    /\ Advance(r)
    /\ UNCHANGED <<program, mem, offset, counter, seen, fenceVars>>

OobLeave(r) ==
    /\ Is(r, "oob_leave")
    /\ \A q \in Ranks : oob[q] >= oob[r]
    /\ Advance(r)
    /\ UNCHANGED <<program, mem, offset, counter, seen, oob, fenceVars>>

\* the caller comes back from a collective, or from its own fence after one
Return(r) ==
    /\ Is(r, "return") \/ Is(r, "settled")
    /\ Advance(r)
    /\ UNCHANGED <<program, mem, offset, counter, seen, oob, fenceVars>>

RankStep(r) ==
    \/ Fencing(r) \/ CopyElements(r) \/ ReduceOp(r) \/ Fill(r) \/ BumpCounter(r) \/ Spinning(r)
    \/ ReadP2p(r) \/ Clear(r) \/ FindWin(r) \/ OobArrive(r) \/ OobLeave(r) \/ Return(r)

Next == \E r \in Ranks : RankStep(r)

\* every rank is a process of its own that keeps running
Spec == Init /\ [][Next]_vars /\ \A r \in 0 .. MaxSize - 1 : WF_vars(r \in Ranks /\ RankStep(r))

-----------------------------------------------------------------------------
(* A rank leaves a fence of a window only when every rank has entered that   *)
(* fence, however often the three flags have been used before.              *)
FenceHolds == \A w \in Wins, r, q \in Ranks : left[w][r] <= entered[w][q]

Expected(r, c, i) ==
    LET q == c.req
    IN CASE q.coll = "bcast" -> Data(c.no, q.root, i)
         [] q.coll = "allreduce" -> SumSet({Data(c.no, p, i) : p \in Ranks})
         [] OTHER -> Data(c.no, i \div q.count, q.count * r + (i % q.count))

\* do_bcast_linear_topo_opt reads the counter of the root before it has waited for
\* the root: the value may be that of the last call, and then the wait that ends the
\* call waits for nothing
ReadStale(r, q) ==
    /\ BcastAlgo(q) = "topo_opt" /\ r /= Leader(r, program.size)
    /\ seen[r] < counter[q.id]["p2p"][q.root][q.root]

(* When a collective returns to a rank, the receive buffer of the rank holds *)
(* the data that this call was given, although other ranks may still be in   *)
(* the call or already in the next one; except that the topo_opt broadcast   *)
(* may return without the data to a rank that is no leader and read a stale  *)
(* value.  After a fence of the caller the data is there in any case.        *)
ResultDelivered ==
    \A r \in Ranks :
        Is(r, "settled") \/ (Is(r, "return") /\ ~ReadStale(r, Ahead(r).call.req)) =>
            LET c == Ahead(r).call
                len == IF c.req.coll = "alltoall" THEN c.req.count * program.size ELSE c.req.count
            IN \A i \in 0 .. len - 1 : Read(r, Local(r, c.req.recv, 0), i) = Expected(r, c, i)

(* No rank spins for ever on a flag or a counter: all calls return.         *)
CallsReturn == <>(\A r \in Ranks : ~HasNext(r))
=============================================================================
