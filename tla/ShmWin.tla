------------------------------- MODULE ShmWin -------------------------------
(***************************************************************************)
(* Windows, communicators and requests of memory/shm, and the transports    *)
(* that provide the memory: posix (named segments), xpmem (attached heap    *)
(* memory, with caches of keys and regions) and sls (memory mapped through  *)
(* a device, optionally in huge pages, high bandwidth memory or the pool).  *)
(*                                                                         *)
(* Every rank makes the same calls.  A call is a list of steps; a step that  *)
(* acquires something carries the steps the code takes when it fails (its    *)
(* goto labels).  What a rank holds is a set of tokens.                     *)
(***************************************************************************)
EXTENDS Integers, Sequences, SequencesExt, FiniteSets, FiniteSetsExt

CONSTANTS Programs,     \* see below
          MaxRetry      \* bound: attempts of kupl_shm_sls_zcopy_all (100 in the code)

\* A program: [ranks, type, xpmem, sls, contig, hugepage, hbw, mpool, size, faults, calls]:
\* the configuration, which transports work, and how many steps may fail.
\* A call: <<"comm">>, <<"alloc", w>>, <<"free", w>>, <<"bcast_init", q>>,
\* <<"request_free", q>>, <<"destroy">>.

VARIABLES program,      \* the program of this behaviour
          next,         \* per rank: the next call
          todo,         \* per rank: the steps left of the current call
          held,         \* per rank: what it holds
          before,       \* per rank: what it held when the current call began
          winList,      \* per rank: comm->win_list
          reqList,      \* per rank: comm->request_list
          segments,     \* the names in /dev/shm: <<rank, window>>
          regions,      \* per rank: keys and regions cached by xpmem
          oob,          \* per rank: collective calls of the caller's group it entered
          faults,       \* steps that failed so far
          missing,      \* ranks that did not find the segment of a peer
          broken,       \* ranks that freed or used what they do not hold
          result        \* per rank: what the last call returned

vars == <<program, next, todo, held, before, winList, reqList, segments, regions, oob, faults,
          missing, broken, result>>

Take(tok, undo) == <<[op |-> "take", tok |-> tok, undo |-> undo]>>
Keep(tok) == <<[op |-> "keep", tok |-> tok]>>       \* the result is not looked at
Drop(tok) == <<[op |-> "drop", tok |-> tok]>>
DropAll(toks) == FlattenSeq([i \in DOMAIN toks |-> Drop(toks[i])])
Gather == <<[op |-> "arrive"], [op |-> "leave"]>>
Link(x) == <<[op |-> "link", win |-> x]>>
Unlink(x) == <<[op |-> "unlink", win |-> x]>>
Ret(r) == <<[op |-> "return", result |-> r]>>
Peers(p, r) == SetToSortSeq(p.ranks \ {r}, <)
RankSeq(p) == SetToSortSeq(p.ranks, <)
When(cond, code) == IF cond THEN code ELSE <<>>

\* the tokens of a window: of its struct, its info array, the gathered names,
\* its memory, its pinning, its mappings
Win(x) == <<"win", x>>
Info(x) == <<"info", x>>
Names(x) == <<"names", x>>
Base(x) == <<"base", x>>
Pin(x) == <<"pin", x>>
Map(x, q) == <<"map", x, q>>
Device(x) == <<"fd", x>>

(***************************************************************************)
(* posix: kupl_shm_posix_win_alloc and kupl_shm_posix_win_free.            *)
(***************************************************************************)
Creates(p, r) == (~p.contig \/ r = 0) /\ p.size > 0

\* kupl_shm_posix_alloc either creates and maps the segment or leaves nothing
PosixCreate(x, undo) == <<[op |-> "create", win |-> x, undo |-> undo]>>

\* the segment that holds the memory of rank q, the ranks that map it
Owner(p, q) == IF p.contig THEN 0 ELSE q
Attaches(p, r, q) == p.size > 0 /\ ~(q = r /\ (~p.contig \/ r = 0))

\* off by one: the last peer that was mapped stays mapped
PosixUndoAttachMutant(p, x, r, q) ==
    FlattenSeq([i \in DOMAIN RankSeq(p) |->
        LET j == RankSeq(p)[i] IN When(j < q - 1 /\ j /= r /\ Attaches(p, r, j), Drop(Map(x, j)))])

\* kupl_shm_posix_attach: on a failure at q, unmap those before q but never
\* this rank's own
PosixUndoAttach(p, x, r, q) ==
    FlattenSeq([i \in DOMAIN RankSeq(p) |->
        LET j == RankSeq(p)[i] IN When(j < q /\ j /= r /\ Attaches(p, r, j), Drop(Map(x, j)))])

PosixAttach(p, x, r, undo) ==
    FlattenSeq([i \in DOMAIN RankSeq(p) |->
        LET q == RankSeq(p)[i]
        IN When(Attaches(p, r, q),
                <<[op |-> "attach", win |-> x, of |-> q, owner |-> Owner(p, q),
                   undo |-> PosixUndoAttach(p, x, r, q) \o undo]>>)])

PosixAlloc(p, x, r, flag, onfail) ==
    LET freeWin == Drop(Win(x)) \o onfail
        freeInfo == Drop(Info(x)) \o freeWin
        unlinkOwn == When(Creates(p, r), Drop(Map(x, r)) \o <<[op |-> "shm_unlink", win |-> x]>>) \o freeInfo
        freeNames == Drop(Names(x)) \o unlinkOwn
    IN Take(Win(x), onfail)
           \o Take(Info(x), freeWin)
           \o When(Creates(p, r), PosixCreate(x, freeInfo))
           \o Take(Names(x), unlinkOwn)
           \o Gather                            \* the names
           \o Gather                            \* the sizes
           \o PosixAttach(p, x, r, freeNames)
           \o When(flag, Link(x))

\* the window is freed and stays in the communicator's list
PosixFreeMutant(p, x, r, flag) ==
    When(p.size > 0, DropAll([i \in DOMAIN RankSeq(p) |-> Map(x, RankSeq(p)[i])]))
        \o When(Creates(p, r), <<[op |-> "shm_unlink", win |-> x]>>)
        \o DropAll(<<Names(x), Info(x), Win(x)>>)

PosixFree(p, x, r, flag) ==
    When(p.size > 0, DropAll([i \in DOMAIN RankSeq(p) |-> Map(x, RankSeq(p)[i])]))
        \o When(Creates(p, r), <<[op |-> "shm_unlink", win |-> x]>>)
        \o When(flag, Unlink(x))
        \o DropAll(<<Names(x), Info(x), Win(x)>>)

(***************************************************************************)
(* xpmem: heap memory, attached through cached keys and regions.           *)
(***************************************************************************)
\* kupl_shm_xpmem_get_trans_mem for every peer
XpmemAttach(p, x, r, undo) ==
    FlattenSeq([i \in DOMAIN Peers(p, r) |->
        <<[op |-> "xget", of |-> Peers(p, r)[i], undo |-> undo],
          [op |-> "xattach", win |-> x, of |-> Peers(p, r)[i], undo |-> undo]>>])

XpmemAlloc(p, x, r, flag, onfail) ==
    LET freeWin == Drop(Win(x)) \o onfail
        freeInfo == Drop(Info(x)) \o freeWin
        freeBase == Drop(Base(x)) \o freeInfo
        list == <<"list", x>>
    IN Take(Win(x), onfail)
           \o Take(Info(x), freeWin)
           \o Take(Base(x), freeInfo)
           \o Take(list, freeBase)
           \o Gather
           \o XpmemAttach(p, x, r, Drop(list) \o freeBase)
           \o Drop(list)
           \o When(flag, Link(x))

XpmemFree(x, flag) == When(flag, Unlink(x)) \o DropAll(<<Base(x), Info(x), Win(x)>>)

(***************************************************************************)
(* sls: the ways to get the memory differ, with and without the pool.      *)
(***************************************************************************)
UsesPool(p) == p.mpool /\ p.size > 0

\* the memory policy is bound to the high bandwidth node around the allocation
SlsBase(p, x, freeInfo) ==
    IF UsesPool(p) \/ p.hugepage \/ ~p.hbw THEN Take(Base(x), freeInfo)
    ELSE Take(<<"hbw_policy">>, freeInfo) \o Take(Base(x), Drop(<<"hbw_policy">>) \o freeInfo)
             \o Drop(<<"hbw_policy">>)

\* kupl_shm_sls_zcopy_all: up to MaxRetry fresh buffers are offered to the device
SlsAttach(p, x, r, undo) ==
    FlattenSeq([i \in DOMAIN Peers(p, r) |->
        <<[op |-> "zcopy", win |-> x, of |-> Peers(p, r)[i], tries |-> 0, undo |-> undo]>>])

SlsAlloc(p, x, r, flag, onfail) ==
    LET freeWin == Drop(Win(x)) \o onfail
        freeInfo == Drop(Info(x)) \o freeWin
        freeBase == Drop(Base(x)) \o freeInfo
        unpin == When(~UsesPool(p), Drop(Pin(x))) \o freeBase
        list == <<"list", x>>
    IN Take(Win(x), onfail)
           \o Take(Info(x), freeWin)
           \o SlsBase(p, x, freeInfo)
           \o When(~UsesPool(p), Keep(Pin(x)))
           \o Take(list, unpin)
           \o Keep(Device(x))               \* opened for this window and never closed
           \o Gather
           \o SlsAttach(p, x, r, Drop(list) \o unpin)
           \o Drop(list)
           \o When(flag, Link(x))

SlsFree(p, x, r, flag) ==
    DropAll([i \in DOMAIN Peers(p, r) |-> Map(x, Peers(p, r)[i])])
        \o When(~UsesPool(p), Drop(Pin(x)))
        \o Drop(Base(x))
        \o When(flag, Unlink(x))
        \o DropAll(<<Info(x), Win(x)>>)

(***************************************************************************)
(* kupl_shm.cpp: the transport is chosen once, with posix as the fallback. *)
(***************************************************************************)
ShmTypeSelect(p) == IF p.type \in {"xpmem", "sls"} THEN p.type ELSE "posix"

\* p.xpmem is "ok", "absent" (no library) or "fails" (no version, no segment id)
XpmemLoads(p) == p.xpmem /= "absent"
XpmemInit(p) == p.xpmem /= "fails"
SlsInit(p) == p.sls = "ok"

ShmInit(p) ==
    IF \/ ShmTypeSelect(p) = "xpmem" /\ ~(XpmemLoads(p) /\ XpmemInit(p))
       \/ ShmTypeSelect(p) = "sls" /\ ~SlsInit(p)
    THEN "posix" ELSE ShmTypeSelect(p)

\* kupl_shm_win_alloc_inner
WinAllocInner(p, x, r, flag, onfail) ==
    When(p.contig, Gather)
        \o CASE p.size > p.intMax -> onfail
             [] ShmInit(p) = "posix" -> PosixAlloc(p, x, r, flag, onfail)
             [] ShmInit(p) = "xpmem" -> XpmemAlloc(p, x, r, flag, onfail)
             [] OTHER -> SlsAlloc(p, x, r, flag, onfail)

WinFreeInner(p, x, r, flag) ==
    CASE ShmInit(p) = "posix" -> PosixFree(p, x, r, flag)
      [] ShmInit(p) = "xpmem" -> XpmemFree(x, flag)
      [] OTHER -> SlsFree(p, x, r, flag)

FencePtr(w) == <<"fence_win_ptr", w>>
Fences(w) == <<"fences", w>>

FenceDestroy(p, w, r) ==
    Drop(Fences(w)) \o WinFreeInner([p EXCEPT !.size = 1], <<w, "fence">>, r, FALSE) \o Drop(FencePtr(w))

\* the ranks do not meet before they free
WinFreeMutant(p, w, r) == FenceDestroy(p, w, r) \o WinFreeInner(p, <<w, "main">>, r, TRUE)

\* kupl_shm_win_free: nobody unmaps before all are here
WinFree(p, w, r) == Gather \o FenceDestroy(p, w, r) \o WinFreeInner(p, <<w, "main">>, r, TRUE)

\* kupl_shm_fence_create, and what kupl_shm_win_alloc does next.  When it fails
\* early comm_fence and peer_fence were never assigned, and the test of
\* kupl_shm_win_alloc reads what the heap left there.
FenceCreate(p, w, r, rest, onfail) ==
    LET q == [p EXCEPT !.size = 1]
        x == <<w, "fence">>
        noFences == Gather \o WinFreeInner(p, <<w, "main">>, r, TRUE) \o onfail
        unassigned == <<[op |-> "unassigned", null |-> noFences, set |-> rest]>>
    IN Take(FencePtr(w), unassigned)
           \o WinAllocInner(q, x, r, FALSE, Drop(FencePtr(w)) \o unassigned)
           \o Take(Fences(w), WinFreeInner(q, x, r, FALSE) \o Drop(FencePtr(w)) \o noFences)
           \o rest

WinAlloc(p, w, r, rest, onfail) ==
    WinAllocInner(p, <<w, "main">>, r, TRUE, onfail) \o FenceCreate(p, w, r, rest, onfail)

(***************************************************************************)
(* kupl_shmc.cpp: requests and communicators.                              *)
(***************************************************************************)
Request(q) == <<"request", q>>
NotifyWins(q) == <<<<q, "notify_root">>, <<q, "notify_others">>, <<q, "p2p">>>>
One(p) == [p EXCEPT !.size = 1]

\* kupl_shm_bcast_init: three windows, freed again in the opposite order
BcastInit(p, q, r) ==
    LET w == NotifyWins(q)
        fail == Drop(Request(q)) \o Ret("error")
        failOthers == WinFree(One(p), w[1], r) \o fail
        failP2p == WinFree(One(p), w[2], r) \o failOthers
        done == <<[op |-> "link_request", req |-> q], [op |-> "fence_arrive"], [op |-> "fence_leave"]>> \o Ret("ok")
    IN Take(Request(q), Ret("error"))
           \o WinAlloc(One(p), w[1], r,
                  WinAlloc(One(p), w[2], r,
                      WinAlloc(One(p), w[3], r, done, failP2p),
                      failOthers),
                  fail)

RequestFree(p, q, r) ==
    FlattenSeq([i \in 1 .. 3 |-> WinFree(One(p), NotifyWins(q)[i], r)])
        \o <<[op |-> "unlink_request", req |-> q]>>
        \o Drop(Request(q))

CallCode(p, c, r) ==
    CASE c[1] = "comm" -> Take(<<"comm">>, Ret("error")) \o Ret("ok")
      [] c[1] = "alloc" -> WinAlloc(p, c[2], r, Ret("ok"), Ret("error"))
      [] c[1] = "free" -> WinFree(p, c[2], r) \o Ret("ok")
      [] c[1] = "bcast_init" -> BcastInit(p, c[2], r)
      [] c[1] = "request_free" -> RequestFree(p, c[2], r) \o Ret("ok")
      [] c[1] = "destroy" -> <<[op |-> "free_requests"], [op |-> "free_windows"]>> \o Drop(<<"comm">>) \o Ret("ok")

(***************************************************************************)
(* The steps.                                                              *)
(***************************************************************************)
Ranks == program.ranks

Init ==
    /\ program \in Programs
    /\ next = [r \in Ranks |-> 1]
    /\ todo = [r \in Ranks |-> <<>>]
    /\ held = [r \in Ranks |-> {}]
    /\ before = [r \in Ranks |-> [held |-> {}, wins |-> <<>>, reqs |-> <<>>]]
    /\ winList = [r \in Ranks |-> <<>>]
    /\ reqList = [r \in Ranks |-> <<>>]
    /\ segments = {}
    /\ regions = [r \in Ranks |-> {}]
    /\ oob = [r \in Ranks |-> [group |-> 0, fence |-> 0]]
    /\ faults = 0
    /\ missing = {}
    /\ broken = {}
    /\ result = [r \in Ranks |-> "ok"]

Step(r) == Head(todo[r])
Is(r, ops) == todo[r] /= <<>> /\ Step(r).op \in ops
Proceed(r) == todo' = [todo EXCEPT ![r] = Tail(@)]
Divert(r, code) == todo' = [todo EXCEPT ![r] = code]

\* the caller stops after an error
Call(r) ==
    /\ todo[r] = <<>>
    /\ result[r] = "ok"
    /\ next[r] <= Len(program.calls)
    /\ Divert(r, CallCode(program, program.calls[next[r]], r))
    /\ next' = [next EXCEPT ![r] = @ + 1]
    /\ before' = [before EXCEPT ![r] = [held |-> held[r], wins |-> winList[r], reqs |-> reqList[r]]]
    /\ UNCHANGED <<program, held, winList, reqList, segments, regions, oob, faults, missing, broken, result>>

\* a step that acquires something succeeds with these effects
Acquire(r) ==
    /\ \/ /\ Is(r, {"take", "keep"})
          /\ held' = [held EXCEPT ![r] = @ \union {Step(r).tok}]
          /\ UNCHANGED segments
       \/ /\ Is(r, {"create"})
          /\ held' = [held EXCEPT ![r] = @ \union {Map(Step(r).win, r)}]
          /\ segments' = segments \union {<<r, Step(r).win>>}
       \/ /\ Is(r, {"attach"})
          /\ <<Step(r).owner, Step(r).win>> \in segments
          /\ held' = [held EXCEPT ![r] = @ \union {Map(Step(r).win, Step(r).of)}]
          /\ UNCHANGED segments
    /\ Proceed(r)
    /\ UNCHANGED <<program, next, before, winList, reqList, regions, oob, faults, missing, broken, result>>

\* kupl_shm_sls_zcopy: the device makes the buffer show the peer's memory
Zcopied(r) ==
    /\ Is(r, {"zcopy"})
    /\ held' = [held EXCEPT ![r] = @ \union {Map(Step(r).win, Step(r).of)}]
    /\ Proceed(r)
    /\ UNCHANGED <<program, next, before, winList, reqList, segments, regions, oob, faults, missing, broken, result>>

\* xpmem: the key of a peer and the region of its memory are looked up in the
\* caches of this rank, and made and cached when they are not there
RemoteRegion(r) ==
    /\ \/ Is(r, {"xget"}) /\ regions' = [regions EXCEPT ![r] = @ \union {<<"key", Step(r).of>>}]
       \/ Is(r, {"xattach"}) /\ regions' = [regions EXCEPT ![r] = @ \union {<<"region", Step(r).of, Step(r).win>>}]
    /\ Proceed(r)
    /\ UNCHANGED <<program, next, held, before, winList, reqList, segments, oob, faults, missing, broken, result>>

\* it fails: the system refuses, or the segment of the peer is not there
Refused(r) ==
    /\ Is(r, {"take", "create", "attach", "xget", "xattach"})
    /\ \/ faults < program.faults /\ faults' = faults + 1 /\ UNCHANGED missing
       \/ /\ Is(r, {"attach"})
          /\ <<Step(r).owner, Step(r).win>> \notin segments
          /\ missing' = missing \union {r}
          /\ UNCHANGED faults
    /\ Divert(r, Step(r).undo)
    /\ UNCHANGED <<program, next, held, before, winList, reqList, segments, regions, oob, broken, result>>

\* the device refuses a buffer: another one is tried
Retry(r) ==
    /\ Is(r, {"zcopy"})
    /\ faults < program.faults
    /\ faults' = faults + 1
    /\ Divert(r, IF Step(r).tries + 1 < MaxRetry THEN <<[Step(r) EXCEPT !.tries = @ + 1]>> \o Tail(todo[r])
                 ELSE Step(r).undo)
    /\ UNCHANGED <<program, next, held, before, winList, reqList, segments, regions, oob, missing, broken, result>>

Release(r) ==
    /\ \/ /\ Is(r, {"drop"})
          /\ held' = [held EXCEPT ![r] = @ \ {Step(r).tok}]
          /\ broken' = IF Step(r).tok \in held[r] THEN broken ELSE broken \union {r}
          /\ UNCHANGED segments
       \/ /\ Is(r, {"shm_unlink"})
          /\ segments' = segments \ {<<r, Step(r).win>>}
          /\ UNCHANGED <<held, broken>>
    /\ Proceed(r)
    /\ UNCHANGED <<program, next, before, winList, reqList, regions, oob, faults, missing, result>>

\* oob_allgather and oob_barrier of the caller; the fence of the window
Arrive(r) ==
    /\ \/ Is(r, {"arrive"}) /\ oob' = [oob EXCEPT ![r].group = @ + 1]
       \/ Is(r, {"fence_arrive"}) /\ oob' = [oob EXCEPT ![r].fence = @ + 1]
    /\ Proceed(r)
    /\ UNCHANGED <<program, next, held, before, winList, reqList, segments, regions, faults, missing, broken, result>>

Leave(r) ==
    /\ \/ Is(r, {"leave"}) /\ \A q \in Ranks : oob[q].group >= oob[r].group
       \/ Is(r, {"fence_leave"}) /\ \A q \in Ranks : oob[q].fence >= oob[r].fence
    /\ Proceed(r)
    /\ UNCHANGED <<program, next, held, before, winList, reqList, segments, regions, oob, faults, missing, broken, result>>

\* comm->win_list and comm->request_list, newest first
Lists(r) ==
    /\ \/ Is(r, {"link"}) /\ winList' = [winList EXCEPT ![r] = <<Step(r).win>> \o @] /\ UNCHANGED reqList
       \/ Is(r, {"unlink"}) /\ winList' = [winList EXCEPT ![r] = Remove(@, Step(r).win)] /\ UNCHANGED reqList
       \/ Is(r, {"link_request"}) /\ reqList' = [reqList EXCEPT ![r] = <<Step(r).req>> \o @] /\ UNCHANGED winList
       \/ Is(r, {"unlink_request"}) /\ reqList' = [reqList EXCEPT ![r] = Remove(@, Step(r).req)] /\ UNCHANGED winList
    /\ Proceed(r)
    /\ UNCHANGED <<program, next, held, before, segments, regions, oob, faults, missing, broken, result>>

\* kupl_shm_comm_destroy frees the requests of the communicator, then its windows
Walk(r) ==
    /\ \/ /\ Is(r, {"free_requests"})
          /\ Divert(r, IF reqList[r] = <<>> THEN Tail(todo[r])
                       ELSE RequestFree(program, Head(reqList[r]), r) \o todo[r])
       \/ /\ Is(r, {"free_windows"})
          /\ Divert(r, IF winList[r] = <<>> THEN Tail(todo[r])
                       ELSE WinFree(program, Head(winList[r])[1], r) \o todo[r])
    /\ UNCHANGED <<program, next, held, before, winList, reqList, segments, regions, oob, faults, missing, broken, result>>

\* the read of the unassigned fences in kupl_shm_win_alloc
ReadUnassigned(r) ==
    /\ Is(r, {"unassigned"})
    /\ \/ Divert(r, Step(r).null)
       \/ Divert(r, Step(r).set)
    /\ UNCHANGED <<program, next, held, before, winList, reqList, segments, regions, oob, faults, missing, broken, result>>

Return(r) ==
    /\ Is(r, {"return"})
    /\ result' = [result EXCEPT ![r] = Step(r).result]
    /\ Divert(r, <<>>)
    /\ UNCHANGED <<program, next, held, before, winList, reqList, segments, regions, oob, faults, missing, broken>>

Next == \E r \in Ranks :
    \/ Call(r) \/ Acquire(r) \/ Zcopied(r) \/ RemoteRegion(r) \/ Refused(r) \/ Retry(r) \/ Release(r)
    \/ Arrive(r) \/ Leave(r) \/ Lists(r) \/ Walk(r) \/ ReadUnassigned(r) \/ Return(r)

Spec == Init /\ [][Next]_vars
-----------------------------------------------------------------------------
Returned(r) == todo[r] = <<>> /\ next[r] > 1
Owned(tokens) == {t \in tokens : t[1] /= "fd"}      \* the handles of the sls device stay open
LastCall(r) == program.calls[next[r] - 1]

(* A call that returns an error has released everything it acquired, in     *)
(* whichever of its steps it failed: heap blocks, mappings, list entries     *)
(* and the name of the segment.                                             *)
FailureUnwinds ==
    \A r \in Ranks :
        Returned(r) /\ result[r] = "error" =>
            /\ Owned(before[r].held) = Owned(held[r])
            /\ before[r] = [held |-> before[r].held, wins |-> winList[r], reqs |-> reqList[r]]
            /\ \A s \in segments : s[1] = r => Win(s[2]) \in held[r]

(* As long as no step has failed, the segment of a peer exists when a rank   *)
(* opens it: no rank unlinks its segment before all have mapped it.          *)
SegmentsFound == missing /= {} => faults > 0

(* kupl_shm_comm_destroy releases every window and every request of the      *)
(* communicator exactly once (the device handles of sls stay open).         *)
DestroyReleasesAll ==
    faults = 0 =>
        /\ broken = {}
        /\ \A r \in Ranks :
               Returned(r) /\ LastCall(r)[1] = "destroy" =>
                   /\ Owned(held[r]) = {}
                   /\ \A s \in segments : s[1] /= r
=============================================================================
