------------------------------- MODULE Mpool -------------------------------
(***************************************************************************)
(* The memory pool of memory/mpool/kupl_mpool.cpp.                         *)
(*                                                                         *)
(* Every executor owns a pool of each kind of memory (DDR and high         *)
(* bandwidth).  A pool has two layers.  Normal memory carves mmapped       *)
(* chunks into buffers with boundary tags (kupl_buffer_desc) kept in size  *)
(* bins.  Fast memory cuts a normal buffer into equal small buffers that   *)
(* live in three lists per size: self (owner only), sync (other executors  *)
(* push with CAS, the owner takes all) and other (buffers of another       *)
(* executor, collected before they are pushed to its sync list).           *)
(*                                                                         *)
(* Addresses are integers in units of one descriptor; region r starts at   *)
(* r * Stride.  The heap is one record so that the C functions can be      *)
(* written as operators from heap to heap.                                 *)
(***************************************************************************)
EXTENDS Integers, Sequences, FiniteSets, SequencesExt

CONSTANTS Executors,    \* global executor ids, 0 .. n-1
          Scenarios,    \* [by, kinds, sizes, windows, sdma, pinned, pins, allocs]
          Regions,      \* number of mmaps that can succeed at once
          MemBins,      \* g_memory_bin_size, its last entry the chunk size
          FastBins,     \* g_fast_bin_size in MEM_FAST_UNITs; entry 1 is for size 0
          FastGrow,     \* KUPL_NORMAL_MEMORY_FAST_GROW_SIZE
          UserAlign,    \* KUPL_MPOOL_ALIGN_SIZE
          HugePage,     \* HUGE_PAGE_SIZE
          Threshold,    \* KUPL_MEM_BINS_THRESHOLD
          OtherLimit,   \* KUPL_FAST_MEMORY_OTHRE_QUEUE_LIMIT
          Uint          \* 2^32, as far as TLC's integers allow

VARIABLES scenario,     \* what the users do in this behaviour
          heap,         \* all memory of the pools, see InitHeap
          held,         \* buffers in the users' hands: ptr -> [kind, size]
          push,         \* per executor: a push onto another's list, or Idle
          allocs,       \* allocations made so far, bounded by the scenario
          phase         \* "off", "up" (g_mpool_inited) or "down"

vars == <<scenario, heap, held, push, allocs, phase>>

Kinds == {"ddr", "hbw"}
DescSize == 1
MinBuffer == DescSize + 1
FastDelta == 1
NIL == 0
Chunk == MemBins[Len(MemBins)]
MaxSize == Chunk - 2 * DescSize
Stride == 4 * Chunk
WholeChunk == Chunk - DescSize
Uint16 == 65536
Bins == 1 .. Len(MemBins)
FastIndex == 1 .. Len(FastBins)
Idle == [pc |-> "idle"]

\* fields that hold a function with a changing domain
Put(f, x, v) == [y \in DOMAIN f \union {x} |-> IF y = x THEN v ELSE f[y]]
Drop(f, x) == [y \in DOMAIN f \ {x} |-> f[y]]

(***************************************************************************)
(* Initial state: kupl_normal_init and kupl_fast_init for every executor.  *)
(***************************************************************************)
FastInit == [i \in FastIndex |->
    [self |-> NIL, sync |-> NIL, other |-> NIL, tail |-> NIL, cnt |-> 0]]

NormalInit(e) ==
    [eid |-> e, chunks |-> 0, bins |-> [i \in Bins |-> <<>>],
     count |-> [i \in Bins |-> 0], sync |-> NIL, fast |-> FastInit]

InitHeap ==
    [mem |-> [m \in Kinds \X Executors |-> NormalInit(m[2])],
     desc |-> <<>>,       \* kupl_buffer_desc by address
     fdesc |-> <<>>,      \* kupl_fast_desc by user pointer
     next |-> <<>>,       \* first word of a buffer that is in a list
     maps |-> [r \in 1 .. Regions |-> 0],
     align |-> UserAlign, \* static align_length of kupl_normal_alloc
     hbw |-> FALSE,       \* kupl_hbw_init has run
     sdma |-> FALSE,      \* sdma_mpool_func_init
     pin |-> <<>>,        \* g_pin_map: address -> size
     dev |-> <<>>]        \* what the SDMA device holds pinned

(***************************************************************************)
(* Pinning (kupl_mlock, kupl_munlock).  The device may refuse: okPin and   *)
(* okUnpin are its answers to the pin and to the unpin that precedes it.   *)
(***************************************************************************)
\* the map keeps the entry the device no longer pins
MlockMutant(h, a, count, okPin, okUnpin) ==
    IF a \notin DOMAIN h.pin
    THEN IF okPin THEN [h EXCEPT !.pin = Put(@, a, count), !.dev = Put(@, a, count)]
                  ELSE h
    ELSE IF h.pin[a] >= count \/ ~okUnpin THEN h
    ELSE IF okPin THEN [h EXCEPT !.pin = Put(@, a, count), !.dev = Put(@, a, count)]
                  ELSE [h EXCEPT !.pin = Put(@, a, count), !.dev = Drop(@, a)]

Mlock(h, a, count, okPin, okUnpin) ==
    IF a \notin DOMAIN h.pin
    THEN IF okPin THEN [h EXCEPT !.pin = Put(@, a, count), !.dev = Put(@, a, count)]
                  ELSE h
    ELSE IF h.pin[a] >= count \/ ~okUnpin THEN h
    ELSE IF okPin THEN [h EXCEPT !.pin = Put(@, a, count), !.dev = Put(@, a, count)]
                  ELSE [h EXCEPT !.pin = Drop(@, a), !.dev = Drop(@, a)]

Munlock(h, a, count, okUnpin) ==
    IF a \in DOMAIN h.pin /\ h.pin[a] = count /\ okUnpin
    THEN [h EXCEPT !.pin = Drop(@, a), !.dev = Drop(@, a)]
    ELSE h

PoolMlock(h, a, count) ==
    IF h.sdma THEN Mlock(h, a, count, scenario.pinned, TRUE) ELSE h

\* kupl_memory_mmap: a free region of the address space, NIL when there is none
FreeRegions(h) == {r \in 1 .. Regions : h.maps[r] = 0}
MmapAddr(h) == IF FreeRegions(h) = {} THEN NIL
               ELSE Stride * (CHOOSE r \in FreeRegions(h) :
                                 \A q \in FreeRegions(h) : r <= q)
MemoryMmap(h, a, size) == [h EXCEPT !.maps[a \div Stride] = size]

\* munmap after kupl_munlock with the size that is in the descriptor
MemoryMunmap(h, a) ==
    LET size == h.desc[a].size
        h1   == IF h.sdma THEN Munlock(h, a, size, TRUE) ELSE h
    IN  [h1 EXCEPT !.maps[a \div Stride] = 0]

(***************************************************************************)
(* Normal memory.                                                          *)
(***************************************************************************)
\* kupl_get_bin_index: the binary search as the code does it
GetBinIndex(size) ==
    LET f[d \in 0 .. Len(MemBins), low \in Bins] ==
            LET high == low + d
                mid  == (high + low) \div 2
            IN  IF d > 1
                THEN IF size < MemBins[mid] THEN f[(mid - 1) - low, low]
                                            ELSE f[high - mid, mid]
                ELSE IF d = 1 /\ size >= MemBins[high] THEN high ELSE low
    IN  f[Len(MemBins) - 1, 1]

InsertIntoFreelist(h, m, a) ==
    LET i == GetBinIndex(h.desc[a].size)
    IN  [h EXCEPT !.desc[a].bin = i,
                  !.mem[m].bins[i] = <<a>> \o @,
                  !.mem[m].count[i] = (@ + 1) % Uint]

\* kupl_list_del: out of whichever list the descriptor is in
ListDel(h, m, a) ==
    [h EXCEPT !.mem[m].bins = [i \in Bins |-> SelectSeq(@[i], LAMBDA x : x # a)]]

CountDown(h, m, i) == [h EXCEPT !.mem[m].count[i] = (@ - 1) % Uint]

\* The two ways out of kupl_normal_travel_list: the tail of a large buffer ...
TravelSplit(h, m, i, a, actual) ==
    LET d    == h.desc[a]
        rest == d.size - actual
        u    == a + rest
        user == [eid |-> d.eid, ref |-> 1, bin |-> d.bin,
                 size |-> -actual, prev |-> rest]
        h1   == [h EXCEPT !.desc = Put([@ EXCEPT ![a].size = rest,
                                                 ![a + d.size].prev = 0], u, user)]
    IN  [h |-> InsertIntoFreelist(CountDown(ListDel(h1, m, a), m, i), m, a),
         ptr |-> u + DescSize]

\* the descriptor behind the buffer is not told
TravelWholeMutant(h, m, i, a) ==
    LET d  == h.desc[a]
        h1 == [h EXCEPT !.desc[a] = [@ EXCEPT !.size = -d.size, !.prev = 0, !.ref = 1]]
    IN  [h |-> CountDown(ListDel(h1, m, a), m, i), ptr |-> a + DescSize]

\* ... or all of one that is too small to be split
TravelWhole(h, m, i, a) ==
    LET d  == h.desc[a]
        h1 == [h EXCEPT !.desc[a] = [@ EXCEPT !.size = -d.size, !.prev = 0, !.ref = 1],
                        !.desc[a + d.size].prev = 0]
    IN  [h |-> CountDown(ListDel(h1, m, a), m, i), ptr |-> a + DescSize]

\* a buffer one unit too small is taken
FitsMutant(h, m, actual) ==
    {<<i, k>> \in (GetBinIndex(actual) .. Len(MemBins)) \X (1 .. Regions * Chunk) :
        k <= Len(h.mem[m].bins[i]) /\ h.desc[h.mem[m].bins[i][k]].size + 1 >= actual}

\* first fit in the bins from the one of `actual' upwards
Fits(h, m, actual) ==
    {<<i, k>> \in (GetBinIndex(actual) .. Len(MemBins)) \X (1 .. Regions * Chunk) :
        k <= Len(h.mem[m].bins[i]) /\ h.desc[h.mem[m].bins[i][k]].size >= actual}

FirstFit(fits) == CHOOSE x \in fits : \A y \in fits : x[1] < y[1] \/ (x[1] = y[1] /\ x[2] <= y[2])

TravelList(h, m, i, a, actual) ==
    IF h.desc[a].size - actual >= MinBuffer
    THEN TravelSplit(h, m, i, a, actual)
    ELSE TravelWhole(h, m, i, a)

SearchBins(h, m, actual) ==
    LET best == FirstFit(Fits(h, m, actual))
    IN  TravelList(h, m, best[1], h.mem[m].bins[best[1]][best[2]], actual)

\* a new chunk with a dummy descriptor at its end
GrowChunk(h, m, a) ==
    LET eid == h.mem[m].eid
        d   == [eid |-> eid, ref |-> 1, bin |-> 1, size |-> WholeChunk, prev |-> 0]
        e   == [eid |-> eid, ref |-> 0, bin |-> 1, size |-> -1, prev |-> WholeChunk]
        h1  == [MemoryMmap(h, a, Chunk) EXCEPT
                    !.mem[m].chunks = @ + 1,
                    !.desc = Put(Put(@, a, d), a + WholeChunk, e)]
    IN  InsertIntoFreelist(PoolMlock(h1, a, Chunk), m, a)

(***************************************************************************)
(* kupl_normal_free for the owner's pool m (or memory that was mmapped     *)
(* for one buffer).  ref is uint16_t and wraps.                            *)
(***************************************************************************)
MergePrev(h, m, a, i) ==
    LET p == a - h.desc[a].prev
    IN  IF h.desc[a].prev = 0 THEN [h |-> h, a |-> a]
        ELSE [h |-> CountDown(ListDel([h EXCEPT !.desc[p].size = @ + h.desc[a].size],
                                      m, p), m, i),
              a |-> p]

MergeNext(h, m, a, i) ==
    LET n == a + h.desc[a].size
    IN  IF h.desc[n].size <= 0 THEN h
        ELSE CountDown(ListDel([h EXCEPT !.desc[a].size = @ + h.desc[n].size],
                               m, n), m, i)

\* the buffer behind is told, and a whole chunk given back unless it is the last
TellNext(h, a) == [h EXCEPT !.desc[a + h.desc[a].size].prev = h.desc[a].size]

GiveBack(h, m, a) ==
    IF h.desc[a].size = WholeChunk /\ h.mem[m].chunks >= 2
    THEN MemoryMunmap(h, a)
    ELSE InsertIntoFreelist(h, m, a)

Coalesce(h, m, a, i) ==
    LET p == MergePrev(h, m, a, i)
    IN  GiveBack(TellNext(MergeNext(p.h, m, p.a, i), p.a), m, p.a)

LastRef(h, ptr) == (h.desc[ptr - DescSize].ref - 1) % Uint16 = 0
Unref(h, ptr) == [h EXCEPT !.desc[ptr - DescSize].ref = (@ - 1) % Uint16]
IsDirect(h, ptr) == h.desc[ptr - DescSize].bin < 0
IsRemote(h, m, ptr) == h.desc[ptr - DescSize].eid # m[2]

NormalFree(h, m, ptr) ==
    LET a  == ptr - DescSize
        h1 == Unref(h, ptr)
        h2 == [h1 EXCEPT !.desc[a].size = -@]
        i  == h.desc[a].bin
    IN  IF ~LastRef(h, ptr) THEN h1
        ELSE IF IsDirect(h, ptr) THEN MemoryMunmap(h1, a)
        ELSE IF h.mem[m].count[i] < Threshold THEN InsertIntoFreelist(h2, m, a)
        ELSE Coalesce(h2, m, a, i)

\* the buffers linked from p
Chain(h, p) ==
    LET f[n \in 0 .. Regions * Chunk, q \in DOMAIN h.next \union {NIL}] ==
            IF n = 0 \/ q = NIL THEN <<>> ELSE <<q>> \o f[n - 1, h.next[q]]
    IN  f[Regions * Chunk, p]

\* kupl_normal_sync_list_dequeue: take all that others freed, free each
SyncListDequeue(h, m) ==
    FoldLeft(LAMBDA g, ptr : NormalFree(g, m, ptr),
             [h EXCEPT !.mem[m].sync = NIL], Chain(h, h.mem[m].sync))

AlignUp(x, n) == ((x + n - 1) \div n) * n

\* a buffer mapped for itself
MapDirect(h, m, a, actual) ==
    [h |-> [PoolMlock(MemoryMmap(h, a, actual), a, actual)
               EXCEPT !.desc = Put(@, a, [eid |-> h.mem[m].eid, ref |-> 1, bin |-> -1,
                                          size |-> actual, prev |-> 0])],
     ptr |-> a + DescSize]

AllocActual(h, m, actual) ==
    LET a == MmapAddr(h)
    IN  IF actual <= MaxSize /\ Fits(h, m, actual) # {} THEN SearchBins(h, m, actual)
        ELSE IF a = NIL THEN [h |-> h, ptr |-> NIL]
        ELSE IF actual > MaxSize THEN MapDirect(h, m, a, actual)
        ELSE SearchBins(GrowChunk(h, m, a), m, actual)

AllocAligned(h, m, size) == AllocActual(h, m, AlignUp(size + DescSize, h.align))

NormalAlloc(h, m, size, win) ==
    AllocAligned([SyncListDequeue(h, m) EXCEPT !.align = IF win THEN HugePage ELSE @], m, size)

(***************************************************************************)
(* Fast memory.                                                            *)
(***************************************************************************)
SvListPut(h, m, i, ptr) ==
    [h EXCEPT !.next = Put(@, ptr, h.mem[m].fast[i].self), !.mem[m].fast[i].self = ptr]

\* kupl_get_memory_from_normal_memory: a block is cut into equal buffers; the
\* first one goes to the user, the others to the self list
FromNormalMemory(r, m, i) ==
    LET step  == FastBins[i] + FastDelta
        count == FastGrow \div step
        bufs  == [k \in 1 .. count |-> r.ptr + step * (k - 1)]
        fd    == [eid |-> r.h.mem[m].eid, index |-> i, alloc |-> r.ptr]
        h1    == [r.h EXCEPT !.desc[r.ptr - DescSize].ref = count]
        Cut(g, b) == LET g1 == [g EXCEPT !.fdesc = Put(@, b, fd)]
                     IN  IF b = r.ptr THEN g1 ELSE SvListPut(g1, m, i, b)
    IN  IF r.ptr = NIL THEN r
        ELSE [h |-> FoldLeft(Cut, h1, bufs), ptr |-> r.ptr]

\* a buffer too large for fast memory
WholeBuffer(r, m) ==
    IF r.ptr = NIL THEN r
    ELSE [h |-> [r.h EXCEPT !.fdesc = Put(@, r.ptr, [eid |-> r.h.mem[m].eid, index |-> -1,
                                                     alloc |-> r.ptr])],
          ptr |-> r.ptr]

FastAlloc(h, m, size, win) ==
    LET big   == size > FastBins[Len(FastBins)]
        i     == size + 1
        bin   == h.mem[m].fast[i]
    IN  IF big THEN WholeBuffer(NormalAlloc(h, m, size, win), m)
        ELSE IF bin.self # NIL
        THEN [h |-> [h EXCEPT !.mem[m].fast[i].self = h.next[bin.self]], ptr |-> bin.self]
        ELSE IF bin.sync # NIL
        THEN [h |-> [h EXCEPT !.mem[m].fast[i].self = h.next[bin.sync],
                              !.mem[m].fast[i].sync = NIL], ptr |-> bin.sync]
        ELSE FromNormalMemory(NormalAlloc(h, m, FastGrow, win), m, i)

(***************************************************************************)
(* Freeing.  What is left of a call once its thread-local part is done is  *)
(* a push of the chain first .. last onto a list of the owner of the       *)
(* memory: "fast" bin i, or "mem" for normal buffers.                      *)
(***************************************************************************)
PushOf(list, m, i, first, last) ==
    [pc |-> "load", list |-> list, m |-> m, i |-> i, first |-> first,
     last |-> last, old |-> NIL]

\* kupl_normal_free by any executor: the owner's part, or a push to the owner
FreeNormal(h, m, ptr) ==
    IF LastRef(h, ptr) /\ ~IsDirect(h, ptr) /\ IsRemote(h, m, ptr)
    THEN [h |-> Unref(h, ptr),
          push |-> PushOf("mem", <<m[1], h.desc[ptr - DescSize].eid>>, 0, ptr, ptr)]
    ELSE [h |-> NormalFree(h, m, ptr), push |-> Idle]

FreeFast(h, m, ptr) ==
    LET d     == h.fdesc[ptr]
        i     == d.index
        bin   == h.mem[m].fast[i]
        other == h.fdesc[bin.other].eid
        Kept(g) == [h |-> g, push |-> Idle]
        hp    == [h EXCEPT !.next = Put(@, ptr, bin.other), !.mem[m].fast[i].other = ptr]
    IN  IF i < 0 THEN FreeNormal(h, m, d.alloc)
        ELSE IF d.eid = m[2] THEN Kept(SvListPut(h, m, i, ptr))
        ELSE IF bin.other = NIL THEN Kept([hp EXCEPT !.mem[m].fast[i].tail = ptr])
        ELSE IF d.eid = other /\ bin.cnt < OtherLimit
        THEN Kept([hp EXCEPT !.mem[m].fast[i].cnt = @ + 1])
        ELSE [h |-> [h EXCEPT !.next = Put(@, ptr, NIL),
                              !.mem[m].fast[i] = [@ EXCEPT !.other = ptr, !.tail = ptr,
                                                           !.cnt = 1]],
              push |-> PushOf("fast", <<m[1], other>>, i, bin.other, bin.tail)]

\* kupl_fast_cleanup: every listed buffer gives its reference back to the block
FastCleanup(h, m) ==
    LET Listed(i) == LET b == h.mem[m].fast[i]
                     IN  Chain(h, b.self) \o Chain(h, b.sync) \o Chain(h, b.other)
        Back(g, p) == NormalFree(g, <<m[1], g.fdesc[p].eid>>, g.fdesc[p].alloc)
    IN  FoldLeft(Back, h, FlattenSeq([i \in FastIndex |-> Listed(i)]))

\* kupl_normal_cleanup: chunks that are whole again go back to the system
NormalCleanup(h, m) ==
    LET h0    == SyncListDequeue(h, m)
        whole == SelectSeq(FlattenSeq(h0.mem[m].bins), LAMBDA a : h0.desc[a].size = WholeChunk)
        Give(g, a) == MemoryMunmap(CountDown(ListDel(g, m, a), m, g.desc[a].bin), a)
    IN  FoldLeft(Give, h0, whole)

Pools(kind) == SetToSeq({kind} \X Executors)

\* kupl_memory_fini: fast before normal, DDR before high bandwidth
MemoryFini(h) ==
    LET Clean(g, kind) == FoldLeft(NormalCleanup, FoldLeft(FastCleanup, g, Pools(kind)),
                                   Pools(kind))
    IN  FoldLeft(Clean, h, <<"ddr", "hbw">>)

(***************************************************************************)
(* Actions.                                                                *)
(***************************************************************************)
InitStages == {"hbw", "memory", "pin_map", "pin_map_lock", "none"}

\* kupl_mpool_init: `failed' is the step that fails
MpoolInit(failed) ==
    /\ phase = "off"
    /\ failed \in {"pin_map", "pin_map_lock"} => scenario.sdma
    /\ heap' = [heap EXCEPT !.hbw = @ \/ failed # "hbw",
                            !.sdma = IF failed = "hbw" THEN @ ELSE scenario.sdma]
    /\ phase' = IF failed = "none" THEN "up" ELSE "off"
    /\ UNCHANGED <<scenario, held, push, allocs>>

\* kupl_memory_alloc_inner refuses a size of zero, kupl_memory_hbw_alloc_inner
\* does not look at it
MemoryAlloc(h, m, size) ==
    IF size = 0 /\ m[1] = "ddr" THEN [h |-> h, ptr |-> NIL] ELSE FastAlloc(h, m, size, FALSE)

\* kupl_mpool_malloc_hugepages_inner: whole huge pages
MallocHugepages(h, m, size) == FastAlloc(h, m, AlignUp(size, HugePage), TRUE)

\* the result of an allocation goes to the user
Handed(r, kind, usable) ==
    /\ heap' = r.h
    /\ held' = IF r.ptr = NIL THEN held ELSE Put(held, r.ptr, [kind |-> kind, size |-> usable])

\* an allocation by the thread of executor e; the user may use all of a huge page
KuplMalloc(e, kind, size, win) ==
    /\ phase = "up" /\ push[e] = Idle
    /\ allocs < scenario.allocs
    /\ allocs' = allocs + 1
    /\ IF win THEN Handed(MallocHugepages(heap, <<kind, e>>, size), kind, AlignUp(size, HugePage))
              ELSE Handed(MemoryAlloc(heap, <<kind, e>>, size), kind, size)
    /\ UNCHANGED <<scenario, push, phase>>

\* kupl_memory_free_inner, kupl_memory_hbw_free_inner: the freeing executor's pool
MemoryFree(h, e, kind, ptr) == FreeFast(h, <<kind, e>>, ptr)

KuplFree(e, ptr) ==
    LET r == MemoryFree(heap, e, held[ptr].kind, ptr)
    IN  /\ phase = "up" /\ push[e] = Idle
        /\ heap' = r.h
        /\ push' = [push EXCEPT ![e] = r.push]
        /\ held' = Drop(held, ptr)
        /\ UNCHANGED <<scenario, allocs, phase>>

Listed(p) == IF p.list = "mem" THEN heap.mem[p.m].sync ELSE heap.mem[p.m].fast[p.i].sync

\* the head is read and the last buffer linked to it ...
PushLoad(e) ==
    LET p == push[e]
    IN  /\ p.pc = "load"
        /\ heap' = [heap EXCEPT !.next = Put(@, p.last, Listed(p))]
        /\ push' = [push EXCEPT ![e].pc = "cas", ![e].old = Listed(p)]
        /\ UNCHANGED <<scenario, held, allocs, phase>>

\* the swap without the comparison
PushCasMutant(e) ==
    LET p == push[e]
    IN  /\ p.pc = "cas"
        /\ heap' = IF p.list = "mem"
                   THEN [heap EXCEPT !.mem[p.m].sync = p.first]
                   ELSE [heap EXCEPT !.mem[p.m].fast[p.i].sync = p.first]
        /\ push' = [push EXCEPT ![e] = Idle]
        /\ UNCHANGED <<scenario, held, allocs, phase>>

\* ... before a weak compare and swap, which may also fail for no reason
PushCas(e) ==
    LET p == push[e]
    IN  /\ p.pc = "cas"
        /\ \/ /\ Listed(p) = p.old
              /\ heap' = IF p.list = "mem"
                         THEN [heap EXCEPT !.mem[p.m].sync = p.first]
                         ELSE [heap EXCEPT !.mem[p.m].fast[p.i].sync = p.first]
              /\ push' = [push EXCEPT ![e] = Idle]
           \/ /\ push' = [push EXCEPT ![e].pc = "load"]
              /\ heap' = heap
        /\ UNCHANGED <<scenario, held, allocs, phase>>

\* kupl_mlock and kupl_munlock called by the user on memory he holds
UserMlock(ptr, count, okPin, okUnpin) ==
    /\ phase = "up" /\ heap.sdma
    /\ heap' = Mlock(heap, ptr, count, okPin, okUnpin)
    /\ UNCHANGED <<scenario, held, push, allocs, phase>>

UserMunlock(ptr, count, okUnpin) ==
    /\ phase = "up" /\ heap.sdma
    /\ heap' = Munlock(heap, ptr, count, okUnpin)
    /\ UNCHANGED <<scenario, held, push, allocs, phase>>

\* kupl_mpool_fini drops the pin map before the pools
MpoolFini ==
    /\ phase = "up" /\ \A e \in Executors : push[e] = Idle
    /\ heap' = [MemoryFini([heap EXCEPT !.sdma = FALSE, !.pin = <<>>]) EXCEPT !.hbw = FALSE]
    /\ phase' = "down"
    /\ UNCHANGED <<scenario, held, push, allocs>>

Init == /\ scenario \in Scenarios
        /\ heap = InitHeap
        /\ held = <<>>
        /\ push = [e \in Executors |-> Idle]
        /\ allocs = 0
        /\ phase = "off"

Next ==
    \/ \E failed \in InitStages : MpoolInit(failed)
    \/ MpoolFini
    \/ \E e \in scenario.by, kind \in scenario.kinds :
          \/ \E size \in scenario.sizes : KuplMalloc(e, kind, size, FALSE)
          \/ \E size \in scenario.windows : KuplMalloc(e, kind, size, TRUE)
    \/ \E e \in Executors, ptr \in DOMAIN held : KuplFree(e, ptr)
    \/ \E e \in Executors : PushLoad(e) \/ PushCas(e)
    \/ \E ptr \in DOMAIN held, count \in scenario.pins, okPin, okUnpin \in BOOLEAN :
          UserMlock(ptr, count, okPin, okUnpin)
    \/ \E ptr \in DOMAIN held, count \in scenario.pins, okUnpin \in BOOLEAN :
          UserMunlock(ptr, count, okUnpin)

Spec == Init /\ [][Next]_vars

(***************************************************************************)
(* Properties.                                                             *)
(***************************************************************************)
Mapped(r) == heap.maps[r] # 0
Start(r) == r * Stride
IsChunk(r) == Mapped(r) /\ Start(r) \in DOMAIN heap.desc /\ heap.desc[Start(r)].bin > 0
AbsSize(a) == IF heap.desc[a].size < 0 THEN -heap.desc[a].size ELSE heap.desc[a].size

\* the descriptors met when a chunk is walked from its start to its dummy
Walk(r) ==
    LET end == Start(r) + WholeChunk
        w[n \in 0 .. Chunk, a \in Start(r) .. Start(r) + Stride] ==
            IF n = 0 \/ a >= end THEN <<a>> ELSE <<a>> \o w[n - 1, a + AbsSize(a)]
    IN  w[Chunk, Start(r)]

ListsOf(a) == {<<m, i, k>> \in (Kinds \X Executors) \X Bins \X (1 .. 4 * Chunk) :
                   k <= Len(heap.mem[m].bins[i]) /\ heap.mem[m].bins[i][k] = a}

\* Splitting, reusing, merging and releasing buffers never loses a byte of a
\* chunk: the descriptors of kupl_normal_travel_list and kupl_normal_free tile
\* it exactly, a descriptor is free iff it is in one free list of its owner, in
\* the bin of its size, and prev_free is 0 or the size of a free buffer before it.
BoundaryTags ==
    /\ \A r \in 1 .. Regions : IsChunk(r) =>
        LET w == Walk(r)
        IN  /\ w[Len(w)] = Start(r) + WholeChunk
            /\ \A k \in 1 .. Len(w) - 1 :
                 LET a == w[k]
                     d == heap.desc[a]
                 IN  IF d.size > 0
                     THEN \E m \in Kinds \X Executors, i \in Bins :
                            /\ \E k2 \in DOMAIN heap.mem[m].bins[i] :
                                 ListsOf(a) = {<<m, i, k2>>}
                            /\ m[2] = d.eid /\ d.bin = i /\ MemBins[i] <= d.size
                            /\ \A j \in Bins : MemBins[j] <= d.size => j <= i
                     ELSE ListsOf(a) = {}
            /\ \A k \in 2 .. Len(w) :
                 LET before == heap.desc[w[k]].prev
                 IN  before = 0 \/ before = heap.desc[w[k - 1]].size
    /\ \A m \in Kinds \X Executors, i \in Bins : \A k \in DOMAIN heap.mem[m].bins[i] :
          Mapped(heap.mem[m].bins[i][k] \div Stride)

FastLists == (Kinds \X Executors) \X FastIndex \X {"self", "sync", "other"}
InPush(ptr) ==
    {e \in Executors : /\ push[e] # Idle /\ push[e].list = "fast"
                       /\ \E k \in 1 .. 4 * Chunk :
                             LET c == Chain([heap EXCEPT !.next = Put(@, push[e].last, NIL)],
                                            push[e].first)
                             IN  k <= Len(c) /\ c[k] = ptr}
InLists(ptr) ==
    UNION {{<<l, k>> : k \in {n \in 1 .. Len(Chain(heap, heap.mem[l[1]].fast[l[2]][l[3]])) :
                Chain(heap, heap.mem[l[1]].fast[l[2]][l[3]])[n] = ptr}} : l \in FastLists}

\* A small buffer is always in exactly one place: with a user, once in one of
\* the lists self, sync and other of one executor, or on its way to its owner's
\* sync list, however pushes with CAS (kupl_fast_free) and the owner's take of
\* the whole list (kupl_fast_alloc) interleave.
BufferInOnePlace ==
    phase = "up" => \A ptr \in {p \in DOMAIN heap.fdesc : heap.fdesc[p].index > 0} :
        LET block == heap.fdesc[ptr].alloc - DescSize
        IN  /\ Cardinality(InLists(ptr)) + Cardinality(InPush(ptr))
                 + (IF ptr \in DOMAIN held THEN 1 ELSE 0) = 1
            /\ heap.desc[block].size < 0

\* Buffers handed out do not overlap and lie in mapped memory.
HeldDisjoint ==
    phase = "up" => \A p \in DOMAIN held :
        /\ Mapped(p \div Stride)
        /\ \A q \in DOMAIN held : p < q => p + held[p].size <= q
        /\ LET b == heap.fdesc[p].alloc - DescSize
           IN  heap.desc[b].bin < 0 \/ b - heap.desc[b].size >= p + held[p].size

\* g_pin_map says what the device holds, also when the device refuses to pin or
\* to unpin in the middle of kupl_mlock, kupl_munlock.
PinMapTrue == phase = "up" => heap.pin = heap.dev
=============================================================================
