----------------------------- MODULE LoopRanges -----------------------------
(***************************************************************************)
(* How a parallel loop is cut: the checks of mt/kupl_check.cpp and the     *)
(* range arithmetic of mt/kupl_parallel_for.cpp.  A range is a sequence of *)
(* dimensions [lower, upper, step, block]; the empty sequence stands for   *)
(* the null pointer (a loop without a range).  Bounds are 64 bit integers  *)
(* in the code; here they wrap at IntMax.                                  *)
(***************************************************************************)
EXTENDS Integers, Sequences, FiniteSets, SequencesExt

CONSTANTS IntMax        \* INT64_MAX, scaled down

IntMin == -IntMax - 1
MaxChunk == IntMax - 1
MaxDim == 3

Least(a, b) == IF a < b THEN a ELSE b
Greatest(a, b) == IF a > b THEN a ELSE b
Wrap(x) == ((x - IntMin) % (2 * (IntMax + 1))) + IntMin

\* division of C, which rounds towards zero, and kupl_divup on top of it
CDiv(a, b) == LET Abs(x) == IF x < 0 THEN -x ELSE x
                  q == Abs(a) \div Abs(b)
              IN  IF (a < 0) = (b < 0) THEN q ELSE -q
DivUp(a, b) == CDiv(a + b - 1, b)

(***************************************************************************)
(* kupl_check_range: one dimension, and the normalised block sizes.        *)
(***************************************************************************)
BlockOf(d, policy) == IF policy = "static" \/ d.block = 0 THEN 1 ELSE d.block
Normalise(range, policy) ==
    [i \in DOMAIN range |-> [range[i] EXCEPT !.block = BlockOf(range[i], policy)]]

DimensionOK(d, policy) ==
    LET size == d.step * d.block
    IN  /\ d.step > 0 => d.lower < d.upper
        /\ d.step < 0 => d.upper < d.lower
        /\ d.step # 0
        /\ policy # "static" =>
              /\ CDiv(MaxChunk, d.block) >= (IF d.step > 0 THEN d.step ELSE -d.step)
              /\ size > 0 => IntMax - size >= d.upper
              /\ size < 0 => IntMin - size <= d.upper
        /\ d.step > 0 => /\ ~(d.upper >= 0 /\ d.lower < 0 /\ d.upper > IntMax + d.lower)
                         /\ d.upper - d.lower - 1 <= IntMax - size
        /\ d.step < 0 => /\ ~(d.lower >= 0 /\ d.upper < 0 /\ d.lower > IntMax + d.upper)
                         /\ d.lower - d.upper <= IntMax - (-size - 1)

\* the whole check, on a normalised range
CheckRange(range, policy) ==
    LET left == FoldLeft(LAMBDA r, d : CDiv(r, DivUp(d.upper - d.lower, d.step * d.block)),
                         MaxChunk, range)
    IN  /\ Len(range) \in 1 .. MaxDim
        /\ \A i \in DOMAIN range : DimensionOK(range[i], policy)
        /\ left # 0

(***************************************************************************)
(* kupl_calc_chunk_info: chunk size and number of chunks per dimension.    *)
(***************************************************************************)
ChunkSize(d) == d.step * d.block
Chunks(d) == IF ChunkSize(d) > 0 THEN DivUp(d.upper - d.lower, ChunkSize(d))
                                 ELSE DivUp(d.lower - d.upper, -ChunkSize(d))
TotalChunks(range) == FoldLeft(LAMBDA n, d : n * Chunks(d), 1, range)

\* kupl_parallel_for_num_threads; groupSize 0 stands for "no group given"
NumThreads(range, concurrency, groupSize, kernelConcurrency) ==
    LET Chunked(d) == IF d.lower < d.upper THEN DivUp(d.upper - d.lower, d.block * d.step)
                                           ELSE DivUp(d.lower - d.upper, -d.block * d.step)
        chunks == FoldLeft(LAMBDA n, d : n * Chunked(d), 1, range)
        byRange == IF range = <<>> THEN concurrency ELSE Least(concurrency, chunks)
        byGroup == IF groupSize = 0 THEN byRange ELSE Least(byRange, groupSize)
    IN  Least(byGroup, kernelConcurrency)

\* an upper bound clipped to the end of the loop, in the direction of the loop
Clip(size, upper, bound) == IF size > 0 THEN Least(bound, upper) ELSE Greatest(bound, upper)

\* kupl_static_policy_impl: the share of thread tid of a one dimensional loop
StaticRange(range, tid, tnum) ==
    LET d == range[1]
        size == ChunkSize(d)
        base == TotalChunks(range) \div tnum
        remain == Chunks(d) % tnum
        first == d.lower + tid * size * base
    IN  <<[d EXCEPT !.lower = Wrap(first + Least(remain, tid) * size),
                    !.upper = Clip(size, d.upper,
                                   Wrap(first + size * base + Least(remain, tid + 1) * size))]>>

\* get_max_range_dim: the first dimension with the most steps
MaxRangeDim(range) ==
    LET steps == [i \in DOMAIN range |-> DivUp(range[i].upper - range[i].lower, range[i].step)]
        Longer(best, i) == IF steps[i] > best.steps THEN [dim |-> i, steps |-> steps[i]] ELSE best
    IN  FoldLeftDomain(Longer, [dim |-> 1, steps |-> 0], range).dim

\* divide_range: halve the threads, and the longest dimension with them, until
\* one thread is left.  The cut is computed on the whole range, as in the code.
DivideRange(range, tid, tnum) ==
    LET Cut(s, dim, left) ==
            LET d == range[dim]
                chunks == (DivUp(d.upper - d.lower, ChunkSize(d)) \div s.n) * left
                mid == d.lower + chunks * ChunkSize(d)
            IN  IF s.head + left > tid
                THEN [range |-> [s.range EXCEPT ![dim].upper = mid], head |-> s.head, n |-> left]
                ELSE [range |-> [s.range EXCEPT ![dim].lower = mid],
                      head |-> s.head + left, n |-> s.n - left]
        Halve(given, ignore) ==      \* through a set, so that TLC evaluates `given` once
            CHOOSE r \in {IF s.n = 1 THEN s ELSE Cut(s, MaxRangeDim(s.range), s.n \div 2) : s \in {given}} : TRUE
    IN  FoldLeft(Halve, [range |-> range, head |-> 0, n |-> tnum], [i \in 1 .. tnum |-> i]).range

\* kupl_compute_chunk_range: chunk number `chunk`, the last dimension fastest
ChunkRange(range, chunk) ==
    LET n == Len(range)
        \* chunks of the dimensions after i
        After(i) == TotalChunks(SubSeq(range, i + 1, n))
        Cut(i) == LET d == range[i]
                      low == Wrap(d.lower + ((chunk \div After(i)) % Chunks(d)) * ChunkSize(d))
                  IN  [d EXCEPT !.lower = low,
                                !.upper = Clip(ChunkSize(d), d.upper, Wrap(low + ChunkSize(d)))]
    IN  [i \in 1 .. n |-> Cut(i)]

\* kupl_dynamic_policy_prepare_common: the chunks each thread starts with
ChunkIndex(range, tnum) ==
    LET per == TotalChunks(range) \div tnum
        remain == TotalChunks(range) % tnum
        Bound(i) == i * per + Least(i * per, remain)
    IN  [i \in 0 .. tnum - 1 |-> [value |-> Bound(i), target |-> Bound(i + 1)]]

\* task_policy_loop_func: the range of task number id
TaskRange(range, id) ==
    LET d == range[1]
    IN  <<[d EXCEPT !.lower = Wrap(d.lower + id * ChunkSize(d)),
                    !.upper = Least(d.upper, Wrap(d.lower + (id + 1) * ChunkSize(d)))]>>

\* the iterations a user's function makes over a range
DimValues(d) ==
    IF d.step > 0 THEN {i \in d.lower .. d.upper - 1 : (i - d.lower) % d.step = 0}
                  ELSE {i \in d.upper + 1 .. d.lower : (d.lower - i) % (-d.step) = 0}
Iterations(range) ==
    UNION {{t \in [DOMAIN r -> UNION {DimValues(r[i]) : i \in DOMAIN r}] :
               \A i \in DOMAIN r : t[i] \in DimValues(r[i])} : r \in {range}}
=============================================================================
