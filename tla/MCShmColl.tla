------------------------------ MODULE MCShmColl ------------------------------
(* One to six ranks.  Each collective is called twice in a row (the second   *)
(* call reuses the flags, counters and buffers of the first), with each      *)
(* algorithm, power of two sizes and others, roots other than 0, and counts  *)
(* that do not divide evenly.                                                *)
EXTENDS ShmColl

P(size, fence, calls) == [size |-> size, fence |-> fence, calls |-> calls]
FenceOn(w) == [kind |-> "fence", win |-> w]
Pairs(w, peers) == [kind |-> "peer", win |-> w, peers |-> peers]
InitOf(q) == [kind |-> "init", req |-> q]
Start(q, no, settle) == [kind |-> "start", req |-> q, no |-> no, settle |-> settle]
FreeOf(q) == [kind |-> "free", req |-> q]

Bcast(id, algo, root, count, pos) ==
    [id |-> id, coll |-> "bcast", algo |-> algo, count |-> count, root |-> root, recv |-> <<"a", pos>>, send |-> <<>>]
Coll(coll, algo, count, w, pos) ==
    [id |-> 1, coll |-> coll, algo |-> algo, count |-> count, root |-> 0, send |-> <<"a", 0>>, recv |-> <<w, pos>>]

Twice(q) == <<InitOf(q), Start(q, 1, FALSE), Start(q, 2, FALSE)>>
TwiceSettled(q) == <<InitOf(q), Start(q, 1, TRUE), Start(q, 2, TRUE)>>
Fences(n) == [i \in 1 .. n |-> FenceOn("a")]

MCPrograms ==
    {\* the fences alone: both algorithms, all shapes of the recursive doubling
     P(3, "1", Fences(4)), P(2, "", Fences(5)), P(3, "", Fences(5)), P(4, "", Fences(4)),
     P(5, "", Fences(2)), P(6, "", Fences(1)),
     P(3, "", <<Pairs("a", 0 :> 1 @@ 1 :> 0), FenceOn("a"), Pairs("a", 1 :> 2 @@ 2 :> 1),
                Pairs("a", 0 :> 2 @@ 2 :> 0), FenceOn("a"), Pairs("a", 1 :> 2 @@ 2 :> 1)>>),
     \* broadcast
     P(3, "1", Twice(Bcast(1, "linear", 1, 2, 2))),
     P(3, "1", Twice(Bcast(1, "linear_opt", 2, 4, 0))),
     P(3, "1", Twice(Bcast(1, "auto", 1, 3, 1))),
     P(4, "1", TwiceSettled(Bcast(1, "topo", 0, 2, 0))),
     P(3, "1", Twice(Bcast(1, "topo", 2, 2, 0))),
     P(3, "1", TwiceSettled(Bcast(1, "topo_opt", 0, 4, 0))),
     P(4, "1", <<InitOf(Bcast(1, "topo_opt", 0, 4, 0)), Start(Bcast(1, "topo_opt", 0, 4, 0), 1, TRUE)>>),
     P(3, "1", TwiceSettled(Bcast(1, "scatter", 1, 4, 0))),
     P(2, "", Twice(Bcast(1, "ring", 0, 5, 0)) \o <<FreeOf(Bcast(1, "ring", 0, 5, 0))>>
                  \o Twice(Bcast(1, "linear", 1, 2, 4))),
     \* allreduce
     P(3, "1", Twice(Coll("allreduce", "linear", 2, "b", 0))),
     P(2, "", Twice(Coll("allreduce", "auto", 3, "a", 4))),
     P(3, "", Twice(Coll("allreduce", "auto", 3, "b", 0))),
     P(4, "1", Twice(Coll("allreduce", "auto", 4, "a", 4))),
     P(5, "1", <<InitOf(Coll("allreduce", "auto", 2, "a", 4)), Start(Coll("allreduce", "auto", 2, "a", 4), 1, FALSE)>>),
     P(1, "", Twice(Coll("allreduce", "linear", 2, "b", 0)) \o <<InitOf(Bcast(2, "linear", 3, 1, 0))>>),
     \* alltoall
     P(3, "1", Twice(Coll("alltoall", "auto", 1, "b", 0))),
     P(3, "1", Twice(Coll("alltoall", "read", 1, "a", 4)))}
=============================================================================
