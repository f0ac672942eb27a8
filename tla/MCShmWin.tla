------------------------------- MODULE MCShmWin -------------------------------
(* Two ranks, and three where a failure has to hit the second attachment.    *)
(* Every transport without failures; posix and xpmem with a failure at any   *)
(* step; sls with a refused buffer that is tried again.                      *)
EXTENDS ShmWin

Base0 == [ranks |-> {0, 1}, type |-> "auto", xpmem |-> "ok", sls |-> "ok", contig |-> FALSE, hugepage |-> FALSE,
          hbw |-> FALSE, mpool |-> FALSE, size |-> 1, faults |-> 0, intMax |-> 2, calls |-> <<>>]
Comm == <<"comm">>
User(i) == <<i, "user">>
Destroy == <<"destroy">>
WindowLife == <<Comm, <<"alloc", User(1)>>, <<"alloc", User(2)>>, <<"free", User(1)>>, <<"alloc", User(3)>>, Destroy>>
RequestLife == <<Comm, <<"alloc", User(1)>>, <<"bcast_init", 8>>, <<"bcast_init", 9>>, <<"request_free", 8>>, Destroy>>
Short == <<Comm, <<"alloc", User(1)>>, <<"free", User(1)>>, Destroy>>

MCPrograms ==
    {[Base0 EXCEPT !.calls = WindowLife],
     [Base0 EXCEPT !.calls = RequestLife],
     [Base0 EXCEPT !.calls = Short, !.contig = TRUE],
     [Base0 EXCEPT !.calls = Short, !.size = 0, !.type = "xpmem", !.xpmem = "absent"],
     [Base0 EXCEPT !.calls = Short, !.size = 3],
     [Base0 EXCEPT !.calls = WindowLife, !.type = "xpmem"],
     [Base0 EXCEPT !.calls = Short, !.type = "xpmem", !.xpmem = "fails"],
     [Base0 EXCEPT !.calls = Short, !.type = "sls", !.faults = 1],
     [Base0 EXCEPT !.calls = Short, !.type = "sls", !.hbw = TRUE],
     [Base0 EXCEPT !.calls = Short, !.type = "sls", !.mpool = TRUE, !.hugepage = TRUE],
     [Base0 EXCEPT !.calls = Short, !.type = "sls", !.sls = "fails"],
     \* failures
     [Base0 EXCEPT !.calls = Short, !.faults = 1],
     [Base0 EXCEPT !.calls = <<Comm, <<"alloc", User(1)>>>>, !.faults = 1, !.ranks = {0, 1, 2}],
     [Base0 EXCEPT !.calls = <<Comm, <<"bcast_init", 8>>, Destroy>>, !.faults = 1],
     [Base0 EXCEPT !.calls = Short, !.type = "xpmem", !.faults = 1]}
=============================================================================
