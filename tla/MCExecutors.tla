----------------------------- MODULE MCExecutors -----------------------------
(* Three executors brought up and taken down with a failure at any step and *)
(* a second attempt; two and three foreign threads that expand, up to and   *)
(* past what the machine allows, also with more executors than processors;  *)
(* groups that borrow from each other.                                      *)
EXTENDS Executors

Num == <<"executor_num">>
Fini == <<"fini">>
Base0 == [n |-> 2, pu |-> 6, availPu |-> 3, cpuSetSize |-> 8, faults |-> 0, calls |-> <<<<Num, Fini>>>>]
Borrowing == <<<<"create", 1, <<2, 0>>>>, <<"create", 2, <<1>>>>, <<"create", 3, <<1, 1>>>>, <<"create", 3, <<>>>>,
               <<"next", 1>>, <<"borrow", 1, 2>>, <<"next", 1>>, <<"next", 2>>, <<"borrow", 1, 3>>,
               <<"return", 2, 1>>, <<"reset", 1>>, <<"destroy", 2>>, Fini>>

MCPrograms ==
    {[Base0 EXCEPT !.n = 3, !.faults = 1, !.calls = <<<<Num, Num, Fini>>>>],
     [Base0 EXCEPT !.faults = 2, !.calls = <<<<Num, Num, Num, Fini>>>>],
     [Base0 EXCEPT !.n = 1, !.faults = 1, !.calls = <<<<Num, Fini>>, <<Num>>>>],
     [Base0 EXCEPT !.calls = <<<<Num, Fini>>, <<Num, Num>>, <<Num>>>>],
     [Base0 EXCEPT !.calls = <<<<Num, Fini>>, <<Num, Num>>, <<Num>>>>, !.faults = 1],
     \* the machine's limits: pools, queues, ids
     [Base0 EXCEPT !.calls = <<<<Num, Fini>>, <<Num>>, <<Num>>>>, !.pu = 4],
     [Base0 EXCEPT !.calls = <<<<Num, Fini>>, <<Num>>, <<Num>>>>, !.cpuSetSize = 3],
     \* more executors than available processors
     [Base0 EXCEPT !.n = 3, !.availPu = 2, !.calls = <<<<Num, Fini>>, <<Num, Num>>, <<Num>>>>],
     [Base0 EXCEPT !.n = 3, !.availPu = 1, !.pu = 2, !.faults = 1, !.calls = <<<<Num, Fini>>, <<Num>>, <<Num>>>>],
     [Base0 EXCEPT !.n = 3, !.calls = <<Borrowing, <<Num>>>>]}
=============================================================================
