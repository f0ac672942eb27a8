----------------------------- MODULE MCTaskGraph -----------------------------
(* One executor that runs tasks only inside its own calls; three executors   *)
(* with conflicting tasks separated by kupl_graph_wait, with a static graph, *)
(* and with readers behind a writer or an ALL task whose edges are made      *)
(* while the predecessor may already be finishing.                           *)
EXTENDS TaskPrograms

DepLists ==
    {<<>>, <<Dep("b", "ALL")>>}
    \cup {<<Dep("a", ty)>> : ty \in {"IN", "OUT"}}
    \cup {<<Dep("a", ty), Dep("b", uy)>> : ty \in {"IN", "INOUT"}, uy \in {"IN", "OUT"}}

\* no task without dependencies before an ALL task, which does not wait for it
Ordered(d1, d2) == (\E y \in Elems(d2) : IsAll(y)) => d1 # <<>>

\* a refused submission comes last: it blocks what follows it
Last == DepLists \cup {<<Dep("a", "IN"), Dep("b", "BAD")>>}

\* every combination of dependency lists over two addresses, one executor
Sequential ==
    {Alone(<<Add(1, d[1]), Add(2, d[2]), Test, Add(3, d[3]), Wait, Destroy>>)
        : d \in {d \in DepLists \X DepLists \X Last :
                   Ordered(d[1], d[2]) /\ Ordered(d[1], d[3]) /\ Ordered(d[2], d[3])}}

Phased ==
    {Together(<<Add(1, <<Dep("a", "OUT")>>), Add(2, <<Dep("b", "OUT")>>), Wait,
                Add(3, <<Dep("a", "INOUT"), Dep("b", "IN")>>), Add(4, <<Dep("c", "IN")>>), Wait, Destroy>>),
     Together(<<Add(1, <<Dep("a", "OUT")>>), Wait, Add(2, <<Dep("b", "ALL")>>), Add(3, <<>>), Wait,
                Add(4, <<Dep("c", "IN")>>), Wait, Destroy>>)}

\* a static diamond run twice; its nodes are not freed
Rounds == {Together(Diamond \o <<Run(9), Wait, Run(10), Wait, Destroy>>)}

\* one executor destroys the static graph right after the wait
Destroyed == {Alone(<<Node(5), Node(6), Edge(5, 6), Run(9), Wait, SDestroy, Destroy>>)}

Racing ==
    {Together(<<Add(1, d[1]), Add(2, d[2]), Add(3, d[3]), Wait, Destroy>>)
        : d \in {<< <<Dep("a", "OUT")>>, <<Dep("a", "IN")>>, <<Dep("a", "IN")>> >>,
                 << <<Dep("b", "ALL")>>, <<Dep("a", "IN")>>, <<>> >>,
                 << <<Dep("a", "IN")>>, <<Dep("a", "IN")>>, <<Dep("b", "OUT")>> >>}}
    \cup {Together(<<Add(1, <<Dep("a", "OUT")>>), Add(2, <<Dep("a", "IN")>>), Wait,
                     Add(3, <<Dep("a", "OUT")>>), Wait, Destroy>>)}

MCPrograms == Sequential \cup Phased \cup Rounds \cup Destroyed \cup Racing
=============================================================================
