------------------------- MODULE MCTaskGraphFindings -------------------------
(* A small program on which the code departs from its documentation.        *)
EXTENDS TaskPrograms

\* a predecessor finishes between the insertion and the counting of the edge
LostTask == {Together(<<Add(1, <<Dep("a", "OUT")>>), Add(2, <<Dep("a", "IN")>>), Wait>>)}

=============================================================================
