---------------------------- MODULE ExecutorGroup ----------------------------
(***************************************************************************)
(* Executor groups, src/src/executor/kupl_executor_group.cpp: what each    *)
(* call makes of the groups it is given. A group keeps the executors it    *)
(* was created with (def), the ones it has now (cur), the next one to hand *)
(* out, and the size its barrier was told.                                 *)
(***************************************************************************)
EXTENDS Integers, Sequences, FiniteSets, FiniteSetsExt

Null == -1   \* KUPL_EGROUP_ID_NULL

\* A group's executors, with the local id of each. Min and max are kept apart
\* from the set, as the code does: it looks at the ids between them only.
EmptyInfo(n) == [size |-> 0, min |-> n, max |-> 0, set |-> {}, lid |-> [e \in 0 .. n - 1 |-> Null]]

NoGroup == [alive |-> FALSE]

\* kupl_egroup_create refuses an id out of range and one given twice.
CreateOK(n, ids) ==
    /\ Len(ids) <= n
    /\ \A i \in DOMAIN ids : ids[i] \in 0 .. n - 1
    /\ \A i, j \in DOMAIN ids : ids[i] = ids[j] => i = j

DefInfo(n, ids) ==
    LET members == {ids[i] : i \in DOMAIN ids}
    IN  IF ids = <<>> THEN EmptyInfo(n)
        ELSE [size |-> Len(ids), min |-> Min(members), max |-> Max(members), set |-> members,
              lid |-> [e \in 0 .. n - 1 |-> IF e \in members THEN (CHOOSE i \in DOMAIN ids : ids[i] = e) - 1 ELSE Null]]

Create(n, ids) == LET info == DefInfo(n, ids)
                  IN  [alive |-> TRUE, next |-> 0, def |-> info, cur |-> info, barrier |-> info.size]

\* the members keep the ids they had in the other group
ShiftedLidMutant(dest, src, e) == src.lid[e]

\* The local ids of the executors that come go on where dest's end.
ShiftedLid(dest, src, e) == src.lid[e] + dest.size

\* kupl_egroup_add: all executors of src go to dest, src is left empty.
AddTo(dest, src) ==
    IF src.size = 0 THEN dest
    ELSE [size |-> dest.size + src.size,
          min |-> Min({dest.min, src.min}), max |-> Max({dest.max, src.max}),
          set |-> dest.set \cup src.set,
          lid |-> [e \in DOMAIN dest.lid |->
                      IF e \in src.min .. src.max /\ src.lid[e] # Null THEN ShiftedLid(dest, src, e) ELSE dest.lid[e]]]

AddFrom(src) == IF src.size = 0 THEN src ELSE EmptyInfo(Cardinality(DOMAIN src.lid))

\* kupl_egroup_borrow and kupl_egroup_return differ in the lock they take.
Move(groups, dest, src) ==
    LET d == AddTo(groups[dest].cur, groups[src].cur)
    IN  [groups EXCEPT ![dest].cur = d, ![dest].barrier = d.size, ![src].cur = AddFrom(@)]

\* kupl_egroup_get_next: the position moves on round the group.
GetNext(g) == IF g.cur.size = 0 THEN g ELSE [g EXCEPT !.next = (@ + 1) % g.cur.size]

\* kupl_egroup_reset brings back the executors, and neither the position nor
\* the size of the barrier.
Reset(g) == [g EXCEPT !.cur = g.def]

InfoWellFormed(info) ==
    /\ info.size = Cardinality(info.set)
    /\ \A e \in DOMAIN info.lid : info.lid[e] # Null <=> e \in info.set
    /\ {info.lid[e] : e \in info.set} = 0 .. info.size - 1
    /\ info.set # {} => info.min = Min(info.set) /\ info.max = Max(info.set)
=============================================================================
