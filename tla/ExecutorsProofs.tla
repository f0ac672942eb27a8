--------------------------- MODULE ExecutorsProofs ---------------------------
(***************************************************************************)
(* Module Executors for any machine, any number of executors and of threads*)
(* and any calls: the groups stay well formed; whichever step of kupl_init *)
(* fails nothing is left behind; and the threads the library did not start *)
(* have executors of their own.                                            *)
(***************************************************************************)
EXTENDS Executors, FiniteSetTheorems, SequenceTheorems, WellFoundedInduction, TLAPS

(***************************************************************************)
(* What kupl_egroup_borrow, _return and _reset leave to their caller: the   *)
(* groups exist, an executor is in one of the two groups only, and a group  *)
(* is reset only while its barrier still has room for the executors it was  *)
(* created with. kupl_egroup_reset does not tell the barrier, and a group   *)
(* that lent all its executors and then borrowed fewer has a smaller one.   *)
(***************************************************************************)
GroupCallOK(c) ==
    /\ c[2] \in GroupIds
    /\ c[1] = "create" => c[3] \in Seq(Int)
    /\ c[1] \in {"borrow", "return"} =>
          /\ c[3] \in GroupIds \ {c[2]}
          /\ groups[c[2]].alive /\ groups[c[3]].alive
          /\ groups[c[2]].cur.set \cap groups[c[3]].cur.set = {}
    /\ c[1] = "reset" => groups[c[2]].alive /\ groups[c[2]].def.size <= groups[c[2]].barrier
    /\ c[1] = "next" => groups[c[2]].alive

GroupCallsOK ==
    \A t \in App :
        todo[t] = <<>> /\ calls[t] # <<>> /\ Head(calls[t])[1] \in GroupOps /\ core.inited =>
            GroupCallOK(Head(calls[t]))

Eids(n) == 0 .. n - 1

Infos(n) == [size : Nat, min : Int, max : Int, set : SUBSET Eids(n), lid : [Eids(n) -> Int]]

\* Well formed, and the bounds of an empty group are neutral: those of a group
\* added to it replace them.
GoodInfo(n, info) ==
    /\ info \in Infos(n)
    /\ InfoWellFormed(info)
    /\ info.set = {} => info.min = n /\ info.max = 0

Groups(n) == [alive : {TRUE}, next : Int, def : Infos(n), cur : Infos(n), barrier : Nat]

GoodGroup(n, g) ==
    \/ g = NoGroup
    \/ /\ g \in Groups(n)
       /\ GoodInfo(n, g.def)
       /\ GoodInfo(n, g.cur)
       /\ g.cur.size <= g.barrier

\* The inductive invariant.
GroupsIInv ==
    /\ program \in Programs
    /\ DOMAIN groups = GroupIds
    /\ \A g \in GroupIds : GoodGroup(program.n, groups[g])

-----------------------------------------------------------------------------
\* Min is what min_eid is made to be: a member below all others.
LEMMA MinIs ==
    ASSUME NEW S \in SUBSET Int, NEW m \in S, \A x \in S : m <= x
    PROVE  Min(S) = m
<1>1. \A x \in S : (\A y \in S : x =< y) => x = m
  BY SMT
<1> QED
  BY <1>1, Zenon DEF Min

\* Max is what max_eid is made to be: a member above all others.
LEMMA MaxIs ==
    ASSUME NEW S \in SUBSET Int, NEW m \in S, \A x \in S : m >= x
    PROVE  Max(S) = m
<1>1. \A x \in S : (\A y \in S : x >= y) => x = m
  BY SMT
<1> QED
  BY <1>1, Zenon DEF Max

\* A set of numbers that is not empty has a least one.
LEMMA LeastExists ==
    ASSUME NEW S \in SUBSET Nat, S # {}
    PROVE  \E x \in S : \A y \in S : x <= y
<1>1. PICK x \in S : \A y \in S : ~ (<<y, x>> \in OpToRel(<, Nat))
  BY NatLessThanWellFounded, WFMin, Zenon
<1>2. \A y \in S : ~ (y < x)
  BY <1>1 DEF OpToRel
<1> QED
  BY <1>2

\* A set of executors that is not empty has a first and a last one, the bounds
\* that the loops over eid of kupl_executor_group.cpp run between.
LEMMA MinMaxExist ==
    ASSUME NEW n \in Nat, NEW S \in SUBSET Eids(n), S # {}
    PROVE  /\ Min(S) \in S /\ \A x \in S : Min(S) <= x
           /\ Max(S) \in S /\ \A x \in S : Max(S) >= x
<1>1. S \in SUBSET Nat /\ S \in SUBSET Int
  BY DEF Eids
<1>2. PICK a \in S : \A y \in S : a <= y
  BY <1>1, LeastExists
<1>3. Min(S) = a
  BY <1>1, <1>2, MinIs
<1> DEFINE T == {n - 1 - x : x \in S}
<1>4. T \in SUBSET Nat /\ T # {}
  BY DEF Eids
<1>5. PICK b \in T : \A y \in T : b <= y
  BY <1>4, LeastExists
<1>6. PICK c \in S : b = n - 1 - c
  BY <1>5
<1>7. \A y \in S : c >= y
  <2> SUFFICES ASSUME NEW y \in S PROVE c >= y
    OBVIOUS
  <2>1. b <= n - 1 - y
    BY <1>5
  <2> QED
    BY <2>1, <1>6, <1>1
<1>8. Max(S) = c
  BY <1>1, <1>7, MaxIs
<1> QED
  BY <1>2, <1>3, <1>7, <1>8

-----------------------------------------------------------------------------
\* An empty group is well formed (the state kupl_egroup_add leaves src in).
LEMMA EmptyGood ==
    ASSUME NEW n \in Nat
    PROVE  GoodInfo(n, EmptyInfo(n))
<1> DEFINE info == EmptyInfo(n)
<1>1. info \in Infos(n)
  BY DEF EmptyInfo, Infos, Null, Eids
<1>2. info.size = Cardinality(info.set)
  BY FS_EmptySet DEF EmptyInfo
<1>3. \A e \in DOMAIN info.lid : info.lid[e] # Null <=> e \in info.set
  BY DEF EmptyInfo
<1>4. {info.lid[e] : e \in info.set} = 0 .. info.size - 1
  BY DEF EmptyInfo
<1>5. info.set = {} /\ info.min = n /\ info.max = 0
  BY DEF EmptyInfo
<1> QED
  BY <1>1, <1>2, <1>3, <1>4, <1>5 DEF GoodInfo, InfoWellFormed

\* kupl_egroup_create: executors given once each get the local ids 0, 1, ...
\* in the order given, and the bounds are those of the list.
LEMMA CreateGood ==
    ASSUME NEW n \in Nat, NEW ids \in Seq(Int), CreateOK(n, ids)
    PROVE  GoodInfo(n, DefInfo(n, ids))
<1>1. CASE ids = <<>>
  BY <1>1, EmptyGood DEF DefInfo
<1>2. CASE ids # <<>>
  <2> DEFINE members == {ids[i] : i \in DOMAIN ids}
             info == DefInfo(n, ids)
             pos(e) == CHOOSE i \in DOMAIN ids : ids[i] = e
  <2>1. Len(ids) \in Nat \ {0} /\ DOMAIN ids = 1 .. Len(ids)
    BY <1>2
  <2>2. members \in SUBSET Eids(n) /\ members # {}
    BY <2>1 DEF CreateOK, Eids
  <2>3. \A e \in members : pos(e) \in DOMAIN ids /\ ids[pos(e)] = e
    OBVIOUS
  <2>4. \A i \in DOMAIN ids : ids[i] \in members /\ pos(ids[i]) = i
    <3> SUFFICES ASSUME NEW i \in DOMAIN ids PROVE ids[i] \in members /\ pos(ids[i]) = i
      OBVIOUS
    <3>1. ids[i] \in members
      OBVIOUS
    <3>2. pos(ids[i]) \in DOMAIN ids /\ ids[pos(ids[i])] = ids[i]
      BY <3>1, <2>3
    <3>3. \A j, k \in DOMAIN ids : ids[j] = ids[k] => j = k
      BY DEF CreateOK
    <3> HIDE DEF pos, members
    <3> QED
      BY <3>1, <3>2, <3>3
  <2>5. info = [size |-> Len(ids), min |-> Min(members), max |-> Max(members), set |-> members,
                lid |-> [e \in Eids(n) |-> IF e \in members THEN pos(e) - 1 ELSE Null]]
    BY <1>2 DEF DefInfo, Eids
  <2>6. Cardinality(members) = Len(ids)
    <3> DEFINE f == [i \in 1 .. Len(ids) |-> ids[i]]
    <3>1. f \in [1 .. Len(ids) -> members]
      BY <2>1
    <3>2. \A i, j \in 1 .. Len(ids) : f[i] = f[j] => i = j
      BY <2>1 DEF CreateOK
    <3>3. \A e \in members : \E i \in 1 .. Len(ids) : f[i] = e
      BY <2>1
    <3>4. f \in Bijection(1 .. Len(ids), members)
      BY <3>1, <3>2, <3>3 DEF Bijection, Injection, Surjection, IsInjective
    <3>5. ExistsBijection(1 .. Len(ids), members)
      BY <3>4 DEF ExistsBijection
    <3> QED
      BY <3>5, <2>1, FS_CountingElements
  <2>7. /\ Min(members) \in members /\ Max(members) \in members
    BY <2>2, MinMaxExist
  <2> HIDE DEF pos, members, info
  <2>8. info \in Infos(n)
    <3>1. \A e \in Eids(n) : (IF e \in members THEN pos(e) - 1 ELSE Null) \in Int
      BY <2>3, <2>1 DEF Null
    <3>2. Min(members) \in Int /\ Max(members) \in Int
      <4>1. Eids(n) \in SUBSET Int
        BY DEF Eids
      <4> QED
        BY <4>1, <2>2, <2>7, Zenon
    <3> QED
      BY <3>1, <3>2, <2>1, <2>2, <2>5 DEF Infos
  <2>9. \A e \in DOMAIN info.lid : info.lid[e] # Null <=> e \in info.set
    BY <2>1, <2>3, <2>5 DEF Null
  <2>10. {info.lid[e] : e \in info.set} = 0 .. info.size - 1
    <3>1. ASSUME NEW e \in members PROVE info.lid[e] \in 0 .. Len(ids) - 1
      BY <2>1, <2>2, <2>3, <2>5
    <3>2. ASSUME NEW k \in 0 .. Len(ids) - 1 PROVE \E e \in members : info.lid[e] = k
      <4>1. k + 1 \in DOMAIN ids
        BY <2>1
      <4>2. ids[k + 1] \in members /\ pos(ids[k + 1]) = k + 1
        BY <4>1, <2>4
      <4>3. info.lid[ids[k + 1]] = k
        BY <4>2, <2>2, <2>5
      <4> QED
        BY <4>2, <4>3
    <3>3. info.set = members /\ info.size = Len(ids)
      BY <2>5
    <3> QED
      BY <3>1, <3>2, <3>3
  <2>11. info.set # {} /\ info.size = Cardinality(info.set)
          /\ info.min = Min(info.set) /\ info.max = Max(info.set)
    BY <2>2, <2>5, <2>6
  <2>12. GoodInfo(n, info)
    BY <2>8, <2>9, <2>10, <2>11 DEF GoodInfo, InfoWellFormed
  <2> QED
    BY <2>12 DEF info
<1> QED
  BY <1>1, <1>2

\* kupl_egroup_add, the receiving side: two groups without a common executor
\* make one whose local ids are again 0 to size - 1.
LEMMA AddToGood ==
    ASSUME NEW n \in Nat, NEW dest, NEW src, GoodInfo(n, dest), GoodInfo(n, src),
           dest.set \cap src.set = {}
    PROVE  /\ GoodInfo(n, AddTo(dest, src))
           /\ AddTo(dest, src).size = dest.size + src.size
<1>a. dest \in Infos(n) /\ src \in Infos(n)
  BY DEF GoodInfo
<1>b. /\ dest.size \in Nat /\ src.size \in Nat /\ dest.set \in SUBSET Eids(n) /\ src.set \in SUBSET Eids(n)
      /\ dest.lid \in [Eids(n) -> Int] /\ src.lid \in [Eids(n) -> Int]
      /\ dest.min \in Int /\ dest.max \in Int /\ src.min \in Int /\ src.max \in Int
  BY <1>a DEF Infos
<1>c. IsFiniteSet(dest.set) /\ IsFiniteSet(src.set)
  <2>1. IsFiniteSet(Eids(n))
    BY FS_Interval DEF Eids
  <2> QED
    BY <2>1, <1>b, FS_Subset
<1>1. CASE src.size = 0
  BY <1>1, <1>b DEF AddTo
<1>2. CASE src.size # 0
  <2> DEFINE info == AddTo(dest, src)
             members == dest.set \cup src.set
             lo == Min({dest.min, src.min})
             hi == Max({dest.max, src.max})
  <2>1. src.set # {}
    BY <1>2, <1>c, FS_EmptySet DEF GoodInfo, InfoWellFormed
  <2>2. src.min = Min(src.set) /\ src.max = Max(src.set)
    BY <2>1 DEF GoodInfo, InfoWellFormed
  <2>3. \A e \in src.set : e \in src.min .. src.max
    <3>1. \A x \in src.set : Min(src.set) <= x /\ Max(src.set) >= x
      BY <2>1, <1>b, MinMaxExist
    <3>2. Eids(n) \in SUBSET Int
      BY DEF Eids
    <3> QED
      BY <3>1, <3>2, <2>2, <1>b
  <2>4. \A e \in Eids(n) : (src.lid[e] # Null <=> e \in src.set) /\ (dest.lid[e] # Null <=> e \in dest.set)
    BY <1>b DEF GoodInfo, InfoWellFormed
  <2>5. info = [size |-> dest.size + src.size, min |-> lo, max |-> hi, set |-> members,
                lid |-> [e \in Eids(n) |-> IF e \in src.set THEN src.lid[e] + dest.size ELSE dest.lid[e]]]
    <3>1. DOMAIN dest.lid = Eids(n)
      BY <1>b
    <3>2. \A e \in Eids(n) : e \in src.min .. src.max /\ src.lid[e] # Null <=> e \in src.set
      BY <2>3, <2>4
    <3>3. info = [size |-> dest.size + src.size, min |-> lo, max |-> hi, set |-> members,
                  lid |-> [e \in DOMAIN dest.lid |-> IF e \in src.min .. src.max /\ src.lid[e] # Null
                                                     THEN ShiftedLid(dest, src, e) ELSE dest.lid[e]]]
      BY <1>2 DEF AddTo
    <3>4. [e \in DOMAIN dest.lid |-> IF e \in src.min .. src.max /\ src.lid[e] # Null
                                     THEN ShiftedLid(dest, src, e) ELSE dest.lid[e]]
            = [e \in Eids(n) |-> IF e \in src.set THEN src.lid[e] + dest.size ELSE dest.lid[e]]
      BY <3>1, <3>2 DEF ShiftedLid
    <3> QED
      BY <3>3, <3>4
  <2>6. \A e \in src.set : src.lid[e] \in 0 .. src.size - 1
    BY DEF GoodInfo, InfoWellFormed
  <2>7. \A e \in dest.set : dest.lid[e] \in 0 .. dest.size - 1
    BY DEF GoodInfo, InfoWellFormed
  <2>8. \A k \in 0 .. src.size - 1 : \E e \in src.set : src.lid[e] = k
    <3>1. {src.lid[e] : e \in src.set} = 0 .. src.size - 1
      BY DEF GoodInfo, InfoWellFormed
    <3> QED
      BY <3>1
  <2>9. \A k \in 0 .. dest.size - 1 : \E e \in dest.set : dest.lid[e] = k
    <3>1. {dest.lid[e] : e \in dest.set} = 0 .. dest.size - 1
      BY DEF GoodInfo, InfoWellFormed
    <3> QED
      BY <3>1
  <2>10. Cardinality(members) = dest.size + src.size
    <3>1. Cardinality(members) = Cardinality(dest.set) + Cardinality(src.set) - Cardinality(dest.set \cap src.set)
      BY <1>c, FS_Union
    <3>2. Cardinality(dest.set) = dest.size /\ Cardinality(src.set) = src.size
      BY DEF GoodInfo, InfoWellFormed
    <3>3. Cardinality(dest.set \cap src.set) = 0
      BY FS_EmptySet
    <3> QED
      BY <3>1, <3>2, <3>3, <1>b
  <2>11. members \in SUBSET Eids(n) /\ members # {}
    BY <1>b, <2>1
  <2>12. lo = Min(members) /\ hi = Max(members) /\ lo \in Int /\ hi \in Int
    <3>0. Eids(n) \in SUBSET Int
      BY DEF Eids
    <3>1. /\ src.min \in src.set /\ \A x \in src.set : src.min <= x
          /\ src.max \in src.set /\ \A x \in src.set : src.max >= x
      BY <2>1, <2>2, <1>b, MinMaxExist
    <3>2. CASE dest.set = {}
      <4>1. dest.min = n /\ dest.max = 0
        BY <3>2 DEF GoodInfo
      <4>2. src.min <= dest.min /\ src.max >= dest.max
        BY <4>1, <3>1, <1>b DEF Eids
      <4>3. lo = src.min
        <5>1. \A x \in {dest.min, src.min} : src.min <= x
          BY <4>2, <1>b
        <5>2. {dest.min, src.min} \in SUBSET Int
          BY <1>b
        <5> QED
          BY <5>1, <5>2, MinIs
      <4>4. hi = src.max
        <5>1. \A x \in {dest.max, src.max} : src.max >= x
          BY <4>2, <1>b
        <5>2. {dest.max, src.max} \in SUBSET Int
          BY <1>b
        <5> QED
          BY <5>1, <5>2, MaxIs
      <4> QED
        BY <4>3, <4>4, <3>2, <2>2, <1>b
    <3>3. CASE dest.set # {}
      <4>1. dest.min = Min(dest.set) /\ dest.max = Max(dest.set)
        BY <3>3 DEF GoodInfo, InfoWellFormed
      <4>2. /\ dest.min \in dest.set /\ \A x \in dest.set : dest.min <= x
            /\ dest.max \in dest.set /\ \A x \in dest.set : dest.max >= x
        BY <3>3, <4>1, <1>b, MinMaxExist
      <4>3. PICK a \in {dest.min, src.min} : \A x \in {dest.min, src.min} : a <= x
        <5>1. CASE dest.min <= src.min
          BY <5>1, <1>b
        <5>2. CASE src.min <= dest.min
          BY <5>2, <1>b
        <5> QED
          BY <5>1, <5>2, <1>b
      <4>4. PICK b \in {dest.max, src.max} : \A x \in {dest.max, src.max} : b >= x
        <5>1. CASE dest.max >= src.max
          BY <5>1, <1>b
        <5>2. CASE src.max >= dest.max
          BY <5>2, <1>b
        <5> QED
          BY <5>1, <5>2, <1>b
      <4>5. lo = a /\ hi = b /\ a \in Int /\ b \in Int
        <5>1. {dest.min, src.min} \in SUBSET Int /\ {dest.max, src.max} \in SUBSET Int
          BY <1>b
        <5> QED
          BY <5>1, <4>3, <4>4, MinIs, MaxIs
      <4>6. a \in members /\ b \in members
        BY <4>2, <4>3, <4>4, <3>1
      <4>7. \A x \in members : a <= x
        BY <4>2, <4>3, <4>5, <3>1, <3>0, <1>b
      <4>8. \A x \in members : b >= x
        BY <4>2, <4>4, <4>5, <3>1, <3>0, <1>b
      <4>9. members \in SUBSET Int
        BY <3>0, <2>11
      <4>10. Min(members) = a
        BY <4>6, <4>7, <4>9, MinIs
      <4>11. Max(members) = b
        BY <4>6, <4>8, <4>9, MaxIs
      <4> QED
        BY <4>5, <4>10, <4>11
    <3> QED
      BY <3>2, <3>3
  <2> HIDE DEF info, members, lo, hi
  <2>13. info \in Infos(n)
    <3>1. \A e \in Eids(n) : (IF e \in src.set THEN src.lid[e] + dest.size ELSE dest.lid[e]) \in Int
      BY <1>b
    <3> QED
      BY <3>1, <2>5, <2>11, <2>12, <1>b DEF Infos
  <2>14. \A e \in DOMAIN info.lid : info.lid[e] # Null <=> e \in info.set
    <3> SUFFICES ASSUME NEW e \in Eids(n) PROVE info.lid[e] # Null <=> e \in members
      BY <2>5
    <3>1. CASE e \in src.set
      <4>1. info.lid[e] = src.lid[e] + dest.size
        BY <3>1, <2>5
      <4> QED
        BY <4>1, <3>1, <2>6, <1>b DEF Null, members
    <3>2. CASE e \notin src.set
      <4>1. info.lid[e] = dest.lid[e]
        BY <3>2, <2>5
      <4> QED
        BY <4>1, <3>2, <2>4 DEF members
    <3> QED
      BY <3>1, <3>2
  <2>15. {info.lid[e] : e \in info.set} = 0 .. info.size - 1
    <3>0. info.set = members /\ info.size = dest.size + src.size
      BY <2>5
    <3>1. ASSUME NEW e \in members PROVE info.lid[e] \in 0 .. dest.size + src.size - 1
      <4>1. e \in Eids(n)
        BY <2>11
      <4>2. info.lid[e] = IF e \in src.set THEN src.lid[e] + dest.size ELSE dest.lid[e]
        BY <4>1, <2>5
      <4>3. e \in src.set \/ e \in dest.set
        BY DEF members
      <4> QED
        BY <4>2, <4>3, <2>6, <2>7, <1>b
    <3>2. ASSUME NEW k \in 0 .. dest.size + src.size - 1 PROVE \E e \in members : info.lid[e] = k
      <4>1. CASE k < dest.size
        <5>1. k \in 0 .. dest.size - 1
          BY <4>1, <1>b
        <5>2. PICK e \in dest.set : dest.lid[e] = k
          BY <5>1, <2>9
        <5>3. e \notin src.set /\ e \in Eids(n)
          BY <1>b
        <5>4. info.lid[e] = k
          BY <5>2, <5>3, <2>5
        <5> QED
          BY <5>4 DEF members
      <4>2. CASE k >= dest.size
        <5>1. k - dest.size \in 0 .. src.size - 1
          BY <4>2, <1>b
        <5>2. PICK e \in src.set : src.lid[e] = k - dest.size
          BY <5>1, <2>8
        <5>3. e \in Eids(n)
          BY <1>b
        <5>4. info.lid[e] = k
          BY <5>2, <5>3, <2>5, <1>b
        <5> QED
          BY <5>4 DEF members
      <4> QED
        BY <4>1, <4>2, <1>b
    <3>3. {info.lid[e] : e \in info.set} \subseteq 0 .. info.size - 1
      BY <3>0, <3>1, <1>b
    <3>4. 0 .. info.size - 1 \subseteq {info.lid[e] : e \in info.set}
      BY <3>0, <3>2, <1>b
    <3> QED
      BY <3>3, <3>4, Zenon
  <2>16. /\ info.size = Cardinality(info.set) /\ info.size = dest.size + src.size
         /\ info.set # {} /\ info.min = Min(info.set) /\ info.max = Max(info.set)
    BY <2>5, <2>10, <2>11, <2>12
  <2>17. GoodInfo(n, info)
    BY <2>13, <2>14, <2>15, <2>16 DEF GoodInfo, InfoWellFormed
  <2> QED
    BY <2>16, <2>17 DEF info
<1> QED
  BY <1>1, <1>2

\* kupl_egroup_add, the giving side, is left empty.
LEMMA AddFromGood ==
    ASSUME NEW n \in Nat, NEW src, GoodInfo(n, src)
    PROVE  /\ GoodInfo(n, AddFrom(src))
           /\ AddFrom(src).size = 0
<1>1. DOMAIN src.lid = 0 .. n - 1
  BY DEF GoodInfo, Infos, Eids
<1>2. Cardinality(0 .. n - 1) = n
  BY FS_Interval
<1>3. CASE src.size = 0
  BY <1>3 DEF AddFrom
<1>4. CASE src.size # 0
  <2>1. AddFrom(src) = EmptyInfo(n)
    BY <1>1, <1>2, <1>4 DEF AddFrom
  <2>2. EmptyInfo(n).size = 0
    BY DEF EmptyInfo
  <2> QED
    BY <2>1, <2>2, EmptyGood
<1> QED
  BY <1>3, <1>4

-----------------------------------------------------------------------------
\* A call on groups that keeps the rules leaves every group well formed: one
\* step per call of kupl_executor_group.cpp.
LEMMA GroupResultGood ==
    ASSUME NEW c, GroupsIInv, c[1] \in GroupOps, GroupCallOK(c)
    PROVE  /\ DOMAIN GroupResult(c) = GroupIds
           /\ \A g \in GroupIds : GoodGroup(program.n, GroupResult(c)[g])
<1> DEFINE n == program.n
<1>1. n \in Nat /\ DOMAIN groups = GroupIds /\ \A g \in GroupIds : GoodGroup(n, groups[g])
  BY ExecutorsAssumption DEF GroupsIInv
<1>2. c[2] \in GroupIds
  BY DEF GroupCallOK
<1>3. ASSUME NEW x, GoodGroup(n, x), GroupResult(c) = [groups EXCEPT ![c[2]] = x]
      PROVE  /\ DOMAIN GroupResult(c) = GroupIds
             /\ \A g \in GroupIds : GoodGroup(program.n, GroupResult(c)[g])
  BY <1>1, <1>2, <1>3
<1>4. CASE c[1] = "create"
  <2>1. CASE ~CreateOK(n, c[3])
    <3>1. GroupResult(c) = groups
      BY <1>4, <2>1 DEF GroupResult
    <3> QED
      BY <3>1, <1>1
  <2>2. CASE CreateOK(n, c[3])
    <3> DEFINE info == DefInfo(n, c[3])
    <3>1. GroupResult(c) = [groups EXCEPT ![c[2]] = Create(n, c[3])]
      BY <1>4, <2>2 DEF GroupResult
    <3>2. c[3] \in Seq(Int)
      BY <1>4 DEF GroupCallOK
    <3>3. GoodInfo(n, info)
      BY <1>1, <2>2, <3>2, CreateGood
    <3>4. Create(n, c[3]) = [alive |-> TRUE, next |-> 0, def |-> info, cur |-> info, barrier |-> info.size]
      BY DEF Create
    <3>5. info \in Infos(n) /\ info.size \in Nat
      BY <3>3 DEF GoodInfo, Infos
    <3> HIDE DEF info
    <3>6. GoodGroup(n, Create(n, c[3]))
      BY <3>3, <3>4, <3>5 DEF GoodGroup, Groups
    <3> QED
      BY <3>1, <3>6, <1>3
  <2> QED
    BY <2>1, <2>2
<1>5. CASE c[1] = "destroy"
  <2>1. GroupResult(c) = [groups EXCEPT ![c[2]] = NoGroup]
    BY <1>5 DEF GroupResult
  <2>2. GoodGroup(n, NoGroup)
    BY DEF GoodGroup
  <2> QED
    BY <2>1, <2>2, <1>3
<1>6. CASE c[1] \in {"borrow", "return"}
  <2> DEFINE dest == groups[c[2]]
             src == groups[c[3]]
             d == AddTo(dest.cur, src.cur)
  <2>1. c[3] \in GroupIds /\ c[3] # c[2] /\ dest.alive /\ src.alive /\ dest.cur.set \cap src.cur.set = {}
    BY <1>6 DEF GroupCallOK
  <2>2. dest \in Groups(n) /\ src \in Groups(n)
    BY <2>1, <1>1, <1>2 DEF GoodGroup, NoGroup
  <2>3. dest # NoGroup /\ src # NoGroup
    BY <2>1 DEF NoGroup
  <2>4. /\ GoodInfo(n, dest.cur) /\ GoodInfo(n, dest.def) /\ GoodInfo(n, src.cur) /\ GoodInfo(n, src.def)
        /\ src.cur.size <= src.barrier
    BY <2>1, <2>3, <1>1, <1>2 DEF GoodGroup
  <2>5. GoodInfo(n, d)
    BY <2>4, <2>1, <1>1, AddToGood
  <2>6. GoodInfo(n, AddFrom(src.cur)) /\ AddFrom(src.cur).size = 0
    BY <2>4, <1>1, AddFromGood
  <2>7. GroupResult(c) = [groups EXCEPT ![c[2]].cur = d, ![c[2]].barrier = d.size, ![c[3]].cur = AddFrom(@)]
    BY <1>6 DEF GroupResult, Move
  <2>8. /\ DOMAIN GroupResult(c) = GroupIds
        /\ GroupResult(c)[c[2]] = [dest EXCEPT !.cur = d, !.barrier = d.size]
        /\ GroupResult(c)[c[3]] = [src EXCEPT !.cur = AddFrom(src.cur)]
        /\ \A g \in GroupIds \ {c[2], c[3]} : GroupResult(c)[g] = groups[g]
    <3> HIDE DEF d
    <3> QED
      BY <2>7, <2>1, <1>1, <1>2
  <2>9. d \in Infos(n) /\ d.size \in Nat /\ AddFrom(src.cur) \in Infos(n) /\ src.barrier \in Nat
    BY <2>2, <2>5, <2>6 DEF GoodInfo, Infos, Groups
  <2> HIDE DEF d, dest, src
  <2>10. GoodGroup(n, [dest EXCEPT !.cur = d, !.barrier = d.size])
    <3>1. [dest EXCEPT !.cur = d, !.barrier = d.size] \in Groups(n)
      BY <2>2, <2>9 DEF Groups
    <3>2. /\ [dest EXCEPT !.cur = d, !.barrier = d.size].def = dest.def
          /\ [dest EXCEPT !.cur = d, !.barrier = d.size].cur = d
          /\ [dest EXCEPT !.cur = d, !.barrier = d.size].barrier = d.size
      BY <2>2 DEF Groups
    <3> QED
      BY <3>1, <3>2, <2>4, <2>5, <2>9 DEF GoodGroup
  <2>11. GoodGroup(n, [src EXCEPT !.cur = AddFrom(src.cur)])
    <3>1. [src EXCEPT !.cur = AddFrom(src.cur)] \in Groups(n)
      BY <2>2, <2>9 DEF Groups
    <3>2. /\ [src EXCEPT !.cur = AddFrom(src.cur)].def = src.def
          /\ [src EXCEPT !.cur = AddFrom(src.cur)].cur = AddFrom(src.cur)
          /\ [src EXCEPT !.cur = AddFrom(src.cur)].barrier = src.barrier
      BY <2>2 DEF Groups
    <3> QED
      BY <3>1, <3>2, <2>4, <2>6, <2>9 DEF GoodGroup
  <2> QED
    BY <2>8, <2>10, <2>11, <1>1
<1>7. CASE c[1] = "reset"
  <2> DEFINE g0 == groups[c[2]]
             x == [g0 EXCEPT !.cur = g0.def]
  <2>1. GroupResult(c) = [groups EXCEPT ![c[2]] = x]
    BY <1>7 DEF GroupResult, Reset
  <2>2. g0.alive /\ g0.def.size <= g0.barrier
    BY <1>7 DEF GroupCallOK
  <2>3. g0 \in Groups(n) /\ GoodInfo(n, g0.def)
    BY <2>2, <1>1, <1>2 DEF GoodGroup, NoGroup
  <2> HIDE DEF g0
  <2>4. x \in Groups(n) /\ x.def = g0.def /\ x.cur = g0.def /\ x.barrier = g0.barrier
    BY <2>3 DEF Groups
  <2>5. GoodGroup(n, x)
    BY <2>2, <2>3, <2>4 DEF GoodGroup
  <2> QED
    BY <2>1, <2>5, <1>3
<1>8. CASE c[1] = "next"
  <2> DEFINE g0 == groups[c[2]]
             x == [g0 EXCEPT !.next = (g0.next + 1) % g0.cur.size]
  <2>1. GroupResult(c) = [groups EXCEPT ![c[2]] = GetNext(g0)]
    BY <1>8 DEF GroupResult
  <2>2. g0.alive
    BY <1>8 DEF GroupCallOK
  <2>3. g0 \in Groups(n) /\ GoodGroup(n, g0)
    BY <2>2, <1>1, <1>2 DEF GoodGroup, NoGroup
  <2>4. CASE g0.cur.size = 0
    <3>1. GetNext(g0) = g0
      BY <2>4 DEF GetNext
    <3> QED
      BY <3>1, <2>1, <2>3, <1>3
  <2>5. CASE g0.cur.size # 0
    <3>1. GetNext(g0) = x
      BY <2>5 DEF GetNext
    <3>2. g0.cur.size \in Nat \ {0} /\ g0.next \in Int
      BY <2>3, <2>5 DEF Groups, Infos
    <3>3. (g0.next + 1) % g0.cur.size \in Int
      BY <3>2
    <3>4. GoodInfo(n, g0.def) /\ GoodInfo(n, g0.cur) /\ g0.cur.size <= g0.barrier
      BY <2>2, <2>3 DEF GoodGroup, NoGroup
    <3> HIDE DEF g0
    <3>5. x \in Groups(n) /\ x.def = g0.def /\ x.cur = g0.cur /\ x.barrier = g0.barrier
      BY <3>3, <2>3 DEF Groups
    <3>6. GoodGroup(n, x)
      BY <3>4, <3>5 DEF GoodGroup
    <3> QED
      BY <3>1, <3>6, <2>1, <1>3
  <2> QED
    BY <2>4, <2>5
<1> QED
  BY <1>4, <1>5, <1>6, <1>7, <1>8 DEF GroupOps

-----------------------------------------------------------------------------
\* The groups of every behaviour in which the calls keep the rules satisfy the
\* inductive invariant.
THEOREM SpecGroupsIInv == Spec /\ []GroupCallsOK => []GroupsIInv
<1>1. Init => GroupsIInv
  BY DEF Init, GroupsIInv, GoodGroup
<1>2. GroupsIInv /\ GroupCallsOK /\ [Next]_vars => GroupsIInv'
  <2> SUFFICES ASSUME GroupsIInv, GroupCallsOK, [Next]_vars PROVE GroupsIInv'
    OBVIOUS
  <2>1. ASSUME NEW t \in App, CallGroup(t) PROVE GroupsIInv'
    <3> DEFINE c == Head(calls[t])
    <3>1. c[1] \in GroupOps /\ GroupCallOK(c)
      BY <2>1 DEF CallGroup, GroupCallsOK
    <3>2. groups' = GroupResult(c) /\ program' = program
      BY <2>1 DEF CallGroup
    <3>3. /\ DOMAIN GroupResult(c) = GroupIds
          /\ \A g \in GroupIds : GoodGroup(program.n, GroupResult(c)[g])
      BY <3>1, GroupResultGood
    <3> QED
      BY <3>2, <3>3 DEF GroupsIInv
  <2>2. CASE UNCHANGED <<program, groups>>
    BY <2>2 DEF GroupsIInv
  <2>3. (\E t \in App : CallGroup(t)) \/ UNCHANGED <<program, groups>>
    <3>1. CASE UNCHANGED vars
      BY <3>1 DEF vars
    <3>2. ASSUME NEW t \in AllApp, AppStep(t) PROVE (t \in App /\ CallGroup(t)) \/ UNCHANGED <<program, groups>>
      BY <3>2 DEF AppStep, CallInit, InitModule, InitStart, InitFails, InitDone, InitRefused, FiniModule,
                  StopExecutor, CallFini, FiniDone, CallExecutorNum, ExpandLock, SchedExpand, MemoryExpand,
                  ExecutorExpand, ExpandUnlock
    <3>3. ASSUME NEW i \in AllWorkers, ExecutorStep(i) PROVE UNCHANGED <<program, groups>>
      BY <3>3 DEF ExecutorStep, ExecutorLooks, ExecutorTries, ExecutorExits
    <3> QED
      BY <3>1, <3>2, <3>3 DEF Next
  <2> QED
    BY <2>1, <2>2, <2>3
<1> QED
  BY <1>1, <1>2, PTL DEF Spec

\* After any sequence of creating, borrowing, returning and resetting that keeps
\* the rules, for any number of executors, the local ids of a group's executors
\* are 0 to size - 1, each once, its bounds are those of its members, and its
\* barrier was made for as many: what kupl_egroup_barrier hands to
\* kupl_barrier_wait as a thread's id is in range and nobody else's.
THEOREM SpecGroupWellFormed == Spec /\ []GroupCallsOK => []GroupWellFormed
<1>1. GroupsIInv => GroupWellFormed
  BY DEF GroupsIInv, GroupWellFormed, GoodGroup, GoodInfo, NoGroup
<1> QED
  BY <1>1, SpecGroupsIInv, PTL

-----------------------------------------------------------------------------
\* F is made of the first n lists of ss, one after the other: position p of F is
\* position at[p] of list from[p].
Spread(F, ss, n, from, at) ==
    /\ from \in [DOMAIN F -> 1 .. n] /\ at \in [DOMAIN F -> Nat]
    /\ \A p \in DOMAIN F : at[p] \in DOMAIN ss[from[p]] /\ F[p] = ss[from[p]][at[p]]
    /\ \A p, q \in DOMAIN F : p < q => from[p] < from[q] \/ (from[p] = from[q] /\ at[p] < at[q])
    /\ \A i \in 1 .. n : \A k \in DOMAIN ss[i] : \E p \in DOMAIN F : from[p] = i /\ at[p] = k

\* Each list in turn goes behind what is there.
LEMMA SpreadMore ==
    ASSUME NEW S, NEW ss \in Seq(Seq(S)), NEW n \in Nat, n + 1 \in 1 .. Len(ss),
           NEW F \in Seq(S), NEW from, NEW at, Spread(F, ss, n, from, at)
    PROVE  \E from2, at2 : Spread(F \o ss[n + 1], ss, n + 1, from2, at2)
<1> DEFINE G == F \o ss[n + 1]
           from2 == [p \in 1 .. Len(G) |-> IF p <= Len(F) THEN from[p] ELSE n + 1]
           at2 == [p \in 1 .. Len(G) |-> IF p <= Len(F) THEN at[p] ELSE p - Len(F)]
<1>1. /\ ss[n + 1] \in Seq(S) /\ G \in Seq(S) /\ Len(G) = Len(F) + Len(ss[n + 1])
      /\ DOMAIN G = 1 .. Len(G) /\ DOMAIN F = 1 .. Len(F) /\ DOMAIN ss[n + 1] = 1 .. Len(ss[n + 1])
      /\ Len(F) \in Nat /\ Len(ss[n + 1]) \in Nat
  OBVIOUS
<1>2. \A p \in 1 .. Len(G) : /\ p <= Len(F) => G[p] = F[p]
                             /\ p > Len(F) => G[p] = ss[n + 1][p - Len(F)]
  BY <1>1
<1>3. from2 \in [DOMAIN G -> 1 .. n + 1] /\ at2 \in [DOMAIN G -> Nat]
  BY <1>1 DEF Spread
<1>4. \A p \in DOMAIN G : at2[p] \in DOMAIN ss[from2[p]] /\ G[p] = ss[from2[p]][at2[p]]
  <2> SUFFICES ASSUME NEW p \in DOMAIN G PROVE at2[p] \in DOMAIN ss[from2[p]] /\ G[p] = ss[from2[p]][at2[p]]
    OBVIOUS
  <2> HIDE DEF G
  <2>1. CASE p <= Len(F)
    <3>1. p \in DOMAIN F /\ from2[p] = from[p] /\ at2[p] = at[p] /\ G[p] = F[p]
      BY <2>1, <1>1, <1>2
    <3> QED
      BY <3>1 DEF Spread
  <2>2. CASE p > Len(F)
    <3>1. from2[p] = n + 1 /\ at2[p] = p - Len(F) /\ p - Len(F) \in 1 .. Len(ss[n + 1])
      BY <2>2, <1>1
    <3> QED
      BY <3>1, <2>2, <1>1, <1>2
  <2> QED
    BY <2>1, <2>2, <1>1
<1>5. \A p, q \in DOMAIN G : p < q => from2[p] < from2[q] \/ (from2[p] = from2[q] /\ at2[p] < at2[q])
  <2> SUFFICES ASSUME NEW p \in DOMAIN G, NEW q \in DOMAIN G, p < q
               PROVE  from2[p] < from2[q] \/ (from2[p] = from2[q] /\ at2[p] < at2[q])
    OBVIOUS
  <2> HIDE DEF G
  <2>1. CASE q <= Len(F)
    <3>1. p \in DOMAIN F /\ q \in DOMAIN F /\ from2[p] = from[p] /\ at2[p] = at[p] /\ from2[q] = from[q] /\ at2[q] = at[q]
      BY <2>1, <1>1
    <3> QED
      BY <3>1 DEF Spread
  <2>2. CASE q > Len(F) /\ p <= Len(F)
    <3>1. p \in DOMAIN F /\ from2[p] = from[p] /\ from2[q] = n + 1
      BY <2>2, <1>1
    <3>2. from[p] \in 1 .. n
      BY <3>1 DEF Spread
    <3> QED
      BY <3>1, <3>2
  <2>3. CASE p > Len(F)
    BY <2>3, <1>1
  <2> QED
    BY <2>1, <2>2, <2>3, <1>1
<1>6. \A i \in 1 .. n + 1 : \A k \in DOMAIN ss[i] : \E p \in DOMAIN G : from2[p] = i /\ at2[p] = k
  <2> SUFFICES ASSUME NEW i \in 1 .. n + 1, NEW k \in DOMAIN ss[i]
               PROVE  \E p \in DOMAIN G : from2[p] = i /\ at2[p] = k
    OBVIOUS
  <2> HIDE DEF G
  <2>1. CASE i <= n
    <3>1. PICK p \in DOMAIN F : from[p] = i /\ at[p] = k
      BY <2>1 DEF Spread
    <3>2. p \in DOMAIN G /\ from2[p] = from[p] /\ at2[p] = at[p]
      BY <1>1
    <3> HIDE DEF from2, at2
    <3> QED
      BY <3>1, <3>2
  <2>2. CASE i = n + 1
    <3>1. k + Len(F) \in DOMAIN G /\ k + Len(F) > Len(F) /\ k \in Nat
      BY <2>2, <1>1
    <3>2. from2[k + Len(F)] = n + 1 /\ at2[k + Len(F)] = k
      BY <3>1, <1>1, SMTT(60)
    <3> QED
      BY <3>1, <3>2, <2>2
  <2>3. i <= n \/ i = n + 1
    OBVIOUS
  <2> QED
    BY <2>1, <2>2, <2>3, Zenon
<1>7. Spread(G, ss, n + 1, from2, at2)
  BY <1>3, <1>4, <1>5, <1>6 DEF Spread
<1> QED
  BY <1>7

\* The lists of instructions are lists of lists, put one behind the other.
LEMMA FlattenIs ==
    ASSUME NEW S, NEW ss \in Seq(Seq(S)), ss # <<>>
    PROVE  /\ FlattenSeq(ss) \in Seq(S)
           /\ \E from, at : Spread(FlattenSeq(ss), ss, Len(ss), from, at)
<1> DEFINE N == Len(ss)
           Body(f, n) == f = [i \in 1 .. n |-> IF i = 1 THEN ss[i] ELSE f[i - 1] \o ss[i]]
<1>1. N \in Nat \ {0} /\ \A i \in 1 .. N : ss[i] \in Seq(S)
  OBVIOUS
<1> HIDE DEF N
<1>2. \A n \in 1 .. N : \E f : Body(f, n)
  <2> DEFINE Bad == {n \in 1 .. N : ~ \E f : Body(f, n)}
  <2> SUFFICES ASSUME Bad # {} PROVE FALSE
    OBVIOUS
  <2>1. Bad \in SUBSET Nat /\ (\A n \in Bad : n \in 1 .. N) /\ \A n \in 1 .. N : n \notin Bad => \E f : Body(f, n)
    <3> HIDE DEF Body
    <3>1. \A n \in 1 .. N : n \in Nat
      BY <1>1
    <3> QED
      BY <3>1, Zenon
  <2>2. \A n \in Bad : ~ \E f : Body(f, n)
    BY Zenon
  <2> HIDE DEF Bad
  <2>3. PICK m \in Bad : \A y \in Bad : m <= y
    BY <2>1, LeastExists
  <2>4. m \in 1 .. N
    BY <2>1, <2>3
  <2>5. CASE m = 1
    <3>1. Body([i \in 1 .. 1 |-> ss[1]], 1)
      OBVIOUS
    <3> QED
      BY <3>1, <2>2, <2>3, <2>5
  <2>6. CASE m > 1
    <3>1. m - 1 \in 1 .. N /\ m - 1 \notin Bad
      BY <2>3, <2>4, <2>6, <1>1
    <3>2. PICK g : Body(g, m - 1)
      BY <3>1, <2>1
    <3>3. \A i \in 1 .. m - 1 : g[i] = IF i = 1 THEN ss[i] ELSE g[i - 1] \o ss[i]
      BY <3>2, Zenon
    <3> DEFINE f == [i \in 1 .. m |-> IF i < m THEN g[i] ELSE g[m - 1] \o ss[m]]
    <3>4. \A i \in 1 .. m : f[i] = IF i = 1 THEN ss[i] ELSE f[i - 1] \o ss[i]
      <4> SUFFICES ASSUME NEW i \in 1 .. m PROVE f[i] = IF i = 1 THEN ss[i] ELSE f[i - 1] \o ss[i]
        OBVIOUS
      <4>1. CASE i < m
        <5>1. g[i] = IF i = 1 THEN ss[i] ELSE g[i - 1] \o ss[i]
          BY <3>3, <4>1, <2>4
        <5>2. f[i] = g[i] /\ (i # 1 => f[i - 1] = g[i - 1])
          BY <4>1, <2>4
        <5> HIDE DEF f
        <5> QED
          BY <5>1, <5>2
      <4>2. CASE i = m
        <5>1. f[m] = g[m - 1] \o ss[m] /\ f[m - 1] = g[m - 1]
          <6>1. m \in 1 .. m /\ m - 1 \in 1 .. m /\ ~ (m < m) /\ m - 1 < m
            BY <2>4, <2>6, <1>1
          <6> QED
            BY <6>1
        <5>2. m # 1
          BY <2>6, <2>4, <1>1
        <5> HIDE DEF f
        <5> QED
          BY <5>1, <4>2, <5>2
      <4> QED
        BY <4>1, <4>2, <2>4
    <3>5. Body(f, m)
      <4>1. f = [i \in 1 .. m |-> f[i]]
        OBVIOUS
      <4> HIDE DEF f
      <4> QED
        BY <4>1, <3>4
    <3> QED
      BY <3>5, <2>2, <2>3, Zenon
  <2> QED
    BY <2>4, <2>5, <2>6, <1>1
<1> DEFINE f0 == CHOOSE f : Body(f, N)
<1>3. Body(f0, N)
  <2> HIDE DEF Body
  <2>1. \E f : Body(f, N)
    <3>1. N \in 1 .. N
      BY <1>1
    <3> QED
      BY <3>1, <1>2, Zenon
  <2> QED
    BY <2>1, Zenon
<1>4. FlattenSeq(ss) = f0[N]
  BY <1>1, Zenon DEF FlattenSeq, N
<1> HIDE DEF f0
<1>5. \A i \in 1 .. N : f0[i] = IF i = 1 THEN ss[i] ELSE f0[i - 1] \o ss[i]
  BY <1>3
<1> DEFINE Good(n) == f0[n] \in Seq(S) /\ \E from, at : Spread(f0[n], ss, n, from, at)
<1>6. Good(1)
  <2>1. f0[1] = ss[1] /\ ss[1] \in Seq(S) /\ DOMAIN ss[1] = 1 .. Len(ss[1]) /\ Len(ss[1]) \in Nat
    BY <1>1, <1>5
  <2> DEFINE from == [p \in DOMAIN ss[1] |-> 1]
             at == [p \in DOMAIN ss[1] |-> p]
  <2>2. from \in [DOMAIN ss[1] -> 1 .. 1] /\ at \in [DOMAIN ss[1] -> Nat] /\ \A p \in DOMAIN ss[1] : from[p] = 1 /\ at[p] = p
    BY <2>1
  <2> HIDE DEF from, at
  <2>3. Spread(ss[1], ss, 1, from, at)
    BY <2>1, <2>2 DEF Spread
  <2> QED
    BY <2>1, <2>3
<1>7. \A n \in 1 .. N : Good(n)
  <2> DEFINE Bad == {n \in 1 .. N : ~ Good(n)}
  <2> SUFFICES ASSUME Bad # {} PROVE FALSE
    OBVIOUS
  <2>1. Bad \in SUBSET Nat /\ (\A n \in Bad : n \in 1 .. N /\ ~ Good(n)) /\ \A n \in 1 .. N : n \notin Bad => Good(n)
    BY <1>1
  <2> HIDE DEF Bad, Good
  <2>2. PICK m \in Bad : \A y \in Bad : m <= y
    BY <2>1, LeastExists
  <2>3. m \in 1 .. N /\ ~Good(m)
    BY <2>1, <2>2
  <2>4. m > 1 /\ m - 1 \in 1 .. N
    BY <2>3, <1>6, <1>1
  <2>5. Good(m - 1)
    BY <2>1, <2>2, <2>4, <2>3
  <2>6. f0[m - 1] \in Seq(S)
    BY <2>5 DEF Good
  <2>7. PICK from, at : Spread(f0[m - 1], ss, m - 1, from, at)
    BY <2>5 DEF Good
  <2>8. f0[m] = f0[m - 1] \o ss[m] /\ m - 1 \in Nat /\ (m - 1) + 1 = m
    <3>1. m \in 1 .. N /\ m # 1 /\ m - 1 \in Nat /\ (m - 1) + 1 = m
      BY <2>3, <2>4, <1>1
    <3> QED
      BY <3>1, <1>5
  <2>9. \E from2, at2 : Spread(f0[m - 1] \o ss[(m - 1) + 1], ss, (m - 1) + 1, from2, at2)
    <3>1. (m - 1) + 1 \in 1 .. Len(ss)
      BY <2>3, <2>8 DEF N
    <3> QED
      BY <3>1, <2>6, <2>7, <2>8, SpreadMore
  <2>10. f0[m] \in Seq(S)
    BY <2>6, <2>8, <2>3, <1>1
  <2>11. Good(m)
    BY <2>8, <2>9, <2>10 DEF Good
  <2> QED
    BY <2>3, <2>11
<1> QED
  BY <1>1, <1>4, <1>7 DEF N

-----------------------------------------------------------------------------
(* What is left of a call *)

\* the modules kupl_init brings up, the executors' threads apart
Mods == {"utils", "places", "tools", "sdma", "mpool", "mem", "dm", "sched", "queue", "executor", "barrier", "pf"}

\* one module up or down, or one executor's thread
IsStep(kind, x) ==
    \/ \E m \in Mods : x = <<kind, m>>
    \/ \E i \in 0 .. program.n - 1 : x = <<kind, "start", i>>

Instrs ==
    {<<kind, m>> : kind \in {"init", "fini"}, m \in Mods}
    \cup {<<kind, "start", i>> : kind \in {"init", "fini"}, i \in 0 .. program.n - 1}
    \cup {<<x>> : x \in {"inited", "refused", "finished", "lock", "sched_expand", "memory_expand", "executor_expand", "unlock"}}

\* all but the last instruction of s
Most(s) == 1 .. Len(s) - 1
Left(s, x) == \E p \in Most(s) : s[p] = x

\* What is left of kupl_init: modules in their order, then the flag.
UpList(s) ==
    /\ s \in Seq(Instrs) /\ s # <<>> /\ s[Len(s)] = <<"inited">>
    /\ \A p \in Most(s) : IsStep("init", s[p])
    /\ \A p, q \in Most(s) : p < q => Before(s[p][2], s[q][2]) \/ (s[p][2] = "start" /\ s[q][2] = "start")

\* What is left of taking down: the threads before what they read, the loops first.
DownList(s, last) ==
    /\ s \in Seq(Instrs) /\ s # <<>> /\ s[Len(s)] = <<last>>
    /\ \A p \in Most(s) : IsStep("fini", s[p]) /\ (s[p][2] = "start" => s[p][3] \in Workers)
    /\ \A p, q \in Most(s) : p < q => /\ s[q][2] = "start" => s[p][2] \notin {"executor", "sched", "mpool"}
                                      /\ s[q][2] # "pf"


-----------------------------------------------------------------------------
\* The list of a module, or the threads one by one.
LEMMA StepsIs ==
    ASSUME program.n \in Nat \ {0}, NEW kind \in {"init", "fini"}, NEW m \in Mods \cup {"start"}
    PROVE  LET s == Steps(kind, m)
           IN  /\ s \in Seq(Instrs)
               /\ \A q \in DOMAIN s : IsStep(kind, s[q]) /\ s[q][2] = m
               /\ \A q \in DOMAIN s : kind = "fini" /\ m = "start" => s[q][3] \in Workers
               /\ m # "start" => DOMAIN s = 1 .. 1 /\ s[1] = <<kind, m>>
               /\ m = "start" => \A i \in Workers : \E q \in DOMAIN s : s[q] = <<kind, "start", i>>
               /\ m = "start" /\ kind = "init" => \E q \in DOMAIN s : s[q] = <<kind, "start", 0>>
<1> DEFINE n == program.n
<1>1. \A x \in Mods : <<kind, x>> \in Instrs
  BY DEF Instrs
<1>2. \A i \in 0 .. n - 1 : <<kind, "start", i>> \in Instrs
  BY DEF Instrs
<1>3. CASE m # "start"
  <2>1. m \in Mods /\ Steps(kind, m) = <<<<kind, m>>>>
    BY <1>3 DEF Steps
  <2>2. IsStep(kind, <<kind, m>>)
    BY <2>1 DEF IsStep
  <2> QED
    BY <2>1, <2>2, <1>1, <1>3
<1>4. CASE m = "start" /\ kind = "init"
  <2> DEFINE s == [i \in 1 .. n |-> <<kind, "start", i - 1>>]
  <2>1. Steps(kind, m) = s
    BY <1>4 DEF Steps
  <2>2. s \in Seq(Instrs) /\ DOMAIN s = 1 .. n
    BY <1>2
  <2>3. \A q \in 1 .. n : s[q] = <<kind, "start", q - 1>> /\ q - 1 \in 0 .. n - 1
    OBVIOUS
  <2>4. \A i \in 0 .. n - 1 : i + 1 \in 1 .. n /\ s[i + 1] = <<kind, "start", i>>
    OBVIOUS
  <2>5. \A i \in Workers : i \in 0 .. n - 1
    BY DEF Workers
  <2> HIDE DEF s
  <2>6. \A q \in 1 .. n : IsStep(kind, s[q]) /\ s[q][2] = m
    BY <2>3, <1>4 DEF IsStep
  <2>7. 0 \in 0 .. n - 1
    OBVIOUS
  <2> QED
    BY <2>1, <2>2, <2>4, <2>5, <2>6, <2>7, <1>4
<1>5. CASE m = "start" /\ kind = "fini"
  <2> DEFINE s == [i \in Workers |-> <<kind, "start", i>>]
  <2>1. Steps(kind, m) = s
    BY <1>5 DEF Steps
  <2>2. s \in Seq(Instrs) /\ DOMAIN s = Workers /\ \A i \in Workers : i \in 0 .. n - 1
    BY <1>2 DEF Workers
  <2>3. \A q \in Workers : s[q] = <<kind, "start", q>>
    OBVIOUS
  <2> HIDE DEF s
  <2>4. \A q \in Workers : IsStep(kind, s[q]) /\ s[q][2] = m /\ s[q][3] = q
    BY <2>2, <2>3, <1>5 DEF IsStep
  <2> QED
    BY <2>1, <2>2, <2>3, <2>4, <1>5
<1> QED
  BY <1>3, <1>4, <1>5

\* The end of a list.
LEMMA AppendIs ==
    ASSUME NEW s \in Seq(Instrs), NEW x \in Instrs
    PROVE  LET t == Append(s, x)
           IN  /\ t \in Seq(Instrs) /\ t # <<>> /\ t[Len(t)] = x /\ Most(t) = DOMAIN s
               /\ \A p \in DOMAIN s : t[p] = s[p]
<1>1. Append(s, x) \in Seq(Instrs) /\ Len(Append(s, x)) = Len(s) + 1 /\ Len(s) \in Nat /\ DOMAIN s = 1 .. Len(s)
  OBVIOUS
<1>2. Append(s, x)[Len(s) + 1] = x /\ \A p \in 1 .. Len(s) : Append(s, x)[p] = s[p]
  OBVIOUS
<1>3. Append(s, x) # <<>>
  BY <1>1
<1> QED
  BY <1>1, <1>2, <1>3 DEF Most

\* Working off a list.
LEMMA TailIs ==
    ASSUME NEW s \in Seq(Instrs), s # <<>>, NEW x, s[Len(s)] = x, Head(s) # x
    PROVE  LET t == Tail(s)
           IN  /\ t \in Seq(Instrs) /\ t # <<>> /\ t[Len(t)] = x
               /\ 1 \in Most(s) /\ s[1] = Head(s)
               /\ \A p \in Most(t) : p + 1 \in Most(s) /\ t[p] = s[p + 1] /\ p \in Nat /\ 1 < p + 1
               /\ \A y : Left(s, y) => y = Head(s) \/ Left(t, y)
<1>1. Len(s) \in Nat /\ Len(s) > 1 /\ s[1] = Head(s)
  OBVIOUS
<1>2. Tail(s) \in Seq(Instrs) /\ Len(Tail(s)) = Len(s) - 1 /\ \A p \in 1 .. Len(s) - 1 : Tail(s)[p] = s[p + 1]
  BY <1>1
<1>3. \A y : Left(s, y) => y = Head(s) \/ Left(Tail(s), y)
  <2> SUFFICES ASSUME NEW y, Left(s, y), y # Head(s) PROVE Left(Tail(s), y)
    OBVIOUS
  <2>1. PICK p \in 1 .. Len(s) - 1 : s[p] = y
    BY DEF Left, Most
  <2>2. p - 1 \in 1 .. Len(Tail(s)) - 1 /\ Tail(s)[p - 1] = y
    BY <2>1, <1>1, <1>2
  <2> QED
    BY <2>2 DEF Left, Most
<1>4. Tail(s) # <<>> /\ Tail(s)[Len(Tail(s))] = x
  <2>1. Len(s) - 1 \in 1 .. Len(s) - 1 /\ (Len(s) - 1) + 1 = Len(s)
    BY <1>1
  <2>2. Tail(s)[Len(s) - 1] = s[Len(s)]
    BY <2>1, <1>2
  <2>3. Len(Tail(s)) = Len(s) - 1 /\ Len(Tail(s)) # 0
    BY <1>1, <1>2
  <2>4. Tail(s) # <<>>
    <3>1. Len(<<>>) = 0
      OBVIOUS
    <3> QED
      BY <3>1, <2>3, Zenon
  <2> QED
    BY <2>2, <2>3, <2>4
<1> QED
  BY <1>1, <1>2, <1>3, <1>4 DEF Most

\* The order of kupl_init, position by position.
LEMMA InitOrderIs ==
    /\ DOMAIN InitOrder = 1 .. 13
    /\ \A i \in 1 .. 13 : InitOrder[i] \in Mods \cup {"start"}
    /\ \A m \in Mods \cup {"start"} : \E i \in 1 .. 13 : InitOrder[i] = m
    /\ \A i, j \in 1 .. 13 : i < j => Before(InitOrder[i], InitOrder[j])
<1>1. DOMAIN InitOrder = 1 .. 13
  BY DEF InitOrder
<1>2. \A i \in 1 .. 13 : InitOrder[i] \in Mods \cup {"start"}
  BY DEF InitOrder, Mods
<1>3. \A m \in Mods \cup {"start"} : \E i \in 1 .. 13 : InitOrder[i] = m
  <2>1. /\ InitOrder[1] = "utils" /\ InitOrder[2] = "places" /\ InitOrder[3] = "tools" /\ InitOrder[4] = "sdma"
        /\ InitOrder[5] = "mpool" /\ InitOrder[6] = "mem" /\ InitOrder[7] = "dm" /\ InitOrder[8] = "sched"
        /\ InitOrder[9] = "queue" /\ InitOrder[10] = "executor" /\ InitOrder[11] = "start"
        /\ InitOrder[12] = "barrier" /\ InitOrder[13] = "pf"
    BY DEF InitOrder
  <2> QED
    BY <2>1 DEF Mods
<1> QED
  BY <1>1, <1>2, <1>3 DEF Before

\* What comes before what.
LEMMA BeforeIs ==
    /\ \A k : ~ Before("pf", k)
    /\ \A k : Before("barrier", k) => k = "pf"
    /\ ~ Before("start", "start")
    /\ \A m \in {"executor", "sched", "mpool"} : ~ Before("start", m)
    /\ \A m, k : Before(m, k) => m \in Mods \cup {"start"} /\ k \in Mods \cup {"start"}
<1>1. /\ InitOrder[1] = "utils" /\ InitOrder[2] = "places" /\ InitOrder[3] = "tools" /\ InitOrder[4] = "sdma"
      /\ InitOrder[5] = "mpool" /\ InitOrder[6] = "mem" /\ InitOrder[7] = "dm" /\ InitOrder[8] = "sched"
      /\ InitOrder[9] = "queue" /\ InitOrder[10] = "executor" /\ InitOrder[11] = "start"
      /\ InitOrder[12] = "barrier" /\ InitOrder[13] = "pf" /\ DOMAIN InitOrder = 1 .. 13
  BY DEF InitOrder
<1>2. \A i \in 1 .. 13 : /\ InitOrder[i] = "pf" => i = 13
                         /\ InitOrder[i] = "barrier" => i = 12
                         /\ InitOrder[i] = "start" => i = 11
                         /\ InitOrder[i] \in {"executor", "sched", "mpool"} => i < 11
  BY <1>1
<1>3. \A m, k : Before(m, k) => \E i, j \in 1 .. 13 : i < j /\ InitOrder[i] = m /\ InitOrder[j] = k
  BY <1>1 DEF Before
<1>4. \A m, k : Before(m, k) => m \in Mods \cup {"start"} /\ k \in Mods \cup {"start"}
  BY <1>3, InitOrderIs
<1>5. \A k : ~ Before("pf", k)
  BY <1>2, <1>3
<1>6. \A k : Before("barrier", k) => k = "pf"
  <2> SUFFICES ASSUME NEW k, Before("barrier", k) PROVE k = "pf"
    OBVIOUS
  <2>1. PICK i \in 1 .. 13 : \E j \in 1 .. 13 : i < j /\ InitOrder[i] = "barrier" /\ InitOrder[j] = k
    BY <1>3
  <2>2. PICK j \in 1 .. 13 : i < j /\ InitOrder[i] = "barrier" /\ InitOrder[j] = k
    BY <2>1
  <2>3. i = 12 /\ j = 13
    BY <2>2, <1>2
  <2> QED
    BY <2>2, <2>3, <1>1
<1>7. ~ Before("start", "start") /\ \A m \in {"executor", "sched", "mpool"} : ~ Before("start", m)
  <2> SUFFICES ASSUME NEW m \in {"executor", "sched", "mpool", "start"}, Before("start", m) PROVE FALSE
    OBVIOUS
  <2>1. PICK i \in 1 .. 13 : \E j \in 1 .. 13 : i < j /\ InitOrder[i] = "start" /\ InitOrder[j] = m
    BY <1>3
  <2>2. PICK j \in 1 .. 13 : i < j /\ InitOrder[i] = "start" /\ InitOrder[j] = m
    BY <2>1
  <2>3. i = 11 /\ j <= 11
    BY <2>2, <1>2
  <2> QED
    BY <2>2, <2>3
<1> QED
  BY <1>4, <1>5, <1>6, <1>7

\* A call of kupl_init has all to do.
LEMMA UpNew ==
    ASSUME program.n \in Nat \ {0}
    PROVE  LET s == Append(Flattened("init", InitOrder), <<"inited">>)
           IN  /\ UpList(s)
               /\ \A m \in Mods : Left(s, <<"init", m>>)
               /\ \A i \in Workers : Left(s, <<"init", "start", i>>)
               /\ Left(s, <<"init", "start", 0>>)
<1> DEFINE ss == [i \in DOMAIN InitOrder |-> Steps("init", InitOrder[i])]
<1>1. \A i \in 1 .. 13 : Steps("init", InitOrder[i]) \in Seq(Instrs)
  BY InitOrderIs, StepsIs
<1>2. ss \in Seq(Seq(Instrs)) /\ DOMAIN ss = 1 .. 13 /\ Len(ss) = 13 /\ ss # <<>> /\ Flattened("init", InitOrder) = FlattenSeq(ss)
  BY <1>1, InitOrderIs DEF Flattened
<1>3. \A i \in 1 .. 13 : ss[i] = Steps("init", InitOrder[i])
  BY InitOrderIs
<1>3a. \A i \in 1 .. 13 : /\ \A q \in DOMAIN ss[i] : IsStep("init", ss[i][q]) /\ ss[i][q][2] = InitOrder[i]
                          /\ InitOrder[i] # "start" => DOMAIN ss[i] = 1 .. 1
  <2> SUFFICES ASSUME NEW i \in 1 .. 13
               PROVE  /\ \A q \in DOMAIN ss[i] : IsStep("init", ss[i][q]) /\ ss[i][q][2] = InitOrder[i]
                      /\ InitOrder[i] # "start" => DOMAIN ss[i] = 1 .. 1
    OBVIOUS
  <2>1. InitOrder[i] \in Mods \cup {"start"} /\ ss[i] = Steps("init", InitOrder[i])
    BY <1>3, InitOrderIs
  <2> HIDE DEF ss
  <2> QED
    BY <2>1, StepsIs
<1> HIDE DEF ss
<1>4. PICK F : F = FlattenSeq(ss)
  OBVIOUS
<1>5. F \in Seq(Instrs) /\ \E from, at : Spread(F, ss, 13, from, at)
  BY <1>2, <1>4, FlattenIs
<1>6. PICK from, at : Spread(F, ss, 13, from, at)
  BY <1>5
<1>7. \A p \in DOMAIN F : /\ from[p] \in 1 .. 13 /\ at[p] \in DOMAIN ss[from[p]]
                          /\ F[p] = Steps("init", InitOrder[from[p]])[at[p]]
  BY <1>3, <1>6 DEF Spread
<1>8. \A p \in DOMAIN F : IsStep("init", F[p]) /\ F[p][2] = InitOrder[from[p]]
  BY <1>3, <1>7, <1>3a
<1>9. \A p, q \in DOMAIN F : p < q => Before(F[p][2], F[q][2]) \/ (F[p][2] = "start" /\ F[q][2] = "start")
  <2> SUFFICES ASSUME NEW p \in DOMAIN F, NEW q \in DOMAIN F, p < q
               PROVE  Before(F[p][2], F[q][2]) \/ (F[p][2] = "start" /\ F[q][2] = "start")
    OBVIOUS
  <2>1. from[p] < from[q] \/ (from[p] = from[q] /\ at[p] < at[q])
    BY <1>6 DEF Spread
  <2>2. CASE from[p] < from[q]
    BY <2>2, <1>7, <1>8, InitOrderIs
  <2>3. CASE from[p] = from[q] /\ at[p] < at[q]
    <3>1. InitOrder[from[p]] = "start"
      <4> SUFFICES ASSUME InitOrder[from[p]] # "start" PROVE FALSE
        OBVIOUS
      <4>1. DOMAIN ss[from[p]] = 1 .. 1
        BY <1>7, <1>3a
      <4> QED
        BY <4>1, <2>3, <1>7
    <3> QED
      BY <3>1, <2>3, <1>8
  <2> QED
    BY <2>1, <2>2, <2>3
<1>10. \A i \in 1 .. 13 : \A k \in DOMAIN ss[i] : \E p \in DOMAIN F : F[p] = ss[i][k]
  BY <1>3, <1>6 DEF Spread
<1> DEFINE s == Append(F, <<"inited">>)
<1>11. /\ s \in Seq(Instrs) /\ s # <<>> /\ s[Len(s)] = <<"inited">> /\ Most(s) = DOMAIN F
       /\ \A p \in DOMAIN F : s[p] = F[p]
  <2>1. <<"inited">> \in Instrs
    BY DEF Instrs
  <2> QED
    BY <2>1, <1>5, AppendIs
<1> HIDE DEF s
<1>12. UpList(s)
  BY <1>8, <1>9, <1>11 DEF UpList
<1>13. \A i \in 1 .. 13 : \A k \in DOMAIN ss[i] : Left(s, ss[i][k])
  BY <1>10, <1>11 DEF Left
<1>14. \A m \in Mods : Left(s, <<"init", m>>)
  <2> SUFFICES ASSUME NEW m \in Mods PROVE Left(s, <<"init", m>>)
    OBVIOUS
  <2>1. PICK i \in 1 .. 13 : InitOrder[i] = m
    BY InitOrderIs
  <2>2. m # "start"
    BY DEF Mods
  <2>3. 1 \in DOMAIN ss[i] /\ ss[i][1] = <<"init", m>>
    <3>1. ss[i] = Steps("init", m) /\ m \in Mods \cup {"start"}
      BY <2>1, <1>3
    <3>2. DOMAIN Steps("init", m) = 1 .. 1 /\ Steps("init", m)[1] = <<"init", m>>
      BY <3>1, <2>2, StepsIs
    <3> QED
      BY <3>1, <3>2
  <2> QED
    BY <2>3, <1>13
<1>15. (\A i \in Workers : Left(s, <<"init", "start", i>>)) /\ Left(s, <<"init", "start", 0>>)
  <2>1. PICK i \in 1 .. 13 : InitOrder[i] = "start"
    BY InitOrderIs
  <2>2. ss[i] = Steps("init", "start")
    BY <2>1, <1>3
  <2>3. /\ \A j \in Workers : \E q \in DOMAIN ss[i] : ss[i][q] = <<"init", "start", j>>
        /\ \E q \in DOMAIN ss[i] : ss[i][q] = <<"init", "start", 0>>
    BY <2>2, StepsIs
  <2> QED
    BY <2>3, <1>13
<1> QED
  BY <1>2, <1>4, <1>12, <1>14, <1>15 DEF s

\* The threads are stopped before what they read is taken from them; the loops,
\* if at all, go first.
SafeOrder(order, N) ==
    /\ \A i \in 1 .. N : order[i] \in Mods \cup {"start"}
    /\ \A i, j \in 1 .. N : i < j => /\ order[j] = "start" => order[i] \notin {"executor", "sched", "mpool"}
                                     /\ order[j] # "pf"

\* the lists of the modules of U
ListsOf(ss, order, N, U) ==
    /\ DOMAIN ss = 1 .. N /\ ss \in Seq(Seq(Instrs))
    /\ \A i \in 1 .. N : ss[i] = IF order[i] \in U THEN Steps("fini", order[i]) ELSE <<>>

\* A list that takes the modules of U down, in an order that stops the threads
\* before it takes from them what they read.
LEMMA DownNew ==
    ASSUME program.n \in Nat \ {0}, NEW N \in Nat \ {0}, NEW order, NEW U, NEW last \in {"refused", "finished"},
           NEW ss, SafeOrder(order, N), ListsOf(ss, order, N, U)
    PROVE  LET s == Append(FlattenSeq(ss), <<last>>)
           IN  /\ DownList(s, last)
               /\ \A i \in 1 .. N : order[i] \in U /\ order[i] # "start" => Left(s, <<"fini", order[i]>>)
               /\ \A i \in 1 .. N : order[i] \in U /\ order[i] = "start" =>
                         \A w \in Workers : Left(s, <<"fini", "start", w>>)
<1>1. DOMAIN ss = 1 .. N /\ Len(ss) = N /\ ss # <<>> /\ ss \in Seq(Seq(Instrs))
  BY DEF ListsOf
<1>2. PICK F : F = FlattenSeq(ss)
  OBVIOUS
<1>3. F \in Seq(Instrs) /\ \E from, at : Spread(F, ss, N, from, at)
  BY <1>1, <1>2, FlattenIs
<1>4. PICK from, at : Spread(F, ss, N, from, at)
  BY <1>3
<1>5. \A i \in 1 .. N : order[i] \in U =>
          /\ \A q \in DOMAIN ss[i] : /\ IsStep("fini", ss[i][q]) /\ ss[i][q][2] = order[i]
                                     /\ order[i] = "start" => ss[i][q][3] \in Workers
          /\ order[i] # "start" => DOMAIN ss[i] = 1 .. 1 /\ ss[i][1] = <<"fini", order[i]>>
          /\ order[i] = "start" => \A w \in Workers : \E q \in DOMAIN ss[i] : ss[i][q] = <<"fini", "start", w>>
  <2> SUFFICES ASSUME NEW i \in 1 .. N, order[i] \in U
               PROVE  /\ \A q \in DOMAIN ss[i] : /\ IsStep("fini", ss[i][q]) /\ ss[i][q][2] = order[i]
                                                 /\ order[i] = "start" => ss[i][q][3] \in Workers
                      /\ order[i] # "start" => DOMAIN ss[i] = 1 .. 1 /\ ss[i][1] = <<"fini", order[i]>>
                      /\ order[i] = "start" => \A w \in Workers : \E q \in DOMAIN ss[i] : ss[i][q] = <<"fini", "start", w>>
    OBVIOUS
  <2>1. order[i] \in Mods \cup {"start"} /\ ss[i] = Steps("fini", order[i])
    BY DEF SafeOrder, ListsOf
  <2>2. PICK m \in Mods \cup {"start"} : m = order[i]
    BY <2>1
  <2>3. PICK l : l = Steps("fini", m)
    OBVIOUS
  <2>4. /\ \A q \in DOMAIN l : IsStep("fini", l[q]) /\ l[q][2] = m
        /\ \A q \in DOMAIN l : m = "start" => l[q][3] \in Workers
        /\ m # "start" => DOMAIN l = 1 .. 1 /\ l[1] = <<"fini", m>>
        /\ m = "start" => \A w \in Workers : \E q \in DOMAIN l : l[q] = <<"fini", "start", w>>
    BY <2>3, StepsIs
  <2>5. ss[i] = l
    BY <2>1, <2>2, <2>3
  <2> QED
    BY <2>2, <2>4, <2>5
<1>6. \A p \in DOMAIN F : from[p] \in 1 .. N /\ at[p] \in DOMAIN ss[from[p]] /\ F[p] = ss[from[p]][at[p]]
  BY <1>4 DEF Spread
<1>7. \A i \in 1 .. N : \A q \in DOMAIN ss[i] : order[i] \in U
  <2>1. DOMAIN <<>> = {}
    OBVIOUS
  <2> QED
    BY <2>1 DEF ListsOf
<1>8. \A p \in DOMAIN F : /\ order[from[p]] \in U /\ IsStep("fini", F[p]) /\ F[p][2] = order[from[p]]
                          /\ order[from[p]] = "start" => F[p][3] \in Workers
  <2> SUFFICES ASSUME NEW p \in DOMAIN F
               PROVE  /\ order[from[p]] \in U /\ IsStep("fini", F[p]) /\ F[p][2] = order[from[p]]
                      /\ order[from[p]] = "start" => F[p][3] \in Workers
    OBVIOUS
  <2>1. PICK i \in 1 .. N : i = from[p]
    BY <1>6
  <2>2. PICK q \in DOMAIN ss[i] : q = at[p]
    BY <2>1, <1>6
  <2>3. F[p] = ss[i][q] /\ order[i] \in U
    BY <2>1, <2>2, <1>6, <1>7
  <2>4. /\ IsStep("fini", ss[i][q]) /\ ss[i][q][2] = order[i]
        /\ order[i] = "start" => ss[i][q][3] \in Workers
    BY <2>3, <1>5, Zenon
  <2> QED
    BY <2>1, <2>3, <2>4, Zenon
<1>9. \A p, q \in DOMAIN F : p < q => /\ F[q][2] = "start" => F[p][2] \notin {"executor", "sched", "mpool"}
                                      /\ F[q][2] # "pf"
  <2> SUFFICES ASSUME NEW p \in DOMAIN F, NEW q \in DOMAIN F, p < q
               PROVE  /\ F[q][2] = "start" => F[p][2] \notin {"executor", "sched", "mpool"}
                      /\ F[q][2] # "pf"
    OBVIOUS
  <2>1. from[p] < from[q] \/ (from[p] = from[q] /\ at[p] < at[q])
    BY <1>4 DEF Spread
  <2>2. CASE from[p] < from[q]
    <3>1. /\ order[from[q]] = "start" => order[from[p]] \notin {"executor", "sched", "mpool"}
          /\ order[from[q]] # "pf"
      BY <2>2, <1>6 DEF SafeOrder
    <3> QED
      BY <3>1, <1>8
  <2>3. CASE from[p] = from[q] /\ at[p] < at[q]
    <3>1. order[from[p]] = "start"
      <4> SUFFICES ASSUME order[from[p]] # "start" PROVE FALSE
        OBVIOUS
      <4>1. DOMAIN ss[from[p]] = 1 .. 1
        BY <1>5, <1>6, <1>8
      <4> QED
        BY <4>1, <2>3, <1>6
    <3> QED
      BY <3>1, <2>3, <1>8
  <2> QED
    BY <2>1, <2>2, <2>3
<1>10. \A i \in 1 .. N : \A k \in DOMAIN ss[i] : \E p \in DOMAIN F : F[p] = ss[i][k]
  <2> SUFFICES ASSUME NEW i \in 1 .. N, NEW k \in DOMAIN ss[i] PROVE \E p \in DOMAIN F : F[p] = ss[i][k]
    OBVIOUS
  <2>1. PICK p \in DOMAIN F : from[p] = i /\ at[p] = k
    BY <1>4 DEF Spread
  <2> QED
    BY <2>1, <1>6
<1> DEFINE s == Append(F, <<last>>)
<1>11. /\ s \in Seq(Instrs) /\ s # <<>> /\ s[Len(s)] = <<last>> /\ Most(s) = DOMAIN F
       /\ \A p \in DOMAIN F : s[p] = F[p]
  <2>1. <<last>> \in Instrs
    BY DEF Instrs
  <2> QED
    BY <2>1, <1>3, AppendIs
<1> HIDE DEF s
<1>12. DownList(s, last)
  BY <1>8, <1>9, <1>11 DEF DownList
<1>13. \A i \in 1 .. N : \A k \in DOMAIN ss[i] : Left(s, ss[i][k])
  BY <1>10, <1>11 DEF Left
<1>14. \A i \in 1 .. N : order[i] \in U /\ order[i] # "start" => Left(s, <<"fini", order[i]>>)
  <2> SUFFICES ASSUME NEW i \in 1 .. N, order[i] \in U, order[i] # "start" PROVE Left(s, <<"fini", order[i]>>)
    OBVIOUS
  <2>1. 1 \in DOMAIN ss[i] /\ ss[i][1] = <<"fini", order[i]>>
    BY <1>5
  <2> QED
    BY <2>1, <1>13
<1>15. \A i \in 1 .. N : order[i] \in U /\ order[i] = "start" => \A w \in Workers : Left(s, <<"fini", "start", w>>)
  <2> SUFFICES ASSUME NEW i \in 1 .. N, order[i] \in U, order[i] = "start", NEW w \in Workers
               PROVE  Left(s, <<"fini", "start", w>>)
    OBVIOUS
  <2>1. PICK q \in DOMAIN ss[i] : ss[i][q] = <<"fini", "start", w>>
    BY <1>5
  <2> QED
    BY <2>1, <1>13
<1> QED
  BY <1>2, <1>12, <1>14, <1>15 DEF s

\* A step of kupl_init that fails has all modules before it taken down, and
\* kupl_executor_start stops the threads it started.
LEMMA UndoNew ==
    ASSUME program.n \in Nat \ {0}, NEW k
    PROVE  LET s == Append(Undo(k), <<"refused">>)
           IN  /\ DownList(s, "refused")
               /\ \A m \in Mods \ {"barrier"} : Before(m, k) => Left(s, <<"fini", m>>)
               /\ k = "start" \/ Before("start", k) => \A w \in Workers : Left(s, <<"fini", "start", w>>)
<1> DEFINE U == {m \in Mods \cup {"start"} : Before(m, k) \/ (m = "start" /\ k = "start")}
           ss == [i \in DOMAIN UndoOrder |->
                     IF Before(UndoOrder[i], k) \/ (UndoOrder[i] = "start" /\ k = "start")
                     THEN Steps("fini", UndoOrder[i]) ELSE <<>>]
<1>1. /\ UndoOrder[1] = "start" /\ UndoOrder[2] = "executor" /\ UndoOrder[3] = "sched" /\ UndoOrder[4] = "queue"
      /\ UndoOrder[5] = "dm" /\ UndoOrder[6] = "mem" /\ UndoOrder[7] = "mpool" /\ UndoOrder[8] = "sdma"
      /\ UndoOrder[9] = "tools" /\ UndoOrder[10] = "places" /\ UndoOrder[11] = "utils" /\ DOMAIN UndoOrder = 1 .. 11
  BY DEF UndoOrder
<1>2. \A i \in 1 .. 11 : UndoOrder[i] \in Mods \cup {"start"} /\ UndoOrder[i] # "pf" /\ (UndoOrder[i] = "start" => i = 1)
  BY <1>1 DEF Mods
<1>3. \A m \in (Mods \ {"barrier", "pf"}) \cup {"start"} : \E i \in 1 .. 11 : UndoOrder[i] = m
  BY <1>1 DEF Mods
<1>4. \A i \in 1 .. 11 : Steps("fini", UndoOrder[i]) \in Seq(Instrs)
  BY <1>2, StepsIs
<1>5. ss \in Seq(Seq(Instrs)) /\ DOMAIN ss = 1 .. 11
  BY <1>1, <1>4
<1>6. \A i \in 1 .. 11 : ss[i] = IF UndoOrder[i] \in U THEN Steps("fini", UndoOrder[i]) ELSE <<>>
  BY <1>1, <1>2
<1>7. Undo(k) = FlattenSeq(ss)
  BY DEF Undo
<1>8. \A m \in U : m = "start" \/ m \in Mods
  OBVIOUS
<1>9. \A m \in Mods : Before(m, k) => m \in U
  OBVIOUS
<1>10. k = "start" \/ Before("start", k) => "start" \in U
  OBVIOUS
<1> HIDE DEF ss, U
<1>11. \A i, j \in 1 .. 11 : i < j => /\ UndoOrder[j] = "start" => UndoOrder[i] \notin {"executor", "sched", "mpool"}
                                      /\ UndoOrder[j] # "pf"
  BY <1>2
<1> DEFINE s == Append(FlattenSeq(ss), <<"refused">>)
<1>12. /\ DownList(s, "refused")
       /\ \A i \in 1 .. 11 : UndoOrder[i] \in U /\ UndoOrder[i] # "start" => Left(s, <<"fini", UndoOrder[i]>>)
       /\ \A i \in 1 .. 11 : UndoOrder[i] \in U /\ UndoOrder[i] = "start" =>
                 \A w \in Workers : Left(s, <<"fini", "start", w>>)
  <2>1. SafeOrder(UndoOrder, 11)
    BY <1>2, <1>11 DEF SafeOrder
  <2>2. ListsOf(ss, UndoOrder, 11, U)
    BY <1>5, <1>6 DEF ListsOf
  <2>3. 11 \in Nat \ {0}
    OBVIOUS
  <2> QED
    BY <2>1, <2>2, <2>3, DownNew
<1> HIDE DEF s
<1>13. \A m \in Mods \ {"barrier"} : Before(m, k) => Left(s, <<"fini", m>>)
  <2> SUFFICES ASSUME NEW m \in Mods \ {"barrier"}, Before(m, k) PROVE Left(s, <<"fini", m>>)
    OBVIOUS
  <2>1. m # "pf" /\ m # "start"
    BY BeforeIs DEF Mods
  <2>2. PICK i \in 1 .. 11 : UndoOrder[i] = m
    BY <2>1, <1>3
  <2> QED
    BY <2>1, <2>2, <1>9, <1>12
<1>14. k = "start" \/ Before("start", k) => \A w \in Workers : Left(s, <<"fini", "start", w>>)
  <2>1. 1 \in 1 .. 11
    OBVIOUS
  <2> QED
    BY <2>1, <1>1, <1>10, <1>12
<1> QED
  BY <1>7, <1>12, <1>13, <1>14 DEF s

\* kupl_fini takes all down but the flags of the loop barrier.
LEMMA FiniNew ==
    ASSUME program.n \in Nat \ {0}
    PROVE  LET s == Append(Flattened("fini", FiniOrder), <<"finished">>)
           IN  /\ DownList(s, "finished")
               /\ \A m \in Mods \ {"barrier"} : Left(s, <<"fini", m>>)
               /\ \A w \in Workers : Left(s, <<"fini", "start", w>>)
<1> DEFINE U == Mods \cup {"start"}
           ss == [i \in DOMAIN FiniOrder |-> Steps("fini", FiniOrder[i])]
<1>1. /\ FiniOrder[1] = "pf" /\ FiniOrder[2] = "start" /\ FiniOrder[3] = "executor" /\ FiniOrder[4] = "sched"
      /\ FiniOrder[5] = "queue" /\ FiniOrder[6] = "mpool" /\ FiniOrder[7] = "dm" /\ FiniOrder[8] = "mem"
      /\ FiniOrder[9] = "mpool" /\ FiniOrder[10] = "sdma" /\ FiniOrder[11] = "tools" /\ FiniOrder[12] = "places"
      /\ FiniOrder[13] = "utils" /\ DOMAIN FiniOrder = 1 .. 13
  BY DEF FiniOrder
<1>2. \A i \in 1 .. 13 : FiniOrder[i] \in U /\ (FiniOrder[i] = "pf" => i = 1) /\ (FiniOrder[i] = "start" => i = 2)
  BY <1>1 DEF Mods
<1>3. \A m \in (Mods \ {"barrier"}) \cup {"start"} : \E i \in 1 .. 13 : FiniOrder[i] = m
  BY <1>1 DEF Mods
<1>4. \A i \in 1 .. 13 : Steps("fini", FiniOrder[i]) \in Seq(Instrs)
  BY <1>2, StepsIs
<1>5. ss \in Seq(Seq(Instrs)) /\ DOMAIN ss = 1 .. 13
  BY <1>1, <1>4
<1>6. \A i \in 1 .. 13 : ss[i] = IF FiniOrder[i] \in U THEN Steps("fini", FiniOrder[i]) ELSE <<>>
  BY <1>1, <1>2
<1>7. Flattened("fini", FiniOrder) = FlattenSeq(ss)
  BY DEF Flattened
<1> HIDE DEF ss
<1>11. \A i, j \in 1 .. 13 : i < j => /\ FiniOrder[j] = "start" => FiniOrder[i] \notin {"executor", "sched", "mpool"}
                                      /\ FiniOrder[j] # "pf"
  <2> SUFFICES ASSUME NEW i \in 1 .. 13, NEW j \in 1 .. 13, i < j
               PROVE  /\ FiniOrder[j] = "start" => FiniOrder[i] \notin {"executor", "sched", "mpool"}
                      /\ FiniOrder[j] # "pf"
    OBVIOUS
  <2>1. FiniOrder[j] = "start" => i = 1
    BY <1>2
  <2> QED
    BY <2>1, <1>1, <1>2
<1> DEFINE s == Append(FlattenSeq(ss), <<"finished">>)
<1>12. /\ DownList(s, "finished")
       /\ \A i \in 1 .. 13 : FiniOrder[i] \in U /\ FiniOrder[i] # "start" => Left(s, <<"fini", FiniOrder[i]>>)
       /\ \A i \in 1 .. 13 : FiniOrder[i] \in U /\ FiniOrder[i] = "start" =>
                 \A w \in Workers : Left(s, <<"fini", "start", w>>)
  <2>1. SafeOrder(FiniOrder, 13)
    BY <1>2, <1>11 DEF SafeOrder
  <2>2. ListsOf(ss, FiniOrder, 13, U)
    BY <1>5, <1>6 DEF ListsOf
  <2>3. 13 \in Nat \ {0}
    OBVIOUS
  <2> QED
    BY <2>1, <2>2, <2>3, DownNew
<1> HIDE DEF s
<1>13. \A m \in Mods \ {"barrier"} : Left(s, <<"fini", m>>)
  <2> SUFFICES ASSUME NEW m \in Mods \ {"barrier"} PROVE Left(s, <<"fini", m>>)
    OBVIOUS
  <2>1. m # "start"
    BY DEF Mods
  <2>2. PICK i \in 1 .. 13 : FiniOrder[i] = m
    BY <1>3
  <2> QED
    BY <2>1, <2>2, <1>12
<1>14. \A w \in Workers : Left(s, <<"fini", "start", w>>)
  <2>1. 2 \in 1 .. 13
    OBVIOUS
  <2> QED
    BY <2>1, <1>1, <1>2, <1>12
<1> QED
  BY <1>7, <1>12, <1>13, <1>14 DEF s

\* The next instruction of kupl_init.
LEMMA UpHead ==
    ASSUME NEW s, UpList(s)
    PROVE  /\ s \in Seq(Instrs) /\ s # <<>>
           /\ \/ /\ Head(s)[1] = "init" /\ IsStep("init", Head(s)) /\ UpList(Tail(s))
                 /\ \A y : Left(s, y) => y = Head(s) \/ Left(Tail(s), y)
                 /\ 1 \in Most(s) /\ s[1] = Head(s)
                 /\ \A p \in Most(Tail(s)) :
                       /\ p + 1 \in Most(s) /\ Tail(s)[p] = s[p + 1]
                       /\ \/ Before(Head(s)[2], Tail(s)[p][2])
                          \/ Head(s)[2] = "start" /\ Tail(s)[p][2] = "start"
              \/ Head(s) = <<"inited">> /\ Tail(s) = <<>> /\ \A y : ~ Left(s, y)
<1>1. s \in Seq(Instrs) /\ s # <<>> /\ s[Len(s)] = <<"inited">>
  BY DEF UpList
<1>2. Len(s) \in Nat \ {0} /\ s[1] = Head(s)
  BY <1>1
<1>3. \A p \in Most(s) : IsStep("init", s[p]) /\ s[p][1] = "init"
  <2>1. \A x : IsStep("init", x) => x[1] = "init"
    BY DEF IsStep
  <2> QED
    BY <2>1 DEF UpList
<1>4. CASE Len(s) = 1
  <2>1. Head(s) = <<"inited">> /\ Most(s) = {}
    BY <1>1, <1>2, <1>4 DEF Most
  <2>2. Tail(s) = <<>>
    <3>1. Tail(s) \in Seq(Instrs) /\ Len(Tail(s)) = 0
      BY <1>1, <1>4
    <3> QED
      BY <3>1, EmptySeq
  <2> QED
    BY <1>1, <2>1, <2>2 DEF Left
<1>5. CASE Len(s) # 1
  <2>1. 1 \in Most(s)
    <3>1. PICK n \in Nat : n = Len(s) /\ n # 0 /\ n # 1
      BY <1>2, <1>5, Zenon
    <3>2. 1 \in 1 .. n - 1
      BY <3>1
    <3> QED
      BY <3>1, <3>2, Zenon DEF Most
  <2>2. Head(s)[1] = "init" /\ IsStep("init", Head(s))
    BY <2>1, <1>2, <1>3
  <2>3. Head(s) # <<"inited">>
    BY <2>2
  <2> DEFINE t == Tail(s)
  <2>4. /\ t \in Seq(Instrs) /\ t # <<>> /\ t[Len(t)] = <<"inited">>
        /\ \A p \in Most(t) : p + 1 \in Most(s) /\ t[p] = s[p + 1] /\ p \in Nat /\ 1 < p + 1
        /\ \A y : Left(s, y) => y = Head(s) \/ Left(t, y)
    BY <1>1, <2>3, TailIs
  <2> HIDE DEF t
  <2>5. \A p, q \in Most(t) : p < q => p + 1 < q + 1
    BY <2>4
  <2>6. UpList(t)
    BY <2>4, <2>5, SMTT(60) DEF UpList
  <2>7. \A p \in Most(t) : Before(Head(s)[2], t[p][2]) \/ (Head(s)[2] = "start" /\ t[p][2] = "start")
    BY <2>1, <2>4, <1>2, SMTT(60) DEF UpList
  <2> QED
    BY <1>1, <1>2, <2>1, <2>2, <2>4, <2>6, <2>7 DEF t
<1> QED
  BY <1>4, <1>5

\* The next instruction that takes something down.
LEMMA DownHead ==
    ASSUME NEW s, NEW last \in {"refused", "finished"}, DownList(s, last)
    PROVE  /\ s \in Seq(Instrs) /\ s # <<>> /\ s[Len(s)] = <<last>>
           /\ \/ /\ Head(s)[1] = "fini" /\ IsStep("fini", Head(s)) /\ DownList(Tail(s), last)
                 /\ Head(s)[2] = "start" => Head(s)[3] \in Workers
                 /\ \A y : Left(s, y) => y = Head(s) \/ Left(Tail(s), y)
                 /\ \A p \in Most(Tail(s)) :
                       /\ Tail(s)[p][2] = "start" => Head(s)[2] \notin {"executor", "sched", "mpool"}
                       /\ Tail(s)[p][2] # "pf"
              \/ Head(s) = <<last>> /\ Tail(s) = <<>> /\ \A y : ~ Left(s, y)
<1>1. s \in Seq(Instrs) /\ s # <<>> /\ s[Len(s)] = <<last>>
  BY DEF DownList
<1>2. Len(s) \in Nat \ {0} /\ s[1] = Head(s)
  BY <1>1
<1>3. \A p \in Most(s) : IsStep("fini", s[p]) /\ s[p][1] = "fini"
  <2>1. \A x : IsStep("fini", x) => x[1] = "fini"
    BY DEF IsStep
  <2> QED
    BY <2>1 DEF DownList
<1>4. CASE Len(s) = 1
  <2>1. Head(s) = <<last>> /\ Most(s) = {}
    BY <1>1, <1>2, <1>4 DEF Most
  <2>2. Tail(s) = <<>>
    <3>1. Tail(s) \in Seq(Instrs) /\ Len(Tail(s)) = 0
      BY <1>1, <1>4
    <3> QED
      BY <3>1, EmptySeq
  <2> QED
    BY <1>1, <2>1, <2>2 DEF Left
<1>5. CASE Len(s) # 1
  <2>1. 1 \in Most(s)
    <3>1. PICK n \in Nat : n = Len(s) /\ n # 0 /\ n # 1
      BY <1>2, <1>5, Zenon
    <3>2. 1 \in 1 .. n - 1
      BY <3>1
    <3> QED
      BY <3>1, <3>2, Zenon DEF Most
  <2>2. Head(s)[1] = "fini" /\ IsStep("fini", Head(s)) /\ (Head(s)[2] = "start" => Head(s)[3] \in Workers)
    BY <2>1, <1>2, <1>3 DEF DownList
  <2>3. Head(s) # <<last>>
    BY <2>2
  <2> DEFINE t == Tail(s)
  <2>4. /\ t \in Seq(Instrs) /\ t # <<>> /\ t[Len(t)] = <<last>>
        /\ \A p \in Most(t) : p + 1 \in Most(s) /\ t[p] = s[p + 1] /\ p \in Nat /\ 1 < p + 1
        /\ \A y : Left(s, y) => y = Head(s) \/ Left(t, y)
    BY <1>1, <2>3, TailIs
  <2> HIDE DEF t
  <2>5. \A p, q \in Most(t) : p < q => p + 1 < q + 1
    BY <2>4
  <2>6. DownList(t, last)
    BY <2>4, <2>5 DEF DownList
  <2>7. \A p \in Most(t) : /\ t[p][2] = "start" => Head(s)[2] \notin {"executor", "sched", "mpool"}
                           /\ t[p][2] # "pf"
    BY <2>1, <2>4, <1>2 DEF DownList
  <2> QED
    BY <1>1, <1>2, <2>2, <2>4, <2>6, <2>7 DEF t
<1> QED
  BY <1>4, <1>5

-----------------------------------------------------------------------------
(* The inductive invariant of init and fini *)

GoingUp(s) ==
    /\ UpList(s)
    /\ \A m \in Mods \ {"tools"} : m \in mods \/ Left(s, <<"init", m>>)
    /\ \A i \in Workers : thread[i] # "none" \/ Left(s, <<"init", "start", i>>)
    /\ geid[Main] = 0 \/ Left(s, <<"init", "start", 0>>)
    /\ \A p \in Most(s) :
          /\ \A m \in mods : Before(m, s[p][2]) \/ m = "barrier"
          /\ Running # {} => s[p][2] = "start" \/ Before("start", s[p][2])

GoingDown(s, last) ==
    /\ DownList(s, last)
    /\ \A m \in mods \ {"barrier"} : Left(s, <<"fini", m>>)
    /\ \A i \in Running : Left(s, <<"fini", "start", i>>)

\* what is left of an expansion; a thread that has an executor does not begin one
E0 == <<<<"lock">>>>
E1 == <<<<"unlock">>>>
E2 == <<<<"executor_expand">>, <<"unlock">>>>
E3 == <<<<"memory_expand">>, <<"executor_expand">>, <<"unlock">>>>
E4 == <<<<"sched_expand">>, <<"memory_expand">>, <<"executor_expand">>, <<"unlock">>>>
Expanding(t) == todo[t] \in {<<>>, E1} \/ (todo[t] \in {E0, E2, E3, E4} /\ geid[t] = Null)

AllUp == Mods \ {"tools"} \subseteq mods /\ Running = Workers /\ geid[Main] = 0


LifeTypes ==
    /\ program \in Programs
    /\ Main \in App
    /\ todo \in [App -> Seq(Instrs)] /\ DOMAIN calls = App /\ geid \in [App -> Int]
    /\ core \in [inited : BOOLEAN, mutex : {None, Main}, again : BOOLEAN]
    /\ mods \subseteq Mods
    /\ flag \in [{"utils", "tools", "mpool"} -> BOOLEAN]
    /\ thread \in [Workers -> {"none", "running", "trying", "exited"}]
    /\ stop \in [Workers -> BOOLEAN]
    /\ table \in [count : Int, initial : Int, pools : Int, sched : Nat, queues : Int, made : Nat]

FlagsUp == \A m \in {"utils", "mpool"} : flag[m] => m \in mods

\* what an executor's thread reads is there
ThreadsServed == \A i \in Workers : thread[i] \in {"running", "trying"} => {"executor", "sched", "mpool"} \subseteq mods

Finishing(t) ==
    /\ GoingDown(todo[t], "finished")
    /\ calls[t] # <<>> /\ Head(calls[t])[1] = "fini"
    /\ \A u \in App \ {t} : todo[u] = <<>> /\ calls[u] = <<>>

\* Where init and fini are.
Phase ==
    /\ ~core.inited => \A t \in App \ {Main} : todo[t] = <<>>
    /\ ~core.inited /\ core.mutex = None => todo[Main] = <<>> /\ mods \subseteq {"barrier"} /\ Running = {}
    /\ ~core.inited /\ core.mutex = Main => GoingUp(todo[Main]) \/ GoingDown(todo[Main], "refused")
    /\ core.inited => /\ core.mutex = None
                      /\ \/ AllUp /\ \A t \in App : Expanding(t)
                         \/ \E t \in App : Finishing(t)

LifeIInv ==
    /\ LifeTypes
    /\ FlagsUp
    /\ ThreadsServed
    /\ core.again => core.inited
    /\ Phase

-----------------------------------------------------------------------------
\* Which thread is in a call, and in which.
Upping(t) == t = Main /\ ~core.inited /\ core.mutex = Main /\ GoingUp(todo[t])
Undoing(t) == t = Main /\ ~core.inited /\ core.mutex = Main /\ GoingDown(todo[t], "refused")
Ending(t) == core.inited /\ core.mutex = None /\ Finishing(t)
Working == core.inited /\ core.mutex = None /\ AllUp /\ \A u \in App : Expanding(u)

\* What is left of an expansion is a list of instructions,
LEMMA ListTypes ==
    /\ <<>> \in Seq(Instrs) /\ E0 \in Seq(Instrs) /\ E1 \in Seq(Instrs) /\ E2 \in Seq(Instrs)
    /\ E3 \in Seq(Instrs) /\ E4 \in Seq(Instrs)
<1>1. \A x \in {"lock", "sched_expand", "memory_expand", "executor_expand", "unlock"} : <<x>> \in Instrs
  BY DEF Instrs
<1> QED
  BY <1>1 DEF E0, E1, E2, E3, E4

\* and its first instruction tells how far it is.
LEMMA ExpandLists ==
    /\ E0 # <<>> /\ Head(E0) = <<"lock">>
    /\ E1 # <<>> /\ Head(E1) = <<"unlock">> /\ Tail(E1) = <<>>
    /\ E2 # <<>> /\ Head(E2) = <<"executor_expand">> /\ Tail(E2) = E1
    /\ E3 # <<>> /\ Head(E3) = <<"memory_expand">> /\ Tail(E3) = E2
    /\ E4 # <<>> /\ Head(E4) = <<"sched_expand">> /\ Tail(E4) = E3
<1> QED
  BY DEF E0, E1, E2, E3, E4

\* A thread's next instruction tells which call it is in.
LEMMA WhoActs ==
    ASSUME LifeIInv, NEW t \in App, NEW kind, Doing(t, kind)
    PROVE  /\ kind \in {"init", "inited"} => Upping(t)
           /\ kind = "refused" => Undoing(t)
           /\ kind = "fini" => Undoing(t) \/ Ending(t)
           /\ kind = "finished" => Ending(t)
           /\ kind \in {"lock", "sched_expand", "memory_expand", "executor_expand", "unlock"} => Working
<1> DEFINE s == todo[t]
<1>1. s # <<>> /\ Head(s)[1] = kind
  BY DEF Doing, Ins
<1>2. CASE ~core.inited
  <2>1. t = Main /\ core.mutex = Main /\ (GoingUp(s) \/ GoingDown(s, "refused"))
    BY <1>1, <1>2 DEF LifeIInv, LifeTypes, Phase
  <2>2. CASE GoingUp(s)
    <3>1. kind \in {"init", "inited"}
      BY <2>2, <1>1, UpHead DEF GoingUp
    <3> QED
      BY <3>1, <2>1, <2>2, <1>2 DEF Upping
  <2>3. CASE GoingDown(s, "refused")
    <3>1. kind \in {"fini", "refused"}
      BY <2>3, <1>1, DownHead DEF GoingDown
    <3> QED
      BY <3>1, <2>1, <2>3, <1>2 DEF Undoing
  <2> QED
    BY <2>1, <2>2, <2>3
<1>3. CASE core.inited
  <2>1. core.mutex = None /\ \/ AllUp /\ \A u \in App : Expanding(u)
                             \/ \E u \in App : Finishing(u)
    BY <1>3 DEF LifeIInv, Phase
  <2>2. CASE AllUp /\ \A u \in App : Expanding(u)
    <3>1. s \in {E0, E1, E2, E3, E4}
      BY <2>2, <1>1 DEF Expanding
    <3>2. kind \in {"lock", "sched_expand", "memory_expand", "executor_expand", "unlock"}
      BY <3>1, <1>1, ExpandLists
    <3> QED
      BY <3>2, <2>1, <2>2, <1>3 DEF Working
  <2>3. ASSUME NEW u \in App, Finishing(u) PROVE Ending(t) /\ kind \in {"fini", "finished"}
    <3>1. t = u
      BY <2>3, <1>1 DEF Finishing
    <3>2. kind \in {"fini", "finished"}
      BY <2>3, <3>1, <1>1, DownHead DEF Finishing, GoingDown
    <3> QED
      BY <3>1, <3>2, <2>1, <2>3, <1>3 DEF Ending
  <2> QED
    BY <2>1, <2>2, <2>3
<1> QED
  BY <1>2, <1>3

\* Between its calls a thread that still has calls to make finds the library up
\* and nobody taking it down.
LEMMA WhoCalls ==
    ASSUME LifeIInv, NEW t \in App, todo[t] = <<>>, calls[t] # <<>>, core.inited
    PROVE  Working
<1>1. ASSUME NEW u \in App, Finishing(u) PROVE FALSE
  <2>1. todo[u] # <<>>
    BY <1>1, DownHead DEF Finishing, GoingDown
  <2> QED
    BY <2>1, <1>1 DEF Finishing
<1> QED
  BY <1>1 DEF LifeIInv, Phase, Working

-----------------------------------------------------------------------------
\* What a step of kupl_init must show of the list it leaves.
LEMMA UpNext ==
    ASSUME program' = program, NEW r, todo'[Main] = r, UpList(r),
           \A m \in Mods \ {"tools"} : m \in mods' \/ Left(r, <<"init", m>>),
           \A i \in Workers : thread'[i] # "none" \/ Left(r, <<"init", "start", i>>),
           geid'[Main] = 0 \/ Left(r, <<"init", "start", 0>>),
           \A p \in Most(r) : /\ \A m \in mods' : Before(m, r[p][2]) \/ m = "barrier"
                              /\ Running' # {} => r[p][2] = "start" \/ Before("start", r[p][2])
    PROVE  GoingUp(todo[Main])'
<1>1. UpList(todo[Main])'
  <2>1. Instrs' = Instrs /\ Most(todo[Main])' = Most(r)
    BY DEF Instrs, Most
  <2>2. \A p : IsStep("init", todo[Main][p])' <=> IsStep("init", r[p])
    BY DEF IsStep
  <2> QED
    BY <2>1, <2>2 DEF UpList
<1>2. \A x : Left(todo[Main], x)' <=> Left(r, x)
  BY DEF Left, Most
<1>3. Most(todo[Main])' = Most(r) /\ Workers' = Workers
  BY DEF Most, Workers
<1>4. (\A m \in Mods \ {"tools"} : m \in mods \/ Left(todo[Main], <<"init", m>>))'
  BY <1>2
<1>5. (\A i \in Workers : thread[i] # "none" \/ Left(todo[Main], <<"init", "start", i>>))'
  BY <1>2, <1>3
<1>6. (geid[Main] = 0 \/ Left(todo[Main], <<"init", "start", 0>>))'
  BY <1>2
<1>7. (\A p \in Most(todo[Main]) : /\ \A m \in mods : Before(m, todo[Main][p][2]) \/ m = "barrier"
                                   /\ Running # {} => todo[Main][p][2] = "start" \/ Before("start", todo[Main][p][2]))'
  BY <1>3
<1> QED
  BY <1>1, <1>4, <1>5, <1>6, <1>7, Zenon DEF GoingUp

\* The same of a list that takes modules down.
LEMMA DownNext ==
    ASSUME program' = program, NEW t, NEW last, NEW r, todo'[t] = r, DownList(r, last),
           \A m \in mods' \ {"barrier"} : Left(r, <<"fini", m>>),
           \A i \in Running' : Left(r, <<"fini", "start", i>>)
    PROVE  GoingDown(todo[t], last)'
<1>1. DownList(todo[t], last)'
  <2>1. /\ Instrs' = Instrs /\ Workers' = Workers /\ Most(todo[t])' = Most(r)
        /\ \A x : IsStep("fini", x)' <=> IsStep("fini", x)
    BY DEF Instrs, Workers, Most, IsStep
  <2>2. \A p : IsStep("fini", todo[t][p])' <=> IsStep("fini", r[p])
    BY DEF IsStep
  <2> QED
    BY <2>1, <2>2 DEF DownList
<1>2. \A x : Left(todo[t], x)' <=> Left(r, x)
  BY DEF Left, Most
<1>3. (\A m \in mods \ {"barrier"} : Left(todo[t], <<"fini", m>>))'
  BY <1>2
<1>4. (\A i \in Running : Left(todo[t], <<"fini", "start", i>>))'
  BY <1>2
<1> QED
  BY <1>1, <1>3, <1>4, Zenon DEF GoingDown

\* A step of kupl_init, or of taking down after a failure.
LEMMA PhaseUp ==
    ASSUME LifeIInv, App' = App, ~ core'.inited, core'.mutex = Main, \A u \in App \ {Main} : todo'[u] = <<>>,
           GoingUp(todo[Main])' \/ GoingDown(todo[Main], "refused")'
    PROVE  Phase'
<1>1. Main # None
  BY DEF Main, None
<1>2. core'.mutex # None
  BY <1>1
<1>3. (~core.inited => \A t \in App \ {Main} : todo[t] = <<>>)'
  OBVIOUS
<1>4. (~core.inited /\ core.mutex = None => todo[Main] = <<>> /\ mods \subseteq {"barrier"} /\ Running = {})'
  BY <1>2
<1>5. (~core.inited /\ core.mutex = Main => GoingUp(todo[Main]) \/ GoingDown(todo[Main], "refused"))'
  OBVIOUS
<1> QED
  BY <1>3, <1>4, <1>5, Zenon DEF Phase

\* A module of kupl_init comes up.
LEMMA InitModuleStep ==
    ASSUME LifeIInv, NEW t \in App, InitModule(t)
    PROVE  LifeIInv'
<1>1. PICK s, x : s = todo[t] /\ x = Head(s)
  OBVIOUS
<1>2. PICK m : m = x[2]
  OBVIOUS
<1>3. /\ s # <<>> /\ x[1] = "init" /\ m # "start" /\ Ins(t) = x /\ Doing(t, "init")
      /\ todo' = [todo EXCEPT ![t] = Tail(s)] /\ program' = program
      /\ UNCHANGED <<calls, core, thread, stop, geid>>
  BY <1>1, <1>2 DEF InitModule, Next1, Doing, Ins
<1>4. t = Main /\ ~core.inited /\ core.mutex = Main /\ GoingUp(s)
  BY <1>1, <1>3, WhoActs DEF Upping
<1>5. /\ UpList(s)
      /\ \A m2 \in Mods \ {"tools"} : m2 \in mods \/ Left(s, <<"init", m2>>)
      /\ \A i \in Workers : thread[i] # "none" \/ Left(s, <<"init", "start", i>>)
      /\ geid[Main] = 0 \/ Left(s, <<"init", "start", 0>>)
      /\ \A p \in Most(s) : /\ \A m2 \in mods : Before(m2, s[p][2]) \/ m2 = "barrier"
                            /\ Running # {} => s[p][2] = "start" \/ Before("start", s[p][2])
  BY <1>4, Zenon DEF GoingUp
<1>6. x # <<"inited">>
  BY <1>3
<1>7. /\ IsStep("init", x) /\ UpList(Tail(s)) /\ 1 \in Most(s) /\ s[1] = x
      /\ \A y : Left(s, y) => y = x \/ Left(Tail(s), y)
      /\ \A p \in Most(Tail(s)) : p + 1 \in Most(s) /\ Tail(s)[p] = s[p + 1]
      /\ \A p \in Most(Tail(s)) : Before(x[2], Tail(s)[p][2]) \/ (x[2] = "start" /\ Tail(s)[p][2] = "start")
  BY <1>1, <1>5, <1>6, UpHead, Zenon
<1>8. m \in Mods /\ x = <<"init", m>>
  BY <1>2, <1>3, <1>7 DEF IsStep
<1>9. /\ mods' = mods \/ mods' = mods \cup {m}
      /\ m \in mods' \/ (m \in DOMAIN flag /\ flag[m] /\ mods' = mods)
      /\ flag' = flag \/ (m \in mods' /\ m \in DOMAIN flag /\ flag' = [flag EXCEPT ![m] = TRUE])
  BY <1>2, <1>3 DEF InitModule, Up, Flagged
<1>10. /\ mods \subseteq Mods /\ flag \in [{"utils", "tools", "mpool"} -> BOOLEAN] /\ FlagsUp
  BY DEF LifeIInv, LifeTypes
<1>11. mods' \subseteq Mods /\ (m \in mods' \/ m = "tools") /\ mods \subseteq mods'
  BY <1>8, <1>9, <1>10 DEF FlagsUp
<1>12. flag' \in [{"utils", "tools", "mpool"} -> BOOLEAN] /\ FlagsUp'
  BY <1>9, <1>10, <1>11 DEF FlagsUp
<1>13. table' \in [count : Int, initial : Int, pools : Int, sched : Nat, queues : Int, made : Nat]
  <2>1. program.n \in Int /\ program.availPu \in Int
    BY ExecutorsAssumption DEF LifeIInv, LifeTypes
  <2>2. table \in [count : Int, initial : Int, pools : Int, sched : Nat, queues : Int, made : Nat]
    BY DEF LifeIInv, LifeTypes
  <2> QED
    BY <2>1, <2>2, <1>2, <1>3 DEF InitModule, Up
<1>14. LifeTypes'
  <2>1. Tail(s) \in Seq(Instrs)
    BY <1>7 DEF UpList
  <2>2. todo' \in [App -> Seq(Instrs)]
    BY <2>1, <1>3 DEF LifeIInv, LifeTypes
  <2>3. App' = App /\ Workers' = Workers /\ Instrs' = Instrs
    BY <1>3 DEF App, Workers, Instrs
  <2> QED
    BY <1>3, <1>11, <1>12, <1>13, <2>2, <2>3 DEF LifeIInv, LifeTypes
<1>15. ThreadsServed'
  <2>1. Workers' = Workers
    BY <1>3 DEF Workers
  <2> QED
    BY <2>1, <1>3, <1>11 DEF LifeIInv, ThreadsServed
<1>16. GoingUp(todo[Main])'
  <2>1. PICK r : r = Tail(s) /\ UpList(r)
    BY <1>7
  <2>2. todo'[Main] = r
    BY <1>3, <1>4, <2>1 DEF LifeIInv, LifeTypes
  <2>3. \A m2 \in Mods \ {"tools"} : m2 \in mods' \/ Left(r, <<"init", m2>>)
    <3>1. \A m2 : <<"init", m2>> = <<"init", m>> => m2 = m
      OBVIOUS
    <3> QED
      BY <3>1, <1>5, <1>7, <1>8, <1>11, <2>1, Zenon
  <2>4. \A i : <<"init", "start", i>> # x
    BY <1>8, <1>3
  <2>5. \A i \in Workers : thread'[i] # "none" \/ Left(r, <<"init", "start", i>>)
    BY <1>3, <1>5, <1>7, <2>1, <2>4, Zenon
  <2>5a. geid'[Main] = 0 \/ Left(r, <<"init", "start", 0>>)
    BY <1>3, <1>5, <1>7, <2>1, <2>4, Zenon
  <2>6. Running' = Running
    BY <1>3 DEF Running, Workers
  <2>7. \A p \in Most(r) : /\ \A m2 \in mods' : Before(m2, r[p][2]) \/ m2 = "barrier"
                           /\ Running' # {} => r[p][2] = "start" \/ Before("start", r[p][2])
    <3> SUFFICES ASSUME NEW p \in Most(r)
                 PROVE  /\ \A m2 \in mods' : Before(m2, r[p][2]) \/ m2 = "barrier"
                        /\ Running # {} => r[p][2] = "start" \/ Before("start", r[p][2])
      BY <2>6
    <3>1. p + 1 \in Most(s) /\ r[p] = s[p + 1] /\ Before(m, r[p][2])
      BY <1>2, <1>3, <1>7, <2>1
    <3>2. /\ \A m2 \in mods : Before(m2, r[p][2]) \/ m2 = "barrier"
          /\ Running # {} => r[p][2] = "start" \/ Before("start", r[p][2])
      BY <3>1, <1>5
    <3> QED
      BY <3>1, <3>2, <1>9
  <2> QED
    BY <1>3, <2>1, <2>2, <2>3, <2>5, <2>5a, <2>7, UpNext
<1>17. Phase'
  <2>1. \A u \in App \ {Main} : todo'[u] = todo[u]
    BY <1>3, <1>4 DEF LifeIInv, LifeTypes
  <2>2. App' = App
    BY <1>3 DEF App
  <2>3. \A u \in App \ {Main} : todo'[u] = <<>>
    BY <2>1, <1>4 DEF LifeIInv, Phase
  <2> QED
    BY <2>2, <2>3, <1>3, <1>4, <1>16, PhaseUp
<1> QED
  BY <1>3, <1>12, <1>14, <1>15, <1>17 DEF LifeIInv

\* A step of a thread that is doing an expansion, or calls something else, with
\* the library up.
LEMMA WorkStep ==
    ASSUME LifeIInv, NEW t \in App, Working, UNCHANGED <<program, lifeVars>>,
           NEW r, r \in {<<>>, E1} \/ (r \in {E0, E2, E3, E4} /\ geid'[t] = Null),
           todo' = [todo EXCEPT ![t] = r], DOMAIN calls' = App, geid' \in [App -> Int],
           \A u \in App : u # t \/ u = Main => geid'[u] = geid[u],
           table' \in [count : Int, initial : Int, pools : Int, sched : Nat, queues : Int, made : Nat]
    PROVE  LifeIInv'
<1>1. /\ App' = App /\ Workers' = Workers /\ Instrs' = Instrs
      /\ UNCHANGED <<program, core, mods, flag, thread, stop>>
  BY DEF App, Workers, Instrs, lifeVars
<1>2. LifeTypes'
  <2>1. r \in Seq(Instrs)
    BY ListTypes
  <2>2. todo' \in [App -> Seq(Instrs)]
    BY <2>1 DEF LifeIInv, LifeTypes
  <2> QED
    BY <1>1, <2>2 DEF LifeIInv, LifeTypes
<1>3. FlagsUp' /\ ThreadsServed'
  BY <1>1 DEF LifeIInv, FlagsUp, ThreadsServed
<1>4. AllUp'
  <2>1. Running' = Running
    BY <1>1 DEF Running
  <2>2. Main \in App
    BY DEF LifeIInv, LifeTypes
  <2> QED
    BY <1>1, <2>1, <2>2 DEF Working, AllUp
<1>5. ASSUME NEW u \in App PROVE Expanding(u)'
  <2>1. Expanding(u)
    BY DEF Working
  <2>2. u # t => todo'[u] = todo[u] /\ geid'[u] = geid[u]
    BY DEF LifeIInv, LifeTypes
  <2>3. u = t => todo'[u] = r
    BY DEF LifeIInv, LifeTypes
  <2> QED
    BY <2>1, <2>2, <2>3 DEF Expanding, E0, E1, E2, E3, E4
<1>6. Phase'
  <2>1. core'.inited /\ core'.mutex = None
    BY <1>1 DEF Working
  <2>2. None # Main
    BY DEF None, Main
  <2>3. (core.inited => core.mutex = None /\ (AllUp /\ (\A u \in App : Expanding(u))))'
    BY <2>1, <1>1, <1>4, <1>5
  <2>4. (~core.inited => \A u \in App \ {Main} : todo[u] = <<>>)'
    BY <2>1
  <2>5. (~core.inited /\ core.mutex = None => todo[Main] = <<>> /\ mods \subseteq {"barrier"} /\ Running = {})'
    BY <2>1
  <2>6. (~core.inited /\ core.mutex = Main => GoingUp(todo[Main]) \/ GoingDown(todo[Main], "refused"))'
    BY <2>1
  <2> QED
    BY <2>3, <2>4, <2>5, <2>6, Zenon DEF Phase
<1> QED
  BY <1>1, <1>2, <1>3, <1>6 DEF LifeIInv

\* A step of taking down.
LEMMA DownStep ==
    ASSUME LifeIInv, NEW t \in App, NEW last \in {"refused", "finished"},
           last = "refused" => Undoing(t), last = "finished" => Ending(t),
           UNCHANGED <<program, calls, core>>, LifeTypes', FlagsUp', ThreadsServed',
           \A u \in App \ {t} : todo'[u] = todo[u], GoingDown(todo[t], last)'
    PROVE  LifeIInv'
<1>1. App' = App
  BY DEF App
<1>2. CASE last = "refused"
  <2>1. t = Main /\ ~core'.inited /\ core'.mutex = Main
    BY <1>2 DEF Undoing
  <2>2. \A u \in App \ {Main} : todo'[u] = <<>>
    BY <2>1 DEF LifeIInv, Phase
  <2>3. Phase'
    BY <1>1, <1>2, <2>1, <2>2, PhaseUp
  <2> QED
    BY <2>3 DEF LifeIInv
<1>3. CASE last = "finished"
  <2>1. core'.inited /\ core'.mutex = None
    BY <1>3 DEF Ending
  <2>2. Finishing(t)'
    BY <1>1, <1>3 DEF Ending, Finishing
  <2>3. (core.inited => core.mutex = None /\ \E u \in App : Finishing(u))'
    BY <1>1, <2>1, <2>2
  <2>4. (~core.inited => \A u \in App \ {Main} : todo[u] = <<>>)'
    BY <2>1
  <2>5. (~core.inited /\ core.mutex = None => todo[Main] = <<>> /\ mods \subseteq {"barrier"} /\ Running = {})'
    BY <2>1
  <2>6. (~core.inited /\ core.mutex = Main => GoingUp(todo[Main]) \/ GoingDown(todo[Main], "refused"))'
    BY <2>1
  <2>7. Phase'
    BY <2>3, <2>4, <2>5, <2>6, Zenon DEF Phase
  <2> QED
    BY <2>7 DEF LifeIInv
<1> QED
  BY <1>2, <1>3

\* What a step does to the counts and the expanded scheduler keeps their types.
LEMMA TableStep ==
    ASSUME table \in [count : Int, initial : Int, pools : Int, sched : Nat, queues : Int, made : Nat],
           \/ table' = [table EXCEPT !.sched = table.made + 1, !.made = @ + 1, !.queues = 1]
           \/ table' = [table EXCEPT !.queues = @ + 1]
           \/ table' = [table EXCEPT !.sched = None, !.queues = 0]
           \/ table' = [table EXCEPT !.pools = @ + 1]
           \/ table' = [table EXCEPT !.pools = @ - 1, !.sched = None, !.queues = 0]
           \/ table' = [table EXCEPT !.count = @ + 1]
           \/ table' = [table EXCEPT !.count = 0]
           \/ table' = [table EXCEPT !.pools = 0]
    PROVE  table' \in [count : Int, initial : Int, pools : Int, sched : Nat, queues : Int, made : Nat]
<1> DEFINE T == [count : Int, initial : Int, pools : Int, sched : Nat, queues : Int, made : Nat]
<1>1. ASSUME NEW b \in T, NEW k \in Int, NEW m \in Nat
      PROVE  /\ [b EXCEPT !.count = k] \in T /\ [b EXCEPT !.pools = k] \in T /\ [b EXCEPT !.queues = k] \in T
             /\ [b EXCEPT !.sched = m] \in T /\ [b EXCEPT !.made = m] \in T
  OBVIOUS
<1>2. ASSUME NEW b \in T, NEW k \in Int, NEW m \in Nat, NEW j \in Int, NEW l \in Nat
      PROVE  /\ [b EXCEPT !.sched = m, !.queues = k] \in T
             /\ [b EXCEPT !.sched = m, !.made = l, !.queues = k] \in T
             /\ [b EXCEPT !.pools = j, !.sched = m, !.queues = k] \in T
  <2>1. PICK c : c = [b EXCEPT !.sched = m]
    OBVIOUS
  <2>2. PICK d : d = [c EXCEPT !.made = l]
    OBVIOUS
  <2>3. PICK e : e = [b EXCEPT !.pools = j]
    OBVIOUS
  <2>4. PICK f : f = [e EXCEPT !.sched = m]
    OBVIOUS
  <2>4a. c \in T /\ e \in T
    BY <1>1, <2>1, <2>3
  <2>4b. d \in T /\ f \in T
    BY <1>1, <2>2, <2>4, <2>4a
  <2>5. /\ [b EXCEPT !.sched = m, !.queues = k] = [c EXCEPT !.queues = k]
        /\ [b EXCEPT !.sched = m, !.made = l, !.queues = k] = [d EXCEPT !.queues = k]
        /\ [b EXCEPT !.pools = j, !.sched = m, !.queues = k] = [f EXCEPT !.queues = k]
    BY <2>1, <2>2, <2>3, <2>4
  <2>6. [c EXCEPT !.queues = k] \in T /\ [d EXCEPT !.queues = k] \in T /\ [f EXCEPT !.queues = k] \in T
    BY <2>4a, <2>4b, <1>1
  <2> QED
    BY <2>5, <2>6
<1>3. /\ None \in Nat /\ 0 \in Int /\ 1 \in Int /\ table.made + 1 \in Nat /\ table.queues + 1 \in Int
      /\ table.pools + 1 \in Int /\ table.pools - 1 \in Int /\ table.count + 1 \in Int /\ table \in T
  BY DEF None
<1> HIDE DEF T
<1>4. table' \in T
  <2>1. /\ [table EXCEPT !.sched = table.made + 1, !.made = table.made + 1, !.queues = 1] \in T
        /\ [table EXCEPT !.sched = None, !.queues = 0] \in T
        /\ [table EXCEPT !.pools = table.pools - 1, !.sched = None, !.queues = 0] \in T
    BY <1>2, <1>3, Zenon
  <2>2. /\ [table EXCEPT !.queues = table.queues + 1] \in T /\ [table EXCEPT !.pools = table.pools + 1] \in T
        /\ [table EXCEPT !.count = table.count + 1] \in T /\ [table EXCEPT !.count = 0] \in T
        /\ [table EXCEPT !.pools = 0] \in T
    BY <1>1, <1>3, Zenon
  <2> QED
    BY <2>1, <2>2, Zenon
<1> QED
  BY <1>4 DEF T

\* A module is taken down: the threads that read it have been stopped.
LEMMA FiniModuleStep ==
    ASSUME LifeIInv, NEW t \in App, FiniModule(t)
    PROVE  LifeIInv'
<1>1. PICK s, x : s = todo[t] /\ x = Head(s)
  OBVIOUS
<1>2. PICK m : m = x[2]
  OBVIOUS
<1>3. /\ s # <<>> /\ x[1] = "fini" /\ m # "start" /\ Ins(t) = x /\ Doing(t, "fini")
      /\ todo' = [todo EXCEPT ![t] = Tail(s)] /\ program' = program
      /\ UNCHANGED <<calls, core, thread, stop, geid>>
      /\ mods' = mods \ {m}
      /\ flag' = IF Lowered(m) THEN [flag EXCEPT ![m] = FALSE] ELSE flag
  BY <1>1, <1>2 DEF FiniModule, Next1, Doing, Ins
<1>4. PICK last \in {"refused", "finished"} :
         GoingDown(s, last) /\ (last = "refused" => Undoing(t)) /\ (last = "finished" => Ending(t))
  BY <1>1, <1>3, WhoActs DEF Undoing, Ending, Finishing
<1>5. /\ DownList(s, last)
      /\ \A y \in mods \ {"barrier"} : Left(s, <<"fini", y>>)
      /\ \A i \in Running : Left(s, <<"fini", "start", i>>)
  BY <1>4, Zenon DEF GoingDown
<1>6. x # <<last>>
  BY <1>3, <1>4
<1>7. /\ IsStep("fini", x) /\ DownList(Tail(s), last)
      /\ \A y : Left(s, y) => y = x \/ Left(Tail(s), y)
      /\ \A p \in Most(Tail(s)) : Tail(s)[p][2] = "start" => x[2] \notin {"executor", "sched", "mpool"}
  BY <1>1, <1>5, <1>6, DownHead, Zenon
<1>8. m \in Mods /\ x = <<"fini", m>>
  BY <1>2, <1>3, <1>7 DEF IsStep
<1>9. /\ mods \subseteq Mods /\ flag \in [{"utils", "tools", "mpool"} -> BOOLEAN] /\ FlagsUp
  BY DEF LifeIInv, LifeTypes
<1>10. flag' \in [{"utils", "tools", "mpool"} -> BOOLEAN] /\ FlagsUp'
  BY <1>3, <1>9 DEF FlagsUp, Lowered
<1>11. table' \in [count : Int, initial : Int, pools : Int, sched : Nat, queues : Int, made : Nat]
  <2>1. table \in [count : Int, initial : Int, pools : Int, sched : Nat, queues : Int, made : Nat]
    BY DEF LifeIInv, LifeTypes
  <2>2. \/ table' = [table EXCEPT !.sched = 0, !.queues = 0]
        \/ table' = [table EXCEPT !.count = 0]
        \/ table' = [table EXCEPT !.pools = 0]
        \/ table' = table
    <3>1. table' = CASE m = "sched" -> [table EXCEPT !.sched = None, !.queues = 0]
                     [] m = "executor" -> [table EXCEPT !.count = 0]
                     [] m = "mpool" -> [table EXCEPT !.pools = 0]
                     [] OTHER -> table
      BY <1>2, <1>3, Zenon DEF FiniModule
    <3> QED
      BY <3>1 DEF None
  <2> QED
    BY <2>1, <2>2, TableStep DEF None
<1>12. LifeTypes'
  <2>1. Tail(s) \in Seq(Instrs)
    BY <1>7 DEF DownList
  <2>2. todo' \in [App -> Seq(Instrs)]
    BY <2>1, <1>3 DEF LifeIInv, LifeTypes
  <2>3. App' = App /\ Workers' = Workers /\ Instrs' = Instrs
    BY <1>3 DEF App, Workers, Instrs
  <2> QED
    BY <1>3, <1>9, <1>10, <1>11, <2>2, <2>3 DEF LifeIInv, LifeTypes
<1>13. \A i : <<"fini", "start", i>> # x
  BY <1>8, <1>3
<1>14. \A i \in Running : Left(Tail(s), <<"fini", "start", i>>)
  BY <1>5, <1>7, <1>13, Zenon
<1>15. m \in {"executor", "sched", "mpool"} => Running = {}
  <2> SUFFICES ASSUME m \in {"executor", "sched", "mpool"}, NEW i \in Running PROVE FALSE
    OBVIOUS
  <2>1. PICK p \in Most(Tail(s)) : Tail(s)[p] = <<"fini", "start", i>>
    BY <1>14 DEF Left
  <2>2. FALSE
    <3>0. <<"fini", "start", i>>[2] = "start"
      OBVIOUS
    <3>1. Tail(s)[p][2] = "start"
      BY <2>1, <3>0, Zenon
    <3> QED
      BY <3>1, <1>2, <1>7, Zenon
  <2> QED
    BY <2>2
<1>16. ThreadsServed'
  <2>1. Workers' = Workers /\ ThreadsServed
    BY <1>3 DEF Workers, LifeIInv
  <2> QED
    BY <2>1, <1>3, <1>15 DEF ThreadsServed, Running
<1>17. GoingDown(todo[t], last)'
  <2>1. PICK r : r = Tail(s) /\ DownList(r, last)
    BY <1>7
  <2>2. todo'[t] = r
    BY <1>3, <2>1 DEF LifeIInv, LifeTypes
  <2>3. \A y \in mods' \ {"barrier"} : Left(r, <<"fini", y>>)
    <3>1. \A y : <<"fini", y>> = <<"fini", m>> => y = m
      OBVIOUS
    <3>2. \A y \in mods' \ {"barrier"} : y \in mods \ {"barrier"} /\ y # m
      BY <1>3
    <3> QED
      BY <3>1, <3>2, <1>5, <1>7, <1>8, <2>1, Zenon
  <2>4. Running' = Running
    BY <1>3 DEF Running, Workers
  <2>5. \A i \in Running' : Left(r, <<"fini", "start", i>>)
    BY <2>1, <2>4, <1>14
  <2> QED
    BY <1>3, <2>1, <2>2, <2>3, <2>5, DownNext
<1>18. \A u \in App \ {t} : todo'[u] = todo[u]
  BY <1>3 DEF LifeIInv, LifeTypes
<1> QED
  BY <1>3, <1>4, <1>10, <1>12, <1>16, <1>17, <1>18, DownStep

\* An executor's thread is told to stop, joined, or found not to be there.
LEMMA StopExecutorStep ==
    ASSUME LifeIInv, NEW t \in App, StopExecutor(t)
    PROVE  LifeIInv'
<1>1. PICK s, x : s = todo[t] /\ x = Head(s)
  OBVIOUS
<1>2. PICK i : i = x[3]
  OBVIOUS
<1>3. /\ s # <<>> /\ x[1] = "fini" /\ x[2] = "start" /\ Doing(t, "fini")
      /\ program' = program /\ UNCHANGED <<calls, core, mods, flag, geid, table>>
  BY <1>1 DEF StopExecutor, Doing, Ins, expandVars
<1>4. \/ thread' = thread /\ todo' = todo /\ stop' = [stop EXCEPT ![i] = TRUE]
      \/ /\ thread[i] = "exited" /\ thread' = [thread EXCEPT ![i] = "none"]
         /\ todo' = [todo EXCEPT ![t] = Tail(s)] /\ stop' = stop
      \/ thread[i] = "none" /\ thread' = thread /\ todo' = [todo EXCEPT ![t] = Tail(s)] /\ stop' = stop
  BY <1>1, <1>2 DEF StopExecutor, Next1, Ins
<1>5. PICK last \in {"refused", "finished"} :
         GoingDown(s, last) /\ (last = "refused" => Undoing(t)) /\ (last = "finished" => Ending(t))
  BY <1>1, <1>3, WhoActs DEF Undoing, Ending, Finishing
<1>6. /\ DownList(s, last)
      /\ \A y \in mods \ {"barrier"} : Left(s, <<"fini", y>>)
      /\ \A w \in Running : Left(s, <<"fini", "start", w>>)
  BY <1>5, Zenon DEF GoingDown
<1>7. x # <<last>>
  BY <1>3, <1>5
<1>8. /\ IsStep("fini", x) /\ DownList(Tail(s), last) /\ i \in Workers
      /\ \A y : Left(s, y) => y = x \/ Left(Tail(s), y)
  BY <1>1, <1>2, <1>3, <1>6, <1>7, DownHead, Zenon
<1>9. x = <<"fini", "start", i>>
  BY <1>2, <1>3, <1>8 DEF IsStep, Mods
<1>10. /\ App' = App /\ Workers' = Workers /\ Instrs' = Instrs
  BY <1>3 DEF App, Workers, Instrs
<1>11. /\ todo \in [App -> Seq(Instrs)] /\ stop \in [Workers -> BOOLEAN]
       /\ thread \in [Workers -> {"none", "running", "trying", "exited"}]
  BY DEF LifeIInv, LifeTypes
<1>12. LifeTypes'
  <2>1. Tail(s) \in Seq(Instrs)
    BY <1>8 DEF DownList
  <2>2. todo' \in [App -> Seq(Instrs)]
    BY <2>1, <1>4, <1>11
  <2>3. stop' \in [Workers -> BOOLEAN] /\ thread' \in [Workers -> {"none", "running", "trying", "exited"}]
    BY <1>4, <1>8, <1>11
  <2> QED
    BY <1>3, <1>10, <2>2, <2>3 DEF LifeIInv, LifeTypes
<1>13. \A w \in Workers : thread'[w] = thread[w] \/ (w = i /\ thread'[w] = "none" /\ todo'[t] = Tail(s))
  BY <1>4, <1>8, <1>11
<1>14. FlagsUp' /\ ThreadsServed'
  <2>1. ThreadsServed /\ FlagsUp
    BY DEF LifeIInv
  <2> QED
    BY <2>1, <1>3, <1>10, <1>13 DEF ThreadsServed, FlagsUp
<1>15. Running' \subseteq Running
  BY <1>10, <1>13 DEF Running
<1>16. CASE todo' = todo
  <2>1. GoingDown(todo[t], last)'
    <3>1. todo'[t] = s
      BY <1>1, <1>16
    <3> QED
      BY <3>1, <1>3, <1>6, <1>15, DownNext
  <2>2. \A u \in App \ {t} : todo'[u] = todo[u]
    BY <1>4, <1>11
  <2> QED
    BY <1>3, <1>5, <1>12, <1>14, <2>1, <2>2, DownStep
<1>17. CASE todo' = [todo EXCEPT ![t] = Tail(s)] /\ thread'[i] = "none"
  <2>1. PICK r : r = Tail(s) /\ DownList(r, last)
    BY <1>8
  <2>2. \A y : <<"fini", y>> # <<"fini", "start", i>>
    OBVIOUS
  <2>3. \A y \in mods' \ {"barrier"} : Left(r, <<"fini", y>>)
    BY <1>3, <1>6, <1>8, <1>9, <2>1, <2>2, Zenon
  <2>4. \A w : <<"fini", "start", w>> = <<"fini", "start", i>> => w = i
    OBVIOUS
  <2>5. \A w \in Running' : Left(r, <<"fini", "start", w>>)
    <3>1. i \notin Running'
      BY <1>17 DEF Running
    <3> QED
      BY <3>1, <1>6, <1>8, <1>9, <1>15, <2>1, <2>4, Zenon
  <2>6. GoingDown(todo[t], last)'
    <3>1. todo'[t] = r
      BY <1>11, <1>17, <2>1
    <3> QED
      BY <3>1, <1>3, <2>1, <2>3, <2>5, DownNext
  <2>7. \A u \in App \ {t} : todo'[u] = todo[u]
    BY <1>4, <1>11
  <2> QED
    BY <1>3, <1>5, <1>12, <1>14, <2>6, <2>7, DownStep
<1> QED
  BY <1>4, <1>8, <1>11, <1>16, <1>17

\* An executor starts: the scheduler, the pools and the table are up before.
LEMMA InitStartStep ==
    ASSUME LifeIInv, NEW t \in App, InitStart(t)
    PROVE  LifeIInv'
<1>1. PICK s, x : s = todo[t] /\ x = Head(s)
  OBVIOUS
<1>2. PICK i : i = x[3]
  OBVIOUS
<1>3. /\ s # <<>> /\ x[1] = "init" /\ x[2] = "start" /\ Doing(t, "init")
      /\ todo' = [todo EXCEPT ![t] = Tail(s)] /\ program' = program
      /\ UNCHANGED <<calls, core, mods, flag, table>>
      /\ \/ i = 0 /\ geid' = [geid EXCEPT ![t] = 0] /\ UNCHANGED <<thread, stop>>
         \/ /\ i # 0 /\ thread' = [thread EXCEPT ![i] = "running"]
            /\ stop' = [stop EXCEPT ![i] = FALSE] /\ UNCHANGED geid
  BY <1>1, <1>2 DEF InitStart, Next1, Doing, Ins
<1>4. t = Main /\ ~core.inited /\ core.mutex = Main /\ GoingUp(s)
  BY <1>1, <1>3, WhoActs DEF Upping
<1>5. /\ UpList(s)
      /\ \A m2 \in Mods \ {"tools"} : m2 \in mods \/ Left(s, <<"init", m2>>)
      /\ \A w \in Workers : thread[w] # "none" \/ Left(s, <<"init", "start", w>>)
      /\ geid[Main] = 0 \/ Left(s, <<"init", "start", 0>>)
      /\ \A p \in Most(s) : /\ \A m2 \in mods : Before(m2, s[p][2]) \/ m2 = "barrier"
                            /\ Running # {} => s[p][2] = "start" \/ Before("start", s[p][2])
  BY <1>4, Zenon DEF GoingUp
<1>6. x # <<"inited">>
  BY <1>3
<1>7. /\ IsStep("init", x) /\ UpList(Tail(s)) /\ 1 \in Most(s) /\ s[1] = x
      /\ \A y : Left(s, y) => y = x \/ Left(Tail(s), y)
      /\ \A p \in Most(Tail(s)) : p + 1 \in Most(s) /\ Tail(s)[p] = s[p + 1]
      /\ \A p \in Most(Tail(s)) : Before(x[2], Tail(s)[p][2]) \/ (x[2] = "start" /\ Tail(s)[p][2] = "start")
  BY <1>1, <1>5, <1>6, UpHead, Zenon
<1>8. x = <<"init", "start", i>> /\ i \in 0 .. program.n - 1
  BY <1>2, <1>3, <1>7 DEF IsStep, Mods
<1>9. program.n \in Nat \ {0}
  BY ExecutorsAssumption DEF LifeIInv, LifeTypes
<1>10. /\ App' = App /\ Workers' = Workers /\ Instrs' = Instrs
  BY <1>3 DEF App, Workers, Instrs
<1>11. /\ todo \in [App -> Seq(Instrs)] /\ stop \in [Workers -> BOOLEAN] /\ Main \in App
       /\ thread \in [Workers -> {"none", "running", "trying", "exited"}] /\ geid \in [App -> Int]
  BY DEF LifeIInv, LifeTypes
<1>12. i # 0 => i \in Workers
  BY <1>8, <1>9 DEF Workers
<1>13. LifeTypes'
  <2>1. Tail(s) \in Seq(Instrs)
    BY <1>7 DEF UpList
  <2>2. todo' \in [App -> Seq(Instrs)]
    BY <2>1, <1>3, <1>11
  <2>3. stop' \in [Workers -> BOOLEAN] /\ thread' \in [Workers -> {"none", "running", "trying", "exited"}]
    BY <1>3, <1>11, <1>12
  <2>4. geid' \in [App -> Int]
    BY <1>3, <1>11
  <2> QED
    BY <1>3, <1>10, <2>2, <2>3, <2>4 DEF LifeIInv, LifeTypes
<1>14. {"executor", "sched", "mpool"} \subseteq mods
  <2> SUFFICES ASSUME NEW m \in {"executor", "sched", "mpool"}, m \notin mods PROVE FALSE
    OBVIOUS
  <2>1. m \in Mods \ {"tools"}
    BY DEF Mods
  <2>2. <<"init", m>> # x
    BY <1>8
  <2>3. Left(Tail(s), <<"init", m>>)
    BY <2>1, <2>2, <1>5, <1>7, Zenon
  <2>4. PICK p \in Most(Tail(s)) : Tail(s)[p] = <<"init", m>>
    BY <2>3 DEF Left
  <2>5. <<"init", m>>[2] = m /\ m # "start"
    OBVIOUS
  <2>6. Before("start", m)
    BY <2>4, <2>5, <1>3, <1>7, Zenon
  <2> QED
    BY <2>6, BeforeIs
<1>15. FlagsUp' /\ ThreadsServed'
  <2>1. FlagsUp
    BY DEF LifeIInv
  <2> QED
    BY <2>1, <1>3, <1>14 DEF ThreadsServed, FlagsUp
<1>16. GoingUp(todo[Main])'
  <2>1. PICK r : r = Tail(s) /\ UpList(r)
    BY <1>7
  <2>2. todo'[Main] = r
    BY <1>3, <1>4, <1>11, <2>1
  <2>3. \A m2 \in Mods \ {"tools"} : m2 \in mods' \/ Left(r, <<"init", m2>>)
    <3>1. \A y : <<"init", y>> # <<"init", "start", i>>
      OBVIOUS
    <3> QED
      BY <3>1, <1>3, <1>5, <1>7, <1>8, <2>1, Zenon
  <2>4. \A y : <<"init", "start", y>> = <<"init", "start", i>> => y = i
    OBVIOUS
  <2>5. \A w \in Workers : thread'[w] # "none" \/ Left(r, <<"init", "start", w>>)
    <3> SUFFICES ASSUME NEW w \in Workers, thread'[w] = "none" PROVE Left(r, <<"init", "start", w>>)
      OBVIOUS
    <3>1. w # 0
      BY DEF Workers
    <3>2. thread[w] = "none" /\ w # i
      BY <3>1, <1>3, <1>11, <1>12
    <3> QED
      BY <3>2, <1>5, <1>7, <1>8, <2>1, <2>4, Zenon
  <2>6. geid'[Main] = 0 \/ Left(r, <<"init", "start", 0>>)
    <3>1. CASE i = 0
      BY <3>1, <1>3, <1>4, <1>11
    <3>2. CASE i # 0
      BY <3>2, <1>3, <1>5, <1>7, <1>8, <2>1, <2>4, Zenon
    <3> QED
      BY <3>1, <3>2
  <2>7. \A p \in Most(r) : /\ \A m2 \in mods' : Before(m2, r[p][2]) \/ m2 = "barrier"
                           /\ Running' # {} => r[p][2] = "start" \/ Before("start", r[p][2])
    <3> SUFFICES ASSUME NEW p \in Most(r)
                 PROVE  /\ \A m2 \in mods : Before(m2, r[p][2]) \/ m2 = "barrier"
                        /\ r[p][2] = "start" \/ Before("start", r[p][2])
      BY <1>3
    <3>1. p + 1 \in Most(s) /\ r[p] = s[p + 1] /\ (Before("start", r[p][2]) \/ r[p][2] = "start")
      BY <1>3, <1>7, <2>1
    <3>2. \A m2 \in mods : Before(m2, r[p][2]) \/ m2 = "barrier"
      BY <3>1, <1>5
    <3> QED
      BY <3>1, <3>2
  <2> QED
    BY <1>3, <2>1, <2>2, <2>3, <2>5, <2>6, <2>7, UpNext
<1>17. Phase'
  <2>1. \A u \in App \ {Main} : todo'[u] = todo[u]
    BY <1>3, <1>4, <1>11
  <2>2. \A u \in App \ {Main} : todo'[u] = <<>>
    BY <2>1, <1>4 DEF LifeIInv, Phase
  <2> QED
    BY <1>10, <2>2, <1>3, <1>4, <1>16, PhaseUp
<1> QED
  BY <1>3, <1>13, <1>15, <1>17 DEF LifeIInv

\* A module, or a thread, cannot come up: all that is up is left to take down.
LEMMA InitFailsStep ==
    ASSUME LifeIInv, NEW t \in App, InitFails(t)
    PROVE  LifeIInv'
<1>1. PICK s, x : s = todo[t] /\ x = Head(s)
  OBVIOUS
<1>2. PICK m : m = x[2]
  OBVIOUS
<1>3. /\ s # <<>> /\ x[1] = "init" /\ Doing(t, "init") /\ m # "barrier"
      /\ todo' = [todo EXCEPT ![t] = Append(Undo(m), <<"refused">>)] /\ program' = program
      /\ UNCHANGED <<calls, core, mods, flag, table, thread, stop, geid>>
  BY <1>1, <1>2 DEF InitFails, Doing, Ins, lifeVars, expandVars, CanFail
<1>4. t = Main /\ ~core.inited /\ core.mutex = Main /\ GoingUp(s)
  BY <1>1, <1>3, WhoActs DEF Upping
<1>5. /\ UpList(s)
      /\ \A p \in Most(s) : /\ \A m2 \in mods : Before(m2, s[p][2]) \/ m2 = "barrier"
                            /\ Running # {} => s[p][2] = "start" \/ Before("start", s[p][2])
  BY <1>4, Zenon DEF GoingUp
<1>6. x # <<"inited">>
  BY <1>3
<1>7. 1 \in Most(s) /\ s[1] = x
  BY <1>1, <1>5, <1>6, UpHead, Zenon
<1>8. /\ \A m2 \in mods : Before(m2, m) \/ m2 = "barrier"
      /\ Running # {} => m = "start" \/ Before("start", m)
  BY <1>2, <1>5, <1>7
<1>9. program.n \in Nat \ {0}
  BY ExecutorsAssumption DEF LifeIInv, LifeTypes
<1>10. PICK r : r = Append(Undo(m), <<"refused">>)
  OBVIOUS
<1>11. /\ DownList(r, "refused")
       /\ \A m2 \in Mods \ {"barrier"} : Before(m2, m) => Left(r, <<"fini", m2>>)
       /\ m = "start" \/ Before("start", m) => \A w \in Workers : Left(r, <<"fini", "start", w>>)
  BY <1>9, <1>10, UndoNew
<1>12. /\ App' = App /\ Workers' = Workers /\ Instrs' = Instrs
  BY <1>3 DEF App, Workers, Instrs
<1>13. /\ todo \in [App -> Seq(Instrs)] /\ Main \in App /\ mods \subseteq Mods
  BY DEF LifeIInv, LifeTypes
<1>14. LifeTypes'
  <2>1. r \in Seq(Instrs)
    BY <1>11 DEF DownList
  <2>2. todo' \in [App -> Seq(Instrs)]
    BY <2>1, <1>3, <1>10, <1>13
  <2> QED
    BY <1>3, <1>12, <2>2 DEF LifeIInv, LifeTypes
<1>15. FlagsUp' /\ ThreadsServed'
  <2>1. FlagsUp /\ ThreadsServed
    BY DEF LifeIInv
  <2> QED
    BY <2>1, <1>3, <1>12 DEF ThreadsServed, FlagsUp
<1>16. GoingDown(todo[Main], "refused")'
  <2>1. todo'[Main] = r
    BY <1>3, <1>4, <1>10, <1>13
  <2>2. \A m2 \in mods' \ {"barrier"} : Left(r, <<"fini", m2>>)
    BY <1>3, <1>8, <1>11, <1>13
  <2>3. Running' = Running /\ Running \subseteq Workers
    BY <1>3 DEF Running, Workers
  <2>4. \A w \in Running' : Left(r, <<"fini", "start", w>>)
    BY <2>3, <1>8, <1>11
  <2> QED
    BY <1>3, <1>11, <2>1, <2>2, <2>4, DownNext
<1>17. Phase'
  <2>1. \A u \in App \ {Main} : todo'[u] = todo[u]
    BY <1>3, <1>4, <1>13
  <2>2. \A u \in App \ {Main} : todo'[u] = <<>>
    BY <2>1, <1>4 DEF LifeIInv, Phase
  <2> QED
    BY <1>12, <2>2, <1>3, <1>4, <1>16, PhaseUp
<1> QED
  BY <1>3, <1>14, <1>15, <1>17 DEF LifeIInv

\* The library is up.
LEMMA InitDoneStep ==
    ASSUME LifeIInv, NEW t \in App, InitDone(t)
    PROVE  LifeIInv'
<1>1. PICK s : s = todo[t]
  OBVIOUS
<1>3. /\ s # <<>> /\ Head(s)[1] = "inited" /\ Doing(t, "inited")
      /\ todo' = [todo EXCEPT ![t] = Tail(s)] /\ program' = program
      /\ core' = [core EXCEPT !.inited = TRUE, !.mutex = None]
      /\ UNCHANGED <<calls, mods, flag, thread, stop, table, geid>>
  BY <1>1 DEF InitDone, Next1, Doing, Ins, expandVars
<1>4. t = Main /\ ~core.inited /\ core.mutex = Main /\ GoingUp(s)
  BY <1>1, <1>3, WhoActs DEF Upping
<1>5. /\ UpList(s)
      /\ \A m \in Mods \ {"tools"} : m \in mods \/ Left(s, <<"init", m>>)
      /\ \A w \in Workers : thread[w] # "none" \/ Left(s, <<"init", "start", w>>)
      /\ geid[Main] = 0 \/ Left(s, <<"init", "start", 0>>)
  BY <1>4, Zenon DEF GoingUp
<1>6. Tail(s) = <<>> /\ \A y : ~ Left(s, y)
  BY <1>3, <1>5, UpHead
<1>7. /\ App' = App /\ Workers' = Workers /\ Instrs' = Instrs
  BY <1>3 DEF App, Workers, Instrs
<1>8. /\ todo \in [App -> Seq(Instrs)] /\ core \in [inited : BOOLEAN, mutex : {None, Main}, again : BOOLEAN]
  BY DEF LifeIInv, LifeTypes
<1>9. core'.inited /\ core'.mutex = None /\ core' \in [inited : BOOLEAN, mutex : {None, Main}, again : BOOLEAN]
  BY <1>3, <1>8
<1>10. \A u \in App : todo'[u] = <<>>
  <2>1. \A u \in App \ {Main} : todo[u] = <<>>
    BY <1>4 DEF LifeIInv, Phase
  <2> QED
    BY <2>1, <1>3, <1>4, <1>6, <1>8
<1>11. LifeTypes'
  <2>1. todo' \in [App -> Seq(Instrs)]
    BY <1>3, <1>6, <1>8, ListTypes
  <2> QED
    BY <1>3, <1>7, <1>9, <2>1 DEF LifeIInv, LifeTypes
<1>12. FlagsUp' /\ ThreadsServed'
  BY <1>3, <1>7 DEF LifeIInv, FlagsUp, ThreadsServed
<1>13. AllUp'
  <2>1. Running' = Workers
    BY <1>3, <1>5, <1>6, <1>7 DEF Running
  <2> QED
    BY <2>1, <1>3, <1>5, <1>6, <1>7 DEF AllUp
<1>14. Phase'
  <2>1. (\A u \in App : Expanding(u))'
    BY <1>7, <1>10 DEF Expanding
  <2>2. (core.inited => core.mutex = None /\ AllUp /\ \A u \in App : Expanding(u))'
    BY <1>9, <1>13, <2>1
  <2>3. (~core.inited => \A u \in App \ {Main} : todo[u] = <<>>)'
    BY <1>9
  <2>4. (~core.inited /\ core.mutex = None => todo[Main] = <<>> /\ mods \subseteq {"barrier"} /\ Running = {})'
    BY <1>9
  <2>5. (~core.inited /\ core.mutex = Main => GoingUp(todo[Main]) \/ GoingDown(todo[Main], "refused"))'
    BY <1>9
  <2> QED
    BY <2>2, <2>3, <2>4, <2>5, Zenon DEF Phase
<1> QED
  BY <1>9, <1>11, <1>12, <1>14 DEF LifeIInv

\* When the library is down, and nobody is in kupl_init.
LEMMA PhaseDown ==
    ASSUME ~core'.inited, core'.mutex = None, \A u \in App' : todo'[u] = <<>>, Main \in App',
           mods' \subseteq {"barrier"}, Running' = {}
    PROVE  Phase'
<1>1. None # Main
  BY DEF None, Main
<1>2. (~core.inited => \A u \in App \ {Main} : todo[u] = <<>>)'
  OBVIOUS
<1>3. (~core.inited /\ core.mutex = None => todo[Main] = <<>> /\ mods \subseteq {"barrier"} /\ Running = {})'
  OBVIOUS
<1>4. (~core.inited /\ core.mutex = Main => GoingUp(todo[Main]) \/ GoingDown(todo[Main], "refused"))'
  BY <1>1
<1> QED
  BY <1>2, <1>3, <1>4, Zenon DEF Phase

\* All has been taken down after a failure.
LEMMA InitRefusedStep ==
    ASSUME LifeIInv, NEW t \in App, InitRefused(t)
    PROVE  LifeIInv'
<1>1. PICK s : s = todo[t]
  OBVIOUS
<1>3. /\ s # <<>> /\ Head(s)[1] = "refused" /\ Doing(t, "refused")
      /\ todo' = [todo EXCEPT ![t] = Tail(s)] /\ program' = program
      /\ core' = [core EXCEPT !.mutex = None] /\ DOMAIN calls' = DOMAIN calls
      /\ UNCHANGED <<mods, flag, thread, stop, table, geid>>
  BY <1>1 DEF InitRefused, Next1, Doing, Ins, expandVars
<1>4. t = Main /\ ~core.inited /\ core.mutex = Main /\ GoingDown(s, "refused")
  BY <1>1, <1>3, WhoActs DEF Undoing
<1>5. /\ DownList(s, "refused")
      /\ \A m \in mods \ {"barrier"} : Left(s, <<"fini", m>>)
      /\ \A i \in Running : Left(s, <<"fini", "start", i>>)
  BY <1>4, Zenon DEF GoingDown
<1>6. Tail(s) = <<>> /\ \A y : ~ Left(s, y)
  BY <1>3, <1>5, DownHead
<1>7. /\ App' = App /\ Workers' = Workers /\ Instrs' = Instrs /\ Running' = Running
  BY <1>3 DEF App, Workers, Instrs, Running
<1>8. /\ todo \in [App -> Seq(Instrs)] /\ core \in [inited : BOOLEAN, mutex : {None, Main}, again : BOOLEAN]
      /\ Main \in App
  BY DEF LifeIInv, LifeTypes
<1>9. ~core'.inited /\ core'.mutex = None /\ core' \in [inited : BOOLEAN, mutex : {None, Main}, again : BOOLEAN]
      /\ core'.again = core.again
  BY <1>3, <1>4, <1>8
<1>10. \A u \in App : todo'[u] = <<>>
  <2>1. \A u \in App \ {Main} : todo[u] = <<>>
    BY <1>4 DEF LifeIInv, Phase
  <2> QED
    BY <2>1, <1>3, <1>4, <1>6, <1>8
<1>11. LifeTypes'
  <2>1. todo' \in [App -> Seq(Instrs)]
    BY <1>3, <1>6, <1>8, ListTypes
  <2> QED
    BY <1>3, <1>7, <1>9, <2>1 DEF LifeIInv, LifeTypes
<1>12. FlagsUp' /\ ThreadsServed'
  BY <1>3, <1>7 DEF LifeIInv, FlagsUp, ThreadsServed
<1>13. Phase'
  BY <1>3, <1>5, <1>6, <1>7, <1>8, <1>9, <1>10, PhaseDown
<1> QED
  BY <1>4, <1>9, <1>11, <1>12, <1>13 DEF LifeIInv

\* kupl_fini has taken everything down.
LEMMA FiniDoneStep ==
    ASSUME LifeIInv, NEW t \in App, FiniDone(t), ~core.again
    PROVE  LifeIInv'
<1>1. PICK s : s = todo[t]
  OBVIOUS
<1>3. /\ s # <<>> /\ Head(s)[1] = "finished" /\ Doing(t, "finished")
      /\ todo' = [todo EXCEPT ![t] = Tail(s)] /\ program' = program
      /\ core' = [core EXCEPT !.inited = FALSE] /\ DOMAIN calls' = DOMAIN calls
      /\ UNCHANGED <<mods, flag, thread, stop, table, geid>>
  BY <1>1 DEF FiniDone, Next1, Doing, Ins, expandVars
<1>4. core.inited /\ core.mutex = None /\ GoingDown(s, "finished") /\ \A u \in App \ {t} : todo[u] = <<>>
  BY <1>1, <1>3, WhoActs DEF Ending, Finishing
<1>5. /\ DownList(s, "finished")
      /\ \A m \in mods \ {"barrier"} : Left(s, <<"fini", m>>)
      /\ \A i \in Running : Left(s, <<"fini", "start", i>>)
  BY <1>4, Zenon DEF GoingDown
<1>6. Tail(s) = <<>> /\ \A y : ~ Left(s, y)
  BY <1>3, <1>5, DownHead
<1>7. /\ App' = App /\ Workers' = Workers /\ Instrs' = Instrs /\ Running' = Running
  BY <1>3 DEF App, Workers, Instrs, Running
<1>8. /\ todo \in [App -> Seq(Instrs)] /\ core \in [inited : BOOLEAN, mutex : {None, Main}, again : BOOLEAN]
      /\ Main \in App
  BY DEF LifeIInv, LifeTypes
<1>9. ~core'.inited /\ core'.mutex = None /\ core' \in [inited : BOOLEAN, mutex : {None, Main}, again : BOOLEAN]
      /\ core'.again = core.again
  BY <1>3, <1>4, <1>8
<1>10. \A u \in App : todo'[u] = <<>>
  BY <1>3, <1>4, <1>6, <1>8
<1>11. LifeTypes'
  <2>1. todo' \in [App -> Seq(Instrs)]
    BY <1>3, <1>6, <1>8, ListTypes
  <2> QED
    BY <1>3, <1>7, <1>9, <2>1 DEF LifeIInv, LifeTypes
<1>12. FlagsUp' /\ ThreadsServed'
  BY <1>3, <1>7 DEF LifeIInv, FlagsUp, ThreadsServed
<1>13. Phase'
  BY <1>3, <1>5, <1>6, <1>7, <1>8, <1>9, <1>10, PhaseDown
<1> QED
  BY <1>9, <1>11, <1>12, <1>13 DEF LifeIInv

\* A thread enters kupl_init.
LEMMA CallInitStep ==
    ASSUME LifeIInv, NEW t \in App, CallInit(t)
    PROVE  LifeIInv'
<1>1. PICK r : r = Append(Flattened("init", InitOrder), <<"inited">>)
  OBVIOUS
<1>2. /\ ~core.inited /\ core.mutex = None /\ t = Main /\ todo[t] = <<>>
      /\ core' = [core EXCEPT !.mutex = Main] /\ todo' = [todo EXCEPT ![t] = r] /\ program' = program
      /\ UNCHANGED <<calls, mods, flag, thread, stop, table, geid>>
  BY <1>1 DEF CallInit, expandVars
<1>3. program.n \in Nat \ {0}
  BY ExecutorsAssumption DEF LifeIInv, LifeTypes
<1>4. /\ UpList(r)
      /\ \A m \in Mods : Left(r, <<"init", m>>)
      /\ \A i \in Workers : Left(r, <<"init", "start", i>>)
      /\ Left(r, <<"init", "start", 0>>)
  BY <1>1, <1>3, UpNew
<1>5. /\ App' = App /\ Workers' = Workers /\ Instrs' = Instrs /\ Running' = Running
  BY <1>2 DEF App, Workers, Instrs, Running
<1>6. /\ todo \in [App -> Seq(Instrs)] /\ core \in [inited : BOOLEAN, mutex : {None, Main}, again : BOOLEAN]
      /\ Main \in App
  BY DEF LifeIInv, LifeTypes
<1>7. ~core'.inited /\ core'.mutex = Main /\ core' \in [inited : BOOLEAN, mutex : {None, Main}, again : BOOLEAN]
      /\ core'.again = core.again
  BY <1>2, <1>6
<1>8. LifeTypes'
  <2>1. r \in Seq(Instrs)
    BY <1>4 DEF UpList
  <2>2. todo' \in [App -> Seq(Instrs)]
    BY <2>1, <1>2, <1>6
  <2> QED
    BY <1>2, <1>5, <1>7, <2>2 DEF LifeIInv, LifeTypes
<1>9. FlagsUp' /\ ThreadsServed'
  BY <1>2, <1>5 DEF LifeIInv, FlagsUp, ThreadsServed
<1>10. mods \subseteq {"barrier"} /\ Running = {}
  BY <1>2 DEF LifeIInv, Phase
<1>11. GoingUp(todo[Main])'
  <2>1. todo'[Main] = r
    BY <1>2, <1>6
  <2>2. \A m \in Mods \ {"tools"} : m \in mods' \/ Left(r, <<"init", m>>)
    BY <1>4
  <2>3. \A i \in Workers : thread'[i] # "none" \/ Left(r, <<"init", "start", i>>)
    BY <1>4
  <2>4. \A p \in Most(r) : /\ \A m \in mods' : Before(m, r[p][2]) \/ m = "barrier"
                           /\ Running' # {} => r[p][2] = "start" \/ Before("start", r[p][2])
    BY <1>2, <1>5, <1>10
  <2> QED
    BY <1>2, <1>4, <2>1, <2>2, <2>3, <2>4, UpNext
<1>12. \A u \in App \ {Main} : todo'[u] = <<>>
  BY <1>2, <1>6 DEF LifeIInv, Phase
<1>13. Phase'
  BY <1>5, <1>7, <1>11, <1>12, PhaseUp
<1> QED
  BY <1>2, <1>7, <1>8, <1>9, <1>13 DEF LifeIInv

\* A step that leaves alone what is up, and what is left to do.
LEMMA PhaseKept ==
    ASSUME LifeIInv, UNCHANGED <<program, todo, mods, geid>>,
           core'.inited = core.inited, core'.mutex = core.mutex,
           \A i \in Workers : (thread'[i] = "none") <=> (thread[i] = "none"),
           core.inited => calls' = calls
    PROVE  Phase'
<1>1. /\ App' = App /\ Workers' = Workers
  BY DEF App, Workers
<1>2. Running' = Running
  BY <1>1 DEF Running
<1>3. PICK s : s = todo[Main]
  OBVIOUS
<1>4. Phase /\ Main \in App
  BY DEF LifeIInv, LifeTypes
<1>5. CASE ~core.inited /\ core.mutex = None
  BY <1>1, <1>2, <1>4, <1>5, PhaseDown DEF Phase
<1>6. CASE ~core.inited /\ core.mutex = Main
  <2>1. GoingUp(s) \/ GoingDown(s, "refused")
    BY <1>3, <1>4, <1>6 DEF Phase
  <2>2. ASSUME GoingUp(s) PROVE GoingUp(todo[Main])'
    <3>1. /\ UpList(s)
          /\ \A m \in Mods \ {"tools"} : m \in mods \/ Left(s, <<"init", m>>)
          /\ \A i \in Workers : thread[i] # "none" \/ Left(s, <<"init", "start", i>>)
          /\ geid[Main] = 0 \/ Left(s, <<"init", "start", 0>>)
          /\ \A p \in Most(s) : /\ \A m \in mods : Before(m, s[p][2]) \/ m = "barrier"
                                /\ Running # {} => s[p][2] = "start" \/ Before("start", s[p][2])
      BY <2>2, Zenon DEF GoingUp
    <3> QED
      BY <3>1, <1>2, <1>3, UpNext
  <2>3. ASSUME GoingDown(s, "refused") PROVE GoingDown(todo[Main], "refused")'
    <3>1. /\ DownList(s, "refused")
          /\ \A m \in mods \ {"barrier"} : Left(s, <<"fini", m>>)
          /\ \A i \in Running : Left(s, <<"fini", "start", i>>)
      BY <2>3, Zenon DEF GoingDown
    <3> QED
      BY <3>1, <1>2, <1>3, DownNext
  <2>4. GoingUp(todo[Main])' \/ GoingDown(todo[Main], "refused")'
    BY <2>1, <2>2, <2>3
  <2>5. \A u \in App \ {Main} : todo'[u] = <<>>
    BY <1>4, <1>6 DEF Phase
  <2> QED
    BY <1>1, <1>6, <2>4, <2>5, PhaseUp
<1>7. CASE core.inited
  <2>1. (core.inited => core.mutex = None /\ \/ AllUp /\ \A u \in App : Expanding(u)
                                             \/ \E u \in App : Finishing(u))'
    <3>1. core.mutex = None /\ \/ AllUp /\ \A u \in App : Expanding(u)
                               \/ \E u \in App : Finishing(u)
      BY <1>4, <1>7 DEF Phase
    <3>2. AllUp => AllUp'
      BY <1>1, <1>2 DEF AllUp
    <3>3. ASSUME NEW u PROVE Expanding(u) => Expanding(u)'
      BY DEF Expanding
    <3>4. ASSUME NEW u \in App, Finishing(u) PROVE Finishing(u)'
      <4>1. PICK r : r = todo[u]
        OBVIOUS
      <4>2. GoingDown(r, "finished")
        BY <3>4, <4>1 DEF Finishing
      <4>3. /\ DownList(r, "finished")
            /\ \A m \in mods \ {"barrier"} : Left(r, <<"fini", m>>)
            /\ \A i \in Running : Left(r, <<"fini", "start", i>>)
        BY <4>2, Zenon DEF GoingDown
      <4>4. GoingDown(todo[u], "finished")'
        BY <4>1, <4>3, <1>2, DownNext
      <4> QED
        BY <4>4, <3>4, <1>1, <1>7 DEF Finishing
    <3> QED
      BY <3>1, <3>2, <3>3, <3>4, <1>1
  <2>2. (~core.inited => \A u \in App \ {Main} : todo[u] = <<>>)'
    BY <1>7
  <2>3. (~core.inited /\ core.mutex = None => todo[Main] = <<>> /\ mods \subseteq {"barrier"} /\ Running = {})'
    BY <1>7
  <2>4. (~core.inited /\ core.mutex = Main => GoingUp(todo[Main]) \/ GoingDown(todo[Main], "refused"))'
    BY <1>7
  <2> QED
    BY <2>1, <2>2, <2>3, <2>4, Zenon DEF Phase
<1> QED
  BY <1>5, <1>6, <1>7 DEF LifeIInv, LifeTypes

\* The library is unloaded.
LEMMA CallFiniStep ==
    ASSUME LifeIInv, NEW t \in App, CallFini(t)
    PROVE  LifeIInv'
<1>1. /\ UNCHANGED <<program, core, mods, flag, thread, stop, table, geid>>
      /\ todo[t] = <<>> /\ calls[t] # <<>> /\ Head(calls[t])[1] = "fini"
  BY DEF CallFini, lifeVars, expandVars
<1>2. /\ App' = App /\ Workers' = Workers /\ Instrs' = Instrs /\ Running' = Running
  BY <1>1 DEF App, Workers, Instrs, Running
<1>3. /\ todo \in [App -> Seq(Instrs)] /\ mods \subseteq Mods /\ Main \in App
  BY DEF LifeIInv, LifeTypes
<1>4. FlagsUp' /\ ThreadsServed'
  BY <1>1, <1>2 DEF LifeIInv, FlagsUp, ThreadsServed
<1>5. CASE ~core.inited
  <2>1. todo' = todo /\ DOMAIN calls' = DOMAIN calls
    BY <1>5 DEF CallFini
  <2>2. LifeTypes'
    BY <1>1, <1>2, <2>1 DEF LifeIInv, LifeTypes
  <2>3. Phase'
    BY <1>1, <1>2, <1>5, <2>1, PhaseKept
  <2> QED
    BY <1>1, <1>4, <2>2, <2>3 DEF LifeIInv
<1>6. CASE core.inited
  <2>1. PICK r : r = Append(Flattened("fini", FiniOrder), <<"finished">>)
    OBVIOUS
  <2>2. /\ \A a \in App \ {t} : calls[a] = <<>> /\ todo[a] = <<>>
        /\ todo' = [todo EXCEPT ![t] = r] /\ calls' = calls
    BY <1>6, <2>1 DEF CallFini
  <2>3. program.n \in Nat \ {0}
    BY ExecutorsAssumption DEF LifeIInv, LifeTypes
  <2>4. /\ DownList(r, "finished")
        /\ \A m \in Mods \ {"barrier"} : Left(r, <<"fini", m>>)
        /\ \A w \in Workers : Left(r, <<"fini", "start", w>>)
    BY <2>1, <2>3, FiniNew
  <2>5. LifeTypes'
    <3>1. r \in Seq(Instrs)
      BY <2>4 DEF DownList
    <3>2. todo' \in [App -> Seq(Instrs)]
      BY <3>1, <2>2, <1>3
    <3> QED
      BY <1>1, <1>2, <2>2, <3>2 DEF LifeIInv, LifeTypes
  <2>6. GoingDown(todo[t], "finished")'
    <3>1. todo'[t] = r
      BY <2>2, <1>3
    <3>2. \A m \in mods' \ {"barrier"} : Left(r, <<"fini", m>>)
      BY <2>4, <1>1, <1>3
    <3>3. \A w \in Running' : Left(r, <<"fini", "start", w>>)
      BY <2>4, <1>2 DEF Running
    <3> QED
      BY <1>1, <2>4, <3>1, <3>2, <3>3, DownNext
  <2>7. Finishing(t)'
    BY <1>1, <1>2, <1>3, <2>2, <2>6 DEF Finishing
  <2>8. Phase'
    <3>1. core'.inited /\ core'.mutex = None
      BY <1>1, <1>6 DEF LifeIInv, Phase
    <3>2. (core.inited => core.mutex = None /\ \E u \in App : Finishing(u))'
      BY <1>2, <3>1, <2>7
    <3>3. (~core.inited => \A u \in App \ {Main} : todo[u] = <<>>)'
      BY <3>1
    <3>4. (~core.inited /\ core.mutex = None => todo[Main] = <<>> /\ mods \subseteq {"barrier"} /\ Running = {})'
      BY <3>1
    <3>5. (~core.inited /\ core.mutex = Main => GoingUp(todo[Main]) \/ GoingDown(todo[Main], "refused"))'
      BY <3>1
    <3> QED
      BY <3>2, <3>3, <3>4, <3>5, Zenon DEF Phase
  <2> QED
    BY <1>1, <1>4, <2>5, <2>8 DEF LifeIInv
<1> QED
  BY <1>5, <1>6

\* A turn of an executor's thread.
LEMMA ThreadStep ==
    ASSUME LifeIInv, ~core.again, NEW i \in Workers, ExecutorStep(i)
    PROVE  LifeIInv'
<1>1. /\ UNCHANGED <<program, calls, todo, mods, flag, stop, geid, table>>
      /\ thread[i] \in {"running", "trying"}
      /\ \E y \in {"running", "trying", "exited"} : thread' = [thread EXCEPT ![i] = y]
      /\ core' = core \/ (core' = [core EXCEPT !.again = (core.mutex = None)])
  BY DEF ExecutorStep, ExecutorLooks, ExecutorTries, ExecutorExits, expandVars
<1>2. /\ App' = App /\ Workers' = Workers /\ Instrs' = Instrs
  BY <1>1 DEF App, Workers, Instrs
<1>3. /\ core \in [inited : BOOLEAN, mutex : {None, Main}, again : BOOLEAN]
      /\ thread \in [Workers -> {"none", "running", "trying", "exited"}]
  BY DEF LifeIInv, LifeTypes
<1>4. /\ core' \in [inited : BOOLEAN, mutex : {None, Main}, again : BOOLEAN]
      /\ core'.inited = core.inited /\ core'.mutex = core.mutex
      /\ core'.again => core.mutex = None
  BY <1>1, <1>3
<1>5. thread' \in [Workers -> {"none", "running", "trying", "exited"}]
  BY <1>1, <1>3
<1>6. \A w \in Workers : (thread'[w] = "none") <=> (thread[w] = "none")
  BY <1>1, <1>3
<1>7. LifeTypes'
  BY <1>1, <1>2, <1>4, <1>5 DEF LifeIInv, LifeTypes
<1>8. FlagsUp' /\ ThreadsServed'
  <2>1. \A w \in Workers : thread'[w] \in {"running", "trying"} => thread[w] \in {"running", "trying"}
    BY <1>1, <1>3
  <2> QED
    BY <2>1, <1>1, <1>2 DEF LifeIInv, FlagsUp, ThreadsServed
<1>9. core'.again => core'.inited
  <2>1. i \in Running
    BY <1>1 DEF Running
  <2>2. core.mutex = None => core.inited
    BY <2>1 DEF LifeIInv, Phase
  <2> QED
    BY <2>2, <1>4
<1>10. Phase'
  BY <1>1, <1>4, <1>6, PhaseKept
<1> QED
  BY <1>7, <1>8, <1>9, <1>10 DEF LifeIInv

\* A step of kupl_get_executor_num, or a call on a group.
LEMMA ExpandStep ==
    ASSUME LifeIInv, NEW t \in App,
           \/ CallExecutorNum(t) \/ ExpandLock(t) \/ SchedExpand(t) \/ MemoryExpand(t) \/ ExecutorExpand(t)
           \/ ExpandUnlock(t) \/ CallGroup(t)
    PROVE  LifeIInv'
<1>1. /\ todo \in [App -> Seq(Instrs)] /\ geid \in [App -> Int] /\ Main \in App /\ DOMAIN calls = App
      /\ table \in [count : Int, initial : Int, pools : Int, sched : Nat, queues : Int, made : Nat]
  BY DEF LifeIInv, LifeTypes
<1>2. PICK s : s = todo[t]
  OBVIOUS
<1>3. CASE CallExecutorNum(t)
  <2>1. Working /\ todo[t] = <<>>
    BY <1>3, WhoCalls DEF CallExecutorNum, Expands
  <2>2. UNCHANGED <<program, lifeVars>> /\ UNCHANGED <<table, geid>> /\ DOMAIN calls' = App
    BY <1>1, <1>3 DEF CallExecutorNum, expandVars
  <2>3. CASE geid[t] # Null
    <3>1. todo' = [todo EXCEPT ![t] = <<>>]
      BY <1>1, <1>3, <2>1, <2>3 DEF CallExecutorNum
    <3> QED
      BY <3>1, <2>1, <2>2, <1>1, WorkStep
  <2>4. CASE geid[t] = Null
    <3>1. todo' = [todo EXCEPT ![t] = E0]
      BY <1>3, <2>4 DEF CallExecutorNum, E0
    <3> QED
      BY <3>1, <2>1, <2>2, <2>4, <1>1, WorkStep
  <2> QED
    BY <2>3, <2>4
<1>4. CASE CallGroup(t)
  <2>1. Working /\ todo[t] = <<>>
    BY <1>4, WhoCalls DEF CallGroup
  <2>2. UNCHANGED <<program, lifeVars>> /\ UNCHANGED <<table, geid>> /\ DOMAIN calls' = App
    BY <1>1, <1>4 DEF CallGroup, expandVars
  <2>3. todo' = [todo EXCEPT ![t] = <<>>]
    BY <1>1, <1>4, <2>1 DEF CallGroup
  <2> QED
    BY <2>1, <2>2, <2>3, <1>1, WorkStep
<1>5. CASE ExpandLock(t)
  <2>1. Working /\ s # <<>> /\ Head(s)[1] = "lock"
    BY <1>2, <1>5, WhoActs DEF ExpandLock, Doing, Ins
  <2>2. UNCHANGED <<program, lifeVars>> /\ UNCHANGED <<table, geid>> /\ DOMAIN calls' = App
    BY <1>1, <1>5 DEF ExpandLock
  <2>3. todo' = [todo EXCEPT ![t] = E4]
    BY <1>5 DEF ExpandLock, E4
  <2>4. Expanding(t)
    BY <2>1 DEF Working
  <2>5. geid[t] = Null
    BY <1>2, <2>1, <2>4, ExpandLists DEF Expanding
  <2> QED
    BY <2>1, <2>2, <2>3, <2>5, <1>1, WorkStep
<1>6. CASE SchedExpand(t)
  <2>1. Working /\ s # <<>> /\ Head(s)[1] = "sched_expand"
    BY <1>2, <1>6, WhoActs DEF SchedExpand, Doing, Ins
  <2>2. UNCHANGED <<program, lifeVars>> /\ UNCHANGED geid /\ DOMAIN calls' = App
    BY <1>1, <1>6 DEF SchedExpand
  <2>3. Expanding(t)
    BY <2>1 DEF Working
  <2>4. s = E4 /\ geid[t] = Null
    BY <1>2, <2>1, <2>3, ExpandLists DEF Expanding
  <2>5. PICK r : r \in {E1, E3} /\ todo' = [todo EXCEPT ![t] = r]
    BY <1>2, <1>6, <2>4, ExpandLists DEF SchedExpand, Next1, E1
  <2>6. table' \in [count : Int, initial : Int, pools : Int, sched : Nat, queues : Int, made : Nat]
    BY <1>1, <1>6, TableStep DEF SchedExpand
  <2> QED
    BY <2>1, <2>2, <2>4, <2>5, <2>6, <1>1, WorkStep
<1>7. CASE MemoryExpand(t)
  <2>1. Working /\ s # <<>> /\ Head(s)[1] = "memory_expand"
    BY <1>2, <1>7, WhoActs DEF MemoryExpand, Doing, Ins
  <2>2. UNCHANGED <<program, lifeVars>> /\ UNCHANGED geid /\ DOMAIN calls' = App
    BY <1>1, <1>7 DEF MemoryExpand
  <2>3. Expanding(t)
    BY <2>1 DEF Working
  <2>4. s = E3 /\ geid[t] = Null
    BY <1>2, <2>1, <2>3, ExpandLists DEF Expanding
  <2>5. PICK r : r \in {E1, E2} /\ todo' = [todo EXCEPT ![t] = r]
    BY <1>2, <1>7, <2>4, ExpandLists DEF MemoryExpand, Next1, E1
  <2>6. table' \in [count : Int, initial : Int, pools : Int, sched : Nat, queues : Int, made : Nat]
    BY <1>1, <1>7, TableStep DEF MemoryExpand
  <2> QED
    BY <2>1, <2>2, <2>4, <2>5, <2>6, <1>1, WorkStep
<1>8. CASE ExecutorExpand(t)
  <2>1. Working /\ s # <<>> /\ Head(s)[1] = "executor_expand"
    BY <1>2, <1>8, WhoActs DEF ExecutorExpand, Doing, Ins
  <2>2. UNCHANGED <<program, lifeVars>> /\ DOMAIN calls' = App
    BY <1>1, <1>8 DEF ExecutorExpand
  <2>3. Expanding(t) /\ AllUp
    BY <2>1 DEF Working
  <2>4. s = E2 /\ geid[t] = Null
    BY <1>2, <2>1, <2>3, ExpandLists DEF Expanding
  <2>5. t # Main
    BY <2>3, <2>4 DEF AllUp, Null
  <2>6. todo' = [todo EXCEPT ![t] = E1]
    BY <1>2, <1>8, <2>4, ExpandLists DEF ExecutorExpand, Next1
  <2>7. geid' = geid \/ geid' = [geid EXCEPT ![t] = table.count]
    BY <1>8 DEF ExecutorExpand
  <2>8. geid' \in [App -> Int] /\ \A u \in App : u # t \/ u = Main => geid'[u] = geid[u]
    BY <1>1, <2>5, <2>7
  <2>9. table' \in [count : Int, initial : Int, pools : Int, sched : Nat, queues : Int, made : Nat]
    BY <1>1, <1>8, TableStep DEF ExecutorExpand, Rollback
  <2> QED
    BY <2>1, <2>2, <2>6, <2>8, <2>9, WorkStep
<1>9. CASE ExpandUnlock(t)
  <2>1. Working /\ s # <<>> /\ Head(s)[1] = "unlock"
    BY <1>2, <1>9, WhoActs DEF ExpandUnlock, Doing, Ins
  <2>2. UNCHANGED <<program, lifeVars>> /\ UNCHANGED <<table, geid>> /\ DOMAIN calls' = App
    BY <1>1, <1>9 DEF ExpandUnlock
  <2>3. Expanding(t)
    BY <2>1 DEF Working
  <2>4. s = E1
    BY <1>2, <2>1, <2>3, ExpandLists DEF Expanding
  <2>5. todo' = [todo EXCEPT ![t] = <<>>]
    BY <1>2, <1>9, <2>4, ExpandLists DEF ExpandUnlock, Next1
  <2> QED
    BY <2>1, <2>2, <2>5, <1>1, WorkStep
<1> QED
  BY <1>3, <1>4, <1>5, <1>6, <1>7, <1>8, <1>9

\* At first no module is up.
LEMMA LifeInit == Init => LifeIInv
<1> SUFFICES ASSUME Init PROVE LifeIInv
  OBVIOUS
<1>1. /\ program \in Programs /\ Main \in App /\ program.n \in Nat \ {0} /\ {program.cpuSetSize} \subseteq Nat
  BY ExecutorsAssumption, ThreadsAssumption DEF Init, App
<1>2. /\ core.inited = FALSE /\ core.mutex = None /\ core.again = FALSE /\ mods = {}
      /\ core \in [inited : BOOLEAN, mutex : {None, Main}, again : BOOLEAN]
      /\ \A t \in App : todo[t] = <<>>
      /\ \A i \in Workers : thread[i] = "none"
      /\ \A m \in {"utils", "mpool"} : flag[m] = FALSE
  BY DEF Init
<1>3. LifeTypes
  <2>1. todo \in [App -> Seq(Instrs)] /\ DOMAIN calls = App /\ geid \in [App -> Int]
    BY ListTypes DEF Init, App, Null
  <2>2. /\ flag \in [{"utils", "tools", "mpool"} -> BOOLEAN] /\ stop \in [Workers -> BOOLEAN]
        /\ thread \in [Workers -> {"none", "running", "trying", "exited"}]
    BY DEF Init
  <2>3. table \in [count : Int, initial : Int, pools : Int, sched : Nat, queues : Int, made : Nat]
    BY <1>1 DEF Init, None
  <2> QED
    BY <1>1, <1>2, <2>1, <2>2, <2>3 DEF LifeTypes
<1>4. FlagsUp /\ ThreadsServed
  BY <1>2 DEF FlagsUp, ThreadsServed
<1>5. Phase
  <2>1. Running = {} /\ None # Main
    BY <1>2 DEF Running, None, Main
  <2> QED
    BY <2>1, <1>1, <1>2 DEF Phase
<1> QED
  BY <1>2, <1>3, <1>4, <1>5 DEF LifeIInv

\* Every step keeps the invariant of kupl_init and kupl_fini.
LEMMA LifeNext == LifeIInv /\ [Next]_vars => LifeIInv'
<1> SUFFICES ASSUME LifeIInv, [Next]_vars PROVE LifeIInv'
  OBVIOUS
<1>1. CASE Next
  <2>1. ASSUME NEW t \in AllApp, AppStep(t), ~core.again PROVE LifeIInv'
    <3>1. t \in App
      BY <2>1 DEF AppStep
    <3>2. \/ CallInit(t) \/ InitModule(t) \/ InitStart(t) \/ InitFails(t) \/ InitDone(t) \/ InitRefused(t)
          \/ FiniModule(t) \/ StopExecutor(t) \/ CallFini(t) \/ FiniDone(t)
          \/ (\/ CallExecutorNum(t) \/ ExpandLock(t) \/ SchedExpand(t) \/ MemoryExpand(t) \/ ExecutorExpand(t)
              \/ ExpandUnlock(t) \/ CallGroup(t))
      BY <2>1, Zenon DEF AppStep
    <3> QED
      BY <2>1, <3>1, <3>2, CallInitStep, InitModuleStep, InitStartStep, InitFailsStep, InitDoneStep, InitRefusedStep,
         FiniModuleStep, StopExecutorStep, CallFiniStep, FiniDoneStep, ExpandStep, Zenon
  <2>2. ASSUME NEW i \in AllWorkers, ExecutorStep(i), ~core.again PROVE LifeIInv'
    <3>1. i \in Workers
      BY <2>2 DEF ExecutorStep
    <3> QED
      BY <2>2, <3>1, ThreadStep
  <2> QED
    BY <1>1, <2>1, <2>2 DEF Next
<1>2. CASE UNCHANGED vars
  <2>1. /\ UNCHANGED <<program, calls, todo, core, mods, flag, thread, stop, geid, table>>
    BY <1>2 DEF vars
  <2>2. Phase'
    BY <2>1, PhaseKept
  <2>3. LifeTypes' /\ FlagsUp' /\ ThreadsServed'
    BY <2>1 DEF LifeIInv, LifeTypes, FlagsUp, ThreadsServed, App, Workers, Instrs
  <2> QED
    BY <2>1, <2>2, <2>3 DEF LifeIInv
<1> QED
  BY <1>1, <1>2

\* The list a thread works off in kupl_init, on its failure path or in kupl_fini,
\* the modules that are up and the executors' threads agree in every behaviour.
THEOREM SpecLifeIInv == Spec => []LifeIInv
  BY LifeInit, LifeNext, PTL DEF Spec

\* Whichever step of kupl_init fails, and however often it is tried again: when
\* no thread is bringing the library up or down, all modules are up or none is
\* and no executor's thread is left; a running thread finds the scheduler, the
\* pools and the executors' table; and none starts kupl_init over during or
\* after a failed one.
THEOREM SpecFailedInitUnwinds == Spec => []FailedInitUnwinds
<1>1. LifeIInv => FailedInitUnwinds
  <2> SUFFICES ASSUME LifeIInv PROVE FailedInitUnwinds
    OBVIOUS
  <2>1. Main \in App /\ core \in [inited : BOOLEAN, mutex : {None, Main}, again : BOOLEAN]
    BY DEF LifeIInv, LifeTypes
  <2>2. Range(InitOrder) \ {"tools", "start"} \subseteq Mods \ {"tools"}
    BY InitOrderIs DEF Range
  <2>3. ASSUME \A t \in App : todo[t] = <<>>
        PROVE  IF core.inited THEN Range(InitOrder) \ {"tools", "start"} \subseteq mods /\ Running = Workers
                              ELSE mods \subseteq {"barrier"} /\ Running = {}
    <3>1. ASSUME NEW t \in App, NEW last \in {"refused", "finished"}, GoingDown(todo[t], last) PROVE FALSE
      BY <2>3, <3>1, DownHead DEF GoingDown
    <3>2. ~ GoingUp(todo[Main])
      BY <2>1, <2>3, UpHead DEF GoingUp
    <3>3. CASE core.inited
      <4>1. AllUp
        BY <3>1, <3>3 DEF LifeIInv, Phase, Finishing
      <4> QED
        BY <4>1, <2>2, <3>3 DEF AllUp
    <3>4. CASE ~core.inited
      <4>1. core.mutex = None
        BY <3>1, <3>2, <3>4, <2>1 DEF LifeIInv, Phase
      <4> QED
        BY <4>1, <3>4 DEF LifeIInv, Phase
    <3> QED
      BY <3>3, <3>4
  <2> QED
    BY <2>3 DEF FailedInitUnwinds, LifeIInv, ThreadsServed
<1> QED
  BY <1>1, SpecLifeIInv, PTL

-----------------------------------------------------------------------------
(* The inductive invariant of the expansions *)

\* the thread that expands, past taking the lock
Holding(t) == todo[t] \in {E1, E2, E3, E4}
At(s) == lock # None /\ todo[lock] = s

\* what is left of the program's calls; kupl_fini comes last
CallsLeft ==
    \A t \in App : /\ calls[t] \in Seq(Range(program.calls[t])) /\ (todo[t] # <<>> => calls[t] # <<>>)
                   /\ \A j \in DOMAIN calls[t] : calls[t][j][1] = "fini" => j = Len(calls[t])

OwnIds == \A t, u \in App : geid[t] # Null /\ geid[t] = geid[u] => t = u

Locked == lock \in {None} \cup App /\ \A t \in App : Holding(t) <=> lock = t

\* what the counts say of the executors given out, wherever an expansion is
Books ==
    /\ table.initial = program.n /\ table.count >= program.n /\ geid[Main] = 0
    /\ \A t \in App \ {Main} : geid[t] # Null => program.n <= geid[t] /\ geid[t] < table.count
    /\ table.pools = program.availPu + table.count - program.n + (IF At(E2) THEN 1 ELSE 0)
    /\ ~failed => /\ table.queues = table.count - program.n + (IF At(E2) \/ At(E3) THEN 1 ELSE 0)
                  /\ table.queues > 0 => table.sched # None
                  /\ \A t \in App \ {Main} : geid[t] # Null => served[t] = table.sched

\* before the library is up for the first time
Young ==
    /\ table.sched = None /\ table.queues = 0 /\ ~failed
    /\ geid[Main] \in {Null, 0} /\ \A t \in App \ {Main} : geid[t] = Null
    /\ "mpool" \in mods => table.pools = program.availPu
    /\ "executor" \in mods => table.count = program.n /\ table.initial = program.n

Over == \A t \in App : todo[t] = <<>> /\ calls[t] = <<>>

ExpandIInv ==
    /\ LifeIInv
    /\ CallsLeft
    /\ OwnIds
    /\ Locked
    /\ IF core.inited THEN ("pf" \in mods => Books) ELSE Young \/ Over
    /\ DOMAIN served = App

\* An expansion's list ends with the release of the lock.
LEMMA HoldingIs ==
    /\ \A s \in {E1, E2, E3, E4} : s # <<>> /\ s[Len(s)] = <<"unlock">>
    /\ \A s, last : DownList(s, last) /\ last \in {"refused", "finished"} => s \notin {E1, E2, E3, E4}
    /\ \A s : UpList(s) => s \notin {E1, E2, E3, E4}
    /\ <<>> \notin {E1, E2, E3, E4} /\ E0 \notin {E1, E2, E3, E4}
    /\ E1 # E2 /\ E1 # E3 /\ E1 # E4 /\ E2 # E3 /\ E2 # E4 /\ E3 # E4
<1>1. \A s \in {E1, E2, E3, E4} : s # <<>> /\ s[Len(s)] = <<"unlock">>
  <2>1. E1 # <<>> /\ Len(E1) = 1 /\ E1[1] = <<"unlock">>
    BY DEF E1
  <2>2. E2 # <<>> /\ Len(E2) = 2 /\ E2[2] = <<"unlock">>
    BY DEF E2
  <2>3. E3 # <<>> /\ Len(E3) = 3 /\ E3[3] = <<"unlock">>
    BY DEF E3
  <2>4. E4 # <<>> /\ Len(E4) = 4 /\ E4[4] = <<"unlock">>
    BY DEF E4
  <2> QED
    BY <2>1, <2>2, <2>3, <2>4
<1>2. \A s, last : DownList(s, last) /\ last \in {"refused", "finished"} => s \notin {E1, E2, E3, E4}
  BY <1>1 DEF DownList
<1>3. \A s : UpList(s) => s \notin {E1, E2, E3, E4}
  BY <1>1 DEF UpList
<1>4. <<>> \notin {E1, E2, E3, E4}
  BY <1>1
<1>5. Head(E0) # Head(E1) /\ Head(E0) # Head(E2) /\ Head(E0) # Head(E3) /\ Head(E0) # Head(E4)
  BY ExpandLists
<1>6. Head(E1) # Head(E2) /\ Head(E1) # Head(E3) /\ Head(E1) # Head(E4) /\ Head(E2) # Head(E3) /\ Head(E2) # Head(E4)
      /\ Head(E3) # Head(E4)
  BY ExpandLists
<1> QED
  BY <1>1, <1>2, <1>3, <1>4, <1>5, <1>6

\* A call begins, goes on, or ends.
LEMMA CallsKept ==
    ASSUME CallsLeft, NEW t \in App, program' = program, DOMAIN calls = App, calls[t] # <<>>,
           \A u \in App \ {t} : todo'[u] = todo[u],
           \/ calls' = calls
           \/ calls' = [calls EXCEPT ![t] = Tail(@)] /\ todo'[t] = <<>>
    PROVE  CallsLeft'
<1>1. App' = App
  BY DEF App
<1>2. SUFFICES ASSUME NEW u \in App
               PROVE  /\ calls'[u] \in Seq(Range(program.calls[u]))
                      /\ todo'[u] # <<>> => calls'[u] # <<>>
                      /\ \A j \in DOMAIN calls'[u] : calls'[u][j][1] = "fini" => j = Len(calls'[u])
  BY <1>1 DEF CallsLeft
<1>3. PICK s, S : s = calls[u] /\ S = Range(program.calls[u])
  OBVIOUS
<1>4. /\ s \in Seq(S) /\ (todo[u] # <<>> => s # <<>>)
      /\ \A j \in DOMAIN s : s[j][1] = "fini" => j = Len(s)
  BY <1>3 DEF CallsLeft
<1>5. CASE calls'[u] = s /\ (u # t \/ s # <<>>)
  BY <1>3, <1>4, <1>5
<1>6. CASE u = t /\ s # <<>> /\ calls'[u] = Tail(s) /\ todo'[u] = <<>>
  <2>1. Len(s) \in Nat \ {0} /\ Tail(s) \in Seq(S) /\ Len(Tail(s)) = Len(s) - 1
        /\ \A j \in 1 .. Len(s) - 1 : Tail(s)[j] = s[j + 1]
    BY <1>4, <1>6
  <2>2. DOMAIN Tail(s) = 1 .. Len(s) - 1 /\ DOMAIN s = 1 .. Len(s)
    BY <2>1, <1>4
  <2>4. ASSUME NEW j \in DOMAIN Tail(s), Tail(s)[j][1] = "fini" PROVE j = Len(Tail(s))
    <3>1. PICK n \in Nat : n = Len(s)
      BY <2>1
    <3>2. j \in 1 .. n - 1 /\ j + 1 \in 1 .. n /\ Tail(s)[j] = s[j + 1]
      BY <2>1, <2>2, <2>4, <3>1
    <3>3. j + 1 \in DOMAIN s /\ s[j + 1][1] = "fini"
      BY <2>2, <2>4, <3>1, <3>2
    <3>4. j + 1 = n
      BY <1>4, <3>1, <3>3
    <3> QED
      BY <3>1, <3>2, <3>4, <2>1
  <2> QED
    BY <2>1, <2>4, <1>3, <1>6
<1> QED
  BY <1>3, <1>5, <1>6

\* A step of a thread that neither had nor gets the expansions' lock.
LEMMA EraKept ==
    ASSUME ExpandIInv, LifeIInv', NEW t \in App, program' = program, calls[t] # <<>>,
           \A u \in App \ {t} : todo'[u] = todo[u],
           \/ calls' = calls
           \/ calls' = [calls EXCEPT ![t] = Tail(@)] /\ todo'[t] = <<>>,
           UNCHANGED <<lock, served>>, ~ Holding(t), todo'[t] \notin {E1, E2, E3, E4}, OwnIds',
           IF core'.inited THEN ("pf" \in mods' => Books') ELSE Young' \/ Over'
    PROVE  ExpandIInv'
<1>1. App' = App /\ DOMAIN calls = App
  BY DEF App, ExpandIInv, LifeIInv, LifeTypes
<1>2. CallsLeft'
  BY <1>1, CallsKept DEF ExpandIInv
<1>3. Locked'
  BY <1>1 DEF ExpandIInv, Locked, Holding, E1, E2, E3, E4
<1> QED
  BY <1>1, <1>2, <1>3 DEF ExpandIInv

\* The counts do not see such a step.
LEMMA BooksKept ==
    ASSUME ExpandIInv, NEW t \in App, program' = program, Books, ~ Holding(t), ~ Holding(t)',
           \A u \in App \ {t} : todo'[u] = todo[u],
           UNCHANGED <<lock, served, table, geid, failed>>
    PROVE  Books'
<1>1. App' = App
  BY DEF App
<1>2. lock # t /\ lock \in {None} \cup App
  BY DEF ExpandIInv, Locked
<1>3. At(E2)' = At(E2) /\ At(E3)' = At(E3)
  BY <1>2 DEF At, E1, E2, E3
<1> QED
  BY <1>1, <1>3 DEF Books

\* What the invariant says of a thread in kupl_init.
LEMMA YoungUp ==
    ASSUME ExpandIInv, NEW t \in App, Upping(t) \/ Undoing(t)
    PROVE  /\ t = Main /\ ~core.inited /\ Young /\ calls[t] # <<>> /\ ~ Holding(t) /\ lock = None
           /\ \A u \in App \ {t} : todo[u] = <<>>
<1>1. PICK s : s = todo[t]
  OBVIOUS
<1>2. t = Main /\ ~core.inited /\ (UpList(s) \/ DownList(s, "refused"))
  BY <1>1 DEF Upping, Undoing, GoingUp, GoingDown
<1>3. s # <<>> /\ s \notin {E1, E2, E3, E4}
  BY <1>2, HoldingIs DEF UpList, DownList
<1>4. calls[t] # <<>> /\ ~ Holding(t) /\ Young
  BY <1>1, <1>2, <1>3 DEF ExpandIInv, CallsLeft, Over, Holding
<1>5. \A u \in App \ {t} : todo[u] = <<>>
  BY <1>2 DEF ExpandIInv, LifeIInv, Phase
<1>6. lock = None
  BY <1>4, <1>5, HoldingIs DEF ExpandIInv, Locked, Holding
<1> QED
  BY <1>2, <1>4, <1>5, <1>6

\* kupl_init keeps the executors given out in order, and none is given out before it is done.
LEMMA ExpandInit ==
    ASSUME ExpandIInv, LifeIInv', NEW t \in App,
           CallInit(t) \/ InitModule(t) \/ InitStart(t) \/ InitFails(t) \/ InitRefused(t)
    PROVE  ExpandIInv'
<1>1. PICK s : s = todo[t]
  OBVIOUS
<1>2. program.n \in Nat \ {0} /\ LifeIInv /\ LifeTypes /\ OwnIds
  BY ExecutorsAssumption DEF ExpandIInv, LifeIInv, LifeTypes
<1>3. /\ todo \in [App -> Seq(Instrs)] /\ geid \in [App -> Int] /\ Main \in App
      /\ core \in [inited : BOOLEAN, mutex : {None, Main}, again : BOOLEAN]
      /\ table \in [count : Int, initial : Int, pools : Int, sched : Nat, queues : Int, made : Nat]
  BY <1>2 DEF LifeTypes
<1>4. CASE CallInit(t)
  <2>1. PICK r : r = Append(Flattened("init", InitOrder), <<"inited">>)
    OBVIOUS
  <2>2. /\ ~core.inited /\ t = Main /\ todo[t] = <<>> /\ calls[t] # <<>>
        /\ core' = [core EXCEPT !.mutex = t] /\ todo' = [todo EXCEPT ![t] = r] /\ program' = program
        /\ UNCHANGED <<calls, mods, table, geid, lock, served, failed>>
    BY <1>4, <2>1 DEF CallInit, expandVars
  <2>3. UpList(r)
    BY <1>2, <2>1, UpNew
  <2>4. todo'[t] \notin {E1, E2, E3, E4} /\ \A u \in App \ {t} : todo'[u] = todo[u]
    BY <1>3, <2>2, <2>3, HoldingIs
  <2>5. Young /\ App' = App
    BY <2>2 DEF ExpandIInv, Over, App
  <2>6. Young' /\ OwnIds' /\ ~core'.inited /\ ~ Holding(t)
    BY <1>2, <1>3, <2>2, <2>5, HoldingIs DEF Young, OwnIds, Holding
  <2> QED
    BY <2>2, <2>4, <2>6, EraKept
<1>5. CASE InitModule(t)
  <2>1. PICK x, m : x = Head(s) /\ m = x[2]
    OBVIOUS
  <2>2. /\ s # <<>> /\ x[1] = "init" /\ Doing(t, "init")
        /\ todo' = [todo EXCEPT ![t] = Tail(s)] /\ program' = program
        /\ UNCHANGED <<calls, core, geid, lock, served, failed>>
        /\ IF Flagged(m) THEN UNCHANGED <<mods, flag, table>> ELSE Up(m)
    BY <1>1, <1>5, <2>1 DEF InitModule, Next1, Doing, Ins
  <2>3. Upping(t)
    BY <1>2, <2>2, WhoActs
  <2>4. UpList(Tail(s))
    <3>1. UpList(s) /\ Head(s) # <<"inited">>
      BY <1>1, <2>1, <2>2, <2>3 DEF Upping, GoingUp
    <3> QED
      BY <3>1, UpHead
  <2>5. todo'[t] \notin {E1, E2, E3, E4} /\ \A u \in App \ {t} : todo'[u] = todo[u]
    BY <1>3, <2>2, <2>4, HoldingIs
  <2>6. ~core.inited /\ Young /\ calls[t] # <<>> /\ ~ Holding(t)
    BY <2>3, YoungUp
  <2>7. App' = App
    BY <2>2 DEF App
  <2>8. Young'
    <3>1. CASE UNCHANGED <<mods, table>>
      BY <3>1, <2>2, <2>6, <2>7 DEF Young
    <3>2. CASE Up(m)
      <4>1. mods' = mods \cup {m}
        BY <3>2 DEF Up
      <4>2. table' = CASE m = "mpool" -> [table EXCEPT !.pools = program.availPu]
                       [] m = "executor" -> [table EXCEPT !.count = program.n, !.initial = program.n]
                       [] OTHER -> table
        BY <3>2 DEF Up
      <4>3. table'.sched = table.sched /\ table'.queues = table.queues
        BY <4>2, <1>3
      <4>4. IF m = "mpool" THEN table'.pools = program.availPu ELSE table'.pools = table.pools
        BY <4>2, <1>3
      <4>5. IF m = "executor" THEN table'.count = program.n /\ table'.initial = program.n
                              ELSE table'.count = table.count /\ table'.initial = table.initial
        BY <4>2, <1>3
      <4> QED
        BY <4>1, <4>3, <4>4, <4>5, <2>2, <2>6, <2>7 DEF Young
    <3> QED
      BY <2>2, <3>1, <3>2
  <2>9. OwnIds'
    BY <1>2, <2>2, <2>7 DEF OwnIds
  <2> QED
    BY <2>2, <2>5, <2>6, <2>8, <2>9, EraKept
<1>6. CASE InitStart(t)
  <2>1. /\ s # <<>> /\ Head(s)[1] = "init" /\ Doing(t, "init")
        /\ todo' = [todo EXCEPT ![t] = Tail(s)] /\ program' = program
        /\ UNCHANGED <<calls, core, mods, table, lock, served, failed>>
        /\ geid' = geid \/ geid' = [geid EXCEPT ![t] = 0]
    BY <1>1, <1>6 DEF InitStart, Next1, Doing, Ins
  <2>2. Upping(t)
    BY <1>2, <2>1, WhoActs
  <2>3. UpList(Tail(s))
    <3>1. UpList(s) /\ Head(s) # <<"inited">>
      BY <1>1, <2>1, <2>2 DEF Upping, GoingUp
    <3> QED
      BY <3>1, UpHead
  <2>4. todo'[t] \notin {E1, E2, E3, E4} /\ \A u \in App \ {t} : todo'[u] = todo[u]
    BY <1>3, <2>1, <2>3, HoldingIs
  <2>5. t = Main /\ ~core.inited /\ Young /\ calls[t] # <<>> /\ ~ Holding(t)
    BY <2>2, YoungUp
  <2>6. App' = App
    BY <2>1 DEF App
  <2>7. geid'[Main] \in {Null, 0} /\ \A u \in App \ {Main} : geid'[u] = Null
    BY <1>3, <2>1, <2>5 DEF Young
  <2>8. Young' /\ OwnIds'
    BY <2>1, <2>5, <2>6, <2>7 DEF Young, OwnIds
  <2> QED
    BY <2>1, <2>4, <2>5, <2>8, EraKept
<1>7. CASE InitFails(t)
  <2>1. PICK r, m : m = Head(s)[2] /\ r = Append(Undo(m), <<"refused">>)
    OBVIOUS
  <2>2. /\ Doing(t, "init") /\ todo' = [todo EXCEPT ![t] = r] /\ program' = program
        /\ UNCHANGED <<calls, core, mods, table, geid, lock, served, failed>>
    BY <1>1, <1>7, <2>1 DEF InitFails, Doing, Ins, lifeVars, expandVars
  <2>3. t = Main /\ ~core.inited /\ Young /\ calls[t] # <<>> /\ ~ Holding(t)
    BY <1>2, <2>2, WhoActs, YoungUp
  <2>4. DownList(r, "refused")
    BY <1>2, <2>1, UndoNew
  <2>5. todo'[t] \notin {E1, E2, E3, E4} /\ \A u \in App \ {t} : todo'[u] = todo[u]
    BY <1>3, <2>2, <2>4, HoldingIs
  <2>6. App' = App
    BY <2>2 DEF App
  <2>7. Young' /\ OwnIds'
    BY <1>2, <2>2, <2>3, <2>6 DEF Young, OwnIds
  <2> QED
    BY <2>2, <2>3, <2>5, <2>7, EraKept
<1>8. CASE InitRefused(t)
  <2>1. /\ s # <<>> /\ Head(s)[1] = "refused" /\ Doing(t, "refused")
        /\ todo' = [todo EXCEPT ![t] = Tail(s)] /\ program' = program
        /\ core' = [core EXCEPT !.mutex = None] /\ calls' = [calls EXCEPT ![t] = Tail(@)]
        /\ UNCHANGED <<mods, table, geid, lock, served, failed>>
    BY <1>1, <1>8 DEF InitRefused, Next1, Doing, Ins, expandVars
  <2>2. Undoing(t)
    BY <1>2, <2>1, WhoActs
  <2>3. Tail(s) = <<>>
    <3>1. DownList(s, "refused")
      BY <1>1, <2>2 DEF Undoing, GoingDown
    <3> QED
      BY <3>1, <2>1, DownHead
  <2>4. t = Main /\ ~core.inited /\ Young /\ calls[t] # <<>> /\ ~ Holding(t)
    BY <2>2, YoungUp
  <2>5. todo'[t] = <<>> /\ \A u \in App \ {t} : todo'[u] = todo[u]
    BY <1>3, <2>1, <2>3
  <2>6. App' = App /\ ~core'.inited
    BY <1>3, <2>1, <2>4 DEF App
  <2>7. Young' /\ OwnIds'
    BY <1>2, <2>1, <2>4, <2>6 DEF Young, OwnIds
  <2> QED
    BY <2>1, <2>4, <2>5, <2>6, <2>7, HoldingIs, EraKept
<1> QED
  BY <1>4, <1>5, <1>6, <1>7, <1>8

\* Once the library is up the counts are those of the executors it started.
LEMMA ExpandInited ==
    ASSUME ExpandIInv, LifeIInv', NEW t \in App, InitDone(t)
    PROVE  ExpandIInv'
<1>1. PICK s : s = todo[t]
  OBVIOUS
<1>2. program.n \in Nat \ {0} /\ program.availPu \in Nat /\ LifeIInv /\ LifeTypes /\ OwnIds
  BY ExecutorsAssumption DEF ExpandIInv, LifeIInv, LifeTypes
<1>3. /\ todo \in [App -> Seq(Instrs)] /\ Main \in App
      /\ core \in [inited : BOOLEAN, mutex : {None, Main}, again : BOOLEAN]
      /\ table \in [count : Int, initial : Int, pools : Int, sched : Nat, queues : Int, made : Nat]
  BY <1>2 DEF LifeTypes
<1>4. /\ s # <<>> /\ Head(s)[1] = "inited" /\ Doing(t, "inited")
      /\ todo' = [todo EXCEPT ![t] = Tail(s)] /\ program' = program
      /\ core' = [core EXCEPT !.inited = TRUE, !.mutex = None]
      /\ UNCHANGED <<calls, mods, table, geid, lock, served, failed>>
  BY <1>1, <1>3 DEF InitDone, Next1, Doing, Ins, expandVars
<1>5. Upping(t)
  BY <1>2, <1>4, WhoActs
<1>6. t = Main /\ Young /\ calls[t] # <<>> /\ ~ Holding(t) /\ lock = None
  BY <1>5, YoungUp
<1>7. /\ UpList(s)
      /\ \A m \in Mods \ {"tools"} : m \in mods \/ Left(s, <<"init", m>>)
      /\ geid[Main] = 0 \/ Left(s, <<"init", "start", 0>>)
  BY <1>1, <1>5, <1>6, Zenon DEF Upping, GoingUp
<1>8. Tail(s) = <<>> /\ \A y : ~ Left(s, y)
  BY <1>4, <1>7, UpHead
<1>9. "mpool" \in mods /\ "executor" \in mods /\ geid[Main] = 0
  BY <1>7, <1>8 DEF Mods
<1>10. todo'[t] = <<>> /\ (\A u \in App \ {t} : todo'[u] = todo[u]) /\ App' = App
  BY <1>3, <1>4, <1>8 DEF App
<1>11. Books'
  <2>1. At(E2)' = FALSE /\ At(E3)' = FALSE
    BY <1>4, <1>6 DEF At
  <2>2. /\ table'.initial = program.n /\ table'.count = program.n /\ table'.pools = program.availPu
        /\ table'.queues = 0 /\ ~failed' /\ geid'[Main] = 0 /\ \A u \in App \ {Main} : geid'[u] = Null
    BY <1>4, <1>6, <1>9 DEF Young
  <2>3. program.n >= program.n /\ program.availPu = program.availPu + program.n - program.n + 0
        /\ 0 = program.n - program.n + 0 /\ ~ (0 > 0)
    BY <1>2
  <2> QED
    BY <1>4, <1>10, <2>1, <2>2, <2>3 DEF Books
<1>12. OwnIds'
  BY <1>2, <1>4, <1>10 DEF OwnIds
<1>13. core'.inited
  BY <1>3, <1>4
<1> QED
  BY <1>4, <1>6, <1>10, <1>11, <1>12, <1>13, HoldingIs, EraKept

\* kupl_fini gives out no executor; the loops go first.
LEMMA ExpandFini ==
    ASSUME ExpandIInv, LifeIInv', NEW t \in App, CallFini(t) \/ FiniModule(t) \/ StopExecutor(t) \/ FiniDone(t)
    PROVE  ExpandIInv'
<1>1. PICK s : s = todo[t]
  OBVIOUS
<1>2. program.n \in Nat \ {0} /\ LifeIInv /\ LifeTypes /\ OwnIds
  BY ExecutorsAssumption DEF ExpandIInv, LifeIInv, LifeTypes
<1>3. /\ todo \in [App -> Seq(Instrs)] /\ Main \in App /\ DOMAIN calls = App
      /\ core \in [inited : BOOLEAN, mutex : {None, Main}, again : BOOLEAN]
      /\ table \in [count : Int, initial : Int, pools : Int, sched : Nat, queues : Int, made : Nat]
  BY <1>2 DEF LifeTypes
<1>4. CASE CallFini(t)
  <2>1. /\ UNCHANGED <<program, core, mods, geid, lock, table, served, failed>>
        /\ s = <<>> /\ calls[t] # <<>> /\ ~ Holding(t)
    BY <1>1, <1>4, HoldingIs DEF CallFini, lifeVars, expandVars, Holding
  <2>2. App' = App /\ OwnIds'
    BY <1>2, <2>1 DEF App, OwnIds
  <2>3. CASE core.inited
    <3>1. PICK r : r = Append(Flattened("fini", FiniOrder), <<"finished">>)
      OBVIOUS
    <3>2. todo' = [todo EXCEPT ![t] = r] /\ calls' = calls
      BY <1>4, <2>3, <3>1 DEF CallFini
    <3>3. DownList(r, "finished")
      BY <1>2, <3>1, FiniNew
    <3>4. todo'[t] \notin {E1, E2, E3, E4} /\ \A u \in App \ {t} : todo'[u] = todo[u]
      BY <1>3, <3>2, <3>3, HoldingIs
    <3>5. "pf" \in mods => Books'
      <4>1. ~ Holding(t)'
        BY <3>4 DEF Holding, E1, E2, E3, E4
      <4> QED
        BY <2>1, <2>3, <3>4, <4>1, BooksKept DEF ExpandIInv
    <3> QED
      BY <2>1, <2>2, <2>3, <3>2, <3>4, <3>5, EraKept
  <2>4. CASE ~core.inited
    <3>1. todo' = todo /\ calls' = [calls EXCEPT ![t] = Tail(@)]
      BY <1>4, <2>4 DEF CallFini
    <3>2. Young
      BY <2>1, <2>4 DEF ExpandIInv, Over
    <3>3. Young'
      BY <2>1, <2>2, <3>2 DEF Young
    <3> QED
      BY <1>1, <2>1, <2>2, <2>4, <3>1, <3>3, HoldingIs, EraKept
  <2> QED
    BY <2>3, <2>4
<1>5. ASSUME Doing(t, "fini"), ~ Undoing(t)
      PROVE  /\ Ending(t) /\ core.inited /\ calls[t] # <<>> /\ ~ Holding(t) /\ DownList(s, "finished")
             /\ Head(s)[2] # "pf" => "pf" \notin mods
  <2>1. Ending(t) /\ core.inited /\ calls[t] # <<>> /\ GoingDown(s, "finished")
    BY <1>1, <1>2, <1>5, WhoActs DEF Ending, Finishing
  <2>2. DownList(s, "finished") /\ \A m \in mods \ {"barrier"} : Left(s, <<"fini", m>>)
    BY <2>1, Zenon DEF GoingDown
  <2>3. s # <<>> /\ Head(s)[1] = "fini"
    BY <1>1, <1>5 DEF Doing, Ins
  <2>4. ASSUME "pf" \in mods PROVE Head(s)[2] = "pf"
    <3>1. Left(s, <<"fini", "pf">>)
      BY <2>2, <2>4
    <3>2. Left(s, <<"fini", "pf">>) => <<"fini", "pf">> = Head(s) \/ Left(Tail(s), <<"fini", "pf">>)
      BY <2>2, <2>3, DownHead
    <3>3. \A p \in Most(Tail(s)) : Tail(s)[p][2] # "pf"
      <4>1. Head(s) # <<"finished">> /\ DownList(s, "finished")
        BY <2>2, <2>3
      <4> QED
        BY <4>1, DownHead, Zenon
    <3>4. ~ Left(Tail(s), <<"fini", "pf">>)
      <4>1. <<"fini", "pf">>[2] = "pf"
        OBVIOUS
      <4> QED
        BY <3>3, <4>1, Zenon DEF Left
    <3> QED
      BY <3>1, <3>2, <3>4
  <2>5. ~ Holding(t)
    BY <1>1, <2>2, HoldingIs DEF Holding
  <2> QED
    BY <2>1, <2>2, <2>4, <2>5
<1>6. ASSUME Doing(t, "fini") PROVE todo'[t] \in {s, Tail(s)} => todo'[t] \notin {E1, E2, E3, E4}
  <2>1. PICK last \in {"refused", "finished"} : DownList(s, last)
    BY <1>1, <1>2, <1>6, WhoActs DEF Undoing, Ending, Finishing, GoingDown
  <2>2. s # <<>> /\ Head(s)[1] = "fini"
    BY <1>1, <1>6 DEF Doing, Ins
  <2>3. DownList(Tail(s), last)
    BY <2>1, <2>2, DownHead
  <2> QED
    BY <2>1, <2>3, HoldingIs
<1>7. CASE FiniModule(t)
  <2>1. PICK m : m = Head(s)[2]
    OBVIOUS
  <2>2. /\ Doing(t, "fini") /\ todo' = [todo EXCEPT ![t] = Tail(s)] /\ program' = program
        /\ UNCHANGED <<calls, core, geid, lock, served, failed>> /\ mods' = mods \ {m}
        /\ table' = CASE m = "sched" -> [table EXCEPT !.sched = None, !.queues = 0]
                      [] m = "executor" -> [table EXCEPT !.count = 0]
                      [] m = "mpool" -> [table EXCEPT !.pools = 0]
                      [] OTHER -> table
    BY <1>1, <1>7, <2>1, Zenon DEF FiniModule, Next1, Ins
  <2>3. todo'[t] = Tail(s) /\ (\A u \in App \ {t} : todo'[u] = todo[u]) /\ App' = App
    BY <1>3, <2>2 DEF App
  <2>4. todo'[t] \notin {E1, E2, E3, E4} /\ OwnIds'
    BY <1>2, <1>6, <2>2, <2>3 DEF OwnIds
  <2>5. CASE Undoing(t)
    <3>1. ~core.inited /\ Young /\ calls[t] # <<>> /\ ~ Holding(t)
      BY <2>5, YoungUp
    <3>2. table'.sched \in {None, table.sched} /\ table'.queues \in {0, table.queues}
      BY <1>3, <2>2
    <3>3. m # "mpool" => table'.pools = table.pools
      BY <1>3, <2>2
    <3>4. m # "executor" => table'.count = table.count /\ table'.initial = table.initial
      BY <1>3, <2>2
    <3>5. Young'
      BY <2>2, <2>3, <3>1, <3>2, <3>3, <3>4 DEF Young
    <3> QED
      BY <2>2, <2>3, <2>4, <3>1, <3>5, EraKept
  <2>6. CASE ~ Undoing(t)
    <3>1. core.inited /\ calls[t] # <<>> /\ ~ Holding(t) /\ (m # "pf" => "pf" \notin mods)
      BY <1>5, <2>1, <2>2, <2>6
    <3>2. "pf" \notin mods'
      BY <2>2, <3>1
    <3> QED
      BY <2>2, <2>3, <2>4, <3>1, <3>2, EraKept
  <2> QED
    BY <2>5, <2>6
<1>8. CASE StopExecutor(t)
  <2>1. /\ Doing(t, "fini") /\ Head(s)[2] = "start" /\ program' = program
        /\ UNCHANGED <<calls, core, mods, table, geid, lock, served, failed>>
        /\ todo' = todo \/ todo' = [todo EXCEPT ![t] = Tail(s)]
    BY <1>1, <1>8 DEF StopExecutor, Next1, Ins, expandVars
  <2>2. todo'[t] \in {s, Tail(s)} /\ (\A u \in App \ {t} : todo'[u] = todo[u]) /\ App' = App
    BY <1>1, <1>3, <2>1 DEF App
  <2>3. todo'[t] \notin {E1, E2, E3, E4} /\ OwnIds'
    BY <1>2, <1>6, <2>1, <2>2 DEF OwnIds
  <2>4. CASE Undoing(t)
    <3>1. ~core.inited /\ Young /\ calls[t] # <<>> /\ ~ Holding(t)
      BY <2>4, YoungUp
    <3>2. Young'
      BY <2>1, <2>2, <3>1 DEF Young
    <3> QED
      BY <2>1, <2>2, <2>3, <3>1, <3>2, EraKept
  <2>5. CASE ~ Undoing(t)
    <3>1. core.inited /\ calls[t] # <<>> /\ ~ Holding(t) /\ "pf" \notin mods
      BY <1>5, <2>1, <2>5
    <3> QED
      BY <2>1, <2>2, <2>3, <3>1, EraKept
  <2> QED
    BY <2>4, <2>5
<1>9. CASE FiniDone(t)
  <2>1. /\ s # <<>> /\ Head(s)[1] = "finished" /\ Doing(t, "finished")
        /\ todo' = [todo EXCEPT ![t] = Tail(s)] /\ program' = program
        /\ core' = [core EXCEPT !.inited = FALSE] /\ calls' = [calls EXCEPT ![t] = Tail(@)]
        /\ UNCHANGED <<mods, table, geid, lock, served, failed>>
    BY <1>1, <1>9 DEF FiniDone, Next1, Doing, Ins, expandVars
  <2>2. /\ GoingDown(s, "finished") /\ calls[t] # <<>> /\ Head(calls[t])[1] = "fini"
        /\ \A u \in App \ {t} : todo[u] = <<>> /\ calls[u] = <<>>
    BY <1>1, <1>2, <2>1, WhoActs DEF Ending, Finishing
  <2>3. DownList(s, "finished")
    BY <2>2 DEF GoingDown
  <2>4. Tail(s) = <<>> /\ ~ Holding(t)
    BY <1>1, <2>1, <2>3, DownHead, HoldingIs DEF Holding
  <2>5. todo'[t] = <<>> /\ (\A u \in App \ {t} : todo'[u] = todo[u]) /\ App' = App
    BY <1>3, <2>1, <2>4 DEF App
  <2>6. calls'[t] = <<>>
    <3>1. PICK c, S : c = calls[t] /\ S = Range(program.calls[t])
      OBVIOUS
    <3>2. c \in Seq(S) /\ c # <<>> /\ c[1][1] = "fini" /\ \A j \in DOMAIN c : c[j][1] = "fini" => j = Len(c)
      BY <2>2, <3>1 DEF ExpandIInv, CallsLeft
    <3>3. 1 \in DOMAIN c
      BY <3>2
    <3>4. Len(c) = 1
      BY <3>2, <3>3
    <3>5. Tail(c) = <<>>
      <4>1. Tail(c) \in Seq(S) /\ Len(Tail(c)) = 0
        BY <3>2, <3>4
      <4> QED
        BY <4>1, EmptySeq
    <3> QED
      BY <1>3, <2>1, <3>1, <3>5
  <2>7. Over'
    BY <1>3, <2>1, <2>2, <2>5, <2>6 DEF Over
  <2>8. ~core'.inited /\ OwnIds'
    BY <1>2, <1>3, <2>1, <2>5 DEF OwnIds
  <2> QED
    BY <2>1, <2>2, <2>4, <2>5, <2>7, <2>8, HoldingIs, EraKept
<1> QED
  BY <1>4, <1>7, <1>8, <1>9

\* The thread that has the lock goes on with its expansion.
LEMMA LockedKept ==
    ASSUME Locked, NEW t \in App, program' = program, \A u \in App \ {t} : todo'[u] = todo[u],
           lock \in {None, t}, todo'[t] \in {E1, E2, E3, E4}, lock' = t, None \notin App
    PROVE  Locked'
<1>1. App' = App
  BY DEF App
<1>2. \A u \in App \ {t} : todo[u] \notin {E1, E2, E3, E4}
  BY DEF Locked, Holding
<1>3. \A u \in App : todo'[u] \in {E1, E2, E3, E4} <=> lock' = u
  BY <1>2
<1>4. (\A u \in App : Holding(u) <=> lock = u)'
  BY <1>1, <1>3 DEF Holding, E1, E2, E3, E4
<1> QED
  BY <1>1, <1>4 DEF Locked

\* A thread that has calls to make, or is expanding, finds the library up and the counts right.
LEMMA ExpandKnows ==
    ASSUME ExpandIInv, NEW t \in App, Working
    PROVE  /\ program.n \in Nat \ {0} /\ program.availPu \in Nat /\ None \notin App
           /\ todo \in [App -> Seq(Instrs)] /\ geid \in [App -> Int] /\ DOMAIN calls = App
           /\ table \in [count : Int, initial : Int, pools : Int, sched : Nat, queues : Int, made : Nat]
           /\ "pf" \in mods /\ geid[Main] = 0 /\ Books /\ core.inited /\ Expanding(t)
           /\ Holding(t) => lock = t
<1>1. LifeTypes /\ program \in Programs
  BY DEF ExpandIInv, LifeIInv, LifeTypes
<1>2. "pf" \in mods
  BY DEF Working, AllUp, Mods
<1>3. None \notin App
  BY <1>1, ThreadsAssumption DEF App
<1> QED
  BY <1>1, <1>2, <1>3, ExecutorsAssumption DEF ExpandIInv, Working, AllUp, LifeTypes, Locked

\* The scheduler of the expanded executors gets a queue, or is made.
LEMMA ExpandSched ==
    ASSUME ExpandIInv, LifeIInv', NEW t \in App, SchedExpand(t)
    PROVE  ExpandIInv'
<1>1. PICK s : s = todo[t]
  OBVIOUS
<1>2. /\ s # <<>> /\ Head(s)[1] = "sched_expand" /\ Doing(t, "sched_expand")
      /\ program' = program /\ UNCHANGED <<calls, core, mods, lock, geid, served>>
  BY <1>1 DEF SchedExpand, Doing, Ins, lifeVars
<1>3. Working /\ LifeIInv
  BY <1>2, WhoActs DEF ExpandIInv
<1>4. /\ program.n \in Nat \ {0} /\ program.availPu \in Nat /\ None \notin App
      /\ todo \in [App -> Seq(Instrs)] /\ DOMAIN calls = App
      /\ table \in [count : Int, initial : Int, pools : Int, sched : Nat, queues : Int, made : Nat]
      /\ Books /\ core.inited /\ Expanding(t) /\ (Holding(t) => lock = t)
  BY <1>3, ExpandKnows
<1>5. s = E4
  <2>1. s \in {E0, E1, E2, E3, E4}
    BY <1>1, <1>2, <1>4, Zenon DEF Expanding
  <2>2. Head(s)[1] = "sched_expand"
    BY <1>2
  <2> QED
    BY <2>1, <2>2, ExpandLists
<1>6. lock = t /\ ~ At(E2) /\ ~ At(E3)
  BY <1>1, <1>4, <1>5, HoldingIs DEF Holding, At
<1>7. \/ /\ table.sched = None
         /\ table' = [table EXCEPT !.sched = table.made + 1, !.made = @ + 1, !.queues = 1]
         /\ todo' = [todo EXCEPT ![t] = E3] /\ failed' = failed
      \/ /\ table.sched # None
         /\ table' = [table EXCEPT !.queues = @ + 1]
         /\ todo' = [todo EXCEPT ![t] = E3] /\ failed' = failed
      \/ /\ table' = [table EXCEPT !.sched = None, !.queues = 0]
         /\ todo' = [todo EXCEPT ![t] = E1] /\ failed' = TRUE
  BY <1>1, <1>5, ExpandLists DEF SchedExpand, Next1, E1
<1>8. todo'[t] \in {E1, E3} /\ (\A u \in App \ {t} : todo'[u] = todo[u]) /\ App' = App
  BY <1>2, <1>4, <1>7 DEF App
<1>9. CallsLeft' /\ Locked' /\ OwnIds' /\ DOMAIN served' = App'
  <2>1. calls[t] # <<>> /\ CallsLeft
    BY <1>1, <1>2 DEF ExpandIInv, CallsLeft
  <2>2. CallsLeft'
    BY <2>1, <1>2, <1>4, <1>8, CallsKept
  <2>3. Locked'
    BY <1>2, <1>4, <1>6, <1>8, LockedKept DEF ExpandIInv
  <2> QED
    BY <2>2, <2>3, <1>2, <1>8 DEF ExpandIInv, OwnIds
<1>10. ~ At(E2)' /\ (At(E3)' <=> todo'[t] = E3)
  BY <1>2, <1>4, <1>6, <1>8, HoldingIs DEF At, E1, E2, E3
<1>11. table'.count = table.count /\ table'.initial = table.initial /\ table'.pools = table.pools
  BY <1>4, <1>7
<1>12. Books'
  <2>1. /\ table'.initial = program.n /\ table'.count >= program.n /\ geid'[Main] = 0
        /\ \A u \in App \ {Main} : geid'[u] # Null => program.n <= geid'[u] /\ geid'[u] < table'.count
        /\ table'.pools = program.availPu + table'.count - program.n + 0
    BY <1>2, <1>4, <1>6, <1>11 DEF Books
  <2>2. ASSUME ~failed'
        PROVE  /\ table'.queues = table'.count - program.n + 1 /\ At(E3)'
               /\ table'.queues > 0 => table'.sched # None
               /\ \A u \in App \ {Main} : geid'[u] # Null => served'[u] = table'.sched
    <3>1. ~failed /\ todo'[t] = E3
      BY <1>4, <1>7, <2>2
    <3>2. /\ table.queues = table.count - program.n + 0 /\ table.count >= program.n
          /\ table.queues > 0 => table.sched # None
          /\ \A u \in App \ {Main} : geid[u] # Null => served[u] = table.sched
          /\ \A u \in App \ {Main} : geid[u] # Null => program.n <= geid[u] /\ geid[u] < table.count
      BY <3>1, <1>4, <1>6 DEF Books
    <3>3. PICK c \in Int, n \in Nat, q \in Int : c = table.count /\ n = program.n /\ q = table.queues
      BY <1>4
    <3>4. CASE table.sched = None
      <4>1. table'.sched = table.made + 1 /\ table'.queues = 1
        BY <1>4, <1>7, <2>2, <3>4
      <4>2. c = n /\ 1 = c - n + 1
        BY <3>2, <3>3, <3>4
      <4>3. table'.sched # None
        BY <4>1, <1>4 DEF None
      <4>4. geid \in [App -> Int]
        BY <1>3, ExpandKnows
      <4>5. \A u \in App \ {Main} : geid[u] = Null
        BY <3>2, <3>3, <4>2, <4>4
      <4> QED
        BY <4>1, <4>2, <4>3, <4>5, <3>1, <3>3, <1>2, <1>10, <1>11
    <3>5. CASE table.sched # None
      <4>1. table'.sched = table.sched /\ table'.queues = q + 1
        BY <1>4, <1>7, <2>2, <3>3, <3>5
      <4>2. q + 1 = c - n + 1
        BY <3>2, <3>3
      <4> QED
        BY <4>1, <4>2, <3>1, <3>2, <3>3, <3>5, <1>2, <1>10, <1>11
    <3> QED
      BY <3>4, <3>5
  <2> QED
    BY <2>1, <2>2, <1>2, <1>8, <1>10 DEF Books
<1> QED
  BY <1>2, <1>4, <1>9, <1>12 DEF ExpandIInv

\* The new executor gets a pool.
LEMMA ExpandMemory ==
    ASSUME ExpandIInv, LifeIInv', NEW t \in App, MemoryExpand(t)
    PROVE  ExpandIInv'
<1>1. PICK s : s = todo[t]
  OBVIOUS
<1>2. /\ s # <<>> /\ Head(s)[1] = "memory_expand" /\ Doing(t, "memory_expand")
      /\ program' = program /\ UNCHANGED <<calls, core, mods, lock, geid, served>>
  BY <1>1 DEF MemoryExpand, Doing, Ins, lifeVars
<1>3. Working /\ LifeIInv
  BY <1>2, WhoActs DEF ExpandIInv
<1>4. /\ program.n \in Nat \ {0} /\ program.availPu \in Nat /\ None \notin App
      /\ todo \in [App -> Seq(Instrs)] /\ DOMAIN calls = App
      /\ table \in [count : Int, initial : Int, pools : Int, sched : Nat, queues : Int, made : Nat]
      /\ Books /\ core.inited /\ Expanding(t) /\ (Holding(t) => lock = t)
  BY <1>3, ExpandKnows
<1>5. s = E3
  <2>1. s \in {E0, E1, E2, E3, E4}
    BY <1>1, <1>2, <1>4, Zenon DEF Expanding
  <2>2. Head(s)[1] = "memory_expand"
    BY <1>2
  <2> QED
    BY <2>1, <2>2, ExpandLists
<1>6. lock = t /\ ~ At(E2) /\ At(E3)
  BY <1>1, <1>4, <1>5, HoldingIs DEF Holding, At
<1>7. \/ /\ table' = [table EXCEPT !.pools = @ + 1]
         /\ todo' = [todo EXCEPT ![t] = E2] /\ failed' = failed
      \/ /\ table' = [table EXCEPT !.sched = None, !.queues = 0]
         /\ todo' = [todo EXCEPT ![t] = E1] /\ failed' = TRUE
  BY <1>1, <1>5, ExpandLists DEF MemoryExpand, Next1, E1
<1>8. todo'[t] \in {E1, E2} /\ (\A u \in App \ {t} : todo'[u] = todo[u]) /\ App' = App
  BY <1>2, <1>4, <1>7 DEF App
<1>9. CallsLeft' /\ Locked' /\ OwnIds' /\ DOMAIN served' = App'
  <2>1. calls[t] # <<>> /\ CallsLeft
    BY <1>1, <1>2 DEF ExpandIInv, CallsLeft
  <2>2. CallsLeft'
    BY <2>1, <1>2, <1>4, <1>8, CallsKept
  <2>3. Locked'
    BY <1>2, <1>4, <1>6, <1>8, LockedKept DEF ExpandIInv
  <2> QED
    BY <2>2, <2>3, <1>2, <1>8 DEF ExpandIInv, OwnIds
<1>10. ~ At(E3)' /\ (At(E2)' <=> todo'[t] = E2)
  BY <1>2, <1>4, <1>6, <1>8, HoldingIs DEF At, E1, E2, E3
<1>11. table'.count = table.count /\ table'.initial = table.initial
  BY <1>4, <1>7
<1>12. table.pools = program.availPu + table.count - program.n + 0
  BY <1>4, <1>6 DEF Books
<1>13. table'.pools = program.availPu + table.count - program.n + (IF At(E2)' THEN 1 ELSE 0)
  <2>1. CASE todo'[t] = E2
    <3>1. table'.pools = table.pools + 1
      BY <2>1, <1>4, <1>7, HoldingIs
    <3> QED
      BY <3>1, <2>1, <1>4, <1>10, <1>12
  <2>2. CASE todo'[t] # E2
    <3>1. table'.pools = table.pools
      BY <2>2, <1>4, <1>7
    <3> QED
      BY <3>1, <2>2, <1>10, <1>12
  <2> QED
    BY <2>1, <2>2
<1>14. ~failed' => ~failed /\ At(E2)' /\ table'.queues = table.queues /\ table'.sched = table.sched
  BY <1>4, <1>7, <1>10
<1>15. Books'
  <2>1. /\ table'.initial = program.n /\ table'.count >= program.n /\ geid'[Main] = 0
        /\ \A u \in App \ {Main} : geid'[u] # Null => program.n <= geid'[u] /\ geid'[u] < table'.count
    BY <1>2, <1>4, <1>11 DEF Books
  <2>2. ASSUME ~failed'
        PROVE  /\ table'.queues = table'.count - program.n + 1 /\ At(E2)'
               /\ table'.queues > 0 => table'.sched # None
               /\ \A u \in App \ {Main} : geid'[u] # Null => served'[u] = table'.sched
    BY <2>2, <1>2, <1>4, <1>6, <1>11, <1>14 DEF Books
  <2> QED
    BY <2>1, <2>2, <1>2, <1>8, <1>11, <1>13 DEF Books
<1> QED
  BY <1>2, <1>4, <1>9, <1>15 DEF ExpandIInv

\* The executor gets its id; or its pool is given back.
LEMMA ExpandExecutor ==
    ASSUME ExpandIInv, LifeIInv', NEW t \in App, ExecutorExpand(t)
    PROVE  ExpandIInv'
<1>1. PICK s : s = todo[t]
  OBVIOUS
<1>2. /\ s # <<>> /\ Head(s)[1] = "executor_expand" /\ Doing(t, "executor_expand")
      /\ program' = program /\ UNCHANGED <<calls, core, mods, lock>>
  BY <1>1 DEF ExecutorExpand, Doing, Ins, lifeVars
<1>3. Working /\ LifeIInv
  BY <1>2, WhoActs DEF ExpandIInv
<1>4. /\ program.n \in Nat \ {0} /\ program.availPu \in Nat /\ None \notin App
      /\ todo \in [App -> Seq(Instrs)] /\ geid \in [App -> Int] /\ DOMAIN calls = App
      /\ table \in [count : Int, initial : Int, pools : Int, sched : Nat, queues : Int, made : Nat]
      /\ geid[Main] = 0 /\ Books /\ core.inited /\ Expanding(t) /\ (Holding(t) => lock = t)
  BY <1>3, ExpandKnows
<1>5. s = E2
  <2>1. s \in {E0, E1, E2, E3, E4}
    BY <1>1, <1>2, <1>4, Zenon DEF Expanding
  <2>2. Head(s)[1] = "executor_expand"
    BY <1>2
  <2> QED
    BY <2>1, <2>2, ExpandLists
<1>6. lock = t /\ At(E2) /\ ~ At(E3)
  BY <1>1, <1>4, <1>5, HoldingIs DEF Holding, At
<1>7. geid[t] = Null /\ t # Main
  <2>1. geid[t] = Null
    BY <1>1, <1>4, <1>5, HoldingIs DEF Expanding
  <2> QED
    BY <2>1, <1>4 DEF Null
<1>8. /\ todo' = [todo EXCEPT ![t] = E1]
      /\ \/ /\ table' = [table EXCEPT !.count = @ + 1] /\ failed' = failed
            /\ geid' = [geid EXCEPT ![t] = table.count] /\ served' = [served EXCEPT ![t] = table.sched]
         \/ /\ table' = [table EXCEPT !.pools = @ - 1, !.sched = None, !.queues = 0] /\ failed' = TRUE
            /\ geid' = geid /\ served' = served
  BY <1>1, <1>5, ExpandLists DEF ExecutorExpand, Next1, Rollback
<1>9. todo'[t] = E1 /\ (\A u \in App \ {t} : todo'[u] = todo[u]) /\ App' = App
  BY <1>2, <1>4, <1>8 DEF App
<1>10. /\ table.initial = program.n /\ table.count >= program.n
       /\ \A u \in App \ {Main} : geid[u] # Null => program.n <= geid[u] /\ geid[u] < table.count
       /\ table.pools = program.availPu + table.count - program.n + 1
       /\ ~failed => /\ table.queues = table.count - program.n + 1
                     /\ table.queues > 0 => table.sched # None
                     /\ \A u \in App \ {Main} : geid[u] # Null => served[u] = table.sched
  BY <1>4, <1>6 DEF Books
<1>11. PICK c \in Int, n \in Nat \ {0} : c = table.count /\ n = program.n
  BY <1>4
<1>12. ~ At(E2)' /\ ~ At(E3)'
  BY <1>2, <1>6, <1>9, HoldingIs DEF At, E1, E2, E3
<1>13. CallsLeft' /\ Locked' /\ DOMAIN served' = App'
  <2>1. calls[t] # <<>> /\ CallsLeft
    BY <1>1, <1>2 DEF ExpandIInv, CallsLeft
  <2>2. CallsLeft'
    BY <2>1, <1>2, <1>4, <1>9, CallsKept
  <2>3. Locked'
    BY <1>2, <1>4, <1>6, <1>9, LockedKept DEF ExpandIInv
  <2> QED
    BY <2>2, <2>3, <1>8, <1>9 DEF ExpandIInv
<1>14. CASE /\ table' = [table EXCEPT !.pools = @ - 1, !.sched = None, !.queues = 0] /\ failed' = TRUE
            /\ geid' = geid /\ served' = served
  <2>2. table'.count = c /\ table'.initial = table.initial /\ table'.pools = table.pools - 1
    BY <1>4, <1>11, <1>14
  <2>3. table'.pools = program.availPu + c - n + 0
    <3>1. PICK a \in Nat, k \in Int : a = program.availPu /\ k = table.pools
      BY <1>4
    <3>2. k = a + c - n + 1
      BY <3>1, <1>10, <1>11
    <3>3. k - 1 = a + c - n + 0
      BY <3>2
    <3> QED
      BY <2>2, <3>1, <3>3, <1>11
  <2>4. Books'
    BY <2>2, <2>3, <1>2, <1>4, <1>9, <1>10, <1>11, <1>12, <1>14 DEF Books
  <2>5. OwnIds'
    BY <1>9, <1>14 DEF ExpandIInv, OwnIds
  <2> QED
    BY <2>4, <2>5, <1>2, <1>4, <1>13 DEF ExpandIInv
<1>15. CASE /\ table' = [table EXCEPT !.count = @ + 1] /\ failed' = failed
            /\ geid' = [geid EXCEPT ![t] = table.count] /\ served' = [served EXCEPT ![t] = table.sched]
  <2>1. /\ table'.count = c + 1 /\ table'.initial = table.initial /\ table'.pools = table.pools
        /\ table'.queues = table.queues /\ table'.sched = table.sched
    BY <1>4, <1>11, <1>15
  <2>2. geid'[t] = c /\ served'[t] = table.sched
    BY <1>4, <1>11, <1>15 DEF ExpandIInv
  <2>3. \A u \in App \ {t} : geid'[u] = geid[u] /\ served'[u] = served[u]
    BY <1>4, <1>15 DEF ExpandIInv
  <2>4. \A u \in App \ {t} : geid[u] # c
    <3> SUFFICES ASSUME NEW u \in App \ {t} PROVE geid[u] # c
      OBVIOUS
    <3>1. CASE u = Main
      BY <3>1, <1>4, <1>10, <1>11
    <3>2. CASE u # Main /\ geid[u] # Null
      BY <3>2, <1>4, <1>10, <1>11
    <3>3. CASE geid[u] = Null
      BY <3>3, <1>10, <1>11 DEF Null
    <3> QED
      BY <3>1, <3>2, <3>3
  <2>5. OwnIds'
    <3>1. OwnIds
      BY DEF ExpandIInv
    <3>2. \A u, v \in App : geid'[u] # Null /\ geid'[u] = geid'[v] => u = v
      BY <3>1, <2>2, <2>3, <2>4 DEF OwnIds
    <3> QED
      BY <3>2, <1>9 DEF OwnIds
  <2>6. \A u \in App \ {Main} : geid'[u] # Null => n <= geid'[u] /\ geid'[u] < c + 1
    <3> SUFFICES ASSUME NEW u \in App \ {Main}, geid'[u] # Null PROVE n <= geid'[u] /\ geid'[u] < c + 1
      OBVIOUS
    <3>1. CASE u = t
      BY <3>1, <2>2, <1>10, <1>11
    <3>2. CASE u # t
      <4>1. geid'[u] = geid[u] /\ geid[u] \in Int
        BY <3>2, <2>3, <1>4
      <4>2. n <= geid[u] /\ geid[u] < c
        BY <4>1, <1>10, <1>11
      <4> QED
        BY <4>1, <4>2
    <3> QED
      BY <3>1, <3>2
  <2>7. c + 1 >= n /\ table'.pools = program.availPu + (c + 1) - n + 0
    <3>1. PICK a \in Nat, k \in Int : a = program.availPu /\ k = table.pools
      BY <1>4
    <3>2. k = a + c - n + 1 /\ c >= n
      BY <3>1, <1>10, <1>11
    <3>3. k = a + (c + 1) - n + 0 /\ c + 1 >= n
      BY <3>2
    <3> QED
      BY <2>1, <3>1, <3>3, <1>11
  <2>8. ASSUME ~failed'
        PROVE  /\ table'.queues = (c + 1) - n + 0
               /\ table'.queues > 0 => table'.sched # None
               /\ \A u \in App \ {Main} : geid'[u] # Null => served'[u] = table'.sched
    <3>1. ~failed
      BY <2>8, <1>15
    <3>2. table.queues = c - n + 1 /\ (table.queues > 0 => table.sched # None)
      BY <3>1, <1>10, <1>11
    <3>3. \A u \in App \ {Main} : geid'[u] # Null => served'[u] = table.sched
      BY <3>1, <2>2, <2>3, <1>10
    <3> QED
      BY <3>2, <3>3, <2>1
  <2>9. Books'
    <3>1. geid'[Main] = 0
      BY <2>3, <1>4, <1>7 DEF ExpandIInv, LifeIInv, LifeTypes
    <3> QED
      BY <3>1, <2>1, <2>6, <2>7, <2>8, <1>2, <1>9, <1>10, <1>11, <1>12 DEF Books
  <2> QED
    BY <2>5, <2>9, <1>2, <1>4, <1>13 DEF ExpandIInv
<1> QED
  BY <1>8, <1>14, <1>15

\* A call that does not expand, or has not begun to, takes or releases the lock.
LEMMA ExpandRest ==
    ASSUME ExpandIInv, LifeIInv', NEW t \in App,
           CallExecutorNum(t) \/ CallGroup(t) \/ ExpandLock(t) \/ ExpandUnlock(t)
    PROVE  ExpandIInv'
<1>1. PICK s : s = todo[t]
  OBVIOUS
<1>2. LifeIInv /\ OwnIds /\ DOMAIN served = App /\ CallsLeft /\ Locked
  BY DEF ExpandIInv
<1>3. CASE CallExecutorNum(t) \/ CallGroup(t)
  <2>1. /\ s = <<>> /\ calls[t] # <<>> /\ core.inited
        /\ UNCHANGED <<program, core, mods, geid, lock, table, served, failed>>
        /\ \/ calls' = [calls EXCEPT ![t] = Tail(@)] /\ todo' = todo
           \/ calls' = calls /\ todo' = [todo EXCEPT ![t] = E0]
    BY <1>1, <1>3 DEF CallExecutorNum, CallGroup, Expands, lifeVars, expandVars, E0
  <2>2. Working
    BY <1>1, <1>2, <2>1, WhoCalls
  <2>3. todo \in [App -> Seq(Instrs)] /\ Books
    BY <2>2, ExpandKnows
  <2>4. /\ todo'[t] \in {<<>>, E0} /\ (\A u \in App \ {t} : todo'[u] = todo[u])
        /\ (calls' = calls \/ (calls' = [calls EXCEPT ![t] = Tail(@)] /\ todo'[t] = <<>>))
    BY <1>1, <2>1, <2>3
  <2>5. ~ Holding(t) /\ todo'[t] \notin {E1, E2, E3, E4}
    BY <1>1, <2>1, <2>4, HoldingIs DEF Holding
  <2>6. Books'
    <3>1. ~ Holding(t)'
      BY <2>5 DEF Holding, E1, E2, E3, E4
    <3> QED
      BY <2>1, <2>3, <2>4, <2>5, <3>1, BooksKept
  <2>7. OwnIds'
    BY <1>2, <2>1 DEF OwnIds, App
  <2> QED
    BY <2>1, <2>4, <2>5, <2>6, <2>7, EraKept
<1>4. CASE ExpandLock(t)
  <2>1. /\ s # <<>> /\ Doing(t, "lock") /\ Head(s)[1] = "lock" /\ lock = None /\ lock' = t
        /\ todo' = [todo EXCEPT ![t] = E4]
        /\ UNCHANGED <<program, calls, core, mods, geid, table, served, failed>>
    BY <1>1, <1>4 DEF ExpandLock, LockFree, Doing, Ins, lifeVars, E4
  <2>2. Working
    BY <1>2, <2>1, WhoActs
  <2>3. todo \in [App -> Seq(Instrs)] /\ Books /\ None \notin App /\ DOMAIN calls = App /\ core.inited
    BY <2>2, ExpandKnows
  <2>4. todo'[t] = E4 /\ (\A u \in App \ {t} : todo'[u] = todo[u]) /\ App' = App
    BY <2>1, <2>3 DEF App
  <2>5. calls[t] # <<>>
    BY <1>1, <1>2, <2>1 DEF CallsLeft
  <2>6. CallsLeft' /\ Locked'
    BY <1>2, <2>1, <2>3, <2>4, <2>5, CallsKept, LockedKept
  <2>7. ~ At(E2) /\ ~ At(E3) /\ ~ At(E2)' /\ ~ At(E3)'
    BY <2>1, <2>4, HoldingIs DEF At, E2, E3
  <2>8. Books'
    BY <2>1, <2>3, <2>4, <2>7 DEF Books
  <2>9. OwnIds'
    BY <1>2, <2>1, <2>4 DEF OwnIds
  <2> QED
    BY <1>2, <2>1, <2>3, <2>4, <2>6, <2>8, <2>9 DEF ExpandIInv
<1>5. CASE ExpandUnlock(t)
  <2>1. /\ s # <<>> /\ Doing(t, "unlock") /\ Head(s)[1] = "unlock" /\ lock' = None
        /\ todo' = [todo EXCEPT ![t] = Tail(s)] /\ calls' = [calls EXCEPT ![t] = Tail(@)]
        /\ UNCHANGED <<program, core, mods, geid, table, served, failed>>
    BY <1>1, <1>5 DEF ExpandUnlock, Next1, Doing, Ins, lifeVars
  <2>2. Working
    BY <1>2, <2>1, WhoActs
  <2>3. /\ todo \in [App -> Seq(Instrs)] /\ Books /\ None \notin App /\ DOMAIN calls = App /\ core.inited
        /\ Expanding(t) /\ (Holding(t) => lock = t)
    BY <2>2, ExpandKnows
  <2>4. s = E1
    <3>1. s \in {E0, E1, E2, E3, E4}
      BY <1>1, <2>1, <2>3, Zenon DEF Expanding
    <3>2. Head(s)[1] = "unlock"
      BY <2>1
    <3> QED
      BY <3>1, <3>2, ExpandLists
  <2>5. todo'[t] = <<>> /\ (\A u \in App \ {t} : todo'[u] = todo[u]) /\ App' = App
    BY <2>1, <2>3, <2>4, ExpandLists DEF App
  <2>6. calls[t] # <<>> /\ lock = t
    BY <1>1, <1>2, <2>1, <2>3, <2>4 DEF CallsLeft, Holding
  <2>7. CallsLeft'
    BY <1>2, <2>1, <2>3, <2>5, <2>6, CallsKept
  <2>8. Locked'
    <3>1. \A u \in App : todo'[u] \notin {E1, E2, E3, E4}
      BY <1>2, <2>5, <2>6, HoldingIs DEF Locked, Holding
    <3>2. (\A u \in App : Holding(u) <=> lock = u)'
      BY <3>1, <2>1, <2>3, <2>5 DEF Holding, E1, E2, E3, E4
    <3> QED
      BY <3>2, <2>1 DEF Locked
  <2>9. ~ At(E2) /\ ~ At(E3) /\ ~ At(E2)' /\ ~ At(E3)'
    BY <1>1, <2>1, <2>4, <2>6, HoldingIs DEF At
  <2>10. Books'
    BY <2>1, <2>3, <2>5, <2>9 DEF Books
  <2>11. OwnIds'
    BY <1>2, <2>1, <2>5 DEF OwnIds
  <2> QED
    BY <1>2, <2>1, <2>3, <2>5, <2>7, <2>8, <2>10, <2>11 DEF ExpandIInv
<1> QED
  BY <1>3, <1>4, <1>5

\* At first no executor is given out.
LEMMA ExpandFirst == Init => ExpandIInv
<1> SUFFICES ASSUME Init PROVE ExpandIInv
  OBVIOUS
<1>1. LifeIInv /\ LifeTypes
  BY LifeInit DEF LifeIInv
<1>2. program \in Programs /\ App = DOMAIN program.calls /\ calls = program.calls /\ Main \in App
  BY <1>1 DEF Init, App, LifeTypes
<1>3. /\ \A t \in App : todo[t] = <<>> /\ geid[t] = Null
      /\ DOMAIN served = App /\ lock = None /\ ~core.inited /\ mods = {} /\ failed = FALSE
      /\ table.sched = None /\ table.queues = 0
  BY DEF Init
<1>4. CallsLeft
  BY <1>2, <1>3, FiniAssumption DEF CallsLeft
<1>5. OwnIds /\ Young
  BY <1>2, <1>3 DEF OwnIds, Young
<1>6. Locked
  BY <1>2, <1>3, ThreadsAssumption, HoldingIs DEF Locked, Holding
<1> QED
  BY <1>1, <1>3, <1>4, <1>5, <1>6 DEF ExpandIInv

\* Every step keeps the executors given out in order.
LEMMA ExpandNext == ExpandIInv /\ [Next]_vars => ExpandIInv'
<1> SUFFICES ASSUME ExpandIInv, [Next]_vars PROVE ExpandIInv'
  OBVIOUS
<1>1. LifeIInv /\ LifeIInv'
  BY LifeNext DEF ExpandIInv
<1>2. ASSUME UNCHANGED <<program, calls, todo, mods, lock, table, geid, served, failed>>, core'.inited = core.inited
      PROVE  ExpandIInv'
  <2>1. App' = App
    BY <1>2 DEF App
  <2>2. CallsLeft' /\ OwnIds' /\ Locked'
    BY <1>2, <2>1 DEF ExpandIInv, CallsLeft, OwnIds, Locked, Holding, E1, E2, E3, E4
  <2>3. At(E2)' = At(E2) /\ At(E3)' = At(E3)
    BY <1>2 DEF At, E2, E3
  <2>4. (Books => Books') /\ (Young => Young') /\ (Over => Over')
    BY <1>2, <2>1, <2>3 DEF Books, Young, Over
  <2> QED
    BY <1>1, <1>2, <2>1, <2>2, <2>4 DEF ExpandIInv
<1>3. CASE Next
  <2>1. ASSUME NEW t \in AllApp, AppStep(t) PROVE ExpandIInv'
    <3>1. t \in App
      BY <2>1 DEF AppStep
    <3>2. \/ (CallInit(t) \/ InitModule(t) \/ InitStart(t) \/ InitFails(t) \/ InitRefused(t))
          \/ InitDone(t)
          \/ (CallFini(t) \/ FiniModule(t) \/ StopExecutor(t) \/ FiniDone(t))
          \/ SchedExpand(t) \/ MemoryExpand(t) \/ ExecutorExpand(t)
          \/ (CallExecutorNum(t) \/ CallGroup(t) \/ ExpandLock(t) \/ ExpandUnlock(t))
      BY <2>1, Zenon DEF AppStep
    <3> QED
      BY <1>1, <3>1, <3>2, ExpandInit, ExpandInited, ExpandFini, ExpandSched, ExpandMemory, ExpandExecutor,
         ExpandRest, Zenon
  <2>2. ASSUME NEW i \in AllWorkers, ExecutorStep(i) PROVE ExpandIInv'
    <3>1. /\ UNCHANGED <<program, calls, todo, mods, lock, table, geid, served, failed>>
          /\ core' = core \/ core' = [core EXCEPT !.again = (core.mutex = None)]
      BY <2>2 DEF ExecutorStep, ExecutorLooks, ExecutorTries, ExecutorExits, expandVars
    <3>2. core'.inited = core.inited
      BY <3>1, <1>1 DEF LifeIInv, LifeTypes
    <3> QED
      BY <3>1, <3>2, <1>2
  <2> QED
    BY <1>3, <2>1, <2>2 DEF Next
<1>4. CASE UNCHANGED vars
  <2>1. UNCHANGED <<program, calls, todo, mods, lock, table, geid, served, failed>> /\ core'.inited = core.inited
    BY <1>4 DEF vars
  <2> QED
    BY <2>1, <1>2
<1> QED
  BY <1>3, <1>4

\* The ids, pools and queues given out by kupl_get_executor_num add up in every
\* behaviour, wherever in an expansion the holder of g_executor_lock is.
THEOREM SpecExpandIInv == Spec => []ExpandIInv
  BY ExpandFirst, ExpandNext, PTL DEF Spec

\* However many threads the library did not start ask for an executor, and
\* whichever of them fail: no two have the same, a failed expansion gives its
\* pool back, and as long as none has failed each has a queue of the live
\* scheduler and a pool was made for it, which is the one its id names when
\* there are no more executors than available processors.
THEOREM SpecExpandedServed == Spec => []ExpandedServed
<1>1. ExpandIInv => ExpandedServed
  <2> SUFFICES ASSUME ExpandIInv PROVE ExpandedServed
    OBVIOUS
  <2>1. \A t, u \in App : geid[t] # Null /\ geid[t] = geid[u] => t = u
    BY DEF ExpandIInv, OwnIds
  <2>2. /\ program.n \in Nat \ {0} /\ program.availPu \in Nat
        /\ geid \in [App -> Int] /\ Main \in App
        /\ table \in [count : Int, initial : Int, pools : Int, sched : Nat, queues : Int, made : Nat]
    BY ExecutorsAssumption DEF ExpandIInv, LifeIInv, LifeTypes
  <2>3. ASSUME Settled
        PROVE  /\ table.pools - program.availPu = table.count - table.initial
               /\ ~failed => \A t \in App : Expanded(t) =>
                    /\ served[t] = table.sched /\ table.sched # None
                    /\ geid[t] - table.initial < table.queues
                    /\ geid[t] - table.initial < table.pools - program.availPu
                    /\ program.n <= program.availPu => geid[t] < table.pools
    <3>1. Books /\ ~ At(E2) /\ ~ At(E3) /\ core.inited
      BY <2>3 DEF Settled, ExpandIInv, At
    <3>2. PICK c \in Int, n \in Nat \ {0}, a \in Nat : c = table.count /\ n = program.n /\ a = program.availPu
      BY <2>2
    <3>3. /\ table.initial = n /\ c >= n
          /\ \A t \in App \ {Main} : geid[t] # Null => n <= geid[t] /\ geid[t] < c
          /\ table.pools = a + c - n + 0
          /\ ~failed => /\ table.queues = c - n + 0
                        /\ table.queues > 0 => table.sched # None
                        /\ \A t \in App \ {Main} : geid[t] # Null => served[t] = table.sched
      BY <2>2, <3>1, <3>2 DEF Books
    <3>4. geid[Main] = 0
      BY <3>1 DEF Books
    <3>5. ASSUME ~failed, NEW t \in App, Expanded(t)
          PROVE  /\ served[t] = table.sched /\ table.sched # None
                 /\ geid[t] - table.initial < table.queues
                 /\ geid[t] - table.initial < table.pools - program.availPu
                 /\ program.n <= program.availPu => geid[t] < table.pools
      <4>1. geid[t] >= n /\ geid[t] \in Int
        BY <3>5, <3>3, <2>2 DEF Expanded
      <4>2. geid[t] # Null /\ t # Main
        BY <4>1, <3>2, <3>4 DEF Null
      <4>3. geid[t] < c /\ served[t] = table.sched
        BY <4>2, <3>3, <3>5
      <4> QED
        BY <4>1, <4>3, <3>2, <3>3, <3>5
    <3> QED
      BY <3>2, <3>3, <3>5
  <2> QED
    BY <2>1, <2>3 DEF ExpandedServed
<1> QED
  BY <1>1, SpecExpandIInv, PTL
=============================================================================
