------------------------- MODULE BackwardWalkProofs -------------------------
(***************************************************************************)
(* Proofs about backward profile-guided optimisation, for every source,    *)
(* every number of passes and every measured run:                          *)
(*                                                                         *)
(* - the ids given at the boundary are distinct (BoundaryIdsUnique),       *)
(*   through inlining, merging, expanding, cloning, deleting and moving;   *)
(* - the walk keeps no profile before a function's stop                    *)
(*   (NoProfileBeforeStop), and when it is done every function with a      *)
(*   measured profile has a stop.                                          *)
(*                                                                         *)
(* The inductive invariant of the first is IdsInv: in every function of    *)
(* the mid-end no two operations that keep their id share one, and a call  *)
(* has an attribution, so that what is inlined from it has one as well     *)
(* and does not keep the callee's id.                                      *)
(***************************************************************************)
EXTENDS BackwardWalk, SequenceTheorems, FiniteSetTheorems, WellFoundedInduction, TLAPS

\* Every non-empty set of naturals has a least element.
LEMMA LeastNatural ==
  ASSUME NEW T \in SUBSET Nat, T # {}
  PROVE  \E n \in T : \A m \in T : n <= m
<1>1. PICK x \in T : \A y \in T : ~(<<y, x>> \in OpToRel(<, Nat))
  BY NatLessThanWellFounded, WFMin
<1>2. \A y \in T : ~(y < x)
  BY <1>1 DEF OpToRel
<1>3. \A y \in T : x <= y
  BY <1>2
<1> QED BY <1>3

\* The least source of an operation is one of them (Inline takes it).
LEMMA MinOfNaturals ==
  ASSUME NEW T \in SUBSET Nat, T # {}
  PROVE  Min(T) \in T
<1>1. \E n \in T : \A m \in T : n <= m
  BY LeastNatural
<1> QED BY <1>1 DEF Min

\* A finite set of integers has a largest element: the one that the fewest
\* others exceed.
LEMMA MaxOfFinite ==
  ASSUME NEW T \in SUBSET Int, IsFiniteSet(T), T # {}
  PROVE  Max(T) \in T /\ \A x \in T : x <= Max(T)
<1> DEFINE Above(x) == {y \in T : y > x}
           Counts == {Cardinality(Above(x)) : x \in T}
<1>1. \A x \in T : IsFiniteSet(Above(x)) /\ Cardinality(Above(x)) \in Nat
  <2>1. SUFFICES ASSUME NEW x \in T PROVE IsFiniteSet(Above(x)) /\ Cardinality(Above(x)) \in Nat
    OBVIOUS
  <2>2. Above(x) \in SUBSET T
    OBVIOUS
  <2>3. IsFiniteSet(Above(x))
    BY <2>2, FS_Subset
  <2> QED BY <2>3, FS_CardinalityType
<1>2. Counts \in SUBSET Nat /\ Counts # {}
  BY <1>1
<1>3. PICK n \in Counts : \A m \in Counts : n <= m
  BY <1>2, LeastNatural
<1>4. PICK x \in T : n = Cardinality(Above(x))
  BY <1>3
<1>5. ASSUME NEW y \in T, y > x PROVE FALSE
  <2>0. x \in Int /\ y \in Int /\ \A z \in T : z \in Int
    OBVIOUS
  <2>1. Above(y) \in SUBSET Above(x) /\ y \in Above(x) /\ y \notin Above(y)
    <3>1. \A z \in T : z > y => z > x
      BY <1>5, <2>0
    <3>2. Above(y) \in SUBSET Above(x)
      BY <3>1
    <3>3. y \in Above(x)
      BY <1>5
    <3>4. ~(y > y)
      BY <2>0
    <3> QED BY <3>2, <3>3, <3>4
  <2>2. Cardinality(Above(y)) <= Cardinality(Above(x)) /\ Cardinality(Above(y)) # Cardinality(Above(x))
    <3>1. IsFiniteSet(Above(x)) /\ Above(x) # Above(y)
      BY <2>1, <1>1
    <3> HIDE DEF Above, Counts
    <3>2. Cardinality(Above(y)) <= Cardinality(Above(x))
      BY <2>1, <3>1, FS_Subset
    <3>3. Cardinality(Above(x)) = Cardinality(Above(y)) => Above(x) = Above(y)
      BY <2>1, <3>1, FS_Subset
    <3> QED BY <3>1, <3>2, <3>3
  <2>3. Cardinality(Above(y)) \in Counts
    OBVIOUS
  <2> HIDE DEF Above, Counts
  <2> QED BY <2>2, <2>3, <1>1, <1>3, <1>4
<1>6. \A y \in T : x >= y
  BY <1>5
<1>7. \A y \in T : Max(T) >= y
  BY <1>6 DEF Max
<1>8. Max(T) \in T
  BY <1>6 DEF Max
<1> QED BY <1>7, <1>8

-----------------------------------------------------------------------------
\* Positions, as a block and an index.
LEMMA PositionsMember ==
  ASSUME NEW f, NEW p
  PROVE  p \in Positions(f) <=> \E b \in 1..Len(f) : \E i \in 1..Len(f[b].ops) : p = <<b, i>>
BY DEF Positions

\* A function has finitely many operations.
LEMMA PositionsFinite ==
  ASSUME NEW B, NEW f \in Seq([label : Labels, ops : Seq(B)])
  PROVE  IsFiniteSet(Positions(f))
<1> DEFINE Row(b) == {b} \X (1..Len(f[b].ops))
           Rows == {Row(b) : b \in 1..Len(f)}
           F == [b \in 1..Len(f) |-> Row(b)]
<1>1. Len(f) \in Nat /\ \A b \in 1..Len(f) : Len(f[b].ops) \in Nat
  OBVIOUS
<1>2. IsFiniteSet(1..Len(f))
  BY <1>1, FS_Interval
<1>3. F \in Surjection(1..Len(f), Rows)
  BY DEF Surjection
<1>4. IsFiniteSet(Rows)
  BY <1>2, <1>3, FS_Surjection
<1>5. \A b \in 1..Len(f) : IsFiniteSet(Row(b))
  <2>1. SUFFICES ASSUME NEW b \in 1..Len(f) PROVE IsFiniteSet(Row(b))
    OBVIOUS
  <2>2. IsFiniteSet({b})
    BY FS_Singleton
  <2>3. IsFiniteSet(1..Len(f[b].ops))
    <3>1. Len(f[b].ops) \in Int /\ 1 \in Int
      BY <1>1
    <3> HIDE DEF Row, Rows, F
    <3> QED BY <3>1, FS_Interval
  <2> QED BY <2>2, <2>3, FS_Product
<1>6. \A T \in Rows : IsFiniteSet(T)
  BY <1>5
<1>7. IsFiniteSet(UNION Rows)
  BY <1>4, <1>6, FS_UNION
<1> QED BY <1>7 DEF Positions

\* Counting what comes before tells positions apart.
LEMMA CountsDiffer ==
  ASSUME NEW P, IsFiniteSet(P), NEW p \in P, NEW q \in P, Precedes(p, q),
         \A r \in P : r[1] \in Int /\ r[2] \in Int
  PROVE  /\ CountBefore(P, p) \in Nat /\ CountBefore(P, q) \in Nat
         /\ CountBefore(P, p) < CountBefore(P, q)
<1> DEFINE U(r) == {s \in P : Precedes(s, r)}
<1>1. U(p) \in SUBSET P /\ U(q) \in SUBSET P
  OBVIOUS
<1>2. IsFiniteSet(U(p)) /\ IsFiniteSet(U(q))
  BY <1>1, FS_Subset
<1>3. U(p) \in SUBSET U(q)
  BY DEF Precedes
<1>4. p \in U(q) /\ p \notin U(p)
  BY DEF Precedes
<1>5. Cardinality(U(p)) \in Nat /\ Cardinality(U(q)) \in Nat
  BY <1>2, FS_CardinalityType
<1>6. Cardinality(U(p)) <= Cardinality(U(q)) /\ Cardinality(U(p)) # Cardinality(U(q))
  BY <1>2, <1>3, <1>4, FS_Subset
<1>7. CountBefore(P, p) = Cardinality(U(p)) /\ CountBefore(P, q) = Cardinality(U(q))
  BY DEF CountBefore
<1> HIDE DEF U
<1> QED BY <1>5, <1>6, <1>7

-----------------------------------------------------------------------------
(* Numbering operations. *)

\* Functions of the mid-end.
Code == Seq([label : Labels, ops : Seq(Operations)])

\* No two operations of a function have one id.
IdsDistinct(f) == \A p, q \in Positions(f) : OpAt(f, p).id = OpAt(f, q).id => p = q

\* Code as a sequence of blocks of sequences of operations.
LEMMA CodeShape ==
  ASSUME NEW f \in Code
  PROVE  /\ Len(f) \in Nat /\ f \in [1..Len(f) -> [label : Labels, ops : Seq(Operations)]]
         /\ \A b \in 1..Len(f) :
              /\ f[b] \in [label : Labels, ops : Seq(Operations)]
              /\ f[b].ops \in Seq(Operations) /\ Len(f[b].ops) \in Nat
              /\ \A i \in 1..Len(f[b].ops) : f[b].ops[i] \in Operations
<1> DEFINE B == [label : Labels, ops : Seq(Operations)]
<1>1. f \in Seq(B)
  BY DEF Code
<1>2. \A x \in B : x.ops \in Seq(Operations)
  OBVIOUS
<1> HIDE DEF B
<1>3. Len(f) \in Nat /\ f \in [1..Len(f) -> B]
  BY <1>1
<1>4. \A b \in 1..Len(f) : f[b] \in B
  BY <1>3
<1>5. \A t \in Seq(Operations) : Len(t) \in Nat /\ \A i \in 1..Len(t) : t[i] \in Operations
  OBVIOUS
<1>6. \A b \in 1..Len(f) :
        /\ f[b].ops \in Seq(Operations) /\ Len(f[b].ops) \in Nat
        /\ \A i \in 1..Len(f[b].ops) : f[b].ops[i] \in Operations
  BY <1>2, <1>4, <1>5
<1> QED BY <1>3, <1>4, <1>6 DEF B

\* A position of a function is a block, an index and the operation there.
LEMMA PositionTypes ==
  ASSUME NEW f \in Code, NEW p \in Positions(f)
  PROVE  /\ p = <<p[1], p[2]>> /\ p[1] \in 1..Len(f) /\ p[2] \in 1..Len(f[p[1]].ops)
         /\ p[1] \in Int /\ p[2] \in Int
         /\ OpAt(f, p) \in Operations
<1>1. PICK b \in 1..Len(f) : \E i \in 1..Len(f[b].ops) : p = <<b, i>>
  BY PositionsMember
<1>2. PICK i \in 1..Len(f[b].ops) : p = <<b, i>>
  BY <1>1
<1>3. p[1] = b /\ p[2] = i
  BY <1>2
<1>4. Len(f) \in Nat /\ Len(f[b].ops) \in Nat /\ f[b].ops[i] \in Operations
  BY CodeShape
<1> QED BY <1>2, <1>3, <1>4 DEF OpAt

\* Program order is total on the operations of a function.
LEMMA PositionsOrdered ==
  ASSUME NEW f \in Code, NEW p \in Positions(f), NEW q \in Positions(f), p # q
  PROVE  Precedes(p, q) \/ Precedes(q, p)
<1>1. /\ p = <<p[1], p[2]>> /\ p[1] \in Int /\ p[2] \in Int
      /\ q = <<q[1], q[2]>> /\ q[1] \in Int /\ q[2] \in Int
  BY PositionTypes
<1>2. p[1] # q[1] \/ p[2] # q[2]
  BY <1>1
<1> QED BY <1>1, <1>2 DEF Precedes

\* Operations changed one by one: the same places, other operations.
ChangedTo(f, g, c) ==
  g = [b \in 1..Len(f) |-> [f[b] EXCEPT !.ops = [i \in 1..Len(f[b].ops) |-> c[<<b, i>>]]]]

\* A function whose operations are changed one by one keeps its positions.
LEMMA EachOpShape ==
  ASSUME NEW f \in Code, NEW g, NEW c, ChangedTo(f, g, c),
         \A p \in Positions(f) : c[p] \in Operations
  PROVE  /\ g \in Code /\ Positions(g) = Positions(f)
         /\ \A p \in Positions(f) : OpAt(g, p) = c[p]
         /\ Len(g) = Len(f)
<1>1. Len(f) \in Nat
  BY CodeShape
<1>2. ASSUME NEW b \in 1..Len(f)
      PROVE  /\ g[b] \in [label : Labels, ops : Seq(Operations)]
             /\ Len(g[b].ops) = Len(f[b].ops)
             /\ \A i \in 1..Len(f[b].ops) : g[b].ops[i] = c[<<b, i>>]
  <2>1. f[b] \in [label : Labels, ops : Seq(Operations)] /\ Len(f[b].ops) \in Nat
    BY CodeShape
  <2>2. \A i \in 1..Len(f[b].ops) : c[<<b, i>>] \in Operations
    BY PositionsMember
  <2> DEFINE o == [i \in 1..Len(f[b].ops) |-> c[<<b, i>>]]
  <2>3. o \in Seq(Operations) /\ Len(o) = Len(f[b].ops)
    BY <2>1, <2>2
  <2>4. g[b] = [f[b] EXCEPT !.ops = o]
    BY DEF ChangedTo
  <2>5. \A i \in 1..Len(f[b].ops) : o[i] = c[<<b, i>>]
    OBVIOUS
  <2> HIDE DEF o
  <2>6. g[b].ops = o
    BY <2>1, <2>4
  <2>7. g[b] \in [label : Labels, ops : Seq(Operations)]
    BY <2>1, <2>3, <2>4
  <2> QED BY <2>3, <2>5, <2>6, <2>7
<1>3. Len(g) = Len(f)
  BY <1>1 DEF ChangedTo
<1>4. g \in Code
  <2> DEFINE B == [label : Labels, ops : Seq(Operations)]
  <2>1. \A b \in 1..Len(f) : g[b] \in B
    BY <1>2
  <2>2. g = [b \in 1..Len(f) |-> g[b]]
    BY DEF ChangedTo
  <2> HIDE DEF B
  <2>3. g \in [1..Len(f) -> B]
    BY <2>1, <2>2
  <2>4. g \in Seq(B)
    BY <2>3, <1>1
  <2> QED BY <2>4 DEF Code, B
<1>5. ASSUME NEW p
      PROVE  p \in Positions(g) <=> p \in Positions(f)
  <2>1. p \in Positions(g) <=> \E b \in 1..Len(f) : \E i \in 1..Len(g[b].ops) : p = <<b, i>>
    <3>1. p \in Positions(g) <=> \E b \in 1..Len(g) : \E i \in 1..Len(g[b].ops) : p = <<b, i>>
      BY PositionsMember
    <3> QED BY <3>1, <1>3, Zenon
  <2>2. p \in Positions(f) <=> \E b \in 1..Len(f) : \E i \in 1..Len(f[b].ops) : p = <<b, i>>
    BY PositionsMember
  <2>3. \A b \in 1..Len(f) : 1..Len(g[b].ops) = 1..Len(f[b].ops)
    BY <1>2
  <2> QED BY <2>1, <2>2, <2>3
<1>6. \A p \in Positions(f) : OpAt(g, p) = c[p]
  BY <1>2, PositionTypes DEF OpAt
<1> QED BY <1>3, <1>4, <1>5, <1>6

\* assign_op_ids gives every operation of a function an id of its own.
LEMMA OpIdsDistinct ==
  ASSUME NEW f \in Code
  PROVE  /\ assign_op_ids(f) \in Code /\ Len(assign_op_ids(f)) = Len(f)
         /\ Positions(assign_op_ids(f)) = Positions(f)
         /\ \A p \in Positions(f) :
              OpAt(assign_op_ids(f), p) = [OpAt(f, p) EXCEPT !.id = CountBefore(Positions(f), p)]
         /\ \A p \in Positions(f) : CountBefore(Positions(f), p) \in Nat
         /\ IdsDistinct(assign_op_ids(f))
<1> DEFINE c == [p \in Positions(f) |-> [OpAt(f, p) EXCEPT !.id = CountBefore(Positions(f), p)]]
           g == assign_op_ids(f)
<1>1. IsFiniteSet(Positions(f))
  BY PositionsFinite DEF Code
<1>2. \A p \in Positions(f) : CountBefore(Positions(f), p) \in Nat
  <2>1. SUFFICES ASSUME NEW p \in Positions(f) PROVE CountBefore(Positions(f), p) \in Nat
    OBVIOUS
  <2> DEFINE U == {r \in Positions(f) : Precedes(r, p)}
  <2>2. U \in SUBSET Positions(f)
    OBVIOUS
  <2>3. CountBefore(Positions(f), p) = Cardinality(U)
    BY DEF CountBefore
  <2> HIDE DEF U
  <2>4. IsFiniteSet(U)
    BY <2>2, <1>1, FS_Subset
  <2> QED BY <2>3, <2>4, FS_CardinalityType
<1>3. \A p \in Positions(f) : c[p] \in Operations
  <2>1. SUFFICES ASSUME NEW p \in Positions(f) PROVE c[p] \in Operations
    OBVIOUS
  <2>2. OpAt(f, p) \in Operations /\ CountBefore(Positions(f), p) \in Nat
    BY <1>2, PositionTypes
  <2>3. c[p] = [OpAt(f, p) EXCEPT !.id = CountBefore(Positions(f), p)]
    OBVIOUS
  <2> HIDE DEF c
  <2> QED BY <2>2, <2>3 DEF Operations, Ids
<1>4. ChangedTo(f, g, c)
  <2>1. \A b \in 1..Len(f) : \A i \in 1..Len(f[b].ops) :
          c[<<b, i>>] = [OpAt(f, <<b, i>>) EXCEPT !.id = CountBefore(Positions(f), <<b, i>>)]
    BY PositionsMember
  <2> HIDE DEF c
  <2> QED BY <2>1 DEF assign_op_ids, EachOp, ChangedTo
<1>5. /\ g \in Code /\ Positions(g) = Positions(f) /\ Len(g) = Len(f)
      /\ \A p \in Positions(f) : OpAt(g, p) = c[p]
  <2> HIDE DEF c, g
  <2> QED BY <1>3, <1>4, EachOpShape
<1>6. \A p \in Positions(f) : OpAt(g, p).id = CountBefore(Positions(f), p)
  BY <1>5, PositionTypes DEF Operations
<1>7. ASSUME NEW p \in Positions(f), NEW q \in Positions(f), p # q
      PROVE  CountBefore(Positions(f), p) # CountBefore(Positions(f), q)
  <2>1. Precedes(p, q) \/ Precedes(q, p)
    BY <1>7, PositionsOrdered
  <2>2. \A r \in Positions(f) : r[1] \in Int /\ r[2] \in Int
    BY PositionTypes
  <2>3. CASE Precedes(p, q)
    BY <2>2, <2>3, <1>1, CountsDiffer
  <2>4. CASE Precedes(q, p)
    BY <2>2, <2>4, <1>1, CountsDiffer
  <2> QED BY <2>1, <2>3, <2>4
<1>8. IdsDistinct(g)
  <2> HIDE DEF g
  <2> QED BY <1>5, <1>6, <1>7 DEF IdsDistinct
<1> QED BY <1>2, <1>5, <1>8

\* Keepers of one id are one operation.
KeepersDistinct(f) ==
  \A p, q \in Positions(f) :
    Keeps(OpAt(f, p)) /\ Keeps(OpAt(f, q)) /\ OpAt(f, p).id = OpAt(f, q).id => p = q

\* The kept ids are numbers up to the largest.
LEMMA KeptIdsBounded ==
  ASSUME NEW f \in Code
  PROVE  /\ Max(KeptIds(f) \union {-1}) \in Int /\ Max(KeptIds(f) \union {-1}) >= -1
         /\ \A p \in Positions(f) : Keeps(OpAt(f, p)) =>
              OpAt(f, p).id \in Nat /\ OpAt(f, p).id <= Max(KeptIds(f) \union {-1})
<1> DEFINE K == {p \in Positions(f) : Keeps(OpAt(f, p))}
           id == [p \in K |-> OpAt(f, p).id]
           T == KeptIds(f) \union {-1}
<1>1. \A p \in K : OpAt(f, p).id \in Nat
  BY PositionTypes DEF Keeps, Operations, Ids
<1>2. IsFiniteSet(Positions(f)) /\ K \in SUBSET Positions(f)
  BY PositionsFinite DEF Code
<1>3. IsFiniteSet(K)
  <2> HIDE DEF K
  <2> QED BY <1>2, FS_Subset
<1>4. id \in Surjection(K, KeptIds(f))
  BY DEF Surjection, KeptIds
<1>5. IsFiniteSet(KeptIds(f))
  <2> HIDE DEF K, id
  <2> QED BY <1>3, <1>4, FS_Surjection
<1>6. IsFiniteSet({-1})
  BY FS_Singleton
<1>7. IsFiniteSet(T)
  BY <1>5, <1>6, FS_Union
<1>8. T \in SUBSET Int /\ -1 \in T
  BY <1>1 DEF KeptIds
<1>9. Max(T) \in T /\ \A x \in T : x <= Max(T)
  <2> HIDE DEF T
  <2> QED BY <1>7, <1>8, MaxOfFinite
<1>10. \A p \in K : OpAt(f, p).id \in T
  BY DEF KeptIds
<1> HIDE DEF T
<1>11. Max(T) \in Int /\ Max(T) >= -1 /\ \A p \in K : OpAt(f, p).id <= Max(T)
  BY <1>8, <1>9, <1>10
<1> QED BY <1>1, <1>11 DEF T

\* The numbers for the operations without a kept id are new, each its own.
LEMMA FreshIds ==
  ASSUME NEW f \in Code
  PROVE  /\ \A p \in Positions(f) : fresh(f, p) \in Nat
         /\ \A p, q \in Positions(f) :
              /\ Keeps(OpAt(f, p)) => OpAt(f, p).id # fresh(f, q)
              /\ (~Keeps(OpAt(f, p)) /\ ~Keeps(OpAt(f, q)) /\ p # q) => fresh(f, p) # fresh(f, q)
<1> DEFINE N == {p \in Positions(f) : ~Keeps(OpAt(f, p))}
           top == Max(KeptIds(f) \union {-1})
<1>1. \A p : fresh(f, p) = top + 1 + CountBefore(N, p)
  BY DEF fresh
<1>2. IsFiniteSet(Positions(f)) /\ N \in SUBSET Positions(f)
  BY PositionsFinite DEF Code
<1>3. IsFiniteSet(N)
  <2> HIDE DEF N
  <2> QED BY <1>2, FS_Subset
<1>4. ASSUME NEW p
      PROVE  CountBefore(N, p) \in Nat
  <2> DEFINE U == {r \in N : Precedes(r, p)}
  <2>2. U \in SUBSET N
    OBVIOUS
  <2>3. CountBefore(N, p) = Cardinality(U)
    BY DEF CountBefore
  <2> HIDE DEF U, N
  <2>4. IsFiniteSet(U)
    BY <2>2, <1>3, FS_Subset
  <2> QED BY <2>3, <2>4, FS_CardinalityType
<1>5. /\ top \in Int /\ top >= -1
      /\ \A p \in Positions(f) : Keeps(OpAt(f, p)) => OpAt(f, p).id \in Nat /\ OpAt(f, p).id <= top
  BY KeptIdsBounded
<1>6. ASSUME NEW p \in N, NEW q \in N, p # q
      PROVE  CountBefore(N, p) # CountBefore(N, q)
  <2>1. Precedes(p, q) \/ Precedes(q, p)
    BY <1>6, <1>2, PositionsOrdered
  <2>2. \A r \in N : r[1] \in Int /\ r[2] \in Int
    BY <1>2, PositionTypes
  <2> HIDE DEF N
  <2>3. CASE Precedes(p, q)
    BY <2>2, <2>3, <1>3, CountsDiffer
  <2>4. CASE Precedes(q, p)
    BY <2>2, <2>4, <1>3, CountsDiffer
  <2> QED BY <2>1, <2>3, <2>4
<1>7. \A p \in Positions(f) : ~Keeps(OpAt(f, p)) => p \in N
  OBVIOUS
<1> HIDE DEF N, top
<1>8. \A p : fresh(f, p) \in Nat /\ fresh(f, p) > top
  BY <1>1, <1>4, <1>5
<1>9. \A p, q \in Positions(f) : Keeps(OpAt(f, p)) => OpAt(f, p).id # fresh(f, q)
  BY <1>5, <1>8
<1>10. \A p, q \in N : p # q => fresh(f, p) # fresh(f, q)
  BY <1>1, <1>4, <1>5, <1>6
<1> QED BY <1>7, <1>8, <1>9, <1>10

\* At the boundary the ids of a function are distinct, provided the kept are.
LEMMA BoundaryIdsDistinct ==
  ASSUME NEW f \in Code, KeepersDistinct(f)
  PROVE  assign_boundary_ids(f) \in Code /\ IdsDistinct(assign_boundary_ids(f))
<1> DEFINE c == [p \in Positions(f) |-> IF Keeps(OpAt(f, p)) THEN OpAt(f, p)
                                        ELSE [OpAt(f, p) EXCEPT !.id = fresh(f, p)]]
           g == EachOp(f, LAMBDA at : IF Keeps(OpAt(f, at)) THEN OpAt(f, at)
                                      ELSE [OpAt(f, at) EXCEPT !.id = fresh(f, at)])
<1>1. \A p \in Positions(f) : c[p] \in Operations
  <2>1. SUFFICES ASSUME NEW p \in Positions(f) PROVE c[p] \in Operations
    OBVIOUS
  <2>2. OpAt(f, p) \in Operations /\ fresh(f, p) \in Nat
    BY FreshIds, PositionTypes
  <2>3. c[p] = IF Keeps(OpAt(f, p)) THEN OpAt(f, p) ELSE [OpAt(f, p) EXCEPT !.id = fresh(f, p)]
    OBVIOUS
  <2> HIDE DEF c
  <2> QED BY <2>2, <2>3 DEF Operations, Ids
<1>2. ChangedTo(f, g, c)
  <2>1. \A b \in 1..Len(f) : \A i \in 1..Len(f[b].ops) :
          c[<<b, i>>] = IF Keeps(OpAt(f, <<b, i>>)) THEN OpAt(f, <<b, i>>)
                        ELSE [OpAt(f, <<b, i>>) EXCEPT !.id = fresh(f, <<b, i>>)]
    BY PositionsMember
  <2> HIDE DEF c
  <2> QED BY <2>1 DEF EachOp, ChangedTo
<1>3. /\ g \in Code /\ Positions(g) = Positions(f)
      /\ \A p \in Positions(f) : OpAt(g, p) = c[p]
  <2> HIDE DEF c, g
  <2> QED BY <1>1, <1>2, EachOpShape
<1>4. \A p \in Positions(f) :
        OpAt(g, p).id = IF Keeps(OpAt(f, p)) THEN OpAt(f, p).id ELSE fresh(f, p)
  BY <1>3, PositionTypes DEF Operations
<1>5. IdsDistinct(g)
  <2> HIDE DEF g
  <2>1. SUFFICES ASSUME NEW p \in Positions(f), NEW q \in Positions(f),
                        OpAt(g, p).id = OpAt(g, q).id
                 PROVE  p = q
    BY <1>3 DEF IdsDistinct
  <2>2. CASE Keeps(OpAt(f, p)) /\ Keeps(OpAt(f, q))
    BY <1>4, <2>1, <2>2 DEF KeepersDistinct
  <2>3. CASE ~Keeps(OpAt(f, p)) /\ ~Keeps(OpAt(f, q))
    BY <1>4, <2>1, <2>3, FreshIds
  <2>4. CASE Keeps(OpAt(f, p)) /\ ~Keeps(OpAt(f, q))
    BY <1>4, <2>1, <2>4, FreshIds
  <2>5. CASE ~Keeps(OpAt(f, p)) /\ Keeps(OpAt(f, q))
    BY <1>4, <2>1, <2>5, FreshIds
  <2> QED BY <2>2, <2>3, <2>4, <2>5
<1>6. CASE \A at \in Positions(f) : OpAt(f, at).id = None
  <2>1. assign_boundary_ids(f) = assign_op_ids(f)
    BY <1>6 DEF assign_boundary_ids
  <2> QED BY <2>1, OpIdsDistinct
<1>7. CASE ~(\A at \in Positions(f) : OpAt(f, at).id = None)
  <2>1. assign_boundary_ids(f) = g
    BY <1>7 DEF assign_boundary_ids
  <2> HIDE DEF g
  <2> QED BY <2>1, <1>3, <1>5
<1> QED BY <1>6, <1>7

-----------------------------------------------------------------------------
(* What the passes do to keepers: they come from keepers. *)

\* g is f with the operations lo..hi of block b replaced by ops.
IsPut(f, g, b, lo, hi, ops) ==
  /\ g \in Code /\ Len(g) = Len(f)
  /\ \A c \in 1..Len(f) : c # b => g[c] = f[c]
  /\ Len(g[b].ops) = Len(f[b].ops) - (hi - lo + 1) + Len(ops)
  /\ \A i \in 1..Len(g[b].ops) :
       g[b].ops[i] = IF i < lo THEN f[b].ops[i]
                     ELSE IF i < lo + Len(ops) THEN ops[i - lo + 1]
                     ELSE f[b].ops[i - Len(ops) + (hi - lo + 1)]

\* t is s with its elements lo..hi replaced by o.
Splice(S, s, t, lo, hi, o) ==
  /\ t \in Seq(S) /\ Len(t) = Len(s) - (hi - lo + 1) + Len(o)
  /\ \A i \in 1..Len(t) :
       t[i] = IF i < lo THEN s[i] ELSE IF i < lo + Len(o) THEN o[i - lo + 1]
              ELSE s[i - Len(o) + (hi - lo + 1)]

\* A range of a sequence replaced: its length and its elements.
LEMMA Spliced ==
  ASSUME NEW S, NEW s \in Seq(S), NEW o \in Seq(S), NEW lo \in 1..(Len(s) + 1),
         NEW hi \in (lo - 1)..Len(s)
  PROVE  Splice(S, s, SubSeq(s, 1, lo - 1) \o o \o SubSeq(s, hi + 1, Len(s)), lo, hi, o)
<1> DEFINE x == SubSeq(s, 1, lo - 1)
           y == SubSeq(s, hi + 1, Len(s))
<1>1. Len(s) \in Nat /\ Len(o) \in Nat /\ lo \in Int /\ hi \in Int
  OBVIOUS
<1>2. /\ x \in Seq(S) /\ Len(x) = lo - 1 /\ \A i \in 1..(lo - 1) : x[i] = s[i]
  <2>1. \A i \in 1..(lo - 1) : s[i] \in S
    BY <1>1
  <2>2. /\ x \in Seq(S) /\ Len(x) = IF 1 <= lo - 1 THEN (lo - 1) - 1 + 1 ELSE 0
        /\ \A i \in 1..((lo - 1) - 1 + 1) : x[i] = s[1 + i - 1]
    BY <2>1, <1>1, SubSeqProperties
  <2> HIDE DEF x
  <2> QED BY <2>2, <1>1
<1>3. /\ y \in Seq(S) /\ Len(y) = Len(s) - hi /\ \A i \in 1..(Len(s) - hi) : y[i] = s[hi + i]
  <2>1. \A i \in (hi + 1)..Len(s) : s[i] \in S
    BY <1>1
  <2>2. /\ y \in Seq(S) /\ Len(y) = IF hi + 1 <= Len(s) THEN Len(s) - (hi + 1) + 1 ELSE 0
        /\ \A i \in 1..(Len(s) - (hi + 1) + 1) : y[i] = s[(hi + 1) + i - 1]
    BY <2>1, <1>1, SubSeqProperties
  <2> HIDE DEF y
  <2> QED BY <2>2, <1>1
<1> HIDE DEF x, y
<1> DEFINE z == x \o o
           t == z \o y
<1>4. /\ z \in Seq(S) /\ Len(z) = lo - 1 + Len(o)
      /\ \A i \in 1..(lo - 1 + Len(o)) : z[i] = IF i <= lo - 1 THEN x[i] ELSE o[i - (lo - 1)]
  <2>1. /\ z \in Seq(S) /\ Len(z) = Len(x) + Len(o)
        /\ \A i \in 1..(Len(x) + Len(o)) : z[i] = IF i <= Len(x) THEN x[i] ELSE o[i - Len(x)]
    BY <1>2, ConcatProperties
  <2> QED BY <2>1, <1>2
<1> HIDE DEF z
<1>5. /\ t \in Seq(S) /\ Len(t) = Len(z) + Len(y)
      /\ \A i \in 1..(Len(z) + Len(y)) : t[i] = IF i <= Len(z) THEN z[i] ELSE y[i - Len(z)]
  <2>1. z \in Seq(S) /\ y \in Seq(S)
    BY <1>3, <1>4
  <2> QED BY <2>1, ConcatProperties
<1> HIDE DEF t
<1>6. Len(t) = Len(s) - (hi - lo + 1) + Len(o)
  BY <1>1, <1>3, <1>4, <1>5
<1>7. ASSUME NEW i \in 1..Len(t)
      PROVE  t[i] = IF i < lo THEN s[i] ELSE IF i < lo + Len(o) THEN o[i - lo + 1]
                    ELSE s[i - Len(o) + (hi - lo + 1)]
  <2>1. CASE i < lo
    <3>1. i <= Len(z) /\ i \in 1..(lo - 1) /\ i \in 1..(lo - 1 + Len(o)) /\ i \in 1..(Len(z) + Len(y))
      BY <2>1, <1>1, <1>3, <1>4, <1>5, <1>6
    <3>2. i <= lo - 1
      BY <2>1, <1>1
    <3> QED BY <3>1, <3>2, <2>1, <1>2, <1>4, <1>5
  <2>2. CASE ~(i < lo) /\ i < lo + Len(o)
    <3>1. i <= Len(z) /\ i \in 1..(lo - 1 + Len(o)) /\ i \in 1..(Len(z) + Len(y)) /\ ~(i <= lo - 1)
          /\ i - (lo - 1) = i - lo + 1
      BY <2>2, <1>1, <1>3, <1>4, <1>5, <1>6
    <3> QED BY <3>1, <2>2, <1>4, <1>5
  <2>3. CASE ~(i < lo) /\ ~(i < lo + Len(o))
    <3>1. ~(i <= Len(z)) /\ i \in 1..(Len(z) + Len(y)) /\ i - Len(z) \in 1..(Len(s) - hi)
      BY <2>3, <1>1, <1>3, <1>4, <1>5, <1>6
    <3>2. hi + (i - Len(z)) = i - Len(o) + (hi - lo + 1)
      BY <1>1, <1>4
    <3>3. t[i] = y[i - Len(z)]
      BY <3>1, <1>5
    <3>4. y[i - Len(z)] = s[hi + (i - Len(z))]
      BY <3>1, <1>3
    <3> QED BY <2>3, <3>2, <3>3, <3>4
  <2> QED BY <2>1, <2>2, <2>3
<1>8. Splice(S, s, t, lo, hi, o)
  BY <1>5, <1>6, <1>7 DEF Splice
<1>9. t = SubSeq(s, 1, lo - 1) \o o \o SubSeq(s, hi + 1, Len(s))
  BY DEF t, z, x, y
<1> QED BY <1>8, <1>9

\* Put changes one block, in one range, and leaves code.
LEMMA PutShape ==
  ASSUME NEW f \in Code, NEW b \in 1..Len(f), NEW lo \in 1..(Len(f[b].ops) + 1),
         NEW hi \in (lo - 1)..Len(f[b].ops), NEW ops \in Seq(Operations)
  PROVE  IsPut(f, Put(f, b, lo, hi, ops), b, lo, hi, ops)
<1> DEFINE s == f[b].ops
           t == SubSeq(s, 1, lo - 1) \o ops \o SubSeq(s, hi + 1, Len(s))
           g == Put(f, b, lo, hi, ops)
           B == [label : Labels, ops : Seq(Operations)]
<1>1. f[b] \in B /\ s \in Seq(Operations)
  BY CodeShape
<1>2. Splice(Operations, s, t, lo, hi, ops)
  <2>1. lo \in 1..(Len(s) + 1) /\ hi \in (lo - 1)..Len(s)
    OBVIOUS
  <2> HIDE DEF s
  <2> QED BY <1>1, <2>1, Spliced
<1>3. g = [f EXCEPT ![b] = [f[b] EXCEPT !.ops = t]]
  BY DEF Put
<1> HIDE DEF t, g
<1>4. [f[b] EXCEPT !.ops = t] \in B /\ [f[b] EXCEPT !.ops = t].ops = t
  BY <1>1, <1>2 DEF Splice
<1>5. f \in Seq(B)
  BY DEF Code
<1> HIDE DEF B, s
<1>6. /\ g \in Seq(B) /\ Len(g) = Len(f)
      /\ \A j \in 1..Len(f) : g[j] = IF j = b THEN [f[b] EXCEPT !.ops = t] ELSE f[j]
  BY <1>3, <1>4, <1>5, ExceptSeq
<1>7. g[b].ops = t
  BY <1>4, <1>6
<1>8. g \in Code
  BY <1>6 DEF Code, B
<1>9. IsPut(f, g, b, lo, hi, ops)
  BY <1>2, <1>6, <1>7, <1>8 DEF IsPut, Splice, s
<1> QED BY <1>9 DEF g

\* Where an operation that was not put in comes from.
Origin(p, b, lo, hi, n) ==
  IF p[1] # b \/ p[2] < lo THEN p ELSE <<b, p[2] - n + (hi - lo + 1)>>

\* p is one of the n operations put in at lo.
PutIn(p, b, lo, n) == p[1] = b /\ lo <= p[2] /\ p[2] < lo + n

\* Whether an operation was put in, and where it comes from if not.
Sited(f, g, b, lo, hi, ops, p) ==
  LET n == Len(ops)
      from == Origin(p, b, lo, hi, n)
  IN /\ PutIn(p, b, lo, n) => p[2] - lo + 1 \in 1..n /\ OpAt(g, p) = ops[p[2] - lo + 1]
     /\ ~PutIn(p, b, lo, n) => /\ from \in Positions(f) /\ OpAt(g, p) = OpAt(f, from)
                               /\ ~(from[1] = b /\ lo <= from[2] /\ from[2] <= hi)

\* Every operation after a Put was put in or stood elsewhere before, outside
\* what was taken out.
LEMMA PutSites ==
  ASSUME NEW f \in Code, NEW g \in Code, NEW b \in 1..Len(f), NEW lo \in 1..(Len(f[b].ops) + 1),
         NEW hi \in (lo - 1)..Len(f[b].ops), NEW ops \in Seq(Operations),
         IsPut(f, g, b, lo, hi, ops), NEW p \in Positions(g)
  PROVE  Sited(f, g, b, lo, hi, ops, p)
<1> DEFINE n == Len(ops)
           c == p[1]
           i == p[2]
           o == Origin(p, b, lo, hi, n)
<1>1. p = <<c, i>> /\ c \in 1..Len(g) /\ i \in 1..Len(g[c].ops) /\ c \in Int /\ i \in Int
  BY PositionTypes
<1>2. /\ n \in Nat /\ lo \in Int /\ hi \in Int /\ Len(f) \in Nat /\ Len(f[b].ops) \in Nat
      /\ Len(f[c].ops) \in Int
  <2>1. c \in 1..Len(f)
    BY <1>1 DEF IsPut
  <2> QED BY <2>1, CodeShape
<1>3. OpAt(g, p) = g[c].ops[i]
  BY <1>1 DEF OpAt
<1>4. ASSUME PutIn(p, b, lo, n)
      PROVE  i - lo + 1 \in 1..n /\ OpAt(g, p) = ops[i - lo + 1]
  <2>1. c = b /\ lo <= i /\ i < lo + n
    BY <1>4 DEF PutIn
  <2>2. i - lo + 1 \in 1..n /\ ~(i < lo)
    BY <2>1, <1>1, <1>2
  <2>3. g[b].ops[i] = ops[i - lo + 1]
    BY <2>1, <2>2, <1>1 DEF IsPut
  <2> QED BY <1>3, <2>1, <2>2, <2>3
<1>5. ASSUME c # b, ~PutIn(p, b, lo, n)
      PROVE  /\ o \in Positions(f) /\ OpAt(g, p) = OpAt(f, o)
             /\ ~(o[1] = b /\ lo <= o[2] /\ o[2] <= hi)
  <2>1. o = p /\ ~PutIn(p, b, lo, n)
    BY <1>5 DEF Origin, PutIn
  <2>2. c \in 1..Len(f) /\ g[c] = f[c]
    BY <1>1, <1>5 DEF IsPut
  <2>3. p \in Positions(f)
    BY <1>1, <2>2, PositionsMember
  <2>4. OpAt(f, p) = OpAt(g, p)
    BY <2>2, <1>3 DEF OpAt
  <2>5. o[1] # b
    BY <2>1, <1>5
  <2> QED BY <2>1, <2>3, <2>4, <2>5
<1>6. ASSUME c = b /\ i < lo, ~PutIn(p, b, lo, n)
      PROVE  /\ o \in Positions(f) /\ OpAt(g, p) = OpAt(f, o)
             /\ ~(o[1] = b /\ lo <= o[2] /\ o[2] <= hi)
  <2>1. o = p /\ ~PutIn(p, b, lo, n)
    BY <1>6, <1>1, <1>2 DEF Origin, PutIn
  <2>2. i \in 1..Len(f[b].ops)
    BY <1>6, <1>1, <1>2
  <2>3. p \in Positions(f)
    BY <1>1, <1>6, <2>2, PositionsMember
  <2>4. g[b].ops[i] = f[b].ops[i]
    BY <1>1, <1>6 DEF IsPut
  <2>5. OpAt(f, p) = OpAt(g, p)
    BY <2>4, <1>3, <1>6 DEF OpAt
  <2>6. ~(lo <= i)
    BY <1>6, <1>1, <1>2
  <2> QED BY <2>1, <2>3, <2>5, <2>6
<1>7. ASSUME c = b /\ ~(i < lo) /\ ~(i < lo + n), ~PutIn(p, b, lo, n)
      PROVE  /\ o \in Positions(f) /\ OpAt(g, p) = OpAt(f, o)
             /\ ~(o[1] = b /\ lo <= o[2] /\ o[2] <= hi)
  <2> DEFINE j == i - n + (hi - lo + 1)
  <2>1. o = <<b, j>> /\ ~PutIn(p, b, lo, n)
    BY <1>7, <1>1, <1>2 DEF Origin, PutIn
  <2>2. j \in 1..Len(f[b].ops) /\ ~(j <= hi)
    <3>1. Len(g[b].ops) = Len(f[b].ops) - (hi - lo + 1) + n /\ i \in 1..Len(g[b].ops)
      BY <1>1, <1>7 DEF IsPut
    <3>2. lo >= 1 /\ hi >= lo - 1
      BY <1>2
    <3> HIDE DEF c, i, o
    <3>3. PICK lf \in Nat : lf = Len(f[b].ops)
      BY <1>2
    <3>4. PICK m \in Nat : m = n
      BY <1>2
    <3> HIDE DEF n
    <3>5. i \in 1..(lf - (hi - lo + 1) + m)
      BY <3>1, <3>3, <3>4
    <3>6. i - m + (hi - lo + 1) \in 1..lf /\ ~(i - m + (hi - lo + 1) <= hi)
      BY <3>2, <3>4, <3>5, <1>1, <1>2, <1>7
    <3> QED BY <3>3, <3>4, <3>6
  <2>3. g[b].ops[i] = f[b].ops[j]
    BY <1>1, <1>7 DEF IsPut
  <2> HIDE DEF j
  <2>4. o \in Positions(f) /\ o[1] = b /\ o[2] = j
    BY <2>1, <2>2, PositionsMember
  <2>5. OpAt(f, o) = OpAt(g, p)
    BY <2>3, <2>4, <1>3, <1>7 DEF OpAt
  <2> QED BY <2>1, <2>2, <2>4, <2>5
<1>8. ASSUME c = b /\ ~(i < lo) /\ i < lo + n, ~PutIn(p, b, lo, n)
      PROVE  /\ o \in Positions(f) /\ OpAt(g, p) = OpAt(f, o)
             /\ ~(o[1] = b /\ lo <= o[2] /\ o[2] <= hi)
  <2>1. PutIn(p, b, lo, n)
    BY <1>8, <1>1, <1>2 DEF PutIn
  <2> QED BY <2>1, <1>8
<1>9. ~PutIn(p, b, lo, n) => /\ o \in Positions(f) /\ OpAt(g, p) = OpAt(f, o)
                             /\ ~(o[1] = b /\ lo <= o[2] /\ o[2] <= hi)
  BY <1>4, <1>5, <1>6, <1>7, <1>8
<1> HIDE DEF o
<1> QED BY <1>4, <1>9 DEF Sited, o

\* No two operations after a Put come from one.
LEMMA OriginInjective ==
  ASSUME NEW g \in Code, NEW p \in Positions(g), NEW q \in Positions(g),
         NEW b \in Int, NEW lo \in Int, NEW hi \in Int, NEW n \in Nat, lo - 1 <= hi,
         ~PutIn(p, b, lo, n), ~PutIn(q, b, lo, n),
         Origin(p, b, lo, hi, n) = Origin(q, b, lo, hi, n)
  PROVE  p = q
<1>1. /\ p = <<p[1], p[2]>> /\ p[1] \in Int /\ p[2] \in Int
      /\ q = <<q[1], q[2]>> /\ q[1] \in Int /\ q[2] \in Int
  BY PositionTypes
<1>2. p[1] = q[1] /\ p[2] = q[2]
  <2>1. CASE p[1] # b \/ p[2] < lo
    <3>1. Origin(p, b, lo, hi, n) = p
      BY <2>1 DEF Origin
    <3>2. CASE q[1] # b \/ q[2] < lo
      BY <3>1, <3>2 DEF Origin
    <3>3. CASE ~(q[1] # b \/ q[2] < lo)
      <4>1. p = <<b, q[2] - n + (hi - lo + 1)>>
        BY <3>1, <3>3 DEF Origin
      <4>2. p[1] = b /\ p[2] = q[2] - n + (hi - lo + 1)
        BY <4>1
      <4>3. q[2] >= lo + n
        BY <3>3, <1>1 DEF PutIn
      <4> QED BY <4>2, <4>3, <2>1, <1>1
    <3> QED BY <3>2, <3>3
  <2>2. CASE ~(p[1] # b \/ p[2] < lo)
    <3>1. Origin(p, b, lo, hi, n) = <<b, p[2] - n + (hi - lo + 1)>>
      BY <2>2 DEF Origin
    <3>2. CASE q[1] # b \/ q[2] < lo
      <4>1. q = <<b, p[2] - n + (hi - lo + 1)>>
        BY <3>1, <3>2 DEF Origin
      <4>2. q[1] = b /\ q[2] = p[2] - n + (hi - lo + 1)
        BY <4>1
      <4>3. p[2] >= lo + n
        BY <2>2, <1>1 DEF PutIn
      <4> QED BY <4>2, <4>3, <3>2, <1>1
    <3>3. CASE ~(q[1] # b \/ q[2] < lo)
      <4>1. <<b, p[2] - n + (hi - lo + 1)>> = <<b, q[2] - n + (hi - lo + 1)>>
        BY <3>1, <3>3 DEF Origin
      <4>2. p[2] - n + (hi - lo + 1) = q[2] - n + (hi - lo + 1)
        BY <4>1
      <4> QED BY <4>2, <2>2, <3>3, <1>1
    <3> QED BY <3>2, <3>3
  <2> QED BY <2>1, <2>2
<1> QED BY <1>1, <1>2

-----------------------------------------------------------------------------
\* Calls carry a stamp once the head of the mid-end gave ids.
CallsStamped(f) ==
  \A p \in Positions(f) : OpAt(f, p).kind = "call" => has_attribution(OpAt(f, p))

\* What holds of every function of the mid-end while stamping.
Stamped(f) == f \in Code /\ Len(f) >= 1 /\ KeepersDistinct(f) /\ CallsStamped(f)

\* A call can be inlined under its own name.
StampedOp(op) == op.kind = "call" => has_attribution(op)

\* Operations that keep no id may be put in anywhere, and any taken out.
LEMMA PutKeepers ==
  ASSUME NEW f, Stamped(f), NEW b \in 1..Len(f), NEW lo \in 1..(Len(f[b].ops) + 1),
         NEW hi \in (lo - 1)..Len(f[b].ops), NEW ops \in Seq(Operations),
         \A i \in 1..Len(ops) : ~Keeps(ops[i]) /\ StampedOp(ops[i])
  PROVE  Stamped(Put(f, b, lo, hi, ops))
<1> DEFINE g == Put(f, b, lo, hi, ops)
           n == Len(ops)
           new(p) == PutIn(p, b, lo, n)
           o(p) == Origin(p, b, lo, hi, n)
<1>1. f \in Code
  BY DEF Stamped
<1>2. IsPut(f, g, b, lo, hi, ops)
  BY <1>1, PutShape
<1>3. g \in Code /\ Len(g) = Len(f)
  BY <1>2 DEF IsPut
<1> HIDE DEF g
<1>4. ASSUME NEW p \in Positions(g)
      PROVE  /\ new(p) => ~Keeps(OpAt(g, p)) /\ StampedOp(OpAt(g, p))
             /\ ~new(p) => o(p) \in Positions(f) /\ OpAt(g, p) = OpAt(f, o(p))
  <2>1. Sited(f, g, b, lo, hi, ops, p)
    BY <1>1, <1>2, <1>3, PutSites
  <2> QED BY <2>1 DEF Sited
<1>5. b \in Int /\ lo \in Int /\ hi \in Int /\ n \in Nat /\ lo - 1 <= hi
  BY <1>1, CodeShape
<1>6. \A p, q \in Positions(g) : ~new(p) /\ ~new(q) /\ o(p) = o(q) => p = q
  BY <1>3, <1>5, OriginInjective
<1> HIDE DEF new, o
<1>7. KeepersDistinct(g)
  <2>1. SUFFICES ASSUME NEW p \in Positions(g), NEW q \in Positions(g),
                        Keeps(OpAt(g, p)), Keeps(OpAt(g, q)), OpAt(g, p).id = OpAt(g, q).id
                 PROVE  p = q
    BY DEF KeepersDistinct
  <2>2. ~new(p) /\ ~new(q)
    BY <2>1, <1>4
  <2>3. o(p) = o(q)
    BY <2>1, <2>2, <1>4 DEF Stamped, KeepersDistinct
  <2> QED BY <2>2, <2>3, <1>6
<1>8. CallsStamped(g)
  BY <1>4 DEF CallsStamped, Stamped, StampedOp
<1>9. Stamped(g)
  BY <1>3, <1>7, <1>8 DEF Stamped
<1> QED BY <1>9 DEF g

\* An operation may be replaced by one with the same identity (absorb).
LEMMA ReplaceKeepers ==
  ASSUME NEW f, Stamped(f), NEW at \in Positions(f), NEW op \in Operations,
         op.id = OpAt(f, at).id, op.call = OpAt(f, at).call, StampedOp(op)
  PROVE  /\ Stamped(Put(f, at[1], at[2], at[2], <<op>>))
         /\ Positions(Put(f, at[1], at[2], at[2], <<op>>)) = Positions(f)
<1> DEFINE b == at[1]
           i == at[2]
           g == Put(f, b, i, i, <<op>>)
<1>1. f \in Code
  BY DEF Stamped
<1>2. at = <<b, i>> /\ b \in 1..Len(f) /\ i \in 1..Len(f[b].ops) /\ b \in Int /\ i \in Int
  BY <1>1, PositionTypes
<1>3. Len(f[b].ops) \in Nat
  BY <1>1, <1>2, CodeShape
<1>4. i \in 1..(Len(f[b].ops) + 1) /\ i \in (i - 1)..Len(f[b].ops)
  BY <1>2, <1>3
<1>5. <<op>> \in Seq(Operations) /\ Len(<<op>>) = 1
  OBVIOUS
<1>6. IsPut(f, g, b, i, i, <<op>>)
  <2> HIDE DEF b, i
  <2> QED BY <1>1, <1>2, <1>4, <1>5, PutShape
<1>7. /\ g \in Code /\ Len(g) = Len(f)
      /\ \A c \in 1..Len(f) : c # b => g[c] = f[c]
      /\ Len(g[b].ops) = Len(f[b].ops)
      /\ \A j \in 1..Len(f[b].ops) : g[b].ops[j] = IF j = i THEN op ELSE f[b].ops[j]
  <2> HIDE DEF b, i, g
  <2>1. /\ g \in Code /\ Len(g) = Len(f)
        /\ \A c \in 1..Len(f) : c # b => g[c] = f[c]
    BY <1>6 DEF IsPut
  <2>2. Len(g[b].ops) = Len(f[b].ops)
    BY <1>2, <1>3, <1>5, <1>6 DEF IsPut
  <2>3. \A j \in 1..Len(f[b].ops) :
          g[b].ops[j] = IF j < i THEN f[b].ops[j] ELSE IF j < i + 1 THEN <<op>>[j - i + 1]
                        ELSE f[b].ops[j - 1 + (i - i + 1)]
    BY <2>2, <1>5, <1>6 DEF IsPut
  <2>4. ASSUME NEW j \in 1..Len(f[b].ops)
        PROVE  g[b].ops[j] = IF j = i THEN op ELSE f[b].ops[j]
    <3>1. j \in Int /\ j - 1 + (i - i + 1) = j
      BY <1>2, <1>3
    <3>2. CASE j < i
      BY <3>1, <3>2, <2>3, <1>2
    <3>3. CASE j = i
      <4>1. j < i + 1 /\ ~(j < i) /\ j - i + 1 = 1
        BY <3>1, <3>3, <1>2
      <4> QED BY <4>1, <3>3, <2>3
    <3>4. CASE j > i
      <4>1. ~(j < i + 1) /\ ~(j < i) /\ j # i
        BY <3>1, <3>4, <1>2
      <4> QED BY <4>1, <3>1, <2>3
    <3> QED BY <3>1, <3>2, <3>3, <3>4, <1>2
  <2> QED BY <2>1, <2>2, <2>4
<1> HIDE DEF g, b, i
<1>8. Positions(g) = Positions(f)
  <2>1. \A c \in 1..Len(f) : 1..Len(g[c].ops) = 1..Len(f[c].ops)
    BY <1>7
  <2>2. ASSUME NEW p PROVE p \in Positions(g) <=> p \in Positions(f)
    <3>1. p \in Positions(g) <=> \E c \in 1..Len(g) : \E j \in 1..Len(g[c].ops) : p = <<c, j>>
      BY PositionsMember
    <3>2. p \in Positions(f) <=> \E c \in 1..Len(f) : \E j \in 1..Len(f[c].ops) : p = <<c, j>>
      BY PositionsMember
    <3> QED BY <2>1, <3>1, <3>2, <1>7
  <2> QED BY <2>2
<1>9. ASSUME NEW p \in Positions(f)
      PROVE  OpAt(g, p) = IF p = at THEN op ELSE OpAt(f, p)
  <2>1. p = <<p[1], p[2]>> /\ p[1] \in 1..Len(f) /\ p[2] \in 1..Len(f[p[1]].ops)
    BY <1>1, PositionTypes
  <2>2. CASE p[1] # b
    BY <2>1, <2>2, <1>2, <1>7 DEF OpAt
  <2>3. CASE p[1] = b
    <3>1. p = at <=> p[2] = i
      BY <2>1, <2>3, <1>2
    <3> QED BY <3>1, <2>1, <2>3, <1>7 DEF OpAt
  <2> QED BY <2>2, <2>3
<1>10. \A p \in Positions(f) : /\ OpAt(g, p).id = OpAt(f, p).id
                               /\ Keeps(OpAt(g, p)) <=> Keeps(OpAt(f, p))
  BY <1>9 DEF Keeps
<1>11. KeepersDistinct(g)
  BY <1>8, <1>10 DEF KeepersDistinct, Stamped
<1>12. CallsStamped(g)
  BY <1>8, <1>9 DEF CallsStamped, Stamped, StampedOp
<1>13. Stamped(g)
  BY <1>7, <1>11, <1>12 DEF Stamped
<1> QED BY <1>8, <1>13 DEF g, b, i

\* An operation taken out and put in at the head of another block is moved:
\* it keeps its id, and its old place no longer has it.
LEMMA MoveKeepers ==
  ASSUME NEW f, Stamped(f), NEW at \in Positions(f), NEW b \in 1..Len(f), b # at[1]
  PROVE  Stamped(Put(Put(f, at[1], at[2], at[2], <<>>), b, 1, 0, <<OpAt(f, at)>>))
<1> DEFINE a == at[1]
           i == at[2]
           op == OpAt(f, at)
           g == Put(f, a, i, i, <<>>)
           h == Put(g, b, 1, 0, <<op>>)
<1>1. f \in Code
  BY DEF Stamped
<1>2. /\ at = <<a, i>> /\ a \in 1..Len(f) /\ i \in 1..Len(f[a].ops) /\ a \in Int /\ i \in Int
      /\ op \in Operations
  BY <1>1, PositionTypes
<1>3. Len(f[a].ops) \in Nat
  BY <1>1, <1>2, CodeShape
<1>4. i \in 1..(Len(f[a].ops) + 1) /\ i \in (i - 1)..Len(f[a].ops)
  BY <1>2, <1>3
<1>5. <<op>> \in Seq(Operations) /\ Len(<<op>>) = 1 /\ <<>> \in Seq(Operations) /\ Len(<<>>) = 0
  BY <1>2
<1> HIDE DEF a, i, op
<1>6. IsPut(f, g, a, i, i, <<>>)
  BY <1>1, <1>2, <1>4, <1>5, PutShape
<1>7. g \in Code /\ Len(g) = Len(f) /\ b \in 1..Len(g) /\ Len(g[b].ops) \in Nat
  <2>1. g \in Code /\ Len(g) = Len(f)
    BY <1>6 DEF IsPut
  <2> HIDE DEF g
  <2> QED BY <2>1, CodeShape
<1> HIDE DEF g
<1>8. 1 \in 1..(Len(g[b].ops) + 1) /\ 0 \in (1 - 1)..Len(g[b].ops)
  BY <1>7
<1>9. IsPut(g, h, b, 1, 0, <<op>>)
  BY <1>5, <1>7, <1>8, PutShape
<1>10. h \in Code /\ Len(h) = Len(g)
  BY <1>9 DEF IsPut
<1> HIDE DEF h
<1> DEFINE new(p) == PutIn(p, b, 1, 1)
           o(p) == Origin(p, b, 1, 0, 1)
           u(p) == Origin(p, a, i, i, 0)
<1>11. ASSUME NEW p \in Positions(g)
       PROVE  u(p) \in Positions(f) /\ OpAt(g, p) = OpAt(f, u(p)) /\ u(p) # at /\ ~PutIn(p, a, i, 0)
  <2>1. p[1] \in Int /\ p[2] \in Int
    BY <1>7, PositionTypes
  <2>2. ~PutIn(p, a, i, 0)
    BY <2>1, <1>2 DEF PutIn
  <2>3. /\ u(p) \in Positions(f) /\ OpAt(g, p) = OpAt(f, u(p))
        /\ ~(u(p)[1] = a /\ i <= u(p)[2] /\ u(p)[2] <= i)
    <3> DEFINE no == <<>>
               v == Origin(p, a, i, i, Len(no))
    <3>1. IsPut(f, g, a, i, i, no) /\ no \in Seq(Operations) /\ Len(no) = 0
      BY <1>5, <1>6
    <3> HIDE DEF no, u
    <3>2. ~PutIn(p, a, i, Len(no))
      BY <3>1, <2>2
    <3>5. Sited(f, g, a, i, i, no, p)
      BY <3>1, <1>1, <1>2, <1>4, <1>7, PutSites
    <3>3. /\ v \in Positions(f) /\ OpAt(g, p) = OpAt(f, v)
          /\ ~(v[1] = a /\ i <= v[2] /\ v[2] <= i)
      BY <3>2, <3>5 DEF Sited
    <3>4. v = u(p)
      BY <3>1 DEF u
    <3> HIDE DEF v
    <3> QED BY <3>3, <3>4
  <2>4. u(p) # at
    <3> HIDE DEF u
    <3> QED BY <2>3, <1>2
  <2> QED BY <2>2, <2>3, <2>4
<1>12. \A p, q \in Positions(g) : u(p) = u(q) => p = q
  <2>1. i - 1 <= i /\ 0 \in Nat
    BY <1>2
  <2> QED BY <2>1, <1>2, <1>7, <1>11, OriginInjective
<1>13. ASSUME NEW p \in Positions(h)
       PROVE  /\ new(p) => p = <<b, 1>> /\ OpAt(h, p) = op
              /\ ~new(p) => o(p) \in Positions(g) /\ OpAt(h, p) = OpAt(g, o(p))
  <2>1. p[1] \in Int /\ p[2] \in Int /\ p = <<p[1], p[2]>>
    BY <1>10, PositionTypes
  <2>2. /\ new(p) => p[2] - 1 + 1 \in 1..1 /\ OpAt(h, p) = <<op>>[p[2] - 1 + 1]
        /\ ~new(p) => o(p) \in Positions(g) /\ OpAt(h, p) = OpAt(g, o(p))
    <3> DEFINE one == <<op>>
               v == Origin(p, b, 1, 0, Len(one))
               in == PutIn(p, b, 1, Len(one))
    <3>1. IsPut(g, h, b, 1, 0, one) /\ one \in Seq(Operations) /\ Len(one) = 1
      BY <1>5, <1>9
    <3> HIDE DEF one, new, o
    <3>2. /\ in => p[2] - 1 + 1 \in 1..Len(one) /\ OpAt(h, p) = one[p[2] - 1 + 1]
          /\ ~in => v \in Positions(g) /\ OpAt(h, p) = OpAt(g, v)
      <4>1. Sited(g, h, b, 1, 0, one, p)
        BY <3>1, <1>7, <1>8, <1>10, PutSites
      <4> QED BY <4>1 DEF Sited
    <3>3. v = o(p) /\ (in <=> new(p))
      BY <3>1 DEF new, o
    <3> HIDE DEF v, in
    <3> QED BY <3>1, <3>2, <3>3 DEF one
  <2>3. ASSUME new(p) PROVE p[1] = b /\ p[2] = 1
    BY <2>1, <2>3 DEF PutIn
  <2>4. new(p) => p = <<b, 1>> /\ OpAt(h, p) = op
    <3> HIDE DEF new
    <3> QED BY <2>1, <2>2, <2>3
  <2> QED BY <2>2, <2>4
<1>14. \A p, q \in Positions(h) : ~new(p) /\ ~new(q) /\ o(p) = o(q) => p = q
  <2>1. b \in Int /\ 1 \in Int /\ 0 \in Int /\ 1 \in Nat /\ 1 - 1 <= 0
    BY <1>7
  <2> QED BY <2>1, <1>10, OriginInjective
<1> HIDE DEF new, o, u
\* Where an operation of the result stood at first.
<1> DEFINE w(p) == IF new(p) THEN at ELSE u(o(p))
<1>15. \A p \in Positions(h) : w(p) \in Positions(f) /\ OpAt(h, p) = OpAt(f, w(p))
  BY <1>11, <1>13 DEF op
<1>16. ASSUME NEW p \in Positions(h), NEW q \in Positions(h), w(p) = w(q)
       PROVE  p = q
  <2>1. CASE new(p) /\ new(q)
    BY <2>1, <1>13
  <2>2. CASE ~new(p) /\ ~new(q)
    BY <2>2, <1>12, <1>13, <1>14, <1>16
  <2>3. CASE new(p) /\ ~new(q)
    BY <2>3, <1>11, <1>13, <1>16
  <2>4. CASE ~new(p) /\ new(q)
    BY <2>4, <1>11, <1>13, <1>16
  <2> QED BY <2>1, <2>2, <2>3, <2>4
<1> HIDE DEF w
<1>17. KeepersDistinct(h)
  BY <1>15, <1>16 DEF Stamped, KeepersDistinct
<1>18. CallsStamped(h)
  BY <1>15 DEF Stamped, CallsStamped
<1>19. Stamped(h)
  BY <1>7, <1>10, <1>17, <1>18 DEF Stamped
<1> QED BY <1>19 DEF h, g, op, a, i

-----------------------------------------------------------------------------
(* The operations the passes put in. *)

\* What an operation stands for are ids, some if it has an attribution.
LEMMA Sources ==
  ASSUME NEW op \in Operations
  PROVE  /\ effective_sources(op) \in SUBSET Nat
         /\ has_attribution(op) => effective_sources(op) # {}
BY DEF effective_sources, has_attribution, Operations, Ids

\* A new operation has no identity.
LEMMA BareOpType ==
  ASSUME NEW kind \in Kinds, NEW name \in Nat, NEW origin \in SUBSET Nat
  PROVE  /\ BareOp(kind, name, origin) \in Operations
         /\ ~Keeps(BareOp(kind, name, origin))
         /\ BareOp(kind, name, origin).kind = kind
         /\ BareOp(kind, name, origin).id = None
         /\ BareOp(kind, name, origin).call = None
BY DEF BareOp, Operations, Ids, Keeps

\* Stamping with sources changes only the attribution.
LEMMA DerivedFromMany ==
  ASSUME NEW op \in Operations, NEW ids \in SUBSET Nat, ids # {}
  PROVE  /\ set_derived_from_many(op, ids) \in Operations
         /\ set_derived_from_many(op, ids).kind = op.kind
         /\ set_derived_from_many(op, ids).id = op.id
         /\ set_derived_from_many(op, ids).call = op.call
         /\ has_attribution(set_derived_from_many(op, ids))
<1>1. (CHOOSE id \in ids : TRUE) \in ids
  OBVIOUS
<1>2. PICK k \in Nat : k = CHOOSE id \in ids : TRUE
  BY <1>1
<1>3. CASE Cardinality(ids) = 1
  <2>1. set_derived_from_many(op, ids) = [op EXCEPT !.from = k]
    BY <1>2, <1>3 DEF set_derived_from_many, set_derived_from
  <2>2. k # None /\ k \in Ids
    BY DEF None, Ids
  <2> QED BY <2>1, <2>2 DEF Operations, has_attribution
<1>4. CASE Cardinality(ids) # 1
  <2>1. set_derived_from_many(op, ids) = [op EXCEPT !.many = ids]
    BY <1>4 DEF set_derived_from_many
  <2> QED BY <2>1 DEF Operations, has_attribution
<1> QED BY <1>3, <1>4

\* An operation put in under a kind that is not a call, with no id.
NewOp(op) == op \in Operations /\ ~Keeps(op) /\ StampedOp(op)

\* A new operation derived from another keeps no id (derive_new_from).
LEMMA DerivedNew ==
  ASSUME NEW new \in Operations, new.id = None, new.kind # "call", NEW source \in Operations
  PROVE  NewOp(derive_new_from(new, source))
<1>1. CASE has_attribution(new) \/ effective_sources(source) = {}
  BY <1>1 DEF derive_new_from, NewOp, Keeps, StampedOp
<1>2. CASE ~(has_attribution(new) \/ effective_sources(source) = {})
  <2>1. effective_sources(source) \in SUBSET Nat /\ effective_sources(source) # {}
    BY <1>2, Sources
  <2>2. derive_new_from(new, source) = set_derived_from_many(new, effective_sources(source))
    BY <1>2 DEF derive_new_from
  <2> HIDE DEF effective_sources
  <2> QED BY <2>1, <2>2, DerivedFromMany DEF NewOp, Keeps, StampedOp
<1> QED BY <1>1, <1>2

\* A clone keeps no id, and a cloned call has an attribution (stamp_clone).
LEMMA CloneNew ==
  ASSUME NEW op \in Operations, StampedOp(op), NEW name \in Nat
  PROVE  NewOp(stamp_clone(op, name))
<1> DEFINE bare == BareOp(op.kind, name, op.origin)
<1>1. op.kind \in Kinds /\ op.origin \in SUBSET Nat
  BY DEF Operations
<1>2. bare \in Operations /\ ~Keeps(bare) /\ bare.kind = op.kind /\ bare.id = None
  BY <1>1, BareOpType
<1>3. stamp_clone(op, name) = IF effective_sources(op) = {} THEN bare
                              ELSE set_derived_from_many(bare, effective_sources(op))
  BY DEF stamp_clone
<1> HIDE DEF bare
<1>4. CASE effective_sources(op) = {}
  <2>1. op.kind # "call"
    BY <1>4, Sources DEF StampedOp
  <2> QED BY <2>1, <1>2, <1>3, <1>4 DEF NewOp, StampedOp
<1>5. CASE effective_sources(op) # {}
  <2>1. effective_sources(op) \in SUBSET Nat
    BY Sources
  <2> QED BY <2>1, <1>2, <1>3, <1>5, DerivedFromMany DEF NewOp, Keeps, StampedOp
<1> QED BY <1>4, <1>5

\* The survivor of a merge keeps its identity (absorb).
LEMMA AbsorbKeeps ==
  ASSUME NEW op \in Operations, NEW gone \in Operations, StampedOp(op)
  PROVE  /\ absorb(op, gone) \in Operations
         /\ absorb(op, gone).id = op.id /\ absorb(op, gone).call = op.call
         /\ StampedOp(absorb(op, gone))
<1> DEFINE both == [op EXCEPT !.origin = @ \union gone.origin]
           all == effective_sources(op) \union effective_sources(gone)
<1>1. /\ both \in Operations /\ both.id = op.id /\ both.call = op.call /\ both.kind = op.kind
      /\ has_attribution(both) <=> has_attribution(op)
  BY DEF Operations, has_attribution
<1>2. absorb(op, gone) = IF effective_sources(op) = {} \/ effective_sources(gone) = {} THEN both
                         ELSE set_derived_from_many(both, all)
  BY DEF absorb
<1>3. all \in SUBSET Nat
  BY Sources
<1> HIDE DEF both
<1>4. CASE effective_sources(op) = {} \/ effective_sources(gone) = {}
  BY <1>1, <1>2, <1>4 DEF StampedOp
<1>5. CASE ~(effective_sources(op) = {} \/ effective_sources(gone) = {})
  <2>1. all # {}
    BY <1>5
  <2> HIDE DEF all
  <2> QED BY <2>1, <1>1, <1>2, <1>3, <1>5, DerivedFromMany DEF StampedOp
<1> QED BY <1>4, <1>5

\* The caller with the call at a position replaced by a body of new operations.
Inlined(f, at, jump, body) ==
  SubSeq(f, 1, at[1] - 1)
  \o <<Block(f[at[1]].label, Append(SubSeq(f[at[1]].ops, 1, at[2] - 1), jump)),
       Block("inlined", body),
       Block("cont", SubSeq(f[at[1]].ops, at[2] + 1, Len(f[at[1]].ops)))>>
  \o SubSeq(f, at[1] + 1, Len(f))

\* A call replaced by a jump, a block of new operations and a block with what
\* followed the call: the others only move.
LEMMA InlineKeepers ==
  ASSUME NEW f, Stamped(f), NEW at \in Positions(f), NEW jump, NewOp(jump),
         NEW body \in Seq(Operations), \A i \in 1..Len(body) : NewOp(body[i])
  PROVE  Stamped(Inlined(f, at, jump, body))
<1> DEFINE a == at[1]
           i == at[2]
           ops == f[a].ops
           B == [label : Labels, ops : Seq(Operations)]
           head == SubSeq(ops, 1, i - 1)
           tail == SubSeq(ops, i + 1, Len(ops))
           first == Append(head, jump)
           three == <<Block(f[a].label, first), Block("inlined", body), Block("cont", tail)>>
           g == SubSeq(f, 1, a - 1) \o three \o SubSeq(f, a + 1, Len(f))
<1>1. f \in Code
  BY DEF Stamped
<1>2. /\ at = <<a, i>> /\ a \in 1..Len(f) /\ i \in 1..Len(ops) /\ a \in Int /\ i \in Int
  BY <1>1, PositionTypes
<1>3. /\ Len(ops) \in Nat /\ Len(f) \in Nat /\ ops \in Seq(Operations) /\ f[a].label \in Labels
      /\ f \in Seq(B)
  BY <1>1, <1>2, CodeShape DEF Code
<1>4. \A j \in 1..Len(ops) : ops[j] \in Operations
  BY <1>3
<1> HIDE DEF a, i, ops
<1>5. /\ head \in Seq(Operations) /\ Len(head) = i - 1 /\ \A j \in 1..(i - 1) : head[j] = ops[j]
  <2>1. \A j \in 1..(i - 1) : ops[j] \in Operations
    BY <1>2, <1>3, <1>4
  <2>2. /\ head \in Seq(Operations) /\ Len(head) = IF 1 <= i - 1 THEN (i - 1) - 1 + 1 ELSE 0
        /\ \A j \in 1..((i - 1) - 1 + 1) : head[j] = ops[1 + j - 1]
    BY <2>1, <1>2, SubSeqProperties
  <2> HIDE DEF head
  <2> QED BY <2>2, <1>2
<1>6. /\ tail \in Seq(Operations) /\ Len(tail) = Len(ops) - i
      /\ \A j \in 1..(Len(ops) - i) : tail[j] = ops[i + j]
  <2>1. \A j \in (i + 1)..Len(ops) : ops[j] \in Operations
    BY <1>2, <1>3, <1>4
  <2>2. /\ tail \in Seq(Operations)
        /\ Len(tail) = IF i + 1 <= Len(ops) THEN Len(ops) - (i + 1) + 1 ELSE 0
        /\ \A j \in 1..(Len(ops) - (i + 1) + 1) : tail[j] = ops[(i + 1) + j - 1]
    BY <2>1, <1>2, <1>3, SubSeqProperties
  <2> HIDE DEF tail
  <2> QED BY <2>2, <1>2, <1>3
<1> HIDE DEF head, tail
<1>7. /\ first \in Seq(Operations) /\ Len(first) = i
      /\ \A j \in 1..i : first[j] = IF j = i THEN jump ELSE ops[j]
  <2>1. jump \in Operations
    BY DEF NewOp
  <2>2. /\ first \in Seq(Operations) /\ Len(first) = Len(head) + 1
        /\ \A j \in 1..(Len(head) + 1) : first[j] = IF j <= Len(head) THEN head[j] ELSE jump
    BY <2>1, <1>5, AppendProperties
  <2> HIDE DEF first
  <2> QED BY <2>2, <1>2, <1>5
<1> HIDE DEF first
<1>8. /\ three \in Seq(B) /\ Len(three) = 3
      /\ three[1].ops = first /\ three[2].ops = body /\ three[3].ops = tail
  <2>1. "inlined" \in Labels /\ "cont" \in Labels
    BY SourceAssumption
  <2>2. Block(f[a].label, first) \in B /\ Block("inlined", body) \in B /\ Block("cont", tail) \in B
    BY <2>1, <1>3, <1>6, <1>7 DEF Block
  <2>3. /\ Block(f[a].label, first).ops = first /\ Block("inlined", body).ops = body
        /\ Block("cont", tail).ops = tail
    BY DEF Block
  <2> HIDE DEF B
  <2> QED BY <2>2, <2>3
<1> HIDE DEF three, B
<1>9. Splice(B, f, g, a, a, three)
  <2>1. a \in 1..(Len(f) + 1) /\ a \in (a - 1)..Len(f)
    BY <1>2, <1>3
  <2> QED BY <2>1, <1>3, <1>8, Spliced
<1> HIDE DEF g
<1>10. /\ g \in Code /\ Len(g) = Len(f) + 2
       /\ \A c \in 1..Len(g) : g[c] = IF c < a THEN f[c] ELSE IF c < a + 3 THEN three[c - a + 1]
                                      ELSE f[c - 2]
  <2>1. g \in Seq(B) /\ Len(g) = Len(f) - (a - a + 1) + 3
    BY <1>8, <1>9 DEF Splice
  <2>2. Len(g) = Len(f) + 2
    BY <2>1, <1>2, <1>3
  <2>3. \A c \in 1..Len(g) : g[c] = IF c < a THEN f[c] ELSE IF c < a + 3 THEN three[c - a + 1]
                                    ELSE f[c - 3 + (a - a + 1)]
    BY <1>8, <1>9 DEF Splice
  <2>4. \A c \in 1..Len(g) : c - 3 + (a - a + 1) = c - 2
    BY <2>2, <1>2, <1>3
  <2> QED BY <2>1, <2>2, <2>3, <2>4 DEF Code, B
\* Where an operation of the result stood, if it is not new.
<1> DEFINE w(p) == IF p[1] <= a THEN p
                   ELSE IF p[1] = a + 2 THEN <<a, i + p[2]>>
                   ELSE <<p[1] - 2, p[2]>>
           new(p) == p[1] = a + 1 \/ (p[1] = a /\ p[2] = i)
<1>11. ASSUME NEW p \in Positions(g)
       PROVE  /\ new(p) => NewOp(OpAt(g, p))
              /\ ~new(p) => w(p) \in Positions(f) /\ OpAt(g, p) = OpAt(f, w(p))
              /\ p = <<p[1], p[2]>> /\ p[1] \in Int /\ p[2] \in Int
              /\ p[1] = a /\ ~new(p) => p[2] < i
              /\ p[2] >= 1
  <2> DEFINE c == p[1]
             j == p[2]
  <2>1. p = <<c, j>> /\ c \in 1..Len(g) /\ j \in 1..Len(g[c].ops) /\ c \in Int /\ j \in Int
    BY <1>10, PositionTypes
  <2>2. OpAt(g, p) = g[c].ops[j] /\ j >= 1
    <3>1. Len(g[c].ops) \in Nat
      BY <2>1, <1>10, CodeShape
    <3> QED BY <2>1, <3>1 DEF OpAt
  <2> HIDE DEF c, j
  <2>3. CASE c < a
    <3>1. g[c] = f[c] /\ c \in 1..Len(f)
      <4>1. g[c] = f[c]
        BY <2>1, <2>3, <1>10
      <4>2. c \in 1..Len(f)
        <5>1. a \in 1..Len(f) /\ c >= 1 /\ Len(f) \in Nat
          BY <2>1, <1>2, <1>3
        <5> QED BY <5>1, <2>1, <2>3
      <4> QED BY <4>1, <4>2
    <3>2. p \in Positions(f) /\ OpAt(f, p) = OpAt(g, p)
      BY <3>1, <2>1, <2>2, PositionsMember DEF OpAt, c, j
    <3>3. w(p) = p /\ ~new(p) /\ c # a
      BY <2>1, <2>3, <1>2 DEF c, j
    <3> QED BY <3>2, <3>3, <2>1, <2>2 DEF c, j
  <2>4. CASE c = a
    <3>1. g[c].ops = first
      <4>1. ~(c < a) /\ c < a + 3 /\ c - a + 1 = 1
        BY <2>4, <1>2
      <4> QED BY <4>1, <2>1, <1>8, <1>10
    <3>2. j \in 1..i
      BY <3>1, <2>1, <1>7
    <3>3. CASE j = i
      <4>1. OpAt(g, p) = jump /\ new(p)
        BY <3>1, <3>2, <3>3, <2>2, <2>4, <1>7 DEF c, j
      <4> QED BY <4>1, <2>1, <2>2 DEF c, j
    <3>4. CASE j # i
      <4>1. OpAt(g, p) = ops[j] /\ j < i /\ j \in 1..Len(ops)
        BY <3>1, <3>2, <3>4, <2>1, <2>2, <1>2, <1>3, <1>7
      <4>2. w(p) = p /\ ~new(p)
        BY <2>1, <2>4, <3>4, <1>2 DEF c, j
      <4>3. p = <<a, j>> /\ p[1] = a /\ p[2] = j
        BY <2>1, <2>4
      <4>4. p \in Positions(f)
        BY <4>1, <4>3, <1>2, PositionsMember DEF ops
      <4>5. OpAt(f, p) = ops[j]
        BY <4>3 DEF OpAt, ops
      <4> QED BY <4>1, <4>2, <4>4, <4>5, <2>1, <2>2 DEF c, j
    <3> QED BY <3>3, <3>4
  <2>5. CASE c = a + 1
    <3>1. g[c].ops = body
      <4>1. ~(c < a) /\ c < a + 3 /\ c - a + 1 = 2
        BY <2>5, <1>2
      <4> QED BY <4>1, <2>1, <1>8, <1>10
    <3>2. NewOp(OpAt(g, p)) /\ new(p) /\ c # a
      BY <3>1, <2>1, <2>2, <2>5, <1>2 DEF c
    <3> QED BY <3>2, <2>1, <2>2 DEF c, j
  <2>6. CASE c = a + 2
    <3>1. g[c].ops = tail
      <4>1. ~(c < a) /\ c < a + 3 /\ c - a + 1 = 3
        BY <2>6, <1>2
      <4> QED BY <4>1, <2>1, <1>8, <1>10
    <3>2. j \in 1..(Len(ops) - i) /\ i + j \in 1..Len(ops)
      BY <3>1, <2>1, <1>2, <1>3, <1>6
    <3>3. OpAt(g, p) = ops[i + j]
      BY <3>1, <3>2, <2>2, <1>6
    <3>4. w(p) = <<a, i + j>> /\ ~new(p) /\ c # a
      BY <2>1, <2>6, <1>2 DEF c, j
    <3>5. w(p) \in Positions(f) /\ w(p)[1] = a /\ w(p)[2] = i + j
      BY <3>2, <3>4, <1>2, PositionsMember DEF ops
    <3>6. OpAt(f, w(p)) = ops[i + j]
      BY <3>5 DEF OpAt, ops
    <3> QED BY <3>3, <3>4, <3>5, <3>6, <2>1, <2>2 DEF c, j
  <2>7. CASE c > a + 2
    <3>1. g[c] = f[c - 2] /\ c - 2 \in 1..Len(f)
      <4>1. ~(c < a) /\ ~(c < a + 3)
        BY <2>7, <2>1, <1>2
      <4>2. g[c] = f[c - 2]
        BY <4>1, <2>1, <1>10
      <4> QED BY <4>2, <2>1, <2>7, <1>2, <1>3, <1>10
    <3>2. w(p) = <<c - 2, j>> /\ ~new(p) /\ c # a
      BY <2>1, <2>7, <1>2 DEF c, j
    <3>3. w(p) \in Positions(f) /\ w(p)[1] = c - 2 /\ w(p)[2] = j
      BY <3>1, <3>2, <2>1, PositionsMember
    <3>4. OpAt(f, w(p)) = OpAt(g, p)
      BY <3>1, <3>3, <2>2 DEF OpAt
    <3> QED BY <3>2, <3>3, <3>4, <2>1, <2>2 DEF c, j
  <2> QED BY <2>3, <2>4, <2>5, <2>6, <2>7, <2>1, <1>2
<1>12. ASSUME NEW p \in Positions(g), NEW q \in Positions(g), ~new(p), ~new(q), w(p) = w(q)
       PROVE  p = q
  <2>1. /\ p = <<p[1], p[2]>> /\ p[1] \in Int /\ p[2] \in Int /\ p[2] >= 1
        /\ q = <<q[1], q[2]>> /\ q[1] \in Int /\ q[2] \in Int /\ q[2] >= 1
        /\ p[1] # a + 1 /\ q[1] # a + 1
        /\ (p[1] = a => p[2] < i) /\ (q[1] = a => q[2] < i)
    BY <1>11, <1>12
  <2> DEFINE x(r) == IF r[1] <= a THEN r[1] ELSE IF r[1] = a + 2 THEN a ELSE r[1] - 2
             y(r) == IF r[1] <= a THEN r[2] ELSE IF r[1] = a + 2 THEN i + r[2] ELSE r[2]
  <2>2. w(p) = <<x(p), y(p)>> /\ w(q) = <<x(q), y(q)>>
    BY <2>1
  <2>3. x(p) = x(q) /\ y(p) = y(q)
    <3> HIDE DEF x, y, w
    <3>1. <<x(p), y(p)>> = <<x(q), y(q)>>
      BY <2>2, <1>12
    <3> QED BY <3>1
  <2>4. p[1] = q[1] /\ p[2] = q[2]
    <3> DEFINE p1 == p[1]
               p2 == p[2]
               q1 == q[1]
               q2 == q[2]
    <3>1. p1 \in Int /\ p2 \in Int /\ q1 \in Int /\ q2 \in Int /\ a \in Int /\ i \in Int
          /\ p2 >= 1 /\ q2 >= 1 /\ p1 # a + 1 /\ q1 # a + 1
          /\ (p1 = a => p2 < i) /\ (q1 = a => q2 < i)
      BY <2>1, <1>2
    <3>2. /\ (IF p1 <= a THEN p1 ELSE IF p1 = a + 2 THEN a ELSE p1 - 2)
               = (IF q1 <= a THEN q1 ELSE IF q1 = a + 2 THEN a ELSE q1 - 2)
          /\ (IF p1 <= a THEN p2 ELSE IF p1 = a + 2 THEN i + p2 ELSE p2)
               = (IF q1 <= a THEN q2 ELSE IF q1 = a + 2 THEN i + q2 ELSE q2)
      BY <2>3
    <3> HIDE DEF p1, p2, q1, q2
    <3>3. p1 = q1 /\ p2 = q2
      BY <3>1, <3>2
    <3> QED BY <3>3 DEF p1, p2, q1, q2
  <2> QED BY <2>1, <2>4
<1> HIDE DEF new, w
<1>13. KeepersDistinct(g)
  <2>1. SUFFICES ASSUME NEW p \in Positions(g), NEW q \in Positions(g),
                        Keeps(OpAt(g, p)), Keeps(OpAt(g, q)), OpAt(g, p).id = OpAt(g, q).id
                 PROVE  p = q
    BY DEF KeepersDistinct
  <2>2. ~new(p) /\ ~new(q)
    BY <2>1, <1>11 DEF NewOp
  <2>3. w(p) = w(q)
    BY <2>1, <2>2, <1>11 DEF Stamped, KeepersDistinct
  <2> QED BY <2>2, <2>3, <1>12
<1>14. CallsStamped(g)
  BY <1>11 DEF CallsStamped, Stamped, NewOp, StampedOp
<1>15. Stamped(g)
  BY <1>3, <1>10, <1>13, <1>14 DEF Stamped
<1>16. Inlined(f, at, jump, body) = g
  BY DEF Inlined, g, three, first, head, tail, ops, a, i
<1> QED BY <1>15, <1>16

-----------------------------------------------------------------------------
\* The three ways an operation is expanded all make new operations.
LEMMA ExpandedNew ==
  ASSUME NEW op \in Operations, op.kind # "call", NEW news,
         news = <<BareOp("shift", FreshName, op.origin), BareOp("add", FreshName + 1, op.origin)>>,
         FreshName \in Nat, NEW ops,
         ops \in {news, derive_chain_from(news, op), stamp_expansion_before(news, op)}
  PROVE  ops \in Seq(Operations) /\ \A i \in 1..Len(ops) : NewOp(ops[i])
<1> DEFINE one == BareOp("shift", FreshName, op.origin)
           two == BareOp("add", FreshName + 1, op.origin)
<1>1. op.origin \in SUBSET Nat /\ FreshName + 1 \in Nat
  BY DEF Operations
<1>2. /\ one \in Operations /\ one.id = None /\ one.kind # "call" /\ NewOp(one)
      /\ two \in Operations /\ two.id = None /\ two.kind # "call" /\ NewOp(two)
  BY <1>1, SourceAssumption, BareOpType DEF NewOp, StampedOp
<1> HIDE DEF one, two
<1>3. news = <<one, two>>
  BY DEF one, two
<1>4. Len(news) = 2 /\ news[1] = one /\ news[2] = two
  BY <1>3
<1>5. \A i \in 1..2 : NewOp(news[i]) /\ NewOp(derive_new_from(news[i], op))
  <2>1. NewOp(derive_new_from(one, op)) /\ NewOp(derive_new_from(two, op))
    BY <1>2, DerivedNew
  <2>2. \A i \in 1..2 : i = 1 \/ i = 2
    OBVIOUS
  <2> QED BY <2>1, <2>2, <1>2, <1>4
<1>6. Len(ops) = 2 /\ ops = [i \in 1..2 |-> ops[i]] /\ \A i \in 1..2 : NewOp(ops[i])
  <2>1. CASE ops = news
    BY <2>1, <1>3, <1>4, <1>5
  <2>2. CASE ops = derive_chain_from(news, op)
    <3> DEFINE stopped == Max({0} \union {i \in 1..Len(news) : has_attribution(news[i])})
    <3>1. ops = [i \in 1..2 |-> IF i > stopped THEN derive_new_from(news[i], op) ELSE news[i]]
      BY <2>2, <1>4 DEF derive_chain_from
    <3> HIDE DEF stopped
    <3> QED BY <3>1, <1>5
  <2>3. CASE ops = stamp_expansion_before(news, op)
    <3>1. ops = [i \in 1..2 |-> derive_new_from(news[i], op)]
      BY <2>3, <1>4 DEF stamp_expansion_before
    <3> QED BY <3>1, <1>5
  <2> QED BY <2>1, <2>2, <2>3
<1> QED BY <1>6 DEF NewOp

\* An operation that names its call site keeps no id.
LEMMA TaggedNew ==
  ASSUME NEW op \in Operations, NEW callsite \in Nat
  PROVE  NewOp(set_inlined_from(op, callsite))
BY DEF set_inlined_from, NewOp, Keeps, StampedOp, has_attribution, Operations, Ids, None

-----------------------------------------------------------------------------
\* A sequence, of whatever its elements are.
IsTrace(t) == t \in Seq({t[k] : k \in 1..Len(t)})

\* A snapshot more: the earlier ones stay.
LEMMA SnapshotAdded ==
  ASSUME NEW t, IsTrace(t), NEW x
  PROVE  /\ IsTrace(Append(t, x)) /\ Len(t) \in Nat /\ Len(Append(t, x)) = Len(t) + 1
         /\ Append(t, x)[Len(t) + 1] = x
         /\ \A k \in 1..Len(t) : Append(t, x)[k] = t[k]
<1> DEFINE R == {t[k] : k \in 1..Len(t)} \union {x}
           u == Append(t, x)
           S == {u[k] : k \in 1..Len(u)}
<1>1. t \in Seq(R) /\ Len(t) \in Nat
  <2>1. Len(t) \in Nat /\ t = [k \in 1..Len(t) |-> t[k]]
    BY DEF IsTrace
  <2>2. \A k \in 1..Len(t) : t[k] \in R
    OBVIOUS
  <2> HIDE DEF R
  <2> QED BY <2>1, <2>2
<1>2. u \in Seq(R) /\ Len(u) = Len(t) + 1
      /\ \A k \in 1..(Len(t) + 1) : u[k] = IF k <= Len(t) THEN t[k] ELSE x
  <2>1. x \in R
    OBVIOUS
  <2> HIDE DEF R
  <2> QED BY <1>1, <2>1, AppendProperties
<1> HIDE DEF R, u
<1>3. u \in Seq(S)
  <2>1. Len(u) \in Nat /\ u = [k \in 1..Len(u) |-> u[k]] /\ \A k \in 1..Len(u) : u[k] \in S
    BY <1>2
  <2> HIDE DEF S
  <2> QED BY <2>1
<1>4. IsTrace(u)
  BY <1>3 DEF IsTrace
<1>5. u[Len(t) + 1] = x /\ \A k \in 1..Len(t) : u[k] = t[k]
  BY <1>1, <1>2
<1> QED BY <1>1, <1>2, <1>4, <1>5 DEF u

-----------------------------------------------------------------------------
\* The compilation while stamping: the functions of the latest snapshot.
NowStamped ==
  stage = "midend" /\ stamping =>
    /\ Now = [s \in DOMAIN Now |-> Now[s]] /\ {Main, Callee} \subseteq DOMAIN Now
    /\ \A s \in DOMAIN Now : Stamped(Now[s])

\* A snapshot of the boundary has unique ids.
Unique(x) == x.label = "aarch64-op-ids" => \A s \in DOMAIN x.funcs : IdsDistinct(x.funcs[s])

\* The inductive invariant for the ids at the boundary.
IdsInv == IsTrace(trace) /\ NowStamped /\ BoundaryIdsUnique

\* A pass of the mid-end preserves the invariant if the function it leaves is
\* stamped the way NowStamped says.
LEMMA RewriteStep ==
  ASSUME IdsInv, NEW label, label # "aarch64-op-ids", NEW g, stamping => Stamped(g),
         Rewrite(label, g)
  PROVE  IdsInv'
<1> DEFINE x == [label |-> label, funcs |-> [Now EXCEPT ![Main] = g]]
<1>1. stage = "midend" /\ stage' = stage /\ stamping' = stamping /\ trace' = Append(trace, x)
  BY DEF Rewrite, Snapshot
<1>2. x.label = label /\ x.funcs = [Now EXCEPT ![Main] = g]
  OBVIOUS
<1> HIDE DEF x
<1>3. /\ IsTrace(trace') /\ Len(trace) \in Nat /\ Len(trace') = Len(trace) + 1
      /\ trace'[Len(trace) + 1] = x
      /\ \A k \in 1..Len(trace) : trace'[k] = trace[k]
  BY <1>1, SnapshotAdded DEF IdsInv
<1>4. Now' = x.funcs
  BY <1>3 DEF Now
<1>5. NowStamped'
  <2>1. SUFFICES ASSUME stamping
                 PROVE  /\ Now' = [s \in DOMAIN Now' |-> Now'[s]] /\ {Main, Callee} \subseteq DOMAIN Now'
                        /\ \A s \in DOMAIN Now' : Stamped(Now'[s])
    BY <1>1 DEF NowStamped
  <2>2. /\ Now = [s \in DOMAIN Now |-> Now[s]] /\ {Main, Callee} \subseteq DOMAIN Now
        /\ \A s \in DOMAIN Now : Stamped(Now[s])
    BY <1>1, <2>1 DEF IdsInv, NowStamped
  <2>3. Now' = [Now EXCEPT ![Main] = g] /\ Stamped(g)
    BY <1>2, <1>4, <2>1
  <2>4. DOMAIN Now' = DOMAIN Now /\ \A s \in DOMAIN Now : Now'[s] = IF s = Main THEN g ELSE Now[s]
    <3> HIDE DEF Now
    <3> QED BY <2>2, <2>3
  <2> HIDE DEF Now
  <2>5. Now' = [s \in DOMAIN Now' |-> Now'[s]]
    <3> DEFINE u == [s \in DOMAIN Now |-> IF s = Main THEN g ELSE Now[s]]
    <3>1. Now' = u
      BY <2>2, <2>3
    <3>2. u = [s \in DOMAIN u |-> u[s]]
      OBVIOUS
    <3> HIDE DEF u
    <3> QED BY <3>1, <3>2
  <2> QED BY <2>2, <2>3, <2>4, <2>5
<1>6. BoundaryIdsUnique'
  <2>1. \A k \in 1..Len(trace') : k \in 1..Len(trace) \/ k = Len(trace) + 1
    BY <1>3
  <2>2. (stamping => \A k \in 1..Len(trace') : Unique(trace'[k])) => BoundaryIdsUnique'
    BY <1>1 DEF BoundaryIdsUnique, Unique, IdsDistinct
  <2>3. stamping => \A k \in 1..Len(trace) : Unique(trace[k])
    BY DEF IdsInv, BoundaryIdsUnique, Unique, IdsDistinct
  <2>4. Unique(x)
    BY <1>2 DEF Unique
  <2> QED BY <2>1, <2>2, <2>3, <2>4, <1>3
<1> QED BY <1>3, <1>5, <1>6 DEF IdsInv

\* What NowStamped says of Main and its operations.
LEMMA StampedMain ==
  ASSUME IdsInv, stage = "midend", stamping
  PROVE  /\ Stamped(Now[Main]) /\ Stamped(Now[Callee]) /\ FreshName \in Nat
         /\ \A p \in Positions(Now[Main]) :
              /\ OpAt(Now[Main], p) \in Operations /\ StampedOp(OpAt(Now[Main], p))
              /\ p[1] \in 1..Len(Now[Main]) /\ p[2] \in 1..Len(Now[Main][p[1]].ops)
              /\ Len(Now[Main][p[1]].ops) \in Nat /\ p[1] \in Int /\ p[2] \in Int
<1>1. Stamped(Now[Main]) /\ Stamped(Now[Callee])
  BY DEF IdsInv, NowStamped
<1>2. Len(trace) \in Nat
  BY DEF IdsInv, IsTrace
<1> HIDE DEF Now
<1>3. FreshName \in Nat
  BY <1>2 DEF FreshName, NameRoom
<1>4. ASSUME NEW p \in Positions(Now[Main])
      PROVE  /\ OpAt(Now[Main], p) \in Operations /\ StampedOp(OpAt(Now[Main], p))
             /\ p[1] \in 1..Len(Now[Main]) /\ p[2] \in 1..Len(Now[Main][p[1]].ops)
             /\ Len(Now[Main][p[1]].ops) \in Nat /\ p[1] \in Int /\ p[2] \in Int
  <2> DEFINE f == Now[Main]
  <2>1. Stamped(f) /\ p \in Positions(f)
    BY <1>1
  <2> HIDE DEF f
  <2>2. f \in Code /\ CallsStamped(f)
    BY <2>1 DEF Stamped
  <2>3. OpAt(f, p) \in Operations /\ p[1] \in 1..Len(f) /\ p[2] \in 1..Len(f[p[1]].ops)
        /\ p[1] \in Int /\ p[2] \in Int
    BY <2>1, <2>2, PositionTypes
  <2>4. Len(f[p[1]].ops) \in Nat
    BY <2>2, <2>3, CodeShape
  <2>5. StampedOp(OpAt(f, p))
    BY <2>1, <2>2 DEF CallsStamped, StampedOp
  <2> QED BY <2>3, <2>4, <2>5 DEF f
<1> QED BY <1>1, <1>3, <1>4

\* Inlining preserves the invariant: the call has sources, and every operation
\* of the copy names the least of them.
LEMMA InlineStep ==
  ASSUME IdsInv, Inline
  PROVE  IdsInv'
<1> DEFINE f == Now[Main]
<1>1. PICK at \in Positions(f) : 
        LET call == OpAt(f, at)
            sources == effective_sources(call)
            tag(op) == IF sources = {} THEN op ELSE set_inlined_from(op, Min(sources))
            jump(n) == tag(BareOp("br", FreshName + n, call.origin))
            copy(op) == tag([op EXCEPT !.name = FreshName + @, !.origin = call.origin])
            body == Now[Callee][1].ops
        IN /\ call.kind = "call"
           /\ Rewrite("llvm-inline",
                Inlined(f, at, jump(0),
                        Append([i \in 1..(Len(body) - 1) |-> copy(body[i])], jump(100))))
  BY DEF Inline, Inlined
<1> DEFINE call == OpAt(f, at)
           sources == effective_sources(call)
           m == Min(sources)
           tag(op) == IF sources = {} THEN op ELSE set_inlined_from(op, m)
           jump(n) == tag(BareOp("br", FreshName + n, call.origin))
           copy(op) == tag([op EXCEPT !.name = FreshName + @, !.origin = call.origin])
           body == Now[Callee][1].ops
           copies == [i \in 1..(Len(body) - 1) |-> copy(body[i])]
           inlined == Append(copies, jump(100))
           g == Inlined(f, at, jump(0), inlined)
<1>2. stage = "midend" /\ call.kind = "call" /\ Rewrite("llvm-inline", g)
  BY <1>1 DEF Rewrite
<1>3. ASSUME stamping
      PROVE  Stamped(g)
  <2>1. /\ Stamped(f) /\ Stamped(Now[Callee]) /\ FreshName \in Nat
        /\ call \in Operations /\ StampedOp(call)
    BY <1>2, <1>3, StampedMain
  <2>2. sources # {} /\ sources \in SUBSET Nat
    BY <1>2, <2>1, Sources DEF StampedOp
  <2>3. m \in Nat
    BY <2>2, MinOfNaturals
  <2>4. body \in Seq(Operations) /\ Len(body) \in Nat /\ \A i \in 1..Len(body) : body[i] \in Operations
    <3> DEFINE h == Now[Callee]
    <3>1. h \in Code /\ Len(h) >= 1 /\ Len(h) \in Nat
      BY <2>1, CodeShape DEF Stamped
    <3> HIDE DEF h
    <3>2. 1 \in 1..Len(h)
      BY <3>1
    <3>3. h[1].ops \in Seq(Operations) /\ Len(h[1].ops) \in Nat
          /\ \A i \in 1..Len(h[1].ops) : h[1].ops[i] \in Operations
      BY <3>1, <3>2, CodeShape
    <3> QED BY <3>3 DEF h
  <2>5. call.origin \in SUBSET Nat
    BY <2>1 DEF Operations
  <2> HIDE DEF f, call, m, body
  <2>6. \A op \in Operations : NewOp(tag(op))
    BY <2>2, <2>3, TaggedNew
  <2>7. NewOp(jump(0)) /\ NewOp(jump(100))
    <3>1. "br" \in Kinds /\ FreshName + 0 \in Nat /\ FreshName + 100 \in Nat
      BY <2>1, SourceAssumption
    <3>2. BareOp("br", FreshName + 0, call.origin) \in Operations
          /\ BareOp("br", FreshName + 100, call.origin) \in Operations
      BY <3>1, <2>5, BareOpType
    <3> HIDE DEF tag
    <3> QED BY <3>2, <2>6
  <2>8. \A i \in 1..Len(body) : NewOp(copy(body[i]))
    <3> HIDE DEF tag
    <3>1. ASSUME NEW op \in Operations
          PROVE  [op EXCEPT !.name = FreshName + @, !.origin = call.origin] \in Operations
      <4>1. FreshName + op.name \in Nat
        <5>1. op.name \in Nat
          BY DEF Operations
        <5> QED BY <5>1, <2>1
      <4> DEFINE n == FreshName + op.name
                 o == call.origin
      <4>2. n \in Nat /\ o \in SUBSET Nat
        BY <4>1, <2>5
      <4>3. [op EXCEPT !.name = FreshName + @, !.origin = call.origin] = [op EXCEPT !.name = n, !.origin = o]
        OBVIOUS
      <4> HIDE DEF n, o
      <4>4. [op EXCEPT !.name = n, !.origin = o] \in Operations
        BY <4>2 DEF Operations
      <4> QED BY <4>3, <4>4
    <3> QED BY <3>1, <2>4, <2>6
  <2> DEFINE last == jump(100)
  <2> HIDE DEF jump, copy
  <2>9. copies \in Seq(Operations) /\ \A i \in 1..Len(copies) : NewOp(copies[i])
    <3> DEFINE n == IF Len(body) = 0 THEN 0 ELSE Len(body) - 1
    <3>1. n \in Nat /\ 1..(Len(body) - 1) = 1..n /\ \A i \in 1..n : i \in 1..Len(body)
      BY <2>4
    <3> HIDE DEF n
    <3>2. copies = [i \in 1..n |-> copy(body[i])]
      BY <3>1
    <3>3. \A i \in 1..n : copies[i] = copy(body[i]) /\ NewOp(copies[i]) /\ copies[i] \in Operations
      BY <3>1, <3>2, <2>8 DEF NewOp
    <3> HIDE DEF copies
    <3>4. Len(copies) = n /\ DOMAIN copies = 1..n
      BY <3>1, <3>2
    <3> QED BY <3>1, <3>2, <3>3, <3>4
  <2> HIDE DEF copies
  <2>10. inlined \in Seq(Operations) /\ \A i \in 1..Len(inlined) : NewOp(inlined[i])
    <3>1. last \in Operations /\ NewOp(last)
      BY <2>7 DEF NewOp
    <3> HIDE DEF last
    <3>2. /\ Append(copies, last) \in Seq(Operations) /\ Len(Append(copies, last)) = Len(copies) + 1
          /\ \A i \in 1..(Len(copies) + 1) :
               Append(copies, last)[i] = IF i <= Len(copies) THEN copies[i] ELSE last
      BY <3>1, <2>9, AppendProperties
    <3>3. Len(copies) \in Nat
      BY <2>9
    <3>4. inlined = Append(copies, last)
      BY DEF last
    <3> HIDE DEF inlined
    <3>5. \A i \in 1..Len(inlined) : i \in 1..(Len(copies) + 1) /\ (i <= Len(copies) => i \in 1..Len(copies))
      BY <3>2, <3>3, <3>4
    <3> QED BY <3>1, <3>2, <3>4, <3>5, <2>9
  <2> HIDE DEF inlined
  <2>11. at \in Positions(f)
    BY <1>1 DEF f
  <2> QED BY <2>1, <2>7, <2>10, <2>11, InlineKeepers
<1> HIDE DEF g
<1> QED BY <1>2, <1>3, RewriteStep

\* Value numbering preserves the invariant: the survivor keeps its own id only.
LEMMA MergeStep ==
  ASSUME IdsInv, Merge
  PROVE  IdsInv'
<1> DEFINE f == Now[Main]
<1>1. PICK at \in Positions(f), to \in Positions(f) :
        Rewrite("llvm-gvn",
            Put(Put(f, to[1], to[2], to[2], <<absorb(OpAt(f, to), OpAt(f, at))>>),
                at[1], at[2], at[2], <<>>))
  BY DEF Merge
<1> DEFINE op == absorb(OpAt(f, to), OpAt(f, at))
           h == Put(f, to[1], to[2], to[2], <<op>>)
           g == Put(h, at[1], at[2], at[2], <<>>)
<1>2. stage = "midend" /\ Rewrite("llvm-gvn", g)
  BY <1>1 DEF Rewrite
<1>3. ASSUME stamping
      PROVE  Stamped(g)
  <2>1. /\ Stamped(f) /\ OpAt(f, to) \in Operations /\ StampedOp(OpAt(f, to))
        /\ OpAt(f, at) \in Operations
    BY <1>2, <1>3, StampedMain
  <2> HIDE DEF f
  <2>2. op \in Operations /\ op.id = OpAt(f, to).id /\ op.call = OpAt(f, to).call /\ StampedOp(op)
    BY <2>1, AbsorbKeeps
  <2> HIDE DEF op
  <2>3. Stamped(h) /\ Positions(h) = Positions(f)
    BY <2>1, <2>2, ReplaceKeepers
  <2> HIDE DEF h
  <2>4. at \in Positions(h) /\ h \in Code
    BY <2>3 DEF Stamped
  <2>5. /\ at[1] \in 1..Len(h) /\ at[2] \in 1..Len(h[at[1]].ops) /\ at[1] \in Int /\ at[2] \in Int
    BY <2>4, PositionTypes
  <2>6. Len(h[at[1]].ops) \in Nat
    BY <2>4, <2>5, CodeShape
  <2>7. at[2] \in 1..(Len(h[at[1]].ops) + 1) /\ at[2] \in (at[2] - 1)..Len(h[at[1]].ops)
    BY <2>5, <2>6
  <2> DEFINE nothing == <<>>
  <2>9. nothing \in Seq(Operations) /\ \A i \in 1..Len(nothing) : ~Keeps(nothing[i]) /\ StampedOp(nothing[i])
    OBVIOUS
  <2>10. g = Put(h, at[1], at[2], at[2], nothing)
    OBVIOUS
  <2> HIDE DEF nothing, g
  <2>11. Stamped(Put(h, at[1], at[2], at[2], nothing))
    BY <2>3, <2>5, <2>7, <2>9, PutKeepers
  <2> QED BY <2>10, <2>11
<1> HIDE DEF g
<1> QED BY <1>2, <1>3, RewriteStep

\* Expanding preserves the invariant, stamped from the value, from the place
\* or not at all.
LEMMA ExpandStep ==
  ASSUME IdsInv, Expand
  PROVE  IdsInv'
<1> DEFINE f == Now[Main]
<1>1. PICK at \in Positions(f) :
        LET op == OpAt(f, at)
            news == <<BareOp("shift", FreshName, op.origin), BareOp("add", FreshName + 1, op.origin)>>
            into(ops) == Put(f, at[1], at[2], at[2], ops)
        IN /\ op.kind \notin {"br", "ret", "call"}
           /\ \/ Rewrite("llvm-simplify", into(derive_chain_from(news, op)))
              \/ Rewrite("llvm-sroa", into(stamp_expansion_before(news, op)))
              \/ Rewrite("llvm-div-strength-reduce", into(news))
  BY DEF Expand
<1> DEFINE op == OpAt(f, at)
           news == <<BareOp("shift", FreshName, op.origin), BareOp("add", FreshName + 1, op.origin)>>
           Variants == {news, derive_chain_from(news, op), stamp_expansion_before(news, op)}
<1>2. op.kind # "call"
  BY <1>1
<1>3. PICK ops \in Variants, label \in {"llvm-simplify", "llvm-sroa", "llvm-div-strength-reduce"} :
        Rewrite(label, Put(f, at[1], at[2], at[2], ops))
  BY <1>1
<1>4. stage = "midend" /\ label # "aarch64-op-ids"
  BY <1>3 DEF Rewrite
<1> DEFINE g == Put(f, at[1], at[2], at[2], ops)
<1>5. ASSUME stamping
      PROVE  Stamped(g)
  <2>1. /\ Stamped(f) /\ op \in Operations /\ FreshName \in Nat
        /\ at[1] \in 1..Len(f) /\ at[2] \in 1..Len(f[at[1]].ops)
        /\ Len(f[at[1]].ops) \in Nat /\ at[1] \in Int /\ at[2] \in Int
    BY <1>4, <1>5, StampedMain
  <2> HIDE DEF f, op
  <2>2. ops \in Seq(Operations) /\ \A i \in 1..Len(ops) : NewOp(ops[i])
    <3>1. news = <<BareOp("shift", FreshName, op.origin), BareOp("add", FreshName + 1, op.origin)>>
      OBVIOUS
    <3> HIDE DEF news
    <3> QED BY <1>2, <1>3, <2>1, <3>1, ExpandedNew
  <2>3. at[2] \in 1..(Len(f[at[1]].ops) + 1) /\ at[2] \in (at[2] - 1)..Len(f[at[1]].ops)
    BY <2>1
  <2>4. \A i \in 1..Len(ops) : ~Keeps(ops[i]) /\ StampedOp(ops[i])
    BY <2>2 DEF NewOp
  <2> QED BY <2>1, <2>2, <2>3, <2>4, PutKeepers
<1> HIDE DEF g
<1>6. Rewrite(label, g)
  BY <1>3 DEF g
<1> QED BY <1>4, <1>5, <1>6, RewriteStep

\* Unrolling preserves the invariant: clones give up the id they copied.
LEMMA CloneStep ==
  ASSUME IdsInv, Clone
  PROVE  IdsInv'
<1> DEFINE f == Now[Main]
<1>1. PICK b \in 1..Len(f) :
        LET n == Len(f[b].ops) - 1
            clones == [i \in 1..n |-> stamp_clone(f[b].ops[i], FreshName + i)]
        IN n > 0 /\ Rewrite("llvm-unroll", Put(f, b, n + 1, n, clones))
  BY DEF Clone
<1> DEFINE n == Len(f[b].ops) - 1
           clones == [i \in 1..n |-> stamp_clone(f[b].ops[i], FreshName + i)]
           g == Put(f, b, n + 1, n, clones)
<1>2. stage = "midend" /\ n > 0 /\ Rewrite("llvm-unroll", g)
  BY <1>1 DEF Rewrite
<1>3. ASSUME stamping
      PROVE  Stamped(g)
  <2>1. Stamped(f) /\ FreshName \in Nat
    BY <1>2, <1>3, StampedMain
  <2> DEFINE ops == f[b].ops
  <2> HIDE DEF f
  <2>2. /\ f \in Code /\ CallsStamped(f) /\ Len(ops) \in Nat
        /\ \A i \in 1..Len(ops) : ops[i] \in Operations
    BY <2>1, CodeShape DEF Stamped
  <2>3. n \in Nat /\ \A i \in 1..n : i \in 1..Len(ops) /\ FreshName + i \in Nat
    BY <1>2, <2>1, <2>2
  <2>4. \A i \in 1..n : NewOp(stamp_clone(ops[i], FreshName + i))
    <3> SUFFICES ASSUME NEW i \in 1..n
                 PROVE  NewOp(stamp_clone(ops[i], FreshName + i))
      OBVIOUS
    <3>1. i \in 1..Len(ops) /\ FreshName + i \in Nat /\ ops[i] \in Operations
      BY <2>2, <2>3
    <3>2. StampedOp(ops[i])
      <4>1. <<b, i>> \in Positions(f)
        BY <3>1, PositionsMember
      <4>2. OpAt(f, <<b, i>>) = ops[i]
        BY DEF OpAt
      <4> QED BY <4>1, <4>2, <2>2 DEF CallsStamped, StampedOp
    <3> HIDE DEF ops, n
    <3> QED BY <3>1, <3>2, CloneNew
  <2>5. n + 1 \in 1..(Len(f[b].ops) + 1) /\ n \in ((n + 1) - 1)..Len(f[b].ops)
    BY <2>2, <2>3
  <2> HIDE DEF n, ops
  <2>6. Len(clones) = n /\ \A i \in 1..n : clones[i] \in Operations /\ NewOp(clones[i])
    <3>1. clones = [i \in 1..n |-> stamp_clone(ops[i], FreshName + i)]
      BY DEF ops
    <3> HIDE DEF clones
    <3>2. \A i \in 1..n : clones[i] = stamp_clone(ops[i], FreshName + i)
      BY <3>1
    <3>3. \A i \in 1..n : NewOp(clones[i])
      BY <3>2, <2>4
    <3>4. Len(clones) = n
      BY <3>1, <2>3
    <3> QED BY <3>3, <3>4 DEF NewOp
  <2>7. clones \in Seq(Operations)
    <3>1. clones = [i \in 1..n |-> clones[i]]
      OBVIOUS
    <3> HIDE DEF clones
    <3> QED BY <2>3, <2>6, <3>1
  <2> HIDE DEF clones
  <2>8. \A i \in 1..Len(clones) : ~Keeps(clones[i]) /\ StampedOp(clones[i])
    BY <2>6 DEF NewOp
  <2> QED BY <2>1, <2>5, <2>7, <2>8, PutKeepers
<1> HIDE DEF g
<1> QED BY <1>2, <1>3, RewriteStep

\* Deleting an operation preserves the invariant.
LEMMA DeleteStep ==
  ASSUME IdsInv, Delete
  PROVE  IdsInv'
<1> DEFINE f == Now[Main]
           nothing == <<>>
<1>1. PICK at \in Positions(f) : Rewrite("llvm-adce", Put(f, at[1], at[2], at[2], nothing))
  BY DEF Delete
<1> DEFINE g == Put(f, at[1], at[2], at[2], nothing)
<1>2. stage = "midend" /\ Rewrite("llvm-adce", g)
  BY <1>1 DEF Rewrite
<1>3. nothing \in Seq(Operations) /\ \A i \in 1..Len(nothing) : ~Keeps(nothing[i]) /\ StampedOp(nothing[i])
  OBVIOUS
<1> HIDE DEF nothing
<1>4. ASSUME stamping
      PROVE  Stamped(g)
  <2>1. /\ Stamped(f)
        /\ at[1] \in 1..Len(f) /\ at[2] \in 1..Len(f[at[1]].ops)
        /\ Len(f[at[1]].ops) \in Nat /\ at[1] \in Int /\ at[2] \in Int
    BY <1>2, <1>4, StampedMain
  <2> HIDE DEF f
  <2>2. at[2] \in 1..(Len(f[at[1]].ops) + 1) /\ at[2] \in (at[2] - 1)..Len(f[at[1]].ops)
    BY <2>1
  <2> QED BY <2>1, <2>2, <1>3, PutKeepers
<1> HIDE DEF g
<1> QED BY <1>2, <1>4, RewriteStep

\* Moving an operation to another block preserves the invariant.
LEMMA MoveStep ==
  ASSUME IdsInv, Move
  PROVE  IdsInv'
<1> DEFINE f == Now[Main]
<1>1. PICK at \in Positions(f), b \in 1..Len(f) :
        /\ b # at[1]
        /\ Rewrite(IF b < at[1] THEN "llvm-licm" ELSE "llvm-sink",
             Put(Put(f, at[1], at[2], at[2], <<>>), b, 1, 0, <<OpAt(f, at)>>))
  BY DEF Move
<1> DEFINE g == Put(Put(f, at[1], at[2], at[2], <<>>), b, 1, 0, <<OpAt(f, at)>>)
           label == IF b < at[1] THEN "llvm-licm" ELSE "llvm-sink"
<1>2. stage = "midend" /\ Rewrite(label, g) /\ label # "aarch64-op-ids"
  BY <1>1 DEF Rewrite
<1>3. ASSUME stamping
      PROVE  Stamped(g)
  <2>1. Stamped(f)
    BY <1>2, <1>3, StampedMain
  <2> HIDE DEF f
  <2> QED BY <2>1, <1>1, MoveKeepers
<1> HIDE DEF g, label
<1> QED BY <1>2, <1>3, RewriteStep

\* The boundary leaves two snapshots.
LEMMA TwoSnapshotsAdded ==
  ASSUME IsTrace(trace), NEW x, NEW y, trace' = trace \o <<x, y>>
  PROVE  /\ Len(trace) \in Nat /\ Len(trace') = Len(trace) + 2 /\ IsTrace(trace')
         /\ \A k \in 1..Len(trace) : trace'[k] = trace[k]
         /\ trace'[Len(trace) + 1] = x /\ trace'[Len(trace) + 2] = y
<1> DEFINE n == Len(trace)
<1> DEFINE t == Append(trace, x)
           u == Append(t, y)
<1>1. /\ IsTrace(t) /\ n \in Nat /\ Len(t) = n + 1 /\ t[n + 1] = x
      /\ \A k \in 1..n : t[k] = trace[k]
  BY SnapshotAdded
<1>2. t \in Seq({t[k] : k \in 1..Len(t)}) /\ trace \in Seq({trace[k] : k \in 1..Len(trace)})
  BY <1>1 DEF IsTrace
<1>3. trace' = u
  <2>1. PICK S : trace \in Seq(S) /\ x \in S /\ y \in S
    <3> DEFINE S == {trace[k] : k \in 1..Len(trace)} \union {x, y}
    <3>1. trace \in Seq(S)
      <4>1. Len(trace) \in Nat /\ trace = [k \in 1..Len(trace) |-> trace[k]]
        BY <1>2
      <4>2. \A k \in 1..Len(trace) : trace[k] \in S
        OBVIOUS
      <4> HIDE DEF S
      <4> QED BY <4>1, <4>2
    <3>2. x \in S /\ y \in S
      OBVIOUS
    <3> HIDE DEF S
    <3> QED BY <3>1, <3>2
  <2>2. trace \o <<x, y>> = Append(Append(trace, x), y)
    BY <2>1
  <2> QED BY <2>2
<1> HIDE DEF t
<1>4. IsTrace(u) /\ Len(u) = Len(t) + 1 /\ u[Len(t) + 1] = y /\ \A k \in 1..Len(t) : u[k] = t[k]
  BY <1>1, SnapshotAdded
<1> HIDE DEF u
<1>5. Len(t) + 1 = n + 2 /\ \A k \in 1..n : k \in 1..Len(t) /\ n + 1 \in 1..Len(t)
  BY <1>1
<1>6. n + 1 \in 1..Len(t)
  BY <1>1
<1> QED BY <1>1, <1>3, <1>4, <1>5, <1>6

\* The boundary numbers the functions, and the ids it leaves are distinct.
LEMMA BoundaryStep ==
  ASSUME IdsInv, Boundary
  PROVE  IdsInv'
<1> DEFINE numbered == IF stamping THEN [s \in DOMAIN Now |-> assign_boundary_ids(Now[s])] ELSE Now
           x == [label |-> "aarch64-op-ids", funcs |-> numbered]
           y == [label |-> "llvm-to-aarch64-isel", funcs |-> [s \in DOMAIN Now |-> isel(numbered[s])]]
           n == Len(trace)
<1>1. /\ stage = "midend" /\ stage' = "machine" /\ stamping' = stamping
      /\ trace' = trace \o <<x, y>>
  BY DEF Boundary
<1>2. x.label = "aarch64-op-ids" /\ x.funcs = numbered /\ Unique(y)
  BY DEF Unique
<1>3. stamping => Unique(x)
  <2>1. SUFFICES ASSUME stamping, NEW s \in DOMAIN Now
                 PROVE  IdsDistinct(assign_boundary_ids(Now[s]))
    <3> HIDE DEF Now
    <3> QED BY DEF Unique
  <2>2. Stamped(Now[s])
    BY <1>1, <2>1 DEF IdsInv, NowStamped
  <2> HIDE DEF Now
  <2> QED BY <2>2, BoundaryIdsDistinct DEF Stamped
<1> HIDE DEF x, y
<1>4. /\ n \in Nat /\ Len(trace') = n + 2 /\ IsTrace(trace')
      /\ \A k \in 1..n : trace'[k] = trace[k]
      /\ trace'[n + 1] = x /\ trace'[n + 2] = y
  BY <1>1, TwoSnapshotsAdded DEF IdsInv
<1>5. NowStamped'
  BY <1>1 DEF NowStamped
<1>6. BoundaryIdsUnique'
  <2>1. \A k \in 1..Len(trace') : k \in 1..n \/ k = n + 1 \/ k = n + 2
    BY <1>4
  <2>2. (stamping => \A k \in 1..Len(trace') : Unique(trace'[k])) => BoundaryIdsUnique'
    BY <1>1 DEF BoundaryIdsUnique, Unique, IdsDistinct
  <2>3. stamping => \A k \in 1..n : Unique(trace[k])
    BY DEF IdsInv, BoundaryIdsUnique, Unique, IdsDistinct
  <2> HIDE DEF n
  <2> QED BY <2>1, <2>2, <2>3, <1>2, <1>3, <1>4
<1> QED BY <1>4, <1>5, <1>6 DEF IdsInv

\* The passes after selection do not renumber.
LEMMA MachineStep ==
  ASSUME IdsInv, NEW label, label # "aarch64-op-ids", NEW f, MachinePass(label, f)
  PROVE  IdsInv'
<1> DEFINE x == [label |-> label, funcs |-> [Now EXCEPT ![Main] = f]]
<1>1. stage = "machine" /\ stage' = stage /\ stamping' = stamping /\ trace' = Append(trace, x)
  BY DEF MachinePass, Snapshot
<1>2. Unique(x)
  BY DEF Unique
<1> HIDE DEF x
<1>3. /\ IsTrace(trace') /\ Len(trace) \in Nat /\ Len(trace') = Len(trace) + 1
      /\ trace'[Len(trace) + 1] = x
      /\ \A k \in 1..Len(trace) : trace'[k] = trace[k]
  BY <1>1, SnapshotAdded DEF IdsInv
<1>4. NowStamped'
  BY <1>1 DEF NowStamped
<1>5. BoundaryIdsUnique'
  <2>1. \A k \in 1..Len(trace') : k \in 1..Len(trace) \/ k = Len(trace) + 1
    BY <1>3
  <2>2. (stamping => \A k \in 1..Len(trace') : Unique(trace'[k])) => BoundaryIdsUnique'
    BY <1>1 DEF BoundaryIdsUnique, Unique, IdsDistinct
  <2>3. stamping => \A k \in 1..Len(trace) : Unique(trace[k])
    BY DEF IdsInv, BoundaryIdsUnique, Unique, IdsDistinct
  <2> QED BY <2>1, <2>2, <2>3, <1>2, <1>3
<1> QED BY <1>3, <1>4, <1>5 DEF IdsInv

\* The ids given at the head of the mid-end make a source function stamped.
LEMMA SourceStamped ==
  ASSUME NEW s \in DOMAIN Source
  PROVE  Stamped(assign_op_ids(Source[s]))
<1> DEFINE f == Source[s]
           g == assign_op_ids(f)
           B == [label : Labels, ops : Seq(BareOperations)]
<1>1. f \in Seq(B) /\ f # <<>>
  BY SourceAssumption DEF FunctionsOf
<1> HIDE DEF f
<1>2. f \in Code /\ Len(f) >= 1
  <2> DEFINE C == [label : Labels, ops : Seq(Operations)]
  <2>1. Len(f) \in Nat /\ f = [b \in 1..Len(f) |-> f[b]] /\ \A b \in 1..Len(f) : f[b] \in B
    <3> HIDE DEF B
    <3> QED BY <1>1
  <2>2. \A b \in 1..Len(f) : f[b] \in C
    <3> SUFFICES ASSUME NEW b \in 1..Len(f)
                 PROVE  f[b] \in C
      OBVIOUS
    <3> DEFINE u == f[b].ops
    <3>1. f[b] = [label |-> f[b].label, ops |-> u] /\ f[b].label \in Labels /\ u \in Seq(BareOperations)
      BY <2>1
    <3> HIDE DEF u
    <3>2. u \in Seq(Operations)
      <4>1. Len(u) \in Nat /\ u = [i \in 1..Len(u) |-> u[i]] /\ \A i \in 1..Len(u) : u[i] \in BareOperations
        BY <3>1
      <4>2. \A i \in 1..Len(u) : u[i] \in Operations
        BY <4>1 DEF BareOperations
      <4> QED BY <4>1, <4>2
    <3> QED BY <3>1, <3>2
  <2> HIDE DEF C
  <2>3. f \in Seq(C)
    BY <2>1, <2>2
  <2>4. Len(f) # 0
    BY <1>1, <2>1
  <2> QED BY <2>1, <2>3, <2>4 DEF Code, C
<1>3. /\ g \in Code /\ Len(g) = Len(f) /\ Positions(g) = Positions(f)
      /\ \A p \in Positions(f) : OpAt(g, p) = [OpAt(f, p) EXCEPT !.id = CountBefore(Positions(f), p)]
      /\ \A p \in Positions(f) : CountBefore(Positions(f), p) \in Nat
      /\ IdsDistinct(g)
  BY <1>2, OpIdsDistinct
<1> HIDE DEF g
<1>4. KeepersDistinct(g)
  BY <1>3 DEF KeepersDistinct, IdsDistinct
<1>5. CallsStamped(g)
  <2> SUFFICES ASSUME NEW p \in Positions(g)
               PROVE  has_attribution(OpAt(g, p))
    BY DEF CallsStamped
  <2> DEFINE n == CountBefore(Positions(f), p)
  <2>1. OpAt(f, p) \in Operations
    BY <1>2, <1>3, PositionTypes
  <2>2. OpAt(g, p) = [OpAt(f, p) EXCEPT !.id = n] /\ n \in Nat
    BY <1>3
  <2> HIDE DEF n
  <2>3. OpAt(g, p).id = n /\ n # None
    BY <2>1, <2>2 DEF Operations, None
  <2> QED BY <2>3 DEF has_attribution
<1> QED BY <1>2, <1>3, <1>4, <1>5 DEF Stamped, g, f

\* The compilation starts in the invariant.
LEMMA IdsInit ==
  ASSUME Init
  PROVE  IdsInv
<1> DEFINE x == [label |-> "import", funcs |-> Before]
           y == [label |-> "lower", funcs |-> Source]
           h == IF stamping THEN [s \in DOMAIN Source |-> assign_op_ids(Source[s])] ELSE Source
           z == [label |-> "llvm-op-ids", funcs |-> h]
<1>1. trace = <<x, y, z>>
  BY DEF Init
<1>2. Unique(x) /\ Unique(y) /\ Unique(z) /\ z.funcs = h
  BY DEF Unique
<1> HIDE DEF x, y, z
<1>3. Len(trace) = 3 /\ trace[1] = x /\ trace[2] = y /\ trace[3] = z
  BY <1>1
<1>4. IsTrace(trace)
  <2> DEFINE S == {trace[k] : k \in 1..Len(trace)}
  <2>1. x \in S /\ y \in S /\ z \in S
    BY <1>3
  <2> HIDE DEF S
  <2>2. trace \in Seq(S)
    BY <1>1, <2>1
  <2> QED BY <2>2 DEF S, IsTrace
<1>5. NowStamped
  <2>1. Now = h
    BY <1>2, <1>3 DEF Now
  <2>2. SUFFICES ASSUME stamping
                 PROVE  /\ h = [s \in DOMAIN h |-> h[s]] /\ {Main, Callee} \subseteq DOMAIN h
                        /\ \A s \in DOMAIN h : Stamped(h[s])
    BY <2>1 DEF NowStamped
  <2>3. h = [s \in DOMAIN Source |-> assign_op_ids(Source[s])]
    BY <2>2
  <2> QED BY <2>3, SourceAssumption, SourceStamped
<1>6. BoundaryIdsUnique
  <2>1. \A k \in 1..Len(trace) : k = 1 \/ k = 2 \/ k = 3
    BY <1>3
  <2>2. \A k \in 1..Len(trace) : Unique(trace[k])
    BY <2>1, <1>2, <1>3
  <2> QED BY <2>2 DEF BoundaryIdsUnique, Unique, IdsDistinct
<1> QED BY <1>4, <1>5, <1>6 DEF IdsInv

\* assign_boundary_ids leaves no two operations of a function with one id,
\* whatever the passes did: IselBackward may look operations up by id.
THEOREM IdsUniqueAtBoundary == Spec => []BoundaryIdsUnique
<1>1. Init => IdsInv
  BY IdsInit
<1>2. IdsInv /\ [Next]_vars => IdsInv'
  <2> SUFFICES ASSUME IdsInv, [Next]_vars
               PROVE  IdsInv'
    OBVIOUS
  <2>1. CASE Midend
    BY <2>1, InlineStep, MergeStep, ExpandStep, CloneStep, DeleteStep, MoveStep DEF Midend
  <2>2. CASE Boundary
    BY <2>2, BoundaryStep
  <2>3. CASE Machine
    <3>1. PICK label \in MachinePasses : \E f : MachinePass(label, f)
      <4>1. ASSUME Spill PROVE \E label \in MachinePasses : \E f : MachinePass(label, f)
        BY <4>1 DEF Spill, MachinePasses
      <4>2. ASSUME FrameLower PROVE \E label \in MachinePasses : \E f : MachinePass(label, f)
        BY <4>2 DEF FrameLower, MachinePasses
      <4>3. ASSUME Place PROVE \E label \in MachinePasses : \E f : MachinePass(label, f)
        BY <4>3 DEF Place, MachinePasses
      <4> QED BY <2>3, <4>1, <4>2, <4>3 DEF Machine
    <3>2. label # "aarch64-op-ids"
      BY DEF MachinePasses
    <3> QED BY <3>1, <3>2, MachineStep
  <2>4. CASE Measure \/ Walk
    <3>1. stage # "midend" /\ stage' # "midend" /\ trace' = trace /\ stamping' = stamping
      BY <2>4 DEF Measure, Walk, Finish, ParseFails, WalkBack
    <3> QED BY <3>1 DEF IdsInv, NowStamped, BoundaryIdsUnique
  <2>5. CASE UNCHANGED vars
    <3>1. stage' = stage /\ trace' = trace /\ stamping' = stamping
      BY <2>5 DEF vars
    <3>2. Now' = Now
      BY <3>1 DEF Now
    <3> QED BY <3>1, <3>2 DEF IdsInv, NowStamped, BoundaryIdsUnique
  <2> QED BY <2>1, <2>2, <2>3, <2>4, <2>5 DEF Next
<1>3. IdsInv => BoundaryIdsUnique
  BY DEF IdsInv
<1> QED BY <1>1, <1>2, <1>3, PTL DEF Spec

-----------------------------------------------------------------------------
\* Nothing measured is no profile.
LEMMA UnprofiledHasNone ==
  ASSUME NEW f
  PROVE  ~has_profile(Unprofiled(f))
BY DEF has_profile, Unprofiled, NoProfile, IsEmpty

\* In the end the functions that have a stop are those that had a profile.
StopsAccountedFor ==
  stage = "done" => DOMAIN stops = kept[Len(trace)]

\* The walk: what is kept below the index is empty, what has stopped has
\* nothing kept below its stop, and live and stopped functions make up the
\* functions that had a profile.
WalkInv ==
  /\ IsTrace(trace) /\ Len(trace) >= 1
  /\ stage \in {"midend", "machine", "measured", "done"}
  /\ stage \in {"midend", "machine"} => DOMAIN stops = {}
  /\ stage \in {"measured", "done"} =>
       /\ index \in 1..Len(trace)
       /\ kept = [k \in 1..Len(trace) |-> kept[k]]
       /\ \A k \in 1..Len(trace) : k < index => kept[k] = {}
       /\ \A s \in DOMAIN stops :
            /\ stops[s].reached \in index..Len(trace)
            /\ \A k \in 1..Len(trace) : s \in kept[k] => k >= stops[s].reached
  /\ stage = "measured" =>
       /\ live \union DOMAIN stops = kept[Len(trace)]
       /\ live \intersect DOMAIN stops = {}
  /\ StopsAccountedFor

\* Compiling on, nothing has stopped.
LEMMA CompiledOn ==
  ASSUME WalkInv, stage \in {"midend", "machine"}, stage' \in {"midend", "machine"},
         stops' = stops, IsTrace(trace'), Len(trace') >= 1
  PROVE  WalkInv'
BY DEF WalkInv, StopsAccountedFor

\* More stops, as a function.
LEMMA StoppedShape ==
  ASSUME NEW S, NEW stop
  PROVE  /\ DOMAIN Stopped(S, stop) = S \union DOMAIN stops
         /\ \A s \in S \union DOMAIN stops :
              Stopped(S, stop)[s] = IF s \in S THEN stop ELSE stops[s]
BY DEF Stopped

\* One pass back: what stops there was live and gets no profile before, and
\* what stopped earlier is not live and gets none either.
LEMMA WalkBackStep ==
  ASSUME WalkInv, WalkBack
  PROVE  WalkInv'
<1> DEFINE pass == trace[index].label
           before == trace[index - 1].funcs
           after == trace[index].funcs
           made == {s \in live : s \notin DOMAIN before}
           same == {s \in live \ made : text(before[s]) = text(after[s])}
           stuck == IF pass \in Registered THEN {} ELSE (live \ made) \ same
           gone == made \union stuck
           n == Len(trace)
<1>1. /\ stage = "measured" /\ stage' = stage /\ trace' = trace /\ index > 1 /\ index' = index - 1
      /\ prof' = [s \in DOMAIN before |->
                      IF s \in same THEN prof[s]
                      ELSE IF s \in (live \ made) \ stuck
                        THEN Through(pass, before[s], after[s], prof[s])
                      ELSE Unprofiled(before[s])]
      /\ live' = (live \ made) \ stuck
      /\ stops' = Stopped(gone, Stop(index, pass))
      /\ kept' = [kept EXCEPT ![index - 1] = collect(prof')]
  BY DEF WalkBack
<1>2. gone \subseteq live /\ same \subseteq live \ gone /\ live' = live \ gone
  BY <1>1
<1>3. \A s \in DOMAIN before : s \notin live \ gone => prof'[s] = Unprofiled(before[s])
  BY <1>1, <1>2
<1>4. DOMAIN prof' = DOMAIN before
  BY <1>1
<1>5. collect(prof') \subseteq live \ gone
  <2>1. SUFFICES ASSUME NEW s \in DOMAIN prof', has_profile(prof'[s]), s \notin live \ gone
                 PROVE  FALSE
    BY DEF collect
  <2> HIDE DEF before, gone
  <2>2. prof'[s] = Unprofiled(before[s])
    BY <2>1, <1>3, <1>4
  <2>3. ~has_profile(prof'[s])
    BY <2>2, UnprofiledHasNone
  <2> QED BY <2>1, <2>3
<1> DEFINE c == collect(prof')
           stop == Stop(index, pass)
<1>6. stop.reached = index
  BY DEF Stop
<1>7. c \subseteq live \ gone /\ kept' = [kept EXCEPT ![index - 1] = c] /\ stops' = Stopped(gone, stop)
  BY <1>1, <1>5
<1> HIDE DEF c, stop, gone, pass, before, after, made, same, stuck
<1>8. /\ IsTrace(trace) /\ n >= 1 /\ n \in Nat /\ index \in 1..n
      /\ kept = [k \in 1..n |-> kept[k]]
      /\ \A k \in 1..n : k < index => kept[k] = {}
      /\ \A s \in DOMAIN stops :
            /\ stops[s].reached \in index..n
            /\ \A k \in 1..n : s \in kept[k] => k >= stops[s].reached
      /\ live \union DOMAIN stops = kept[n] /\ live \intersect DOMAIN stops = {}
  BY <1>1 DEF WalkInv, IsTrace
<1>9. Len(trace') = n /\ IsTrace(trace')
  BY <1>1, <1>8
<1> HIDE DEF n
<1>10. index - 1 \in 1..n /\ index - 1 # n /\ index \in Int /\ index' \in 1..n
  BY <1>1, <1>8
<1>11. /\ kept' = [k \in 1..n |-> kept'[k]]
       /\ kept'[index - 1] = c /\ \A k \in 1..n : k # index - 1 => kept'[k] = kept[k]
  BY <1>7, <1>8, <1>10
<1>12. kept'[n] = kept[n]
  BY <1>10, <1>11, <1>8
<1>13. \A k \in 1..n : k < index' => kept'[k] = {}
  BY <1>1, <1>8, <1>10, <1>11
<1>14. DOMAIN stops' = gone \union DOMAIN stops
       /\ \A s \in DOMAIN stops' : stops'[s] = IF s \in gone THEN stop ELSE stops[s]
  <2> DEFINE st == Stopped(gone, stop)
  <2>1. DOMAIN st = gone \union DOMAIN stops
        /\ \A s \in gone \union DOMAIN stops : st[s] = IF s \in gone THEN stop ELSE stops[s]
    BY StoppedShape
  <2>2. stops' = st
    BY <1>7
  <2> HIDE DEF st
  <2> QED BY <2>1, <2>2
<1>15. ASSUME NEW s \in DOMAIN stops'
       PROVE  /\ stops'[s].reached \in index..n
              /\ \A k \in 1..n : s \in kept'[k] => k >= stops'[s].reached
  <2>1. s \notin c
    BY <1>2, <1>7, <1>8, <1>14
  <2>2. CASE s \in gone
    <3>1. stops'[s].reached = index
      BY <2>2, <1>6, <1>14
    <3>2. \A k \in 1..n : s \in kept'[k] => k >= index
      <4> SUFFICES ASSUME NEW k \in 1..n, s \in kept'[k], k < index
                   PROVE  FALSE
        BY <1>10
      <4>1. k # index - 1
        BY <2>1, <1>11
      <4>2. kept'[k] = kept[k]
        BY <4>1, <1>11
      <4> QED BY <4>2, <1>8
    <3> QED BY <3>1, <3>2, <1>8
  <2>3. CASE s \notin gone
    <3>1. stops'[s] = stops[s] /\ s \in DOMAIN stops
      BY <2>3, <1>14
    <3>2. \A k \in 1..n : s \in kept'[k] => s \in kept[k]
      BY <2>1, <1>11
    <3> QED BY <3>1, <3>2, <1>8
  <2> QED BY <2>2, <2>3
<1>16. ASSUME NEW s \in DOMAIN stops'
       PROVE  stops'[s].reached \in index'..n
  BY <1>1, <1>10, <1>15
<1>17. live' \union DOMAIN stops' = kept'[n] /\ live' \intersect DOMAIN stops' = {}
  BY <1>2, <1>8, <1>12, <1>14
<1> QED BY <1>1, <1>8, <1>9, <1>10, <1>11, <1>13, <1>15, <1>16, <1>17 DEF WalkInv, StopsAccountedFor

\* Every live function stops where the walk is: at its end, or where a
\* snapshot does not parse.
LEMMA StopAllStep ==
  ASSUME WalkInv, NEW pass, stage = "measured", trace' = trace, index' = index, kept' = kept,
         stops' = Stopped(live, Stop(index, pass)),
         \/ stage' = "measured" /\ live' = {}
         \/ stage' = "done"
  PROVE  WalkInv'
<1> DEFINE n == Len(trace)
           stop == Stop(index, pass)
<1>1. /\ IsTrace(trace) /\ n >= 1 /\ n \in Nat /\ index \in 1..n
      /\ kept = [k \in 1..n |-> kept[k]]
      /\ \A k \in 1..n : k < index => kept[k] = {}
      /\ \A s \in DOMAIN stops :
            /\ stops[s].reached \in index..n
            /\ \A k \in 1..n : s \in kept[k] => k >= stops[s].reached
      /\ live \union DOMAIN stops = kept[n] /\ live \intersect DOMAIN stops = {}
  BY DEF WalkInv, IsTrace
<1>2. stop.reached = index
  BY DEF Stop
<1> HIDE DEF stop
<1>3. DOMAIN stops' = live \union DOMAIN stops
      /\ \A s \in DOMAIN stops' : stops'[s] = IF s \in live THEN stop ELSE stops[s]
  <2> DEFINE st == Stopped(live, stop)
  <2>1. DOMAIN st = live \union DOMAIN stops
        /\ \A s \in live \union DOMAIN stops : st[s] = IF s \in live THEN stop ELSE stops[s]
    BY StoppedShape
  <2>2. stops' = st
    BY DEF stop
  <2> HIDE DEF st
  <2> QED BY <2>1, <2>2
<1>4. ASSUME NEW s \in DOMAIN stops'
      PROVE  /\ stops'[s].reached \in index..n
             /\ \A k \in 1..n : s \in kept[k] => k >= stops'[s].reached
  <2>1. CASE s \in live
    <3>1. stops'[s].reached = index
      BY <2>1, <1>2, <1>3
    <3>2. \A k \in 1..n : s \in kept[k] => k >= index
      BY <1>1
    <3> QED BY <3>1, <3>2, <1>1
  <2>2. CASE s \notin live
    BY <2>2, <1>1, <1>3
  <2> QED BY <2>1, <2>2
<1>5. DOMAIN stops' = kept[n]
  BY <1>1, <1>3
<1>6. stage' = "measured" => live' \union DOMAIN stops' = kept[n] /\ live' \intersect DOMAIN stops' = {}
  BY <1>5
<1>7. Len(trace') = n
  OBVIOUS
<1> HIDE DEF n
<1> QED BY <1>1, <1>4, <1>5, <1>6, <1>7 DEF WalkInv, StopsAccountedFor

\* Measuring starts the account: live is what has a profile.
LEMMA MeasureStep ==
  ASSUME WalkInv, Measure
  PROVE  WalkInv'
<1> DEFINE n == Len(trace)
<1>1. /\ stage = "machine" /\ stage' = "measured" /\ trace' = trace /\ index' = n /\ stops' = stops
      /\ kept' = [k \in 1..n |-> IF k = n THEN live' ELSE {}]
  BY DEF Measure
<1>2. IsTrace(trace) /\ n >= 1 /\ n \in Nat /\ DOMAIN stops = {}
  BY <1>1 DEF WalkInv, IsTrace
<1>3. Len(trace') = n
  BY <1>1
<1> HIDE DEF n
<1>4. /\ kept' = [k \in 1..n |-> kept'[k]] /\ kept'[n] = live'
      /\ \A k \in 1..n : k < n => kept'[k] = {}
  BY <1>1, <1>2
<1> QED BY <1>1, <1>2, <1>3, <1>4 DEF WalkInv, StopsAccountedFor

\* The walk keeps account of every function with a profile (the loop of walk).
THEOREM WalkKeepsAccount == Spec => []WalkInv
<1>1. Init => WalkInv
  <2> SUFFICES ASSUME Init
               PROVE  WalkInv
    OBVIOUS
  <2>1. stage = "midend" /\ DOMAIN stops = {} /\ Len(trace) >= 1
    BY DEF Init
  <2>2. IsTrace(trace)
    BY IdsInit DEF IdsInv
  <2> QED BY <2>1, <2>2 DEF WalkInv, StopsAccountedFor
<1>2. WalkInv /\ [Next]_vars => WalkInv'
  <2> SUFFICES ASSUME WalkInv, [Next]_vars
               PROVE  WalkInv'
    OBVIOUS
  <2>1. CASE Midend \/ Machine
    <3>1. PICK label, f : Rewrite(label, f) \/ MachinePass(label, f)
      <4>1. ASSUME Midend PROVE \E label, f : Rewrite(label, f)
        BY <4>1 DEF Midend, Inline, Merge, Expand, Clone, Delete, Move
      <4>2. ASSUME Machine PROVE \E label, f : MachinePass(label, f)
        BY <4>2 DEF Machine, Spill, FrameLower, Place
      <4> QED BY <2>1, <4>1, <4>2
    <3> DEFINE x == [label |-> label, funcs |-> [Now EXCEPT ![Main] = f]]
    <3>2. /\ stage \in {"midend", "machine"} /\ stage' = stage /\ stops' = stops
          /\ trace' = Append(trace, x)
      BY <3>1 DEF Rewrite, MachinePass, Snapshot, compiling
    <3> HIDE DEF x
    <3>3. IsTrace(trace') /\ Len(trace') >= 1
      BY <3>2, SnapshotAdded DEF WalkInv
    <3> QED BY <3>2, <3>3, CompiledOn
  <2>2. CASE Boundary
    <3>1. stage = "midend" /\ stage' = "machine" /\ stops' = stops
      BY <2>2 DEF Boundary, compiling
    <3>2. PICK x, y : trace' = trace \o <<x, y>>
      BY <2>2 DEF Boundary
    <3>3. IsTrace(trace') /\ Len(trace') = Len(trace) + 2 /\ Len(trace) \in Nat
      BY <3>2, TwoSnapshotsAdded DEF WalkInv
    <3>4. IsTrace(trace') /\ Len(trace') >= 1
      BY <3>3
    <3> QED BY <3>1, <3>4, CompiledOn
  <2>3. CASE Measure
    BY <2>3, MeasureStep
  <2>4. CASE WalkBack
    BY <2>4, WalkBackStep
  <2>5. CASE ParseFails
    BY <2>5, StopAllStep DEF ParseFails
  <2>6. CASE Finish
    BY <2>6, StopAllStep DEF Finish
  <2>7. CASE UNCHANGED vars
    BY <2>7 DEF vars, WalkInv, StopsAccountedFor
  <2> QED BY <2>1, <2>2, <2>3, <2>4, <2>5, <2>6, <2>7 DEF Next, Walk
<1> QED BY <1>1, <1>2, PTL DEF Spec

\* Stop::reached is no later than the first snapshot that keeps a profile of
\* the function: nothing is kept before it (walk, collect).
THEOREM NothingKeptBeforeStop == Spec => []NoProfileBeforeStop
<1>1. WalkInv => NoProfileBeforeStop
  BY DEF WalkInv, NoProfileBeforeStop
<1> QED BY <1>1, WalkKeepsAccount, PTL

\* When the walk is done, exactly the functions that had a profile on the last
\* snapshot have a stop.
THEOREM EveryMeasuredFunctionStops == Spec => []StopsAccountedFor
<1>1. WalkInv => StopsAccountedFor
  BY DEF WalkInv
<1> QED BY <1>1, WalkKeepsAccount, PTL
=============================================================================
