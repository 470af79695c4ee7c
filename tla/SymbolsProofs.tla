--------------------------- MODULE SymbolsProofs ----------------------------
(***************************************************************************)
(* Proofs about Symbols, for every crate, every inlining budget and every  *)
(* order of imports: the inliner's reference counts are never too low, a   *)
(* copy of another crate's function is never a strong definition, and the  *)
(* object leaves nothing undefined that only it could define.              *)
(***************************************************************************)
EXTENDS Symbols, FiniteSetTheorems, FunctionTheorems, TLAPS

Linkages == {"internal", "weak", "external"}
Frames == [sym : Importable \cup Allocs, next : Nat \ {0},
           after : {"nothing", "internal"}]
OnStack == {stack[i].sym : i \in DOMAIN stack}

\* What the importer and the inliner keep of their data's shape.
Shape ==
    /\ prog \in Programs
    /\ todo \in Seq(Importable)
    /\ stack \in Seq(Frames)
    /\ present \in Seq(Defined)
    /\ erased \subseteq Elements(present)
    /\ body \in [Alive -> Seq(Ref)]
    /\ DOMAIN slots \subseteq Allocs
    /\ slots \in [DOMAIN slots -> Seq(SymbolNames)]
    /\ linkage \in [DOMAIN linkage -> Linkages]
    /\ reentered \subseteq Importable
    /\ phase \in {"import", "inline", "sweep", "done"}
    /\ phase = "import" => erased = {}
    /\ phase # "import" => /\ stack = << >> /\ todo = << >>
                           /\ DOMAIN linkage = Elements(present)

\* What is being imported is in the module already.
Entered ==
    /\ OnStack \subseteq Elements(present) \cup DOMAIN slots
    /\ \A i \in DOMAIN stack :
          stack[i].after = "internal" => stack[i].sym \in Importable

\* A copy of another crate's function has a linkage, or will get one when
\* its import ends.
CopyIsMarked(f) ==
    \/ f \in DOMAIN linkage /\ linkage[f] \in {"internal", "weak"}
    \/ \E i \in DOMAIN stack :
          stack[i].sym = f /\ stack[i].after = "internal"

Copies ==
    /\ Elements(todo) \subseteq Elements(Locals)
    /\ \A f \in (Elements(present) \cap Importable) \ Elements(Locals) :
          CopyIsMarked(f)

\* Every reference of a body has its target in the module or outside it.
References ==
    /\ \A f \in Alive : \A i \in DOMAIN body[f] :
          body[f][i].to \in Outside \cup Alive \cup DOMAIN slots
    /\ Elements(Locals) \subseteq Elements(todo) \cup Elements(present)

\* A function some constant names is visible to the linker and stays so,
\* unless the constant named it while it was being imported.
Visible(t) ==
    /\ t \in Alive \cap DOMAIN linkage
    /\ linkage[t] \in {"weak", "external"}

SlotsExposed ==
    \A t \in SlotTargets :
        /\ t \in DOMAIN slots \/ t \in reentered \/ Visible(t)
        /\ t \in Elements(present) \cup DOMAIN slots
        /\ t \in OnStack \cap Importable => t \in reentered

\* The counts are numbers, and bound the references they count.
CountsTyped ==
    phase = "inline" =>
        calls \in [SymbolNames -> Nat] /\ taken \in [SymbolNames -> Nat]

IInv ==
    /\ Shape /\ Entered /\ Copies /\ References /\ SlotsExposed
    /\ CountsTyped /\ CountsSafe /\ RelocationsResolve
-----------------------------------------------------------------------------
(* Sequences.                                                              *)

LEMMA ElementsOfAppend ==
    ASSUME NEW S, NEW s \in Seq(S), NEW x \in S
    PROVE  Elements(Append(s, x)) = Elements(s) \cup {x}
<1>1. /\ DOMAIN Append(s, x) = 1..(Len(s) + 1) /\ DOMAIN s = 1..Len(s)
      /\ Len(s) \in Nat
      /\ \A i \in 1..Len(s) : Append(s, x)[i] = s[i]
      /\ Append(s, x)[Len(s) + 1] = x
  OBVIOUS
<1>2. 1..(Len(s) + 1) = 1..Len(s) \cup {Len(s) + 1}
  BY <1>1
<1> QED
  BY <1>1, <1>2, Zenon DEF Elements

LEMMA ElementsOfTail ==
    ASSUME NEW S, NEW s \in Seq(S), s # << >>
    PROVE  /\ Tail(s) \in Seq(S) /\ Head(s) \in S
           /\ Elements(s) = Elements(Tail(s)) \cup {Head(s)}
<1>1. Tail(s) \in Seq(S) /\ Head(s) \in S
  OBVIOUS
<1>2. Elements(Tail(s)) \subseteq Elements(s) /\ Head(s) \in Elements(s)
  BY DEF Elements
<1>3. ASSUME NEW i \in DOMAIN s, i # 1
      PROVE  s[i] \in Elements(Tail(s))
  <2>1. i - 1 \in DOMAIN Tail(s) /\ Tail(s)[i - 1] = s[i]
    BY <1>3
  <2> QED
    BY <2>1 DEF Elements
<1>4. Elements(s) \subseteq Elements(Tail(s)) \cup {Head(s)}
  BY <1>3 DEF Elements
<1> QED
  BY <1>1, <1>2, <1>4

LEMMA ElementsFinite ==
    ASSUME NEW S, NEW s \in Seq(S)
    PROVE  IsFiniteSet(Elements(s))
<1>1. s \in Surjection(1..Len(s), Elements(s))
  BY DEF Surjection, Elements
<1>2. IsFiniteSet(1..Len(s))
  BY FS_Interval
<1> QED
  BY <1>1, <1>2, FS_Surjection

-----------------------------------------------------------------------------
(* Counting references.                                                    *)

RefSet(bodies, kind, s) ==
    {p \in UNION {{<<f, i>> : i \in DOMAIN bodies[f]} : f \in DOMAIN bodies} :
        IsRef(bodies[p[1]][p[2]], kind, s)}

RefsIn(refs, kind, s) == {i \in DOMAIN refs : IsRef(refs[i], kind, s)}

LEMMA RefSetMembers ==
    ASSUME NEW bodies, NEW kind, NEW s
    PROVE  /\ \A f \in DOMAIN bodies : \A i \in DOMAIN bodies[f] :
                 IsRef(bodies[f][i], kind, s) <=> <<f, i>> \in RefSet(bodies, kind, s)
           /\ \A p \in RefSet(bodies, kind, s) :
                 /\ p = <<p[1], p[2]>>
                 /\ p[1] \in DOMAIN bodies /\ p[2] \in DOMAIN bodies[p[1]]
                 /\ IsRef(bodies[p[1]][p[2]], kind, s)
<1>1. ASSUME NEW f \in DOMAIN bodies, NEW i \in DOMAIN bodies[f]
      PROVE  IsRef(bodies[f][i], kind, s) <=> <<f, i>> \in RefSet(bodies, kind, s)
  BY <1>1 DEF RefSet
<1>2. ASSUME NEW p \in RefSet(bodies, kind, s)
      PROVE  /\ p = <<p[1], p[2]>>
             /\ p[1] \in DOMAIN bodies /\ p[2] \in DOMAIN bodies[p[1]]
             /\ IsRef(bodies[p[1]][p[2]], kind, s)
  BY <1>2 DEF RefSet
<1> QED
  BY <1>1, <1>2

LEMMA RefSetFinite ==
    ASSUME NEW D, IsFiniteSet(D), NEW bodies \in [D -> Seq(Ref)], NEW kind, NEW s
    PROVE  /\ IsFiniteSet(RefSet(bodies, kind, s))
           /\ ModuleCount(bodies, kind, s) = Cardinality(RefSet(bodies, kind, s))
           /\ ModuleCount(bodies, kind, s) \in Nat
<1> DEFINE pairs(f) == {<<f, i>> : i \in DOMAIN bodies[f]}
           all == {pairs(f) : f \in D}
           part == [f \in D |-> pairs(f)]
<1>1. part \in Surjection(D, all)
  <2> HIDE DEF pairs
  <2>1. part \in [D -> all]
    BY Zenon
  <2>2. \A t \in all : \E f \in D : part[f] = t
    BY Zenon
  <2> HIDE DEF part, all
  <2> QED
    BY <2>1, <2>2, Zenon DEF Surjection
<1>2. IsFiniteSet(all)
  BY <1>1, FS_Surjection
<1>3. ASSUME NEW f \in D PROVE IsFiniteSet(pairs(f))
  <2> DEFINE pair == [i \in 1..Len(bodies[f]) |-> <<f, i>>]
  <2>1. DOMAIN bodies[f] = 1..Len(bodies[f]) /\ Len(bodies[f]) \in Nat
    BY <1>3
  <2>2. pair \in Surjection(1..Len(bodies[f]), pairs(f))
    BY <2>1 DEF Surjection
  <2>3. IsFiniteSet(1..Len(bodies[f]))
    BY <2>1, FS_Interval
  <2> QED
    BY <2>2, <2>3, FS_Surjection
<1>4. \A T \in all : IsFiniteSet(T)
  BY <1>3
<1>5. IsFiniteSet(UNION all)
  <2> HIDE DEF all
  <2> QED BY <1>2, <1>4, FS_UNION
<1>6. RefSet(bodies, kind, s) \in SUBSET UNION all
  BY DEF RefSet
<1>7. IsFiniteSet(RefSet(bodies, kind, s))
  <2> HIDE DEF all
  <2> QED BY <1>5, <1>6, FS_Subset
<1>8. ModuleCount(bodies, kind, s) = Cardinality(RefSet(bodies, kind, s))
  BY DEF ModuleCount, RefSet
<1> QED
  BY <1>7, <1>8, FS_CardinalityType

LEMMA RefsInFinite ==
    ASSUME NEW refs \in Seq(Ref), NEW kind, NEW s
    PROVE  /\ IsFiniteSet(RefsIn(refs, kind, s))
           /\ CountIn(refs, kind, s) = Cardinality(RefsIn(refs, kind, s))
           /\ CountIn(refs, kind, s) \in Nat
<1>1. RefsIn(refs, kind, s) \in SUBSET (1..Len(refs)) /\ Len(refs) \in Nat
  BY DEF RefsIn
<1>2. IsFiniteSet(1..Len(refs))
  BY <1>1, FS_Interval
<1>3. IsFiniteSet(RefsIn(refs, kind, s))
  BY <1>1, <1>2, FS_Subset
<1>4. CountIn(refs, kind, s) = Cardinality(RefsIn(refs, kind, s))
  BY DEF CountIn, RefsIn
<1> QED
  BY <1>3, <1>4, FS_CardinalityType

\* The references of a body when those of another one replace its i-th.
Splice(refs, i, new) ==
    SubSeq(refs, 1, i - 1) \o new \o SubSeq(refs, i + 1, Len(refs))

Cat(a, b, c) == (a \o b) \o c

\* all is a, then b, then c.
Parts(all, a, b, c) ==
    /\ Len(all) = Len(a) + Len(b) + Len(c)
    /\ \A j \in 1..Len(a) : all[j] = a[j]
    /\ \A j \in 1..Len(b) : all[Len(a) + j] = b[j]
    /\ \A j \in 1..Len(c) : all[Len(a) + Len(b) + j] = c[j]

LEMMA ThreeParts ==
    ASSUME NEW S, NEW a \in Seq(S), NEW b \in Seq(S), NEW c \in Seq(S)
    PROVE  Cat(a, b, c) \in Seq(S) /\ Parts(Cat(a, b, c), a, b, c)
<1>1. /\ a \o b \in Seq(S) /\ Len(a \o b) = Len(a) + Len(b)
      /\ Len(a) \in Nat /\ Len(b) \in Nat /\ Len(c) \in Nat
  OBVIOUS
<1>2. Cat(a, b, c) \in Seq(S) /\ Len(Cat(a, b, c)) = Len(a) + Len(b) + Len(c)
  BY <1>1 DEF Cat
<1>3. ASSUME NEW j \in 1..Len(a) PROVE Cat(a, b, c)[j] = a[j]
  BY <1>1, <1>3 DEF Cat
<1>4. ASSUME NEW j \in 1..Len(b) PROVE Cat(a, b, c)[Len(a) + j] = b[j]
  BY <1>1, <1>4 DEF Cat
<1>5. ASSUME NEW j \in 1..Len(c) PROVE Cat(a, b, c)[Len(a) + Len(b) + j] = c[j]
  BY <1>1, <1>5 DEF Cat
<1> QED
  BY <1>2, <1>3, <1>4, <1>5 DEF Parts

\* all is refs with new for its i-th element.
Spliced(all, refs, i, new) ==
    /\ Len(all) = Len(refs) + Len(new) - 1
    /\ \A j \in 1..(i - 1) : all[j] = refs[j]
    /\ \A j \in 1..Len(new) : all[i - 1 + j] = new[j]
    /\ \A j \in 1..(Len(refs) - i) : all[i - 1 + Len(new) + j] = refs[i + j]

LEMMA SpliceFacts ==
    ASSUME NEW S, NEW refs \in Seq(S), NEW i \in 1..Len(refs), NEW new \in Seq(S)
    PROVE  Splice(refs, i, new) \in Seq(S) /\ Spliced(Splice(refs, i, new), refs, i, new)
<1> DEFINE left == SubSeq(refs, 1, i - 1)
           right == SubSeq(refs, i + 1, Len(refs))
           all == Splice(refs, i, new)
<1>1. /\ i \in Nat /\ i >= 1 /\ i <= Len(refs)
      /\ Len(refs) \in Nat /\ Len(new) \in Nat
  OBVIOUS
<1>2. left \in Seq(S) /\ Len(left) = i - 1
  OBVIOUS
<1>3. \A j \in 1..(i - 1) : left[j] = refs[j]
  OBVIOUS
<1>4. right \in Seq(S) /\ Len(right) = Len(refs) - i
  OBVIOUS
<1>5. \A j \in 1..(Len(refs) - i) : right[j] = refs[i + j]
  OBVIOUS
<1>6. all = Cat(left, new, right)
  BY DEF Splice, Cat
<1> HIDE DEF left, right, all
<1>7. /\ all \in Seq(S)
      /\ Len(all) = Len(left) + Len(new) + Len(right)
      /\ \A j \in 1..Len(left) : all[j] = left[j]
      /\ \A j \in 1..Len(new) : all[Len(left) + j] = new[j]
      /\ \A j \in 1..Len(right) : all[Len(left) + Len(new) + j] = right[j]
  <2>1. left \in Seq(S) /\ right \in Seq(S)
    BY <1>2, <1>4
  <2>2. Cat(left, new, right) \in Seq(S) /\ Parts(Cat(left, new, right), left, new, right)
    BY <2>1, ThreeParts
  <2> QED
    BY <1>6, <2>2 DEF Parts
<1>8. Len(all) = Len(refs) + Len(new) - 1
  <2>1. Len(all) = (i - 1) + Len(new) + (Len(refs) - i)
    BY <1>2, <1>4, <1>7, Zenon
  <2> QED
    BY <1>1, <2>1
<1>9. /\ \A j \in 1..(i - 1) : all[j] = left[j]
      /\ \A j \in 1..Len(new) : all[i - 1 + j] = new[j]
      /\ \A j \in 1..(Len(refs) - i) : all[i - 1 + Len(new) + j] = right[j]
  BY <1>2, <1>4, <1>7
<1>10. /\ \A j \in 1..(i - 1) : all[j] = refs[j]
       /\ \A j \in 1..(Len(refs) - i) : all[i - 1 + Len(new) + j] = refs[i + j]
  BY <1>3, <1>5, <1>9
<1> QED
  BY <1>7, <1>8, <1>9, <1>10, Zenon DEF all, Spliced

LEMMA ShiftBack ==
    ASSUME NEW i \in Nat, NEW n \in Nat, NEW q \in Int, q > i - 1 + n
    PROVE  /\ i - 1 + n + (q - (i - 1 + n)) = q
           /\ i + (q - (i - 1 + n)) = q - n + 1
           /\ i + (q - (i - 1 + n)) # i
  OBVIOUS

\* The i-th reference of caller is a call of another function of the module.
CallAt(D, bodies, caller, i, callee) ==
    /\ IsFiniteSet(D) /\ bodies \in [D -> Seq(Ref)]
    /\ caller \in D /\ callee \in D /\ caller # callee
    /\ i \in 1..Len(bodies[caller])
    /\ IsRef(bodies[caller][i], "call", callee)

WithSplice(bodies, caller, i, callee) ==
    [bodies EXCEPT ![caller] = Splice(bodies[caller], i, bodies[callee])]

Without(bodies, callee) == [f \in DOMAIN bodies \ {callee} |-> bodies[f]]

LEMMA SpliceCount ==
    ASSUME NEW D, NEW bodies, NEW caller, NEW i, NEW callee,
           CallAt(D, bodies, caller, i, callee), NEW kind, NEW s
    PROVE  /\ WithSplice(bodies, caller, i, callee) \in [D -> Seq(Ref)]
           /\ WithSplice(bodies, caller, i, callee)[callee] = bodies[callee]
           /\ kind = "call" /\ s = callee => ModuleCount(bodies, kind, s) >= 1
           /\ ModuleCount(WithSplice(bodies, caller, i, callee), kind, s) <=
                 ModuleCount(bodies, kind, s)
                     - (IF kind = "call" /\ s = callee THEN 1 ELSE 0)
                     + CountIn(bodies[callee], kind, s)
<1>0. PICK spliced : spliced = WithSplice(bodies, caller, i, callee)
  OBVIOUS
<1> USE DEF CallAt
<1> DEFINE old == RefSet(bodies, kind, s)
           new == RefSet(spliced, kind, s)
           n == Len(bodies[callee])
           cloned == {p \in new : p[1] = caller /\ p[2] >= i /\ p[2] <= i - 1 + n}
           rest == new \ cloned
           B == RefsIn(bodies[callee], kind, s)
           A == old \ {<<caller, i>>}
<1>1. /\ bodies[caller] \in Seq(Ref) /\ bodies[callee] \in Seq(Ref)
      /\ n \in Nat /\ Len(bodies[caller]) \in Nat /\ i \in Nat
      /\ 1 <= i /\ i <= Len(bodies[caller])
  OBVIOUS
<1>2. PICK line : line = Splice(bodies[caller], i, bodies[callee])
  OBVIOUS
<1>3. /\ line \in Seq(Ref)
      /\ Len(line) = Len(bodies[caller]) + n - 1
      /\ \A j \in 1..(i - 1) : line[j] = bodies[caller][j]
      /\ \A j \in 1..n : line[i - 1 + j] = bodies[callee][j]
      /\ \A j \in 1..(Len(bodies[caller]) - i) :
            line[i - 1 + n + j] = bodies[caller][i + j]
  <2> DEFINE here == bodies[caller]
             there == bodies[callee]
  <2>1. /\ here \in Seq(Ref) /\ there \in Seq(Ref) /\ i \in 1..Len(here)
        /\ line = Splice(here, i, there)
    BY <1>1, <1>2
  <2> HIDE DEF here, there
  <2>2. Splice(here, i, there) \in Seq(Ref) /\ Spliced(Splice(here, i, there), here, i, there)
    BY <2>1, SpliceFacts
  <2>3. line \in Seq(Ref) /\ Spliced(line, here, i, there)
    BY <2>1, <2>2
  <2> QED
    BY <2>3 DEF here, there, Spliced
<1>4. /\ spliced \in [D -> Seq(Ref)] /\ spliced[caller] = line
      /\ \A f \in D : f # caller => spliced[f] = bodies[f]
  BY <1>0, <1>2, <1>3 DEF WithSplice
<1>5. /\ IsFiniteSet(old) /\ IsFiniteSet(new)
      /\ ModuleCount(bodies, kind, s) = Cardinality(old)
      /\ ModuleCount(spliced, kind, s) = Cardinality(new)
  BY <1>4, RefSetFinite
<1>6. /\ IsFiniteSet(B) /\ CountIn(bodies[callee], kind, s) = Cardinality(B)
      /\ Cardinality(B) \in Nat
  BY <1>1, RefsInFinite
<1>7. /\ IsFiniteSet(cloned) /\ IsFiniteSet(rest)
      /\ Cardinality(new) = Cardinality(cloned) + Cardinality(rest)
  <2>1. cloned \in SUBSET new /\ new \cap cloned = cloned
    OBVIOUS
  <2> HIDE DEF cloned, new
  <2>2. IsFiniteSet(cloned)
    BY <1>5, <2>1, FS_Subset
  <2>3. /\ IsFiniteSet(new \ cloned)
        /\ Cardinality(new \ cloned) = Cardinality(new) - Cardinality(new \cap cloned)
    BY <1>5, FS_Difference
  <2>4. Cardinality(new) \in Nat /\ Cardinality(cloned) \in Nat /\ Cardinality(rest) \in Nat
    BY <1>5, <2>2, <2>3, FS_CardinalityType
  <2>5. Cardinality(rest) = Cardinality(new) - Cardinality(cloned)
    BY <2>1, <2>3, Zenon
  <2>6. IsFiniteSet(rest)
    BY <2>3
  <2> HIDE DEF rest
  <2> QED
    BY <2>2, <2>4, <2>5, <2>6
<1>8. \A p \in new : /\ p = <<p[1], p[2]>> /\ p[1] \in D
                     /\ p[2] \in 1..Len(spliced[p[1]])
                     /\ IsRef(spliced[p[1]][p[2]], kind, s)
  <2>1. \A f \in D : DOMAIN spliced[f] = 1..Len(spliced[f])
    BY <1>4
  <2>2. DOMAIN spliced = D
    BY <1>4
  <2> QED
    BY <2>1, <2>2, RefSetMembers
<1>9. Cardinality(cloned) <= Cardinality(B)
  <2> DEFINE back == [p \in cloned |-> p[2] - i + 1]
  <2>1. ASSUME NEW p \in cloned
        PROVE  p[2] - i + 1 \in B /\ p = <<caller, p[2]>> /\ p[2] \in Int
    <3>1. /\ p \in new /\ p[1] = caller /\ p[2] >= i /\ p[2] <= i - 1 + n
      BY <2>1
    <3>2. p = <<caller, p[2]>> /\ p[2] \in 1..Len(line) /\ IsRef(line[p[2]], kind, s)
      BY <1>4, <1>8, <3>1
    <3>3. p[2] - i + 1 \in 1..n /\ i - 1 + (p[2] - i + 1) = p[2] /\ p[2] \in Int
      BY <1>1, <3>1, <3>2
    <3>4. line[p[2]] = bodies[callee][p[2] - i + 1]
      BY <1>3, <3>3
    <3> QED
      BY <1>1, <3>2, <3>3, <3>4 DEF RefsIn
  <2>2. back \in Injection(cloned, B)
    <3>1. back \in [cloned -> B]
      BY <2>1
    <3>2. ASSUME NEW p \in cloned, NEW q \in cloned, back[p] = back[q] PROVE p = q
      <4>1. p[2] - i + 1 = q[2] - i + 1 /\ p[2] \in Int /\ q[2] \in Int
        BY <2>1, <3>2
      <4>2. p[2] = q[2]
        BY <1>1, <4>1
      <4> QED
        BY <2>1, <4>2
    <3> HIDE DEF back, cloned, B
    <3> QED
      BY <3>1, <3>2, Fun_IsInj
  <2> QED
    BY <1>6, <2>2, FS_Injection
<1>10. Cardinality(rest) <= Cardinality(A) /\ IsFiniteSet(A)
  <2> DEFINE home(p) == IF p[1] = caller /\ p[2] > i - 1 + n
                        THEN <<caller, p[2] - n + 1>> ELSE p
             back == [p \in rest |-> home(p)]
  <2>1. ASSUME NEW p \in rest
        PROVE  /\ home(p) \in A /\ p = <<p[1], p[2]>> /\ p[2] \in Int
               /\ p[1] = caller => p[2] < i \/ p[2] > i - 1 + n
    <3>1. /\ p = <<p[1], p[2]>> /\ p[1] \in D /\ p[2] \in 1..Len(spliced[p[1]])
          /\ IsRef(spliced[p[1]][p[2]], kind, s) /\ p \notin cloned /\ p \in new
      BY <1>8
    <3>2. p[2] \in Int
      BY <1>4, <3>1
    <3>3. CASE p[1] # caller
      <4>1. spliced[p[1]] = bodies[p[1]] /\ bodies[p[1]] \in Seq(Ref)
        BY <1>4, <3>1, <3>3
      <4>2. p[2] \in DOMAIN bodies[p[1]] /\ IsRef(bodies[p[1]][p[2]], kind, s)
        BY <3>1, <4>1
      <4>3. p \in old /\ p # <<caller, i>>
        BY <3>1, <3>3, <4>2, RefSetMembers
      <4> QED
        BY <3>1, <3>2, <3>3, <4>3
    <3>4. CASE p[1] = caller /\ p[2] < i
      <4>1. p[2] \in 1..(i - 1) /\ p[2] \in DOMAIN bodies[caller]
        BY <1>1, <1>4, <3>1, <3>4
      <4>2. IsRef(bodies[caller][p[2]], kind, s)
        BY <1>3, <1>4, <3>1, <3>4, <4>1
      <4>3. p \in old /\ p # <<caller, i>>
        BY <1>1, <3>1, <3>4, <4>1, <4>2, RefSetMembers
      <4>4. ~(p[2] > i - 1 + n)
        BY <1>1, <3>2, <3>4
      <4> QED
        BY <3>1, <3>2, <3>4, <4>3, <4>4
    <3>5. CASE p[1] = caller /\ p[2] > i - 1 + n
      <4> DEFINE j == p[2] - (i - 1 + n)
      <4>1. /\ j \in 1..(Len(bodies[caller]) - i) /\ i - 1 + n + j = p[2]
            /\ i + j = p[2] - n + 1 /\ i + j \in DOMAIN bodies[caller] /\ i + j # i
        <5>1. /\ p[2] <= Len(line) /\ Len(line) = Len(bodies[caller]) + n - 1
          BY <1>3, <1>4, <3>1, <3>5
        <5>2. DOMAIN bodies[caller] = 1..Len(bodies[caller])
          BY <1>1
        <5>3. i - 1 + n + j = p[2] /\ i + j = p[2] - n + 1 /\ i + j # i
          <6>1. i \in Nat /\ n \in Nat /\ p[2] \in Int /\ p[2] > i - 1 + n
            BY <1>1, <3>2, <3>5
          <6> HIDE DEF n, CallAt
          <6>2. PICK q : q = p[2]
            OBVIOUS
          <6>3. /\ i - 1 + n + (q - (i - 1 + n)) = q
                /\ i + (q - (i - 1 + n)) = q - n + 1
                /\ i + (q - (i - 1 + n)) # i
            BY <6>1, <6>2, ShiftBack
          <6> QED
            BY <6>2, <6>3
        <5>4. j >= 1 /\ j <= Len(bodies[caller]) - i /\ j \in Int
          BY <1>1, <3>2, <3>5, <5>1
        <5> HIDE DEF j
        <5>5. j \in 1..(Len(bodies[caller]) - i) /\ i + j \in 1..Len(bodies[caller])
          BY <1>1, <5>4
        <5> QED
          BY <5>2, <5>3, <5>5
      <4>2. IsRef(bodies[caller][i + j], kind, s)
        BY <1>3, <1>4, <3>1, <3>5, <4>1
      <4>3. <<caller, i + j>> \in old
        BY <4>1, <4>2, RefSetMembers
      <4> QED
        BY <3>1, <3>2, <3>5, <4>1, <4>3
    <3>6. p[1] = caller => p[2] < i \/ p[2] > i - 1 + n
      BY <1>1, <3>1, <3>2
    <3> QED
      BY <3>3, <3>4, <3>5, <3>6
  <2>2. back \in Injection(rest, A)
    <3>1. back \in [rest -> A]
      BY <2>1
    <3>2. ASSUME NEW p \in rest, NEW q \in rest, home(p) = home(q) PROVE p = q
      <4>1. /\ p = <<p[1], p[2]>> /\ p[2] \in Int /\ q = <<q[1], q[2]>> /\ q[2] \in Int
            /\ p[1] = caller => p[2] < i \/ p[2] > i - 1 + n
            /\ q[1] = caller => q[2] < i \/ q[2] > i - 1 + n
        BY <2>1
      <4>2. home(p)[1] = p[1] /\ home(q)[1] = q[1]
        OBVIOUS
      <4>3. p[1] = q[1]
        BY <3>2, <4>2
      <4>4. p[2] = q[2]
        BY <1>1, <3>2, <4>1, <4>3
      <4> QED
        BY <4>1, <4>3, <4>4
    <3>3. \A p \in rest : back[p] = home(p)
      OBVIOUS
    <3> HIDE DEF back, home, rest, A
    <3> QED
      BY <3>1, <3>2, <3>3, Fun_IsInj
  <2>3. IsFiniteSet(A)
    BY <1>5, FS_RemoveElement
  <2> QED
    BY <2>2, <2>3, FS_Injection
<1>11. /\ kind = "call" /\ s = callee => <<caller, i>> \in old
  BY <1>1, RefSetMembers
<1>12. /\ Cardinality(old) \in Nat
       /\ Cardinality(A) = IF <<caller, i>> \in old THEN Cardinality(old) - 1
                           ELSE Cardinality(old)
       /\ Cardinality(cloned) \in Nat /\ Cardinality(rest) \in Nat
       /\ Cardinality(A) \in Nat
  BY <1>5, <1>7, <1>10, FS_RemoveElement, FS_CardinalityType
<1>13. spliced[callee] = bodies[callee]
  BY <1>4
<1> HIDE DEF old, new, cloned, rest, A, B
<1>14. kind = "call" /\ s = callee => ModuleCount(bodies, kind, s) >= 1
  BY <1>5, <1>10, <1>11, <1>12
<1>15. ModuleCount(spliced, kind, s) <=
          ModuleCount(bodies, kind, s) - (IF kind = "call" /\ s = callee THEN 1 ELSE 0)
              + CountIn(bodies[callee], kind, s)
  BY <1>5, <1>6, <1>7, <1>9, <1>10, <1>11, <1>12
<1> QED
  BY <1>0, <1>4, <1>13, <1>14, <1>15

LEMMA EraseCount ==
    ASSUME NEW D, IsFiniteSet(D), NEW bodies \in [D -> Seq(Ref)], NEW callee \in D,
           NEW kind, NEW s
    PROVE  /\ Without(bodies, callee) \in [D \ {callee} -> Seq(Ref)]
           /\ IsFiniteSet(D \ {callee})
           /\ ModuleCount(Without(bodies, callee), kind, s) <=
                 ModuleCount(bodies, kind, s) - CountIn(bodies[callee], kind, s)
<1> DEFINE left == Without(bodies, callee)
           old == RefSet(bodies, kind, s)
           new == RefSet(left, kind, s)
           B == RefsIn(bodies[callee], kind, s)
           own == {<<callee, j>> : j \in B}
<1>1. /\ left \in [D \ {callee} -> Seq(Ref)] /\ DOMAIN left = D \ {callee}
      /\ DOMAIN bodies = D
      /\ \A f \in D \ {callee} : left[f] = bodies[f]
  BY DEF Without
<1>2. IsFiniteSet(D \ {callee})
  BY FS_RemoveElement
<1> HIDE DEF left
<1>3. /\ IsFiniteSet(old) /\ IsFiniteSet(new)
      /\ ModuleCount(bodies, kind, s) = Cardinality(old)
      /\ ModuleCount(left, kind, s) = Cardinality(new)
  BY <1>1, <1>2, RefSetFinite
<1>4. /\ IsFiniteSet(B) /\ CountIn(bodies[callee], kind, s) = Cardinality(B)
  BY RefsInFinite
<1>5. own \in SUBSET old
  <2> SUFFICES ASSUME NEW j \in B PROVE <<callee, j>> \in old
    OBVIOUS
  <2>1. j \in DOMAIN bodies[callee] /\ IsRef(bodies[callee][j], kind, s)
    BY DEF RefsIn
  <2> QED
    BY <1>1, <2>1, RefSetMembers
<1>6. new \in SUBSET (old \ own)
  <2> SUFFICES ASSUME NEW p \in new PROVE p \in old \ own
    OBVIOUS
  <2>1. /\ p = <<p[1], p[2]>> /\ p[1] \in D \ {callee} /\ p[2] \in DOMAIN left[p[1]]
        /\ IsRef(left[p[1]][p[2]], kind, s)
    BY <1>1, RefSetMembers
  <2>2. p \in old
    BY <1>1, <2>1, RefSetMembers
  <2> QED
    BY <2>1, <2>2
<1>7. Cardinality(B) <= Cardinality(own) /\ IsFiniteSet(own)
  <2> DEFINE tag == [j \in B |-> <<callee, j>>]
  <2>1. tag \in [B -> own] /\ \A j, k \in B : tag[j] = tag[k] => j = k
    OBVIOUS
  <2>2. IsFiniteSet(own)
    <3> HIDE DEF old, own
    <3> QED BY <1>3, <1>5, FS_Subset
  <2> HIDE DEF tag, B, own
  <2>3. tag \in Injection(B, own)
    BY <2>1, Fun_IsInj
  <2> QED
    BY <2>2, <2>3, FS_Injection
<1> HIDE DEF old, new, B, own
<1>8. /\ IsFiniteSet(old \ own)
      /\ Cardinality(old \ own) = Cardinality(old) - Cardinality(old \cap own)
  BY <1>3, FS_Difference
<1>9. old \cap own = own
  BY <1>5
<1>10. Cardinality(new) <= Cardinality(old \ own)
  BY <1>6, <1>8, FS_Subset
<1>11. /\ Cardinality(new) \in Nat /\ Cardinality(old) \in Nat
       /\ Cardinality(own) \in Nat /\ Cardinality(B) \in Nat
  BY <1>3, <1>4, <1>7, FS_CardinalityType
<1>12. Cardinality(new) <= Cardinality(old) - Cardinality(B)
  <2>1. Cardinality(old \ own) = Cardinality(old) - Cardinality(own)
    BY <1>8, <1>9
  <2> QED
    BY <1>7, <1>10, <1>11, <2>1
<1>13. /\ left \in [D \ {callee} -> Seq(Ref)]
       /\ ModuleCount(left, kind, s) <=
             ModuleCount(bodies, kind, s) - CountIn(bodies[callee], kind, s)
  BY <1>1, <1>3, <1>4, <1>12
<1> QED
  BY <1>2, <1>13 DEF left

-----------------------------------------------------------------------------
(* The import.                                                             *)

\* While the module is being imported nothing is counted or emitted.
LEMMA StillImporting ==
    ASSUME phase' = "import"
    PROVE  CountsTyped' /\ CountsSafe' /\ RelocationsResolve'
  BY DEF CountsTyped, CountsSafe, RelocationsResolve

LEMMA NamesApart ==
    /\ Importable \subseteq Defined /\ Thunks \subseteq Defined /\ CMain \in Defined
    /\ \A f \in Importable : f \notin Allocs /\ f \notin Outside /\ f \notin Thunks
    /\ \A f \in Thunks : f \notin Allocs /\ f \notin Outside /\ f # CMain
    /\ \A f \in Allocs : f \notin Defined /\ f \notin Outside
    /\ CMain \notin Allocs /\ CMain \notin Importable
    /\ Defined \subseteq SymbolNames /\ Outside \subseteq SymbolNames
    /\ Allocs \subseteq SymbolNames
    /\ \A e \in Outside : Thunk[e] \in Thunks
  BY SymbolsAssumption DEF Defined, SymbolNames, Thunks

LEMMA EnterKeeps ==
    ASSUME IInv, phase = "import", NEW f \in Importable,
           NEW after \in {"nothing", "internal"},
           ~Exists(f), EnterFunction(f, after),
           f \in Elements(Locals) \/ after = "internal",
           UNCHANGED <<prog, slots, linkage, reentered, phase, erased>>,
           todo' \in Seq(Importable), Elements(todo') \subseteq Elements(todo),
           Elements(todo) \subseteq Elements(todo') \cup {f}
    PROVE  IInv'
<1> USE DEF IInv
<1>1. /\ present \in Seq(Defined) /\ stack \in Seq(Frames) /\ f \in Defined
      /\ erased = {} /\ f \notin Elements(present) /\ f \notin DOMAIN slots
      /\ DOMAIN slots \subseteq Allocs
  BY NamesApart DEF Shape, Exists
<1>2. /\ present' \in Seq(Defined)
      /\ Elements(present') = Elements(present) \cup {f}
      /\ Alive' = Alive \cup {f} /\ Alive = Elements(present)
  BY <1>1, ElementsOfAppend DEF EnterFunction, Alive
<1>3. Frame(f, after) \in Frames /\ Frame(f, after).sym = f /\ Frame(f, after).after = after
  BY DEF Frame, Frames
<1>4. /\ stack' \in Seq(Frames) /\ DOMAIN stack' = DOMAIN stack \cup {Len(stack) + 1}
      /\ \A i \in DOMAIN stack : stack'[i] = stack[i]
      /\ stack'[Len(stack) + 1] = Frame(f, after)
  BY <1>1, <1>3 DEF EnterFunction
<1>5. OnStack' = OnStack \cup {f}
  BY <1>3, <1>4 DEF OnStack
<1>6. /\ body' \in [Alive' -> Seq(Ref)] /\ body'[f] = << >>
      /\ \A g \in Alive : body'[g] = body[g]
  <2>1. body \in [Alive -> Seq(Ref)] /\ f \notin Alive
    BY <1>1, <1>2 DEF Shape
  <2>2. << >> \in Seq(Ref)
    OBVIOUS
  <2> QED
    BY <1>2, <2>1, <2>2 DEF EnterFunction, With
<1>7. Shape'
  BY <1>1, <1>2, <1>4, <1>6 DEF Shape
<1>8. Entered'
  <2>1. OnStack' \subseteq Elements(present') \cup DOMAIN slots'
    BY <1>2, <1>5 DEF Entered
  <2>2. \A i \in DOMAIN stack' : stack'[i].after = "internal" => stack'[i].sym \in Importable
    BY <1>3, <1>4 DEF Entered
  <2> QED
    BY <2>1, <2>2 DEF Entered
<1>9. Copies'
  <2> SUFFICES ASSUME NEW g \in (Elements(present') \cap Importable) \ Elements(Locals)
               PROVE  CopyIsMarked(g)'
    BY DEF Copies
  <2>1. CASE g = f
    BY <1>3, <1>4, <2>1 DEF CopyIsMarked
  <2>2. CASE g # f
    <3>1. CopyIsMarked(g)
      BY <1>2, <2>2 DEF Copies
    <3> QED
      BY <1>4, <3>1 DEF CopyIsMarked
  <2> QED
    BY <2>1, <2>2
<1>10. References'
  <2>1. ASSUME NEW g \in Alive', NEW i \in DOMAIN body'[g]
        PROVE  body'[g][i].to \in Outside \cup Alive' \cup DOMAIN slots'
    BY <1>2, <1>6, <2>1 DEF References
  <2>2. Elements(Locals) \subseteq Elements(todo') \cup Elements(present')
    BY <1>2 DEF References
  <2> QED
    BY <2>1, <2>2 DEF References
<1>11. SlotsExposed'
  <2>1. SlotTargets' = SlotTargets
    BY DEF SlotTargets
  <2> SUFFICES ASSUME NEW t \in SlotTargets
               PROVE  /\ t \in DOMAIN slots' \/ t \in reentered' \/ Visible(t)'
                      /\ t \in Elements(present') \cup DOMAIN slots'
                      /\ t \in OnStack' \cap Importable => t \in reentered'
    BY <2>1 DEF SlotsExposed
  <2>2. /\ t \in DOMAIN slots \/ t \in reentered \/ Visible(t)
        /\ t \in Elements(present) \cup DOMAIN slots
        /\ t \in OnStack \cap Importable => t \in reentered
    BY DEF SlotsExposed
  <2>3. t # f
    BY <1>1, <2>2
  <2>4. Visible(t) => Visible(t)'
    BY <1>2 DEF Visible
  <2> QED
    BY <1>2, <1>5, <2>2, <2>3, <2>4
<1> QED
  BY <1>7, <1>8, <1>9, <1>10, <1>11, StillImporting

LEMMA ImportLocalKeeps == ASSUME IInv, ImportLocal PROVE IInv'
<1> DEFINE f == Head(todo)
<1>1. /\ todo \in Seq(Importable) /\ todo # << >> /\ phase = "import"
      /\ todo' = Tail(todo)
  BY DEF IInv, Shape, ImportLocal
<1>2. /\ todo' \in Seq(Importable) /\ f \in Importable
      /\ Elements(todo) = Elements(todo') \cup {f}
  BY <1>1, ElementsOfTail
<1>3. f \in Elements(Locals)
  BY <1>2 DEF IInv, Copies
<1>4. CASE Exists(f)
  <2>1. UNCHANGED <<prog, stack, present, body, slots, linkage, reentered, phase, erased>>
    BY <1>4 DEF ImportLocal, inlineVars
  <2>2. f \in Elements(present)
    BY <1>2, <1>4, NamesApart DEF IInv, Shape, Exists
  <2>3. Shape' /\ Entered' /\ SlotsExposed'
    BY <1>1, <1>2, <2>1 DEF IInv, Shape, Entered, SlotsExposed, Alive, OnStack, SlotTargets, Visible
  <2>4. Copies'
    BY <1>2, <2>1 DEF IInv, Copies, CopyIsMarked
  <2>5. References'
    BY <1>2, <2>1, <2>2 DEF IInv, References, Alive
  <2> QED
    BY <1>1, <2>1, <2>3, <2>4, <2>5, StillImporting DEF IInv
<1>5. CASE ~Exists(f)
  <2>1. /\ EnterFunction(f, "nothing")
        /\ UNCHANGED <<prog, slots, linkage, reentered, phase, erased>>
    BY <1>5 DEF ImportLocal, inlineVars
  <2> QED
    BY <1>1, <1>2, <1>3, <1>5, <2>1, EnterKeeps
<1> QED
  BY <1>4, <1>5

LEMMA DescendIntoFunctionKeeps == ASSUME IInv, DescendIntoFunction PROVE IInv'
<1>1. /\ phase = "import" /\ Target \in Importable /\ ~Exists(Target)
      /\ EnterFunction(Target, "internal")
      /\ UNCHANGED <<prog, todo, slots, linkage, reentered, phase, erased>>
  BY DEF DescendIntoFunction, inlineVars
<1>2. todo' \in Seq(Importable) /\ todo' = todo
  BY <1>1 DEF IInv, Shape
<1> QED
  BY <1>1, <1>2, EnterKeeps

LEMMA DescendIntoAllocKeeps == ASSUME IInv, DescendIntoAlloc PROVE IInv'
<1> USE DEF IInv
<1> DEFINE d == Target
<1>1. /\ phase = "import" /\ d \in Allocs /\ d \notin DOMAIN slots
      /\ slots' = With(slots, d, << >>)
      /\ stack' = Append(stack, Frame(d, "nothing"))
      /\ UNCHANGED <<prog, todo, present, body, linkage, reentered, phase, erased>>
  BY DEF DescendIntoAlloc, inlineVars, Exists
<1> HIDE DEF d
<1>2. d \notin Importable
  BY <1>1, NamesApart
<1>3. /\ Frame(d, "nothing") \in Frames /\ Frame(d, "nothing").sym = d
      /\ Frame(d, "nothing").after = "nothing"
  BY <1>1 DEF Frame, Frames
<1>4. /\ stack' \in Seq(Frames) /\ DOMAIN stack' = DOMAIN stack \cup {Len(stack) + 1}
      /\ \A i \in DOMAIN stack : stack'[i] = stack[i]
      /\ stack'[Len(stack) + 1] = Frame(d, "nothing")
  <2>1. stack \in Seq(Frames)
    BY DEF Shape
  <2> QED
    BY <1>1, <1>3, <2>1
<1>5. OnStack' = OnStack \cup {d}
  BY <1>3, <1>4 DEF OnStack
<1>6. /\ DOMAIN slots' = DOMAIN slots \cup {d} /\ slots'[d] = << >>
      /\ \A a \in DOMAIN slots : slots'[a] = slots[a]
      /\ slots' \in [DOMAIN slots' -> Seq(SymbolNames)]
  <2>1. slots \in [DOMAIN slots -> Seq(SymbolNames)] /\ << >> \in Seq(SymbolNames)
    BY DEF Shape
  <2> QED
    BY <1>1, <2>1 DEF With
<1>7. SlotTargets' \subseteq SlotTargets
  BY <1>6 DEF SlotTargets, Elements
<1>8. Alive' = Alive
  BY <1>1 DEF Alive
<1>9. Shape'
  BY <1>1, <1>4, <1>6, <1>8 DEF Shape
<1>10. Entered'
  <2>1. OnStack' \subseteq Elements(present') \cup DOMAIN slots'
    BY <1>1, <1>5, <1>6 DEF Entered
  <2>2. \A i \in DOMAIN stack' : stack'[i].after = "internal" => stack'[i].sym \in Importable
    BY <1>3, <1>4 DEF Entered
  <2> QED
    BY <2>1, <2>2 DEF Entered
<1>11. Copies'
  BY <1>1, <1>4 DEF Copies, CopyIsMarked
<1>12. References'
  BY <1>1, <1>6, <1>8 DEF References
<1>13. SlotsExposed'
  BY <1>1, <1>2, <1>5, <1>6, <1>7, <1>8 DEF SlotsExposed, Visible
<1> QED
  BY <1>1, <1>9, <1>10, <1>11, <1>12, <1>13, StillImporting

\* Emitting a reference only moves the cursor of the frame on top.
LEMMA AdvancedFacts ==
    ASSUME stack \in Seq(Frames), stack # << >>
    PROVE  /\ Advanced \in Seq(Frames) /\ DOMAIN Advanced = DOMAIN stack
           /\ \A i \in DOMAIN stack : /\ Advanced[i].sym = stack[i].sym
                                      /\ Advanced[i].after = stack[i].after
           /\ Len(stack) \in DOMAIN stack /\ Top \in Frames
           /\ Top.sym \in OnStack
<1>1. Len(stack) \in DOMAIN stack /\ Top \in Frames /\ Top = stack[Len(stack)]
  BY DEF Top
<1>2. /\ [Top EXCEPT !.next = @ + 1] \in Frames
      /\ [Top EXCEPT !.next = @ + 1].sym = Top.sym
      /\ [Top EXCEPT !.next = @ + 1].after = Top.after
  BY <1>1 DEF Frames
<1>3. Advanced = [stack EXCEPT ![Len(stack)] = [Top EXCEPT !.next = @ + 1]]
  BY <1>1 DEF Advanced, Top
<1>4. Advanced \in Seq(Frames) /\ DOMAIN Advanced = DOMAIN stack
  BY <1>1, <1>2, <1>3
<1>5. \A i \in DOMAIN stack : /\ Advanced[i].sym = stack[i].sym
                              /\ Advanced[i].after = stack[i].after
  BY <1>1, <1>2, <1>3
<1> QED
  BY <1>1, <1>4, <1>5 DEF OnStack

\* What emitting a reference, from a body or from a constant, leaves true.
LEMMA EmitKeeps ==
    ASSUME IInv, phase = "import", stack # << >>, stack' = Advanced,
           UNCHANGED <<prog, todo, phase, erased>>,
           present' \in Seq(Defined),
           Elements(present) \subseteq Elements(present'),
           Elements(present') \subseteq Elements(present) \cup Thunks,
           body' \in [Elements(present') -> Seq(Ref)],
           \A g \in Elements(present') : \A i \in DOMAIN body'[g] :
               body'[g][i].to \in Outside \cup Elements(present') \cup DOMAIN slots,
           linkage' \in [DOMAIN linkage' -> Linkages],
           DOMAIN linkage \subseteq DOMAIN linkage',
           \A g \in DOMAIN linkage \cap Importable :
               linkage'[g] = linkage[g] \/ linkage'[g] = "weak",
           DOMAIN slots' = DOMAIN slots,
           slots' \in [DOMAIN slots' -> Seq(SymbolNames)],
           reentered' \subseteq Importable,
           SlotsExposed'
    PROVE  IInv'
<1> USE DEF IInv
<1>1. erased = {} /\ Alive' = Elements(present') /\ Alive = Elements(present)
  BY DEF Shape, Alive
<1>2. /\ stack' \in Seq(Frames) /\ DOMAIN stack' = DOMAIN stack
      /\ \A i \in DOMAIN stack : /\ stack'[i].sym = stack[i].sym
                                 /\ stack'[i].after = stack[i].after
  BY AdvancedFacts DEF Shape
<1>3. OnStack' = OnStack
  BY <1>2 DEF OnStack
<1>4. Shape'
  BY <1>1, <1>2 DEF Shape
<1>5. Entered'
  BY <1>2, <1>3 DEF Entered
<1>6. Copies'
  <2> SUFFICES ASSUME NEW g \in (Elements(present') \cap Importable) \ Elements(Locals)
               PROVE  CopyIsMarked(g)'
    BY DEF Copies
  <2>1. g \in Elements(present)
    BY NamesApart
  <2>2. CopyIsMarked(g)
    BY <2>1 DEF Copies
  <2> QED
    BY <1>2, <2>2 DEF CopyIsMarked
<1>7. References'
  BY <1>1 DEF References
<1> QED
  BY <1>4, <1>5, <1>6, <1>7, StillImporting

\* emit_fn_ptr_thunk adds the thunk once, with a call to what it stands for.
LEMMA ThunkFacts ==
    ASSUME IInv, phase = "import", NEW e \in Outside
    PROVE  /\ ThunkPresent(e) \in Seq(Defined)
           /\ Elements(ThunkPresent(e)) = Elements(present) \cup {Thunk[e]}
           /\ ThunkBody(e) \in [Elements(ThunkPresent(e)) -> Seq(Ref)]
           /\ \A g \in Elements(present) : ThunkBody(e)[g] = body[g]
           /\ \A g \in Elements(ThunkPresent(e)) : \A i \in DOMAIN ThunkBody(e)[g] :
                 ThunkBody(e)[g][i].to \in Outside \cup Elements(present) \cup DOMAIN slots
           /\ ThunkLinkage(e) \in [DOMAIN ThunkLinkage(e) -> Linkages]
           /\ DOMAIN linkage \subseteq DOMAIN ThunkLinkage(e)
           /\ \A g \in DOMAIN linkage :
                 g \in Importable \cup Elements(present) =>
                    ThunkLinkage(e)[g] = linkage[g]
<1>1. /\ present \in Seq(Defined) /\ Alive = Elements(present)
      /\ body \in [Elements(present) -> Seq(Ref)]
      /\ linkage \in [DOMAIN linkage -> Linkages] /\ DOMAIN slots \subseteq Allocs
  BY DEF IInv, Shape, Alive
<1>2. /\ Thunk[e] \in Thunks /\ Thunk[e] \in Defined /\ Thunk[e] \notin Importable
      /\ Thunk[e] \notin DOMAIN slots
  BY <1>1, NamesApart
<1>3. \A g \in Elements(present) : \A i \in DOMAIN body[g] :
         body[g][i].to \in Outside \cup Elements(present) \cup DOMAIN slots
  BY <1>1 DEF IInv, References
<1>4. CASE Exists(Thunk[e])
  <2>1. Thunk[e] \in Elements(present)
    BY <1>2, <1>4 DEF Exists
  <2> QED
    BY <1>1, <1>3, <1>4, <2>1 DEF ThunkPresent, ThunkBody, ThunkLinkage
<1>5. CASE ~Exists(Thunk[e])
  <2>1. Thunk[e] \notin Elements(present)
    BY <1>5 DEF Exists
  <2>2. /\ ThunkPresent(e) = Append(present, Thunk[e])
        /\ ThunkBody(e) = With(body, Thunk[e], <<Call(e)>>)
        /\ ThunkLinkage(e) = With(linkage, Thunk[e], "internal")
    BY <1>5 DEF ThunkPresent, ThunkBody, ThunkLinkage
  <2>3. /\ ThunkPresent(e) \in Seq(Defined)
        /\ Elements(ThunkPresent(e)) = Elements(present) \cup {Thunk[e]}
    BY <1>1, <1>2, <2>2, ElementsOfAppend
  <2>4. Call(e) \in Ref /\ Call(e).to = e
    BY NamesApart DEF Call, Ref
  <2>5. /\ <<Call(e)>> \in Seq(Ref) /\ DOMAIN <<Call(e)>> = {1}
        /\ <<Call(e)>>[1] = Call(e)
    BY <2>4
  <2>6. /\ DOMAIN ThunkBody(e) = Elements(present) \cup {Thunk[e]}
        /\ ThunkBody(e)[Thunk[e]] = <<Call(e)>>
        /\ \A g \in Elements(present) : ThunkBody(e)[g] = body[g]
        /\ ThunkBody(e) \in [Elements(ThunkPresent(e)) -> Seq(Ref)]
    BY <1>1, <2>1, <2>2, <2>3, <2>5 DEF With
  <2>7. \A g \in Elements(ThunkPresent(e)) : \A i \in DOMAIN ThunkBody(e)[g] :
           ThunkBody(e)[g][i].to \in Outside \cup Elements(present) \cup DOMAIN slots
    BY <1>3, <2>3, <2>4, <2>5, <2>6
  <2>8. /\ ThunkLinkage(e) \in [DOMAIN ThunkLinkage(e) -> Linkages]
        /\ DOMAIN linkage \subseteq DOMAIN ThunkLinkage(e)
        /\ \A g \in DOMAIN linkage : g # Thunk[e] => ThunkLinkage(e)[g] = linkage[g]
    BY <1>1, <2>2 DEF With, Linkages
  <2> QED
    BY <1>2, <2>1, <2>3, <2>6, <2>7, <2>8
<1> QED
  BY <1>4, <1>5

\* What the frame on top has still to emit is a reference of the source.
LEMMA PendingFacts ==
    ASSUME IInv, stack # << >>, HasNext
    PROVE  /\ InFunction => /\ Pending[Top.next] \in SourceRef
                            /\ Target = Pending[Top.next].to
                            /\ Top.sym \in Elements(present)
           /\ InAlloc => Top.sym \in DOMAIN slots /\ ~InFunction
           /\ InFunction \/ InAlloc => Target \in SourceNames
<1>1. /\ stack \in Seq(Frames) /\ prog \in Programs /\ DOMAIN slots \subseteq Allocs
      /\ present \in Seq(Defined) /\ OnStack \subseteq Elements(present) \cup DOMAIN slots
  BY DEF IInv, Shape, Entered
<1>2. Top \in Frames /\ Top.sym \in OnStack
  BY <1>1, AdvancedFacts
<1>3. Top.next \in Nat \ {0} /\ Top.next <= Len(Pending)
  BY <1>2 DEF Frames, HasNext
<1>4. Elements(present) \subseteq Defined
  BY <1>1 DEF Elements
<1>5. /\ prog.body \in [Importable -> Seq(SourceRef)]
      /\ prog.slots \in [Allocs -> Seq(SourceNames)]
  BY <1>1, ProgramsAssumption
<1>6. ASSUME InFunction
      PROVE  /\ Pending[Top.next] \in SourceRef /\ Target = Pending[Top.next].to
             /\ Top.sym \in Elements(present) /\ Target \in SourceNames
  <2>1. Top.sym \in Importable /\ Pending = prog.body[Top.sym]
    BY <1>6 DEF InFunction, Pending
  <2>2. Pending \in Seq(SourceRef)
    BY <1>5, <2>1
  <2>3. Pending[Top.next] \in SourceRef
    BY <1>3, <2>2
  <2>4. Target = Pending[Top.next].to
    BY <1>6 DEF Target
  <2>5. Top.sym \in Elements(present)
    BY <1>1, <1>2, <2>1, NamesApart
  <2> QED
    BY <2>3, <2>4, <2>5 DEF SourceRef
<1>7. ASSUME InAlloc
      PROVE  Top.sym \in DOMAIN slots /\ ~InFunction /\ Target \in SourceNames
  <2>1. Top.sym \in Allocs /\ ~InFunction
    BY <1>7, NamesApart DEF InAlloc, InFunction
  <2>2. Pending = prog.slots[Top.sym] /\ Target = Pending[Top.next]
    BY <2>1 DEF Pending, Target
  <2>3. Pending \in Seq(SourceNames)
    BY <1>5, <2>1, <2>2
  <2>4. Top.sym \in DOMAIN slots
    BY <1>1, <1>2, <1>4, <2>1, NamesApart
  <2> QED
    BY <1>3, <2>1, <2>2, <2>3, <2>4
<1> QED
  BY <1>6, <1>7

\* A body with one more reference, whose target is known.
LEMMA AppendRef ==
    ASSUME NEW D, NEW b \in [D -> Seq(Ref)], NEW f \in D, NEW r \in Ref, NEW T,
           \A g \in D : \A i \in DOMAIN b[g] : b[g][i].to \in T,
           r.to \in T
    PROVE  /\ [b EXCEPT ![f] = Append(@, r)] \in [D -> Seq(Ref)]
           /\ \A g \in D : \A i \in DOMAIN [b EXCEPT ![f] = Append(@, r)][g] :
                 [b EXCEPT ![f] = Append(@, r)][g][i].to \in T
<1> DEFINE c == [b EXCEPT ![f] = Append(@, r)]
<1>1. /\ Append(b[f], r) \in Seq(Ref)
      /\ DOMAIN Append(b[f], r) = DOMAIN b[f] \cup {Len(b[f]) + 1}
      /\ \A i \in DOMAIN b[f] : Append(b[f], r)[i] = b[f][i]
      /\ Append(b[f], r)[Len(b[f]) + 1] = r
  <2>1. b[f] \in Seq(Ref)
    OBVIOUS
  <2> QED
    BY <2>1
<1>2. /\ c \in [D -> Seq(Ref)] /\ c[f] = Append(b[f], r)
      /\ \A g \in D : g # f => c[g] = b[g]
  BY <1>1
<1> HIDE DEF c
<1>3. \A g \in D : \A i \in DOMAIN c[g] : c[g][i].to \in T
  BY <1>1, <1>2
<1> QED
  BY <1>2, <1>3 DEF c

LEMMA EmitReferenceKeeps == ASSUME IInv, EmitReference PROVE IInv'
<1> DEFINE f == Top.sym
           r == Pending[Top.next]
           t == Target
<1>1. /\ phase = "import" /\ InFunction /\ HasNext /\ stack # << >>
      /\ t \in Outside \/ Exists(t)
      /\ stack' = Advanced
      /\ UNCHANGED <<prog, todo, slots, reentered, phase, erased>>
      /\ IF NeedsThunk(t)
         THEN /\ body' = [ThunkBody(t) EXCEPT ![f] = Append(@, [r EXCEPT !.to = Thunk[t]])]
              /\ present' = ThunkPresent(t)
              /\ linkage' = ThunkLinkage(t)
         ELSE /\ body' = [body EXCEPT ![f] = Append(@, r)]
              /\ UNCHANGED <<present, linkage>>
  BY DEF EmitReference, InFunction, inlineVars
<1>2. r \in SourceRef /\ t = r.to /\ f \in Elements(present)
  BY <1>1, PendingFacts
<1> HIDE DEF f, r, t
<1>3. r \in Ref
  BY <1>2, NamesApart DEF SourceRef, Ref, SourceNames
<1>4. /\ present \in Seq(Defined) /\ Alive = Elements(present) /\ erased = {}
      /\ body \in [Elements(present) -> Seq(Ref)]
      /\ linkage \in [DOMAIN linkage -> Linkages]
      /\ slots \in [DOMAIN slots -> Seq(SymbolNames)] /\ reentered \subseteq Importable
      /\ \A g \in Elements(present) : \A i \in DOMAIN body[g] :
            body[g][i].to \in Outside \cup Elements(present) \cup DOMAIN slots
      /\ stack \in Seq(Frames)
  BY <1>1 DEF IInv, Shape, Alive, References
<1>5. OnStack' = OnStack
  BY <1>1, <1>4, AdvancedFacts DEF OnStack
<1>6. CASE NeedsThunk(t)
  <2>1. t \in Outside /\ Thunk[t] \in Thunks
    BY <1>6, NamesApart DEF NeedsThunk
  <2>2. /\ body' = [ThunkBody(t) EXCEPT ![f] = Append(@, [r EXCEPT !.to = Thunk[t]])]
        /\ present' = ThunkPresent(t)
        /\ linkage' = ThunkLinkage(t)
    BY <1>1, <1>6
  <2>3. /\ present' \in Seq(Defined)
        /\ Elements(present') = Elements(present) \cup {Thunk[t]}
        /\ ThunkBody(t) \in [Elements(present') -> Seq(Ref)]
        /\ \A g \in Elements(present') : \A i \in DOMAIN ThunkBody(t)[g] :
              ThunkBody(t)[g][i].to \in Outside \cup Elements(present) \cup DOMAIN slots
        /\ linkage' \in [DOMAIN linkage' -> Linkages]
        /\ DOMAIN linkage \subseteq DOMAIN linkage'
        /\ \A g \in DOMAIN linkage :
              g \in Importable \cup Elements(present) => linkage'[g] = linkage[g]
    BY <1>1, <2>1, <2>2, ThunkFacts
  <2>4. /\ [r EXCEPT !.to = Thunk[t]] \in Ref
        /\ [r EXCEPT !.to = Thunk[t]].to = Thunk[t]
    BY <1>3, <2>1, NamesApart DEF Ref
  <2>5. /\ body' \in [Elements(present') -> Seq(Ref)]
        /\ \A g \in Elements(present') : \A i \in DOMAIN body'[g] :
              body'[g][i].to \in Outside \cup Elements(present') \cup DOMAIN slots
    <3> DEFINE T == Outside \cup Elements(present') \cup DOMAIN slots
               q == [r EXCEPT !.to = Thunk[t]]
               D == Elements(present')
               b == ThunkBody(t)
    <3>1. /\ b \in [D -> Seq(Ref)] /\ f \in D /\ q \in Ref /\ q.to \in T
          /\ \A g \in D : \A i \in DOMAIN b[g] : b[g][i].to \in T
      BY <1>2, <2>3, <2>4
    <3>2. body' = [b EXCEPT ![f] = Append(@, q)]
      BY <2>2
    <3> HIDE DEF T, q, D, b
    <3>3. /\ body' \in [D -> Seq(Ref)]
          /\ \A g \in D : \A i \in DOMAIN body'[g] : body'[g][i].to \in T
      BY <3>1, <3>2, AppendRef
    <3> QED
      BY <3>3 DEF T, D
  <2>6. SlotsExposed'
    <3>1. SlotTargets' = SlotTargets
      BY <1>1 DEF SlotTargets
    <3>2. ASSUME NEW x, Visible(x) PROVE Visible(x)'
      BY <1>1, <1>4, <2>3, <3>2 DEF Visible, Alive
    <3> QED
      BY <1>1, <1>5, <2>3, <3>1, <3>2 DEF IInv, SlotsExposed
  <2> QED
    BY <1>1, <1>4, <2>1, <2>3, <2>5, <2>6, EmitKeeps
<1>7. CASE ~NeedsThunk(t)
  <2>1. /\ body' = [body EXCEPT ![f] = Append(@, r)]
        /\ UNCHANGED <<present, linkage>>
    BY <1>1, <1>7
  <2>2. t \in Outside \cup Elements(present) \cup DOMAIN slots
    BY <1>1 DEF Exists
  <2>3. /\ body' \in [Elements(present) -> Seq(Ref)]
        /\ \A g \in Elements(present) : \A i \in DOMAIN body'[g] :
              body'[g][i].to \in Outside \cup Elements(present) \cup DOMAIN slots
    <3> DEFINE T == Outside \cup Elements(present) \cup DOMAIN slots
               D == Elements(present)
    <3>1. /\ body \in [D -> Seq(Ref)] /\ f \in D /\ r \in Ref /\ r.to \in T
          /\ \A g \in D : \A i \in DOMAIN body[g] : body[g][i].to \in T
      BY <1>2, <1>3, <1>4, <2>2
    <3> HIDE DEF T, D
    <3>3. /\ body' \in [D -> Seq(Ref)]
          /\ \A g \in D : \A i \in DOMAIN body'[g] : body'[g][i].to \in T
      BY <2>1, <3>1, AppendRef
    <3> QED
      BY <3>3 DEF T, D
  <2>4. SlotsExposed'
    BY <1>1, <1>5, <2>1 DEF IInv, SlotsExposed, Visible, Alive, SlotTargets
  <2> QED
    BY <1>1, <1>4, <2>1, <2>3, <2>4, EmitKeeps
<1> QED
  BY <1>6, <1>7

\* A constant with one more relocation.
LEMMA AppendSlot ==
    ASSUME slots \in [DOMAIN slots -> Seq(SymbolNames)], NEW d \in DOMAIN slots,
           NEW t \in SymbolNames,
           slots' = [slots EXCEPT ![d] = Append(@, t)]
    PROVE  /\ DOMAIN slots' = DOMAIN slots
           /\ slots' \in [DOMAIN slots' -> Seq(SymbolNames)]
           /\ SlotTargets' = SlotTargets \cup {t}
<1>1. slots[d] \in Seq(SymbolNames)
  OBVIOUS
<1>2. /\ Append(slots[d], t) \in Seq(SymbolNames)
      /\ Elements(Append(slots[d], t)) = Elements(slots[d]) \cup {t}
  BY <1>1, ElementsOfAppend
<1>3. /\ DOMAIN slots' = DOMAIN slots /\ slots'[d] = Append(slots[d], t)
      /\ \A a \in DOMAIN slots : a # d => slots'[a] = slots[a]
  OBVIOUS
<1>4. SlotTargets' = SlotTargets \cup {t}
  <2>1. SlotTargets' = UNION {Elements(slots'[a]) : a \in DOMAIN slots'}
    BY DEF SlotTargets, Elements
  <2>2. ASSUME NEW x \in SlotTargets' PROVE x \in SlotTargets \cup {t}
    BY <1>2, <1>3, <2>1, <2>2 DEF SlotTargets
  <2>3. ASSUME NEW x \in SlotTargets PROVE x \in SlotTargets'
    BY <1>2, <1>3, <2>1, <2>3 DEF SlotTargets
  <2>4. t \in SlotTargets'
    BY <1>2, <1>3, <2>1
  <2> QED
    BY <2>2, <2>3, <2>4
<1> QED
  BY <1>2, <1>3, <1>4

LEMMA EmitSlotKeeps == ASSUME IInv, EmitSlot PROVE IInv'
<1>0. PICK d, t : d = Top.sym /\ t = Target
  OBVIOUS
<1>1. /\ phase = "import" /\ InAlloc /\ HasNext /\ stack # << >>
      /\ t \in Outside \/ Exists(t)
      /\ stack' = Advanced
      /\ UNCHANGED <<prog, todo, phase, erased>>
      /\ reentered' = reentered \cup ({t} \cap OnStack \cap Importable)
      /\ IF t \in Outside
         THEN /\ body' = ThunkBody(t)
              /\ present' = ThunkPresent(t)
              /\ linkage' = With(ThunkLinkage(t), Thunk[t], "external")
              /\ slots' = [slots EXCEPT ![d] = Append(@, Thunk[t])]
         ELSE /\ linkage' = IF t \in Importable THEN ExposeTarget(t) ELSE linkage
              /\ slots' = [slots EXCEPT ![d] = Append(@, t)]
              /\ UNCHANGED <<body, present>>
  BY <1>0 DEF EmitSlot, InAlloc, inlineVars, OnStack
<1>2. d \in DOMAIN slots /\ t \in SourceNames
  BY <1>0, <1>1, PendingFacts
<1>3. /\ present \in Seq(Defined) /\ Alive = Elements(present) /\ erased = {}
      /\ body \in [Elements(present) -> Seq(Ref)]
      /\ linkage \in [DOMAIN linkage -> Linkages]
      /\ slots \in [DOMAIN slots -> Seq(SymbolNames)] /\ reentered \subseteq Importable
      /\ \A g \in Elements(present) : \A i \in DOMAIN body[g] :
            body[g][i].to \in Outside \cup Elements(present) \cup DOMAIN slots
      /\ stack \in Seq(Frames) /\ DOMAIN slots \subseteq Allocs
      /\ Elements(present) \subseteq Defined
  <2>1. present \in Seq(Defined) => Elements(present) \subseteq Defined
    BY DEF Elements
  <2> QED
    BY <1>1, <2>1 DEF IInv, Shape, Alive, References
<1>4. OnStack' = OnStack
  <2>1. stack' = Advanced /\ stack # << >>
    BY <1>1
  <2> QED
    BY <1>3, <2>1, AdvancedFacts DEF OnStack
<1>5. \A x \in SlotTargets :
        /\ x \in DOMAIN slots \/ x \in reentered \/ Visible(x)
        /\ x \in Elements(present) \cup DOMAIN slots
        /\ x \in OnStack \cap Importable => x \in reentered
  BY DEF IInv, SlotsExposed
<1>6. CASE t \in Outside
  <2>1. Thunk[t] \in Thunks /\ Thunk[t] \in SymbolNames /\ Thunk[t] \notin Importable
    BY <1>6, NamesApart
  <2>2. /\ body' = ThunkBody(t) /\ present' = ThunkPresent(t)
        /\ linkage' = With(ThunkLinkage(t), Thunk[t], "external")
        /\ slots' = [slots EXCEPT ![d] = Append(@, Thunk[t])]
    BY <1>1, <1>6
  <2>3. /\ present' \in Seq(Defined)
        /\ Elements(present') = Elements(present) \cup {Thunk[t]}
        /\ body' \in [Elements(present') -> Seq(Ref)]
        /\ \A g \in Elements(present') : \A i \in DOMAIN body'[g] :
              body'[g][i].to \in Outside \cup Elements(present) \cup DOMAIN slots
        /\ ThunkLinkage(t) \in [DOMAIN ThunkLinkage(t) -> Linkages]
        /\ DOMAIN linkage \subseteq DOMAIN ThunkLinkage(t)
        /\ \A g \in DOMAIN linkage :
              g \in Importable \cup Elements(present) => ThunkLinkage(t)[g] = linkage[g]
    BY <1>1, <1>6, <2>2, ThunkFacts
  <2>4. /\ DOMAIN linkage' = DOMAIN ThunkLinkage(t) \cup {Thunk[t]}
        /\ linkage'[Thunk[t]] = "external"
        /\ \A g \in DOMAIN ThunkLinkage(t) : g # Thunk[t] => linkage'[g] = ThunkLinkage(t)[g]
        /\ linkage' \in [DOMAIN linkage' -> Linkages]
    BY <2>2, <2>3 DEF With, Linkages
  <2>5. /\ DOMAIN linkage \subseteq DOMAIN linkage'
        /\ \A g \in DOMAIN linkage \cap Importable : linkage'[g] = linkage[g]
        /\ \A g \in DOMAIN linkage \cap Elements(present) :
              linkage'[g] = linkage[g] \/ linkage'[g] = "external"
    BY <2>1, <2>3, <2>4
  <2>6. /\ DOMAIN slots' = DOMAIN slots /\ slots' \in [DOMAIN slots' -> Seq(SymbolNames)]
        /\ SlotTargets' = SlotTargets \cup {Thunk[t]}
    BY <1>2, <1>3, <2>1, <2>2, AppendSlot
  <2>7. reentered' \subseteq Importable /\ reentered \subseteq reentered'
    BY <1>1, <1>3
  <2>8. Alive' = Elements(present')
    BY <1>1, <1>3 DEF Alive
  <2>9. ASSUME NEW x, Visible(x) PROVE Visible(x)'
    BY <1>3, <2>3, <2>5, <2>8, <2>9 DEF Visible
  <2>10. Visible(Thunk[t])'
    BY <2>3, <2>4, <2>8 DEF Visible
  <2>11. SlotsExposed'
    BY <1>4, <1>5, <2>1, <2>3, <2>6, <2>7, <2>9, <2>10 DEF SlotsExposed
  <2> QED
    BY <1>1, <2>1, <2>3, <2>4, <2>5, <2>6, <2>7, <2>11, EmitKeeps
<1>7. CASE t \notin Outside
  <2>1. /\ linkage' = IF t \in Importable THEN ExposeTarget(t) ELSE linkage
        /\ slots' = [slots EXCEPT ![d] = Append(@, t)]
        /\ UNCHANGED <<body, present>>
    BY <1>1, <1>7
  <2>2. /\ t \in Importable \/ t \in Allocs
        /\ t \in SymbolNames
        /\ t \in Elements(present) \cup DOMAIN slots
    BY <1>1, <1>2, <1>7, NamesApart DEF SourceNames, Exists
  <2>3. /\ t \in Importable => t \in Elements(present)
        /\ t \in Allocs => t \in DOMAIN slots
    BY <1>3, <2>2, NamesApart
  <2>4. /\ linkage' \in [DOMAIN linkage' -> Linkages]
        /\ DOMAIN linkage \subseteq DOMAIN linkage'
        /\ \A g \in DOMAIN linkage : linkage'[g] = linkage[g] \/ linkage'[g] = "weak"
        /\ t \in Importable => t \in DOMAIN linkage' /\ linkage'[t] = "weak"
    BY <1>3, <2>1 DEF ExposeTarget, With, Linkages
  <2>5. /\ DOMAIN slots' = DOMAIN slots /\ slots' \in [DOMAIN slots' -> Seq(SymbolNames)]
        /\ SlotTargets' = SlotTargets \cup {t}
    BY <1>2, <1>3, <2>1, <2>2, AppendSlot
  <2>6. /\ reentered' \subseteq Importable /\ reentered \subseteq reentered'
        /\ t \in OnStack \cap Importable => t \in reentered'
    BY <1>1, <1>3
  <2>7. Alive' = Alive
    BY <1>1, <2>1 DEF Alive
  <2>8. ASSUME NEW x, Visible(x) PROVE Visible(x)'
    BY <2>4, <2>7, <2>8 DEF Visible
  <2>9. t \in Importable => Visible(t)'
    BY <1>3, <2>3, <2>4, <2>7 DEF Visible
  <2>10. SlotsExposed'
    BY <1>4, <1>5, <2>1, <2>2, <2>3, <2>5, <2>6, <2>8, <2>9 DEF SlotsExposed
  <2> QED
    BY <1>1, <1>3, <2>1, <2>4, <2>5, <2>6, <2>10, EmitKeeps
<1> QED
  BY <1>6, <1>7

\* remove_unreachable_blocks keeps a part of the body.
LEMMA SurvivorsFacts ==
    ASSUME NEW refs \in Seq(Ref), NEW kept \in Survivors(refs)
    PROVE  /\ kept \in Seq(Ref)
           /\ \A k \in DOMAIN kept : \E i \in DOMAIN refs : kept[k] = refs[i]
<1> DEFINE n == Cardinality(StaysReachable(refs))
<1>1. StaysReachable(refs) \in SUBSET (1..Len(refs)) /\ Len(refs) \in Nat
  BY DEF StaysReachable
<1>2. n \in Nat
  <2>1. IsFiniteSet(1..Len(refs))
    BY <1>1, FS_Interval
  <2>2. IsFiniteSet(StaysReachable(refs))
    BY <1>1, <2>1, FS_Subset
  <2> QED
    BY <2>2, FS_CardinalityType
<1>3. PICK m \in [1..n -> StaysReachable(refs)] : kept = [k \in 1..n |-> refs[m[k]]]
  BY DEF Survivors
<1> HIDE DEF n
<1>4. \A k \in 1..n : m[k] \in DOMAIN refs /\ refs[m[k]] \in Ref
  BY <1>1, <1>3
<1>5. DOMAIN kept = 1..n /\ \A k \in 1..n : kept[k] = refs[m[k]]
  BY <1>3
<1>6. kept \in Seq(Ref)
  BY <1>2, <1>3, <1>4
<1> QED
  BY <1>4, <1>5, <1>6

LEMMA FinishImportKeeps == ASSUME IInv, FinishImport PROVE IInv'
<1>0. PICK f, after : f = Top.sym /\ after = Top.after
  OBVIOUS
<1>1. /\ phase = "import" /\ stack # << >> /\ stack' = Popped
      /\ linkage' = ImportedLinkage(f, after)
      /\ IF InFunction
         THEN \E kept \in Survivors(body[f]) : body' = [body EXCEPT ![f] = kept]
         ELSE UNCHANGED body
      /\ UNCHANGED <<prog, todo, present, slots, reentered, phase, erased>>
  BY <1>0 DEF FinishImport, inlineVars
<1>2. /\ present \in Seq(Defined) /\ Alive = Elements(present) /\ erased = {}
      /\ body \in [Elements(present) -> Seq(Ref)]
      /\ linkage \in [DOMAIN linkage -> Linkages]
      /\ \A g \in Elements(present) : \A i \in DOMAIN body[g] :
            body[g][i].to \in Outside \cup Elements(present) \cup DOMAIN slots
      /\ stack \in Seq(Frames) /\ DOMAIN slots \subseteq Allocs
  BY <1>1 DEF IInv, Shape, Alive, References
<1>3. /\ Len(stack) \in DOMAIN stack /\ Top \in Frames /\ Top.sym \in OnStack
      /\ stack[Len(stack)] = Top
  BY <1>1, <1>2, AdvancedFacts DEF Top
<1>4. /\ f \in Importable \cup Allocs /\ after \in {"nothing", "internal"}
      /\ after = "internal" => f \in Importable
      /\ f \in OnStack
  BY <1>0, <1>3 DEF Frames, IInv, Entered
<1>5. /\ stack' \in Seq(Frames)
      /\ DOMAIN stack = DOMAIN stack' \cup {Len(stack)}
      /\ \A i \in DOMAIN stack' : stack'[i] = stack[i]
  <2>1. stack' = SubSeq(stack, 1, Len(stack) - 1) /\ stack # << >>
    BY <1>1 DEF Popped
  <2>2. Len(stack) \in Nat /\ Len(stack) >= 1 /\ DOMAIN stack = 1..Len(stack)
    BY <1>2, <2>1
  <2>3. stack' \in Seq(Frames) /\ Len(stack') = Len(stack) - 1
    BY <1>2, <2>1, <2>2
  <2>4. \A i \in 1..(Len(stack) - 1) : stack'[i] = stack[i]
    BY <1>2, <2>1, <2>2
  <2>5. DOMAIN stack' = 1..(Len(stack) - 1)
    BY <2>3
  <2> QED
    BY <2>2, <2>3, <2>4, <2>5
<1>6. OnStack' \subseteq OnStack
  BY <1>5 DEF OnStack
<1>7. /\ linkage' \in [DOMAIN linkage' -> Linkages]
      /\ DOMAIN linkage \subseteq DOMAIN linkage'
      /\ \A g \in DOMAIN linkage :
            linkage'[g] = linkage[g] \/ (g = f /\ f \in Importable /\ linkage'[g] = "internal")
      /\ after = "internal" => f \in DOMAIN linkage' /\ linkage'[f] = "internal"
  BY <1>1, <1>2, <1>4 DEF ImportedLinkage, With, Linkages
<1>8. Alive' = Alive
  BY <1>1 DEF Alive
<1>9. /\ body' \in [Elements(present) -> Seq(Ref)]
      /\ \A g \in Elements(present) : \A i \in DOMAIN body'[g] :
            body'[g][i].to \in Outside \cup Elements(present) \cup DOMAIN slots
  <2>1. CASE InFunction
    <3>1. PICK kept \in Survivors(body[f]) : body' = [body EXCEPT ![f] = kept]
      BY <1>1, <2>1
    <3>2. f \in Elements(present)
      BY <1>0, <1>2, <1>4, <2>1, NamesApart DEF InFunction, IInv, Entered
    <3>3. body[f] \in Seq(Ref)
      BY <1>2, <3>2
    <3>4. /\ kept \in Seq(Ref)
          /\ \A k \in DOMAIN kept : \E i \in DOMAIN body[f] : kept[k] = body[f][i]
      BY <3>1, <3>3, SurvivorsFacts
    <3>5. /\ body' \in [Elements(present) -> Seq(Ref)] /\ body'[f] = kept
          /\ \A g \in Elements(present) : g # f => body'[g] = body[g]
      BY <1>2, <3>1, <3>2, <3>4
    <3>6. ASSUME NEW g \in Elements(present), NEW i \in DOMAIN body'[g]
          PROVE  body'[g][i].to \in Outside \cup Elements(present) \cup DOMAIN slots
      <4>1. CASE g = f
        <5>1. PICK j \in DOMAIN body[f] : body'[g][i] = body[f][j]
          BY <3>4, <3>5, <3>6, <4>1
        <5> QED
          BY <1>2, <3>2, <5>1
      <4>2. CASE g # f
        BY <1>2, <3>5, <3>6, <4>2
      <4> QED
        BY <4>1, <4>2
    <3> QED
      BY <3>5, <3>6
  <2>2. CASE ~InFunction
    BY <1>1, <1>2, <2>2
  <2> QED
    BY <2>1, <2>2
<1>10. Shape'
  BY <1>1, <1>2, <1>5, <1>7, <1>8, <1>9 DEF IInv, Shape
<1>11. Entered'
  BY <1>1, <1>5, <1>6 DEF IInv, Entered
<1>12. Copies'
  <2> SUFFICES ASSUME NEW g \in (Elements(present) \cap Importable) \ Elements(Locals)
               PROVE  CopyIsMarked(g)'
    BY <1>1 DEF IInv, Copies
  <2>1. CopyIsMarked(g)
    BY DEF IInv, Copies
  <2>2. CASE g \in DOMAIN linkage /\ linkage[g] \in {"internal", "weak"}
    BY <1>7, <2>2 DEF CopyIsMarked
  <2>3. ASSUME NEW i \in DOMAIN stack, stack[i].sym = g, stack[i].after = "internal"
        PROVE  CopyIsMarked(g)'
    <3>1. CASE i \in DOMAIN stack'
      BY <1>5, <2>3, <3>1 DEF CopyIsMarked
    <3>2. CASE i = Len(stack)
      BY <1>0, <1>3, <1>7, <2>3, <3>2 DEF CopyIsMarked
    <3> QED
      BY <1>5, <3>1, <3>2
  <2> QED
    BY <2>1, <2>2, <2>3 DEF CopyIsMarked
<1>13. References'
  BY <1>1, <1>2, <1>8, <1>9 DEF IInv, References
<1>14. SlotsExposed'
  <2>1. SlotTargets' = SlotTargets
    BY <1>1 DEF SlotTargets
  <2> SUFFICES ASSUME NEW x \in SlotTargets
               PROVE  /\ x \in DOMAIN slots' \/ x \in reentered' \/ Visible(x)'
                      /\ x \in Elements(present') \cup DOMAIN slots'
                      /\ x \in OnStack' \cap Importable => x \in reentered'
    BY <2>1 DEF SlotsExposed
  <2>2. /\ x \in DOMAIN slots \/ x \in reentered \/ Visible(x)
        /\ x \in Elements(present) \cup DOMAIN slots
        /\ x \in OnStack \cap Importable => x \in reentered
    BY DEF IInv, SlotsExposed
  <2>3. Visible(x) => Visible(x)' \/ x \in reentered
    BY <1>4, <1>7, <1>8, <2>2 DEF Visible
  <2> QED
    BY <1>1, <1>6, <2>2, <2>3
<1> QED
  BY <1>1, <1>10, <1>11, <1>12, <1>13, <1>14, StillImporting DEF IInv

LEMMA EndImportKeeps == ASSUME IInv, EndImport PROVE IInv'
<1>1. /\ phase = "import" /\ stack = << >> /\ todo = << >> /\ phase' = "inline"
      /\ present' = Append(present, CMain)
      /\ body' = With(body, CMain, <<Call(RustMain)>>)
      /\ linkage' = [f \in Elements(present') |->
                        IF f \in DOMAIN linkage THEN linkage[f] ELSE "external"]
      /\ calls' = [s \in SymbolNames |-> ModuleCount(body', "call", s)]
      /\ taken' = [s \in SymbolNames |-> ModuleCount(body', "addr", s)]
      /\ UNCHANGED <<prog, todo, stack, slots, reentered, erased>>
  BY DEF EndImport
<1>2. /\ present \in Seq(Defined) /\ Alive = Elements(present) /\ erased = {}
      /\ body \in [Elements(present) -> Seq(Ref)]
      /\ linkage \in [DOMAIN linkage -> Linkages]
      /\ \A g \in Elements(present) : \A i \in DOMAIN body[g] :
            body[g][i].to \in Outside \cup Elements(present) \cup DOMAIN slots
      /\ DOMAIN slots \subseteq Allocs
  BY <1>1 DEF IInv, Shape, Alive, References
<1>3. /\ present' \in Seq(Defined) /\ Elements(present') = Elements(present) \cup {CMain}
  BY <1>1, <1>2, NamesApart, ElementsOfAppend
<1>4. Alive' = Elements(present') /\ IsFiniteSet(Alive')
  <2>1. IsFiniteSet(Elements(present'))
    BY <1>3, ElementsFinite
  <2> QED
    BY <1>1, <1>2, <2>1 DEF Alive
<1>5. RustMain \in Elements(present) /\ RustMain \in Importable
  <2>1. RustMain \in Elements(Locals) /\ RustMain \in Importable
    BY SymbolsAssumption DEF Elements
  <2>2. Elements(todo) = {}
    BY <1>1 DEF Elements
  <2> QED
    BY <2>1, <2>2 DEF IInv, References
<1>6. /\ Call(RustMain) \in Ref /\ Call(RustMain).to = RustMain
      /\ <<Call(RustMain)>> \in Seq(Ref) /\ DOMAIN <<Call(RustMain)>> = {1}
      /\ <<Call(RustMain)>>[1] = Call(RustMain)
  <2>1. Call(RustMain) \in Ref /\ Call(RustMain).to = RustMain
    BY <1>5, NamesApart DEF Call, Ref
  <2> QED
    BY <2>1
<1>7. /\ body' \in [Elements(present') -> Seq(Ref)] /\ body'[CMain] = <<Call(RustMain)>>
      /\ \A g \in Elements(present) : g # CMain => body'[g] = body[g]
  BY <1>1, <1>2, <1>3, <1>6 DEF With
<1>8. /\ DOMAIN linkage' = Elements(present')
      /\ linkage' \in [DOMAIN linkage' -> Linkages]
      /\ \A g \in Elements(present) : g \in DOMAIN linkage => linkage'[g] = linkage[g]
  BY <1>1, <1>2, <1>3 DEF Linkages
<1>9. Shape'
  BY <1>1, <1>3, <1>4, <1>7, <1>8 DEF IInv, Shape
<1>10. OnStack' = {} /\ OnStack = {}
  BY <1>1 DEF OnStack
<1>11. Entered'
  BY <1>1, <1>10 DEF Entered
<1>12. Copies'
  <2> SUFFICES ASSUME NEW g \in (Elements(present') \cap Importable) \ Elements(Locals)
               PROVE  CopyIsMarked(g)'
    BY <1>1 DEF IInv, Copies
  <2>1. g \in Elements(present)
    BY <1>3, NamesApart
  <2>2. CopyIsMarked(g)
    BY <2>1 DEF IInv, Copies
  <2>3. g \in DOMAIN linkage /\ linkage[g] \in {"internal", "weak"}
    BY <1>1, <2>2 DEF CopyIsMarked
  <2> QED
    BY <1>3, <1>8, <2>1, <2>3 DEF CopyIsMarked
<1>13. References'
  <2>1. ASSUME NEW g \in Alive', NEW i \in DOMAIN body'[g]
        PROVE  body'[g][i].to \in Outside \cup Alive' \cup DOMAIN slots'
    <3>1. CASE g = CMain
      BY <1>1, <1>3, <1>4, <1>5, <1>6, <1>7, <2>1, <3>1
    <3>2. CASE g # CMain
      BY <1>1, <1>2, <1>3, <1>4, <1>7, <2>1, <3>2
    <3> QED
      BY <3>1, <3>2
  <2>2. Elements(Locals) \subseteq Elements(todo') \cup Elements(present')
    BY <1>1, <1>3 DEF IInv, References
  <2> QED
    BY <2>1, <2>2 DEF References
<1>14. SlotsExposed'
  <2>1. SlotTargets' = SlotTargets
    BY <1>1 DEF SlotTargets
  <2>2. ASSUME NEW x, Visible(x) PROVE Visible(x)'
    BY <1>2, <1>3, <1>4, <1>8, <2>2 DEF Visible
  <2> QED
    BY <1>1, <1>3, <1>10, <2>1, <2>2 DEF IInv, SlotsExposed
<1>15. \A kind : \A s \in SymbolNames : ModuleCount(body', kind, s) \in Nat
  BY <1>4, <1>7, RefSetFinite
<1>16. CountsTyped' /\ CountsSafe'
  BY <1>1, <1>15 DEF CountsTyped, CountsSafe
<1>17. RelocationsResolve'
  BY <1>1 DEF RelocationsResolve
<1> QED
  BY <1>9, <1>11, <1>12, <1>13, <1>14, <1>16, <1>17 DEF IInv

-----------------------------------------------------------------------------
(* The inliner.                                                            *)

\* Splicing brings in no reference that neither body had.
LEMMA SpliceElements ==
    ASSUME NEW S, NEW refs \in Seq(S), NEW i \in 1..Len(refs), NEW new \in Seq(S),
           NEW j \in DOMAIN Splice(refs, i, new)
    PROVE  \/ \E k \in DOMAIN refs : Splice(refs, i, new)[j] = refs[k]
           \/ \E k \in DOMAIN new : Splice(refs, i, new)[j] = new[k]
<1>1. /\ i \in Nat /\ 1 <= i /\ i <= Len(refs) /\ Len(refs) \in Nat /\ Len(new) \in Nat
      /\ DOMAIN refs = 1..Len(refs) /\ DOMAIN new = 1..Len(new)
  OBVIOUS
<1>0. Splice(refs, i, new) \in Seq(S) /\ Spliced(Splice(refs, i, new), refs, i, new)
  BY SpliceFacts
<1>2. Len(Splice(refs, i, new)) = Len(refs) + Len(new) - 1
  BY <1>0 DEF Spliced
<1>3. j \in 1..(Len(refs) + Len(new) - 1)
  BY <1>0, <1>2
<1>4. CASE j < i
  <2>1. j \in 1..(i - 1) /\ j \in 1..Len(refs)
    BY <1>1, <1>3, <1>4
  <2>2. Splice(refs, i, new)[j] = refs[j]
    BY <1>0, <2>1 DEF Spliced
  <2> QED
    BY <1>1, <2>1, <2>2
<1>5. CASE j >= i /\ j <= i - 1 + Len(new)
  <2>1. j - i + 1 \in 1..Len(new) /\ i - 1 + (j - i + 1) = j
    BY <1>1, <1>3, <1>5
  <2>2. Splice(refs, i, new)[i - 1 + (j - i + 1)] = new[j - i + 1]
    BY <1>0, <2>1 DEF Spliced
  <2> QED
    BY <1>1, <2>1, <2>2
<1>6. CASE j > i - 1 + Len(new)
  <2> DEFINE k == j - (i - 1 + Len(new))
  <2>1. k \in 1..(Len(refs) - i) /\ i - 1 + Len(new) + k = j /\ i + k \in 1..Len(refs)
    BY <1>1, <1>3, <1>6
  <2> HIDE DEF k
  <2>2. \A l \in 1..(Len(refs) - i) : Splice(refs, i, new)[i - 1 + Len(new) + l] = refs[i + l]
    BY <1>0 DEF Spliced
  <2>3. Splice(refs, i, new)[j] = refs[i + k]
    BY <2>1, <2>2
  <2> QED
    BY <1>1, <2>1, <2>3
<1> QED
  BY <1>1, <1>3, <1>4, <1>5, <1>6

\* remove_call_site and add_all keep a count at least as large as what it
\* counts, and so does remove_all of a body that is erased.
LEMMA CountsBound ==
    ASSUME NEW caller, NEW i, NEW callee, CallAt(Alive, body, caller, i, callee),
           NEW kind, NEW count, NEW s, count[s] \in Nat,
           count[s] >= ModuleCount(body, kind, s)
    PROVE  /\ CountsAfter(count, kind, callee, s) \in Nat
           /\ CountsAfter(count, kind, callee, s) >=
                 ModuleCount(WithSplice(body, caller, i, callee), kind, s)
           /\ CountsErased(count, kind, callee, s, FALSE) \in Nat
           /\ CountsErased(count, kind, callee, s, FALSE) >=
                 ModuleCount(WithSplice(body, caller, i, callee), kind, s)
           /\ CountsErased(count, kind, callee, s, TRUE) \in Nat
           /\ CountsErased(count, kind, callee, s, TRUE) >=
                 ModuleCount(Without(WithSplice(body, caller, i, callee), callee), kind, s)
<1> DEFINE one == IF kind = "call" /\ s = callee THEN 1 ELSE 0
           spliced == WithSplice(body, caller, i, callee)
           old == ModuleCount(body, kind, s)
           new == ModuleCount(spliced, kind, s)
           left == ModuleCount(Without(spliced, callee), kind, s)
           added == CountIn(body[callee], kind, s)
           after == CountsAfter(count, kind, callee, s)
<1>0. IsFiniteSet(Alive) /\ callee \in Alive /\ body \in [Alive -> Seq(Ref)]
  BY DEF CallAt
<1>1. /\ spliced \in [Alive -> Seq(Ref)] /\ spliced[callee] = body[callee]
      /\ one = 1 => old >= 1
      /\ new <= old - one + added
  BY SpliceCount
<1> HIDE DEF spliced
<1>2. old \in Nat /\ new \in Nat
  BY <1>0, <1>1, RefSetFinite
<1>3. added \in Nat
  <2>1. body[callee] \in Seq(Ref)
    BY <1>0
  <2> QED
    BY <2>1, RefsInFinite
<1>4. left <= new - added /\ left \in Nat
  <2>1. /\ Without(spliced, callee) \in [Alive \ {callee} -> Seq(Ref)]
        /\ IsFiniteSet(Alive \ {callee})
        /\ left <= new - CountIn(spliced[callee], kind, s)
    BY <1>0, <1>1, EraseCount
  <2>2. left \in Nat
    BY <2>1, RefSetFinite
  <2> QED
    BY <1>1, <2>1, <2>2
<1>5. after = (IF one = 1 THEN Saturating(count[s], 1) ELSE count[s]) + added
  BY DEF CountsAfter
<1>6. /\ CountsErased(count, kind, callee, s, FALSE) = Saturating(after, 0)
      /\ CountsErased(count, kind, callee, s, TRUE) = Saturating(after, added)
  BY DEF CountsErased
<1>7. one \in {0, 1}
  OBVIOUS
<1> HIDE DEF one, old, new, left, added, after
<1>8. after \in Nat /\ after >= count[s] - one + added
  <2>1. count[s] \in Nat /\ count[s] >= old
    BY DEF old
  <2>2. PICK c \in Nat : c = count[s]
    BY <2>1
  <2>3. CASE one = 1
    BY <1>1, <1>2, <1>3, <1>5, <2>1, <2>2, <2>3 DEF Saturating
  <2>4. CASE one = 0
    BY <1>3, <1>5, <2>2, <2>4
  <2> QED
    BY <1>7, <2>3, <2>4
<1>9. after >= new
  <2>1. count[s] >= old
    BY DEF old
  <2> QED
    BY <1>1, <1>2, <1>3, <1>7, <1>8, <2>1
<1>10. /\ Saturating(after, 0) \in Nat /\ Saturating(after, 0) >= new
       /\ Saturating(after, added) \in Nat /\ Saturating(after, added) >= left
  BY <1>2, <1>3, <1>4, <1>8, <1>9 DEF Saturating
<1> QED
  BY <1>6, <1>8, <1>9, <1>10 DEF spliced, new, left, after

\* No reference is left where both counts are zero.
LEMMA Uncounted ==
    ASSUME NEW D, IsFiniteSet(D), NEW bodies \in [D -> Seq(Ref)], NEW s,
           ModuleCount(bodies, "call", s) = 0, ModuleCount(bodies, "addr", s) = 0
    PROVE  \A g \in D : \A j \in DOMAIN bodies[g] : bodies[g][j].to # s
<1>1. RefSet(bodies, "call", s) = {}
  BY RefSetFinite, FS_EmptySet
<1>2. RefSet(bodies, "addr", s) = {}
  BY RefSetFinite, FS_EmptySet
<1> SUFFICES ASSUME NEW g \in D, NEW j \in DOMAIN bodies[g], bodies[g][j].to = s
             PROVE  FALSE
  OBVIOUS
<1>3. bodies[g][j] \in Ref
  OBVIOUS
<1>4. bodies[g][j].kind = "call" \/ bodies[g][j].kind = "addr"
  BY <1>3 DEF Ref
<1>5. IsRef(bodies[g][j], "call", s) \/ IsRef(bodies[g][j], "addr", s)
  BY <1>4 DEF IsRef
<1>6. DOMAIN bodies = D
  OBVIOUS
<1> QED
  BY <1>1, <1>2, <1>5, <1>6, RefSetMembers

\* What a step of the inliner that erases some functions leaves true.
LEMMA ErasureKeeps ==
    ASSUME IInv, phase # "import", phase' # "import",
           phase' \in {"inline", "sweep", "done"},
           UNCHANGED <<prog, todo, stack, present, slots, linkage, reentered>>,
           erased' \subseteq Elements(present),
           body' \in [Alive' -> Seq(Ref)],
           \A g \in Alive' : \A j \in DOMAIN body'[g] :
               body'[g][j].to \in Outside \cup Alive' \cup DOMAIN slots,
           \A x \in Alive : linkage[x] # "internal" => x \in Alive',
           CountsTyped', CountsSafe', RelocationsResolve'
    PROVE  IInv'
<1>1. Shape'
  BY DEF IInv, Shape
<1>2. OnStack' = OnStack
  BY DEF OnStack
<1>3. Entered'
  BY <1>2 DEF IInv, Entered
<1>4. Copies'
  BY DEF IInv, Copies, CopyIsMarked
<1>5. References'
  BY DEF IInv, References
<1>6. SlotsExposed'
  <2>1. SlotTargets' = SlotTargets
    BY DEF SlotTargets
  <2>2. ASSUME NEW x, Visible(x) PROVE Visible(x)'
    BY <2>2 DEF Visible
  <2> QED
    BY <1>2, <2>1, <2>2 DEF IInv, SlotsExposed
<1> QED
  BY <1>1, <1>3, <1>4, <1>5, <1>6 DEF IInv

LEMMA InlineCallKeeps == ASSUME IInv, InlineCall PROVE IInv'
<1>1. /\ phase = "inline" /\ phase' = phase /\ Caller \in Alive
      /\ UNCHANGED <<prog, todo, stack, present, slots, linkage, reentered, undefined>>
  BY DEF InlineCall, InInline, importVars
<1>2. PICK f, i, callee, gone :
         /\ f = Caller /\ i \in FirstInlinable(f) /\ callee = body[f][i].to
         /\ gone \in BOOLEAN /\ gone = (SingleSite(callee) /\ Unreferenced(callee))
         /\ body' = IF gone
                    THEN [g \in DOMAIN body \ {callee} |->
                             [body EXCEPT ![f] = Inlined(f, i)][g]]
                    ELSE [body EXCEPT ![f] = Inlined(f, i)]
         /\ erased' = IF gone THEN erased \cup {callee} ELSE erased
         /\ calls' = [s \in SymbolNames |-> CountsErased(calls, "call", callee, s, gone)]
         /\ taken' = [s \in SymbolNames |-> CountsErased(taken, "addr", callee, s, gone)]
  <2>1. PICK j \in FirstInlinable(Caller) :
           LET callee == body[Caller][j].to
               single == SingleSite(callee)
               gone == single /\ Unreferenced(callee)
               spliced == [body EXCEPT ![Caller] = Inlined(Caller, j)]
           IN /\ body' = IF gone
                         THEN [f \in DOMAIN body \ {callee} |-> spliced[f]]
                         ELSE spliced
              /\ erased' = IF gone THEN erased \cup {callee} ELSE erased
              /\ calls' = [s \in SymbolNames |->
                             CountsErased(calls, "call", callee, s, gone)]
              /\ taken' = [s \in SymbolNames |->
                             CountsErased(taken, "addr", callee, s, gone)]
    BY DEF InlineCall
  <2>2. (SingleSite(body[Caller][j].to) /\ Unreferenced(body[Caller][j].to)) \in BOOLEAN
    BY DEF SingleSite, Unreferenced
  <2> QED
    BY <2>1, <2>2, Zenon
<1>3. /\ f \in Alive /\ i \in DOMAIN body[f] /\ Inlinable(f, body[f][i])
  BY <1>1, <1>2 DEF FirstInlinable
<1>4. /\ body[f][i].kind = "call" /\ callee # f /\ callee \in Alive
      /\ linkage[callee] = "internal"
  BY <1>2, <1>3 DEF Inlinable
<1>5. /\ body \in [Alive -> Seq(Ref)] /\ present \in Seq(Defined)
      /\ erased \subseteq Elements(present) /\ Elements(present) \subseteq Defined
  <2>1. present \in Seq(Defined) => Elements(present) \subseteq Defined
    BY DEF Elements
  <2> QED
    BY <2>1 DEF IInv, Shape
<1>6. IsFiniteSet(Alive)
  <2>1. IsFiniteSet(Elements(present))
    BY <1>5, ElementsFinite
  <2> QED
    BY <2>1, FS_Difference DEF Alive
<1>7. CallAt(Alive, body, f, i, callee)
  <2>1. body[f] \in Seq(Ref)
    BY <1>3, <1>5
  <2>2. i \in 1..Len(body[f])
    BY <1>3, <2>1
  <2> QED
    BY <1>2, <1>3, <1>4, <1>5, <1>6, <2>2 DEF CallAt, IsRef
<1>8. PICK spliced : spliced = WithSplice(body, f, i, callee)
  OBVIOUS
<1>9. spliced = [body EXCEPT ![f] = Inlined(f, i)]
  BY <1>2, <1>8 DEF WithSplice, Splice, Inlined
<1>10. spliced \in [Alive -> Seq(Ref)]
  BY <1>7, <1>8, SpliceCount
<1>11. body' = IF gone THEN Without(spliced, callee) ELSE spliced
  BY <1>2, <1>5, <1>9, <1>10 DEF Without
<1>12. /\ calls \in [SymbolNames -> Nat] /\ taken \in [SymbolNames -> Nat]
       /\ \A s \in SymbolNames : /\ calls[s] >= ModuleCount(body, "call", s)
                                 /\ taken[s] >= ModuleCount(body, "addr", s)
  BY <1>1 DEF IInv, CountsTyped, CountsSafe
<1>13. ASSUME NEW s \in SymbolNames
       PROVE  /\ calls'[s] \in Nat /\ calls'[s] >= ModuleCount(body', "call", s)
              /\ taken'[s] \in Nat /\ taken'[s] >= ModuleCount(body', "addr", s)
  <2>1. calls[s] \in Nat /\ taken[s] \in Nat
    BY <1>12
  <2>2. /\ calls'[s] = CountsErased(calls, "call", callee, s, gone)
        /\ taken'[s] = CountsErased(taken, "addr", callee, s, gone)
    BY <1>2
  <2>3. /\ calls[s] >= ModuleCount(body, "call", s)
        /\ taken[s] >= ModuleCount(body, "addr", s)
    BY <1>12
  <2>4. CASE gone = TRUE
    BY <1>7, <1>8, <1>11, <2>1, <2>2, <2>3, <2>4, CountsBound
  <2>5. CASE gone = FALSE
    BY <1>7, <1>8, <1>11, <2>1, <2>2, <2>3, <2>5, CountsBound
  <2> QED
    BY <1>2, <2>4, <2>5
<1>14. CountsTyped' /\ CountsSafe'
  <2>1. DOMAIN calls' = SymbolNames /\ DOMAIN taken' = SymbolNames
    BY <1>2
  <2>2. calls' \in [SymbolNames -> Nat] /\ taken' \in [SymbolNames -> Nat]
    BY <1>2, <1>13, <2>1
  <2> QED
    BY <1>13, <2>2 DEF CountsTyped, CountsSafe
<1>15. RelocationsResolve'
  BY <1>1 DEF RelocationsResolve
<1>16. Alive' = IF gone THEN Alive \ {callee} ELSE Alive
  BY <1>1, <1>2 DEF Alive
<1>17. body' \in [Alive' -> Seq(Ref)]
  <2>1. Without(spliced, callee) \in [Alive \ {callee} -> Seq(Ref)]
    BY <1>10 DEF Without
  <2> QED
    BY <1>10, <1>11, <1>16, <2>1
<1>18. \A g \in Alive : \A j \in DOMAIN spliced[g] :
          spliced[g][j].to \in Outside \cup Alive \cup DOMAIN slots
  <2> SUFFICES ASSUME NEW g \in Alive, NEW j \in DOMAIN spliced[g]
               PROVE  spliced[g][j].to \in Outside \cup Alive \cup DOMAIN slots
    OBVIOUS
  <2>1. \A h \in Alive : \A k \in DOMAIN body[h] :
           body[h][k].to \in Outside \cup Alive \cup DOMAIN slots
    BY DEF IInv, References
  <2>2. CASE g # f
    <3>1. spliced[g] = body[g]
      BY <1>5, <1>9, <2>2
    <3> QED
      BY <2>1, <3>1
  <2>3. CASE g = f
    <3>1. spliced[g] = Splice(body[f], i, body[callee])
      BY <1>3, <1>5, <1>8, <2>3 DEF WithSplice
    <3>2. /\ body[f] \in Seq(Ref) /\ body[callee] \in Seq(Ref) /\ i \in 1..Len(body[f])
      BY <1>3, <1>4, <1>5
    <3>3. \/ \E k \in DOMAIN body[f] : spliced[g][j] = body[f][k]
          \/ \E k \in DOMAIN body[callee] : spliced[g][j] = body[callee][k]
      BY <3>1, <3>2, SpliceElements
    <3> QED
      BY <1>3, <1>4, <2>1, <3>3
  <2> QED
    BY <2>2, <2>3
<1>19. gone => \A g \in Alive : \A j \in DOMAIN spliced[g] : spliced[g][j].to # callee
  <2> SUFFICES ASSUME gone
               PROVE  \A g \in Alive : \A j \in DOMAIN spliced[g] : spliced[g][j].to # callee
    OBVIOUS
  <2>1. /\ CountsAfter(calls, "call", callee, callee) = 0
        /\ CountsAfter(taken, "addr", callee, callee) = 0
    BY <1>2 DEF Unreferenced
  <2>2. callee \in SymbolNames
    BY <1>4, <1>5, NamesApart DEF Alive
  <2>3. /\ calls[callee] \in Nat /\ taken[callee] \in Nat
        /\ calls[callee] >= ModuleCount(body, "call", callee)
        /\ taken[callee] >= ModuleCount(body, "addr", callee)
    BY <1>12, <2>2
  <2>4. /\ 0 >= ModuleCount(spliced, "call", callee)
        /\ 0 >= ModuleCount(spliced, "addr", callee)
    BY <1>7, <1>8, <2>1, <2>3, CountsBound
  <2>5. /\ ModuleCount(spliced, "call", callee) \in Nat
        /\ ModuleCount(spliced, "addr", callee) \in Nat
    BY <1>6, <1>10, RefSetFinite
  <2>6. /\ ModuleCount(spliced, "call", callee) = 0
        /\ ModuleCount(spliced, "addr", callee) = 0
    BY <2>4, <2>5
  <2> QED
    BY <1>6, <1>10, <2>6, Uncounted
<1>20. \A g \in Alive' : \A j \in DOMAIN body'[g] :
          body'[g][j].to \in Outside \cup Alive' \cup DOMAIN slots
  <2>1. CASE gone
    <3>1. \A g \in Alive' : g \in Alive /\ body'[g] = spliced[g]
      BY <1>10, <1>11, <1>16, <2>1 DEF Without
    <3> QED
      BY <1>16, <1>18, <1>19, <2>1, <3>1
  <2>2. CASE ~gone
    BY <1>11, <1>16, <1>18, <2>2
  <2> QED
    BY <2>1, <2>2
<1>21. \A x \in Alive : linkage[x] # "internal" => x \in Alive'
  BY <1>4, <1>16
<1>22. erased' \subseteq Elements(present)
  BY <1>2, <1>4, <1>5 DEF Alive
<1> QED
  BY <1>1, <1>14, <1>15, <1>17, <1>20, <1>21, <1>22, ErasureKeeps

LEMMA NextCallerKeeps == ASSUME IInv, NextCaller PROVE IInv'
<1>1. /\ phase = "inline" /\ phase' \in {"inline", "sweep"}
      /\ UNCHANGED <<prog, todo, stack, present, slots, linkage, reentered,
                     body, erased, calls, taken>>
  BY DEF NextCaller, InInline, importVars
<1>2. Alive' = Alive
  BY <1>1 DEF Alive
<1>3. /\ erased' \subseteq Elements(present) /\ body' \in [Alive' -> Seq(Ref)]
      /\ \A g \in Alive' : \A j \in DOMAIN body'[g] :
            body'[g][j].to \in Outside \cup Alive' \cup DOMAIN slots
  BY <1>1, <1>2 DEF IInv, Shape, References
<1>4. CountsTyped' /\ CountsSafe' /\ RelocationsResolve'
  BY <1>1 DEF IInv, CountsTyped, CountsSafe, RelocationsResolve
<1> QED
  BY <1>1, <1>2, <1>3, <1>4, ErasureKeeps

LEMMA SweepDeadKeeps == ASSUME IInv, SweepDead PROVE IInv'
<1>1. /\ phase = "sweep" /\ phase' = "sweep" /\ erased' = erased \cup Dead
      /\ body' = [f \in DOMAIN body \ Dead |-> body[f]]
      /\ UNCHANGED <<prog, todo, stack, present, slots, linkage, reentered>>
  BY DEF SweepDead, importVars
<1>2. /\ body \in [Alive -> Seq(Ref)] /\ erased \subseteq Elements(present)
      /\ Dead \subseteq Alive
  BY DEF IInv, Shape, Dead
<1>3. Alive' = Alive \ Dead /\ erased' \subseteq Elements(present)
  BY <1>1, <1>2 DEF Alive
<1>4. /\ body' \in [Alive' -> Seq(Ref)] /\ \A g \in Alive' : body'[g] = body[g]
  BY <1>1, <1>2, <1>3
<1>5. ASSUME NEW g \in Alive', NEW j \in DOMAIN body'[g]
      PROVE  body'[g][j].to \in Outside \cup Alive' \cup DOMAIN slots
  <2>1. g \in Alive /\ j \in DOMAIN body[g] /\ body'[g][j] = body[g][j]
    BY <1>3, <1>4, <1>5
  <2>2. body[g][j].to \in Outside \cup Alive \cup DOMAIN slots
    BY <2>1 DEF IInv, References
  <2>3. body[g][j].to \in SymbolNames
    <3>1. body[g] \in Seq(Ref)
      BY <1>2, <2>1
    <3>2. body[g][j] \in Ref
      BY <2>1, <3>1
    <3> QED
      BY <3>2 DEF Ref
  <2>4. body[g][j].to \in Referenced
    BY <1>2, <2>1, <2>3 DEF Referenced
  <2> QED
    BY <1>3, <2>1, <2>2, <2>4 DEF Dead
<1>6. \A x \in Alive : linkage[x] # "internal" => x \in Alive'
  BY <1>3 DEF Dead
<1>7. CountsTyped' /\ CountsSafe' /\ RelocationsResolve'
  BY <1>1 DEF CountsTyped, CountsSafe, RelocationsResolve
<1> QED
  BY <1>1, <1>3, <1>4, <1>5, <1>6, <1>7, ErasureKeeps

LEMMA EmitObjectKeeps == ASSUME IInv, EmitObject PROVE IInv'
<1>1. /\ phase = "sweep" /\ phase' = "done"
      /\ undefined' = CallFixups \cup (SlotTargets \ (TextSymbols \cup DOMAIN slots))
      /\ UNCHANGED <<prog, todo, stack, present, slots, linkage, reentered, body, erased>>
  BY DEF EmitObject, importVars, inlineVars
<1>2. Alive' = Alive
  BY <1>1 DEF Alive
<1>3. /\ erased' \subseteq Elements(present) /\ body' \in [Alive' -> Seq(Ref)]
      /\ \A g \in Alive' : \A j \in DOMAIN body'[g] :
            body'[g][j].to \in Outside \cup Alive' \cup DOMAIN slots
  BY <1>1, <1>2 DEF IInv, Shape, References
<1>4. CallFixups \subseteq Outside
  <2>1. DOMAIN body = Alive
    BY DEF IInv, Shape
  <2> QED
    BY <2>1 DEF CallFixups, Referenced, IInv, References
<1>5. SlotTargets \ (TextSymbols \cup DOMAIN slots) \subseteq reentered
  BY DEF IInv, SlotsExposed, Visible, TextSymbols
<1>6. CountsTyped' /\ CountsSafe' /\ RelocationsResolve'
  BY <1>1, <1>4, <1>5 DEF CountsTyped, CountsSafe, RelocationsResolve
<1> QED
  BY <1>1, <1>2, <1>3, <1>6, ErasureKeeps

-----------------------------------------------------------------------------
(* The theorems.                                                           *)

LEMMA InitIInv == Init => IInv
<1> SUFFICES ASSUME Init PROVE IInv
  OBVIOUS
<1>1. /\ prog \in Programs /\ todo = Locals /\ stack = << >> /\ present = << >>
      /\ body = << >> /\ slots = << >> /\ linkage = << >> /\ reentered = {}
      /\ phase = "import" /\ erased = {}
  BY DEF Init
<1>2. /\ Elements(present) = {} /\ Alive = {} /\ OnStack = {}
      /\ DOMAIN slots = {} /\ DOMAIN linkage = {} /\ DOMAIN stack = {}
  BY <1>1 DEF Elements, Alive, OnStack
<1>3. \A S : << >> \in [{} -> S]
  OBVIOUS
<1>4. Shape
  BY <1>1, <1>2, <1>3, SymbolsAssumption DEF Shape
<1>5. Entered /\ Copies /\ References
  BY <1>1, <1>2 DEF Entered, Copies, References
<1>6. SlotsExposed
  BY <1>2 DEF SlotsExposed, SlotTargets
<1> QED
  BY <1>1, <1>4, <1>5, <1>6 DEF IInv, CountsTyped, CountsSafe, RelocationsResolve

LEMMA NextIInv == IInv /\ [Next]_vars => IInv'
<1> SUFFICES ASSUME IInv, [Next]_vars PROVE IInv'
  OBVIOUS
<1>1. CASE UNCHANGED vars
  BY <1>1 DEF vars, IInv, Shape, Entered, Copies, CopyIsMarked, References, SlotsExposed,
     SlotTargets, Visible, OnStack, Alive, CountsTyped, CountsSafe, RelocationsResolve
<1> QED
  BY <1>1, ImportLocalKeeps, DescendIntoFunctionKeeps, DescendIntoAllocKeeps,
     EmitReferenceKeeps, EmitSlotKeeps, FinishImportKeeps, EndImportKeeps,
     InlineCallKeeps, NextCallerKeeps, SweepDeadKeeps, EmitObjectKeeps DEF Next, Done

\* The import's and the inliner's bookkeeping is right in every state.
THEOREM Invariance == Spec => []IInv
  BY InitIInv, NextIInv, PTL DEF Spec

(***************************************************************************)
(* For every crate and every budget, the reference counts the inliner      *)
(* keeps while it clones and erases bodies are never below what the module *)
(* holds: remove_call_site, add_all and remove_all, which saturates, leave *)
(* them on the safe side (SymbolRefCounts).                                *)
(***************************************************************************)
THEOREM CountsNeverTooLow == Spec => []CountsSafe
<1>1. IInv => CountsSafe
  BY DEF IInv
<1> QED
  BY <1>1, Invariance, PTL

(***************************************************************************)
(* For every crate, no copy of another crate's function is a strong        *)
(* definition of the object, whichever references led to its import and in *)
(* which order (import_upstream_instance, data_global_for_alloc).          *)
(***************************************************************************)
THEOREM CopiesNeverCollide == Spec => []UpstreamNeverStrong
<1>1. IInv => UpstreamNeverStrong
  <2> SUFFICES ASSUME IInv, phase = "done", NEW f \in Alive \cap Importable,
                      f \notin Elements(Locals)
               PROVE  linkage[f] # "external"
    BY DEF UpstreamNeverStrong
  <2>1. stack = << >> /\ f \in Elements(present)
    BY DEF IInv, Shape, Alive
  <2>2. CopyIsMarked(f)
    BY <2>1 DEF IInv, Copies
  <2> QED
    BY <2>1, <2>2 DEF CopyIsMarked
<1> QED
  BY <1>1, Invariance, PTL

(***************************************************************************)
(* For every crate, whatever the inliner erased, the object leaves         *)
(* undefined only what other objects define, and functions that a constant *)
(* named while they were being imported (collect_object_parts).            *)
(***************************************************************************)
THEOREM ObjectLeavesNothingDangling == Spec => []RelocationsResolve
<1>1. IInv => RelocationsResolve
  BY DEF IInv
<1> QED
  BY <1>1, Invariance, PTL
=============================================================================
