-------------------------- MODULE EdgeCopiesProofs --------------------------
(***************************************************************************)
(* The sequential copies of a control-flow edge have the meaning of the    *)
(* simultaneous assignment, for every edge: the moves of the host back     *)
(* ends (any number of arguments, any sharing of sources, any number of    *)
(* cycles), and the staged copies of the NVPTX back end.                   *)
(***************************************************************************)
EXTENDS ParallelCopy, StagedCopy, TLAPS

\* A pending copy keeps its destination; the source may be redirected.
DstKept == \A k \in DOMAIN pending : pending[k].dst = edge.copies[k].dst

IInv == TypeOK /\ DstKept /\ ParallelMeaning

-----------------------------------------------------------------------------
\* A destination's target is what its copy names, as destinations are distinct.
LEMMA TargetOfDst ==
    ASSUME IsEdge(edge), NEW k \in DOMAIN edge.copies
    PROVE  Target(edge, edge.copies[k].dst) =
              IF edge.copies[k].src = Undef THEN Zero ELSE edge.regs[edge.copies[k].src]
  BY DEF IsEdge, Target

\* No two pending copies write the same register.
LEMMA PendingDistinct ==
    ASSUME IInv, NEW j \in DOMAIN pending, NEW k \in DOMAIN pending,
           pending[j].dst = pending[k].dst
    PROVE  j = k
  BY DEF IInv, TypeOK, DstKept, IsEdge

\* The loop starts with every copy's value in its source.
LEMMA InitIInv == Init => IInv
<1> SUFFICES ASSUME Init PROVE IInv
  OBVIOUS
<1> DEFINE real == {k \in DOMAIN edge.copies : edge.copies[k].src # edge.copies[k].dst}
<1>1. IsEdge(edge)
  BY EdgesAssumption DEF Init
<1>2. DOMAIN pending = real /\ \A k \in real : pending[k] = edge.copies[k]
  BY DEF Init
<1>3. TypeOK
  BY <1>1, <1>2 DEF Init, TypeOK, IsEdge
<1>4. DstKept
  BY <1>2 DEF DstKept
<1>5. \A k \in DOMAIN pending :
         IF pending[k].src = Undef THEN Target(edge, pending[k].dst) = Zero
         ELSE regs[pending[k].src] = Target(edge, pending[k].dst)
  BY <1>1, <1>2, TargetOfDst DEF Init
<1>6. ASSUME NEW r \in 0 .. edge.size - 1, \A k \in DOMAIN pending : pending[k].dst # r
      PROVE  regs[r] = Target(edge, r)
  <2>1. CASE \E k \in DOMAIN edge.copies : edge.copies[k].dst = r
    <3>1. PICK k \in DOMAIN edge.copies : edge.copies[k].dst = r
      BY <2>1
    <3>2. edge.copies[k].src = r /\ r # Undef
      BY <1>2, <1>6, <3>1, ValuesAssumption
    <3> QED
      BY <1>1, <3>1, <3>2, TargetOfDst DEF Init
  <2>2. CASE ~\E k \in DOMAIN edge.copies : edge.copies[k].dst = r
    BY <2>2 DEF Target, Init
  <2> QED
    BY <2>1, <2>2
<1> QED
  BY <1>3, <1>4, <1>5, <1>6 DEF IInv, ParallelMeaning

\* Writing the target of a free copy's destination and dropping the copy
\* disturbs no other pending copy; fresh registers may appear beside it.
LEMMA EmitKeeps ==
    ASSUME IInv, NEW k \in DOMAIN pending, Free(k), Remove(k), UNCHANGED edge,
           next_vreg' \in Nat, next_vreg <= next_vreg',
           regs' \in [0 .. next_vreg' - 1 -> Value],
           regs'[pending[k].dst] = Target(edge, pending[k].dst),
           \A r \in 0 .. next_vreg - 1 : r # pending[k].dst => regs'[r] = regs[r]
    PROVE  IInv'
<1>1. DOMAIN pending' = DOMAIN pending \ {k}
      /\ \A j \in DOMAIN pending \ {k} : pending'[j] = pending[j]
  BY DEF Remove
<1>2. TypeOK'
  <2>1. /\ IsEdge(edge) /\ edge.size \in Nat /\ next_vreg \in Nat /\ edge.size <= next_vreg
        /\ DOMAIN pending \subseteq DOMAIN edge.copies
    BY DEF IInv, TypeOK, IsEdge
  <2>2. \A j \in DOMAIN pending' :
           pending'[j] \in [dst : 0 .. edge.size - 1, src : 0 .. next_vreg' - 1 \cup {Undef}]
    <3> SUFFICES ASSUME NEW j \in DOMAIN pending
                 PROVE  pending[j] \in [dst : 0 .. edge.size - 1,
                                        src : 0 .. next_vreg' - 1 \cup {Undef}]
      BY <1>1
    <3>1. pending[j] \in [dst : 0 .. edge.size - 1, src : 0 .. next_vreg - 1 \cup {Undef}]
      BY DEF IInv, TypeOK
    <3>2. 0 .. next_vreg - 1 \cup {Undef} \subseteq 0 .. next_vreg' - 1 \cup {Undef}
      BY <2>1
    <3> QED
      BY <3>1, <3>2
  <2>3. edge.size <= next_vreg'
    BY <2>1
  <2>4. DOMAIN pending' \subseteq DOMAIN edge.copies
    BY <1>1, <2>1
  <2> QED
    BY <2>1, <2>2, <2>3, <2>4 DEF TypeOK
<1>3. DstKept'
  BY <1>1 DEF IInv, DstKept
<1>4. \A j \in DOMAIN pending' :
         IF pending'[j].src = Undef THEN Target(edge, pending'[j].dst) = Zero
         ELSE regs'[pending'[j].src] = Target(edge, pending'[j].dst)
  <2> SUFFICES ASSUME NEW j \in DOMAIN pending \ {k}
               PROVE  IF pending[j].src = Undef THEN Target(edge, pending[j].dst) = Zero
                      ELSE regs'[pending[j].src] = Target(edge, pending[j].dst)
    BY <1>1
  <2>1. pending[j].src # pending[k].dst
    BY DEF Free
  <2>2. pending[j].src # Undef => pending[j].src \in 0 .. next_vreg - 1
    BY DEF IInv, TypeOK
  <2> QED
    BY <2>1, <2>2 DEF IInv, ParallelMeaning
<1>5. ASSUME NEW r \in 0 .. edge.size - 1, \A j \in DOMAIN pending' : pending'[j].dst # r
      PROVE  regs'[r] = Target(edge, r)
  <2>1. CASE r = pending[k].dst
    BY <2>1
  <2>2. CASE r # pending[k].dst
    <3>1. r \in 0 .. next_vreg - 1
      BY DEF IInv, TypeOK, IsEdge
    <3>2. \A j \in DOMAIN pending : pending[j].dst # r
      BY <1>1, <1>5, <2>2
    <3> QED
      BY <2>2, <3>1, <3>2 DEF IInv, ParallelMeaning
  <2> QED
    BY <2>1, <2>2
<1> QED
  BY <1>2, <1>3, <1>4, <1>5 DEF IInv, ParallelMeaning

\* Each step of the loop keeps the invariant.
LEMMA NextIInv == IInv /\ [Next]_vars => IInv'
<1> SUFFICES ASSUME IInv, [Next]_vars PROVE IInv'
  OBVIOUS
<1>0. /\ IsEdge(edge) /\ next_vreg \in Nat /\ edge.size \in Nat /\ edge.size <= next_vreg
      /\ regs \in [0 .. next_vreg - 1 -> Value]
      /\ \A k \in DOMAIN pending :
            pending[k] \in [dst : 0 .. edge.size - 1, src : 0 .. next_vreg - 1 \cup {Undef}]
  BY DEF IInv, TypeOK, IsEdge
<1>1. ASSUME NEW k \in DOMAIN pending, EmitMove(k) PROVE IInv'
  <2>1. pending[k].src \in 0 .. next_vreg - 1 /\ pending[k].dst \in 0 .. next_vreg - 1
    BY <1>0, <1>1 DEF EmitMove
  <2>2. regs[pending[k].src] = Target(edge, pending[k].dst)
    BY <1>1 DEF EmitMove, IInv, ParallelMeaning
  <2>3. DOMAIN regs \cup {pending[k].dst} = 0 .. next_vreg - 1
    BY <1>0, <2>1
  <2>4. regs' \in [0 .. next_vreg - 1 -> Value]
    BY <1>0, <1>1, <2>1, <2>3 DEF EmitMove, Write
  <2>5. /\ regs'[pending[k].dst] = Target(edge, pending[k].dst)
        /\ \A r \in 0 .. next_vreg - 1 : r # pending[k].dst => regs'[r] = regs[r]
    BY <1>1, <2>1, <2>2, <2>3 DEF EmitMove, Write
  <2>6. /\ Free(k) /\ Remove(k) /\ UNCHANGED edge
        /\ next_vreg' \in Nat /\ next_vreg <= next_vreg' /\ next_vreg' = next_vreg
    BY <1>0, <1>1 DEF EmitMove, FirstFree
  <2>7. regs' \in [0 .. next_vreg' - 1 -> Value]
    BY <2>4, <2>6
  <2> QED
    BY <2>5, <2>6, <2>7, EmitKeeps
<1>2. ASSUME NEW k \in DOMAIN pending, EmitZero(k) PROVE IInv'
  <2>1. pending[k].dst \in 0 .. next_vreg - 1
    BY <1>0
  <2>2. Target(edge, pending[k].dst) = Zero
    BY <1>2 DEF EmitZero, IInv, ParallelMeaning
  <2>3. CASE pending[k].dst \in edge.needs_zero
    <3>1. /\ next_vreg' = next_vreg + 1
          /\ regs' = [x \in DOMAIN regs \cup {next_vreg} |->
                        IF x \in {next_vreg, pending[k].dst} THEN Zero ELSE regs[x]]
      BY <1>2, <2>3 DEF EmitZero
    <3>2. DOMAIN regs \cup {next_vreg} = 0 .. next_vreg' - 1
      BY <1>0, <3>1
    <3>3. regs' \in [0 .. next_vreg' - 1 -> Value]
      BY <1>0, <3>1, <3>2, ValuesAssumption
    <3>4. /\ regs'[pending[k].dst] = Target(edge, pending[k].dst)
          /\ \A r \in 0 .. next_vreg - 1 : r # pending[k].dst => regs'[r] = regs[r]
      BY <1>0, <2>1, <2>2, <3>1, <3>2
    <3>5. /\ Free(k) /\ Remove(k) /\ UNCHANGED edge
          /\ next_vreg' \in Nat /\ next_vreg <= next_vreg'
      BY <1>0, <1>2, <3>1 DEF EmitZero, FirstFree
    <3> QED
      BY <3>3, <3>4, <3>5, EmitKeeps
  <2>4. CASE pending[k].dst \notin edge.needs_zero
    <3>1. next_vreg' = next_vreg /\ regs' = Write(pending[k].dst, Zero)
      BY <1>2, <2>4 DEF EmitZero
    <3>2. DOMAIN regs \cup {pending[k].dst} = 0 .. next_vreg - 1
      BY <1>0, <2>1
    <3>3. regs' \in [0 .. next_vreg' - 1 -> Value]
      BY <1>0, <3>1, <3>2, ValuesAssumption DEF Write
    <3>4. /\ regs'[pending[k].dst] = Target(edge, pending[k].dst)
          /\ \A r \in 0 .. next_vreg - 1 : r # pending[k].dst => regs'[r] = regs[r]
      BY <1>0, <2>1, <2>2, <3>1, <3>2 DEF Write
    <3>5. /\ Free(k) /\ Remove(k) /\ UNCHANGED edge
          /\ next_vreg' \in Nat /\ next_vreg <= next_vreg'
      BY <1>0, <1>2, <3>1 DEF EmitZero, FirstFree
    <3> QED
      BY <3>3, <3>4, <3>5, EmitKeeps
  <2> QED
    BY <2>3, <2>4
<1>3. ASSUME NEW k \in DOMAIN pending, BreakCycle(k) PROVE IInv'
  <2> DEFINE d == pending[k].dst
  <2>1. d \in 0 .. next_vreg - 1 /\ d # Undef
    BY <1>0, ValuesAssumption
  <2>2. /\ UNCHANGED edge /\ next_vreg' = next_vreg + 1
        /\ regs' = Write(next_vreg, regs[d]) /\ pending' = Redirected(d)
    BY <1>3 DEF BreakCycle
  <2>3. DOMAIN regs \cup {next_vreg} = 0 .. next_vreg' - 1
    BY <1>0, <2>2
  <2>4. /\ regs' \in [0 .. next_vreg' - 1 -> Value]
        /\ regs'[next_vreg] = regs[d]
        /\ \A r \in 0 .. next_vreg - 1 : regs'[r] = regs[r]
    BY <1>0, <2>1, <2>2, <2>3 DEF Write
  <2>5. /\ DOMAIN pending' = DOMAIN pending
        /\ \A j \in DOMAIN pending :
              /\ pending'[j].dst = pending[j].dst
              /\ pending[j].src = d => pending'[j].src = next_vreg
              /\ pending[j].src # d => pending'[j] = pending[j]
              /\ pending'[j] \in [dst : 0 .. edge.size - 1,
                                  src : 0 .. next_vreg' - 1 \cup {Undef}]
    BY <1>0, <2>2 DEF Redirected
  <2>6. TypeOK' /\ DstKept'
    BY <1>0, <2>2, <2>4, <2>5 DEF IInv, TypeOK, DstKept
  <2>7. \A j \in DOMAIN pending' :
           IF pending'[j].src = Undef THEN Target(edge, pending'[j].dst) = Zero
           ELSE regs'[pending'[j].src] = Target(edge, pending'[j].dst)
    <3> SUFFICES ASSUME NEW j \in DOMAIN pending
                 PROVE  IF pending'[j].src = Undef THEN Target(edge, pending[j].dst) = Zero
                        ELSE regs'[pending'[j].src] = Target(edge, pending[j].dst)
      BY <2>2, <2>5
    <3>1. CASE pending[j].src = d
      <4>1. next_vreg # Undef
        BY <1>0, ValuesAssumption
      <4> QED
        BY <2>1, <2>4, <2>5, <3>1, <4>1 DEF IInv, ParallelMeaning
    <3>2. CASE pending[j].src # d
      <4>1. pending[j].src # Undef => pending[j].src \in 0 .. next_vreg - 1
        BY <1>0
      <4> QED
        BY <2>4, <2>5, <3>2, <4>1 DEF IInv, ParallelMeaning
    <3> QED
      BY <3>1, <3>2
  <2>8. \A r \in 0 .. edge.size - 1 :
           (\A j \in DOMAIN pending' : pending'[j].dst # r) => regs'[r] = Target(edge, r)
    <3>1. \A r \in 0 .. edge.size - 1 : r \in 0 .. next_vreg - 1
      BY <1>0
    <3> QED
      BY <2>2, <2>4, <2>5, <3>1 DEF IInv, ParallelMeaning
  <2> QED
    BY <2>2, <2>6, <2>7, <2>8 DEF IInv, ParallelMeaning
<1>4. CASE UNCHANGED vars
  <2>1. UNCHANGED edge /\ UNCHANGED pending /\ UNCHANGED regs /\ UNCHANGED next_vreg
    BY <1>4 DEF vars
  <2>2. TypeOK'
    BY <2>1 DEF IInv, TypeOK
  <2>3. DstKept'
    BY <2>1 DEF IInv, DstKept
  <2>4. ParallelMeaning'
    BY <2>1 DEF IInv, ParallelMeaning
  <2> QED
    BY <2>2, <2>3, <2>4 DEF IInv
<1> QED
  BY <1>1, <1>2, <1>3, <1>4 DEF Next

\* The loop keeps its inductive invariant.
THEOREM Invariance == Spec => []IInv
  BY InitIInv, NextIInv, PTL DEF Spec

\* At every point of emit_block_arg_copies the remaining copies still find
\* their values and the rest of the registers is final.
THEOREM MovesKeepParallelMeaning == Spec => []ParallelMeaning
<1>1. IInv => ParallelMeaning
  BY DEF IInv
<1> QED
  BY <1>1, Invariance, PTL

\* The abstract assignment computes the targets.
LEMMA TargetIsPassed ==
    \A r : Abstract!Passed(edge.copies, edge.regs, r) = Target(edge, r)
  BY DEF Abstract!Passed, Target

\* With nothing pending every register of the function holds its target.
LEMMA EmptyIsFinal ==
    ASSUME IInv, DOMAIN pending = {}
    PROVE  \A r \in 0 .. edge.size - 1 : regs[r] = Target(edge, r)
  BY DEF IInv, ParallelMeaning

(***************************************************************************)
(* emit_block_arg_copies implements the simultaneous assignment: the step  *)
(* that emits the last copy takes the edge, every other step changes       *)
(* nothing the abstract edge can see.                                      *)
(***************************************************************************)
THEOREM CopiesImplementEdge == Spec => ImplementsBlockArguments
<1> DEFINE env == IF DOMAIN pending = {} THEN [r \in 0 .. edge.size - 1 |-> regs[r]]
                  ELSE edge.regs
<1>1. Init /\ IInv => Abstract!Init
  <2> SUFFICES ASSUME Init, IInv, DOMAIN pending = {}
               PROVE  env = [r \in DOMAIN env |-> Abstract!Passed(edge.copies, env, r)]
    BY DEF Abstract!Init
  <2>1. edge.regs \in [0 .. edge.size - 1 -> Value] /\ regs = edge.regs
    BY DEF Init, IInv, TypeOK, IsEdge
  <2>2. env = edge.regs /\ DOMAIN env = 0 .. edge.size - 1
    BY <2>1
  <2> HIDE DEF env
  <2>3. \A r \in 0 .. edge.size - 1 : edge.regs[r] = Abstract!Passed(edge.copies, edge.regs, r)
    BY <2>1, EmptyIsFinal, TargetIsPassed
  <2> QED
    BY <2>1, <2>2, <2>3
<1>2. IInv /\ IInv' /\ [Next]_vars
      => [Abstract!TakeEdge]_<<edge.copies, env, DOMAIN pending = {}>>
  <2> SUFFICES ASSUME IInv, IInv', [Next]_vars
               PROVE  [Abstract!TakeEdge]_<<edge.copies, env, DOMAIN pending = {}>>
    OBVIOUS
  <2>1. CASE UNCHANGED vars
    BY <2>1 DEF vars
  <2>2. CASE Next
    <3>1. UNCHANGED edge /\ DOMAIN pending # {}
      BY <2>2 DEF Next, EmitMove, EmitZero, BreakCycle
    <3>2. CASE DOMAIN pending' # {}
      BY <3>1, <3>2
    <3>3. CASE DOMAIN pending' = {}
      <4>1. edge.regs \in [0 .. edge.size - 1 -> Value]
        BY DEF IInv, TypeOK, IsEdge
      <4>2. \A r \in 0 .. edge.size - 1 :
               regs'[r] = Abstract!Passed(edge.copies, edge.regs, r)
        <5>1. \A r \in 0 .. edge.size - 1 : regs'[r] = Target(edge, r)
          BY <3>1, <3>3 DEF IInv, ParallelMeaning
        <5> QED
          BY <5>1, TargetIsPassed
      <4>3. env = edge.regs /\ env' = [r \in 0 .. edge.size - 1 |-> regs'[r]]
        BY <3>1, <3>3
      <4>4. env' = [r \in DOMAIN env |-> Abstract!Passed(edge.copies, env, r)]
        BY <4>1, <4>2, <4>3
      <4> QED
        BY <3>1, <3>3, <4>4 DEF Abstract!TakeEdge
    <3> QED
      BY <3>2, <3>3
  <2> QED
    BY <2>1, <2>2
<1> QED
  BY <1>1, <1>2, Invariance, PTL DEF Spec, ImplementsBlockArguments, Abstract!Spec

-----------------------------------------------------------------------------
\* Once staged, a copy's source is safe in a temporary.
TempsHold ==
    \A k \in Conflicting(ptx_edge) :
        ptx_phase # "stage" \/ k < ptx_at =>
            k \in DOMAIN ptx_tmp /\ ptx_regs[ptx_tmp[k]] = ptx_edge.regs[ptx_edge.copies[k].src]

PtxIInv == PtxTypeOK /\ SimultaneousSoFar /\ TempsHold

-----------------------------------------------------------------------------
\* Two ways to say that a register has its value so far.
Unwritten(e, p, i, r) == \A k \in Written(e, p, i) : e.copies[k].dst # r
HasValue(e, p, i, rs) ==
    \A r \in 0 .. e.size - 1 :
        /\ Unwritten(e, p, i, r) => rs[r] = e.regs[r]
        /\ \A k \in Written(e, p, i) : e.copies[k].dst = r => rs[r] = Incoming(e, k)

\* What the run checks so far is HasValue at the current state.
LEMMA SoFarIsHasValue == SimultaneousSoFar <=> HasValue(ptx_edge, ptx_phase, ptx_at, ptx_regs)
  BY DEF SimultaneousSoFar, HasValue, Unwritten

\* A write of copy k's incoming value to its destination completes it.
LEMMA WriteAdds ==
    ASSUME PtxIInv, NEW k \in 1 .. ptx_edge.args, NEW p, NEW i,
           Written(ptx_edge, p, i) = Written(ptx_edge, ptx_phase, ptx_at) \cup {k},
           ptx_regs' = WritePtx(ptx_edge.copies[k].dst, Incoming(ptx_edge, k))
    PROVE  /\ HasValue(ptx_edge, p, i, ptx_regs')
           /\ ptx_regs' \in [0 .. ptx_next - 1 -> PtxValue]
           /\ \A r \in ptx_edge.size .. ptx_next - 1 : ptx_regs'[r] = ptx_regs[r]
<1>1. /\ IsPtxEdge(ptx_edge) /\ ptx_edge.size \in Nat /\ ptx_next \in Nat /\ ptx_edge.size <= ptx_next
      /\ ptx_regs \in [0 .. ptx_next - 1 -> PtxValue]
      /\ ptx_edge.copies[k].dst \in 0 .. ptx_edge.size - 1
  BY DEF PtxIInv, PtxTypeOK, IsPtxEdge
<1>2. Incoming(ptx_edge, k) \in PtxValue
  BY <1>1 DEF IsPtxEdge, Incoming
<1>3. DOMAIN ptx_regs \cup {ptx_edge.copies[k].dst} = 0 .. ptx_next - 1
  BY <1>1
<1>4. ptx_regs' = [x \in 0 .. ptx_next - 1 |-> IF x = ptx_edge.copies[k].dst THEN Incoming(ptx_edge, k)
                                       ELSE ptx_regs[x]]
  BY <1>3 DEF WritePtx
<1>5. ptx_regs' \in [0 .. ptx_next - 1 -> PtxValue]
  BY <1>1, <1>2, <1>4
<1>6. \A r \in 0 .. ptx_next - 1 : r # ptx_edge.copies[k].dst => ptx_regs'[r] = ptx_regs[r]
  BY <1>4
<1>7. ptx_regs'[ptx_edge.copies[k].dst] = Incoming(ptx_edge, k)
  BY <1>1, <1>4
<1>8. \A j \in Written(ptx_edge, p, i) : ptx_edge.copies[j].dst = ptx_edge.copies[k].dst => j = k
  BY <1>1 DEF Written, IsPtxEdge
<1>9. HasValue(ptx_edge, ptx_phase, ptx_at, ptx_regs)
  BY SoFarIsHasValue DEF PtxIInv
<1>10. HasValue(ptx_edge, p, i, ptx_regs')
  <2> SUFFICES ASSUME NEW r \in 0 .. ptx_edge.size - 1
               PROVE  /\ Unwritten(ptx_edge, p, i, r) => ptx_regs'[r] = ptx_edge.regs[r]
                      /\ \A j \in Written(ptx_edge, p, i) :
                            ptx_edge.copies[j].dst = r => ptx_regs'[r] = Incoming(ptx_edge, j)
    BY DEF HasValue
  <2>1. r \in 0 .. ptx_next - 1
    BY <1>1
  <2>2. CASE r = ptx_edge.copies[k].dst
    BY <2>2, <1>7, <1>8 DEF Unwritten
  <2>3. CASE r # ptx_edge.copies[k].dst
    BY <2>1, <2>3, <1>6, <1>9 DEF HasValue, Unwritten
  <2> QED
    BY <2>2, <2>3
<1> QED
  BY <1>1, <1>5, <1>6, <1>10

\* How the set of written copies grows from one position to the next.
LEMMA WrittenStep ==
    ASSUME NEW e, NEW i \in 1 .. e.args, e.args \in Nat,
           NEW p \in {"stage", "direct", "staged", "imm"}
    PROVE  /\ p # "stage" /\ i \in Of(e, p) =>
                 Written(e, p, i + 1) = Written(e, p, i) \cup {i}
           /\ p = "stage" \/ i \notin Of(e, p) => Written(e, p, i + 1) = Written(e, p, i)
<1>1. \A k \in 1 .. e.args : k < i + 1 <=> k < i \/ k = i
  OBVIOUS
<1>2. CASE p = "stage"
  BY <1>2 DEF Written, After
<1>3. CASE p # "stage"
  BY <1>1, <1>3 DEF Written, After
<1> QED
  BY <1>2, <1>3

\* A phase ends with all of its copies written.
LEMMA WrittenPhase ==
    ASSUME NEW e, e.args \in Nat, NEW p \in {"stage", "direct", "staged", "imm"}
    PROVE  Written(e, Following(p), 1) = Written(e, p, e.args + 1)
<1>1. \A k \in 1 .. e.args : k < e.args + 1 /\ ~(k < 1)
  OBVIOUS
<1> QED
  BY <1>1 DEF Written, After, Following

\* The lowering starts with the registers of the edge.
LEMMA InitPtxIInv == InitPtx => PtxIInv
<1> SUFFICES ASSUME InitPtx PROVE PtxIInv
  OBVIOUS
<1>1. IsPtxEdge(ptx_edge)
  BY DEF InitPtx
<1>2. PtxTypeOK
  BY <1>1 DEF InitPtx, PtxTypeOK, IsPtxEdge
<1>3. Written(ptx_edge, "stage", 1) = {}
  BY DEF Written, After
<1>4. SimultaneousSoFar
  BY <1>3 DEF InitPtx, SimultaneousSoFar
<1>5. TempsHold
  BY <1>1 DEF InitPtx, TempsHold, Conflicting, RegCopies, IsPtxEdge
<1> QED
  BY <1>2, <1>4, <1>5 DEF PtxIInv

\* What a register copy reads is untouched until the direct copies are done.
LEMMA SourcesIntact ==
    ASSUME PtxIInv, ptx_phase \in {"stage", "direct"}, NEW k \in RegCopies(ptx_edge)
    PROVE  ptx_regs[ptx_edge.copies[k].src] = ptx_edge.regs[ptx_edge.copies[k].src]
<1>1. ptx_edge.copies[k].src \in 0 .. ptx_edge.size - 1
  BY DEF PtxIInv, PtxTypeOK, IsPtxEdge, RegCopies
<1>2. \A j \in Written(ptx_edge, ptx_phase, ptx_at) : ptx_edge.copies[j].dst # ptx_edge.copies[k].src
  BY DEF Written, After, Of, Conflicting, Sources
<1> QED
  BY <1>1, <1>2, SoFarIsHasValue DEF PtxIInv, HasValue, Unwritten

\* An emitted copy keeps the invariant.
LEMMA EmitPtxKeeps ==
    ASSUME PtxIInv, ptx_phase \in {"direct", "staged", "imm"}, ptx_at \in Of(ptx_edge, ptx_phase),
           ptx_at \in 1 .. ptx_edge.args,
           ptx_regs' = WritePtx(ptx_edge.copies[ptx_at].dst, Incoming(ptx_edge, ptx_at)),
           ptx_at' = ptx_at + 1, UNCHANGED <<ptx_edge, ptx_phase, ptx_tmp, ptx_next>>
    PROVE  PtxIInv'
<1>1. ptx_edge.args \in Nat /\ IsPtxEdge(ptx_edge) /\ ptx_next \in Nat
  BY DEF PtxIInv, PtxTypeOK, IsPtxEdge
<1>2. Written(ptx_edge, ptx_phase, ptx_at + 1) = Written(ptx_edge, ptx_phase, ptx_at) \cup {ptx_at}
  <2>1. \A k \in 1 .. ptx_edge.args : k < ptx_at + 1 <=> k < ptx_at \/ k = ptx_at
    BY <1>1
  <2> QED BY <1>1, <2>1 DEF Written, After
<1>3. /\ HasValue(ptx_edge, ptx_phase, ptx_at + 1, ptx_regs')
      /\ ptx_regs' \in [0 .. ptx_next - 1 -> PtxValue]
      /\ \A r \in ptx_edge.size .. ptx_next - 1 : ptx_regs'[r] = ptx_regs[r]
  BY <1>2, WriteAdds
<1>4. PtxTypeOK'
  BY <1>1, <1>3 DEF PtxIInv, PtxTypeOK
<1>5. SimultaneousSoFar'
  BY <1>3 DEF SimultaneousSoFar, HasValue, Unwritten
<1>6. TempsHold'
  BY <1>3 DEF PtxIInv, PtxTypeOK, TempsHold
<1> QED
  BY <1>4, <1>5, <1>6 DEF PtxIInv

\* Each step of the lowering keeps the invariant.
LEMMA NextPtxIInv == PtxIInv /\ [NextPtx]_ptx_vars => PtxIInv'
<1> SUFFICES ASSUME PtxIInv, [NextPtx]_ptx_vars PROVE PtxIInv'
  OBVIOUS
<1>0. /\ IsPtxEdge(ptx_edge) /\ ptx_next \in Nat /\ ptx_edge.size \in Nat /\ ptx_edge.size <= ptx_next
      /\ ptx_edge.args \in Nat /\ ptx_at \in 1 .. ptx_edge.args + 1
      /\ ptx_regs \in [0 .. ptx_next - 1 -> PtxValue]
      /\ ptx_phase \in {"stage", "direct", "staged", "imm", "done"}
      /\ DOMAIN ptx_tmp \subseteq Conflicting(ptx_edge)
      /\ \A k \in DOMAIN ptx_tmp : ptx_tmp[k] \in ptx_edge.size .. ptx_next - 1
  BY DEF PtxIInv, PtxTypeOK, IsPtxEdge
<1>1. CASE Stage
  <2>1. /\ ptx_at \in Conflicting(ptx_edge) /\ ptx_phase = "stage" /\ ptx_at \in 1 .. ptx_edge.args
        /\ ptx_edge.copies[ptx_at].src \in 0 .. ptx_next - 1 /\ ptx_edge.copies[ptx_at].src \in 0 .. ptx_edge.size - 1
        /\ ptx_at \in RegCopies(ptx_edge)
    <3>1. ptx_at \in Conflicting(ptx_edge) /\ ptx_phase = "stage"
      BY <1>1 DEF Stage
    <3>2. ptx_at \in RegCopies(ptx_edge)
      BY <3>1 DEF Conflicting
    <3>3. ptx_at \in 1 .. ptx_edge.args
      BY <3>2 DEF RegCopies
    <3>4. ptx_edge.copies[ptx_at].src \in 0 .. ptx_edge.size - 1
      BY <1>0, <3>3 DEF IsPtxEdge
    <3> QED
      BY <1>0, <3>1, <3>2, <3>3, <3>4
  <2>2. /\ ptx_next' = ptx_next + 1 /\ ptx_at' = ptx_at + 1 /\ UNCHANGED <<ptx_edge, ptx_phase>>
        /\ ptx_regs' = WritePtx(ptx_next, ptx_regs[ptx_edge.copies[ptx_at].src])
        /\ ptx_tmp' = [k \in DOMAIN ptx_tmp \cup {ptx_at} |-> IF k = ptx_at THEN ptx_next ELSE ptx_tmp[k]]
    BY <1>1 DEF Stage
  <2>3. DOMAIN ptx_regs \cup {ptx_next} = 0 .. ptx_next' - 1
    BY <1>0, <2>2
  <2>4. /\ ptx_regs' \in [0 .. ptx_next' - 1 -> PtxValue]
        /\ ptx_regs'[ptx_next] = ptx_regs[ptx_edge.copies[ptx_at].src]
        /\ \A r \in 0 .. ptx_next - 1 : ptx_regs'[r] = ptx_regs[r]
    BY <1>0, <2>1, <2>2, <2>3 DEF WritePtx
  <2>5. /\ DOMAIN ptx_tmp' = DOMAIN ptx_tmp \cup {ptx_at} /\ ptx_tmp'[ptx_at] = ptx_next
        /\ \A k \in DOMAIN ptx_tmp : k # ptx_at => ptx_tmp'[k] = ptx_tmp[k]
    BY <2>2
  <2>6. PtxTypeOK'
    <3>1. \A k \in DOMAIN ptx_tmp' : ptx_tmp'[k] \in ptx_edge.size .. ptx_next' - 1
      BY <1>0, <2>2, <2>5
    <3> QED
      BY <1>0, <2>1, <2>2, <2>4, <2>5, <3>1 DEF PtxTypeOK
  <2>7. SimultaneousSoFar'
    <3>1. Written(ptx_edge, ptx_phase, ptx_at + 1) = Written(ptx_edge, ptx_phase, ptx_at)
      BY <1>0, <2>1, WrittenStep
    <3>2. HasValue(ptx_edge, ptx_phase, ptx_at, ptx_regs)
      BY SoFarIsHasValue DEF PtxIInv
    <3>3. HasValue(ptx_edge, ptx_phase, ptx_at + 1, ptx_regs')
      BY <1>0, <2>4, <3>1, <3>2 DEF HasValue, Unwritten
    <3> QED
      BY <2>2, <3>3 DEF SimultaneousSoFar, HasValue, Unwritten
  <2>8. TempsHold'
    <3> SUFFICES ASSUME NEW k \in Conflicting(ptx_edge), k < ptx_at + 1
                 PROVE  k \in DOMAIN ptx_tmp' /\ ptx_regs'[ptx_tmp'[k]] = ptx_edge.regs[ptx_edge.copies[k].src]
      BY <2>1, <2>2 DEF TempsHold
    <3>1. CASE k = ptx_at
      BY <2>1, <2>4, <2>5, <3>1, SourcesIntact
    <3>2. CASE k # ptx_at
      <4>1. k < ptx_at
        BY <1>0, <3>2 DEF Conflicting, RegCopies
      <4>2. k \in DOMAIN ptx_tmp /\ ptx_regs[ptx_tmp[k]] = ptx_edge.regs[ptx_edge.copies[k].src]
        BY <4>1 DEF PtxIInv, TempsHold
      <4>3. ptx_tmp[k] \in 0 .. ptx_next - 1
        BY <1>0, <4>2
      <4> QED
        BY <2>4, <2>5, <3>2, <4>2, <4>3
    <3> QED
      BY <3>1, <3>2
  <2> QED
    BY <2>6, <2>7, <2>8 DEF PtxIInv
<1>2. CASE EmitDirect
  <2>1. ptx_at \in RegCopies(ptx_edge) /\ ptx_at \in 1 .. ptx_edge.args /\ ptx_at \in Of(ptx_edge, "direct")
    BY <1>2 DEF EmitDirect, RegCopies, Of
  <2>2. ptx_regs[ptx_edge.copies[ptx_at].src] = ptx_edge.regs[ptx_edge.copies[ptx_at].src]
    BY <1>2, <2>1, SourcesIntact DEF EmitDirect
  <2>3. Delivered(ptx_at, ptx_edge.copies[ptx_at].src) = Incoming(ptx_edge, ptx_at)
    BY <2>1, <2>2 DEF Delivered, Incoming, RegCopies
  <2> QED
    BY <1>2, <2>1, <2>3, EmitPtxKeeps DEF EmitDirect
<1>3. CASE EmitStaged
  <2>1. /\ ptx_at \in RegCopies(ptx_edge) /\ ptx_at \in 1 .. ptx_edge.args
        /\ ptx_at \in Of(ptx_edge, "staged") /\ ptx_at \in Conflicting(ptx_edge)
    BY <1>3 DEF EmitStaged, RegCopies, Of, Conflicting
  <2>2. ptx_regs[ptx_tmp[ptx_at]] = ptx_edge.regs[ptx_edge.copies[ptx_at].src]
    BY <1>3, <2>1 DEF EmitStaged, PtxIInv, TempsHold
  <2>3. Delivered(ptx_at, ptx_tmp[ptx_at]) = Incoming(ptx_edge, ptx_at)
    BY <2>1, <2>2 DEF Delivered, Incoming, RegCopies
  <2> QED
    BY <1>3, <2>1, <2>3, EmitPtxKeeps DEF EmitStaged
<1>4. CASE EmitImmediate
  <2>1. ptx_at \in 1 .. ptx_edge.args /\ ptx_at \in Of(ptx_edge, "imm")
        /\ Incoming(ptx_edge, ptx_at) = ptx_edge.copies[ptx_at].imm
    BY <1>4 DEF EmitImmediate, Of, Incoming
  <2> QED
    BY <1>4, <2>1, EmitPtxKeeps DEF EmitImmediate
<1>5. CASE Skip
  <2>1. /\ ptx_at' = ptx_at + 1 /\ UNCHANGED <<ptx_edge, ptx_phase, ptx_tmp, ptx_regs, ptx_next>>
        /\ ptx_at \in 1 .. ptx_edge.args /\ ptx_at \notin Of(ptx_edge, ptx_phase) /\ ptx_phase # "done"
    BY <1>5 DEF Skip
  <2>2. Written(ptx_edge, ptx_phase, ptx_at + 1) = Written(ptx_edge, ptx_phase, ptx_at)
    BY <1>0, <2>1, WrittenStep
  <2>3. PtxTypeOK'
    BY <1>0, <2>1 DEF PtxIInv, PtxTypeOK
  <2>4. SimultaneousSoFar'
    BY <2>1, <2>2 DEF PtxIInv, SimultaneousSoFar
  <2>5. TempsHold'
    <3> SUFFICES ASSUME NEW k \in Conflicting(ptx_edge), ptx_phase # "stage" \/ k < ptx_at + 1
                 PROVE  ptx_phase # "stage" \/ k < ptx_at
      BY <2>1 DEF PtxIInv, TempsHold
    <3>1. CASE ptx_phase = "stage"
      BY <1>0, <2>1, <3>1 DEF Of, Conflicting, RegCopies
    <3> QED
      BY <3>1
  <2> QED
    BY <2>3, <2>4, <2>5 DEF PtxIInv
<1>6. CASE NextPhase
  <2>1. /\ ptx_at' = 1 /\ ptx_phase' = Following(ptx_phase) /\ UNCHANGED <<ptx_edge, ptx_tmp, ptx_regs, ptx_next>>
        /\ ptx_at = ptx_edge.args + 1 /\ ptx_phase # "done"
    BY <1>6 DEF NextPhase
  <2>2. Written(ptx_edge, Following(ptx_phase), 1) = Written(ptx_edge, ptx_phase, ptx_at)
    BY <1>0, <2>1, WrittenPhase
  <2>3. PtxTypeOK'
    BY <1>0, <2>1 DEF PtxIInv, PtxTypeOK, Following
  <2>4. SimultaneousSoFar'
    BY <2>1, <2>2 DEF PtxIInv, SimultaneousSoFar
  <2>5. TempsHold'
    <3>1. \A k \in Conflicting(ptx_edge) : k < ptx_at
      BY <1>0, <2>1 DEF Conflicting, RegCopies
    <3> QED
      BY <2>1, <3>1 DEF PtxIInv, TempsHold
  <2> QED
    BY <2>3, <2>4, <2>5 DEF PtxIInv
<1>7. CASE UNCHANGED ptx_vars
  <2>1. /\ UNCHANGED ptx_edge /\ UNCHANGED ptx_phase /\ UNCHANGED ptx_at
        /\ UNCHANGED ptx_tmp /\ UNCHANGED ptx_regs /\ UNCHANGED ptx_next
    BY <1>7 DEF ptx_vars
  <2>2. PtxTypeOK'
    BY <2>1 DEF PtxIInv, PtxTypeOK
  <2>3. SimultaneousSoFar'
    BY <2>1 DEF PtxIInv, SimultaneousSoFar
  <2>4. TempsHold'
    BY <2>1 DEF PtxIInv, TempsHold
  <2> QED
    BY <2>2, <2>3, <2>4 DEF PtxIInv
<1> QED
  BY <1>1, <1>2, <1>3, <1>4, <1>5, <1>6, <1>7 DEF NextPtx

\* The lowering keeps its inductive invariant.
THEOREM PtxInvariance == SpecPtx => []PtxIInv
  BY InitPtxIInv, NextPtxIInv, PTL DEF SpecPtx

\* The staged copies of emit_block_arg_copies have the effect of a
\* simultaneous assignment at every point, for every edge.
THEOREM StagedCopiesAreSimultaneous == SpecPtx => []SimultaneousSoFar
<1>1. PtxIInv => SimultaneousSoFar
  BY DEF PtxIInv
<1> QED
  BY <1>1, PtxInvariance, PTL
=============================================================================
