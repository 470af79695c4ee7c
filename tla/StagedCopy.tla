----------------------------- MODULE StagedCopy -----------------------------
(***************************************************************************)
(* The block-argument copies of the NVPTX backend (emit_block_arg_copies   *)
(* in nvptx/mod.rs): a copy whose destination some copy reads is staged    *)
(* through a fresh temporary; then the direct copies, the staged copies    *)
(* and the immediates are written.  PTX executes them as they are emitted. *)
(*                                                                         *)
(* A raw shared-memory address that flows into a block argument of another *)
(* address space is converted by the copy itself (cvta.shared).            *)
(***************************************************************************)
EXTENDS Integers, FiniteSets

CONSTANTS
    PtxValue,    \* what a register may hold
    Generic,  \* the generic address of a raw shared address: [Value -> Value]
    PtxEdges     \* the edges to lower, records as in IsEdge

VARIABLES
    ptx_edge,   \* the edge being lowered
    ptx_phase,  \* "stage", "direct", "staged", "imm" or "done"
    ptx_at,     \* the position of the copy to look at next
    ptx_tmp,    \* position of a staged copy -> its temporary
    ptx_regs,   \* the registers so far: 0 .. next - 1
    ptx_next    \* the next fresh register

ptx_vars == <<ptx_edge, ptx_phase, ptx_at, ptx_tmp, ptx_regs, ptx_next>>

(***************************************************************************)
(* An edge passes args arguments.  Copy k writes register dst, which is    *)
(* the register of one block argument only, from register src or, when     *)
(* const holds, from the immediate imm; cvta says that it converts, which  *)
(* a copy of a block argument to itself, of one address space, never does. *)
(* Generic addresses are values again.                                     *)
(***************************************************************************)
IsPtxEdge(e) ==
    /\ e.size \in Nat /\ e.args \in Nat
    /\ e.regs \in [0 .. e.size - 1 -> PtxValue]
    /\ e.copies \in [1 .. e.args -> [dst : 0 .. e.size - 1, src : 0 .. e.size - 1,
                                     const : BOOLEAN, imm : PtxValue, cvta : BOOLEAN]]
    /\ \A j, k \in 1 .. e.args : e.copies[j].dst = e.copies[k].dst => j = k
    /\ \A k \in 1 .. e.args : e.copies[k].src = e.copies[k].dst => ~e.copies[k].cvta
    /\ Generic \in [PtxValue -> PtxValue]

\* The copies from a register, a copy to itself being dropped; what they read.
RegCopies(e) == {k \in 1 .. e.args : ~e.copies[k].const /\ e.copies[k].src # e.copies[k].dst}
Sources(e) == {e.copies[k].src : k \in RegCopies(e)}

\* The copies that must wait in a temporary.
Conflicting(e) == {k \in RegCopies(e) : e.copies[k].dst \in Sources(e)}

InitPtx ==
    /\ ptx_edge \in PtxEdges /\ IsPtxEdge(ptx_edge)
    /\ ptx_phase = "stage"
    /\ ptx_at = 1
    /\ ptx_tmp = [k \in {} |-> 0]
    /\ ptx_regs = ptx_edge.regs
    /\ ptx_next = ptx_edge.size

-----------------------------------------------------------------------------
\* The registers after writing val to r; r may be fresh.
WritePtx(r, val) == [x \in DOMAIN ptx_regs \cup {r} |-> IF x = r THEN val ELSE ptx_regs[x]]

\* What copy k delivers when it reads register r.
Delivered(k, r) == IF ptx_edge.copies[k].cvta THEN Generic[ptx_regs[r]] ELSE ptx_regs[r]

\* Mutant of Stage: the temporary is read through the conversion already.
StageConverted ==
    /\ ptx_phase = "stage" /\ ptx_at \in Conflicting(ptx_edge)
    /\ ptx_regs' = WritePtx(ptx_next, Delivered(ptx_at, ptx_edge.copies[ptx_at].src))
    /\ ptx_tmp' = [k \in DOMAIN ptx_tmp \cup {ptx_at} |-> IF k = ptx_at THEN ptx_next ELSE ptx_tmp[k]]
    /\ ptx_next' = ptx_next + 1
    /\ ptx_at' = ptx_at + 1
    /\ UNCHANGED <<ptx_edge, ptx_phase>>

\* Save the source of a conflicting copy before any destination is written.
Stage ==
    /\ ptx_phase = "stage" /\ ptx_at \in Conflicting(ptx_edge)
    /\ ptx_regs' = WritePtx(ptx_next, ptx_regs[ptx_edge.copies[ptx_at].src])
    /\ ptx_tmp' = [k \in DOMAIN ptx_tmp \cup {ptx_at} |-> IF k = ptx_at THEN ptx_next ELSE ptx_tmp[k]]
    /\ ptx_next' = ptx_next + 1
    /\ ptx_at' = ptx_at + 1
    /\ UNCHANGED <<ptx_edge, ptx_phase>>

\* A copy that writes a register no copy reads.
EmitDirect ==
    /\ ptx_phase = "direct" /\ ptx_at \in RegCopies(ptx_edge) \ Conflicting(ptx_edge)
    /\ ptx_regs' = WritePtx(ptx_edge.copies[ptx_at].dst, Delivered(ptx_at, ptx_edge.copies[ptx_at].src))
    /\ ptx_at' = ptx_at + 1
    /\ UNCHANGED <<ptx_edge, ptx_phase, ptx_tmp, ptx_next>>

EmitStaged ==
    /\ ptx_phase = "staged" /\ ptx_at \in Conflicting(ptx_edge)
    /\ ptx_regs' = WritePtx(ptx_edge.copies[ptx_at].dst, Delivered(ptx_at, ptx_tmp[ptx_at]))
    /\ ptx_at' = ptx_at + 1
    /\ UNCHANGED <<ptx_edge, ptx_phase, ptx_tmp, ptx_next>>

EmitImmediate ==
    /\ ptx_phase = "imm" /\ ptx_at \in 1 .. ptx_edge.args /\ ptx_edge.copies[ptx_at].const
    /\ ptx_regs' = WritePtx(ptx_edge.copies[ptx_at].dst, ptx_edge.copies[ptx_at].imm)
    /\ ptx_at' = ptx_at + 1
    /\ UNCHANGED <<ptx_edge, ptx_phase, ptx_tmp, ptx_next>>

\* The copies a phase emits.
Of(e, p) ==
    IF p = "direct" THEN RegCopies(e) \ Conflicting(e)
    ELSE IF p = "imm" THEN {k \in 1 .. e.args : e.copies[k].const}
    ELSE Conflicting(e)

\* A copy that is not of this phase.
Skip ==
    /\ ptx_phase # "done" /\ ptx_at \in 1 .. ptx_edge.args /\ ptx_at \notin Of(ptx_edge, ptx_phase)
    /\ ptx_at' = ptx_at + 1
    /\ UNCHANGED <<ptx_edge, ptx_phase, ptx_tmp, ptx_regs, ptx_next>>

Following(p) ==
    IF p = "stage" THEN "direct" ELSE IF p = "direct" THEN "staged"
    ELSE IF p = "staged" THEN "imm" ELSE "done"

NextPhase ==
    /\ ptx_phase # "done" /\ ptx_at = ptx_edge.args + 1
    /\ ptx_phase' = Following(ptx_phase)
    /\ ptx_at' = 1
    /\ UNCHANGED <<ptx_edge, ptx_tmp, ptx_regs, ptx_next>>

NextPtx == Stage \/ EmitDirect \/ EmitStaged \/ EmitImmediate \/ Skip \/ NextPhase

SpecPtx == InitPtx /\ [][NextPtx]_ptx_vars

-----------------------------------------------------------------------------
\* The value copy k must deliver, from the registers at the edge.
Incoming(e, k) ==
    IF e.copies[k].const THEN e.copies[k].imm
    ELSE IF e.copies[k].cvta THEN Generic[e.regs[e.copies[k].src]]
    ELSE e.regs[e.copies[k].src]

\* The phases after p.
After(p) ==
    IF p = "direct" THEN {"staged", "imm", "done"}
    ELSE IF p = "staged" THEN {"imm", "done"} ELSE {"done"}

\* The copies already written when phase p is at position i.
Written(e, p, i) ==
    {k \in 1 .. e.args :
        \E q \in {"direct", "staged", "imm"} :
            k \in Of(e, q) /\ (p \in After(q) \/ (p = q /\ k < i))}

\* The shape of the state.
PtxTypeOK ==
    /\ IsPtxEdge(ptx_edge)
    /\ ptx_phase \in {"stage", "direct", "staged", "imm", "done"}
    /\ ptx_at \in 1 .. ptx_edge.args + 1
    /\ ptx_next \in Nat /\ ptx_edge.size <= ptx_next
    /\ ptx_regs \in [0 .. ptx_next - 1 -> PtxValue]
    /\ DOMAIN ptx_tmp \subseteq Conflicting(ptx_edge)
    /\ \A k \in DOMAIN ptx_tmp : ptx_tmp[k] \in ptx_edge.size .. ptx_next - 1

(***************************************************************************)
(* The copies have the effect of a simultaneous assignment: a destination  *)
(* that was written holds what was incoming on the edge, converted at most *)
(* once, and every other register still holds what it held at the edge     *)
(* (emit_block_arg_copies).                                                *)
(***************************************************************************)
SimultaneousSoFar ==
    \A r \in 0 .. ptx_edge.size - 1 :
        LET by == {k \in Written(ptx_edge, ptx_phase, ptx_at) : ptx_edge.copies[k].dst = r}
        IN  IF by = {} THEN ptx_regs[r] = ptx_edge.regs[r]
            ELSE \A k \in by : ptx_regs[r] = Incoming(ptx_edge, k)
=============================================================================
