---------------------------- MODULE ParallelCopy ----------------------------
(***************************************************************************)
(* The block-argument copies of the host instruction selectors             *)
(* (emit_block_arg_copies in isel_control_flow.rs of aarch64 and of        *)
(* x86_64): moves in dependency order, a cycle broken by saving one        *)
(* destination in a fresh register and redirecting its readers.  A move is *)
(* executed as it is emitted, at the end of the block.                     *)
(*                                                                         *)
(* pending holds the copies not yet emitted at the positions they have in  *)
(* the code's list; removing one keeps the order of the others.            *)
(***************************************************************************)
EXTENDS Integers, FiniteSets

CONSTANTS
    Undef, Zero,  \* as in BlockArguments
    Value,        \* the values of registers
    Edges         \* the edges to lower, records as in IsEdge

VARIABLES
    edge,      \* the edge being lowered
    pending,   \* position -> [dst, src]
    regs,      \* the registers so far: 0 .. next_vreg - 1
    next_vreg  \* the next fresh virtual register

vars == <<edge, pending, regs, next_vreg>>

(***************************************************************************)
(* An edge: the copies after flattening (no two share a destination: every *)
(* leaf of a block argument has a register of its own), the registers when *)
(* control reaches the edge, and the destinations that can only be zeroed  *)
(* through an integer register (the FP and vector classes of aarch64).     *)
(***************************************************************************)
IsEdge(e) ==
    /\ e.size \in Nat
    /\ e.regs \in [0 .. e.size - 1 -> Value]
    /\ DOMAIN e.copies \subseteq Nat
    /\ IsFiniteSet(DOMAIN e.copies)
    /\ \A k \in DOMAIN e.copies :
          /\ e.copies[k] \in [dst : 0 .. e.size - 1, src : 0 .. e.size - 1 \cup {Undef}]
          /\ \A j \in DOMAIN e.copies : e.copies[j].dst = e.copies[k].dst => j = k
    /\ e.needs_zero \subseteq 0 .. e.size - 1

ASSUME EdgesAssumption == \A e \in Edges : IsEdge(e)
ASSUME ValuesAssumption == Zero \in Value /\ Undef \notin Int

\* A copy of a register to itself is never listed.
Init ==
    /\ edge \in Edges
    /\ LET real == {k \in DOMAIN edge.copies : edge.copies[k].src # edge.copies[k].dst}
       IN  pending = [k \in real |-> edge.copies[k]]
    /\ regs = edge.regs
    /\ next_vreg = edge.size

-----------------------------------------------------------------------------
\* Mutant of Free: only copies listed later are asked for their source.
FreeOfLater(k) ==
    \A j \in DOMAIN pending : j > k => pending[j].src # pending[k].dst

\* No pending copy reads the destination of copy k.
Free(k) == \A j \in DOMAIN pending : pending[j].src # pending[k].dst

\* Mutant of FirstFree: only the head of the list is looked at.
HeadFree(k) ==
    /\ k \in DOMAIN pending /\ Free(k)
    /\ \A j \in DOMAIN pending : k <= j

\* The first free copy, as position() finds it.
FirstFree(k) ==
    /\ k \in DOMAIN pending /\ Free(k)
    /\ \A j \in DOMAIN pending : Free(j) => k <= j

\* The registers after writing val to r; r may be fresh.
Write(r, val) == [x \in DOMAIN regs \cup {r} |-> IF x = r THEN val ELSE regs[x]]

Remove(k) == pending' = [j \in DOMAIN pending \ {k} |-> pending[j]]

\* Emit the first free copy of a register.
EmitMove(k) ==
    /\ FirstFree(k)
    /\ pending[k].src # Undef
    /\ regs' = Write(pending[k].dst, regs[pending[k].src])
    /\ Remove(k)
    /\ UNCHANGED <<edge, next_vreg>>

\* Give an undefined leaf a defined value, directly or through a fresh register.
EmitZero(k) ==
    /\ FirstFree(k)
    /\ pending[k].src = Undef
    /\ IF pending[k].dst \in edge.needs_zero
       THEN /\ regs' = [x \in DOMAIN regs \cup {next_vreg} |->
                          IF x \in {next_vreg, pending[k].dst} THEN Zero ELSE regs[x]]
            /\ next_vreg' = next_vreg + 1
       ELSE /\ regs' = Write(pending[k].dst, Zero)
            /\ UNCHANGED next_vreg
    /\ Remove(k)
    /\ UNCHANGED edge

\* The pending copies once the readers of dst read the saved copy of it.
Redirected(dst) ==
    [j \in DOMAIN pending |->
        IF pending[j].src = dst THEN [pending[j] EXCEPT !.src = next_vreg] ELSE pending[j]]

\* Only cycles are left: save the first destination, redirect its readers.
BreakCycle(k) ==
    /\ k \in DOMAIN pending /\ \A j \in DOMAIN pending : k <= j
    /\ \A j \in DOMAIN pending : ~Free(j)
    /\ regs' = Write(next_vreg, regs[pending[k].dst])
    /\ pending' = Redirected(pending[k].dst)
    /\ next_vreg' = next_vreg + 1
    /\ UNCHANGED edge

Next == \E k \in DOMAIN pending : EmitMove(k) \/ EmitZero(k) \/ BreakCycle(k)

Spec == Init /\ [][Next]_vars /\ WF_vars(Next)

-----------------------------------------------------------------------------
\* The value register r must hold once edge e is taken.
Target(e, r) ==
    IF \E k \in DOMAIN e.copies : e.copies[k].dst = r
    THEN LET k == CHOOSE k \in DOMAIN e.copies : e.copies[k].dst = r
         IN  IF e.copies[k].src = Undef THEN Zero ELSE e.regs[e.copies[k].src]
    ELSE e.regs[r]

\* The shape of the state: the registers are those below next_vreg.
TypeOK ==
    /\ IsEdge(edge)
    /\ DOMAIN pending \subseteq DOMAIN edge.copies
    /\ next_vreg \in Nat /\ edge.size <= next_vreg
    /\ regs \in [0 .. next_vreg - 1 -> Value]
    /\ \A k \in DOMAIN pending :
          pending[k] \in [dst : 0 .. edge.size - 1, src : 0 .. next_vreg - 1 \cup {Undef}]

(***************************************************************************)
(* The moves keep the parallel meaning at every point: a pending copy      *)
(* still finds the value it must pass in its source, whatever was          *)
(* overwritten, saved and redirected, and every other register of the      *)
(* function already holds its final value (emit_block_arg_copies).         *)
(***************************************************************************)
ParallelMeaning ==
    /\ \A k \in DOMAIN pending :
          IF pending[k].src = Undef THEN Target(edge, pending[k].dst) = Zero
          ELSE regs[pending[k].src] = Target(edge, pending[k].dst)
    /\ \A r \in 0 .. edge.size - 1 :
          (\A k \in DOMAIN pending : pending[k].dst # r) => regs[r] = Target(edge, r)

\* The loop ends: breaking a cycle always frees a copy.
CopiesComplete == <>(DOMAIN pending = {})

\* The moves implement the simultaneous assignment of the edge.
Abstract ==
    INSTANCE BlockArguments
        WITH copies <- edge.copies,
             passed <- DOMAIN pending = {},
             env <- IF DOMAIN pending = {} THEN [r \in 0 .. edge.size - 1 |-> regs[r]]
                    ELSE edge.regs
ImplementsBlockArguments == Abstract!Spec
=============================================================================
