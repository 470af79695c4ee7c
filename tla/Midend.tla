------------------------------- MODULE Midend -------------------------------
(***************************************************************************)
(* The mid-end as a whole (passes/llvm/mod.rs): its passes applied to a    *)
(* function in any order.  DEFAULT_ORDER is one such order; a registered   *)
(* order may replace it, and CRABBIT_MIDEND_DISABLE may drop passes.  At   *)
(* most MaxPasses passes run on one function.                              *)
(***************************************************************************)
EXTENDS Vectorize

CONSTANTS Programs,    \* the functions the mid-end may be given
          Memory0,     \* what the caller's memory holds
          MaxPasses    \* bound on the passes applied
VARIABLES prog,        \* the function as the passes left it
          source,      \* the function they were given
          left         \* passes still allowed
vars == <<prog, source, left>>

Init == prog \in Programs /\ source = prog /\ left = MaxPasses
Rewrites(new) == left > 0 /\ left' = left - 1 /\ prog' = new /\ UNCHANGED source
RunSimplify == Rewrites(LLVMSimplifyPass(prog))
RunSimplifyCfg == Rewrites(LLVMSimplifyCfgPass(prog))
RunSroa == Rewrites(LLVMSroaPass(prog))
RunPin == Rewrites(LLVMPinTypePunnedSlotsPass(prog))
RunGvn == Rewrites(LLVMGvnPass(prog))
RunDivStrengthReduce == Rewrites(LLVMDivStrengthReducePass(prog))
RunLicm == Rewrites(LLVMLicmPass(prog))
RunUnroll == Rewrites(LLVMUnrollPass(prog))
\* The pass may panic: then the compilation ends without a function.
RunLoopCarriedFwd == LET new == LLVMLoopCarriedFwdPass(prog) IN new # Panicked /\ Rewrites(new)
RunAdce == Rewrites(LLVMAdcePass(prog))
RunSink == \E divergent \in BOOLEAN : Rewrites(LLVMSinkPass(prog, divergent))
\* The vectorizer is the last pass of every order: the others do not know
\* its operations.
RunVectorize == left > 0 /\ left' = 0 /\ prog' = LLVMVectorizePass(prog) /\ UNCHANGED source
\* The order is used up, or the function goes on to instruction selection.
Finish == left = 0 /\ UNCHANGED vars
Next == \/ RunSimplify \/ RunSimplifyCfg \/ RunSroa \/ RunPin \/ RunGvn
        \/ RunDivStrengthReduce \/ RunLicm \/ RunLoopCarriedFwd \/ RunUnroll
        \/ RunAdce \/ RunSink \/ RunVectorize
        \/ Finish
Spec == Init /\ [][Next]_vars

---------------------------------------------------------------------------
ParamDomain(t) == CASE t = "ptr" -> {0, 1} [] t = "i1" -> 0..1 [] t \in {"n", "s"} -> 0..3
                    [] t = "w" -> 0..15
                    [] t = "d" -> {0, 1, 2, 9, 10, 63, 99, 127, 128, 129, 200, 254, 255}
Inputs(p) ==
  LET as == p.args[Entry(p)]
  IN {f \in [1..Len(as) -> UNION {ParamDomain(p.ty[as[i]]) : i \in 1..Len(as)}] :
        \A i \in 1..Len(as) : f[i] \in ParamDomain(p.ty[as[i]])}

\* A function keeps its meaning: on every input on which the source is
\* defined and returns, the rewritten one returns the same value, leaves the
\* same memory and makes the same calls, and neither traps nor branches on
\* an undefined value.  gvn.rs:504, licm.rs:11-15, sink.rs:8-20, the magic
\* numbers and every rewrite of the passes.
MeaningKept ==
  LET Kept(was, is) == was.how = "ret" => is = was
  IN prog # source =>
       \A in \in Inputs(source) : Kept(Run(source, in, Memory0), Run(prog, in, Memory0))

\* The rewritten function is still in SSA form: every value has one
\* definition, which dominates its uses, and every edge passes as many
\* operands as its target takes.  What the verifier would reject, e.g. a use
\* left behind by a merged block or a copied loop.
StaysInSsa ==
  LET dom == dominator_tree(prog)
      before(v, b, i) == LET d == DefBlock(prog, v)
                         IN \/ v \in ToSet(prog.args[d]) /\ (d = b \/ Dominates(dom, d, b))
                            \/ /\ v \notin ToSet(prog.args[d])
                               /\ IF d = b THEN PositionOf(prog, d, v) < i ELSE Dominates(dom, d, b)
      defined(v) == \E b \in BlockSet(prog) : \/ v \in ToSet(prog.args[b])
                                              \/ \E i \in 1..Len(prog.ops[b]) : prog.ops[b][i].d = v
  IN \A b \in DOMAIN dom :
       /\ \A i \in 1..Len(prog.ops[b]) : \A v \in OpUses(prog.ops[b][i]) : defined(v) /\ before(v, b, i)
       /\ \A v \in TermUses(prog.term[b]) \ {0} : defined(v) /\ before(v, b, Len(prog.ops[b]) + 1)
       /\ \A j \in 1..Len(prog.term[b].s) :
            prog.term[b].s[j] \in BlockSet(prog)
            /\ Len(prog.term[b].e[j]) = Len(prog.args[prog.term[b].s[j]])
       /\ \A s, u \in OpSites(prog) : At(prog, s).d = At(prog, u).d /\ At(prog, s).d # 0 => s = u

\* The post-dominator tree the iterative computation finds (analysis.rs:184)
\* is the one its definition asks for: a post-dominates b exactly when both
\* reach an exit and every path from b to an exit passes a.
PostDominatorsExact ==
  LET exits == Exits(prog)
      reaches(b, avoid) == b \notin avoid /\ Flood(prog, {b}, {b}, avoid) \cap exits # {}
      pdt == PostDomTree(prog)
  IN \A a, b \in BlockSet(prog) :
       postdominates(pdt, a, b) <=> /\ reaches(a, {}) /\ reaches(b, {})
                                    /\ a = b \/ ~reaches(b, {a})
=============================================================================
