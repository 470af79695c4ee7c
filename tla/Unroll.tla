------------------------------- MODULE Unroll -------------------------------
(***************************************************************************)
(* llvm-unroll (unroll.rs): a loop with one latch, one exit edge and a     *)
(* trip count found by simulating its induction variable is replaced by    *)
(* that many copies of its body.                                           *)
(***************************************************************************)
EXTENDS ScalarPasses

CONSTANTS MaxTrip,        \* MAX_TRIP
          MaxLoopOps,     \* MAX_LOOP_OPS
          MaxUnrollGrowth,\* MAX_UNROLL_GROWTH
          MaxFuncGrowth   \* MAX_FUNC_GROWTH
MinTrip == 2
UnrollRounds == 16

\* IvStep::apply
IvApply(step, iv, n) == Arith(step.k, iv, step.c, n, "")
eval_icmp(pred, l, r, n) == Compare(pred, l, r, n)

\* match_iv_update: value v is a header argument stepped by a constant
\* ([j |-> 0]: it is not).
NoStep == [j |-> 0, k |-> "", c |-> 0, w |-> 0]
StepBy(p, l, v, o) ==
  LET hargs == p.args[l.header]
      commutes == o.k \in {"add", "mul"}
      right == IsConst(p, o.a[2])
      arg == IF right THEN o.a[1] ELSE o.a[2]
      cv == IF right THEN o.a[2] ELSE o.a[1]
      c == ConstBits(p, cv)
      w == Bits(p.ty[cv])
      at == {j \in 1..Len(hargs) : hargs[j] = arg}
  IN IF \/ o.k \notin {"add", "mul", "shl", "lshr", "ashr", "udiv"}
        \/ ~DefinedIn(p, v, l.body)
        \/ ~right /\ ~(commutes /\ IsConst(p, o.a[1]))
     THEN NoStep
     ELSE IF \/ o.k \in {"mul", "udiv"} /\ ~IsPow2(c)
             \/ o.k \in {"shl", "lshr", "ashr"} /\ c >= w
             \/ at = {}
     THEN NoStep
     ELSE [j |-> Min(at), k |-> o.k, c |-> c, w |-> w]
match_iv_update(p, l, v) == StepBy(p, l, v, DefOp(p, v))

\* body_subgraph_rpo: the body without its header in an order in which every
\* block follows its predecessors (<<>>: side entry, side exit, inner loop).
BodySound(p, l) ==
  \A b \in l.body \ {l.header} :
    /\ p.term[b].k \in {"br", "cbr"}
    /\ Succs(p, b) \subseteq l.body
    /\ l.header \in Succs(p, b) => b \in l.latches
    /\ Preds(p, b) \subseteq l.body
RECURSIVE TopoOrder(_, _, _, _)
TopoOrder(p, l, todo, done) ==
  LET ready == {b \in todo : (Preds(p, b) \ {l.header}) \subseteq ToSet(done)}
  IN IF todo = {} THEN done
     ELSE IF ready = {} THEN <<>>
     ELSE TopoOrder(p, l, todo \ {Min(ready)}, Append(done, Min(ready)))
body_subgraph_rpo(p, l) ==
  IF BodySound(p, l) THEN TopoOrder(p, l, l.body \ {l.header}, <<>>) ELSE <<>>

\* The trip count by simulation: -1 above MaxTrip.  going: the values of the
\* induction variable with which the loop goes on.
RECURSIVE Trips(_, _, _)
Trips(going, iv, s) ==
  IF iv \notin going THEN s.trip
  ELSE IF s.trip + 1 > MaxTrip THEN -1
  ELSE Trips(going, IvApply(s.step, iv, s.step.w), [s EXCEPT !.trip = @ + 1])

NoPlan == [ok |-> FALSE]
\* The shape of the loop: preheader, header test with one edge out, and
\* either one block or a body in the order rpo.
LoopShape(p, l, pre, rpo) ==
  LET h == l.header
      latch == CHOOSE b \in l.latches : TRUE
      t == p.term[h]
      single == l.body = {h}
      inside == IF single THEN h ELSE rpo[1]
      i == IF t.s[1] = inside /\ t.s[2] \notin l.body THEN 1 ELSE 2
  IN IF Cardinality(l.latches) # 1 \/ pre = 0 THEN NoPlan
     ELSE IF t.k # "cbr" \/ p.term[pre].k # "br" THEN NoPlan
     ELSE IF ~single /\ (latch = h \/ p.term[latch].k # "br" \/ rpo = <<>>) THEN NoPlan
     ELSE IF t.s[i] # inside \/ t.s[3 - i] \in l.body THEN NoPlan
     ELSE [ok |-> TRUE, pre |-> pre, latch |-> latch, single |-> single, rpo |-> rpo, in |-> i,
           init |-> p.term[pre].e[1], latchOps |-> IF single THEN t.e[i] ELSE p.term[latch].e[1],
           size |-> FoldSet(LAMBDA b, n : n + Len(p.ops[b]), 0, l.body)]
\* The exit test cmp: a stepped header argument, or its next value, against
\* a constant.
LoopTest(p, l, s, cmp) ==
  LET vLeft == IsConst(p, cmp.a[2])
      v == IF vLeft THEN cmp.a[1] ELSE cmp.a[2]
      hargs == p.args[l.header]
      direct == {j \in 1..Len(hargs) : hargs[j] = v}
  IN IF cmp.k # "icmp" \/ ~DefinedIn(p, p.term[l.header].c, l.body) THEN NoPlan
     ELSE IF ~IsConst(p, cmp.a[1]) /\ ~IsConst(p, cmp.a[2]) THEN NoPlan
     ELSE [ok |-> TRUE, p |-> cmp.p, vLeft |-> vLeft, v |-> v, onNext |-> direct = {},
           bound |-> ConstBits(p, IF vLeft THEN cmp.a[2] ELSE cmp.a[1]),
           step |-> match_iv_update(p, l, IF direct = {} THEN v ELSE s.latchOps[Min(direct)])]
IvKnown(p, h, s, c) ==
  /\ c.ok /\ c.step.j # 0
  /\ IF c.onNext THEN s.latchOps[c.step.j] = c.v ELSE p.args[h][c.step.j] = c.v
  /\ IsConst(p, s.init[c.step.j])
  /\ c.step.w = Bits(p.ty[s.init[c.step.j]]) /\ c.step.w = Bits(p.ty[c.v])
Continues(s, c, iv) ==
  LET x == IF c.onNext THEN IvApply(c.step, iv, c.step.w) ELSE iv
      true == IF c.vLeft THEN eval_icmp(c.p, x, c.bound, c.step.w) ELSE eval_icmp(c.p, c.bound, x, c.step.w)
  IN true = (s.in = 1)
TripCount(p, s, c) == Trips({iv \in 0..2^c.step.w - 1 : Continues(s, c, iv)}, ConstBits(p, s.init[c.step.j]),
                            [trip |-> IF s.single THEN 1 ELSE 0, step |-> c.step])
UnrollPlan(p, l, s, c, trip) ==
  LET t == p.term[l.header]
  IN IF trip < MinTrip \/ trip > MaxTrip \/ trip * s.size > MaxUnrollGrowth THEN NoPlan
     ELSE [ok |-> TRUE, pre |-> s.pre, header |-> l.header, rpo |-> s.rpo, latch |-> s.latch,
           exit |-> t.s[3 - s.in], exitOps |-> t.e[3 - s.in], inOps |-> t.e[s.in], latchOps |-> s.latchOps,
           init |-> s.init, iv |-> c.step.j, step |-> c.step, start |-> ConstBits(p, s.init[c.step.j]),
           trip |-> trip, body |-> l.body, cloned |-> s.size * (IF s.single THEN trip ELSE trip + 1)]
analyze(p, l) ==
  LET Planned(s, c) == IF IvKnown(p, l.header, s, c) THEN UnrollPlan(p, l, s, c, TripCount(p, s, c)) ELSE NoPlan
      Shaped(s) == IF ~s.ok THEN NoPlan
                   ELSE IF s.size > MaxLoopOps THEN NoPlan
                   ELSE Planned(s, LoopTest(p, l, s, DefOp(p, p.term[l.header].c)))
  IN Shaped(LoopShape(p, l, preheader(p, l),
                      IF l.body = {l.header} THEN <<>> ELSE body_subgraph_rpo(p, l)))

\* Copy operations: e the emitter, m the value map so far.
RECURSIVE CloneOps(_, _, _)
CloneOps(p, s, ops) ==
  IF ops = <<>> THEN s
  ELSE LET o == Head(ops)
           d == IF o.d = 0 THEN 0 ELSE s.e.n
           c == [RenameOp(o, s.m) EXCEPT !.d = d]
       IN CloneOps(p, [e |-> [ops |-> Append(s.e.ops, c),
                              tys |-> Append(s.e.tys, IF o.d = 0 THEN "n" ELSE p.ty[o.d]),
                              n |-> s.e.n + 1],
                       m |-> IF o.d = 0 THEN s.m ELSE [s.m EXCEPT ![o.d] = d]], Tail(ops))
BindArgs(m, args, vals) ==
  [v \in DOMAIN m |-> IF v \in ToSet(args) THEN vals[CHOOSE j \in 1..Len(args) : args[j] = v] ELSE m[v]]

\* apply_straight_line: the copies go to the end of the preheader; after the
\* first iteration the induction variable is its constant.
RECURSIVE StraightFrom(_, _, _, _, _, _)
StraightFrom(p, plan, k, cur, iv, s) ==
  LET h == plan.header
      isWhile == plan.rpo # <<>>
      b == plan.rpo[1]
      Header(t) == CloneOps(p, [t EXCEPT !.m = BindArgs(@, p.args[h],
                                                 IF k = 0 THEN cur ELSE [cur EXCEPT ![plan.iv] = R(t.e)])],
                            p.ops[h])
      Body(t) == IF isWhile
                   THEN CloneOps(p, [t EXCEPT !.m = BindArgs(@, p.args[b], RenameSeq(plan.inOps, t.m))], p.ops[b])
                   ELSE t
      Again(t) == StraightFrom(p, plan, k + 1, RenameSeq(plan.latchOps, t.m),
                               IvApply(plan.step, iv, plan.step.w), t)
      Done(t) == IF k + (IF isWhile THEN 0 ELSE 1) = plan.trip THEN t ELSE Again(Body(t))
  IN Done(Header(IF k = 0 THEN s ELSE [s EXCEPT !.e = emit_const(@, p.ty[p.args[h][plan.iv]], iv)]))
Outside(p, plan) == BlockSet(p) \ plan.body
MapOver(p, m) == [v \in DOMAIN p.ty |-> IF v \in DOMAIN m THEN m[v] ELSE v]
apply_straight_line(p, plan) ==
  LET Rest(q, m) == KeepBlocks([RenameIn(q, MapOver(q, m), Outside(p, plan) \ {plan.pre}) EXCEPT
                                  !.term[plan.pre] = Br(plan.exit, RenameSeq(plan.exitOps, m))],
                               Outside(p, plan))
      Copied(s) == Rest(InsertOps(p, plan.pre, Len(p.ops[plan.pre]) + 1, s.e), s.m)
  IN Copied(StraightFrom(p, plan, 0, plan.init, plan.start, [e |-> Start(p), m |-> Identity(p)]))

\* apply_multi_block: a continuation block per iteration carries the header
\* arguments, the body is copied block by block, and the last continuation
\* leaves through the exit.
FreshBlock(p) == Max(DOMAIN p.ops) + 1
NewBlock(p, b, after, args, tys) ==
  LET n == Fresh(p)
  IN [p EXCEPT !.blocks = InsertAt(@, 1 + (CHOOSE i \in 1..Len(@) : @[i] = after), b),
               !.args = (b :> [j \in 1..Len(args) |-> n + j - 1]) @@ @,
               !.ops = (b :> <<>>) @@ @, !.term = (b :> Ret(0)) @@ @,
               !.ty = [x \in n..(n + Len(args) - 1) |-> tys[x - n + 1]] @@ @]
TypesOf(p, vs) == [j \in 1..Len(vs) |-> p.ty[vs[j]]]
\* Copy the operations of block old to the end of block new under map m.
CloneInto(p, new, old, m) ==
  LET Copied(s) == [p |-> InsertOps(p, new, Len(p.ops[new]) + 1, s.e), m |-> s.m]
  IN Copied(CloneOps(p, [e |-> Start(p), m |-> m], p.ops[old]))
RECURSIVE NewBodies(_, _, _, _, _)
NewBodies(p, rpo, after, m, names) ==
  LET old == Head(rpo)  b == FreshBlock(p)
      More(q) == NewBodies(q, Tail(rpo), b, BindArgs(m, p.args[old], q.args[b]), (old :> b) @@ names)
  IN IF rpo = <<>> THEN [p |-> p, m |-> m, names |-> names, last |-> after]
     ELSE More(NewBlock(p, b, after, p.args[old], TypesOf(p, p.args[old])))
RECURSIVE FillBodies(_, _, _, _, _, _)
FillBodies(p, plan, rpo, m, names, cont) ==
  LET old == Head(rpo)
      Term(c) == IF old = plan.latch THEN Br(cont, RenameSeq(plan.latchOps, c.m))
                 ELSE [RenameTerm(p.term[old], c.m) EXCEPT !.s = [i \in 1..Len(@) |-> names[@[i]]]]
      More(c) == FillBodies([c.p EXCEPT !.term[names[old]] = Term(c)], plan, Tail(rpo), c.m, names, cont)
  IN IF rpo = <<>> THEN [p |-> p, m |-> m] ELSE More(CloneInto(p, names[old], old, m))
RECURSIVE MultiFrom(_, _, _, _, _, _)
MultiFrom(p, plan, k, cont, iv, m) ==
  LET h == plan.header
      n == Fresh(p)   \* the induction variable's constant
      Again(f, next) == MultiFrom(f.p, plan, k + 1, next, IvApply(plan.step, iv, plan.step.w), f.m)
      Filled(q, nb, next) ==
        Again(FillBodies([q EXCEPT !.term[cont] = Br(nb.names[plan.rpo[1]], RenameSeq(plan.inOps, nb.m))],
                         plan, plan.rpo, nb.m, nb.names, next), next)
      Bodies(nb, next) == Filled(NewBlock(nb.p, next, nb.last, p.args[h], TypesOf(p, p.args[h])), nb, next)
      Named(nb) == Bodies(nb, FreshBlock(nb.p))
      Header(c) == IF k = plan.trip
                     THEN [p |-> [c.p EXCEPT !.term[cont] = Br(plan.exit, RenameSeq(plan.exitOps, c.m))], m |-> c.m]
                     ELSE Named(NewBodies(c.p, plan.rpo, cont, c.m, <<>>))
  IN Header(CloneInto(InsertOps(p, plan.pre, Len(p.ops[plan.pre]) + 1,
                                emit_const(Start(p), p.ty[p.args[h][plan.iv]], iv)),
                      cont, h, BindArgs(m, p.args[h], [p.args[cont] EXCEPT ![plan.iv] = n])))
apply_multi_block(p, plan) ==
  LET first == FreshBlock(p)
      defs == (ToSet(p.args[plan.header]) \union {o.d : o \in ToSet(p.ops[plan.header])}) \ {0}
      Done(s) == KeepBlocks([RenameIn(s.p, MapOver(s.p, [v \in defs |-> s.m[v]]), Outside(p, plan)) EXCEPT
                               !.term[plan.pre] = Br(first, plan.init)],
                            BlockSet(s.p) \ plan.body)
  IN Done(MultiFrom(NewBlock(p, first, plan.pre, p.args[plan.header], TypesOf(p, p.args[plan.header])),
                    plan, 0, first, plan.start, Identity(p)))

apply(p, plan) == IF Len(plan.rpo) > 1 THEN apply_multi_block(p, plan) ELSE apply_straight_line(p, plan)
\* The first plan a pass can carry out.
FirstPlan(plans) == LET able == {i \in DOMAIN plans : plans[i].ok}
                    IN IF able = {} THEN NoPlan ELSE plans[Min(able)]
\* unroll_one_loop, in rounds, within the function's growth budget.
WithinGrowth(plan, growth) == IF ~plan.ok THEN NoPlan
                              ELSE IF growth + plan.cloned <= MaxFuncGrowth THEN plan ELSE NoPlan
UnrollPlans(p, loops, growth) == [i \in 1..Len(loops) |-> WithinGrowth(analyze(p, loops[i]), growth)]
RECURSIVE UnrollFrom(_, _, _)
UnrollFrom(p, growth, rounds) ==
  LET With(plan) == IF ~plan.ok THEN p ELSE UnrollFrom(apply(p, plan), growth + plan.cloned, rounds - 1)
  IN IF rounds = 0 THEN p
     ELSE With(FirstPlan(UnrollPlans(p, natural_loops(p, dominator_tree(p)), growth)))
LLVMUnrollPass(p) == UnrollFrom(p, 0, UnrollRounds)
=============================================================================
