---------------------------- MODULE LoopCarried ----------------------------
(***************************************************************************)
(* llvm-loop-carried-fwd (loop_carried_fwd.rs): a load that reads what the *)
(* previous iteration stored becomes a loop-carried block argument.  The   *)
(* first iteration's value is loaded before the loop, behind a copy of the *)
(* loop's own test when the loop may not run.                              *)
(***************************************************************************)
EXTENDS Unroll

CONSTANT MaxChainOps   \* MAX_CHAIN_OPS
FwdRounds == 8
MaxAffineDepth == 32

\* The constant operand of a two-operand operation and the other one
\* (<<0, 0>>: neither is constant); sub and shl take it on the right only.
ConstSide(p, o) == IF IsConst(p, o.a[2]) THEN <<o.a[1], o.a[2]>>
                   ELSE IF o.k \in {"add", "mul"} /\ IsConst(p, o.a[1]) THEN <<o.a[2], o.a[1]>>
                   ELSE <<0, 0>>
\* affine_shift: v = scale * root + off, constants of width w peeled off.
RECURSIVE Peel(_, _, _, _)
Peel(p, s, w, depth) ==
  LET Next(o, x, c) ==
        CASE o.k = "add" -> [s EXCEPT !.off = @ + s.scale * c, !.root = x]
          [] o.k = "sub" -> [s EXCEPT !.off = @ - s.scale * c, !.root = x]
          [] o.k = "mul" -> [s EXCEPT !.scale = (@ * c) % 2 ^ w, !.root = x]
          [] o.k = "shl" -> [s EXCEPT !.scale = (@ * 2 ^ c) % 2 ^ w, !.root = x]
      By(o, side) ==
        IF side[2] = 0 THEN s
        ELSE IF Bits(p.ty[side[2]]) # w \/ (o.k = "shl" /\ ConstBits(p, side[2]) >= w) THEN s
        ELSE Peel(p, Next(o, side[1], ConstBits(p, side[2])), w, depth - 1)
      Through(o) == IF o.k \in {"add", "sub", "mul", "shl"} THEN By(o, ConstSide(p, o)) ELSE s
  IN IF depth = 0 THEN s ELSE Through(DefOp(p, s.root))
affine_shift(p, v, w) ==
  LET s == Peel(p, [root |-> v, scale |-> 1, off |-> 0], w, MaxAffineDepth)
  IN [s EXCEPT !.off = mask_to_width(@, w)]

\* deriv_wrt_iv: how much v grows per unit of the induction variable (-1:
\* not affine in it).
RECURSIVE deriv_wrt_iv(_, _, _, _, _, _)
deriv_wrt_iv(p, v, iv, body, w, depth) ==
  LET Of(u) == deriv_wrt_iv(p, u, iv, body, w, depth + 1)
      Sum(k, x, y) == IF x < 0 \/ y < 0 THEN -1 ELSE mask_to_width(IF k = "add" THEN x + y ELSE x - y, w)
      Scaled(k, c, x) == IF x < 0 THEN -1 ELSE mask_to_width(x * (IF k = "mul" THEN c ELSE 2 ^ c), w)
      By(o, side) ==
        IF side[2] = 0 THEN -1
        ELSE IF Bits(p.ty[side[2]]) # w \/ (o.k = "shl" /\ ConstBits(p, side[2]) >= w) THEN -1
        ELSE Scaled(o.k, ConstBits(p, side[2]), Of(side[1]))
      Through(o) == IF o.k \in {"add", "sub"} THEN Sum(o.k, Of(o.a[1]), Of(o.a[2]))
                    ELSE IF o.k \in {"mul", "shl"} THEN By(o, ConstSide(p, o)) ELSE -1
  IN IF depth > MaxAffineDepth THEN -1
     ELSE IF v = iv THEN 1
     ELSE IF ~DefinedIn(p, v, body) \/ IsConst(p, v) THEN 0
     ELSE Through(DefOp(p, v))

\* cmp_keys: equal addresses, addresses that differ in one index value, or
\* neither; with the values they share.
IsRoot(key) == key[2] = ""
Mismatch == [k |-> "mismatch", load |-> 0, store |-> 0, shared |-> {}]
RECURSIVE cmp_keys(_, _)
cmp_keys(a, b) ==
  LET base == cmp_keys(a[1], b[1])
      equal(vs) == [k |-> "equal", load |-> 0, store |-> 0, shared |-> vs]
  IN IF IsRoot(a) \/ IsRoot(b) THEN IF a = b THEN equal({a[3]}) ELSE Mismatch
     ELSE IF a[2] # b[2] \/ base.k # "equal" THEN Mismatch
     ELSE IF a[3] >= 0 \/ b[3] >= 0 THEN IF a[3] = b[3] THEN equal(base.shared) ELSE Mismatch
     ELSE IF a[4] = b[4] THEN equal(base.shared \union {a[4]})
     ELSE [k |-> "shifted", load |-> a[4], store |-> b[4], shared |-> base.shared]

\* match_loads: load o reads the address the store writes one iteration earlier.
OneBack(p, l, cmp, iv, step, w) ==
  LET Distance(fl, fs, adv) == adv # 0 /\ mask_to_width(fl.off - fs.off, w) = mask_to_width(-adv, w)
      Advance(fl, fs, d) == d >= 0 /\ Distance(fl, fs, mask_to_width(fl.scale * d * step, w))
      Related(fl, fs) == /\ fl.root = fs.root /\ fl.scale = fs.scale
                         /\ Advance(fl, fs, deriv_wrt_iv(p, fl.root, iv, l.body, w, 0))
  IN IF cmp.k # "shifted" \/ \E v \in cmp.shared : DefinedIn(p, v, l.body) THEN FALSE
     ELSE IF Bits(p.ty[cmp.load]) # w \/ Bits(p.ty[cmp.store]) # w THEN FALSE
     ELSE Related(affine_shift(p, cmp.load, w), affine_shift(p, cmp.store, w))
match_loads(p, l, before, key, t, iv, step, w) ==
  SelectSeq(before, LAMBDA o : /\ o.k = "load" /\ p.ty[o.d] = t
                               /\ OneBack(p, l, cmp_keys(addr_key(p, o.a[1]), key), iv, step, w))

fwd_eval_icmp(pred, l, r, w) == Compare(pred, l, r, w)
\* provably_enters: does the first test of the loop say "enter"?
provably_enters(p, cmp, in, iv, update, init) ==
  LET vLeft == IsConst(p, cmp.a[2])
      v == IF vLeft THEN cmp.a[1] ELSE cmp.a[2]
      bound == IF vLeft THEN cmp.a[2] ELSE cmp.a[1]
      w == Bits(p.ty[init])
      x == IF v = iv THEN ConstBits(p, init)
           ELSE mask_to_width(ConstBits(p, init) + ConstBits(p, ConstSide(p, DefOp(p, update))[2]), w)
      Enters(l, r) == IF fwd_eval_icmp(cmp.p, l, r, w) = (in = 1) THEN "yes" ELSE "no"
  IN IF cmp.k # "icmp" THEN "unknown"
     ELSE IF ~IsConst(p, bound) \/ v \notin {iv, update} \/ ~IsConst(p, init) THEN "unknown"
     ELSE IF Bits(p.ty[bound]) # w THEN "unknown"
     ELSE IF vLeft THEN Enters(x, ConstBits(p, bound)) ELSE Enters(ConstBits(p, bound), x)

\* collect_chain: the operations of the loop that compute v, operands first;
\* header arguments stand for their initial values.
RECURSIVE collect_chain(_, _, _, _)
collect_chain(p, l, v, st) ==
  LET Added(o, s) == IF ~s.ok THEN s ELSE [s EXCEPT !.seen = @ \union {v}, !.out = Append(@, o)]
      Through(o, b) ==
        IF o.k = "none" THEN [st EXCEPT !.ok = b \notin l.body \/ b = l.header]
        ELSE IF b \notin l.body \/ v \in st.seen THEN st
        ELSE IF \/ Len(st.out) + Cardinality(st.seen) >= MaxChainOps
                \/ o.k \notin op_ids_in({"Pure", "Materialize"}) THEN [st EXCEPT !.ok = FALSE]
        ELSE Added(o, FoldLeft(LAMBDA acc, u : collect_chain(p, l, u, acc), st, o.a))
  IN IF ~st.ok THEN st ELSE Through(DefOp(p, v), DefBlock(p, v))

\* One induction candidate: a plan, or why there is none ("skip": try the
\* next one, "dead": the loop never runs).
Skip == [how |-> "skip"]
TryCandidate(p, l, s, j) ==
  LET iv == p.args[l.header][j]
      none == [ok |-> TRUE, seen |-> {}, out |-> <<>>]
      Chained(loads, enters, guard, addr) ==
        IF ~guard.ok THEN Skip
        ELSE IF ~addr.ok THEN Skip
        ELSE [how |-> "plan", loads |-> loads, guarded |-> enters = "unknown",
              guard |-> guard.out, addr |-> addr.out]
      Guarded(loads, enters, guard) ==
        Chained(loads, enters, guard, collect_chain(p, l, loads[1].a[1], [guard EXCEPT !.out = <<>>]))
      Entered(loads, enters) ==
        IF enters = "no" THEN [how |-> "dead"]
        ELSE Guarded(loads, enters,
                     IF enters = "unknown" THEN collect_chain(p, l, p.term[l.header].c, none) ELSE none)
      Loaded(loads) ==
        IF loads = <<>> THEN Skip
        ELSE Entered(loads, IF s.isWhile
                              THEN provably_enters(p, DefOp(p, p.term[l.header].c), s.in, iv, s.latchOps[j], s.init[j])
                              ELSE "yes")
      Stepped(side) ==
        IF side[2] = 0 \/ side[1] # iv THEN Skip
        ELSE IF Bits(p.ty[iv]) # Bits(p.ty[side[2]]) THEN Skip
        ELSE Loaded(match_loads(p, l, s.before, s.key, p.ty[s.store.a[1]], iv,
                                ConstBits(p, side[2]), Bits(p.ty[side[2]])))
      Updated(upd) == IF upd.k # "add" \/ ~DefinedIn(p, s.latchOps[j], l.body) THEN Skip
                      ELSE Stepped(ConstSide(p, upd))
  IN Updated(DefOp(p, s.latchOps[j]))
\* The one store of a loop of one or two blocks, with what is needed to try
\* its induction candidates.
FwdShape(p, l, pre, stores) ==
  LET h == l.header
      latch == CHOOSE b \in l.latches : TRUE
      t == p.term[h]
      isWhile == Cardinality(l.body) = 2
      mem == IF isWhile THEN CHOOSE b \in l.body : b # h ELSE h
      in == IF t.s[1] = mem /\ t.s[2] \notin l.body THEN 1 ELSE 2
      shape == /\ Cardinality(l.latches) = 1 /\ pre # 0 /\ Cardinality(l.body) \in {1, 2}
               /\ latch = mem /\ t.k = "cbr" /\ (isWhile => p.term[mem].k = "br")
               /\ t.s[in] = mem /\ t.s[3 - in] \notin l.body
      benign == \A b \in l.body : \A i \in 1..Len(p.ops[b]) :
                   p.ops[b][i].k \in memory_benign_op_ids \union {"store"}
      Stores(site) == [ok |-> site[1] = mem, store |-> At(p, site), key |-> addr_key(p, At(p, site).a[2]),
                       before |-> SubSeq(p.ops[mem], 1, site[2] - 1), isWhile |-> isWhile, mem |-> mem,
                       pre |-> pre, in |-> in, init |-> p.term[pre].e[1],
                       latchOps |-> IF isWhile THEN p.term[mem].e[1] ELSE t.e[in]]
  IN IF ~shape THEN NoPlan
     ELSE IF Cardinality(stores) # 1 \/ ~benign THEN NoPlan
     ELSE Stores(CHOOSE s \in stores : TRUE)
analyze_fwd(p, l) ==
  LET Plan(s, try) ==
        IF try.how # "plan" THEN NoPlan
        ELSE [ok |-> TRUE, pre |-> s.pre, header |-> l.header, mem |-> s.mem, in |-> s.in,
              isWhile |-> s.isWhile, init |-> s.init, stored |-> s.store.a[1], try |-> try]
      Decided(tries) == LET decided == {j \in DOMAIN tries : tries[j].how # "skip"}
                        IN IF decided = {} THEN Skip ELSE tries[Min(decided)]
      Shaped(s) == IF ~s.ok THEN NoPlan
                   ELSE IF IsRoot(s.key) THEN NoPlan
                   ELSE Plan(s, Decided([j \in 1..Len(s.latchOps) |-> TryCandidate(p, l, s, j)]))
  IN Shaped(FwdShape(p, l, preheader(p, l),
                     {s \in OpSites(p) : s[1] \in l.body /\ At(p, s).k = "store"}))

\* A new block at the end of the region, with arguments of types tys.
AddBlock(p, b, tys) ==
  LET n == Fresh(p)
  IN [p EXCEPT !.blocks = Append(@, b), !.args = (b :> [i \in 1..Len(tys) |-> n + i - 1]) @@ @,
               !.ops = (b :> <<>>) @@ @, !.term = (b :> Ret(0)) @@ @,
               !.ty = [x \in n..(n + Len(tys) - 1) |-> tys[x - n + 1]] @@ @]
\* apply: the carried argument, the initial load (in a block of its own
\* behind the guard), the new back edge; the loads go.
apply_fwd(p, plan) ==
  LET h == plan.header
      gb == FreshBlock(p)
      at == IF plan.try.guarded THEN gb ELSE plan.pre
      t == p.ty[plan.stored]
      Enter(q, undef, enter, skip, cond) ==
        IF ~plan.try.guarded THEN [q EXCEPT !.term[plan.pre] = Br(h, enter)]
        ELSE [q EXCEPT !.ops[plan.pre] = Append(@, Undef(undef)), !.term[gb] = Br(h, enter),
                       !.term[plan.pre] = IF plan.in = 1 THEN CondBr(cond, gb, <<>>, h, skip)
                                          ELSE CondBr(cond, h, skip, gb, <<>>)]
      Carried(q, undef, first, cond) ==
        FoldLeft(LAMBDA r, o : ReplaceOpWith(r, o.d, undef + 1),
                 [Enter(WithValue(WithValue([q EXCEPT !.args[h] = Append(@, undef + 1)], undef, t), undef + 1, t),
                        undef, Append(plan.init, first), Append(plan.init, undef), cond)
                    EXCEPT !.term[plan.mem].e[IF plan.isWhile THEN 1 ELSE plan.in] = Append(@, plan.stored)],
                 plan.try.loads)
      Loaded(q, first, cond) == Carried(q, Fresh(q), first, cond)
      Addressed(q, a, cond) == Loaded(InsertOps(q, at, Len(q.ops[at]) + 1, a.e), R(a.e), cond)
      Opened(q, m) == Addressed(q, CloneOps(q, [e |-> Start(q), m |-> m], Append(plan.try.addr, plan.try.loads[1])),
                                m[p.term[h].c])
      Tested(q, m) == Opened(IF plan.try.guarded THEN AddBlock(q, gb, <<>>) ELSE q, m)
      Guard(g) == Tested(InsertOps(p, plan.pre, Len(p.ops[plan.pre]) + 1, g.e), g.m)
  IN Guard(CloneOps(p, [e |-> Start(p), m |-> BindArgs(Identity(p), p.args[h], plan.init)], plan.try.guard))

\* "the guard chain cloned the condition's def": a condition from outside the
\* loop has no clone, and apply panics.
Panicked == [k |-> "panicked"]
ConditionCloned(p, plan) ==
  p.term[plan.header].c \in ToSet(p.args[plan.header]) \union {o.d : o \in ToSet(plan.try.guard)}

forward_one_loop(p) ==
  LET With(plan) == IF ~plan.ok THEN p
                    ELSE IF plan.try.guarded /\ ~ConditionCloned(p, plan) THEN Panicked
                    ELSE apply_fwd(p, plan)
      Plans(loops) == [i \in 1..Len(loops) |-> analyze_fwd(p, loops[i])]
  IN IF p = Panicked THEN p ELSE With(FirstPlan(Plans(natural_loops(p, dominator_tree(p)))))
LLVMLoopCarriedFwdPass(p) == Iterate(forward_one_loop, p, FwdRounds)
=============================================================================
