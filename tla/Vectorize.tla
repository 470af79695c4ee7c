----------------------------- MODULE Vectorize -----------------------------
(***************************************************************************)
(* llvm-vectorize (vectorize.rs): a unit-stride loop of two blocks gets a  *)
(* vector loop in front of it and stays as the scalar epilogue.  Widths    *)
(* are scaled: n stands for i32 (4 lanes), w for i64 (2 lanes), d for the  *)
(* 64-bit induction variable, one cell for the 4 bytes of a lane.          *)
(* Floating-point lanes are not modelled.                                  *)
(***************************************************************************)
EXTENDS LoopCarried

VectorizeRounds == 64
elem_kind_of(t) == IF t = "n" THEN "I32" ELSE IF t = "w" THEN "I64" ELSE "none"
lanes(t) == IF elem_kind_of(t) = "I32" THEN 4 ELSE 2
VectorType(t) == IF t = "n" THEN "v4n" ELSE "v2w"
VBinKinds == {"add", "sub", "mul", "and", "or", "xor", "shl", "lshr", "ashr"}
Shifts == {"shl", "lshr", "ashr"}

BodyUsers(p, v, body) == {o \in UNION {ToSet(p.ops[b]) : b \in body} : v \in OpUses(o)}
BodyTermUsers(p, v, body) == {b \in body : v \in TermUses(p.term[b])}

\* alloca_slot_is_loop_invariant: the slot and its casts are only loaded, or
\* stored to outside the loop.
RECURSIVE alloca_slot_is_loop_invariant(_, _, _)
alloca_slot_is_loop_invariant(p, slot, body) ==
  /\ \A b \in BlockSet(p) : slot \notin TermUses(p.term[b])
  /\ \A s \in OpSites(p) :
       LET o == At(p, s)
       IN slot \in OpUses(o) =>
            \/ o.k = "load"
            \/ o.k = "store" /\ o.a[1] # slot /\ s[1] \notin body
            \/ o.k = "bitcast" /\ alloca_slot_is_loop_invariant(p, o.d, body)

\* The header arguments besides the induction variable: passed through
\* unchanged, or a sum that nothing else in the loop reads ("": neither).
ArgRole(p, l, body, iv, j) ==
  LET arg == p.args[l.header][j]
      upd == p.term[body].e[1][j]
      o == DefOp(p, upd)
  IN IF j = iv THEN "iv"
     ELSE IF upd = arg THEN "pass"
     ELSE IF /\ o.k = "add" /\ DefinedIn(p, upd, l.body) /\ arg \in OpUses(o)
             /\ BodyUsers(p, arg, l.body) \subseteq {o} /\ body \notin BodyTermUsers(p, arg, l.body)
             /\ BodyUsers(p, upd, l.body) = {}
             /\ \A i \in 1..Len(p.term[body].e[1]) : i # j => p.term[body].e[1][i] # upd
       THEN "sum" ELSE ""

\* The value v has throughout the loop (0: it varies).
resolve_invariant(p, l, c, v) ==
  LET at == {j \in 1..Len(c.hargs) : c.hargs[j] = v /\ c.roles[j] = "pass"}
  IN IF ~DefinedIn(p, v, l.body) THEN v ELSE IF at = {} THEN 0 ELSE c.init[Min(at)]

\* Index expressions of the body: iv + invariant, iv << k.
IndexAdds(p, l, c) ==
  {o \in ToSet(c.ops) : /\ o.k = "add" /\ o.d # c.update /\ c.iv \in OpUses(o)
                        /\ resolve_invariant(p, l, c, IF o.a[1] = c.iv THEN o.a[2] ELSE o.a[1]) # 0}
IndexShls(p, c) ==
  {o \in ToSet(c.ops) : o.k = "shl" /\ o.a[1] = c.iv /\ IsConst(p, o.a[2]) /\ ConstBits(p, o.a[2]) < 4}
SlotLoads(p, l, c) ==
  {o \in ToSet(c.ops) : /\ o.k = "load" /\ ~DefinedIn(p, o.a[1], l.body)
                        /\ DefOp(p, o.a[1]).k = "alloca"
                        /\ alloca_slot_is_loop_invariant(p, o.a[1], l.body)}
\* The address of a gep: its base (a value, or the slot it is reloaded
\* from), and the form of its index.  <<>>: not unit stride.
AddrKeyOf(p, l, c, o) ==
  LET inv == resolve_invariant(p, l, c, o.a[1])
      slot == {s \in c.slotLoads : s.d = o.a[1]}
      base == IF inv # 0 THEN <<"inv", inv>>
              ELSE IF slot # {} THEN <<"slot", (CHOOSE s \in slot : TRUE).a[1]>> ELSE <<"", 0>>
      x == o.a[2]
      def == DefOp(p, x)
  IN IF o.k # "gep" \/ o.c >= 0 \/ base[2] = 0 THEN <<>>
     ELSE IF x = c.iv THEN base \o <<"elem", 0>>
     ELSE IF def \in c.adds
       THEN base \o <<"elem", resolve_invariant(p, l, c, IF def.a[1] = c.iv THEN def.a[2] ELSE def.a[1])>>
     ELSE IF def \in c.shls /\ o.p = "n" THEN base \o <<"shl", ConstBits(p, def.a[2])>>
     ELSE <<>>
check_access_shape(p, gep, key, t) ==
  IF key[3] = "elem" THEN gep.p = t ELSE 2 ^ key[4] = Cells(t)

\* What an operand becomes: a vector, the splat of an invariant or of a
\* constant of the body (<<"none", 0>>: neither).
resolve_operand(p, l, c, st, v) ==
  LET inv == resolve_invariant(p, l, c, v)
  IN IF v \in st.vec THEN <<"vec", v>>
     ELSE IF v \in st.consts THEN <<"const", v>>
     ELSE IF inv # 0 THEN <<"splat", inv>> ELSE <<"none", 0>>
check_operand_type(p, opd, t) == opd[1] = "vec" \/ (opd[1] # "none" /\ p.ty[opd[2]] = t)
require_elem(st, t) == elem_kind_of(t) # "none" /\ st.elem \in {"", t}

\* Classify the operations of the body in order.
RECURSIVE Classify(_, _, _, _, _)
Classify(p, l, c, ops, st) ==
  LET o == Head(ops)
      go(s) == Classify(p, l, c, Tail(ops), s)
      no == [st EXCEPT !.ok = FALSE]
      opd(i) == resolve_operand(p, l, c, st, o.a[i])
      addr == IF o.k = "store" THEN o.a[2] ELSE o.a[1]
      key == c.keys[addr]
      red == {j \in 1..Len(c.hargs) : c.roles[j] = "sum" /\ c.latchOps[j] = o.d}
      acc == c.hargs[Min(red)]
      x == IF o.a[1] = acc THEN 2 ELSE 1
      act(k, args, j, t) == [st EXCEPT !.elem = t, !.acts = Append(@, [k |-> k, o |-> o, args |-> args, j |-> j])]
      t == IF o.k = "store" THEN p.ty[o.a[1]] ELSE p.ty[o.d]
      sh == ConstBits(p, o.a[2])
  IN IF ops = <<>> \/ ~st.ok THEN st
     ELSE IF o.d = c.update \/ o.d \in c.skip THEN go(st)
     ELSE IF o.k = "const" THEN go([st EXCEPT !.consts = @ \union {o.d}])
     ELSE IF o.d # 0 /\ red # {}
       THEN IF require_elem(st, p.ty[acc]) /\ check_operand_type(p, opd(x), p.ty[acc])
              THEN go(act("sum", <<opd(x)>>, Min(red), p.ty[acc])) ELSE no
     ELSE IF o.k \in {"load", "store"}
       THEN IF addr \notin DOMAIN c.keys \/ ~require_elem(st, t) THEN no
            ELSE IF ~check_access_shape(p, DefOp(p, addr), key, t) THEN no
            ELSE IF o.k = "load" THEN go([act("load", <<>>, 0, t) EXCEPT !.vec = @ \union {o.d}])
            ELSE IF check_operand_type(p, opd(1), t) THEN go(act("store", <<opd(1)>>, 0, t)) ELSE no
     ELSE IF \/ o.k \notin VBinKinds \/ ~require_elem(st, t)
             \/ o.k = "mul" /\ elem_kind_of(t) = "I64" THEN no
     ELSE IF o.k \in Shifts /\ ~IsConst(p, o.a[2]) THEN no
     ELSE IF \/ o.k \in Shifts /\ ~(sh < Bits(t) /\ (o.k = "shl" \/ sh > 0))
             \/ ~check_operand_type(p, opd(1), t) \/ opd(2)[1] = "none"
             \/ o.k \notin Shifts /\ ~check_operand_type(p, opd(2), t) THEN no
     ELSE go([act("bin", <<opd(1), opd(2)>>, 0, t) EXCEPT !.vec = @ \union {o.d}])

\* The addresses of the memory actions; a base that is stored through is
\* reached through one address only.
KeyOf(c, a) == c.keys[IF a.k = "store" THEN a.o.a[2] ELSE a.o.a[1]]
AliasFree(c, acts) ==
  \A i, j \in 1..Len(acts) :
    acts[i].k = "store" /\ acts[j].k \in {"load", "store"}
      => LET s == KeyOf(c, acts[i])  o == KeyOf(c, acts[j])
         IN SubSeq(s, 1, 2) = SubSeq(o, 1, 2) => s = o

\* The loop's shape: header <<icmp, cond_br>>, argument-less body.
VecShape(p, l) ==
  LET h == l.header  body == CHOOSE b \in l.body : b # h  t == p.term[h]
  IN /\ Cardinality(l.latches) = 1 /\ Cardinality(l.body) = 2 /\ h \notin p.epi
     /\ l.latches = {body} /\ p.args[body] = <<>> /\ preheader(p, l) # 0
     /\ t.k = "cbr" /\ Len(p.ops[h]) = 1 /\ p.term[body].k = "br"
     /\ p.ops[h][1].k = "icmp" /\ t.c = p.ops[h][1].d
     /\ t.s[1] = body /\ t.s[2] \notin l.body
\* The induction variable: the compared header argument j, stepped by one.
VecTest(p, l, cmp) ==
  LET hargs == p.args[l.header]
      left == {j \in 1..Len(hargs) : hargs[j] = cmp.a[1]}
      right == {j \in 1..Len(hargs) : hargs[j] = cmp.a[2]}
      counts == \/ left # {} /\ cmp.p \in {"ult", "slt"}
                \/ left = {} /\ right # {} /\ cmp.p \in {"ugt", "sgt"}
  IN IF ~counts THEN NoPlan
     ELSE [ok |-> TRUE, j |-> IF left # {} THEN Min(left) ELSE Min(right),
           bound |-> IF left # {} THEN cmp.a[2] ELSE cmp.a[1], signed |-> cmp.p \in {"slt", "sgt"}]
UnitStep(p, l, iv, update, upd, bound) ==
  LET step == IF upd.a[1] = iv THEN upd.a[2] ELSE upd.a[1]
  IN /\ p.ty[iv] = "d" /\ ~DefinedIn(p, bound, l.body)
     /\ upd.k = "add" /\ DefinedIn(p, update, l.body) /\ iv \in OpUses(upd)
     /\ IsConst(p, step) /\ ConstBits(p, step) = 1 /\ p.ty[step] = "d"
     /\ BodyUsers(p, update, l.body) = {}
     /\ update \notin TermUses(p.term[l.header])
FeedsOnly(p, l, v, users) == BodyUsers(p, v, l.body) \subseteq users /\ BodyTermUsers(p, v, l.body) = {}
SlotsOf(c, geps, keys) == {o \in c.slotLoads : \E g \in geps : keys[g.d][1] = "slot" /\ keys[g.d][2] = o.a[1]}
analyze_vec(p, l) ==
  LET h == l.header
      body == CHOOSE b \in l.body : b # h
      cmp == p.ops[h][1]
      Plan(t, c, st, slots) ==
        IF ~st.ok \/ ~\E i \in 1..Len(st.acts) : st.acts[i].k \in {"load", "store"} THEN NoPlan
        ELSE IF ~AliasFree(c, st.acts) THEN NoPlan
        ELSE [ok |-> TRUE, pre |-> preheader(p, l), header |-> h, ivAt |-> t.j, bound |-> t.bound,
              signed |-> t.signed, init |-> c.init, c |-> c, roles |-> c.roles,
              sums |-> SetToSortSeq({i \in 1..Len(c.roles) : c.roles[i] = "sum"}, <),
              elem |-> st.elem, acts |-> st.acts,
              slotRep |-> [a \in {o.a[1] : o \in slots} |-> p.ty[(CHOOSE o \in slots : o.a[1] = a).d]]]
      Actions(t, c, slots) ==
        Plan(t, c, Classify(p, l, c, p.ops[body],
                            [ok |-> TRUE, elem |-> "", vec |-> {}, consts |-> {}, acts |-> <<>>]), slots)
      Skipped(t, c, geps, keys, idx, slots) ==
        IF \/ \E o \in idx \union slots : ~FeedsOnly(p, l, o.d, geps)
           \/ \E g \in geps : ~FeedsOnly(p, l, g.d, {o \in ToSet(c.ops) : o.k \in {"load", "store"}})
           \/ ~(BodyUsers(p, c.iv, l.body) \subseteq {cmp, DefOp(p, c.update)} \union geps \union idx)
           \/ body \in BodyTermUsers(p, c.iv, l.body) THEN NoPlan
        ELSE Actions(t, c @@ [keys |-> keys, skip |-> {o.d : o \in geps \union idx \union slots}], slots)
      Geps(t, c, geps, keys) ==
        Skipped(t, c, geps, keys, {o \in c.adds \union c.shls : \E g \in geps : g.a[2] = o.d},
             SlotsOf(c, geps, keys))
      Addressed(t, c, geps) == Geps(t, c, geps, [v \in {o.d : o \in geps} |-> AddrKeyOf(p, l, c, DefOp(p, v))])
      Indexed(t, c) == Addressed(t, c, {o \in ToSet(c.ops) : o.k = "gep" /\ AddrKeyOf(p, l, c, o) # <<>>})
      Context(t, c) ==
        IF \/ ~UnitStep(p, l, c.iv, c.update, DefOp(p, c.update), t.bound)
           \/ "" \in ToSet(c.roles) THEN NoPlan
        ELSE Indexed(t, c @@ [adds |-> IndexAdds(p, l, c), shls |-> IndexShls(p, c), slotLoads |-> SlotLoads(p, l, c)])
      Tested(t) ==
        IF ~t.ok THEN NoPlan
        ELSE Context(t, [hargs |-> p.args[h], latchOps |-> p.term[body].e[1], init |-> p.term[preheader(p, l)].e[1],
                         roles |-> [i \in 1..Len(p.args[h]) |-> ArgRole(p, l, body, t.j, i)],
                         iv |-> p.args[h][t.j], update |-> p.term[body].e[1][t.j], ops |-> p.ops[body]])
  IN IF ~VecShape(p, l) THEN NoPlan ELSE Tested(VecTest(p, l, cmp))

---------------------------------------------------------------------------
\* Materialize the base of every memory action before the loop.
RECURSIVE Bases(_, _, _, _)
Bases(p, plan, acts, s) ==
  LET Shifted(key, e, slots, base) ==
        [e |-> IF key[3] = "shl" THEN emit_const(e, "d", key[4]) ELSE e, slots |-> slots,
         base |-> (key :> base) @@ s.base, sh |-> IF key[3] = "shl" THEN (key :> e.n) @@ s.sh ELSE s.sh]
      Based(key, e, slots, raw) ==
        IF key[3] = "elem" /\ key[4] # 0
          THEN Shifted(key, Emit(e, "gep", <<raw, key[4]>>, -1, plan.elem, "ptr"), slots, e.n)
          ELSE Shifted(key, e, slots, raw)
      Of(key) == IF key[1] # "slot" THEN Based(key, s.e, s.slots, key[2])
                 ELSE IF key[2] \in DOMAIN s.slots THEN Based(key, s.e, s.slots, s.slots[key[2]])
                 ELSE Based(key, Emit(s.e, "load", <<key[2]>>, 0, "", plan.slotRep[key[2]]),
                            (key[2] :> s.e.n) @@ s.slots, s.e.n)
      Next(key) == IF key \in DOMAIN s.base THEN s ELSE Of(key)
  IN IF acts = <<>> THEN s
     ELSE Bases(p, plan, Tail(acts),
                IF Head(acts).k \in {"load", "store"} THEN Next(KeyOf(plan.c, Head(acts))) ELSE s)
\* Splat every scalar operand once; a constant of the body is cloned first.
RECURSIVE Splats(_, _, _, _)
Splats(p, plan, opds, s) ==
  LET Splat(e, v, x) == [e |-> Emit(e, "vsplat", <<x>>, 0, "", VectorType(plan.elem)), of |-> (v :> e.n) @@ s.of]
      Next(k, v) == IF k = "vec" \/ v \in DOMAIN s.of THEN s
                    ELSE IF k = "const" THEN Splat(emit_const(s.e, p.ty[v], ConstBits(p, v)), v, s.e.n)
                    ELSE Splat(s.e, v, v)
  IN IF opds = <<>> THEN s ELSE Splats(p, plan, Tail(opds), Next(Head(opds)[1], Head(opds)[2]))
RECURSIVE ZeroSums(_, _, _)
ZeroSums(plan, n, s) ==
  LET z == emit_const(s.e, plan.elem, 0)
      v == Emit(z, "vsplat", <<R(z)>>, 0, "", VectorType(plan.elem))
  IN IF n = 0 THEN s ELSE ZeroSums(plan, n - 1, [e |-> v, zero |-> Append(s.zero, R(v))])
\* One vector operation per action; m maps the scalar results.
RECURSIVE VectorBody(_, _, _)
VectorBody(plan, acts, s) ==
  LET a == Head(acts)
      vt == VectorType(plan.elem)
      val(o) == IF o[1] = "vec" THEN s.m[o[2]] ELSE s.splat[o[2]]
      Access(e) == IF a.k = "load" THEN [s EXCEPT !.e = Emit(e, "vload", <<R(e)>>, 0, "", vt), !.m = (a.o.d :> e.n) @@ @]
                   ELSE [s EXCEPT !.e = [Emit(e, "vstore", <<val(a.args[1]), R(e)>>, 0, "", vt)
                                           EXCEPT !.ops[Len(e.ops) + 1].d = 0]]
      Memory(key) == IF key[3] # "shl" THEN Access(Emit(s.e, "gep", <<s.base[key], s.viv>>, -1, plan.elem, "ptr"))
                     ELSE Access(Emit(EmitBin(s.e, "shl", s.viv, s.sh[key], "d"),
                                      "gep", <<s.base[key], s.e.n>>, -1, "n", "ptr"))
      slot == CHOOSE i \in 1..Len(plan.sums) : plan.sums[i] = a.j
  IN IF acts = <<>> THEN s
     ELSE VectorBody(plan, Tail(acts),
            CASE a.k \in {"load", "store"} -> Memory(KeyOf(plan.c, a))
              [] a.k = "bin" -> [s EXCEPT !.e = Emit(@, "vbin", <<val(a.args[1]), val(a.args[2])>>, 0, a.o.k, vt),
                                          !.m = (a.o.d :> s.e.n) @@ @]
              [] a.k = "sum" -> [s EXCEPT !.e = Emit(@, "vbin", <<s.acc[slot], val(a.args[1])>>, 0, "add", vt),
                                          !.acc[slot] = s.e.n])
\* In range, and at least a vector's worth of elements left.
VectorGuard(e, plan, viv, vf) ==
  EmitBin(Emit(EmitBin(Emit(e, "icmp", <<viv, plan.bound>>, 0, IF plan.signed THEN "slt" ELSE "ult", "i1"),
                       "sub", plan.bound, viv, "d"),
               "icmp", <<e.n + 1, vf>>, 0, "uge", "i1"),
          "and", e.n, e.n + 2, "i1")
\* mid: the reduced sums, added to what the loop was entered with.
RECURSIVE ReduceSums(_, _, _, _)
ReduceSums(plan, i, vaccs, s) ==
  IF i > Len(plan.sums) THEN s
  ELSE ReduceSums(plan, i + 1, vaccs,
         [e |-> EmitBin(Emit(s.e, "vreduce", <<vaccs[i]>>, 0, "add", plan.elem),
                        "add", plan.init[plan.sums[i]], s.e.n, plan.elem),
          out |-> [s.out EXCEPT ![plan.sums[i]] = s.e.n + 1]])
apply_vec(p, plan) ==
  LET vh == FreshBlock(p)  vb == vh + 1  mid == vh + 2
      vf == Fresh(p)   \* the constant number of lanes
      Ends(q, zero, guard, viv, next, acc, out) ==
        [q EXCEPT !.term[vh] = CondBr(guard, vb, <<>>, mid, <<>>),
                  !.term[vb] = Br(vh, <<next>> \o acc),
                  !.term[mid] = Br(plan.header, out),
                  !.term[plan.pre] = Br(vh, <<plan.init[plan.ivAt]>> \o zero),
                  !.epi = @ \union {plan.header}]
      Reduced(q, zero, guard, viv, next, acc, red) ==
        Ends(InsertOps(q, mid, 1, red.e), zero, guard, viv, next, acc, red.out)
      Stepped(q, zero, guard, viv, next, acc) ==
        Reduced(q, zero, guard, viv, next, acc,
                ReduceSums(plan, 1, Tail(q.args[vh]), [e |-> Start(q), out |-> [plan.init EXCEPT ![plan.ivAt] = viv]]))
      Bodied(q, zero, guard, viv, body) ==
        Stepped(InsertOps(q, vb, 1, EmitBin(body.e, "add", viv, vf, "d")), zero, guard, viv, body.e.n, body.acc)
      Guarded(q, zero, s, viv) ==
        Bodied(q, zero, Fresh(q) - 1, viv,
               VectorBody(plan, plan.acts, [e |-> Start(q), m |-> <<>>, acc |-> Tail(q.args[vh]), viv |-> viv,
                                            splat |-> s.of, base |-> s.base, sh |-> s.sh]))
      Entered(q, zero, s, viv) == Guarded(InsertOps(q, vh, 1, VectorGuard(Start(q), plan, viv, vf)), zero, s, viv)
      Opened(q, zero, s) == Entered(q, zero, s, q.args[vh][1])
      Splatted(zero, s) ==
        Opened(AddBlock(AddBlock(AddBlock(InsertOps(p, plan.pre, Len(p.ops[plan.pre]) + 1, s.e),
                                          vh, <<"d">> \o [i \in 1..Len(plan.sums) |-> VectorType(plan.elem)]),
                                 vb, <<>>), mid, <<>>), zero, s)
      Based(zero, b) ==
        Splatted(zero, Splats(p, plan, FlattenSeq([i \in 1..Len(plan.acts) |-> plan.acts[i].args]),
                              [e |-> b.e, of |-> <<>>]) @@ b)
      Zeroed(z) == Based(z.zero, Bases(p, plan, plan.acts, [e |-> z.e, slots |-> <<>>, base |-> <<>>, sh |-> <<>>]))
  IN Zeroed(ZeroSums(plan, Len(plan.sums),
                     [e |-> emit_const(Start(p), "d", lanes(plan.elem)), zero |-> <<>>]))

VectorizeOne(p) ==
  LET With(plan) == IF plan.ok THEN apply_vec(p, plan) ELSE p
      Plans(loops) == [i \in 1..Len(loops) |-> analyze_vec(p, loops[i])]
  IN With(FirstPlan(Plans(natural_loops(p, dominator_tree(p)))))
vectorize_region(p) == Iterate(VectorizeOne, p, VectorizeRounds)
\* Only for targets with 128-bit lanes and without divergent branches.
LLVMVectorizePass(p) == vectorize_region(p)
=============================================================================
