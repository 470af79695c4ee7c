---------------------------- MODULE ScalarPasses ----------------------------
(***************************************************************************)
(* The mid-end's passes over single operations and slots: value numbering, *)
(* code motion and deletion, division by constants, scalar replacement.    *)
(***************************************************************************)
EXTENDS Simplify

-----------------------------------------------------------------------------
(***************************************************************************)
(* llvm-gvn (gvn.rs): dominator-scoped merging of equal pure operations,   *)
(* and loads replaced by the value a dominating store or load of the same  *)
(* address left, searched along the chain of unique predecessors.          *)
(***************************************************************************)

CONSTANT MaxChain   \* MAX_CHAIN_BLOCKS
GvnRounds == 8

\* expr_key: operations with equal keys compute equal values.  The overflow
\* flag, the predicate, the element type and the path are part of the key.
expr_key(p, o) == <<o.k, o.a, o.c, o.p, o.x, p.ty[o.d]>>
HasKey(o) == o.k \in BinKinds \union CastKinds \union {"select", "icmp", "gep", "extract"}
\* cse: in dominator-tree order, an operation takes the value of an earlier
\* one with its key in a block that dominates it.
Earlier(p, dom, s, u) ==
  \/ s[1] = u[1] /\ s[2] < u[2]
  \/ s[1] # u[1] /\ Dominates(dom, s[1], u[1])
Redundant(p, dom) ==
  {u \in OpSites(p) : /\ u[1] \in DOMAIN dom /\ HasKey(At(p, u))
                      /\ \E s \in OpSites(p) : /\ Earlier(p, dom, s, u) /\ HasKey(At(p, s))
                                               /\ expr_key(p, At(p, s)) = expr_key(p, At(p, u))}
RECURSIVE Merge(_, _)
Merge(p, dom) ==
  LET red == Redundant(p, dom)
      \* the walk reaches a dominating block first, and a block in order
      first == CHOOSE u \in red : \A s \in red : ~Earlier(p, dom, s, u)
      by == {s \in OpSites(p) : /\ Earlier(p, dom, s, first) /\ HasKey(At(p, s))
                                /\ expr_key(p, At(p, s)) = expr_key(p, At(p, first))}
      top == CHOOSE s \in by : \A r \in by : r = s \/ Earlier(p, dom, s, r)
  IN IF red = {} THEN p ELSE Merge(ReplaceOpWith(p, At(p, first).d, At(p, top).d), dom)
cse(p) == Merge(p, dominator_tree(p))

RECURSIVE addr_key(_, _)
\* addr_key: the value itself, seen through bitcasts, a gep by its base's
\* key, element type and index.
addr_key(p, v) ==
  LET o == DefOp(p, v)
  IN IF o.k = "gep" THEN <<addr_key(p, o.a[1]), o.p, o.c, IF o.c < 0 THEN o.a[2] ELSE 0>>
     ELSE IF o.k = "bitcast" THEN addr_key(p, o.a[1])
     ELSE <<<<>>, "", v, 0>>

RECURSIVE layout_compatible(_, _)
layout_compatible(t, u) ==
  \/ t = u
  \/ t \in IntTypes /\ u \in IntTypes /\ Bits(t) = Bits(u)
  \/ /\ IsStruct(t) /\ IsStruct(u)
     /\ \A i \in 1..2 : layout_compatible(FieldTypes(t)[i], FieldTypes(u)[i])

Killed == <<"killed", 0>>
Unknown == <<"unknown", 0>>
\* Mutant of Resolves: a store to another address does not end the search.
Resolves_StoresPass(p, o, key, t) ==
  IF o.k = "store"
    THEN IF addr_key(p, o.a[2]) # key THEN Unknown
         ELSE IF p.ty[o.a[1]] = t THEN <<"value", o.a[1]>> ELSE Killed
  ELSE IF o.k = "load"
    THEN IF addr_key(p, o.a[1]) = key /\ p.ty[o.d] = t THEN <<"value", o.d>> ELSE Unknown
  ELSE IF o.k \notin memory_benign_op_ids THEN Killed
  ELSE Unknown
\* What operation o says of a load of key at type t: a value, an aggregate
\* of a compatible type, a kill, or nothing.
Resolves(p, o, key, t) ==
  IF o.k = "store"
    THEN IF addr_key(p, o.a[2]) # key THEN Killed
         ELSE IF p.ty[o.a[1]] = t THEN <<"value", o.a[1]>>
         ELSE IF layout_compatible(p.ty[o.a[1]], t) THEN <<"aggregate", o.a[1]>>
         ELSE Killed
  ELSE IF o.k = "load"
    THEN IF addr_key(p, o.a[1]) = key /\ p.ty[o.d] = t THEN <<"value", o.d>> ELSE Unknown
  ELSE IF o.k \notin memory_benign_op_ids THEN Killed
  ELSE Unknown
\* resolve_load: scan block b upwards from position i, then its only
\* predecessor; a block seen twice or a join ends the search.
RECURSIVE Scan(_, _, _, _, _, _)
Scan(p, b, i, key, t, visited) ==
  IF i = 0
    THEN LET preds == Preds(p, b)  q == CHOOSE x \in preds : TRUE
         IN IF Cardinality(preds) # 1 \/ q \in visited \/ Cardinality(visited) = MaxChain
              THEN Unknown
              ELSE Scan(p, q, Len(p.ops[q]), key, t, visited \union {q})
    ELSE LET r == Resolves(p, p.ops[b][i], key, t)
         IN IF r # Unknown THEN r ELSE Scan(p, b, i - 1, key, t, visited)
resolve_load(p, b, i) ==
  LET o == p.ops[b][i] IN Scan(p, b, i - 1, addr_key(p, o.a[1]), p.ty[o.d], {b})

\* stored_field: the value inserted at exactly this path of the aggregate.
RECURSIVE stored_field(_, _, _)
stored_field(p, agg, path) ==
  LET def == DefOp(p, agg)
  IN IF def.k # "insert" THEN 0
     ELSE IF def.x = path THEN def.a[2]
     ELSE IF Overlaps(def.x, path) THEN 0
     ELSE stored_field(p, def.a[1], path)
RECURSIVE ForwardFields(_, _, _)
ForwardFields(p, users, stored) ==
  IF users = {} THEN p
  ELSE LET u == Min(users)  f == stored_field(p, stored, DefOp(p, u).x)
       IN ForwardFields(IF f # 0 /\ p.ty[f] = p.ty[u] THEN ReplaceOpWith(p, u, f) ELSE p,
                        users \ {u}, stored)
forward_extracted_fields(p, load, stored) ==
  LET q == ForwardFields(p, {o.d : o \in {e \in AllOps(p) : e.k = "extract" /\ e.a[1] = load}}, stored)
  IN IF q # p /\ ~Used(q, load) THEN EraseAt(q, DefBlock(q, load), PositionOf(q, DefBlock(q, load), load))
     ELSE q
RECURSIVE LoadsFrom(_, _)
LoadsFrom(p, loads) ==
  IF loads = <<>> THEN p
  ELSE LET v == Head(loads)  b == DefBlock(p, v)
           r == resolve_load(p, b, PositionOf(p, b, v))
       IN LoadsFrom(CASE r[1] = "value" -> ReplaceOpWith(p, v, r[2])
                      [] r[1] = "aggregate" -> forward_extracted_fields(p, v, r[2])
                      [] OTHER -> p, Tail(loads))
eliminate_loads(p) ==
  LET loads == SelectSeq(function_ops(p), LAMBDA o : o.k = "load")
  IN LoadsFrom(p, [i \in 1..Len(loads) |-> loads[i].d])
GvnRound(p) == eliminate_loads(cse(p))
LLVMGvnPass(p) == Iterate(GvnRound, p, GvnRounds)

-----------------------------------------------------------------------------
(***************************************************************************)
(* llvm-licm (licm.rs), llvm-sink (sink.rs) and llvm-adce (adce.rs): an    *)
(* operation moves up into the preheader of a loop it does not depend on,  *)
(* or down to the nearest block that dominates its uses, or goes when no   *)
(* terminator and no effect depends on it.                                 *)
(***************************************************************************)

LicmRounds == 8
SinkRounds == 4

MoveToEnd(p, v, b) ==
  LET o == DefOp(p, v)  c == DefBlock(p, v)
      q == EraseAt(p, c, PositionOf(p, c, v)) IN [q EXCEPT !.ops[b] = Append(@, o)]
MoveToFront(p, v, b) ==
  LET o == DefOp(p, v)  c == DefBlock(p, v)
      q == EraseAt(p, c, PositionOf(p, c, v)) IN [q EXCEPT !.ops[b] = <<o>> \o @]
\* Mutant of Hoistable: the last operand is not looked at.
Hoistable_FirstOperand(p, l) ==
  {o.d : o \in {x \in UNION {ToSet(p.ops[b]) : b \in l.body} :
                  x.k \in hoistable_op_ids /\ x.a # <<>> /\ ~DefinedIn(p, x.a[1], l.body)}}
\* hoist_in_region: pure operations with operands, all defined outside the
\* loop, go to the end of its preheader until none is left.
Hoistable(p, l) ==
  {o.d : o \in {x \in UNION {ToSet(p.ops[b]) : b \in l.body} :
                  /\ x.k \in hoistable_op_ids /\ x.a # <<>>
                  /\ \A i \in 1..Len(x.a) : ~DefinedIn(p, x.a[i], l.body)}}
RECURSIVE HoistLoop(_, _, _)
HoistLoop(p, l, pre) ==
  LET vs == Hoistable(p, l) IN IF vs = {} THEN p ELSE HoistLoop(MoveToEnd(p, Min(vs), pre), l, pre)
RECURSIVE HoistLoops(_, _, _)
HoistLoops(p, loops, i) ==
  IF i > Len(loops) THEN p
  ELSE LET pre == preheader(p, loops[i])
       IN HoistLoops(IF pre = 0 THEN p ELSE HoistLoop(p, loops[i], pre), loops, i + 1)
hoist_in_region(p) == HoistLoops(p, natural_loops(p, dominator_tree(p)), 1)
LLVMLicmPass(p) == Iterate(hoist_in_region, p, LicmRounds)

\* sink_in_region: operations in reverse order, each to the front of the
\* nearest common dominator of its uses, unless that is its own block, is
\* not dominated by it, lies in a further loop or, on a divergent target,
\* does not post-dominate the block it leaves.
LoopsOf(loops, b) == {i \in 1..Len(loops) : b \in loops[i].body}
SinkTarget(p, v, dom, loops, pdt, divergent) ==
  LET from == DefBlock(p, v)
      to == nearest_common_dominator(dom, UseBlocks(p, v))
  IN IF \/ to \in {0, from} \/ from \notin DOMAIN dom \/ ~Dominates(dom, from, to)
        \/ divergent /\ ~postdominates(pdt, to, from)
        \/ ~(LoopsOf(loops, to) \subseteq LoopsOf(loops, from))
     THEN 0 ELSE to
RECURSIVE SinkEach(_, _, _, _, _, _)
SinkEach(p, ops, dom, loops, pdt, divergent) ==
  IF ops = <<>> THEN p
  ELSE LET o == ops[Len(ops)]  to == SinkTarget(p, o.d, dom, loops, pdt, divergent)
       IN SinkEach(IF o.d = 0 \/ o.k \notin sinkable_op_ids THEN p
                   ELSE IF to = 0 THEN p ELSE MoveToFront(p, o.d, to),
                   Front(ops), dom, loops, pdt, divergent)
sink_in_region(p, divergent) ==
  LET dom == dominator_tree(p)
  IN SinkEach(p, function_ops(p), dom, natural_loops(p, dom), PostDomTree(p), divergent)
\* divergent is TargetProfile::has_branch_divergence.
LLVMSinkPass(p, divergent) == Iterate(LAMBDA q : sink_in_region(q, divergent), p, SinkRounds)

\* adce_region: mark from the terminators and every operation with effects
\* back through operands, then erase what is unmarked and unused.
RECURSIVE Mark(_, _, _)
Mark(p, work, marked) ==
  LET defs == {o \in AllOps(p) : o.d # 0 /\ \E u \in work : o.d \in OpUses(u)}
      new == defs \ marked
  IN IF new = {} THEN marked ELSE Mark(p, new, marked \union new)
Marked(p) ==
  LET effects == {o \in AllOps(p) : o.k \notin deletable_op_ids}
      ends == {o \in AllOps(p) : \E b \in BlockSet(p) : o.d # 0 /\ o.d \in TermUses(p.term[b])}
  IN Mark(p, effects \union ends, effects \union ends)
adce_region(p) ==
  LET marked == Marked(p)
      dead(q, o) == o \notin marked /\ ~(o.d # 0 /\ Used(q, o.d))
  IN EraseWhere(dead, p)
LLVMAdcePass(p) == adce_region(p)

-----------------------------------------------------------------------------
(***************************************************************************)
(* llvm-div-strength-reduce (div_strength_reduce.rs): divisions and        *)
(* remainders by constants become shifts and multiply-high sequences.  The *)
(* widths are scaled: n stands for 8 and 16 bits, w for 32, d for 64.      *)
(***************************************************************************)

\* The operations emitted so far: ops with their types, n the next value.
Start(p) == [ops |-> <<>>, tys |-> <<>>, n |-> Fresh(p)]
Emit(e, k, a, c, p, t) == [ops |-> Append(e.ops, Op(k, e.n, a, c, p, <<>>)),
                           tys |-> Append(e.tys, t), n |-> e.n + 1]
R(e) == e.n - 1
emit_const(e, t, c) == Emit(e, "const", <<>>, c % 2 ^ Bits(t), "", t)
EmitBin(e, k, l, r, t) == Emit(e, k, <<l, r>>, 0, "", t)

\* The expansion of a division is a sequence of operations whose last one is
\* the result.  An operand -j is the result of the j-th operation before.
Ins(k, a, c, p, t) == [k |-> k, a |-> a, c |-> c, p |-> p, t |-> t]
InsConst(t, c) == Ins("const", <<>>, c % 2 ^ Bits(t), "", t)
InsBin(k, l, r, t) == Ins(k, <<l, r>>, 0, "", t)
InsCast(k, a, t) == Ins(k, <<a>>, 0, "", t)
\* An operation with a constant right operand, on a value or on the last result.
InsBinC(k, l, c, t) == <<InsConst(t, c), InsBin(k, l, -1, t)>>
LastBinC(k, c, t) == InsBinC(k, -2, c, t)

RECURSIVE MagicULoop(_, _, _, _)
MagicULoop(s, d, nc, n) ==
  LET top == 2 ^ (n - 1)
      q1 == IF s.r1 >= nc - s.r1 THEN 2 * s.q1 + 1 ELSE 2 * s.q1
      r1 == IF s.r1 >= nc - s.r1 THEN 2 * s.r1 - nc ELSE 2 * s.r1
      up == s.r2 + 1 >= d - s.r2
      q2 == IF up THEN 2 * s.q2 + 1 ELSE 2 * s.q2
      r2 == IF up THEN 2 * s.r2 + 1 - d ELSE 2 * s.r2 + 1
      add == s.add \/ s.q2 >= (IF up THEN top - 1 ELSE top)
      next == [p |-> s.p + 1, q1 |-> q1, r1 |-> r1, q2 |-> q2, r2 |-> r2, add |-> add]
      delta == d - 1 - r2
  IN IF next.p < 2 * n /\ (q1 < delta \/ (q1 = delta /\ r1 = 0))
       THEN MagicULoop(next, d, nc, n) ELSE next
magic_unsigned(d, n) ==
  LET top == 2 ^ (n - 1)  msk == 2 ^ n - 1
      nc == msk - ((msk - d + 1) % d)
      s == MagicULoop([p |-> n - 1, q1 |-> top \div nc, r1 |-> top % nc,
                       q2 |-> (top - 1) \div d, r2 |-> (top - 1) % d, add |-> FALSE], d, nc, n)
  IN [multiplier |-> (s.q2 + 1) % 2 ^ n, shift |-> s.p - n, add |-> s.add]

RECURSIVE MagicSLoop(_, _, _)
MagicSLoop(s, ad, anc) ==
  LET q1 == 2 * s.q1 + (IF 2 * s.r1 >= anc THEN 1 ELSE 0)
      r1 == 2 * s.r1 - (IF 2 * s.r1 >= anc THEN anc ELSE 0)
      q2 == 2 * s.q2 + (IF 2 * s.r2 >= ad THEN 1 ELSE 0)
      r2 == 2 * s.r2 - (IF 2 * s.r2 >= ad THEN ad ELSE 0)
      next == [p |-> s.p + 1, q1 |-> q1, r1 |-> r1, q2 |-> q2, r2 |-> r2]
      delta == ad - r2
  IN IF q1 < delta \/ (q1 = delta /\ r1 = 0) THEN MagicSLoop(next, ad, anc) ELSE next
Abs(d) == IF d < 0 THEN -d ELSE d
magic_signed(d, n) ==
  LET top == 2 ^ (n - 1)
      t == top + (IF d < 0 THEN 1 ELSE 0)
      anc == t - 1 - (t % Abs(d))
      s == MagicSLoop([p |-> n - 1, q1 |-> top \div anc, r1 |-> top % anc,
                       q2 |-> top \div Abs(d), r2 |-> top % Abs(d)], Abs(d), anc)
      m == (s.q2 + 1) % 2 ^ n
  IN [multiplier |-> sign_extend(IF d < 0 THEN -m ELSE m, n), shift |-> s.p - n]

\* emit_mulh: the high half of a * m.  At w the product is taken at d; at d
\* it is put together from half words.
MulhWiden(a, m, signed) ==
  <<InsCast(IF signed THEN "sext" ELSE "zext", a, "d")>>
  \o LastBinC("mul", IF signed THEN sign_extend(m, Bits("w")) ELSE m, "d")
  \o LastBinC("lshr", Bits("w"), "d")
  \o <<InsCast("trunc", -1, "w")>>
MulhHalves(a, m, signed) ==
  LET h == Bits("d") \div 2
      sh == IF signed THEN "ashr" ELSE "lshr"
      mask == 1  half == 2  u0 == 3  u1 == 4  v0 == 5  v1 == 6  w0 == 7  u1v0 == 8  w0hi == 9
      t == 10  w1lo == 11  w2 == 12  u0v1 == 13  w1 == 14  w1hi == 15  u1v1 == 16  partial == 17
      bin(at, k, l, r) == InsBin(k, l - at, r - at, "d")
  IN <<InsConst("d", 2 ^ h - 1), InsConst("d", h),
       InsBin("and", a, mask - u0, "d"), InsBin(sh, a, half - u1, "d"),
       InsConst("d", m % 2 ^ h),
       InsConst("d", (IF signed THEN sign_extend(m, Bits("d")) ELSE m) \div 2 ^ h),
       bin(w0, "mul", u0, v0), bin(u1v0, "mul", u1, v0),
       bin(w0hi, "lshr", w0, half), bin(t, "add", u1v0, w0hi),
       bin(w1lo, "and", t, mask), bin(w2, sh, t, half),
       bin(u0v1, "mul", u0, v1), bin(w1, "add", u0v1, w1lo), bin(w1hi, sh, w1, half),
       bin(u1v1, "mul", u1, v1), bin(partial, "add", u1v1, w2),
       bin(partial + 1, "add", partial, w1hi)>>
emit_mulh(t, a, m, signed) ==
  IF t = "w" THEN MulhWiden(a, m, signed) ELSE MulhHalves(a, m, signed)

UdivMagic(t, a, magic) ==
  emit_mulh(t, a, magic.multiplier, FALSE)
  \o (IF magic.add
        THEN <<InsBin("sub", a, -1, t)>> \o LastBinC("lshr", 1, t) \o <<InsBin("add", -1, -4, t)>>
             \o LastBinC("lshr", magic.shift - 1, t)
      ELSE IF magic.shift = 0 THEN <<>>
      ELSE LastBinC("lshr", magic.shift, t))
expand_udiv(t, a, d) ==
  IF IsPow2(d) THEN InsBinC("lshr", a, Log2(d), t) ELSE UdivMagic(t, a, magic_unsigned(d, Bits(t)))

SdivPow2(t, a, d) ==
  LET n == Bits(t)  k == Log2(Abs(d))
  IN InsBinC("ashr", a, n - 1, t) \o LastBinC("lshr", n - k, t)
     \o <<InsBin("add", a, -1, t)>> \o LastBinC("ashr", k, t)
     \o (IF d < 0 THEN <<InsConst(t, 0), InsBin("sub", -1, -2, t)>> ELSE <<>>)
SdivMagic(t, a, d, magic) ==
  emit_mulh(t, a, magic.multiplier % 2 ^ Bits(t), TRUE)
  \o (IF d > 0 /\ magic.multiplier < 0 THEN <<InsBin("add", -1, a, t)>>
      ELSE IF d < 0 /\ magic.multiplier > 0 THEN <<InsBin("sub", -1, a, t)>> ELSE <<>>)
  \o (IF magic.shift > 0 THEN LastBinC("ashr", magic.shift, t) ELSE <<>>)
  \o LastBinC("lshr", Bits(t) - 1, t) \o <<InsBin("add", -3, -1, t)>>
expand_sdiv(t, a, dbits) ==
  LET n == Bits(t)  d == sign_extend(dbits, n)
  IN IF d = -(2 ^ (n - 1))
       THEN <<InsConst(t, dbits), Ins("icmp", <<a, -1>>, 0, "eq", "i1"), InsCast("zext", -1, t)>>
     ELSE IF IsPow2(Abs(d)) THEN SdivPow2(t, a, d)
     ELSE SdivMagic(t, a, d, magic_signed(d, n))
emit_rem_from_quotient(t, a, d) == LastBinC("mul", d, t) \o <<InsBin("sub", a, -1, t)>>
expand(k, t, a, d) ==
  IF k = "urem" /\ IsPow2(d) THEN InsBinC("and", a, d - 1, t)
  ELSE (IF k \in {"udiv", "urem"} THEN expand_udiv(t, a, d) ELSE expand_sdiv(t, a, d))
       \o (IF k \in {"urem", "srem"} THEN emit_rem_from_quotient(t, a, d) ELSE <<>>)

\* The operations of code, numbered from the next value on.
Numbered(code, n) ==
  [ops |-> [j \in 1..Len(code) |->
              Op(code[j].k, n + j - 1,
                 [x \in 1..Len(code[j].a) |-> LET r == code[j].a[x] IN IF r < 0 THEN n + j - 1 + r ELSE r],
                 code[j].c, code[j].p, <<>>)],
   tys |-> [j \in 1..Len(code) |-> code[j].t], n |-> n + Len(code)]
\* Put the emitted operations before the operation defining v; the last
\* result, or v's first operand when there is none, stands for v.
Splice(p, v, e) ==
  LET b == DefBlock(p, v)  i == PositionOf(p, b, v)
      first == e.n - Len(e.ops)
      q == [p EXCEPT !.ops[b] = SubSeq(@, 1, i - 1) \o e.ops \o SubSeq(@, i, Len(@)),
                     !.ty = [x \in first..(e.n - 1) |-> e.tys[x - first + 1]] @@ @]
  IN ReplaceOpWith(q, v, IF e.ops = <<>> THEN DefOp(p, v).a[1] ELSE R(e))
\* rewrite_div, for a division o at type t by the constant bits d: the
\* sub-word divisions are done at w.
DivisionCode(o, t, d, first) ==
  LET a == o.a[1]
      signed == o.k \in {"sdiv", "srem"}  rem == o.k \in {"urem", "srem"}
      minusOne == signed /\ sign_extend(d, Bits(t)) = -1
      wide == IF signed THEN sign_extend(d, Bits(t)) % 2 ^ Bits("w") ELSE d
  IN IF rem /\ (d = 1 \/ minusOne) THEN <<InsConst(t, 0)>>
     ELSE IF d = 1 THEN <<>>
     ELSE IF minusOne THEN <<InsConst(t, 0), InsBin("sub", -1, a, t)>>
     ELSE IF t = "n" THEN <<InsCast(IF signed THEN "sext" ELSE "zext", a, "w")>>
                          \o expand(o.k, "w", first, wide) \o <<InsCast("trunc", -1, t)>>
     ELSE expand(o.k, t, a, d)
rewrite_div(p, v) ==
  LET o == DefOp(p, v)
      d == ConstBits(p, o.a[2])
  IN IF o.k \notin Trapping \/ ~IsConst(p, o.a[2]) \/ d = 0 THEN p
     ELSE Splice(p, v, Numbered(DivisionCode(o, p.ty[v], d, Fresh(p)), Fresh(p)))
RECURSIVE RewriteEach(_, _)
RewriteEach(p, ops) == IF ops = <<>> THEN p
                       ELSE RewriteEach(IF Head(ops).d = 0 THEN p ELSE rewrite_div(p, Head(ops).d),
                                        Tail(ops))
LLVMDivStrengthReducePass(p) == RewriteEach(p, function_ops(p))

-----------------------------------------------------------------------------
(***************************************************************************)
(* llvm-sroa (sroa.rs): a struct slot whose every access is the whole      *)
(* struct or one leaf of it is split into one slot per leaf.  A cell of    *)
(* the model stands for the 8 bytes of a leaf, element type n for a byte   *)
(* offset that is a multiple of 8.                                         *)
(***************************************************************************)

RECURSIVE flatten_type(_, _)
\* flatten_type: the leaves of t with their paths from the root.
flatten_type(t, path) ==
  IF ~IsStruct(t) THEN <<[path |-> path, ty |-> t]>>
  ELSE flatten_type(FieldTypes(t)[1], Append(path, 0)) \o flatten_type(FieldTypes(t)[2], Append(path, 1))
\* Same type, or integers of one width.
scalar_compatible(t, leaf) == t = leaf \/ (t \in IntTypes /\ leaf \in IntTypes /\ Bits(t) = Bits(leaf))
constant_byte_offset(p, gep) ==
  IF gep.c >= 0 THEN gep.c ELSE IF IsConst(p, gep.a[2]) THEN ConstBits(p, gep.a[2]) ELSE -1

UsersOf(p, v) == {o \in AllOps(p) : v \in OpUses(o)}
AccessType(p, o) == IF o.k = "load" THEN p.ty[o.d] ELSE p.ty[o.a[1]]
IsAccess(o, addr) == \/ o.k = "load" /\ o.a[1] = addr
                     \/ o.k = "store" /\ o.a[2] = addr /\ o.a[1] # addr
\* classify_accesses: every use is a whole access, an access of leaf 0, or a
\* constant gep to a leaf used only by accesses of that leaf.
Splittable(p, slot, t, leaves) ==
  /\ \A b \in BlockSet(p) : slot \notin TermUses(p.term[b])
  /\ \A o \in UsersOf(p, slot) :
       \/ IsAccess(o, slot) /\ (AccessType(p, o) = t \/ scalar_compatible(AccessType(p, o), leaves[1].ty))
       \/ /\ o.k = "gep" /\ o.p = "n" /\ constant_byte_offset(p, o) \in 0..(Len(leaves) - 1)
          /\ \A b \in BlockSet(p) : o.d \notin TermUses(p.term[b])
          /\ \A u \in UsersOf(p, o.d) :
               /\ IsAccess(u, o.d)
               /\ scalar_compatible(AccessType(p, u), leaves[constant_byte_offset(p, o) + 1].ty)

\* resolve_leaf: follow the insert chain of the aggregate to the leaf; an
\* unset leaf is undef, an opaque producer is extracted from.
RECURSIVE resolve_leaf(_, _, _, _, _)
resolve_leaf(p, e, agg, path, t) ==
  LET def == DefOp(p, agg)
      opaque == [Emit(e, "extract", <<agg>>, 0, "", t) EXCEPT !.ops[Len(e.ops) + 1].x = path]
  IN IF def.k = "undef" THEN LET u == Emit(e, "undef", <<>>, 0, "", t) IN [e |-> u, v |-> R(u)]
     ELSE IF def.k # "insert" THEN [e |-> opaque, v |-> R(opaque)]
     ELSE IF def.x = path THEN [e |-> e, v |-> def.a[2]]
     ELSE IF IsStrictPrefix(def.x, path)
       THEN resolve_leaf(p, e, def.a[2], SubSeq(path, Len(def.x) + 1, Len(path)), t)
     ELSE resolve_leaf(p, e, def.a[1], path, t)

InsertOps(p, b, i, e) ==
  LET first == e.n - Len(e.ops)
  IN [p EXCEPT !.ops[b] = SubSeq(@, 1, i - 1) \o e.ops \o SubSeq(@, i, Len(@)),
               !.ty = [x \in first..(e.n - 1) |-> e.tys[x - first + 1]] @@ @]
RECURSIVE BuildLoads(_, _, _, _, _)
BuildLoads(e, agg, leaves, slots, t) ==
  IF leaves = <<>> THEN e
  ELSE LET l == Emit(e, "load", <<Head(slots)>>, 0, "", Head(leaves).ty)
           f == Emit(l, "insert", <<agg, R(l)>>, 0, "", t)
       IN BuildLoads([f EXCEPT !.ops[Len(f.ops)].x = Head(leaves).path], R(f), Tail(leaves), Tail(slots), t)
rewrite_whole_load(p, v, t, leaves, slots) ==
  LET u == Emit(Start(p), "undef", <<>>, 0, "", t)
      e == BuildLoads(u, R(u), leaves, slots, t)
  IN Splice(p, v, e)
EmitStore(e, v, addr) == [Emit(e, "store", <<v, addr>>, 0, "", "n") EXCEPT !.ops[Len(e.ops) + 1].d = 0]
RECURSIVE BuildStores(_, _, _, _, _)
BuildStores(p, e, agg, leaves, slots) ==
  IF leaves = <<>> THEN e
  ELSE LET r == resolve_leaf(p, e, agg, Head(leaves).path, Head(leaves).ty)
       IN BuildStores(p, EmitStore(r.e, r.v, Head(slots)), agg, Tail(leaves), Tail(slots))
rewrite_whole_store(p, b, i, leaves, slots) ==
  EraseAt(InsertOps(p, b, i, BuildStores(p, Start(p), p.ops[b][i].a[1], leaves, slots)), b,
          i + Len(BuildStores(p, Start(p), p.ops[b][i].a[1], leaves, slots).ops))
rewrite_scalar_load(p, v, leaf, slot) ==
  LET l == Emit(Start(p), "load", <<slot>>, 0, "", leaf)
      c == Emit(l, "bitcast", <<R(l)>>, 0, "", p.ty[v])
      e == IF p.ty[v] = leaf THEN l ELSE c
  IN Splice(p, v, e)
rewrite_scalar_store(p, b, i, leaf, slot) ==
  LET v == p.ops[b][i].a[1]
      c == Emit(Start(p), "bitcast", <<v>>, 0, "", leaf)
      e == IF p.ty[v] = leaf THEN EmitStore(Start(p), v, slot) ELSE EmitStore(c, R(c), slot)
  IN EraseAt(InsertOps(p, b, i, e), b, i + Len(e.ops))

\* The leaf an access of address a reaches, and whether a is the slot or one
\* of its geps.
LeafOf(p, slot, a) == IF a = slot THEN 0 ELSE constant_byte_offset(p, DefOp(p, a))
Reaches(p, slot, a) == a = slot \/ (DefOp(p, a).k = "gep" /\ DefOp(p, a).a[1] = slot)
RewriteAccess(p, s, slot, t, leaves, slots) ==
  LET o == At(p, s)
      k == LeafOf(p, slot, IF o.k = "load" THEN o.a[1] ELSE o.a[2]) + 1
      whole == AccessType(p, o) = t
  IN CASE o.k = "load" /\ whole -> rewrite_whole_load(p, o.d, t, leaves, slots)
       [] o.k = "load" /\ ~whole -> rewrite_scalar_load(p, o.d, leaves[k].ty, slots[k])
       [] o.k = "store" /\ whole -> rewrite_whole_store(p, s[1], s[2], leaves, slots)
       [] o.k = "store" /\ ~whole -> rewrite_scalar_store(p, s[1], s[2], leaves[k].ty, slots[k])
RECURSIVE RewriteAccesses(_, _, _, _, _)
RewriteAccesses(p, slot, t, leaves, slots) ==
  LET sites == {s \in OpSites(p) : \/ At(p, s).k = "load" /\ Reaches(p, slot, At(p, s).a[1])
                                   \/ At(p, s).k = "store" /\ Reaches(p, slot, At(p, s).a[2])}
  IN IF sites = {} THEN p
     ELSE RewriteAccesses(RewriteAccess(p, CHOOSE s \in sites : TRUE, slot, t, leaves, slots),
                          slot, t, leaves, slots)
try_split_alloca(p, slot) ==
  LET t == DefOp(p, slot).p
      leaves == flatten_type(t, <<>>)
      n == Fresh(p)
      slots == [i \in 1..Len(leaves) |-> n + i - 1]
      e == [ops |-> [i \in 1..Len(leaves) |-> Alloca(n + i - 1, leaves[i].ty)],
            tys |-> [i \in 1..Len(leaves) |-> "ptr"], n |-> n + Len(leaves)]
      b == DefBlock(p, slot)
      q == RewriteAccesses(InsertOps(p, b, PositionOf(p, b, slot) + 1, e), slot, t, leaves, slots)
      gone(o) == o.d = slot \/ (o.k = "gep" /\ o.a[1] = slot)
  IN IF ~IsStruct(t) \/ ~Splittable(p, slot, t, leaves) THEN p
     ELSE [q EXCEPT !.ops = [c \in DOMAIN @ |-> SelectSeq(@[c], LAMBDA o : ~gone(o))]]
LLVMSroaPass(p) ==
  EachSlot(try_split_alloca, p, {o.d : o \in {a \in AllOps(p) : a.k = "alloca"}})
=============================================================================
