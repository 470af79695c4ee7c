------------------------------ MODULE Simplify ------------------------------
(***************************************************************************)
(* llvm-simplify (simplify.rs): constant folding and local algebra, store  *)
(* to load forwarding inside simple slots, dead code.  Every operator      *)
(* takes a program and returns the rewritten one.                          *)
(***************************************************************************)
EXTENDS MidAnalysis

\* Apply F to p until nothing changes, at most n times.
RECURSIVE Iterate(_, _, _)
Iterate(F(_), p, n) == IF n = 0 THEN p
                       ELSE LET q == F(p) IN IF q = p THEN p ELSE Iterate(F, q, n - 1)
SimplifyRounds == 32

IsConst(p, v) == DefOp(p, v).k = "const"
ConstBits(p, v) == DefOp(p, v).c
mask_to_width(x, n) == x % 2 ^ n
sign_extend(x, n) == Signed(mask_to_width(x, n), n)

\* Replace the operation defining v by new operations put in its place, the
\* last of which gives the value.
replace_op_with_value(p, v, new) == ReplaceOpWith(p, v, new)
Put(p, v, o, t) == LET b == DefBlock(p, v)
                   IN WithValue(InsertOpAt(p, b, PositionOf(p, b, v), o), o.d, t)
replace_with_constant(p, v, t, x) ==
  LET d == Fresh(p) IN replace_op_with_value(Put(p, v, Const(d, mask_to_width(x, Bits(t))), t), v, d)

fold_icmp(p, o) ==
  LET l == o.a[1]  r == o.a[2]
  IN IF ~IsConst(p, l) \/ ~IsConst(p, r) THEN p
     ELSE replace_with_constant(p, o.d, "i1",
            IF Compare(o.p, ConstBits(p, l), ConstBits(p, r), Bits(p.ty[l])) THEN 1 ELSE 0)

\* Both operands constant: no fold for a zero divisor or an oversized shift.
fold_const_binary(p, o, x, y, t) ==
  IF \/ o.k \in Trapping /\ y = 0
     \/ o.k \in {"shl", "lshr", "ashr"} /\ y >= Bits(t)
  THEN p ELSE replace_with_constant(p, o.d, t, Arith(o.k, x, y, Bits(t), ""))

IsPow2(n) == \E k \in 0..7 : n = 2 ^ k
Log2(n) == CHOOSE k \in 0..7 : n = 2 ^ k
\* (a op c1) op c2 becomes a op (c1 op c2), without the overflow flag.
Reassociates(p, o) ==
  LET inner == DefOp(p, o.a[1])
  IN inner.k = o.k /\ ~IsConst(p, inner.a[1]) /\ IsConst(p, inner.a[2])
reassociate(p, o, c, t) ==
  LET inner == DefOp(p, o.a[1])
      combined == Arith(o.k, ConstBits(p, inner.a[2]), c, Bits(t), "")
      k == Fresh(p)
      q == Put(p, o.d, Const(k, combined), t)
  IN replace_op_with_value(Put(q, o.d, Bin(o.k, k + 1, inner.a[1], k), t), o.d, k + 1)
mul_to_shift(p, o, c, t) ==
  LET k == Fresh(p)
  IN replace_op_with_value(
       Put(Put(p, o.d, Const(k, Log2(c)), t), o.d, Bin("shl", k + 1, o.a[1], k), t), o.d, k + 1)
simplify_partial_const(p, o) ==
  LET l == o.a[1]  r == o.a[2]  t == p.ty[o.d]  c == ConstBits(p, r)
      swaps == o.k \in {"add", "mul"}
  IN IF swaps /\ IsConst(p, l) /\ ~IsConst(p, r)
       THEN [p EXCEPT !.ops[DefBlock(p, o.d)][PositionOf(p, DefBlock(p, o.d), o.d)].a = <<r, l>>]
     ELSE IF ~IsConst(p, r) \/ IsConst(p, l) THEN p
     ELSE IF \/ c = 0 /\ o.k \in {"add", "sub", "or", "xor", "shl", "lshr", "ashr"}
             \/ c = 1 /\ o.k = "mul"
       THEN replace_op_with_value(p, o.d, l)
     ELSE IF c = 0 /\ o.k \in {"mul", "and"} THEN replace_with_constant(p, o.d, t, 0)
     ELSE IF ~swaps THEN p
     ELSE IF Reassociates(p, o) THEN reassociate(p, o, c, t)
     ELSE IF o.k = "mul" /\ IsPow2(c) THEN mul_to_shift(p, o, c, t)
     ELSE p
fold_int_binary(p, o) ==
  IF IsConst(p, o.a[1]) /\ IsConst(p, o.a[2])
    THEN fold_const_binary(p, o, ConstBits(p, o.a[1]), ConstBits(p, o.a[2]), p.ty[o.d])
    ELSE simplify_partial_const(p, o)

fold_int_cast(p, o) ==
  LET v == o.a[1]  inner == DefOp(p, v)  t == p.ty[o.d]
  IN IF o.k = "trunc" /\ inner.k = "zext" /\ p.ty[inner.a[1]] = t
       THEN replace_op_with_value(p, o.d, inner.a[1])
     ELSE IF ~IsConst(p, v) THEN p
     ELSE replace_with_constant(p, o.d, t,
            IF o.k = "sext" THEN sign_extend(ConstBits(p, v), Bits(p.ty[v])) ELSE ConstBits(p, v))

Overlaps(x, y) == IsPrefix(x, y) \/ IsPrefix(y, x)
\* fold_extractvalue: walk the insert chain down from agg; stop at an insert
\* that overlaps the extracted path without being it.
RECURSIVE ExtractFrom(_, _, _)
ExtractFrom(p, o, agg) ==
  LET def == DefOp(p, agg)  d == Fresh(p)
  IN IF def.k = "undef" THEN replace_op_with_value(Put(p, o.d, Undef(d), p.ty[o.d]), o.d, d)
     ELSE IF def.k # "insert" THEN p
     ELSE IF def.x = o.x THEN replace_op_with_value(p, o.d, def.a[2])
     ELSE IF Overlaps(def.x, o.x) THEN p
     ELSE ExtractFrom(p, o, def.a[1])
fold_extractvalue(p, o) == ExtractFrom(p, o, o.a[1])

\* fold_gep_aggregate_base: the pointer inserted at field 0 of a fat-pointer
\* base replaces the base.
RECURSIVE GepBase(_, _, _)
GepBase(p, o, agg) ==
  LET def == DefOp(p, agg)  b == DefBlock(p, o.d)
  IN IF p.ty[agg] = "ptr" \/ def.k # "insert" THEN p
     ELSE IF def.x = <<0>>
       THEN IF p.ty[def.a[2]] # "ptr" THEN p
            ELSE [p EXCEPT !.ops[b][PositionOf(p, b, o.d)].a[1] = def.a[2]]
     ELSE IF def.x[1] = 0 THEN p
     ELSE GepBase(p, o, def.a[1])
fold_gep_aggregate_base(p, o) == GepBase(p, o, o.a[1])
flatten_gep_of_gep(p, o) ==
  LET inner == DefOp(p, o.a[1])  d == Fresh(p)
  IN IF o.c < 0 \/ inner.k # "gep" \/ inner.c < 0 \/ inner.p # o.p THEN p
     ELSE replace_op_with_value(Put(p, o.d, GepC(d, inner.a[1], o.p, inner.c + o.c), "ptr"), o.d, d)

fold_op(p, v) ==
  LET o == DefOp(p, v)
  IN CASE o.k = "icmp" -> fold_icmp(p, o)
       [] o.k \in BinKinds -> fold_int_binary(p, o)
       [] o.k \in {"zext", "sext", "trunc"} -> fold_int_cast(p, o)
       [] o.k = "extract" -> fold_extractvalue(p, o)
       [] o.k = "gep" -> LET q == fold_gep_aggregate_base(p, o)
                         IN IF q # p THEN q ELSE flatten_gep_of_gep(p, o)
       [] OTHER -> p
function_ops(p) == FlattenSeq([i \in 1..Len(p.blocks) |-> p.ops[p.blocks[i]]])
RECURSIVE FoldEach(_, _, _)
FoldEach(p, ops, i) == IF i > Len(ops) THEN p
                       ELSE FoldEach(IF ops[i].d = 0 THEN p ELSE fold_op(p, ops[i].d), ops, i + 1)
fold_ops(p) == FoldEach(p, function_ops(p), 1)

---------------------------------------------------------------------------
\* simple_allocas: slots used only as the address of loads and stores.
simple_allocas(p) ==
  {o.d : o \in {a \in AllOps(p) : /\ a.k = "alloca"
                                  /\ \A b \in BlockSet(p) : a.d \notin TermUses(p.term[b])
                                  /\ \A u \in AllOps(p) : a.d \in OpUses(u) =>
                                        \/ u.k = "load"
                                        \/ u.k = "store" /\ u.a[1] # a.d}}
\* adapt_to_type: the value itself, or a bitcast of an integer of the same
\* width (<<>>: the types cannot be adapted).
Adaptable(p, v, t) == \/ p.ty[v] = t
                      \/ p.ty[v] \in IntTypes /\ t \in IntTypes /\ Bits(p.ty[v]) = Bits(t)
adapt_to_type(p, v, load) ==
  LET t == p.ty[load]  d == Fresh(p)
  IN IF p.ty[v] = t THEN replace_op_with_value(p, load, v)
     ELSE replace_op_with_value(Put(p, load, Cast("bitcast", d, v), t), load, d)

LoadsOf(p, slot) == {o \in AllOps(p) : o.k = "load" /\ o.a[1] = slot}
StoresOf(p, slot) == {o \in AllOps(p) : o.k = "store" /\ o.a[2] = slot}
StoreSites(p, slot) == {s \in OpSites(p) : At(p, s).k = "store" /\ At(p, s).a[2] = slot}
RECURSIVE AdaptAll(_, _, _)
AdaptAll(p, v, loads) ==
  IF loads = {} THEN p
  ELSE LET l == Min(loads)
       IN AdaptAll(IF Adaptable(p, v, p.ty[l]) THEN adapt_to_type(p, v, l) ELSE p, v, loads \ {l})
\* forward_single_entry_store: one store, in the entry block, no load of the
\* slot before it there.
forward_single_entry_store(p, slot) ==
  LET sites == StoreSites(p, slot)
      s == CHOOSE x \in sites : TRUE
      loads == {o.d : o \in LoadsOf(p, slot)}
  IN IF \/ Cardinality(sites) # 1 \/ s[1] # Entry(p) \/ loads = {}
        \/ \E i \in 1..(s[2] - 1) : p.ops[s[1]][i].d \in loads
     THEN p ELSE AdaptAll(p, At(p, s).a[1], loads)
\* Block-local forwarding: i is the next position, known the contents of
\* each slot, unread the position of its last store no load has seen.
RECURSIVE ForwardBlock(_, _, _, _, _, _)
ForwardBlock(p, b, i, slots, known, unread) ==
  IF i > Len(p.ops[b]) THEN p
  ELSE LET o == p.ops[b][i]  addr == IF o.k = "store" THEN o.a[2] ELSE o.a[1]
       IN IF o.k \notin {"load", "store"} \/ addr \notin slots
            THEN ForwardBlock(p, b, i + 1, slots, known, unread)
          ELSE IF o.k = "store" THEN
            IF unread[addr] = 0
              THEN ForwardBlock(p, b, i + 1, slots, [known EXCEPT ![addr] = o.a[1]],
                                [unread EXCEPT ![addr] = i])
              ELSE ForwardBlock(EraseAt(p, b, unread[addr]), b, i, slots,
                                [known EXCEPT ![addr] = o.a[1]],
                                [s \in slots |-> IF s = addr THEN i - 1
                                                 ELSE IF unread[s] > unread[addr] THEN unread[s] - 1
                                                 ELSE unread[s]])
          ELSE IF known[addr] = 0
            THEN ForwardBlock(p, b, i + 1, slots, [known EXCEPT ![addr] = o.d],
                              [unread EXCEPT ![addr] = 0])
          ELSE IF ~Adaptable(p, known[addr], p.ty[o.d])
            THEN ForwardBlock(p, b, i + 1, slots, known, [unread EXCEPT ![addr] = 0])
          ELSE LET q == adapt_to_type(p, known[addr], o.d)
               IN ForwardBlock(q, b, i + Len(q.ops[b]) - Len(p.ops[b]) + 1, slots, known,
                               LET shift == Len(q.ops[b]) - Len(p.ops[b])
                               IN [s \in slots |-> IF s = addr THEN 0
                                                   ELSE IF unread[s] > i THEN unread[s] + shift
                                                   ELSE unread[s]])
RECURSIVE ForwardBlocks(_, _, _)
ForwardBlocks(p, slots, i) ==
  IF i > Len(p.blocks) THEN p
  ELSE ForwardBlocks(ForwardBlock(p, p.blocks[i], 1, slots, [s \in slots |-> 0], [s \in slots |-> 0]),
                     slots, i + 1)
\* A simple slot that is never loaded goes with its stores.
DropSlot(p, slot) ==
  IF LoadsOf(p, slot) # {} \/ StoresOf(p, slot) = {} THEN p
  ELSE [p EXCEPT !.ops = [b \in DOMAIN @ |->
          SelectSeq(@[b], LAMBDA o : o.d # slot /\ ~(o.k = "store" /\ o.a[2] = slot))]]
RECURSIVE EachSlot(_, _, _)
EachSlot(F(_, _), p, slots) ==
  IF slots = {} THEN p ELSE EachSlot(F, F(p, Min(slots)), slots \ {Min(slots)})
forward_stores_to_loads(p) ==
  LET slots == simple_allocas(p)
      q == ForwardBlocks(EachSlot(forward_single_entry_store, p, slots), slots, 1)
  IN IF slots = {} THEN p ELSE EachSlot(DropSlot, q, simple_allocas(q))

RECURSIVE EraseWhere(_, _)
EraseWhere(Dead(_, _), p) ==
  LET dead == {s \in OpSites(p) : Dead(p, At(p, s))}
      q == [p EXCEPT !.ops = [b \in DOMAIN @ |-> SelectSeq(@[b], LAMBDA o : ~Dead(p, o))]]
  IN IF dead = {} THEN p ELSE EraseWhere(Dead, q)
\* is_trivially_dead and deletable: no use of the result.
is_trivially_dead(p, o) == o.k \in deletable_op_ids /\ ~Used(p, o.d)
eliminate_dead_code(p) == EraseWhere(is_trivially_dead, p)

SimplifyRound(p) == eliminate_dead_code(forward_stores_to_loads(fold_ops(p)))
LLVMSimplifyPass(p) == Iterate(SimplifyRound, p, SimplifyRounds)

---------------------------------------------------------------------------
(***************************************************************************)
(* llvm-simplify-cfg (simplify_cfg.rs): constant branches, unreachable     *)
(* blocks, straight-line pairs and empty forwarding blocks; and the mem    *)
(* slots llvm-pin-type-punned-slots shields.                               *)
(***************************************************************************)
\* negated_i1_condition: <<value, negated>> when cond compares an i1 value
\* with a constant (<<>>: it does not).
negated_i1_condition(p, cond) ==
  LET o == DefOp(p, cond)
      side == IF IsConst(p, o.a[2]) THEN <<o.a[1], o.a[2]>> ELSE <<o.a[2], o.a[1]>>
      isTrue == ConstBits(p, side[2]) # 0
  IN IF o.k # "icmp" \/ o.p \notin {"eq", "ne"} THEN <<>>
     ELSE IF ~IsConst(p, o.a[1]) /\ ~IsConst(p, o.a[2]) THEN <<>>
     ELSE IF p.ty[side[1]] # "i1" THEN <<>>
     ELSE <<side[1], (o.p = "eq") # isTrue>>
FoldTerm(p, t) ==
  LET direct == negated_i1_condition(p, t.c)
  IN IF t.k # "cbr" THEN t
     ELSE IF direct # <<>>
       THEN IF direct[2] THEN CondBr(direct[1], t.s[2], t.e[2], t.s[1], t.e[1])
            ELSE [t EXCEPT !.c = direct[1]]
     ELSE IF IsConst(p, t.c)
       THEN LET i == IF ConstBits(p, t.c) # 0 THEN 1 ELSE 2 IN Br(t.s[i], t.e[i])
     ELSE IF t.s[1] = t.s[2] /\ t.e[1] = t.e[2] THEN Br(t.s[1], t.e[1])
     ELSE t
fold_constant_branches(p) == [p EXCEPT !.term = [b \in DOMAIN @ |-> FoldTerm(p, @[b])]]

KeepBlocks(p, keep) ==
  [p EXCEPT !.blocks = SelectSeq(@, LAMBDA b : b \in keep),
            !.args = Restrict(@, keep), !.ops = Restrict(@, keep), !.term = Restrict(@, keep)]
remove_unreachable_blocks(p) ==
  LET reach == ReachableBlocks(p) IN IF reach = BlockSet(p) THEN p ELSE KeepBlocks(p, reach)

\* merge_straight_line_blocks: the first block that can be merged with its
\* only successor is, until none can.
Mergeable(p, b) ==
  LET t == p.term[b]  s == t.s[1]
      edges == {<<q, i>> \in BlockSet(p) \X {1, 2} : i <= Len(p.term[q].s) /\ p.term[q].s[i] = s}
  IN /\ t.k = "br" /\ s # b /\ s # Entry(p)
     /\ Cardinality(edges) = 1
     /\ Len(t.e[1]) = Len(p.args[s])
MergeInto(p, b) ==
  LET s == p.term[b].s[1]
      f == [v \in DOMAIN p.ty |->
              IF v \in ToSet(p.args[s])
                THEN p.term[b].e[1][CHOOSE i \in 1..Len(p.args[s]) : p.args[s][i] = v] ELSE v]
      q == RenameIn(p, f, BlockSet(p))
  IN KeepBlocks([q EXCEPT !.ops[b] = @ \o q.ops[s], !.term[b] = q.term[s]], BlockSet(p) \ {s})
RECURSIVE merge_straight_line_blocks(_)
merge_straight_line_blocks(p) ==
  LET ready == {i \in 1..Len(p.blocks) : Mergeable(p, p.blocks[i])}
  IN IF ready = {} THEN p ELSE merge_straight_line_blocks(MergeInto(p, p.blocks[Min(ready)]))

\* bypass_forwarding_blocks: retarget the predecessors of an empty block
\* whose arguments only its own branch uses.
Bypassable(p, b) ==
  LET t == p.term[b]
  IN /\ b # Entry(p) /\ p.ops[b] = <<>> /\ t.k = "br" /\ t.s[1] # b
     /\ \A i \in 1..Len(p.args[b]) : UseBlocks(p, p.args[b][i]) \subseteq {b}
Forwarded(p, b, vals) ==
  [j \in 1..Len(p.term[b].e[1]) |->
     LET v == p.term[b].e[1][j]  at == {i \in 1..Len(p.args[b]) : p.args[b][i] = v}
     IN IF at = {} THEN v ELSE vals[CHOOSE i \in at : TRUE]]
Retarget(p, b, t) ==
  [t EXCEPT !.s = [i \in 1..Len(@) |-> IF @[i] = b THEN p.term[b].s[1] ELSE @[i]],
            !.e = [i \in 1..Len(@) |-> IF t.s[i] = b THEN Forwarded(p, b, @[i]) ELSE @[i]]]
Bypass(p, b) == [p EXCEPT !.term = [q \in DOMAIN @ |->
                                      IF q = b THEN @[q] ELSE Retarget(p, b, @[q])]]
RECURSIVE BypassFrom(_, _)
BypassFrom(p, i) ==
  IF i > Len(p.blocks) THEN p
  ELSE BypassFrom(IF Bypassable(p, p.blocks[i]) THEN Bypass(p, p.blocks[i]) ELSE p, i + 1)
bypass_forwarding_blocks(p) == BypassFrom(p, 2)

CfgRound(p) == bypass_forwarding_blocks(merge_straight_line_blocks(
                 remove_unreachable_blocks(fold_constant_branches(p))))
LLVMSimplifyCfgPass(p) == Iterate(CfgRound, p, SimplifyRounds)

---------------------------------------------------------------------------
\* is_type_punned_access: a load or store on the slot at another type.
is_type_punned_access(p, o, slot, t) ==
  \/ o.k = "load" /\ o.a[1] = slot /\ p.ty[o.d] # t
  \/ o.k = "store" /\ o.a[2] = slot /\ p.ty[o.a[1]] # t
\* pin_slot_if_punned: the punned accesses go through a bitcast of the slot,
\* which mem2reg does not promote.
pin_slot_if_punned(p, slot) ==
  LET b == DefBlock(p, slot)  t == DefOp(p, slot).p  d == Fresh(p)
      addr(o) == IF o.k = "store" THEN 2 ELSE 1
  IN IF ~\E o \in AllOps(p) : is_type_punned_access(p, o, slot, t) THEN p
     ELSE LET q == [p EXCEPT !.ops = [c \in DOMAIN @ |-> [i \in 1..Len(@[c]) |->
                      IF is_type_punned_access(p, @[c][i], slot, t)
                        THEN [@[c][i] EXCEPT !.a[addr(@[c][i])] = d] ELSE @[c][i]]]]
          IN WithValue(InsertOpAt(q, b, PositionOf(p, b, slot) + 1, Cast("bitcast", d, slot)), d, "ptr")
LLVMPinTypePunnedSlotsPass(p) ==
  EachSlot(pin_slot_if_punned, p, {o.d : o \in {a \in AllOps(p) : a.k = "alloca"}})
=============================================================================
