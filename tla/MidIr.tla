------------------------------- MODULE MidIr -------------------------------
(***************************************************************************)
(* The part of the LLVM dialect the mid-end passes rewrite: functions of   *)
(* basic blocks with arguments, SSA operations, plain memory, and what     *)
(* running such a function does.  The dialect itself comes from pliron;    *)
(* its meaning here is read off the way crabbit's passes use it.           *)
(*                                                                         *)
(* A program is a record:                                                  *)
(*   blocks  the blocks in region order, the entry first                   *)
(*   args    the arguments of each block                                   *)
(*   ops     the non-terminator operations of each block, in order         *)
(*   term    the terminator of each block                                  *)
(*   ty      the type of each value                                        *)
(*   epi     the headers marked as scalar epilogues of vector loops        *)
(* Values and blocks are numbers.  An operation is a record of its kind k, *)
(* its result d (0: none), its operands a, and the attributes: c (constant *)
(* or constant index, -1 when the index is an operand), p (predicate,      *)
(* element type, callee or overflow flag) and x (access path, 0-based).    *)
(* Integer types are scaled down: i1, n and s (2 bits, s the signed twin), *)
(* w (4 bits) and d (8 bits); nn and sn are structs of two fields, t of a  *)
(* struct and a field, pn of a pointer and a field.  Memory is a sequence  *)
(* of 2-bit cells.                                                         *)
(***************************************************************************)
EXTENDS Integers, Sequences, SequencesExt, FiniteSetsExt

Op(k, d, a, c, p, x) == [k |-> k, d |-> d, a |-> a, c |-> c, p |-> p, x |-> x]
Const(d, c) == Op("const", d, <<>>, c, "", <<>>)
Undef(d) == Op("undef", d, <<>>, 0, "", <<>>)
Bin(k, d, l, r) == Op(k, d, <<l, r>>, 0, "", <<>>)
ICmp(d, pred, l, r) == Op("icmp", d, <<l, r>>, 0, pred, <<>>)
Cast(k, d, v) == Op(k, d, <<v>>, 0, "", <<>>)
Alloca(d, elem) == Op("alloca", d, <<>>, 0, elem, <<>>)
Load(d, addr) == Op("load", d, <<addr>>, 0, "", <<>>)
Store(v, addr) == Op("store", 0, <<v, addr>>, 0, "", <<>>)
GepC(d, base, elem, c) == Op("gep", d, <<base>>, c, elem, <<>>)
GepV(d, base, elem, i) == Op("gep", d, <<base, i>>, -1, elem, <<>>)
Call(d, args) == Op("call", d, args, 0, "", <<>>)
Insert(d, agg, v, path) == Op("insert", d, <<agg, v>>, 0, "", path)
Extract(d, agg, path) == Op("extract", d, <<agg>>, 0, "", path)

\* Terminators: successors s with the operands e each edge passes; c is the
\* condition or the returned value (0: none).
Br(dest, args) == [k |-> "br", c |-> 0, s |-> <<dest>>, e |-> <<args>>]
CondBr(c, d1, a1, d2, a2) == [k |-> "cbr", c |-> c, s |-> <<d1, d2>>, e |-> <<a1, a2>>]
Ret(v) == [k |-> "ret", c |-> v, s |-> <<>>, e |-> <<>>]

IntTypes == {"i1", "n", "s", "w", "d"}
Bits(t) == CASE t = "i1" -> 1 [] t \in {"n", "s"} -> 2 [] t = "w" -> 4 [] t = "d" -> 8
FieldTypes(t) == CASE t = "nn" -> <<"n", "n">> [] t = "sn" -> <<"s", "n">>
                   [] t = "t" -> <<"nn", "n">> [] t = "pn" -> <<"ptr", "n">> [] OTHER -> <<>>
IsStruct(t) == FieldTypes(t) # <<>>
\* v4n and v2w are the vectors the vectorizer makes.
VectorTypes == {"v4n", "v2w"}
LaneType(t) == IF t = "v4n" THEN "n" ELSE "w"
LaneCount(t) == IF t = "v4n" THEN 4 ELSE 2
Cells(t) == CASE t \in {"w", "nn", "sn", "pn"} -> 2 [] t \in {"d", "v4n", "v2w"} -> 4 [] t = "t" -> 3 [] OTHER -> 1

Entry(p) == p.blocks[1]
BlockSet(p) == ToSet(p.blocks)
Succs(p, b) == ToSet(p.term[b].s)
Preds(p, b) == {q \in BlockSet(p) : b \in Succs(p, q)}
\* Every place of block b that uses value v: its operations and its terminator.
TermUses(t) == UNION {ToSet(t.e[i]) : i \in 1..Len(t.e)} \union {t.c}
OpUses(o) == ToSet(o.a)
UseBlocks(p, v) == {b \in BlockSet(p) : \/ v \in TermUses(p.term[b])
                                        \/ \E i \in 1..Len(p.ops[b]) : v \in OpUses(p.ops[b][i])}
\* The operations of the function, as (block, position) pairs.
OpSites(p) == UNION {{b} \X (1..Len(p.ops[b])) : b \in BlockSet(p)}
At(p, s) == p.ops[s[1]][s[2]]
AllOps(p) == {At(p, s) : s \in OpSites(p)}
DefSites(p, v) == {s \in OpSites(p) : At(p, s).d = v}
\* The defining operation of v; a block argument has none.
NoOp == Op("none", 0, <<>>, 0, "", <<>>)
DefOp(p, v) == LET ds == DefSites(p, v) IN IF ds = {} THEN NoOp ELSE At(p, CHOOSE s \in ds : TRUE)
DefBlock(p, v) == CHOOSE b \in BlockSet(p) :
                    \/ \E i \in 1..Len(p.ops[b]) : p.ops[b][i].d = v
                    \/ v \in ToSet(p.args[b])
Used(p, v) == UseBlocks(p, v) # {}

Fresh(p) == Max(DOMAIN p.ty) + 1
WithValue(p, v, t) == [p EXCEPT !.ty = (v :> t) @@ @]
RenameSeq(s, f) == [i \in 1..Len(s) |-> f[s[i]]]
RenameOp(o, f) == [o EXCEPT !.a = RenameSeq(@, f)]
RenameTerm(t, f) == [t EXCEPT !.c = IF @ = 0 THEN 0 ELSE f[@],
                              !.e = [i \in 1..Len(@) |-> RenameSeq(@[i], f)]]
\* Replace the uses of values by f[v], in the blocks of bs only.
RenameIn(p, f, bs) ==
  [p EXCEPT !.ops = [b \in DOMAIN @ |->
                       IF b \in bs THEN [i \in 1..Len(@[b]) |-> RenameOp(@[b][i], f)] ELSE @[b]],
            !.term = [b \in DOMAIN @ |-> IF b \in bs THEN RenameTerm(@[b], f) ELSE @[b]]]
Identity(p) == [v \in DOMAIN p.ty |-> v]
ReplaceUses(p, v, new) == RenameIn(p, [Identity(p) EXCEPT ![v] = new], BlockSet(p))
EraseAt(p, b, i) == [p EXCEPT !.ops[b] = RemoveAt(@, i)]
InsertOpAt(p, b, i, o) == [p EXCEPT !.ops[b] = InsertAt(@, i, o)]
PositionOf(p, b, v) == CHOOSE i \in 1..Len(p.ops[b]) : p.ops[b][i].d = v
\* replace_op_with_value: the uses of v go to new and the operation defining v goes.
ReplaceOpWith(p, v, new) ==
  LET b == DefBlock(p, v) IN ReplaceUses(EraseAt(p, b, PositionOf(p, b, v)), v, new)

---------------------------------------------------------------------------
(* Running a program.  A poison value is harmless until a branch, a call, a *)
(* return or an address depends on it; that, a division by zero and an      *)
(* access outside memory are undefined, and the run ends as "ub".           *)
Poison == -1
Unset == -2
Signed(v, n) == IF v >= 2 ^ (n - 1) THEN v - 2 ^ n ELSE v
RECURSIVE Bitwise2(_, _, _, _)
Bitwise2(f, x, y, n) ==
  IF n = 0 THEN 0 ELSE 2 * Bitwise2(f, x \div 2, y \div 2, n - 1) + f[<<x % 2, y % 2>>]
AndBit == [q \in (0..1) \X (0..1) |-> q[1] * q[2]]
OrBit == [q \in (0..1) \X (0..1) |-> IF q = <<0, 0>> THEN 0 ELSE 1]
XorBit == [q \in (0..1) \X (0..1) |-> (q[1] + q[2]) % 2]
Compare(pred, x, y, n) ==
  LET sx == Signed(x, n)  sy == Signed(y, n)
  IN CASE pred = "eq" -> x = y [] pred = "ne" -> x # y
       [] pred = "ult" -> x < y [] pred = "ule" -> x <= y
       [] pred = "ugt" -> x > y [] pred = "uge" -> x >= y
       [] pred = "slt" -> sx < sy [] pred = "sle" -> sx <= sy
       [] pred = "sgt" -> sx > sy [] pred = "sge" -> sx >= sy
\* Quotient rounded towards zero.
TruncDiv(x, y) == LET q == (IF x < 0 THEN -x ELSE x) \div (IF y < 0 THEN -y ELSE y)
                  IN IF (x < 0) = (y < 0) THEN q ELSE -q
\* The result of an integer operation at n bits; flag "nsw" makes signed
\* overflow of an addition poison, an oversized shift amount is poison.
Arith(k, x, y, n, flag) ==
  LET m == 2 ^ n  sx == Signed(x, n)  sy == Signed(y, n)
  IN CASE k = "add" -> IF flag = "nsw" /\ ~(sx + sy \in (-(m \div 2))..((m \div 2) - 1))
                         THEN Poison ELSE (x + y) % m
       [] k = "sub" -> (x - y) % m
       [] k = "mul" -> (x * y) % m
       [] k = "and" -> Bitwise2(AndBit, x, y, n)
       [] k = "or" -> Bitwise2(OrBit, x, y, n)
       [] k = "xor" -> Bitwise2(XorBit, x, y, n)
       [] k = "shl" -> IF y >= n THEN Poison ELSE (x * 2 ^ y) % m
       [] k = "lshr" -> IF y >= n THEN Poison ELSE x \div 2 ^ y
       [] k = "ashr" -> IF y >= n THEN Poison ELSE (sx \div 2 ^ y) % m
       [] k = "udiv" -> x \div y
       [] k = "urem" -> x % y
       [] k = "sdiv" -> TruncDiv(sx, sy) % m
       [] k = "srem" -> (sx - sy * TruncDiv(sx, sy)) % m
BinKinds == {"add", "sub", "mul", "and", "or", "xor", "shl", "lshr", "ashr",
             "udiv", "urem", "sdiv", "srem"}
Trapping == {"udiv", "urem", "sdiv", "srem"}
CastKinds == {"zext", "sext", "trunc", "bitcast"}
CastTo(k, x, from, to) == CASE k = "sext" -> Signed(x, Bits(from)) % 2 ^ Bits(to)
                            [] k = "bitcast" -> x
                            [] OTHER -> x % 2 ^ Bits(to)

\* Memory: cells 0..Globals-1 belong to the caller, every alloca takes the
\* next cells above AllocaBase.
Globals == 16
AllocaBase == 24
MemTop == 48
AddressSpace == 256
RECURSIVE FlatValue(_, _)
FlatValue(v, t) ==
  CASE t = "w" -> IF v = Poison THEN <<Poison, Poison>> ELSE <<v % 4, v \div 4>>
    [] t = "d" -> IF v = Poison THEN [i \in 1..4 |-> Poison]
                  ELSE [i \in 1..4 |-> (v \div 4 ^ (i - 1)) % 4]
    [] IsStruct(t) -> FlatValue(v[1], FieldTypes(t)[1]) \o FlatValue(v[2], FieldTypes(t)[2])
    [] t \in VectorTypes -> FlattenSeq([i \in 1..LaneCount(t) |-> FlatValue(v[i], LaneType(t))])
    [] OTHER -> <<v>>
RECURSIVE ReadValue(_, _, _)
ReadValue(mem, a, t) ==
  CASE t \in {"w", "d"} -> LET cs == [i \in 1..Cells(t) |-> mem[a + i - 1]]
                           IN IF \E i \in 1..Len(cs) : cs[i] < 0 THEN Poison
                              ELSE FoldRight(LAMBDA x, n : 4 * n + (x % 4), cs, 0)
    [] t \in VectorTypes -> [i \in 1..LaneCount(t) |-> ReadValue(mem, a + (i - 1) * Cells(LaneType(t)), LaneType(t))]
    [] IsStruct(t) -> LET f == FieldTypes(t)
                      IN <<ReadValue(mem, a, f[1]), ReadValue(mem, a + Cells(f[1]), f[2])>>
    [] OTHER -> mem[a]
Fill(x, t) == CASE t \in {"nn", "sn", "pn"} -> <<x, x>> [] t = "t" -> <<<<x, x>>, x>>
                [] t \in VectorTypes -> [i \in 1..LaneCount(t) |-> x] [] OTHER -> x
PoisonOf(t) == Fill(Poison, t)
IsUnset(x, t) == x = Fill(Unset, t)
InMemory(a, n) == \/ a >= 0 /\ a + n <= Globals
                  \/ a >= AllocaBase /\ a + n <= MemTop
AtPath(v, path) == FoldLeft(LAMBDA u, i : u[i + 1], v, path)
PutPath(v, path, new) == IF Len(path) = 1 THEN [v EXCEPT ![path[1] + 1] = new]
                         ELSE [v EXCEPT ![path[1] + 1][path[2] + 1] = new]

(* One operation on a machine state m = [env, mem, top, trace, ub].  A call *)
(* is recorded with its arguments and the caller-visible memory; the callee *)
(* may change that memory and every slot whose address it can reach.        *)
Reachable(m, args) == {x \in ToSet(args) \union {m.mem[g] : g \in 0..(Globals - 1)} :
                         x >= AllocaBase /\ x < MemTop}
Step(p, m, o) ==
  LET env == m.env
      v(i) == env[o.a[i]]
      set(x) == [m EXCEPT !.env[o.d] = x]
      t == IF o.d = 0 THEN "n" ELSE p.ty[o.d]
      ub == [m EXCEPT !.ub = TRUE]
  IN IF m.ub THEN m
     ELSE IF \E i \in 1..Len(o.a) : IsUnset(env[o.a[i]], p.ty[o.a[i]]) THEN ub
     ELSE CASE o.k = "const" -> set(o.c)
       [] o.k = "undef" -> set(PoisonOf(t))
       [] o.k \in BinKinds ->
            IF o.k \in Trapping /\ v(2) \in {0, Poison} THEN ub
            ELSE IF v(1) = Poison \/ v(2) = Poison THEN set(Poison)
            ELSE set(Arith(o.k, v(1), v(2), Bits(t), o.p))
       [] o.k = "icmp" ->
            set(IF v(1) = Poison \/ v(2) = Poison THEN Poison
                ELSE IF Compare(o.p, v(1), v(2), Bits(p.ty[o.a[1]])) THEN 1 ELSE 0)
       [] o.k = "select" -> set(IF v(1) = Poison THEN Poison ELSE IF v(1) = 1 THEN v(2) ELSE v(3))
       [] o.k \in CastKinds -> set(IF v(1) = Poison THEN Poison ELSE CastTo(o.k, v(1), p.ty[o.a[1]], t))
       [] o.k = "insert" -> set(PutPath(v(1), o.x, v(2)))
       [] o.k = "extract" -> set(AtPath(v(1), o.x))
       [] o.k = "alloca" -> [m EXCEPT !.env[o.d] = m.top, !.top = @ + Cells(o.p)]
       [] o.k = "gep" ->
            LET base == IF p.ty[o.a[1]] = "pn" THEN v(1)[1] ELSE v(1)
                index == IF o.c >= 0 THEN o.c ELSE v(2)
            IN IF base = Poison \/ index = Poison THEN set(Poison)
               ELSE set((base + index * Cells(o.p)) % AddressSpace)
       [] o.k = "vsplat" -> set([i \in 1..LaneCount(t) |-> v(1)])
       [] o.k = "vbin" ->
            set([i \in 1..LaneCount(t) |-> IF v(1)[i] = Poison \/ v(2)[i] = Poison THEN Poison
                                           ELSE Arith(o.p, v(1)[i], v(2)[i], Bits(LaneType(t)), "")])
       [] o.k = "vreduce" ->
            set(IF Poison \in ToSet(v(1)) THEN Poison ELSE FoldLeft(+, 0, v(1)) % 2 ^ Bits(t))
       [] o.k \in {"load", "vload"} -> IF InMemory(v(1), Cells(t)) THEN set(ReadValue(m.mem, v(1), t)) ELSE ub
       [] o.k \in {"store", "vstore"} ->
            LET cs == FlatValue(v(1), p.ty[o.a[1]])  a == v(2)
            IN IF ~InMemory(a, Len(cs)) THEN ub
               ELSE [m EXCEPT !.mem = [c \in DOMAIN @ |->
                                         IF c >= a /\ c < a + Len(cs) THEN cs[c - a + 1] ELSE @[c]]]
       [] o.k = "call" ->
            LET as == [i \in 1..Len(o.a) |-> v(i)]
                bump(x) == IF x \in 0..3 THEN (x + 1) % 4 ELSE x
                touched == (0..(Globals - 1)) \union Reachable(m, as)
            IN IF Poison \in ToSet(as) THEN ub
               ELSE [m EXCEPT !.trace = Append(@, <<as, [c \in 0..(Globals - 1) |-> m.mem[c]]>>),
                              !.mem = [c \in DOMAIN @ |-> IF c \in touched THEN bump(@[c]) ELSE @[c]],
                              !.env = IF o.d = 0 THEN @ ELSE [@ EXCEPT ![o.d] = m.mem[0] % 4]]
RECURSIVE StepAll(_, _, _, _)
StepAll(p, m, ops, i) == IF i > Len(ops) THEN m ELSE StepAll(p, Step(p, m, ops[i]), ops, i + 1)

Bind(p, m, b, vals) ==
  [m EXCEPT !.env = [x \in DOMAIN @ |->
     IF \E i \in 1..Len(p.args[b]) : p.args[b][i] = x
       THEN vals[CHOOSE i \in 1..Len(p.args[b]) : p.args[b][i] = x] ELSE @[x]]]
End(m, how, v) == [how |-> how, val |-> v, mem |-> [c \in 0..(Globals - 1) |-> m.mem[c]],
                   trace |-> m.trace]
Ub == [how |-> "ub", val |-> 0, mem |-> <<>>, trace |-> <<>>]
Fuel == 40
RECURSIVE RunFrom(_, _, _, _)
RunFrom(p, m0, b, fuel) ==
  LET t == p.term[b]
      Enter(m, to, vals) == RunFrom(p, Bind(p, m, to, vals), to, fuel - 1)
      Go(m, i) == LET vals == [j \in 1..Len(t.e[i]) |-> m.env[t.e[i][j]]]
                  IN IF \/ Len(t.e[i]) # Len(p.args[t.s[i]])
                        \/ \E j \in 1..Len(t.e[i]) : IsUnset(vals[j], p.ty[t.e[i][j]])
                     THEN Ub ELSE Enter(m, t.s[i], vals)
      Leave(m) == IF m.ub THEN Ub
                  ELSE IF fuel = 0 THEN End(m, "fuel", 0)
                  ELSE IF t.k = "ret" /\ t.c = 0 THEN End(m, "ret", 0)
                  ELSE IF t.k = "ret" THEN IF m.env[t.c] \in {Unset, Poison} THEN Ub ELSE End(m, "ret", m.env[t.c])
                  ELSE IF t.k = "cbr" /\ m.env[t.c] < 0 THEN Ub
                  ELSE Go(m, IF t.k = "br" \/ m.env[t.c] = 1 THEN 1 ELSE 2)
  IN Leave(StepAll(p, m0, p.ops[b], 1))
Run(p, params, mem0) ==
  LET m == [env |-> [x \in DOMAIN p.ty |-> Fill(Unset, p.ty[x])],
            mem |-> [c \in 0..(MemTop - 1) |-> IF c < Globals THEN mem0[c] ELSE Poison],
            top |-> AllocaBase, trace |-> <<>>, ub |-> FALSE]
  IN RunFrom(p, Bind(p, m, Entry(p), params), Entry(p), Fuel)
=============================================================================
