---------------------------- MODULE SelectAarch64 ----------------------------
(***************************************************************************)
(* Instruction selection for aarch64: how one LLVM-dialect operation on    *)
(* scalars and vectors becomes machine instructions                        *)
(* (llvm_to_aarch64_isel.rs, isel_i128.rs).                                *)
(*                                                                         *)
(* The selector keeps, per SSA value, a LoweredValue: an immediate, a      *)
(* register, a pair of registers, a comparison that has not been emitted   *)
(* yet.  Virtual registers are written once, so a register is modelled by  *)
(* the word it holds, and an emitted instruction by the word it computes;  *)
(* each operator below composes the instructions in the order the code     *)
(* emits them.  Representations of addresses and aggregates are in         *)
(* AggregateMemory.                                                        *)
(***************************************************************************)
EXTENDS Words, FiniteSetsExt

IntTy(w) == [c |-> "int", w |-> w]
FpTy(w) == [c |-> "fp", w |-> w]          \* FpTy(N) is f32, FpTy(W) is f64
VecTy(w, n) == [c |-> "vec", w |-> w, n |-> n]   \* n lanes of w bits

\* LoweredValue.  A register carries its class: Gpr, Fpr32, Fpr64, Simd.
Imm(v) == [k |-> "Imm", v |-> v]
Reg(v) == [k |-> "Reg", cls |-> "Gpr", v |-> v]
FReg(w, v) == [k |-> "Reg", cls |-> IF w = W THEN "Fpr64" ELSE "Fpr32", v |-> v]
VReg(lanes) == [k |-> "Reg", cls |-> "Simd", v |-> lanes]
RegPair(p) == [k |-> "RegPair", lo |-> p[1], hi |-> p[2]]
TaggedLen(n) == [k |-> "TaggedLen", v |-> n]
Compare(pred, lty, lhs, rty, rhs) ==
  [k |-> "Compare", pred |-> pred, lty |-> lty, lhs |-> lhs, rty |-> rty, rhs |-> rhs]
Undef == [k |-> "Undef"]
Err == [k |-> "Err"]       \* the selector refuses the operation

----------------------------------------------------------------------------
(* Immediates, masks and normalisation.                                    *)

Chunk(imm, i) == (imm \div 2^(i * (W \div 4))) % 2^(W \div 4)

\* One mov when the value fits a chunk; otherwise movz of the first nonzero
\* chunk, which clears the rest, and a movk for each other nonzero chunk.
Placed(imm, i) == Chunk(imm, i) * 2^(i * (W \div 4))
MovzMovk(imm, first) == Placed(imm, first) + MapThenSumSet(LAMBDA i : Placed(imm, i), (0 .. 3) \ {first})
materialize_u64_immediate(imm) ==
  IF imm < 2^(W \div 4) THEN imm ELSE MovzMovk(imm, Min({i \in 0 .. 3 : Chunk(imm, i) # 0}))

integer_trunc_mask(w) == 2^w - 1      \* None when w >= W: see the guards

\* Mask to the width; when signed, flip the sign bit and subtract it again.
Extended(masked, sign) == IF sign = 0 THEN masked ELSE sub(xor(masked, sign), sign)
normalize_integer_reg(reg, w, signed) ==
  IF w >= W THEN reg
  ELSE Extended(and(reg, materialize_u64_immediate(2^w - 1)), IF signed THEN materialize_u64_immediate(SignBit(w)) ELSE 0)

sign_extend_high_half(lo) ==
  mul(lsr(lo, materialize_u64_immediate(W - 1)), materialize_u64_immediate(2^W - 1))

sign_extend_immediate(v, w) ==
  LET x == v % 2^w IN IF w >= W \/ x < SignBit(w) THEN x ELSE x + 2^W - 2^w

\* Folding two immediates.  "None" (division by zero) leaves the operation
\* to the instructions; the shifts wrap the amount at the folding width.
FoldDefined(kind, rhs, w) ==
  kind \in Divisions => (IF w = 2 * W THEN rhs ELSE rhs % 2^w) # 0

fold_binary(kind, lhs, rhs, w) ==
  IF w = 2 * W
  THEN CASE kind = "Shl" -> Wrap(lhs * 2^(rhs % w), w)
         [] kind = "Shr" -> lhs \div 2^(rhs % w)
         [] kind = "AShr" -> Wrap(FloorShift(Signed(lhs, w), rhs % w), w)
         [] OTHER -> LlvmBinary(kind, w, lhs, rhs)
  ELSE LET l == lhs % 2^w
           r == rhs % 2^w
           sl == Signed(sign_extend_immediate(l, w), W)
           sr == Signed(sign_extend_immediate(r, w), W)
       IN Wrap(CASE kind = "Add" -> add(l, r)
                 [] kind = "Sub" -> sub(l, r)
                 [] kind = "Mul" -> mul(l, r)
                 [] kind = "SDiv" -> Wrap(Quot(sl, sr), W)
                 [] kind = "UDiv" -> l \div r
                 [] kind = "SRem" -> Wrap(Rem(sl, sr), W)
                 [] kind = "URem" -> l % r
                 [] kind = "And" -> and(l, r)
                 [] kind = "Or" -> or(l, r)
                 [] kind = "Xor" -> xor(l, r)
                 [] kind = "Shl" -> shl(l, r)
                 [] kind = "Shr" -> lsr(l, r)
                 [] kind = "AShr" -> Wrap(FloorShift(sl, r % W), W), w)

\* The machine instruction of a kind.
opcode(kind, a, b) ==
  CASE kind = "Add" -> add(a, b)
    [] kind = "Sub" -> sub(a, b)
    [] kind = "Mul" -> mul(a, b)
    [] kind = "SDiv" -> sdiv(a, b)
    [] kind = "UDiv" -> udiv(a, b)
    [] kind = "And" -> and(a, b)
    [] kind = "Or" -> or(a, b)
    [] kind = "Xor" -> xor(a, b)
    [] kind = "Shl" -> shl(a, b)
    [] kind = "Shr" -> lsr(a, b)
    [] kind = "AShr" -> asr(a, b)

condition_code(pred) ==
  CASE pred = "EQ" -> "Eq" [] pred = "NE" -> "Ne" [] pred = "ULT" -> "Lo"
    [] pred = "UGE" -> "Hs" [] pred = "ULE" -> "Ls" [] pred = "UGT" -> "Hi"
    [] pred = "SLT" -> "Lt" [] pred = "SGE" -> "Ge" [] pred = "SLE" -> "Le"
    [] pred = "SGT" -> "Gt"

\* A signed predicate sees narrow operands sign-extended, whatever the type.
compare_operand_ty(pred, w) == pred \in {"SLT", "SLE", "SGT", "SGE"} /\ w < W

signed_variant_ty(w) == w < W

----------------------------------------------------------------------------
(* Materialisation: a LoweredValue becomes a register (or a pair).         *)

RECURSIVE materialize(_), materialize_pair(_), lower_compare_value(_)

materialize_typed(r, w, signed) ==
  IF w = 2 * W THEN materialize_pair(r)[1]
  ELSE normalize_integer_reg(materialize(r), w, signed)

\* `fmov x, d` carries the bits over; `fmov w, s` zero-extends them.
materialize(r) ==
  CASE r.k = "Reg" -> r.v
    [] r.k = "RegPair" -> r.lo
    [] r.k = "Compare" -> lower_compare_value(r)
    [] r.k \in {"Imm", "TaggedLen", "Undef"} ->
         materialize_u64_immediate(IF r.k = "Undef" THEN 0 ELSE Wrap(IF r.k = "Imm" THEN r.v ELSE 2 * r.v + 1, W))

\* A half that stays in an FP register: the integer instruction that reads
\* it cannot be encoded (xreg panics), so it has no word.
FpHalf == -1

\* The type is signless after mir-lower: a single register's high half is 0.
\* The register itself is the low half, whatever its class: only the last
\* arm goes through materialize and its fmov.
materialize_pair(r) ==
  CASE r.k = "RegPair" -> <<r.lo, r.hi>>
    [] r.k = "Imm" -> [i \in 1 .. 2 |-> materialize_u64_immediate((r.v \div 2^(W * (i - 1))) % 2^W)]
    [] r.k = "Reg" -> <<IF r.cls = "Gpr" THEN r.v ELSE FpHalf, 0>>
    [] OTHER -> <<materialize(r), 0>>

emit_compare_bit(pred, a, b) == cset(condition_code(pred), a, b)

\* The strict predicate for the high halves, the unsigned one for the low.
HalfPredicates(pred) ==
  CASE pred = "ULT" -> <<"ULT", "ULT">> [] pred = "ULE" -> <<"ULT", "ULE">>
    [] pred = "UGT" -> <<"UGT", "UGT">> [] pred = "UGE" -> <<"UGT", "UGE">>
    [] pred = "SLT" -> <<"SLT", "ULT">> [] pred = "SLE" -> <<"SLT", "ULE">>
    [] pred = "SGT" -> <<"SGT", "UGT">> [] pred = "SGE" -> <<"SGT", "UGE">>

Combined(pred, hi, hiEq, lo) ==
  IF pred = "EQ" THEN and(hiEq, lo) ELSE IF pred = "NE" THEN or(hi, lo) ELSE or(hi, and(hiEq, lo))
CompareHalves(pred, halves, l, r) ==
  Combined(pred, emit_compare_bit(halves[1], l[2], r[2]), emit_compare_bit("EQ", l[2], r[2]),
           emit_compare_bit(halves[2], l[1], r[1]))
lower_compare_128(pred, l, r) ==
  CompareHalves(pred, IF pred \in {"EQ", "NE"} THEN <<pred, pred>> ELSE HalfPredicates(pred), l, r)

OperandTy(c, side) == IF side = "lhs" THEN c.lty ELSE c.rty
CompareWords(c, regs) == cset(condition_code(c.pred), regs.lhs, regs.rhs)
ComparePairs(c, pairs) == lower_compare_128(c.pred, pairs.lhs, pairs.rhs)
lower_compare_value(c) ==
  IF c.lty = 2 * W THEN ComparePairs(c, [side \in {"lhs", "rhs"} |-> materialize_pair(c[side])])
  ELSE CompareWords(c, [side \in {"lhs", "rhs"} |->
         materialize_typed(c[side], OperandTy(c, side), compare_operand_ty(c.pred, OperandTy(c, side)))])

\* Mutant of FusedBranch: the operands of the fused comparison keep their
\* signless types.
FusedSignless(c) ==
  cset(condition_code(c.pred), materialize_typed(c.lhs, c.lty, FALSE),
       materialize_typed(c.rhs, c.rty, FALSE)) = 1

\* cmp and b.cond of a comparison up to 64 bits.
FusedBranch(c) ==
  cset(condition_code(c.pred),
       materialize_typed(c.lhs, c.lty, compare_operand_ty(c.pred, c.lty)),
       materialize_typed(c.rhs, c.rty, compare_operand_ty(c.pred, c.rty))) = 1

\* Whether a conditional branch is taken: the comparison is fused with the
\* branch unless it is a 128-bit one; anything else is tested with cbnz.
CondBrTaken(r) ==
  IF r.k # "Compare" THEN materialize(r) # 0
  ELSE IF r.lty = 2 * W THEN lower_compare_value(r) # 0 ELSE FusedBranch(r)

----------------------------------------------------------------------------
(* 128-bit arithmetic on register pairs.                                   *)

lower_shift_right_128(l, n, signed) ==
  LET hishift(a, k) == IF signed THEN asr(a, k) ELSE lsr(a, k)
  IN CASE n = 0 -> l
       [] 0 < n /\ n < W -> <<or(lsr(l[1], n), shl(l[2], W - n)), hishift(l[2], n)>>
       [] n >= W -> <<IF n = W THEN l[2] ELSE hishift(l[2], n - W),
                      IF signed THEN asr(l[2], W - 1) ELSE 0>>

lower_shift_left_128(l, n) ==
  CASE n = 0 -> l
    [] 0 < n /\ n < W -> <<shl(l[1], n), or(shl(l[2], n), lsr(l[1], W - n))>>
    [] n >= W -> <<0, IF n = W THEN l[1] ELSE shl(l[1], n - W)>>

\* (x >> 1) >> (W - 1 - n): the bits carried across the halves, 0 for n = 0.
CarryShift(n) == sub(W - 1, and(n, W - 1))

\* The amount is taken modulo W by each shift; all-ones masks of "n < W" and
\* "n >= W" select between the two cases.
lower_dynamic_shift_128(kind, l, n) ==
  LET inv == CarryShift(n)
      mask_lo == sub(0, cset("Lo", n, W))
      mask_hi == sub(0, cset("Hs", n, W))
      select(low, high) == or(and(low, mask_lo), and(high, mask_hi))
      hishift(a) == IF kind = "AShr" THEN asr(a, n) ELSE lsr(a, n)
  IN IF kind = "Shl"
     THEN <<and(shl(l[1], n), mask_lo),
            select(or(shl(l[2], n), lsr(lsr(l[1], 1), inv)), shl(l[1], n))>>
     ELSE <<select(or(lsr(l[1], n), shl(shl(l[2], 1), inv)), hishift(l[2])),
            IF kind = "AShr" THEN select(hishift(l[2]), asr(l[2], W - 1))
                             ELSE and(hishift(l[2]), mask_lo)>>

AddPair(l, r) ==
  LET lo == add(l[1], r[1])
  IN <<lo, add(add(l[2], r[2]), cset("Lo", lo, l[1]))>>
SubPair(l, r) == <<sub(l[1], r[1]), sub(sub(l[2], r[2]), cset("Lo", l[1], r[1]))>>
MulPair(l, r) ==
  <<mul(l[1], r[1]), add(add(umulh(l[1], r[1]), mul(l[2], r[1])), mul(l[1], r[2]))>>

ShiftAmount(rhs) == IF rhs.k = "Imm" /\ rhs.v < 2 * W - 1 THEN rhs.v ELSE 2 * W - 1   \* min(127)
PairBinary(kind, l, r, rhs) ==
  CASE kind = "Add" -> RegPair(AddPair(l, r))
    [] kind = "Sub" -> RegPair(SubPair(l, r))
    [] kind = "Mul" -> RegPair(MulPair(l, r))
    [] kind \in {"And", "Or", "Xor"} -> RegPair([i \in 1 .. 2 |-> opcode(kind, l[i], r[i])])
    [] kind \in Shifts /\ rhs.k = "Imm" ->
         RegPair(IF kind = "Shl" THEN lower_shift_left_128(l, ShiftAmount(rhs))
                 ELSE lower_shift_right_128(l, ShiftAmount(rhs), kind = "AShr"))
    [] kind \in Shifts /\ rhs.k # "Imm" -> RegPair(lower_dynamic_shift_128(kind, l, materialize(rhs)))
    [] kind \in Divisions -> Err
lower_binary_128(kind, lhs, rhs) ==
  IF lhs.k = "Imm" /\ rhs.k = "Imm" /\ FoldDefined(kind, rhs.v, 2 * W)
  THEN Imm(fold_binary(kind, lhs.v, rhs.v, 2 * W))
  ELSE PairBinary(kind, materialize_pair(lhs), materialize_pair(rhs), rhs)

----------------------------------------------------------------------------
(* The arms of lower_function for integer operations.                      *)

\* Remainders lower through division, multiplication and subtraction; signed
\* kinds see sign-extended operands; the result is brought back to width.
LowerBinary(kind, w, lhs, rhs) ==
  IF w = 2 * W THEN lower_binary_128(kind, lhs, rhs)
  ELSE IF lhs.k = "Imm" /\ rhs.k = "Imm" /\ FoldDefined(kind, rhs.v, w)
  THEN Imm(fold_binary(kind, lhs.v, rhs.v, w))
  ELSE LET Remainder(l, r, q) == sub(l, mul(q, r))
           Result(l, r) == IF kind \in {"SRem", "URem"}
                           THEN Remainder(l, r, opcode(IF kind = "URem" THEN "UDiv" ELSE "SDiv", l, r))
                           ELSE opcode(kind, l, r)
       IN Reg(normalize_integer_reg(
                Result(materialize_typed(lhs, w, kind \in {"AShr", "SDiv", "SRem"} /\ signed_variant_ty(w)),
                       materialize_typed(rhs, w, kind \in {"SDiv", "SRem"} /\ signed_variant_ty(w))), w, FALSE))

LowerICmp(pred, w, lhs, rhs) == Compare(pred, w, lhs, w, rhs)

LowerZExt(r) == r

\* Flip the sign bit, subtract it, mask to the destination; a 128-bit
\* destination gets an explicit sign-extended high half.
LowerSExt(r, from, to) ==
  LET Extend(src) == sub(xor(src, SignBit(from)), SignBit(from))
      Folded(x) == Imm(IF to = 2 * W THEN Wrap(Signed(x, W), 2 * W)
                       ELSE IF to = W THEN x ELSE x & integer_trunc_mask(to))
      Widened(lo) == RegPair(<<lo, sign_extend_high_half(lo)>>)
      Emitted(x) == IF to < W THEN Reg(and(x, materialize_u64_immediate(integer_trunc_mask(to))))
                    ELSE IF to = 2 * W THEN Widened(x) ELSE Reg(x)
  IN IF from >= W THEN IF to = 2 * W THEN Widened(materialize(r)) ELSE r
     ELSE IF r.k = "Imm" THEN Folded(Extend(Wrap(r.v, W)))
     ELSE Emitted(Extend(materialize(r)))

\* Below 64 bits the value is masked.  A 64-bit result of a 128-bit pair is
\* its low half; any other representation is kept as it is.
\* Mutant of LowerTrunc: the pair is kept whole.
TruncKeepsPair(r, to) ==
  IF to < W
  THEN IF r.k = "Imm" THEN Imm(r.v & integer_trunc_mask(to))
       ELSE Reg(and(materialize(r), materialize_u64_immediate(integer_trunc_mask(to))))
  ELSE r

LowerTrunc(r, to) ==
  IF to < W
  THEN IF r.k = "Imm" THEN Imm(r.v & integer_trunc_mask(to))
       ELSE Reg(and(materialize(r), materialize_u64_immediate(integer_trunc_mask(to))))
  ELSE IF r.k = "RegPair" THEN Reg(r.lo) ELSE r

\* An odd immediate becomes a tagged length, everything else a register;
\* ptrtoint passes the representation on.
LowerIntToPtr(r) ==
  IF r.k = "Imm" /\ r.v % 2 = 1 THEN TaggedLen(Wrap(r.v \div 2, W)) ELSE Reg(materialize(r))
LowerPtrToInt(r) == r

LowerConstant(v) == Imm(v)

----------------------------------------------------------------------------
(* Floating point.                                                         *)

\* An fmov immediate, a GPR and a cross-file fmov, or a literal-pool load:
\* each leaves the format's low bits of the pattern in the register.
materialize_fp_constant(bits, w) == Wrap(bits, w)

\* The FP register holding the value; 0 - 1 stands for "wrong width", an error.
materialize_fp(r, w) ==
  CASE r.k = "Reg" /\ r.cls = FReg(w, 0).cls -> r.v
    [] r.k = "Reg" /\ r.cls = FReg(N + W - w, 0).cls -> -1
    [] r.k = "Imm" -> materialize_fp_constant(Wrap(r.v, W), w)
    [] r.k = "Undef" -> materialize_fp_constant(0, w)
    [] OTHER -> Wrap(materialize(r), w)       \* fmov d, x / fmov s, w

fcmp_condition_code ==
  [OEQ |-> "Eq", OGT |-> "Gt", OGE |-> "Ge", OLT |-> "Mi", OLE |-> "Ls", ORD |-> "Vc",
   UNE |-> "Ne", UGT |-> "Hi", UGE |-> "Pl", ULT |-> "Lt", ULE |-> "Le", UNO |-> "Vs"]

\* `one` and `ueq` need two tests of the same flags.
lower_fcmp(pred, w, f, g) ==
  LET fl == FcmpFlags(f, g, w)
  IN CASE pred = "False" -> Imm(0)
       [] pred = "True" -> Imm(1)
       [] pred \in DOMAIN fcmp_condition_code -> Reg(csetf(fcmp_condition_code[pred], fl))
       [] pred = "ONE" -> Reg(or(csetf("Mi", fl), csetf("Gt", fl)))
       [] pred = "UEQ" -> Reg(or(csetf("Eq", fl), csetf("Vs", fl)))

\* scvtf / ucvtf read the whole register: narrow sources are extended first.
int_to_fp(r, w, fw, signed) ==
  IF w = 2 * W THEN Err
  ELSE LET src == materialize_typed(r, w, signed /\ signed_variant_ty(w))
       IN FReg(fw, Float(2 * (IF signed THEN Signed(src, W) ELSE src), fw))

\* fcvtzs / fcvtzu exist for the 32- and 64-bit destinations only; they
\* saturate at the destination width and clear the rest of the register.
fp_to_int(f, fw, w, signed) ==
  IF w \notin {N, W} THEN Err ELSE Reg(SaturatingToInt(f, fw, w, signed))
saturating_fp_to_int_intrinsic(f, fw, w, signed) == fp_to_int(f, fw, w, signed)

fp_math_intrinsic ==
  [floor |-> "frintm", ceil |-> "frintp", trunc |-> "frintz", round |-> "frinta",
   rint |-> "frintn", fabs |-> "fabs", minnum |-> "fminnm", maxnum |-> "fmaxnm",
   minimum |-> "fmin", maximum |-> "fmax"]
UnaryMath == {"floor", "ceil", "trunc", "round", "rint", "fabs"}

\* The instruction of an intrinsic, applied to its operands.
LowerFpMath(op, w, f, g) ==
  LET rust == FpInstruction[fp_math_intrinsic[op]]
  IN FReg(w, IF op \notin UnaryMath THEN RustMinMax(rust, w, f, g)
             ELSE IF IsNaN(f, w) \/ IsInf(f, w) THEN (IF rust = "fabs" THEN Magnitude(f, w) ELSE f)
             ELSE Float(RustMath(rust, Halves(f, w)), w))

\* fadd, fsub; the remainder is a call to fmod on v0 and v1.
LowerFloatBinary(kind, w, f, g) == FReg(w, LlvmFloat(kind, w, f, g))
LowerFNeg(w, f) == FReg(w, Negate(f, w))
LowerFPCast(f, from, to) == FReg(to, Convert(f, from, to))

----------------------------------------------------------------------------
(* Vectors: four lanes of N bits (4s) or two of W bits (2d).               *)

materialize_simd(r) == r.v
Lanes(t) == 1 .. t.n

\* `dup` writes the low lane bits of the register to every lane.
LowerVSplat(t, r) == VReg([i \in Lanes(t) |-> Wrap(materialize(r), t.w)])

\* Add, sub and mul work on lanes (mul has no 2d form); and, orr, eor on the
\* whole register; a shift takes its amount from a splat immediate.
LowerVBin(kind, t, a, b) ==
  IF kind = "Mul" /\ t.w = W THEN Err
  ELSE VReg([i \in Lanes(t) |-> LlvmBinary(kind, t.w, a[i], b[i])])

\* addv / addp sum the lanes in a lane-sized register; fmov zero-extends.
LowerVReduce(t, a) == Reg(Wrap(MapThenSumSet(LAMBDA i : a[i], Lanes(t)), t.w))
=============================================================================
