------------------------------ MODULE SelectX86 ------------------------------
(***************************************************************************)
(* Instruction selection for x86-64 (llvm_to_x86_64_isel.rs, isel_i128.rs  *)
(* of x86_64_darwin).  The selector is a port of the aarch64 one.  Where   *)
(* the two functions are the same code, the x86 name is defined by the     *)
(* aarch64 operator; where they differ the definition is written out.      *)
(***************************************************************************)
EXTENDS SelectAarch64

\* movabs carries a whole word in one instruction.
X86materialize_u64_immediate(imm) == imm
X86integer_trunc_mask(w) == integer_trunc_mask(w)

X86normalize_integer_reg(reg, w, signed) == normalize_integer_reg(reg, w, signed)

\* The x86 selector has no arithmetic shift right: the op is refused.
X86Kinds == BinaryKind \ {"AShr"}
X86fold_binary(kind, lhs, rhs, w) == fold_binary(kind, lhs, rhs, w)
X86opcode(kind, a, b) == opcode(kind, a, b)
X86condition_code(pred) == condition_code(pred)
X86compare_operand_ty(pred, w) == compare_operand_ty(pred, w)

RECURSIVE X86materialize(_), X86materialize_pair(_), X86lower_compare_value(_)

X86materialize_typed(r, w, signed) ==
  IF w = 2 * W THEN X86materialize_pair(r)[1]
  ELSE X86normalize_integer_reg(X86materialize(r), w, signed)

X86materialize(r) ==
  CASE r.k = "Reg" -> r.v
    [] r.k = "RegPair" -> r.lo
    [] r.k = "Imm" -> X86materialize_u64_immediate(Wrap(r.v, W))
    [] r.k = "TaggedLen" -> X86materialize_u64_immediate(Wrap(2 * r.v + 1, W))
    [] r.k = "Compare" -> X86lower_compare_value(r)
    [] r.k = "Undef" -> X86materialize_u64_immediate(0)

X86materialize_pair(r) ==
  CASE r.k = "RegPair" -> <<r.lo, r.hi>>
    [] r.k = "Imm" -> <<Wrap(r.v, W), (r.v \div 2^W) % 2^W>>
    [] OTHER -> <<X86materialize(r), X86materialize_u64_immediate(0)>>

X86emit_compare_bit(pred, a, b) == cset(X86condition_code(pred), a, b)
X86lower_compare_128(pred, l, r) == lower_compare_128(pred, l, r)

X86lower_compare_value(c) ==
  IF c.lty = 2 * W
  THEN X86lower_compare_128(c.pred, X86materialize_pair(c.lhs), X86materialize_pair(c.rhs))
  ELSE X86emit_compare_bit(c.pred,
         X86materialize_typed(c.lhs, c.lty, X86compare_operand_ty(c.pred, c.lty)),
         X86materialize_typed(c.rhs, c.rty, X86compare_operand_ty(c.pred, c.rty)))

\* cmp and jcc, or test and jne.
X86CondBrTaken(r) ==
  IF r.k # "Compare" THEN X86materialize(r) # 0
  ELSE IF r.lty = 2 * W THEN X86lower_compare_value(r) # 0
  ELSE cset(X86condition_code(r.pred),
            X86materialize_typed(r.lhs, r.lty, X86compare_operand_ty(r.pred, r.lty)),
            X86materialize_typed(r.rhs, r.rty, X86compare_operand_ty(r.pred, r.rty))) = 1

----------------------------------------------------------------------------
(* 128-bit arithmetic: shifts by a constant only, and no arithmetic one.   *)

X86lower_shift_right_128(l, n) ==
  CASE n = 0 -> l
    [] 0 < n /\ n < W -> <<or(lsr(l[1], n), shl(l[2], W - n)), lsr(l[2], n)>>
    [] n >= W -> <<IF n = W THEN l[2] ELSE lsr(l[2], n - W), 0>>

X86lower_shift_left_128(l, n) == lower_shift_left_128(l, n)

X86PairBinary(kind, l, r, rhs) ==
  CASE kind = "Add" -> RegPair(AddPair(l, r))
    [] kind = "Sub" -> RegPair(SubPair(l, r))
    [] kind = "Mul" -> RegPair(MulPair(l, r))
    [] kind \in {"And", "Or", "Xor"} -> RegPair([i \in 1 .. 2 |-> X86opcode(kind, l[i], r[i])])
    [] kind = "Shl" /\ rhs.k = "Imm" -> RegPair(X86lower_shift_left_128(l, ShiftAmount(rhs)))
    [] kind = "Shr" /\ rhs.k = "Imm" -> RegPair(X86lower_shift_right_128(l, ShiftAmount(rhs)))
    [] OTHER -> Err
X86lower_binary_128(kind, lhs, rhs) ==
  IF lhs.k = "Imm" /\ rhs.k = "Imm" /\ FoldDefined(kind, rhs.v, 2 * W)
  THEN Imm(X86fold_binary(kind, lhs.v, rhs.v, 2 * W))
  ELSE X86PairBinary(kind, X86materialize_pair(lhs), X86materialize_pair(rhs), rhs)

----------------------------------------------------------------------------
(* The arms of lower_function for integer operations.                      *)

\* Operands keep their signless type, so a narrow signed division sees
\* zero-extended operands.
X86LowerBinary(kind, w, lhs, rhs) ==
  IF kind \notin X86Kinds THEN Err
  ELSE IF w = 2 * W THEN X86lower_binary_128(kind, lhs, rhs)
  ELSE IF lhs.k = "Imm" /\ rhs.k = "Imm" /\ FoldDefined(kind, rhs.v, w)
  THEN Imm(X86fold_binary(kind, lhs.v, rhs.v, w))
  ELSE LET Remainder(l, r, q) == sub(l, mul(q, r))
           Result(l, r) == IF kind \in {"SRem", "URem"}
                           THEN Remainder(l, r, X86opcode(IF kind = "URem" THEN "UDiv" ELSE "SDiv", l, r))
                           ELSE X86opcode(kind, l, r)
       IN Reg(X86normalize_integer_reg(Result(X86materialize_typed(lhs, w, FALSE),
                                              X86materialize_typed(rhs, w, FALSE)), w, FALSE))

X86LowerICmp(pred, w, lhs, rhs) == Compare(pred, w, lhs, w, rhs)

\* A 128-bit destination keeps the single extended register.
X86LowerSExt(r, from, to) ==
  LET Extend(src) == sub(xor(src, SignBit(from)), SignBit(from))
      Kept(x) == IF to >= W THEN x ELSE and(x, X86integer_trunc_mask(to))
  IN IF from >= W THEN r
     ELSE IF r.k = "Imm" THEN Imm(Kept(Extend(Wrap(r.v, W))))
     ELSE Reg(Kept(Extend(X86materialize(r))))

X86LowerZExt(r) == r

\* A 64-bit result keeps whatever represented the 128-bit source.
X86LowerTrunc(r, to) ==
  IF to >= W THEN r
  ELSE IF r.k = "Imm" THEN Imm(r.v & X86integer_trunc_mask(to))
  ELSE Reg(and(X86materialize(r), X86integer_trunc_mask(to)))

X86LowerIntToPtr(r) ==
  IF r.k = "Imm" /\ r.v % 2 = 1 THEN TaggedLen(Wrap(r.v \div 2, W)) ELSE Reg(X86materialize(r))
X86LowerConstant(v) == Imm(v)
=============================================================================
