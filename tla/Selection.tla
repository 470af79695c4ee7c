------------------------------ MODULE Selection ------------------------------
(***************************************************************************)
(* The op loop of lower_function on both hosts: a chain of LLVM-dialect    *)
(* operations, each lowered when it is reached, of which the result so far *)
(* is kept with the value the LLVM dialect gives it.  The chain has no     *)
(* bound: every value some sequence of operations can produce, in every    *)
(* representation the selector can give it, is a reachable state.          *)
(***************************************************************************)
EXTENDS SelectX86

CONSTANTS IntProbes(_),     \* second operands of an integer operation, by width
          CompareProbes(_), \* values that are compared, by width
          FpProbes(_),      \* second operands of a float operation, by width
          WideTrunc,        \* whether programs truncate 128-bit values to 64 bits
          WideFloatBits,    \* whether programs zero-extend the bits of a float
                            \* to 128 bits
          X86Signed         \* whether x86 programs divide narrow signed values
                            \* and sign-extend to 128 bits

VARIABLES target, cur       \* cur: type, value and representation

vars == <<target, cur>>

IntWidths == {1, N, W, 2 * W}
Value(t, v, r) == [t |-> t, v |-> v, r |-> r]

\* The lowering of the host that is being compiled for.
On(aarch64, x86) == IF target = "aarch64" THEN aarch64 ELSE x86

\* A second operand: a constant, or a register (pair) that holds it.
Second(w, v) == {On(LowerConstant(v), X86LowerConstant(v)),
                 IF w = 2 * W THEN RegPair(<<v % 2^W, v \div 2^W>>) ELSE Reg(v)}

\* The selector stops with an error instead of recording a value.
Produce(t, v, r) == r # Err /\ cur' = Value(t, v, r) /\ UNCHANGED target

Init ==
  /\ target \in {"aarch64", "x86_64"}
  /\ \E w \in IntWidths : \E v \in IntProbes(w) : \E r \in Second(w, v) :
       cur = Value(IntTy(w), v, r)

\* A comparison one of whose operands is itself an unemitted comparison.
\* Bound: such a value is only branched on.
Nested(r) == r.k = "Compare" /\ "Compare" \in {r.lhs.k, r.rhs.k}
IsInt == cur.t.c = "int" /\ ~Nested(cur.r)

\* Bits of a 32-bit FP register cast to an integer, widened and cast to f64
\* are refused: materialize_fp fails on a register of the other width.
FpBits == materialize_fp(cur.r, cur.t.w)
IsFp == cur.t.c = "fp" /\ FpBits # -1

BinaryOp(kind, x, rx, y, ry) ==
  LET w == cur.t.w
  IN /\ ~Poison(kind, w, x, y)
     /\ Produce(cur.t, LlvmBinary(kind, w, x, y),
                On(LowerBinary(kind, w, rx, ry), X86LowerBinary(kind, w, rx, ry)))

\* Bound: arithmetic on a comparison's result is explored for narrow ones.
Binary ==
  /\ IsInt
  /\ cur.r.k = "Compare" => cur.t.w = 1 /\ cur.r.lty < W
  /\ \E kind \in BinaryKind, v \in IntProbes(cur.t.w) : \E r \in Second(cur.t.w, v) :
       /\ (target = "x86_64" /\ cur.t.w < W /\ ~X86Signed) => kind \notin {"SDiv", "SRem"}
       /\ \E o \in {<<cur.v, cur.r, v, r>>, <<v, r, cur.v, cur.r>>} : BinaryOp(kind, o[1], o[2], o[3], o[4])

ICmpOf(pred, x, rx, y, ry) ==
  Produce(IntTy(1), Bool(LlvmICmp(pred, cur.t.w, x, y)),
          On(LowerICmp(pred, cur.t.w, rx, ry), X86LowerICmp(pred, cur.t.w, rx, ry)))

\* Bound: a comparison is compared again when it is a 1-bit one.
ICmp ==
  /\ IsInt
  /\ cur.v \in CompareProbes(cur.t.w)
  /\ cur.r.k = "Compare" => cur.t.w = 1 /\ cur.r.lty = 1
  /\ \E pred \in ICmpPredicate, v \in CompareProbes(cur.t.w) : \E r \in Second(cur.t.w, v) :
       \/ ICmpOf(pred, cur.v, cur.r, v, r)
       \/ cur.t.w <= N /\ ICmpOf(pred, v, r, cur.v, cur.r)

\* Bits cast from a float are still in the FP register, and LowerZExt leaves
\* them there: as a pair, the register cannot be read.
InFpRegister == cur.r.k = "Reg" /\ cur.r.cls # "Gpr"

ZExt ==
  /\ IsInt
  /\ \E to \in IntWidths :
       /\ to > cur.t.w
       /\ (to = 2 * W /\ InFpRegister) => WideFloatBits
       /\ Produce(IntTy(to), cur.v, On(LowerZExt(cur.r), X86LowerZExt(cur.r)))

SExt ==
  /\ IsInt
  /\ \E to \in IntWidths :
       /\ to > cur.t.w
       /\ (target = "x86_64" /\ to = 2 * W) => X86Signed
       /\ Produce(IntTy(to), Wrap(Signed(cur.v, cur.t.w), to),
                  On(LowerSExt(cur.r, cur.t.w, to), X86LowerSExt(cur.r, cur.t.w, to)))

\* On aarch64 only a constant keeps more bits than its type; on x86 a pair too.
Trunc ==
  /\ IsInt
  /\ \E to \in IntWidths :
       /\ to < cur.t.w
       /\ (to = W /\ (target = "x86_64" \/ cur.r.k = "Imm")) => WideTrunc
       /\ Produce(IntTy(to), Wrap(cur.v, to), On(LowerTrunc(cur.r, to), X86LowerTrunc(cur.r, to)))

\* inttoptr and back: the pointer is an integer of the word's width here.
PointerCast ==
  /\ IsInt /\ cur.t.w = W
  /\ Produce(cur.t, cur.v, On(LowerPtrToInt(LowerIntToPtr(cur.r)), X86LowerIntToPtr(cur.r)))

\* A bitcast between an integer and a float of its width keeps the
\* representation.
Bitcast ==
  /\ target = "aarch64" /\ cur.t.w \in {N, W}
  /\ \/ IsInt /\ Produce(FpTy(cur.t.w), cur.v, cur.r)
     \/ cur.t.c = "fp" /\ Produce(IntTy(cur.t.w), cur.v, cur.r)

IntToFp ==
  /\ IsInt /\ target = "aarch64"
  /\ \E fw \in {N, W}, signed \in BOOLEAN :
       Produce(FpTy(fw), Float(2 * (IF signed THEN Signed(cur.v, cur.t.w) ELSE cur.v), fw),
               int_to_fp(cur.r, cur.t.w, fw, signed))

FpToInt ==
  /\ IsFp
  /\ \E w \in IntWidths, signed \in BOOLEAN :
       Produce(IntTy(w), SaturatingToInt(cur.v, cur.t.w, w, signed),
               saturating_fp_to_int_intrinsic(FpBits, cur.t.w, w, signed))

FpCast ==
  /\ IsFp
  /\ LET to == N + W - cur.t.w
     IN Produce(FpTy(to), Convert(cur.v, cur.t.w, to), LowerFPCast(FpBits, cur.t.w, to))

FNeg == IsFp /\ Produce(cur.t, Negate(cur.v, cur.t.w), LowerFNeg(cur.t.w, FpBits))

FCmp ==
  /\ IsFp
  /\ \E pred \in FCmpPredicate, g \in FpProbes(cur.t.w) :
       Produce(IntTy(1), Bool(LlvmFCmp(pred, cur.t.w, cur.v, g)),
               lower_fcmp(pred, cur.t.w, FpBits, materialize_fp(Imm(g), cur.t.w)))

FloatBinary ==
  /\ IsFp
  /\ \E kind \in FloatKind, g \in FpProbes(cur.t.w) :
       Produce(cur.t, LlvmFloat(kind, cur.t.w, cur.v, g),
               LowerFloatBinary(kind, cur.t.w, FpBits, materialize_fp(Imm(g), cur.t.w)))

RustMathOf(op, w, f, g) ==
  IF op \notin UnaryMath THEN RustMinMax(op, w, f, g)
  ELSE IF IsNaN(f, w) \/ IsInf(f, w) THEN (IF op = "fabs" THEN Magnitude(f, w) ELSE f)
  ELSE Float(RustMath(op, Halves(f, w)), w)

FpMath ==
  /\ IsFp
  /\ \E op \in DOMAIN fp_math_intrinsic, g \in FpProbes(cur.t.w) :
       Produce(cur.t, RustMathOf(op, cur.t.w, cur.v, g),
               LowerFpMath(op, cur.t.w, FpBits, materialize_fp(Imm(g), cur.t.w)))

Splat(t, v) == [i \in Lanes(t) |-> v]

VSplat ==
  /\ IsInt /\ target = "aarch64" /\ cur.t.w \in {N, W}
  /\ LET t == VecTy(cur.t.w, IF cur.t.w = N THEN 4 ELSE 2)
     IN Produce(t, Splat(t, cur.v), LowerVSplat(t, cur.r))

\* The second vector counts its lanes, so that lanes differ; a shift's
\* amount is a splat.
VBin ==
  /\ cur.t.c = "vec"
  /\ \E kind \in BinaryKind \ Divisions :
       LET b == IF kind \in Shifts THEN Splat(cur.t, 1) ELSE [i \in Lanes(cur.t) |-> i]
       IN Produce(cur.t, [i \in Lanes(cur.t) |-> LlvmBinary(kind, cur.t.w, cur.v[i], b[i])],
                  LowerVBin(kind, cur.t, materialize_simd(cur.r), b))

VReduce ==
  /\ cur.t.c = "vec"
  /\ Produce(IntTy(cur.t.w), Wrap(MapThenSumSet(LAMBDA i : cur.v[i], Lanes(cur.t)), cur.t.w),
             LowerVReduce(cur.t, materialize_simd(cur.r)))

Next == \/ Binary \/ ICmp \/ ZExt \/ SExt \/ Trunc \/ PointerCast \/ Bitcast
        \/ IntToFp \/ FpToInt \/ FpCast \/ FNeg \/ FCmp \/ FloatBinary \/ FpMath
        \/ VSplat \/ VBin \/ VReduce

Spec == Init /\ [][Next]_vars

----------------------------------------------------------------------------

Word(r) == On(materialize(r), X86materialize(r))
Pair(r) == On(materialize_pair(r), X86materialize_pair(r))

\* "Registers hold values zero-extended to 64 bits": however a value was
\* computed and however it is represented, what its next use finds in the
\* register (in both registers, for 128 bits) is the value LLVM gives it.
RegistersHoldTheValue ==
  CASE cur.t.c = "int" /\ cur.t.w <= W -> Word(cur.r) = cur.v
    [] cur.t.c = "int" /\ cur.t.w > W  -> Pair(cur.r) = <<cur.v % 2^W, cur.v \div 2^W>>
    [] cur.t.c = "fp"  -> FpBits \in {cur.v, -1}
    [] cur.t.c = "vec" -> materialize_simd(cur.r) = cur.v
    [] OTHER -> TRUE     \* a call the importer expands: see Intrinsics

\* A conditional branch, whether it fuses the comparison or tests a
\* register, is taken exactly when its i1 condition is true.
BranchFollowsCondition ==
  cur.t = IntTy(1) => (On(CondBrTaken(cur.r), X86CondBrTaken(cur.r)) <=> cur.v = 1)
=============================================================================
