----------------------------- MODULE Intrinsics -----------------------------
(***************************************************************************)
(* The arithmetic the importer expands into dialect-mir operations         *)
(* (importer/arith.rs, importer/intrinsics.rs): overflow and saturation    *)
(* flags, 128-bit products and casts, counts, swaps and rotations of bits, *)
(* byte lanes, atomic updates and memory copies.                           *)
(*                                                                         *)
(* An operand of width w lives in a register of R bits (64 in the code),   *)
(* or in two of them when w = 2 * R (128).  Bytes keep their 8 bits: the   *)
(* operators on byte lanes take R a multiple of 8.  dialect-mir's own      *)
(* operations and the libcalls are external.                               *)
(***************************************************************************)
EXTENDS Selection

\* CastOp: a signed operand is sign-extended, any other zero-extended.
cast_value_to_type(v, w, signed, to) ==
  IF to > w /\ signed THEN Wrap(Signed(v, w), to) ELSE Wrap(v, to)

MaskOf(cond, w) == Wrap(-Bool(cond), w)           \* 0 - (cond as the type)
Complement(v, w) == v ^^ (2^w - 1)
Less(w, signed, a, b) == LlvmICmp(IF signed THEN "SLT" ELSE "ULT", w, a, b)

----------------------------------------------------------------------------
(* Overflow and saturation (arith.rs).                                     *)

\* The word whose sign bit says that a signed sum or difference overflowed.
OverflowSign(sum, a, b, wrapped) ==
  IF sum THEN (wrapped ^^ a) & (wrapped ^^ b) ELSE (a ^^ b) & (a ^^ wrapped)

WrappedSum(sum, w, a, b) == Wrap(IF sum THEN a + b ELSE a - b, w)

\* Mutant of lower_signed_saturating: saturates to the bound of the right operand's sign.
lower_signed_saturating_RightSign(sum, w, a, b) ==
  LET wrapped == WrappedSum(sum, w, a, b)
      overflow == LlvmBinary("AShr", w, OverflowSign(sum, a, b, wrapped), w - 1)
      saturated == LlvmBinary("AShr", w, b, w - 1) ^^ (SignBit(w) - 1)
  IN (wrapped & Complement(overflow, w)) | (saturated & overflow)

lower_signed_saturating(sum, w, a, b) ==
  LET wrapped == WrappedSum(sum, w, a, b)
      overflow == LlvmBinary("AShr", w, OverflowSign(sum, a, b, wrapped), w - 1)
      saturated == LlvmBinary("AShr", w, a, w - 1) ^^ (SignBit(w) - 1)
  IN (wrapped & Complement(overflow, w)) | (saturated & overflow)

unsigned_saturating(sum, w, a, b) ==
  LET wrapped == WrappedSum(sum, w, a, b)
  IN IF sum THEN wrapped | MaskOf(wrapped < a, w) ELSE wrapped & MaskOf(a >= b, w)

pack_overflow_result(wrapped, overflow) == <<wrapped, Bool(overflow)>>

emit_sign_mask128(w, v) == Wrap(-(v \div SignBit(w)), w)

\* The high half of a product of two w-bit values from products of halves.
emit_umulh128(w, a, b) ==
  LET h == 2^(w \div 2)
      crossA == (a \div h) * (b % h)
      crossB == (a % h) * (b \div h)
      carry == ((crossA % h) + (crossB % h) + (((a % h) * (b % h)) \div h)) \div h
  IN Wrap(((a \div h) * (b \div h)) + (crossA \div h) + (crossB \div h) + carry, w)

lower_signed_mul_overflow_128(w, a, b) ==
  LET wrapped == Wrap(a * b, w)
      high == Wrap(emit_umulh128(w, a, b) - (emit_sign_mask128(w, a) & b)
                                          - (emit_sign_mask128(w, b) & a), w)
  IN pack_overflow_result(wrapped, high # emit_sign_mask128(w, wrapped))

\* Up to 64 bits: multiply at double width, and narrow and widen again.
lower_signed_mul_overflow(R, w, a, b) ==
  LET wide == Wrap(cast_value_to_type(a, w, TRUE, 2 * w) * cast_value_to_type(b, w, TRUE, 2 * w), 2 * w)
      wrapped == cast_value_to_type(wide, 2 * w, TRUE, w)
  IN IF w = 2 * R THEN lower_signed_mul_overflow_128(w, a, b)
     ELSE pack_overflow_result(wrapped, wide # cast_value_to_type(wrapped, w, TRUE, 2 * w))

lower_unsigned_mul_overflow(R, w, a, b) ==
  LET wrapped == Wrap(a * b, w)
  IN IF w = 2 * R THEN pack_overflow_result(wrapped, emit_umulh128(w, a, b) # 0)
     ELSE pack_overflow_result(wrapped, Wrap(a * b, 2 * w) > 2^w - 1)

lower_signed_overflow_binary(R, op, w, a, b) ==
  LET sum == op = "Add"
      wrapped == WrappedSum(sum, w, a, b)
  IN IF op = "Mul" THEN lower_signed_mul_overflow(R, w, a, b)
     ELSE pack_overflow_result(wrapped, Signed(OverflowSign(sum, a, b, wrapped), w) < 0)

lower_unsigned_overflow_binary(R, op, w, a, b) ==
  LET wrapped == WrappedSum(op = "Add", w, a, b)
  IN IF op = "Mul" THEN lower_unsigned_mul_overflow(R, w, a, b)
     ELSE pack_overflow_result(wrapped, IF op = "Add" THEN wrapped < a ELSE a < b)

lower_overflow_binary(R, op, w, signed, a, b) ==
  IF signed THEN lower_signed_overflow_binary(R, op, w, a, b)
  ELSE lower_unsigned_overflow_binary(R, op, w, a, b)

\* Ordering's tag, a byte: (a > b) - (a < b).
lower_three_way_cmp(w, signed, a, b) ==
  Wrap(Bool(Less(w, signed, b, a)) - Bool(Less(w, signed, a, b)), 8)

\* Fat pointers are pairs <<data, metadata>> compared as unsigned words.
lower_fat_pointer_cmp(op, p, q) ==
  LET Cmp(k, x, y) == Bool(LlvmICmp(k, W, x, y))
      strict == IF op \in {"ULT", "ULE"} THEN "ULT" ELSE "UGT"
  IN CASE op = "EQ" -> Cmp("EQ", p[1], q[1]) & Cmp("EQ", p[2], q[2])
       [] op = "NE" -> Cmp("NE", p[1], q[1]) | Cmp("NE", p[2], q[2])
       [] OTHER -> Cmp(strict, p[1], q[1]) | (Cmp("EQ", p[1], q[1]) & Cmp(op, p[2], q[2]))

----------------------------------------------------------------------------
(* 128-bit division and casts go through compiler-rt.                      *)

Libcall(name, w, a, b) ==
  CASE name = "__divti3"  -> LlvmBinary("SDiv", w, a, b)
    [] name = "__udivti3" -> LlvmBinary("UDiv", w, a, b)
    [] name = "__modti3"  -> LlvmBinary("SRem", w, a, b)
    [] name = "__umodti3" -> LlvmBinary("URem", w, a, b)

lower_i128_divrem(op, w, signed, a, b) ==
  Libcall(CASE op = "Div" /\ signed -> "__divti3"
            [] op = "Div" /\ ~signed -> "__udivti3"
            [] op = "Rem" /\ signed -> "__modti3"
            [] op = "Rem" /\ ~signed -> "__umodti3", w, a, b)

\* What __fixdfti and its family return: the truncated value when it fits w
\* bits, anything when it does not.
FixResults(fw, w, signed, f) ==
  LET x == Quot(Halves(f, fw), 2)
  IN IF ~IsNaN(f, fw) /\ x \in (IF signed THEN -SignBit(w) .. SignBit(w) - 1 ELSE 0 .. 2^w - 1)
     THEN {Wrap(x, w)} ELSE 0 .. 2^w - 1

\* The clamp around the libcall's raw result: masks from ordered compares.
Saturated(w, raw, high_sat, high, low, keep) ==
  ((((raw & Complement(high, w)) & Complement(low, w)) | (SignBit(w) & low)) | (high_sat & high)) & keep
FMask(pred, fw, f, g, w) == MaskOf(LlvmFCmp(pred, fw, f, g), w)
lower_float_to_i128_sat(fw, w, signed, f, raw) ==
  Saturated(w, raw, IF signed THEN SignBit(w) - 1 ELSE 2^w - 1,
            FMask("OGE", fw, f, Float(IF signed THEN 2 * SignBit(w) ELSE 2 * 2^w, fw), w),
            IF signed THEN FMask("OLT", fw, f, Float(-2 * SignBit(w), fw), w) ELSE 0,
            FMask(IF signed THEN "OEQ" ELSE "OGT", fw, f, IF signed THEN f ELSE Float(-2, fw), w))

----------------------------------------------------------------------------
(* Bits (intrinsics.rs): R is a multiple of 8.                             *)

Repeat(byte, R) == byte * ((2^R - 1) \div 255)       \* 0x0101... times the byte
widen_to_u64(R, v, w, signed) == cast_value_to_type(v, w, signed, R)
split_u128_halves(R, v) == <<v % 2^R, v \div 2^R>>
join_u128_halves(R, lo, hi) == (hi * 2^R) + lo

emit_popcount64(R, v) ==
  LET x == v - ((v \div 2) & Repeat(85, R))
      y == (x & Repeat(51, R)) + ((x \div 4) & Repeat(51, R))
      nibbles == (y + (y \div 16)) & Repeat(15, R)
  IN Wrap(nibbles * Repeat(1, R), R) \div 2^(R - 8)

emit_cttz64(R, v, w) ==
  emit_popcount64(R, Wrap((v & Wrap(-v, R)) - 1, R) & (2^w - 1))

emit_cttz128(R, v) ==
  LET s == split_u128_halves(R, v)
  IN emit_cttz64(R, s[1], R) + (MaskOf(s[1] = 0, R) & emit_cttz64(R, s[2], R))

\* Align the top bit, smear the highest one to the right, count what is left.
Smear(v, n) == v | (v \div 2^n)
emit_ctlz64(R, v, w) ==
  LET up == Wrap(v * 2^(R - w), R)
      bytes == Smear(Smear(Smear(up, 1), 2), 4)
  IN emit_popcount64(R, Complement(IF R > 8 THEN Smear(bytes, 8) ELSE bytes, R))

emit_ctlz128(R, v) ==
  LET s == split_u128_halves(R, v)
  IN emit_ctlz64(R, s[2], R) + (MaskOf(s[2] = 0, R) & emit_ctlz64(R, s[1], R))

\* Lane i of w / 8 moves to lane w / 8 - 1 - i; the lanes do not overlap.
emit_bswap64(R, v, w) ==
  LET lanes == w \div 8
  IN MapThenSumSet(LAMBDA i : ((v \div 2^(8 * i)) & 255) * 2^(8 * (lanes - 1 - i)), 0 .. (lanes - 1))

SwapGroups(R, v, byte, n) ==
  ((v \div 2^n) & Repeat(byte, R)) | Wrap((v & Repeat(byte, R)) * 2^n, R)
emit_bitreverse64(R, v, w) ==
  LET bytes == SwapGroups(R, SwapGroups(R, SwapGroups(R, v, 85, 1), 51, 2), 15, 4)
  IN emit_bswap64(R, bytes, R) \div 2^(R - w)

ctpop(R, w, signed, a) ==
  LET s == split_u128_halves(R, a)
  IN IF w = 2 * R THEN emit_popcount64(R, s[1]) + emit_popcount64(R, s[2])
     ELSE emit_popcount64(R, widen_to_u64(R, a, w, signed))
cttz(R, w, signed, a) ==
  IF w = 2 * R THEN emit_cttz128(R, a) ELSE emit_cttz64(R, widen_to_u64(R, a, w, signed), w)
ctlz(R, w, signed, a) ==
  IF w = 2 * R THEN emit_ctlz128(R, a) ELSE emit_ctlz64(R, widen_to_u64(R, a, w, signed), w)

\* The result is cast to the destination's type, of the operand's width.
bswap(R, w, signed, a) ==
  LET s == split_u128_halves(R, a)
      x == widen_to_u64(R, a, w, signed)
  IN IF w = 2 * R THEN join_u128_halves(R, emit_bswap64(R, s[2], R), emit_bswap64(R, s[1], R))
     ELSE cast_value_to_type(IF w = 8 THEN x ELSE emit_bswap64(R, x, w), R, FALSE, w)
bitreverse(R, w, signed, a) ==
  LET s == split_u128_halves(R, a)
  IN IF w = 2 * R
     THEN join_u128_halves(R, emit_bitreverse64(R, s[2], R), emit_bitreverse64(R, s[1], R))
     ELSE cast_value_to_type(emit_bitreverse64(R, widen_to_u64(R, a, w, signed), w), R, FALSE, w)

\* Shifts by k and by (w - k) mod w, at the width of the register (pair).
rotate(R, w, signed, left, a, n) ==
  LET reg == IF w = 2 * R THEN w ELSE R
      x == cast_value_to_type(a, w, signed, reg) & (2^w - 1)
      k == n & (w - 1)
      inv == (w - k) & (w - 1)
  IN (LlvmBinary("Shl", reg, x, IF left THEN k ELSE inv)
      | LlvmBinary("Shr", reg, x, IF left THEN inv ELSE k)) & (2^w - 1)

----------------------------------------------------------------------------
(* Byte lanes of a 64-bit vector (the simd_ intrinsics).                   *)

simd_splat(R, lane) == Wrap((lane & 255) * Repeat(1, R), R)

\* The zero-byte trick on the exclusive or, each mark smeared over its lane.
simd_eq(R, a, b) ==
  LET t == a ^^ b
      mark == (Wrap(t - Repeat(1, R), R) & Complement(t, R)) & Repeat(128, R)
  IN Smear(Smear(Smear(mark, 1), 2), 4)

\* One signed byte at a time.
simd_compare(R, lt, a, b) ==
  LET Lane(v, i) == cast_value_to_type(v \div 2^(8 * i), R, FALSE, 8)
      cond(i) == LlvmICmp(IF lt THEN "SLT" ELSE "SGE", 8, Lane(a, i), Lane(b, i))
  IN MapThenSumSet(LAMBDA i : (MaskOf(cond(i), R) & 255) * 2^(8 * i), 0 .. ((R \div 8) - 1))

----------------------------------------------------------------------------
(* Memory: the outline atomics, pointer distances, copies.                 *)

\* The aarch64 helpers, which return the old value of the cell they update.
OutlineAtomic(helper, w, cell, v) ==
  CASE helper = "ldadd" -> <<cell, Wrap(cell + v, w)>>
    [] helper = "ldclr" -> <<cell, cell & Complement(v, w)>>
    [] helper = "ldset" -> <<cell, cell | v>>
    [] helper = "ldeor" -> <<cell, cell ^^ v>>
    [] helper = "swp"   -> <<cell, v>>
Cas(cell, expected, desired) == <<cell, IF cell = expected THEN desired ELSE cell>>

\* The old value and the cell.
atomic_rmw(name, w, cell, v) ==
  CASE name = "atomic_xadd" -> OutlineAtomic("ldadd", w, cell, v)
    [] name = "atomic_xsub" -> OutlineAtomic("ldadd", w, cell, Wrap(-v, w))
    [] name = "atomic_and"  -> OutlineAtomic("ldclr", w, cell, Complement(v, w))
    [] name = "atomic_or"   -> OutlineAtomic("ldset", w, cell, v)
    [] name = "atomic_xor"  -> OutlineAtomic("ldeor", w, cell, v)
atomic_xchg(w, cell, v) == OutlineAtomic("swp", w, cell, v)

\* The old value, whether it was the expected one, and the cell.
atomic_cxchg(cell, expected, desired) ==
  LET r == Cas(cell, expected, desired) IN <<r[1], Bool(r[1] = expected), r[2]>>

scale_index(w, index, size) == Wrap(index * size, w)

\* The distance is divided as a usize.
ptr_offset_from(w, p, q, size) ==
  LET diff == Wrap(p - q, w) IN IF size > 1 THEN diff \div size ELSE diff

\* memcpy and memmove on a sequence of bytes addressed from 1.
Memcpy(m, dst, src, n) ==
  [i \in DOMAIN m |-> IF i \in dst .. (dst + n - 1) THEN m[src + i - dst] ELSE m[i]]

copy(m, src, dst, count, size) == Memcpy(m, dst, src, scale_index(W, count, size))

\* Three copies through a stack temporary behind the memory.
typed_swap_nonoverlapping(m, x, y, size) ==
  LET temp == Len(m) + 1
      m0 == m \o [i \in 1 .. size |-> 0]
      m3 == Memcpy(Memcpy(Memcpy(m0, temp, x, size), x, y, size), y, temp, size)
  IN IF size = 0 THEN m ELSE SubSeq(m3, 1, Len(m))

---------------------------------------------------------------------------
(***************************************************************************)
(* Rust operations and intrinsic calls on their way through the importer,  *)
(* next to the chains of LLVM operations of Selection.  A call starts with *)
(* its operands; the importer's expansion computes a value, which is kept  *)
(* with the value Rust gives the call.                                     *)
(***************************************************************************)
CONSTANTS WordCalls,      \* operands of calls at widths up to 2 * W
          ByteCalls,      \* operands of calls on registers of whole bytes
          FloatCalls,     \* floats that are cast to a "128-bit" integer
          MemoryBytes,    \* a memory, as a sequence of bytes
          NarrowZero,     \* whether the leading zeros of a narrow 0 are counted
          BorrowingLanes  \* whether compared vectors may differ by one bit
                          \* in a lane above an equal lane

\* Operands <<a, b>> of width w, signed or not, in registers of R bits.
CallTy(R, w, signed) == [c |-> "call", R |-> R, w |-> w, s |-> signed]
Start(ty, args) == [t |-> ty, v |-> args, r |-> Undef]

InitCall ==
  /\ target = "aarch64"
  /\ \E call \in WordCalls \union ByteCalls :
       \E signed \in BOOLEAN : cur = Start(CallTy(call.R, call.w, signed), call.args)
InitFloat ==
  /\ target = "aarch64"
  /\ \E call \in FloatCalls : cur = Start([c |-> "float", R |-> call.R, w |-> call.w], call.f)
InitMemory ==
  /\ target = "aarch64"
  /\ cur = Start([c |-> "memory", w |-> 8], MemoryBytes)

CallInit == Init \/ InitCall \/ InitFloat \/ InitMemory

\* The expansion gives `lowered` where Rust gives `rust`.
Answer(rust, lowered) ==
  /\ cur' = [t |-> [c |-> "rust", w |-> 0], v |-> rust, r |-> lowered]
  /\ UNCHANGED target

IsCall == cur.t.c = "call"
A == cur.v[1]
B == cur.v[2]
width == cur.t.w
reg == cur.t.R
signed == cur.t.s
WordSized == IsCall /\ reg = W
ByteSized == IsCall /\ reg % 8 = 0

----------------------------------------------------------------------------
(* Rust's meaning of the operations, over integers and over sets of bits.  *)

RustInt(v) == IF signed THEN Signed(v, width) ELSE v
Lowest == IF signed THEN -SignBit(width) ELSE 0
Highest == IF signed THEN SignBit(width) - 1 ELSE 2^width - 1
Exact(op) ==
  CASE op = "Add" -> RustInt(A) + RustInt(B)
    [] op = "Sub" -> RustInt(A) - RustInt(B)
    [] op = "Mul" -> RustInt(A) * RustInt(B)
Clamp(v) == IF v < Lowest THEN Lowest ELSE IF v > Highest THEN Highest ELSE v

BitsOf(v) == {i \in 0 .. (width - 1) : (v \div 2^i) % 2 = 1}
FromBits(S) == MapThenSumSet(LAMBDA i : 2^i, S)
ByteAt(v, i) == (v \div 2^(8 * i)) % 256
FromBytes(f(_)) == MapThenSumSet(LAMBDA i : f(i) * 2^(8 * i), 0 .. ((width \div 8) - 1))

----------------------------------------------------------------------------
(* One action per operation.                                               *)

WithOverflow ==
  /\ WordSized
  /\ \E op \in {"Add", "Sub", "Mul"} :
       Answer(<<Wrap(Exact(op), width), Bool(Exact(op) \notin Lowest .. Highest)>>,
              lower_overflow_binary(reg, op, width, signed, A, B))

Saturating ==
  /\ WordSized
  /\ \E sum \in BOOLEAN :
       Answer(Wrap(Clamp(Exact(IF sum THEN "Add" ELSE "Sub")), width),
              IF signed THEN lower_signed_saturating(sum, width, A, B)
              ELSE unsigned_saturating(sum, width, A, B))

ThreeWayCompare ==
  /\ WordSized
  /\ Answer(CASE RustInt(A) < RustInt(B) -> 255 [] A = B -> 0 [] RustInt(A) > RustInt(B) -> 1,
            lower_three_way_cmp(width, signed, A, B))

\* Both operands are read as fat pointers, of a data and a metadata word.
FatPointerCompare ==
  /\ WordSized /\ width = 2 * W /\ ~signed
  /\ \E op \in {"EQ", "NE", "ULT", "ULE", "UGT", "UGE"} :
       LET p == <<A \div 2^W, A % 2^W>>
           q == <<B \div 2^W, B % 2^W>>
       IN Answer(Bool(LlvmICmp(op, 2 * W, A, B)), lower_fat_pointer_cmp(op, p, q))

\* Also exact_div, whose remainder is zero.
WideDivision ==
  /\ WordSized /\ width = 2 * W
  /\ B # 0 /\ ~(signed /\ A = SignBit(width) /\ B = 2^width - 1)
  /\ \/ Answer(Wrap(Quot(RustInt(A), RustInt(B)), width),
               lower_i128_divrem("Div", width, signed, A, B))
     \/ Answer(Wrap(Rem(RustInt(A), RustInt(B)), width),
               lower_i128_divrem("Rem", width, signed, A, B))

FloatToWide ==
  /\ cur.t.c = "float"
  /\ \E s \in BOOLEAN : \E raw \in FixResults(cur.t.R, cur.t.w, s, cur.v) :
       Answer(SaturatingToInt(cur.v, cur.t.R, cur.t.w, s),
              lower_float_to_i128_sat(cur.t.R, cur.t.w, s, cur.v, raw))

Rotate ==
  /\ IsCall
  /\ \E left \in BOOLEAN, n \in {0, 1, width - 1, width, width + 1} :
       Answer(FromBits({(i + (IF left THEN n ELSE width * 2 - n)) % width : i \in BitsOf(A)}),
              rotate(reg, width, signed, left, A, n))

CountBits ==
  /\ ByteSized /\ A = B
  \* std counts the ones of a narrow signed value through its unsigned type
  /\ \/ (signed => width >= reg)
        /\ Answer(Cardinality(BitsOf(A)), ctpop(reg, width, signed, A))
     \/ Answer(Min(BitsOf(A) \union {width}), cttz(reg, width, signed, A))
     \/ (A = 0 /\ width < reg => NarrowZero)    \* see the finding
        /\ Answer(width - 1 - Max(BitsOf(A) \union {-1}), ctlz(reg, width, signed, A))

Reverse ==
  /\ ByteSized /\ A = B
  /\ \/ Answer(FromBytes(LAMBDA i : ByteAt(A, (width \div 8) - 1 - i)), bswap(reg, width, signed, A))
     \/ Answer(FromBits({width - 1 - i : i \in BitsOf(A)}), bitreverse(reg, width, signed, A))

\* Vectors fill the register.
LaneOps ==
  /\ ByteSized /\ width = reg /\ signed
  /\ \/ A = B /\ Answer(FromBytes(LAMBDA i : ByteAt(A, 0)), simd_splat(reg, ByteAt(A, 0)))
     \/ \E lt \in BOOLEAN :
          Answer(FromBytes(LAMBDA i :
                   IF (Signed(ByteAt(A, i), 8) < Signed(ByteAt(B, i), 8)) = lt THEN 255 ELSE 0),
                 simd_compare(reg, lt, A, B))

\* simd_eq borrows into the next lane: see the finding.
Borrows == \E i \in 1 .. ((width \div 8) - 1) : ByteAt(A, i - 1) = ByteAt(B, i - 1) /\ (ByteAt(A, i) ^^ ByteAt(B, i)) = 1
LaneEquality ==
  /\ ByteSized /\ width = reg /\ signed
  /\ Borrows => BorrowingLanes
  /\ Answer(FromBytes(LAMBDA i : IF ByteAt(A, i) = ByteAt(B, i) THEN 255 ELSE 0), simd_eq(reg, A, B))

\* A is the cell, B the operand: the old value is returned.
AtomicUpdate ==
  /\ WordSized /\ width <= W
  /\ \/ Answer(<<A, Wrap(A + B, width)>>, atomic_rmw("atomic_xadd", width, A, B))
     \/ Answer(<<A, Wrap(A - B, width)>>, atomic_rmw("atomic_xsub", width, A, B))
     \/ Answer(<<A, FromBits(BitsOf(A) \intersect BitsOf(B))>>, atomic_rmw("atomic_and", width, A, B))
     \/ Answer(<<A, FromBits(BitsOf(A) \union BitsOf(B))>>, atomic_rmw("atomic_or", width, A, B))
     \/ Answer(<<A, FromBits((BitsOf(A) \union BitsOf(B)) \ (BitsOf(A) \intersect BitsOf(B)))>>,
               atomic_rmw("atomic_xor", width, A, B))
     \/ Answer(<<A, B>>, atomic_xchg(width, A, B))
     \/ Answer(<<A, Bool(A = B), IF A = B THEN Highest ELSE A>>, atomic_cxchg(A, B, Highest))

\* Addresses in one allocation.  Bound: a negative distance only in bytes.
PointerDistance ==
  /\ WordSized /\ width = W
  /\ \E size \in {1, 2, 4} :
       /\ (A - B) % size = 0
       /\ A >= B \/ size = 1
       /\ Answer(Wrap(Quot(A - B, size), W), ptr_offset_from(W, A, B, size))

\* copy allows overlap; the swap's operands do not overlap.
MoveBytes ==
  /\ cur.t.c = "memory"
  /\ LET m == cur.v IN
     \/ \E src, dst \in 1 .. Len(m), count \in 0 .. 2, size \in {1, 2} :
          /\ src + count * size <= Len(m) + 1 /\ dst + count * size <= Len(m) + 1
          /\ Answer(SubSeq(m, 1, dst - 1) \o SubSeq(m, src, src + (count * size) - 1)
                    \o SubSeq(m, dst + (count * size), Len(m)),
                    copy(m, src, dst, count, size))
     \/ \E x, y \in 1 .. Len(m), size \in 0 .. 2 :
          /\ x + size <= y /\ y + size <= Len(m) + 1
          /\ Answer(SubSeq(m, 1, x - 1) \o SubSeq(m, y, y + size - 1) \o SubSeq(m, x + size, y - 1)
                    \o SubSeq(m, x, x + size - 1) \o SubSeq(m, y + size, Len(m)),
                    typed_swap_nonoverlapping(m, x, y, size))

Call == \/ WithOverflow \/ Saturating \/ ThreeWayCompare \/ FatPointerCompare \/ WideDivision
        \/ FloatToWide \/ Rotate \/ CountBits \/ Reverse \/ LaneOps \/ LaneEquality
        \/ AtomicUpdate \/ PointerDistance \/ MoveBytes

----------------------------------------------------------------------------

\* Every operation and intrinsic the importer expands itself answers what
\* Rust specifies: the wrapped value with its overflow flag, the saturated
\* one, the count for a zero operand, the bytes of both halves of a 128-bit
\* value, MIN, MAX or 0 for a float out of range whatever the libcall
\* returned (arith.rs, intrinsics.rs).
ExpansionsMeanRust == cur.t.c = "rust" => cur.r = cur.v
=============================================================================
