------------------------------- MODULE Words -------------------------------
(***************************************************************************)
(* Machine words, the integer and floating-point meaning of the LLVM       *)
(* dialect's operations, and the instructions instruction selection uses.  *)
(* Everything here is the environment of the selector (the LLVM language   *)
(* and the processors), stated independently of the lowering.              *)
(*                                                                         *)
(* A word has W bits (64 in the code).  Every operation the selector emits *)
(* is parametric in that width, so W = 4 keeps each boundary: the sign     *)
(* bit, the wrap, a shift by the width, four immediate chunks of W / 4.    *)
(***************************************************************************)
EXTENDS Integers, Sequences, Bitwise

CONSTANTS W,     \* bits of a register (64); four chunks of W / 4 bits
          N      \* bits of the narrow integer and of f32 (32), 1 < N < W

Wrap(v, w) == v % 2^w
Signed(v, w) == IF v >= 2^(w - 1) THEN v - 2^w ELSE v
SignBit(w) == 2^(w - 1)
Bool(b) == IF b THEN 1 ELSE 0

\* Division rounds toward zero, and the remainder takes the dividend's sign.
Abs(a) == IF a < 0 THEN -a ELSE a
Quot(a, b) == LET q == Abs(a) \div Abs(b) IN IF (a < 0) = (b < 0) THEN q ELSE -q
Rem(a, b) == a - b * Quot(a, b)
FloorShift(a, n) == a \div 2^n     \* arithmetic shift of a signed integer

----------------------------------------------------------------------------
(* The LLVM dialect's meaning of an integer operation on w-bit values.     *)

BinaryKind == {"Add", "Sub", "Mul", "SDiv", "UDiv", "SRem", "URem",
               "And", "Or", "Xor", "Shl", "Shr", "AShr"}
Divisions == {"SDiv", "UDiv", "SRem", "URem"}
Shifts == {"Shl", "Shr", "AShr"}

\* The operands for which the operation has no defined result.
Poison(kind, w, a, b) ==
  \/ kind \in Divisions /\ b = 0
  \/ kind \in {"SDiv", "SRem"} /\ a = SignBit(w) /\ b = 2^w - 1
  \/ kind \in Shifts /\ b >= w

LlvmBinary(kind, w, a, b) ==
  CASE kind = "Add"  -> Wrap(a + b, w)
    [] kind = "Sub"  -> Wrap(a - b, w)
    [] kind = "Mul"  -> Wrap(a * b, w)
    [] kind = "SDiv" -> Wrap(Quot(Signed(a, w), Signed(b, w)), w)
    [] kind = "UDiv" -> a \div b
    [] kind = "SRem" -> Wrap(Rem(Signed(a, w), Signed(b, w)), w)
    [] kind = "URem" -> a % b
    [] kind = "And"  -> a & b
    [] kind = "Or"   -> a | b
    [] kind = "Xor"  -> a ^^ b
    [] kind = "Shl"  -> Wrap(a * 2^b, w)
    [] kind = "Shr"  -> a \div 2^b
    [] kind = "AShr" -> Wrap(FloorShift(Signed(a, w), b), w)

ICmpPredicate == {"EQ", "NE", "ULT", "ULE", "UGT", "UGE", "SLT", "SLE", "SGT", "SGE"}

LlvmICmp(pred, w, a, b) ==
  LET s == Signed(a, w)
      t == Signed(b, w)
  IN CASE pred = "EQ"  -> a = b
       [] pred = "NE"  -> a # b
       [] pred = "ULT" -> a < b
       [] pred = "ULE" -> a <= b
       [] pred = "UGT" -> a > b
       [] pred = "UGE" -> a >= b
       [] pred = "SLT" -> s < t
       [] pred = "SLE" -> s <= t
       [] pred = "SGT" -> s > t
       [] pred = "SGE" -> s >= t

----------------------------------------------------------------------------
(* A tiny float of w bits: a sign and w - 1 bits that count halves; the    *)
(* two largest magnitudes are infinity and NaN.                            *)

Magnitude(f, w) == f % SignBit(w)
IsNaN(f, w) == Magnitude(f, w) = SignBit(w) - 1
IsInf(f, w) == Magnitude(f, w) = SignBit(w) - 2
MaxHalves(w) == SignBit(w) - 3
\* Twice the number, infinity being any larger integer.
Halves(f, w) ==
  LET m == IF IsInf(f, w) THEN 2^(2 * W) ELSE Magnitude(f, w)
  IN IF f >= SignBit(w) THEN -m ELSE m
NaN(w) == SignBit(w) - 1
\* The nearest float of w bits to h halves (overflow goes to infinity).
Float(h, w) ==
  LET m == IF Abs(h) > MaxHalves(w) THEN SignBit(w) - 2 ELSE Abs(h)
  IN IF h < 0 THEN SignBit(w) + m ELSE m

\* The two float formats are an N-bit and a W-bit one.
Convert(f, from, to) == IF IsNaN(f, from) THEN NaN(to) ELSE Float(Halves(f, from), to)
Negate(f, w) == (f + SignBit(w)) % 2^w

FCmpPredicate == {"False", "True", "OEQ", "OGT", "OGE", "OLT", "OLE", "ONE", "ORD",
                  "UEQ", "UGT", "UGE", "ULT", "ULE", "UNE", "UNO"}

LlvmFCmp(pred, w, f, g) ==
  LET u == IsNaN(f, w) \/ IsNaN(g, w)
      a == Halves(f, w)
      b == Halves(g, w)
  IN CASE pred = "False" -> FALSE
       [] pred = "True"  -> TRUE
       [] pred = "OEQ" -> ~u /\ a = b
       [] pred = "OGT" -> ~u /\ a > b
       [] pred = "OGE" -> ~u /\ a >= b
       [] pred = "OLT" -> ~u /\ a < b
       [] pred = "OLE" -> ~u /\ a <= b
       [] pred = "ONE" -> ~u /\ a # b
       [] pred = "ORD" -> ~u
       [] pred = "UEQ" -> u \/ a = b
       [] pred = "UGT" -> u \/ a > b
       [] pred = "UGE" -> u \/ a >= b
       [] pred = "ULT" -> u \/ a < b
       [] pred = "ULE" -> u \/ a <= b
       [] pred = "UNE" -> u \/ a # b
       [] pred = "UNO" -> u

\* Rust's `as`: toward zero, saturating at the bounds of w bits, NaN to 0.
SaturatingToInt(f, fw, w, signed) ==
  LET lo == IF signed THEN -(2^(w - 1)) ELSE 0
      hi == IF signed THEN 2^(w - 1) - 1 ELSE 2^w - 1
      x  == Quot(Halves(f, fw), 2)
  IN IF IsNaN(f, fw) THEN 0
     ELSE Wrap(IF x < lo THEN lo ELSE IF x > hi THEN hi ELSE x, w)

\* Rust's rounding family on a number of halves.
Floor2(h) == 2 * (h \div 2)
RustMath(op, h) ==
  CASE op = "floor" -> Floor2(h)
    [] op = "ceil"  -> -Floor2(-h)
    [] op = "trunc" -> 2 * Quot(h, 2)
    [] op = "round" -> IF h < 0 THEN -Floor2(1 - h) ELSE Floor2(h + 1)   \* half away from zero
    [] op = "rint"  -> LET down == Floor2(h) IN
                       IF h = down THEN h ELSE IF down % 4 = 0 THEN down ELSE down + 2
    [] op = "fabs"  -> Abs(h)

\* Rust's min/max drop a NaN operand, minimum/maximum return it.
RustMinMax(op, w, f, g) ==
  LET less == IF Halves(f, w) <= Halves(g, w) THEN f ELSE g
      more == IF Halves(f, w) <= Halves(g, w) THEN g ELSE f
      pick == IF op \in {"minnum", "minimum"} THEN less ELSE more
  IN CASE IsNaN(f, w) /\ IsNaN(g, w) -> NaN(w)
       [] IsNaN(f, w) /\ ~IsNaN(g, w) -> IF op \in {"minnum", "maxnum"} THEN g ELSE NaN(w)
       [] IsNaN(g, w) /\ ~IsNaN(f, w) -> IF op \in {"minnum", "maxnum"} THEN f ELSE NaN(w)
       [] OTHER -> pick

FloatKind == {"Add", "Sub", "Rem"}
LlvmFloat(kind, w, f, g) ==
  LET a == Halves(f, w)
      b == Halves(g, w)
  IN IF IsNaN(f, w) \/ IsNaN(g, w) \/ (kind = "Rem" /\ b = 0) THEN NaN(w)
     ELSE Float(CASE kind = "Add" -> a + b
                  [] kind = "Sub" -> a - b
                  [] kind = "Rem" -> Rem(a, b), w)

----------------------------------------------------------------------------
(* The processors' instructions on W-bit registers.                        *)

add(a, b) == Wrap(a + b, W)
sub(a, b) == Wrap(a - b, W)
mul(a, b) == Wrap(a * b, W)
umulh(a, b) == (a * b) \div 2^W
and(a, b) == a & b
or(a, b) == a | b
xor(a, b) == a ^^ b
\* Variable shifts use the amount modulo the word width.
shl(a, n) == Wrap(a * 2^(n % W), W)
lsr(a, n) == a \div 2^(n % W)
asr(a, n) == Wrap(FloorShift(Signed(a, W), n % W), W)
udiv(a, b) == IF b = 0 THEN 0 ELSE a \div b
sdiv(a, b) == IF b = 0 THEN 0 ELSE Wrap(Quot(Signed(a, W), Signed(b, W)), W)

\* What `cset cond` yields after `cmp a, b`.
cset(cond, a, b) ==
  LET s == Signed(a, W)
      t == Signed(b, W)
  IN Bool(CASE cond = "Eq" -> a = b
            [] cond = "Ne" -> a # b
            [] cond = "Lo" -> a < b
            [] cond = "Hs" -> a >= b
            [] cond = "Ls" -> a <= b
            [] cond = "Hi" -> a > b
            [] cond = "Lt" -> s < t
            [] cond = "Ge" -> s >= t
            [] cond = "Le" -> s <= t
            [] cond = "Gt" -> s > t)

\* The flags aarch64 `fcmp` sets, an unordered comparison giving 0011, and
\* what a condition code then tests.
FcmpFlags(f, g, w) ==
  LET a == Halves(f, w)
      b == Halves(g, w)
  IN CASE IsNaN(f, w) \/ IsNaN(g, w) -> [n |-> FALSE, z |-> FALSE, c |-> TRUE,  v |-> TRUE]
       [] OTHER -> [n |-> a < b, z |-> a = b, c |-> a >= b, v |-> FALSE]
csetf(cond, fl) ==
  Bool(CASE cond = "Eq" -> fl.z
         [] cond = "Ne" -> ~fl.z
         [] cond = "Mi" -> fl.n
         [] cond = "Pl" -> ~fl.n
         [] cond = "Vs" -> fl.v
         [] cond = "Vc" -> ~fl.v
         [] cond = "Hi" -> fl.c /\ ~fl.z
         [] cond = "Ls" -> ~fl.c \/ fl.z
         [] cond = "Ge" -> fl.n = fl.v
         [] cond = "Lt" -> fl.n # fl.v
         [] cond = "Gt" -> ~fl.z /\ fl.n = fl.v
         [] cond = "Le" -> fl.z \/ fl.n # fl.v)

\* The rounding and min/max instructions, by the Rust operation each computes.
FpInstruction ==
  [frintm |-> "floor", frintp |-> "ceil", frintz |-> "trunc", frinta |-> "round",
   frintn |-> "rint", fabs |-> "fabs", fminnm |-> "minnum", fmaxnm |-> "maxnum",
   fmin |-> "minimum", fmax |-> "maximum"]
=============================================================================
