----------------------------- MODULE MCLowering -----------------------------
(***************************************************************************)
(* Lowering to machine values, one side per behaviour: the memory and      *)
(* calling conventions of MemoryAbi, or chains of operations and calls     *)
(* on integers, floats and vectors.  There, words have 4 bits for 64, a    *)
(* narrow width 3 for 32, and pairs 8 for 128: first operands range over   *)
(* every value a chain reaches.                                            *)
(***************************************************************************)
EXTENDS MemoryAbi

(***************************************************************************)
(* Types chosen for their layouts: padding in the middle and at the end,   *)
(* fields rustc reorders, empty fields, wrappers, arrays whose stride is   *)
(* not a power of two, one- and two-register and in-memory aggregates, and *)
(* blobs of every alignment.                                               *)
(***************************************************************************)
I8 == RInt(8)
I16 == RInt(16)
I32 == RInt(32)
I64 == RInt(64)
F32 == RFloat(4)
F64 == RFloat(8)
Pad == RStruct(<<I8, I32>>, <<2, 1>>)
InOrder == RStruct(<<I8, I32>>, <<1, 2>>)
Small == RStruct(<<I8, RBool>>, <<1, 2>>)
Nested == RStruct(<<Small, I32>>, <<2, 1>>)
Pair == RStruct(<<I64, I8>>, <<1, 2>>)
Newtype == RStruct(<<I64>>, <<1>>)
Wrapped == RStruct(<<Newtype>>, <<1>>)
Marked == RStruct(<<RUnit, I64, I16>>, <<1, 2, 3>>)
Floats == RStruct(<<F32, F32>>, <<1, 2>>)
Mixed == RStruct(<<F64, I32>>, <<1, 2>>)
Bytes3 == RArray(I8, 3)
Halves == RArray(I16, 2)
Strided == RArray(Pad, 2)
Big == RArray(I64, 3)
Holder == RStruct(<<Bytes3, I32>>, <<2, 1>>)
View == RStruct(<<RFat, I8>>, <<1, 2>>)
WideBox == RStruct(<<RInt(128)>>, <<1>>)
Word == RUnion(<<I32, Halves>>)
Opt == REnum(16, 8)
Opt32 == REnum(8, 4)
Flag == REnum(1, 1)
Tagged == RStruct(<<Opt32, I8>>, <<1, 2>>)

TypeUniverse ==
  {RBool, I8, I16, I32, I64, RInt(128), F32, F64, RRef, RFat, RUnit, Pad, InOrder, Small, Nested, Pair,
   Newtype, Wrapped, Marked, Floats, Mixed, Bytes3, Halves, Strided, Big, Holder, View, WideBox, Word,
   Opt, Opt32, Flag, Tagged}

TransmutePairs ==
  {<<Halves, Word>>, <<Word, Halves>>, <<I32, Halves>>, <<Big, RArray(RRef, 3)>>, <<Opt, RFat>>, <<RFat, Opt>>,
   <<I64, Newtype>>, <<Floats, I64>>, <<Flag, I8>>}

NoFloatResult == {t \in TypeUniverse : ~HasFloat(C(t))}

\* Option<&T>, Option<bool>, an enum whose niche wraps to zero, one whose
\* untagged variant lies among the niche variants, and C-like enums.
Niche(bits, first, last, start, untagged) ==
  [direct |-> FALSE, tagBits |-> bits, first |-> first, last |-> last, start |-> start, untagged |-> untagged,
   variants |-> first .. last \union {untagged}]
Direct(bits, ds) ==
  [direct |-> TRUE, tagBits |-> bits, discr |-> ds, variants |-> DOMAIN ds]
NicheRanges == {p \in (0 .. 2) \X (1 .. 3) \X (0 .. 7) \X (0 .. 3) : p[1] <= p[2]}
EncodingUniverse ==
  {Niche(3, p[1], p[2], p[3], p[4]) : p \in NicheRanges}
  \union {Niche(2, p[1], p[2], p[3], p[4]) : p \in {q \in NicheRanges : q[3] < 4 /\ q[2] - q[1] < 3}}
  \union {Direct(2, <<0, 1, 3>>), Direct(3, <<7, 2>>)}

---------------------------------------------------------------------------
CONSTANTS NarrowZero,     \* whether the leading zeros of a narrow 0 are counted
          BorrowingLanes, \* whether compared vectors may differ by one bit in a
                          \* lane above an equal lane
          WideTrunc,      \* whether programs truncate 128-bit values to 64 bits
          WideFloatBits,  \* whether programs zero-extend the bits of a float
                          \* to 128 bits
          X86Signed       \* whether x86 programs divide narrow signed values
                          \* and sign-extend to 128 bits
VARIABLES side, host, value

W == 4
N == 3
SignOf(w) == 2^(w - 1)

\* Boundaries of each width: zero, one, the sign bit, all ones, and for
\* pairs the values around the half.
MCIntProbes(w) ==
  CASE w = 1 -> {0, 1}
    [] w = N -> {0, 1, SignOf(N), 2^N - 1}
    [] w = W -> {0, 1, W - 1, SignOf(W), 2^W - 1}
    [] OTHER -> {0, 1, W - 1, W, W + 1, 2 * W - 1, 2^W, SignOf(2 * W), 2^(2 * W) - 1}
MCCompareProbes(w) ==
  CASE w <= N -> {0, SignOf(w), 2^w - 1}
    [] w = W -> {1, SignOf(W) - 1, SignOf(W), 2^W - 1}
    [] OTHER -> {1, 2^W - 1, 2^W, SignOf(2 * W), 2^(2 * W) - 1}
MCFpProbes(w) == {0, 1, 3, SignOf(w) - 2, SignOf(w) - 1, SignOf(w) + 1}

\* Calls: every pair of operands of 2 and of W bits, boundaries of 2 * W.
MCWide == {0, 1, 2, 3, 7, 8, 15, 16, 17, 64, 127, 128, 129, 240, 254, 255}
MCWordCalls ==
  [R : {W}, w : {2}, args : (0 .. 3) \X (0 .. 3)]
  \union [R : {W}, w : {W}, args : (0 .. (2^W - 1)) \X (0 .. (2^W - 1))]
  \union [R : {W}, w : {2 * W}, args : MCWide \X MCWide]

\* Registers of two bytes with operands of one and two, and registers of one
\* byte with operands of two (as 128 bits).
MCBytes == {0, 1, 2, 55, 127, 128, 200, 255}
MCHalfWords == {x + 256 * y : x, y \in MCBytes}
MCByteCalls ==
  [R : {16}, w : {8}, args : {<<x, x>> : x \in 0 .. 255}]
  \union [R : {16}, w : {16}, args : MCHalfWords \X {0, 1, 255, 256, 257, 511, 32639, 32896, 65535}]
  \union [R : {8, 16}, w : {16}, args : {<<x, x>> : x \in MCHalfWords}]
\* Six-bit floats (to 14.5, infinity, NaN), cast to four bits.
MCFloatCalls == [R : {6}, w : {4}, f : 0 .. 63]
MCMemory == <<11, 12, 13, 14, 15, 16>>

Isel == INSTANCE Intrinsics
          WITH IntProbes <- MCIntProbes, CompareProbes <- MCCompareProbes, FpProbes <- MCFpProbes,
               WordCalls <- MCWordCalls, ByteCalls <- MCByteCalls, FloatCalls <- MCFloatCalls,
               MemoryBytes <- MCMemory, target <- host, cur <- value

MCInit ==
  \/ /\ side = "memory" /\ Init
     /\ host = "aarch64" /\ value = Isel!Start([c |-> "memory", w |-> 8], MCMemory)
  \/ /\ side = "values" /\ Isel!CallInit
     /\ mode = "enum" /\ target = "aarch64" /\ Init

Memory == side = "memory" /\ Next /\ UNCHANGED <<side, host, value>>
Values == side = "values" /\ (Isel!Next \/ Isel!Call) /\ UNCHANGED <<vars, side>>

MCSpec == MCInit /\ [][Memory \/ Values]_<<vars, side, host, value>>

\* Every value is in its register as LLVM defines it, whatever representation
\* the selectors chose (LoweredValue, materialize).
RegistersHoldTheValue == Isel!RegistersHoldTheValue
\* A branch on any value goes where LLVM says, fused with its comparison or
\* not (the cond_br lowering of both selectors).
BranchFollowsCondition == Isel!BranchFollowsCondition
\* What the importer expands itself answers what Rust specifies (arith.rs,
\* intrinsics.rs).
ExpansionsMeanRust == Isel!ExpansionsMeanRust
=============================================================================
