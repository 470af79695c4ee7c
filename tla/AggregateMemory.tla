-------------------------- MODULE AggregateMemory --------------------------
(***************************************************************************)
(* Aggregates in instruction selection: how a struct or array is kept in   *)
(* virtual registers field by field, stored and loaded, packed into one or *)
(* two return registers, reshaped by a bitcast, passed as a block argument *)
(* (isel_memory_abi.rs of both hosts, isel_control_flow.rs).               *)
(*                                                                         *)
(* Bytes are symbolic.  A byte of a value is a positive number of its own, *)
(* 0 is a zero byte, Junk a byte nobody chose, Clash the or of two nonzero *)
(* bytes.  A register is eight bytes; shifts and masks by whole bytes, the *)
(* only ones the code emits here, move them about.                         *)
(***************************************************************************)
EXTENDS TypeLayout

Junk == -1
Clash == -2
Zeros == [i \in 1 .. 8 |-> 0]
ErrBytes == <<>>                 \* refused (or not encodable): absorbs every operation

Lsr(b, n) == [i \in DOMAIN b |-> IF i + n \in DOMAIN b THEN b[i + n] ELSE 0]
Shl(b, n) == [i \in DOMAIN b |-> IF i - n \in DOMAIN b THEN b[i - n] ELSE 0]
Mask(b, n) == [i \in DOMAIN b |-> IF i <= n THEN b[i] ELSE 0]
Orr(a, b) ==
  [i \in DOMAIN a \intersect DOMAIN b |->
     IF a[i] = 0 THEN b[i] ELSE IF b[i] = 0 THEN a[i] ELSE Clash]

\* LoweredValue.  f is 0 for a general register, else the FP width in bytes.
None == [k |-> "None"]           \* a field that was never inserted
Undef == [k |-> "Undef"]
Err == [k |-> "Err"]
Reg(b) == [k |-> "Reg", f |-> 0, b |-> b]
FpReg(n, b) == [k |-> "Reg", f |-> n, b |-> b]
RegPair(lo, hi) == [k |-> "RegPair", lo |-> lo, hi |-> hi]
Agg(fs) == [k |-> "Agg", fs |-> fs]

----------------------------------------------------------------------------
(* Registers out of lowered values.                                        *)

RECURSIVE materialize(_), adapt_value_to_type(_, _)

\* fmov moves an FP register's bits; the 32-bit form clears the rest.
materialize(r) ==
  CASE r.k = "Reg" -> IF r.f = 0 THEN r.b ELSE Mask(r.b, r.f)
    [] r.k = "RegPair" -> r.lo
    [] r.k = "Undef" -> Zeros
    [] r.k = "Agg" /\ Len(r.fs) = 1 /\ r.fs[1] # None -> materialize(r.fs[1])
    [] OTHER -> ErrBytes

\* A single register is the low half as it is: with one of the FP file no
\* integer instruction can be encoded.
materialize_pair(r) ==
  IF r.k = "RegPair" THEN <<r.lo, r.hi>>
  ELSE IF r.k = "Reg" THEN <<IF r.f = 0 THEN r.b ELSE ErrBytes, Zeros>>
  ELSE IF r.k = "Agg" /\ Len(r.fs) = 2
  THEN IF None \in {r.fs[1], r.fs[2]} THEN <<ErrBytes, ErrBytes>>
       ELSE <<materialize(r.fs[1]), materialize(r.fs[2])>>
  ELSE <<materialize(r), Zeros>>

materialize_fp(r, n) ==
  IF r.k = "Reg" /\ r.f = n THEN Mask(r.b, n)
  ELSE IF r.k = "Reg" /\ r.f # 0 THEN ErrBytes
  ELSE Mask(materialize(r), n)

\* A narrow integer keeps its low bytes; the rest of the register is zero.
normalize_integer_reg(b, t) == IF t.k = "int" /\ t.w < 64 THEN Mask(b, Ceil8(t.w)) ELSE b

FirstOf(fs) == IF fs = <<>> THEN Undef ELSE fs[1]
FirstSet(fs) == FirstOf(SelectSeq(fs, LAMBDA f : f # None))

AdaptFields(r, t, layout) ==
  IF r.k = "Agg" /\ Len(r.fs) = Len(layout)
  THEN Agg([i \in DOMAIN layout |-> IF r.fs[i] = None THEN None ELSE adapt_value_to_type(r.fs[i], layout[i].ty)])
  ELSE IF r.k = "Agg" /\ Len(r.fs) = 1
  THEN adapt_value_to_type(FirstSet(r.fs), t)
  ELSE Agg([i \in DOMAIN layout |-> IF i = 1 THEN adapt_value_to_type(r, layout[i].ty) ELSE Undef])

\* Mutant of adapt_value_to_type: a value that is not an aggregate is kept.
adapt_KeepsBareRegister(r, t) ==
  IF is_stack_scalar_ty(t) /\ r.k = "Agg" THEN FirstSet(r.fs) ELSE r

\* Re-shape to the field structure of t: unwrap or wrap one field, go down
\* field by field when the counts agree.
adapt_value_to_type(r, t) ==
  IF r.k = "Undef" THEN Undef
  ELSE IF is_stack_scalar_ty(t)
  THEN IF r.k = "Agg" THEN adapt_value_to_type(FirstSet(r.fs), t) ELSE r
  ELSE IF is_aggregate_ty(t) THEN AdaptFields(r, t, aggregate_field_layout(t)) ELSE r

MaterializeAs(v, t) ==
  IF v.k = "Agg" /\ Len(v.fs) > 1 THEN ErrBytes
  ELSE IF Wide(t) THEN materialize_pair(v)[1]
  ELSE IF t.k = "fp" THEN materialize_fp(v, t.n)
  ELSE normalize_integer_reg(materialize(v), t)
materialize_typed(r, t) == MaterializeAs(adapt_value_to_type(r, t), t)

----------------------------------------------------------------------------
(* insertvalue and extractvalue.                                           *)

RECURSIVE insert_aggregate_value(_, _, _), extract_aggregate_value(_, _)

FieldOr(fs, i) == IF i <= Len(fs) /\ fs[i] # None THEN fs[i] ELSE Undef
InsertField(fs, idx, v) ==
  Agg([i \in 1 .. Max({Len(fs), idx[1]}) |->
         IF i = idx[1] THEN insert_aggregate_value(FieldOr(fs, i), Tail(idx), v)
         ELSE IF i <= Len(fs) THEN fs[i] ELSE None])
insert_aggregate_value(agg, idx, v) ==
  IF idx = <<>> THEN v
  ELSE IF agg.k \notin {"Agg", "Undef"} THEN Err
  ELSE InsertField(IF agg.k = "Agg" THEN agg.fs ELSE <<>>, idx, v)

extract_aggregate_value(agg, idx) ==
  IF idx = <<>> THEN agg
  ELSE IF agg.k = "Undef" THEN Undef
  ELSE IF agg.k # "Agg" THEN Err
  ELSE extract_aggregate_value(FieldOr(agg.fs, idx[1]), Tail(idx))

X86insert_aggregate_value(agg, idx, v) == insert_aggregate_value(agg, idx, v)
X86extract_aggregate_value(agg, idx) == extract_aggregate_value(agg, idx)

----------------------------------------------------------------------------
(* Memory: a function from offsets to bytes; <<>> once a store is refused. *)

WriteBytes(mem, off, b, n) ==
  IF b = ErrBytes THEN <<>>
  ELSE [o \in DOMAIN mem |-> IF o - off \in 0 .. (n - 1) THEN b[o - off + 1] ELSE mem[o]]

ReadBytes(mem, off, n) ==
  [i \in 1 .. 8 |-> IF i <= n THEN (IF off + i - 1 \in DOMAIN mem THEN mem[off + i - 1] ELSE Junk) ELSE 0]

\* ldrb, ldrh, ldr w, ldr x: the access of a scalar's size.
AccessSize(n) == IF n <= 2 THEN n ELSE IF n <= 4 THEN 4 ELSE 8

RECURSIVE load_stack_value(_, _, _), store_stack_value(_, _, _, _)

LoadFields(mem, off, layout) ==
  [i \in DOMAIN layout |-> load_stack_value(mem, off + layout[i].off, layout[i].ty)]
load_stack_value(mem, off, t) ==
  IF stack_size_of(t) = 0 THEN Undef
  ELSE IF t.k = "fp" THEN FpReg(t.n, ReadBytes(mem, off, t.n))
  ELSE IF Wide(t) THEN RegPair(ReadBytes(mem, off, 8), ReadBytes(mem, off + 8, 8))
  ELSE IF is_stack_scalar_ty(t)
  THEN Reg(normalize_integer_reg(ReadBytes(mem, off, AccessSize(scalar_size_of(t))), t))
  ELSE Agg(LoadFields(mem, off, aggregate_field_layout(t)))

\* The same walk through a base register.
load_register_address_value(mem, off, t) == load_stack_value(mem, off, t)
load_memory(mem, off, t) ==
  IF stack_size_of(t) = 0 THEN Undef ELSE load_register_address_value(mem, off, t)

RECURSIVE flatten_aggregate_value(_)
flatten_aggregate_value(r) ==
  IF r.k = "Agg"
  THEN FlattenSeq([i \in DOMAIN r.fs |->
                     IF r.fs[i] = None THEN <<Undef>> ELSE flatten_aggregate_value(r.fs[i])])
  ELSE <<r>>

word_ty == IntT(64)

\* An aggregate type fed by one register of more than a word: the register
\* is taken for an address, and what it points at is unknown.
load_aggregate_copy_source(r, t) ==
  IF r.k = "Reg" /\ stack_size_of(t) > 8 THEN load_stack_value(<<Junk>>, 0, t) ELSE r

\* A scalar slot fed by an aggregate: its leaves, one word each.
StoreWord(acc, c) == [mem |-> store_stack_value(acc.mem, acc.off, c, word_ty), off |-> acc.off + 8]
store_flattened_aggregate_chunks(mem, off, r) ==
  FoldLeft(StoreWord, [mem |-> mem, off |-> off], flatten_aggregate_value(r)).mem

StoreFields(mem, off, fs, layout) ==
  FoldLeft(LAMBDA m, i : IF i > Len(fs) \/ fs[i] = None THEN m
                         ELSE store_stack_value(m, off + layout[i].off, fs[i], layout[i].ty),
           mem, [i \in DOMAIN layout |-> i])
StoreAggregate(mem, off, r, t) ==
  IF r.k = "Agg" THEN StoreFields(mem, off, r.fs, aggregate_field_layout(t))
  ELSE IF stack_size_of(t) <= 8 THEN store_stack_value(mem, off, r, word_ty)
  ELSE <<>>
StorePair(mem, off, p) == WriteBytes(WriteBytes(mem, off, p[1], 8), off + 8, p[2], 8)

\* Mutant of store_stack_value: every integer is stored as a whole word.
store_WholeWord(mem, off, r, t) ==
  IF r.k = "Undef" \/ stack_size_of(t) = 0 THEN mem
  ELSE IF Wide(t) THEN StorePair(mem, off, materialize_pair(r))
  ELSE IF is_stack_scalar_ty(t)
  THEN WriteBytes(mem, off, IF t.k = "fp" THEN materialize_fp(r, t.n) ELSE materialize(r), 8)
  ELSE StoreFields(mem, off, r.fs, aggregate_field_layout(t))

store_stack_value(mem, off, r, t) ==
  IF r.k = "Undef" \/ stack_size_of(t) = 0 THEN mem
  ELSE IF t.k = "fp" /\ r.k # "Agg" THEN WriteBytes(mem, off, materialize_fp(r, t.n), t.n)
  ELSE IF is_stack_scalar_ty(t) /\ r.k = "Agg" THEN store_flattened_aggregate_chunks(mem, off, r)
  ELSE IF Wide(t) THEN StorePair(mem, off, materialize_pair(r))
  ELSE IF is_stack_scalar_ty(t) THEN WriteBytes(mem, off, materialize(r), AccessSize(scalar_size_of(t)))
  ELSE StoreAggregate(mem, off, load_aggregate_copy_source(r, t), t)

store_register_address_value(mem, off, r, t) == store_stack_value(mem, off, r, t)
store_memory(mem, off, r, t) ==
  IF stack_size_of(t) = 0 \/ r.k = "Undef" THEN mem ELSE store_register_address_value(mem, off, r, t)

\* x86_64_darwin/isel_memory_abi.rs holds its own copy of each of these functions,
\* word for word but for the float arms; the next group likewise.
X86load_stack_value(mem, off, t) == load_stack_value(mem, off, t)
X86load_register_address_value(mem, off, t) == X86load_stack_value(mem, off, t)
X86load_memory(mem, off, t) ==
  IF X86stack_size_of(t) = 0 THEN Undef ELSE X86load_register_address_value(mem, off, t)
X86flatten_aggregate_value(r) == flatten_aggregate_value(r)
X86load_aggregate_copy_source(r, t) == load_aggregate_copy_source(r, t)
X86store_flattened_aggregate_chunks(mem, off, r) == store_flattened_aggregate_chunks(mem, off, r)
X86store_stack_value(mem, off, r, t) == store_stack_value(mem, off, r, t)
X86store_register_address_value(mem, off, r, t) == X86store_stack_value(mem, off, r, t)
X86store_memory(mem, off, r, t) ==
  IF X86stack_size_of(t) = 0 \/ r.k = "Undef" THEN mem ELSE X86store_register_address_value(mem, off, r, t)
X86adapt_value_to_type(r, t) == adapt_value_to_type(r, t)

\* One index of a gep: a constant into a struct names a field; anything else
\* (a dynamic index, scaled by mul and added) steps over elements.
Stepped(e, i) == [off |-> i * e.size, ty |-> e.ty]
lower_gep(t, idx) ==
  IF t.k = "struct" /\ ~idx.dyn THEN struct_field_offset(t, idx.i) ELSE Stepped(indexed_element(t), idx.i)

X86lower_gep(t, idx) ==
  IF t.k = "struct" /\ ~idx.dyn THEN X86struct_field_offset(t, idx.i) ELSE Stepped(X86indexed_element(t), idx.i)

----------------------------------------------------------------------------
(* Aggregates in one or two registers, by memory layout.                   *)

RECURSIVE unpack_aggregate_from_reg(_, _, _), pack_aggregate_to_reg(_, _, _)
RECURSIVE unpack_aggregate_from_reg_pair(_, _, _, _), pack_aggregate_to_reg_pair(_, _, _, _)

UnpackFields(layout, b, off) ==
  [i \in DOMAIN layout |-> unpack_aggregate_from_reg(layout[i].ty, b, off + layout[i].off)]
unpack_aggregate_from_reg(t, b, off) ==
  IF is_stack_scalar_ty(t) THEN Reg(Mask(Lsr(b, off), scalar_size_of(t)))
  ELSE Agg(UnpackFields(aggregate_field_layout(t), b, off))

merge_packed_half(acc, b) == Orr(acc, b)

\* Mask to the scalar's size, shift to its offset, or the fields together.
PackFields(fs, layout, off) ==
  FoldLeft(LAMBDA acc, i : IF i > Len(fs) \/ fs[i] = None THEN acc
                           ELSE Orr(acc, pack_aggregate_to_reg(fs[i], layout[i].ty, off + layout[i].off)),
           Zeros, [i \in DOMAIN layout |-> i])
pack_aggregate_to_reg(r, t, off) ==
  IF is_stack_scalar_ty(t) THEN Shl(Mask(materialize(r), scalar_size_of(t)), off)
  ELSE IF r.k \notin {"Agg", "Undef"} THEN ErrBytes
  ELSE PackFields(IF r.k = "Agg" THEN r.fs ELSE <<>>, aggregate_field_layout(t), off)

Straddles(t, off) == off < 8 /\ off + scalar_size_of(t) > 8

UnpackPairFields(layout, lo, hi, off) ==
  [i \in DOMAIN layout |-> unpack_aggregate_from_reg_pair(layout[i].ty, lo, hi, off + layout[i].off)]
unpack_aggregate_from_reg_pair(t, lo, hi, off) ==
  IF Wide(t) THEN (IF off = 0 THEN RegPair(lo, hi) ELSE Err)
  ELSE IF is_stack_scalar_ty(t)
  THEN IF Straddles(t, off) THEN Err
       ELSE IF off < 8 THEN unpack_aggregate_from_reg(t, lo, off)
       ELSE unpack_aggregate_from_reg(t, hi, off - 8)
  ELSE Agg(UnpackPairFields(aggregate_field_layout(t), lo, hi, off))

MergePair(acc, p) == <<merge_packed_half(acc[1], p[1]), merge_packed_half(acc[2], p[2])>>
PackPairFields(fs, layout, off, acc) ==
  FoldLeft(LAMBDA a, i : IF i > Len(fs) \/ fs[i] = None THEN a
                         ELSE pack_aggregate_to_reg_pair(fs[i], layout[i].ty, off + layout[i].off, a),
           acc, [i \in DOMAIN layout |-> i])
pack_aggregate_to_reg_pair(r, t, off, acc) ==
  IF stack_size_of(t) = 0 \/ r.k = "Undef" THEN acc
  ELSE IF Wide(t)
  THEN IF off # 0 THEN <<ErrBytes, ErrBytes>>
       ELSE MergePair(acc, materialize_pair(r))
  ELSE IF is_stack_scalar_ty(t)
  THEN IF Straddles(t, off) THEN <<ErrBytes, ErrBytes>>
       ELSE [acc EXCEPT ![IF off < 8 THEN 1 ELSE 2] = merge_packed_half(@, pack_aggregate_to_reg(r, t, off % 8))]
  ELSE IF r.k = "Agg" THEN PackPairFields(r.fs, aggregate_field_layout(t), off, acc)
  ELSE <<ErrBytes, ErrBytes>>

X86unpack_aggregate_from_reg(t, b, off) == unpack_aggregate_from_reg(t, b, off)
X86pack_aggregate_to_reg(r, t, off) == pack_aggregate_to_reg(r, t, off)
X86merge_packed_half(acc, b) == merge_packed_half(acc, b)
X86unpack_aggregate_from_reg_pair(t, lo, hi, off) == unpack_aggregate_from_reg_pair(t, lo, hi, off)
X86pack_aggregate_to_reg_pair(r, t, off, acc) == pack_aggregate_to_reg_pair(r, t, off, acc)

----------------------------------------------------------------------------
(* Results of calls.  `where` is the location of the result.               *)

\* The caller's view: by the selector's layout.
LocationBySize(t, n) ==
  IF n = 0 THEN "Void"
  ELSE IF Wide(t) THEN "Pair"
  ELSE IF t.k = "fp" THEN "Fpr"
  ELSE IF ~is_aggregate_ty(t) \/ n <= 8 THEN "Gpr"
  ELSE IF n <= 16 THEN "Pair" ELSE "Indirect"
result_location_for_type(t) == LocationBySize(t, stack_size_of(t))

\* The callee's view: by the calling convention's layout.
ResultBySize(t, n) ==
  IF n = 0 THEN "Void"
  ELSE IF t.k = "fp" THEN "Fpr"
  ELSE IF n <= 8 THEN "Gpr" ELSE IF n <= 16 THEN "Pair" ELSE "Indirect"
assign_result(t) == ResultBySize(t, abi_type_layout(t).size)

X86result_location_for_type(t) == IF NoFloat(t) THEN result_location_for_type(t) ELSE "Void"
X86assign_result(t) == IF NoFloat(t) THEN assign_result(t) ELSE "Void"

Unset == [i \in 1 .. 8 |-> Junk]
emit_direct_aggregate_to_gprs(r, t) ==
  IF stack_size_of(t) <= 8 THEN <<pack_aggregate_to_reg(r, t, 0), Unset>>
  ELSE pack_aggregate_to_reg_pair(r, t, 0, <<Zeros, Zeros>>)

\* What the callee leaves in the registers and in the caller's result slot.
emit_return_value(r, t, where, slot) ==
  [regs |-> CASE where \in {"Void", "Indirect"} -> <<Unset, Unset>>
              [] where = "Fpr" \/ (where = "Gpr" /\ ~is_aggregate_ty(t)) -> <<materialize_typed(r, t), Unset>>
              [] where = "Pair" /\ Wide(t) -> materialize_pair(r)
              [] where = "Gpr" /\ is_aggregate_ty(t) -> <<pack_aggregate_to_reg(r, t, 0), Unset>>
              [] where = "Pair" /\ ~Wide(t) -> emit_direct_aggregate_to_gprs(r, t),
   slot |-> IF where = "Indirect" THEN store_register_address_value(slot, 0, r, t) ELSE slot]

load_direct_aggregate_from_gprs(t, count, regs) ==
  IF count = 1 THEN unpack_aggregate_from_reg(t, regs[1], 0)
  ELSE unpack_aggregate_from_reg_pair(t, regs[1], regs[2], 0)

\* What the caller makes of them.
call_result(t, where, ret) ==
  CASE where = "Void" -> Undef
    [] where = "Fpr" -> FpReg(t.n, ret.regs[1])
    [] where = "Gpr" -> IF is_aggregate_ty(t) THEN load_direct_aggregate_from_gprs(t, 1, ret.regs)
                        ELSE Reg(ret.regs[1])
    [] where = "Pair" -> IF Wide(t) THEN RegPair(ret.regs[1], ret.regs[2])
                         ELSE load_direct_aggregate_from_gprs(t, 2, ret.regs)
    [] where = "Indirect" -> load_stack_value(ret.slot, 0, t)

X86emit_direct_aggregate_to_gprs(r, t) == emit_direct_aggregate_to_gprs(r, t)
X86load_direct_aggregate_from_gprs(t, count, regs) == load_direct_aggregate_from_gprs(t, count, regs)
X86emit_return_value(r, t, where, slot) == emit_return_value(r, t, where, slot)

----------------------------------------------------------------------------
(* Block arguments: the incoming value's registers, leaf by leaf, become   *)
(* the registers of the argument's own shape.  Copying them is the subject *)
(* of ParallelCopy.                                                        *)

RECURSIVE flatten_incoming(_, _), block_arg_value(_, _)

FlattenFields(r, fs) ==
  FlattenSeq([i \in DOMAIN fs |-> flatten_incoming(IF r.k = "Agg" THEN FieldOr(r.fs, i) ELSE Undef, fs[i])])
FlattenAs(r, t) ==
  IF Wide(t) THEN (IF r = Undef THEN <<Zeros, Zeros>> ELSE materialize_pair(r))
  ELSE IF is_aggregate_ty(t)
  THEN IF r.k \in {"Agg", "Undef"} THEN FlattenFields(r, struct_fields(t)) ELSE <<ErrBytes>>
  ELSE IF r = Undef THEN <<Zeros>> ELSE <<materialize_typed(r, t)>>
flatten_incoming(src, t) == IF is_zero_sized_ty(t) THEN <<>> ELSE FlattenAs(adapt_value_to_type(src, t), t)

\* The registers of an argument of type t, taken from regs in leaf order.
RECURSIVE LeafCount(_)
LeafCount(t) ==
  IF is_zero_sized_ty(t) THEN 0
  ELSE IF Wide(t) THEN 2
  ELSE IF is_aggregate_ty(t)
  THEN FoldLeft(LAMBDA n, f : n + LeafCount(f), 0, struct_fields(t))
  ELSE 1

FieldStart(fs, i) == FoldLeft(LAMBDA n, f : n + LeafCount(f), 0, SubSeq(fs, 1, i - 1))
FieldRegs(fs, i, regs) == SubSeq(regs, FieldStart(fs, i) + 1, FieldStart(fs, i + 1))
block_arg_value(t, regs) ==
  IF is_zero_sized_ty(t) THEN Undef
  ELSE IF Wide(t) THEN RegPair(regs[1], regs[2])
  ELSE IF t.k = "fp" THEN FpReg(t.n, regs[1])
  ELSE IF is_aggregate_ty(t)
  THEN Agg([i \in DOMAIN struct_fields(t) |->
              block_arg_value(struct_fields(t)[i], FieldRegs(struct_fields(t), i, regs))])
  ELSE Reg(regs[1])

X86flatten_incoming(src, t) == flatten_incoming(src, t)
X86block_arg_value(t, regs) == block_arg_value(t, regs)
=============================================================================
