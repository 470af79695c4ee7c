------------------------------ MODULE CallAbi ------------------------------
(***************************************************************************)
(* How values cross a call.  Between functions of this compiler: the       *)
(* importer splits an argument into scalar leaves or passes its address    *)
(* (abi.rs), then the caller (the call arm of instruction selection) and   *)
(* the callee (assign_abi) each walk the argument list and must come to    *)
(* the same registers and stack slots.  To and from code rustc compiled:   *)
(* arguments and results are re-encoded through memory (abi.rs, stmt.rs,   *)
(* constants.rs).  Also the tag of an enum, which rustc's layout decides.  *)
(***************************************************************************)
EXTENDS AggregateMemory

----------------------------------------------------------------------------
(* The importer's classification of an argument.                           *)

NoLeaves == <<[idx |-> <<>>, ty |-> UnitT]>>    \* the type cannot be flattened
is_simple_abi_scalar_ty(t) == is_stack_scalar_ty(t)

RECURSIVE collect_simple_abi_fields(_, _)
collect_simple_abi_fields(t, prefix) ==
  IF is_simple_abi_scalar_ty(t) THEN <<[idx |-> prefix, ty |-> t]>>
  ELSE IF t.k = "unit" THEN <<>>
  ELSE IF t.k = "array" THEN NoLeaves
  ELSE FlattenSeq([i \in DOMAIN t.fs |-> collect_simple_abi_fields(t.fs[i], Append(prefix, i))])

simple_abi_leaves_for_ty(t) == collect_simple_abi_fields(t, <<>>)

Indirect == <<[idx |-> <<>>, ty |-> UnitT], [idx |-> <<>>, ty |-> UnitT]>>

\* No leaves for an empty type; a large aggregate, or one with an array in
\* it, by address.
arg_abi_for_ty(t) ==
  LET leaves == simple_abi_leaves_for_ty(t)
  IN IF crabbit_ty_size(t) = 0 THEN <<>>
     ELSE IF is_aggregate_ty(t) /\ (crabbit_ty_size(t) > 16
                                    \/ \E i \in DOMAIN leaves : leaves[i] = NoLeaves[1])
     THEN Indirect
     ELSE leaves

\* The caller's side: the leaves' values, or the value in a slot of its own.
lower_abi_call_arg_indirect(mem, r, t) == store_stack_value(mem, 0, r, t)
lower_abi_call_arg(r, leaves) ==
  IF Len(leaves) = 1 /\ leaves[1].idx = <<>> THEN <<r>>
  ELSE [i \in DOMAIN leaves |-> extract_aggregate_value(r, leaves[i].idx)]

\* The callee's side: the value back from its arguments.
reassemble_abi_arg(args, leaves) ==
  IF Len(leaves) = 1 /\ leaves[1].idx = <<>> THEN args[1]
  ELSE LET step(cur, i) == insert_aggregate_value(cur, leaves[i].idx, args[i])
       IN FoldLeft(step, Undef, [i \in DOMAIN leaves |-> i])

\* What one leaf is when it arrives: in a register of its class, or loaded
\* as a word from an eight-byte slot of which a float wrote only its size.
arrive(r, t, onStack) ==
  IF Wide(t) THEN LET p == materialize_pair(r) IN RegPair(p[1], p[2])
  ELSE IF ~onStack
  THEN IF t.k = "fp" THEN FpReg(t.n, materialize_fp(r, t.n)) ELSE Reg(materialize_typed(r, t))
  ELSE LET b == IF t.k = "fp" THEN materialize_fp(r, t.n) ELSE materialize_typed(r, t)
           n == IF t.k = "fp" THEN t.n ELSE 8
       IN Reg(ReadBytes(WriteBytes([o \in 0 .. 7 |-> Junk], 0, b, n), 0, 8))

----------------------------------------------------------------------------
(* Argument locations.  A walk is the next general register, the next FP   *)
(* register and the next stack offset; it yields one location per word.    *)

Walk0(base) == [g |-> base, f |-> 0, s |-> 0]
Took(w, locs) == [w |-> w, locs |-> locs]

\* AArch64, the caller: each half of a pair takes the next free place.
push_gpr(w) ==
  IF w.g < 8 THEN Took([w EXCEPT !.g = @ + 1], <<<<"x", w.g>>>>)
  ELSE Took([w EXCEPT !.s = @ + 8], <<<<"stack", w.s>>>>)
push_fpr(w) ==
  IF w.f < 8 THEN Took([w EXCEPT !.f = @ + 1], <<<<"v", w.f>>>>)
  ELSE Took([w EXCEPT !.s = @ + 8], <<<<"stack", w.s>>>>)
caller_arg(w, class) ==
  CASE class = "Int" -> push_gpr(w)
    [] class = "Float" -> push_fpr(w)
    [] class = "Pair" -> LET lo == push_gpr(w) hi == push_gpr(lo.w) IN Took(hi.w, lo.locs \o hi.locs)

\* The bytes of stack arguments, counted again to reserve the area.
outgoing_stack_bytes_for_call(w, class) ==
  LET gprs == IF class = "Pair" THEN 2 ELSE IF class = "Int" THEN 1 ELSE 0
      free == IF class = "Float" THEN 8 - w.f ELSE 8 - w.g
      need == IF class = "Float" THEN 1 ELSE gprs
      inRegs == Min({need, free})
  IN [g |-> IF class = "Float" THEN w.g ELSE w.g + inRegs,
      f |-> IF class = "Float" THEN w.f + inRegs ELSE w.f,
      s |-> w.s + 8 * (need - inRegs)]
align_to_16(n) == align_to(n, 16)

\* Mutant of assign_abi: a float that overflows still takes a register's slot.
assign_FloatSkipsSlot(os, w, class) ==
  IF class = "Float" /\ w.f >= 8
  THEN Took([w EXCEPT !.s = @ + 16], <<<<"stack", w.s + 8>>>>)
  ELSE IF class = "Float" THEN Took([w EXCEPT !.f = @ + 1], <<<<"v", w.f>>>>)
  ELSE push_gpr(w)

\* AArch64, the callee.
requires_even_gpr_pairs(os) == os = "linux"
assign_abi(os, w, class) ==
  CASE class = "Float" ->
         IF w.f < 8 THEN Took([w EXCEPT !.f = @ + 1], <<<<"v", w.f>>>>)
         ELSE Took([w EXCEPT !.s = align_to(@, 8) + 8], <<<<"stack", align_to(w.s, 8)>>>>)
    [] class = "Int" ->
         IF w.g < 8 THEN Took([w EXCEPT !.g = @ + 1], <<<<"x", w.g>>>>)
         ELSE Took([w EXCEPT !.s = @ + 8], <<<<"stack", w.s>>>>)
    [] class = "Pair" ->
         LET g == IF requires_even_gpr_pairs(os) THEN w.g + (w.g % 2) ELSE w.g
             s == align_to(w.s, 16)
         IN IF g <= 6 THEN Took([w EXCEPT !.g = g + 2], <<<<"x", g>>, <<"x", g + 1>>>>)
            ELSE Took([w EXCEPT !.g = 8, !.s = s + 16], <<<<"stack", s>>, <<"stack", s + 8>>>>)

\* x86-64: six registers, the first taken by the address of an indirect
\* result.  The caller numbers the words of all arguments in one sequence.
ArgGprs == 6
X86caller_word(w) ==
  IF w.g < ArgGprs THEN Took([w EXCEPT !.g = @ + 1], <<<<"x", w.g>>>>)
  ELSE Took([w EXCEPT !.g = @ + 1, !.s = (w.g + 1 - ArgGprs) * 8], <<<<"stack", (w.g - ArgGprs) * 8>>>>)
X86caller_arg(w, class) ==
  IF class = "Int" THEN X86caller_word(w)
  ELSE LET lo == X86caller_word(w) hi == X86caller_word(lo.w) IN Took(hi.w, lo.locs \o hi.locs)
assign_darwin_abi(w, class) ==
  IF class = "Int"
  THEN IF w.g < ArgGprs THEN Took([w EXCEPT !.g = @ + 1], <<<<"x", w.g>>>>)
       ELSE Took([w EXCEPT !.s = @ + 8], <<<<"stack", w.s>>>>)
  ELSE LET s == align_to(w.s, 16)
       IN IF w.g + 2 <= ArgGprs THEN Took([w EXCEPT !.g = @ + 2], <<<<"x", w.g>>, <<"x", w.g + 1>>>>)
          ELSE Took([w EXCEPT !.s = s + 16], <<<<"stack", s>>, <<"stack", s + 8>>>>)

----------------------------------------------------------------------------
(* rustc's side of a call (external): its layout of a type and the way its *)
(* Rust ABI passes a value of it.                                          *)

RECURSIVE RustcSize(_), RustcAlign(_), RustcOffsets(_), RustcRepr(_)
RustcAlign(t) ==
  CASE t.k = "Int" -> Ceil8(t.w)
    [] t.k = "Array" -> RustcAlign(t.e)
    [] t.k \in {"Struct", "Union"} -> Max({1} \union {RustcAlign(t.fs[i]) : i \in DOMAIN t.fs})
    [] t.k = "Enum" -> t.align
    [] OTHER -> layout_align_of_ty(t)
\* Offset of each source field; the end of the last one last.
RustcPlace(acc, i, off, size) == [end |-> off + size, at |-> [acc.at EXCEPT ![i] = off]]
RustcOffsets(t) ==
  FoldLeft(LAMBDA acc, i : RustcPlace(acc, i, align_to(acc.end, RustcAlign(t.fs[i])), RustcSize(t.fs[i])),
           [end |-> 0, at |-> [i \in DOMAIN t.fs |-> 0]], t.ord)
RustcSize(t) ==
  CASE t.k = "Array" -> RustcSize(t.e) * t.n
    [] t.k = "Struct" -> align_to(RustcOffsets(t).end, RustcAlign(t))
    [] t.k = "Union" -> align_to(Max({RustcSize(t.fs[i]) : i \in DOMAIN t.fs}), RustcAlign(t))
    [] OTHER -> layout_size_of_ty(t)

\* Scalars of the value, as <<offset, type>>; <<>> when it lives in memory.
SizedRepr(some) ==
  IF Len(some) = 1
  THEN [j \in DOMAIN some[1].repr |-> <<some[1].at + some[1].repr[j][1], some[1].repr[j][2]>>]
  ELSE IF Len(some) = 2 /\ \A i \in 1 .. 2 : Len(some[i].repr) = 1
  THEN [i \in 1 .. 2 |-> <<some[i].at, some[i].repr[1][2]>>]
  ELSE <<>>
StructRepr(fs) == SizedRepr(SelectSeq(fs, LAMBDA f : ~f.zst))
RustcRepr(t) ==
  CASE t.k \in {"bool", "Int", "Float", "Ref"} -> <<<<0, convert_ty(t)>>>>
    [] t.k = "Fat" -> <<<<0, PtrT>>, <<8, IntT(64)>>>>
    [] t.k = "Enum" -> IF t.size = t.align THEN <<<<0, IntT(8 * t.size)>>>> ELSE <<>>
    [] t.k = "Struct" ->
         StructRepr([n \in DOMAIN t.ord |-> [at |-> RustcOffsets(t).at[t.ord[n]], repr |-> RustcRepr(t.fs[t.ord[n]]),
                                             zst |-> RustcSize(t.fs[t.ord[n]]) = 0]])
    [] OTHER -> <<>>

\* PassMode of an argument and of a result.
PassOf(n, repr) ==
  IF n = 0 THEN "Ignore" ELSE IF repr # <<>> THEN "Scalars" ELSE IF n <= 8 THEN "Cast" ELSE "Indirect"
RustcPass(t) == PassOf(RustcSize(t), RustcRepr(t))

----------------------------------------------------------------------------
(* Calls into rustc's code.                                                *)

Words(n) == Max({1, (n + 7) \div 8})
Slot(n) == [o \in 0 .. (n - 1) |-> Junk]

\* rust_abi_args and lower_rust_abi_call_arg: <<type, value>> of each
\* argument, or the slot whose address is passed.
rust_abi_args(t) == RustcPass(t)
LoadScalars(slot, scalars) ==
  [i \in DOMAIN scalars |-> <<scalars[i][2], load_memory(slot, scalars[i][1], scalars[i][2])>>]
AsScalars(ct, r, scalars) ==
  IF Len(scalars) = 1 /\ ~is_aggregate_ty(ct) THEN <<<<scalars[1][2], r>>>>
  ELSE LoadScalars(store_stack_value(Slot(8 * Words(crabbit_ty_size(ct))), 0, r, ct), scalars)
lower_rust_abi_call_arg(t, r) ==
  AsScalars(convert_ty(t), r, IF rust_abi_args(t) = "Cast" THEN <<<<0, IntT(64)>>>> ELSE RustcRepr(t))

\* rust_abi_return and the result's type: words of a blob, and where the
\* second scalar of a pair really belongs.
layout_sensitive(t) == t.k \in {"Struct", "Array", "Union", "Enum"}
BlobFor(pass, repr, words) ==
  IF pass = "Indirect" THEN [words |-> Max({3, words}), move |-> <<>>]
  ELSE IF Len(repr) = 2 /\ repr[2][1] < 8 THEN [words |-> 2, move |-> repr[2]]
  ELSE [words |-> words, move |-> <<>>]
rust_abi_return(t) ==
  BlobFor(RustcPass(t), RustcRepr(t), Words(RustcSize(t)))

\* A value out of memory laid out by rustc, field by field.
RECURSIVE load_value_from_real_layout(_, _, _)
LoadParts(mem, parts) ==
  FoldLeft(LAMBDA agg, p : IF p.zst THEN agg
                           ELSE insert_aggregate_value(agg, <<p.at>>, load_value_from_real_layout(mem, p.off, p.ty)),
           Undef, parts)
load_value_from_real_layout(mem, off, t) ==
  IF t.k = "Struct"
  THEN LoadParts(mem, [i \in DOMAIN t.fs |-> [zst |-> layout_size_of_ty(t.fs[i]) = 0, at |-> converted_field_index(t, i),
                                              off |-> off + RustcOffsets(t).at[i], ty |-> t.fs[i]]])
  ELSE IF t.k = "Array"
  THEN LoadParts(mem, [i \in 1 .. t.n |-> [zst |-> FALSE, at |-> i, off |-> off + (i - 1) * RustcSize(t.e), ty |-> t.e]])
  ELSE load_memory(mem, off, convert_ty(t))

\* The result of a call, in the blob's slot, with the second scalar moved
\* from the second register's word to its offset.
MoveScalar(slot, off, s) == store_memory(slot, off, load_memory(slot, 8, s), s)
InBlob(how, blob, ret) ==
  store_stack_value(Slot(8 * how.words), 0, call_result(blob, result_location_for_type(blob), ret), blob)
BlobResult(how, ret) ==
  IF how.move = <<>> THEN InBlob(how, ArrT(IntT(64), how.words), ret)
  ELSE MoveScalar(InBlob(how, ArrT(IntT(64), 2), ret), how.move[1], IntT(8 * scalar_size_of(how.move[2])))
external_result(t, ret) == BlobResult(rust_abi_return(t), ret)

\* import_transmute between aggregates: spill, reload as the other type.
import_transmute(r, t, t2) ==
  load_value_from_real_layout(
    store_stack_value(Slot(8 * Words(Max({RustcSize(t), RustcSize(t2)}))), 0, r, convert_ty(t)), 0, t2)

----------------------------------------------------------------------------
(* Enum tags.  An encoding is rustc's: Direct, with the discriminants of   *)
(* the variants, or Niche.  All arithmetic wraps at the tag's width.       *)

\* tag_for_variant, external.
tag_for_variant(e, v) ==
  IF e.direct THEN (e.discr[v]) % 2^e.tagBits
  ELSE (v - e.first + e.start) % 2^e.tagBits

\* The byte after construction: the untagged variant's own data stays.
write_enum_tag(e, v, data) ==
  IF ~e.direct /\ v = e.untagged THEN data ELSE tag_for_variant(e, v)

\* Mutant of read_enum_discriminant: the niche test does not wrap.
read_NoWrap(e, tag, discrBits) ==
  LET isNiche == IF tag - e.start \in 0 .. (e.last - e.first) THEN 1 ELSE 0
      tagged == e.first + (tag - e.start)
  IN IF e.direct THEN tag ELSE (e.untagged + (tagged - e.untagged) * isNiche) % 2^discrBits

read_enum_discriminant(e, tag, discrBits) ==
  LET relative == (tag - e.start) % 2^e.tagBits
      isNiche == IF relative <= (e.last - e.first) % 2^e.tagBits THEN 1 ELSE 0
      tagged == (e.first + relative) % 2^discrBits
      diff == (tagged - e.untagged) % 2^discrBits
  IN IF e.direct THEN tag ELSE (e.untagged + diff * isNiche) % 2^discrBits
=============================================================================
