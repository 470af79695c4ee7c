----------------------------- MODULE TypeLayout -----------------------------
(***************************************************************************)
(* What a Rust type becomes and how many bytes it takes, where each part   *)
(* of the compiler works it out for itself: the importer on Rust types     *)
(* (layout.rs) and on converted types (abi.rs), instruction selection of   *)
(* both hosts (isel_memory_abi.rs), and the calling conventions            *)
(* (frontend.rs).  No layout is stored: whoever needs one recomputes it,   *)
(* so a program is right only while the recomputations agree.              *)
(***************************************************************************)
EXTENDS Integers, Sequences, SequencesExt, FiniteSetsExt

\* Converted types (the LLVM dialect's).
IntT(w) == [k |-> "int", w |-> w]
FpT(n) == [k |-> "fp", n |-> n]
PtrT == [k |-> "ptr"]
UnitT == [k |-> "unit"]
ArrT(e, n) == [k |-> "array", e |-> e, n |-> n]
StructT(fs) == [k |-> "struct", fs |-> fs]

is_zero_sized_ty(t) == t.k = "unit"
is_stack_scalar_ty(t) == t.k \in {"int", "fp", "ptr"}
is_aggregate_ty(t) == t.k \in {"array", "struct"}
Wide(t) == t.k = "int" /\ t.w = 128

align_to(v, a) == IF a <= 1 THEN v ELSE ((v + a - 1) \div a) * a
Clamp8(n) == IF n < 1 THEN 1 ELSE IF n > 8 THEN 8 ELSE n
Ceil8(w) == (w + 7) \div 8

----------------------------------------------------------------------------
(* The backends' layout of a converted type.                               *)

RECURSIVE stack_size_of(_), stack_align_of(_), aggregate_field_layout(_)

scalar_size_of(t) ==
  IF t.k = "int" THEN Max({1, Ceil8(t.w)}) ELSE IF t.k = "fp" THEN t.n ELSE 8

struct_fields(t) ==
  IF t.k = "unit" THEN <<>>
  ELSE IF t.k = "array" THEN [i \in 1 .. t.n |-> t.e] ELSE t.fs

stack_align_of(t) ==
  IF is_zero_sized_ty(t) THEN 1
  ELSE IF is_stack_scalar_ty(t) THEN Clamp8(scalar_size_of(t))
  ELSE IF t.k = "array" THEN stack_align_of(t.e)
  ELSE Max({1} \union {stack_align_of(t.fs[i]) : i \in DOMAIN t.fs})

\* Offset and type of each element, or of each field: a field of no size
\* sits at the running offset, unaligned.
PlaceAt(acc, ft, off, size) == [off |-> off + size, out |-> Append(acc.out, [off |-> off, ty |-> ft])]
PlaceSized(acc, ft, size) ==
  PlaceAt(acc, ft, IF size = 0 THEN acc.off ELSE align_to(acc.off, stack_align_of(ft)), size)
PlaceField(acc, ft) == PlaceSized(acc, ft, stack_size_of(ft))
Elements(t, size) ==
  IF size = 0 THEN <<>>
  ELSE [i \in 1 .. t.n |-> [off |-> (i - 1) * align_to(size, stack_align_of(t.e)), ty |-> t.e]]

aggregate_field_layout(t) ==
  IF is_zero_sized_ty(t) THEN <<>>
  ELSE IF t.k = "array" THEN Elements(t, stack_size_of(t.e))
  ELSE FoldLeft(PlaceField, [off |-> 0, out |-> <<>>], t.fs).out

EndOf(layout) ==
  IF layout = <<>> THEN 0 ELSE layout[Len(layout)].off + stack_size_of(layout[Len(layout)].ty)

stack_size_of(t) ==
  IF is_zero_sized_ty(t) THEN 0
  ELSE IF is_stack_scalar_ty(t) THEN scalar_size_of(t)
  ELSE IF t.k = "array" THEN align_to(stack_size_of(t.e), stack_align_of(t.e)) * t.n
  ELSE align_to(EndOf(aggregate_field_layout(t)), stack_align_of(t))

\* x86-64 repeats the same walks over types without floats.
NoFloat(t) == t.k # "fp"
X86scalar_size_of(t) == IF NoFloat(t) THEN scalar_size_of(t) ELSE -1
X86stack_size_of(t) == stack_size_of(t)
X86stack_align_of(t) == stack_align_of(t)
X86aggregate_field_layout(t) == aggregate_field_layout(t)

\* Where a constant index leads: a field of a struct, else an element.  A
\* type that is not an array is stepped over whole.
struct_field_offset(t, i) ==
  IF t.k = "struct" THEN aggregate_field_layout(t)[i + 1] ELSE [off |-> -1, ty |-> t]
indexed_element(t) ==
  IF t.k # "array" THEN [ty |-> t, size |-> stack_size_of(t)]
  ELSE [ty |-> t.e, size |-> align_to(stack_size_of(t.e), stack_align_of(t.e))]

X86struct_field_offset(t, i) == struct_field_offset(t, i)
X86indexed_element(t) == indexed_element(t)

----------------------------------------------------------------------------
(* The calling convention's size and alignment: 128-bit integers align to  *)
(* 16 here, and every field is aligned, empty ones included.               *)

RECURSIVE abi_type_layout(_)
AbiNext(acc, l) == [size |-> align_to(acc.size, l.align) + l.size, align |-> Max({acc.align, l.align})]
AbiField(acc, ft) == AbiNext(acc, abi_type_layout(ft))
AbiPadded(l, n) == [size |-> align_to(l.size, l.align) * n, align |-> l.align]
AbiScalar(n) == [size |-> n, align |-> Min({2^i : i \in {j \in 0 .. 4 : 2^j >= n \/ j = 4}})]

abi_type_layout(t) ==
  IF t.k = "unit" THEN [size |-> 0, align |-> 1]
  ELSE IF is_stack_scalar_ty(t)
  THEN AbiScalar(scalar_size_of(t))
  ELSE IF t.k = "array" THEN AbiPadded(abi_type_layout(t.e), t.n)
  ELSE AbiPadded(FoldLeft(AbiField, [size |-> 0, align |-> 1], t.fs), 1)

X86abi_type_layout(t) == abi_type_layout(t)

----------------------------------------------------------------------------
(* The importer's size of a converted type: empty fields take no part.     *)

RECURSIVE crabbit_ty_size(_), crabbit_ty_align(_)

crabbit_ty_align(t) ==
  IF t.k = "unit" THEN 1
  ELSE IF t.k = "array" THEN crabbit_ty_align(t.e)
  ELSE IF t.k = "struct"
  THEN Max({1} \union {crabbit_ty_align(t.fs[i]) : i \in {j \in DOMAIN t.fs : crabbit_ty_size(t.fs[j]) # 0}})
  ELSE Clamp8(crabbit_ty_size(t))

CrabbitField(acc, ft) ==
  IF crabbit_ty_size(ft) = 0 THEN acc ELSE align_to(acc, crabbit_ty_align(ft)) + crabbit_ty_size(ft)

crabbit_ty_size(t) ==
  IF t.k = "unit" THEN 0
  ELSE IF is_stack_scalar_ty(t) THEN scalar_size_of(t)
  ELSE IF t.k = "array" THEN align_to(crabbit_ty_size(t.e), crabbit_ty_align(t.e)) * t.n
  ELSE align_to(FoldLeft(CrabbitField, 0, t.fs), crabbit_ty_align(t))

----------------------------------------------------------------------------
(* Rust types.  rustc decides the memory order of a struct's fields (ord)  *)
(* and the whole layout of an enum.                                        *)

RBool == [k |-> "bool"]
RInt(w) == [k |-> "Int", w |-> w]         \* also char and the unsigned ones
RFloat(n) == [k |-> "Float", n |-> n]
RRef == [k |-> "Ref"]                     \* a thin pointer
RFat == [k |-> "Fat"]                     \* pointer to a slice, str or dyn
RUnit == [k |-> "Unit"]                   \* (), !, a function item
RArray(e, n) == [k |-> "Array", e |-> e, n |-> n]
RStruct(fs, ord) == [k |-> "Struct", fs |-> fs, ord |-> ord]   \* tuples and closures too
RUnion(fs) == [k |-> "Union", fs |-> fs]
REnum(size, align) == [k |-> "Enum", size |-> size, align |-> align]

\* in_memory_order of the rustc layout, and its inverse.
struct_memory_order(t) == t.ord
field_memory_position(t, i) == CHOOSE p \in DOMAIN t.ord : t.ord[p] = i
memory_ordered_fields(t) == [p \in DOMAIN t.ord |-> t.fs[struct_memory_order(t)[p]]]
converted_field_index(t, i) == IF t.k = "Struct" THEN field_memory_position(t, i) ELSE i

bool_storage_ty == IntT(8)
fat_ref_ty == StructT(<<PtrT, IntT(64)>>)
enum_stack_align(t) == Clamp8(t.align)
enum_blob_ty(t) ==
  IF t.size = 0 THEN UnitT
  ELSE StructT(<<ArrT(IntT(8 * enum_stack_align(t)), t.size \div enum_stack_align(t))>>)

union_blob_ty(n) == StructT(<<IF n = 0 THEN UnitT ELSE ArrT(IntT(8), n)>>)

RECURSIVE convert_ty(_), layout_size_of_ty(_), layout_align_of_ty(_), struct_like_field_offsets(_)

convert_ty(t) ==
  CASE t.k = "bool" -> bool_storage_ty
    [] t.k = "Int" -> IntT(t.w)
    [] t.k = "Float" -> FpT(t.n)
    [] t.k = "Ref" -> PtrT
    [] t.k = "Fat" -> fat_ref_ty
    [] t.k = "Unit" -> UnitT
    [] t.k = "Array" -> ArrT(convert_ty(t.e), t.n)
    [] t.k = "Struct" -> StructT([p \in DOMAIN t.ord |-> convert_ty(memory_ordered_fields(t)[p])])
    [] t.k = "Union" -> union_blob_ty(layout_size_of_ty(t))
    [] t.k = "Enum" -> enum_blob_ty(t)

\* The importer's own layout of a Rust type, for byte offsets.
struct_like_align(fs) ==
  Max({1} \union {layout_align_of_ty(fs[i]) : i \in {j \in DOMAIN fs : layout_size_of_ty(fs[j]) # 0}})

layout_align_of_ty(t) ==
  CASE t.k = "bool" -> 1
    [] t.k = "Int" -> Clamp8(Ceil8(t.w))
    [] t.k = "Float" -> t.n
    [] t.k \in {"Ref", "Fat"} -> 8
    [] t.k = "Unit" -> 1
    [] t.k = "Array" -> layout_align_of_ty(t.e)
    [] t.k = "Struct" -> struct_like_align(t.fs)
    [] t.k = "Union" -> 1
    [] t.k = "Enum" -> enum_stack_align(t)

OffsetAt(acc, off, size) == [off |-> off + size, out |-> Append(acc.out, off)]
OffsetSized(acc, ft, size) ==
  OffsetAt(acc, IF size = 0 THEN acc.off ELSE align_to(acc.off, layout_align_of_ty(ft)), size)
OffsetField(acc, ft) == OffsetSized(acc, ft, layout_size_of_ty(ft))

struct_like_field_offsets(fs) == FoldLeft(OffsetField, [off |-> 0, out |-> <<>>], fs).out

struct_like_end(fs, offs) ==
  Max({0} \union {offs[i] + layout_size_of_ty(fs[i]) : i \in {j \in DOMAIN fs : layout_size_of_ty(fs[j]) # 0}})
struct_like_size(fs) == align_to(struct_like_end(fs, struct_like_field_offsets(fs)), struct_like_align(fs))

layout_size_of_ty(t) ==
  CASE t.k = "bool" -> 1
    [] t.k = "Int" -> Ceil8(t.w)
    [] t.k = "Float" -> t.n
    [] t.k = "Ref" -> 8
    [] t.k = "Fat" -> 16
    [] t.k = "Unit" -> 0
    [] t.k = "Array" -> align_to(layout_size_of_ty(t.e), layout_align_of_ty(t.e)) * t.n
    [] t.k = "Struct" -> struct_like_size(memory_ordered_fields(t))
    [] t.k = "Union" -> Max({0} \union {layout_size_of_ty(t.fs[i]) : i \in DOMAIN t.fs})
    [] t.k = "Enum" -> t.size

\* Byte offset of a source field, for a place's address.
field_offset_of(t, i) ==
  IF t.k = "Union" THEN 0
  ELSE struct_like_field_offsets(memory_ordered_fields(t))[field_memory_position(t, i)]

indexed_elem_ty(t) == t.e
indexed_elem_size(t) == layout_size_of_ty(indexed_elem_ty(t))
=============================================================================
