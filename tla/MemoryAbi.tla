----------------------------- MODULE MemoryAbi -----------------------------
(***************************************************************************)
(* A value of some Rust type on its way through a compiled program: stored *)
(* and loaded whole or by field, built and taken apart, passed to blocks   *)
(* and functions, to code rustc compiled and back.  cur.r is the lowered   *)
(* value the selector holds; what it must mean is fixed by the type alone, *)
(* because after every step the bytes are renumbered in leaf order.  So a  *)
(* path of any length is a finite set of states.                           *)
(*                                                                         *)
(* Two more experiments share the module: an argument list walked by the   *)
(* caller and the callee together, and an enum's tag written and read.     *)
(***************************************************************************)
EXTENDS CallAbi

CONSTANTS Types,           \* Rust types a value may have, closed under fields
          Transmutes,      \* pairs of types a value may be transmuted between
          RustcReturned,   \* types a function compiled by rustc may return
          Encodings,       \* enum layouts
          DiscrBits,       \* width of a discriminant
          MaxStack,        \* bytes of stack arguments in a walk
          SplitPairs       \* may a 128-bit argument meet a half-full register file

VARIABLES mode,    \* "value", "walk" or "enum"
          target,  \* "aarch64" or "x86"
          cur,     \* the value: its Rust type t and its lowered form r
          stray,   \* has a store touched bytes outside its object
          walk,    \* the argument walks and the last locations
          tag      \* the enum's encoding, variant, tag and discriminant read

vars == <<mode, target, cur, stray, walk, tag>>

X86 == target = "x86"
Canary == -3
Idle == [none |-> TRUE]

----------------------------------------------------------------------------
(* What a value must mean: its leaves, as registers of numbered bytes.     *)

RECURSIVE LeafSizes(_)
LeafSizes(t) ==
  IF is_zero_sized_ty(t) THEN <<>>
  ELSE IF Wide(t) THEN <<8, 8>>
  ELSE IF is_aggregate_ty(t) THEN FlattenSeq([i \in DOMAIN struct_fields(t) |-> LeafSizes(struct_fields(t)[i])])
  ELSE <<scalar_size_of(t)>>

\* Where leaf i starts when leaves of these sizes follow one another.
LeafStart(sizes, i) == FoldLeft(LAMBDA a, b : a + b, 0, SubSeq(sizes, 1, i - 1))
NumberLeaves(sizes, base) ==
  [i \in DOMAIN sizes |-> [j \in 1 .. 8 |-> IF j <= sizes[i] THEN base + LeafStart(sizes, i) + j ELSE 0]]
LeavesFrom(t, base) == NumberLeaves(LeafSizes(t), base)
Leaves(t) == LeavesFrom(t, 0)

\* A parameter as a caller compiled by rustc leaves it: the bits above a
\* narrow integer are unspecified.
Unnormalized(ls) == [i \in DOMAIN ls |-> [j \in 1 .. 8 |-> IF ls[i][j] = 0 THEN Junk ELSE ls[i][j]]]

\* A value as a parameter of its type holds it.
Fresh(t, base) == block_arg_value(t, LeavesFrom(t, base))
Base == 1000                       \* numbers of other fields' bytes

\* Leaves of the p-th field of t among the leaves ls.
FieldLeaves(t, p, ls) == FieldRegs(struct_fields(t), p, ls)

\* Renumber the bytes of r: those of `leaves` become those of `own`.
RenameByte(x, places, own) ==
  IF x = 0 THEN 0
  ELSE IF places = {} THEN (IF x > 0 THEN Junk ELSE x)
  ELSE LET p == CHOOSE p \in places : TRUE IN own[p[1]][p[2]]
RenameBytes(b, leaves, own) ==
  [k \in DOMAIN b |->
     RenameByte(b[k], {p \in (DOMAIN leaves) \X (1 .. 8) : leaves[p[1]][p[2]] = b[k]}, own)]
RECURSIVE Rename(_, _, _)
Rename(r, leaves, own) ==
  CASE r.k = "Reg" -> [r EXCEPT !.b = RenameBytes(@, leaves, own)]
    [] r.k = "RegPair" -> RegPair(RenameBytes(r.lo, leaves, own), RenameBytes(r.hi, leaves, own))
    [] r.k = "Agg" -> Agg([i \in DOMAIN r.fs |-> Rename(r.fs[i], leaves, own)])
    [] OTHER -> r

\* An object of n bytes with canaries around it.
Object(n) == [o \in -8 .. (n + 7) |-> IF o \in 0 .. (n - 1) THEN Junk ELSE Canary]
Escapes(mem) == \E o \in DOMAIN mem : (o < 0 \/ o > Max(DOMAIN mem) - 8) /\ mem[o] # Canary

C(t) == convert_ty(t)
Become(t, r, leaves, mems) ==
  /\ cur' = [t |-> t, r |-> Rename(r, leaves, Leaves(C(t)))]
  /\ stray' = (stray \/ \E mem \in mems : Escapes(mem))
  /\ UNCHANGED <<mode, target, walk, tag>>

Store(mem, off, r, t) == IF X86 THEN X86store_memory(mem, off, r, t) ELSE store_memory(mem, off, r, t)
Load(mem, off, t) == IF X86 THEN X86load_memory(mem, off, t) ELSE load_memory(mem, off, t)
StoreSlot(mem, r, t) == IF X86 THEN X86store_stack_value(mem, 0, r, t) ELSE store_stack_value(mem, 0, r, t)
LoadSlot(mem, t) == IF X86 THEN X86load_stack_value(mem, 0, t) ELSE load_stack_value(mem, 0, t)
Gep(t, idx) == IF X86 THEN X86lower_gep(t, idx) ELSE lower_gep(t, idx)
Insert(a, p, v) == IF X86 THEN X86insert_aggregate_value(a, <<p>>, v) ELSE insert_aggregate_value(a, <<p>>, v)
Extract(a, p) == IF X86 THEN X86extract_aggregate_value(a, <<p>>) ELSE extract_aggregate_value(a, <<p>>)

Whole(r, c) == Store(Object(stack_size_of(c)), 0, r, c)
RECURSIVE HasFloat(_)
HasFloat(t) == ~NoFloat(t) \/ (is_aggregate_ty(t) /\ \E i \in DOMAIN struct_fields(t) : HasFloat(struct_fields(t)[i]))
ValueTypes == {t \in Types : X86 => ~HasFloat(C(t))}

----------------------------------------------------------------------------
(* Memory.                                                                 *)

\* A local's slot, or a place behind a pointer.
ThroughMemory ==
  /\ mode = "value"
  /\ \E c \in {C(cur.t)} :
       \/ \E mem \in {StoreSlot(Object(stack_size_of(c)), cur.r, c)} :
             Become(cur.t, LoadSlot(mem, c), Leaves(c), {mem})
       \/ \E mem \in {Whole(cur.r, c)} : Become(cur.t, Load(mem, 0, c), Leaves(c), {mem})

Fields(t) == IF t.k = "Struct" THEN DOMAIN t.fs ELSE IF t.k = "Array" THEN 1 .. t.n ELSE {}
FieldTy(t, i) == IF t.k = "Array" THEN t.e ELSE t.fs[i]
Position(t, i) == converted_field_index(t, i)
place_addr(t, i) == IF t.k = "Array" THEN (i - 1) * indexed_elem_size(t) ELSE field_offset_of(t, i)

\* load_place: a field-only projection loads the local and extracts; any
\* other place is addressed by byte offset.  A gep reaches the same field,
\* an array's also with a computed index.
try_load_field_projection(mem, c, p) == Extract(Load(mem, 0, c), p)
FieldPlaces(t, c, i) ==
  {[off |-> place_addr(t, i), ty |-> C(FieldTy(t, i))]}
  \union {Gep(c, [dyn |-> dyn, i |-> Position(t, i) - 1]) : dyn \in {FALSE, t.k = "Array"}}
FieldReads(mem, t, c, i) ==
  {try_load_field_projection(mem, c, Position(t, i))} \union {Load(mem, g.off, g.ty) : g \in FieldPlaces(t, c, i)}
ReadField ==
  /\ mode = "value"
  /\ \E i \in Fields(cur.t), c \in {C(cur.t)} : \E mem \in {Whole(cur.r, c)} : \E r \in FieldReads(mem, cur.t, c, i) :
       Become(FieldTy(cur.t, i), r, FieldLeaves(c, Position(cur.t, i), Leaves(c)), {mem})

\* The value becomes field i of a t whose other fields hold other values.
FieldValue(t, i, j) == IF j = i THEN cur.r ELSE Fresh(C(FieldTy(t, j)), Base * Position(t, j))
ContainerLeaves(fs, at) ==
  FlattenSeq([p \in DOMAIN fs |-> LeavesFrom(fs[p], IF p = at THEN 0 ELSE Base * p)])

\* Rvalue::Aggregate: from undef, operand by operand.
aggregate_rvalue(t, operands) ==
  FoldLeft(LAMBDA acc, j : Insert(acc, Position(t, j), operands[j]), Undef, [j \in DOMAIN operands |-> j])

\* store_place of a field projection: load, insert, store back whole.
store_field_projection(mem, c, p) == Store(mem, 0, Insert(Load(mem, 0, c), p, cur.r), c)

\* Into memory: field by field, or one field of a whole already there.  The
\* objects written, the container last.
FieldWrites(t, c, i, operands) ==
  {<<FoldLeft(LAMBDA m, j : Store(m, place_addr(t, j), operands[j], C(FieldTy(t, j))),
              Object(stack_size_of(c)), SetToSeq(Fields(t)))>>}
  \union {<<before, store_field_projection(before, c, Position(t, i))>> :
             before \in {Whole(aggregate_rvalue(t, [operands EXCEPT ![i] = FieldValue(t, 0, i)]), c)}}

WriteField ==
  /\ mode = "value"
  /\ \E t \in ValueTypes : \E i \in {j \in Fields(t) : FieldTy(t, j) = cur.t} :
     \E c \in {C(t)}, operands \in {[j \in Fields(t) |-> FieldValue(t, i, j)]} :
     \E leaves \in {ContainerLeaves(struct_fields(c), Position(t, i))} :
       \/ Become(t, aggregate_rvalue(t, operands), leaves, {})
       \/ \E mems \in FieldWrites(t, c, i, operands) : Become(t, Load(Last(mems), 0, c), leaves, ToSet(mems))

\* A union holds the bytes of the field last written; an enum's payload sits
\* at its own offset.  The blob is moved whole and read back.
ThroughBlob ==
  /\ mode = "value"
  /\ \E t \in {u \in ValueTypes : u.k \in {"Union", "Enum"}} :
       \E off \in IF t.k = "Union" THEN {0} ELSE {align_to(1, RustcAlign(cur.t))} :
         /\ t.k = "Union" => \E i \in DOMAIN t.fs : t.fs[i] = cur.t
         /\ off + RustcSize(cur.t) <= RustcSize(t)
         /\ RustcAlign(cur.t) <= RustcAlign(t)
         /\ \E c \in {C(cur.t)}, blob \in {C(t)} :
            \E mem \in {Store(Object(stack_size_of(blob)), off, cur.r, c)} :
            \E copy \in {Whole(Load(mem, 0, blob), blob)} :
               Become(cur.t, Load(copy, off, c), Leaves(c), {mem, copy})

----------------------------------------------------------------------------
(* Reshaping.                                                              *)

\* A bitcast keeps the registers and the uses adapt them: a one-field
\* wrapper is put on or taken off.
Bitcast ==
  /\ mode = "value"
  /\ \E t \in ValueTypes :
       /\ \/ t.k = "Struct" /\ Len(t.fs) = 1 /\ t.fs[1] = cur.t
          \/ cur.t.k = "Struct" /\ Len(cur.t.fs) = 1 /\ cur.t.fs[1] = t
       /\ Become(t, IF X86 THEN X86adapt_value_to_type(cur.r, C(t)) ELSE adapt_value_to_type(cur.r, C(t)),
                 Leaves(C(cur.t)), {})

\* rustc's image of a value: byte at each offset.
ImageLeaves(sizes, off, ls) ==
  UNION {{<<off + LeafStart(sizes, i) + j - 1, ls[i][j]>> : j \in 1 .. sizes[i]} : i \in DOMAIN sizes}
RECURSIVE Image(_, _, _)
Image(t, off, ls) ==
  CASE t.k = "Struct" ->
         UNION {Image(t.fs[i], off + RustcOffsets(t).at[i], FieldLeaves(C(t), Position(t, i), ls)) : i \in DOMAIN t.fs}
    [] t.k = "Array" ->
         UNION {Image(t.e, off + (i - 1) * RustcSize(t.e), FieldLeaves(C(t), i, ls)) : i \in 1 .. t.n}
    [] OTHER -> ImageLeaves(LeafSizes(C(t)), off, ls)

Filled(img, n) ==
  [o \in 0 .. (8 * Words(n) - 1) |-> IF \E p \in img : p[1] = o THEN (CHOOSE p \in img : p[1] = o)[2] ELSE Junk]
ImageMem(t, ls) == Filled(Image(t, 0, ls), RustcSize(t))

\* The leaves ls, found by their own image, read from another.
LeavesIn(ls, probe, mem) ==
  [i \in DOMAIN ls |->
     [j \in 1 .. 8 |-> IF ls[i][j] = 0 THEN 0 ELSE mem[CHOOSE o \in DOMAIN probe : probe[o] = ls[i][j]]]]

Transmute ==
  /\ mode = "value"
  /\ \E p \in {q \in Transmutes : q[1] = cur.t} : \E c \in {C(p[2])} :
     \E mem \in {Whole(import_transmute(cur.r, cur.t, p[2]), c)} :
     \E img \in {[n \in 1 .. 2 |-> ImageMem(p[n], Leaves(C(p[n])))]} :
       Become(p[2], Load(mem, 0, c), LeavesIn(Leaves(c), img[2], img[1]), {mem})

----------------------------------------------------------------------------
(* Blocks and calls.                                                       *)

PassBlockArgument ==
  /\ mode = "value"
  /\ \E regs \in {IF X86 THEN X86flatten_incoming(cur.r, C(cur.t)) ELSE flatten_incoming(cur.r, C(cur.t))} :
        /\ Len(regs) = LeafCount(C(cur.t))
        /\ Become(cur.t, IF X86 THEN X86block_arg_value(C(cur.t), regs) ELSE block_arg_value(C(cur.t), regs),
                  Leaves(C(cur.t)), {})

\* The callee leaves the result where its ABI says, the caller looks where
\* its own rule says.
Returned(t, slot) == IF X86 THEN X86emit_return_value(cur.r, t, X86assign_result(t), slot)
                     ELSE emit_return_value(cur.r, t, assign_result(t), slot)
ReturnFromCall ==
  /\ mode = "value"
  /\ \E t \in {C(cur.t)} : \E ret \in {Returned(t, Object(stack_size_of(t)))} :
       Become(cur.t, call_result(t, IF X86 THEN X86result_location_for_type(t) ELSE result_location_for_type(t), ret),
              Leaves(t), {ret.slot})

\* One argument, into the parameter's local.  Leaves arrive in registers or
\* on the stack.
ArriveLeaves(args, leaves, onStack) ==
  reassemble_abi_arg([i \in DOMAIN leaves |-> arrive(args[i], leaves[i].ty, onStack)], leaves)
ArriveAs(leaves, c, r, onStack) ==
  IF leaves = Indirect THEN load_memory(lower_abi_call_arg_indirect(Object(stack_size_of(c)), r, c), 0, c)
  ELSE ArriveLeaves(lower_abi_call_arg(r, leaves), leaves, onStack)
Arrived(c, r, onStack) == ArriveAs(arg_abi_for_ty(c), c, r, onStack)

PassArgument ==
  /\ mode = "value"
  /\ \E c \in {C(cur.t)}, onStack \in BOOLEAN :
       /\ stack_size_of(c) # 0
       /\ \E local \in {Whole(Arrived(c, cur.r, onStack), c)} : Become(cur.t, Load(local, 0, c), Leaves(c), {local})

\* A "rust-call" tuple: each element is an argument of its own.
PassSpread ==
  /\ mode = "value"
  /\ cur.t.k = "Struct"
  /\ \E elems \in {[i \in DOMAIN cur.t.fs |->
                      IF layout_size_of_ty(cur.t.fs[i]) = 0 THEN Undef
                      ELSE Arrived(C(cur.t.fs[i]), Extract(cur.r, Position(cur.t, i)), FALSE)]} :
     \E c \in {C(cur.t)} : \E local \in {Whole(aggregate_rvalue(cur.t, elems), c)} :
       Become(cur.t, Load(local, 0, c), Leaves(c), {local})

\* A call into rustc's code that returns its argument.  rustc rebuilds the
\* image from what it is passed and returns it its own way.
ArgumentBytes(a) == IF Wide(a[1]) THEN FlattenSeq(materialize_pair(a[2])) ELSE materialize_typed(a[2], a[1])
Scattered(none, args, offs, size) ==
  FoldLeft(LAMBDA mem, i : WriteBytes(mem, offs[i], ArgumentBytes(args[i]),
                                      IF size # 0 THEN size ELSE scalar_size_of(args[i][1])),
           none, [i \in DOMAIN offs |-> i])
RustcReceives(t, c, r, how, n) ==
  IF how = "Indirect" THEN lower_abi_call_arg_indirect(Slot(8 * Words(n)), r, c)
  ELSE Scattered(Slot(8 * Words(n)), lower_rust_abi_call_arg(t, r),
                 IF how = "Cast" THEN <<0>> ELSE [i \in DOMAIN RustcRepr(t) |-> RustcRepr(t)[i][1]],
                 IF how = "Cast" THEN n ELSE 0)

ReturnedScalar(img, off, n) == [j \in 1 .. 8 |-> IF j <= n THEN img[off + j - 1] ELSE Junk]
ReturnedPart(img, p) ==                            \* floats come back in d0, d1
  IF p[2].k = "fp" THEN Unset ELSE ReturnedScalar(img, p[1], scalar_size_of(p[2]))
ReturnedRegs(img, pass, repr) ==
  IF pass = "Cast" THEN <<ReadBytes(img, 0, 8), Unset>>
  ELSE IF Len(repr) = 1 /\ Wide(repr[1][2]) THEN <<ReadBytes(img, 0, 8), ReadBytes(img, 8, 8)>>
  ELSE [i \in 1 .. 2 |-> IF i \in DOMAIN repr THEN ReturnedPart(img, repr[i]) ELSE Unset]
RustcReturns(t, img, pass, n) ==
  IF pass = "Indirect"
  THEN [regs |-> <<Unset, Unset>>,
        slot |-> [o \in 0 .. (8 * Max({3, Words(n)}) - 1) |-> IF o < n THEN img[o] ELSE Junk]]
  ELSE [regs |-> ReturnedRegs(img, pass, RustcRepr(t)), slot |-> <<>>]

CallRustc ==
  /\ mode = "value"
  /\ target = "aarch64"
  /\ cur.t \in RustcReturned /\ layout_sensitive(cur.t)
  /\ \E t \in {cur.t}, c \in {C(cur.t)}, n \in {RustcSize(cur.t)} :
     \E img \in {RustcReceives(t, c, cur.r, rust_abi_args(t), n)} :
     \E blob \in {external_result(t, RustcReturns(t, img, RustcPass(t), n))} :
     \E local \in {Whole(load_value_from_real_layout(blob, 0, t), c)} :
        /\ img # <<>>
        /\ Become(t, Load(local, 0, c), Leaves(c), {local})

----------------------------------------------------------------------------
(* Argument walks.                                                         *)

PairFits ==
  IF X86 THEN walk.callee.g + 2 <= ArgGprs
  ELSE walk.callee.g <= 6 /\ (requires_even_gpr_pairs(walk.os) => walk.callee.g % 2 = 0)

NextArgument(class) ==
  /\ mode = "walk"
  /\ walk.caller.s < MaxStack
  /\ class = "Float" => ~X86
  /\ class = "Pair" => SplitPairs \/ PairFits
  /\ LET caller == IF X86 THEN X86caller_arg(walk.caller, class) ELSE caller_arg(walk.caller, class)
         callee == IF X86 THEN assign_darwin_abi(walk.callee, class) ELSE assign_abi(walk.os, walk.callee, class)
     IN walk' = [walk EXCEPT !.caller = caller.w, !.callee = callee.w,
                             !.area = IF X86 THEN caller.w ELSE outgoing_stack_bytes_for_call(@, class),
                             !.sent = caller.locs, !.expected = callee.locs]
  /\ UNCHANGED <<mode, target, cur, stray, tag>>

----------------------------------------------------------------------------
(* Enum tags.                                                              *)

\* Data the untagged variant may leave in the tag's place: no niche value.
NicheValues(e) == {(e.start + i) % 2^e.tagBits : i \in 0 .. (e.last - e.first)}
Construct ==
  /\ mode = "enum" /\ tag = Idle
  /\ \E e \in Encodings : \E v \in e.variants :
       \E data \in IF e.direct THEN {0} ELSE 0 .. (2^e.tagBits - 1) \ NicheValues(e) :
         tag' = [e |-> e, v |-> v, read |-> read_enum_discriminant(e, write_enum_tag(e, v, data), DiscrBits)]
  /\ UNCHANGED <<mode, target, cur, stray, walk>>

----------------------------------------------------------------------------
Init ==
  /\ mode \in {"value", "walk", "enum"}
  /\ target \in {"aarch64", "x86"}
  /\ stray = FALSE
  /\ tag = Idle
  /\ IF mode = "value"
     THEN \E t \in ValueTypes : cur \in [t : {t}, r : {Fresh(C(t), 0), block_arg_value(C(t), Unnormalized(Leaves(C(t))))}]
     ELSE cur = Idle
  /\ IF mode = "walk"
     THEN \E os \in {"linux", "darwin"}, base \in {0, 1} :
            /\ (target = "aarch64" => base = 0)
            /\ walk = [os |-> os, caller |-> Walk0(base), callee |-> Walk0(base), area |-> Walk0(base),
                       sent |-> <<>>, expected |-> <<>>]
     ELSE walk = Idle

Next ==
  \/ ThroughMemory \/ ReadField \/ WriteField \/ ThroughBlob \/ Bitcast \/ Transmute
  \/ PassBlockArgument \/ ReturnFromCall \/ PassArgument \/ PassSpread \/ CallRustc
  \/ \E class \in {"Int", "Float", "Pair"} : NextArgument(class)
  \/ Construct

Spec == Init /\ [][Next]_vars

----------------------------------------------------------------------------
(* Whatever was done to a value, its leaves still read as the bytes it was *)
(* given: the selector never refuses it, mixes fields, or leaves part of a *)
(* register unmasked (isel_memory_abi.rs, abi.rs, place.rs, layout.rs).    *)
ValueSurvives ==
  mode = "value" => flatten_incoming(cur.r, C(cur.t)) = Leaves(C(cur.t))

(* No store writes a byte outside the object it was given, whichever of    *)
(* the layouts placed the object (store_stack_value and its callers).      *)
StoresStayInBounds == ~stray

(* The caller puts every word of every argument where the callee looks for *)
(* it, and the area it reserved for stack arguments holds them all (the    *)
(* debug_assert of the call arm; "mirroring `assign_abi`").                *)
ArgumentsArrive ==
  mode = "walk" => /\ walk.sent = walk.expected
                   /\ align_to_16(walk.caller.s) <= align_to_16(walk.area.s)

(* The discriminant read from a constructed enum is the variant's, with    *)
(* niches that wrap around the tag's width (convert.rs).                   *)
DiscriminantReadsBack ==
  tag # Idle => tag.read = IF tag.e.direct THEN tag.e.discr[tag.v] % 2^DiscrBits ELSE tag.v
=============================================================================
