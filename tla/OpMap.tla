------------------------------- MODULE OpMap -------------------------------
(***************************************************************************)
(* The attribution the passes stamp on the operations they create          *)
(* (passes/aarch64/opmap.rs): which operation of the source a later        *)
(* operation was made for.  A function is a sequence of blocks, a block    *)
(* has a label and a sequence of operations.  `origin` is not in the code: *)
(* it records for which source operations an operation really was made,    *)
(* and only the properties look at it.                                     *)
(***************************************************************************)
EXTENDS Integers, Sequences, FiniteSets, SequencesExt, FiniteSetsExt

None == -99

\* The roots of code that was made from nothing.
ISEL_ABI == -1
REGALLOC == -2
FRAME == -3
UNATTRIBUTED == -5

Block(label, ops) == [label |-> label, ops |-> ops]

\* An operation as a pass builds it: it carries no attribution yet.
BareOp(kind, name, origin) ==
  [kind |-> kind, name |-> name, id |-> None, from |-> None,
   many |-> {}, call |-> None, origin |-> origin]

Positions(f) == UNION {{b} \X (1..Len(f[b].ops)) : b \in 1..Len(f)}

OpAt(f, at) == f[at[1]].ops[at[2]]

\* Program order.
Precedes(p, at) == p[1] < at[1] \/ (p[1] = at[1] /\ p[2] < at[2])

\* How many of some positions come before one.
CountBefore(places, at) == Cardinality({p \in places : Precedes(p, at)})

InOrder(f) ==
  FlattenSeq([b \in 1..Len(f) |-> [i \in 1..Len(f[b].ops) |-> <<b, i>>]])

\* Every operation of a function replaced by what Change makes of it.
EachOp(f, Change(_)) ==
  [b \in 1..Len(f) |->
     [f[b] EXCEPT !.ops = [i \in 1..Len(f[b].ops) |-> Change(<<b, i>>)]]]

set_derived_from(op, from) == [op EXCEPT !.from = from]

set_derived_from_many(op, ids) ==
  IF Cardinality(ids) = 1
    THEN set_derived_from(op, CHOOSE id \in ids : TRUE)
    ELSE [op EXCEPT !.many = ids]

set_inlined_from(op, callsite) == [op EXCEPT !.call = callsite]

\* Mutant of effective_sources: an inlined operation's own id comes first.
effective_sources_IdFirst(op) ==
  IF op.many # {} THEN op.many
  ELSE IF op.from # None THEN {op.from}
  ELSE IF op.id # None THEN {op.id}
  ELSE {op.call} \ {None}

\* The source operations an operation stands for, by the attribute that
\* takes precedence.
effective_sources(op) ==
  IF op.many # {} THEN op.many
  ELSE IF op.from # None THEN {op.from}
  ELSE IF op.call # None THEN {op.call}
  ELSE {op.id} \ {None}

has_attribution(op) ==
  op.many # {} \/ op.from # None \/ op.call # None \/ op.id # None

derive_new_from(new, source) ==
  IF has_attribution(new) \/ effective_sources(source) = {} THEN new
  ELSE set_derived_from_many(new, effective_sources(source))

\* The operations that lead to a value, each using the one before: the ones
\* after the last attributed one are stamped.
derive_chain_from(ops, source) ==
  LET stopped == Max({0} \union {i \in 1..Len(ops) : has_attribution(ops[i])})
  IN [i \in 1..Len(ops) |->
        IF i > stopped THEN derive_new_from(ops[i], source) ELSE ops[i]]

stamp_expansion_before(ops, anchor) ==
  [i \in 1..Len(ops) |-> derive_new_from(ops[i], anchor)]

\* A clone gives up the identity it copied and names its original's sources.
stamp_clone(original, name) ==
  LET bare == BareOp(original.kind, name, original.origin)
  IN IF effective_sources(original) = {} THEN bare
     ELSE set_derived_from_many(bare, effective_sources(original))

\* A survivor of value numbering absorbs the identity of what it replaces.
absorb(surviving, erased) ==
  LET kept == effective_sources(surviving)
      gone == effective_sources(erased)
      both == [surviving EXCEPT !.origin = @ \union erased.origin]
  IN IF kept = {} \/ gone = {} THEN both
     ELSE set_derived_from_many(both, kept \union gone)

\* Dense ids in program order, at the head of the mid-end.
assign_op_ids(f) ==
  EachOp(f, LAMBDA at : [OpAt(f, at) EXCEPT !.id = CountBefore(Positions(f), at)])

\* An operation of the function itself that has had an id since the head.
Keeps(op) == op.id # None /\ op.call = None

KeptIds(f) == {OpAt(f, at).id : at \in {p \in Positions(f) : Keeps(OpAt(f, p))}}

\* The next number above the kept ids, for the operations without one in order.
fresh(f, at) ==
  Max(KeptIds(f) \union {-1}) + 1 + CountBefore({p \in Positions(f) : ~Keeps(OpAt(f, p))}, at)

\* Mutant of assign_boundary_ids: inlined operations keep their ids too.
assign_boundary_ids_KeepsInlined(f) ==
  LET kept == {OpAt(f, at).id : at \in Positions(f)}
  IN EachOp(f, LAMBDA at :
       IF OpAt(f, at).id # None THEN OpAt(f, at)
       ELSE [OpAt(f, at) EXCEPT !.id = Max(kept \union {-1}) + 1 + CountBefore(Positions(f), at)])

\* At the boundary an operation keeps the id of the mid-end's head unless it
\* was inlined; the others are numbered above the largest kept id.
assign_boundary_ids(f) ==
  IF \A at \in Positions(f) : OpAt(f, at).id = None
    THEN assign_op_ids(f)
    ELSE EachOp(f, LAMBDA at :
           IF Keeps(OpAt(f, at)) THEN OpAt(f, at)
           ELSE [OpAt(f, at) EXCEPT !.id = fresh(f, at)])

\* A new machine operation takes the attribution of its anchor.
inherit_derived_from(anchor, op, fallback, stamping) ==
  IF anchor.from # None THEN set_derived_from(op, anchor.from)
  ELSE IF stamping THEN set_derived_from(op, fallback) ELSE op

stamp_ops_after(ops, tail, from) ==
  [i \in 1..Len(ops) |->
     IF i > tail /\ ops[i].from = None THEN set_derived_from(ops[i], from) ELSE ops[i]]

(***************************************************************************)
(* IselStamper: everything a lowering appends to the current block, or     *)
(* puts into blocks it creates, between two begins belongs to the source   *)
(* operation of the first.                                                 *)
(***************************************************************************)
NoBracket == [block |-> 0, tail |-> 0, from |-> None]

IselStamper(blocks, enabled) ==
  [blocks |-> blocks, enabled |-> enabled, known |-> 1..Len(blocks), pending |-> NoBracket]

preamble(s) ==
  IF s.enabled THEN [s EXCEPT !.blocks[1].ops = stamp_ops_after(@, 0, ISEL_ABI)] ELSE s

close(s) ==
  LET stamped(t, b) ==
        [t EXCEPT !.blocks[b].ops =
           stamp_ops_after(@, IF b \in s.known THEN s.pending.tail ELSE 0, s.pending.from)]
      touched == {s.pending.block} \union ((1..Len(s.blocks)) \ s.known)
  IN IF s.pending = NoBracket THEN s
     ELSE [FoldSet(LAMBDA b, t : stamped(t, b), s, touched)
             EXCEPT !.known = 1..Len(s.blocks), !.pending = NoBracket]

begin(s, block, source) ==
  IF ~s.enabled THEN s
  ELSE [close(s) EXCEPT !.pending =
          [block |-> block, tail |-> Len(s.blocks[block].ops),
           from |-> IF source = None THEN UNATTRIBUTED ELSE source]]

finish(s) == IF s.enabled THEN close(s) ELSE s
=============================================================================
