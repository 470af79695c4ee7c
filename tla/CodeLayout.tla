----------------------------- MODULE CodeLayout -----------------------------
(***************************************************************************)
(* How a machine function becomes bytes: block placement, the choice of a *)
(* fall-through for every branch, block offsets, and the displacement      *)
(* fields of the branches; then the bytes run next to the function they    *)
(* were made from.                                                         *)
(*                                                                         *)
(* "aarch64" keeps two-way terminators to the end and picks the words of a *)
(* branch while encoding, from the block that follows in the layout        *)
(* (branch_words).  "x86_64" keeps one-way branches in the block, makes    *)
(* every fall-through a jmp before placing, and erases or inverts branches *)
(* after placing (simplify_branches_for_layout), so the pass can meet its  *)
(* own output; Passes bounds how often it does.                            *)
(*                                                                         *)
(* Abstracted: the edge and block frequencies only decide which successor  *)
(* a chain takes, so a placement step takes any successor the code could   *)
(* prefer.  A frequency is read once per chain step, and restarts read the *)
(* block frequencies in decreasing order, so every sequence of choices     *)
(* belongs to some frequencies.  An instruction other than a branch is an  *)
(* "op" with a length; what it computes is left out.                       *)
(***************************************************************************)
EXTENDS Integers, Sequences, FiniteSets

CONSTANTS
    NBlocks,        \* how many blocks the function has
    Functions,      \* Blocks -> terminators, the functions placed
    OpCounts,       \* Blocks -> number of ops before the terminator
    Base,           \* function_offset: where the function starts
    OpLen,          \* bytes of an x86-64 op (aarch64: one word)
    BBits,          \* width of the displacement of b and bl, in words
    CondBits,       \* width of the displacement of b.cond and cbnz, in words
    RelBits,        \* width of an x86-64 displacement, in bytes
    Passes          \* how often the placement pass may run

Blocks == 0 .. NBlocks - 1
Entry == 0
NoBlock == -1       \* what follows the last block of a layout

(* A terminator: ret, b/jmp t, b_cond/jcc t else n, cbnz/test_jnz t else n. *)
Terminators ==
    [kind : {"ret", "b", "bcond", "cbnz"}, t : Blocks, n : Blocks]

ASSUME LayoutAssumption ==
    /\ NBlocks \in Nat \ {0}
    /\ Functions \subseteq [Blocks -> Terminators]
    /\ OpCounts \subseteq [Blocks -> Nat]
    /\ Base \in Nat /\ OpLen \in Nat \ {0}

(* The powers of two of the displacement fields, as numbers: arithmetic the *)
(* provers do not have.                                                     *)
ASSUME FieldsAssumption ==
    \A w \in {BBits, CondBits, RelBits} :
        /\ w \in Nat \ {0} /\ 2^(w - 1) \in Nat \ {0}
        /\ 2^w = 2 * 2^(w - 1)

VARIABLES
    isa,        \* "aarch64" or "x86_64"
    src,        \* the function as instruction selection left it
    ops,        \* how many ops each block has
    conds,      \* x86-64: the block's conditional branches, at most one here
    end,        \* x86-64: how the block ends: jmp t, exit, or "falls"
    layout,     \* the blocks in region order
    order,      \* chain_order's result so far, <<>> when it is not running
    passes,     \* placement passes begun
    step,       \* "place", "simplify", "encode", "run", "done", "error"
    mem,        \* address -> decoded instruction, the bytes of the function
    laid,       \* how many blocks of the layout block_offsets has passed
    offset,     \* block_offsets
    at, k,      \* the block the source is in, and its next instruction
    cond,       \* the truth of the block's condition, met at its branch
    pc          \* the machine's program counter

layoutVars == <<isa, src, ops, conds, end, layout, order, passes, step, laid,
                offset, mem, at, k, cond, pc>>
passVars == <<isa, src, ops>>
encodeVars == <<laid, offset, mem>>
runVars == <<at, k, cond, pc>>
-----------------------------------------------------------------------------
(* Instructions: what the blocks hold once the branches are machine ones.   *)

Instr(kind, neg, to) == [kind |-> kind, neg |-> neg, to |-> to]

Op == Instr("op", FALSE, NoBlock)

(* Source semantics of a terminator: the block control reaches. *)
Successor(term, c) ==
    IF term.kind = "b" \/ c THEN term.t ELSE term.n

(* machine_cfg_edges: the targets of a block's branches. *)
SourceTargets(term) ==
    IF term.kind = "ret" THEN {}
    ELSE IF term.kind = "b" THEN {term.t} ELSE {term.t, term.n}

(* Instruction selection on x86-64: a conditional branch to the true edge, *)
(* then a jmp to the false edge.                                           *)
SelectConds(term) ==
    IF term.kind = "bcond" THEN <<Instr("jcc", FALSE, term.t)>>
    ELSE IF term.kind = "cbnz" THEN <<Instr("jnz", FALSE, term.t)>>
    ELSE << >>

Jmp(t) == Instr("jmp", FALSE, t)
Exit == Instr("ret", FALSE, NoBlock)
Falls == Instr("falls", FALSE, NoBlock)

SelectEnd(term) ==
    IF term.kind = "ret" THEN Exit
    ELSE IF term.kind = "b" THEN Jmp(term.t) ELSE Jmp(term.n)

(* The block after the i-th of a layout. *)
NextInLayout(l, i) == IF i < Len(l) THEN l[i + 1] ELSE NoBlock

PositionOf(l, b) == CHOOSE i \in 1..Len(l) : l[i] = b

Following(l, b) == NextInLayout(l, PositionOf(l, b))
-----------------------------------------------------------------------------
(* Placement.                                                               *)

(* An x86-64 block with no jmp and no exit falls through: its successor is  *)
(* the next block, and materialize_fallthrough_branches says so with a jmp. *)
MaterializedEnd(ends, l, b) ==
    IF ends[b] = Falls /\ Following(l, b) # NoBlock
    THEN Jmp(Following(l, b))
    ELSE ends[b]

Materialize(ends, l) == [b \in Blocks |-> MaterializedEnd(ends, l, b)]

BlockTargets(b) ==
    IF isa = "aarch64"
    THEN SourceTargets(src[b])
    ELSE {conds[b][i].to : i \in DOMAIN conds[b]}
             \cup (IF end[b].kind = "jmp" THEN {end[b].to} ELSE {})

Unplaced == {b \in Blocks : \A i \in DOMAIN order : order[i] # b}

(* place_blocks, phases 0 and 1, and the start of chain_order at the entry. *)
BeginPass ==
    /\ step = "place"
    /\ order = << >>
    /\ passes' = passes + 1
    /\ end' = IF isa = "x86_64" THEN Materialize(end, layout) ELSE end
    /\ order' = <<layout[1]>>
    /\ UNCHANGED <<passVars, conds, layout, step, encodeVars, runVars>>

(* chain_order: the preferred unplaced successor, or, when the chain dies   *)
(* out, the hottest unplaced block.                                         *)
Candidates(current) ==
    IF BlockTargets(current) \cap Unplaced # {}
    THEN BlockTargets(current) \cap Unplaced
    ELSE Unplaced

PlaceNext ==
    /\ step = "place"
    /\ order # << >>
    /\ \E b \in Candidates(order[Len(order)]) : order' = Append(order, b)
    /\ UNCHANGED <<passVars, conds, end, layout, passes, step,
                   encodeVars, runVars>>

(* place_blocks, phase 3: relink the blocks in chain order. *)
ApplyLayout ==
    /\ step = "place"
    /\ order # << >> /\ Unplaced = {}
    /\ layout' = order
    /\ order' = << >>
    /\ step' = IF isa = "x86_64" THEN "simplify" ELSE "encode"
    /\ UNCHANGED <<passVars, conds, end, passes, encodeVars, runVars>>

(* simplify_branches_for_layout, on the block followed by next.             *)
JmpFallsThrough(b, next) == end[b].kind = "jmp" /\ end[b].to = next

Invertible(b, next) ==
    /\ end[b].kind = "jmp" /\ end[b].to # next
    /\ Len(conds[b]) = 1
    /\ conds[b][1].kind = "jcc"
    /\ conds[b][1].to = next

SimplifiedEnd(b, next) ==
    IF next # NoBlock /\ (JmpFallsThrough(b, next) \/ Invertible(b, next))
    THEN Falls
    ELSE end[b]

\* Mutant of InvertedJcc: the condition is inverted, the target is not swapped.
InvertedSameTarget(b) == Instr("jcc", ~conds[b][1].neg, conds[b][1].to)

InvertedJcc(b) == Instr("jcc", ~conds[b][1].neg, end[b].to)

SimplifiedConds(b, next) ==
    IF next # NoBlock /\ Invertible(b, next)
    THEN <<InvertedJcc(b)>>
    ELSE conds[b]

Simplify ==
    /\ step = "simplify"
    /\ end' = [b \in Blocks |-> SimplifiedEnd(b, Following(layout, b))]
    /\ conds' = [b \in Blocks |-> SimplifiedConds(b, Following(layout, b))]
    /\ step' \in {"encode"} \cup (IF passes < Passes THEN {"place"} ELSE {})
    /\ UNCHANGED <<passVars, layout, order, passes, encodeVars, runVars>>
-----------------------------------------------------------------------------
(* Encoding.                                                                *)

(* branch_words: the words of an aarch64 terminator, given the next block.  *)
BranchWords(term, next) ==
    IF term.kind = "ret" THEN <<Exit>>
    ELSE IF term.kind = "b"
         THEN IF term.t = next THEN << >> ELSE <<Jmp(term.t)>>
    ELSE IF term.kind = "cbnz"
         THEN <<Instr("jnz", FALSE, term.t)>>
              \o (IF term.n = next THEN << >> ELSE <<Jmp(term.n)>>)
    ELSE IF term.n = next THEN <<Instr("jcc", FALSE, term.t)>>
    ELSE IF term.t = next THEN <<Instr("jcc", TRUE, term.n)>>
    ELSE <<Instr("jcc", FALSE, term.t), Jmp(term.n)>>

(* The instructions of block b: its ops, then its branches. *)
Branches(b) ==
    IF isa = "aarch64"
    THEN BranchWords(src[b], Following(layout, b))
    ELSE conds[b] \o (IF end[b] = Falls THEN << >> ELSE <<end[b]>>)

CodeLen(b) == ops[b] + Len(Branches(b))

InstrAt(b, j) == IF j <= ops[b] THEN Op ELSE Branches(b)[j - ops[b]]

(* byte_len_for and inst_len: encoded lengths, in bytes. *)
InstrLen(i) ==
    IF isa = "aarch64" THEN 4
    ELSE IF i.kind = "op" THEN OpLen
    ELSE IF i.kind = "ret" THEN 1
    ELSE IF i.kind = "jmp" THEN 5
    ELSE IF i.kind = "jcc" THEN 6
    ELSE 9

(* The address of the j-th instruction of b when b starts at a: the lengths *)
(* of the instructions before it.  A block has two branches at most.        *)
InstrAddress(b, a, j) ==
    IF j <= ops[b] + 1 THEN a + (j - 1) * InstrLen(Op)
    ELSE a + ops[b] * InstrLen(Op) + InstrLen(Branches(b)[1])
           + (IF j = ops[b] + 2 THEN 0 ELSE InstrLen(Branches(b)[2]))

CodeSize(b) == InstrAddress(b, 0, CodeLen(b) + 1)

NextOffset ==
    IF laid = 0 THEN Base
    ELSE offset[layout[laid]] + CodeSize(layout[laid])

(* block_offsets: each block after the ones before it in the layout. *)
BlockOffsets ==
    /\ step = "encode"
    /\ laid < Len(layout)
    /\ offset' = [offset EXCEPT ![layout[laid + 1]] = NextOffset]
    /\ laid' = laid + 1
    /\ UNCHANGED <<passVars, conds, end, layout, order, passes, step, mem,
                   runVars>>

(* encode_b, encode_b_cond, encode_cbnz and rel32: the displacement to the  *)
(* target, from the instruction on aarch64 and from its end on x86-64, in   *)
(* words or bytes; an error when it does not fit the field.                 *)
FieldBits(i) ==
    IF isa = "x86_64" THEN RelBits
    ELSE IF i.kind = "jmp" THEN BBits ELSE CondBits

Displacement(i, target, a) ==
    IF isa = "aarch64" THEN (target - a) \div 4
    ELSE target - a - InstrLen(i)

IsBranch(i) == i.kind \in {"jmp", "jcc", "jnz"}

\* Mutant of InRange: the first displacement that wraps is accepted.
InRangeOffByOne(delta, bits) == delta \in -(2^(bits - 1)) .. 2^(bits - 1)

InRange(delta, bits) == delta \in -(2^(bits - 1)) .. 2^(bits - 1) - 1

Fits(i, target, a) ==
    IsBranch(i) => InRange(Displacement(i, target, a), FieldBits(i))

Encoded(i, target, a) ==
    [kind |-> i.kind, neg |-> i.neg,
     imm |-> IF IsBranch(i)
             THEN Displacement(i, target, a) % 2^FieldBits(i)
             ELSE 0]

(* Every instruction: <<block, index>>. *)
Places == UNION {{b} \X (1..CodeLen(b)) : b \in Blocks}

AddressOf(p) == InstrAddress(p[1], offset[p[1]], p[2])

TargetOffset(i) == IF IsBranch(i) THEN offset[i.to] ELSE 0

PlaceFits(p) ==
    LET i == InstrAt(p[1], p[2]) IN Fits(i, TargetOffset(i), AddressOf(p))

EncodedPlace(p) ==
    LET i == InstrAt(p[1], p[2]) IN Encoded(i, TargetOffset(i), AddressOf(p))

(* Aarch64EncodePass and X86_64EncodePass: encode each instruction at its   *)
(* address, or fail on a branch out of range.                               *)
Encode ==
    /\ step = "encode"
    /\ laid = Len(layout)
    /\ IF \A p \in Places : PlaceFits(p)
       THEN /\ mem' = [a \in {AddressOf(p) : p \in Places} |->
                          EncodedPlace(CHOOSE p \in Places : AddressOf(p) = a)]
            /\ step' = "run"
            /\ pc' = offset[Entry]
       ELSE /\ step' = "error"
            /\ UNCHANGED <<mem, pc>>
    /\ at' = Entry
    /\ k' = 1
    /\ cond' \in BOOLEAN
    /\ UNCHANGED <<passVars, conds, end, layout, order, passes, laid, offset>>
-----------------------------------------------------------------------------
(* The machine.  An architecture's decode, from how the encoder uses it: a  *)
(* sign-extended field, scaled, from the instruction or from its end.       *)

SignExtend(x, bits) == IF x >= 2^(bits - 1) THEN x - 2^bits ELSE x

BranchDestination(w, a) ==
    IF isa = "aarch64"
    THEN a + 4 * SignExtend(w.imm, FieldBits(w))
    ELSE a + InstrLen(w) + SignExtend(w.imm, FieldBits(w))

Taken(w, c) == w.kind = "jmp" \/ (IsBranch(w) /\ c # w.neg)

(* The source moves to the block its terminator names; the condition it    *)
(* will meet there is any.                                                 *)
SourceBranches ==
    /\ at' = Successor(src[at], cond)
    /\ k' = 1
    /\ cond' \in BOOLEAN

(* The machine runs one instruction of block at; a taken branch is the end *)
(* of the source's block.                                                  *)
ExecuteInstr ==
    /\ step = "run"
    /\ k <= CodeLen(at)
    /\ pc \in DOMAIN mem
    /\ LET w == mem[pc]
       IN /\ w.kind # "ret"
          /\ IF Taken(w, cond)
             THEN pc' = BranchDestination(w, pc) /\ SourceBranches
             ELSE /\ pc' = pc + InstrLen(w)
                  /\ k' = k + 1
                  /\ UNCHANGED <<at, cond>>
    /\ UNCHANGED <<passVars, conds, end, layout, order, passes, step,
                   encodeVars>>

(* Past the block's last instruction the machine goes on with what follows *)
(* it in memory, and the source takes its terminator.                      *)
FallThrough ==
    /\ step = "run"
    /\ k > CodeLen(at)
    /\ SourceBranches
    /\ UNCHANGED <<passVars, conds, end, layout, order, passes, step,
                   encodeVars, pc>>

Return ==
    /\ step = "run"
    /\ pc \in DOMAIN mem /\ mem[pc].kind = "ret"
    /\ step' = "done"
    /\ UNCHANGED <<passVars, conds, end, layout, order, passes, encodeVars,
                   runVars>>

Finished == step \in {"done", "error"} /\ UNCHANGED layoutVars
-----------------------------------------------------------------------------
InitLayout ==
    /\ isa \in {"aarch64", "x86_64"}
    /\ src \in Functions
    /\ ops \in OpCounts
    /\ conds = [b \in Blocks |-> SelectConds(src[b])]
    /\ end = [b \in Blocks |-> SelectEnd(src[b])]
    /\ layout = [i \in 1..NBlocks |-> i - 1]
    /\ order = << >> /\ passes = 0 /\ step = "place"
    /\ laid = 0 /\ mem = << >> /\ offset = [b \in Blocks |-> 0]
    /\ at = Entry /\ k = 1 /\ cond = FALSE /\ pc = 0

NextLayout ==
    \/ BeginPass \/ PlaceNext \/ ApplyLayout \/ Simplify
    \/ BlockOffsets \/ Encode
    \/ ExecuteInstr \/ FallThrough \/ Return \/ Finished

SpecLayout == InitLayout /\ [][NextLayout]_layoutVars
-----------------------------------------------------------------------------
(* Properties.                                                              *)

(* Where block b of an x86-64 function goes, by its branches and, when no   *)
(* branch is taken, by the layout.                                          *)
LayoutSuccessor(b, c) ==
    IF conds[b] # << >> /\ c # conds[b][1].neg THEN conds[b][1].to
    ELSE IF end[b].kind = "jmp" THEN end[b].to
    ELSE Following(layout, b)

(* Placing, erasing jumps to the next block and inverting branches never    *)
(* changes where an x86-64 block goes: whenever the layout is settled, each *)
(* block's branches and fall-through lead where its terminator said.        *)
MeaningKept ==
    isa = "x86_64" /\ step # "simplify" /\ order = << >> =>
        \A b \in Blocks :
            IF src[b].kind = "ret"
            THEN end[b] = Exit
            ELSE \A c \in BOOLEAN :
                    LayoutSuccessor(b, c) = Successor(src[b], c)

(* The emitted bytes run in step with the function: at every instruction    *)
(* the program counter is the address of the instruction the source is at,  *)
(* so every fall-through, inverted branch, offset and displacement field is *)
(* right, and a displacement that does not fit was an error.                *)
InStep ==
    step = "run" => pc = InstrAddress(at, offset[at], k)
=============================================================================
