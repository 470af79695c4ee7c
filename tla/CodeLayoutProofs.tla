-------------------------- MODULE CodeLayoutProofs --------------------------
(***************************************************************************)
(* Proofs about CodeLayout, for every function, every number of blocks and *)
(* every sequence of placement choices: laying the blocks out, erasing     *)
(* jumps and inverting branches keeps where every block goes.              *)
(***************************************************************************)
EXTENDS CodeLayout, SequenceTheorems, TLAPS

\* Every block has one place in a layout.
IsLayout(l) ==
    /\ l \in Seq(Blocks) /\ l # << >>
    /\ \A i, j \in DOMAIN l : l[i] = l[j] => i = j
    /\ \A b \in Blocks : \E i \in DOMAIN l : l[i] = b

CondBranches == {"jcc", "jnz"}
Conds == [kind : CondBranches, neg : BOOLEAN, to : Blocks]

PlacementShape ==
    /\ isa \in {"aarch64", "x86_64"}
    /\ src \in [Blocks -> Terminators]
    /\ ops \in [Blocks -> Nat]
    /\ IsLayout(layout)
    /\ order \in Seq(Blocks)
    /\ \A i, j \in DOMAIN order : order[i] = order[j] => i = j
    /\ step \in {"place", "simplify", "encode", "run", "done", "error"}
    /\ order # << >> => step = "place"
    /\ step = "simplify" => isa = "x86_64"

\* What a block of an x86-64 function ends with while it is laid out.
BranchShape(b) ==
    /\ conds[b] = << >> \/ \E i \in Conds : conds[b] = <<i>>
    /\ IF src[b].kind = "ret" THEN end[b] = Exit /\ conds[b] = << >>
       ELSE end[b] = Falls \/ \E t \in Blocks : end[b] = Jmp(t)

\* The block says itself where it goes: no fall-through is left implicit.
Explicit(b) ==
    src[b].kind # "ret" =>
        /\ end[b].kind = "jmp"
        /\ \A c \in BOOLEAN :
              (IF conds[b] # << >> /\ c # conds[b][1].neg THEN conds[b][1].to
               ELSE end[b].to) = Successor(src[b], c)

\* The block goes where its terminator said, and never falls off the end.
Settled(b) ==
    src[b].kind # "ret" =>
        /\ end[b] = Falls => Following(layout, b) # NoBlock
        /\ \A c \in BOOLEAN : LayoutSuccessor(b, c) = Successor(src[b], c)

Placing == step = "simplify" \/ order # << >>

X86Inv ==
    isa = "x86_64" =>
        /\ conds \in [Blocks -> Seq(Conds)] /\ DOMAIN end = Blocks
        /\ \A b \in Blocks :
              /\ BranchShape(b)
              /\ IF Placing THEN Explicit(b) ELSE Settled(b)

PlacementInv == PlacementShape /\ X86Inv

MachineBranches ==
    [kind : {"jmp", "jcc", "jnz"}, neg : BOOLEAN, to : Blocks] \cup {Exit}

\* The branches a block is encoded with: two at most, and the first one that
\* is taken, or the fall-through, leads where the terminator said.
CodeMeans(b) ==
    /\ Branches(b) \in Seq(MachineBranches) /\ Len(Branches(b)) <= 2
    /\ src[b].kind = "ret" => Branches(b) = <<Exit>>
    /\ src[b].kind # "ret" =>
          \A c \in BOOLEAN :
             /\ Successor(src[b], c) \in Blocks
             /\ \A j \in 1..Len(Branches(b)) :
                   /\ Taken(Branches(b)[j], c)
                   /\ \A i \in 1..j - 1 : ~Taken(Branches(b)[i], c)
                   => Branches(b)[j].to = Successor(src[b], c)
             /\ (\A i \in 1..Len(Branches(b)) : ~Taken(Branches(b)[i], c))
                   => Following(layout, b) = Successor(src[b], c)

\* block_offsets so far: the blocks do not overlap and leave no gap.
Apart(b, d) == offset[b] + CodeSize(b) <= offset[d]
Adjacent(b, d) == offset[d] = offset[b] + CodeSize(b)
Aligned(b) == \E n \in Nat : offset[b] = Base + 4 * n

OffsetsInv ==
    /\ laid \in 0..Len(layout)
    /\ laid # 0 => step \notin {"place", "simplify"}
    /\ step = "run" => laid = Len(layout)
    /\ offset \in [Blocks -> Nat]
    /\ \A i, j \in 1..laid, b, d \in Blocks :
          layout[i] = b /\ layout[j] = d =>
              /\ i < j => Apart(b, d)
              /\ j = i + 1 => Adjacent(b, d)
    /\ isa = "aarch64" =>
          \A i \in 1..laid, b \in Blocks : layout[i] = b => Aligned(b)

\* The bytes hold every instruction at its address, with its target.
Holds(b, j) ==
    /\ PlaceFits(<<b, j>>)
    /\ AddressOf(<<b, j>>) \in DOMAIN mem
    /\ mem[AddressOf(<<b, j>>)] = EncodedPlace(<<b, j>>)

MemoryInv == \A b \in Blocks : \A j \in 1..CodeLen(b) : Holds(b, j)

\* The machine is at instruction j of block b at a, past branches not taken.
RunsAt(b, a, j, c) ==
    /\ j \in 1..CodeLen(b) + 1
    /\ at = b /\ k = j /\ cond = c
    /\ offset[b] = a /\ pc = InstrAddress(b, a, j)
    /\ \A i \in 1..j - 1 : InstrAt(b, i).kind # "ret" /\ ~Taken(InstrAt(b, i), c)

RunInv ==
    \E b \in Blocks, a \in Nat, j \in Nat, c \in BOOLEAN : RunsAt(b, a, j, c)

EncodeInv ==
    /\ OffsetsInv
    /\ step = "run" => MemoryInv /\ RunInv
-----------------------------------------------------------------------------
(* Layouts.                                                                 *)

\* NoBlock is none of the blocks.
LEMMA NoBlockIsNone == NoBlock \notin Blocks
  BY LayoutAssumption DEF NoBlock, Blocks

\* A block's position is where the layout has it, and what follows it is a
\* block unless it is the last.
LEMMA PositionFound ==
  ASSUME NEW l, IsLayout(l), NEW b \in Blocks
  PROVE  /\ PositionOf(l, b) \in 1..Len(l)
         /\ l[PositionOf(l, b)] = b
         /\ Following(l, b) \in Blocks \cup {NoBlock}
<1>1. PICK i \in 1..Len(l) : l[i] = b
  BY DEF IsLayout
<1>2. PositionOf(l, b) \in 1..Len(l) /\ l[PositionOf(l, b)] = b
  BY <1>1 DEF PositionOf
<1>3. Following(l, b) \in Blocks \cup {NoBlock}
  <2>1. CASE PositionOf(l, b) < Len(l)
    <3>1. PositionOf(l, b) + 1 \in 1..Len(l)
      BY <1>2, <2>1 DEF IsLayout
    <3>2. l[PositionOf(l, b) + 1] \in Blocks
      BY <3>1 DEF IsLayout
    <3> QED
      BY <3>2, <2>1 DEF Following, NextInLayout
  <2>2. CASE ~(PositionOf(l, b) < Len(l))
    BY <2>2 DEF Following, NextInLayout
  <2> QED
    BY <2>1, <2>2
<1> QED
  BY <1>2, <1>3
-----------------------------------------------------------------------------
(* What each step does to the shape and to the blocks.                      *)

LEMMA InitPlacement == InitLayout => PlacementInv
<1> SUFFICES ASSUME InitLayout PROVE PlacementInv
  OBVIOUS
<1> USE LayoutAssumption
<1>1. /\ isa \in {"aarch64", "x86_64"} /\ src \in [Blocks -> Terminators]
      /\ ops \in [Blocks -> Nat] /\ order = << >> /\ step = "place"
  BY DEF InitLayout
<1>2. IsLayout(layout)
  <2>1. layout \in Seq(Blocks) /\ Len(layout) = NBlocks /\ layout # << >>
    <3>1. layout \in [1..NBlocks -> Blocks]
      BY DEF InitLayout, Blocks
    <3>2. layout \in Seq(Blocks) /\ Len(layout) = NBlocks
      BY <3>1
    <3> QED
      BY <3>2
  <2>2. \A i, j \in DOMAIN layout : layout[i] = layout[j] => i = j
    BY DEF InitLayout
  <2>3. ASSUME NEW b \in Blocks PROVE \E i \in DOMAIN layout : layout[i] = b
    <3>1. b + 1 \in 1..NBlocks /\ (b + 1) - 1 = b
      BY DEF Blocks
    <3> QED
      BY <3>1 DEF InitLayout
  <2> QED
    BY <2>1, <2>2, <2>3 DEF IsLayout
<1>3. PlacementShape
  BY <1>1, <1>2 DEF PlacementShape
<1>4. ASSUME NEW b \in Blocks
      PROVE  BranchShape(b) /\ Explicit(b) /\ conds[b] \in Seq(Conds)
  <2>1. conds[b] = SelectConds(src[b]) /\ end[b] = SelectEnd(src[b])
    BY DEF InitLayout
  <2>2. src[b] \in Terminators
    BY <1>1
  <2>3. Instr("jcc", FALSE, src[b].t) \in Conds /\ Instr("jnz", FALSE, src[b].t) \in Conds
    BY <2>2 DEF Terminators, Conds, CondBranches, Instr
  <2>4. BranchShape(b)
    BY <2>1, <2>2, <2>3
       DEF BranchShape, SelectConds, SelectEnd, Terminators, Jmp
  <2>5. Explicit(b)
    <3>1. CASE src[b].kind \in {"bcond", "cbnz"}
      <4>1. /\ conds[b] # << >> /\ conds[b][1].neg = FALSE
            /\ conds[b][1].to = src[b].t
            /\ end[b].kind = "jmp" /\ end[b].to = src[b].n
        BY <2>1, <3>1 DEF SelectConds, SelectEnd, Jmp, Instr
      <4> QED
        BY <4>1, <3>1 DEF Explicit, Successor
    <3>2. CASE src[b].kind = "b"
      BY <2>1, <3>2
         DEF Explicit, SelectConds, SelectEnd, Jmp, Instr, Successor
    <3> QED
      BY <2>2, <3>1, <3>2 DEF Explicit, Terminators
  <2>6. conds[b] \in Seq(Conds)
    <3>1. \A i \in Conds : <<i>> \in Seq(Conds)
      OBVIOUS
    <3>2. << >> \in Seq(Conds)
      OBVIOUS
    <3> QED
      BY <2>1, <2>3, <3>1, <3>2 DEF SelectConds
  <2> QED
    BY <2>4, <2>5, <2>6
<1>5. ASSUME NEW b \in Blocks PROVE Settled(b)
  BY <1>4 DEF Settled, Explicit, LayoutSuccessor, Falls, Instr
<1>6. conds \in [Blocks -> Seq(Conds)] /\ DOMAIN end = Blocks
  BY <1>4 DEF InitLayout
<1> QED
  BY <1>1, <1>3, <1>4, <1>5, <1>6 DEF PlacementInv, X86Inv, Placing

LEMMA BeginPassKeeps == PlacementInv /\ BeginPass => PlacementInv'
<1> SUFFICES ASSUME PlacementInv, BeginPass PROVE PlacementInv'
  OBVIOUS
<1> USE DEF PlacementInv
<1>1. /\ step = "place" /\ order = << >> /\ step' = step /\ isa' = isa
      /\ src' = src /\ ops' = ops /\ conds' = conds /\ layout' = layout
      /\ order' = <<layout[1]>>
  BY DEF BeginPass, passVars
<1>2. layout[1] \in Blocks
  BY DEF PlacementShape, IsLayout
<1>3. PlacementShape'
  BY <1>1, <1>2 DEF PlacementShape
<1>4. ASSUME isa = "x86_64", NEW b \in Blocks
      PROVE  BranchShape(b)' /\ Explicit(b)'
  <2>1. end'[b] = MaterializedEnd(end, layout, b)
    BY <1>4 DEF BeginPass, Materialize
  <2>2. BranchShape(b) /\ Settled(b)
    BY <1>1, <1>4 DEF X86Inv, Placing
  <2>3. Following(layout, b) \in Blocks \cup {NoBlock}
    BY PositionFound DEF PlacementShape
  <2>4. CASE end[b] = Falls
    <3>1. src[b].kind # "ret"
      BY <2>2, <2>4 DEF BranchShape, Falls, Exit, Instr
    <3>2. Following(layout, b) \in Blocks /\ end'[b] = Jmp(Following(layout, b))
      BY <2>1, <2>2, <2>3, <2>4, <3>1 DEF MaterializedEnd, Settled
    <3>3. end[b].kind # "jmp"
      BY <2>4 DEF Falls, Instr
    <3>4. BranchShape(b)'
      BY <1>1, <2>2, <3>1, <3>2 DEF BranchShape
    <3>5. Explicit(b)'
      BY <1>1, <2>2, <3>1, <3>2, <3>3
         DEF Explicit, Settled, LayoutSuccessor, Jmp, Instr
    <3> QED
      BY <3>4, <3>5
  <2>5. CASE end[b] # Falls
    <3>1. end'[b] = end[b]
      BY <2>1, <2>5 DEF MaterializedEnd
    <3>2. ASSUME src[b].kind # "ret" PROVE end[b].kind = "jmp"
      <4>1. PICK t \in Blocks : end[b] = Jmp(t)
        BY <2>2, <2>5, <3>2 DEF BranchShape
      <4> QED
        BY <4>1 DEF Jmp, Instr
    <3>3. BranchShape(b)'
      BY <1>1, <2>2, <3>1 DEF BranchShape
    <3>4. Explicit(b)
      BY <2>2, <3>2 DEF Explicit, Settled, LayoutSuccessor
    <3>5. Explicit(b)'
      BY <1>1, <3>1, <3>4 DEF Explicit
    <3> QED
      BY <3>3, <3>5
  <2> QED
    BY <2>4, <2>5
<1>5. X86Inv'
  <2> SUFFICES ASSUME isa = "x86_64"
               PROVE  /\ conds' \in [Blocks -> Seq(Conds)] /\ DOMAIN end' = Blocks
                      /\ \A b \in Blocks : BranchShape(b)' /\ Explicit(b)'
    BY <1>1 DEF X86Inv, Placing
  <2>1. DOMAIN end' = Blocks
    BY DEF BeginPass, Materialize
  <2> QED
    BY <1>1, <1>4, <2>1 DEF X86Inv
<1> QED
  BY <1>3, <1>5

\* The blocks mean the same when nothing they are made of changes and the
\* pass is as far with them as before.
LEMMA BlocksUntouched ==
  ASSUME X86Inv, UNCHANGED <<isa, src, conds, end>>,
         Placing' = Placing, ~Placing => layout' = layout
  PROVE  X86Inv'
<1> SUFFICES ASSUME isa = "x86_64" PROVE X86Inv'
  BY DEF X86Inv
<1>1. ASSUME NEW b \in Blocks PROVE BranchShape(b)'
  BY DEF X86Inv, BranchShape
<1>2. ASSUME Placing, NEW b \in Blocks PROVE Explicit(b)'
  BY <1>2 DEF X86Inv, Explicit
<1>3. ASSUME ~Placing, NEW b \in Blocks PROVE Settled(b)'
  BY <1>3 DEF X86Inv, Settled, LayoutSuccessor
<1> QED
  BY <1>1, <1>2, <1>3 DEF X86Inv

LEMMA PlaceNextKeeps == PlacementInv /\ PlaceNext => PlacementInv'
<1> SUFFICES ASSUME PlacementInv, PlaceNext PROVE PlacementInv'
  OBVIOUS
<1> USE DEF PlacementInv
<1>1. PICK b \in Unplaced : order' = Append(order, b)
  BY DEF PlaceNext, Candidates
<1>2. b \in Blocks /\ \A i \in DOMAIN order : order[i] # b
  BY DEF Unplaced
<1>3. /\ UNCHANGED <<isa, src, ops, conds, end, layout, step>>
      /\ step = "place" /\ order # << >>
  BY DEF PlaceNext, passVars
<1>4. order' \in Seq(Blocks) /\ order' # << >>
  BY <1>1, <1>2 DEF PlacementShape
<1>5. \A i, j \in DOMAIN order' : order'[i] = order'[j] => i = j
  BY <1>1, <1>2 DEF PlacementShape
<1>6. PlacementShape'
  BY <1>3, <1>4, <1>5 DEF PlacementShape
<1>7. X86Inv'
  BY <1>3, <1>4, BlocksUntouched DEF Placing
<1> QED
  BY <1>6, <1>7

LEMMA ApplyLayoutKeeps == PlacementInv /\ ApplyLayout => PlacementInv'
<1> SUFFICES ASSUME PlacementInv, ApplyLayout PROVE PlacementInv'
  OBVIOUS
<1> USE DEF PlacementInv
<1>1. /\ UNCHANGED <<isa, src, ops, conds, end>> /\ order # << >>
      /\ layout' = order /\ order' = << >> /\ Unplaced = {}
      /\ step' = IF isa = "x86_64" THEN "simplify" ELSE "encode"
  BY DEF ApplyLayout, passVars
<1>2. IsLayout(order)
  BY <1>1 DEF PlacementShape, IsLayout, Unplaced
<1>3. PlacementShape'
  BY <1>1, <1>2 DEF PlacementShape
<1>4. X86Inv'
  <2>1. CASE isa = "x86_64"
    BY <1>1, <2>1, BlocksUntouched DEF Placing
  <2>2. CASE isa # "x86_64"
    BY <1>1, <2>2 DEF X86Inv
  <2> QED
    BY <2>1, <2>2
<1> QED
  BY <1>3, <1>4

LEMMA SimplifyKeeps == PlacementInv /\ Simplify => PlacementInv'
<1> SUFFICES ASSUME PlacementInv, Simplify PROVE PlacementInv'
  OBVIOUS
<1> USE DEF PlacementInv
<1>1. /\ UNCHANGED <<isa, src, ops, layout, order>> /\ step = "simplify"
      /\ step' \in {"encode", "place"} /\ isa = "x86_64" /\ order = << >>
  BY DEF Simplify, passVars, PlacementShape
<1>2. PlacementShape'
  BY <1>1 DEF PlacementShape
<1>3. ASSUME NEW b \in Blocks
      PROVE  BranchShape(b)' /\ Settled(b)' /\ conds'[b] \in Seq(Conds)
  <2> DEFINE next == Following(layout, b)
  <2>1. end'[b] = SimplifiedEnd(b, next) /\ conds'[b] = SimplifiedConds(b, next)
    BY DEF Simplify
  <2>2. BranchShape(b) /\ Explicit(b) /\ conds[b] \in Seq(Conds)
    BY <1>1 DEF X86Inv, Placing
  <2>3. next \in Blocks \cup {NoBlock} /\ Following(layout', b) = next
    BY <1>1, PositionFound DEF PlacementShape
  <2> HIDE DEF next
  <2>4. CASE src[b].kind = "ret"
    <3>1. end[b].kind # "jmp"
      BY <2>2, <2>4 DEF BranchShape, Exit, Instr
    <3>2. end'[b] = end[b] /\ conds'[b] = conds[b]
      BY <2>1, <3>1
         DEF SimplifiedEnd, SimplifiedConds, JmpFallsThrough, Invertible
    <3> QED
      BY <1>1, <2>2, <2>4, <3>2 DEF BranchShape, Settled
  <2>5. CASE src[b].kind # "ret" /\ next # NoBlock /\ JmpFallsThrough(b, next)
    <3>1. end'[b] = Falls /\ conds'[b] = conds[b]
      BY <2>1, <2>5
         DEF SimplifiedEnd, SimplifiedConds, JmpFallsThrough, Invertible
    <3>2. Falls.kind # "jmp" /\ end[b].to = next
      BY <2>5 DEF Falls, Instr, JmpFallsThrough
    <3>3. BranchShape(b)'
      BY <1>1, <2>2, <2>5, <3>1 DEF BranchShape
    <3>4. Settled(b)'
      BY <1>1, <2>2, <2>3, <2>5, <3>1, <3>2
         DEF Settled, Explicit, LayoutSuccessor
    <3> QED
      BY <2>2, <3>1, <3>3, <3>4
  <2>6. CASE src[b].kind # "ret" /\ next # NoBlock /\ Invertible(b, next)
    <3>1. end'[b] = Falls /\ conds'[b] = <<InvertedJcc(b)>>
      BY <2>1, <2>6 DEF SimplifiedEnd, SimplifiedConds
    <3>2. Falls.kind # "jmp" /\ conds[b][1].to = next /\ conds[b] # << >>
      BY <2>2, <2>6 DEF Falls, Instr, Invertible
    <3>3. end[b].to \in Blocks /\ conds[b][1].neg \in BOOLEAN
      <4>1. end[b] # Falls
        BY <2>6 DEF Invertible, Falls, Instr
      <4>2. PICK t \in Blocks : end[b] = Jmp(t)
        BY <2>2, <2>6, <4>1 DEF BranchShape
      <4>3. conds[b][1] \in Conds
        BY <2>2, <2>6 DEF Invertible
      <4> QED
        BY <4>2, <4>3 DEF Jmp, Instr, Conds
    <3>4. /\ InvertedJcc(b) \in Conds
          /\ InvertedJcc(b).neg = ~conds[b][1].neg
          /\ InvertedJcc(b).to = end[b].to
      BY <3>3 DEF InvertedJcc, Instr, Conds, CondBranches
    <3>5. BranchShape(b)'
      BY <1>1, <2>6, <3>1, <3>4 DEF BranchShape
    <3>6. ASSUME NEW c \in BOOLEAN
          PROVE  LayoutSuccessor(b, c)' = Successor(src[b], c)
      <4>1. (IF c # conds[b][1].neg THEN conds[b][1].to ELSE end[b].to)
                = Successor(src[b], c)
        BY <2>2, <2>6, <3>2 DEF Explicit
      <4>2. LayoutSuccessor(b, c)'
                = IF c # ~conds[b][1].neg THEN end[b].to ELSE next
        BY <2>3, <3>1, <3>2, <3>4 DEF LayoutSuccessor
      <4> QED
        BY <3>2, <3>3, <4>1, <4>2
    <3>7. Settled(b)'
      BY <1>1, <2>3, <2>6, <3>6 DEF Settled
    <3>8. conds'[b] \in Seq(Conds)
      BY <3>1, <3>4
    <3> QED
      BY <3>5, <3>7, <3>8
  <2>7. CASE /\ src[b].kind # "ret"
             /\ ~(next # NoBlock /\ JmpFallsThrough(b, next))
             /\ ~(next # NoBlock /\ Invertible(b, next))
    <3>1. end'[b] = end[b] /\ conds'[b] = conds[b]
      BY <2>1, <2>7 DEF SimplifiedEnd, SimplifiedConds
    <3>2. end[b].kind = "jmp" /\ end[b] # Falls
      BY <2>2, <2>7 DEF Explicit, Falls, Instr
    <3>3. BranchShape(b)'
      BY <1>1, <2>2, <3>1 DEF BranchShape
    <3>4. Settled(b)'
      BY <1>1, <2>2, <3>1, <3>2 DEF Settled, Explicit, LayoutSuccessor
    <3> QED
      BY <2>2, <3>1, <3>3, <3>4
  <2> QED
    BY <2>4, <2>5, <2>6, <2>7
<1>4. X86Inv'
  <2>1. conds' \in [Blocks -> Seq(Conds)] /\ DOMAIN end' = Blocks
    BY <1>3 DEF Simplify
  <2>2. ~Placing'
    BY <1>1 DEF Placing
  <2> QED
    BY <1>3, <2>1, <2>2 DEF X86Inv
<1> QED
  BY <1>2, <1>4

\* Encoding, running and stopping leave the layout and the branches alone.
LEMMA LaterStepsKeep ==
  ASSUME PlacementInv,
         \/ BlockOffsets \/ Encode \/ ExecuteInstr \/ FallThrough \/ Return
         \/ Finished \/ UNCHANGED layoutVars
  PROVE  PlacementInv'
<1>1. /\ UNCHANGED <<isa, src, ops, conds, end, layout, order>>
      /\ \/ step' = step
         \/ step \in {"encode", "run"} /\ step' \in {"run", "error", "done"}
  BY DEF BlockOffsets, Encode, ExecuteInstr, FallThrough, Return, Finished,
         layoutVars, passVars, encodeVars, runVars
<1>2. PlacementShape'
  BY <1>1 DEF PlacementInv, PlacementShape
<1>3. X86Inv'
  BY <1>1, BlocksUntouched DEF PlacementInv, Placing
<1> QED
  BY <1>2, <1>3 DEF PlacementInv
-----------------------------------------------------------------------------
LEMMA PlacementStep ==
  PlacementInv /\ [NextLayout]_layoutVars => PlacementInv'
  BY BeginPassKeeps, PlaceNextKeeps, ApplyLayoutKeeps, SimplifyKeeps,
     LaterStepsKeep DEF NextLayout

\* Placing the blocks of a function in any order, erasing the jumps to the
\* next block and inverting branches (simplify_branches_for_layout), any
\* number of times and on its own output, keeps where every block goes.
THEOREM LayoutKeepsMeaning == SpecLayout => []MeaningKept
<1>1. PlacementInv => MeaningKept
  BY DEF PlacementInv, X86Inv, Placing, BranchShape, Settled, MeaningKept
<1> QED
  BY <1>1, InitPlacement, PlacementStep, PTL DEF SpecLayout
-----------------------------------------------------------------------------
(* The instructions of a block and their addresses.                         *)

LEMMA LengthsArePositive ==
  ASSUME NEW i PROVE InstrLen(i) \in Nat \ {0}
  BY LayoutAssumption DEF InstrLen

\* Where a terminator leads is a block.
LEMMA SuccessorIsABlock ==
  ASSUME PlacementShape, NEW b \in Blocks, NEW c \in BOOLEAN
  PROVE  Successor(src[b], c) \in Blocks
<1>1. src[b] \in Terminators
  BY DEF PlacementShape
<1> QED
  BY <1>1 DEF Successor, Terminators

\* A one-branch and a two-branch block, and a block without a branch.
LEMMA NoBranch ==
  ASSUME NEW b \in Blocks, Branches(b) = << >>, src[b].kind # "ret",
         \A c \in BOOLEAN : /\ Successor(src[b], c) \in Blocks
                            /\ Following(layout, b) = Successor(src[b], c)
  PROVE  CodeMeans(b)
<1>1. << >> \in Seq(MachineBranches) /\ Len(<< >>) = 0
  OBVIOUS
<1> QED
  BY <1>1 DEF CodeMeans

LEMMA OneBranch ==
  ASSUME NEW b \in Blocks, NEW x \in MachineBranches, Branches(b) = <<x>>,
         src[b].kind # "ret",
         \A c \in BOOLEAN :
            /\ Successor(src[b], c) \in Blocks
            /\ IF Taken(x, c) THEN x.to = Successor(src[b], c)
               ELSE Following(layout, b) = Successor(src[b], c)
  PROVE  CodeMeans(b)
<1>1. <<x>> \in Seq(MachineBranches) /\ Len(<<x>>) = 1 /\ <<x>>[1] = x
  OBVIOUS
<1> QED
  BY <1>1 DEF CodeMeans

LEMMA TwoBranches ==
  ASSUME NEW b \in Blocks, NEW x \in MachineBranches, NEW y \in MachineBranches,
         Branches(b) = <<x, y>>, src[b].kind # "ret",
         \A c \in BOOLEAN :
            /\ Successor(src[b], c) \in Blocks
            /\ Taken(y, c)
            /\ (IF Taken(x, c) THEN x.to ELSE y.to) = Successor(src[b], c)
  PROVE  CodeMeans(b)
<1>1. /\ <<x, y>> \in Seq(MachineBranches) /\ Len(<<x, y>>) = 2
      /\ <<x, y>>[1] = x /\ <<x, y>>[2] = y
  OBVIOUS
<1>2. Branches(b) \in Seq(MachineBranches) /\ Len(Branches(b)) = 2
  BY <1>1
<1>3. ASSUME NEW c \in BOOLEAN, NEW j \in 1..2, Taken(Branches(b)[j], c),
             \A i \in 1..j - 1 : ~Taken(Branches(b)[i], c)
      PROVE  Branches(b)[j].to = Successor(src[b], c)
  <2>1. CASE j = 1
    BY <1>1, <1>3, <2>1
  <2>2. CASE j = 2
    <3>1. 1 \in 1..j - 1
      BY <2>2
    <3> QED
      BY <1>1, <1>3, <2>2, <3>1
  <2> QED
    BY <2>1, <2>2
<1>4. ASSUME NEW c \in BOOLEAN PROVE \E i \in 1..2 : Taken(Branches(b)[i], c)
  BY <1>1
<1> QED
  BY <1>2, <1>3, <1>4 DEF CodeMeans

LEMMA PairOfBranches ==
  ASSUME NEW x \in MachineBranches, NEW y \in MachineBranches
  PROVE  <<x>> \o <<y>> = <<x, y>>
<1>1. <<x>> \o <<y>> \in Seq(MachineBranches) /\ <<x, y>> \in Seq(MachineBranches)
  OBVIOUS
<1>2. Len(<<x>> \o <<y>>) = 2 /\ Len(<<x, y>>) = 2
  OBVIOUS
<1>3. \A i \in 1..2 : (<<x>> \o <<y>>)[i] = <<x, y>>[i]
  OBVIOUS
<1> QED
  BY <1>1, <1>2, <1>3, SeqEqual

\* The words branch_words picks: a branch to the next block is left out, and
\* a conditional branch to it is inverted.
LEMMA WordsMean ==
  ASSUME PlacementShape, isa = "aarch64", NEW b \in Blocks
  PROVE  CodeMeans(b)
<1> DEFINE term == src[b]
           next == Following(layout, b)
<1>1. term \in Terminators /\ term.t \in Blocks /\ term.n \in Blocks
  BY DEF PlacementShape, Terminators
<1>2. term.kind \in {"ret", "b", "bcond", "cbnz"}
  BY <1>1 DEF Terminators
<1>3. Branches(b) = BranchWords(term, next)
  BY DEF Branches
<1>4. \A c \in BOOLEAN : Successor(term, c) \in Blocks
  BY SuccessorIsABlock
<1>5. /\ Jmp(term.t) \in MachineBranches /\ Jmp(term.n) \in MachineBranches
      /\ \A s \in {"jcc", "jnz"}, n \in BOOLEAN, t \in Blocks :
            Instr(s, n, t) \in MachineBranches
  BY <1>1 DEF MachineBranches, Jmp, Instr
<1>6. \A t, c : Taken(Jmp(t), c) /\ Jmp(t).to = t
  BY DEF Taken, Jmp, Instr
<1>7. ASSUME NEW s \in {"jcc", "jnz"}, NEW t \in Blocks, NEW c \in BOOLEAN
      PROVE  /\ Instr(s, FALSE, t).to = t /\ (Taken(Instr(s, FALSE, t), c) <=> c)
             /\ Instr(s, TRUE, t).to = t /\ (Taken(Instr(s, TRUE, t), c) <=> ~c)
  BY DEF Taken, IsBranch, Instr
<1> HIDE DEF term, next
<1>8. CASE term.kind = "ret"
  <2>1. Branches(b) = <<Exit>>
    BY <1>3, <1>8 DEF BranchWords
  <2>2. <<Exit>> \in Seq(MachineBranches) /\ Len(<<Exit>>) = 1
    BY DEF MachineBranches
  <2> QED
    BY <1>8, <2>1, <2>2 DEF CodeMeans, term
<1>9. CASE term.kind = "b"
  <2>1. \A c \in BOOLEAN : Successor(term, c) = term.t
    BY <1>9 DEF Successor
  <2>2. CASE term.t = next
    <3>1. Branches(b) = << >>
      BY <1>3, <1>9, <2>2 DEF BranchWords
    <3> QED
      BY <1>4, <1>9, <2>1, <2>2, <3>1, NoBranch DEF term, next
  <2>3. CASE term.t # next
    <3>1. Branches(b) = <<Jmp(term.t)>>
      BY <1>3, <1>9, <2>3 DEF BranchWords
    <3> QED
      BY <1>4, <1>5, <1>6, <1>9, <2>1, <3>1, OneBranch DEF term
  <2> QED
    BY <2>2, <2>3
<1>10. CASE term.kind = "cbnz" \/ term.kind = "bcond"
  <2>1. \A c \in BOOLEAN : Successor(term, c) = IF c THEN term.t ELSE term.n
    BY <1>10 DEF Successor
  <2>2. PICK s \in {"jcc", "jnz"} :
            s = IF term.kind = "cbnz" THEN "jnz" ELSE "jcc"
    OBVIOUS
  <2>3. CASE term.n = next
    <3>1. Branches(b) = <<Instr(s, FALSE, term.t)>>
      <4>1. CASE term.kind = "cbnz"
        <5>1. Branches(b) = <<Instr("jnz", FALSE, term.t)>> \o << >>
          BY <1>3, <2>3, <4>1 DEF BranchWords
        <5> QED
          BY <2>2, <4>1, <5>1
      <4>2. CASE term.kind = "bcond"
        BY <1>3, <2>2, <2>3, <4>2 DEF BranchWords
      <4> QED
        BY <1>10, <4>1, <4>2
    <3>2. ASSUME NEW c \in BOOLEAN
          PROVE  IF Taken(Instr(s, FALSE, term.t), c)
                 THEN Instr(s, FALSE, term.t).to = Successor(term, c)
                 ELSE next = Successor(term, c)
      <4>1. /\ Instr(s, FALSE, term.t).to = term.t
            /\ Taken(Instr(s, FALSE, term.t), c) <=> c
        BY <1>1, <1>7
      <4> QED
        BY <2>1, <2>3, <4>1
    <3> QED
      BY <1>1, <1>4, <1>5, <1>10, <3>1, <3>2, OneBranch DEF term, next
  <2>4. CASE term.n # next /\ term.kind = "bcond" /\ term.t = next
    <3>1. Branches(b) = <<Instr("jcc", TRUE, term.n)>>
      BY <1>3, <2>4 DEF BranchWords
    <3>2. ASSUME NEW c \in BOOLEAN
          PROVE  IF Taken(Instr("jcc", TRUE, term.n), c)
                 THEN Instr("jcc", TRUE, term.n).to = Successor(term, c)
                 ELSE next = Successor(term, c)
      <4>1. /\ Instr("jcc", TRUE, term.n).to = term.n
            /\ Taken(Instr("jcc", TRUE, term.n), c) <=> ~c
        BY <1>1, <1>7
      <4> QED
        BY <2>1, <2>4, <4>1
    <3> QED
      BY <1>1, <1>4, <1>5, <1>10, <3>1, <3>2, OneBranch DEF term, next
  <2>5. CASE term.n # next /\ ~(term.kind = "bcond" /\ term.t = next)
    <3>1. Branches(b) = <<Instr(s, FALSE, term.t), Jmp(term.n)>>
      <4>1. CASE term.kind = "cbnz"
        <5>1. Branches(b) = <<Instr("jnz", FALSE, term.t)>> \o <<Jmp(term.n)>>
          BY <1>3, <2>5, <4>1 DEF BranchWords
        <5> QED
          BY <1>1, <1>5, <2>2, <4>1, <5>1, PairOfBranches
      <4>2. CASE term.kind = "bcond"
        BY <1>3, <2>2, <2>5, <4>2 DEF BranchWords
      <4> QED
        BY <1>10, <4>1, <4>2
    <3>2. ASSUME NEW c \in BOOLEAN
          PROVE  (IF Taken(Instr(s, FALSE, term.t), c)
                  THEN Instr(s, FALSE, term.t).to ELSE Jmp(term.n).to)
                     = Successor(term, c)
      <4>1. /\ Instr(s, FALSE, term.t).to = term.t
            /\ Taken(Instr(s, FALSE, term.t), c) <=> c
        BY <1>1, <1>7
      <4> QED
        BY <1>6, <2>1, <4>1
    <3> QED
      <4>1. /\ Instr(s, FALSE, term.t) \in MachineBranches
            /\ Jmp(term.n) \in MachineBranches /\ src[b].kind # "ret"
        BY <1>1, <1>5, <1>10 DEF term
      <4>2. \A c \in BOOLEAN :
               /\ Successor(src[b], c) \in Blocks
               /\ Taken(Jmp(term.n), c)
               /\ (IF Taken(Instr(s, FALSE, term.t), c)
                   THEN Instr(s, FALSE, term.t).to ELSE Jmp(term.n).to)
                      = Successor(src[b], c)
        BY <1>4, <1>6, <3>2 DEF term
      <4> QED
        BY <3>1, <4>1, <4>2, TwoBranches
  <2> QED
    BY <2>3, <2>4, <2>5
<1> QED
  BY <1>2, <1>8, <1>9, <1>10

\* The branches an x86-64 block is left with once the layout is settled.
LEMMA JumpsMean ==
  ASSUME PlacementInv, ~Placing, isa = "x86_64", NEW b \in Blocks
  PROVE  CodeMeans(b)
<1>1. BranchShape(b) /\ Settled(b)
  BY DEF PlacementInv, X86Inv
<1>2. Branches(b) = conds[b] \o (IF end[b] = Falls THEN << >> ELSE <<end[b]>>)
  BY DEF Branches
<1>3. \A c \in BOOLEAN : Successor(src[b], c) \in Blocks
  BY SuccessorIsABlock DEF PlacementInv
<1>4. ASSUME NEW x, x \in MachineBranches
      PROVE  /\ << >> \o <<x>> = <<x>> /\ <<x>> \o << >> = <<x>>
             /\ << >> \o << >> = << >>
  OBVIOUS
<1>5. CASE src[b].kind = "ret"
  <2>1. end[b] = Exit /\ conds[b] = << >> /\ Exit # Falls
    BY <1>1, <1>5 DEF BranchShape, Exit, Falls, Instr
  <2>2. Exit \in MachineBranches
    BY DEF MachineBranches
  <2>3. Branches(b) = <<Exit>>
    BY <1>2, <1>4, <2>1, <2>2
  <2>4. <<Exit>> \in Seq(MachineBranches) /\ Len(<<Exit>>) = 1
    BY <2>2
  <2> QED
    BY <1>5, <2>3, <2>4 DEF CodeMeans
<1>6. CASE src[b].kind # "ret"
  <2>1. \A c \in BOOLEAN : LayoutSuccessor(b, c) = Successor(src[b], c)
    BY <1>1, <1>6 DEF Settled
  <2>2. end[b] = Falls \/ \E t \in Blocks : end[b] = Jmp(t)
    BY <1>1, <1>6 DEF BranchShape
  <2>3. conds[b] = << >> \/ \E i \in Conds : conds[b] = <<i>>
    BY <1>1 DEF BranchShape
  <2>4. ASSUME NEW t \in Blocks
        PROVE  /\ Jmp(t) \in MachineBranches /\ Jmp(t) # Falls
               /\ Jmp(t).to = t /\ Jmp(t).kind = "jmp"
               /\ \A c : Taken(Jmp(t), c)
    BY DEF MachineBranches, Jmp, Instr, Falls, Taken
  <2>5. ASSUME NEW i \in Conds
        PROVE  /\ i \in MachineBranches
               /\ \A c \in BOOLEAN : Taken(i, c) <=> c # i.neg
    BY DEF MachineBranches, Conds, CondBranches, Taken, IsBranch
  <2>6. Falls.kind # "jmp"
    BY DEF Falls, Instr
  <2>7. CASE conds[b] = << >> /\ end[b] = Falls
    <3>1. Branches(b) = << >>
      BY <1>2, <2>7
    <3>2. \A c \in BOOLEAN : Following(layout, b) = Successor(src[b], c)
      BY <2>1, <2>6, <2>7 DEF LayoutSuccessor
    <3> QED
      BY <1>3, <1>6, <3>1, <3>2, NoBranch
  <2>8. ASSUME NEW t \in Blocks, conds[b] = << >>, end[b] = Jmp(t)
        PROVE  CodeMeans(b)
    <3>1. Branches(b) = <<Jmp(t)>>
      BY <1>2, <1>4, <2>4, <2>8
    <3>2. \A c \in BOOLEAN : t = Successor(src[b], c)
      BY <2>1, <2>4, <2>8 DEF LayoutSuccessor
    <3> QED
      BY <1>3, <1>6, <2>4, <3>1, <3>2, OneBranch
  <2>9. ASSUME NEW i \in Conds, conds[b] = <<i>>, end[b] = Falls
        PROVE  CodeMeans(b)
    <3>1. Branches(b) = <<i>>
      BY <1>2, <1>4, <2>5, <2>9
    <3>2. ASSUME NEW c \in BOOLEAN
          PROVE  IF Taken(i, c) THEN i.to = Successor(src[b], c)
                 ELSE Following(layout, b) = Successor(src[b], c)
      <4>1. LayoutSuccessor(b, c) = IF c # i.neg THEN i.to ELSE Following(layout, b)
        BY <2>6, <2>9 DEF LayoutSuccessor
      <4> QED
        BY <2>1, <2>5, <4>1
    <3> QED
      BY <1>3, <1>6, <2>5, <3>1, <3>2, OneBranch
  <2>10. ASSUME NEW i \in Conds, NEW t \in Blocks, conds[b] = <<i>>, end[b] = Jmp(t)
         PROVE  CodeMeans(b)
    <3>1. Branches(b) = <<i, Jmp(t)>>
      BY <1>2, <2>4, <2>5, <2>10, PairOfBranches
    <3>2. ASSUME NEW c \in BOOLEAN
          PROVE  (IF Taken(i, c) THEN i.to ELSE Jmp(t).to) = Successor(src[b], c)
      <4>1. LayoutSuccessor(b, c) = IF c # i.neg THEN i.to ELSE t
        BY <2>4, <2>10 DEF LayoutSuccessor
      <4> QED
        BY <2>1, <2>4, <2>5, <4>1
    <3>3. i \in MachineBranches /\ Jmp(t) \in MachineBranches
      BY <2>4, <2>5
    <3>4. \A c \in BOOLEAN :
            /\ Successor(src[b], c) \in Blocks
            /\ Taken(Jmp(t), c)
            /\ (IF Taken(i, c) THEN i.to ELSE Jmp(t).to) = Successor(src[b], c)
      BY <1>3, <2>4, <3>2
    <3> QED
      BY <1>6, <3>1, <3>3, <3>4, TwoBranches
  <2> QED
    BY <2>2, <2>3, <2>7, <2>8, <2>9, <2>10
<1> QED
  BY <1>5, <1>6

\* On both architectures, once the layout is settled.
LEMMA BranchesMean ==
  ASSUME PlacementInv, step \notin {"place", "simplify"}, NEW b \in Blocks
  PROVE  CodeMeans(b)
<1>1. ~Placing /\ isa \in {"aarch64", "x86_64"}
  BY DEF PlacementInv, PlacementShape, Placing
<1> QED
  BY <1>1, WordsMean, JumpsMean DEF PlacementInv
-----------------------------------------------------------------------------
(* Addresses.  A block whose code has its shape: *)

HasCode(b) ==
    /\ ops[b] \in Nat
    /\ Branches(b) \in Seq(MachineBranches) /\ Len(Branches(b)) \in 0..2

LEMMA CodeIsThere ==
  ASSUME PlacementInv, step \notin {"place", "simplify"}, NEW b \in Blocks
  PROVE  HasCode(b)
<1>1. CodeMeans(b) /\ ops[b] \in Nat
  BY BranchesMean DEF PlacementInv, PlacementShape
<1>2. Len(Branches(b)) \in 0..2
  <2>1. PICK m \in Nat : m = Len(Branches(b))
    BY <1>1 DEF CodeMeans
  <2>2. m <= 2
    BY <1>1, <2>1 DEF CodeMeans
  <2> QED
    BY <2>1, <2>2
<1> QED
  BY <1>1, <1>2 DEF HasCode, CodeMeans

\* The length of an op, and of a branch of b.
LEMMA AddressStep ==
  ASSUME NEW b, HasCode(b), NEW a \in Nat, NEW j \in 1..CodeLen(b)
  PROVE  /\ InstrAddress(b, a, j) \in Nat
         /\ InstrAddress(b, a, j + 1)
                = InstrAddress(b, a, j) + InstrLen(InstrAt(b, j))
<1> DEFINE L == InstrLen(Op)
           n == ops[b]
           M1 == InstrLen(Branches(b)[1])
           M2 == InstrLen(Branches(b)[2])
<1>1. L \in Nat \ {0} /\ M1 \in Nat \ {0} /\ M2 \in Nat \ {0}
  BY LengthsArePositive
<1>2. n \in Nat /\ j \in 1..n + 2
  <2>1. PICK m \in 0..2 : m = Len(Branches(b))
    BY DEF HasCode
  <2>2. n \in Nat /\ j \in 1..n + m
    BY <2>1 DEF HasCode, CodeLen
  <2> HIDE DEF n
  <2> QED
    BY <2>2
<1>3. \A x : InstrAddress(b, a, x)
                 = IF x <= n + 1 THEN a + (x - 1) * L
                   ELSE a + n * L + M1 + (IF x = n + 2 THEN 0 ELSE M2)
  BY DEF InstrAddress
<1>4. InstrLen(InstrAt(b, j))
          = IF j <= n THEN L ELSE IF j = n + 1 THEN M1 ELSE M2
  BY <1>2 DEF InstrAt
<1> HIDE DEF L, n, M1, M2
<1>5. (j - 1) * L \in Nat /\ n * L \in Nat /\ (j + 1 - 1) * L = (j - 1) * L + L
  BY <1>1, <1>2
<1>6. CASE j <= n
  BY <1>1, <1>2, <1>3, <1>4, <1>5, <1>6
<1>7. CASE j = n + 1
  <2>1. /\ InstrAddress(b, a, j) = a + n * L
        /\ InstrAddress(b, a, j + 1) = a + n * L + M1
    BY <1>1, <1>2, <1>3, <1>5, <1>7
  <2> QED
    BY <1>1, <1>2, <1>4, <1>5, <1>7, <2>1
<1>8. CASE j = n + 2
  BY <1>1, <1>2, <1>3, <1>4, <1>5, <1>8
<1> QED
  BY <1>2, <1>6, <1>7, <1>8

LEMMA Products ==
  ASSUME NEW L \in Nat \ {0}, NEW x \in Nat, NEW y \in Nat, x < y
  PROVE  x * L \in Nat /\ y * L \in Nat /\ x * L < y * L
  OBVIOUS

\* Later instructions of a block are at higher addresses.
LEMMA AddressesRise ==
  ASSUME NEW b, HasCode(b), NEW a \in Nat,
         NEW i \in 1..CodeLen(b) + 1, NEW j \in 1..CodeLen(b) + 1, i < j
  PROVE  InstrAddress(b, a, i) < InstrAddress(b, a, j)
<1> DEFINE L == InstrLen(Op)
           n == ops[b]
           M1 == InstrLen(Branches(b)[1])
           M2 == InstrLen(Branches(b)[2])
<1>1. L \in Nat \ {0} /\ M1 \in Nat \ {0} /\ M2 \in Nat \ {0}
  BY LengthsArePositive
<1>2. n \in Nat /\ i \in 1..n + 3 /\ j \in 1..n + 3
  <2>1. PICK m \in 0..2 : m = Len(Branches(b))
    BY DEF HasCode
  <2>2. n \in Nat /\ i \in 1..n + m + 1 /\ j \in 1..n + m + 1
    BY <2>1 DEF HasCode, CodeLen
  <2> HIDE DEF n
  <2> QED
    BY <2>2
<1>3. \A x : InstrAddress(b, a, x)
                 = IF x <= n + 1 THEN a + (x - 1) * L
                   ELSE a + n * L + M1 + (IF x = n + 2 THEN 0 ELSE M2)
  BY DEF InstrAddress
<1> HIDE DEF L, n, M1, M2
<1>4. (i - 1) * L \in Nat /\ (j - 1) * L \in Nat /\ (i - 1) * L < (j - 1) * L
  <2>1. i - 1 \in Nat /\ j - 1 \in Nat /\ i - 1 < j - 1
    BY <1>2
  <2> QED
    BY <1>1, <2>1, Products
<1>5. n * L \in Nat
  BY <1>1, <1>2
<1>6. CASE j <= n + 1
  BY <1>2, <1>3, <1>4, <1>6
<1>7. CASE i <= n + 1 /\ n + 1 < j
  <2>1. (i - 1) * L <= n * L
    <3>1. i - 1 \in Nat /\ (i - 1 = n \/ i - 1 < n)
      BY <1>2, <1>7
    <3> QED
      BY <1>1, <1>2, <1>5, <3>1, Products
  <2> QED
    BY <1>1, <1>2, <1>3, <1>4, <1>5, <1>7, <2>1
<1>8. CASE n + 1 < i
  <2>1. i = n + 2 /\ j = n + 3
    BY <1>2, <1>8
  <2> QED
    BY <1>1, <1>2, <1>3, <1>5, <2>1
<1> QED
  BY <1>2, <1>6, <1>7, <1>8

\* The addresses of a block are its start plus those of a block at zero, and
\* the first one is its start.
LEMMA AddressShifts ==
  ASSUME NEW b, HasCode(b), NEW a \in Nat, NEW j \in 1..CodeLen(b) + 1
  PROVE  /\ InstrAddress(b, 0, j) \in Nat
         /\ InstrAddress(b, a, j) = a + InstrAddress(b, 0, j)
         /\ InstrAddress(b, a, 1) = a
         /\ isa = "aarch64" => InstrAddress(b, 0, j) = 4 * (j - 1)
<1> DEFINE L == InstrLen(Op)
           n == ops[b]
           M1 == InstrLen(Branches(b)[1])
           M2 == InstrLen(Branches(b)[2])
<1>1. /\ L \in Nat \ {0} /\ M1 \in Nat \ {0} /\ M2 \in Nat \ {0}
      /\ isa = "aarch64" => L = 4 /\ M1 = 4 /\ M2 = 4
  BY LengthsArePositive DEF InstrLen
<1>2. n \in Nat /\ j \in 1..n + 3
  <2>1. PICK m \in 0..2 : m = Len(Branches(b))
    BY DEF HasCode
  <2>2. n \in Nat /\ j \in 1..n + m + 1
    BY <2>1 DEF HasCode, CodeLen
  <2> HIDE DEF n
  <2> QED
    BY <2>2
<1>3. \A x, d : InstrAddress(b, d, x)
                   = IF x <= n + 1 THEN d + (x - 1) * L
                     ELSE d + n * L + M1 + (IF x = n + 2 THEN 0 ELSE M2)
  BY DEF InstrAddress
<1> HIDE DEF L, n, M1, M2
<1>4. (j - 1) * L \in Nat /\ n * L \in Nat /\ (1 - 1) * L = 0
  BY <1>1, <1>2
<1>5. InstrAddress(b, a, 1) = a
  BY <1>2, <1>3, <1>4
<1>6. CASE j <= n + 1
  <2>1. /\ InstrAddress(b, 0, j) = (j - 1) * L
        /\ InstrAddress(b, a, j) = a + (j - 1) * L
    BY <1>2, <1>3, <1>4, <1>6
  <2> QED
    BY <1>1, <1>2, <1>4, <1>5, <2>1
<1>7. CASE j > n + 1
  <2>1. /\ InstrAddress(b, 0, j) = n * L + M1 + (IF j = n + 2 THEN 0 ELSE M2)
        /\ InstrAddress(b, a, j) = a + n * L + M1 + (IF j = n + 2 THEN 0 ELSE M2)
    BY <1>1, <1>2, <1>3, <1>4, <1>7
  <2>2. isa = "aarch64" => n * L = 4 * n
    BY <1>1, <1>2
  <2>3. j = n + 2 \/ j = n + 3
    BY <1>2, <1>7
  <2> QED
    BY <1>1, <1>2, <1>4, <1>5, <2>1, <2>2, <2>3
<1> QED
  BY <1>2, <1>6, <1>7

\* How many bytes a block has.
LEMMA SizeOfCode ==
  ASSUME NEW b, HasCode(b)
  PROVE  /\ CodeLen(b) \in Nat /\ CodeSize(b) \in Nat
         /\ isa = "aarch64" => CodeSize(b) = 4 * CodeLen(b)
         /\ \A a \in Nat, j \in 1..CodeLen(b) :
               /\ a <= InstrAddress(b, a, j)
               /\ InstrAddress(b, a, j) < a + CodeSize(b)
         /\ \A a \in Nat : InstrAddress(b, a, CodeLen(b) + 1) = a + CodeSize(b)
<1>1. CodeLen(b) \in Nat
  BY DEF HasCode, CodeLen
<1>2. CodeLen(b) + 1 \in 1..CodeLen(b) + 1
  BY <1>1
<1>3. CodeSize(b) \in Nat /\ (isa = "aarch64" => CodeSize(b) = 4 * CodeLen(b))
  <2>1. /\ CodeSize(b) \in Nat
        /\ isa = "aarch64" => CodeSize(b) = 4 * (CodeLen(b) + 1 - 1)
    <3>1. 0 \in Nat
      OBVIOUS
    <3>2. ASSUME NEW j \in 1..CodeLen(b) + 1
          PROVE  /\ InstrAddress(b, 0, j) \in Nat
                 /\ isa = "aarch64" => InstrAddress(b, 0, j) = 4 * (j - 1)
      BY <3>1, AddressShifts
    <3>3. PICK j \in 1..CodeLen(b) + 1 : j = CodeLen(b) + 1
      BY <1>2
    <3>4. InstrAddress(b, 0, j) = CodeSize(b)
      BY <3>3 DEF CodeSize
    <3>5. InstrAddress(b, 0, j) \in Nat
      BY <3>2
    <3>6. isa = "aarch64" => InstrAddress(b, 0, j) = 4 * (j - 1)
      BY <3>2
    <3> QED
      BY <1>1, <3>3, <3>4, <3>5, <3>6
  <2> QED
    BY <1>1, <2>1
<1>4. ASSUME NEW a \in Nat PROVE InstrAddress(b, a, CodeLen(b) + 1) = a + CodeSize(b)
  BY <1>2, AddressShifts DEF CodeSize
<1>5. ASSUME NEW a \in Nat, NEW j \in 1..CodeLen(b)
      PROVE  /\ a <= InstrAddress(b, a, j)
             /\ InstrAddress(b, a, j) < a + CodeSize(b)
  <2>1. j \in 1..CodeLen(b) + 1 /\ j < CodeLen(b) + 1
    BY <1>1
  <2>2. InstrAddress(b, a, j) < InstrAddress(b, a, CodeLen(b) + 1)
    BY <1>2, <2>1, AddressesRise
  <2>3. PICK x \in Nat : InstrAddress(b, a, j) = a + x
    <3>1. /\ InstrAddress(b, 0, j) \in Nat
          /\ InstrAddress(b, a, j) = a + InstrAddress(b, 0, j)
      BY <2>1, AddressShifts
    <3> QED
      BY <3>1
  <2>4. a <= a + x
    OBVIOUS
  <2> QED
    BY <1>4, <2>2, <2>3, <2>4
<1> QED
  BY <1>1, <1>3, <1>4, <1>5
-----------------------------------------------------------------------------
(* Offsets.                                                                 *)

LEMMA CodeUnchanged ==
  ASSUME UNCHANGED <<isa, src, ops, conds, end, layout>>, NEW b \in Blocks
  PROVE  /\ Branches(b)' = Branches(b) /\ CodeLen(b)' = CodeLen(b)
         /\ CodeSize(b)' = CodeSize(b)
         /\ \A j : InstrAt(b, j)' = InstrAt(b, j)
         /\ \A a, j : InstrAddress(b, a, j)' = InstrAddress(b, a, j)
<1>1. Branches(b)' = Branches(b)
  BY DEF Branches
<1>2. CodeLen(b)' = CodeLen(b)
  BY <1>1 DEF CodeLen
<1>3. ASSUME NEW i PROVE InstrLen(i)' = InstrLen(i)
  BY DEF InstrLen
<1>4. ASSUME NEW a, NEW j PROVE InstrAddress(b, a, j)' = InstrAddress(b, a, j)
  BY <1>1, <1>3 DEF InstrAddress, InstrLen
<1>5. CodeSize(b)' = CodeSize(b)
  BY <1>2, <1>4 DEF CodeSize
<1>6. ASSUME NEW j PROVE InstrAt(b, j)' = InstrAt(b, j)
  BY <1>1 DEF InstrAt
<1> QED
  BY <1>1, <1>2, <1>4, <1>5, <1>6

LEMMA OffsetsUntouched ==
  ASSUME OffsetsInv, UNCHANGED <<isa, src, ops, conds, end, layout, laid, offset>>,
         laid # 0 => step' \notin {"place", "simplify"},
         step' = "run" => laid = Len(layout)
  PROVE  OffsetsInv'
<1>1. ASSUME NEW b \in Blocks, NEW d \in Blocks
      PROVE  Apart(b, d)' = Apart(b, d) /\ Adjacent(b, d)' = Adjacent(b, d)
  BY CodeUnchanged DEF Apart, Adjacent
<1>2. ASSUME NEW b \in Blocks PROVE Aligned(b)' = Aligned(b)
  BY DEF Aligned
<1> QED
  BY <1>1, <1>2 DEF OffsetsInv

LEMMA BlockOffsetsKeeps ==
  ASSUME PlacementInv, OffsetsInv, BlockOffsets
  PROVE  OffsetsInv'
<1>1. /\ step = "encode" /\ laid < Len(layout) /\ laid' = laid + 1
      /\ UNCHANGED <<isa, src, ops, conds, end, layout, step>>
      /\ offset' = [offset EXCEPT ![layout[laid + 1]] = NextOffset]
  BY DEF BlockOffsets, passVars
<1>2. /\ laid \in Nat /\ Len(layout) \in Nat /\ laid <= Len(layout)
      /\ layout \in Seq(Blocks) /\ offset \in [Blocks -> Nat]
  BY DEF OffsetsInv, PlacementInv, PlacementShape, IsLayout
<1>3. laid + 1 \in 1..Len(layout)
  BY <1>1, <1>2
<1>4. PICK e \in Blocks : e = layout[laid + 1]
  BY <1>2, <1>3
<1>5. ASSUME NEW i \in 1..laid, NEW b \in Blocks, layout[i] = b PROVE b # e
  <2>1. i \in 1..Len(layout) /\ i # laid + 1
    BY <1>2
  <2> QED
    BY <1>3, <1>4, <1>5, <2>1 DEF PlacementInv, PlacementShape, IsLayout
<1>6. NextOffset \in Nat
  <2>1. CASE laid = 0
    BY <2>1, LayoutAssumption DEF NextOffset
  <2>2. CASE laid # 0
    <3>1. laid \in 1..Len(layout)
      BY <1>2, <2>2
    <3>2. PICK f \in Blocks : f = layout[laid]
      BY <1>2, <3>1
    <3>3. HasCode(f)
      BY <1>1, CodeIsThere
    <3>4. CodeSize(f) \in Nat /\ offset[f] \in Nat
      BY <1>2, <3>3, SizeOfCode
    <3> QED
      BY <2>2, <3>2, <3>4 DEF NextOffset
  <2> QED
    BY <2>1, <2>2
<1>7. /\ offset' \in [Blocks -> Nat] /\ offset'[e] = NextOffset
      /\ \A b \in Blocks : b # e => offset'[b] = offset[b]
  BY <1>1, <1>2, <1>4, <1>6
<1>8. \A b \in Blocks : CodeSize(b)' = CodeSize(b)
  BY <1>1, CodeUnchanged
<1>9. ASSUME NEW i \in 1..laid, NEW j \in 1..laid, NEW b \in Blocks,
             NEW d \in Blocks, layout[i] = b, layout[j] = d
      PROVE  (i < j => Apart(b, d)') /\ (j = i + 1 => Adjacent(b, d)')
  <2>1. (i < j => Apart(b, d)) /\ (j = i + 1 => Adjacent(b, d))
    BY <1>9 DEF OffsetsInv
  <2>2. offset'[b] = offset[b] /\ offset'[d] = offset[d]
    BY <1>5, <1>7, <1>9
  <2> QED
    BY <1>8, <2>1, <2>2 DEF Apart, Adjacent
<1>10. ASSUME NEW i \in 1..laid, NEW b \in Blocks, layout[i] = b
       PROVE  Apart(b, e)' /\ (i = laid => Adjacent(b, e)')
  <2>1. laid \in 1..laid /\ laid \in 1..Len(layout) /\ laid # 0
    BY <1>2
  <2>2. PICK f \in Blocks : f = layout[laid]
    BY <1>2, <2>1
  <2>3. HasCode(f) /\ HasCode(b)
    BY <1>1, CodeIsThere
  <2>4. /\ CodeSize(f) \in Nat /\ offset[f] \in Nat
        /\ CodeSize(b) \in Nat /\ offset[b] \in Nat
    BY <1>2, <2>3, SizeOfCode
  <2>5. NextOffset = offset[f] + CodeSize(f)
    BY <2>1, <2>2 DEF NextOffset
  <2>6. offset'[b] = offset[b] /\ offset'[e] = offset[f] + CodeSize(f)
    BY <1>5, <1>7, <1>10, <2>5
  <2>7. CASE i = laid
    <3>1. b = f
      BY <1>10, <2>2, <2>7
    <3> QED
      BY <1>8, <2>4, <2>6, <3>1 DEF Apart, Adjacent
  <2>8. CASE i # laid
    <3>1. i < laid
      BY <1>2, <2>8
    <3>2. Apart(b, f)
      BY <1>10, <2>1, <2>2, <3>1 DEF OffsetsInv
    <3>3. offset[b] + CodeSize(b) <= offset[f] + CodeSize(f)
      BY <2>4, <3>2 DEF Apart
    <3> QED
      BY <1>8, <2>6, <2>8, <3>3 DEF Apart
  <2> QED
    BY <2>7, <2>8
<1>11. ASSUME NEW i \in 1..laid + 1, NEW j \in 1..laid + 1, NEW b \in Blocks,
              NEW d \in Blocks, layout[i] = b, layout[j] = d
       PROVE  (i < j => Apart(b, d)') /\ (j = i + 1 => Adjacent(b, d)')
  <2>1. CASE i \in 1..laid /\ j \in 1..laid
    BY <1>9, <1>11, <2>1
  <2>2. CASE i \in 1..laid /\ j = laid + 1
    <3>1. d = e /\ (j = i + 1 => i = laid)
      BY <1>2, <1>4, <1>11, <2>2
    <3> QED
      BY <1>10, <1>11, <2>2, <3>1
  <2>3. CASE i = laid + 1
    BY <1>2, <2>3
  <2> QED
    BY <1>2, <2>1, <2>2, <2>3
<1>12. ASSUME isa = "aarch64", NEW i \in 1..laid + 1, NEW b \in Blocks, layout[i] = b
       PROVE  Aligned(b)'
  <2>1. CASE i \in 1..laid
    <3>1. Aligned(b) /\ offset'[b] = offset[b]
      BY <1>5, <1>7, <1>12, <2>1 DEF OffsetsInv
    <3> QED
      BY <3>1 DEF Aligned
  <2>2. CASE i = laid + 1 /\ laid = 0
    <3>1. b = e /\ NextOffset = Base /\ Base \in Nat
      BY <1>4, <1>12, <2>2, LayoutAssumption DEF NextOffset
    <3>2. offset'[b] = Base + 4 * 0
      BY <1>7, <3>1
    <3> QED
      BY <3>2 DEF Aligned
  <2>3. CASE i = laid + 1 /\ laid # 0
    <3>1. laid \in 1..laid /\ laid \in 1..Len(layout)
      BY <1>2, <2>3
    <3>2. PICK f \in Blocks : f = layout[laid]
      BY <1>2, <3>1
    <3>3. HasCode(f)
      BY <1>1, CodeIsThere
    <3>4. CodeLen(f) \in Nat /\ CodeSize(f) = 4 * CodeLen(f)
      BY <1>12, <3>3, SizeOfCode
    <3>5. PICK n \in Nat : offset[f] = Base + 4 * n
      BY <1>12, <3>1, <3>2 DEF OffsetsInv, Aligned
    <3>6. b = e /\ NextOffset = offset[f] + CodeSize(f)
      BY <1>4, <1>12, <2>3, <3>2 DEF NextOffset
    <3>7. offset'[b] = Base + 4 * (n + CodeLen(f)) /\ n + CodeLen(f) \in Nat
      BY <1>7, <3>4, <3>5, <3>6, LayoutAssumption
    <3> QED
      BY <3>7 DEF Aligned
  <2> QED
    BY <1>2, <2>1, <2>2, <2>3
<1> QED
  BY <1>1, <1>2, <1>7, <1>11, <1>12 DEF OffsetsInv

\* Once every block is laid: no two overlap, and what follows a block in the
\* layout starts where it ends.
LEMMA AllLaid ==
  ASSUME PlacementInv, OffsetsInv, laid = Len(layout), NEW b \in Blocks, NEW d \in Blocks
  PROVE  /\ offset[b] \in Nat
         /\ b # d => Apart(b, d) \/ Apart(d, b)
         /\ Following(layout, b) = d => Adjacent(b, d)
         /\ isa = "aarch64" => Aligned(b)
<1>1. IsLayout(layout) /\ Len(layout) \in Nat
  BY DEF PlacementInv, PlacementShape, IsLayout
<1>2. PICK i \in 1..laid : i = PositionOf(layout, b) /\ layout[i] = b
  BY <1>1, PositionFound
<1>3. PICK j \in 1..laid : j = PositionOf(layout, d) /\ layout[j] = d
  BY <1>1, PositionFound
<1>4. ASSUME b # d PROVE Apart(b, d) \/ Apart(d, b)
  <2>1. i < j \/ j < i
    BY <1>1, <1>2, <1>3, <1>4
  <2> QED
    BY <1>2, <1>3, <2>1 DEF OffsetsInv
<1>5. ASSUME Following(layout, b) = d PROVE Adjacent(b, d)
  <2>1. i < Len(layout) /\ layout[i + 1] = d
    BY <1>2, <1>5, NoBlockIsNone DEF Following, NextInLayout
  <2>2. i + 1 \in 1..laid
    BY <1>1, <1>2, <2>1
  <2> QED
    BY <1>2, <2>1, <2>2 DEF OffsetsInv
<1> QED
  BY <1>2, <1>4, <1>5 DEF OffsetsInv

\* No two instructions share an address.
LEMMA AddressesUnique ==
  ASSUME PlacementInv, OffsetsInv, step = "encode", laid = Len(layout),
         NEW b \in Blocks, NEW i \in 1..CodeLen(b),
         NEW d \in Blocks, NEW j \in 1..CodeLen(d),
         InstrAddress(b, offset[b], i) = InstrAddress(d, offset[d], j)
  PROVE  b = d /\ i = j
<1>1. HasCode(b) /\ HasCode(d) /\ offset[b] \in Nat /\ offset[d] \in Nat
  BY CodeIsThere, AllLaid
<1>2. /\ CodeSize(b) \in Nat /\ CodeSize(d) \in Nat
      /\ CodeLen(b) \in Nat /\ CodeLen(d) \in Nat
      /\ offset[b] <= InstrAddress(b, offset[b], i)
      /\ InstrAddress(b, offset[b], i) < offset[b] + CodeSize(b)
      /\ offset[d] <= InstrAddress(d, offset[d], j)
      /\ InstrAddress(d, offset[d], j) < offset[d] + CodeSize(d)
  BY <1>1, SizeOfCode
<1>3. InstrAddress(b, offset[b], i) \in Nat /\ InstrAddress(d, offset[d], j) \in Nat
  BY <1>1, AddressStep
<1>4. b = d
  <2>1. ASSUME b # d PROVE FALSE
    <3>1. Apart(b, d) \/ Apart(d, b)
      BY <2>1, AllLaid
    <3> QED
      BY <1>1, <1>2, <1>3, <3>1 DEF Apart
  <2> QED
    BY <2>1
<1>5. i = j
  <2>1. i \in 1..CodeLen(b) + 1 /\ j \in 1..CodeLen(b) + 1 /\ i \in Nat /\ j \in Nat
    BY <1>2, <1>4
  <2>2. ASSUME i < j PROVE FALSE
    <3>1. InstrAddress(b, offset[b], i) < InstrAddress(b, offset[b], j)
      BY <1>1, <2>1, <2>2, AddressesRise
    <3> QED
      BY <1>3, <1>4, <3>1
  <2>3. ASSUME j < i PROVE FALSE
    <3>1. InstrAddress(b, offset[b], j) < InstrAddress(b, offset[b], i)
      BY <1>1, <2>1, <2>3, AddressesRise
    <3> QED
      BY <1>3, <1>4, <3>1
  <2> QED
    BY <2>1, <2>2, <2>3
<1> QED
  BY <1>4, <1>5
-----------------------------------------------------------------------------
(* A displacement that fits its field is read back as it was.               *)

LEMMA Residues ==
  ASSUME NEW M \in Nat \ {0}, NEW x \in Int, -M <= x, x < M
  PROVE  x % M = IF x < 0 THEN x + M ELSE x
<1>1. CASE x < 0
  <2>1. x % M = x + M
    BY <1>1
  <2> QED
    BY <1>1, <2>1
<1>2. CASE ~(x < 0)
  <2>1. x % M = x
    BY <1>2
  <2> QED
    BY <1>2, <2>1
<1> QED
  BY <1>1, <1>2

LEMMA FieldRoundTrip ==
  ASSUME NEW w \in {BBits, CondBits, RelBits}, NEW delta \in Int, InRange(delta, w)
  PROVE  SignExtend(delta % 2^w, w) = delta
<1>1. PICK H \in Nat \ {0} : H = 2^(w - 1) /\ 2^w = 2 * H
  BY FieldsAssumption
<1>2. -H <= delta /\ delta < H
  BY <1>1 DEF InRange
<1>3. delta % (2 * H) = IF delta < 0 THEN delta + 2 * H ELSE delta
  <2>1. 2 * H \in Nat \ {0} /\ -(2 * H) <= delta /\ delta < 2 * H
    BY <1>2
  <2> QED
    BY <2>1, Residues
<1>4. SignExtend(delta % 2^w, w)
          = IF delta % (2 * H) >= H THEN (delta % (2 * H)) - 2 * H ELSE delta % (2 * H)
  BY <1>1 DEF SignExtend
<1> QED
  BY <1>2, <1>3, <1>4

\* An instruction of a block is an op or one of its branches, and a branch
\* names a block.
LEMMA InstrFacts ==
  ASSUME NEW b, HasCode(b), NEW j \in 1..CodeLen(b)
  PROVE  /\ j <= ops[b] => InstrAt(b, j) = Op
         /\ j > ops[b] => /\ j - ops[b] \in 1..Len(Branches(b))
                          /\ InstrAt(b, j) = Branches(b)[j - ops[b]]
                          /\ InstrAt(b, j) \in MachineBranches
         /\ IsBranch(InstrAt(b, j)) => InstrAt(b, j).to \in Blocks
<1>1. PICK n \in Nat, m \in 0..2 : n = ops[b] /\ m = Len(Branches(b))
  BY DEF HasCode
<1>2. j \in 1..n + m
  BY <1>1 DEF CodeLen
<1>3. CASE j <= n
  BY <1>1, <1>2, <1>3 DEF InstrAt, IsBranch, Op, Instr
<1>4. CASE j > n
  <2>1. j - n \in 1..m
    BY <1>1, <1>2, <1>4
  <2>2. InstrAt(b, j) = Branches(b)[j - n] /\ Branches(b)[j - n] \in MachineBranches
    BY <1>1, <1>2, <1>4, <2>1 DEF InstrAt, HasCode
  <2>3. \A x \in MachineBranches : IsBranch(x) => x.to \in Blocks
    BY DEF MachineBranches, IsBranch, Exit, Instr
  <2> QED
    BY <1>1, <1>2, <1>4, <2>1, <2>2, <2>3
<1> QED
  BY <1>1, <1>2, <1>3, <1>4

\* An encoded instruction is the one it was made from, to the machine.
LEMMA WordsAct ==
  ASSUME NEW b, NEW j
  PROVE  /\ EncodedPlace(<<b, j>>).kind = InstrAt(b, j).kind
         /\ InstrLen(EncodedPlace(<<b, j>>)) = InstrLen(InstrAt(b, j))
         /\ FieldBits(EncodedPlace(<<b, j>>)) = FieldBits(InstrAt(b, j))
         /\ \A c : Taken(EncodedPlace(<<b, j>>), c) = Taken(InstrAt(b, j), c)
<1>1. /\ EncodedPlace(<<b, j>>).kind = InstrAt(b, j).kind
      /\ EncodedPlace(<<b, j>>).neg = InstrAt(b, j).neg
  BY DEF EncodedPlace, Encoded
<1> QED
  BY <1>1 DEF InstrLen, FieldBits, Taken, IsBranch

\* A taken branch goes to the offset of the block it names.
LEMMA BranchesLand ==
  ASSUME PlacementInv, OffsetsInv, laid = Len(layout),
         step \notin {"place", "simplify"},
         NEW b \in Blocks, NEW j \in 1..CodeLen(b), NEW t \in Blocks,
         PlaceFits(<<b, j>>), IsBranch(InstrAt(b, j)), InstrAt(b, j).to = t
  PROVE  BranchDestination(EncodedPlace(<<b, j>>), AddressOf(<<b, j>>)) = offset[t]
<1> DEFINE i == InstrAt(b, j)
           w == EncodedPlace(<<b, j>>)
           A == AddressOf(<<b, j>>)
           delta == Displacement(i, offset[t], A)
           bits == FieldBits(i)
<1>1. HasCode(b) /\ offset[b] \in Nat /\ offset[t] \in Nat
  BY CodeIsThere, AllLaid
<1>2. A = InstrAddress(b, offset[b], j) /\ A \in Nat
  BY <1>1, AddressStep DEF AddressOf
<1>3. InstrLen(i) \in Nat
  BY LengthsArePositive
<1>4. TargetOffset(i) = offset[t]
  BY DEF TargetOffset
<1>5. w.imm = delta % 2^bits /\ InRange(delta, bits)
  BY <1>4 DEF EncodedPlace, Encoded, PlaceFits, Fits
<1>6. bits \in {BBits, CondBits, RelBits}
  BY DEF FieldBits
<1>7. FieldBits(w) = bits /\ InstrLen(w) = InstrLen(i)
  BY WordsAct
<1>8. isa = "aarch64" \/ isa = "x86_64"
  BY DEF PlacementInv, PlacementShape
<1>9. CASE isa = "x86_64"
  <2>1. delta = offset[t] - A - InstrLen(i) /\ delta \in Int
    BY <1>1, <1>2, <1>3, <1>9 DEF Displacement
  <2>2. SignExtend(w.imm, bits) = delta
    BY <1>5, <1>6, <2>1, FieldRoundTrip
  <2>3. BranchDestination(w, A) = A + InstrLen(i) + delta
    BY <1>7, <1>9, <2>2 DEF BranchDestination
  <2> HIDE DEF delta, A, i, w, bits
  <2> QED
    BY <1>1, <1>2, <1>3, <2>1, <2>3 DEF w, A
<1>10. CASE isa = "aarch64"
  <2>1. PICK n \in Nat : offset[t] = Base + 4 * n
    BY <1>10, AllLaid DEF Aligned
  <2>2. PICK m \in Nat : offset[b] = Base + 4 * m
    BY <1>10, AllLaid DEF Aligned
  <2>3. A = offset[b] + 4 * (j - 1)
    <3>1. j \in 1..CodeLen(b) + 1
      BY <1>1, SizeOfCode
    <3>2. InstrAddress(b, offset[b], j) = offset[b] + InstrAddress(b, 0, j)
      BY <1>1, <3>1, AddressShifts
    <3>3. isa = "aarch64" => InstrAddress(b, 0, j) = 4 * (j - 1)
      BY <1>1, <3>1, AddressShifts
    <3> QED
      BY <1>2, <1>10, <3>2, <3>3
  <2>4. PICK x \in Int : x = n - m - (j - 1)
    BY <1>1, SizeOfCode
  <2>5. offset[t] - A = 4 * x
    BY <1>1, <2>1, <2>2, <2>3, <2>4, SizeOfCode, LayoutAssumption
  <2>6. delta = (4 * x) \div 4
    BY <1>10, <2>5 DEF Displacement
  <2>7. delta = x
    BY <2>6
  <2>8. SignExtend(w.imm, bits) = delta
    BY <1>5, <1>6, <2>7, FieldRoundTrip
  <2>9. BranchDestination(w, A) = A + 4 * x
    BY <1>7, <1>10, <2>7, <2>8 DEF BranchDestination
  <2> HIDE DEF delta, A, i, w, bits
  <2> QED
    BY <1>1, <1>2, <2>5, <2>9 DEF w, A
<1> QED
  BY <1>8, <1>9, <1>10

LEMMA PlacesUnchanged ==
  ASSUME UNCHANGED <<isa, src, ops, conds, end, layout, offset>>, NEW b \in Blocks, NEW j
  PROVE  /\ PlaceFits(<<b, j>>)' = PlaceFits(<<b, j>>)
         /\ AddressOf(<<b, j>>)' = AddressOf(<<b, j>>)
         /\ EncodedPlace(<<b, j>>)' = EncodedPlace(<<b, j>>)
<1>1. InstrAt(b, j)' = InstrAt(b, j)
  BY CodeUnchanged
<1>2. AddressOf(<<b, j>>)' = AddressOf(<<b, j>>)
  BY CodeUnchanged DEF AddressOf
<1> QED
  BY <1>1, <1>2
     DEF PlaceFits, EncodedPlace, TargetOffset, Fits, Encoded, Displacement,
         FieldBits, InstrLen
-----------------------------------------------------------------------------
(* The bytes, and the machine that runs them.                               *)

\* The machine at the start of block t.
LEMMA StartsBlock ==
  ASSUME PlacementInv, OffsetsInv, laid = Len(layout),
         step \notin {"place", "simplify"}, NEW t \in Blocks,
         UNCHANGED <<isa, src, ops, conds, end, layout, offset>>,
         at' = t, k' = 1, cond' \in BOOLEAN, pc' = offset[t]
  PROVE  RunInv'
<1>1. PICK c \in BOOLEAN : cond' = c
  OBVIOUS
<1>2. PICK a \in Nat : offset[t] = a
  BY AllLaid
<1>3. HasCode(t) /\ CodeLen(t) \in Nat
  BY CodeIsThere, SizeOfCode
<1>4. 1 \in 1..CodeLen(t) + 1
  BY <1>3
<1>5. InstrAddress(t, a, 1) = a
  BY <1>3, <1>4, AddressShifts
<1>6. CodeLen(t)' = CodeLen(t) /\ InstrAddress(t, a, 1)' = a
  BY <1>5, CodeUnchanged
<1>7. RunsAt(t, a, 1, c)'
  BY <1>1, <1>2, <1>4, <1>6 DEF RunsAt
<1> QED
  BY <1>7 DEF RunInv

LEMMA EncodeHolds ==
  ASSUME PlacementInv, OffsetsInv, Encode, step' = "run"
  PROVE  MemoryInv' /\ RunInv'
<1>1. /\ step = "encode" /\ laid = Len(layout) /\ at' = Entry /\ k' = 1
      /\ cond' \in BOOLEAN
      /\ UNCHANGED <<isa, src, ops, conds, end, layout, offset>>
  BY DEF Encode, passVars
<1>2. /\ \A p \in Places : PlaceFits(p)
      /\ mem' = [a \in {AddressOf(p) : p \in Places} |->
                    EncodedPlace(CHOOSE p \in Places : AddressOf(p) = a)]
      /\ pc' = offset[Entry]
  BY DEF Encode
<1>3. ASSUME NEW b \in Blocks, NEW j \in 1..CodeLen(b) PROVE Holds(b, j)'
  <2>1. <<b, j>> \in Places
    BY DEF Places
  <2>2. ASSUME NEW p \in Places, AddressOf(p) = AddressOf(<<b, j>>)
        PROVE  p = <<b, j>>
    <3>0. PICK d \in Blocks : p \in {d} \X (1..CodeLen(d))
      BY DEF Places
    <3>1. PICK i \in 1..CodeLen(d) : p = <<d, i>>
      BY <3>0
    <3>2. InstrAddress(b, offset[b], j) = InstrAddress(d, offset[d], i)
      BY <2>2, <3>1 DEF AddressOf
    <3>3. b = d /\ j = i
      BY <1>1, <3>2, AddressesUnique
    <3> QED
      BY <3>1, <3>3
  <2>3. (CHOOSE p \in Places : AddressOf(p) = AddressOf(<<b, j>>)) = <<b, j>>
    BY <2>1, <2>2
  <2>4. /\ AddressOf(<<b, j>>) \in DOMAIN mem'
        /\ mem'[AddressOf(<<b, j>>)] = EncodedPlace(<<b, j>>)
    BY <1>2, <2>1, <2>3
  <2>5. PlaceFits(<<b, j>>)
    BY <1>2, <2>1
  <2> QED
    BY <1>1, <2>4, <2>5, PlacesUnchanged DEF Holds
<1>4. MemoryInv'
  BY <1>1, <1>3, CodeUnchanged DEF MemoryInv
<1>5. RunInv'
  <2>1. PICK b \in Blocks : b = Entry
    BY LayoutAssumption DEF Blocks, Entry
  <2>2. at' = b /\ pc' = offset[b]
    BY <1>1, <1>2, <2>1
  <2> QED
    BY <1>1, <2>2, StartsBlock
<1> QED
  BY <1>4, <1>5

\* The bytes of a function that is running stay what they are.
LEMMA MemoryUntouched ==
  ASSUME MemoryInv, UNCHANGED <<isa, src, ops, conds, end, layout, offset, mem>>
  PROVE  MemoryInv'
<1>1. ASSUME NEW b \in Blocks, NEW j \in 1..CodeLen(b) PROVE Holds(b, j)'
  <2>1. Holds(b, j)
    BY DEF MemoryInv
  <2> QED
    BY <2>1, PlacesUnchanged DEF Holds
<1> QED
  BY <1>1, CodeUnchanged DEF MemoryInv

LEMMA ExecuteKeeps ==
  ASSUME PlacementInv, OffsetsInv, MemoryInv, RunInv, ExecuteInstr
  PROVE  RunInv'
<1>1. PICK b \in Blocks, a \in Nat, j \in Nat, c \in BOOLEAN : RunsAt(b, a, j, c)
  BY DEF RunInv
<1>2. /\ at = b /\ k = j /\ cond = c /\ j \in 1..CodeLen(b) + 1
      /\ offset[b] = a /\ pc = InstrAddress(b, a, j)
      /\ \A i \in 1..j - 1 : InstrAt(b, i).kind # "ret" /\ ~Taken(InstrAt(b, i), c)
  BY <1>1 DEF RunsAt
<1>3. /\ step = "run" /\ k <= CodeLen(at)
      /\ UNCHANGED <<isa, src, ops, conds, end, layout, offset>>
  BY DEF ExecuteInstr, passVars, encodeVars
<1>4. laid = Len(layout)
  BY <1>3 DEF OffsetsInv
<1>5. /\ HasCode(b) /\ CodeMeans(b) /\ offset[b] \in Nat /\ CodeLen(b) \in Nat
      /\ ops[b] \in Nat
  BY <1>3, <1>4, CodeIsThere, BranchesMean, AllLaid, SizeOfCode DEF HasCode
<1>6. j \in 1..CodeLen(b)
  BY <1>2, <1>3, <1>5
<1>7. Holds(b, j) /\ pc = AddressOf(<<b, j>>) /\ mem[pc] = EncodedPlace(<<b, j>>)
  BY <1>2, <1>6 DEF MemoryInv, Holds, AddressOf
<1>8. /\ EncodedPlace(<<b, j>>).kind # "ret"
      /\ IF Taken(EncodedPlace(<<b, j>>), c)
         THEN /\ pc' = BranchDestination(EncodedPlace(<<b, j>>), pc)
              /\ SourceBranches
         ELSE /\ pc' = pc + InstrLen(EncodedPlace(<<b, j>>))
              /\ k' = k + 1 /\ UNCHANGED <<at, cond>>
  BY <1>2, <1>7 DEF ExecuteInstr
<1>9. /\ InstrAt(b, j).kind # "ret"
      /\ Taken(EncodedPlace(<<b, j>>), c) = Taken(InstrAt(b, j), c)
      /\ InstrLen(EncodedPlace(<<b, j>>)) = InstrLen(InstrAt(b, j))
  BY <1>8, WordsAct
<1>10. CASE Taken(InstrAt(b, j), c)
  <2>1. IsBranch(InstrAt(b, j))
    BY <1>10 DEF Taken, IsBranch
  <2>2. j > ops[b]
    <3>1. ~IsBranch(Op)
      BY DEF IsBranch, Op, Instr
    <3> QED
      BY <1>5, <1>6, <2>1, <3>1, InstrFacts
  <2>3. PICK x \in 1..Len(Branches(b)) :
            x = j - ops[b] /\ InstrAt(b, j) = Branches(b)[x]
    BY <1>5, <1>6, <2>2, InstrFacts
  <2>4. src[b].kind # "ret"
    <3>1. ASSUME src[b].kind = "ret" PROVE FALSE
      <4>1. Branches(b) = <<Exit>>
        BY <1>5, <3>1 DEF CodeMeans
      <4>2. Branches(b)[x] = Exit
        BY <2>3, <4>1
      <4> QED
        BY <1>9, <2>3, <4>2 DEF Exit, Instr
    <3> QED
      BY <3>1
  <2>5. ASSUME NEW i \in 1..x - 1 PROVE ~Taken(Branches(b)[i], c)
    <3>1. PICK n \in Nat : n = ops[b]
      BY <1>5
    <3>2. x \in Int /\ x = j - n
      BY <2>3, <3>1
    <3>3. n + i \in 1..j - 1 /\ ~(n + i <= n) /\ (n + i) - n = i
      BY <3>1, <3>2
    <3>4. InstrAt(b, n + i) = Branches(b)[i]
      BY <3>1, <3>3 DEF InstrAt
    <3> QED
      BY <1>2, <3>3, <3>4
  <2>6. InstrAt(b, j).to = Successor(src[b], c) /\ Successor(src[b], c) \in Blocks
    BY <1>5, <1>10, <2>3, <2>4, <2>5 DEF CodeMeans
  <2>7. PICK t \in Blocks : t = Successor(src[b], c)
    BY <2>6
  <2>8. PlaceFits(<<b, j>>)
    BY <1>7 DEF Holds
  <2>9. pc' = offset[t]
    BY <1>3, <1>4, <1>6, <1>7, <1>8, <1>9, <1>10, <2>1, <2>6, <2>7, <2>8, BranchesLand
  <2>10. at' = t /\ k' = 1 /\ cond' \in BOOLEAN
    BY <1>2, <1>8, <1>9, <1>10, <2>7 DEF SourceBranches
  <2> QED
    BY <1>3, <1>4, <2>9, <2>10, StartsBlock
<1>11. CASE ~Taken(InstrAt(b, j), c)
  <2>1. /\ pc' = pc + InstrLen(InstrAt(b, j))
        /\ at' = b /\ k' = j + 1 /\ cond' = c
    BY <1>2, <1>8, <1>9, <1>11
  <2>2. pc' = InstrAddress(b, a, j + 1)
    BY <1>2, <1>5, <1>6, <2>1, AddressStep
  <2>3. j + 1 \in 1..CodeLen(b) + 1 /\ j + 1 - 1 = j
    BY <1>5, <1>6
  <2>4. ASSUME NEW i \in 1..j
        PROVE  InstrAt(b, i).kind # "ret" /\ ~Taken(InstrAt(b, i), c)
    <3>1. i \in 1..j - 1 \/ i = j
      BY <1>6
    <3> QED
      BY <1>2, <1>9, <1>11, <3>1
  <2>5. PICK y \in Nat : y = j + 1
    BY <2>3
  <2>6. RunsAt(b, a, y, c)'
    <3>1. /\ CodeLen(b)' = CodeLen(b)
          /\ InstrAddress(b, a, y)' = InstrAddress(b, a, y)
          /\ \A i : InstrAt(b, i)' = InstrAt(b, i)
      BY <1>3, CodeUnchanged
    <3>2. \A i : Taken(InstrAt(b, i), c)' = Taken(InstrAt(b, i), c)
      BY <3>1 DEF Taken, IsBranch
    <3> QED
      BY <1>2, <1>3, <2>1, <2>2, <2>3, <2>4, <2>5, <3>1, <3>2 DEF RunsAt
  <2> QED
    BY <2>6 DEF RunInv
<1> QED
  BY <1>10, <1>11

LEMMA FallThroughKeeps ==
  ASSUME PlacementInv, OffsetsInv, RunInv, FallThrough
  PROVE  RunInv'
<1>1. PICK b \in Blocks, a \in Nat, j \in Nat, c \in BOOLEAN : RunsAt(b, a, j, c)
  BY DEF RunInv
<1>2. /\ at = b /\ k = j /\ cond = c /\ j \in 1..CodeLen(b) + 1
      /\ offset[b] = a /\ pc = InstrAddress(b, a, j)
      /\ \A i \in 1..j - 1 : InstrAt(b, i).kind # "ret" /\ ~Taken(InstrAt(b, i), c)
  BY <1>1 DEF RunsAt
<1>3. /\ step = "run" /\ k > CodeLen(at) /\ SourceBranches /\ pc' = pc
      /\ UNCHANGED <<isa, src, ops, conds, end, layout, offset>>
  BY DEF FallThrough, passVars, encodeVars
<1>4. laid = Len(layout)
  BY <1>3 DEF OffsetsInv
<1>5. HasCode(b) /\ CodeMeans(b) /\ CodeLen(b) \in Nat
  BY <1>3, CodeIsThere, BranchesMean, SizeOfCode
<1>6. j = CodeLen(b) + 1
  BY <1>2, <1>3, <1>5
<1>7. PICK n \in Nat, m \in 0..2 : n = ops[b] /\ m = Len(Branches(b))
  BY <1>5 DEF HasCode
<1>8. ASSUME NEW i \in 1..m
      PROVE  Branches(b)[i].kind # "ret" /\ ~Taken(Branches(b)[i], c)
  <2>1. j - 1 = n + m
    BY <1>5, <1>6, <1>7 DEF CodeLen
  <2>2. n + i \in 1..j - 1 /\ ~(n + i <= n) /\ (n + i) - n = i
    BY <1>7, <2>1
  <2>3. InstrAt(b, n + i) = Branches(b)[i]
    BY <1>7, <2>2 DEF InstrAt
  <2> QED
    BY <1>2, <2>2, <2>3
<1>9. src[b].kind # "ret"
  <2>1. ASSUME src[b].kind = "ret" PROVE FALSE
    <3>1. Branches(b) = <<Exit>>
      BY <1>5, <2>1 DEF CodeMeans
    <3>2. m = 1 /\ Branches(b)[1] = Exit
      BY <1>7, <3>1
    <3> QED
      BY <1>8, <3>2 DEF Exit, Instr
  <2> QED
    BY <2>1
<1>10. PICK t \in Blocks : t = Successor(src[b], c) /\ Following(layout, b) = t
  BY <1>5, <1>7, <1>8, <1>9 DEF CodeMeans
<1>11. pc = offset[t]
  <2>1. Adjacent(b, t)
    BY <1>4, <1>10, AllLaid
  <2>2. InstrAddress(b, a, CodeLen(b) + 1) = a + CodeSize(b)
    BY <1>5, SizeOfCode
  <2> QED
    BY <1>2, <1>6, <2>1, <2>2 DEF Adjacent
<1>12. at' = t /\ k' = 1 /\ cond' \in BOOLEAN /\ pc' = offset[t]
  BY <1>2, <1>3, <1>10, <1>11 DEF SourceBranches
<1> QED
  BY <1>3, <1>4, <1>12, StartsBlock

\* Until the blocks are laid there is nothing to say of the bytes.
LEMMA NothingLaid ==
  ASSUME OffsetsInv, PlacementInv', UNCHANGED <<laid, offset>>,
         step \in {"place", "simplify"}, step' # "run"
  PROVE  EncodeInv'
<1>1. laid = 0 /\ laid' = 0 /\ offset' \in [Blocks -> Nat]
  BY DEF OffsetsInv
<1>2. 0 \in 0..Len(layout')
  BY DEF PlacementInv, PlacementShape, IsLayout
<1>3. OffsetsInv'
  BY <1>1, <1>2 DEF OffsetsInv
<1> QED
  BY <1>3 DEF EncodeInv

\* The state of a run that a step does not touch.
LEMMA RunUntouched ==
  ASSUME RunInv, UNCHANGED <<isa, src, ops, conds, end, layout, offset, at, k, cond, pc>>
  PROVE  RunInv'
<1>1. PICK b \in Blocks, a \in Nat, j \in Nat, c \in BOOLEAN : RunsAt(b, a, j, c)
  BY DEF RunInv
<1>2. /\ CodeLen(b)' = CodeLen(b)
      /\ InstrAddress(b, a, j)' = InstrAddress(b, a, j)
      /\ \A i : InstrAt(b, i)' = InstrAt(b, i)
  BY CodeUnchanged
<1>3. \A i : Taken(InstrAt(b, i), c)' = Taken(InstrAt(b, i), c)
  BY <1>2 DEF Taken, IsBranch
<1>4. RunsAt(b, a, j, c)'
  BY <1>1, <1>2, <1>3 DEF RunsAt
<1> QED
  BY <1>4 DEF RunInv

LEMMA EncodeStep ==
  ASSUME PlacementInv, PlacementInv', EncodeInv, [NextLayout]_layoutVars
  PROVE  EncodeInv'
<1> USE DEF EncodeInv
<1>1. CASE BeginPass \/ PlaceNext \/ ApplyLayout \/ Simplify
  <2>1. /\ UNCHANGED <<laid, offset>> /\ step \in {"place", "simplify"}
        /\ step' # "run"
    BY <1>1 DEF BeginPass, PlaceNext, ApplyLayout, Simplify, encodeVars
  <2> QED
    BY <2>1, NothingLaid
<1>2. CASE BlockOffsets
  <2>1. step' # "run"
    BY <1>2 DEF BlockOffsets
  <2> QED
    BY <1>2, <2>1, BlockOffsetsKeeps
<1>3. CASE Encode
  <2>1. /\ UNCHANGED <<isa, src, ops, conds, end, layout, laid, offset>>
        /\ step = "encode" /\ step' \in {"run", "error"} /\ laid = Len(layout)
    BY <1>3 DEF Encode, passVars
  <2>2. OffsetsInv'
    BY <2>1, OffsetsUntouched
  <2> QED
    BY <1>3, <2>2, EncodeHolds
<1>4. CASE ExecuteInstr \/ FallThrough
  <2>1. /\ UNCHANGED <<isa, src, ops, conds, end, layout, laid, offset, mem, step>>
        /\ step = "run"
    BY <1>4 DEF ExecuteInstr, FallThrough, passVars, encodeVars
  <2>2. OffsetsInv'
    BY <2>1, OffsetsUntouched DEF OffsetsInv
  <2>3. MemoryInv'
    BY <2>1, MemoryUntouched
  <2>4. RunInv'
    BY <1>4, <2>1, ExecuteKeeps, FallThroughKeeps
  <2> QED
    BY <2>2, <2>3, <2>4
<1>5. CASE Return \/ Finished \/ UNCHANGED layoutVars
  <2>1. /\ UNCHANGED <<isa, src, ops, conds, end, layout, laid, offset, mem,
                       at, k, cond, pc>>
        /\ \/ step' = step
           \/ step = "run" /\ step' = "done"
    BY <1>5 DEF Return, Finished, layoutVars, passVars, encodeVars, runVars
  <2>2. OffsetsInv'
    BY <2>1, OffsetsUntouched DEF OffsetsInv
  <2>3. step' = "run" => MemoryInv' /\ RunInv'
    BY <2>1, MemoryUntouched, RunUntouched
  <2> QED
    BY <2>2, <2>3
<1> QED
  BY <1>1, <1>2, <1>3, <1>4, <1>5 DEF NextLayout

\* On both architectures, whatever the function, the layout and the widths of
\* the displacement fields, the bytes run in step with the function: every
\* fall-through, block offset and displacement is right, or encoding failed.
THEOREM BytesRunInStep == SpecLayout => []InStep
<1>1. InitLayout => EncodeInv
  <2> SUFFICES ASSUME InitLayout PROVE EncodeInv
    OBVIOUS
  <2>1. laid = 0 /\ step = "place" /\ offset \in [Blocks -> Nat]
    BY DEF InitLayout
  <2>2. 0 \in 0..Len(layout)
    BY InitPlacement DEF PlacementInv, PlacementShape, IsLayout
  <2> QED
    BY <2>1, <2>2 DEF EncodeInv, OffsetsInv
<1>2. PlacementInv /\ EncodeInv /\ [NextLayout]_layoutVars
          => (PlacementInv /\ EncodeInv)'
  BY PlacementStep, EncodeStep
<1>3. EncodeInv => InStep
  BY DEF EncodeInv, RunInv, RunsAt, InStep
<1> QED
  BY <1>1, <1>2, <1>3, InitPlacement, PTL DEF SpecLayout
=============================================================================
