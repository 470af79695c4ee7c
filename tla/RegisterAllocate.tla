-------------------------- MODULE RegisterAllocate --------------------------
(***************************************************************************)
(* The whole aarch64 register allocation of one function, and what it is   *)
(* for: liveness over the machine CFG, the linear scan, the rewrite of the *)
(* operands with spill code, the frame (aarch64_frame_lower), and then an  *)
(* execution of the allocated code beside the virtual-register code it     *)
(* replaces.                                                               *)
(*                                                                         *)
(* A program is a record: insts (in layout order), first and last (the     *)
(* instructions of each block, blocks in layout order), block (of each     *)
(* instruction), succs (the successors of each block, none for a block     *)
(* that returns), class (of each virtual register), freq (of each block),  *)
(* locals (bytes of stack objects, 16-aligned) and the options weighted    *)
(* and remat.  An instruction is a record: op, uses and defs (sequences of *)
(* <<operand key, virtual register>>; a tied operand is in both under one  *)
(* key) and imm.                                                           *)
(***************************************************************************)
EXTENDS LinearScan, Sequences

CONSTANTS
    Programs,  \* the machine functions to allocate
    Values     \* the values instructions compute

VARIABLES
    prog,      \* the machine function
    phase,     \* "liveness", "intervals", "scan", "rewritten", "run", "done" or "error"
    live_in,   \* per block: the virtual registers live at its start
    live_out,  \* per block: the virtual registers live at its end
    changed,   \* some set of this round of the liveness iteration has changed
    index,     \* the block of that round, then the instruction whose points are taken
    points,    \* virtual register -> <<first, last>> instruction it is live at
    executed,  \* virtual register -> the frequencies of its uses, added up
    pc,        \* the instruction to execute next
    vval,      \* execution over virtual registers: the value of each
    mreg,      \* execution over machine registers: <<low, high>> half of each
    stack      \* the frame, as 8-byte words at byte offsets from sp

liveness == <<live_in, live_out, changed, index, points, executed>>
machine == <<pc, vval, mreg, stack>>
mvars == <<prog, phase, liveness, machine>>

\* Contents no instruction computes.
Junk == -1     \* what a clobbered or unwritten location holds
Local == -2    \* the contents of the function's own stack objects

\* The caller's value of a callee-saved register.
CallersOf(bank, k) == IF bank = "Gpr" THEN -3 - 2 * k ELSE -4 - 2 * k

ASSUME ComputedValues == Values \subseteq Nat

-----------------------------------------------------------------------------
(* Liveness: collect_live_intervals and values_live_across_calls.          *)

Insts(p) == DOMAIN p.insts
Blocks(p) == DOMAIN p.succs
Regs(operands) == {operands[k][2] : k \in DOMAIN operands}
virtual_uses(p, i) == Regs(p.insts[i].uses)
virtual_defs(p, i) == Regs(p.insts[i].defs)
In(p, b) == p.first[b] .. p.last[b]

\* v is defined by no instruction of i's block strictly between i and j.
NoDefBetween(p, v, i, j) == \A k \in i + 1 .. j - 1 : v \notin virtual_defs(p, k)

block_uses(p, b) ==
    {v \in DOMAIN p.class :
        \E j \in In(p, b) :
            /\ v \in virtual_uses(p, j)
            /\ \A k \in In(p, b) : k < j => v \notin virtual_defs(p, k)}
block_defs(p, b) == UNION {virtual_defs(p, i) : i \in In(p, b)}

\* Every path to a use passes a definition: some sets of registers, none at
\* the entry, are defined on every path to the start of their block.
IsStrict(p) ==
    \E defined \in [Blocks(p) -> SUBSET DOMAIN p.class] :
        /\ defined[1] = {}
        /\ \A b \in Blocks(p) :
              /\ block_uses(p, b) \subseteq defined[b]
              /\ \A s \in p.succs[b] : defined[s] \subseteq defined[b] \cup block_defs(p, b)

\* Mutant of LiveAfter: what the successors read is forgotten.
LiveAfterInBlock(p, out, i) ==
    {v \in DOMAIN p.class :
        \E j \in In(p, p.block[i]) :
            j > i /\ v \in virtual_uses(p, j) /\ NoDefBetween(p, v, i, j)}

\* The values live just after instruction i.
LiveAfter(p, out, i) ==
    LET b == p.block[i]
    IN  {v \in DOMAIN p.class :
           \/ \E j \in In(p, b) : j > i /\ v \in virtual_uses(p, j) /\ NoDefBetween(p, v, i, j)
           \/ /\ v \in out[b]
              /\ \A k \in In(p, b) : k > i => v \notin virtual_defs(p, k)}

calls(p) == {i \in Insts(p) : p.insts[i].op = "call"}

SCRATCH == 3    \* spill scratch registers of each bank

\* What instruction selection emits: at most two virtual operands are read
\* and one is written, a call writes none and does not end its block.
IsInst(p, i) ==
    LET inst == p.insts[i]
        Operands == Seq(STRING \X DOMAIN p.class)
    IN  /\ inst.uses \in Operands /\ Len(inst.uses) <= SCRATCH - 1
        /\ inst.defs \in Operands /\ Len(inst.defs) <= 1
        /\ inst.imm \in Nat
        /\ i \in calls(p) => inst.defs = <<>> /\ i < p.last[p.block[i]]

\* A machine function: blocks that are ranges of the instructions.
IsProgram(p) ==
    /\ DOMAIN p.insts = 1 .. Len(p.insts) /\ Len(p.insts) \in Nat
    /\ DOMAIN p.succs = 1 .. Len(p.succs) /\ Len(p.succs) \in Nat \ {0}
    /\ DOMAIN p.class \subseteq Nat /\ p.class \in [DOMAIN p.class -> RegisterClass]
    /\ \A b \in Blocks(p) :
          /\ p.succs[b] \subseteq Blocks(p) /\ p.freq[b] \in Nat
          /\ p.first[b] \in Insts(p) /\ p.last[b] \in Insts(p) /\ p.first[b] <= p.last[b]
          /\ \A i \in In(p, b) : p.block[i] = b
    /\ \A i \in Insts(p) : p.block[i] \in Blocks(p) /\ i \in In(p, p.block[i]) /\ IsInst(p, i)
    /\ p.first[1] = 1
    /\ p.locals \in Nat /\ p.locals % 16 = 0
    /\ p.weighted \in BOOLEAN /\ p.remat \in BOOLEAN
    /\ IsStrict(p)

ASSUME ProgramsAssumption == \A p \in Programs : IsProgram(p)

\* Mutant of values_live_across_calls: a use right after the call is missed.
LiveWellPastCalls(p, start, end) ==
    {v \in DOMAIN start : \E c \in calls(p) : start[v] < c /\ c + 1 < end[v]}

\* The values whose interval strictly contains a call.
values_live_across_calls(p, start, end) ==
    {v \in DOMAIN start : \E c \in calls(p) : start[v] < c /\ c < end[v]}

\* The immediates that trivially rematerialize a value: it has one
\* definition, a mov_imm, and the remat option is on.
remat_defs(p, v) == {i \in Insts(p) : v \in virtual_defs(p, i)}
rematerializable(p, v) ==
    /\ p.remat
    /\ \E i \in Insts(p) : remat_defs(p, v) = {i} /\ p.insts[i].op = "mov_imm"
remat_imm(p, v) == p.insts[CHOOSE i \in Insts(p) : remat_defs(p, v) = {i}].imm

\* How often instruction i reads v.
usesAt(p, v, i) ==
    Cardinality({k \in DOMAIN p.insts[i].uses : p.insts[i].uses[k][2] = v})

\* restore estimate times the executed uses (RELOAD_COST 4, REMAT_COST 1).
spill_weight(p, v, uses) == (IF rematerializable(p, v) THEN 1 ELSE 4) * uses

\* What allocate_function hands to linear_scan.
InputOf(p, pts, uses) ==
    LET start == [v \in DOMAIN pts |-> pts[v][1]]
        end == [v \in DOMAIN pts |-> pts[v][2]]
    IN  [vregs |-> DOMAIN pts, start |-> start, end |-> end,
         class |-> [v \in DOMAIN pts |-> p.class[v]],
         call_crossing |-> values_live_across_calls(p, start, end),
         weighted |-> p.weighted,
         weight |-> [v \in DOMAIN pts |-> spill_weight(p, v, uses[v])]]

\* Before that, there is nothing to scan.
NoInput ==
    [vregs |-> {}, start |-> <<>>, end |-> <<>>, class |-> <<>>,
     call_crossing |-> {}, weighted |-> FALSE, weight |-> <<>>]

-----------------------------------------------------------------------------
(* The rewrite: rewrite_allocated_registers and next_spill_scratch.        *)

PhysReg(bank, k) == <<bank, "pool", k>>
ScratchReg(bank, k) == <<bank, "scratch", k>>
RegistersOf(bank) ==
    {PhysReg(bank, k) : k \in pool(bank)} \cup {ScratchReg(bank, k) : k \in 0 .. SCRATCH - 1}
MachineRegisters == RegistersOf("Gpr") \cup RegistersOf("Fpr")

\* How many of the first n use operands draw a scratch register of bank.
DrawnBefore(inst, n, bank) ==
    Cardinality({k \in 1 .. n : /\ InSlot(inst.uses[k][2])
                                /\ bankOf(inst.uses[k][2]) = bank})

UseRegister(inst, k) ==
    LET v == inst.uses[k][2]
    IN  IF InReg(v) THEN PhysReg(bankOf(v), assignments[v].at)
        ELSE ScratchReg(bankOf(v), DrawnBefore(inst, k - 1, bankOf(v)))

\* A tied definition stays in the scratch register of its use.
DefRegister(inst) ==
    LET v == inst.defs[1][2]
        tied == {k \in DOMAIN inst.uses : inst.uses[k] = inst.defs[1]}
    IN  IF InReg(v) THEN PhysReg(bankOf(v), assignments[v].at)
        ELSE IF tied # {} THEN UseRegister(inst, CHOOSE k \in tied : TRUE)
        ELSE ScratchReg(bankOf(v), DrawnBefore(inst, Len(inst.uses), bankOf(v)))

ScratchSuffices(inst) ==
    /\ \A k \in DOMAIN inst.uses :
          InSlot(inst.uses[k][2]) => UseRegister(inst, k) \in MachineRegisters
    /\ inst.defs # <<>> => DefRegister(inst) \in MachineRegisters

-----------------------------------------------------------------------------
(* The frame: allocate_function's stack size and aarch64_frame_lower.      *)

align_to_16(bytes) == ((bytes + 15) \div 16) * 16
slot_offset(slot) == prog.locals + slot * 8
stack_size == align_to_16(prog.locals + spill_slots * 8)

\* The save area lies above the spill slots, the Gpr registers first.
SavedBefore(r) ==
    {s \in saved_regs : \/ s[1] = "Gpr" /\ r[1] = "Fpr"
                        \/ s[1] = r[1] /\ s[2] < r[2]}

\* Mutant of save_slot: the save area starts where the spill slots do.
SaveOverSpills(r) == prog.locals + Cardinality(SavedBefore(r)) * 8

save_slot(r) == stack_size + Cardinality(SavedBefore(r)) * 8
frame_bytes == align_to_16(stack_size + Cardinality(saved_regs) * 8)
FrameWords == {8 * k : k \in 0 .. (frame_bytes \div 8) - 1}

-----------------------------------------------------------------------------
(* Running the allocated code.  A q register is both halves of a register, *)
(* a d or x register the low half; a value is the same in both halves, so  *)
(* a mixture of two values reads as Junk.                                  *)

Load(class, words) ==
    IF class # "Simd128" \/ words[1] = words[2] THEN words[1] ELSE Junk
Half(class, val) == IF class = "Simd128" THEN <<val, val>> ELSE <<val, Junk>>
SlotWords(v) ==
    <<stack[slot_offset(assignments[v].at)],
      IF is_q(v) THEN stack[slot_offset(assignments[v].at) + 8] ELSE Junk>>

\* The restore of a spilled use: a reload of the slot, or the constant again.
RestoreValue(v) ==
    IF rematerializable(prog, v) THEN remat_imm(prog, v)
    ELSE Load(input.class[v], SlotWords(v))

\* The registers after the restores inserted before an instruction.  Each
\* restored operand draws a register of its own.
Restored(inst) ==
    LET spilled == {k \in DOMAIN inst.uses : InSlot(inst.uses[k][2])}
        into(r) == {k \in spilled : UseRegister(inst, k) = r}
    IN  [r \in MachineRegisters |->
           IF into(r) = {} THEN mreg[r]
           ELSE LET v == inst.uses[CHOOSE k \in into(r) : TRUE][2]
                IN  Half(input.class[v], RestoreValue(v))]

\* What use operand k reads from its register.
ReadOperand(inst, k) ==
    Load(input.class[inst.uses[k][2]], Restored(inst)[UseRegister(inst, k)])

\* A call leaves the callee-saved registers alone, of vector registers only
\* the low half (AAPCS; external to this code).
Clobbered(regs) ==
    [r \in MachineRegisters |->
        IF r[2] = "pool" /\ is_callee_saved_index(r[1], r[3])
        THEN <<regs[r][1], IF r[1] = "Gpr" THEN regs[r][2] ELSE Junk>>
        ELSE <<Junk, Junk>>]

\* Where control goes after instruction i; a block without successors returns.
Following(i) ==
    LET b == prog.block[i]
    IN  IF i < prog.last[b] THEN {i + 1}
        ELSE IF prog.succs[b] = {} THEN {0}
        ELSE {prog.first[s] : s \in prog.succs[b]}

\* What an instruction computes.
Results(inst) == IF inst.op = "mov_imm" THEN {inst.imm} ELSE Values

\* The frame after val was stored into the slot of v.
Spilled(v, val) ==
    LET at == slot_offset(assignments[v].at)
    IN  [o \in DOMAIN stack |->
           IF o = at \/ (is_q(v) /\ o = at + 8) THEN val ELSE stack[o]]

-----------------------------------------------------------------------------
AllocateInit ==
    /\ prog \in Programs
    /\ input = NoInput
    /\ Start
    /\ phase = "liveness"
    /\ live_in = [b \in Blocks(prog) |-> {}]
    /\ live_out = [b \in Blocks(prog) |-> {}]
    /\ changed = FALSE
    /\ index = Len(prog.succs)
    /\ points = <<>>
    /\ executed = [v \in DOMAIN prog.class |-> 0]
    /\ pc = 1
    /\ vval = [v \in DOMAIN prog.class |-> Junk]
    /\ mreg = <<>>
    /\ stack = <<>>

NewOut(b) == UNION {live_in[s] : s \in prog.succs[b]}
NewIn(b) == block_uses(prog, b) \cup (NewOut(b) \ block_defs(prog, b))

\* One block of a round over the blocks, from the last to the first.
BlockLiveness ==
    /\ phase = "liveness" /\ index # 0
    /\ live_in' = [live_in EXCEPT ![index] = NewIn(index)]
    /\ live_out' = [live_out EXCEPT ![index] = NewOut(index)]
    /\ changed' = (changed \/ NewOut(index) # live_out[index] \/ NewIn(index) # live_in[index])
    /\ index' = index - 1
    /\ UNCHANGED <<vars, prog, phase, points, executed, machine>>

\* Another round as long as something changes; then the live points.
RoundEnds ==
    /\ phase = "liveness" /\ index = 0
    /\ changed' = FALSE
    /\ IF changed THEN index' = Len(prog.succs) /\ UNCHANGED phase
       ELSE index' = 1 /\ phase' = "intervals"
    /\ UNCHANGED <<vars, prog, live_in, live_out, points, executed, machine>>

\* What is live at an instruction.
LiveAt(p, out, i) == LiveAfter(p, out, i) \cup virtual_uses(p, i) \cup virtual_defs(p, i)

\* An interval extended to instruction i.
Widened(pair, i) ==
    <<IF pair[1] < i THEN pair[1] ELSE i, IF pair[2] > i THEN pair[2] ELSE i>>

\* The points of one instruction (in which order they are visited does not
\* show in the least and the greatest), and its uses for the spill weights.
TakePoints ==
    /\ phase = "intervals" /\ index <= Len(prog.insts)
    /\ LET live == LiveAt(prog, live_out, index)
       IN  points' = [v \in DOMAIN points \cup live |->
                        IF v \notin live THEN points[v]
                        ELSE IF v \notin DOMAIN points THEN <<index, index>>
                        ELSE Widened(points[v], index)]
    /\ executed' = [v \in DOMAIN executed |->
                      executed[v] + usesAt(prog, v, index) * prog.freq[prog.block[index]]]
    /\ index' = index + 1
    /\ UNCHANGED <<vars, prog, phase, live_in, live_out, changed, machine>>

\* The intervals are complete: linear_scan begins.
BeginScan ==
    /\ phase = "intervals" /\ index > Len(prog.insts)
    /\ phase' = "scan"
    /\ input' = InputOf(prog, points, executed)
    /\ todo' = DOMAIN points
    /\ assignments' = [v \in DOMAIN points |-> NoAllocation]
    /\ active' = [b \in Bank |-> {}] /\ free' = [b \in Bank |-> pool(b)]
    /\ spill_slots' = 0 /\ saved_regs' = {}
    /\ UNCHANGED <<prog, liveness, machine>>

Scan == phase = "scan" /\ Next /\ UNCHANGED mvars

\* Every operand gets its register; an instruction that needs more scratch
\* registers than there are fails the compilation.
Rewrite ==
    /\ phase = "scan" /\ todo = {}
    /\ phase' = IF \A i \in Insts(prog) : ScratchSuffices(prog.insts[i])
                THEN "rewritten" ELSE "error"
    /\ UNCHANGED <<vars, prog, liveness, machine>>

\* A call of the function: the prologue saves the callee-saved registers.
Prologue ==
    /\ phase = "rewritten"
    /\ phase' = "run"
    /\ mreg' = [r \in MachineRegisters |->
                  IF r[2] = "pool" /\ is_callee_saved_index(r[1], r[3])
                  THEN <<CallersOf(r[1], r[3]), Junk>> ELSE <<Junk, Junk>>]
    /\ stack' = [o \in FrameWords |->
                   IF \E r \in saved_regs : save_slot(r) = o
                   THEN LET r == CHOOSE r \in saved_regs : save_slot(r) = o
                        IN  CallersOf(r[1], r[2])
                   ELSE IF o < prog.locals THEN Local ELSE Junk]
    /\ UNCHANGED <<vars, prog, liveness, pc, vval>>

\* One instruction: restores, the operation, the store of a spilled result.
Execute ==
    /\ phase = "run" /\ pc # 0
    /\ LET inst == prog.insts[pc]
           regs == Restored(inst)
       IN  \E val \in Results(inst), next \in Following(pc) :
             /\ pc' = next
             /\ IF inst.defs = <<>>
                THEN /\ mreg' = IF inst.op = "call" THEN Clobbered(regs) ELSE regs
                     /\ UNCHANGED <<vval, stack>>
                ELSE LET v == inst.defs[1][2]
                     IN  /\ vval' = [vval EXCEPT ![v] = val]
                         /\ mreg' = [regs EXCEPT ![DefRegister(inst)] = Half(input.class[v], val)]
                         /\ stack' = IF InSlot(v) THEN Spilled(v, val) ELSE stack
    /\ UNCHANGED <<vars, prog, phase, liveness>>

\* The return: the epilogue reloads what the prologue saved.
Epilogue ==
    /\ phase = "run" /\ pc = 0
    /\ phase' = "done"
    /\ mreg' = [r \in MachineRegisters |->
                  IF r[2] = "pool" /\ <<r[1], r[3]>> \in saved_regs
                  THEN <<stack[save_slot(<<r[1], r[3]>>)], Junk>> ELSE mreg[r]]
    /\ UNCHANGED <<vars, prog, liveness, pc, vval, stack>>

AllocateNext ==
    \/ BlockLiveness \/ RoundEnds \/ TakePoints \/ BeginScan \/ Scan
    \/ Rewrite \/ Prologue \/ Execute \/ Epilogue

AllocateSpec == AllocateInit /\ [][AllocateNext]_<<vars, mvars>>

-----------------------------------------------------------------------------
(***************************************************************************)
(* The allocated program computes what the virtual-register program does:  *)
(* whatever path was taken and whatever was spilled, evicted, reloaded,    *)
(* rematerialized or clobbered by a call on the way, every operand of the  *)
(* next instruction reads the value of its virtual register                *)
(* (rewrite_allocated_registers over the result of linear_scan), and no    *)
(* instruction the selector emits runs out of spill scratch registers.     *)
(***************************************************************************)
UsesReadTheirValue ==
    /\ phase # "error"
    /\ phase = "run" /\ pc # 0 =>
        \A k \in DOMAIN prog.insts[pc].uses :
            ReadOperand(prog.insts[pc], k) = vval[prog.insts[pc].uses[k][2]]

(***************************************************************************)
(* "Values live across a call may only occupy callee-saved registers":     *)
(* of the values that are live after a call, none sits in a register the   *)
(* call clobbers (the documentation of linear_scan).                       *)
(***************************************************************************)
LiveAcrossCallsIsPreserved ==
    phase = "rewritten" =>
        \A c \in calls(prog) : \A v \in LiveAfter(prog, live_out, c) :
            InReg(v) => is_callee_saved_index(bankOf(v), assignments[v].at)

(***************************************************************************)
(* The function gives its caller back each callee-saved register, and its  *)
(* spill slots and save area never touch its own stack objects             *)
(* (saved_regs, insert_prologue, insert_block_epilogues, save_slots).      *)
(***************************************************************************)
CallerStateIsKept ==
    /\ phase = "done" =>
          \A r \in MachineRegisters :
             r[2] = "pool" /\ is_callee_saved_index(r[1], r[3]) =>
                mreg[r][1] = CallersOf(r[1], r[3])
    /\ phase \in {"run", "done"} =>
          \A o \in FrameWords : o < prog.locals => stack[o] = Local

\* The finding: no call is the first instruction at which some value that
\* lives across it is live.  The allocator is right about such functions.
CallsOpenNoInterval ==
    phase = "scan" =>
        \A c \in calls(prog) : \A v \in LiveAfter(prog, live_out, c) : input.start[v] < c
=============================================================================
