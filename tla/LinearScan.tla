----------------------------- MODULE LinearScan -----------------------------
(***************************************************************************)
(* The linear scan of the aarch64 register allocator (function linear_scan *)
(* of passes/aarch64/aarch64_register_allocate.rs): one pass over the live *)
(* intervals of a function in the order of their starts, with a register   *)
(* pool and an active set per bank, and spill slots shared by the banks.   *)
(*                                                                         *)
(* A virtual register has one interval, so an interval is named by its     *)
(* virtual register.  The function being allocated, and the policy options *)
(* it is allocated under, are chosen in Init and never change.             *)
(***************************************************************************)
EXTENDS Integers, FiniteSets

CONSTANTS
    Inputs,      \* the functions to allocate, records as in IsInput
    CallerPool,  \* number of caller-saved registers of each bank
    CalleePool   \* number of callee-saved registers of each bank

VARIABLES
    input,       \* the live intervals, their classes and the spill weights
    todo,        \* the virtual registers whose interval is not yet scanned
    active,      \* per bank: the scanned intervals that hold a register
    free,        \* per bank: the free list, as a set of pool indices
    assignments, \* virtual register -> NoAllocation, Phys(index) or Spill(slot)
    spill_slots, \* number of 8-byte spill slots taken
    saved_regs   \* the callee-saved registers handed out, as <<bank, index>>

vars == <<input, todo, active, free, assignments, spill_slots, saved_regs>>

Bank == {"Gpr", "Fpr"}
RegisterClass == {"Gpr64", "Fpr64", "Fpr32", "Simd128"}

\* Fpr32, Fpr64 and Simd128 share a bank: s, d and q views of one number.
bank_of(class) == IF class = "Gpr64" THEN "Gpr" ELSE "Fpr"

pool_size(bank) == CallerPool[bank] + CalleePool[bank]
pool(bank) == 0 .. pool_size(bank) - 1
is_callee_saved_index(bank, index) == index >= CallerPool[bank]

Phys(index) == [kind |-> "Phys", at |-> index]
Spill(slot) == [kind |-> "Spill", at |-> slot]
NoAllocation == [kind |-> "None", at |-> 0]
Allocation == [kind : {"Phys", "Spill", "None"}, at : Nat]

(***************************************************************************)
(* A function as the scan sees it: an interval start..end, a class and a   *)
(* spill weight for each virtual register, the virtual registers whose     *)
(* interval crosses a call, and whether the weighted-cost victim policy is *)
(* selected (otherwise the furthest end is evicted).                       *)
(***************************************************************************)
IsInput(f) ==
    /\ f.vregs \subseteq Nat
    /\ f.start \in [f.vregs -> Nat]
    /\ f.end \in [f.vregs -> Nat]
    /\ \A v \in f.vregs : f.start[v] <= f.end[v]
    /\ f.class \in [f.vregs -> RegisterClass]
    /\ f.call_crossing \subseteq f.vregs
    /\ f.weight \in [f.vregs -> Nat]
    /\ f.weighted \in BOOLEAN

ASSUME InputsAssumption == \A f \in Inputs : IsInput(f)
ASSUME PoolsAssumption == CallerPool \in [Bank -> Nat] /\ CalleePool \in [Bank -> Nat]

\* The locals of linear_scan before its loop.
Start ==
    /\ todo = input.vregs
    /\ active = [b \in Bank |-> {}]
    /\ free = [b \in Bank |-> pool(b)]
    /\ assignments = [v \in input.vregs |-> NoAllocation]
    /\ spill_slots = 0
    /\ saved_regs = {}

Init == input \in Inputs /\ Start

-----------------------------------------------------------------------------
bankOf(v) == bank_of(input.class[v])
crossing(v) == v \in input.call_crossing
is_q(v) == input.class[v] = "Simd128"

\* The order of the interval list: by start, then end, then register.
Precedes(v, w) ==
    \/ input.start[v] < input.start[w]
    \/ /\ input.start[v] = input.start[w]
       /\ \/ input.end[v] < input.end[w]
          \/ input.end[v] = input.end[w] /\ v <= w

\* v is the interval the loop takes next.
IsNext(v) == v \in todo /\ \A w \in todo : Precedes(v, w)

\* Mutant of Retained: an interval expires at its last position already.
RetainedShort(v) ==
    {w \in active[bankOf(v)] : ~(input.end[w] <= input.start[v])}

\* What expire_old_intervals keeps, and the free list it leaves.
Retained(v) ==
    {w \in active[bankOf(v)] : ~(input.end[w] < input.start[v])}
Freed(v) ==
    free[bankOf(v)] \cup
        {assignments[w].at : w \in active[bankOf(v)] \ Retained(v)}

\* Mutant of MayHold: a 128-bit value may sit in any register.
MayHoldAnyVector(v, index) ==
    crossing(v) => is_callee_saved_index(bankOf(v), index)

\* The registers v may sit in: a call clobbers the caller-saved ones, and
\* only the low half of a callee-saved q register survives a call.
MayHold(v, index) ==
    /\ crossing(v) => is_callee_saved_index(bankOf(v), index)
    /\ is_q(v) /\ ~crossing(v) => ~is_callee_saved_index(bankOf(v), index)

Candidates(v) == {p \in Freed(v) : MayHold(v, p)}
Eligible(v) == {w \in Retained(v) : MayHold(v, assignments[w].at)}

\* spill_furthest_end: the eligible interval that ends last, if it outlives v.
FurthestEnd(v, w) ==
    /\ \A x \in Eligible(v) :
          \/ input.end[x] < input.end[w]
          \/ /\ input.end[x] = input.end[w]
             /\ assignments[x].at <= assignments[w].at
    /\ input.end[w] > input.end[v]

\* spill_cheapest_weight: the eligible interval of least weight, if cheaper than v.
CheapestWeight(v, w) ==
    /\ \A x \in Eligible(v) :
          \/ input.weight[w] < input.weight[x]
          \/ input.weight[w] = input.weight[x] /\ w <= x
    /\ input.weight[w] < input.weight[v]

IsVictim(v, w) ==
    /\ w \in Eligible(v)
    /\ IF input.weighted THEN CheapestWeight(v, w) ELSE FurthestEnd(v, w)

\* take_spill_slots: the first slot given to a value of class, and the count
\* after it.  A Simd128 value takes an even slot and the one above it.
slot_of(class) ==
    IF class = "Simd128" THEN spill_slots + (spill_slots % 2) ELSE spill_slots

\* Mutant of slots_after: a 128-bit value takes one slot like any other.
OneSlotEach(class) == slot_of(class) + 1

slots_after(class) ==
    IF class = "Simd128" THEN slot_of(class) + 2 ELSE spill_slots + 1

-----------------------------------------------------------------------------
\* The scan leaves v behind; expired intervals give their registers back.
Scanned(v) == todo' = todo \ {v} /\ UNCHANGED input

Expire(v, held, taken) ==
    /\ active' = [active EXCEPT ![bankOf(v)] = held]
    /\ free' = [free EXCEPT ![bankOf(v)] = Freed(v) \ taken]

Record(v, index) ==
    saved_regs' = IF is_callee_saved_index(bankOf(v), index)
                  THEN saved_regs \cup {<<bankOf(v), index>>}
                  ELSE saved_regs

\* No register holds 128 bits across a call: the value spills, and nothing
\* expires on its account.
SpillCrossingVector(v) ==
    /\ IsNext(v)
    /\ is_q(v) /\ crossing(v)
    /\ assignments' = [assignments EXCEPT ![v] = Spill(slot_of(input.class[v]))]
    /\ spill_slots' = slots_after(input.class[v])
    /\ Scanned(v)
    /\ UNCHANGED <<active, free, saved_regs>>

\* The lowest free register that may hold v: caller-saved ones come first.
TakeFree(v, p) ==
    /\ IsNext(v)
    /\ ~(is_q(v) /\ crossing(v))
    /\ p \in Candidates(v) /\ \A q \in Candidates(v) : p <= q
    /\ assignments' = [assignments EXCEPT ![v] = Phys(p)]
    /\ Expire(v, Retained(v) \cup {v}, {p})
    /\ Record(v, p)
    /\ Scanned(v)
    /\ UNCHANGED spill_slots

\* No register is free: the victim w spills, as a whole, and v takes its register.
Evict(v, w) ==
    /\ IsNext(v)
    /\ ~(is_q(v) /\ crossing(v))
    /\ Candidates(v) = {}
    /\ IsVictim(v, w)
    /\ assignments' = [assignments EXCEPT ![w] = Spill(slot_of(input.class[w])),
                                          ![v] = Phys(assignments[w].at)]
    /\ spill_slots' = slots_after(input.class[w])
    /\ Expire(v, (Retained(v) \ {w}) \cup {v}, {})
    /\ Record(v, assignments[w].at)
    /\ Scanned(v)

\* No register is free and no victim is worth evicting: v itself spills.
SpillCurrent(v) ==
    /\ IsNext(v)
    /\ ~(is_q(v) /\ crossing(v))
    /\ Candidates(v) = {}
    /\ \A w \in Eligible(v) : ~IsVictim(v, w)
    /\ assignments' = [assignments EXCEPT ![v] = Spill(slot_of(input.class[v]))]
    /\ spill_slots' = slots_after(input.class[v])
    /\ Expire(v, Retained(v), {})
    /\ Scanned(v)
    /\ UNCHANGED saved_regs

Next ==
    \E v \in input.vregs :
        \/ SpillCrossingVector(v)
        \/ \E p \in pool(bankOf(v)) : TakeFree(v, p)
        \/ \E w \in input.vregs : Evict(v, w)
        \/ SpillCurrent(v)

Spec == Init /\ [][Next]_vars /\ WF_vars(Next)

-----------------------------------------------------------------------------
InReg(v) == assignments[v].kind = "Phys"
InSlot(v) == assignments[v].kind = "Spill"

\* The slots of a spilled value: two for a 128-bit one.
SlotsOf(v) ==
    assignments[v].at .. assignments[v].at + (IF is_q(v) THEN 1 ELSE 0)

\* The shape of the state: every allocation is a pool index or a slot taken.
TypeOK ==
    /\ IsInput(input)
    /\ todo \subseteq input.vregs
    /\ active \in [Bank -> SUBSET input.vregs]
    /\ free \in [Bank -> SUBSET Nat]
    /\ assignments \in [input.vregs -> Allocation]
    /\ spill_slots \in Nat
    /\ saved_regs \subseteq Bank \X Nat

(***************************************************************************)
(* The allocation is valid.  Two values that hold one register of a bank   *)
(* have disjoint intervals, whatever was evicted, expired and reused in    *)
(* between (linear_scan, expire_old_intervals, spill_furthest_end).        *)
(***************************************************************************)
NoSharedRegister ==
    \A v, w \in input.vregs :
        /\ v # w /\ InReg(v) /\ InReg(w)
        /\ bankOf(v) = bankOf(w)
        /\ assignments[v].at = assignments[w].at
        => \/ input.end[v] < input.start[w]
           \/ input.end[w] < input.start[v]

(***************************************************************************)
(* A value whose interval crosses a call is never in a register the call   *)
(* clobbers, and a 128-bit value is never in one of which a callee saves   *)
(* only half; every callee-saved register in use is recorded for the       *)
(* prologue (the eligibility rules of linear_scan and saved_regs_mask).    *)
(***************************************************************************)
CallsPreserveRegisters ==
    \A v \in input.vregs : InReg(v) =>
        /\ crossing(v) => is_callee_saved_index(bankOf(v), assignments[v].at)
        /\ is_q(v) => ~is_callee_saved_index(bankOf(v), assignments[v].at)
        /\ is_callee_saved_index(bankOf(v), assignments[v].at) =>
              <<bankOf(v), assignments[v].at>> \in saved_regs

(***************************************************************************)
(* Spill slots are never shared, 128-bit slots are 16-byte aligned, and    *)
(* the frame reserves every slot handed out (take_spill_slots).            *)
(***************************************************************************)
SlotsDisjoint ==
    /\ \A v \in input.vregs : InSlot(v) =>
          /\ \A s \in SlotsOf(v) : s < spill_slots
          /\ is_q(v) => assignments[v].at % 2 = 0
    /\ \A v, w \in input.vregs :
          v # w /\ InSlot(v) /\ InSlot(w) => SlotsOf(v) \cap SlotsOf(w) = {}

=============================================================================
