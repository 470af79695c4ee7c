----------------------- MODULE RegisterAllocateProofs -----------------------
(***************************************************************************)
(* Proofs about the whole register allocation of a function: the allocated *)
(* code reads the values the virtual registers hold (UsesReadTheirValue),  *)
(* calls leave alone what lives across them (LiveAcrossCallsIsPreserved)   *)
(* and the caller's registers come back (CallerStateIsKept), for every     *)
(* function, pool size and victim policy.                                  *)
(***************************************************************************)
EXTENDS RegisterAllocate, FiniteSetTheorems, TLAPS

-----------------------------------------------------------------------------
(***************************************************************************)
(* The scan over the live intervals, by itself (LinearScan): for every     *)
(* function and every pool size the allocation is well typed, no two       *)
(* values share a register while both are live, calls preserve the         *)
(* registers they must and spill slots never overlap.                      *)
(***************************************************************************)

\* A value has an allocation once it has been scanned, and not before.
Placed ==
    \A v \in input.vregs : v \in todo <=> assignments[v].kind = "None"

\* The active set of a bank holds scanned values that sit in its registers,
\* each in one of its own and none in a register of the free list.
ActiveSets ==
    \A b \in Bank :
        /\ \A v \in active[b] :
              /\ v \notin todo
              /\ InReg(v)
              /\ bankOf(v) = b
              /\ assignments[v].at \notin free[b]
        /\ \A v, w \in active[b] : assignments[v].at = assignments[w].at => v = w

\* What is still to be scanned starts no earlier than what has been, and
\* after the end of every value that gave its register back.
ScanOrder ==
    \A v \in input.vregs \ todo : \A w \in todo :
        /\ input.start[v] <= input.start[w]
        /\ InReg(v) /\ v \notin active[bankOf(v)] => input.end[v] < input.start[w]

\* The invariant that is inductive: the shape, the bookkeeping of the scan
\* and the three safety invariants.
IInv ==
    /\ TypeOK
    /\ Placed
    /\ ActiveSets
    /\ ScanOrder
    /\ NoSharedRegister
    /\ CallsPreserveRegisters
    /\ SlotsDisjoint

-----------------------------------------------------------------------------
\* Rounding the slot count up to even gives an even slot no lower than it.
LEMMA EvenSlot ==
    \A n \in Nat : /\ n + (n % 2) \in Nat
                   /\ n <= n + (n % 2)
                   /\ (n + (n % 2)) % 2 = 0
  BY SMT

\* The scan of any function starts in the inductive invariant.
LEMMA StartIInv == IsInput(input) /\ Start => IInv
<1> SUFFICES ASSUME IsInput(input), Start PROVE IInv
  OBVIOUS
<1>1. IsInput(input)
  OBVIOUS
<1>2. TypeOK
  BY <1>1, PoolsAssumption
  DEF Start, TypeOK, NoAllocation, Allocation, Bank, pool, pool_size
<1>3. \A v \in input.vregs : assignments[v].kind = "None"
  BY DEF Start, NoAllocation
<1>4. Placed
  BY <1>3 DEF Placed, Start
<1>5. ActiveSets /\ ScanOrder
  BY DEF ActiveSets, ScanOrder, Start
<1>6. NoSharedRegister /\ CallsPreserveRegisters /\ SlotsDisjoint
  BY <1>3 DEF NoSharedRegister, CallsPreserveRegisters, SlotsDisjoint, InReg, InSlot
<1> QED
  BY <1>2, <1>4, <1>5, <1>6 DEF IInv

LEMMA InitIInv == Init => IInv
  BY StartIInv, InputsAssumption DEF Init

-----------------------------------------------------------------------------
\* What the state and the constants give every step: the types of the terms
\* a step uses, and that no step changes the function it allocates.
LEMMA StepTypes ==
    ASSUME IInv, NEW v \in input.vregs
    PROVE  /\ bankOf(v) \in Bank
           /\ input.start[v] \in Nat /\ input.end[v] \in Nat
           /\ input.start[v] <= input.end[v]
           /\ assignments[v] \in Allocation /\ assignments[v].at \in Nat
           /\ Retained(v) \subseteq active[bankOf(v)]
           /\ active[bankOf(v)] \subseteq input.vregs
           /\ Freed(v) \subseteq Nat
  BY DEF IInv, TypeOK, IsInput, bankOf, bank_of, Bank, RegisterClass, Allocation,
         Retained, Freed

\* After expiry the registers of the bank are still told apart: none that is
\* retained is free, and what expired ended before v starts.
LEMMA ExpiryFacts ==
    ASSUME IInv, NEW v \in input.vregs, IsNext(v)
    PROVE  /\ \A w \in Retained(v) : assignments[w].at \notin Freed(v)
           /\ \A w \in active[bankOf(v)] \ Retained(v) : input.end[w] < input.start[v]
           /\ \A p \in Freed(v) : \A w \in active[bankOf(v)] :
                 assignments[w].at = p => input.end[w] < input.start[v]
<1>1. \A w \in active[bankOf(v)] \ Retained(v) : input.end[w] < input.start[v]
  BY DEF Retained
<1>2. bankOf(v) \in Bank
  BY StepTypes
<1>3. \A p \in Freed(v) : \A w \in active[bankOf(v)] :
         assignments[w].at = p => w \notin Retained(v)
  BY <1>2 DEF IInv, ActiveSets, Freed, Retained
<1>4. Retained(v) \subseteq active[bankOf(v)]
  BY StepTypes
<1> QED
  BY <1>1, <1>3, <1>4

\* Whatever is scanned next starts no later than the rest.
LEMMA NextStarts ==
    ASSUME IInv, NEW v \in input.vregs, IsNext(v)
    PROVE  \A w \in todo : input.start[v] <= input.start[w]
  BY DEF IInv, TypeOK, IsInput, IsNext, Precedes

\* A value that goes to the stack takes slots above every slot taken so far,
\* so the slots stay disjoint when the others keep theirs or sit in registers.
LEMMA SpillKeepsSlots ==
    ASSUME IInv, NEW w \in input.vregs,
           UNCHANGED input,
           assignments'[w] = Spill(slot_of(input.class[w])),
           \A x \in input.vregs \ {w} :
              assignments'[x] = assignments[x] \/ assignments'[x].kind = "Phys",
           spill_slots' = slots_after(input.class[w])
    PROVE  SlotsDisjoint' /\ spill_slots' \in Nat /\ slot_of(input.class[w]) \in Nat
<1> DEFINE base == slot_of(input.class[w])
           Top(x) == IF is_q(x) THEN 1 ELSE 0
<1>1. spill_slots \in Nat
  BY DEF IInv, TypeOK
<1>2. /\ base \in Nat /\ spill_slots <= base
      /\ is_q(w) => base % 2 = 0
      /\ spill_slots' = base + Top(w) + 1
  BY <1>1, EvenSlot DEF slot_of, slots_after, is_q
<1>3. \A x \in input.vregs : is_q(x)' = is_q(x)
  BY DEF is_q
<1>4. assignments'[w].kind = "Spill" /\ assignments'[w].at = base
  BY DEF Spill
<1>5. ASSUME NEW x \in input.vregs, x # w, InSlot(x)'
      PROVE  /\ InSlot(x)
             /\ assignments'[x] = assignments[x]
             /\ SlotsOf(x)' = SlotsOf(x)
             /\ \A s \in SlotsOf(x) : s < spill_slots
             /\ is_q(x) => assignments[x].at % 2 = 0
  BY <1>3, <1>5 DEF InSlot, IInv, SlotsDisjoint, SlotsOf
<1>6. SlotsOf(w)' = base .. base + Top(w)
  BY <1>3, <1>4 DEF SlotsOf
<1>7. \A s \in SlotsOf(w)' : s \in Nat /\ spill_slots <= s /\ s < spill_slots'
  BY <1>1, <1>2, <1>6
<1>8. \A x \in input.vregs \ {w} : InSlot(x)' =>
         SlotsOf(x)' \cap SlotsOf(w)' = {}
  <2> SUFFICES ASSUME NEW x \in input.vregs, x # w, InSlot(x)',
                      NEW s \in SlotsOf(x)', s \in SlotsOf(w)'
               PROVE  FALSE
    OBVIOUS
  <2>1. s < spill_slots
    BY <1>5
  <2>2. s \in Nat /\ spill_slots <= s
    BY <1>7
  <2> QED
    BY <1>1, <2>1, <2>2
<1>9. \A x \in input.vregs : InSlot(x)' =>
         /\ \A s \in SlotsOf(x)' : s < spill_slots'
         /\ is_q(x)' => assignments'[x].at % 2 = 0
  <2> SUFFICES ASSUME NEW x \in input.vregs, InSlot(x)'
               PROVE  /\ \A s \in SlotsOf(x)' : s < spill_slots'
                      /\ is_q(x)' => assignments'[x].at % 2 = 0
    OBVIOUS
  <2>1. CASE x = w
    BY <1>2, <1>3, <1>4, <1>7, <2>1
  <2>2. CASE x # w
    <3>1. \A s \in SlotsOf(x) : s < spill_slots /\ s \in Int
      BY <1>5, <2>2, StepTypes DEF SlotsOf
    <3>2. spill_slots <= spill_slots'
      BY <1>1, <1>2
    <3> QED
      BY <1>1, <1>2, <1>3, <1>5, <2>2, <3>1, <3>2
  <2> QED
    BY <2>1, <2>2
<1>10. \A x, y \in input.vregs : x # y /\ InSlot(x)' /\ InSlot(y)' =>
          SlotsOf(x)' \cap SlotsOf(y)' = {}
  <2> SUFFICES ASSUME NEW x \in input.vregs, NEW y \in input.vregs,
                      x # y, InSlot(x)', InSlot(y)'
               PROVE  SlotsOf(x)' \cap SlotsOf(y)' = {}
    OBVIOUS
  <2>1. CASE x = w \/ y = w
    BY <1>8, <2>1
  <2>2. CASE x # w /\ y # w
    BY <1>5, <2>2 DEF IInv, SlotsDisjoint
  <2> QED
    BY <2>1, <2>2
<1> QED
  BY <1>2, <1>9, <1>10 DEF SlotsDisjoint

\* The registers of a bank after v takes register p of it, when p was free or
\* the victim w gave it up: the bookkeeping and the register invariants hold.
LEMMA PlacementKeepsRegisters ==
    ASSUME IInv, NEW v \in input.vregs, IsNext(v),
           UNCHANGED input, todo' = todo \ {v},
           NEW p \in Nat, MayHold(v, p), ~(is_q(v) /\ crossing(v)),
           NEW gone \in SUBSET Retained(v),
           \A w \in active[bankOf(v)] : assignments[w].at = p =>
              w \in gone \/ input.end[w] < input.start[v],
           assignments' \in [input.vregs -> Allocation],
           assignments'[v] = Phys(p),
           \A w \in gone : assignments'[w].kind = "Spill",
           \A w \in input.vregs \ (gone \cup {v}) : assignments'[w] = assignments[w],
           Expire(v, (Retained(v) \ gone) \cup {v}, {p}),
           Record(v, p)
    PROVE  /\ Placed' /\ ActiveSets' /\ ScanOrder'
           /\ NoSharedRegister' /\ CallsPreserveRegisters'
<1> DEFINE b == bankOf(v)
<1>1. /\ v \in todo /\ v \notin gone /\ b \in Bank
      /\ \A c \in Bank : v \notin active[c]
      /\ assignments[v].kind = "None"
      /\ gone \subseteq input.vregs /\ \A w \in gone : InReg(w) /\ w \notin todo
  BY StepTypes DEF IInv, Placed, ActiveSets, IsNext
<1>2. /\ active' = [active EXCEPT ![b] = (Retained(v) \ gone) \cup {v}]
      /\ free' = [free EXCEPT ![b] = Freed(v) \ {p}]
  BY DEF Expire
<1>3. \A w \in input.vregs :
         /\ bankOf(w)' = bankOf(w) /\ is_q(w)' = is_q(w) /\ crossing(w)' = crossing(w)
         /\ InReg(w)' => w \notin gone /\ (w = v \/ InReg(w))
  BY <1>1 DEF bankOf, is_q, crossing, InReg
<1>4. assignments'[v].kind = "Phys" /\ assignments'[v].at = p
  BY DEF Phys
<1>5. Placed'
  BY <1>1, <1>4 DEF IInv, Placed, InReg
<1>6. ActiveSets'
  <2> SUFFICES ASSUME NEW c \in Bank
               PROVE  /\ \A w \in active'[c] :
                           /\ w \notin todo' /\ InReg(w)' /\ bankOf(w)' = c
                           /\ assignments'[w].at \notin free'[c]
                      /\ \A w, x \in active'[c] :
                           assignments'[w].at = assignments'[x].at => w = x
    BY DEF ActiveSets
  <2>0. active \in [Bank -> SUBSET input.vregs] /\ free \in [Bank -> SUBSET Nat]
    BY DEF IInv, TypeOK
  <2>1. CASE c = b
    <3>1. active'[c] = (Retained(v) \ gone) \cup {v} /\ free'[c] = Freed(v) \ {p}
      BY <1>2, <2>0, <2>1
    <3>2. \A w \in Retained(v) \ gone :
             /\ w \in active[b] /\ w # v /\ w \in input.vregs
             /\ assignments'[w] = assignments[w]
             /\ assignments[w].at \notin Freed(v)
             /\ assignments[w].at # p
      <4>1. \A w \in Retained(v) : ~(input.end[w] < input.start[v])
        BY DEF Retained
      <4> QED
        BY <1>1, <4>1, StepTypes, ExpiryFacts
    <3> QED
      BY <1>1, <1>3, <1>4, <2>1, <3>1, <3>2 DEF IInv, ActiveSets, InReg
  <2>2. CASE c # b
    <3>1. active'[c] = active[c] /\ free'[c] = free[c]
      BY <1>2, <2>0, <2>2
    <3>2. \A w \in active[c] : w \in input.vregs /\ w # v /\ w \notin gone
      BY <1>1, <2>0, <2>2, StepTypes DEF IInv, ActiveSets
    <3> QED
      BY <1>3, <3>1, <3>2 DEF IInv, ActiveSets, InReg
  <2> QED
    BY <2>1, <2>2
<1>7. ScanOrder'
  <2> SUFFICES ASSUME NEW w \in input.vregs, w \notin todo', NEW x \in todo'
               PROVE  /\ input.start[w] <= input.start[x]
                      /\ InReg(w)' /\ w \notin active'[bankOf(w)] =>
                            input.end[w] < input.start[x]
    BY <1>3 DEF ScanOrder
  <2>1. /\ x \in todo /\ x \in input.vregs /\ input.start[v] <= input.start[x]
        /\ bankOf(w) \in Bank
    BY NextStarts, StepTypes DEF IInv, TypeOK
  <2>2. active \in [Bank -> SUBSET input.vregs]
    BY DEF IInv, TypeOK
  <2>3. CASE w = v
    BY <1>2, <2>1, <2>2, <2>3
  <2>4. CASE w # v
    <3>1. w \notin todo
      BY <2>4
    <3>2. input.start[w] <= input.start[x]
      BY <2>1, <3>1 DEF IInv, ScanOrder
    <3>3. ASSUME InReg(w)', w \notin active'[bankOf(w)]
          PROVE  input.end[w] < input.start[x]
      <4>1. InReg(w) /\ w \notin gone
        BY <1>3, <2>4, <3>3
      <4>2. CASE w \notin active[bankOf(w)]
        BY <2>1, <3>1, <4>1, <4>2 DEF IInv, ScanOrder
      <4>3. CASE w \in active[bankOf(w)]
        <5>1. bankOf(w) = b /\ w \notin Retained(v)
          BY <1>2, <2>1, <2>2, <3>3, <4>1, <4>3
        <5>2. input.end[w] < input.start[v]
          BY <4>3, <5>1, ExpiryFacts
        <5>3. /\ input.end[w] \in Nat /\ input.start[v] \in Nat
              /\ input.start[x] \in Nat
          BY <2>1, StepTypes
        <5> QED
          BY <2>1, <5>2, <5>3
      <4> QED
        BY <4>2, <4>3
    <3> QED
      BY <3>2, <3>3
  <2> QED
    BY <2>3, <2>4
<1>8. NoSharedRegister'
  <2>1. ASSUME NEW w \in input.vregs, w # v, InReg(w)',
               bankOf(w) = b, assignments'[w].at = p
        PROVE  input.end[w] < input.start[v]
    <3>1. InReg(w) /\ w \notin gone /\ assignments'[w] = assignments[w]
      BY <1>3, <2>1
    <3>2. CASE w \in active[b]
      BY <2>1, <3>1, <3>2
    <3>3. CASE w \notin active[b]
      BY <1>1, <2>1, <3>1, <3>3 DEF IInv, ScanOrder, Placed, InReg
    <3> QED
      BY <3>2, <3>3
  <2> SUFFICES ASSUME NEW w \in input.vregs, NEW x \in input.vregs, w # x,
                      InReg(w)', InReg(x)', bankOf(w) = bankOf(x),
                      assignments'[w].at = assignments'[x].at
               PROVE  \/ input.end[w] < input.start[x]
                      \/ input.end[x] < input.start[w]
    BY <1>3 DEF NoSharedRegister
  <2>2. CASE w = v \/ x = v
    BY <1>4, <2>1, <2>2
  <2>3. CASE w # v /\ x # v
    BY <1>3, <2>3 DEF IInv, NoSharedRegister
  <2> QED
    BY <2>2, <2>3
<1>9. CallsPreserveRegisters'
  <2> SUFFICES ASSUME NEW w \in input.vregs, InReg(w)'
               PROVE  LET i == assignments'[w].at
                      IN  /\ crossing(w) => is_callee_saved_index(bankOf(w), i)
                          /\ is_q(w) => ~is_callee_saved_index(bankOf(w), i)
                          /\ is_callee_saved_index(bankOf(w), i) =>
                                <<bankOf(w), i>> \in saved_regs'
    BY <1>3 DEF CallsPreserveRegisters, is_callee_saved_index
  <2>1. CASE w = v
    BY <1>4, <2>1 DEF MayHold, Record
  <2>2. CASE w # v
    BY <1>3, <2>2 DEF IInv, CallsPreserveRegisters, Record
  <2> QED
    BY <2>1, <2>2
<1> QED
  BY <1>5, <1>6, <1>7, <1>8, <1>9

\* A step that leaves the registers alone, except for what expires, and puts
\* v on the stack.
LEMMA SpillingKeepsRegisters ==
    ASSUME IInv, NEW v \in input.vregs, IsNext(v),
           UNCHANGED <<input, saved_regs>>, todo' = todo \ {v},
           assignments' = [assignments EXCEPT ![v] = Spill(slot_of(input.class[v]))],
           UNCHANGED <<active, free>> \/ Expire(v, Retained(v), {})
    PROVE  /\ Placed' /\ ActiveSets' /\ ScanOrder'
           /\ NoSharedRegister' /\ CallsPreserveRegisters'
<1> DEFINE b == bankOf(v)
<1>0. /\ active \in [Bank -> SUBSET input.vregs] /\ free \in [Bank -> SUBSET Nat]
      /\ assignments \in [input.vregs -> Allocation]
  BY DEF IInv, TypeOK
<1>1. v \in todo /\ b \in Bank /\ \A c \in Bank : v \notin active[c]
  BY StepTypes DEF IInv, ActiveSets, IsNext
<1>2. \A w \in input.vregs :
         /\ bankOf(w)' = bankOf(w) /\ is_q(w)' = is_q(w) /\ crossing(w)' = crossing(w)
         /\ w # v => assignments'[w] = assignments[w]
         /\ InReg(w)' <=> w # v /\ InReg(w)
  BY <1>0, <1>1 DEF bankOf, is_q, crossing, InReg, Spill, IInv, Placed
<1>3. Placed'
  BY <1>0, <1>1, <1>2 DEF IInv, Placed, Spill
<1>4. \A c \in Bank :
         /\ active'[c] \subseteq active[c] /\ active[c] \subseteq input.vregs
         /\ \A w \in active[c] \ active'[c] : input.end[w] < input.start[v]
         /\ \A w \in active'[c] : assignments[w].at \notin free'[c]
  <2> SUFFICES ASSUME NEW c \in Bank
               PROVE  /\ active'[c] \subseteq active[c] /\ active[c] \subseteq input.vregs
                      /\ \A w \in active[c] \ active'[c] : input.end[w] < input.start[v]
                      /\ \A w \in active'[c] : assignments[w].at \notin free'[c]
    OBVIOUS
  <2>1. CASE UNCHANGED <<active, free>>
    BY <1>0, <2>1 DEF IInv, ActiveSets
  <2>2. CASE Expire(v, Retained(v), {}) /\ c = b
    <3>1. active'[c] = Retained(v) /\ free'[c] = Freed(v)
      BY <1>0, <2>2 DEF Expire
    <3> QED
      BY <1>0, <2>2, <3>1, ExpiryFacts, StepTypes
  <2>3. CASE Expire(v, Retained(v), {}) /\ c # b
    <3>1. active'[c] = active[c] /\ free'[c] = free[c]
      BY <1>0, <2>3 DEF Expire
    <3> QED
      BY <1>0, <3>1 DEF IInv, ActiveSets
  <2> QED
    BY <2>1, <2>2, <2>3
<1>5. ActiveSets'
  BY <1>1, <1>2, <1>4 DEF IInv, ActiveSets
<1>6. ScanOrder'
  <2> SUFFICES ASSUME NEW w \in input.vregs, w \notin todo', NEW x \in todo'
               PROVE  /\ input.start[w] <= input.start[x]
                      /\ InReg(w)' /\ w \notin active'[bankOf(w)] =>
                            input.end[w] < input.start[x]
    BY <1>2 DEF ScanOrder
  <2>1. /\ x \in todo /\ x \in input.vregs /\ input.start[v] <= input.start[x]
        /\ bankOf(w) \in Bank
    BY NextStarts, StepTypes DEF IInv, TypeOK
  <2>2. CASE w = v
    BY <1>2, <2>1, <2>2
  <2>3. CASE w # v
    <3>1. /\ input.start[w] <= input.start[x]
          /\ InReg(w) /\ w \notin active[bankOf(w)] => input.end[w] < input.start[x]
      BY <2>1, <2>3 DEF IInv, ScanOrder
    <3>2. w \in active[bankOf(w)] \ active'[bankOf(w)] => input.end[w] < input.start[v]
      BY <1>4, <2>1
    <3>3. /\ input.end[w] \in Nat /\ input.start[v] \in Nat /\ input.start[x] \in Nat
      BY <2>1, StepTypes
    <3> QED
      BY <1>2, <2>1, <3>1, <3>2, <3>3
  <2> QED
    BY <2>2, <2>3
<1>7. NoSharedRegister'
  BY <1>2 DEF IInv, NoSharedRegister
<1>8. CallsPreserveRegisters'
  BY <1>2 DEF IInv, CallsPreserveRegisters, is_callee_saved_index
<1> QED
  BY <1>3, <1>5, <1>6, <1>7, <1>8

-----------------------------------------------------------------------------
\* A 128-bit value that crosses a call goes to the stack.
LEMMA SpillCrossingVectorStep ==
    ASSUME IInv, NEW v \in input.vregs, SpillCrossingVector(v)
    PROVE  IInv'
<1> USE DEF SpillCrossingVector, Scanned
<1>0. TypeOK
  BY DEF IInv
<1>1. SlotsDisjoint' /\ spill_slots' \in Nat /\ slot_of(input.class[v]) \in Nat
  BY <1>0, SpillKeepsSlots DEF TypeOK
<1>2. TypeOK'
  BY <1>0, <1>1 DEF TypeOK, Allocation, Spill, pool, pool_size
<1>3. /\ Placed' /\ ActiveSets' /\ ScanOrder'
      /\ NoSharedRegister' /\ CallsPreserveRegisters'
  BY SpillingKeepsRegisters
<1> QED
  BY <1>1, <1>2, <1>3 DEF IInv

\* The value takes the lowest free register that may hold it.
LEMMA TakeFreeStep ==
    ASSUME IInv, NEW v \in input.vregs, NEW p \in pool(bankOf(v)), TakeFree(v, p)
    PROVE  IInv'
<1> USE DEF TakeFree, Scanned
<1>0. TypeOK
  BY DEF IInv
<1>1. p \in Nat /\ p \in Freed(v) /\ MayHold(v, p) /\ bankOf(v) \in Bank
  BY StepTypes DEF Candidates
<1>2. assignments' \in [input.vregs -> Allocation] /\ assignments'[v] = Phys(p)
  BY <1>0, <1>1 DEF TypeOK, Allocation, Phys
<1>3. /\ Placed' /\ ActiveSets' /\ ScanOrder'
      /\ NoSharedRegister' /\ CallsPreserveRegisters'
  <2>1. \A w \in active[bankOf(v)] : assignments[w].at = p =>
           input.end[w] < input.start[v]
    BY <1>1, ExpiryFacts
  <2>2. Expire(v, (Retained(v) \ {}) \cup {v}, {p})
    <3>1. Retained(v) \ {} = Retained(v)
      OBVIOUS
    <3> QED
      BY <3>1
  <2>3. \A w \in input.vregs \ ({} \cup {v}) : assignments'[w] = assignments[w]
    BY <1>0 DEF TypeOK
  <2>4. /\ {} \in SUBSET Retained(v)
        /\ \A w \in {} : assignments'[w].kind = "Spill"
        /\ \A w \in active[bankOf(v)] : assignments[w].at = p =>
              w \in {} \/ input.end[w] < input.start[v]
    BY <2>1
  <2>5. /\ IsNext(v) /\ UNCHANGED input /\ todo' = todo \ {v} /\ Record(v, p)
        /\ ~(is_q(v) /\ crossing(v))
    OBVIOUS
  <2> HIDE DEF TakeFree, Scanned
  <2> QED
    BY <1>1, <1>2, <2>2, <2>3, <2>4, <2>5, PlacementKeepsRegisters
<1>4. SlotsDisjoint'
  <2>1. \A w \in input.vregs : InSlot(w)' => InSlot(w) /\ SlotsOf(w)' = SlotsOf(w)
                                             /\ assignments'[w] = assignments[w]
    BY <1>0, <1>2 DEF TypeOK, InSlot, SlotsOf, is_q, Phys
  <2>2. \A w \in input.vregs : is_q(w)' = is_q(w)
    BY DEF is_q
  <2> QED
    BY <2>1, <2>2 DEF IInv, SlotsDisjoint
<1>5. TypeOK'
  <2>1. Retained(v) \cup {v} \subseteq input.vregs
    BY StepTypes
  <2>2. active' \in [Bank -> SUBSET input.vregs] /\ free' \in [Bank -> SUBSET Nat]
    BY <1>0, <1>1, <2>1, StepTypes DEF TypeOK, Expire
  <2>3. saved_regs' \subseteq Bank \X Nat
    BY <1>0, <1>1 DEF TypeOK, Record
  <2> QED
    BY <1>0, <1>2, <2>2, <2>3 DEF TypeOK
<1> QED
  BY <1>3, <1>4, <1>5 DEF IInv

\* The victim w goes to the stack and v takes its register.
LEMMA EvictStep ==
    ASSUME IInv, NEW v \in input.vregs, NEW w \in input.vregs, Evict(v, w)
    PROVE  IInv'
<1> USE DEF Evict, Scanned
<1> DEFINE p == assignments[w].at
<1>0. TypeOK
  BY DEF IInv
<1>1. /\ w \in Retained(v) /\ MayHold(v, p) /\ p \in Nat
      /\ bankOf(v) \in Bank /\ w \in active[bankOf(v)]
  BY StepTypes DEF IsVictim, Eligible
<1>2. v # w
  BY <1>1 DEF IInv, ActiveSets, IsNext
<1>3. /\ assignments'[w] = Spill(slot_of(input.class[w]))
      /\ assignments'[v] = Phys(p)
      /\ \A x \in input.vregs \ ({w} \cup {v}) : assignments'[x] = assignments[x]
  BY <1>0, <1>2 DEF TypeOK
<1>4. SlotsDisjoint' /\ spill_slots' \in Nat /\ slot_of(input.class[w]) \in Nat
  <2>1. \A x \in input.vregs \ {w} :
           assignments'[x] = assignments[x] \/ assignments'[x].kind = "Phys"
    <3>1. assignments'[v].kind = "Phys"
      BY <1>3 DEF Phys
    <3> QED
      BY <1>3, <3>1
  <2> QED
    BY <1>3, <2>1, SpillKeepsSlots
<1>5. assignments' \in [input.vregs -> Allocation]
  BY <1>0, <1>1, <1>4 DEF TypeOK, Allocation, Spill, Phys
<1>6. /\ Placed' /\ ActiveSets' /\ ScanOrder'
      /\ NoSharedRegister' /\ CallsPreserveRegisters'
  <2>1. \A x \in active[bankOf(v)] : assignments[x].at = p =>
           x \in {w} \/ input.end[x] < input.start[v]
    BY <1>1 DEF IInv, ActiveSets
  <2>2. Expire(v, (Retained(v) \ {w}) \cup {v}, {p})
    <3>1. p \notin Freed(v)
      BY <1>1, ExpiryFacts
    <3>2. Freed(v) \ {} = Freed(v) \ {p}
      BY <3>1
    <3> QED
      BY <3>2 DEF Expire
  <2>3. \A x \in {w} : assignments'[x].kind = "Spill"
    BY <1>3 DEF Spill
  <2>4. {w} \in SUBSET Retained(v)
    BY <1>1
  <2> QED
    BY <1>1, <1>3, <1>5, <2>1, <2>2, <2>3, <2>4, PlacementKeepsRegisters
<1>7. TypeOK'
  <2>1. (Retained(v) \ {w}) \cup {v} \subseteq input.vregs
    BY StepTypes
  <2>2. active' \in [Bank -> SUBSET input.vregs] /\ free' \in [Bank -> SUBSET Nat]
    BY <1>0, <1>1, <2>1, StepTypes DEF TypeOK, Expire
  <2>3. saved_regs' \subseteq Bank \X Nat
    BY <1>0, <1>1 DEF TypeOK, Record
  <2> QED
    BY <1>0, <1>4, <1>5, <2>2, <2>3 DEF TypeOK
<1> QED
  BY <1>4, <1>6, <1>7 DEF IInv

\* No register and no victim: the value itself goes to the stack.
LEMMA SpillCurrentStep ==
    ASSUME IInv, NEW v \in input.vregs, SpillCurrent(v)
    PROVE  IInv'
<1> USE DEF SpillCurrent, Scanned
<1>0. TypeOK /\ bankOf(v) \in Bank
  BY StepTypes DEF IInv
<1>1. SlotsDisjoint' /\ spill_slots' \in Nat /\ slot_of(input.class[v]) \in Nat
  BY <1>0, SpillKeepsSlots DEF TypeOK
<1>2. TypeOK'
  <2>1. active' \in [Bank -> SUBSET input.vregs] /\ free' \in [Bank -> SUBSET Nat]
    BY <1>0, StepTypes DEF TypeOK, Expire
  <2> QED
    BY <1>0, <1>1, <2>1 DEF TypeOK, Allocation, Spill
<1>3. /\ Placed' /\ ActiveSets' /\ ScanOrder'
      /\ NoSharedRegister' /\ CallsPreserveRegisters'
  BY SpillingKeepsRegisters
<1> QED
  BY <1>1, <1>2, <1>3 DEF IInv

\* Every step of the scan, and a stuttering step, keeps the invariant.
LEMMA NextIInv == IInv /\ [Next]_vars => IInv'
<1> SUFFICES ASSUME IInv, [Next]_vars PROVE IInv'
  OBVIOUS
<1>1. ASSUME NEW v \in input.vregs, SpillCrossingVector(v) PROVE IInv'
  BY <1>1, SpillCrossingVectorStep
<1>2. ASSUME NEW v \in input.vregs, NEW p \in pool(bankOf(v)), TakeFree(v, p)
      PROVE  IInv'
  BY <1>2, TakeFreeStep
<1>3. ASSUME NEW v \in input.vregs, NEW w \in input.vregs, Evict(v, w) PROVE IInv'
  BY <1>3, EvictStep
<1>4. ASSUME NEW v \in input.vregs, SpillCurrent(v) PROVE IInv'
  BY <1>4, SpillCurrentStep
<1>5. CASE UNCHANGED vars
  <2>1. UNCHANGED <<input, todo, active, free, assignments, spill_slots, saved_regs>>
    BY <1>5 DEF vars
  <2>2. TypeOK' /\ Placed'
    BY <2>1 DEF IInv, TypeOK, Placed
  <2>3. ActiveSets' /\ ScanOrder'
    BY <2>1 DEF IInv, ActiveSets, ScanOrder, InReg, bankOf
  <2>4. NoSharedRegister' /\ CallsPreserveRegisters' /\ SlotsDisjoint'
    BY <2>1 DEF IInv, NoSharedRegister, CallsPreserveRegisters, SlotsDisjoint,
       InReg, InSlot, SlotsOf, bankOf, crossing, is_q, is_callee_saved_index
  <2> QED
    BY <2>2, <2>3, <2>4 DEF IInv
<1> QED
  BY <1>1, <1>2, <1>3, <1>4, <1>5 DEF Next

\* The scan keeps its inductive invariant, whatever function it allocates.
THEOREM Invariance == Spec => []IInv
  BY InitIInv, NextIInv, PTL DEF Spec

\* The state of linear_scan keeps its shape.
THEOREM TypeCorrect == Spec => []TypeOK
<1>1. IInv => TypeOK
  BY DEF IInv
<1> QED
  BY <1>1, Invariance, PTL

\* linear_scan never gives one register to two values whose intervals
\* overlap, whatever it evicts, expires and reuses on the way.
THEOREM AllocationIsValid == Spec => []NoSharedRegister
<1>1. IInv => NoSharedRegister
  BY DEF IInv
<1> QED
  BY <1>1, Invariance, PTL

\* linear_scan keeps every value marked as crossing a call out of the
\* registers a call clobbers, and records each callee-saved register it uses.
THEOREM CallsAreSafe == Spec => []CallsPreserveRegisters
<1>1. IInv => CallsPreserveRegisters
  BY DEF IInv
<1> QED
  BY <1>1, Invariance, PTL

\* take_spill_slots gives every spilled value slots of its own, aligned for
\* a 128-bit access and within the frame the slot count reserves.
THEOREM SlotsAreDisjoint == Spec => []SlotsDisjoint
<1>1. IInv => SlotsDisjoint
  BY DEF IInv
<1> QED
  BY <1>1, Invariance, PTL

-----------------------------------------------------------------------------
(***************************************************************************)
(* The rewrite and the stages around the scan (RegisterAllocate).          *)
(***************************************************************************)
Vregs == DOMAIN prog.class

\* Sets of registers that show the function to be strict.
StrictBy(p, defined) ==
    /\ defined \in [Blocks(p) -> SUBSET DOMAIN p.class]
    /\ defined[1] = {}
    /\ \A b \in Blocks(p) :
          /\ block_uses(p, b) \subseteq defined[b]
          /\ \A s \in p.succs[b] : defined[s] \subseteq defined[b] \cup block_defs(p, b)

\* A block whose sets solve the equations of liveness.
Solved(b) == live_out[b] = NewOut(b) /\ live_in[b] = NewIn(b)

\* While a round has changed nothing, the blocks it has visited are solved;
\* and the sets never hold a register some path leaves undefined.
LivenessInv ==
    /\ prog \in Programs
    /\ live_in \in [Blocks(prog) -> SUBSET Vregs]
    /\ live_out \in [Blocks(prog) -> SUBSET Vregs]
    /\ changed \in BOOLEAN /\ index \in Nat
    /\ \A defined : StrictBy(prog, defined) => \A b \in Blocks(prog) : live_in[b] \subseteq defined[b]
    /\ phase = "liveness" =>
          /\ index <= Len(prog.succs)
          /\ ~changed => \A b \in Blocks(prog) : b > index => Solved(b)
    /\ phase # "liveness" => \A b \in Blocks(prog) : Solved(b)

\* The points contain every instruction j at which a register is live.
Covered(j) ==
    \A v \in LiveAt(prog, live_out, j) :
        v \in DOMAIN points /\ points[v][1] <= j /\ j <= points[v][2]

IntervalsInv ==
    /\ executed \in [Vregs -> Nat]
    /\ DOMAIN points \subseteq Vregs
    /\ \A v \in DOMAIN points :
          points[v][1] \in Nat /\ points[v][2] \in Nat /\ points[v][1] <= points[v][2]
    /\ phase = "intervals" =>
          index \in Nat \ {0} /\ \A j \in Insts(prog) : j < index => Covered(j)
    /\ phase \notin {"liveness", "intervals"} => \A j \in Insts(prog) : Covered(j)

\* Registers come from the pools, and those of the callee-saved part that
\* are handed out are finitely many.
PoolInv ==
    /\ \A b \in Bank : free[b] \subseteq pool(b)
    /\ \A v \in input.vregs : InReg(v) => assignments[v].at \in pool(bankOf(v))
    /\ \A r \in saved_regs : r[2] \in pool(r[1]) /\ is_callee_saved_index(r[1], r[2])
    /\ IsFiniteSet(saved_regs)

ScanInv ==
    phase \notin {"liveness", "intervals"} =>
        /\ IInv /\ PoolInv
        /\ input = InputOf(prog, points, executed)
        /\ phase # "scan" => todo = {}

Phases ==
    /\ phase \in {"liveness", "intervals", "scan", "rewritten", "run", "done"}
    /\ phase \notin {"run", "done"} => pc = 1 /\ vval = [v \in Vregs |-> Junk]

\* The caller's registers: each is where it was, or in its word of the frame.
FrameInv ==
    phase \in {"run", "done"} =>
        /\ pc \in Insts(prog) \cup {0}
        /\ vval \in [Vregs -> Int]
        /\ stack \in [FrameWords -> Int]
        /\ mreg \in [MachineRegisters -> Int \X Int]
        /\ \A b \in Bank : \A k \in pool(b) :
              is_callee_saved_index(b, k) /\ (<<b, k>> \notin saved_regs \/ phase = "done") =>
                  mreg[PhysReg(b, k)][1] = CallersOf(b, k)
        /\ \A r \in saved_regs : stack[save_slot(r)] = CallersOf(r[1], r[2])
        /\ \A o \in FrameWords : o < prog.locals => stack[o] = Local

\* The location of v holds its value.
Held(v) ==
    IF InReg(v)
    THEN Load(input.class[v], mreg[PhysReg(bankOf(v), assignments[v].at)]) = vval[v]
    ELSE RestoreValue(v) = vval[v]

LiveBefore(p, out, i) == virtual_uses(p, i) \cup (LiveAfter(p, out, i) \ virtual_defs(p, i))

\* No call opens an interval, once the scan is done.
Opened ==
    phase \in {"rewritten", "run", "done"} =>
        \A c \in calls(prog) : \A v \in LiveAfter(prog, live_out, c) : input.start[v] < c

\* What is live before the next instruction is held.
ValueInv ==
    /\ Opened
    /\ phase = "run" /\ pc # 0 => \A v \in LiveBefore(prog, live_out, pc) : Held(v)

RAInv == LivenessInv /\ IntervalsInv /\ ScanInv /\ Phases /\ FrameInv

-----------------------------------------------------------------------------
(* Machine functions and their liveness.                                   *)

LEMMA ProgramFacts ==
    ASSUME NEW p \in Programs
    PROVE  /\ Insts(p) = 1 .. Len(p.insts) /\ Len(p.insts) \in Nat
           /\ Blocks(p) = 1 .. Len(p.succs) /\ Len(p.succs) \in Nat \ {0}
           /\ p.first[1] = 1 /\ 1 \in Insts(p)
           /\ \A b \in Blocks(p) : p.succs[b] \subseteq Blocks(p)
  BY ProgramsAssumption DEF IsProgram, Insts, Blocks

\* The virtual operands of an instruction are registers of the function.
LEMMA OperandFacts ==
    ASSUME NEW p \in Programs, NEW i \in Insts(p)
    PROVE  /\ \A k \in DOMAIN p.insts[i].uses : p.insts[i].uses[k][2] \in DOMAIN p.class
           /\ \A k \in DOMAIN p.insts[i].defs : p.insts[i].defs[k][2] \in DOMAIN p.class
           /\ virtual_uses(p, i) \subseteq DOMAIN p.class
           /\ virtual_defs(p, i) \subseteq DOMAIN p.class
<1> DEFINE Operands == Seq(STRING \X DOMAIN p.class)
<1>1. p.insts[i].uses \in Operands /\ p.insts[i].defs \in Operands
  BY ProgramsAssumption DEF IsProgram, IsInst
<1>2. ASSUME NEW s \in Operands, NEW k \in DOMAIN s
      PROVE  s[k][2] \in DOMAIN p.class
  OBVIOUS
<1> QED
  BY <1>1, <1>2 DEF virtual_uses, virtual_defs, Regs

\* Blocks and the instructions in them.
LEMMA BlockFacts ==
    ASSUME NEW p \in Programs
    PROVE  /\ \A b \in Blocks(p) :
                 /\ In(p, b) \subseteq Insts(p)
                 /\ p.first[b] \in In(p, b) /\ p.last[b] \in In(p, b)
                 /\ p.first[b] \in Nat /\ p.last[b] \in Nat
                 /\ \A i \in In(p, b) : i \in Nat /\ p.first[b] <= i /\ i <= p.last[b]
                                        /\ p.block[i] = b
           /\ \A i \in Insts(p) : i \in Nat /\ p.block[i] \in Blocks(p) /\ i \in In(p, p.block[i])
<1>1. IsProgram(p)
  BY ProgramsAssumption
<1> QED
  BY <1>1 DEF IsProgram, In, Insts

LEMMA BlockSets ==
    ASSUME NEW p \in Programs, NEW b \in Blocks(p)
    PROVE  /\ block_uses(p, b) \subseteq DOMAIN p.class
           /\ block_defs(p, b) \subseteq DOMAIN p.class
<1>1. ASSUME NEW i \in In(p, b) PROVE virtual_defs(p, i) \subseteq DOMAIN p.class
  BY BlockFacts, OperandFacts
<1> QED
  BY <1>1 DEF block_uses, block_defs

LEMMA LiveTypes ==
    ASSUME NEW p \in Programs, NEW out, NEW i \in Insts(p)
    PROVE  LiveAfter(p, out, i) \subseteq DOMAIN p.class /\ LiveAt(p, out, i) \subseteq DOMAIN p.class
  BY OperandFacts DEF LiveAfter, LiveAt

-----------------------------------------------------------------------------
(* The liveness iteration and the live points.                             *)

LEMMA BlockLivenessStep ==
    ASSUME RAInv, BlockLiveness
    PROVE  LivenessInv'
<1> USE DEF RAInv
<1>0. /\ prog \in Programs /\ index \in Nat /\ index # 0 /\ index <= Len(prog.succs)
      /\ prog' = prog /\ phase' = "liveness" /\ phase = "liveness" /\ index' = index - 1
  BY DEF LivenessInv, BlockLiveness
<1>b. Blocks(prog) = 1 .. Len(prog.succs) /\ Len(prog.succs) \in Nat
  BY <1>0, ProgramFacts
<1>1. prog \in Programs /\ index \in Blocks(prog) /\ prog' = prog /\ phase' = "liveness"
  BY <1>0, <1>b
<1>2. NewOut(index) \subseteq Vregs /\ NewIn(index) \subseteq Vregs
  BY <1>1, ProgramFacts, BlockSets DEF LivenessInv, NewOut, NewIn, Vregs
<1>3. /\ live_in' \in [Blocks(prog) -> SUBSET Vregs]
      /\ live_out' \in [Blocks(prog) -> SUBSET Vregs]
  BY <1>1, <1>2 DEF LivenessInv, BlockLiveness
<1>4. ASSUME NEW defined, StrictBy(prog, defined), NEW b \in Blocks(prog)
      PROVE  live_in'[b] \subseteq defined[b]
  <2>1. \A c \in Blocks(prog) : live_in[c] \subseteq defined[c]
    BY <1>4 DEF LivenessInv
  <2>2. NewIn(index) \subseteq defined[index]
    BY <1>1, <1>4, <2>1, ProgramFacts DEF NewIn, NewOut, StrictBy
  <2> QED
    BY <1>1, <2>1, <2>2 DEF BlockLiveness, LivenessInv
<1>5. ASSUME ~changed', NEW b \in Blocks(prog), b > index' PROVE Solved(b)'
  <2>1. /\ ~changed /\ NewOut(index) = live_out[index] /\ NewIn(index) = live_in[index]
        /\ live_in' = live_in /\ live_out' = live_out
    BY <1>1, <1>5 DEF BlockLiveness, LivenessInv
  <2>2. Solved(b)
    <3>1. b = index \/ b > index
      BY <1>0, <1>b, <1>5
    <3> QED
      BY <1>0, <2>1, <3>1 DEF LivenessInv, Solved
  <2> QED
    BY <1>1, <2>1, <2>2 DEF Solved, NewOut, NewIn
<1>6. changed' \in BOOLEAN /\ index' \in Nat /\ index' <= Len(prog'.succs)
  BY <1>0, <1>b DEF BlockLiveness, LivenessInv
<1> QED
  BY <1>1, <1>3, <1>4, <1>5, <1>6 DEF LivenessInv, Vregs

LEMMA RoundEndsStep ==
    ASSUME RAInv, RoundEnds
    PROVE  LivenessInv'
<1> USE DEF RAInv
<1>1. /\ prog \in Programs /\ prog' = prog /\ live_in' = live_in /\ live_out' = live_out
      /\ changed' = FALSE /\ phase = "liveness" /\ index = 0
      /\ index' \in Nat /\ index' <= Len(prog.succs)
      /\ phase' = "liveness" => index' = Len(prog.succs)
      /\ phase' # "liveness" => ~changed
  BY ProgramFacts DEF LivenessInv, RoundEnds
<1>2. ASSUME NEW b \in Blocks(prog), phase' # "liveness" PROVE Solved(b)'
  <2>1. Solved(b)
    BY <1>1, <1>2, ProgramFacts DEF LivenessInv
  <2> QED
    BY <1>1, <2>1 DEF Solved, NewOut, NewIn
<1>3. \A b \in Blocks(prog) : ~(b > Len(prog.succs))
  BY <1>1, ProgramFacts
<1> QED
  BY <1>1, <1>2, <1>3 DEF LivenessInv, Vregs

\* A step that leaves the program and the liveness sets alone.
LEMMA LivenessStays ==
    ASSUME LivenessInv, prog' = prog, live_in' = live_in, live_out' = live_out,
           changed' = changed, index' \in Nat, phase # "liveness", phase' # "liveness"
    PROVE  LivenessInv'
<1>1. ASSUME NEW b \in Blocks(prog) PROVE Solved(b)'
  <2>1. Solved(b)
    BY DEF LivenessInv
  <2> QED
    BY <2>1 DEF Solved, NewOut, NewIn
<1> QED
  BY <1>1 DEF LivenessInv, Vregs

\* The frequency-weighted uses of an instruction are a number.
LEMMA UsesAreCounted ==
    ASSUME NEW p \in Programs, NEW i \in Insts(p), NEW v
    PROVE  usesAt(p, v, i) \in Nat /\ p.freq[p.block[i]] \in Nat
           /\ usesAt(p, v, i) * p.freq[p.block[i]] \in Nat
<1>1. p.insts[i].uses \in Seq(STRING \X DOMAIN p.class) /\ p.block[i] \in Blocks(p)
  BY ProgramsAssumption DEF IsProgram, IsInst
<1>2. p.freq[p.block[i]] \in Nat
  BY <1>1, ProgramsAssumption DEF IsProgram
<1>3. DOMAIN p.insts[i].uses = 1 .. Len(p.insts[i].uses) /\ Len(p.insts[i].uses) \in Nat
  BY <1>1
<1>4. IsFiniteSet(DOMAIN p.insts[i].uses)
  BY <1>3, FS_Interval
<1>5. usesAt(p, v, i) \in Nat
  <2>1. {k \in DOMAIN p.insts[i].uses : p.insts[i].uses[k][2] = v} \subseteq DOMAIN p.insts[i].uses
    OBVIOUS
  <2> QED
    BY <1>4, <2>1, FS_Subset, FS_CardinalityType DEF usesAt
<1>6. ASSUME NEW m \in Nat, NEW n \in Nat PROVE m * n \in Nat
  OBVIOUS
<1> QED
  BY <1>2, <1>5, <1>6

LEMMA TakePointsStep ==
    ASSUME RAInv, TakePoints
    PROVE  LivenessInv' /\ IntervalsInv'
<1>1. /\ LivenessInv /\ IntervalsInv /\ prog \in Programs /\ index \in Nat \ {0}
      /\ phase = "intervals" /\ phase' = "intervals" /\ index <= Len(prog.insts)
      /\ prog' = prog /\ live_in' = live_in /\ live_out' = live_out /\ changed' = changed
      /\ index' = index + 1
  BY DEF RAInv, LivenessInv, IntervalsInv, TakePoints
<1>2. index \in Insts(prog) /\ Insts(prog) = 1 .. Len(prog.insts)
  BY <1>1, ProgramFacts
<1> DEFINE live == LiveAt(prog, live_out, index)
<1>3. live \subseteq Vregs
  BY <1>1, <1>2, LiveTypes DEF Vregs
<1>4. points' = [v \in DOMAIN points \cup live |->
                    IF v \notin live THEN points[v]
                    ELSE IF v \notin DOMAIN points THEN <<index, index>>
                    ELSE Widened(points[v], index)]
  BY DEF TakePoints
<1> HIDE DEF live
<1>5. DOMAIN points' = DOMAIN points \cup live
  BY <1>4
<1>6. ASSUME NEW v \in DOMAIN points'
      PROVE  /\ points'[v][1] \in Nat /\ points'[v][2] \in Nat /\ points'[v][1] <= points'[v][2]
             /\ v \in DOMAIN points =>
                   points'[v][1] <= points[v][1] /\ points[v][2] <= points'[v][2]
             /\ v \in live => points'[v][1] <= index /\ index <= points'[v][2]
  <2>1. points'[v] = IF v \notin live THEN points[v]
                     ELSE IF v \notin DOMAIN points THEN <<index, index>>
                     ELSE Widened(points[v], index)
    BY <1>4, <1>5
  <2>2. v \in DOMAIN points =>
           points[v][1] \in Nat /\ points[v][2] \in Nat /\ points[v][1] <= points[v][2]
    BY <1>1 DEF IntervalsInv
  <2>3. CASE v \notin live
    BY <1>5, <2>1, <2>2, <2>3
  <2>4. CASE v \in live /\ v \notin DOMAIN points
    BY <1>1, <2>1, <2>4
  <2>5. CASE v \in live /\ v \in DOMAIN points
    <3>1. points'[v] = <<IF points[v][1] < index THEN points[v][1] ELSE index,
                         IF points[v][2] > index THEN points[v][2] ELSE index>>
      BY <2>1, <2>5 DEF Widened
    <3> QED
      BY <1>1, <2>2, <2>5, <3>1
  <2> QED
    BY <2>3, <2>4, <2>5
<1>7. ASSUME NEW j \in Insts(prog), j < index' PROVE Covered(j)'
  <2>1. j < index \/ j = index
    BY <1>1, <1>2, <1>7
  <2>2. CASE j < index
    <3>1. ASSUME NEW v \in LiveAt(prog, live_out, j)
          PROVE  v \in DOMAIN points' /\ points'[v][1] <= j /\ j <= points'[v][2]
      <4>1. /\ v \in DOMAIN points /\ points[v][1] <= j /\ j <= points[v][2]
            /\ points[v][1] \in Nat /\ points[v][2] \in Nat /\ j \in Nat
        BY <1>1, <1>2, <2>2, <3>1 DEF IntervalsInv, Covered
      <4> QED
        BY <1>5, <1>6, <4>1
    <3> QED
      BY <1>1, <3>1 DEF Covered
  <2>3. CASE j = index
    BY <1>1, <1>5, <1>6, <2>3 DEF Covered, live
  <2> QED
    BY <2>1, <2>2, <2>3
<1>8. executed' \in [Vregs -> Nat]
  <2>1. executed \in [Vregs -> Nat]
    BY <1>1 DEF IntervalsInv
  <2>2. executed' = [v \in Vregs |->
                      executed[v] + usesAt(prog, v, index) * prog.freq[prog.block[index]]]
    BY <2>1 DEF TakePoints
  <2>3. ASSUME NEW v \in Vregs
        PROVE  executed[v] + usesAt(prog, v, index) * prog.freq[prog.block[index]] \in Nat
    <3>1. executed[v] \in Nat /\ usesAt(prog, v, index) * prog.freq[prog.block[index]] \in Nat
      BY <1>1, <1>2, <2>1, UsesAreCounted
    <3>2. ASSUME NEW m \in Nat, NEW n \in Nat PROVE m + n \in Nat
      OBVIOUS
    <3> QED
      BY <3>1, <3>2
  <2> QED
    BY <2>2, <2>3
<1>9. LivenessInv'
  BY <1>1, LivenessStays
<1> QED
  BY <1>1, <1>3, <1>5, <1>6, <1>7, <1>8, <1>9 DEF IntervalsInv, Vregs

\* What BeginScan hands to the scan is a function as the scan expects it.
LEMMA InputIsInput ==
    ASSUME LivenessInv, IntervalsInv
    PROVE  IsInput(InputOf(prog, points, executed))
<1> DEFINE f == InputOf(prog, points, executed)
<1>1. IsProgram(prog) /\ DOMAIN points \subseteq DOMAIN prog.class
  BY ProgramsAssumption DEF LivenessInv, IntervalsInv, Vregs
<1>2. \A v \in DOMAIN points :
          points[v][1] \in Nat /\ points[v][2] \in Nat /\ points[v][1] <= points[v][2]
  BY DEF IntervalsInv
<1>3. /\ f.vregs = DOMAIN points
      /\ f.start = [v \in DOMAIN points |-> points[v][1]]
      /\ f.end = [v \in DOMAIN points |-> points[v][2]]
      /\ f.class = [v \in DOMAIN points |-> prog.class[v]]
      /\ f.call_crossing = values_live_across_calls(prog, f.start, f.end)
      /\ f.weighted = prog.weighted
      /\ f.weight = [v \in DOMAIN points |-> spill_weight(prog, v, executed[v])]
  BY DEF InputOf
<1>4. ASSUME NEW v \in DOMAIN points PROVE spill_weight(prog, v, executed[v]) \in Nat
  <2>1. executed[v] \in Nat
    BY <1>1 DEF IntervalsInv, Vregs
  <2> QED
    BY <2>1 DEF spill_weight
<1> HIDE DEF f
<1>5. f.vregs \subseteq Nat /\ f.start \in [f.vregs -> Nat] /\ f.end \in [f.vregs -> Nat]
  BY <1>1, <1>2, <1>3 DEF IsProgram
<1>6. f.class \in [f.vregs -> RegisterClass] /\ f.weighted \in BOOLEAN
  BY <1>1, <1>3 DEF IsProgram
<1>7. f.call_crossing \subseteq f.vregs /\ f.weight \in [f.vregs -> Nat]
  BY <1>3, <1>4 DEF values_live_across_calls
<1>8. \A v \in f.vregs : f.start[v] <= f.end[v]
  BY <1>2, <1>3
<1> QED
  BY <1>5, <1>6, <1>7, <1>8 DEF IsInput, f

-----------------------------------------------------------------------------
(* The scan: registers come from the pools.                                *)

\* What a scanned value gives back or takes is a register of its bank.
LEMMA FreedFromPool ==
    ASSUME IInv, PoolInv, NEW v \in input.vregs
    PROVE  /\ bankOf(v) \in Bank /\ Freed(v) \subseteq pool(bankOf(v))
           /\ \A w \in Retained(v) : /\ w \in input.vregs /\ bankOf(w) = bankOf(v) /\ InReg(w)
                                     /\ assignments[w].at \in pool(bankOf(v))
<1>1. bankOf(v) \in Bank
  BY StepTypes
<1>2. ASSUME NEW w \in active[bankOf(v)]
      PROVE  /\ w \in input.vregs /\ bankOf(w) = bankOf(v) /\ InReg(w)
             /\ assignments[w].at \in pool(bankOf(v))
  BY <1>1 DEF IInv, TypeOK, ActiveSets, PoolInv
<1> QED
  BY <1>1, <1>2 DEF Freed, Retained, PoolInv

\* The registers recorded for the prologue stay finitely many pool registers.
LEMMA RecordFromPool ==
    ASSUME IInv, PoolInv, NEW v \in input.vregs, NEW p \in pool(bankOf(v)), Record(v, p)
    PROVE  /\ \A r \in saved_regs' : r[2] \in pool(r[1]) /\ is_callee_saved_index(r[1], r[2])
           /\ IsFiniteSet(saved_regs')
<1>1. CASE is_callee_saved_index(bankOf(v), p)
  <2>1. saved_regs' = saved_regs \cup {<<bankOf(v), p>>}
    BY <1>1 DEF Record
  <2>2. IsFiniteSet(saved_regs')
    BY <2>1, FS_AddElement DEF PoolInv
  <2> QED
    BY <1>1, <2>1, <2>2 DEF PoolInv
<1>2. CASE ~is_callee_saved_index(bankOf(v), p)
  BY <1>2 DEF Record, PoolInv
<1> QED
  BY <1>1, <1>2

LEMMA PoolStep ==
    ASSUME IInv, PoolInv, Next
    PROVE  PoolInv'
<1> USE DEF Scanned
<1>0. /\ assignments \in [input.vregs -> Allocation] /\ free \in [Bank -> SUBSET Nat]
      /\ active \in [Bank -> SUBSET input.vregs]
  BY DEF IInv, TypeOK
<1>1. ASSUME NEW v \in input.vregs, SpillCrossingVector(v) PROVE PoolInv'
  <2>1. /\ input' = input /\ free' = free /\ saved_regs' = saved_regs
        /\ \A w \in input.vregs : InReg(w)' => InReg(w) /\ assignments'[w] = assignments[w]
    BY <1>0, <1>1 DEF SpillCrossingVector, InReg, Spill
  <2> QED
    BY <2>1 DEF PoolInv, bankOf, is_callee_saved_index
<1>2. ASSUME NEW v \in input.vregs, NEW p \in pool(bankOf(v)), TakeFree(v, p) PROVE PoolInv'
  <2>1. /\ input' = input /\ Record(v, p)
        /\ free' = [free EXCEPT ![bankOf(v)] = Freed(v) \ {p}]
        /\ assignments' = [assignments EXCEPT ![v] = Phys(p)]
    BY <1>2 DEF TakeFree, Expire
  <2>a. assignments'[v].at = p
    BY <1>0, <2>1 DEF Phys
  <2>b. \A w \in input.vregs \ {v} : assignments'[w] = assignments[w]
    BY <1>0, <2>1
  <2>2. \A b \in Bank : free'[b] \subseteq pool(b)
    BY <1>0, <2>1, FreedFromPool DEF PoolInv
  <2>3. \A r \in saved_regs' : r[2] \in pool(r[1]) /\ is_callee_saved_index(r[1], r[2])
    BY <2>1, RecordFromPool
  <2>4. IsFiniteSet(saved_regs')
    BY <2>1, RecordFromPool
  <2>5. \A w \in input.vregs : InReg(w)' => assignments'[w].at \in pool(bankOf(w))
    BY <1>2, <2>a, <2>b DEF PoolInv, InReg
  <2> QED
    BY <2>1, <2>2, <2>3, <2>4, <2>5 DEF PoolInv, bankOf
<1>3. ASSUME NEW v \in input.vregs, NEW w \in input.vregs, Evict(v, w) PROVE PoolInv'
  <2> DEFINE p == assignments[w].at
  <2>0. w \in Retained(v)
    BY <1>3 DEF Evict, IsVictim, Eligible
  <2>1. /\ p \in pool(bankOf(v)) /\ bankOf(v) \in Bank /\ bankOf(w) = bankOf(v)
    BY <2>0, FreedFromPool
  <2>2. /\ input' = input /\ Record(v, p)
        /\ free' = [free EXCEPT ![bankOf(v)] = Freed(v) \ {}]
        /\ assignments' = [assignments EXCEPT ![w] = Spill(slot_of(input.class[w])),
                                               ![v] = Phys(p)]
    BY <1>3 DEF Evict, Expire
  <2>a. assignments'[v].at = p
    BY <1>0, <2>2 DEF Phys
  <2>b. \A x \in input.vregs \ {v, w} : assignments'[x] = assignments[x]
    BY <1>0, <2>2
  <2>c. w # v => assignments'[w].kind = "Spill"
    BY <1>0, <2>2 DEF Spill
  <2> HIDE DEF p
  <2>3. \A b \in Bank : free'[b] \subseteq pool(b)
    BY <1>0, <2>2, FreedFromPool DEF PoolInv
  <2>4. \A r \in saved_regs' : r[2] \in pool(r[1]) /\ is_callee_saved_index(r[1], r[2])
    BY <2>1, <2>2, RecordFromPool
  <2>5. IsFiniteSet(saved_regs')
    BY <2>1, <2>2, RecordFromPool
  <2>6. \A x \in input.vregs : InReg(x)' => assignments'[x].at \in pool(bankOf(x))
    BY <2>1, <2>a, <2>b, <2>c DEF PoolInv, InReg
  <2> QED
    BY <2>2, <2>3, <2>4, <2>5, <2>6 DEF PoolInv, bankOf
<1>4. ASSUME NEW v \in input.vregs, SpillCurrent(v) PROVE PoolInv'
  <2>1. /\ input' = input /\ saved_regs' = saved_regs
        /\ free' = [free EXCEPT ![bankOf(v)] = Freed(v) \ {}]
        /\ \A w \in input.vregs : InReg(w)' => InReg(w) /\ assignments'[w] = assignments[w]
    BY <1>0, <1>4 DEF SpillCurrent, InReg, Spill, Expire
  <2>2. \A b \in Bank : free'[b] \subseteq pool(b)
    BY <1>0, <2>1, FreedFromPool DEF PoolInv
  <2> QED
    BY <2>1, <2>2 DEF PoolInv, bankOf, is_callee_saved_index
<1> QED
  BY <1>1, <1>2, <1>3, <1>4 DEF Next

LEMMA BeginScanStep ==
    ASSUME RAInv, BeginScan
    PROVE  LivenessInv' /\ IntervalsInv' /\ ScanInv'
<1>1. /\ LivenessInv /\ IntervalsInv /\ phase = "intervals" /\ phase' = "scan"
      /\ input' = InputOf(prog, points, executed)
      /\ prog' = prog /\ points' = points /\ executed' = executed
      /\ live_in' = live_in /\ live_out' = live_out /\ changed' = changed /\ index' = index
      /\ index > Len(prog.insts) /\ index \in Nat
  BY DEF RAInv, BeginScan, liveness, IntervalsInv
<1>2. LivenessInv'
  BY <1>1, LivenessStays
<1>3. ASSUME NEW j \in Insts(prog) PROVE Covered(j)'
  <2>1. j < index
    BY <1>1, ProgramFacts DEF LivenessInv
  <2>2. Covered(j)
    BY <1>1, <2>1 DEF IntervalsInv
  <2> QED
    BY <1>1, <2>2 DEF Covered
<1>4. IntervalsInv'
  BY <1>1, <1>3 DEF IntervalsInv, Vregs
<1>5. IsInput(input)'
  BY <1>1, InputIsInput DEF IsInput
<1>6. Start'
  <2>1. input'.vregs = DOMAIN points
    BY <1>1 DEF InputOf
  <2> QED
    BY <2>1 DEF BeginScan, Start, pool, pool_size
<1>7. IInv'
  BY <1>5, <1>6, StartIInv, PTL
<1>8. PoolInv'
  <2>1. \A v \in input'.vregs : ~InReg(v)'
    BY <1>6 DEF Start, InReg, NoAllocation
  <2>2. IsFiniteSet(saved_regs')
    BY <1>6, FS_EmptySet DEF Start
  <2> QED
    BY <1>6, <2>1, <2>2 DEF PoolInv, Start
<1> QED
  BY <1>1, <1>2, <1>4, <1>7, <1>8 DEF ScanInv

LEMMA ScanStep ==
    ASSUME RAInv, Scan
    PROVE  ScanInv'
<1>1. /\ IInv /\ PoolInv /\ Next /\ phase' = "scan" /\ phase = "scan"
      /\ input = InputOf(prog, points, executed)
      /\ prog' = prog /\ points' = points /\ executed' = executed
  BY DEF RAInv, ScanInv, Scan, mvars, liveness
<1>2. IInv' /\ PoolInv' /\ input' = input
  <2>1. input' = input
    BY <1>1
    DEF Next, SpillCrossingVector, TakeFree, Evict, SpillCurrent, Scanned
  <2> QED
    BY <1>1, <2>1, NextIInv, PoolStep
<1> QED
  BY <1>1, <1>2 DEF ScanInv

-----------------------------------------------------------------------------
(* After the scan: where the operands of an instruction are.               *)

Allocated == RAInv /\ phase \in {"scan", "rewritten", "run", "done"} /\ todo = {}

\* The intervals of the scan contain the points at which a value is live.
LEMMA IntervalFacts ==
    ASSUME RAInv, phase \in {"scan", "rewritten", "run", "done"}
    PROVE  /\ prog \in Programs /\ input.vregs \subseteq Vregs /\ IInv /\ PoolInv
           /\ \A v \in input.vregs : /\ input.class[v] = prog.class[v]
                                     /\ input.start[v] \in Nat /\ input.end[v] \in Nat
           /\ \A i \in Insts(prog) : \A v \in LiveAt(prog, live_out, i) :
                 v \in input.vregs /\ input.start[v] <= i /\ i <= input.end[v]
           /\ \A v \in input.vregs : \A c \in calls(prog) :
                 input.start[v] < c /\ c < input.end[v] => crossing(v)
<1>1. /\ prog \in Programs /\ input = InputOf(prog, points, executed)
      /\ DOMAIN points \subseteq Vregs /\ IInv /\ PoolInv
      /\ \A v \in DOMAIN points : points[v][1] \in Nat /\ points[v][2] \in Nat
      /\ \A i \in Insts(prog) : Covered(i)
  BY DEF RAInv, LivenessInv, IntervalsInv, ScanInv
<1>2. /\ input.vregs = DOMAIN points
      /\ input.start = [v \in DOMAIN points |-> points[v][1]]
      /\ input.end = [v \in DOMAIN points |-> points[v][2]]
      /\ input.class = [v \in DOMAIN points |-> prog.class[v]]
      /\ input.call_crossing = values_live_across_calls(prog, input.start, input.end)
  BY <1>1 DEF InputOf
<1>3. \A i \in Insts(prog) : \A v \in LiveAt(prog, live_out, i) :
         v \in input.vregs /\ input.start[v] <= i /\ i <= input.end[v]
  BY <1>1, <1>2 DEF Covered
<1>4. \A v \in input.vregs : \A c \in calls(prog) :
         input.start[v] < c /\ c < input.end[v] => crossing(v)
  BY <1>2 DEF values_live_across_calls, crossing
<1>5. \A v \in input.vregs : /\ input.class[v] = prog.class[v]
                              /\ input.start[v] \in Nat /\ input.end[v] \in Nat
  BY <1>1, <1>2
<1>6. input.vregs \subseteq Vregs
  BY <1>1, <1>2
<1> QED
  BY <1>1, <1>3, <1>4, <1>5, <1>6, Zenon

LEMMA OperandsAllocated ==
    ASSUME Allocated, NEW i \in Insts(prog)
    PROVE  /\ \A k \in DOMAIN prog.insts[i].uses : prog.insts[i].uses[k][2] \in input.vregs
           /\ \A k \in DOMAIN prog.insts[i].defs : prog.insts[i].defs[k][2] \in input.vregs
<1>1. virtual_uses(prog, i) \cup virtual_defs(prog, i) \subseteq input.vregs
  BY IntervalFacts DEF Allocated, LiveAt
<1> QED
  BY <1>1 DEF virtual_uses, virtual_defs, Regs

\* The machine registers: those of the pools and the scratch registers.
LEMMA MachineFacts ==
    /\ \A b \in Bank : \A k \in pool(b) : PhysReg(b, k) \in MachineRegisters
    /\ \A b \in Bank : \A k \in 0 .. SCRATCH - 1 : ScratchReg(b, k) \in MachineRegisters
    /\ \A b, c, j, k : PhysReg(b, j) # ScratchReg(c, k)
    /\ \A b, c, j, k : PhysReg(b, j) = PhysReg(c, k) => b = c /\ j = k
    /\ \A b, c, j, k : ScratchReg(b, j) = ScratchReg(c, k) => b = c /\ j = k
<1>0. \A b \in Bank : RegistersOf(b) \subseteq MachineRegisters
  BY DEF Bank, MachineRegisters
<1>1. \A b \in Bank : \A k \in pool(b) : PhysReg(b, k) \in MachineRegisters
  BY <1>0, Zenon DEF RegistersOf
<1>2. \A b \in Bank : \A k \in 0 .. SCRATCH - 1 : ScratchReg(b, k) \in MachineRegisters
  BY <1>0, Zenon DEF RegistersOf
<1> QED
  BY <1>1, <1>2 DEF PhysReg, ScratchReg

LEMMA PlaceFacts ==
    ASSUME Allocated, NEW v \in input.vregs
    PROVE  /\ InReg(v) <=> ~InSlot(v)
           /\ bankOf(v) \in Bank /\ assignments[v].at \in Nat
           /\ InReg(v) => /\ assignments[v].at \in pool(bankOf(v))
                          /\ PhysReg(bankOf(v), assignments[v].at) \in MachineRegisters
<1>1. IInv /\ PoolInv
  BY IntervalFacts DEF Allocated
<1>2. assignments[v] \in Allocation /\ assignments[v].at \in Nat /\ bankOf(v) \in Bank
  BY <1>1, StepTypes
<1>3. assignments[v].kind # "None"
  BY <1>1 DEF IInv, Placed, Allocated
<1>4. InReg(v) <=> ~InSlot(v)
  BY <1>2, <1>3 DEF InReg, InSlot, Allocation
<1>5. InReg(v) => assignments[v].at \in pool(bankOf(v))
  BY <1>1 DEF PoolInv
<1> QED
  BY <1>2, <1>4, <1>5, MachineFacts

\* The use operands among the first n that draw a scratch register of bank.
DrawnSet(inst, n, bank) ==
    {k \in 1 .. n : InSlot(inst.uses[k][2]) /\ bankOf(inst.uses[k][2]) = bank}

LEMMA DrawnFacts ==
    ASSUME NEW inst, NEW n \in Nat, NEW bank
    PROVE  /\ IsFiniteSet(DrawnSet(inst, n, bank))
           /\ DrawnBefore(inst, n, bank) = Cardinality(DrawnSet(inst, n, bank))
           /\ DrawnBefore(inst, n, bank) \in Nat /\ DrawnBefore(inst, n, bank) <= n
<1>1. IsFiniteSet(1 .. n) /\ Cardinality(1 .. n) = n
  <2>1. 1 \in Int /\ n \in Int /\ n - 1 + 1 = n /\ (1 > n => n = 0)
    OBVIOUS
  <2> QED
    BY <2>1, FS_Interval
<1>2. DrawnSet(inst, n, bank) \subseteq 1 .. n
  BY DEF DrawnSet
<1>3. IsFiniteSet(DrawnSet(inst, n, bank)) /\ Cardinality(DrawnSet(inst, n, bank)) <= n
  BY <1>1, <1>2, FS_Subset
<1>4. Cardinality(DrawnSet(inst, n, bank)) \in Nat
  BY <1>3, FS_CardinalityType
<1>5. DrawnBefore(inst, n, bank) = Cardinality(DrawnSet(inst, n, bank))
  BY DEF DrawnBefore, DrawnSet
<1> QED
  BY <1>3, <1>4, <1>5

\* Two operands of one bank draw different scratch registers.
LEMMA DrawnGrows ==
    ASSUME NEW inst, NEW k \in Nat \ {0}, NEW l \in Nat \ {0}, k < l,
           InSlot(inst.uses[k][2])
    PROVE  DrawnBefore(inst, k - 1, bankOf(inst.uses[k][2]))
               < DrawnBefore(inst, l - 1, bankOf(inst.uses[k][2]))
<1> DEFINE bank == bankOf(inst.uses[k][2])
           A == DrawnSet(inst, k - 1, bank)
           B == DrawnSet(inst, l - 1, bank)
<1>1. k - 1 \in Nat /\ l - 1 \in Nat
  OBVIOUS
<1>2. k \notin A /\ A \cup {k} \subseteq B
  BY DEF DrawnSet
<1>3. /\ IsFiniteSet(A) /\ IsFiniteSet(B)
      /\ DrawnBefore(inst, k - 1, bank) = Cardinality(A)
      /\ DrawnBefore(inst, l - 1, bank) = Cardinality(B)
  BY <1>1, DrawnFacts
<1> HIDE DEF A, B, bank
<1>4. Cardinality(A \cup {k}) = Cardinality(A) + 1
  BY <1>2, <1>3, FS_AddElement
<1>5. Cardinality(A \cup {k}) <= Cardinality(B)
  BY <1>2, <1>3, FS_Subset
<1>6. Cardinality(A) \in Nat /\ Cardinality(B) \in Nat
  BY <1>3, FS_CardinalityType
<1> QED
  BY <1>3, <1>4, <1>5, <1>6 DEF bank

\* The operands of an instruction: at most two are read and one is written.
LEMMA InstFacts ==
    ASSUME NEW p \in Programs, NEW i \in Insts(p)
    PROVE  /\ DOMAIN p.insts[i].uses = 1 .. Len(p.insts[i].uses)
           /\ Len(p.insts[i].uses) \in Nat /\ Len(p.insts[i].uses) <= SCRATCH - 1
           /\ p.insts[i].defs # <<>> => DOMAIN p.insts[i].defs = {1}
           /\ p.insts[i].imm \in Nat
           /\ i \in calls(p) => p.insts[i].defs = <<>> /\ i < p.last[p.block[i]]
<1> DEFINE Operands == Seq(STRING \X DOMAIN p.class)
           uses == p.insts[i].uses
           defs == p.insts[i].defs
<1>1. /\ uses \in Operands /\ Len(uses) <= SCRATCH - 1 /\ defs \in Operands /\ Len(defs) <= 1
      /\ p.insts[i].imm \in Nat
      /\ i \in calls(p) => defs = <<>> /\ i < p.last[p.block[i]]
  BY ProgramsAssumption DEF IsProgram, IsInst
<1> HIDE DEF uses, defs
<1>2. DOMAIN uses = 1 .. Len(uses) /\ Len(uses) \in Nat
  BY <1>1
<1>3. ASSUME defs # <<>> PROVE DOMAIN defs = {1}
  <2>1. Len(defs) \in Nat /\ DOMAIN defs = 1 .. Len(defs)
    BY <1>1
  <2>2. Len(defs) # 0
    BY <1>1, <1>3
  <2>3. Len(defs) = 1
    BY <1>1, <2>1, <2>2
  <2> QED
    BY <2>1, <2>3
<1> QED
  BY <1>1, <1>2, <1>3 DEF uses, defs

LEMMA UseFacts ==
    ASSUME Allocated, NEW i \in Insts(prog), NEW k \in DOMAIN prog.insts[i].uses
    PROVE  LET inst == prog.insts[i]
               v == inst.uses[k][2]
               r == UseRegister(inst, k)
           IN  /\ InReg(v) => r = PhysReg(bankOf(v), assignments[v].at)
               /\ InSlot(v) => \E j \in 0 .. SCRATCH - 1 : r = ScratchReg(bankOf(v), j)
               /\ r \in MachineRegisters
<1> DEFINE inst == prog.insts[i]
           v == inst.uses[k][2]
           n == DrawnBefore(inst, k - 1, bankOf(v))
<1>1. prog \in Programs /\ v \in input.vregs
  BY IntervalFacts, OperandsAllocated DEF Allocated
<1>2. k \in Nat \ {0} /\ k <= SCRATCH - 1 /\ k - 1 \in Nat
  <2>1. /\ DOMAIN inst.uses = 1 .. Len(inst.uses)
        /\ Len(inst.uses) \in Nat /\ Len(inst.uses) <= SCRATCH - 1
    BY <1>1, InstFacts
  <2> QED
    BY <2>1 DEF SCRATCH
<1>3. n \in Nat /\ n <= k - 1
  BY <1>2, DrawnFacts
<1>4. n \in 0 .. SCRATCH - 1
  BY <1>2, <1>3 DEF SCRATCH
<1>5. UseRegister(inst, k) = IF InReg(v) THEN PhysReg(bankOf(v), assignments[v].at)
                             ELSE ScratchReg(bankOf(v), n)
  BY DEF UseRegister
<1> HIDE DEF v, n, inst
<1>6. /\ InReg(v) <=> ~InSlot(v)
      /\ bankOf(v) \in Bank
      /\ InReg(v) => PhysReg(bankOf(v), assignments[v].at) \in MachineRegisters
  BY <1>1, PlaceFacts
<1>7. ScratchReg(bankOf(v), n) \in MachineRegisters
  BY <1>4, <1>6, MachineFacts
<1>8. /\ InReg(v) => UseRegister(inst, k) = PhysReg(bankOf(v), assignments[v].at)
      /\ InSlot(v) => \E j \in 0 .. SCRATCH - 1 : UseRegister(inst, k) = ScratchReg(bankOf(v), j)
      /\ UseRegister(inst, k) \in MachineRegisters
  BY <1>4, <1>5, <1>6, <1>7
<1> QED
  BY <1>8 DEF v, inst

LEMMA UsesDistinct ==
    ASSUME Allocated, NEW i \in Insts(prog),
           NEW k \in DOMAIN prog.insts[i].uses, NEW l \in DOMAIN prog.insts[i].uses,
           InSlot(prog.insts[i].uses[k][2]), InSlot(prog.insts[i].uses[l][2]),
           UseRegister(prog.insts[i], k) = UseRegister(prog.insts[i], l)
    PROVE  k = l
<1> DEFINE inst == prog.insts[i]
           bk == bankOf(inst.uses[k][2])
           bl == bankOf(inst.uses[l][2])
<1>0. prog \in Programs
  BY IntervalFacts DEF Allocated
<1>1. k \in Nat \ {0} /\ l \in Nat \ {0}
  BY <1>0, InstFacts
<1>2. ~InReg(inst.uses[k][2]) /\ ~InReg(inst.uses[l][2])
  BY OperandsAllocated, PlaceFacts
<1>3. ScratchReg(bk, DrawnBefore(inst, k - 1, bk)) = ScratchReg(bl, DrawnBefore(inst, l - 1, bl))
  BY <1>2 DEF UseRegister
<1>4. bk = bl /\ DrawnBefore(inst, k - 1, bk) = DrawnBefore(inst, l - 1, bk)
  BY <1>3, MachineFacts
<1>5. DrawnBefore(inst, k - 1, bk) \in Nat /\ DrawnBefore(inst, l - 1, bk) \in Nat
  <2>1. k - 1 \in Nat /\ l - 1 \in Nat
    BY <1>1
  <2> QED
    BY <2>1, DrawnFacts
<1>6. ~(k < l)
  <2> SUFFICES ASSUME k < l PROVE FALSE
    OBVIOUS
  <2>1. DrawnBefore(inst, k - 1, bk) < DrawnBefore(inst, l - 1, bk)
    BY <1>1, DrawnGrows
  <2> QED
    BY <1>4, <1>5, <2>1
<1>7. ~(l < k)
  <2> SUFFICES ASSUME l < k PROVE FALSE
    OBVIOUS
  <2>1. DrawnBefore(inst, l - 1, bl) < DrawnBefore(inst, k - 1, bl)
    BY <1>1, DrawnGrows
  <2> QED
    BY <1>4, <1>5, <2>1
<1> QED
  BY <1>1, <1>6, <1>7

LEMMA DefFacts ==
    ASSUME Allocated, NEW i \in Insts(prog), prog.insts[i].defs # <<>>
    PROVE  LET inst == prog.insts[i]
               d == inst.defs[1][2]
               r == DefRegister(inst)
           IN  /\ d \in input.vregs /\ d \in virtual_defs(prog, i)
               /\ virtual_defs(prog, i) = {d}
               /\ InReg(d) => r = PhysReg(bankOf(d), assignments[d].at)
               /\ InSlot(d) => \E b \in Bank : \E j \in 0 .. SCRATCH - 1 : r = ScratchReg(b, j)
               /\ r \in MachineRegisters
<1> DEFINE inst == prog.insts[i]
           d == inst.defs[1][2]
           tied == {k \in DOMAIN inst.uses : inst.uses[k] = inst.defs[1]}
           n == DrawnBefore(inst, Len(inst.uses), bankOf(d))
<1>1. prog \in Programs /\ DOMAIN inst.defs = {1}
  BY IntervalFacts, InstFacts DEF Allocated
<1>2. d \in input.vregs /\ virtual_defs(prog, i) = {d}
  BY <1>1, OperandsAllocated DEF virtual_defs, Regs
<1>3. Len(inst.uses) \in Nat /\ Len(inst.uses) <= SCRATCH - 1
  BY <1>1, InstFacts
<1>4. n \in Nat /\ n <= Len(inst.uses)
  BY <1>3, DrawnFacts
<1>5. n \in 0 .. SCRATCH - 1
  BY <1>3, <1>4 DEF SCRATCH
<1>6. /\ InReg(d) <=> ~InSlot(d)
      /\ bankOf(d) \in Bank
      /\ InReg(d) => PhysReg(bankOf(d), assignments[d].at) \in MachineRegisters
  BY <1>2, PlaceFacts
<1>7. DefRegister(inst) = IF InReg(d) THEN PhysReg(bankOf(d), assignments[d].at)
                          ELSE IF tied # {} THEN UseRegister(inst, CHOOSE k \in tied : TRUE)
                          ELSE ScratchReg(bankOf(d), n)
  BY DEF DefRegister
<1>8. ASSUME InSlot(d)
      PROVE  \E b \in Bank : \E j \in 0 .. SCRATCH - 1 : DefRegister(inst) = ScratchReg(b, j)
  <2>1. CASE tied # {}
    <3>1. PICK k \in tied : k = (CHOOSE l \in tied : TRUE)
      BY <2>1
    <3>2. k \in DOMAIN inst.uses /\ inst.uses[k][2] = d
      BY <3>1
    <3>3. \E j \in 0 .. SCRATCH - 1 : UseRegister(inst, k) = ScratchReg(bankOf(d), j)
      BY <1>8, <3>2, UseFacts
    <3> QED
      BY <1>6, <1>7, <1>8, <2>1, <3>1, <3>3, Zenon
  <2>2. CASE tied = {}
    BY <1>5, <1>6, <1>7, <1>8, <2>2, Zenon
  <2> QED
    BY <2>1, <2>2
<1>9. DefRegister(inst) \in MachineRegisters
  <2>1. CASE InSlot(d)
    <3>1. PICK b \in Bank : \E j \in 0 .. SCRATCH - 1 : DefRegister(inst) = ScratchReg(b, j)
      BY <1>8, <2>1
    <3>2. PICK j \in 0 .. SCRATCH - 1 : DefRegister(inst) = ScratchReg(b, j)
      BY <3>1
    <3> QED
      BY <3>2, MachineFacts
  <2>2. CASE InReg(d)
    BY <1>6, <1>7, <2>2
  <2> QED
    BY <1>6, <2>1, <2>2
<1>10. InReg(d) => DefRegister(inst) = PhysReg(bankOf(d), assignments[d].at)
  BY <1>7
<1> QED
  BY <1>2, <1>8, <1>9, <1>10

LEMMA RewriteSuffices ==
    ASSUME Allocated, NEW i \in Insts(prog)
    PROVE  ScratchSuffices(prog.insts[i])
<1>1. \A k \in DOMAIN prog.insts[i].uses : UseRegister(prog.insts[i], k) \in MachineRegisters
  BY UseFacts
<1>2. prog.insts[i].defs # <<>> => DefRegister(prog.insts[i]) \in MachineRegisters
  BY DefFacts
<1> QED
  BY <1>1, <1>2 DEF ScratchSuffices

-----------------------------------------------------------------------------
(* The frame: locals, spill slots and save area are apart.                 *)

LEMMA Rounding ==
    ASSUME NEW n \in Nat
    PROVE  /\ align_to_16(n) \in Nat /\ n <= align_to_16(n)
           /\ \E m \in Nat : align_to_16(n) = 16 * m
  BY DEF align_to_16

LEMMA WordsOfFrame ==
    ASSUME NEW m \in Nat, NEW n \in Nat, 8 * m < 16 * n
    PROVE  8 * m \in {8 * k : k \in 0 .. ((16 * n) \div 8) - 1}
<1>1. (16 * n) \div 8 = 2 * n
  OBVIOUS
<1>2. m \in 0 .. 2 * n - 1
  OBVIOUS
<1> QED
  BY <1>1, <1>2

\* The sizes of the parts of the frame.
LEMMA FrameSizes ==
    ASSUME Allocated
    PROVE  /\ prog.locals \in Nat /\ spill_slots \in Nat /\ stack_size \in Nat
           /\ frame_bytes \in Nat /\ IsFiniteSet(saved_regs) /\ Cardinality(saved_regs) \in Nat
           /\ prog.locals + spill_slots * 8 <= stack_size
           /\ stack_size + Cardinality(saved_regs) * 8 <= frame_bytes
           /\ \E m \in Nat : prog.locals = 16 * m
           /\ \E m \in Nat : stack_size = 16 * m
           /\ \E m \in Nat : frame_bytes = 16 * m
<1>1. prog \in Programs /\ IInv /\ PoolInv
  BY IntervalFacts DEF Allocated
<1>2. prog.locals \in Nat /\ prog.locals % 16 = 0
  BY <1>1, ProgramsAssumption DEF IsProgram
<1>3. spill_slots \in Nat
  BY <1>1 DEF IInv, TypeOK
<1>4. IsFiniteSet(saved_regs) /\ Cardinality(saved_regs) \in Nat
  BY <1>1, FS_CardinalityType DEF PoolInv
<1>5. PICK n \in Nat : n = prog.locals + spill_slots * 8
  BY <1>2, <1>3
<1>6. /\ stack_size \in Nat /\ prog.locals + spill_slots * 8 <= stack_size
      /\ \E m \in Nat : stack_size = 16 * m
  <2>1. stack_size = align_to_16(n)
    BY <1>5 DEF stack_size
  <2> QED
    BY <1>5, <2>1, Rounding
<1>7. PICK n2 \in Nat : n2 = stack_size + Cardinality(saved_regs) * 8
  BY <1>4, <1>6
<1>8. /\ frame_bytes \in Nat /\ stack_size + Cardinality(saved_regs) * 8 <= frame_bytes
      /\ \E m \in Nat : frame_bytes = 16 * m
  <2>1. frame_bytes = align_to_16(n2)
    BY <1>7 DEF frame_bytes
  <2> QED
    BY <1>7, <2>1, Rounding
<1>9. \E m \in Nat : prog.locals = 16 * m
  <2>1. prog.locals = 16 * (prog.locals \div 16) /\ prog.locals \div 16 \in Nat
    BY <1>2
  <2> QED
    BY <2>1
<1> QED
  BY <1>2, <1>3, <1>4, <1>6, <1>8, <1>9

\* A spilled value has its words between the locals and the save area.
LEMMA SlotPlaces ==
    ASSUME Allocated, NEW v \in input.vregs, InSlot(v), NEW s \in SlotsOf(v)
    PROVE  /\ s \in Nat /\ prog.locals + s * 8 \in FrameWords
           /\ prog.locals <= prog.locals + s * 8
           /\ prog.locals + s * 8 < stack_size
<1>1. IInv /\ assignments[v].at \in Nat
  BY IntervalFacts, PlaceFacts DEF Allocated
<1>2. s \in Nat /\ s < spill_slots
  BY <1>1 DEF IInv, SlotsDisjoint, SlotsOf
<1>3. PICK a \in Nat : prog.locals = 16 * a
  BY FrameSizes
<1>4. PICK b \in Nat : stack_size = 16 * b
  BY FrameSizes
<1>5. PICK c \in Nat : frame_bytes = 16 * c
  BY FrameSizes
<1>6. /\ spill_slots \in Nat /\ Cardinality(saved_regs) \in Nat
      /\ 16 * a + spill_slots * 8 <= 16 * b
      /\ 16 * b + Cardinality(saved_regs) * 8 <= 16 * c
  BY <1>3, <1>4, <1>5, FrameSizes
<1>7. 16 * a + s * 8 < 16 * b /\ 16 * b <= 16 * c
  <2>1. PICK n \in Nat : n = Cardinality(saved_regs)
    BY <1>6
  <2> QED
    BY <1>2, <1>6, <2>1
<1>8. 16 * a + s * 8 = 8 * (2 * a + s) /\ 2 * a + s \in Nat
  BY <1>2
<1>9. 16 * a + s * 8 \in FrameWords
  <2>1. 8 * (2 * a + s) < 16 * c
    BY <1>2, <1>7, <1>8
  <2>2. 8 * (2 * a + s) \in {8 * k : k \in 0 .. ((16 * c) \div 8) - 1}
    BY <1>8, <2>1, WordsOfFrame
  <2> QED
    BY <1>5, <1>8, <2>2 DEF FrameWords
<1> QED
  BY <1>2, <1>3, <1>4, <1>7, <1>9

LEMMA SlotsApart ==
    ASSUME Allocated, NEW v \in input.vregs, InSlot(v), NEW w \in input.vregs, InSlot(w), v # w,
           NEW s \in SlotsOf(v), NEW t \in SlotsOf(w)
    PROVE  prog.locals + s * 8 # prog.locals + t * 8
<1>1. s # t
  <2>1. SlotsDisjoint
    BY IntervalFacts DEF Allocated, IInv
  <2> QED
    BY <2>1 DEF SlotsDisjoint
<1>2. s \in Nat /\ t \in Nat /\ prog.locals \in Nat
  BY SlotPlaces, FrameSizes
<1> QED
  BY <1>1, <1>2

\* Every saved register has a word of its own in the save area.
LEMMA SavePlaces ==
    ASSUME Allocated, NEW r \in saved_regs
    PROVE  /\ save_slot(r) \in FrameWords /\ save_slot(r) \in Nat
           /\ stack_size <= save_slot(r)
<1>0. IsFiniteSet(saved_regs) /\ saved_regs \subseteq Bank \X Nat
  BY IntervalFacts DEF Allocated, PoolInv, IInv, TypeOK
<1>1. r \notin SavedBefore(r) /\ SavedBefore(r) \cup {r} \subseteq saved_regs
  BY <1>0 DEF SavedBefore, Bank
<1>2. IsFiniteSet(SavedBefore(r)) /\ IsFiniteSet(SavedBefore(r) \cup {r})
  BY <1>0, <1>1, FS_Subset
<1>3. Cardinality(SavedBefore(r) \cup {r}) <= Cardinality(saved_regs)
  BY <1>0, <1>1, FS_Subset
<1>4. Cardinality(SavedBefore(r) \cup {r}) = Cardinality(SavedBefore(r)) + 1
  BY <1>1, <1>2, FS_AddElement
<1>5. Cardinality(SavedBefore(r)) \in Nat /\ Cardinality(saved_regs) \in Nat
  BY <1>0, <1>2, FS_CardinalityType
<1>6. PICK n \in Nat : n = Cardinality(SavedBefore(r))
  BY <1>5
<1>7. PICK m \in Nat : m = Cardinality(saved_regs)
  BY <1>5
<1>8. n < m
  BY <1>3, <1>4, <1>6, <1>7
<1>9. PICK b \in Nat : stack_size = 16 * b
  BY FrameSizes
<1>10. PICK c \in Nat : frame_bytes = 16 * c
  BY FrameSizes
<1>11. 16 * b + m * 8 <= 16 * c
  BY <1>7, <1>9, <1>10, FrameSizes
<1>12. save_slot(r) = 8 * (2 * b + n)
  BY <1>6, <1>9 DEF save_slot
<1>13. 8 * (2 * b + n) \in {8 * k : k \in 0 .. ((16 * c) \div 8) - 1}
  <2>1. 2 * b + n \in Nat /\ 8 * (2 * b + n) < 16 * c
    BY <1>8, <1>11
  <2> QED
    BY <2>1, WordsOfFrame
<1> QED
  BY <1>9, <1>10, <1>12, <1>13 DEF FrameWords

LEMMA SavesApart ==
    ASSUME Allocated, NEW r \in saved_regs, NEW s \in saved_regs, save_slot(r) = save_slot(s)
    PROVE  r = s
<1>0. IsFiniteSet(saved_regs) /\ saved_regs \subseteq Bank \X Nat
  BY IntervalFacts DEF Allocated, PoolInv, IInv, TypeOK
<1>1. \A x \in saved_regs : IsFiniteSet(SavedBefore(x)) /\ Cardinality(SavedBefore(x)) \in Nat
  <2> TAKE x \in saved_regs
  <2>1. SavedBefore(x) \subseteq saved_regs
    BY DEF SavedBefore
  <2> QED
    BY <1>0, <2>1, FS_Subset, FS_CardinalityType
<1>2. ASSUME NEW x \in saved_regs, NEW y \in saved_regs, x \in SavedBefore(y)
      PROVE  Cardinality(SavedBefore(x)) < Cardinality(SavedBefore(y))
  <2>1. x \notin SavedBefore(x) /\ SavedBefore(x) \cup {x} \subseteq SavedBefore(y)
    BY <1>0, <1>2 DEF SavedBefore, Bank
  <2>2. Cardinality(SavedBefore(x) \cup {x}) = Cardinality(SavedBefore(x)) + 1
    BY <1>1, <2>1, FS_AddElement
  <2>3. Cardinality(SavedBefore(x) \cup {x}) <= Cardinality(SavedBefore(y))
    BY <1>1, <2>1, FS_Subset
  <2> QED
    BY <1>1, <2>2, <2>3
<1>3. Cardinality(SavedBefore(r)) = Cardinality(SavedBefore(s))
  <2>1. PICK m \in Nat : m = Cardinality(SavedBefore(r))
    BY <1>1
  <2>2. PICK n \in Nat : n = Cardinality(SavedBefore(s))
    BY <1>1
  <2>3. stack_size \in Nat /\ stack_size + m * 8 = stack_size + n * 8
    BY <2>1, <2>2, FrameSizes DEF save_slot
  <2> QED
    BY <2>1, <2>2, <2>3
<1>4. r = s \/ r \in SavedBefore(s) \/ s \in SavedBefore(r)
  BY <1>0 DEF SavedBefore, Bank
<1>5. r \notin SavedBefore(s) /\ s \notin SavedBefore(r)
  BY <1>1, <1>2, <1>3
<1> QED
  BY <1>4, <1>5

-----------------------------------------------------------------------------
(* Liveness along the execution.                                           *)

\* What is live before the first instruction of a block is live at its start.
LEMMA LiveAtBlockStart ==
    ASSUME RAInv, phase # "liveness", NEW s \in Blocks(prog)
    PROVE  LiveBefore(prog, live_out, prog.first[s]) \subseteq live_in[s]
<1> DEFINE next == prog.first[s]
<1>a. prog \in Programs /\ \A c \in Blocks(prog) : Solved(c)
  BY DEF RAInv, LivenessInv
<1>b. s \in Blocks(prog) /\ next \in In(prog, s) /\ next \in Insts(prog) /\ prog.block[next] = s
  BY <1>a, BlockFacts
<1>c. next \in Nat /\ \A k \in In(prog, s) : k \in Nat /\ next <= k
  BY <1>a, <1>b, BlockFacts
<1> SUFFICES ASSUME NEW v \in LiveBefore(prog, live_out, next) PROVE v \in live_in[s]
  OBVIOUS
<1> HIDE DEF next
<1>0. v \in DOMAIN prog.class
  BY <1>a, <1>b, OperandFacts, LiveTypes DEF LiveBefore
<1>1. CASE v \in virtual_uses(prog, next)
  <2>1. v \in block_uses(prog, s)
    <3>1. \A k \in In(prog, s) : ~(k < next)
      BY <1>c
    <3> QED
      BY <1>b, <1>0, <1>1, <3>1 DEF block_uses
  <2> QED
    BY <1>a, <1>b, <2>1 DEF Solved, NewIn
<1>2. CASE v \notin virtual_uses(prog, next)
  <2>1. v \in LiveAfter(prog, live_out, next) /\ v \notin virtual_defs(prog, next)
    BY <1>2 DEF LiveBefore
  <2>2. CASE \E j \in In(prog, s) : j > next /\ v \in virtual_uses(prog, j)
                                     /\ NoDefBetween(prog, v, next, j)
    <3>1. PICK j \in In(prog, s) : j > next /\ v \in virtual_uses(prog, j)
                                   /\ NoDefBetween(prog, v, next, j)
      BY <2>2
    <3>2. ASSUME NEW k \in In(prog, s), k < j PROVE v \notin virtual_defs(prog, k)
      <4>1. k = next \/ k \in next + 1 .. j - 1
        BY <1>c, <3>1, <3>2
      <4> QED
        BY <2>1, <3>1, <4>1 DEF NoDefBetween
    <3>3. v \in block_uses(prog, s)
      BY <1>0, <3>1, <3>2 DEF block_uses
    <3> QED
      BY <1>a, <1>b, <3>3 DEF Solved, NewIn
  <2>3. CASE /\ v \in live_out[s]
             /\ \A k \in In(prog, s) : k > next => v \notin virtual_defs(prog, k)
    <3>1. \A k \in In(prog, s) : k = next \/ k > next
      BY <1>c
    <3>2. v \notin block_defs(prog, s)
      BY <2>1, <2>3, <3>1 DEF block_defs
    <3> QED
      BY <1>a, <1>b, <2>3, <3>2 DEF Solved, NewIn
  <2> QED
    BY <1>b, <2>1, <2>2, <2>3 DEF LiveAfter
<1> QED
  BY <1>1, <1>2

\* What is live before the next instruction was live after this one.
LEMMA LiveFlows ==
    ASSUME RAInv, phase # "liveness", NEW i \in Insts(prog), NEW next \in Following(i), next # 0
    PROVE  /\ next \in Insts(prog)
           /\ LiveBefore(prog, live_out, next) \subseteq LiveAfter(prog, live_out, i)
<1> DEFINE b == prog.block[i]
<1>1. prog \in Programs /\ \A c \in Blocks(prog) : Solved(c)
  BY DEF RAInv, LivenessInv
<1>2. /\ b \in Blocks(prog) /\ i \in In(prog, b) /\ i \in Nat
      /\ prog.first[b] \in Nat /\ prog.last[b] \in Nat
      /\ prog.first[b] <= i /\ i <= prog.last[b]
  BY <1>1, BlockFacts
<1>3. In(prog, b) = prog.first[b] .. prog.last[b] /\ In(prog, b) \subseteq Insts(prog)
  BY <1>1, <1>2, BlockFacts DEF In
<1>4. CASE i < prog.last[b]
  <2>1. next = i + 1 /\ next \in In(prog, b) /\ next \in Insts(prog) /\ prog.block[next] = b
    <3>1. next = i + 1
      BY <1>4 DEF Following
    <3>2. next \in In(prog, b)
      BY <1>2, <1>3, <1>4, <3>1
    <3> QED
      BY <1>1, <1>2, <1>3, <3>1, <3>2, BlockFacts
  <2>2. ASSUME NEW v \in virtual_uses(prog, next) PROVE v \in LiveAfter(prog, live_out, i)
    <3>1. v \in DOMAIN prog.class
      BY <1>1, <2>1, OperandFacts
    <3>2. next > i /\ NoDefBetween(prog, v, i, next)
      BY <1>2, <2>1 DEF NoDefBetween
    <3> QED
      BY <2>1, <2>2, <3>1, <3>2 DEF LiveAfter
  <2>3. ASSUME NEW v \in LiveAfter(prog, live_out, next), v \notin virtual_defs(prog, next)
        PROVE  v \in LiveAfter(prog, live_out, i)
    <3>1. v \in DOMAIN prog.class
      BY DEF LiveAfter
    <3>2. CASE \E j \in In(prog, b) : j > next /\ v \in virtual_uses(prog, j)
                                       /\ NoDefBetween(prog, v, next, j)
      <4>1. PICK j \in In(prog, b) : j > next /\ v \in virtual_uses(prog, j)
                                     /\ NoDefBetween(prog, v, next, j)
        BY <3>2
      <4>2. j \in Nat /\ j > i
        BY <1>2, <1>3, <2>1, <4>1
      <4>3. NoDefBetween(prog, v, i, j)
        <5> SUFFICES ASSUME NEW k \in i + 1 .. j - 1 PROVE v \notin virtual_defs(prog, k)
          BY DEF NoDefBetween
        <5>1. k = next \/ k \in next + 1 .. j - 1
          BY <1>2, <2>1, <4>2
        <5> QED
          BY <2>3, <4>1, <5>1 DEF NoDefBetween
      <4> QED
        BY <3>1, <4>1, <4>2, <4>3 DEF LiveAfter
    <3>3. CASE /\ v \in live_out[b]
               /\ \A k \in In(prog, b) : k > next => v \notin virtual_defs(prog, k)
      <4>1. \A k \in In(prog, b) : k > i => k = next \/ k > next
        BY <1>2, <1>3, <2>1
      <4>2. \A k \in In(prog, b) : k > i => v \notin virtual_defs(prog, k)
        BY <2>3, <3>3, <4>1
      <4> QED
        BY <3>1, <3>3, <4>2 DEF LiveAfter
    <3> QED
      BY <2>1, <2>3, <3>2, <3>3 DEF LiveAfter
  <2> QED
    BY <2>1, <2>2, <2>3 DEF LiveBefore
<1>5. CASE ~(i < prog.last[b])
  <2>1. PICK s \in prog.succs[b] : next = prog.first[s]
    BY <1>5 DEF Following
  <2>2. s \in Blocks(prog) /\ next \in In(prog, s) /\ next \in Insts(prog) /\ prog.block[next] = s
    BY <1>1, <1>2, <2>1, ProgramFacts, BlockFacts
  <2>4. LiveBefore(prog, live_out, next) \subseteq live_in[s]
    BY <2>1, <2>2, LiveAtBlockStart
  <2>5. \A k \in In(prog, b) : ~(k > i)
    BY <1>2, <1>3, <1>5
  <2>6. ASSUME NEW v \in LiveBefore(prog, live_out, next) PROVE v \in LiveAfter(prog, live_out, i)
    <3>1. v \in live_out[b]
      BY <1>1, <1>2, <2>1, <2>4, <2>6 DEF Solved, NewOut
    <3>2. v \in DOMAIN prog.class
      BY <1>1, <2>2, <2>6, OperandFacts, LiveTypes DEF LiveBefore
    <3> QED
      BY <2>5, <3>1, <3>2 DEF LiveAfter
  <2> QED
    BY <2>2, <2>6
<1> QED
  BY <1>4, <1>5

\* Nothing is live before the first instruction of a strict function.
LEMMA NothingLiveAtEntry ==
    ASSUME RAInv, phase # "liveness"
    PROVE  LiveBefore(prog, live_out, 1) = {}
<1>1. prog \in Programs /\ 1 \in Blocks(prog) /\ prog.first[1] = 1
  <2>1. prog \in Programs
    BY DEF RAInv, LivenessInv
  <2> QED
    BY <2>1, ProgramFacts
<1>2. IsStrict(prog)
  BY <1>1, ProgramsAssumption DEF IsProgram
<1>3. PICK defined : StrictBy(prog, defined)
  BY <1>2 DEF IsStrict, StrictBy
<1>4. live_in[1] \subseteq defined[1] /\ defined[1] = {}
  BY <1>1, <1>3 DEF RAInv, LivenessInv, StrictBy
<1>5. LiveBefore(prog, live_out, prog.first[1]) \subseteq live_in[1]
  BY <1>1, LiveAtBlockStart
<1> QED
  BY <1>1, <1>4, <1>5

\* A value live after a call that does not open its interval crosses the call.
LEMMA LiveAcrossCrosses ==
    ASSUME RAInv, phase \in {"scan", "rewritten", "run", "done"},
           NEW c \in calls(prog), NEW v \in LiveAfter(prog, live_out, c), input.start[v] < c
    PROVE  v \in input.vregs /\ crossing(v)
<1>1. /\ prog \in Programs /\ c \in Insts(prog) /\ c \in Nat
      /\ prog.block[c] \in Blocks(prog) /\ c \in In(prog, prog.block[c])
  BY IntervalFacts, BlockFacts DEF calls
<1>2. c < prog.last[prog.block[c]] /\ prog.last[prog.block[c]] \in Nat
      /\ prog.first[prog.block[c]] \in Nat
  BY <1>1, InstFacts, BlockFacts
<1>3. c + 1 \in In(prog, prog.block[c]) /\ c + 1 \in Insts(prog) /\ prog.block[c + 1] = prog.block[c]
  <2>1. c + 1 \in In(prog, prog.block[c])
    BY <1>1, <1>2 DEF In
  <2> QED
    BY <1>1, <2>1, BlockFacts
<1>4. v \in LiveAt(prog, live_out, c + 1)
  <2> DEFINE b == prog.block[c]
  <2> SUFFICES ASSUME v \notin virtual_uses(prog, c + 1), v \notin virtual_defs(prog, c + 1)
               PROVE  v \in LiveAfter(prog, live_out, c + 1)
    BY DEF LiveAt
  <2>0. v \in DOMAIN prog.class
    BY DEF LiveAfter
  <2>1. \A k \in In(prog, b) : k \in Nat
    BY <1>1, BlockFacts
  <2>2. CASE \E j \in In(prog, b) : j > c /\ v \in virtual_uses(prog, j)
                                     /\ NoDefBetween(prog, v, c, j)
    <3>1. PICK j \in In(prog, b) : j > c /\ v \in virtual_uses(prog, j)
                                   /\ NoDefBetween(prog, v, c, j)
      BY <2>2
    <3>2. j # c + 1
      BY <3>1
    <3>3. j > c + 1
      BY <1>1, <2>1, <3>1, <3>2
    <3>4. (c + 1) + 1 .. j - 1 \subseteq c + 1 .. j - 1
      BY <1>1, <2>1, <3>1
    <3>5. NoDefBetween(prog, v, c + 1, j)
      BY <3>1, <3>4 DEF NoDefBetween
    <3> QED
      BY <1>3, <2>0, <3>1, <3>3, <3>5 DEF LiveAfter
  <2>3. CASE /\ v \in live_out[b]
             /\ \A k \in In(prog, b) : k > c => v \notin virtual_defs(prog, k)
    <3>1. \A k \in In(prog, b) : k > c + 1 => k > c
      BY <1>1, <2>1
    <3> QED
      BY <1>3, <2>0, <2>3, <3>1 DEF LiveAfter
  <2> QED
    BY <2>2, <2>3 DEF LiveAfter
<1>5. v \in input.vregs /\ c + 1 <= input.end[v] /\ input.end[v] \in Nat
  BY <1>3, <1>4, IntervalFacts
<1>6. c < input.end[v]
  BY <1>1, <1>5
<1> QED
  BY <1>5, <1>6, IntervalFacts

-----------------------------------------------------------------------------
(* Reading operands.                                                       *)

LEMMA AfterScan ==
    ASSUME RAInv, phase \in {"rewritten", "run", "done"}
    PROVE  Allocated
  BY DEF RAInv, ScanInv, Allocated

LEMMA LoadFacts ==
    /\ \A class, val : Load(class, Half(class, val)) = val
    /\ \A class, words : words[1] \in Int => Load(class, words) \in Int
    /\ \A class, val : val \in Int => Half(class, val) \in Int \X Int
  BY DEF Load, Half, Junk

\* The words of a spilled value.
LEMMA SlotFacts ==
    ASSUME Allocated, NEW v \in input.vregs, InSlot(v)
    PROVE  /\ slot_offset(assignments[v].at) \in FrameWords
           /\ is_q(v) => slot_offset(assignments[v].at) + 8 \in FrameWords
           /\ prog.locals <= slot_offset(assignments[v].at)
           /\ slot_offset(assignments[v].at) < stack_size
           /\ is_q(v) => prog.locals <= slot_offset(assignments[v].at) + 8
                         /\ slot_offset(assignments[v].at) + 8 < stack_size
<1> DEFINE s == assignments[v].at
<1>1. s \in Nat /\ prog.locals \in Nat
  BY PlaceFacts, FrameSizes
<1>2. s \in SlotsOf(v) /\ (is_q(v) => s + 1 \in SlotsOf(v))
  BY <1>1 DEF SlotsOf
<1>3. slot_offset(s) = prog.locals + s * 8
  BY DEF slot_offset
<1>4. is_q(v) => slot_offset(s) + 8 = prog.locals + (s + 1) * 8
  BY <1>1, <1>3
<1>5. \A t \in SlotsOf(v) : /\ prog.locals + t * 8 \in FrameWords
                            /\ prog.locals <= prog.locals + t * 8
                            /\ prog.locals + t * 8 < stack_size
  BY SlotPlaces
<1> HIDE DEF s
<1>6. /\ slot_offset(s) \in FrameWords /\ prog.locals <= slot_offset(s)
      /\ slot_offset(s) < stack_size
  BY <1>2, <1>3, <1>5
<1>7. ASSUME is_q(v)
      PROVE  /\ slot_offset(s) + 8 \in FrameWords /\ prog.locals <= slot_offset(s) + 8
             /\ slot_offset(s) + 8 < stack_size
  <2>1. PICK t \in SlotsOf(v) : t = s + 1
    BY <1>2, <1>7
  <2>2. slot_offset(s) + 8 = prog.locals + t * 8
    BY <1>4, <1>7, <2>1
  <2> QED
    BY <1>5, <2>2
<1> QED
  BY <1>6, <1>7 DEF s

\* The constant of a rematerializable value.
LEMMA RematFacts ==
    ASSUME NEW p \in Programs, NEW v, rematerializable(p, v)
    PROVE  \E i \in Insts(p) : /\ remat_defs(p, v) = {i} /\ p.insts[i].op = "mov_imm"
                               /\ remat_imm(p, v) = p.insts[i].imm
                               /\ remat_imm(p, v) \in Nat
<1>1. PICK i \in Insts(p) : remat_defs(p, v) = {i} /\ p.insts[i].op = "mov_imm"
  BY DEF rematerializable
<1>2. (CHOOSE j \in Insts(p) : remat_defs(p, v) = {j}) = i
  BY <1>1
<1>3. remat_imm(p, v) = p.insts[i].imm
  BY <1>2 DEF remat_imm
<1> QED
  BY <1>1, <1>3, InstFacts

LEMMA RestoreType ==
    ASSUME RAInv, phase = "run", NEW v \in input.vregs, InSlot(v)
    PROVE  RestoreValue(v) \in Int
<1>1. Allocated /\ prog \in Programs /\ stack \in [FrameWords -> Int]
  BY AfterScan DEF RAInv, FrameInv, LivenessInv
<1>2. CASE rematerializable(prog, v)
  BY <1>1, <1>2, RematFacts DEF RestoreValue
<1>3. CASE ~rematerializable(prog, v)
  <2>1. SlotWords(v)[1] \in Int
    BY <1>1, SlotFacts DEF SlotWords
  <2> QED
    BY <1>3, <2>1, LoadFacts DEF RestoreValue
<1> QED
  BY <1>2, <1>3

\* The restores before an instruction leave the registers of the pools alone
\* and bring every spilled operand into its register.
LEMMA RestoredFacts ==
    ASSUME RAInv, phase = "run", NEW i \in Insts(prog)
    PROVE  /\ Restored(prog.insts[i]) \in [MachineRegisters -> Int \X Int]
           /\ \A b \in Bank : \A k \in pool(b) :
                 Restored(prog.insts[i])[PhysReg(b, k)] = mreg[PhysReg(b, k)]
           /\ \A k \in DOMAIN prog.insts[i].uses :
                 InSlot(prog.insts[i].uses[k][2]) =>
                     Restored(prog.insts[i])[UseRegister(prog.insts[i], k)]
                         = Half(input.class[prog.insts[i].uses[k][2]],
                                RestoreValue(prog.insts[i].uses[k][2]))
<1> DEFINE inst == prog.insts[i]
           value(k) == Half(input.class[inst.uses[k][2]], RestoreValue(inst.uses[k][2]))
           spilled == {k \in DOMAIN inst.uses : InSlot(inst.uses[k][2])}
           into(r) == {k \in spilled : UseRegister(inst, k) = r}
<1>1. Allocated /\ mreg \in [MachineRegisters -> Int \X Int]
  BY AfterScan DEF RAInv, FrameInv
<1>2. Restored(inst) = [r \in MachineRegisters |->
                           IF into(r) = {} THEN mreg[r] ELSE value(CHOOSE k \in into(r) : TRUE)]
  BY DEF Restored
<1>3. ASSUME NEW k \in spilled PROVE value(k) \in Int \X Int
  <2>1. inst.uses[k][2] \in input.vregs /\ InSlot(inst.uses[k][2])
    BY <1>1, OperandsAllocated
  <2> QED
    BY <2>1, RestoreType, LoadFacts
<1>4. ASSUME NEW k \in spilled PROVE into(UseRegister(inst, k)) = {k}
  BY <1>1, UsesDistinct
<1>5. ASSUME NEW k \in spilled PROVE \E b, j : UseRegister(inst, k) = ScratchReg(b, j)
  BY <1>1, UseFacts
<1>6. \A k \in spilled : UseRegister(inst, k) \in MachineRegisters
  BY <1>1, UseFacts
<1>7. ASSUME NEW b \in Bank, NEW k \in pool(b) PROVE Restored(inst)[PhysReg(b, k)] = mreg[PhysReg(b, k)]
  <2>1. PhysReg(b, k) \in MachineRegisters
    BY MachineFacts
  <2>2. into(PhysReg(b, k)) = {}
    BY <1>5, MachineFacts
  <2> HIDE DEF into, value
  <2> QED
    BY <1>2, <2>1, <2>2
<1>8. ASSUME NEW k \in spilled PROVE Restored(inst)[UseRegister(inst, k)] = value(k)
  <2>1. into(UseRegister(inst, k)) # {} /\ (CHOOSE l \in into(UseRegister(inst, k)) : TRUE) = k
    BY <1>4
  <2> HIDE DEF into, value
  <2>2. Restored(inst)[UseRegister(inst, k)] = value(CHOOSE l \in into(UseRegister(inst, k)) : TRUE)
    BY <1>2, <1>6, <2>1
  <2> QED
    BY <2>1, <2>2
<1>9. Restored(inst) \in [MachineRegisters -> Int \X Int]
  <2>1. \A r : into(r) \subseteq spilled
    OBVIOUS
  <2> HIDE DEF into, value, spilled
  <2>2. ASSUME NEW r \in MachineRegisters
        PROVE  (IF into(r) = {} THEN mreg[r] ELSE value(CHOOSE k \in into(r) : TRUE)) \in Int \X Int
    <3>1. CASE into(r) = {}
      BY <1>1, <3>1
    <3>2. CASE into(r) # {}
      <4>1. PICK k \in into(r) : k = (CHOOSE l \in into(r) : TRUE)
        BY <3>2
      <4>2. value(k) \in Int \X Int
        BY <1>3, <2>1, <4>1
      <4> QED
        BY <3>2, <4>1, <4>2
    <3> QED
      BY <3>1, <3>2
  <2> QED
    BY <1>2, <2>2
<1> QED
  BY <1>7, <1>8, <1>9

\* An operand whose location holds its value reads it.
LEMMA ReadsHeld ==
    ASSUME RAInv, phase = "run", NEW i \in Insts(prog), NEW k \in DOMAIN prog.insts[i].uses,
           Held(prog.insts[i].uses[k][2])
    PROVE  ReadOperand(prog.insts[i], k) = vval[prog.insts[i].uses[k][2]]
<1> DEFINE inst == prog.insts[i]
           v == inst.uses[k][2]
<1>1. Allocated
  BY AfterScan
<1>2. v \in input.vregs
  BY <1>1, OperandsAllocated
<1>3. ReadOperand(inst, k) = Load(input.class[v], Restored(inst)[UseRegister(inst, k)])
  BY DEF ReadOperand
<1>4. CASE InReg(v)
  <2>1. UseRegister(inst, k) = PhysReg(bankOf(v), assignments[v].at)
    BY <1>1, <1>4, UseFacts
  <2>2. Restored(inst)[PhysReg(bankOf(v), assignments[v].at)] = mreg[PhysReg(bankOf(v), assignments[v].at)]
    BY <1>1, <1>2, <1>4, PlaceFacts, RestoredFacts, Zenon
  <2> QED
    BY <1>3, <1>4, <2>1, <2>2, Zenon DEF Held
<1>5. CASE InSlot(v)
  <2>1. Restored(inst)[UseRegister(inst, k)] = Half(input.class[v], RestoreValue(v))
    BY <1>5, RestoredFacts
  <2>2. ~InReg(v)
    BY <1>1, <1>2, <1>5, PlaceFacts
  <2> QED
    BY <1>3, <2>1, <2>2, LoadFacts DEF Held
<1> QED
  BY <1>1, <1>2, <1>4, <1>5, PlaceFacts

-----------------------------------------------------------------------------
(* The caller's registers.                                                 *)

\* A step that touches only the execution keeps the allocation.
LEMMA AllocationStays ==
    ASSUME Allocated, UNCHANGED <<vars, prog, liveness>>,
           phase' \in {"rewritten", "run", "done"}
    PROVE  LivenessInv' /\ IntervalsInv' /\ ScanInv'
<1>1. /\ LivenessInv /\ IntervalsInv /\ IInv /\ PoolInv /\ todo = {}
      /\ input = InputOf(prog, points, executed)
      /\ phase \in {"scan", "rewritten", "run", "done"}
  BY DEF Allocated, RAInv, ScanInv
<1>2. /\ prog' = prog /\ points' = points /\ executed' = executed /\ live_in' = live_in
      /\ live_out' = live_out /\ changed' = changed /\ index' = index
      /\ todo' = todo /\ input' = input /\ assignments' = assignments /\ free' = free
      /\ saved_regs' = saved_regs
  BY DEF liveness, vars
<1>3. LivenessInv'
  <2>1. index' \in Nat
    BY <1>1, <1>2 DEF LivenessInv
  <2> QED
    BY <1>1, <1>2, <2>1, LivenessStays
<1>4. IntervalsInv'
  <2>1. \A j \in Insts(prog) : Covered(j)
    BY <1>1 DEF IntervalsInv
  <2>2. \A j \in Insts(prog) : Covered(j)'
    BY <1>2, <2>1 DEF Covered
  <2> QED
    BY <1>1, <1>2, <2>2 DEF IntervalsInv, Vregs
<1>5. IInv'
  BY <1>1, NextIInv
<1>6. PoolInv'
  BY <1>1, <1>2 DEF PoolInv, InReg, bankOf
<1> QED
  BY <1>1, <1>2, <1>3, <1>4, <1>5, <1>6 DEF ScanInv

\* The frame does not move.
LEMMA FrameStays ==
    ASSUME UNCHANGED <<vars, prog>>
    PROVE  /\ FrameWords' = FrameWords
           /\ \A r : save_slot(r)' = save_slot(r)
           /\ \A v : slot_offset(v)' = slot_offset(v)
  BY DEF FrameWords, frame_bytes, stack_size, save_slot, SavedBefore, slot_offset, vars

\* The registers of the pools and the scratch registers are all there are.
LEMMA RegisterCases ==
    ASSUME NEW r \in MachineRegisters
    PROVE  \/ /\ r[2] = "pool" /\ r[1] \in Bank /\ r[3] \in pool(r[1])
              /\ r = PhysReg(r[1], r[3])
           \/ r[2] # "pool" /\ \E b \in Bank : \E k \in 0 .. SCRATCH - 1 : r = ScratchReg(b, k)
<1>1. PICK b \in Bank : r \in RegistersOf(b)
  BY DEF MachineRegisters, Bank
<1>2. CASE \E k \in pool(b) : r = PhysReg(b, k)
  BY <1>2 DEF PhysReg
<1>3. CASE \E k \in 0 .. SCRATCH - 1 : r = ScratchReg(b, k)
  BY <1>3 DEF ScratchReg
<1> QED
  BY <1>1, <1>2, <1>3 DEF RegistersOf

LEMMA CallersType ==
    ASSUME NEW b, NEW k \in Nat
    PROVE  CallersOf(b, k) \in Int
  BY DEF CallersOf

LEMMA PoolsAreNumbers ==
    \A b \in Bank : pool(b) \subseteq Nat
  BY PoolsAssumption DEF pool, pool_size

LEMMA WordsAreNumbers ==
    ASSUME Allocated
    PROVE  FrameWords \subseteq Nat
<1>1. PICK n \in Nat : frame_bytes = 16 * n
  BY FrameSizes
<1>2. (16 * n) \div 8 = 2 * n
  OBVIOUS
<1> QED
  BY <1>1, <1>2 DEF FrameWords

\* The registers of the save area are the saved ones.
LEMMA SavedFacts ==
    ASSUME Allocated, NEW r \in saved_regs
    PROVE  /\ r[1] \in Bank /\ r[2] \in pool(r[1]) /\ r[2] \in Nat
           /\ r = <<r[1], r[2]>> /\ is_callee_saved_index(r[1], r[2])
<1>1. saved_regs \subseteq Bank \X Nat /\ PoolInv
  BY IntervalFacts DEF Allocated, IInv, TypeOK
<1> QED
  BY <1>1 DEF PoolInv

LEMMA PrologueFrame ==
    ASSUME RAInv, Prologue
    PROVE  FrameInv'
<1>1. /\ Allocated /\ phase = "rewritten" /\ phase' = "run" /\ UNCHANGED <<vars, prog>>
      /\ prog' = prog /\ saved_regs' = saved_regs /\ prog \in Programs
      /\ pc' = 1 /\ vval' = [v \in Vregs |-> Junk]
  BY AfterScan DEF Prologue, RAInv, Phases, vars, LivenessInv
<1>2. pc' \in Insts(prog') /\ vval' \in [Vregs -> Int] /\ Vregs' = Vregs
  BY <1>1, ProgramFacts DEF Junk, Vregs
<1>3. /\ mreg' = [r \in MachineRegisters |->
                    IF r[2] = "pool" /\ is_callee_saved_index(r[1], r[3])
                    THEN <<CallersOf(r[1], r[3]), Junk>> ELSE <<Junk, Junk>>]
      /\ stack' = [o \in FrameWords |->
                    IF \E r \in saved_regs : save_slot(r) = o
                    THEN CallersOf((CHOOSE r \in saved_regs : save_slot(r) = o)[1],
                                   (CHOOSE r \in saved_regs : save_slot(r) = o)[2])
                    ELSE IF o < prog.locals THEN Local ELSE Junk]
  BY DEF Prologue
<1>4. mreg' \in [MachineRegisters -> Int \X Int]
  <2>1. ASSUME NEW r \in MachineRegisters, r[2] = "pool" PROVE CallersOf(r[1], r[3]) \in Int
    <3>1. r[1] \in Bank /\ r[3] \in pool(r[1])
      BY <2>1, RegisterCases
    <3> QED
      BY <3>1, PoolsAreNumbers, CallersType
  <2>2. Junk \in Int
    BY DEF Junk
  <2> QED
    BY <1>3, <2>1, <2>2
<1>5. ASSUME NEW b \in Bank, NEW k \in pool(b), is_callee_saved_index(b, k)
      PROVE  mreg'[PhysReg(b, k)][1] = CallersOf(b, k)
  <2>1. PhysReg(b, k) \in MachineRegisters
    BY MachineFacts
  <2>2. PhysReg(b, k)[2] = "pool" /\ PhysReg(b, k)[1] = b /\ PhysReg(b, k)[3] = k
    BY DEF PhysReg
  <2> QED
    BY <1>3, <1>5, <2>1, <2>2
<1>6. ASSUME NEW r \in saved_regs PROVE stack'[save_slot(r)] = CallersOf(r[1], r[2])
  <2>1. save_slot(r) \in FrameWords
    BY <1>1, SavePlaces
  <2>2. (CHOOSE s \in saved_regs : save_slot(s) = save_slot(r)) = r
    BY <1>1, SavesApart
  <2> QED
    BY <1>3, <2>1, <2>2
<1>7. ASSUME NEW o \in FrameWords, o < prog.locals PROVE stack'[o] = Local
  <2>1. o \in Nat /\ prog.locals \in Nat /\ stack_size \in Nat /\ prog.locals <= stack_size
    <3>1. PICK n \in Nat : n = spill_slots
      BY <1>1, FrameSizes
    <3> QED
      BY <1>1, <3>1, FrameSizes, WordsAreNumbers
  <2>2. \A r \in saved_regs : save_slot(r) \in Nat /\ stack_size <= save_slot(r)
    BY <1>1, SavePlaces
  <2>3. ~ \E r \in saved_regs : save_slot(r) = o
    BY <1>7, <2>1, <2>2
  <2> QED
    BY <1>3, <1>7, <2>3
<1>8. stack' \in [FrameWords -> Int]
  <2> SUFFICES ASSUME NEW o \in FrameWords PROVE stack'[o] \in Int
    BY <1>3
  <2>1. CASE \E r \in saved_regs : save_slot(r) = o
    <3>1. PICK r \in saved_regs : save_slot(r) = o
      BY <2>1
    <3>2. CallersOf(r[1], r[2]) \in Int
      BY <1>1, SavedFacts, CallersType
    <3> QED
      BY <1>6, <3>1, <3>2
  <2>2. CASE ~ \E r \in saved_regs : save_slot(r) = o
    BY <1>3, <2>2 DEF Local, Junk
  <2> QED
    BY <2>1, <2>2
<1>9. FrameWords' = FrameWords /\ \A r : save_slot(r)' = save_slot(r)
  BY <1>1, FrameStays
<1> QED
  BY <1>1, <1>2, <1>4, <1>5, <1>6, <1>7, <1>8, <1>9 DEF FrameInv

LEMMA EpilogueFrame ==
    ASSUME RAInv, Epilogue
    PROVE  FrameInv'
<1>1. /\ Allocated /\ FrameInv /\ phase = "run" /\ phase' = "done" /\ UNCHANGED <<vars, prog>>
      /\ prog' = prog /\ saved_regs' = saved_regs
      /\ pc' = pc /\ vval' = vval /\ stack' = stack
      /\ mreg' = [r \in MachineRegisters |->
                    IF r[2] = "pool" /\ <<r[1], r[3]>> \in saved_regs
                    THEN <<stack[save_slot(<<r[1], r[3]>>)], Junk>> ELSE mreg[r]]
  BY AfterScan DEF Epilogue, RAInv, vars
<1>2. FrameWords' = FrameWords /\ \A r : save_slot(r)' = save_slot(r)
  BY <1>1, FrameStays
<1>3. /\ stack \in [FrameWords -> Int] /\ mreg \in [MachineRegisters -> Int \X Int]
      /\ \A r \in saved_regs : stack[save_slot(r)] = CallersOf(r[1], r[2])
  BY <1>1 DEF FrameInv
<1>4. mreg' \in [MachineRegisters -> Int \X Int]
  <2>1. \A r \in saved_regs : stack[save_slot(r)] \in Int
    BY <1>1, <1>3, SavePlaces
  <2>2. Junk \in Int
    BY DEF Junk
  <2> QED
    BY <1>1, <1>3, <2>1, <2>2
<1>5. ASSUME NEW b \in Bank, NEW k \in pool(b), is_callee_saved_index(b, k)
      PROVE  mreg'[PhysReg(b, k)][1] = CallersOf(b, k)
  <2>1. PhysReg(b, k) \in MachineRegisters
    BY MachineFacts
  <2>2. PhysReg(b, k)[2] = "pool" /\ PhysReg(b, k)[1] = b /\ PhysReg(b, k)[3] = k
    BY DEF PhysReg
  <2>3. mreg'[PhysReg(b, k)] = IF <<b, k>> \in saved_regs
                               THEN <<stack[save_slot(<<b, k>>)], Junk>> ELSE mreg[PhysReg(b, k)]
    BY <1>1, <2>1, <2>2
  <2>4. CASE <<b, k>> \in saved_regs
    BY <1>3, <2>3, <2>4
  <2>5. CASE <<b, k>> \notin saved_regs
    BY <1>1, <1>5, <2>3, <2>5 DEF FrameInv
  <2> QED
    BY <2>4, <2>5
<1>6. pc \in Insts(prog) \cup {0} /\ vval \in [Vregs -> Int] /\ Vregs' = Vregs
  BY <1>1 DEF FrameInv, Vregs
<1>7. \A o \in FrameWords : o < prog.locals => stack[o] = Local
  BY <1>1 DEF FrameInv
<1> QED
  BY <1>1, <1>2, <1>3, <1>4, <1>5, <1>6, <1>7 DEF FrameInv

-----------------------------------------------------------------------------
(* One instruction.                                                        *)

\* The effect of an instruction that defines nothing.
PlainEffect(inst) ==
    /\ mreg' = IF inst.op = "call" THEN Clobbered(Restored(inst)) ELSE Restored(inst)
    /\ UNCHANGED <<vval, stack>>

\* The effect of an instruction that defines d.
DefEffect(inst, d, val) ==
    /\ vval' = [vval EXCEPT ![d] = val]
    /\ mreg' = [Restored(inst) EXCEPT ![DefRegister(inst)] = Half(input.class[d], val)]
    /\ stack' = IF InSlot(d) THEN Spilled(d, val) ELSE stack

LEMMA ExecuteFacts ==
    ASSUME RAInv, Execute
    PROVE  /\ Allocated /\ FrameInv /\ phase = "run" /\ phase' = "run" /\ prog \in Programs
           /\ UNCHANGED <<vars, prog, liveness>>
           /\ pc \in Insts(prog) /\ pc' \in Following(pc)
           /\ \/ prog.insts[pc].defs = <<>> /\ PlainEffect(prog.insts[pc])
              \/ /\ prog.insts[pc].defs # <<>>
                 /\ \E val \in Results(prog.insts[pc]) :
                       val \in Int /\ DefEffect(prog.insts[pc], prog.insts[pc].defs[1][2], val)
<1>1. /\ Allocated /\ FrameInv /\ phase = "run" /\ phase' = "run" /\ prog \in Programs
      /\ UNCHANGED <<vars, prog, liveness>>
  BY AfterScan DEF Execute, RAInv, LivenessInv
<1>2. pc \in Insts(prog)
  BY <1>1 DEF Execute, FrameInv
<1> DEFINE inst == prog.insts[pc]
<1>3. PICK val \in Results(inst), next \in Following(pc) :
        /\ pc' = next
        /\ IF inst.defs = <<>>
           THEN /\ mreg' = IF inst.op = "call" THEN Clobbered(Restored(inst)) ELSE Restored(inst)
                /\ UNCHANGED <<vval, stack>>
           ELSE DefEffect(inst, inst.defs[1][2], val)
  BY DEF Execute, DefEffect
<1>4. val \in Int
  <2>1. prog.insts[pc].imm \in Nat
    BY <1>1, <1>2, InstFacts
  <2>2. val \in {prog.insts[pc].imm} \/ val \in Values
    BY DEF Results
  <2>3. val \in Nat
    BY <2>1, <2>2, ComputedValues, Zenon
  <2> QED
    BY <2>3
<1> QED
  BY <1>1, <1>2, <1>3, <1>4 DEF PlainEffect

\* A call keeps the low half of the callee-saved registers.
LEMMA ClobberedFacts ==
    ASSUME NEW regs \in [MachineRegisters -> Int \X Int]
    PROVE  /\ Clobbered(regs) \in [MachineRegisters -> Int \X Int]
           /\ \A b \in Bank : \A k \in pool(b) : is_callee_saved_index(b, k) =>
                 /\ Clobbered(regs)[PhysReg(b, k)][1] = regs[PhysReg(b, k)][1]
                 /\ b = "Gpr" => Clobbered(regs)[PhysReg(b, k)] = regs[PhysReg(b, k)]
<1>1. Junk \in Int
  BY DEF Junk
<1>2. Clobbered(regs) \in [MachineRegisters -> Int \X Int]
  BY <1>1 DEF Clobbered
<1>3. ASSUME NEW b \in Bank, NEW k \in pool(b), is_callee_saved_index(b, k)
      PROVE  /\ Clobbered(regs)[PhysReg(b, k)][1] = regs[PhysReg(b, k)][1]
             /\ b = "Gpr" => Clobbered(regs)[PhysReg(b, k)] = regs[PhysReg(b, k)]
  <2>1. PhysReg(b, k) \in MachineRegisters /\ regs[PhysReg(b, k)] \in Int \X Int
    BY MachineFacts
  <2>2. PhysReg(b, k)[2] = "pool" /\ PhysReg(b, k)[1] = b /\ PhysReg(b, k)[3] = k
    BY DEF PhysReg
  <2>3. Clobbered(regs)[PhysReg(b, k)] =
          <<regs[PhysReg(b, k)][1], IF b = "Gpr" THEN regs[PhysReg(b, k)][2] ELSE Junk>>
    BY <1>3, <2>1, <2>2 DEF Clobbered
  <2> QED
    BY <2>1, <2>3
<1> QED
  BY <1>2, <1>3

\* A definition writes the register of d, or a scratch register and its slot.
LEMMA DefEffectFacts ==
    ASSUME RAInv, phase = "run", pc \in Insts(prog), prog.insts[pc].defs # <<>>,
           NEW d, d = prog.insts[pc].defs[1][2], NEW val \in Int,
           DefEffect(prog.insts[pc], d, val)
    PROVE  /\ d \in input.vregs /\ virtual_defs(prog, pc) = {d}
           /\ vval' \in [Vregs -> Int] /\ vval'[d] = val
           /\ \A v \in Vregs : v # d => vval'[v] = vval[v]
           /\ mreg' \in [MachineRegisters -> Int \X Int]
           /\ \A b \in Bank : \A k \in pool(b) :
                 \/ mreg'[PhysReg(b, k)] = mreg[PhysReg(b, k)]
                 \/ InReg(d) /\ b = bankOf(d) /\ k = assignments[d].at
           /\ InReg(d) => mreg'[PhysReg(bankOf(d), assignments[d].at)] = Half(input.class[d], val)
           /\ InReg(d) => stack' = stack
           /\ InSlot(d) => stack' = Spilled(d, val)
<1> DEFINE inst == prog.insts[pc]
           r == DefRegister(inst)
<1>0. Allocated /\ FrameInv /\ input.vregs \subseteq Vregs
  BY AfterScan, IntervalFacts DEF RAInv
<1>1. /\ d \in input.vregs /\ virtual_defs(prog, pc) = {d} /\ r \in MachineRegisters
      /\ InReg(d) => r = PhysReg(bankOf(d), assignments[d].at)
      /\ InSlot(d) => \E b, j : r = ScratchReg(b, j)
  BY <1>0, DefFacts
<1>2. InReg(d) <=> ~InSlot(d)
  BY <1>0, <1>1, PlaceFacts
<1>3. /\ vval' \in [Vregs -> Int] /\ vval'[d] = val
      /\ \A v \in Vregs : v # d => vval'[v] = vval[v]
  BY <1>0, <1>1 DEF DefEffect, FrameInv
<1>4. Restored(inst) \in [MachineRegisters -> Int \X Int]
  BY RestoredFacts
<1>5. Half(input.class[d], val) \in Int \X Int
  BY LoadFacts
<1>6. mreg' = [Restored(inst) EXCEPT ![r] = Half(input.class[d], val)]
  BY DEF DefEffect
<1>a. \A b \in Bank : \A k \in pool(b) : Restored(inst)[PhysReg(b, k)] = mreg[PhysReg(b, k)]
  BY RestoredFacts
<1> HIDE DEF r, inst
<1>7. /\ mreg' \in [MachineRegisters -> Int \X Int] /\ mreg'[r] = Half(input.class[d], val)
      /\ \A q \in MachineRegisters : q # r => mreg'[q] = Restored(inst)[q]
  BY <1>1, <1>4, <1>5, <1>6, Zenon
<1>8. ASSUME NEW b \in Bank, NEW k \in pool(b)
      PROVE  \/ mreg'[PhysReg(b, k)] = mreg[PhysReg(b, k)]
             \/ InReg(d) /\ b = bankOf(d) /\ k = assignments[d].at
  <2>1. PhysReg(b, k) \in MachineRegisters
    BY MachineFacts
  <2>2. CASE PhysReg(b, k) # r
    BY <1>7, <1>a, <2>1, <2>2
  <2>3. CASE PhysReg(b, k) = r
    BY <1>1, <1>2, <2>3, MachineFacts
  <2> QED
    BY <2>2, <2>3
<1>9. (InReg(d) => stack' = stack) /\ (InSlot(d) => stack' = Spilled(d, val))
  BY <1>2 DEF DefEffect
<1> QED
  BY <1>1, <1>3, <1>7, <1>8, <1>9, Zenon

\* The store of a spilled value touches its slots alone.
LEMMA SpilledFacts ==
    ASSUME Allocated, stack \in [FrameWords -> Int], NEW d \in input.vregs, InSlot(d), NEW val \in Int
    PROVE  /\ Spilled(d, val) \in [FrameWords -> Int]
           /\ Spilled(d, val)[slot_offset(assignments[d].at)] = val
           /\ is_q(d) => Spilled(d, val)[slot_offset(assignments[d].at) + 8] = val
           /\ \A o \in FrameWords :
                 \/ Spilled(d, val)[o] = stack[o]
                 \/ o = slot_offset(assignments[d].at)
                 \/ is_q(d) /\ o = slot_offset(assignments[d].at) + 8
<1> DEFINE at == slot_offset(assignments[d].at)
<1>1. at \in FrameWords /\ (is_q(d) => at + 8 \in FrameWords)
  BY SlotFacts
<1>2. Spilled(d, val) = [o \in FrameWords |->
                            IF o = at \/ (is_q(d) /\ o = at + 8) THEN val ELSE stack[o]]
  BY DEF Spilled
<1> HIDE DEF at
<1>3. /\ Spilled(d, val) \in [FrameWords -> Int] /\ Spilled(d, val)[at] = val
      /\ is_q(d) => Spilled(d, val)[at + 8] = val
      /\ \A o \in FrameWords :
            Spilled(d, val)[o] = stack[o] \/ o = at \/ (is_q(d) /\ o = at + 8)
  BY <1>1, <1>2
<1> QED
  BY <1>3 DEF at

\* The slot of a spilled value holds neither locals nor saved registers.
LEMMA SpilledKeeps ==
    ASSUME Allocated, stack \in [FrameWords -> Int], NEW d \in input.vregs, InSlot(d), NEW val \in Int
    PROVE  /\ \A r \in saved_regs : Spilled(d, val)[save_slot(r)] = stack[save_slot(r)]
           /\ \A o \in FrameWords : o < prog.locals => Spilled(d, val)[o] = stack[o]
<1> DEFINE at == slot_offset(assignments[d].at)
<1>1. /\ at \in FrameWords /\ prog.locals <= at /\ at < stack_size
      /\ is_q(d) => prog.locals <= at + 8 /\ at + 8 < stack_size
  BY SlotFacts
<1>2. FrameWords \subseteq Nat /\ stack_size \in Nat /\ prog.locals \in Nat
  BY WordsAreNumbers, FrameSizes
<1>3. \A r \in saved_regs :
         save_slot(r) \in FrameWords /\ save_slot(r) \in Nat /\ stack_size <= save_slot(r)
  BY SavePlaces
<1>4. \A o \in FrameWords :
         Spilled(d, val)[o] = stack[o] \/ o = at \/ (is_q(d) /\ o = at + 8)
  BY SpilledFacts
<1> HIDE DEF at
<1>5. ASSUME NEW r \in saved_regs PROVE Spilled(d, val)[save_slot(r)] = stack[save_slot(r)]
  BY <1>1, <1>2, <1>3, <1>4
<1>6. ASSUME NEW o \in FrameWords, o < prog.locals PROVE Spilled(d, val)[o] = stack[o]
  BY <1>1, <1>2, <1>4, <1>6
<1> QED
  BY <1>5, <1>6

LEMMA ExecuteFrame ==
    ASSUME RAInv, Execute
    PROVE  FrameInv'
<1>1. /\ Allocated /\ FrameInv /\ phase = "run" /\ phase' = "run" /\ prog \in Programs
      /\ UNCHANGED <<vars, prog>> /\ prog' = prog /\ saved_regs' = saved_regs
      /\ pc \in Insts(prog) /\ pc' \in Following(pc) /\ IInv
  BY ExecuteFacts, IntervalFacts DEF vars, Allocated
<1>2. pc' \in Insts(prog) \cup {0}
  <2>1. CASE pc' = 0
    BY <2>1
  <2>2. CASE pc' # 0
    BY <1>1, <2>2, LiveFlows DEF Allocated
  <2> QED
    BY <2>1, <2>2
<1>3. /\ vval \in [Vregs -> Int] /\ stack \in [FrameWords -> Int]
      /\ \A b \in Bank : \A k \in pool(b) :
            is_callee_saved_index(b, k) /\ <<b, k>> \notin saved_regs =>
                mreg[PhysReg(b, k)][1] = CallersOf(b, k)
      /\ \A r \in saved_regs : stack[save_slot(r)] = CallersOf(r[1], r[2])
      /\ \A o \in FrameWords : o < prog.locals => stack[o] = Local
  BY <1>1 DEF FrameInv
<1> DEFINE Kept == /\ vval' \in [Vregs -> Int] /\ stack' \in [FrameWords -> Int]
                   /\ mreg' \in [MachineRegisters -> Int \X Int]
                   /\ \A b \in Bank : \A k \in pool(b) :
                         is_callee_saved_index(b, k) /\ <<b, k>> \notin saved_regs =>
                             mreg'[PhysReg(b, k)][1] = mreg[PhysReg(b, k)][1]
                   /\ \A r \in saved_regs : stack'[save_slot(r)] = stack[save_slot(r)]
                   /\ \A o \in FrameWords : o < prog.locals => stack'[o] = stack[o]
<1>4. ASSUME PlainEffect(prog.insts[pc]) PROVE Kept
  <2>1. stack' = stack /\ vval' = vval
    BY <1>4 DEF PlainEffect
  <2>2. /\ Restored(prog.insts[pc]) \in [MachineRegisters -> Int \X Int]
        /\ \A b \in Bank : \A k \in pool(b) :
              Restored(prog.insts[pc])[PhysReg(b, k)] = mreg[PhysReg(b, k)]
    BY <1>1, RestoredFacts
  <2>3. CASE prog.insts[pc].op = "call"
    <3>1. mreg' = Clobbered(Restored(prog.insts[pc]))
      BY <1>4, <2>3 DEF PlainEffect
    <3> QED
      BY <1>3, <2>1, <2>2, <3>1, ClobberedFacts
  <2>4. CASE prog.insts[pc].op # "call"
    <3>1. mreg' = Restored(prog.insts[pc])
      BY <1>4, <2>4 DEF PlainEffect
    <3> QED
      BY <1>3, <2>1, <2>2, <3>1
  <2> QED
    BY <2>3, <2>4
<1>5. ASSUME prog.insts[pc].defs # <<>>, NEW val \in Int,
             DefEffect(prog.insts[pc], prog.insts[pc].defs[1][2], val)
      PROVE  Kept
  <2>1. PICK d : d = prog.insts[pc].defs[1][2]
    OBVIOUS
  <2>2. /\ d \in input.vregs /\ vval' \in [Vregs -> Int]
        /\ mreg' \in [MachineRegisters -> Int \X Int]
        /\ \A b \in Bank : \A k \in pool(b) :
              \/ mreg'[PhysReg(b, k)] = mreg[PhysReg(b, k)]
              \/ InReg(d) /\ b = bankOf(d) /\ k = assignments[d].at
        /\ InReg(d) => stack' = stack
        /\ InSlot(d) => stack' = Spilled(d, val)
    BY <1>1, <1>5, <2>1, DefEffectFacts
  <2>3. InReg(d) /\ is_callee_saved_index(bankOf(d), assignments[d].at) =>
           <<bankOf(d), assignments[d].at>> \in saved_regs
    BY <1>1, <2>2 DEF IInv, CallsPreserveRegisters
  <2>4. \A b \in Bank : \A k \in pool(b) :
           is_callee_saved_index(b, k) /\ <<b, k>> \notin saved_regs =>
               mreg'[PhysReg(b, k)][1] = mreg[PhysReg(b, k)][1]
    BY <2>2, <2>3
  <2>5. CASE InReg(d)
    BY <1>3, <2>2, <2>4, <2>5
  <2>6. CASE InSlot(d)
    BY <1>1, <1>3, <2>2, <2>4, <2>6, SpilledFacts, SpilledKeeps
  <2> QED
    BY <1>1, <2>2, <2>5, <2>6, PlaceFacts
<1>6. Kept
  BY <1>4, <1>5, ExecuteFacts
<1>7. FrameWords' = FrameWords /\ (\A r : save_slot(r)' = save_slot(r)) /\ Vregs' = Vregs
  BY <1>1, FrameStays DEF Vregs
<1> QED
  BY <1>1, <1>2, <1>3, <1>6, <1>7 DEF FrameInv

-----------------------------------------------------------------------------
(* The invariant of the allocation.                                        *)

LEMMA InitRAInv == AllocateInit => RAInv
<1> SUFFICES ASSUME AllocateInit PROVE RAInv
  OBVIOUS
<1>1. /\ prog \in Programs /\ phase = "liveness" /\ index = Len(prog.succs)
      /\ live_in = [b \in Blocks(prog) |-> {}] /\ live_out = [b \in Blocks(prog) |-> {}]
      /\ changed = FALSE /\ points = <<>> /\ executed = [v \in Vregs |-> 0]
      /\ pc = 1 /\ vval = [v \in Vregs |-> Junk]
  BY DEF AllocateInit, Vregs
<1>2. Blocks(prog) = 1 .. Len(prog.succs) /\ Len(prog.succs) \in Nat
  BY <1>1, ProgramFacts
<1>3. LivenessInv
  <2>1. \A b \in Blocks(prog) : live_in[b] = {} /\ ~(b > index)
    BY <1>1, <1>2
  <2>2. /\ live_in \in [Blocks(prog) -> SUBSET Vregs]
        /\ live_out \in [Blocks(prog) -> SUBSET Vregs]
    BY <1>1
  <2>3. \A defined : \A b \in Blocks(prog) : live_in[b] \subseteq defined[b]
    BY <2>1
  <2>4. index \in Nat /\ index <= Len(prog.succs)
    BY <1>1, <1>2
  <2> QED
    BY <1>1, <2>1, <2>2, <2>3, <2>4 DEF LivenessInv
<1>4. IntervalsInv
  BY <1>1 DEF IntervalsInv
<1> QED
  BY <1>1, <1>3, <1>4 DEF RAInv, ScanInv, Phases, FrameInv

LEMMA NextRAInv == RAInv /\ [AllocateNext]_<<vars, mvars>> => RAInv'
<1> SUFFICES ASSUME RAInv, [AllocateNext]_<<vars, mvars>> PROVE RAInv'
  OBVIOUS
<1>0. LivenessInv /\ IntervalsInv /\ ScanInv /\ Phases /\ FrameInv
  BY DEF RAInv
<1>1. CASE BlockLiveness
  <2>1. /\ phase = "liveness" /\ phase' = "liveness" /\ prog' = prog /\ pc' = pc /\ vval' = vval
        /\ points' = points /\ executed' = executed
    BY <1>1 DEF BlockLiveness, machine
  <2>2. LivenessInv'
    BY <1>1, BlockLivenessStep
  <2>3. IntervalsInv'
    BY <1>0, <2>1 DEF IntervalsInv, Vregs
  <2> QED
    BY <1>0, <2>1, <2>2, <2>3 DEF RAInv, ScanInv, Phases, FrameInv, Vregs
<1>2. CASE RoundEnds
  <2>1. /\ phase = "liveness" /\ phase' \in {"liveness", "intervals"} /\ prog' = prog
        /\ pc' = pc /\ vval' = vval /\ points' = points /\ executed' = executed
        /\ phase' = "intervals" => index' = 1
    BY <1>2 DEF RoundEnds, machine
  <2>2. LivenessInv'
    BY <1>2, RoundEndsStep
  <2>3. \A j \in Insts(prog) : ~(j < 1)
    BY <1>0, ProgramFacts DEF LivenessInv
  <2>4. IntervalsInv'
    BY <1>0, <2>1, <2>3 DEF IntervalsInv, Vregs
  <2> QED
    BY <1>0, <2>1, <2>2, <2>4 DEF RAInv, ScanInv, Phases, FrameInv, Vregs
<1>3. CASE TakePoints
  <2>1. /\ phase = "intervals" /\ phase' = "intervals" /\ prog' = prog
        /\ pc' = pc /\ vval' = vval
    BY <1>3 DEF TakePoints, machine
  <2>2. LivenessInv' /\ IntervalsInv'
    BY <1>3, TakePointsStep
  <2> QED
    BY <1>0, <2>1, <2>2 DEF RAInv, ScanInv, Phases, FrameInv, Vregs
<1>4. CASE BeginScan
  <2>1. /\ phase = "intervals" /\ phase' = "scan" /\ prog' = prog /\ pc' = pc /\ vval' = vval
    BY <1>4 DEF BeginScan, machine
  <2>2. LivenessInv' /\ IntervalsInv' /\ ScanInv'
    BY <1>4, BeginScanStep
  <2> QED
    BY <1>0, <2>1, <2>2 DEF RAInv, Phases, FrameInv, Vregs
<1>5. CASE Scan
  <2>1. /\ phase = "scan" /\ phase' = "scan" /\ prog' = prog /\ pc' = pc /\ vval' = vval
        /\ live_in' = live_in /\ live_out' = live_out /\ changed' = changed /\ index' = index
        /\ points' = points /\ executed' = executed
    BY <1>5 DEF Scan, mvars, machine, liveness
  <2>2. ScanInv'
    BY <1>5, ScanStep
  <2>3. LivenessInv'
    <3>1. index' \in Nat
      BY <1>0, <2>1 DEF LivenessInv
    <3> QED
      BY <1>0, <2>1, <3>1, LivenessStays
  <2>4. IntervalsInv'
    <3>1. \A j \in Insts(prog) : Covered(j)
      BY <1>0, <2>1 DEF IntervalsInv
    <3>2. \A j \in Insts(prog) : Covered(j)'
      BY <2>1, <3>1 DEF Covered
    <3> QED
      BY <1>0, <2>1, <3>2 DEF IntervalsInv, Vregs
  <2> QED
    BY <1>0, <2>1, <2>2, <2>3, <2>4 DEF RAInv, Phases, FrameInv, Vregs
<1>6. CASE Rewrite
  <2>1. Allocated
    BY <1>6 DEF Allocated, Rewrite
  <2>2. \A i \in Insts(prog) : ScratchSuffices(prog.insts[i])
    BY <2>1, RewriteSuffices
  <2>3. /\ phase = "scan" /\ phase' = "rewritten" /\ UNCHANGED <<vars, prog, liveness>>
        /\ prog' = prog /\ pc' = pc /\ vval' = vval
    BY <1>6, <2>2 DEF Rewrite, machine
  <2>4. LivenessInv' /\ IntervalsInv' /\ ScanInv'
    BY <2>1, <2>3, AllocationStays
  <2> QED
    BY <1>0, <2>3, <2>4 DEF RAInv, Phases, FrameInv, Vregs
<1>7. CASE Prologue
  <2>1. /\ phase = "rewritten" /\ phase' = "run" /\ UNCHANGED <<vars, prog, liveness>>
    BY <1>7 DEF Prologue
  <2>2. LivenessInv' /\ IntervalsInv' /\ ScanInv'
    BY <2>1, AfterScan, AllocationStays
  <2> QED
    BY <1>7, <2>1, <2>2, PrologueFrame DEF RAInv, Phases
<1>8. CASE Execute
  <2>1. /\ phase = "run" /\ phase' = "run" /\ UNCHANGED <<vars, prog, liveness>>
    BY <1>8 DEF Execute
  <2>2. LivenessInv' /\ IntervalsInv' /\ ScanInv'
    BY <2>1, AfterScan, AllocationStays
  <2> QED
    BY <1>8, <2>1, <2>2, ExecuteFrame DEF RAInv, Phases
<1>9. CASE Epilogue
  <2>1. /\ phase = "run" /\ phase' = "done" /\ UNCHANGED <<vars, prog, liveness>>
    BY <1>9 DEF Epilogue
  <2>2. LivenessInv' /\ IntervalsInv' /\ ScanInv'
    BY <2>1, AfterScan, AllocationStays
  <2> QED
    BY <1>9, <2>1, <2>2, EpilogueFrame DEF RAInv, Phases
<1>10. CASE UNCHANGED <<vars, mvars>>
  <2>1. /\ UNCHANGED vars /\ prog' = prog /\ phase' = phase /\ live_in' = live_in
        /\ live_out' = live_out /\ changed' = changed /\ index' = index /\ points' = points
        /\ executed' = executed /\ pc' = pc /\ vval' = vval /\ mreg' = mreg /\ stack' = stack
    BY <1>10 DEF mvars, liveness, machine
  <2>2. /\ todo' = todo /\ input' = input /\ assignments' = assignments /\ free' = free
        /\ saved_regs' = saved_regs
    BY <2>1 DEF vars
  <2>3. LivenessInv'
    <3>1. \A b \in Blocks(prog) : Solved(b)' <=> Solved(b)
      BY <2>1 DEF Solved, NewIn, NewOut
    <3> QED
      BY <1>0, <2>1, <3>1 DEF LivenessInv, Vregs
  <2>4. IntervalsInv'
    <3>1. \A j \in Insts(prog) : Covered(j)' <=> Covered(j)
      BY <2>1 DEF Covered
    <3> QED
      BY <1>0, <2>1, <3>1 DEF IntervalsInv, Vregs
  <2>5. ScanInv'
    <3>1. IInv => IInv'
      BY <2>1, NextIInv
    <3>2. PoolInv => PoolInv'
      BY <2>2 DEF PoolInv, InReg, bankOf
    <3> QED
      BY <1>0, <2>1, <2>2, <3>1, <3>2 DEF ScanInv
  <2>6. Phases'
    BY <1>0, <2>1 DEF Phases, Vregs
  <2>7. FrameInv'
    <3>1. FrameWords' = FrameWords /\ \A r : save_slot(r)' = save_slot(r)
      BY <2>1, FrameStays
    <3> QED
      BY <1>0, <2>1, <2>2, <3>1 DEF FrameInv, Vregs
  <2> QED
    BY <2>3, <2>4, <2>5, <2>6, <2>7 DEF RAInv
<1> QED
  BY <1>1, <1>2, <1>3, <1>4, <1>5, <1>6, <1>7, <1>8, <1>9, <1>10 DEF AllocateNext

\* The invariant above holds in every run of the allocator and of the code it
\* produces.
LEMMA RAInvariance == AllocateSpec => []RAInv
  BY InitRAInv, NextRAInv, PTL DEF AllocateSpec

\* The caller gets every callee-saved register back and the function's own
\* stack objects are never overwritten, whatever the scan assigned
\* (insert_prologue, insert_block_epilogues, save_slots).
THEOREM CallerStateKept == AllocateSpec => []CallerStateIsKept
<1>1. RAInv => CallerStateIsKept
  <2> SUFFICES ASSUME RAInv PROVE CallerStateIsKept
    OBVIOUS
  <2>1. ASSUME phase = "done", NEW r \in MachineRegisters,
               r[2] = "pool", is_callee_saved_index(r[1], r[3])
        PROVE  mreg[r][1] = CallersOf(r[1], r[3])
    <3>1. r[1] \in Bank /\ r[3] \in pool(r[1]) /\ r = PhysReg(r[1], r[3])
      BY <2>1, RegisterCases
    <3>2. mreg[PhysReg(r[1], r[3])][1] = CallersOf(r[1], r[3])
      BY <2>1, <3>1 DEF RAInv, FrameInv
    <3> QED
      BY <3>1, <3>2
  <2>2. phase \in {"run", "done"} => \A o \in FrameWords : o < prog.locals => stack[o] = Local
    BY DEF RAInv, FrameInv
  <2> QED
    BY <2>1, <2>2 DEF CallerStateIsKept
<1> QED
  BY <1>1, RAInvariance, PTL

\* Storing one spilled value leaves the words of another alone.
LEMMA SpilledElsewhere ==
    ASSUME Allocated, stack \in [FrameWords -> Int], NEW val \in Int,
           NEW d \in input.vregs, InSlot(d), NEW v \in input.vregs, InSlot(v), v # d
    PROVE  /\ Spilled(d, val)[slot_offset(assignments[v].at)] = stack[slot_offset(assignments[v].at)]
           /\ is_q(v) => Spilled(d, val)[slot_offset(assignments[v].at) + 8]
                             = stack[slot_offset(assignments[v].at) + 8]
<1> DEFINE s == assignments[v].at
           t == assignments[d].at
<1>1. s \in Nat /\ t \in Nat /\ prog.locals \in Nat
  BY PlaceFacts, FrameSizes
<1>2. /\ s \in SlotsOf(v) /\ (is_q(v) => s + 1 \in SlotsOf(v))
      /\ t \in SlotsOf(d) /\ (is_q(d) => t + 1 \in SlotsOf(d))
  BY <1>1 DEF SlotsOf
<1>3. /\ slot_offset(s) = prog.locals + s * 8 /\ slot_offset(t) = prog.locals + t * 8
      /\ slot_offset(s) + 8 = prog.locals + (s + 1) * 8
      /\ slot_offset(t) + 8 = prog.locals + (t + 1) * 8
  BY <1>1 DEF slot_offset
<1>4. \A x \in SlotsOf(v), y \in SlotsOf(d) : prog.locals + x * 8 # prog.locals + y * 8
  BY SlotsApart
<1>5. \A o \in FrameWords :
         \/ Spilled(d, val)[o] = stack[o] \/ o = slot_offset(t)
         \/ is_q(d) /\ o = slot_offset(t) + 8
  BY SpilledFacts
<1>6. slot_offset(s) \in FrameWords /\ (is_q(v) => slot_offset(s) + 8 \in FrameWords)
  BY SlotFacts
<1> HIDE DEF s, t
<1>7. /\ slot_offset(s) # slot_offset(t) /\ (is_q(d) => slot_offset(s) # slot_offset(t) + 8)
      /\ is_q(v) => slot_offset(s) + 8 # slot_offset(t)
      /\ is_q(v) /\ is_q(d) => slot_offset(s) + 8 # slot_offset(t) + 8
  BY <1>2, <1>3, <1>4
<1>8. /\ Spilled(d, val)[slot_offset(s)] = stack[slot_offset(s)]
      /\ is_q(v) => Spilled(d, val)[slot_offset(s) + 8] = stack[slot_offset(s) + 8]
  BY <1>5, <1>6, <1>7
<1> QED
  BY <1>8 DEF s

-----------------------------------------------------------------------------
(* Values follow their registers.                                          *)

\* Where a value is after a step that keeps the allocation.
LEMMA HeldAfter ==
    ASSUME UNCHANGED <<vars, prog>>, NEW v
    PROVE  /\ InReg(v) =>
                 (Held(v)' <=> Load(input.class[v], mreg'[PhysReg(bankOf(v), assignments[v].at)])
                                   = vval'[v])
           /\ ~InReg(v) => (Held(v)' <=> RestoreValue(v)' = vval'[v])
           /\ RestoreValue(v)' =
                 IF rematerializable(prog, v) THEN remat_imm(prog, v)
                 ELSE Load(input.class[v],
                           <<stack'[slot_offset(assignments[v].at)],
                             IF is_q(v) THEN stack'[slot_offset(assignments[v].at) + 8] ELSE Junk>>)
<1>1. prog' = prog /\ input' = input /\ assignments' = assignments
  BY DEF vars
<1> QED
  BY <1>1 DEF Held, RestoreValue, SlotWords, InReg, bankOf, is_q, slot_offset

\* An instruction without a definition leaves what is live after it in place.
LEMMA PlainKeepsValues ==
    ASSUME RAInv, Opened, phase = "run", UNCHANGED <<vars, prog>>, pc \in Insts(prog),
           PlainEffect(prog.insts[pc]),
           NEW v \in LiveAfter(prog, live_out, pc), Held(v)
    PROVE  Held(v)'
<1> DEFINE inst == prog.insts[pc]
           r == PhysReg(bankOf(v), assignments[v].at)
<1>1. /\ Allocated /\ prog \in Programs /\ IInv /\ stack' = stack /\ vval' = vval
      /\ mreg' = IF inst.op = "call" THEN Clobbered(Restored(inst)) ELSE Restored(inst)
  BY AfterScan, IntervalFacts DEF PlainEffect
<1>2. v \in input.vregs
  BY IntervalFacts DEF LiveAt
<1>3. CASE InReg(v)
  <2>1. assignments[v].at \in pool(bankOf(v)) /\ bankOf(v) \in Bank
    BY <1>1, <1>2, <1>3, PlaceFacts
  <2>2. Restored(inst)[r] = mreg[r] /\ Restored(inst) \in [MachineRegisters -> Int \X Int]
    BY <2>1, RestoredFacts
  <2>3. CASE inst.op = "call"
    <3>1. pc \in calls(prog)
      BY <2>3 DEF calls
    <3>2. crossing(v)
      BY <3>1, LiveAcrossCrosses DEF Opened
    <3>3. is_callee_saved_index(bankOf(v), assignments[v].at) /\ ~is_q(v)
      BY <1>1, <1>2, <1>3, <3>2 DEF IInv, CallsPreserveRegisters
    <3>4. mreg'[r][1] = mreg[r][1]
      BY <1>1, <2>1, <2>2, <2>3, <3>3, ClobberedFacts
    <3>5. Load(input.class[v], mreg'[r]) = Load(input.class[v], mreg[r])
      BY <3>3, <3>4 DEF Load, is_q
    <3> QED
      BY <1>1, <1>3, <3>5, HeldAfter DEF Held
  <2>4. CASE inst.op # "call"
    BY <1>1, <1>3, <2>2, <2>4, HeldAfter DEF Held
  <2> QED
    BY <2>3, <2>4
<1>4. CASE ~InReg(v)
  <2>1. RestoreValue(v)' = RestoreValue(v)
    BY <1>1, HeldAfter DEF RestoreValue, SlotWords
  <2> QED
    BY <1>1, <1>4, <2>1, HeldAfter DEF Held
<1> QED
  BY <1>3, <1>4

\* A defined value is where it belongs.
LEMMA DefinedIsHeld ==
    ASSUME RAInv, phase = "run", UNCHANGED <<vars, prog>>, pc \in Insts(prog),
           prog.insts[pc].defs # <<>>, NEW d, d = prog.insts[pc].defs[1][2],
           NEW val \in Int, val \in Results(prog.insts[pc]),
           DefEffect(prog.insts[pc], d, val)
    PROVE  Held(d)'
<1>1. /\ Allocated /\ prog \in Programs /\ stack \in [FrameWords -> Int]
  BY AfterScan, IntervalFacts DEF RAInv, FrameInv
<1>2. /\ d \in input.vregs /\ virtual_defs(prog, pc) = {d} /\ vval'[d] = val
      /\ InReg(d) => mreg'[PhysReg(bankOf(d), assignments[d].at)] = Half(input.class[d], val)
      /\ InSlot(d) => stack' = Spilled(d, val)
  BY DefEffectFacts
<1>3. CASE InReg(d)
  <2>1. Load(input.class[d], mreg'[PhysReg(bankOf(d), assignments[d].at)]) = val
    <3>1. mreg'[PhysReg(bankOf(d), assignments[d].at)] = Half(input.class[d], val)
      BY <1>2, <1>3, Zenon
    <3>2. Load(input.class[d], Half(input.class[d], val)) = val
      BY LoadFacts
    <3> QED
      BY <3>1, <3>2
  <2>2. Held(d)' <=> Load(input.class[d], mreg'[PhysReg(bankOf(d), assignments[d].at)]) = vval'[d]
    BY <1>3, HeldAfter
  <2> QED
    BY <1>2, <2>1, <2>2, Zenon
<1>4. CASE ~InReg(d)
  <2>1. InSlot(d)
    BY <1>1, <1>2, <1>4, PlaceFacts
  <2>2. CASE rematerializable(prog, d)
    <3>1. PICK i \in Insts(prog) : /\ remat_defs(prog, d) = {i} /\ prog.insts[i].op = "mov_imm"
                                   /\ remat_imm(prog, d) = prog.insts[i].imm
      BY <1>1, <2>2, RematFacts
    <3>2. pc \in remat_defs(prog, d)
      BY <1>2 DEF remat_defs
    <3>3. pc = i
      BY <3>1, <3>2
    <3>4. val = prog.insts[pc].imm
      BY <3>1, <3>3 DEF Results
    <3>5. RestoreValue(d)' = val
      BY <2>2, <3>1, <3>3, <3>4, HeldAfter
    <3> QED
      BY <1>2, <1>4, <3>5, HeldAfter
  <2>3. CASE ~rematerializable(prog, d)
    <3>1. /\ stack'[slot_offset(assignments[d].at)] = val
          /\ is_q(d) => stack'[slot_offset(assignments[d].at) + 8] = val
      <4>1. /\ Spilled(d, val)[slot_offset(assignments[d].at)] = val
            /\ is_q(d) => Spilled(d, val)[slot_offset(assignments[d].at) + 8] = val
        BY <1>1, <1>2, <2>1, SpilledFacts, Zenon
      <4>2. stack' = Spilled(d, val)
        BY <1>2, <2>1, Zenon
      <4> QED
        BY <4>1, <4>2, Zenon
    <3>2. RestoreValue(d)' = val
      <4>1. CASE is_q(d)
        BY <2>3, <3>1, <4>1, HeldAfter DEF Load
      <4>2. CASE ~is_q(d)
        BY <2>3, <3>1, <4>2, HeldAfter DEF Load, is_q
      <4> QED
        BY <4>1, <4>2
    <3> QED
      BY <1>2, <1>4, <3>2, HeldAfter, Zenon
  <2> QED
    BY <2>2, <2>3
<1> QED
  BY <1>3, <1>4

\* A definition leaves the other values that are live after it in place.
LEMMA OthersStayHeld ==
    ASSUME RAInv, phase = "run", UNCHANGED <<vars, prog>>, pc \in Insts(prog),
           prog.insts[pc].defs # <<>>, NEW d, d = prog.insts[pc].defs[1][2],
           NEW val \in Int, DefEffect(prog.insts[pc], d, val),
           NEW v \in LiveAfter(prog, live_out, pc), v # d, Held(v)
    PROVE  Held(v)'
<1> DEFINE r == PhysReg(bankOf(v), assignments[v].at)
           at == slot_offset(assignments[v].at)
<1>1. /\ Allocated /\ prog \in Programs /\ IInv /\ stack \in [FrameWords -> Int]
      /\ input.vregs \subseteq Vregs
  BY AfterScan, IntervalFacts DEF RAInv, FrameInv
<1>2. /\ d \in input.vregs /\ virtual_defs(prog, pc) = {d}
      /\ \A w \in Vregs : w # d => vval'[w] = vval[w]
      /\ \A b \in Bank : \A k \in pool(b) :
            \/ mreg'[PhysReg(b, k)] = mreg[PhysReg(b, k)]
            \/ InReg(d) /\ b = bankOf(d) /\ k = assignments[d].at
      /\ InReg(d) => stack' = stack
      /\ InSlot(d) => stack' = Spilled(d, val)
  BY DefEffectFacts
<1>3. /\ v \in LiveAt(prog, live_out, pc) /\ d \in LiveAt(prog, live_out, pc) /\ pc \in Nat
  BY <1>1, <1>2, BlockFacts DEF LiveAt
<1>4. /\ v \in input.vregs /\ input.start[v] <= pc /\ pc <= input.end[v]
      /\ input.start[d] <= pc /\ pc <= input.end[d]
      /\ input.start[v] \in Nat /\ input.end[v] \in Nat
      /\ input.start[d] \in Nat /\ input.end[d] \in Nat
  BY <1>2, <1>3, IntervalFacts
<1>5. vval'[v] = vval[v]
  BY <1>1, <1>2, <1>4
<1>6. CASE InReg(v)
  <2>1. assignments[v].at \in pool(bankOf(v)) /\ bankOf(v) \in Bank
    BY <1>1, <1>4, <1>6, PlaceFacts
  <2>2. ~(InReg(d) /\ bankOf(v) = bankOf(d) /\ assignments[v].at = assignments[d].at)
    <3>1. ~(input.end[v] < input.start[d]) /\ ~(input.end[d] < input.start[v])
      <4>1. \A a, b, c, e \in Nat : a <= pc /\ pc <= b /\ c <= pc /\ pc <= e => ~(b < c) /\ ~(e < a)
        BY <1>3
      <4> QED
        BY <1>4, <4>1, Zenon
    <3> QED
      BY <1>1, <1>2, <1>4, <1>6, <3>1, Zenon DEF IInv, NoSharedRegister
  <2>3. mreg'[r] = mreg[r]
    BY <1>2, <2>1, <2>2
  <2> QED
    BY <1>5, <1>6, <2>3, HeldAfter DEF Held
<1>7. CASE ~InReg(v)
  <2>1. InSlot(v)
    BY <1>1, <1>4, <1>7, PlaceFacts
  <2>2. stack'[at] = stack[at] /\ (is_q(v) => stack'[at + 8] = stack[at + 8])
    <3>1. CASE InReg(d)
      BY <1>2, <3>1
    <3>2. CASE InSlot(d)
      <4>1. /\ Spilled(d, val)[at] = stack[at]
            /\ is_q(v) => Spilled(d, val)[at + 8] = stack[at + 8]
        BY <1>1, <1>2, <1>4, <2>1, <3>2, SpilledElsewhere, Zenon
      <4>2. stack' = Spilled(d, val)
        BY <1>2, <3>2
      <4> QED
        BY <4>1, <4>2
    <3> QED
      BY <1>1, <1>2, <3>1, <3>2, PlaceFacts
  <2>3. RestoreValue(v)' = RestoreValue(v)
    BY <2>2, HeldAfter DEF RestoreValue, SlotWords
  <2> QED
    BY <1>5, <1>7, <2>3, HeldAfter DEF Held
<1> QED
  BY <1>6, <1>7

\* After an instruction, what the next one finds live is held.
LEMMA ExecuteValue ==
    ASSUME RAInv, Opened, Execute, pc' # 0,
           \A v \in LiveBefore(prog, live_out, pc) : Held(v)
    PROVE  \A v \in LiveBefore(prog, live_out, pc') : Held(v)'
<1>1. /\ phase = "run" /\ prog \in Programs /\ UNCHANGED <<vars, prog>>
      /\ pc \in Insts(prog) /\ pc' \in Following(pc)
  BY ExecuteFacts
<1>2. PICK next \in Following(pc) : next = pc' /\ next # 0
  BY <1>1
<1>3. LiveBefore(prog, live_out, next) \subseteq LiveAfter(prog, live_out, pc)
  BY <1>1, <1>2, LiveFlows
<1>4. ASSUME NEW v \in LiveAfter(prog, live_out, pc), v \notin virtual_defs(prog, pc) PROVE Held(v)
  BY <1>4 DEF LiveBefore
<1>5. CASE prog.insts[pc].defs = <<>> /\ PlainEffect(prog.insts[pc])
  <2>1. virtual_defs(prog, pc) = {}
    BY <1>5 DEF virtual_defs, Regs
  <2>2. ASSUME NEW v \in LiveAfter(prog, live_out, pc) PROVE Held(v)'
    BY <1>1, <1>4, <1>5, <2>1, PlainKeepsValues
  <2> QED
    BY <1>2, <1>3, <2>2
<1>6. CASE prog.insts[pc].defs # <<>>
  <2>1. PICK d : d = prog.insts[pc].defs[1][2]
    OBVIOUS
  <2>2. PICK val \in Int : val \in Results(prog.insts[pc]) /\ DefEffect(prog.insts[pc], d, val)
    BY <1>6, <2>1, ExecuteFacts
  <2>3. virtual_defs(prog, pc) = {d}
    BY <1>1, <1>6, <2>1, <2>2, DefEffectFacts
  <2>4. Held(d)'
    BY <1>1, <1>6, <2>1, <2>2, DefinedIsHeld
  <2>5. ASSUME NEW v \in LiveAfter(prog, live_out, pc), v # d PROVE Held(v)'
    BY <1>1, <1>4, <1>6, <2>1, <2>2, <2>3, <2>5, OthersStayHeld
  <2> QED
    BY <1>2, <1>3, <2>4, <2>5
<1> QED
  BY <1>5, <1>6, ExecuteFacts

LEMMA InitValueInv == AllocateInit => ValueInv
  BY DEF AllocateInit, ValueInv, Opened

LEMMA NextValueInv ==
    ASSUME RAInv, RAInv', ValueInv, CallsOpenNoInterval, [AllocateNext]_<<vars, mvars>>
    PROVE  ValueInv'
<1> DEFINE Early == phase' \in {"liveness", "intervals", "scan"}
<1>0. CASE Early
  BY <1>0 DEF ValueInv, Opened
<1>1. ASSUME UNCHANGED <<vars, prog, liveness>>, phase \in {"rewritten", "run", "done"}
      PROVE  Opened'
  <2>1. input' = input /\ prog' = prog /\ live_out' = live_out
    BY <1>1 DEF vars, liveness
  <2> QED
    BY <1>1, <2>1 DEF ValueInv, Opened
<1>2. CASE BlockLiveness \/ RoundEnds \/ TakePoints \/ BeginScan \/ Scan
  <2>1. Early
    BY <1>2 DEF BlockLiveness, RoundEnds, TakePoints, BeginScan, Scan, mvars
  <2> QED
    BY <1>0, <2>1
<1>3. CASE Rewrite
  <2>1. /\ phase = "scan" /\ phase' # "run" /\ input' = input /\ prog' = prog
        /\ live_out' = live_out
    BY <1>3 DEF Rewrite, vars, liveness
  <2> QED
    BY <2>1 DEF ValueInv, Opened, CallsOpenNoInterval
<1>4. CASE Prologue
  <2>1. /\ phase = "rewritten" /\ UNCHANGED <<vars, prog, liveness>> /\ pc' = pc
        /\ prog' = prog /\ live_out' = live_out /\ pc = 1
    BY <1>4 DEF Prologue, liveness, RAInv, Phases
  <2>2. LiveBefore(prog, live_out, 1) = {}
    BY <2>1, NothingLiveAtEntry
  <2> QED
    BY <1>1, <2>1, <2>2 DEF ValueInv
<1>5. CASE Execute
  <2>1. /\ phase = "run" /\ UNCHANGED <<vars, prog, liveness>> /\ pc # 0
        /\ prog' = prog /\ live_out' = live_out
    BY <1>5 DEF Execute, liveness
  <2>2. pc' # 0 => \A v \in LiveBefore(prog, live_out, pc') : Held(v)'
    BY <1>5, <2>1, ExecuteValue DEF ValueInv
  <2> QED
    BY <1>1, <2>1, <2>2 DEF ValueInv
<1>6. CASE Epilogue
  <2>1. phase = "run" /\ phase' = "done" /\ UNCHANGED <<vars, prog, liveness>>
    BY <1>6 DEF Epilogue
  <2> QED
    BY <1>1, <2>1 DEF ValueInv
<1>7. CASE UNCHANGED <<vars, mvars>>
  <2>1. /\ UNCHANGED <<vars, prog, liveness>> /\ input' = input /\ prog' = prog
        /\ live_out' = live_out /\ phase' = phase /\ pc' = pc /\ mreg' = mreg /\ stack' = stack
        /\ vval' = vval /\ assignments' = assignments
    BY <1>7 DEF vars, mvars, liveness, machine
  <2>2. \A v : Held(v)' <=> Held(v)
    BY <2>1 DEF Held, RestoreValue, SlotWords, InReg, bankOf, is_q, slot_offset
  <2> QED
    BY <2>1, <2>2 DEF ValueInv, Opened
<1> QED
  BY <1>2, <1>3, <1>4, <1>5, <1>6, <1>7 DEF AllocateNext

LEMMA ValueInvariance == AllocateSpec /\ []CallsOpenNoInterval => []ValueInv
<1>1. RAInv /\ RAInv' /\ ValueInv /\ CallsOpenNoInterval /\ [AllocateNext]_<<vars, mvars>> => ValueInv'
  BY NextValueInv
<1> QED
  BY <1>1, InitValueInv, RAInvariance, PTL DEF AllocateSpec

\* In a function in which no call opens an interval, every operand of the
\* allocated code reads the value of its virtual register, on every path and
\* whatever was spilled, evicted, rematerialized or clobbered on the way, and
\* the rewrite never runs out of scratch registers.
THEOREM OperandsReadTheirValues ==
    AllocateSpec /\ []CallsOpenNoInterval => []UsesReadTheirValue
<1>1. RAInv /\ ValueInv => UsesReadTheirValue
  <2> SUFFICES ASSUME RAInv, ValueInv PROVE UsesReadTheirValue
    OBVIOUS
  <2>1. phase # "error"
    BY DEF RAInv, Phases
  <2>2. ASSUME phase = "run", pc # 0, NEW k \in DOMAIN prog.insts[pc].uses
        PROVE  ReadOperand(prog.insts[pc], k) = vval[prog.insts[pc].uses[k][2]]
    <3>1. pc \in Insts(prog)
      BY <2>2 DEF RAInv, FrameInv
    <3>2. prog.insts[pc].uses[k][2] \in LiveBefore(prog, live_out, pc)
      BY DEF LiveBefore, virtual_uses, Regs
    <3>3. Held(prog.insts[pc].uses[k][2])
      BY <2>2, <3>2 DEF ValueInv
    <3> QED
      BY <2>2, <3>1, <3>3, ReadsHeld
  <2> QED
    BY <2>1, <2>2 DEF UsesReadTheirValue
<1> QED
  BY <1>1, RAInvariance, ValueInvariance, PTL

\* In such a function no value that is live after a call sits in a register
\* the call clobbers (values_live_across_calls and the victim choice of
\* linear_scan).
THEOREM CallsLeaveLiveValues ==
    AllocateSpec /\ []CallsOpenNoInterval => []LiveAcrossCallsIsPreserved
<1>1. RAInv /\ ValueInv => LiveAcrossCallsIsPreserved
  <2> SUFFICES ASSUME RAInv, ValueInv, phase = "rewritten", NEW c \in calls(prog),
                      NEW v \in LiveAfter(prog, live_out, c), InReg(v)
               PROVE  is_callee_saved_index(bankOf(v), assignments[v].at)
    BY DEF LiveAcrossCallsIsPreserved
  <2>1. input.start[v] < c
    BY DEF ValueInv, Opened
  <2>2. v \in input.vregs /\ crossing(v)
    BY <2>1, LiveAcrossCrosses
  <2>3. CallsPreserveRegisters
    BY IntervalFacts DEF IInv
  <2> QED
    BY <2>2, <2>3 DEF CallsPreserveRegisters
<1> QED
  BY <1>1, RAInvariance, ValueInvariance, PTL

=============================================================================
