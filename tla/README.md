# crabbit: a TLA+ verification project

crabbit is a rustc code-generation backend without LLVM: it imports MIR into a
pliron dialect, optimizes it, selects instructions, allocates registers, lays
out frames and blocks and writes objects (aarch64 ELF and Mach-O, x86-64
Mach-O) or PTX text.  This project models the parts of that pipeline whose
correctness is an argument about *orders of steps and shared resources*, checks
the models with TLC and proves the central results with TLAPS.

Paths below are relative to `src/crates/`.

## 1. Inventory

The compiler is sequential inside one compilation; threads appear only around
it (rustc compiles codegen units, and tests run, in one process that shares the
environment).  What makes it hard is not message interleaving but long runs of
dependent decisions: an allocator reuses a register freed hundreds of decisions
earlier, a pass deletes a store because of a fact another pass invalidates, a
frame is laid out by two passes that only agree through attributes left on the
function.

| Component | Where | State it keeps | Operations | What makes it correct |
|---|---|---|---|---|
| Driver | `crabbit/src/lib.rs`, `device_artifact.rs`, `trace.rs` | pliron context, host and device modules, artifacts | compile, split host and device, embed PTX, write object | each module goes through its own stages; a failure leaves no half-attached module |
| Pipeline registry | `config/src/lib.rs` | pass constructors, orders per stage, process environment under a lock | register, reorder, build, run a program stage, scope environment | a stage runs its order; the environment and the two modules are restored on every exit |
| Importer | `crabbit/src/importer/*` | symbol and type tables, pending instances | translate MIR bodies, layouts, constants, globals, intrinsics | same meaning as MIR; every reachable instance translated once |
| MIR passes | `mir/src/passes/*` | dialect ops | gate, linkage, function addresses, type erasure, census | names and linkage agree between declaration and definition |
| Mid-end | `pliron-ll/src/passes/llvm/*` | the llvm-dialect CFG and use lists | sroa, simplify, simplify-cfg, gvn, licm, dse, adce, sink, inline, unroll, vectorize, division by constants, loop-carried forwarding | the function computes the same result |
| Analyses | `dominance_frontier.rs`, `spectral_freq.rs`, `profile_freq.rs`, `hot_path.rs`, `llvm/analysis.rs` | block frequencies, loops, dominance | estimate, pick hot path | flow conservation; dominance facts hold |
| Instruction selection (aarch64, x86-64) | `aarch64/llvm_to_aarch64_isel.rs`, `isel_*.rs`, `x86_64_darwin/...` | value to virtual-register map, edge blocks | select ops, pass block arguments, call ABI, 128-bit arithmetic | block arguments are passed simultaneously; caller and callee agree on the ABI |
| Register allocation (aarch64, x86-64) | `aarch64_register_allocate.rs`, `x86_64_register_allocate.rs` | intervals, active set, free registers, spill slots | liveness, linear scan, eviction, rewrite with scratch registers, rematerialization | every operand reads the value the virtual register holds |
| Frame lowering | `aarch64_frame_lower.rs`, `x86_64_frame_lower.rs` | frame offsets, save area | prologue, epilogue, large offsets, stack arguments | locals, spills and saves are disjoint; the caller's registers and stack pointer come back |
| Block placement, encoding | `*_block_placement.rs`, `*_encode.rs`, `*/encoding.rs` | block order, offsets, fixups | chain blocks, elide and invert branches, patch displacements | the laid-out code has the same edges; every displacement reaches its block |
| Object files | `aarch64/elf.rs`, `macho.rs`, `*_object_lower.rs` | sections, symbols, relocations | serialize | relocations name the right symbol |
| NVPTX | `pliron-ll/src/nvptx/*` | value names, address spaces, staged copies | address-space inference, address folding, PTX text | a generic pointer is converted exactly once; copies on an edge are simultaneous |
| Backward PGO | `pliron-bpgo`, `bpgo`, `aarch64/backward.rs`, `blockmap.rs`, `opmap.rs`, `llvm/backward.rs` | per-pass provenance maps, weights | lift samples through passes | weight is conserved at every pass |
| Trace | `pliron-trace` | numbered snapshots | record a pass | one snapshot per pass, in order |

### How the parts interact

The driver builds each stage from the registry's order and runs it over the
module; passes communicate through the IR and through attributes they leave on
functions (`stack_size`, `used_callee_saved`, spill sizes, operation ids).
Instruction selection ends SSA: a block argument becomes a virtual register that
is assigned once per incoming edge.  Register allocation reads those virtual
registers and the layout order, rewrites operands in place and leaves the spill
size and the callee-saved registers in use as attributes; frame lowering turns
them into a prologue and epilogues; placement permutes blocks; encoding assigns
offsets and patches branches.

### Behaviours that are hard to test

* **Reuse over time.** Linear scan hands a register out again after expiry or
  eviction.  A fault needs a particular order of three or more intervals.
* **Parallel meaning from sequential code.** Block arguments are assigned all at
  once; the emitted moves run one after another and may form cycles.
* **State split over passes.** Spill slots and the save area are computed in two
  files from attributes; an off-by-one in either overlaps the two.
* **Linear order against control flow.** Intervals are ranges of the layout, while
  values flow along edges: back edges, and edge blocks appended at the end of the
  region, make the two disagree.
* **Boundaries.** Strict against non-strict comparison at interval ends, slot
  rounding for 128-bit values, displacement ranges, scratch registers running out.

## 2. Plan

Order: what every compiled function goes through first, then what few tests
reach, then the breadth of the mid-end.

| # | Modules | Composes | Status |
|---|---|---|---|
| 1 | `LinearScan`, `RegisterAllocate` | `RegisterAllocate` extends `LinearScan` with liveness, rewriting, frame and execution | done, proved |
| 2 | `BlockArguments` (abstract), `ParallelCopy`, `StagedCopy` | both implement the meaning of `BlockArguments` | done, proved |
| 3 | `EnvConfig`, `Pipeline` | the stages of one compilation, under a shared environment | done, proved |
| 4 | `CodeLayout`, `Symbols`, `DeadStores` | placement with encoding; importer with inliner and symbol table; a pass with the execution of its result | done, proved |
| 5 | `Words`, `SelectAarch64`, `SelectX86`, `Selection`, `Intrinsics` | the selectors of both hosts, and the importer's expansions, against the meaning of LLVM operations and of Rust | done |
| 6 | `TypeLayout`, `AggregateMemory`, `CallAbi`, `MemoryAbi` | types, aggregates, memory and calls, from the importer through selection | done |
| 7 | `MidIr`, `MidAnalysis`, `Simplify`, `ScalarPasses`, `Unroll`, `LoopCarried`, `Vectorize`, `Midend` | each pass as an operator on programs; `Midend` applies them in any order and executes the result | done |
| 8 | `OpMap`, `Profile`, `BackwardWalk` | forward passes with their stamps, the measurement, and the walk back | done, proved in part |
| 9 | frames with large offsets and stack arguments, the x86-64 allocator, legalization | frame lowering below `RegisterAllocate` | open |
| 10 | address-space inference and selection of NVPTX, hot paths, object sections, trace files | | open |

Abstract specifications: the simultaneous assignment of block arguments
(`BlockArguments`); the meaning of LLVM operations and of Rust's arithmetic
(`Words`, the answers in `Intrinsics`) and the execution of a function (`MidIr`)
play that part for selection and for the mid-end.  The theorem still worth
proving is the conservation of cycles in `BackwardWalk`.

## 3. The modules

Each `MC...` module instantiates one specification for TLC, or two that share
nothing; each `...Proofs` module holds the theorems of the modules it extends.  Operators named "Mutant of X" are deliberately wrong
versions of a definition, used to make sure that the properties can fail.

### LinearScan: `linear_scan` of `aarch64_register_allocate.rs`

State: the intervals still to scan, the free list and active set of each bank,
the assignment of each virtual register, the spill-slot counter, and the
callee-saved registers in use.  One action per way an interval is handled:
`SpillCrossingVector` (a 128-bit value across a call never gets a register),
`TakeFree`, `Evict` (with both victim policies) and `SpillCurrent`; expiry is part
of each, as it is of the loop body.  Everything about the function that the scan
reads (intervals, classes, crossing sets, weights) is the record `input`.

### RegisterAllocate: the rest of that file, and `aarch64_frame_lower.rs`

Extends `LinearScan`.  The state adds the machine function, the liveness sets of its
blocks, the live points taken so far, and both executions.  `BlockLiveness` is one
block of a round of the liveness loop, from the last block to the first, and
`RoundEnds` starts another round while something changes; `TakePoints` is one
instruction of the projection to intervals; `BeginScan` hands the intervals with
their classes, crossing sets, spill weights and rematerializable constants to the
scan (`Scan`).  `Rewrite` gives the operands their registers, up to three scratch
registers per bank; `Prologue`, `Execute` and `Epilogue` run the allocated code in
its frame of locals, spills and save area in lock step with the virtual-register
program, calls clobbering what the ABI lets them.  Each callee-saved register starts
with a value of its own, so that a restore from the wrong word shows.  `IsProgram`
is what instruction selection guarantees: blocks that are ranges of the
instructions, at most two virtual operands read and one written, and a definition on
every path to a use (`IsStrict`).  Left out: the encoding of
large frame offsets and stack-passed arguments.

### BlockArguments, ParallelCopy, StagedCopy: edges between blocks

`BlockArguments` says that all arguments of an edge are assigned at once.
`ParallelCopy` is `emit_block_arg_copies` of both host selectors: move a copy whose
destination nobody reads any more, else break a cycle through a fresh register.
Each emitted move is executed at once, so a state is a point in the emitted code.
`StagedCopy` is the NVPTX version: conflicting copies through temporaries, then
direct copies, staged copies and immediates, with `cvta.shared` applied exactly
where an address changes space.

### EnvConfig: `with_env_config`

Threads, the process-wide lock, the environment, and per thread the values it
saved.  A call checks its keys, takes the lock (also a poisoned one), saves and
sets key by key, runs, panics or returns, restores key by key and releases.

### Pipeline: `emit_object`, `lower_kernels`, `emit_kernels` and the stage builder

What has run on the host and the kernel module, where the two are attached, the
dumps and the trace, and the error paths in between.  A pass is a name; it runs or
fails.  Which code path runs a stage depends on kernels, `CRABBIT_EMIT_IR` and
`CRABBIT_TRACE`, as in the code.  Left out: the dump directory of the kernels, the
temporary dump directory that an early return leaves behind, and what rustc does
with the object.

### CodeLayout: block placement and branch encoding of both hosts

Frequencies only decide which successor a chain takes, so every possible choice
is a step.  aarch64 picks branch words from the block that follows; x86-64 first
makes fall-throughs explicit, places, and then erases and inverts jumps, possibly
on its own output.  `Branches` of a block are the branch instructions that stand for
its terminator.  `BlockOffsets` assigns one offset per step (`laid` blocks have one);
the address of an instruction in its block is a closed form (`InstrAddress`), since a
block is straight code followed by at most two branches.  `Encode` then writes every
instruction, with displacements in fields of `BBits`, `CondBits` and `RelBits` and the
code's range checks, and the bytes run beside the blocks.
Selected x86-64 blocks have at most one conditional jump; functions of one block
are not placed.

### Symbols: importer, inliner, symbol table

The recursive import as an explicit stack, with each linkage write where the code
makes it; the inliner's maintained reference counts, clones and eager erasures;
the final sweep; the symbols and relocations of the object.  A function pointer in
a constant and a vtable slot take the same path.  Left out: import errors (they
fail the compile), `CRABBIT_DEBUG_EXPORT_ALL` and kernels.  References in cleanup
blocks are imported and then removed with their blocks, which is what leaves the
sweep something to do.

### DeadStores: `dse.rs` with `backward_bitset_fixpoint`

The escape analysis, the aliasing table of address keys, gen and kill sets, the
fixpoint block by block and round by round, deletion block by block; then both
versions of the function run in one memory model with byte addresses.  Addresses
of keys are chosen when the function is called, and a key that depends on a value
defined in a block is chosen anew whenever that block is entered.  Pointers may
reach any object whose address some op gives away, at any time, which allows more
than real programs do.  Both versions take the same path because their loads
agree, which is what `LoadsReadTheSame` checks before each load.

### Words, SelectAarch64, SelectX86, Selection: scalars and vectors

`Words` is the outside world: words of `W` bits, what an LLVM operation means, and
what an instruction does.  `SelectAarch64` and `SelectX86` translate the arms of
`lower_function` and the 128-bit helpers.  The selector keeps, per SSA value, one
of several representations (an immediate, a register, a pair, a comparison not
emitted yet); virtual registers are written once, so a register is modelled by the
word it holds.  A register carries its class as well: one of the FP file has a word
where `materialize` moves it over, and none (`FpHalf`) where `materialize_pair` passes
it on to integer instructions.  `Selection` is the op loop: one action per group of operations, an
unbounded chain of them, and the value LLVM gives beside the representation the
selector chose.

### Intrinsics: what the importer expands itself

`arith.rs` and `intrinsics.rs` expand overflow and saturation, 128-bit products and
casts, bit counts, swaps, rotations, byte lanes, atomic updates, pointer distances
and copies into sequences of simple operations.  Each expansion is an operator;
each group of calls is an action that keeps the expansion's result beside Rust's.
The aarch64 outline atomics, `memcpy` and compiler-rt are external.
`PointerDistance` keeps to distances that are not negative (see below).

### TypeLayout, AggregateMemory, CallAbi, MemoryAbi: values in memory and calls

crabbit stores no layout; five places recompute one.  `TypeLayout` holds all of
them, `AggregateMemory` the selectors' aggregates (symbolic bytes in eight-byte
registers), `CallAbi` the argument walks of caller and callee, the re-encoding for
code rustc compiled, and enum tags.  `MemoryAbi` sends one value through any chain
of stores, loads, projections, aggregates, casts, block arguments, calls and
calls into rustc code.  After each step the bytes are renumbered in leaf order, so
what a value must be depends on its type only and chains of any length are
finitely many states.  rustc's layouts and argument rules are external.

### MidIr to Midend: the mid-end

`MidIr` is the part of the llvm dialect the passes rewrite, and an interpreter for
it (poison, undefined memory, traps, calls).  Each pass is an operator from
programs to programs: `Simplify` (simplify, simplify-cfg, the pinning of
type-punned slots), `ScalarPasses` (gvn with load forwarding, licm, sink, adce,
division by constants, sroa), `Unroll`, `LoopCarried`, `Vectorize`; `MidAnalysis` has the dominators, loops,
post-dominators and op-effect tables they share.  `Midend` has one action per pass,
enabled in any order, because a registered order may replace the default one; the
vectorizer comes last, as in every order the code allows.  Global dead-store
elimination is in `DeadStores`, the inliner in `Symbols`, `mem2reg` in pliron.

### OpMap, Profile, BackwardWalk: backward PGO

`OpMap` has the attribution the passes stamp on operations, `Profile` the
measurement, the alignment of two snapshots and the backward rules of mid-end and
machine passes, `BackwardWalk` a compilation that leaves a trace, the measurement of
its last snapshot, and the walk.  The source is any set of functions whose operations
no pass has stamped (`SourceAssumption`); each pass names its new operations from a
range of its own (`NameRoom`, larger than any source of the run).  Two ghost fields (`origin`, `who`) record what an
operation was really made for.  Operations of an expanded division carry no stamp,
so `CostStaysWithItsSource` speaks of functions whose operations all have one
(`AllStamped`).  The JSON and timeline outputs are left out.

## 4. The runs

Where one run checks two components, each behaviour takes one side and leaves the
other component idle; the sides share nothing.

| Run | Shows | Bounds, and why they are enough |
|---|---|---|
| `register_allocate` | no shared register, calls respected, slots disjoint; every operand reads its value on every path, scratch registers suffice, the caller's registers return | two registers per bank and four intervals: one more than a bank holds after an eviction, so registers are evicted, expire and are handed out again; three blocks in four CFG shapes (loop, branch, nested back edges, layout against control flow), all classes and options |
| `edge_copies` | host moves implement the simultaneous assignment, and end; PTX copies do at every point | four arguments among five registers: two disjoint cycles, a cycle with a fan, chains; PTX three among four, with conversions and immediates |
| `driver` | each section sees its own configuration, the environment comes back, calls return; stages run once and in order, the program root never outlives its stage, traces list what ran | two threads, two calls each, overlapping, empty and refused configurations, panics; up to two passes per stage and every combination of options and failures |
| `object_code` | erased functions are unused, relocations resolve; the laid-out bytes follow the source's path or encoding is refused | three functions, one external, one constant, recursion and mutual references; three blocks, every terminator, fields so narrow that some layouts do not fit |
| `dead_stores` | deleted stores are unobservable, the fixpoint ends in a solution | 794 functions of three or four blocks; loops need several rounds |
| `lowering` | every value is where and what LLVM, and Rust, say; a branch on it goes the right way; bytes survive memory and calls; both argument walks agree; tags read back | words of 4 bits for 64, 3 for 32 and pairs of 8 for 128 keep every boundary (sign, wrap, shift by the width, carry between halves), and chains are unbounded; byte operators on registers of 8 and 16 bits; 6-bit floats with infinities and NaN; 33 types with padding, reordering, empty fields, wrappers, arrays and blobs of every alignment; argument lists up to the end of the registers plus a bounded stack area (`MaxStack`); tags of 5 bits (`DiscrBits`) |
| `midend` | rewritten functions are in SSA form, return, store and call what the source does on every input; post-dominators are exact | 1,486 functions, every sequence of `MaxPasses` = 2 passes, widths 2, 4 and 8 for 8/16, 32 and 64 bits (every divisor and dividend of the 4-bit width, chosen ones of the 8-bit width), trip counts to `MaxTrip` = 5 for 32, with every limit of the code scaled so that both sides of it occur |
| `profile` | cycles are neither lost nor made, stay with their source, ids are unique, every function is followed as far as possible and stops | three functions, two passes of any kind (split, merge, clone, inline, delete, expand), samples on every instruction, instruction counts in one function only, and samples in foreign code; a period (720) divisible by every share that occurs |

The midend programs are families built around the shapes the passes look for (counted
loops with one and two blocks, slots read around a branch, chained addresses,
reductions); a pass that finds nothing leaves the function alone.
`CHECK_DEADLOCK FALSE` stands where the modelled computation ends.

Type invariants are theorems of the proof modules where there is one and are
implied by the properties elsewhere; no run spends its time on them.

**Fairness.** The code is a loop in one thread, and nothing makes it wait, so the
next step is eventually taken: `WF_vars(Next)` in `LinearScan` and `ParallelCopy`,
`WF_vars(Analyse)` in `DeadStores` (the pass ends; the program it compiled need not).
In `EnvConfig` each thread's own steps are weakly fair: the operating system
schedules it, and every section ends.  No fairness is assumed for the lock; that
`CallsReturn` holds all the same is due to the bound on calls per thread, that is,
to the other threads not calling for ever.  `BackwardWalk` assumes `WF_vars(Walk)`: the
walk is a loop that waits for nothing.  In the runs with two sides each side keeps
its own fairness.  The remaining specifications state no fairness and no liveness.

### Disagreements between code and documentation

Four runs are expected to fail, and do:

* `call_opens_interval` (`aarch64_register_allocate.rs:564`): a value counts as
  crossing a call only if its interval starts strictly before the call.  With the
  copies of a block argument in edge blocks at the end of the layout, the interval
  of the argument starts *at* the call that opens its block, and the argument is
  left in a register that the call clobbers.  `register_allocate` and the theorems about
  values therefore keep to functions for which `CallsOpenNoInterval` holds when the
  scan begins.
* `reentrant_import` (`importer/intrinsics.rs:1840`): a function is made internal
  after its body was imported, although a constant reached from that body already
  made it weak for a data relocation, which is then left undefined.
* `dse_narrow_store` (`dse.rs:247`): a kill ignores the width of the access, so a
  narrow store deletes an earlier wide store through the same key.
* `narrow_leading_zeros` (`importer/intrinsics.rs:1526`): the leading zeros of a zero
  narrower than 64 bits come out as 64.

The models show more, which are not among the runs.  Those of `lowering` are one
constant of `MCLowering.cfg` away:

* `WideTrunc = TRUE` (`llvm_to_aarch64_isel.rs:747`): a 128-bit constant truncated to
  64 bits keeps its upper half.
* `WideFloatBits = TRUE` (`llvm_to_aarch64_isel.rs:2146`): the bits of a float widened
  to 128 bits, `x.to_bits() as u128`.  `bitcast` and `zext` keep the representation
  and `materialize_pair` passes the register on as it is, so a `d` register
  reaches integer instructions and `xreg` (`encoding.rs:341`) panics; `materialize`
  has the `fmov` for "a value living in the FP file used as an integer" (line 2194).
  `lowering` therefore widens such bits to 64 bits only.
* `SplitPairs = TRUE` (the call arm of the aarch64 selector): a 128-bit argument that
  meets an odd or nearly full register file is sent where the callee, which rounds
  to an even register on Linux and never splits a pair, does not look.
* `BorrowingLanes = TRUE` (`intrinsics.rs:898`): the subtraction that finds equal lanes
  borrows into the next lane.
* `X86Signed = TRUE` (`llvm_to_x86_64_isel.rs:729`): x86-64 divides narrow signed values
  without sign extension, and sign-extends to 128 bits without filling the high half.
* `dse.rs:273`, with `Programs <- MCLoopStore` in `DeadStoresFinding.cfg`: a key
  that contains a loop variable names another address in every iteration, but a
  kill travels along the back edge, so `a[i] = x` in a loop is deleted because the
  next iteration writes "the same" key.  `dead_stores` therefore runs over
  functions with `OneWidthPerKey` and `MovingKeysRead`.
* `config/src/lib.rs:406`, with `"bytes"` added to `MCEnvironments`: a previous value
  that is not valid Unicode is read as unset, and is removed instead of "restoring
  the previous values" (line 376).
* `crabbit/src/lib.rs:534`, `FailedRunLeavesTrace` of `Pipeline`: when lowering the
  kernels or the program stage fails, no trace is written, against "a failed
  pipeline still leaves a trace up to the failing pass" (lines 506-507).

Met while translating, and kept out of the inputs of the runs:

* `ptr_offset_from` divides as `usize`, so a negative distance between elements larger
  than a byte is wrong; `widen_to_u64` is described as zero-extending, but extends
  signed operands by their sign, which `ctpop` then counts.
* `u128` is aligned to 8 in some layouts and to 16 in others, a union to 1; a
  zero-length array field is laid out differently by importer and selector;
  negative discriminants are zero-extended; a unit argument takes a register in the
  caller only; `place_addr` ignores `from_end` of a constant index.
* `loop_carried_fwd.rs:965` expects that the guard's condition has a clone.  A
  condition computed before the loop, or hoisted there by `licm`, has none, and the
  pass panics.  The model has the panic (`Panicked`, the compilation ends: `RunLoopCarriedFwd`
  is not enabled) and `SteadyRecurrences` of `MCMidend` reach it; no property is
  about functions that are never compiled.
* On x86-64 a spilled value may be reloaded between the adjustment of the stack
  pointer and the call, and incoming stack arguments are read before the pushes of
  the prologue are counted.
* `simplify` erases a wider store that nobody read in its block when a narrower one
  follows; `vectorize` takes accesses through distinct bases not to alias.
* A backward pass that fails leaves the profile of the functions it had finished;
  `function_cost` passes on a function's cycles but not the allocator's own.
* `walk.rs:88` calls `Stop::reached` the earliest snapshot the function has a profile
  at.  Since `function_cost` passes on cycles only, a function in which nothing but
  retired instructions was sampled can lose its profile at selection and yet be
  followed to the first snapshot; `ProfileFromStop` speaks of functions with cycles.
* `importer/entry.rs:77`: whether a local function is exported depends on whether
  `import_crate` or a call reaches it first; `elf.rs:133` makes every constant's symbol
  global.  No document says what either should be, so no property does.

## 5. What is proved

All theorems hold for every value of the constants that satisfies the assumptions
named in the modules.

* **RegisterAllocateProofs**, the scan (`TypeCorrect`, `AllocationIsValid`, `CallsAreSafe`,
  `SlotsAreDisjoint`), for every function, pool size and victim policy.  That no
  register is shared is not inductive: the invariant adds that the active sets
  hold exactly the scanned values whose interval has not ended, each in a register
  of its own outside the free list (`ActiveSets`), and that what is still to be
  scanned starts after the end of everything that gave its register back
  (`ScanOrder`), which rests on intervals being scanned by start.
* **RegisterAllocateProofs**, around the scan (`CallerStateKept`, and under `CallsOpenNoInterval`
  `OperandsReadTheirValues` and `CallsLeaveLiveValues`), for every machine function
  that satisfies `IsProgram`, every pool size and both victim policies.  The invariant
  goes through the phases: while a round of liveness has changed nothing, the blocks
  it has visited solve their equations, and no set ever holds a register that some
  path leaves undefined (`LivenessInv`); the points contain every instruction taken so
  far at which a register is live (`IntervalsInv`); the scan's own invariant, with
  registers from the pools (`ScanInv`); each callee-saved register still has the
  caller's value or that value is in its word of the save area, and the three parts of
  the frame are apart (`FrameInv`).  `ValueInv` then says that what is live before the
  next instruction is held by its register, by its slot or by the constant it is
  rematerialized from: a definition cannot overwrite another live value, because both
  intervals contain the instruction and overlapping intervals share neither register
  nor slot, and a call cannot, because what is live after it crosses it.
* **EdgeCopiesProofs** (`MovesKeepParallelMeaning`, `CopiesImplementEdge`,
  `StagedCopiesAreSimultaneous`), for any number of arguments and cycles.  For the
  host moves the invariant says that every pending copy still finds its value in its
  (possibly redirected) source and that every other register already holds its final
  value; refinement of `BlockArguments` follows by taking the edge when the last copy
  is emitted.  For the PTX copies it adds that every staged temporary holds the
  value its source had on entry (`TempsHold`).  Both use that the destinations of an
  edge are distinct.
* **EnvConfigProofs** (`CallersAreIsolated`, `EnvironmentComesBack`), for any number of
  threads, keys and calls, assuming that the process starts with Unicode values
  (`UnicodeOnly`; see the disagreement above).  The invariant ties the environment
  to the progress of the one thread inside the lock, key by key.
* **PipelineProofs** (`CompilationTypes`, `RootNeverOutlivesItsStage`,
  `ModulesGoThroughTheirStages`, `TraceIsComplete`), for every set of effective
  orders whose entries are lists of passes or the error of a bad order
  (`OrdersAssumption`), every option and every place of a failure.  The invariant
  says which stages have been built by now (`Built`), that what a module went
  through followed by what is left of the running stage is the stages before it
  followed by that stage (`Progress`), that even a failed compilation leaves a prefix
  of the whole order (`OnlyPrefixes`), and that dumps and trace list the host's
  passes after the first snapshot (`Dumped`, `Traced`).
* **SymbolsProofs** (`CountsNeverTooLow`, `CopiesNeverCollide`,
  `ObjectLeavesNothingDangling`), for every program, inlining limit and order of
  calls and erasures.  The assumptions separate the name spaces and type the source
  (`SymbolsAssumption`, `ProgramsAssumption`).  The invariant adds that every
  reference of a body has its target in the module or outside it (`References`),
  that what is being imported has been entered (`Entered`), that a copy of another
  crate's function is marked or will be when its import ends (`Copies`), and that a
  function some constant names stays visible (`SlotsExposed`), except for those
  named while being imported, which is the `reentrant_import` disagreement.  The
  counts are inductive because splicing a body in adds no fewer references than
  are counted and erasing one removes no more, which the counting lemmas show for
  sequences of any length.
* **CodeLayoutProofs** (`LayoutKeepsMeaning`, `BytesRunInStep`), for any number of blocks,
  any terminators and block sizes, any chain the placement may build and any width of
  the displacement fields, on both hosts.  The assumptions type the functions
  (`LayoutAssumption`) and give the powers of two of the fields (`FieldsAssumption`).
  For the meaning, the invariant follows the x86-64 blocks through the phases: all
  fall-throughs explicit until placement, each terminator in one of the shapes erasing
  and inverting leave, and a fall-through only onto the block that follows
  (`BranchShape`, `Explicit`, `Settled`).  For the bytes it says that offsets are
  apart, adjacent and aligned (`OffsetsInv`), that memory holds at each address the
  instruction laid out there with the displacement to its target (`MemoryInv`), and
  that the machine stands where the block says (`RunInv`); that a field decodes to
  the displacement it was given is arithmetic on the range check
  (`FieldRoundTrip`).
* **DeadStoresProofs.**  `TypeCorrect` and `EquationsSolved` hold for every function and
  CFG: while a round has changed no `live_in`, the blocks it has visited satisfy
  their equation.  `EliminationIsSound` holds for every function with
  `OneWidthPerKey` and `MovingKeysRead` (`Trusted`), and so does
  `OthersSeeNoDifference` for everyone else who may look at memory when the function
  calls or returns.  The obvious invariant, that live
  bytes agree, is false between a deleted store and the one that overwrites it,
  where a key that aliases the byte may be live.  What is inductive is
  `DifferenceIsDead`: if a byte differs, *some* key that covers it is dead.  A store
  that is kept and overwrites that key makes the byte agree (one width); a branch
  keeps the key dead (the equations) and its address fixed (`MovingKeysRead`); a load
  that touched the byte would have made the key live (`MeetingKeys`).
* **BackwardWalkProofs** (`IdsUniqueAtBoundary`, `NothingKeptBeforeStop`,
  `EveryMeasuredFunctionStops`), for every unstamped source, any number of passes and
  every measured run.  That the ids given at the boundary are distinct needs an
  invariant of the mid-end (`NowStamped`): the operations that will *keep* their id,
  those with one and no call site, have different ones, and every call has an
  attribution.  The second is what makes inlining preserve the first: the copies of
  the callee's operations carry the callee's ids, and only the call site they are
  given, the least source of the call, keeps those from being kept.  Where an
  operation of the changed function stood before is a one-to-one map
  (`PutSites`, `OriginInjective`), from which each pass follows.  That numbers count
  up in program order, and that the fresh ones lie above the largest kept one, are
  facts about cardinalities of sets of positions (`CountsDiffer`, `FreshIds`).  For the
  walk, `WalkInv` says that live and stopped functions make up those measured, that
  nothing is kept below the snapshot the walk is at, and nothing of a stopped
  function below its stop.

Only model-checked:

* Liveness everywhere (`AnalysisEnds`, `CallsReturn`, `CopiesComplete`,
  `EveryFunctionStops`): fairness is out of the prover's reach.
* The properties of `lowering` and `midend`: their models recurse over programs,
  types and words, and an induction over those is out of the prover's reach.
* `CyclesConserved`, `CostStaysWithItsSource` and the other half of
  `ReachedIsEarliest` (`ProfileFromStop`): they follow sums of cycles through folds
  over sets of operations, and the shares of a split cost only add up because the
  period of the run is divisible by every share that occurs.

## 6. What is not modelled

`PROJECT.json` lists every part with its reason.  In short: statements that
translate to one operation, text and byte formats, declarations of dialects,
encodings of instructions other than branches, floating-point frequency estimates
and float lanes of the vectorizer, verifiers and tables without state, and, until
their turn in the plan, NVPTX beyond its edges, the x86-64 allocator and frame,
legalization with large frame offsets (beyond 4095 they go through `x16` and `x17`,
`aarch64_frame_lower.rs:141`, which must hold nothing else there; the allocator's run
has functions whose slots fit), object sections and trace files.
