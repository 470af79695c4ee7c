---------------------------- MODULE BackwardWalk ----------------------------
(***************************************************************************)
(* Backward profile-guided optimisation end to end: a compilation leaves a *)
(* trace of snapshots whose operations the passes stamped, the run of the  *)
(* program is measured on the last snapshot, and the walk                  *)
(* (pliron-bpgo/src/walk.rs) takes the profile back, pass by pass.         *)
(*                                                                         *)
(* A compilation is reduced to what matters here: each pass changes the    *)
(* function `Main` in one of the ways the passes do, with the stamps they  *)
(* give; the other functions only go through instruction selection.        *)
(***************************************************************************)
EXTENDS Profile

CONSTANTS Before,        \* the first snapshot, before the mid-end's dialect
          Source,        \* the functions the mid-end starts from
          Main, Callee,  \* the function the passes change, and one it calls
          MaxPasses,     \* passes that change it, before and after selection
          Lines,         \* what perf may print for the measured run
          Period, ByteLen(_),
          Kinds, Labels  \* operations and block labels of the mid-end

ASSUME MaxPasses \in Nat /\ Period \in Nat \ {0}

\* Operations of the mid-end.  Ids and what refers to them are numbers of
\* operations; negative roots only appear at selection.
Ids == Nat \union {None}
Operations == [kind : Kinds, name : Nat, id : Ids, from : Ids, many : SUBSET Nat,
               call : Ids, origin : SUBSET Nat]
BareOperations == {op \in Operations : ~has_attribution(op)}

\* A defined function has an entry block.
FunctionsOf(ops) == Seq([label : Labels, ops : Seq(ops)]) \ {<<>>}

\* The mid-end is given functions no pass has stamped yet.
ASSUME SourceAssumption ==
  /\ {"br", "shift", "add"} \subseteq Kinds
  /\ {"inlined", "cont"} \subseteq Labels
  /\ Source \in [DOMAIN Source -> FunctionsOf(BareOperations)]
  /\ {Main, Callee} \subseteq DOMAIN Source

VARIABLES stage,    \* "midend", "machine", "measured", "done"
          passes,   \* passes that changed Main
          stamping, \* CRABBIT_PROFILE_MAP is set
          trace,    \* the snapshots, oldest first: a label and the functions
          index,    \* the snapshot the walk is at
          live,     \* the functions it still follows
          prof,     \* the profiles at that snapshot
          kept,     \* the profiles collected per snapshot
          stops,    \* where each function's profile stops
          measured  \* cycles measured per function

vars == <<stage, passes, stamping, trace, index, live, prof, kept, stops, measured>>

compiling == <<index, live, prof, kept, stops, measured>>

Now == trace[Len(trace)].funcs

\* Names no earlier snapshot has: each pass takes its own from a range that
\* is larger than the source's names and than what a pass makes.
NameRoom == 1000
FreshName == NameRoom * Len(trace)

\* A pass leaves a snapshot under its name.
Snapshot(label, funcs) == trace' = Append(trace, [label |-> label, funcs |-> funcs])

Init ==
  /\ stage = "midend" /\ passes = 0 /\ stamping \in BOOLEAN
  /\ trace = <<[label |-> "import", funcs |-> Before],
               [label |-> "lower", funcs |-> Source],
               [label |-> "llvm-op-ids",
                funcs |-> IF stamping THEN [s \in DOMAIN Source |-> assign_op_ids(Source[s])]
                          ELSE Source]>>
  /\ index = 0 /\ live = {} /\ prof = <<>> /\ kept = <<>> /\ stops = <<>>
  /\ measured = <<>>

-----------------------------------------------------------------------------
(* The mid-end's passes. *)

\* A block of a function with its operations lo..hi replaced.
Put(f, b, lo, hi, ops) ==
  [f EXCEPT ![b].ops = SubSeq(@, 1, lo - 1) \o ops \o SubSeq(@, hi + 1, Len(@))]

Rewrite(label, f) ==
  /\ stage = "midend" /\ passes < MaxPasses
  /\ passes' = passes + 1
  /\ Snapshot(label, [Now EXCEPT ![Main] = f])
  /\ UNCHANGED <<stage, stamping, compiling>>

\* The call's block ends in a jump into a copy of the callee, whose returns
\* jump on; the copies name the call site.
Inline ==
  \E at \in Positions(Now[Main]) :
    LET f == Now[Main]
        call == OpAt(f, at)
        sources == effective_sources(call)
        tag(op) == IF sources = {} THEN op ELSE set_inlined_from(op, Min(sources))
        jump(n) == tag(BareOp("br", FreshName + n, call.origin))
        copy(op) == tag([op EXCEPT !.name = FreshName + @, !.origin = call.origin])
        body == Now[Callee][1].ops
        head == SubSeq(f[at[1]].ops, 1, at[2] - 1)
        tail == SubSeq(f[at[1]].ops, at[2] + 1, Len(f[at[1]].ops))
    IN /\ call.kind = "call"
       /\ Rewrite("llvm-inline",
            SubSeq(f, 1, at[1] - 1)
            \o <<Block(f[at[1]].label, Append(head, jump(0))),
                 Block("inlined", Append([i \in 1..(Len(body) - 1) |-> copy(body[i])], jump(100))),
                 Block("cont", tail)>>
            \o SubSeq(f, at[1] + 1, Len(f)))

\* Value numbering drops an operation for an equal one.
Merge ==
  \E at, to \in Positions(Now[Main]) :
    LET f == Now[Main]
    IN /\ Precedes(to, at) /\ OpAt(f, at).kind = OpAt(f, to).kind
       /\ OpAt(f, at).kind \notin {"br", "ret"}
       /\ Rewrite("llvm-gvn",
            Put(Put(f, to[1], to[2], to[2], <<absorb(OpAt(f, to), OpAt(f, at))>>),
                at[1], at[2], at[2], <<>>))

\* An operation becomes a chain of new ones: stamped from the value it
\* computes, from the place it stands at, or - a division - not at all.
Expand ==
  \E at \in Positions(Now[Main]) :
    LET f == Now[Main]
        op == OpAt(f, at)
        news == <<BareOp("shift", FreshName, op.origin), BareOp("add", FreshName + 1, op.origin)>>
        into(ops) == Put(f, at[1], at[2], at[2], ops)
    IN /\ op.kind \notin {"br", "ret", "call"}
       /\ \/ Rewrite("llvm-simplify", into(derive_chain_from(news, op)))
          \/ Rewrite("llvm-sroa", into(stamp_expansion_before(news, op)))
          \/ Rewrite("llvm-div-strength-reduce", into(news))

\* A block's operations once more, ahead of its terminator.
Clone ==
  \E b \in 1..Len(Now[Main]) :
    LET f == Now[Main]
        n == Len(f[b].ops) - 1
        clones == [i \in 1..n |-> stamp_clone(f[b].ops[i], FreshName + i)]
    IN /\ n > 0
       /\ Rewrite("llvm-unroll", Put(f, b, n + 1, n, clones))

Delete ==
  \E at \in Positions(Now[Main]) :
    /\ OpAt(Now[Main], at).kind \notin {"br", "ret", "call"}
    /\ Rewrite("llvm-adce", Put(Now[Main], at[1], at[2], at[2], <<>>))

\* An operation moves to the head of another block.
Move ==
  \E at \in Positions(Now[Main]), b \in 1..Len(Now[Main]) :
    /\ b # at[1] /\ OpAt(Now[Main], at).kind \notin {"br", "ret", "call"}
    /\ Rewrite(IF b < at[1] THEN "llvm-licm" ELSE "llvm-sink",
         Put(Put(Now[Main], at[1], at[2], at[2], <<>>), b, 1, 0, <<OpAt(Now[Main], at)>>))

-----------------------------------------------------------------------------
(* From the boundary to the encoder. *)

\* What the selector emits for an operation: the machine operations, and the
\* ones of a block it makes for an edge.
Emitted(op) ==
  LET new(kind) == BareOp(kind, op.name, op.origin)
  IN CASE op.kind = "call" -> [here |-> <<new("mov"), new("bl")>>, edge |-> <<>>]
       [] op.kind = "br"   -> [here |-> <<new("b")>>, edge |-> <<new("b")>>]
       [] OTHER            -> [here |-> <<new(op.kind)>>, edge |-> <<>>]

\* One source operation: a bracket is opened, its code appended.
Select(s, b, op) ==
  LET open == begin(s, b, op.id)
      filled == [open EXCEPT !.blocks[b].ops = @ \o Emitted(op).here]
  IN IF Emitted(op).edge = <<>> THEN filled
     ELSE [filled EXCEPT !.blocks = Append(@, Block("edge", Emitted(op).edge))]

isel(f) ==
  LET glue == BareOp("mov", 0, {})
      start == preamble(IselStamper(
                 [b \in 1..Len(f) |-> Block(f[b].label, IF b = 1 THEN <<glue>> ELSE <<>>)],
                 f[1].ops[1].id # None))
      block(s, b) == FoldLeft(LAMBDA t, op : Select(t, b, op), s, f[b].ops)
  IN finish(FoldLeftDomain(block, start, f)).blocks

Boundary ==
  /\ stage = "midend"
  /\ stage' = "machine"
  /\ LET numbered == IF stamping THEN [s \in DOMAIN Now |-> assign_boundary_ids(Now[s])] ELSE Now
     IN trace' = trace \o <<[label |-> "aarch64-op-ids", funcs |-> numbered],
                            [label |-> "llvm-to-aarch64-isel",
                             funcs |-> [s \in DOMAIN Now |-> isel(numbered[s])]]>>
  /\ UNCHANGED <<passes, stamping, compiling>>

MachinePass(label, f) ==
  /\ stage = "machine" /\ passes < MaxPasses
  /\ passes' = passes + 1
  /\ Snapshot(label, [Now EXCEPT ![Main] = f])
  /\ UNCHANGED <<stage, stamping, compiling>>

Allocated == \E k \in 1..Len(trace) : trace[k].label = "aarch64-register-allocate"

\* The allocator reloads before an operation and stores after it.
Spill ==
  \E at \in Positions(Now[Main]) :
    LET op == OpAt(Now[Main], at)
        code(kind, n) == inherit_derived_from(op, BareOp(kind, FreshName + n, op.origin),
                                              REGALLOC, stamping)
    IN /\ ~Allocated
       /\ MachinePass("aarch64-register-allocate",
            Put(Now[Main], at[1], at[2], at[2], <<code("ldr", 0), op, code("str", 1)>>))

\* Frame lowering: a prologue, and a frame access written out.
FrameLower ==
  \E at \in Positions(Now[Main]) :
    LET op == OpAt(Now[Main], at)
        part(kind, n) == inherit_derived_from(op, BareOp(kind, FreshName + n, op.origin), FRAME, stamping)
        bare == BareOp("sub_sp", FreshName + 2, {})
        prologue == IF stamping THEN set_derived_from(bare, FRAME) ELSE bare
    IN /\ Allocated
       /\ MachinePass("aarch64-frame-lower",
            Put(Put(Now[Main], at[1], at[2], at[2], <<part("adr", 0), part("ldr_off", 1)>>),
                1, 1, 0, <<prologue>>))

\* Placement moves a block.
Place ==
  \E b \in 2..Len(Now[Main]) :
    MachinePass("aarch64-block-placement",
      <<Now[Main][1], Now[Main][b]>> \o RemoveAt(SubSeq(Now[Main], 2, Len(Now[Main])), b - 1))

-----------------------------------------------------------------------------
(* Measuring, and the walk. *)

Total(p) ==
  [ops |-> FoldSet(LAMBDA at, n : n + p.ops[at].cycles, 0, DOMAIN p.ops),
   own |-> FoldSet(LAMBDA at, n : n + p.ops[at].own, 0, DOMAIN p.ops),
   costs |-> FoldSet(LAMBDA r, n : n + p.costs[r], 0, Roots)]

has_profile(p) ==
  \/ \E at \in DOMAIN p.ops : ~IsEmpty(p.ops[at])
  \/ \E r \in Roots : p.costs[r] > 0

\* The operations with a profile, per function; a snapshot without any is
\* not in the result.
collect(profiles) == {s \in DOMAIN profiles : has_profile(profiles[s])}

Measure ==
  /\ stage = "machine"
  /\ \E lines \in Lines :
       prof' = [s \in DOMAIN Now |->
         attach(Now[s], [at \in Positions(Now[s]) |-> ByteLen(OpAt(Now[s], at))],
                from_perf_script(lines, "cycles", s),
                from_perf_script(lines, "instructions", s), Period)]
  /\ live' = collect(prof')
  /\ kept' = [k \in 1..Len(trace) |-> IF k = Len(trace) THEN live' ELSE {}]
  /\ measured' = [s \in DOMAIN Now |-> Total(prof'[s]).ops]
  /\ stage' = "measured"
  /\ index' = Len(trace)
  /\ UNCHANGED <<passes, stamping, trace, stops>>

\* Mutant of Stop: the snapshot before the one reached is reported.
Stop_OneEarlier(reached, pass) == [reached |-> reached - 1, pass |-> pass]

Stop(reached, pass) == [reached |-> reached, pass |-> pass]

\* The stops, with more functions that stop at one place.
Stopped(functions, stop) ==
  [s \in functions \union DOMAIN stops |-> IF s \in functions THEN stop ELSE stops[s]]

\* Equal printed text, which does not show the stamps.
text(f) ==
  [b \in 1..Len(f) |->
     <<f[b].label, [i \in 1..Len(f[b].ops) |-> <<f[b].ops[i].kind, f[b].ops[i].name>>]>>]

LlvmPasses == {"llvm-inline", "llvm-gvn", "llvm-div-strength-reduce", "llvm-simplify",
               "llvm-sroa", "llvm-adce", "llvm-licm", "llvm-sink", "llvm-unroll"}

MachinePasses == {"aarch64-frame-lower", "aarch64-block-placement", "aarch64-register-allocate"}

Registered == LlvmPasses \union MachinePasses \union {"llvm-to-aarch64-isel"}

run(pass, f, g, start, out) ==
  IF pass \in LlvmPasses THEN LlvmBackward(pass = "llvm-unroll", f, g, start, out)
  ELSE IF pass \in MachinePasses THEN MachineBackward(pass = "aarch64-register-allocate", f, g, start, out)
  ELSE IselBackward(f, g, start, out)

\* A changed function: what belongs to it as a whole stays with it, its
\* operations go through the pass's backward pass.
Through(pass, f, g, out) ==
  even_out_executions(f,
    run(pass, f, g, [Unprofiled(f) EXCEPT !.costs = out.costs], out))

\* One pass back, for every function still followed.
WalkBack ==
  /\ stage = "measured" /\ index > 1 /\ live # {}
  /\ LET pass == trace[index].label
         before == trace[index - 1].funcs
         after == trace[index].funcs
         made == {s \in live : s \notin DOMAIN before}
         same == {s \in live \ made : text(before[s]) = text(after[s])}
         stuck == IF pass \in Registered THEN {} ELSE (live \ made) \ same
     IN /\ prof' = [s \in DOMAIN before |->
                      IF s \in same THEN prof[s]
                      ELSE IF s \in (live \ made) \ stuck
                        THEN Through(pass, before[s], after[s], prof[s])
                      ELSE Unprofiled(before[s])]
        /\ live' = (live \ made) \ stuck
        /\ stops' = Stopped(made \union stuck, Stop(index, pass))
  /\ kept' = [kept EXCEPT ![index - 1] = collect(prof')]
  /\ index' = index - 1
  /\ UNCHANGED <<stage, passes, stamping, trace, measured>>

\* The snapshot before does not parse: every function stops here.
ParseFails ==
  /\ stage = "measured" /\ index > 1 /\ live # {}
  /\ stops' = Stopped(live, Stop(index, trace[index].label))
  /\ live' = {}
  /\ UNCHANGED <<stage, passes, stamping, trace, index, prof, kept, measured>>

\* Mutant of Finish: functions that reached the start get no stop.
Finish_Forgets ==
  /\ stage = "measured" /\ (index = 1 \/ live = {})
  /\ stage' = "done"
  /\ UNCHANGED <<stops, passes, stamping, trace, index, live, prof, kept, measured>>

Finish ==
  /\ stage = "measured" /\ (index = 1 \/ live = {})
  /\ stage' = "done"
  /\ stops' = Stopped(live, Stop(index, ""))
  /\ UNCHANGED <<passes, stamping, trace, index, live, prof, kept, measured>>

Midend == Inline \/ Merge \/ Expand \/ Clone \/ Delete \/ Move

Machine == Spill \/ FrameLower \/ Place

Walk == Finish \/ ParseFails \/ WalkBack

Next == Midend \/ Boundary \/ Machine \/ Measure \/ Walk

Spec == Init /\ [][Next]_vars /\ WF_vars(Walk)

-----------------------------------------------------------------------------
(***************************************************************************)
(* Going back through a pass neither loses nor doubles a measured cycle:   *)
(* what is on the operations, as plain cycles or as the allocator's, and   *)
(* what is on the function make up what was measured, however operations   *)
(* were split, merged, cloned, moved or dropped.                           *)
(***************************************************************************)
CyclesConserved ==
  \A s \in live :
    Total(prof[s]).ops + Total(prof[s]).own + Total(prof[s]).costs = measured[s]

\* No pass of the mid-end left an operation without attribution.
AllStamped ==
  \A k \in 3..Len(trace) : \A s \in DOMAIN trace[k].funcs :
    \A at \in Positions(trace[k].funcs[s]) : has_attribution(OpAt(trace[k].funcs[s], at))

(***************************************************************************)
(* Where every operation is stamped, cycles measured on one only ever      *)
(* arrive at operations that share a source operation with it, through     *)
(* inlining, merging, cloning, renumbering at the boundary, selection and  *)
(* spilling (effective_sources, assign_boundary_ids, IselStamper and the   *)
(* backward passes together).                                              *)
(***************************************************************************)
CostStaysWithItsSource ==
  AllStamped => \A s \in live : \A at \in DOMAIN prof[s].ops :
    LET origin == OpAt(trace[index].funcs[s], at).origin
    IN \A w \in prof[s].ops[at].who : w \intersect origin # {} \/ w \union origin = {}

(***************************************************************************)
(* IselBackward looks operations up by id and takes an id for unique at    *)
(* the boundary: no two operations of a function have one there, whatever  *)
(* was cloned, inlined or created since the ids were given.                *)
(***************************************************************************)
BoundaryIdsUnique ==
  \A k \in 1..Len(trace) :
    stamping /\ trace[k].label = "aarch64-op-ids" =>
      \A s \in DOMAIN trace[k].funcs :
        LET f == trace[k].funcs[s]
        IN \A p, q \in Positions(f) : OpAt(f, p).id = OpAt(f, q).id => p = q

\* A function has no profile before where it is said to stop.
NoProfileBeforeStop ==
  \A s \in DOMAIN stops : \A k \in 1..Len(trace) : s \in kept[k] => k >= stops[s].reached

\* A function with measured cycles has one from there on.
ProfileFromStop ==
  \A s \in DOMAIN stops : \A k \in 1..Len(trace) :
    measured[s] > 0 /\ k >= stops[s].reached => s \in kept[k]

(***************************************************************************)
(* Stop::reached, "the earliest snapshot (index) the function has a        *)
(* profile at": a stopped function has a profile in no snapshot before it  *)
(* and, if cycles were measured in it, in every one from there on (walk,   *)
(* collect).  A function of which only retired instructions were sampled   *)
(* may lose its profile on the way, where all its operations go to the     *)
(* function's costs: only their cycles do (function_cost).                 *)
(***************************************************************************)
ReachedIsEarliest == NoProfileBeforeStop /\ ProfileFromStop

(***************************************************************************)
(* Once measured, the walk ends, with a stop for every function that had a *)
(* profile (the loop of walk and what follows it).                         *)
(***************************************************************************)
EveryFunctionStops ==
  (stage = "measured") ~> (stage = "done" /\ DOMAIN stops = kept[Len(trace)])
=============================================================================
