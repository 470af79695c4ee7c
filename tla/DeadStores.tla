----------------------------- MODULE DeadStores -----------------------------
(***************************************************************************)
(* Global dead-store elimination (passes/llvm/dse.rs over the analyses of  *)
(* passes/llvm/analysis.rs): backward liveness of address keys over the    *)
(* CFG of one function, deletion of the stores whose key is not live, and  *)
(* then the function with and without those stores, run side by side.      *)
(*                                                                         *)
(* A key is an address as the source text spells it: a root (an alloca or  *)
(* another SSA value) and a chain of GEPs.  What it denotes is a byte      *)
(* address; a key that depends on a value of a loop denotes a new one each *)
(* time the block that defines the value is entered.                       *)
(*                                                                         *)
(* A program is a record: succs (of the blocks 1..n, 1 the entry), ops (of *)
(* each block, in order), root (of each key) and moving (the keys each     *)
(* block evaluates anew).  An op is a record: kind, key and w (the bytes   *)
(* accessed) of a load or a store, and args, the allocas whose address the *)
(* op uses in any way but as an address.                                   *)
(***************************************************************************)
EXTENDS Integers, Sequences

CONSTANTS
    Alloca,    \* the stack slots of the function
    Pointer,   \* the other roots of keys
    Outside,   \* where memory that is no stack slot of the function belongs
    Home,      \* byte address -> the slot it belongs to, or Outside
    Value,     \* what a byte holds
    NoKey,     \* the key of an op that accesses nothing itself
    Programs   \* the functions optimized

Byte == DOMAIN Home

VARIABLES
    prog,      \* the function
    phase,     \* "fixpoint", "delete", "run" or "done"
    cursor,    \* the block the pass looks at
    changed,   \* whether this round changed a live_in
    live_in,   \* block -> the keys that may be read from its start on
    live_out,  \* block -> the keys that may be read after it
    deleted,   \* the stores erased, as <<block, position>>
    addr,      \* key -> the address it denotes now
    at, pos,   \* the op executed next
    mem,       \* the memory of the function as it was
    omem       \* the memory of the function without the deleted stores

analysis == <<cursor, changed, live_in, live_out, deleted>>
execution == <<addr, at, pos, mem, omem>>
vars == <<prog, phase, analysis, execution>>

-----------------------------------------------------------------------------
(* The function.                                                           *)

Blocks(p) == 1 .. Len(p.succs)
Keys(p) == DOMAIN p.root
Positions(p, b) == 1 .. Len(p.ops[b])
Op(p, b, i) == p.ops[b][i]

\* Every op of the function.
AllOps(p) == UNION {{Op(p, b, i) : i \in Positions(p, b)} : b \in Blocks(p)}

OpKind == {"store", "load", "call", "benign"}

IsProgram(p) ==
    /\ p.succs \in Seq(SUBSET Blocks(p)) /\ p.succs # <<>>
    /\ p.root \in [Keys(p) -> Alloca \cup Pointer]
    /\ p.moving \in [Blocks(p) -> SUBSET Keys(p)]
    /\ p.ops \in [Blocks(p) -> Seq([kind : OpKind, key : Keys(p) \cup {NoKey}, w : Nat,
                                    args : SUBSET Alloca])]
    /\ \A o \in AllOps(p) : o.kind \in {"load", "store"} => o.key \in Keys(p)

ASSUME HomeAssumption ==
    /\ Byte \subseteq Int
    /\ \A c \in Byte : Home[c] \in Alloca \cup {Outside}
    /\ Outside \notin Alloca
ASSUME ProgramsAssumption == \A p \in Programs : IsProgram(p)

\* The allocas whose address is only ever an address: no op stores it as a
\* value, passes it, converts it or returns it.
nonescaping_allocas(p) == {a \in Alloca : \A o \in AllOps(p) : a \notin o.args}

Protected(p, k) == p.root[k] \in nonescaping_allocas(p)

\* Whether code that is not this function's may come to know an address of
\* the object: some op gave an address of it away.
Reachable(p, object) == object \notin Alloca \/ \E o \in AllOps(p) : object \in o.args

\* The bytes an access of w bytes at address a touches.
Span(a, w) == {c \in Byte : a <= c /\ c < a + w}

\* The addresses key k may denote: inside its alloca, or, from any other
\* root, wherever an address can have come from.
Denotes(p, k, a) ==
    \A o \in AllOps(p) : o.kind \in {"load", "store"} /\ o.key = k =>
        \A c \in a .. a + o.w - 1 :
            /\ c \in Byte
            /\ IF p.root[k] \in Alloca THEN Home[c] = p.root[k]
               ELSE Reachable(p, Home[c])

-----------------------------------------------------------------------------
(* KeyTable and the per-block sets.                                        *)

\* Mutant of Distinct: a slot is distinct from every other root.
DistinctSlots(p, a, b) ==
    p.root[a] # p.root[b] /\ (p.root[a] \in Alloca \/ p.root[b] \in Alloca)

\* Keys the pass takes to be provably distinct.
Distinct(p, a, b) ==
    /\ p.root[a] # p.root[b]
    /\ \/ p.root[a] \in Alloca /\ p.root[b] \in Alloca
       \/ Protected(p, a)
       \/ Protected(p, b)

unknown_read(p) == {k \in Keys(p) : ~Protected(p, k)}

\* What an op makes live.
ReadSet(p, o) ==
    {k \in Keys(p) : \/ o.kind = "load" /\ ~Distinct(p, o.key, k)
                     \/ o.kind = "call" /\ k \in unknown_read(p)}

Overwrites(o, k) == o.kind = "store" /\ o.key = k

\* Read before overwritten, and overwritten before read, in block b.
gens(p, b) ==
    {k \in Keys(p) : \E i \in Positions(p, b) :
        /\ k \in ReadSet(p, Op(p, b, i))
        /\ \A j \in 1 .. i - 1 : ~Overwrites(Op(p, b, j), k)}

kills(p, b) ==
    {k \in Keys(p) : \E i \in Positions(p, b) :
        /\ Overwrites(Op(p, b, i), k)
        /\ \A j \in 1 .. i - 1 : k \notin ReadSet(p, Op(p, b, j))}

transfer(p, b, out) == gens(p, b) \cup (out \ kills(p, b))

\* Mutant of BlockOut: nothing is observed after the function returns.
BlockOutNoBoundary(p, in, b) == UNION {in[s] : s \in p.succs[b]}

\* What is live after block b: the boundary is what a caller may read.
BlockOut(p, in, b) ==
    IF p.succs[b] = {} THEN unknown_read(p) ELSE UNION {in[s] : s \in p.succs[b]}

Boundary(p, b) == IF p.succs[b] = {} THEN unknown_read(p) ELSE {}

-----------------------------------------------------------------------------
(* backward_bitset_fixpoint.                                               *)

Init ==
    /\ prog \in Programs
    /\ phase = "fixpoint"
    /\ cursor = Len(prog.succs)
    /\ changed = FALSE
    /\ live_out = [b \in Blocks(prog) |-> Boundary(prog, b)]
    /\ live_in = [b \in Blocks(prog) |-> transfer(prog, b, Boundary(prog, b))]
    /\ deleted = {}
    /\ addr = <<>> /\ at = 1 /\ pos = 1 /\ mem = <<>> /\ omem = <<>>

\* Mutant of Propagate: a changed live_in is not noticed.
PropagateUnwatched ==
    /\ phase = "fixpoint" /\ cursor > 0
    /\ live_out' = [live_out EXCEPT ![cursor] = BlockOut(prog, live_in, cursor)]
    /\ live_in' = [live_in EXCEPT ![cursor] =
                     transfer(prog, cursor, BlockOut(prog, live_in, cursor))]
    /\ cursor' = cursor - 1
    /\ UNCHANGED <<prog, phase, changed, deleted, execution>>

\* One block of a round, the last one first.
Propagate ==
    /\ phase = "fixpoint" /\ cursor > 0
    /\ LET out == BlockOut(prog, live_in, cursor)
           in == IF out = live_out[cursor] THEN live_in[cursor]
                 ELSE transfer(prog, cursor, out)
       IN  /\ live_out' = [live_out EXCEPT ![cursor] = out]
           /\ live_in' = [live_in EXCEPT ![cursor] = in]
           /\ changed' = (changed \/ in # live_in[cursor])
    /\ cursor' = cursor - 1
    /\ UNCHANGED <<prog, phase, deleted, execution>>

\* Mutant of NextRound: changed is not reset.
NextRoundNoReset ==
    /\ phase = "fixpoint" /\ cursor = 0 /\ changed
    /\ cursor' = Len(prog.succs)
    /\ UNCHANGED <<prog, phase, changed, live_in, live_out, deleted, execution>>

NextRound ==
    /\ phase = "fixpoint" /\ cursor = 0 /\ changed
    /\ cursor' = Len(prog.succs)
    /\ changed' = FALSE
    /\ UNCHANGED <<prog, phase, live_in, live_out, deleted, execution>>

EndFixpoint ==
    /\ phase = "fixpoint" /\ cursor = 0 /\ ~changed
    /\ phase' = "delete"
    /\ cursor' = 1
    /\ UNCHANGED <<prog, changed, live_in, live_out, deleted, execution>>

-----------------------------------------------------------------------------
(* Deletion.                                                               *)

\* The keys live before position i of block b, given those live after b.
LiveBefore(p, out, b, i) ==
    {k \in Keys(p) :
        \/ \E j \in i .. Len(p.ops[b]) :
              /\ k \in ReadSet(p, Op(p, b, j))
              /\ \A m \in i .. j - 1 : ~Overwrites(Op(p, b, m), k)
        \/ /\ k \in out[b]
           /\ \A m \in i .. Len(p.ops[b]) : ~Overwrites(Op(p, b, m), k)}

DeadIn(p, out, b) ==
    {i \in Positions(p, b) :
        Op(p, b, i).kind = "store" /\ Op(p, b, i).key \notin LiveBefore(p, out, b, i + 1)}

DeleteIn ==
    /\ phase = "delete" /\ cursor \in Blocks(prog)
    /\ deleted' = deleted \cup ({cursor} \X DeadIn(prog, live_out, cursor))
    /\ cursor' = cursor + 1
    /\ UNCHANGED <<prog, phase, changed, live_in, live_out, execution>>

\* Both functions are called, in the same memory.
Start ==
    /\ phase = "delete" /\ cursor \notin Blocks(prog)
    /\ phase' = "run"
    /\ addr' \in [Keys(prog) -> Byte]
    /\ \A k \in Keys(prog) : Denotes(prog, k, addr'[k])
    /\ \E v \in Value : mem' = [c \in Byte |-> v]
    /\ omem' = mem'
    /\ UNCHANGED <<prog, analysis, at, pos>>

-----------------------------------------------------------------------------
(* Execution.  Both functions read the same values (LoadsReadTheSame), so  *)
(* they compute the same values and take the same branches.                *)

Running == phase = "run" /\ pos \in Positions(prog, at)
Current == Op(prog, at, pos)

Written(m, c, v) == [m EXCEPT ![c] = v]
StoreTo(m, v) == [c \in Byte |-> IF c \in Span(addr[Current.key], Current.w) THEN v ELSE m[c]]

ExecuteStore ==
    /\ Running /\ Current.kind = "store"
    /\ \E v \in Value :
          /\ mem' = StoreTo(mem, v)
          /\ omem' = IF <<at, pos>> \in deleted THEN omem ELSE StoreTo(omem, v)
    /\ pos' = pos + 1
    /\ UNCHANGED <<prog, phase, analysis, addr, at>>

\* A load, or an op that neither reads nor writes memory.
ExecuteBenign ==
    /\ Running /\ Current.kind \in {"load", "benign"}
    /\ pos' = pos + 1
    /\ UNCHANGED <<prog, phase, analysis, addr, at, mem, omem>>

\* A callee may write what it can reach.
ExecuteCall ==
    /\ Running /\ Current.kind = "call"
    /\ \/ UNCHANGED <<mem, omem>>
       \/ \E c \in Byte, v \in Value :
             /\ Reachable(prog, Home[c])
             /\ mem' = Written(mem, c, v)
             /\ omem' = Written(omem, c, v)
    /\ pos' = pos + 1
    /\ UNCHANGED <<prog, phase, analysis, addr, at>>

\* Control reaches a block, whose moving keys get new addresses.
Branch ==
    /\ phase = "run" /\ pos \notin Positions(prog, at)
    /\ at' \in prog.succs[at]
    /\ pos' = 1
    /\ \E new \in [prog.moving[at'] -> Byte] :
          /\ \A k \in prog.moving[at'] : Denotes(prog, k, new[k])
          /\ addr' = [k \in Keys(prog) |-> IF k \in prog.moving[at'] THEN new[k] ELSE addr[k]]
    /\ UNCHANGED <<prog, phase, analysis, mem, omem>>

Return ==
    /\ phase = "run" /\ pos \notin Positions(prog, at)
    /\ prog.succs[at] = {}
    /\ phase' = "done"
    /\ UNCHANGED <<prog, analysis, execution>>

Analyse == Propagate \/ NextRound \/ EndFixpoint \/ DeleteIn \/ Start
Execute == ExecuteStore \/ ExecuteBenign \/ ExecuteCall \/ Branch \/ Return
Next == Analyse \/ Execute

Spec == Init /\ [][Next]_vars /\ WF_vars(Analyse)

-----------------------------------------------------------------------------
\* The shape of the state.
TypeOK ==
    /\ IsProgram(prog)
    /\ phase \in {"fixpoint", "delete", "run", "done"}
    /\ cursor \in 0 .. Len(prog.succs) + 1
    /\ changed \in BOOLEAN
    /\ live_in \in [Blocks(prog) -> SUBSET Keys(prog)]
    /\ live_out \in [Blocks(prog) -> SUBSET Keys(prog)]
    /\ at \in Blocks(prog) /\ pos \in Nat
    /\ phase \in {"run", "done"} =>
          /\ addr \in [Keys(prog) -> Byte]
          /\ mem \in [Byte -> Value] /\ omem \in [Byte -> Value]

(***************************************************************************)
(* "every path to the function exit overwrites the identical key before    *)
(* anything could read it": no load of the function reads a byte a deleted *)
(* store should have written (dse_region).                                 *)
(***************************************************************************)
LoadsReadTheSame ==
    Running /\ Current.kind = "load" =>
        \A c \in Span(addr[Current.key], Current.w) : mem[c] = omem[c]

(***************************************************************************)
(* Nobody else sees a difference either: not a callee, in the memory it    *)
(* can reach, and not the caller, once the function has returned           *)
(* (unknown_read as what calls read and as the boundary of the exits).     *)
(***************************************************************************)
OthersReadTheSame ==
    /\ Running /\ Current.kind = "call" =>
          \A c \in Byte : Reachable(prog, Home[c]) => mem[c] = omem[c]
    /\ phase = "done" => \A c \in Byte : Home[c] = Outside => mem[c] = omem[c]

(***************************************************************************)
(* When the rounds end, the sets solve the liveness equations, although    *)
(* the loop only watches live_in and stops after a round that changed none *)
(* (backward_bitset_fixpoint).                                             *)
(***************************************************************************)
EquationsHold ==
    phase # "fixpoint" =>
        \A b \in Blocks(prog) :
            /\ live_out[b] = BlockOut(prog, live_in, b)
            /\ live_in[b] = transfer(prog, b, live_out[b])

\* The rounds end: live sets only grow, and a round that adds nothing is the last.
AnalysisEnds == <>(phase = "run")

-----------------------------------------------------------------------------
(* What the pass takes for granted.                                        *)

\* The stores to one key all write the same bytes.
OneWidthPerKey(p) ==
    \A o, q \in AllOps(p) :
        o.kind = "store" /\ q.kind = "store" /\ o.key = q.key => o.w = q.w

\* A key that denotes a new address whenever a block is entered may be read
\* in that block before it is overwritten, so no store to it is deleted on
\* the way there: every key of a function without loops, and a[i] in a loop
\* that reads it first.
MovingKeysRead(p) == \A b \in Blocks(p) : p.moving[b] \subseteq gens(p, b)
=============================================================================
