-------------------------- MODULE DeadStoresProofs --------------------------
(***************************************************************************)
(* Dead-store elimination is right for every function whose keys mean what *)
(* the pass takes them to mean.  The invariant does not say that live      *)
(* bytes agree: between a deleted store and the store that overwrites it,  *)
(* a byte differs although keys that may alias it are live.  It says that  *)
(* whenever a byte differs, some key that covers it is dead.               *)
(***************************************************************************)
EXTENDS DeadStores, TLAPS

\* What the pass takes for granted, of every function it is given.
Trusted == \A p \in Programs : OneWidthPerKey(p) /\ MovingKeysRead(p)

\* The shape of the state, of the analysis and of the execution.
AnalysisShape ==
    /\ prog \in Programs
    /\ phase \in {"fixpoint", "delete", "run", "done"}
    /\ cursor \in 0 .. Len(prog.succs) + 1
    /\ phase = "fixpoint" => cursor \in 0 .. Len(prog.succs)
    /\ changed \in BOOLEAN
    /\ live_in \in [Blocks(prog) -> SUBSET Keys(prog)]
    /\ live_out \in [Blocks(prog) -> SUBSET Keys(prog)]
    /\ at \in Blocks(prog)
    /\ pos \in 1 .. Len(prog.ops[at]) + 1

ExecutionShape ==
    phase \in {"run", "done"} =>
        /\ addr \in [Keys(prog) -> Byte]
        /\ mem \in [Byte -> Value] /\ omem \in [Byte -> Value]
        /\ \A k \in Keys(prog) : Denotes(prog, k, addr[k])
        /\ phase = "done" => prog.succs[at] = {} /\ pos \notin Positions(prog, at)

\* The fixpoint under way: live_in follows live_out, and as long as a round
\* has changed no live_in, the blocks it has seen satisfy their equation.
Equations ==
    /\ \A b \in Blocks(prog) : live_in[b] = transfer(prog, b, live_out[b])
    /\ \A b \in Blocks(prog) :
          (phase = "fixpoint" => ~changed /\ b > cursor) =>
              live_out[b] = BlockOut(prog, live_in, b)

\* Only stores that the final sets call dead are deleted.
DeletedAreDead ==
    /\ phase = "fixpoint" => deleted = {}
    /\ \A d \in deleted : d[1] \in Blocks(prog) /\ d[2] \in DeadIn(prog, live_out, d[1])

\* A store to key k writes byte c.
Covers(p, a, k, c) ==
    \E o \in AllOps(p) : Overwrites(o, k) /\ c \in Span(a[k], o.w)

\* Whenever a byte differs, some key that covers it is dead.
DifferenceIsDead ==
    phase \in {"run", "done"} =>
        \A c \in Byte : mem[c] # omem[c] =>
            \E k \in Keys(prog) :
                k \notin LiveBefore(prog, live_out, at, pos) /\ Covers(prog, addr, k, c)

\* What holds of every function, and what holds of those the pass is right about.
PassInv == AnalysisShape /\ ExecutionShape /\ Equations /\ DeletedAreDead
IInv == PassInv /\ DifferenceIsDead

-----------------------------------------------------------------------------
\* An element of a sequence over S is in S.
LEMMA ElementOf == ASSUME NEW S, NEW s \in Seq(S), NEW i \in 1 .. Len(s) PROVE s[i] \in S
  OBVIOUS

\* The parts of a program have their types.
LEMMA ProgramFacts ==
    ASSUME NEW p \in Programs
    PROVE  /\ Len(p.succs) \in Nat /\ Len(p.succs) >= 1
           /\ \A b \in Blocks(p) : p.succs[b] \subseteq Blocks(p)
           /\ \A b \in Blocks(p) : Len(p.ops[b]) \in Nat
           /\ \A b \in Blocks(p) : p.moving[b] \subseteq Keys(p)
           /\ \A o \in AllOps(p) : o.w \in Nat
           /\ \A o \in AllOps(p) : o.kind \in {"load", "store"} => o.key \in Keys(p)
<1>1. IsProgram(p)
  BY ProgramsAssumption
<1>2. Len(p.succs) \in Nat /\ Len(p.succs) >= 1
  BY <1>1 DEF IsProgram
<1>3. \A b \in Blocks(p) : p.succs[b] \subseteq Blocks(p)
  BY <1>1 DEF IsProgram, Blocks
<1>4. \A b \in Blocks(p) : p.ops[b] \in Seq([kind : OpKind, key : Keys(p) \cup {NoKey}, w : Nat,
                                             args : SUBSET Alloca])
  BY <1>1 DEF IsProgram
<1>5. \A o \in AllOps(p) : o.w \in Nat
  <2>1. SUFFICES ASSUME NEW b \in Blocks(p), NEW i \in Positions(p, b)
                 PROVE  Op(p, b, i).w \in Nat
    BY DEF AllOps
  <2>2. p.ops[b][i] \in [kind : OpKind, key : Keys(p) \cup {NoKey}, w : Nat, args : SUBSET Alloca]
    BY <1>4, ElementOf DEF Positions
  <2> QED
    BY <2>2 DEF Op
<1> QED
  BY <1>1, <1>2, <1>3, <1>4, <1>5 DEF IsProgram

\* An op of the function is one of its ops.
LEMMA OpIsOne ==
    ASSUME NEW p, NEW b \in Blocks(p), NEW i \in Positions(p, b)
    PROVE  Op(p, b, i) \in AllOps(p)
  BY DEF AllOps

\* A key that is dead before an op is not read by it, and stays dead after it
\* unless the op overwrites it.
LEMMA DeadBeforeOp ==
    ASSUME NEW p \in Programs, NEW out, NEW b \in Blocks(p), NEW i \in Positions(p, b),
           NEW k \in Keys(p), k \notin LiveBefore(p, out, b, i)
    PROVE  /\ k \notin ReadSet(p, Op(p, b, i))
           /\ ~Overwrites(Op(p, b, i), k) => k \notin LiveBefore(p, out, b, i + 1)
<1>0. Len(p.ops[b]) \in Nat /\ i \in 1 .. Len(p.ops[b])
  BY ProgramFacts DEF Positions
<1>1. k \notin ReadSet(p, Op(p, b, i))
  <2>1. \A m \in i .. i - 1 : ~Overwrites(Op(p, b, m), k)
    BY <1>0
  <2>2. i \in i .. Len(p.ops[b])
    BY <1>0
  <2> QED
    BY <2>1, <2>2 DEF LiveBefore
<1>2. ASSUME ~Overwrites(Op(p, b, i), k), k \in LiveBefore(p, out, b, i + 1)
      PROVE  FALSE
  <2>1. CASE \E j \in i + 1 .. Len(p.ops[b]) :
               /\ k \in ReadSet(p, Op(p, b, j))
               /\ \A m \in i + 1 .. j - 1 : ~Overwrites(Op(p, b, m), k)
    <3>1. PICK j \in i + 1 .. Len(p.ops[b]) :
               /\ k \in ReadSet(p, Op(p, b, j))
               /\ \A m \in i + 1 .. j - 1 : ~Overwrites(Op(p, b, m), k)
      BY <2>1
    <3>2. \A m \in i .. j - 1 : m = i \/ m \in i + 1 .. j - 1
      BY <1>0
    <3>3. \A m \in i .. j - 1 : ~Overwrites(Op(p, b, m), k)
      BY <1>2, <3>1, <3>2
    <3>4. j \in i .. Len(p.ops[b])
      BY <1>0
    <3> QED
      BY <3>1, <3>3, <3>4 DEF LiveBefore
  <2>2. CASE /\ k \in out[b]
             /\ \A m \in i + 1 .. Len(p.ops[b]) : ~Overwrites(Op(p, b, m), k)
    <3>1. \A m \in i .. Len(p.ops[b]) : m = i \/ m \in i + 1 .. Len(p.ops[b])
      BY <1>0
    <3>2. \A m \in i .. Len(p.ops[b]) : ~Overwrites(Op(p, b, m), k)
      BY <1>2, <2>2, <3>1
    <3> QED
      BY <2>2, <3>2 DEF LiveBefore
  <2> QED
    BY <1>2, <2>1, <2>2 DEF LiveBefore
<1> QED
  BY <1>1, <1>2

\* What is live before the first op of a block is in its live_in set.
LEMMA LiveAtStart ==
    ASSUME NEW p \in Programs, NEW out, NEW b \in Blocks(p), NEW k \in Keys(p),
           k \in LiveBefore(p, out, b, 1)
    PROVE  k \in transfer(p, b, out[b])
<1>0. Len(p.ops[b]) \in Nat /\ Positions(p, b) = 1 .. Len(p.ops[b])
  BY ProgramFacts DEF Positions
<1>1. CASE \E j \in 1 .. Len(p.ops[b]) :
             /\ k \in ReadSet(p, Op(p, b, j))
             /\ \A m \in 1 .. j - 1 : ~Overwrites(Op(p, b, m), k)
  <2>1. k \in gens(p, b)
    BY <1>0, <1>1 DEF gens
  <2> QED
    BY <2>1 DEF transfer
<1>2. CASE /\ k \in out[b]
           /\ \A m \in 1 .. Len(p.ops[b]) : ~Overwrites(Op(p, b, m), k)
  <2>1. k \notin kills(p, b)
    BY <1>0, <1>2 DEF kills
  <2> QED
    BY <1>2, <2>1 DEF transfer
<1> QED
  BY <1>1, <1>2 DEF LiveBefore

\* What is dead at the end of a block is not in its live_out set.
LEMMA DeadAtEnd ==
    ASSUME NEW p \in Programs, NEW out, NEW b \in Blocks(p), NEW k \in Keys(p),
           NEW i \in 1 .. Len(p.ops[b]) + 1, i \notin Positions(p, b),
           k \notin LiveBefore(p, out, b, i)
    PROVE  k \notin out[b]
<1>1. Len(p.ops[b]) \in Nat
  BY ProgramFacts
<1>2. i .. Len(p.ops[b]) = {}
  BY <1>1 DEF Positions
<1> QED
  BY <1>2 DEF LiveBefore

\* Keys whose accesses can meet in a byte are never taken to be distinct.
LEMMA MeetingKeys ==
    ASSUME NEW p \in Programs, NEW a \in [Keys(p) -> Byte],
           \A k \in Keys(p) : Denotes(p, k, a[k]),
           NEW o \in AllOps(p), o.kind \in {"load", "store"},
           NEW q \in AllOps(p), q.kind \in {"load", "store"},
           NEW c \in Span(a[o.key], o.w), c \in Span(a[q.key], q.w)
    PROVE  ~Distinct(p, o.key, q.key)
<1>1. /\ o.key \in Keys(p) /\ q.key \in Keys(p)
      /\ o.w \in Nat /\ q.w \in Nat
  BY ProgramFacts
<1>2. c \in a[o.key] .. a[o.key] + o.w - 1 /\ c \in a[q.key] .. a[q.key] + q.w - 1
  BY <1>1, HomeAssumption DEF Span
<1>3. /\ IF p.root[o.key] \in Alloca THEN Home[c] = p.root[o.key] ELSE Reachable(p, Home[c])
      /\ IF p.root[q.key] \in Alloca THEN Home[c] = p.root[q.key] ELSE Reachable(p, Home[c])
  BY <1>1, <1>2 DEF Denotes
<1>4. \A r \in nonescaping_allocas(p) : r \in Alloca /\ ~Reachable(p, r)
  BY DEF nonescaping_allocas, Reachable
<1> QED
  BY <1>3, <1>4 DEF Distinct, Protected

\* An alloca key's bytes belong to the alloca: what a protected key covers is
\* out of everyone else's reach.
LEMMA ProtectedBytes ==
    ASSUME NEW p \in Programs, NEW a \in [Keys(p) -> Byte],
           \A k \in Keys(p) : Denotes(p, k, a[k]),
           NEW o \in AllOps(p), o.kind \in {"load", "store"}, Protected(p, o.key),
           NEW c \in Span(a[o.key], o.w)
    PROVE  ~Reachable(p, Home[c]) /\ Home[c] \in Alloca
<1>1. o.key \in Keys(p) /\ o.w \in Nat
  BY ProgramFacts
<1>2. c \in a[o.key] .. a[o.key] + o.w - 1
  BY <1>1, HomeAssumption DEF Span
<1>3. p.root[o.key] \in Alloca /\ ~Reachable(p, p.root[o.key])
  BY DEF Protected, nonescaping_allocas, Reachable
<1> QED
  BY <1>1, <1>2, <1>3 DEF Denotes

-----------------------------------------------------------------------------
\* The sets the pass computes are sets of keys.
LEMMA SetsOfKeys ==
    ASSUME NEW p \in Programs, NEW b \in Blocks(p), NEW in \in [Blocks(p) -> SUBSET Keys(p)],
           NEW out \in SUBSET Keys(p)
    PROVE  /\ BlockOut(p, in, b) \subseteq Keys(p)
           /\ Boundary(p, b) \subseteq Keys(p)
           /\ transfer(p, b, out) \subseteq Keys(p)
<1>1. p.succs[b] \subseteq Blocks(p)
  BY ProgramFacts
<1> QED
  BY <1>1 DEF BlockOut, Boundary, transfer, gens, kills, unknown_read

\* Boundary sets and their transfer are a legal start of the rounds.
LEMMA InitIInv == Init => IInv
<1> SUFFICES ASSUME Init PROVE IInv
  OBVIOUS
<1>0. /\ prog \in Programs /\ phase = "fixpoint" /\ cursor = Len(prog.succs) /\ changed = FALSE
      /\ live_out = [b \in Blocks(prog) |-> Boundary(prog, b)]
      /\ live_in = [b \in Blocks(prog) |-> transfer(prog, b, Boundary(prog, b))]
      /\ deleted = {} /\ at = 1 /\ pos = 1
  BY DEF Init
<1>1. /\ Len(prog.succs) \in Nat /\ Len(prog.succs) >= 1
      /\ \A b \in Blocks(prog) : Len(prog.ops[b]) \in Nat
  BY <1>0, ProgramFacts
<1>2. 1 \in Blocks(prog)
  BY <1>1 DEF Blocks
<1>3. \A b \in Blocks(prog) : Boundary(prog, b) \in SUBSET Keys(prog)
  BY DEF Boundary, unknown_read
<1>4. \A b \in Blocks(prog) : transfer(prog, b, Boundary(prog, b)) \in SUBSET Keys(prog)
  BY <1>3 DEF transfer, gens
<1>5. AnalysisShape
  <2>1. cursor \in 0 .. Len(prog.succs)
    BY <1>0, <1>1
  <2>2. cursor \in 0 .. Len(prog.succs) + 1
    BY <1>0, <1>1
  <2>3. at \in Blocks(prog)
    BY <1>0, <1>2
  <2>4. pos \in 1 .. Len(prog.ops[at]) + 1
    <3>1. Len(prog.ops[at]) \in Nat
      BY <1>1, <2>3
    <3> QED
      BY <1>0, <3>1
  <2>5. /\ live_in \in [Blocks(prog) -> SUBSET Keys(prog)]
        /\ live_out \in [Blocks(prog) -> SUBSET Keys(prog)]
    BY <1>0, <1>3, <1>4
  <2> QED
    BY <1>0, <2>1, <2>2, <2>3, <2>4, <2>5 DEF AnalysisShape
<1>6. Equations
  BY <1>0, <1>1 DEF Equations, Blocks
<1> QED
  BY <1>0, <1>5, <1>6 DEF IInv, PassInv, ExecutionShape, DeletedAreDead, DifferenceIsDead

-----------------------------------------------------------------------------
\* One block of a round.
LEMMA PropagateStep ==
    ASSUME PassInv, Propagate
    PROVE  PassInv'
<1> DEFINE out == BlockOut(prog, live_in, cursor)
           in == IF out = live_out[cursor] THEN live_in[cursor] ELSE transfer(prog, cursor, out)
<1>0. /\ prog \in Programs /\ phase = "fixpoint"
      /\ cursor \in 0 .. Len(prog.succs) /\ cursor > 0
      /\ live_in \in [Blocks(prog) -> SUBSET Keys(prog)]
      /\ live_out \in [Blocks(prog) -> SUBSET Keys(prog)]
      /\ changed \in BOOLEAN
      /\ deleted = {}
  BY DEF PassInv, AnalysisShape, DeletedAreDead, Propagate
<1>1. /\ prog' = prog /\ phase' = phase /\ deleted' = deleted
      /\ addr' = addr /\ at' = at /\ pos' = pos /\ mem' = mem /\ omem' = omem
      /\ cursor' = cursor - 1
      /\ live_out' = [live_out EXCEPT ![cursor] = out]
      /\ live_in' = [live_in EXCEPT ![cursor] = in]
      /\ changed' = (changed \/ in # live_in[cursor])
  BY DEF Propagate, execution
<1>2. Len(prog.succs) \in Nat /\ cursor \in Blocks(prog)
  BY <1>0, ProgramFacts DEF Blocks
<1>3. live_in[cursor] = transfer(prog, cursor, live_out[cursor])
  BY <1>2 DEF PassInv, Equations
<1>4. in = transfer(prog, cursor, out)
  BY <1>3
<1>5. out \in SUBSET Keys(prog)
  BY <1>0, <1>2, SetsOfKeys
<1>6. in \in SUBSET Keys(prog)
  BY <1>0, <1>2, <1>4, <1>5, SetsOfKeys
<1> HIDE DEF out, in
<1>7. AnalysisShape'
  <2>1. /\ live_in' \in [Blocks(prog) -> SUBSET Keys(prog)]
        /\ live_out' \in [Blocks(prog) -> SUBSET Keys(prog)]
    BY <1>0, <1>1, <1>5, <1>6
  <2>2. cursor' \in 0 .. Len(prog.succs) /\ cursor' \in 0 .. Len(prog.succs) + 1
    BY <1>0, <1>1, <1>2
  <2>3. changed' \in BOOLEAN
    BY <1>0, <1>1
  <2> QED
    BY <1>0, <1>1, <2>1, <2>2, <2>3 DEF PassInv, AnalysisShape
<1>8. Equations'
  <2>1. \A b \in Blocks(prog) : live_in'[b] = transfer(prog, b, live_out'[b])
    <3>1. \A b \in Blocks(prog) : live_in[b] = transfer(prog, b, live_out[b])
      BY DEF PassInv, Equations
    <3> QED
      BY <1>0, <1>1, <1>2, <1>4, <3>1
  <2>2. ASSUME NEW b \in Blocks(prog), ~changed', b > cursor'
        PROVE  live_out'[b] = BlockOut(prog, live_in', b)
    <3>1. ~changed /\ in = live_in[cursor]
      BY <1>1, <2>2
    <3>2. live_in' = live_in
      BY <1>0, <1>1, <1>2, <3>1
    <3>3. CASE b = cursor
      BY <1>0, <1>1, <1>2, <3>2, <3>3 DEF out
    <3>4. CASE b # cursor
      <4>1. b > cursor
        BY <1>0, <1>1, <2>2, <3>4 DEF Blocks
      <4>2. live_out[b] = BlockOut(prog, live_in, b)
        BY <3>1, <4>1 DEF PassInv, Equations
      <4> QED
        BY <1>0, <1>1, <1>2, <3>2, <3>4, <4>2
    <3> QED
      BY <3>3, <3>4
  <2> QED
    BY <1>0, <1>1, <2>1, <2>2 DEF Equations
<1> QED
  BY <1>0, <1>1, <1>7, <1>8 DEF PassInv, ExecutionShape, DeletedAreDead

\* A new round, and the end of the rounds.
LEMMA RoundStep ==
    ASSUME PassInv, NextRound \/ EndFixpoint
    PROVE  PassInv'
<1>0. /\ prog \in Programs /\ phase = "fixpoint" /\ cursor = 0 /\ deleted = {}
      /\ prog' = prog /\ live_in' = live_in /\ live_out' = live_out /\ deleted' = deleted
      /\ addr' = addr /\ at' = at /\ pos' = pos /\ mem' = mem /\ omem' = omem
  BY DEF PassInv, AnalysisShape, DeletedAreDead, NextRound, EndFixpoint, execution
<1>1. Len(prog.succs) \in Nat /\ Len(prog.succs) >= 1
  BY <1>0, ProgramFacts
<1>2. CASE NextRound
  <2>1. phase' = phase /\ cursor' = Len(prog.succs) /\ changed' = FALSE
    BY <1>2 DEF NextRound
  <2>2. cursor' \in 0 .. Len(prog.succs) /\ cursor' \in 0 .. Len(prog.succs) + 1
    BY <1>1, <2>1
  <2>3. AnalysisShape'
    BY <1>0, <2>1, <2>2 DEF PassInv, AnalysisShape
  <2>4. Equations'
    BY <1>0, <1>1, <2>1 DEF PassInv, Equations, Blocks
  <2> QED
    BY <1>0, <2>1, <2>3, <2>4 DEF PassInv, ExecutionShape, DeletedAreDead
<1>3. CASE EndFixpoint
  <2>1. phase' = "delete" /\ cursor' = 1 /\ changed' = changed /\ ~changed
    BY <1>3 DEF EndFixpoint
  <2>2. cursor' \in 0 .. Len(prog.succs) + 1
    BY <1>1, <2>1
  <2>3. AnalysisShape'
    BY <1>0, <2>1, <2>2 DEF PassInv, AnalysisShape
  <2>4. \A b \in Blocks(prog) : b > cursor
    BY <1>0, <1>1 DEF Blocks
  <2>5. Equations'
    BY <1>0, <2>1, <2>4 DEF PassInv, Equations
  <2> QED
    BY <1>0, <2>1, <2>3, <2>5 DEF PassInv, ExecutionShape, DeletedAreDead
<1> QED
  BY <1>2, <1>3

\* Deletion in one block.
LEMMA DeleteStep ==
    ASSUME PassInv, DeleteIn
    PROVE  PassInv'
<1>0. /\ prog \in Programs /\ phase = "delete" /\ cursor \in Blocks(prog)
      /\ prog' = prog /\ phase' = phase /\ changed' = changed
      /\ live_in' = live_in /\ live_out' = live_out
      /\ deleted' = deleted \cup ({cursor} \X DeadIn(prog, live_out, cursor))
      /\ cursor' = cursor + 1
      /\ addr' = addr /\ at' = at /\ pos' = pos /\ mem' = mem /\ omem' = omem
  BY DEF PassInv, AnalysisShape, DeleteIn, execution
<1>1. cursor' \in 0 .. Len(prog.succs) + 1
  BY <1>0, ProgramFacts DEF Blocks
<1>2. AnalysisShape'
  BY <1>0, <1>1 DEF PassInv, AnalysisShape
<1>3. Equations'
  BY <1>0 DEF PassInv, Equations
<1>4. DeletedAreDead'
  <2>1. \A d \in deleted : d[1] \in Blocks(prog) /\ d[2] \in DeadIn(prog, live_out, d[1])
    BY DEF PassInv, DeletedAreDead
  <2>2. \A d \in {cursor} \X DeadIn(prog, live_out, cursor) :
           d[1] = cursor /\ d[2] \in DeadIn(prog, live_out, cursor)
    OBVIOUS
  <2> QED
    BY <1>0, <2>1, <2>2 DEF DeletedAreDead
<1> QED
  BY <1>0, <1>2, <1>3, <1>4 DEF PassInv, ExecutionShape

-----------------------------------------------------------------------------
\* The call, in memories that agree.
LEMMA StartStep ==
    ASSUME PassInv, Start
    PROVE  PassInv' /\ DifferenceIsDead'
<1>0. /\ phase = "delete" /\ phase' = "run" /\ prog' = prog /\ analysis' = analysis
      /\ at' = at /\ pos' = pos /\ omem' = mem'
      /\ addr' \in [Keys(prog) -> Byte]
      /\ \A k \in Keys(prog) : Denotes(prog, k, addr'[k])
      /\ mem' \in [Byte -> Value]
  BY DEF Start
<1>1. /\ cursor' = cursor /\ changed' = changed /\ live_in' = live_in /\ live_out' = live_out
      /\ deleted' = deleted
  BY <1>0 DEF analysis
<1>2. AnalysisShape'
  BY <1>0, <1>1 DEF PassInv, AnalysisShape
<1>3. Equations' /\ DeletedAreDead'
  BY <1>0, <1>1 DEF PassInv, Equations, DeletedAreDead
<1>4. ExecutionShape' /\ DifferenceIsDead'
  BY <1>0, <1>1 DEF ExecutionShape, DifferenceIsDead
<1> QED
  BY <1>2, <1>3, <1>4 DEF PassInv

\* What an op that is executed leaves alone.
OpExecuted ==
    /\ phase = "run" /\ phase' = "run"
    /\ pos \in Positions(prog, at) /\ pos' = pos + 1 /\ at' = at
    /\ prog' = prog /\ analysis' = analysis /\ addr' = addr

\* Executing an op of any kind is such a step.
LEMMA ExecutesOp == ExecuteStore \/ ExecuteBenign \/ ExecuteCall => OpExecuted
  BY DEF ExecuteStore, ExecuteBenign, ExecuteCall, OpExecuted, Running

\* A step that executes an op and leaves memories of the right shape.
LEMMA OpStep ==
    ASSUME PassInv, OpExecuted, mem' \in [Byte -> Value], omem' \in [Byte -> Value]
    PROVE  PassInv'
<1>0. /\ cursor' = cursor /\ changed' = changed /\ live_in' = live_in /\ live_out' = live_out
      /\ deleted' = deleted /\ prog' = prog /\ addr' = addr /\ at' = at
      /\ phase = "run" /\ phase' = "run"
  BY DEF OpExecuted, analysis
<1>1. pos' \in 1 .. Len(prog.ops[at]) + 1
  <2>1. Len(prog.ops[at]) \in Nat
    BY ProgramFacts DEF PassInv, AnalysisShape
  <2> QED
    BY <2>1 DEF OpExecuted, Positions
<1>2. AnalysisShape'
  BY <1>0, <1>1 DEF PassInv, AnalysisShape
<1>3. ExecutionShape'
  BY <1>0 DEF PassInv, ExecutionShape
<1>4. Equations' /\ DeletedAreDead'
  BY <1>0 DEF PassInv, Equations, DeletedAreDead
<1> QED
  BY <1>2, <1>3, <1>4 DEF PassInv

\* The memories keep their shape.
LEMMA MemoryShape ==
    ASSUME PassInv, ExecuteStore \/ ExecuteBenign \/ ExecuteCall
    PROVE  mem' \in [Byte -> Value] /\ omem' \in [Byte -> Value]
<1>0. phase = "run"
  BY ExecutesOp DEF OpExecuted
<1>1. mem \in [Byte -> Value] /\ omem \in [Byte -> Value]
  BY <1>0 DEF PassInv, ExecutionShape
<1>2. CASE ExecuteStore
  <2>1. PICK v \in Value :
            /\ mem' = StoreTo(mem, v)
            /\ omem' = IF <<at, pos>> \in deleted THEN omem ELSE StoreTo(omem, v)
    BY <1>2 DEF ExecuteStore
  <2>2. StoreTo(mem, v) \in [Byte -> Value] /\ StoreTo(omem, v) \in [Byte -> Value]
    BY <1>1 DEF StoreTo
  <2> QED
    BY <1>1, <2>1, <2>2
<1>3. CASE ExecuteBenign
  BY <1>1, <1>3 DEF ExecuteBenign
<1>4. CASE ExecuteCall
  BY <1>1, <1>4 DEF ExecuteCall, Written
<1> QED
  BY <1>2, <1>3, <1>4

\* A byte that differed before the op and that the op does not overwrite
\* through the key that is dead still has a dead key.
LEMMA StaysDead ==
    ASSUME PassInv, DifferenceIsDead, OpExecuted,
           NEW c \in Byte, mem[c] # omem[c],
           Current.kind = "store" => c \notin Span(addr[Current.key], Current.w),
           OneWidthPerKey(prog)
    PROVE  \E k \in Keys(prog) :
              k \notin LiveBefore(prog, live_out, at, pos + 1) /\ Covers(prog, addr, k, c)
<1>0. /\ prog \in Programs /\ at \in Blocks(prog) /\ pos \in Positions(prog, at)
      /\ phase = "run"
  BY DEF PassInv, AnalysisShape, OpExecuted
<1>1. PICK k \in Keys(prog) :
         k \notin LiveBefore(prog, live_out, at, pos) /\ Covers(prog, addr, k, c)
  BY <1>0 DEF DifferenceIsDead
<1>2. Current \in AllOps(prog)
  BY <1>0, OpIsOne DEF Current
<1>3. ~Overwrites(Current, k)
  <2>1. SUFFICES ASSUME Current.kind = "store", Current.key = k PROVE FALSE
    BY DEF Overwrites
  <2>2. PICK o \in AllOps(prog) : o.kind = "store" /\ o.key = k /\ c \in Span(addr[k], o.w)
    BY <1>1 DEF Covers, Overwrites
  <2>3. o.w = Current.w
    BY <1>2, <2>1, <2>2 DEF OneWidthPerKey
  <2> QED
    BY <2>1, <2>2, <2>3
<1>4. k \notin LiveBefore(prog, live_out, at, pos + 1)
  BY <1>0, <1>1, <1>3, DeadBeforeOp DEF Current
<1> QED
  BY <1>1, <1>4

\* The three ways to execute an op.
LEMMA OpKeepsDifferenceDead ==
    ASSUME PassInv, DifferenceIsDead, OneWidthPerKey(prog),
           ExecuteStore \/ ExecuteBenign \/ ExecuteCall
    PROVE  DifferenceIsDead'
<1>0. OpExecuted /\ phase = "run"
  BY ExecutesOp DEF OpExecuted
<1>1. /\ prog \in Programs /\ at \in Blocks(prog) /\ pos \in Positions(prog, at)
      /\ mem \in [Byte -> Value] /\ omem \in [Byte -> Value]
  BY <1>0 DEF PassInv, AnalysisShape, ExecutionShape, OpExecuted
<1>2. /\ prog' = prog /\ live_out' = live_out /\ at' = at /\ pos' = pos + 1 /\ addr' = addr
  BY <1>0 DEF OpExecuted, analysis
<1>3. SUFFICES ASSUME NEW c \in Byte, mem'[c] # omem'[c]
               PROVE  \E k \in Keys(prog) :
                         /\ k \notin LiveBefore(prog, live_out, at, pos + 1)
                         /\ Covers(prog, addr, k, c)
  BY <1>2 DEF DifferenceIsDead
<1>4. CASE ExecuteStore
  <2>1. PICK v \in Value :
            /\ mem' = StoreTo(mem, v)
            /\ omem' = IF <<at, pos>> \in deleted THEN omem ELSE StoreTo(omem, v)
    BY <1>4 DEF ExecuteStore
  <2>2. Current.kind = "store"
    BY <1>4 DEF ExecuteStore
  <2>3. CASE c \notin Span(addr[Current.key], Current.w)
    <3>1. mem[c] # omem[c]
      BY <1>3, <2>1, <2>3 DEF StoreTo
    <3> QED
      BY <1>0, <2>3, <3>1, StaysDead
  <2>4. CASE c \in Span(addr[Current.key], Current.w)
    <3>1. <<at, pos>> \in deleted
      BY <1>3, <2>1, <2>4 DEF StoreTo
    <3>2. pos \in DeadIn(prog, live_out, at)
      BY <3>1 DEF PassInv, DeletedAreDead
    <3>3. Current.key \notin LiveBefore(prog, live_out, at, pos + 1)
      BY <3>2 DEF DeadIn, Current
    <3>4. Current \in AllOps(prog) /\ Current.key \in Keys(prog)
      BY <1>1, <2>2, OpIsOne, ProgramFacts DEF Current
    <3>5. Covers(prog, addr, Current.key, c)
      BY <2>2, <2>4, <3>4 DEF Covers, Overwrites
    <3> QED
      BY <3>3, <3>4, <3>5
  <2> QED
    BY <2>3, <2>4
<1>5. CASE ExecuteBenign
  <2>1. mem[c] # omem[c] /\ Current.kind # "store"
    BY <1>3, <1>5 DEF ExecuteBenign
  <2> QED
    BY <1>0, <2>1, StaysDead
<1>6. CASE ExecuteCall
  <2>1. mem[c] # omem[c]
    BY <1>1, <1>3, <1>6 DEF ExecuteCall, Written
  <2>2. Current.kind # "store"
    BY <1>6 DEF ExecuteCall
  <2> QED
    BY <1>0, <2>1, <2>2, StaysDead
<1> QED
  BY <1>4, <1>5, <1>6

-----------------------------------------------------------------------------
\* Control reaches another block.
LEMMA BranchStep ==
    ASSUME PassInv, Branch
    PROVE  PassInv'
<1>0. /\ phase = "run" /\ phase' = phase /\ prog' = prog /\ analysis' = analysis
      /\ at' \in prog.succs[at] /\ pos' = 1 /\ mem' = mem /\ omem' = omem
  BY DEF Branch
<1>1. /\ cursor' = cursor /\ changed' = changed /\ live_in' = live_in /\ live_out' = live_out
      /\ deleted' = deleted
  BY <1>0 DEF analysis
<1>2. /\ prog \in Programs /\ at \in Blocks(prog)
      /\ addr \in [Keys(prog) -> Byte]
      /\ \A k \in Keys(prog) : Denotes(prog, k, addr[k])
  BY <1>0 DEF PassInv, AnalysisShape, ExecutionShape
<1>3. at' \in Blocks(prog)
  BY <1>0, <1>2, ProgramFacts
<1>4. pos' \in 1 .. Len(prog.ops[at']) + 1
  <2>1. Len(prog.ops[at']) \in Nat
    BY <1>2, <1>3, ProgramFacts
  <2> QED
    BY <1>0, <2>1
<1>5. PICK new \in [prog.moving[at'] -> Byte] :
         /\ \A k \in prog.moving[at'] : Denotes(prog, k, new[k])
         /\ addr' = [k \in Keys(prog) |-> IF k \in prog.moving[at'] THEN new[k] ELSE addr[k]]
  BY DEF Branch
<1>6. addr' \in [Keys(prog) -> Byte] /\ \A k \in Keys(prog) : Denotes(prog, k, addr'[k])
  BY <1>2, <1>5
<1>7. AnalysisShape'
  BY <1>0, <1>1, <1>3, <1>4 DEF PassInv, AnalysisShape
<1>8. ExecutionShape'
  BY <1>0, <1>6 DEF PassInv, ExecutionShape
<1>9. Equations' /\ DeletedAreDead'
  BY <1>0, <1>1 DEF PassInv, Equations, DeletedAreDead
<1> QED
  BY <1>7, <1>8, <1>9 DEF PassInv

\* A key that is dead at the end of a block is dead at the start of every
\* block that may follow it, and is not one that moves there.
LEMMA DeadInSuccessor ==
    ASSUME PassInv, phase = "run", MovingKeysRead(prog),
           pos \notin Positions(prog, at), NEW s \in prog.succs[at],
           NEW k \in Keys(prog), k \notin LiveBefore(prog, live_out, at, pos)
    PROVE  k \notin LiveBefore(prog, live_out, s, 1) /\ k \notin prog.moving[s]
<1>1. /\ prog \in Programs /\ at \in Blocks(prog) /\ pos \in 1 .. Len(prog.ops[at]) + 1
  BY DEF PassInv, AnalysisShape
<1>2. k \notin live_out[at]
  BY <1>1, DeadAtEnd
<1>3. s \in Blocks(prog)
  BY <1>1, ProgramFacts
<1>4. live_out[at] = BlockOut(prog, live_in, at)
  BY <1>1 DEF PassInv, Equations
<1>5. k \notin live_in[s]
  BY <1>2, <1>4 DEF BlockOut
<1>6. live_in[s] = transfer(prog, s, live_out[s])
  BY <1>3 DEF PassInv, Equations
<1>7. k \notin gens(prog, s)
  BY <1>5, <1>6 DEF transfer
<1>8. k \notin prog.moving[s]
  BY <1>3, <1>7 DEF MovingKeysRead
<1> QED
  BY <1>1, <1>3, <1>5, <1>6, <1>8, LiveAtStart

\* A branch carries the dead key of a differing byte into the next block.
LEMMA BranchKeepsDifferenceDead ==
    ASSUME PassInv, DifferenceIsDead, MovingKeysRead(prog), Branch
    PROVE  DifferenceIsDead'
<1>0. /\ phase = "run" /\ prog' = prog /\ live_out' = live_out
      /\ at' \in prog.succs[at] /\ pos' = 1 /\ mem' = mem /\ omem' = omem
      /\ pos \notin Positions(prog, at)
  BY DEF Branch, analysis
<1>1. PICK new \in [prog.moving[at'] -> Byte] :
         addr' = [k \in Keys(prog) |-> IF k \in prog.moving[at'] THEN new[k] ELSE addr[k]]
  BY DEF Branch
<1>2. SUFFICES ASSUME NEW c \in Byte, mem[c] # omem[c]
               PROVE  \E k \in Keys(prog) :
                         /\ k \notin LiveBefore(prog, live_out, at', 1)
                         /\ Covers(prog, addr', k, c)
  BY <1>0 DEF DifferenceIsDead
<1>3. PICK k \in Keys(prog) :
         k \notin LiveBefore(prog, live_out, at, pos) /\ Covers(prog, addr, k, c)
  BY <1>0, <1>2 DEF DifferenceIsDead
<1>4. k \notin LiveBefore(prog, live_out, at', 1) /\ k \notin prog.moving[at']
  BY <1>0, <1>3, DeadInSuccessor
<1>5. addr'[k] = addr[k]
  BY <1>1, <1>4
<1>6. Covers(prog, addr', k, c)
  BY <1>3, <1>5 DEF Covers
<1> QED
  BY <1>4, <1>6

\* Return changes no memory.
LEMMA ReturnStep ==
    ASSUME PassInv, Return
    PROVE  PassInv' /\ (DifferenceIsDead => DifferenceIsDead')
<1>0. /\ phase = "run" /\ phase' = "done" /\ prog' = prog
      /\ cursor' = cursor /\ changed' = changed /\ live_in' = live_in /\ live_out' = live_out
      /\ deleted' = deleted /\ addr' = addr /\ at' = at /\ pos' = pos /\ mem' = mem /\ omem' = omem
  BY DEF Return, analysis, execution
<1>1. AnalysisShape' /\ ExecutionShape'
  BY <1>0 DEF PassInv, AnalysisShape, ExecutionShape, Return
<1>2. Equations' /\ DeletedAreDead'
  BY <1>0 DEF PassInv, Equations, DeletedAreDead
<1>3. DifferenceIsDead => DifferenceIsDead'
  BY <1>0 DEF DifferenceIsDead
<1> QED
  BY <1>1, <1>2, <1>3 DEF PassInv

\* Nothing happens.
LEMMA StutterStep ==
    ASSUME UNCHANGED vars
    PROVE  (PassInv => PassInv') /\ (DifferenceIsDead => DifferenceIsDead')
<1>0. /\ phase' = phase /\ prog' = prog
      /\ cursor' = cursor /\ changed' = changed /\ live_in' = live_in /\ live_out' = live_out
      /\ deleted' = deleted /\ addr' = addr /\ at' = at /\ pos' = pos /\ mem' = mem /\ omem' = omem
  BY DEF vars, analysis, execution
<1>1. (AnalysisShape => AnalysisShape') /\ (ExecutionShape => ExecutionShape')
  BY <1>0 DEF AnalysisShape, ExecutionShape
<1>2. (Equations => Equations') /\ (DeletedAreDead => DeletedAreDead')
  BY <1>0 DEF Equations, DeletedAreDead
<1>3. DifferenceIsDead => DifferenceIsDead'
  BY <1>0 DEF DifferenceIsDead
<1> QED
  BY <1>1, <1>2, <1>3 DEF PassInv

\* Every step of the pass or of the execution keeps PassInv.
LEMMA PassStep == PassInv /\ [Next]_vars => PassInv'
<1> SUFFICES ASSUME PassInv, [Next]_vars PROVE PassInv'
  OBVIOUS
<1>1. CASE Propagate
  BY <1>1, PropagateStep
<1>2. CASE NextRound \/ EndFixpoint
  BY <1>2, RoundStep
<1>3. CASE DeleteIn
  BY <1>3, DeleteStep
<1>4. CASE Start
  BY <1>4, StartStep
<1>5. CASE ExecuteStore \/ ExecuteBenign \/ ExecuteCall
  BY <1>5, ExecutesOp, MemoryShape, OpStep
<1>6. CASE Branch
  BY <1>6, BranchStep
<1>7. CASE Return
  BY <1>7, ReturnStep
<1>8. CASE UNCHANGED vars
  BY <1>8, StutterStep
<1> QED
  BY <1>1, <1>2, <1>3, <1>4, <1>5, <1>6, <1>7, <1>8 DEF Next, Analyse, Execute

\* Every step keeps the differing bytes dead, for a trusted function.
LEMMA DifferenceStep ==
    ASSUME Trusted, PassInv, DifferenceIsDead, [Next]_vars
    PROVE  DifferenceIsDead'
<1>0. OneWidthPerKey(prog) /\ MovingKeysRead(prog)
  BY DEF Trusted, PassInv, AnalysisShape
<1>1. CASE Propagate \/ NextRound \/ EndFixpoint \/ DeleteIn
  <2>1. phase' \notin {"run", "done"}
    BY <1>1 DEF Propagate, NextRound, EndFixpoint, DeleteIn
  <2> QED
    BY <2>1 DEF DifferenceIsDead
<1>2. CASE Start
  BY <1>2, StartStep
<1>3. CASE ExecuteStore \/ ExecuteBenign \/ ExecuteCall
  BY <1>0, <1>3, OpKeepsDifferenceDead
<1>4. CASE Branch
  BY <1>0, <1>4, BranchKeepsDifferenceDead
<1>5. CASE Return
  BY <1>5, ReturnStep
<1>6. CASE UNCHANGED vars
  BY <1>6, StutterStep
<1> QED
  BY <1>1, <1>2, <1>3, <1>4, <1>5, <1>6 DEF Next, Analyse, Execute

-----------------------------------------------------------------------------
\* The invariant shows what the properties ask for.
LEMMA LoadsAgree ==
    ASSUME IInv
    PROVE  LoadsReadTheSame
<1>1. SUFFICES ASSUME Running, Current.kind = "load",
                      NEW c \in Span(addr[Current.key], Current.w), mem[c] # omem[c]
               PROVE  FALSE
  BY DEF LoadsReadTheSame
<1>2. /\ prog \in Programs /\ at \in Blocks(prog) /\ pos \in Positions(prog, at)
      /\ phase = "run" /\ addr \in [Keys(prog) -> Byte]
      /\ \A k \in Keys(prog) : Denotes(prog, k, addr[k])
      /\ c \in Byte
  BY <1>1 DEF IInv, PassInv, AnalysisShape, ExecutionShape, Running, Span
<1>3. PICK k \in Keys(prog) :
         k \notin LiveBefore(prog, live_out, at, pos) /\ Covers(prog, addr, k, c)
  BY <1>1, <1>2 DEF IInv, DifferenceIsDead
<1>4. PICK o \in AllOps(prog) : o.kind = "store" /\ o.key = k /\ c \in Span(addr[k], o.w)
  BY <1>3 DEF Covers, Overwrites
<1>5. Current \in AllOps(prog)
  BY <1>2, OpIsOne DEF Current
<1>6. ~Distinct(prog, Current.key, k)
  BY <1>1, <1>2, <1>4, <1>5, MeetingKeys
<1>7. k \in ReadSet(prog, Current)
  BY <1>1, <1>6 DEF ReadSet
<1> QED
  BY <1>2, <1>3, <1>7, DeadBeforeOp DEF Current

\* Callees and the caller only reach bytes no protected key covers.
LEMMA OthersAgree ==
    ASSUME IInv
    PROVE  OthersReadTheSame
<1>1. ASSUME Running, Current.kind = "call", NEW c \in Byte, Reachable(prog, Home[c]),
             mem[c] # omem[c]
      PROVE  FALSE
  <2>1. /\ prog \in Programs /\ at \in Blocks(prog) /\ pos \in Positions(prog, at)
        /\ phase = "run" /\ addr \in [Keys(prog) -> Byte]
        /\ \A k \in Keys(prog) : Denotes(prog, k, addr[k])
    BY <1>1 DEF IInv, PassInv, AnalysisShape, ExecutionShape, Running
  <2>2. PICK k \in Keys(prog) :
           k \notin LiveBefore(prog, live_out, at, pos) /\ Covers(prog, addr, k, c)
    BY <1>1, <2>1 DEF IInv, DifferenceIsDead
  <2>3. k \notin ReadSet(prog, Current)
    BY <2>1, <2>2, DeadBeforeOp DEF Current
  <2>4. Protected(prog, k)
    BY <1>1, <2>3 DEF ReadSet, unknown_read
  <2>5. PICK o \in AllOps(prog) : o.kind = "store" /\ o.key = k /\ c \in Span(addr[k], o.w)
    BY <2>2 DEF Covers, Overwrites
  <2> QED
    BY <1>1, <2>1, <2>4, <2>5, ProtectedBytes
<1>2. ASSUME phase = "done", NEW c \in Byte, Home[c] = Outside, mem[c] # omem[c]
      PROVE  FALSE
  <2>1. /\ prog \in Programs /\ at \in Blocks(prog)
        /\ pos \in 1 .. Len(prog.ops[at]) + 1
        /\ prog.succs[at] = {} /\ pos \notin Positions(prog, at)
        /\ addr \in [Keys(prog) -> Byte]
        /\ \A k \in Keys(prog) : Denotes(prog, k, addr[k])
    BY <1>2 DEF IInv, PassInv, AnalysisShape, ExecutionShape
  <2>2. PICK k \in Keys(prog) :
           k \notin LiveBefore(prog, live_out, at, pos) /\ Covers(prog, addr, k, c)
    BY <1>2 DEF IInv, DifferenceIsDead
  <2>3. k \notin live_out[at]
    BY <2>1, <2>2, DeadAtEnd
  <2>4. live_out[at] = unknown_read(prog)
    <3>1. live_out[at] = BlockOut(prog, live_in, at)
      BY <1>2, <2>1 DEF IInv, PassInv, Equations
    <3> QED
      BY <2>1, <3>1 DEF BlockOut
  <2>5. Protected(prog, k)
    BY <2>3, <2>4 DEF unknown_read
  <2>6. PICK o \in AllOps(prog) : o.kind = "store" /\ o.key = k /\ c \in Span(addr[k], o.w)
    BY <2>2 DEF Covers, Overwrites
  <2>7. Home[c] \in Alloca
    BY <2>1, <2>5, <2>6, ProtectedBytes
  <2> QED
    BY <1>2, <2>7, HomeAssumption
<1> QED
  BY <1>1, <1>2 DEF OthersReadTheSame

-----------------------------------------------------------------------------
(* The theorems.                                                           *)

\* PassInv is an invariant, for every function.
LEMMA PassInvariance == Spec => []PassInv
<1>1. Init => PassInv
  BY InitIInv DEF IInv
<1> QED
  BY <1>1, PassStep, PTL DEF Spec

\* The state keeps its shape, for every function.
THEOREM TypeCorrect == Spec => []TypeOK
<1>1. PassInv => TypeOK
  <2> SUFFICES ASSUME PassInv PROVE TypeOK
    OBVIOUS
  <2>1. prog \in Programs /\ at \in Blocks(prog) /\ pos \in 1 .. Len(prog.ops[at]) + 1
    BY DEF PassInv, AnalysisShape
  <2>2. IsProgram(prog)
    BY <2>1, ProgramsAssumption
  <2>3. pos \in Nat
    BY <2>1, ProgramFacts
  <2> QED
    BY <2>1, <2>2, <2>3 DEF PassInv, AnalysisShape, ExecutionShape, TypeOK
<1> QED
  BY <1>1, PassInvariance, PTL

(***************************************************************************)
(* Whatever the function, the sets that deletion uses solve the liveness   *)
(* equations: the last round of backward_bitset_fixpoint changed no        *)
(* live_in, so the equation of a block seen early in it still holds.       *)
(***************************************************************************)
THEOREM EquationsSolved == Spec => []EquationsHold
<1>1. PassInv => EquationsHold
  BY DEF PassInv, Equations, EquationsHold
<1> QED
  BY <1>1, PassInvariance, PTL

\* The difference between the two executions stays where nobody may look.
LEMMA DifferenceInvariance == ASSUME Trusted PROVE Spec => []IInv
<1>1. Init => IInv
  BY InitIInv
<1>2. IInv /\ [Next]_vars => IInv'
  BY PassStep, DifferenceStep DEF IInv
<1> QED
  BY <1>1, <1>2, PTL DEF Spec

(***************************************************************************)
(* Dead-store elimination is unobservable for every function in which the  *)
(* stores to one key have one width and a key that moves is read where it  *)
(* moves: the loads of the function find the bytes the original program    *)
(* put there (dse_region).                                                 *)
(***************************************************************************)
THEOREM EliminationIsSound ==
    ASSUME Trusted
    PROVE  Spec => []LoadsReadTheSame
<1>1. IInv => LoadsReadTheSame
  BY LoadsAgree
<1> QED
  BY <1>1, DifferenceInvariance, PTL

(***************************************************************************)
(* For the same functions, whoever else may look at the memory sees no     *)
(* difference either: the functions it calls and the caller it returns to  *)
(* find what the original program stored, so no deleted store was one that *)
(* a call or the return could expose (escaping keys, dse_region).          *)
(***************************************************************************)
THEOREM OthersSeeNoDifference ==
    ASSUME Trusted
    PROVE  Spec => []OthersReadTheSame
<1>1. IInv => OthersReadTheSame
  BY OthersAgree
<1> QED
  BY <1>1, DifferenceInvariance, PTL
=============================================================================
