------------------------------ MODULE Profile ------------------------------
(***************************************************************************)
(* The profile of a function's operations, and how one pass hands the      *)
(* profile of what it produced to what it was given: pliron-bpgo's         *)
(* profile.rs and align.rs, and the backward passes of the mid-end         *)
(* (passes/llvm/backward.rs) and of the machine pipeline                   *)
(* (passes/aarch64/backward.rs).                                           *)
(*                                                                         *)
(* Of the metrics the code names by strings these are told apart: cycles,  *)
(* the allocator's own cycles, executions, and a function's cost per root. *)
(* `who` is not in the code: it records the origins of the measured        *)
(* operations whose cycles arrived.  Cycles are whole numbers, measured in *)
(* a unit that every division met divides.                                 *)
(***************************************************************************)
EXTENDS OpMap

Roots == {"abi", "regalloc", "frame", "unattributed"}

NoProfile == [cycles |-> 0, own |-> 0, executions |-> None, who |-> {}]

IsEmpty(p) == p.cycles = 0 /\ p.own = 0 /\ p.executions = None

\* Nothing measured in a function yet: its operations and its own costs.
Unprofiled(f) ==
  [ops |-> [at \in Positions(f) |-> NoProfile], costs |-> [r \in Roots |-> 0]]

Larger(a, b) == IF a > b THEN a ELSE b

\* Costs add up, in the given share; the largest count is the count.
add_all(p, from, parts) ==
  [cycles |-> p.cycles + from.cycles \div parts,
   own |-> p.own + from.own \div parts,
   executions |-> Larger(p.executions, from.executions),
   who |-> p.who \union from.who]

Receive(prof, at, from, parts) == [prof EXCEPT !.ops[at] = add_all(@, from, parts)]

\* Mutant of spread: every target gets the whole cost.
spread_Whole(prof, targets, from) ==
  FoldSet(LAMBDA at, acc : Receive(acc, at, from, 1), prof, targets)

\* Costs are split evenly over the targets, each gets the count.
spread(prof, targets, from) ==
  FoldSet(LAMBDA at, acc : Receive(acc, at, from, Cardinality(targets)), prof, targets)

\* Another instance of the same operation: everything adds up, counts too.
add_instance(p, from, parts) ==
  [cycles |-> p.cycles + from.cycles \div parts,
   own |-> p.own + from.own \div parts,
   executions |-> IF from.executions = None THEN p.executions
                  ELSE Larger(p.executions, 0) + from.executions \div parts,
   who |-> p.who \union from.who]

\* An operation runs as often as its block.
even_out_executions(f, prof) ==
  LET runs(b) == Max({None} \union
                     {prof.ops[<<b, i>>].executions : i \in 1..Len(f[b].ops)})
  IN FoldSet(LAMBDA at, acc : [acc EXCEPT !.ops[at].executions = runs(at[1])],
             prof, Positions(f))

\* What of an operation's profile goes to the function as a whole.
function_cost(prof, root, from) == [prof EXCEPT !.costs[root] = @ + from.cycles]

root_metric(root) ==
  IF root = ISEL_ABI THEN "abi"
  ELSE IF root = REGALLOC THEN "regalloc"
  ELSE IF root = FRAME THEN "frame"
  ELSE "unattributed"

-----------------------------------------------------------------------------
(* What was measured, put on the operations after the encoder. *)

\* The offsets perf sampled an event at in a function, from the lines it
\* printed; a line without a symbol counts nowhere.
from_perf_script(lines, event, symbol) ==
  LET of == SelectSeq(lines, LAMBDA l : l.event = event /\ l.symbol = symbol)
  IN FoldLeft(LAMBDA acc, l : Append(acc, l.offset), <<>>, of)

\* The bytes of each operation, in the order the encoder laid them out.
layout(f, byte_len) ==
  LET next(acc, at) ==
        [end |-> acc.end + byte_len[at],
         bytes |-> acc.bytes @@ (at :> acc.end..(acc.end + byte_len[at] - 1))]
  IN FoldLeft(next, [end |-> 0, bytes |-> <<>>], InOrder(f)).bytes

\* Cycles of the samples at an operation's bytes; executions of a block from
\* the instructions it retired, if any were sampled in the function.
attach(f, byte_len, cycles, instructions, period) ==
  LET bytes == layout(f, byte_len)
      hits(offsets, at) == Len(SelectSeq(offsets, LAMBDA o : o \in bytes[at]))
      runs(b) ==
        LET inBlock == {at \in Positions(f) : at[1] = b}
            size == FoldSet(LAMBDA at, n : n + byte_len[at], 0, inBlock)
            retired == FoldSet(LAMBDA at, n : n + hits(instructions, at), 0, inBlock)
        IN (retired * period) \div Larger(1, size \div 4)
      measure(acc, at) ==
        LET spent == hits(cycles, at) * period
        IN Receive(acc, at,
             [cycles |-> spent, own |-> 0,
              executions |-> IF instructions = <<>> THEN None ELSE runs(at[1]),
              who |-> IF spent = 0 THEN {} ELSE {OpAt(f, at).origin}], 1)
  IN FoldLeft(measure, Unprofiled(f), InOrder(f))

-----------------------------------------------------------------------------
(* Matching the operations before and after a pass. *)

\* A longest common subsequence of keys.  A cell holds the pairs still to
\* come from there, a row the cells of one left key from the right to the left.
matching(a, b) ==
  LET cell(i, j, below, row) ==
        IF a[i] = b[j] THEN <<<<i, j>>>> \o below[j + 1]
        ELSE IF Len(below[j]) >= Len(row[1]) THEN below[j] ELSE row[1]
      row(i, below) ==
        FoldRight(LAMBDA j, acc : <<cell(i, j, below, acc)>> \o acc,
                  [j \in 1..Len(b) |-> j], <<<<>>>>)
  IN FoldRight(row, [i \in 1..Len(a) |-> i], [j \in 1..Len(b) + 1 |-> <<>>])[1]

\* The block of a function with a label; the last, should several have it.
LabelledBlock(f, label) == Max({0} \union {b \in 1..Len(f) : f[b].label = label})

\* f before and g after the pass, with the keys of their operations.  Block
\* by block first, each with the one of its label.
BlockKeys(h, of, b) == [i \in 1..Len(h[b].ops) |-> of[<<b, i>>]]
MatchBlock(f, g, fKey, gKey, b, c) ==
  IF b = 0 THEN <<>> ELSE matching(BlockKeys(f, fKey, b), BlockKeys(g, gKey, c))
MatchBlocks(f, g, fKey, gKey) ==
  [c \in 1..Len(g) |-> MatchBlock(f, g, fKey, gKey, LabelledBlock(f, g[c].label), c)]
InPlace(f, g, matched) ==
  {<<<<LabelledBlock(f, g[m[1]].label), m[2][1]>>, <<m[1], m[2][2]>>>> :
     m \in UNION {{c} \X ToSet(matched[c]) : c \in 1..Len(g)}}

\* Between two neighbouring matches of a block (and its two ends).
GapsOf(b, c, ends) ==
  {[out |-> {b} \X ((ends[k][1] + 1)..(ends[k + 1][1] - 1)),
    new |-> {c} \X ((ends[k][2] + 1)..(ends[k + 1][2] - 1))] : k \in 1..(Len(ends) - 1)}
BlockGaps(f, g, b, c, matched) ==
  IF b = 0 THEN {}
  ELSE GapsOf(b, c, <<<<0, 0>>>> \o matched \o <<<<Len(f[b].ops) + 1, Len(g[c].ops) + 1>>>>)
Gaps(f, g, matched) == UNION {BlockGaps(f, g, LabelledBlock(f, g[c].label), c, matched[c]) : c \in 1..Len(g)}

\* Then anywhere: the n-th left of a key with the n-th left of it.
Left(h, taken) == SelectSeq(InOrder(h), LAMBDA at : at \notin taken)
Rank(left, of, i) == Cardinality({j \in 1..i : of[left[j]] = of[left[i]]})
Elsewhere(inLeft, outLeft, fKey, gKey) ==
  {<<inLeft[q[1]], outLeft[q[2]]>> : q \in
     {q \in (1..Len(inLeft)) \X (1..Len(outLeft)) :
        /\ fKey[inLeft[q[1]]] = gKey[outLeft[q[2]]]
        /\ Rank(inLeft, fKey, q[1]) = Rank(outLeft, gKey, q[2])}}

Firsts(pairs) == {p[1] : p \in pairs}
Seconds(pairs) == {p[2] : p \in pairs}
AllPairs(f, g, fKey, gKey, inPlace) ==
  inPlace \union Elsewhere(Left(f, Firsts(inPlace)), Left(g, Seconds(inPlace)), fKey, gKey)

\* What is left over, and what the operations created stand in place of.
Alignment(pairs, created, deleted, gaps) ==
  [pairs |-> pairs, created |-> created, deleted |-> deleted,
   replaced |-> [at \in ToSet(created) |->
      UNION {q.out \intersect deleted : q \in {r \in gaps : at \in r.new}}]]
AlignPairs(f, g, pairs, gaps) ==
  Alignment(pairs, Left(g, Seconds(pairs)), Positions(f) \ Firsts(pairs), gaps)
AlignMatched(f, g, fKey, gKey, matched) ==
  AlignPairs(f, g, AllPairs(f, g, fKey, gKey, InPlace(f, g, matched)), Gaps(f, g, matched))
align(f, g, fKey, gKey) == AlignMatched(f, g, fKey, gKey, MatchBlocks(f, g, fKey, gKey))

transfer(prof, alignment, out) ==
  FoldSet(LAMBDA p, acc : Receive(acc, p[1], out.ops[p[2]], 1), prof, alignment.pairs)

-----------------------------------------------------------------------------
(* The backward pass of a mid-end pass. *)

key(op) ==
  IF op.id # None THEN <<op.kind, "id", op.id, op.call>>
  ELSE <<op.kind, "sources", effective_sources(op)>>
keys_of(f) == [at \in Positions(f) |-> key(OpAt(f, at))]

Shares(op, sources) == effective_sources(op) \intersect sources # {}

\* The ops a pair's profile goes to: a survivor that absorbed operations in
\* this pass shares it with them.
PairTargets(f, g, alignment, p) ==
  LET i == OpAt(f, p[1])
      o == OpAt(g, p[2])
  IN IF o.many = {} \/ i.many = o.many THEN {p[1]}
     ELSE {p[1]} \union {d \in alignment.deleted :
                           OpAt(f, d).kind = o.kind /\ Shares(OpAt(f, d), o.many)}

\* The ops a created one's profile goes to: what it replaced at its spot,
\* else what shares its sources - the ones taken out, of its kind, first.
CreatedTargets(f, g, alignment, at) ==
  LET o == OpAt(g, at)
      from == effective_sources(o)
      replaced == {i \in alignment.replaced[at] : from = {} \/ Shares(OpAt(f, i), from)}
      sharing(gone, kind) ==
        {i \in Positions(f) : /\ (i \in alignment.deleted) = gone
                              /\ kind => OpAt(f, i).kind = o.kind
                              /\ Shares(OpAt(f, i), from)}
      choices == <<replaced, sharing(TRUE, TRUE), sharing(TRUE, FALSE),
                   sharing(FALSE, TRUE), sharing(FALSE, FALSE)>>
      first == Min({k \in 1..5 : choices[k] # {}} \union {6})
  IN IF first = 6 THEN {} ELSE choices[first]

Originals(f, alignment, o) ==
  {i \in Positions(f) \ alignment.deleted :
     OpAt(f, i).kind = o.kind /\ effective_sources(OpAt(f, i)) = effective_sources(o)}

\* One instance of each of them: the profile of a clone.
ToOriginals(prof, originals, p) ==
  FoldSet(LAMBDA i, acc : [acc EXCEPT !.ops[i] = add_instance(@, p, Cardinality(originals))], prof, originals)
PlaceLlvm(prof, p, originals, targets) ==
  IF IsEmpty(p) THEN prof
  ELSE IF originals # {} THEN ToOriginals(prof, originals, p)
  ELSE IF targets # {} THEN spread(prof, targets, p)
  ELSE function_cost(prof, "unattributed", p)

ReturnLlvm(clones, f, g, prof, out, alignment) ==
  FoldLeft(LAMBDA acc, at : PlaceLlvm(acc, out.ops[at],
                              IF clones THEN Originals(f, alignment, OpAt(g, at)) ELSE {},
                              CreatedTargets(f, g, alignment, at)),
           FoldSet(LAMBDA p, acc : spread(acc, PairTargets(f, g, alignment, p), out.ops[p[2]]),
                   prof, alignment.pairs),
           alignment.created)
LlvmBackward(clones, f, g, prof, out) ==
  ReturnLlvm(clones, f, g, prof, out, align(f, g, keys_of(f), keys_of(g)))

-----------------------------------------------------------------------------
(* The backward passes of the machine pipeline. *)

machine_key(op) == <<op.kind, op.from>>
machine_keys_of(f) == [at \in Positions(f) |-> machine_key(OpAt(f, at))]

\* `own`: what the pass created is a decision about the operation it was
\* stamped from, and costs that operation under a metric of its own.
ToOwners(prof, owners, p) ==
  FoldSet(LAMBDA i, acc : [acc EXCEPT !.ops[i].own = @ + p.cycles \div Cardinality(owners),
                                      !.ops[i].who = @ \union p.who],
          prof, owners)
PlaceMachine(own, prof, p, d, replaced, owners) ==
  IF IsEmpty(p) THEN prof
  ELSE IF d < 0 /\ d # None THEN function_cost(prof, root_metric(d), p)
  ELSE IF replaced # {} THEN spread(prof, replaced, p)
  ELSE IF owners # {} THEN (IF own THEN ToOwners(prof, owners, p) ELSE spread(prof, owners, p))
  ELSE function_cost(prof, "unattributed", p)

Replaced(f, candidates, d) == {i \in candidates : d = None \/ OpAt(f, i).from \in {None, d}}
Owners(f, alignment, d) == {i \in Positions(f) \ alignment.deleted : d # None /\ OpAt(f, i).from = d}
ReturnMachine(own, f, g, prof, out, alignment) ==
  FoldLeft(LAMBDA acc, at : PlaceMachine(own, acc, out.ops[at], OpAt(g, at).from,
                              Replaced(f, alignment.replaced[at], OpAt(g, at).from),
                              Owners(f, alignment, OpAt(g, at).from)),
           transfer(prof, alignment, out), alignment.created)
MachineBackward(own, f, g, prof, out) ==
  ReturnMachine(own, f, g, prof, out, align(f, g, machine_keys_of(f), machine_keys_of(g)))

\* Instruction selection: a machine operation's id is the one of the
\* operation it was selected from.
IselBackward(f, g, prof, out) ==
  LET place(acc, at) ==
        LET p == out.ops[at]
            d == OpAt(g, at).from
            sources == {i \in Positions(f) : OpAt(f, i).id = d}
        IN IF IsEmpty(p) THEN acc
           ELSE IF d = None THEN function_cost(acc, "unattributed", p)
           ELSE IF d < 0 THEN function_cost(acc, root_metric(d), p)
           ELSE IF sources = {} THEN function_cost(acc, "unattributed", p)
           \* One operation per id: the last in program order has the entry.
           ELSE Receive(acc, CHOOSE i \in sources :
                                \A j \in sources : ~Precedes(i, j), p, 1)
  IN FoldLeft(place, prof, InOrder(g))
=============================================================================
