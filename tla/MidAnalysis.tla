---------------------------- MODULE MidAnalysis ----------------------------
(***************************************************************************)
(* The control-flow analyses and the op-effect table the mid-end passes    *)
(* share (passes/llvm/analysis.rs).  Dominators are pliron's; their        *)
(* definition stands for its algorithm.  Post-dominators are crabbit's own *)
(* iterative computation on the reversed graph, modelled step by step.     *)
(***************************************************************************)
EXTENDS MidIr

RECURSIVE Flood(_, _, _, _)
\* The blocks reachable from the set work without entering avoid.
Flood(p, work, seen, avoid) ==
  LET new == (UNION {Succs(p, b) : b \in work}) \ (seen \union avoid)
  IN IF new = {} THEN seen ELSE Flood(p, new, seen \union new, avoid)
ReachableBlocks(p) == Flood(p, {Entry(p)}, {Entry(p)}, {})

\* dominator_tree: the blocks that dominate each block the entry reaches.
dominator_tree(p) ==
  LET reach == ReachableBlocks(p)
      cut == [a \in reach |-> IF a = Entry(p) THEN {}
                              ELSE Flood(p, {Entry(p)}, {Entry(p)}, {a})]
  IN [b \in reach |-> {a \in reach : a = b \/ b \notin cut[a]}]
Dominates(dom, a, b) == b \in DOMAIN dom /\ a \in dom[b]
\* nearest_common_dominator: the deepest block dominating every block of bs
\* (0: none, or a block outside the tree).
nearest_common_dominator(dom, bs) ==
  IF bs = {} \/ ~(bs \subseteq DOMAIN dom) THEN 0
  ELSE LET common == {a \in DOMAIN dom : \A b \in bs : a \in dom[b]}
       IN CHOOSE a \in common : \A c \in common : c \in dom[a]

RECURSIVE ReverseFlood(_, _, _)
ReverseFlood(p, work, body) ==
  LET new == work \ body
  IN IF new = {} THEN body
     ELSE ReverseFlood(p, UNION {Preds(p, b) : b \in new}, body \union new)
\* natural_loops: one loop per header that dominates a predecessor, its
\* body the blocks that reach a latch without passing the header; smallest
\* body first.
natural_loops(p, dom) ==
  LET latches(h) == {b \in DOMAIN dom : h \in Succs(p, b) /\ Dominates(dom, h, b)}
      headers == {h \in DOMAIN dom : latches(h) # {}}
      loop(h) == [header |-> h, latches |-> latches(h),
                  body |-> ReverseFlood(p, latches(h), {h})]
      before(h, g) == LET n == Cardinality(loop(h).body)  m == Cardinality(loop(g).body)
                      IN n < m \/ (n = m /\ h < g)
      order == SetToSortSeq(headers, before)
  IN [i \in 1..Len(order) |-> loop(order[i])]
\* NaturalLoop::preheader: the only predecessor of the header from outside,
\* when it branches nowhere else (0: none).
preheader(p, l) ==
  LET outside == Preds(p, l.header) \ l.body
      b == CHOOSE x \in outside : TRUE
  IN IF Cardinality(outside) = 1 /\ Len(p.term[b].s) = 1 THEN b ELSE 0
DefinedIn(p, v, body) == DefBlock(p, v) \in body

---------------------------------------------------------------------------
\* iterative_idoms: Cooper, Harvey and Kennedy on the graph succs[v] (sets
\* of nodes in DOMAIN succs).  Depth-first post-order from the entry; the
\* reverse of it numbers the nodes.
RECURSIVE PostOrder(_, _, _, _)
PostOrder(succs, v, todo, acc) ==
  IF todo = {} THEN [acc EXCEPT !.order = Append(@, v)]
  ELSE LET s == Min(todo)
       IN PostOrder(succs, v, todo \ {s},
            IF s \in acc.seen THEN acc
            ELSE PostOrder(succs, s, succs[s], [acc EXCEPT !.seen = @ \union {s}]))
RECURSIVE Intersect(_, _, _, _)
Intersect(idom, rpo, a, b) ==
  IF a = b THEN a
  ELSE IF rpo[a] > rpo[b] THEN Intersect(idom, rpo, idom[a], b)
  ELSE Intersect(idom, rpo, a, idom[b])
NoBlock == -1
RECURSIVE Meet(_, _, _, _)
Meet(idom, rpo, preds, cur) ==
  IF preds = {} THEN cur
  ELSE LET q == Min(preds)
       IN Meet(idom, rpo, preds \ {q},
               IF idom[q] = NoBlock THEN cur
               ELSE IF cur = NoBlock THEN q ELSE Intersect(idom, rpo, cur, q))
\* Mutant of Sweep: a node keeps the first immediate dominator found for it.
Sweep_FirstOnly(idom, rpo, order, preds, i) ==
  LET RECURSIVE go(_, _)
      go(d, j) == IF j > Len(order) THEN d
                  ELSE go(IF d[order[j]] # NoBlock THEN d
                          ELSE [d EXCEPT ![order[j]] = Min(preds[order[j]])], j + 1)
  IN go(idom, i)
RECURSIVE Sweep(_, _, _, _, _)
\* One pass over the order from position i; the next pass starts while one changed.
Sweep(idom, rpo, order, preds, i) ==
  IF i > Len(order) THEN idom
  ELSE Sweep([idom EXCEPT ![order[i]] = Meet(idom, rpo, preds[order[i]], NoBlock)],
             rpo, order, preds, i + 1)
RECURSIVE IdomFixpoint(_, _, _, _)
IdomFixpoint(idom, rpo, order, preds) ==
  LET next == Sweep(idom, rpo, order, preds, 2)
  IN IF next = idom THEN idom ELSE IdomFixpoint(next, rpo, order, preds)
iterative_idoms(entry, succs) ==
  LET walk == PostOrder(succs, entry, succs[entry], [order |-> <<>>, seen |-> {entry}])
      order == Reverse(walk.order)
      rpo == [v \in walk.seen |-> CHOOSE i \in 1..Len(order) : order[i] = v]
      preds == [v \in walk.seen |-> {u \in walk.seen : v \in succs[u]}]
      start == [v \in walk.seen |-> IF v = entry THEN entry ELSE NoBlock]
  IN [idom |-> [IdomFixpoint(start, rpo, order, preds) EXCEPT ![entry] = NoBlock],
      seen |-> walk.seen]

\* RegionCfg and PostDomTree::compute: the reversed graph with a synthetic
\* exit 0 fed by the blocks without successors.
Exits(p) == {b \in BlockSet(p) : p.term[b].s = <<>>}
PostDomTree(p) ==
  LET rev == [b \in BlockSet(p) \union {0} |-> IF b = 0 THEN Exits(p) ELSE Preds(p, b)]
  IN iterative_idoms(0, rev)
RECURSIVE ClimbsTo(_, _, _)
ClimbsTo(pdt, a, cur) == cur = a \/ (pdt.idom[cur] \notin {0, NoBlock} /\ ClimbsTo(pdt, a, pdt.idom[cur]))
\* PostDomTree::postdominates
postdominates(pdt, a, b) == a \in pdt.seen /\ b \in pdt.seen /\ ClimbsTo(pdt, a, b)

---------------------------------------------------------------------------
\* op_effects: the effect class of each operation kind; a kind that is not
\* listed (a call) has unknown effects.
op_effects ==
  [k \in {"add", "sub", "mul", "and", "or", "xor", "shl", "lshr", "ashr", "icmp", "select",
          "zext", "sext", "trunc", "bitcast", "gep", "insert", "extract"} |-> "Pure"]
  @@ [k \in Trapping |-> "PureTrapping"]
  @@ [k \in {"const", "undef"} |-> "Materialize"]
  @@ ("alloca" :> "Alloc") @@ ("load" :> "Read") @@ ("store" :> "Write")
op_ids_in(classes) == {k \in DOMAIN op_effects : op_effects[k] \in classes}
deletable_op_ids == op_ids_in({"Pure", "PureTrapping", "Materialize", "Alloc", "Read"})
memory_benign_op_ids == deletable_op_ids
hoistable_op_ids == op_ids_in({"Pure"})
sinkable_op_ids == op_ids_in({"Pure", "PureTrapping", "Materialize"})
=============================================================================
