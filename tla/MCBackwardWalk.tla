--------------------------- MODULE MCBackwardWalk ---------------------------
(* A function of two blocks that calls another, measured on every byte. *)
EXTENDS BackwardWalk

Made(kind, name) == BareOp(kind, name, {name})

MCSource ==
  [f |-> <<Block("a", <<Made("add", 1), Made("call", 2), Made("br", 3)>>),
           Block("b", <<Made("add", 4), Made("mul", 5), Made("ret", 6)>>)>>,
   g |-> <<Block("a", <<Made("mul", 7), Made("ret", 8)>>)>>,
   h |-> <<Block("a", <<Made("ret", 10)>>)>>]

\* The lowering rewrote f, left g alone and made h.
MCBefore == [f |-> <<Block("a", <<Made("mir", 9)>>)>>, g |-> MCSource.g]

MCKinds == {"add", "mul", "shift", "call", "br", "ret"}
MCLabels == {"a", "b", "inlined", "cont"}

MCByteLen(op) == IF op.kind = "adr" THEN 8 ELSE 4

MCLine(event, symbol, offset) == [event |-> event, symbol |-> symbol, offset |-> offset]

\* A cycle sample on each of a function's first instructions.
MCCycles(symbol, count) == [k \in 1..count |-> MCLine("cycles", symbol, 4 * (k - 1))]

\* Cycles all over, instructions only in f, and a sample in other code; or
\* cycles in f and only instructions in the others.
MCLines ==
  {MCCycles("f", 20) \o MCCycles("g", 3) \o MCCycles("h", 2) \o
   <<MCLine("instructions", "f", 0), MCLine("instructions", "f", 12),
     MCLine("instructions", "f", 16), MCLine("cycles", "libc", 4)>>,
   MCCycles("f", 20) \o <<MCLine("instructions", "g", 0), MCLine("instructions", "h", 4)>>}
=============================================================================
