------------------------- MODULE MCRegisterAllocate -------------------------
(***************************************************************************)
(* Register allocation of small machine functions: three blocks in four    *)
(* CFG shapes, filled with the bodies below, over three virtual registers  *)
(* and one caller-saved and one callee-saved register in each bank.        *)
(***************************************************************************)
EXTENDS RegisterAllocate, SequencesExt

(***************************************************************************)
(* Inputs of the linear scan on its own, with one caller-saved and one     *)
(* callee-saved register in each bank, over two families of functions:     *)
(* three intervals of mixed classes, and four intervals of one class (so   *)
(* that a register is evicted, expires and is handed out again).  Values   *)
(* cross a call at position 1 or 2.                                        *)
(***************************************************************************)
MCCallerPool == [b \in Bank |-> 1]
MCCalleePool == [b \in Bank |-> 1]

\* Virtual registers are numbered in the order of the interval list; the
\* number only breaks ties.
Ordered(n, s, e) ==
    \A v \in 1 .. n - 1 : s[v] < s[v + 1] \/ (s[v] = s[v + 1] /\ e[v] <= e[v + 1])

Spans(n, last) ==
    {se \in [1 .. n -> 0 .. last] \X [1 .. n -> 0 .. last] :
        /\ \A v \in 1 .. n : se[1][v] <= se[2][v]
        /\ Ordered(n, se[1], se[2])}

\* Intervals, classes and the values that cross a call at some of the points.
Intervals(n, last, classes, marks) ==
    {<<se[1], se[2], c, {v \in 1 .. n : \E k \in cs : se[1][v] < k /\ k < se[2][v]}>> :
        se \in Spans(n, last), c \in [1 .. n -> classes], cs \in SUBSET marks}

\* The weights are read under the weighted policy only; some values are heavy.
Policies == {<<FALSE, {}>>} \cup {<<TRUE, heavy>> : heavy \in SUBSET (1 .. 3)}

MCInputs ==
    {[vregs |-> DOMAIN f[1], start |-> f[1], end |-> f[2], class |-> f[3],
      call_crossing |-> f[4], weighted |-> p[1],
      weight |-> [v \in DOMAIN f[1] |-> IF v \in p[2] THEN 2 ELSE 1]] :
        f \in Intervals(3, 2, {"Gpr64", "Fpr64", "Simd128"}, {1}) \cup
              Intervals(4, 3, {"Gpr64"}, {1, 2}),
        p \in Policies}

---------------------------------------------------------------------------
Inst(op, uses, defs, imm) == [op |-> op, uses |-> uses, defs |-> defs, imm |-> imm]
Def(v) == Inst("op", <<>>, <<<<"rd", v>>>>, 0)
Imm(v) == Inst("mov_imm", <<>>, <<<<"rd", v>>>>, 1)
Movk(v) == Inst("movk", <<<<"rd", v>>>>, <<<<"rd", v>>>>, 0)
Op2(v, w, d) == Inst("op", <<<<"rn", v>>, <<"rm", w>>>>, <<<<"rd", d>>>>, 0)
Use(v) == Inst("use", <<<<"rn", v>>>>, <<>>, 0)
Use2(v, w) == Inst("use", <<<<"rn", v>>, <<"rm", w>>>>, <<>>, 0)
Call == Inst("call", <<>>, <<>>, 0)
Terminator == Inst("b", <<>>, <<>>, 0)
CallReg(v) == Inst("call", <<<<"rn", v>>>>, <<>>, 0)

\* Successors of three blocks in layout order.
Shapes == {
    <<{2}, {2, 3}, {}>>,     \* a loop
    <<{2, 3}, {3}, {}>>,     \* a branch around a block
    <<{2}, {3}, {1, 2}>>,    \* nested back edges, no exit
    <<{3}, {}, {2}>> }       \* the last block of the layout comes second

Entry == { <<Def(1), Imm(2)>>, <<Imm(1), Def(2), Op2(1, 2, 3)>> }
Middle == { <<Call>>, <<Use(1), Call, Use(2)>>, <<Movk(1), Use2(1, 2)>>,
            <<Op2(1, 2, 3), Call, Op2(3, 3, 1)>>, <<Def(3), Use2(2, 3)>>,
            <<CallReg(2), Use(1)>> }
Final == Middle \cup { <<Imm(3), Use2(1, 3)>>, <<Op2(2, 1, 2), Use2(2, 1)>> }

Program(shape, bodies) ==
    LET ended == [b \in DOMAIN bodies |-> Append(bodies[b], Terminator)]
        blocks == FlattenSeq([b \in DOMAIN ended |-> [i \in DOMAIN ended[b] |-> b]])
        Of(b) == {i \in DOMAIN blocks : blocks[i] = b}
    IN  [insts |-> FlattenSeq(ended), block |-> blocks,
         first |-> [b \in DOMAIN bodies |-> Min(Of(b))],
         last |-> [b \in DOMAIN bodies |-> Max(Of(b))],
         succs |-> shape, class |-> <<"Gpr64", "Gpr64", "Gpr64">>,
         freq |-> <<1, 3, 1, 1>>, locals |-> 16, weighted |-> FALSE, remat |-> FALSE]

Bodies ==
    {p \in {Program(s, <<b1, b2, b3>>) :
              s \in Shapes, b1 \in Entry, b2 \in Middle, b3 \in Final} : IsStrict(p)}

Classes == { <<"Gpr64", "Gpr64", "Gpr64">>, <<"Simd128", "Fpr64", "Simd128">>,
             <<"Gpr64", "Fpr32", "Gpr64">> }
Options == { <<FALSE, FALSE>>, <<FALSE, TRUE>>, <<TRUE, FALSE>> }

MCPrograms ==
    { [p EXCEPT !.class = c, !.weighted = o[1], !.remat = o[2]] :
        p \in Bodies, c \in Classes, o \in Options }

\* A conditional branch passes an argument to one join block on both of its
\* edges.  branch_edge_target appends the two edge blocks, which copy it, at
\* the end of the layout; the join block starts with a call and reads the
\* argument after it.
OpeningCall ==
    Program(<<{3, 4}, {}, {2}, {2}>>,
            << <<Imm(2)>>, <<Call, Use(1)>>, <<Def(1)>>, <<Def(1)>> >>)
MCOpeningCall == {OpeningCall}

-----------------------------------------------------------------------------
\* Next to whole allocations, scans of the inputs above on their own,
\* which need not come from a program.
ScanInit ==
    /\ Init
    /\ prog = OpeningCall
    /\ phase = "alone"
    /\ live_in = <<>> /\ live_out = <<>> /\ changed = FALSE /\ index = 0
    /\ points = <<>> /\ executed = <<>>
    /\ pc = 0
    /\ vval = <<>>
    /\ mreg = <<>>
    /\ stack = <<>>

ScanAlone == phase = "alone" /\ Next /\ UNCHANGED mvars

\* Allocations of functions whose calls open no interval: what the allocator
\* is right about.
MCSpec ==
    /\ AllocateInit \/ ScanInit
    /\ [][(CallsOpenNoInterval /\ AllocateNext) \/ ScanAlone]_<<vars, mvars>>
=============================================================================
