---------------------------- MODULE MCEdgeCopies ----------------------------
(***************************************************************************)
(* The block-argument copies of both backends.                             *)
(*                                                                         *)
(* Host: every edge with up to four block arguments among five registers:  *)
(* chains, fans, several cycles at once, undefined leaves and copies of a  *)
(* register to itself.  Each register starts with a value of its own.      *)
(* Device: every edge with up to three block arguments among four          *)
(* registers, each from a register, possibly converted, or an immediate.   *)
(* A behaviour lowers one edge, on one of the two.                         *)
(***************************************************************************)
EXTENDS ParallelCopy, StagedCopy, Sequences

Size == 5
Initial == [r \in 0 .. Size - 1 |-> r + 10]

\* The block arguments are registers 0 .. n - 1 in order; the last one is
\* of a class that is zeroed through an integer register.
HostEdge(n, srcs) ==
    [size |-> Size, regs |-> Initial, needs_zero |-> {3},
     copies |-> [k \in 1 .. n |-> [dst |-> k - 1, src |-> srcs[k]]]]
MCEdges ==
    UNION {{HostEdge(n, srcs) : srcs \in [1 .. n -> 0 .. Size - 1 \cup {Undef}]} : n \in 1 .. 4}

-----------------------------------------------------------------------------
\* Raw values are below 10; the generic address of a value is 10 above it.
MCPtxValue == 0 .. 29
MCGeneric == [v \in MCPtxValue |-> IF v < 20 THEN v + 10 ELSE v]

Arguments(d) ==
    {[dst |-> d, src |-> s, const |-> FALSE, imm |-> 0, cvta |-> c /\ s # d] :
        s \in 0 .. 3, c \in BOOLEAN}
    \cup {[dst |-> d, src |-> 0, const |-> TRUE, imm |-> 7, cvta |-> FALSE]}

PtxEdge(copies) ==
    [size |-> 4, args |-> Len(copies), regs |-> [r \in 0 .. 3 |-> r], copies |-> copies]
MCPtxEdges ==
    {PtxEdge(<<>>)}
    \cup {PtxEdge(<<a>>) : a \in Arguments(0)}
    \cup {PtxEdge(<<a, b>>) : a \in Arguments(0), b \in Arguments(1)}
    \cup {PtxEdge(<<a, b, c>>) : a \in Arguments(0), b \in Arguments(1), c \in Arguments(2)}

VARIABLE backend

MCInit ==
    \/ backend = "host" /\ Init /\ ptx_edge = PtxEdge(<<>>) /\ InitPtx
    \/ backend = "ptx" /\ edge = HostEdge(1, <<0>>) /\ Init /\ InitPtx

MCNext ==
    \/ backend = "host" /\ Next /\ UNCHANGED <<ptx_vars, backend>>
    \/ backend = "ptx" /\ NextPtx /\ UNCHANGED <<vars, backend>>

MCSpec == MCInit /\ [][MCNext]_<<vars, ptx_vars, backend>> /\ WF_<<vars, ptx_vars, backend>>(MCNext)
=============================================================================
