---------------------------- MODULE MCObjectCode ----------------------------
(***************************************************************************)
(* What an object is made of, one side per behaviour: its symbols (the     *)
(* crates below), or the code of one function.                             *)
(*                                                                         *)
(* Code: three blocks, every terminator whose targets are not the entry,   *)
(* blocks with and without ops, so a block may encode to nothing, and      *)
(* displacement fields so narrow that some branches of some layouts are    *)
(* out of range.                                                           *)
(***************************************************************************)
EXTENDS Symbols, CodeLayout

(***************************************************************************)
(* A crate with functions rustmain and local, an importable function       *)
(* upstream of another crate, a function external without MIR and a        *)
(* constant table whose slots name functions: calls may recurse, local may *)
(* be reached by a call, by an address, from table, or only by             *)
(* import_crate, and table may name a function that is being imported.     *)
(***************************************************************************)
CONSTANTS rustmain, upstream, local, external, table, shim

MCThunk == [x \in {external} |-> shim]
MCLocals == <<rustmain, local>>

UpTo(n, S) == UNION {[1..m -> S] : m \in 0..n}

Unwinding(r) == [r EXCEPT !.unwind = TRUE]

MainRefs == {Call(upstream), Call(local), Addr(table), Addr(upstream),
             Unwinding(Call(upstream))}
UpstreamRefs == {Call(upstream), Call(local), Call(external), Addr(table), Addr(local)}
LocalRefs == {Call(upstream), Addr(external), Addr(table), Call(local),
              Unwinding(Addr(external))}

MCPrograms ==
    [body : {b \in [{rustmain, upstream, local} -> UpTo(2, MainRefs \cup UpstreamRefs \cup LocalRefs)] :
                /\ b[rustmain] \in UpTo(2, MainRefs)
                /\ b[upstream] \in UpTo(2, UpstreamRefs)
                /\ b[local] \in UpTo(1, LocalRefs)},
     slots : [{table} -> {<< >>, <<upstream>>, <<local>>, <<external>>, <<upstream, local>>}]]

---------------------------------------------------------------------------
VARIABLE side

Targets == 1..2
TerminatorChoices ==
    [kind : {"bcond", "cbnz"}, t : Targets, n : Targets]
        \cup [kind : {"b"}, t : Targets, n : {0}]
        \cup {[kind |-> "ret", t |-> 0, n |-> 0]}
MCFunctions == [0..2 -> TerminatorChoices]
MCOpCounts == [0..2 -> {0, 2}]

MCInit ==
    \/ /\ side = "symbols" /\ Init
       /\ isa = "aarch64" /\ src = [b \in 0..2 |-> [kind |-> "ret", t |-> 0, n |-> 0]]
       /\ ops = [b \in 0..2 |-> 0] /\ InitLayout
    \/ /\ side = "code" /\ InitLayout
       /\ prog = [body |-> [f \in Importable |-> << >>], slots |-> [a \in Allocs |-> << >>]]
       /\ Init

ObjectSymbols == side = "symbols" /\ Next /\ UNCHANGED <<layoutVars, side>>
ObjectCode == side = "code" /\ NextLayout /\ UNCHANGED <<vars, side>>

MCSpec == MCInit /\ [][ObjectSymbols \/ ObjectCode]_<<vars, layoutVars, side>>
=============================================================================
