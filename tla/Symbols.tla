------------------------------ MODULE Symbols -------------------------------
(***************************************************************************)
(* Who defines a symbol: from the recursive import of functions and        *)
(* constants, which records each function's linkage, through the inliner,  *)
(* which erases functions it believes unreferenced, to the symbol table of *)
(* the object file.                                                        *)
(*                                                                         *)
(* A function body is the sequence of its references: direct calls and     *)
(* addresses taken, some of them in blocks that only unwinding would       *)
(* reach. A constant is the sequence of the symbols its pointer slots      *)
(* name. The importer's recursion is an explicit stack of what is being    *)
(* imported. Left out: an import error (it fails the compile), the         *)
(* debugging switch that exports everything, and kernels, which live in a  *)
(* module of their own.                                                    *)
(***************************************************************************)
EXTENDS Integers, Sequences, FiniteSets

CONSTANTS
    Importable,     \* functions whose MIR this crate can import
    Outside,        \* functions with no MIR here: other objects define them
    Allocs,         \* constant allocations
    Thunk,          \* Outside -> symbol of the local forwarding thunk
    Locals,         \* the crate's own functions, in hir_body_owners order
    RustMain,       \* the entry function among Locals
    CMain,          \* the wrapper the importer makes for it
    Programs,       \* [body : Importable -> Seq(Ref), slots : Allocs -> Seq]
    MaxCalleeOps,   \* LLVMInlinePass::max_callee_ops
    MaxGrowth       \* LLVMInlinePass::max_caller_growth

Thunks == {Thunk[e] : e \in Outside}
Defined == Importable \cup Thunks \cup {CMain}
SymbolNames == Defined \cup Outside \cup Allocs
Ref == [kind : {"call", "addr"}, to : SymbolNames, unwind : BOOLEAN]

ASSUME SymbolsAssumption ==
    /\ Thunk \in [Outside -> Thunks]
    /\ Locals \in Seq(Importable)
    /\ RustMain \in {Locals[i] : i \in DOMAIN Locals}
    /\ MaxCalleeOps \in Nat /\ MaxGrowth \in Nat
    /\ Importable \cap (Thunks \cup {CMain} \cup Outside \cup Allocs) = {}
    /\ Thunks \cap ({CMain} \cup Outside \cup Allocs) = {}
    /\ CMain \notin Outside \cup Allocs
    /\ Outside \cap Allocs = {}

\* The source names functions and constants, never what the importer makes.
SourceNames == Importable \cup Outside \cup Allocs
SourceRef == [kind : {"call", "addr"}, to : SourceNames, unwind : BOOLEAN]

ASSUME ProgramsAssumption ==
    \A p \in Programs :
        /\ p.body \in [Importable -> Seq(SourceRef)]
        /\ p.slots \in [Allocs -> Seq(SourceNames)]

VARIABLES
    prog,       \* the source
    todo,       \* body owners import_crate has still to visit
    stack,      \* what is being imported: [sym, next, after]
    present,    \* the module's functions, in the order they were inserted
    body,       \* their references
    slots,      \* emitted constants: alloc -> relocation targets
    linkage,    \* recorded, then stamped: symbol -> linkage
    reentered,  \* functions a relocation named while they were on the stack
    phase,      \* "import", "inline", "sweep", "done"
    cur,        \* the function being inlined into, an index of present
    budget,     \* what may still be inlined into it
    size,       \* ops of each body
    erased,     \* functions the inliner removed
    calls, taken,   \* SymbolRefCounts
    undefined   \* the object's undefined symbols

vars == <<prog, todo, stack, present, body, slots, linkage, reentered, phase,
          cur, budget, size, erased, calls, taken, undefined>>
importVars == <<prog, todo, stack, present, slots, linkage, reentered>>
inlineVars == <<cur, budget, size, erased, calls, taken>>

Elements(s) == {s[i] : i \in DOMAIN s}
Call(s) == [kind |-> "call", to |-> s, unwind |-> FALSE]
Addr(s) == [kind |-> "addr", to |-> s, unwind |-> FALSE]
With(f, x, v) == [y \in DOMAIN f \cup {x} |-> IF y = x THEN v ELSE f[y]]
Exists(s) == s \in Elements(present) \cup DOMAIN slots
-----------------------------------------------------------------------------
(* Import.                                                                  *)

Top == stack[Len(stack)]
Popped == SubSeq(stack, 1, Len(stack) - 1)
Advanced == [stack EXCEPT ![Len(stack)].next = @ + 1]
Frame(s, after) == [sym |-> s, next |-> 1, after |-> after]

(* import_function: the function is in the module before its body is. *)
EnterFunction(f, after) ==
    /\ present' = Append(present, f)
    /\ body' = With(body, f, << >>)
    /\ stack' = Append(stack, Frame(f, after))

(* import_crate: the next body owner, unless something imported it before. *)
ImportLocal ==
    /\ phase = "import" /\ stack = << >> /\ todo # << >>
    /\ todo' = Tail(todo)
    /\ IF Exists(Head(todo))
       THEN UNCHANGED <<present, body, stack>>
       ELSE EnterFunction(Head(todo), "nothing")
    /\ UNCHANGED <<prog, slots, linkage, reentered, phase, inlineVars,
                   undefined>>

InFunction == stack # << >> /\ Top.sym \in Importable
InAlloc == stack # << >> /\ Top.sym \in Allocs

Pending ==
    IF InFunction THEN prog.body[Top.sym] ELSE prog.slots[Top.sym]

Target ==
    IF InFunction THEN Pending[Top.next].to ELSE Pending[Top.next]

HasNext == stack # << >> /\ Top.next <= Len(Pending)

(* import_upstream_instance on a function not imported yet: its whole body *)
(* is imported before the reference that needed it is emitted.             *)
DescendIntoFunction ==
    /\ phase = "import" /\ HasNext
    /\ Target \in Importable /\ ~Exists(Target)
    /\ EnterFunction(Target, "internal")
    /\ UNCHANGED <<prog, todo, slots, linkage, reentered, phase, inlineVars,
                   undefined>>

(* emit_allocation_global: the global is inserted before its slots resolve. *)
DescendIntoAlloc ==
    /\ phase = "import" /\ HasNext
    /\ Target \in Allocs /\ ~Exists(Target)
    /\ slots' = With(slots, Target, << >>)
    /\ stack' = Append(stack, Frame(Target, "nothing"))
    /\ UNCHANGED <<prog, todo, present, body, linkage, reentered, phase,
                   inlineVars, undefined>>

(* emit_fn_ptr_thunk: an internal function that forwards to symbol e. *)
NeedsThunk(e) == e \in Outside /\ (InAlloc \/ Pending[Top.next].kind = "addr")

ThunkBody(e) ==
    IF Exists(Thunk[e]) THEN body ELSE With(body, Thunk[e], <<Call(e)>>)

ThunkPresent(e) ==
    IF Exists(Thunk[e]) THEN present ELSE Append(present, Thunk[e])

ThunkLinkage(e) ==
    IF Exists(Thunk[e]) THEN linkage ELSE With(linkage, Thunk[e], "internal")

(* A call or an address, once its target is in the module or outside it. *)
EmitReference ==
    /\ phase = "import" /\ InFunction /\ HasNext
    /\ Target \in Outside \/ Exists(Target)
    /\ LET f == Top.sym
           r == Pending[Top.next]
       IN IF NeedsThunk(Target)
          THEN /\ body' = [ThunkBody(Target) EXCEPT
                              ![f] = Append(@, [r EXCEPT !.to = Thunk[Target]])]
               /\ present' = ThunkPresent(Target)
               /\ linkage' = ThunkLinkage(Target)
          ELSE /\ body' = [body EXCEPT ![f] = Append(@, r)]
               /\ UNCHANGED <<present, linkage>>
    /\ stack' = Advanced
    /\ UNCHANGED <<prog, todo, slots, reentered, phase, inlineVars, undefined>>

\* Mutant of ExposeTarget: the imported copy keeps its internal linkage.
ExposeNothing(f) == linkage

(* data_global_for_alloc: a function a slot names must be visible to the    *)
(* linker, weakly, since another object may define it too.                  *)
ExposeTarget(f) == With(linkage, f, "weak")

EmitSlot ==
    /\ phase = "import" /\ InAlloc /\ HasNext
    /\ Target \in Outside \/ Exists(Target)
    /\ LET d == Top.sym
       IN IF Target \in Outside
          THEN /\ body' = ThunkBody(Target)
               /\ present' = ThunkPresent(Target)
               /\ linkage' = With(ThunkLinkage(Target), Thunk[Target],
                                  "external")
               /\ slots' = [slots EXCEPT ![d] = Append(@, Thunk[Target])]
          ELSE /\ linkage' = IF Target \in Importable THEN ExposeTarget(Target)
                             ELSE linkage
               /\ slots' = [slots EXCEPT ![d] = Append(@, Target)]
               /\ UNCHANGED <<body, present>>
    /\ reentered' =
          reentered \cup ({Target} \cap {stack[i].sym : i \in DOMAIN stack}
                                   \cap Importable)
    /\ stack' = Advanced
    /\ UNCHANGED <<prog, todo, phase, inlineVars, undefined>>

\* Mutant of ImportedLinkage: the copy is exported like a local function.
ImportedExternal(f, after) == linkage

(* The end of import_upstream_instance: keep the copy internal. *)
ImportedLinkage(f, after) ==
    IF after = "internal" THEN With(linkage, f, "internal") ELSE linkage

(* The end of import_function: remove_unreachable_blocks takes the cleanup  *)
(* blocks away, whose references have been imported like the others.        *)
StaysReachable(refs) == {i \in DOMAIN refs : ~refs[i].unwind}

(* What is left of refs, in its order: the one increasing enumeration of    *)
(* the references that stay.                                                *)
Survivors(refs) ==
    LET n == Cardinality(StaysReachable(refs))
    IN {[k \in 1..n |-> refs[m[k]]] : m \in
           {e \in [1..n -> StaysReachable(refs)] :
               \A k, l \in 1..n : k < l => e[k] < e[l]}}

FinishImport ==
    /\ phase = "import" /\ stack # << >> /\ ~HasNext
    /\ linkage' = ImportedLinkage(Top.sym, Top.after)
    /\ IF InFunction
       THEN \E kept \in Survivors(body[Top.sym]) :
               body' = [body EXCEPT ![Top.sym] = kept]
       ELSE UNCHANGED body
    /\ stack' = Popped
    /\ UNCHANGED <<prog, todo, present, slots, reentered, phase, inlineVars,
                   undefined>>
-----------------------------------------------------------------------------
(* The inliner.                                                             *)

Alive == Elements(present) \ erased

IsRef(r, kind, s) == r.kind = kind /\ r.to = s

CountIn(refs, kind, s) ==
    Cardinality({i \in DOMAIN refs : IsRef(refs[i], kind, s)})

(* collect_symbol_reference_counts over the module. *)
ModuleCount(bodies, kind, s) ==
    Cardinality({p \in UNION {{<<f, i>> : i \in DOMAIN bodies[f]} :
                              f \in DOMAIN bodies} :
                     IsRef(bodies[p[1]][p[2]], kind, s)})

(* import_entry_wrapper, then ApplyModuleLinkagePass: the recorded linkage, *)
(* or external; the inliner starts with fresh counts.                       *)
EndImport ==
    /\ phase = "import" /\ stack = << >> /\ todo = << >>
    /\ phase' = "inline"
    /\ present' = Append(present, CMain)
    /\ body' = With(body, CMain, <<Call(RustMain)>>)
    /\ linkage' = [f \in Elements(present') |->
                      IF f \in DOMAIN linkage THEN linkage[f] ELSE "external"]
    /\ cur' = 1 /\ budget' = MaxGrowth
    /\ size' = [f \in Elements(present') |-> Len(body'[f]) + 1]
    /\ calls' = [s \in SymbolNames |-> ModuleCount(body', "call", s)]
    /\ taken' = [s \in SymbolNames |-> ModuleCount(body', "addr", s)]
    /\ UNCHANGED <<prog, todo, stack, slots, reentered, erased, undefined>>

SingleSite(s) == calls[s] = 1 /\ taken[s] = 0

(* find_inlinable_call: whether the call r in function f may be inlined. *)
Inlinable(f, r) ==
    /\ r.kind = "call" /\ r.to # f
    /\ r.to \in Alive /\ linkage[r.to] = "internal"
    /\ SingleSite(r.to) \/ (size[r.to] <= MaxCalleeOps /\ size[r.to] <= budget)

FirstInlinable(f) ==
    {i \in DOMAIN body[f] :
        /\ Inlinable(f, body[f][i])
        /\ \A j \in 1..(i - 1) : ~Inlinable(f, body[f][j])}

Caller == present[cur]
InInline == phase = "inline" /\ cur <= Len(present)

(* inline_call: the callee's references take the place of the call. *)
Inlined(f, i) ==
    SubSeq(body[f], 1, i - 1) \o body[body[f][i].to]
        \o SubSeq(body[f], i + 1, Len(body[f]))

Saturating(a, b) == IF a > b THEN a - b ELSE 0

\* Mutant of CountsAfter: the references of the cloned body are not added.
CountsNotCloned(count, kind, callee, s) ==
    IF kind = "call" /\ s = callee THEN Saturating(count[s], 1) ELSE count[s]

(* remove_call_site, then add_all of the cloned body's references. *)
CountsAfter(count, kind, callee, s) ==
    (IF kind = "call" /\ s = callee THEN Saturating(count[s], 1) ELSE count[s])
        + CountIn(body[callee], kind, s)

(* remove_all, when the callee is erased with its body. *)
CountsErased(count, kind, callee, s, gone) ==
    Saturating(CountsAfter(count, kind, callee, s),
               IF gone THEN CountIn(body[callee], kind, s) ELSE 0)

Unreferenced(callee) ==
    /\ CountsAfter(calls, "call", callee, callee) = 0
    /\ CountsAfter(taken, "addr", callee, callee) = 0

InlineCall ==
    /\ InInline /\ Caller \in Alive
    /\ \E i \in FirstInlinable(Caller) :
          LET callee == body[Caller][i].to
              single == SingleSite(callee)
              gone == single /\ Unreferenced(callee)
              spliced == [body EXCEPT ![Caller] = Inlined(Caller, i)]
          IN /\ body' = IF gone
                        THEN [f \in DOMAIN body \ {callee} |-> spliced[f]]
                        ELSE spliced
             /\ size' = [size EXCEPT ![Caller] = @ + size[callee]]
             /\ erased' = IF gone THEN erased \cup {callee} ELSE erased
             /\ budget' = IF single THEN budget
                          ELSE Saturating(budget, size[callee])
             /\ calls' = [s \in SymbolNames |->
                            CountsErased(calls, "call", callee, s, gone)]
             /\ taken' = [s \in SymbolNames |->
                            CountsErased(taken, "addr", callee, s, gone)]
    /\ UNCHANGED <<importVars, phase, cur, undefined>>

NextCaller ==
    /\ InInline
    /\ Caller \in Alive => FirstInlinable(Caller) = {}
    /\ cur' = cur + 1
    /\ budget' = MaxGrowth
    /\ phase' = IF cur = Len(present) THEN "sweep" ELSE phase
    /\ UNCHANGED <<importVars, body, size, erased, calls, taken, undefined>>

(* referenced_symbols: what the calls and addresses of the module name. *)
Referenced ==
    {s \in SymbolNames : \E f \in DOMAIN body :
        \E i \in DOMAIN body[f] : body[f][i].to = s}

Dead == {f \in Alive : linkage[f] = "internal" /\ f \notin Referenced}

(* One round of remove_dead_internal_functions. *)
SweepDead ==
    /\ phase = "sweep" /\ Dead # {}
    /\ erased' = erased \cup Dead
    /\ body' = [f \in DOMAIN body \ Dead |-> body[f]]
    /\ UNCHANGED <<importVars, phase, cur, budget, size, calls, taken,
                   undefined>>

(* collect_object_parts: external and weak functions and every constant     *)
(* define a symbol; a relocation to anything else is left to the linker.    *)
(* Calls to functions of the module are resolved while encoding.            *)
TextSymbols == {f \in Alive : linkage[f] \in {"external", "weak"}}

SlotTargets == UNION {Elements(slots[d]) : d \in DOMAIN slots}

CallFixups == {s \in Referenced : s \notin Alive \cup DOMAIN slots}

EmitObject ==
    /\ phase = "sweep" /\ Dead = {}
    /\ undefined' = CallFixups
                       \cup (SlotTargets \ (TextSymbols \cup DOMAIN slots))
    /\ phase' = "done"
    /\ UNCHANGED <<importVars, body, inlineVars>>

Done == phase = "done" /\ UNCHANGED vars
-----------------------------------------------------------------------------
Init ==
    /\ prog \in Programs
    /\ todo = Locals /\ stack = << >> /\ present = << >>
    /\ body = << >> /\ slots = << >> /\ linkage = << >> /\ reentered = {}
    /\ phase = "import" /\ cur = 1 /\ budget = 0 /\ size = << >>
    /\ erased = {} /\ calls = << >> /\ taken = << >> /\ undefined = {}

Next ==
    \/ ImportLocal \/ DescendIntoFunction \/ DescendIntoAlloc
    \/ EmitReference \/ EmitSlot \/ FinishImport \/ EndImport
    \/ InlineCall \/ NextCaller \/ SweepDead \/ EmitObject \/ Done

Spec == Init /\ [][Next]_vars
-----------------------------------------------------------------------------
(* Properties.                                                              *)

(* The counts the inliner keeps up to date while it clones and erases       *)
(* bodies never fall below the references the module really has, so the     *)
(* "only call site" it inlines and erases is the only one.                  *)
CountsSafe ==
    phase = "inline" =>
        \A s \in SymbolNames :
            /\ calls[s] >= ModuleCount(body, "call", s)
            /\ taken[s] >= ModuleCount(body, "addr", s)

(* A copy of another crate's function is never a strong definition of this  *)
(* object, so it cannot collide with the one in the crate's own library.    *)
UpstreamNeverStrong ==
    phase = "done" =>
        \A f \in Alive \cap Importable :
            f \notin Elements(Locals) => linkage[f] # "external"

(* A data relocation finds its function: what the object leaves undefined   *)
(* is defined by another object.  Excepted are functions a constant named   *)
(* while their own import was under way.                                    *)
RelocationsResolve ==
    phase = "done" => undefined \subseteq Outside \cup reentered

(* "A data relocation resolves through the symbol table [...] so the        *)
(* imported copy must be visible there": without the exception.             *)
DataRelocationsResolve ==
    phase = "done" => undefined \subseteq Outside
=============================================================================
