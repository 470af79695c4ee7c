--------------------------- MODULE PipelineProofs ---------------------------
(***************************************************************************)
(* Proofs about one compilation: the program root (RootOnlyInProgramStage),*)
(* the stages (StagesInOrder) and the trace (TraceShowsWhatRan), for every *)
(* set of effective orders, passes and options.                            *)
(***************************************************************************)
EXTENDS Pipeline, SequenceTheorems, TLAPS

Point == DOMAIN Follows \cup {"trace", "object", "done"}

\* The entries of a trace: passes and the two snapshots around them.
Entry == STRING \cup {"initial", "emit-ir"}

\* The type invariant of a compilation.
TypesOfCompile ==
    /\ options \in [kernels : BOOLEAN, emit_ir : BOOLEAN, tracing : BOOLEAN]
    /\ order \in Orders
    /\ at \in Point
    /\ busy \in BOOLEAN
    /\ busy => at \in DOMAIN Follows
    /\ running \in Seq(STRING)
    /\ ran \in [Module -> Seq(STRING)]
    /\ failed \in BOOLEAN
    /\ dumps \in Seq(STRING)
    /\ trace \in Seq(Entry)
    /\ result \in {"none", "ok", "error"}

Listed(s) == order[s] \in Seq(STRING)

\* The stages of emit_object before the one it is at.
Earlier ==
    [emit_ir |-> {}, lower_host |-> {"emit_ir"}, lower_kernels |-> {"emit_ir", "lower_host"},
     program |-> {"emit_ir", "lower_host", "lower_kernels"},
     host |-> {"emit_ir", "lower_host", "lower_kernels", "program"},
     trace |-> {"emit_ir", "lower_host", "lower_kernels", "program", "host"},
     object |-> {"emit_ir", "lower_host", "lower_kernels", "program", "host"},
     kernels |-> {"emit_ir", "lower_host", "lower_kernels", "program", "host"},
     done |-> {"emit_ir", "lower_host", "lower_kernels", "program", "host", "kernels"}]

\* What was built, and that a failure is kept for the trace only.
Built ==
    /\ ~failed => \A a \in Earlier[at] : \A s \in Stages(a) : Listed(s)
    /\ busy => \A s \in Stages(at) : Listed(s)
    /\ busy => ~NothingToDo
    /\ options.emit_ir /\ at # "emit_ir" => Listed("host_lower")
    /\ failed => at = "trace" /\ ~busy
    /\ result = "ok" => at = "done" /\ ~busy

\* The passes a module went through before the stage emit_object is at.
LoweredHost == IF Lowered THEN order["host_lower"] ELSE <<>>
BeforeHost ==
    IF at = "emit_ir" THEN <<>>
    ELSE IF at = "lower_host" THEN IF options.emit_ir THEN order["host_lower"] ELSE <<>>
    ELSE IF at \in {"lower_kernels", "program"} THEN LoweredHost
    ELSE IF at = "host" THEN LoweredHost \o Program
    ELSE Whole("host")
BeforeKernels ==
    IF at \in {"emit_ir", "lower_host", "lower_kernels"} THEN <<>>
    ELSE IF at = "program" THEN order["device_lower"]
    ELSE IF at \in {"host", "trace", "object", "kernels"} THEN order["device_lower"] \o Program
    ELSE Whole("kernels")
BeforeStage(m) == IF m = "host" THEN BeforeHost ELSE BeforeKernels

\* A module in use went through the stages before and, in a running stage,
\* through what is no longer left of its passes.
Progress ==
    ~failed /\ result # "error" =>
        \A m \in Module : m = "host" \/ options.kernels =>
            IF busy /\ m \in Over(at) THEN ran[m] \o running = BeforeStage(m) \o Passes(at)
            ELSE ran[m] = BeforeStage(m)

\* Without kernels, there is nothing to run over them.
NoKernels == ~options.kernels => ran["kernels"] = <<>>

OnlyPrefixes ==
    (\A s \in StageOf : order[s] # OrderError) => \A m \in Module : IsPrefix(ran[m], Whole(m))

\* The dumps are the passes of the host module after the emit-ir stage.
Dumped ==
    options.tracing /\ order["program"] = <<>> =>
        IF ~options.emit_ir THEN dumps = ran["host"]
        ELSE IF at = "emit_ir" THEN dumps = <<>>
        ELSE ran["host"] = order["host_lower"] \o dumps

TraceHead == <<"initial">> \o (IF options.emit_ir THEN <<"emit-ir">> ELSE <<>>)

\* A trace was written after the host's passes, from the dumps.
Traced ==
    trace # <<>> =>
        /\ options.tracing
        /\ trace = TraceHead \o dumps
        /\ at \in {"object", "kernels", "done"} \/ (at = "trace" /\ result = "error")

-----------------------------------------------------------------------------
\* The empty list of passes.
LEMMA EmptyListed == <<>> \in Seq(STRING) /\ <<>> \in Seq(Entry)
OBVIOUS

\* Lists of passes are closed under the operators of the model.
LEMMA ListsClosed ==
    ASSUME NEW S
    PROVE  /\ \A s \in Seq(S), e \in S : Append(s, e) \in Seq(S)
           /\ \A s, t \in Seq(S) : s \o t \in Seq(S)
           /\ \A e \in S : <<e>> \in Seq(S)
           /\ <<>> \in Seq(S)
<1>1. \A s \in Seq(S), e \in S : Append(s, e) \in Seq(S)
  BY AppendProperties
<1>2. \A s, t \in Seq(S) : s \o t \in Seq(S)
  BY ConcatProperties
<1>3. ASSUME NEW e \in S PROVE <<e>> \in Seq(S)
  <2>1. Append(<<>>, e) = <<e>> /\ <<>> \in Seq(S)
    OBVIOUS
  <2> QED BY <1>1, <2>1
<1>4. <<>> \in Seq(S)
  OBVIOUS
<1> QED BY <1>1, <1>2, <1>3, <1>4

\* A stage that builds has a list of passes, and so has what emit_object runs.
LEMMA BuiltIsListed ==
    ASSUME order \in Orders, NEW s \in StageOf, Builds(s)
    PROVE  Listed(s)
BY OrdersAssumption DEF Builds, Listed

LEMMA PassesListed ==
    ASSUME at \in DOMAIN Follows, \A s \in Stages(at) : Listed(s), ~NothingToDo
    PROVE  Passes(at) \in Seq(STRING)
<1>1. at \in {"emit_ir", "lower_host", "lower_kernels", "program", "host", "kernels"}
  BY DEF Follows
<1>2. CASE at = "host"
  <2>1. Listed("host_mid") /\ Listed("host_machine") /\ (~Lowered => Listed("host_lower"))
    BY <1>2 DEF Stages, StageOf
  <2>2. (IF Lowered THEN <<>> ELSE order["host_lower"]) \in Seq(STRING)
    BY <2>1, EmptyListed DEF Listed
  <2>3. order["host_mid"] \o order["host_machine"] \in Seq(STRING)
    BY <2>1 DEF Listed
  <2> QED BY <2>2, <2>3, <1>2 DEF Passes
<1>3. CASE at # "host"
  BY <1>1, <1>3 DEF Stages, StageOf, NothingToDo, Passes, Listed
<1> QED BY <1>2, <1>3

\* The stages of crabbit-config a stage runs.
LEMMA StagesAreStages ==
    \A a \in DOMAIN Follows : Stages(a) \subseteq StageOf
BY DEF Follows, Stages, StageOf

LEMMA PointsFollow ==
    /\ DOMAIN Follows = {"emit_ir", "lower_host", "lower_kernels", "program", "host", "kernels"}
    /\ \A a \in DOMAIN Follows : Follows[a] \in Point
BY DEF Follows, Point

\* What a trace starts with.
LEMMA TraceHeadListed ==
    /\ TraceHead \in Seq(Entry)
    /\ Len(TraceHead) = IF options.emit_ir THEN 2 ELSE 1
<1>1. <<"initial">> \in Seq(Entry) /\ <<"emit-ir">> \in Seq(Entry) /\ <<>> \in Seq(Entry)
  BY ListsClosed DEF Entry
<1>2. CASE options.emit_ir
  BY <1>1, <1>2, ConcatProperties DEF TraceHead
<1>3. CASE ~options.emit_ir
  BY <1>1, <1>3, ConcatProperties DEF TraceHead
<1> QED BY <1>2, <1>3

\* Type correctness of a compilation (emit_object).
THEOREM CompilationTypes == SpecCompile => []TypesOfCompile
<1>1. InitCompile => TypesOfCompile
  BY EmptyListed DEF InitCompile, TypesOfCompile, Point, Follows, Module
<1>2. TypesOfCompile /\ [NextCompile]_compilation => TypesOfCompile'
  <2> SUFFICES ASSUME TypesOfCompile, [NextCompile]_compilation PROVE TypesOfCompile'
    OBVIOUS
  <2>0. UNCHANGED <<options, order>> => (options \in [kernels : BOOLEAN, emit_ir : BOOLEAN, tracing : BOOLEAN] /\ order \in Orders)'
    BY DEF TypesOfCompile
  <2>1. CASE SkipStage
    BY <2>1, PointsFollow DEF SkipStage, AtStage, TypesOfCompile
  <2>2. CASE BuildFails
    BY <2>2 DEF BuildFails, TypesOfCompile
  <2>3. CASE StartStage
    <3>1. \A s \in Stages(at) : Listed(s)
      BY <2>3, BuiltIsListed, StagesAreStages DEF StartStage, AtStage, TypesOfCompile
    <3>2. Passes(at) \in Seq(STRING)
      BY <3>1, <2>3, PassesListed DEF StartStage, AtStage
    <3> QED BY <2>3, <3>2 DEF StartStage, AtStage, TypesOfCompile
  <2>4. CASE RunPass
    <3>1. Head(running) \in STRING /\ Tail(running) \in Seq(STRING)
      BY <2>4 DEF RunPass, Running, TypesOfCompile
    <3>2. dumps' \in Seq(STRING)
      <4>1. Append(dumps, Head(running)) \in Seq(STRING)
        BY <3>1, ListsClosed DEF TypesOfCompile
      <4>2. dumps' \in {Append(dumps, Head(running)), dumps}
        BY <2>4 DEF RunPass
      <4> QED BY <4>1, <4>2 DEF TypesOfCompile
    <3>3. ran' \in [Module -> Seq(STRING)]
      <4>1. \A m \in Module : Append(ran[m], Head(running)) \in Seq(STRING)
        BY <3>1, ListsClosed DEF TypesOfCompile
      <4> QED BY <4>1, <2>4 DEF RunPass, TypesOfCompile
    <3> QED BY <2>4, <3>1, <3>2, <3>3 DEF RunPass, TypesOfCompile
  <2>5. CASE PassFails
    <3>0. failed' \in BOOLEAN
      BY <2>5 DEF PassFails, Kept
    <3>1. CASE Kept(at)
      BY <2>5, <3>0, <3>1, EmptyListed DEF PassFails, TypesOfCompile, Point
    <3>2. CASE ~Kept(at)
      BY <2>5, <3>0, <3>2, EmptyListed DEF PassFails, TypesOfCompile
    <3> QED BY <3>1, <3>2
  <2>6. CASE EndStage
    BY <2>6, PointsFollow DEF EndStage, TypesOfCompile
  <2>7. CASE DiskFails
    BY <2>7 DEF DiskFails, TypesOfCompile
  <2>8. CASE WriteTrace
    <3>1. trace' \in Seq(Entry)
      <4>1. TraceHead \in Seq(Entry)
        BY TraceHeadListed
      <4>2. dumps \in Seq(Entry)
        BY SeqMonotonic, STRING \subseteq Entry DEF Entry, TypesOfCompile
      <4>3. TraceHead \o dumps \in Seq(Entry)
        BY <4>1, <4>2, ListsClosed
      <4> QED BY <4>3, <2>8, EmptyListed DEF WriteTrace, TraceHead
    <3>2. ~busy
      BY <2>8, PointsFollow DEF WriteTrace, TypesOfCompile
    <3> QED BY <2>8, <3>1, <3>2 DEF WriteTrace, TypesOfCompile, Point
  <2>9. CASE WriteObject
    BY <2>9, PointsFollow DEF WriteObject, TypesOfCompile, Point
  <2>10. CASE HandOver
    BY <2>10 DEF HandOver, TypesOfCompile
  <2>11. CASE UNCHANGED compilation
    BY <2>11 DEF compilation, TypesOfCompile
  <2> QED BY <2>1, <2>2, <2>3, <2>4, <2>5, <2>6, <2>7, <2>8, <2>9, <2>10, <2>11 DEF NextCompile
<1> QED BY <1>1, <1>2, PTL DEF SpecCompile

(***************************************************************************)
(* The modules hang under the program root while the program stage runs    *)
(* and at no other time, also when a program pass fails                    *)
(* (run_program_stage in config/src/lib.rs).                               *)
(***************************************************************************)
THEOREM RootNeverOutlivesItsStage == SpecCompile => []RootOnlyInProgramStage
<1>1. InitCompile => RootOnlyInProgramStage
  BY DEF InitCompile, RootOnlyInProgramStage
<1>2. TypesOfCompile /\ RootOnlyInProgramStage /\ [NextCompile]_compilation
      => RootOnlyInProgramStage'
  <2> SUFFICES ASSUME TypesOfCompile, RootOnlyInProgramStage, [NextCompile]_compilation
               PROVE  RootOnlyInProgramStage'
    OBVIOUS
  <2> USE DEF RootOnlyInProgramStage
  <2>1. CASE SkipStage
    BY <2>1 DEF SkipStage, AtStage
  <2>2. CASE BuildFails
    BY <2>2 DEF BuildFails, AtStage
  <2>3. CASE StartStage
    BY <2>3 DEF StartStage, AtStage, Root
  <2>4. CASE RunPass
    BY <2>4 DEF RunPass
  <2>5. CASE PassFails
    BY <2>5 DEF PassFails, Kept
  <2>6. CASE EndStage
    BY <2>6 DEF EndStage
  <2>7. CASE DiskFails
    BY <2>7 DEF DiskFails
  <2>8. CASE WriteTrace
    BY <2>8 DEF WriteTrace
  <2>9. CASE WriteObject
    BY <2>9 DEF WriteObject
  <2>10. CASE HandOver
    BY <2>10 DEF HandOver
  <2>11. CASE UNCHANGED compilation
    BY <2>11 DEF compilation
  <2> QED BY <2>1, <2>2, <2>3, <2>4, <2>5, <2>6, <2>7, <2>8, <2>9, <2>10, <2>11 DEF NextCompile
<1> QED BY <1>1, <1>2, CompilationTypes, PTL DEF SpecCompile

-----------------------------------------------------------------------------
\* Concatenation of lists of passes.
LEMMA Concatenation ==
    /\ \A r, s, t \in Seq(STRING) : (r \o s) \o t = r \o (s \o t)
    /\ \A s \in Seq(STRING) : <<>> \o s = s /\ s \o <<>> = s
<1>1. \A r, s, t \in Seq(STRING) : (r \o s) \o t = r \o (s \o t)
  BY ConcatAssociative
<1>2. \A s \in Seq(STRING) : <<>> \o s = s /\ s \o <<>> = s
  BY ConcatEmptySeq
<1> QED BY <1>1, <1>2

LEMMA Associative ==
    ASSUME NEW r \in Seq(STRING), NEW s \in Seq(STRING), NEW t \in Seq(STRING)
    PROVE  (r \o s) \o t = r \o (s \o t)
BY ConcatAssociative

\* A pass moves from what is left to what was run.
LEMMA PassMoves ==
    ASSUME NEW r \in Seq(STRING), NEW s \in Seq(STRING), s # <<>>
    PROVE  Append(r, Head(s)) \o Tail(s) = r \o s
<1>1. Head(s) \in STRING /\ Tail(s) \in Seq(STRING) /\ Append(<<>>, Head(s)) = <<Head(s)>>
  OBVIOUS
<1>2. Append(r, Head(s)) = r \o <<Head(s)>>
  BY <1>1, AppendIsConcat
<1>3. s = <<Head(s)>> \o Tail(s)
  BY HeadTailProperties
<1>4. <<Head(s)>> \in Seq(STRING)
  BY <1>1, ListsClosed
<1> QED BY <1>1, <1>2, <1>3, <1>4, Concatenation

\* A pass is appended at the end of a concatenation.
LEMMA AppendInside ==
    ASSUME NEW r \in Seq(STRING), NEW s \in Seq(STRING), NEW e \in STRING
    PROVE  Append(r \o s, e) = r \o Append(s, e)
<1>1. <<e>> \in Seq(STRING) /\ r \o s \in Seq(STRING)
  BY ListsClosed
<1>2. Append(r \o s, e) = (r \o s) \o <<e>> /\ Append(s, e) = s \o <<e>>
  BY <1>1, AppendIsConcat
<1>3. (r \o s) \o <<e>> = r \o (s \o <<e>>)
  BY <1>1, Associative, Zenon
<1> QED BY <1>2, <1>3

\* The first part of a list is a prefix of it.
LEMMA FirstPartIsPrefix ==
    ASSUME NEW r \in Seq(STRING), NEW t \in Seq(STRING)
    PROVE  IsPrefix(r, r \o t)
<1>1. Len(r) \in Nat /\ Len(t) \in Nat /\ Len(r \o t) = Len(r) + Len(t)
  BY ConcatProperties, LenProperties
<1>2. SubSeq(r \o t, 1, Len(r)) = SubSeq(r, 1, Len(r))
  <2>1. SubSeq(r, 1, Len(r)) = r
    BY SubSeqFull
  <2>2. SubSeq(r \o t, 1, Len(r)) = r
    BY SubSeqOfConcat1, <2>1
  <2> QED BY <2>1, <2>2
<1> QED BY <1>1, <1>2 DEF IsPrefix

-----------------------------------------------------------------------------
\* What was built stays built, and a kept failure goes straight to the trace.
LEMMA CompilationBuilt == SpecCompile => []Built
<1>1. InitCompile => Built
  BY DEF InitCompile, Built, Earlier
<1>2. TypesOfCompile /\ TypesOfCompile' /\ Built /\ [NextCompile]_compilation => Built'
  <2> SUFFICES ASSUME TypesOfCompile, TypesOfCompile', Built, [NextCompile]_compilation
               PROVE  Built'
    OBVIOUS
  <2>0. ASSUME UNCHANGED <<options, order>>
        PROVE  /\ \A a : Stages(a)' = Stages(a)
               /\ \A s : Listed(s)' = Listed(s)
    BY <2>0 DEF Stages, Lowered, Listed
  <2>1. ASSUME at \in DOMAIN Follows, at' = Follows[at], UNCHANGED <<options, order, failed>>,
               \A s \in Stages(at) : Listed(s), ~busy', result # "ok", UNCHANGED result
        PROVE  Built'
    <3>1. Earlier[Follows[at]] = Earlier[at] \cup {at} \/ Follows[at] = "done"
      BY <2>1, PointsFollow DEF Earlier, Follows
    <3>2. ~failed
      BY <2>1, PointsFollow DEF Built
    <3>3. at = "kernels" => Earlier["done"] = Earlier[at] \cup {at}
      BY DEF Earlier
    <3>4. Earlier[at'] = Earlier[at] \cup {at}
      BY <3>1, <3>3, <2>1, PointsFollow DEF Follows
    <3>5. ~failed' => \A a \in Earlier[at'] : \A s \in Stages(a)' : Listed(s)'
      BY <3>2, <3>4, <2>0, <2>1 DEF Built
    <3>6. options.emit_ir /\ at # "emit_ir" => Listed("host_lower")
      BY DEF Built
    <3>7. options.emit_ir /\ at = "emit_ir" => Listed("host_lower")
      BY <2>1 DEF Stages, StageOf
    <3> QED BY <2>0, <2>1, <3>2, <3>5, <3>6, <3>7 DEF Built
  <2>2. CASE SkipStage
    <3>1. \A s \in Stages(at) : Listed(s)
      BY <2>2, EmptyListed DEF SkipStage, AtStage, NothingToDo, Stages, Listed
    <3> QED BY <2>1, <2>2, <3>1 DEF SkipStage, AtStage
  <2>3. CASE BuildFails
    BY <2>3, <2>0 DEF BuildFails, AtStage, Built, NothingToDo
  <2>4. CASE StartStage
    <3>1. \A s \in Stages(at) : Listed(s)
      BY <2>4, BuiltIsListed, StagesAreStages DEF StartStage, AtStage, TypesOfCompile
    <3>2. NothingToDo' = NothingToDo
      BY <2>4, <2>0 DEF StartStage, NothingToDo
    <3>3. ~failed /\ result # "ok"
      BY <2>4, PointsFollow DEF StartStage, AtStage, Built
    <3> QED BY <2>4, <2>0, <3>1, <3>2, <3>3 DEF StartStage, Built
  <2>5. CASE RunPass
    <3>1. NothingToDo' = NothingToDo
      BY <2>5, <2>0 DEF RunPass, NothingToDo
    <3> QED BY <2>5, <2>0, <3>1 DEF RunPass, Built
  <2>6. CASE PassFails
    <3>1. CASE Kept(at)
      <4>1. failed' = TRUE /\ at' = "trace" /\ busy' = FALSE /\ result' # "ok"
        BY <2>6, <3>1 DEF PassFails, Running, Kept
      <4>2. options.emit_ir => Listed("host_lower")
        BY <3>1 DEF Kept, Built
      <4> QED BY <2>6, <4>1, <4>2, <2>0 DEF PassFails, Built
    <3>2. CASE ~Kept(at)
      <4>1. NothingToDo' = NothingToDo
        BY <2>6, <3>2, <2>0 DEF PassFails, NothingToDo
      <4>2. ~failed' /\ ~failed
        BY <2>6, <3>2 DEF PassFails, Running, Kept, Built
      <4> QED BY <2>6, <3>2, <4>1, <4>2, <2>0 DEF PassFails, Running, Built
    <3> QED BY <3>1, <3>2
  <2>7. CASE EndStage
    <3>1. at \in DOMAIN Follows
      BY <2>7 DEF EndStage, TypesOfCompile
    <3> QED BY <2>7, <2>1, <3>1 DEF EndStage, Built
  <2>8. CASE DiskFails
    <3>1. NothingToDo' = NothingToDo
      BY <2>8, <2>0 DEF DiskFails, NothingToDo
    <3> QED BY <2>8, <3>1, <2>0 DEF DiskFails, Built
  <2>9. CASE WriteTrace
    <3>1. Earlier["object"] = Earlier["trace"]
      BY DEF Earlier
    <3>2. NothingToDo' = NothingToDo \/ ~busy'
      BY <2>9, PointsFollow DEF WriteTrace, TypesOfCompile
    <3> QED BY <2>9, <3>1, <3>2, <2>0, PointsFollow DEF WriteTrace, Built, TypesOfCompile
  <2>10. CASE WriteObject
    <3>1. Earlier["object"] = Earlier["kernels"]
      BY DEF Earlier
    <3> QED BY <2>10, <3>1, <2>0, PointsFollow DEF WriteObject, Built, TypesOfCompile
  <2>11. CASE HandOver
    BY <2>11, <2>0, PointsFollow DEF HandOver, Built, TypesOfCompile
  <2>12. CASE UNCHANGED compilation
    BY <2>12, <2>0 DEF compilation, Built, NothingToDo
  <2> QED BY <2>2, <2>3, <2>4, <2>5, <2>6, <2>7, <2>8, <2>9, <2>10, <2>11, <2>12 DEF NextCompile
<1> QED BY <1>1, <1>2, CompilationTypes, PTL DEF SpecCompile

-----------------------------------------------------------------------------
\* The stages before emit_object reaches the next one.
LEMMA NextBefore ==
    ASSUME TypesOfCompile, at \in DOMAIN Follows, at' = Follows[at],
           UNCHANGED <<options, order>>,
           \A a \in Earlier[at] \cup {at} : \A s \in Stages(a) : Listed(s),
           NEW m \in Module, m = "host" \/ options.kernels
    PROVE  BeforeStage(m)' = IF m \in Over(at) /\ ~NothingToDo
                             THEN BeforeStage(m) \o Passes(at) ELSE BeforeStage(m)
<1> DEFINE Then == IF m \in Over(at) /\ ~NothingToDo THEN BeforeStage(m) \o Passes(at)
                   ELSE BeforeStage(m)
<1>0. /\ Lowered' = Lowered /\ LoweredHost' = LoweredHost /\ Program' = Program
      /\ Whole(m)' = Whole(m) /\ order' = order /\ options' = options
  BY DEF Lowered, LoweredHost, Program, Whole
<1>1. CASE at = "emit_ir"
  <2>1. at' = "lower_host"
    BY <1>1 DEF Follows
  <2>2. CASE m = "host" /\ options.emit_ir
    <3>1. Listed("host_lower") /\ ~NothingToDo
      BY <1>1, <2>2 DEF Stages, StageOf, NothingToDo
    <3>2. Then = <<>> \o order["host_lower"]
      BY <1>1, <2>2, <3>1 DEF BeforeStage, BeforeHost, Passes, Over
    <3> QED BY <2>1, <2>2, <3>1, <3>2, <1>0, Concatenation DEF BeforeStage, BeforeHost, Listed
  <2>3. CASE m = "host" /\ ~options.emit_ir
    BY <1>0, <1>1, <2>1, <2>3 DEF BeforeStage, BeforeHost, Stages, NothingToDo
  <2>4. CASE m = "kernels"
    BY <1>0, <1>1, <2>1, <2>4 DEF BeforeStage, BeforeKernels, Over
  <2> QED BY <2>2, <2>3, <2>4 DEF Module
<1>2. CASE at = "lower_host"
  <2>1. at' = "lower_kernels"
    BY <1>2 DEF Follows
  <2>2. CASE m = "host" /\ options.kernels /\ ~options.emit_ir
    <3>1. Listed("host_lower") /\ ~NothingToDo
      BY <1>2, <2>2 DEF Stages, StageOf, NothingToDo
    <3>2. Then = <<>> \o order["host_lower"]
      BY <1>2, <2>2, <3>1 DEF BeforeStage, BeforeHost, Passes, Over
    <3> QED BY <2>1, <2>2, <3>1, <3>2, <1>0, Concatenation
            DEF BeforeStage, BeforeHost, LoweredHost, Lowered, Listed
  <2>3. CASE m = "host" /\ (options.emit_ir \/ ~options.kernels)
    BY <1>0, <1>2, <2>1, <2>3
    DEF BeforeStage, BeforeHost, LoweredHost, Lowered, Stages, NothingToDo
  <2>4. CASE m = "kernels"
    BY <1>0, <1>2, <2>1, <2>4 DEF BeforeStage, BeforeKernels, Over
  <2> QED BY <2>2, <2>3, <2>4 DEF Module
<1>3. CASE at = "lower_kernels"
  <2>1. at' = "program"
    BY <1>3 DEF Follows
  <2>2. CASE m = "host"
    BY <1>0, <1>3, <2>1, <2>2 DEF BeforeStage, BeforeHost, Over
  <2>3. CASE m = "kernels"
    <3>1. Listed("device_lower") /\ ~NothingToDo
      BY <1>3, <2>3 DEF Stages, StageOf, NothingToDo
    <3>2. Then = <<>> \o order["device_lower"]
      BY <1>3, <2>3, <3>1 DEF BeforeStage, BeforeKernels, Passes, Over
    <3> QED BY <2>1, <2>3, <3>1, <3>2, <1>0, Concatenation DEF BeforeStage, BeforeKernels, Listed
  <2> QED BY <2>2, <2>3 DEF Module
<1>4. CASE at = "program"
  <2>1. at' = "host"
    BY <1>4 DEF Follows
  <2>2. LoweredHost \in Seq(STRING) /\ (options.kernels => Listed("device_lower"))
    <3>1. Earlier[at] = {"emit_ir", "lower_host", "lower_kernels"}
      BY <1>4 DEF Earlier
    <3>2. (Lowered => Listed("host_lower")) /\ (options.kernels => Listed("device_lower"))
      BY <3>1 DEF Stages, StageOf, Lowered
    <3> QED BY <3>2, EmptyListed DEF LoweredHost, Listed
  <2>3. CASE NothingToDo
    <3>1. Program = <<>>
      BY <1>4, <2>3 DEF NothingToDo, Stages, StageOf, Program
    <3>2. CASE m = "host"
      BY <1>0, <1>4, <2>1, <2>2, <2>3, <3>1, <3>2, Concatenation DEF BeforeStage, BeforeHost
    <3>3. CASE m = "kernels"
      BY <1>0, <1>4, <2>1, <2>2, <2>3, <3>1, <3>3, Concatenation
      DEF BeforeStage, BeforeKernels, Listed
    <3> QED BY <3>2, <3>3 DEF Module
  <2>4. CASE ~NothingToDo
    <3>1. Passes(at) = Program /\ m \in Over(at)
      BY <1>4, <2>4 DEF NothingToDo, Stages, Program, Passes, Over, Module
    <3> QED BY <1>0, <1>4, <2>1, <2>4, <3>1 DEF BeforeStage, BeforeHost, BeforeKernels, Module
  <2> QED BY <2>3, <2>4
<1>5. CASE at = "host"
  <2>1. at' = "trace"
    BY <1>5 DEF Follows
  <2>2. CASE m = "host"
    <3>1. ~NothingToDo /\ m \in Over(at)
      BY <1>5, <2>2 DEF NothingToDo, Stages, StageOf, Over
    <3>2. Earlier[at] = {"emit_ir", "lower_host", "lower_kernels", "program"}
      BY <1>5 DEF Earlier
    <3>3. /\ Listed("host_lower") /\ Listed("host_mid") /\ Listed("host_machine")
          /\ options.kernels => Listed("program")
      BY <1>5, <3>2 DEF Stages, StageOf, Lowered
    <3>4. order["host_mid"] \o order["host_machine"] \in Seq(STRING)
      BY <3>3, ListsClosed DEF Listed
    <3>5. CASE Lowered
      <4>1. LoweredHost \o Program \in Seq(STRING)
        BY <3>3, EmptyListed, ListsClosed DEF LoweredHost, Program, Listed
      <4>2. Then = (LoweredHost \o Program) \o (order["host_mid"] \o order["host_machine"])
        BY <1>5, <2>2, <3>1, <3>4, <3>5, Concatenation DEF BeforeStage, BeforeHost, Passes
      <4> QED BY <1>0, <2>1, <2>2, <3>5, <4>2 DEF BeforeStage, BeforeHost, Whole, LoweredHost
    <3>6. CASE ~Lowered
      <4>1. Program = <<>> /\ LoweredHost = <<>>
        BY <3>6 DEF Lowered, Program, LoweredHost
      <4>2. Then = order["host_lower"] \o (order["host_mid"] \o order["host_machine"])
        <5>1. Then = (<<>> \o <<>>)
                     \o (order["host_lower"] \o (order["host_mid"] \o order["host_machine"]))
          BY <1>5, <2>2, <3>1, <3>6, <4>1 DEF BeforeStage, BeforeHost, Passes
        <5>2. order["host_lower"] \o (order["host_mid"] \o order["host_machine"]) \in Seq(STRING)
          BY <3>3, <3>4, ListsClosed DEF Listed
        <5> QED BY <5>1, <5>2, EmptyListed, Concatenation
      <4>3. Whole(m) = order["host_lower"] \o (order["host_mid"] \o order["host_machine"])
        BY <2>2, <3>3, <4>1, Concatenation DEF Whole, Listed
      <4> QED BY <1>0, <2>1, <2>2, <4>2, <4>3 DEF BeforeStage, BeforeHost
    <3> QED BY <3>5, <3>6
  <2>3. CASE m = "kernels"
    BY <1>0, <1>5, <2>1, <2>3 DEF BeforeStage, BeforeKernels, Over
  <2> QED BY <2>2, <2>3 DEF Module
<1>6. CASE at = "kernels"
  <2>1. at' = "done"
    BY <1>6 DEF Follows
  <2>2. CASE m = "host"
    BY <1>0, <1>6, <2>1, <2>2 DEF BeforeStage, BeforeHost, Over
  <2>3. CASE m = "kernels"
    <3>1. ~NothingToDo /\ m \in Over(at) /\ Passes(at) = order["device_mid"]
      BY <1>6, <2>3 DEF NothingToDo, Stages, StageOf, Over, Passes
    <3> QED BY <1>0, <1>6, <2>1, <2>3, <3>1 DEF BeforeStage, BeforeKernels, Whole
  <2> QED BY <2>2, <2>3 DEF Module
<1> QED BY <1>1, <1>2, <1>3, <1>4, <1>5, <1>6, PointsFollow

\* A point with the same stages before it.
LEMMA SameBefore ==
    ASSUME UNCHANGED <<options, order>>, NEW m \in Module,
           at' = at \/ (at = "trace" /\ at' = "object") \/ (at = "object" /\ at' = "kernels")
    PROVE  BeforeStage(m)' = BeforeStage(m)
BY DEF BeforeStage, BeforeHost, BeforeKernels, LoweredHost, Lowered, Program, Whole

\* Every module went through the stages before the point reached.
LEMMA CompilationProgress == SpecCompile => []Progress
<1>1. InitCompile => Progress
  BY DEF InitCompile, Progress, BeforeStage, BeforeHost, BeforeKernels, Module
<1>2. TypesOfCompile /\ Built /\ Progress /\ [NextCompile]_compilation => Progress'
  <2> SUFFICES ASSUME TypesOfCompile, Built, Progress, [NextCompile]_compilation,
                      ~failed' /\ result' # "error",
                      NEW m \in Module, m = "host" \/ options'.kernels
               PROVE  IF busy' /\ m \in Over(at')
                      THEN ran'[m] \o running' = BeforeStage(m)' \o Passes(at)'
                      ELSE ran'[m] = BeforeStage(m)'
    BY DEF Progress
  <2>0. ~failed /\ result # "error" /\ (m = "host" \/ options.kernels)
    BY DEF NextCompile, SkipStage, AtStage, BuildFails, StartStage, RunPass, Running, PassFails,
           EndStage, DiskFails, WriteTrace, WriteObject, HandOver, compilation, Built
  <2>1. IF busy /\ m \in Over(at) THEN ran[m] \o running = BeforeStage(m) \o Passes(at)
        ELSE ran[m] = BeforeStage(m)
    BY <2>0 DEF Progress
  <2>2. CASE SkipStage
    <3>1. \A s \in Stages(at) : Listed(s)
      BY <2>2, EmptyListed DEF SkipStage, AtStage, NothingToDo, Stages, Listed
    <3>2. BeforeStage(m)' = BeforeStage(m)
      BY <2>0, <2>2, <3>1, NextBefore DEF SkipStage, AtStage, Built
    <3> QED BY <2>1, <2>2, <3>2 DEF SkipStage, AtStage
  <2>3. CASE BuildFails
    BY <2>3 DEF BuildFails
  <2>4. CASE StartStage
    <3>1. BeforeStage(m)' = BeforeStage(m)
      BY <2>4, SameBefore DEF StartStage
    <3>2. Passes(at)' = Passes(at)
      BY <2>4 DEF StartStage, Passes, Lowered
    <3> QED BY <2>1, <2>4, <3>1, <3>2 DEF StartStage, AtStage
  <2>5. CASE RunPass
    <3>1. BeforeStage(m)' = BeforeStage(m)
      BY <2>5, SameBefore DEF RunPass
    <3>2. Passes(at)' = Passes(at)
      BY <2>5 DEF RunPass, Passes, Lowered
    <3>3. CASE m \in Over(at)
      <4>1. ran'[m] = Append(ran[m], Head(running)) /\ running' = Tail(running)
        BY <2>5, <3>3 DEF RunPass
      <4>2. ran'[m] \o running' = ran[m] \o running
        BY <2>5, <4>1, PassMoves DEF RunPass, Running, TypesOfCompile
      <4> QED BY <2>1, <2>5, <3>1, <3>2, <3>3, <4>2 DEF RunPass, Running
    <3>4. CASE m \notin Over(at)
      BY <2>1, <2>5, <3>1, <3>4 DEF RunPass
    <3> QED BY <3>3, <3>4
  <2>6. CASE PassFails
    BY <2>6 DEF PassFails, Kept
  <2>7. CASE EndStage
    <3>1. at \in DOMAIN Follows
      BY <2>7 DEF EndStage, TypesOfCompile
    <3>2. BeforeStage(m)' = IF m \in Over(at) /\ ~NothingToDo
                            THEN BeforeStage(m) \o Passes(at) ELSE BeforeStage(m)
      BY <2>0, <2>7, <3>1, NextBefore DEF EndStage, Built
    <3>3. ran[m] \o running = ran[m]
      BY <2>7, Concatenation DEF EndStage, TypesOfCompile
    <3> QED BY <2>1, <2>7, <3>2, <3>3 DEF EndStage, Built
  <2>8. CASE DiskFails
    BY <2>8 DEF DiskFails
  <2>9. CASE WriteTrace
    BY <2>0, <2>1, <2>9, SameBefore, PointsFollow DEF WriteTrace, TypesOfCompile
  <2>10. CASE WriteObject
    BY <2>0, <2>1, <2>10, SameBefore, PointsFollow DEF WriteObject, TypesOfCompile
  <2>11. CASE HandOver
    BY <2>0, <2>1, <2>11, SameBefore, PointsFollow DEF HandOver, TypesOfCompile
  <2>12. CASE UNCHANGED compilation
    <3>1. Passes(at)' = Passes(at)
      BY <2>12 DEF compilation, Passes, Lowered
    <3> QED BY <2>1, <2>12, <3>1, SameBefore DEF compilation
  <2> QED BY <2>2, <2>3, <2>4, <2>5, <2>6, <2>7, <2>8, <2>9, <2>10, <2>11, <2>12 DEF NextCompile
<1> QED BY <1>1, <1>2, CompilationTypes, CompilationBuilt, PTL DEF SpecCompile

\* Only passes change the modules; nothing changes the options and orders.
LEMMA OnlyPassesRun ==
    [NextCompile]_compilation =>
        UNCHANGED <<options, order>> /\ (RunPass \/ UNCHANGED <<ran, dumps>>)
BY DEF NextCompile, SkipStage, BuildFails, StartStage, PassFails, EndStage, DiskFails,
       WriteTrace, WriteObject, HandOver, RunPass, compilation

\* Without kernels, no stage runs over them.
LEMMA CompilationNoKernels == SpecCompile => []NoKernels
<1>1. InitCompile => NoKernels
  BY DEF InitCompile, NoKernels, Module
<1>2. TypesOfCompile /\ Built /\ NoKernels /\ [NextCompile]_compilation => NoKernels'
  <2> SUFFICES ASSUME TypesOfCompile, Built, NoKernels, RunPass, ~options.kernels
               PROVE  "kernels" \notin Over(at)
    BY OnlyPassesRun DEF NoKernels, RunPass, Module
  <2>1. Stages(at) # {} /\ at \in DOMAIN Follows
    BY DEF RunPass, Running, Built, NothingToDo, TypesOfCompile
  <2>2. at \notin {"lower_kernels", "program", "kernels"}
    BY <2>1 DEF Stages
  <2> QED BY <2>2 DEF Over
<1> QED BY <1>1, <1>2, CompilationTypes, CompilationBuilt, PTL DEF SpecCompile

\* What is left after a stage completes the passes of the module.
LEMMA RestOfStages ==
    ASSUME \A s \in StageOf : Listed(s), at \in DOMAIN Follows, ~NothingToDo,
           NEW m \in Over(at), m = "host" \/ options.kernels
    PROVE  \E rest \in Seq(STRING) : (BeforeStage(m) \o Passes(at)) \o rest = Whole(m)
<1> DEFINE L == order["host_lower"]  M == order["host_mid"] \o order["host_machine"]
           D == order["device_lower"]  E == order["device_mid"]
<1>0. /\ L \in Seq(STRING) /\ M \in Seq(STRING) /\ D \in Seq(STRING) /\ E \in Seq(STRING)
      /\ Program \in Seq(STRING) /\ <<>> \in Seq(STRING)
  <2>1. \A s \in StageOf : order[s] \in Seq(STRING)
    BY DEF Listed
  <2>2. /\ L \in Seq(STRING) /\ D \in Seq(STRING) /\ E \in Seq(STRING)
        /\ order["host_mid"] \in Seq(STRING) /\ order["host_machine"] \in Seq(STRING)
        /\ order["program"] \in Seq(STRING)
    BY <2>1 DEF StageOf
  <2> QED BY <2>2, EmptyListed, ListsClosed DEF Program
<1>1. Whole("host") = (L \o Program) \o M /\ Whole("kernels") = (D \o Program) \o E
  BY DEF Whole
<1> HIDE DEF L, M, D, E
<1>a. /\ L \o Program \in Seq(STRING) /\ D \o Program \in Seq(STRING)
      /\ Program \o M \in Seq(STRING) /\ Program \o E \in Seq(STRING) /\ L \o M \in Seq(STRING)
  BY <1>0, ListsClosed
<1>b. Whole("host") \in Seq(STRING) /\ Whole("kernels") \in Seq(STRING)
  BY <1>0, <1>1, <1>a, ListsClosed
<1>c. (L \o Program) \o M = L \o (Program \o M)
  <2>1. L \in Seq(STRING) /\ Program \in Seq(STRING) /\ M \in Seq(STRING)
    BY <1>0
  <2> QED BY <2>1, Associative, Zenon
<1>d. (D \o Program) \o E = D \o (Program \o E)
  BY <1>0, Associative, Zenon
<1>2. CASE at \in {"emit_ir", "lower_host"}
  <2>1. m = "host" /\ BeforeStage(m) \o Passes(at) = L
    BY <1>0, <1>2, Concatenation
    DEF Over, Stages, NothingToDo, BeforeStage, BeforeHost, Passes, L
  <2> QED BY <2>1, <1>1, <1>a, <1>c
<1>3. CASE at = "lower_kernels"
  <2>1. m = "kernels" /\ BeforeStage(m) \o Passes(at) = D
    BY <1>0, <1>3, Concatenation DEF Over, BeforeStage, BeforeKernels, Passes, D
  <2>2. D \o (Program \o E) = Whole("kernels")
    BY <1>1, <1>d
  <2> QED BY <2>1, <2>2, <1>a
<1>4. CASE at = "program"
  <2>1. options.kernels /\ Passes(at) = Program
    BY <1>4 DEF Stages, NothingToDo, Passes, Program
  <2>2. CASE m = "host"
    BY <1>0, <1>1, <1>4, <2>1, <2>2 DEF BeforeStage, BeforeHost, LoweredHost, Lowered, L
  <2>3. CASE m = "kernels"
    BY <1>0, <1>1, <1>4, <2>1, <2>3 DEF BeforeStage, BeforeKernels, D
  <2> QED BY <2>2, <2>3 DEF Over
<1>5. CASE at = "host"
  <2>1. m = "host"
    BY <1>5 DEF Over
  <2>2. CASE Lowered
    <3>1. BeforeStage(m) \o Passes(at) = (L \o Program) \o (<<>> \o M)
      BY <1>5, <2>1, <2>2 DEF BeforeStage, BeforeHost, LoweredHost, Passes, L, M
    <3>2. BeforeStage(m) \o Passes(at) = Whole(m)
      BY <1>0, <1>1, <2>1, <3>1, Concatenation
    <3>3. Whole(m) \in Seq(STRING)
      BY <1>b, <2>1
    <3> QED BY <1>0, <3>2, <3>3, Concatenation
  <2>3. CASE ~Lowered
    <3>1. Program = <<>>
      BY <2>3 DEF Lowered, Program
    <3>2. BeforeStage(m) \o Passes(at) = (<<>> \o Program) \o (L \o M)
      BY <1>5, <2>1, <2>3 DEF BeforeStage, BeforeHost, LoweredHost, Passes, L, M
    <3>3. BeforeStage(m) \o Passes(at) = L \o M /\ Whole(m) = L \o M
      <4>1. <<>> \o <<>> = <<>> /\ <<>> \o (L \o M) = L \o M /\ L \o <<>> = L
        BY <1>0, <1>a, Concatenation
      <4> QED BY <1>1, <2>1, <3>1, <3>2, <4>1
    <3> QED BY <1>0, <1>a, <3>3, Concatenation
  <2> QED BY <2>2, <2>3
<1>6. CASE at = "kernels"
  <2>1. m = "kernels" /\ BeforeStage(m) \o Passes(at) = Whole(m)
    BY <1>1, <1>6 DEF Over, BeforeStage, BeforeKernels, Passes, D, E
  <2>2. Whole(m) \in Seq(STRING)
    BY <1>b, <2>1
  <2> QED BY <1>0, <2>1, <2>2, Concatenation
<1> QED BY <1>2, <1>3, <1>4, <1>5, <1>6, PointsFollow

(***************************************************************************)
(* Whatever CRABBIT_EMIT_IR, tracing and kernels make of its path,         *)
(* emit_object takes each module through every pass of its stages once and *)
(* in order, and a successful compilation went through all of them.        *)
(***************************************************************************)
THEOREM ModulesGoThroughTheirStages == SpecCompile => []StagesInOrder
<1>1. InitCompile => OnlyPrefixes
  <2> SUFFICES ASSUME InitCompile, \A s \in StageOf : order[s] # OrderError, NEW m \in Module
               PROVE  IsPrefix(<<>>, Whole(m))
    BY DEF InitCompile, OnlyPrefixes
  <2>1. \A s \in StageOf : order[s] \in Seq(STRING)
    BY OrdersAssumption DEF InitCompile
  <2>2. /\ order["host_lower"] \in Seq(STRING) /\ order["host_mid"] \in Seq(STRING)
        /\ order["host_machine"] \in Seq(STRING) /\ order["device_lower"] \in Seq(STRING)
        /\ order["device_mid"] \in Seq(STRING) /\ Program \in Seq(STRING)
    BY <2>1, EmptyListed DEF StageOf, Program
  <2>3. Whole(m) \in Seq(STRING)
    BY <2>2, ListsClosed DEF Whole
  <2> QED BY <2>3, EmptyListed, FirstPartIsPrefix, Concatenation
<1>2. TypesOfCompile /\ Built /\ Progress /\ Progress' /\ NoKernels /\ TypesOfCompile' /\ OnlyPrefixes
      /\ [NextCompile]_compilation => OnlyPrefixes'
  <2> SUFFICES ASSUME TypesOfCompile, TypesOfCompile', Built, Progress, Progress', NoKernels,
                      OnlyPrefixes, RunPass, NEW m \in Over(at),
                      \A s \in StageOf : order[s] # OrderError
               PROVE  IsPrefix(ran'[m], Whole(m))
    <3>1. UNCHANGED <<options, order>> => \A m \in Module : Whole(m)' = Whole(m)
      BY DEF Whole, Program
    <3>2. RunPass => \A m \in Module : m \in Over(at) \/ ran'[m] = ran[m]
      BY DEF RunPass
    <3> QED BY <3>1, <3>2, OnlyPassesRun DEF OnlyPrefixes
  <2>1. \A s \in StageOf : Listed(s)
    BY OrdersAssumption DEF TypesOfCompile, Listed
  <2>2. at \in DOMAIN Follows /\ ~NothingToDo /\ m \in Module
    BY DEF RunPass, Running, Built, TypesOfCompile, Over, Module
  <2>3. m = "host" \/ options.kernels
    BY <2>2 DEF NothingToDo, Stages, Over, Module
  <2>4. PICK rest \in Seq(STRING) : (BeforeStage(m) \o Passes(at)) \o rest = Whole(m)
    BY <2>1, <2>2, <2>3, RestOfStages
  <2>5. ran'[m] \o running' = BeforeStage(m) \o Passes(at)
    <3>1. ~failed /\ result = "none" /\ busy
      BY DEF RunPass, Running, Built
    <3>2. ran[m] \o running = BeforeStage(m) \o Passes(at)
      BY <2>2, <2>3, <3>1 DEF Progress
    <3>3. ran'[m] = Append(ran[m], Head(running)) /\ running' = Tail(running)
      BY <2>2 DEF RunPass
    <3>4. ran'[m] \o running' = ran[m] \o running
      <4>1. running \in Seq(STRING) /\ running # <<>> /\ ran[m] \in Seq(STRING)
        BY <2>2 DEF RunPass, Running, TypesOfCompile
      <4> QED BY <3>3, <4>1, PassMoves
    <3> QED BY <3>2, <3>4
  <2>6. ran'[m] \in Seq(STRING) /\ running' \in Seq(STRING)
    BY <2>2 DEF TypesOfCompile
  <2>7. ran'[m] \o (running' \o rest) = Whole(m)
    <3>1. (ran'[m] \o running') \o rest = ran'[m] \o (running' \o rest)
      BY <2>6, Associative, Zenon
    <3> QED BY <2>4, <2>5, <3>1
  <2> QED BY <2>4, <2>6, <2>7, ListsClosed, FirstPartIsPrefix
<1>3. Built /\ Progress /\ OnlyPrefixes => StagesInOrder
  <2> SUFFICES ASSUME Built, Progress, result = "ok"
               PROVE  /\ ran["host"] = Whole("host")
                      /\ options.kernels => ran["kernels"] = Whole("kernels")
    BY DEF StagesInOrder, OnlyPrefixes
  <2>1. at = "done" /\ ~busy /\ ~failed
    BY DEF Built
  <2> QED BY <2>1 DEF Progress, BeforeStage, BeforeHost, BeforeKernels, Module
<1> QED
  BY <1>1, <1>2, <1>3, CompilationTypes, CompilationBuilt, CompilationProgress,
     CompilationNoKernels, PTL DEF SpecCompile

-----------------------------------------------------------------------------
\* The end of a list after its first part.
LEMMA SecondPart ==
    ASSUME NEW S, NEW s \in Seq(S), NEW t \in Seq(S)
    PROVE  SubSeq(s \o t, Len(s) + 1, Len(s \o t)) = t
<1>1. Len(s) \in Nat /\ Len(t) \in Nat /\ Len(s \o t) = Len(s) + Len(t)
  BY ConcatProperties, LenProperties
<1>2. CASE t = <<>>
  <2>1. Len(s \o t) < Len(s) + 1
    BY <1>1, <1>2
  <2> QED BY <1>1, <1>2, <2>1, SubSeqEmpty
<1>3. CASE t # <<>>
  <2>1. Len(t) >= 1
    BY <1>1, <1>3, EmptySeq
  <2>2. /\ Len(s) + 1 \in Len(s) + 1 .. Len(s) + Len(t)
        /\ Len(s) + Len(t) \in Len(s) + 1 .. Len(s) + Len(t)
    BY <1>1, <2>1
  <2>3. SubSeq(s \o t, Len(s) + 1, Len(s) + Len(t))
        = SubSeq(t, (Len(s) + 1) - Len(s), (Len(s) + Len(t)) - Len(s))
    BY <2>2, SubSeqOfConcat2
  <2>4. (Len(s) + 1) - Len(s) = 1 /\ (Len(s) + Len(t)) - Len(s) = Len(t)
    BY <1>1
  <2> QED BY <1>1, <2>3, <2>4, SubSeqFull
<1> QED BY <1>2, <1>3

\* The dumps hold what the host module went through.
LEMMA CompilationDumped == SpecCompile => []Dumped
<1>1. InitCompile => Dumped
  BY DEF InitCompile, Dumped, Module
<1>2. TypesOfCompile /\ Built /\ Progress /\ Dumped /\ [NextCompile]_compilation => Dumped'
  <2> SUFFICES ASSUME TypesOfCompile, Built, Progress, Dumped, [NextCompile]_compilation,
                      options.tracing, order["program"] = <<>>
               PROVE  IF ~options.emit_ir THEN dumps' = ran'["host"]
                      ELSE IF at' = "emit_ir" THEN dumps' = <<>>
                      ELSE ran'["host"] = order["host_lower"] \o dumps'
    BY OnlyPassesRun DEF Dumped
  <2>0. /\ ~options.emit_ir => dumps = ran["host"]
        /\ options.emit_ir /\ at = "emit_ir" => dumps = <<>>
        /\ options.emit_ir /\ at # "emit_ir" => ran["host"] = order["host_lower"] \o dumps
    BY DEF Dumped
  <2>1. CASE RunPass
    <3>0. at' = at /\ at \in DOMAIN Follows /\ ~NothingToDo /\ Head(running) \in STRING
      BY <2>1 DEF RunPass, Running, Built, TypesOfCompile
    <3>1. at # "program"
      BY <3>0 DEF NothingToDo
    <3>2. at = "emit_ir" => options.emit_ir
      BY <3>0 DEF NothingToDo, Stages
    <3>3. CASE Kept(at)
      <4>1. ran'["host"] = Append(ran["host"], Head(running)) /\ dumps' = Append(dumps, Head(running))
        BY <2>1, <3>3 DEF RunPass, Kept, Over, Module
      <4>2. CASE ~options.emit_ir
        BY <2>0, <4>1, <4>2
      <4>3. CASE options.emit_ir
        <5>1. at # "emit_ir"
          BY <3>3 DEF Kept
        <5>2. order["host_lower"] \in Seq(STRING) /\ dumps \in Seq(STRING)
          BY <5>1, <4>3 DEF Built, Listed, TypesOfCompile
        <5>3. Append(order["host_lower"] \o dumps, Head(running))
              = order["host_lower"] \o Append(dumps, Head(running))
          BY <3>0, <5>2, AppendInside
        <5> QED BY <2>0, <3>0, <4>1, <4>3, <5>1, <5>3
      <4> QED BY <4>2, <4>3
    <3>4. CASE at = "emit_ir"
      BY <2>0, <2>1, <3>0, <3>2, <3>4 DEF RunPass, Kept
    <3>5. CASE at \in {"lower_kernels", "kernels"}
      BY <2>0, <2>1, <3>0, <3>5 DEF RunPass, Kept, Over, Module
    <3> QED BY <3>0, <3>1, <3>3, <3>4, <3>5, PointsFollow DEF Kept
  <2>2. CASE UNCHANGED <<ran, dumps>> /\ (at' = "emit_ir" <=> at = "emit_ir")
    BY <2>0, <2>2
  <2>3. CASE EndStage /\ at = "emit_ir"
    <3>1. UNCHANGED <<ran, dumps>> /\ at' = "lower_host"
      BY <2>3 DEF EndStage, Follows
    <3>2. options.emit_ir => Listed("host_lower")
      BY <2>3 DEF EndStage, Built, Stages, StageOf
    <3>3. ran["host"] = order["host_lower"] \/ ~options.emit_ir
      <4>1. ran["host"] \o running = <<>> \o order["host_lower"]
        BY <2>3 DEF EndStage, Progress, Built, Module, Over, BeforeStage, BeforeHost, Passes
      <4>2. ran["host"] \o running = ran["host"]
        BY <2>3, Concatenation DEF EndStage, TypesOfCompile, Module
      <4> QED BY <3>2, <4>1, <4>2, Concatenation DEF Listed
    <3>4. options.emit_ir => order["host_lower"] \o <<>> = order["host_lower"]
      BY <3>2, Concatenation DEF Listed
    <3> QED BY <2>0, <2>3, <3>1, <3>3, <3>4
  <2>4. CASE SkipStage /\ at = "emit_ir"
    <3>1. UNCHANGED <<ran, dumps>> /\ ~options.emit_ir
      BY <2>4 DEF SkipStage, NothingToDo, Stages, StageOf
    <3> QED BY <2>0, <3>1
  <2>5. RunPass \/ (EndStage /\ at = "emit_ir") \/ (SkipStage /\ at = "emit_ir")
        \/ (UNCHANGED <<ran, dumps>> /\ (at' = "emit_ir" <=> at = "emit_ir"))
    <3>1. CASE SkipStage /\ at # "emit_ir"
      BY <3>1, PointsFollow DEF SkipStage, AtStage, Follows
    <3>2. CASE EndStage /\ at # "emit_ir"
      BY <3>2, PointsFollow DEF EndStage, Follows, TypesOfCompile
    <3>3. CASE PassFails
      BY <3>3 DEF PassFails, Kept
    <3> QED BY <3>1, <3>2, <3>3 DEF NextCompile, BuildFails, StartStage, DiskFails, WriteTrace,
               WriteObject, HandOver, compilation
  <2> QED BY <2>1, <2>2, <2>3, <2>4, <2>5
<1> QED BY <1>1, <1>2, CompilationTypes, CompilationBuilt, CompilationProgress, PTL DEF SpecCompile

\* A trace, once written, is the dumps after its head.
LEMMA CompilationTraced == SpecCompile => []Traced
<1>1. InitCompile => Traced
  BY DEF InitCompile, Traced
<1>2. TypesOfCompile /\ Traced /\ [NextCompile]_compilation => Traced'
  <2> SUFFICES ASSUME TypesOfCompile, Traced, [NextCompile]_compilation, trace' # <<>>
               PROVE  Traced'
    BY DEF Traced
  <2>0. UNCHANGED options => TraceHead' = TraceHead
    BY DEF TraceHead
  <2>1. CASE WriteTrace
    BY <2>0, <2>1 DEF WriteTrace, Traced, TraceHead
  <2>2. CASE trace # <<>> /\ UNCHANGED <<options, dumps, trace>>
             /\ at' \in {at, "object", "kernels", "done"} /\ (at' = at => result' = result \/ result' = "error")
    BY <2>0, <2>2 DEF Traced
  <2>3. trace' = trace => at \in {"object", "kernels", "done"} \/ (at = "trace" /\ result = "error")
    BY DEF Traced
  <2>4. CASE SkipStage \/ EndStage
    <3>1. at = "kernels" /\ at' = "done"
      BY <2>3, <2>4, PointsFollow DEF SkipStage, EndStage, AtStage, Follows, TypesOfCompile
    <3> QED BY <2>2, <2>4, <3>1 DEF SkipStage, EndStage
  <2>5. CASE RunPass
    BY <2>2, <2>3, <2>5 DEF RunPass, Running, Kept
  <2>6. CASE PassFails
    BY <2>2, <2>3, <2>6 DEF PassFails, Running, Kept
  <2>7. CASE BuildFails \/ StartStage \/ DiskFails \/ WriteObject \/ UNCHANGED compilation
    BY <2>2, <2>7 DEF BuildFails, StartStage, DiskFails, WriteObject, compilation
  <2>8. CASE HandOver
    BY <2>0, <2>8 DEF HandOver, Traced
  <2> QED BY <2>1, <2>4, <2>5, <2>6, <2>7, <2>8 DEF NextCompile
<1> QED BY <1>1, <1>2, CompilationTypes, PTL DEF SpecCompile

(***************************************************************************)
(* A trace lists every pass the host module went through after the stage   *)
(* of CRABBIT_EMIT_IR, none twice and none missing, also when the pipeline *)
(* failed, as long as no program passes are registered (emit_object).      *)
(***************************************************************************)
THEOREM TraceIsComplete == SpecCompile => []TraceShowsWhatRan
<1>1. TypesOfCompile /\ Built /\ Dumped /\ Traced => TraceShowsWhatRan
  <2> SUFFICES ASSUME TypesOfCompile, Built, Dumped, Traced, trace # <<>>, order["program"] = <<>>
               PROVE  SubSeq(trace, IF options.emit_ir THEN 3 ELSE 2, Len(trace))
                      = SubSeq(ran["host"], (IF options.emit_ir THEN Len(order["host_lower"]) ELSE 0) + 1,
                               Len(ran["host"]))
    BY DEF TraceShowsWhatRan
  <2>1. options.tracing /\ trace = TraceHead \o dumps /\ at # "emit_ir"
    BY DEF Traced
  <2>2. dumps \in Seq(STRING) /\ dumps \in Seq(Entry) /\ Len(dumps) \in Nat
    <3>1. dumps \in Seq(STRING)
      BY DEF TypesOfCompile
    <3>2. dumps \in Seq(Entry)
      BY <3>1, SeqMonotonic, STRING \subseteq Entry DEF Entry
    <3> QED BY <3>1, <3>2, LenProperties
  <2>3. SubSeq(trace, IF options.emit_ir THEN 3 ELSE 2, Len(trace)) = dumps
    <3>1. Len(TraceHead) + 1 = IF options.emit_ir THEN 3 ELSE 2
      BY TraceHeadListed
    <3>2. SubSeq(TraceHead \o dumps, Len(TraceHead) + 1, Len(TraceHead \o dumps)) = dumps
      BY <2>2, TraceHeadListed, SecondPart
    <3> QED BY <2>1, <3>1, <3>2
  <2>4. CASE options.emit_ir
    <3>1. order["host_lower"] \in Seq(STRING) /\ ran["host"] = order["host_lower"] \o dumps
      BY <2>1, <2>4 DEF Built, Listed, Dumped
    <3>2. SubSeq(ran["host"], Len(order["host_lower"]) + 1, Len(ran["host"])) = dumps
      BY <2>2, <3>1, SecondPart
    <3> QED BY <2>3, <2>4, <3>2
  <2>5. CASE ~options.emit_ir
    <3>1. ran["host"] = dumps
      BY <2>1, <2>5 DEF Dumped
    <3>2. SubSeq(dumps, 1, Len(dumps)) = dumps
      BY <2>2, SubSeqFull
    <3> QED BY <2>3, <2>5, <3>1, <3>2
  <2> QED BY <2>4, <2>5
<1> QED BY <1>1, CompilationTypes, CompilationBuilt, CompilationDumped, CompilationTraced, PTL
=============================================================================
