------------------------------ MODULE Pipeline ------------------------------
(***************************************************************************)
(* One compilation of a crate by the driver (emit_object, lower_kernels,   *)
(* run_program_stage, emit_kernels in crabbit/src/lib.rs) over the stages  *)
(* that crabbit-config builds (order, construct, build,                    *)
(* run_program_stage in config/src/lib.rs).                                *)
(*                                                                         *)
(* A crate has a host module and, with kernels, a kernel module.  Each     *)
(* goes from the mir dialect through its stages; the program stage runs    *)
(* over both together in between.  A pass may fail, a stage may not build, *)
(* and CRABBIT_EMIT_IR and CRABBIT_TRACE change which code runs a stage.   *)
(***************************************************************************)
EXTENDS Integers, Sequences, SequencesExt

CONSTANTS
    Orders,      \* effective orders: [StageOf -> sequence of pass names or OrderError]
    OrderError,  \* the registered order function failed
    Registered,  \* names of registered passes
    Own,         \* crabbit's own passes over one module
    Machine,     \* the machine passes of the host backend
    DiskMayFail  \* whether a file operation may fail

\* The stages of the two sides (config's Stage and Side).
StageOf == {"host_lower", "host_mid", "host_machine", "device_lower", "device_mid", "program"}
Module == {"host", "kernels"}

\* An order function returns a list of pass names or fails.
ASSUME OrdersAssumption ==
    \A o \in Orders, s \in StageOf : o[s] = OrderError \/ o[s] \in Seq(STRING)

VARIABLES
    options,   \* [kernels, emit_ir, tracing : BOOLEAN]
    order,     \* the effective order of every stage
    at,        \* where emit_object is
    busy,      \* the passes of the stage it is at are being run
    running,   \* the passes left to run in the current run of a pipeline
    ran,       \* for each module: the passes that changed it, in order
    attached,  \* the modules under the program root, in order; <<>> without a root
    failed,    \* run_result is an error
    dumps,     \* the passes dumped by the host's analysis manager
    trace,     \* the snapshots of the trace file; <<>> when there is none
    result     \* "none", "ok" or "error"

compilation ==
    <<options, order, at, busy, running, ran, attached, failed, dumps, trace, result>>

InitCompile ==
    /\ options \in [kernels : BOOLEAN, emit_ir : BOOLEAN, tracing : BOOLEAN]
    /\ order \in Orders
    /\ at = "emit_ir"
    /\ busy = FALSE
    /\ running = <<>>
    /\ ran = [m \in Module |-> <<>>]
    /\ attached = <<>>
    /\ failed = FALSE
    /\ dumps = <<>>
    /\ trace = <<>>
    /\ result = "none"

-----------------------------------------------------------------------------
\* The names construct resolves: crabbit's own passes take no program, the
\* machine passes only the host.
known_passes(stage) ==
    Registered
    \cup (IF stage = "program" THEN {} ELSE Own)
    \cup (IF stage \in {"host_lower", "host_mid", "host_machine"} THEN Machine ELSE {})

\* build of a stage succeeds.
Builds(stage) ==
    /\ order[stage] # OrderError
    /\ \A i \in DOMAIN order[stage] : order[stage][i] \in known_passes(stage)

\* The stages of crabbit-config that a stage of emit_object runs.
Lowered == options.emit_ir \/ options.kernels
Stages(a) ==
    {s \in StageOf :
        \/ s = "host_lower" /\ a = "emit_ir" /\ options.emit_ir
        \/ s = "host_lower" /\ a = "lower_host" /\ options.kernels /\ ~options.emit_ir
        \/ s = "host_lower" /\ a = "host" /\ ~Lowered
        \/ s = "device_lower" /\ a = "lower_kernels" /\ options.kernels
        \/ s = "program" /\ a = "program" /\ options.kernels
        \/ s \in {"host_mid", "host_machine"} /\ a = "host"
        \/ s = "device_mid" /\ a = "kernels" /\ options.kernels}

\* The passes of a stage of emit_object, in the order it runs them.
Passes(a) ==
    IF a = "host"
    THEN (IF Lowered THEN <<>> ELSE order["host_lower"])
         \o (order["host_mid"] \o order["host_machine"])
    ELSE order[IF a = "lower_kernels" THEN "device_lower"
               ELSE IF a = "program" THEN "program"
               ELSE IF a = "kernels" THEN "device_mid" ELSE "host_lower"]

\* Mutant of Follows: the program stage comes after the host pipeline.
FollowsLate ==
    [emit_ir |-> "lower_host", lower_host |-> "lower_kernels", lower_kernels |-> "host",
     program |-> "trace", host |-> "program", kernels |-> "done"]

Follows ==
    [emit_ir |-> "lower_host", lower_host |-> "lower_kernels", lower_kernels |-> "program",
     program |-> "host", host |-> "trace", kernels |-> "done"]

\* The modules a stage's passes change.
Over(a) ==
    (IF a \in {"emit_ir", "lower_host", "host", "program"} THEN {"host"} ELSE {})
    \cup (IF a \in {"lower_kernels", "kernels", "program"} THEN {"kernels"} ELSE {})

\* The program stage places both modules under a fresh root.
Root(a) == IF a = "program" THEN <<"host", "kernels">> ELSE <<>>

\* Whether a failing pass is kept in run_result instead of returned at once.
Kept(a) == a \in {"lower_host", "host"}

-----------------------------------------------------------------------------
AtStage == result = "none" /\ ~busy /\ at \in DOMAIN Follows
NothingToDo == Stages(at) = {} \/ (at = "program" /\ order["program"] = <<>>)

\* A stage that has nothing to do is left out.
SkipStage ==
    /\ AtStage /\ NothingToDo
    /\ at' = Follows[at]
    /\ UNCHANGED <<options, order, busy, running, ran, attached, failed, dumps, trace, result>>

\* A stage that cannot be built ends the compilation, without a trace.
BuildFails ==
    /\ AtStage
    /\ \E s \in Stages(at) : ~Builds(s)
    /\ result' = "error"
    /\ UNCHANGED <<options, order, at, busy, running, ran, attached, failed, dumps, trace>>

\* Build the passes of the stage and start to run them.
StartStage ==
    /\ AtStage /\ ~NothingToDo
    /\ \A s \in Stages(at) : Builds(s)
    /\ running' = Passes(at)
    /\ attached' = Root(at)
    /\ busy' = TRUE
    /\ UNCHANGED <<options, order, at, ran, failed, dumps, trace, result>>

Running == busy /\ running # <<>> /\ result = "none"

\* Mutant of RunPass: the stage CRABBIT_EMIT_IR runs is dumped, too.
RunPassDumping ==
    /\ Running
    /\ running' = Tail(running)
    /\ ran' = [m \in Module |-> IF m \in Over(at) THEN Append(ran[m], Head(running)) ELSE ran[m]]
    /\ dumps' = IF options.tracing THEN Append(dumps, Head(running)) ELSE dumps
    /\ UNCHANGED <<options, order, at, busy, attached, failed, trace, result>>

\* One pass; only the runs kept in run_result use the traced manager.
RunPass ==
    /\ Running
    /\ running' = Tail(running)
    /\ ran' = [m \in Module |-> IF m \in Over(at) THEN Append(ran[m], Head(running)) ELSE ran[m]]
    /\ dumps' = IF options.tracing /\ Kept(at) THEN Append(dumps, Head(running)) ELSE dumps
    /\ UNCHANGED <<options, order, at, busy, attached, failed, trace, result>>

\* Mutant of PassFails: a failing program leaves its modules under the root.
PassFailsAttached ==
    /\ Running
    /\ running' = <<>>
    /\ failed' = Kept(at)
    /\ IF Kept(at) THEN at' = "trace" /\ busy' = FALSE /\ UNCHANGED result
       ELSE result' = "error" /\ UNCHANGED <<at, busy>>
    /\ UNCHANGED <<options, order, ran, attached, dumps, trace>>

\* A pass fails.  The modules are detached and the root erased all the same.
PassFails ==
    /\ Running
    /\ running' = <<>>
    /\ attached' = <<>>
    /\ failed' = Kept(at)
    /\ IF Kept(at) THEN at' = "trace" /\ busy' = FALSE /\ UNCHANGED result
       ELSE result' = "error" /\ UNCHANGED <<at, busy>>
    /\ UNCHANGED <<options, order, ran, dumps, trace>>

EndStage ==
    /\ busy /\ running = <<>> /\ result = "none"
    /\ attached' = <<>>
    /\ at' = Follows[at]
    /\ busy' = FALSE
    /\ UNCHANGED <<options, order, running, ran, failed, dumps, trace, result>>

\* The .plir file, a dump directory or the trace file cannot be written.
DiskFails ==
    /\ DiskMayFail /\ result = "none"
    /\ \/ busy /\ running = <<>> /\ options.emit_ir /\ at \in {"emit_ir", "lower_kernels"}
       \/ ~busy /\ options.tracing /\ at \in {"lower_host", "trace"}
       \/ ~busy /\ options.tracing /\ options.kernels /\ at = "lower_kernels"
    /\ result' = "error"
    /\ UNCHANGED <<options, order, at, busy, running, ran, attached, failed, dumps, trace>>

\* The trace is written from the dumps, of a failed run as well.
WriteTrace ==
    /\ at = "trace" /\ result = "none"
    /\ trace' = IF ~options.tracing THEN <<>>
                ELSE <<"initial">> \o (IF options.emit_ir THEN <<"emit-ir">> ELSE <<>>) \o dumps
    /\ IF failed THEN result' = "error" /\ UNCHANGED at
       ELSE at' = "object" /\ UNCHANGED result
    /\ UNCHANGED <<options, order, busy, running, ran, attached, failed, dumps>>

\* The host object is written before the kernels' mid-end runs.
WriteObject ==
    /\ at = "object" /\ result = "none"
    /\ \/ at' = "kernels" /\ UNCHANGED result
       \/ result' = "error" /\ UNCHANGED at
    /\ UNCHANGED <<options, order, busy, running, ran, attached, failed, dumps, trace>>

\* PTX and the device artifact; then the objects are handed to rustc.
HandOver ==
    /\ at = "done" /\ result = "none"
    /\ result' \in {"ok"} \cup (IF options.kernels THEN {"error"} ELSE {})
    /\ UNCHANGED <<options, order, at, busy, running, ran, attached, failed, dumps, trace>>

NextCompile ==
    \/ SkipStage \/ BuildFails \/ StartStage \/ RunPass \/ PassFails \/ EndStage
    \/ DiskFails \/ WriteTrace \/ WriteObject \/ HandOver

SpecCompile == InitCompile /\ [][NextCompile]_compilation

-----------------------------------------------------------------------------
\* All the passes of a module, in the order docs and comments promise.
Program == IF options.kernels THEN order["program"] ELSE <<>>
Whole(m) ==
    IF m = "host"
    THEN (order["host_lower"] \o Program) \o (order["host_mid"] \o order["host_machine"])
    ELSE (order["device_lower"] \o Program) \o order["device_mid"]

(***************************************************************************)
(* Whatever CRABBIT_EMIT_IR, tracing and kernels make of the code path,    *)
(* each module goes through every pass of its stages once and in order:    *)
(* lowering first, the program stage before either mid-end, and a          *)
(* successful compilation went through all of them (emit_object).          *)
(***************************************************************************)
StagesInOrder ==
    /\ \A m \in Module :
          (\A s \in StageOf : order[s] # OrderError) => IsPrefix(ran[m], Whole(m))
    /\ result = "ok" => /\ ran["host"] = Whole("host")
                        /\ options.kernels => ran["kernels"] = Whole("kernels")

(***************************************************************************)
(* "every other stage keeps seeing them as separate modules": the modules  *)
(* are under the program root while the program stage runs and at no other *)
(* time, also after a failure; they are in the root host first             *)
(* (run_program_stage, program_modules).                                   *)
(***************************************************************************)
RootOnlyInProgramStage ==
    attached = IF at = "program" /\ busy /\ result = "none" THEN <<"host", "kernels">> ELSE <<>>

(***************************************************************************)
(* "the trace still shows every pass that touched the module": without     *)
(* program passes, a trace lists every pass the host module went through,  *)
(* the stage of CRABBIT_EMIT_IR as one entry (emit_object).                *)
(***************************************************************************)
TraceShowsWhatRan ==
    trace # <<>> /\ order["program"] = <<>> =>
        LET before == IF options.emit_ir THEN Len(order["host_lower"]) ELSE 0
        IN  SubSeq(trace, IF options.emit_ir THEN 3 ELSE 2, Len(trace))
            = SubSeq(ran["host"], before + 1, Len(ran["host"]))

(***************************************************************************)
(* "a failed pipeline still leaves a trace up to the failing pass" (the    *)
(* comment in emit_object): with tracing on, a compilation that ended in a *)
(* failing pass, after the dumps were set up, has written its trace.       *)
(***************************************************************************)
FailedRunLeavesTrace ==
    /\ result = "error" /\ options.tracing
    /\ failed \/ (busy /\ at # "emit_ir")
    => trace # <<>>
=============================================================================
