------------------------------ MODULE MCDriver ------------------------------
(***************************************************************************)
(* The two sides of crabbit-config and the driver above it, one per        *)
(* behaviour.                                                              *)
(*                                                                         *)
(* Configuration sections: two threads with two calls each, over two       *)
(* variables of crabbit's and a foreign one; configurations overlap, are   *)
(* empty, or are refused.                                                  *)
(* Compilations: orders of up to two passes per stage: crabbit's defaults, *)
(* edits by a registered order function, names that are unknown on their   *)
(* side, and an order function that fails.                                 *)
(***************************************************************************)
EXTENDS EnvConfig, Pipeline

MCCrabbitKey == {1, 3}
MCConfigs == {[k \in {1, 3} |-> "on"], [k \in {1} |-> "off"], [k \in {3} |-> "off"],
              [k \in {1, 2} |-> "on"], [k \in {} |-> "on"]}
\* Every environment whose values are Unicode.
MCEnvironments == [Key -> {Absent, "on"}]

-----------------------------------------------------------------------------
VARIABLE side

Default ==
    [s \in StageOf |->
        CASE s \in {"host_lower", "device_lower"} -> <<"lower", "link">>
          [] s \in {"host_mid", "device_mid"} -> <<"gvn">>
          [] s = "host_machine" -> <<"isel", "ra">>
          [] s = "program" -> <<>>]

Edits == {<<>>, <<"ext">>, <<"gvn", "ext">>, <<"ra">>}

MCOrders ==
    {Default} \cup {[Default EXCEPT ![s] = OrderError] : s \in StageOf}
    \cup {[Default EXCEPT ![s] = e, !["program"] = p] :
            s \in StageOf, e \in Edits, p \in {<<>>, <<"ext">>, <<"ext", "ext">>}}

MCInit ==
    \/ /\ side = "config" /\ Init
       /\ options = [kernels |-> FALSE, emit_ir |-> FALSE, tracing |-> FALSE]
       /\ order = Default /\ InitCompile
    \/ /\ side = "driver" /\ InitCompile
       /\ env = [k \in Key |-> Absent] /\ Init

Sections == side = "config" /\ Next /\ UNCHANGED <<compilation, side>>
Compilations == side = "driver" /\ NextCompile /\ UNCHANGED <<vars, side>>

\* A thread that can go on does, as in EnvConfig.
MCSpec ==
    /\ MCInit /\ [][Sections \/ Compilations]_<<vars, compilation, side>>
    /\ \A t \in Thread : WF_vars(side = "config" /\ Step(t) /\ UNCHANGED <<compilation, side>>)
=============================================================================
