----------------------------- MODULE EnvConfig -----------------------------
(***************************************************************************)
(* with_env_config (config/src/lib.rs): threads of a resident server run   *)
(* a function under a CRABBIT_* configuration set in the environment of    *)
(* the process.  The environment is global, so the call checks the keys,   *)
(* takes the process-wide lock, saves the previous values, sets its own,   *)
(* runs the function, and restores the previous values before the lock is  *)
(* released, also when the function panics.                                *)
(***************************************************************************)
EXTENDS Integers, FiniteSets

CONSTANTS
    Thread, Nobody,
    Key,           \* variable names, in their order: a set of naturals
    CrabbitKey,    \* the names that start with CRABBIT_
    Unicode,       \* values that are valid Unicode
    Bytes,         \* values that are not
    Absent,        \* "the variable is not set"
    Configs,       \* the configurations callers pass: [subset of Key -> Unicode]
    Environments,  \* the environments the process may start in
    MaxCalls       \* bound: calls a thread makes

ASSUME ThreadAssumption == Nobody \notin Thread
ASSUME KeysAssumption == Key \subseteq Nat /\ CrabbitKey \subseteq Key /\ IsFiniteSet(Key)
ASSUME ConfigsAssumption ==
    \A c \in Configs : DOMAIN c \subseteq Key /\ \A k \in DOMAIN c : c[k] \in Unicode
ASSUME ValuesAssumption == Absent \notin Unicode \cup Bytes /\ Unicode \cap Bytes = {}
ASSUME EnvironmentsAssumption ==
    Environments \subseteq [Key -> Unicode \cup Bytes \cup {Absent}]
ASSUME MaxCallsAssumption == MaxCalls \in Nat

VARIABLES
    env,       \* the environment of the process
    original,  \* the environment it started with
    holder,    \* the thread that holds LOCK, or Nobody
    pc,        \* where each thread is
    config,    \* the configuration of its current call
    saved,     \* the Restore guard: key -> previous value
    todo,      \* the keys its current loop has still to set
    calls      \* calls made so far

vars == <<env, original, holder, pc, config, saved, todo, calls>>

None == [k \in {} |-> Absent]

Init ==
    /\ original \in Environments
    /\ env = original
    /\ holder = Nobody
    /\ pc = [t \in Thread |-> "idle"]
    /\ config = [t \in Thread |-> None]
    /\ saved = [t \in Thread |-> None]
    /\ todo = [t \in Thread |-> {}]
    /\ calls = [t \in Thread |-> 0]

-----------------------------------------------------------------------------
\* Only CRABBIT_* keys are accepted.
Accepted(c) == DOMAIN c \subseteq CrabbitKey

\* A call with a foreign key returns NonCrabbitKey before it takes the lock.
Call(t, c) ==
    /\ pc[t] = "idle" /\ calls[t] < MaxCalls
    /\ calls' = [calls EXCEPT ![t] = @ + 1]
    /\ config' = [config EXCEPT ![t] = c]
    /\ pc' = [pc EXCEPT ![t] = IF Accepted(c) THEN "lock" ELSE "idle"]
    /\ UNCHANGED <<env, original, holder, saved, todo>>

\* Mutant of Acquire: the guard is dropped at once (`let _ = LOCK.lock()`).
AcquireUnowned(t) ==
    /\ pc[t] = "lock" /\ holder = Nobody
    /\ pc' = [pc EXCEPT ![t] = "save"]
    /\ UNCHANGED <<env, original, holder, config, saved, todo, calls>>

\* A lock poisoned by an earlier panic is taken all the same.
Acquire(t) ==
    /\ pc[t] = "lock" /\ holder = Nobody
    /\ holder' = t
    /\ pc' = [pc EXCEPT ![t] = "save"]
    /\ UNCHANGED <<env, original, config, saved, todo, calls>>

\* What std::env::var(k).ok() reads: a value that is not Unicode reads as unset.
Var(k) == IF env[k] \in Unicode THEN env[k] ELSE Absent

\* Mutant of Previous: a variable that was unset is not remembered.
PreviousSet(c) == [k \in {x \in DOMAIN c : Var(x) # Absent} |-> Var(k)]

\* What the Restore guard remembers.
Previous(c) == [k \in DOMAIN c |-> Var(k)]

Save(t) ==
    /\ pc[t] = "save"
    /\ saved' = [saved EXCEPT ![t] = Previous(config[t])]
    /\ todo' = [todo EXCEPT ![t] = DOMAIN config[t]]
    /\ pc' = [pc EXCEPT ![t] = "apply"]
    /\ UNCHANGED <<env, original, holder, config, calls>>

\* The keys of a map come in their order.
IsFirst(k, keys) == k \in keys /\ \A j \in keys : k <= j

\* apply_env of the next key, to its new or to its previous value.
ApplyKey(t, k, values) ==
    /\ IsFirst(k, todo[t])
    /\ env' = [env EXCEPT ![k] = values[k]]
    /\ todo' = [todo EXCEPT ![t] = @ \ {k}]
    /\ UNCHANGED <<original, holder, pc, config, saved, calls>>

Apply(t) == pc[t] = "apply" /\ \E k \in todo[t] : ApplyKey(t, k, config[t])

Run(t) ==
    /\ pc[t] = "apply" /\ todo[t] = {}
    /\ pc' = [pc EXCEPT ![t] = "run"]
    /\ UNCHANGED <<env, original, holder, config, saved, todo, calls>>

\* The function returns or panics; either way the Restore guard is dropped.
Finish(t) ==
    /\ pc[t] = "run"
    /\ todo' = [todo EXCEPT ![t] = DOMAIN saved[t]]
    /\ pc' = [pc EXCEPT ![t] = "restore"]
    /\ UNCHANGED <<env, original, holder, config, saved, calls>>

Restore(t) == pc[t] = "restore" /\ \E k \in todo[t] : ApplyKey(t, k, saved[t])

\* Mutant of Release: the guard is forgotten.
ReleaseNothing(t) ==
    /\ pc[t] = "restore" /\ todo[t] = {}
    /\ pc' = [pc EXCEPT ![t] = "idle"]
    /\ UNCHANGED <<env, original, holder, config, saved, todo, calls>>

\* The lock guard was declared first, so it is dropped last.
Release(t) ==
    /\ pc[t] = "restore" /\ todo[t] = {}
    /\ holder' = Nobody
    /\ pc' = [pc EXCEPT ![t] = "idle"]
    /\ UNCHANGED <<env, original, config, saved, todo, calls>>

Step(t) ==
    Acquire(t) \/ Save(t) \/ Apply(t) \/ Run(t) \/ Finish(t) \/ Restore(t) \/ Release(t)

Next == \E t \in Thread : Step(t) \/ \E c \in Configs : Call(t, c)

\* A thread that can go on does; the function it runs returns.
Spec == Init /\ [][Next]_vars /\ \A t \in Thread : WF_vars(Step(t))

-----------------------------------------------------------------------------
\* The shape of the state.
TypeOK ==
    /\ env \in [Key -> Unicode \cup Bytes \cup {Absent}]
    /\ original \in Environments
    /\ holder \in Thread \cup {Nobody}
    /\ pc \in [Thread -> {"idle", "lock", "save", "apply", "run", "restore"}]
    /\ config \in [Thread -> Configs \cup {None}]
    /\ todo \in [Thread -> SUBSET Key]
    /\ \A t \in Thread : todo[t] \subseteq DOMAIN config[t]
    /\ DOMAIN saved = Thread
    /\ calls \in [Thread -> 0 .. MaxCalls]

(***************************************************************************)
(* The function runs in the environment of its own configuration and no    *)
(* other: the variables it sets have its values, every other variable the  *)
(* value the process started with, whatever the other threads are doing    *)
(* (with_env_config).                                                      *)
(***************************************************************************)
SectionSeesItsConfig ==
    \A t \in Thread : pc[t] = "run" =>
        \A k \in Key :
            env[k] = IF k \in DOMAIN config[t] THEN config[t][k] ELSE original[k]

(***************************************************************************)
(* "restoring the previous values afterwards (also on panic)": when no     *)
(* call is between its lock and its release, the environment is the one    *)
(* the process started with (with_env_config, Restore::drop).              *)
(***************************************************************************)
EnvironmentRestored ==
    (\A t \in Thread : pc[t] \in {"idle", "lock"}) => env = original

\* Every accepted call returns: no thread keeps the lock.
CallsReturn == \A t \in Thread : pc[t] = "lock" ~> pc[t] = "idle"
=============================================================================
