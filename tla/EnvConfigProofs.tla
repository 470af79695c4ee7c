-------------------------- MODULE EnvConfigProofs --------------------------
(***************************************************************************)
(* with_env_config isolates its callers and restores the environment, for  *)
(* any number of threads, variables and configurations, as long as the     *)
(* process started with Unicode values only.                               *)
(***************************************************************************)
EXTENDS EnvConfig, TLAPS

UnicodeOnly == \A e \in Environments : \A k \in Key : e[k] \in Unicode \cup {Absent}

Inside == {"save", "apply", "run", "restore"}

\* LOCK is held by exactly the thread that is inside.
LockHeld == \A t \in Thread : holder = t <=> pc[t] \in Inside

\* The environment while thread t has set the variables in set.
SetBy(t, set) ==
    \A k \in Key : env[k] = IF k \in set THEN config[t][k] ELSE original[k]

\* What the Restore guard of thread t holds.
Remembers(t) ==
    DOMAIN saved[t] = DOMAIN config[t] /\ \A k \in DOMAIN saved[t] : saved[t][k] = original[k]

\* How far thread t has come.
Progress(t) ==
    /\ pc[t] \in {"idle", "lock", "save"} => todo[t] = {}
    /\ pc[t] = "save" => SetBy(t, {})
    /\ pc[t] = "apply" => Remembers(t) /\ SetBy(t, DOMAIN config[t] \ todo[t])
    /\ pc[t] = "run" => Remembers(t) /\ SetBy(t, DOMAIN config[t])
    /\ pc[t] = "restore" => Remembers(t) /\ SetBy(t, todo[t])

FreeMeansOriginal == holder = Nobody => \A k \in Key : env[k] = original[k]

IInv == TypeOK /\ LockHeld /\ (\A t \in Thread : Progress(t)) /\ FreeMeansOriginal

-----------------------------------------------------------------------------
\* Configurations set variables to Unicode values.
LEMMA ConfigValues ==
    ASSUME TypeOK, NEW t \in Thread
    PROVE  /\ DOMAIN config[t] \subseteq Key
           /\ \A k \in DOMAIN config[t] : config[t][k] \in Unicode
<1>1. config[t] \in Configs \/ config[t] = None
  BY DEF TypeOK
<1> QED
  BY <1>1, ConfigsAssumption DEF None

\* The process starts outside every call.
LEMMA InitIInv == Init => IInv
<1> SUFFICES ASSUME Init PROVE IInv
  OBVIOUS
<1>1. TypeOK
  BY EnvironmentsAssumption, MaxCallsAssumption DEF Init, TypeOK, None
<1>2. LockHeld /\ FreeMeansOriginal
  BY ThreadAssumption DEF Init, LockHeld, FreeMeansOriginal, Inside
<1>3. \A t \in Thread : Progress(t)
  BY DEF Init, Progress
<1> QED
  BY <1>1, <1>2, <1>3 DEF IInv

\* What a step of the thread inside the lock must establish: the others are
\* outside, and nothing that is said of them depends on the environment.
LEMMA InsideStep ==
    ASSUME IInv, NEW t \in Thread, pc[t] \in Inside, UNCHANGED original, TypeOK',
           \A u \in Thread : u # t => pc'[u] = pc[u] /\ todo'[u] = todo[u],
           holder' = IF pc'[t] \in Inside THEN t ELSE Nobody,
           Progress(t)',
           pc'[t] \notin Inside => \A k \in Key : env'[k] = original[k]
    PROVE  IInv'
<1>1. holder = t
  BY DEF IInv, LockHeld
<1>2. \A u \in Thread : u # t => pc[u] \notin Inside
  BY <1>1 DEF IInv, LockHeld
<1>3. LockHeld'
  BY <1>2, ThreadAssumption DEF LockHeld
<1>4. ASSUME NEW u \in Thread PROVE Progress(u)'
  <2>1. CASE u = t
    BY <2>1
  <2>2. CASE u # t
    BY <1>2, <2>2 DEF IInv, Progress, Inside
  <2> QED
    BY <2>1, <2>2
<1>5. FreeMeansOriginal'
  BY ThreadAssumption DEF FreeMeansOriginal
<1> QED
  BY <1>3, <1>4, <1>5 DEF IInv

\* Setting the next key of thread t.
LEMMA ApplyKeyEffect ==
    ASSUME TypeOK, NEW t \in Thread, NEW k, NEW values, ApplyKey(t, k, values),
           values[k] \in Unicode \cup {Absent}
    PROVE  /\ TypeOK'
           /\ k \in todo[t] /\ k \in Key /\ todo'[t] = todo[t] \ {k}
           /\ \A u \in Thread : u # t => todo'[u] = todo[u]
           /\ \A j \in Key : env'[j] = IF j = k THEN values[k] ELSE env[j]
           /\ UNCHANGED <<original, holder, pc, config, saved, calls>>
<1>1. /\ k \in todo[t] /\ env' = [env EXCEPT ![k] = values[k]]
      /\ todo' = [todo EXCEPT ![t] = @ \ {k}]
      /\ UNCHANGED <<original, holder, pc, config, saved, calls>>
  BY DEF ApplyKey, IsFirst
<1>2. k \in Key /\ todo \in [Thread -> SUBSET Key]
  BY <1>1 DEF TypeOK
<1>3. env' \in [Key -> Unicode \cup Bytes \cup {Absent}] /\ todo' \in [Thread -> SUBSET Key]
  BY <1>1, <1>2 DEF TypeOK
<1>4. TypeOK'
  BY <1>1, <1>2, <1>3 DEF TypeOK
<1>5. \A j \in Key : env'[j] = IF j = k THEN values[k] ELSE env[j]
  BY <1>1, <1>2 DEF TypeOK
<1> QED
  BY <1>1, <1>2, <1>4, <1>5

\* Each step keeps the invariant.
LEMMA NextIInv == UnicodeOnly /\ IInv /\ [Next]_vars => IInv'
<1> SUFFICES ASSUME UnicodeOnly, IInv, [Next]_vars PROVE IInv'
  OBVIOUS
<1>0. TypeOK /\ LockHeld /\ (\A t \in Thread : Progress(t)) /\ FreeMeansOriginal
  BY DEF IInv
<1>1. ASSUME NEW t \in Thread, NEW c \in Configs, Call(t, c) PROVE IInv'
  <2>1. /\ pc[t] = "idle" /\ pc'[t] \in {"lock", "idle"}
        /\ \A u \in Thread : u # t => pc'[u] = pc[u] /\ config'[u] = config[u]
        /\ UNCHANGED <<env, original, holder, saved, todo>>
    BY <1>0, <1>1 DEF Call, TypeOK
  <2>2. todo[t] = {}
    BY <1>0, <2>1 DEF Progress
  <2>3. /\ calls' \in [Thread -> 0 .. MaxCalls] /\ config' \in [Thread -> Configs \cup {None}]
        /\ pc' \in [Thread -> {"idle", "lock", "save", "apply", "run", "restore"}]
    BY <1>0, <1>1, MaxCallsAssumption DEF Call, TypeOK
  <2>4. \A u \in Thread : todo'[u] \subseteq DOMAIN config'[u]
    BY <1>0, <2>1, <2>2 DEF TypeOK
  <2>5. TypeOK'
    BY <1>0, <2>1, <2>3, <2>4 DEF TypeOK
  <2>6. LockHeld'
    BY <1>0, <2>1 DEF LockHeld, Inside
  <2>7. ASSUME NEW u \in Thread PROVE Progress(u)'
    BY <1>0, <2>1, <2>2 DEF Progress, SetBy, Remembers
  <2>8. FreeMeansOriginal'
    BY <1>0, <2>1 DEF FreeMeansOriginal
  <2> QED
    BY <2>5, <2>6, <2>7, <2>8 DEF IInv
<1>2. ASSUME NEW t \in Thread, Acquire(t) PROVE IInv'
  <2>1. /\ pc[t] = "lock" /\ holder = Nobody /\ holder' = t /\ pc'[t] = "save"
        /\ \A u \in Thread : u # t => pc'[u] = pc[u]
        /\ UNCHANGED <<env, original, config, saved, todo, calls>>
    BY <1>0, <1>2 DEF Acquire, TypeOK
  <2>2. TypeOK'
    BY <1>0, <1>2, <2>1 DEF Acquire, TypeOK
  <2>3. LockHeld'
    BY <1>0, <2>1, ThreadAssumption DEF LockHeld, Inside
  <2>4. ASSUME NEW u \in Thread PROVE Progress(u)'
    <3>1. CASE u = t
      BY <1>0, <2>1, <3>1 DEF Progress, SetBy, FreeMeansOriginal
    <3>2. CASE u # t
      <4>1. pc[u] \notin Inside
        BY <1>0, <2>1, <3>2, ThreadAssumption DEF LockHeld
      <4> QED
        BY <1>0, <2>1, <3>2, <4>1 DEF Progress, Inside
    <3> QED
      BY <3>1, <3>2
  <2>5. FreeMeansOriginal'
    BY <2>1, ThreadAssumption DEF FreeMeansOriginal
  <2> QED
    BY <2>2, <2>3, <2>4, <2>5 DEF IInv
<1>3. ASSUME NEW t \in Thread, Save(t) PROVE IInv'
  <2>1. /\ pc[t] = "save" /\ pc'[t] = "apply" /\ todo'[t] = DOMAIN config[t]
        /\ saved'[t] = Previous(config[t])
        /\ \A u \in Thread : u # t => pc'[u] = pc[u] /\ todo'[u] = todo[u]
        /\ UNCHANGED <<env, original, holder, config, calls>>
    BY <1>0, <1>3 DEF Save, TypeOK
  <2>2. DOMAIN config[t] \subseteq Key
    BY <1>0, ConfigValues
  <2>3. TypeOK'
    <3>1. /\ pc' \in [Thread -> {"idle", "lock", "save", "apply", "run", "restore"}]
          /\ todo' \in [Thread -> SUBSET Key] /\ DOMAIN saved' = Thread
      BY <1>0, <1>3, <2>2 DEF Save, TypeOK
    <3>2. \A u \in Thread : todo'[u] \subseteq DOMAIN config'[u]
      BY <1>0, <2>1 DEF TypeOK
    <3> QED
      BY <1>0, <2>1, <3>1, <3>2 DEF TypeOK
  <2>4. SetBy(t, {})
    BY <1>0, <2>1 DEF Progress
  <2>5. \A k \in DOMAIN config[t] : Var(k) = original[k]
    <3> SUFFICES ASSUME NEW k \in DOMAIN config[t] PROVE Var(k) = original[k]
      OBVIOUS
    <3>1. env[k] = original[k] /\ original[k] \in Unicode \cup {Absent}
      BY <1>0, <2>2, <2>4 DEF SetBy, TypeOK, UnicodeOnly
    <3> QED
      BY <3>1, ValuesAssumption DEF Var
  <2>6. Progress(t)'
    <3>1. Remembers(t)'
      BY <2>1, <2>5 DEF Remembers, Previous
    <3>2. (SetBy(t, DOMAIN config[t] \ todo[t]))'
      BY <2>1, <2>4 DEF SetBy
    <3> QED
      BY <2>1, <3>1, <3>2 DEF Progress
  <2>7. holder' = t
    BY <1>0, <2>1 DEF LockHeld, Inside
  <2> QED
    BY <2>1, <2>3, <2>6, <2>7, InsideStep DEF Inside
<1>4. ASSUME NEW t \in Thread, Apply(t) PROVE IInv'
  <2>1. pc[t] = "apply"
    BY <1>4 DEF Apply
  <2>2. PICK k \in todo[t] : ApplyKey(t, k, config[t])
    BY <1>4 DEF Apply
  <2>3. k \in DOMAIN config[t] /\ config[t][k] \in Unicode
    BY <1>0, ConfigValues DEF TypeOK
  <2>4. /\ TypeOK' /\ k \in Key /\ todo'[t] = todo[t] \ {k}
        /\ \A u \in Thread : u # t => todo'[u] = todo[u]
        /\ \A j \in Key : env'[j] = IF j = k THEN config[t][k] ELSE env[j]
        /\ UNCHANGED <<original, holder, pc, config, saved, calls>>
    BY <1>0, <2>2, <2>3, ApplyKeyEffect
  <2>5. Remembers(t) /\ SetBy(t, DOMAIN config[t] \ todo[t])
    BY <1>0, <2>1 DEF Progress
  <2>6. Progress(t)'
    <3>1. Remembers(t)'
      BY <2>4, <2>5 DEF Remembers
    <3>2. (SetBy(t, DOMAIN config[t] \ todo[t]))'
      BY <2>3, <2>4, <2>5 DEF SetBy
    <3> QED
      BY <2>1, <2>4, <3>1, <3>2 DEF Progress
  <2>7. holder' = t
    BY <1>0, <2>1, <2>4 DEF LockHeld, Inside
  <2> QED
    BY <2>1, <2>4, <2>6, <2>7, InsideStep DEF Inside
<1>5. ASSUME NEW t \in Thread, Run(t) PROVE IInv'
  <2>1. /\ pc[t] = "apply" /\ pc'[t] = "run" /\ todo[t] = {}
        /\ \A u \in Thread : u # t => pc'[u] = pc[u]
        /\ UNCHANGED <<env, original, holder, config, saved, todo, calls>>
    BY <1>0, <1>5 DEF Run, TypeOK
  <2>2. TypeOK'
    BY <1>0, <1>5, <2>1 DEF Run, TypeOK
  <2>3. Progress(t)'
    BY <1>0, <2>1 DEF Progress, SetBy, Remembers
  <2>4. holder' = t
    BY <1>0, <2>1 DEF LockHeld, Inside
  <2> QED
    BY <2>1, <2>2, <2>3, <2>4, InsideStep DEF Inside
<1>6. ASSUME NEW t \in Thread, Finish(t) PROVE IInv'
  <2>1. /\ pc[t] = "run" /\ pc'[t] = "restore" /\ todo'[t] = DOMAIN saved[t]
        /\ \A u \in Thread : u # t => pc'[u] = pc[u] /\ todo'[u] = todo[u]
        /\ UNCHANGED <<env, original, holder, config, saved, calls>>
    BY <1>0, <1>6 DEF Finish, TypeOK
  <2>2. Remembers(t) /\ SetBy(t, DOMAIN config[t])
    BY <1>0, <2>1 DEF Progress
  <2>3. DOMAIN saved[t] = DOMAIN config[t] /\ DOMAIN config[t] \subseteq Key
    BY <1>0, <2>2, ConfigValues DEF Remembers
  <2>4. TypeOK'
    <3>1. /\ pc' \in [Thread -> {"idle", "lock", "save", "apply", "run", "restore"}]
          /\ todo' \in [Thread -> SUBSET Key]
      BY <1>0, <1>6, <2>3 DEF Finish, TypeOK
    <3>2. \A u \in Thread : todo'[u] \subseteq DOMAIN config'[u]
      BY <1>0, <2>1, <2>3 DEF TypeOK
    <3> QED
      BY <1>0, <2>1, <3>1, <3>2 DEF TypeOK
  <2>5. Progress(t)'
    <3>1. Remembers(t)'
      BY <2>1, <2>2 DEF Remembers
    <3>2. (SetBy(t, todo[t]))'
      BY <2>1, <2>2, <2>3 DEF SetBy
    <3> QED
      BY <2>1, <3>1, <3>2 DEF Progress
  <2>6. holder' = t
    BY <1>0, <2>1 DEF LockHeld, Inside
  <2> QED
    BY <2>1, <2>4, <2>5, <2>6, InsideStep DEF Inside
<1>7. ASSUME NEW t \in Thread, Restore(t) PROVE IInv'
  <2>1. pc[t] = "restore"
    BY <1>7 DEF Restore
  <2>2. PICK k \in todo[t] : ApplyKey(t, k, saved[t])
    BY <1>7 DEF Restore
  <2>3. Remembers(t) /\ SetBy(t, todo[t])
    BY <1>0, <2>1 DEF Progress
  <2>4. saved[t][k] = original[k] /\ original[k] \in Unicode \cup {Absent}
    BY <1>0, <2>3 DEF TypeOK, Remembers, UnicodeOnly
  <2>5. /\ TypeOK' /\ k \in Key /\ todo'[t] = todo[t] \ {k}
        /\ \A u \in Thread : u # t => todo'[u] = todo[u]
        /\ \A j \in Key : env'[j] = IF j = k THEN saved[t][k] ELSE env[j]
        /\ UNCHANGED <<original, holder, pc, config, saved, calls>>
    BY <1>0, <2>2, <2>4, ApplyKeyEffect
  <2>6. Progress(t)'
    <3>1. Remembers(t)'
      BY <2>3, <2>5 DEF Remembers
    <3>2. (SetBy(t, todo[t]))'
      BY <2>3, <2>4, <2>5 DEF SetBy
    <3> QED
      BY <2>1, <2>5, <3>1, <3>2 DEF Progress
  <2>7. holder' = t
    BY <1>0, <2>1, <2>5 DEF LockHeld, Inside
  <2> QED
    BY <2>1, <2>5, <2>6, <2>7, InsideStep DEF Inside
<1>8. ASSUME NEW t \in Thread, Release(t) PROVE IInv'
  <2>1. /\ pc[t] = "restore" /\ pc'[t] = "idle" /\ todo[t] = {} /\ holder' = Nobody
        /\ \A u \in Thread : u # t => pc'[u] = pc[u]
        /\ UNCHANGED <<env, original, config, saved, todo, calls>>
    BY <1>0, <1>8 DEF Release, TypeOK
  <2>2. TypeOK'
    BY <1>0, <1>8, <2>1 DEF Release, TypeOK
  <2>3. Progress(t)'
    BY <2>1 DEF Progress
  <2>4. \A k \in Key : env'[k] = original[k]
    BY <1>0, <2>1 DEF Progress, SetBy
  <2> QED
    BY <2>1, <2>2, <2>3, <2>4, InsideStep DEF Inside
<1>9. CASE UNCHANGED vars
  <2>1. /\ UNCHANGED env /\ UNCHANGED original /\ UNCHANGED holder /\ UNCHANGED pc
        /\ UNCHANGED config /\ UNCHANGED saved /\ UNCHANGED todo /\ UNCHANGED calls
    BY <1>9 DEF vars
  <2>2. TypeOK'
    BY <1>0, <2>1 DEF TypeOK
  <2>3. LockHeld' /\ FreeMeansOriginal'
    BY <1>0, <2>1 DEF LockHeld, FreeMeansOriginal
  <2>4. ASSUME NEW t \in Thread PROVE Progress(t)'
    BY <1>0, <2>1 DEF Progress, SetBy, Remembers
  <2> QED
    BY <2>2, <2>3, <2>4 DEF IInv
<1> QED
  BY <1>1, <1>2, <1>3, <1>4, <1>5, <1>6, <1>7, <1>8, <1>9 DEF Next, Step

\* The calls keep their inductive invariant.
THEOREM Invariance == ASSUME UnicodeOnly PROVE Spec => []IInv
<1>1. IInv /\ [Next]_vars => IInv'
  BY NextIInv
<1> QED
  BY <1>1, InitIInv, PTL DEF Spec

\* A function run by with_env_config sees its own configuration and nothing
\* of the others', for any number of threads and variables.
THEOREM CallersAreIsolated == ASSUME UnicodeOnly PROVE Spec => []SectionSeesItsConfig
<1>1. IInv => SectionSeesItsConfig
  BY DEF IInv, Progress, SetBy, SectionSeesItsConfig
<1> QED
  BY <1>1, Invariance, PTL

\* Between the calls of with_env_config the environment is the original one,
\* whether the functions returned or panicked.
THEOREM EnvironmentComesBack == ASSUME UnicodeOnly PROVE Spec => []EnvironmentRestored
<1>1. IInv => EnvironmentRestored
  <2> SUFFICES ASSUME IInv, \A t \in Thread : pc[t] \in {"idle", "lock"}
               PROVE  env = original
    BY DEF EnvironmentRestored
  <2>1. holder = Nobody
    BY DEF IInv, TypeOK, LockHeld, Inside
  <2>2. \A k \in Key : env[k] = original[k]
    BY <2>1 DEF IInv, FreeMeansOriginal
  <2>3. /\ env \in [Key -> Unicode \cup Bytes \cup {Absent}]
        /\ original \in [Key -> Unicode \cup Bytes \cup {Absent}]
    BY EnvironmentsAssumption DEF IInv, TypeOK
  <2> QED
    BY <2>2, <2>3
<1> QED
  BY <1>1, Invariance, PTL
=============================================================================
