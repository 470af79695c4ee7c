--------------------------- MODULE BlockArguments ---------------------------
(***************************************************************************)
(* What passing arguments along a CFG edge means: all the copies happen at *)
(* once.  A copy is a record with the register dst of the block argument   *)
(* and the register src of the incoming value, or Undef.  The code emits a *)
(* sequence of moves instead (ParallelCopy, StagedCopy).                   *)
(***************************************************************************)
EXTENDS Integers

CONSTANTS
    Undef,   \* the source of an undefined incoming leaf
    Zero     \* the value an undefined leaf is given

VARIABLES
    copies,  \* position -> [dst, src]
    env,     \* the registers of the function
    passed   \* whether the edge has been taken

\* The value of register r once the copies cs have happened in registers e.
Passed(cs, e, r) ==
    IF \E k \in DOMAIN cs : cs[k].dst = r
    THEN LET k == CHOOSE k \in DOMAIN cs : cs[k].dst = r
         IN  IF cs[k].src = Undef THEN Zero ELSE e[cs[k].src]
    ELSE e[r]

TakeEdge ==
    /\ ~passed
    /\ passed' = TRUE
    /\ env' = [r \in DOMAIN env |-> Passed(copies, env, r)]
    /\ UNCHANGED copies

\* An edge that changes nothing may count as taken from the start.
Init == passed => env = [r \in DOMAIN env |-> Passed(copies, env, r)]

Spec == Init /\ [][TakeEdge]_<<copies, env, passed>>
=============================================================================
