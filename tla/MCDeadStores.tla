---------------------------- MODULE MCDeadStores ----------------------------
(***************************************************************************)
(* Two slots, A of two bytes and B of one, and two bytes of memory of the  *)
(* caller.  Two keys of A may denote one byte; a pointer key may point to  *)
(* A once A's address has escaped.  Three blocks in three CFG shapes, and  *)
(* a loop of two blocks, whose liveness takes several rounds.              *)
(***************************************************************************)
EXTENDS DeadStores

MCHome == [c \in 0 .. 4 |-> IF c <= 1 THEN "A" ELSE IF c = 2 THEN "B" ELSE Outside]
Roots == [a1 |-> "A", a2 |-> "A", b1 |-> "B", p1 |-> "P"]

Access(kind, k, w) == [kind |-> kind, key |-> k, w |-> w, args |-> {}]
St(k) == Access("store", k, 1)
Ld(k) == Access("load", k, 1)
Wide(kind, k) == Access(kind, k, 2)
Call(args) == [kind |-> "call", key |-> NoKey, w |-> 0, args |-> args]
PtrToInt(args) == [kind |-> "benign", key |-> NoKey, w |-> 0, args |-> args]

Shapes == {
    <<{2, 3}, {3}, {}>>,    \* a branch around a block
    <<{2}, {2, 3}, {}>>,    \* a loop
    <<{2, 3}, {}, {2, 3}>>  \* two ways out, one through a loop
    }

Opening == { <<St("a1")>>, <<St("p1")>>, <<Call({"A"}), St("a2")>>,
             <<St("a1"), St("b1")>>, <<Wide("store", "p1"), Call({})>> }
Middle == { <<>>, <<Ld("a1"), St("a1")>>, <<St("a1")>>, <<Ld("p1")>>, <<St("a2"), Call({})>>,
            <<Ld("b1"), St("p1")>>, <<St("b1"), PtrToInt({"A"}), St("a1")>> }
Closing == { <<>>, <<Wide("load", "a1")>>, <<St("a1"), Ld("a2")>>, <<Ld("b1")>>,
             <<St("p1")>>, <<Call({})>>, <<St("a2")>> }

\* The keys of a function are those it loads from or stores to.
Program(shape, bodies, moving) ==
    LET keys == UNION {{bodies[b][i].key : i \in DOMAIN bodies[b]} : b \in DOMAIN bodies}
    IN  [succs |-> shape, ops |-> bodies, moving |-> moving,
         root |-> [k \in keys \ {NoKey} |-> Roots[k]]]

StayPut == <<{}, {}, {}>>

\* Functions of the kind the pass is right about: keys that stay put, and
\* one key that moves in the loop that defines it.
MCPrograms ==
    {p \in {Program(s, <<b1, b2, b3>>, StayPut) :
              s \in Shapes, b1 \in Opening, b2 \in Middle, b3 \in Closing}
           \cup {Program(<<{2}, {2, 3}, {}>>, <<b1, b2, b3>>, <<{}, {k}, {}>>) :
              b1 \in Opening, b2 \in Middle, b3 \in Closing, k \in {"a1", "p1"}}
           \cup {Program(<<{2}, {3}, {2, 4}, {}>>, <<<<St("a1")>>, b2, b3, <<>>>>, <<{}, {}, {}, {}>>) :
              b2 \in Middle, b3 \in Middle} :
        /\ OneWidthPerKey(p)
        /\ \A b \in Blocks(p) : p.moving[b] \subseteq Keys(p)
        /\ MovingKeysRead(p)
        /\ \A i \in Positions(p, 1) : Op(p, 1, i).key \notin p.moving[2]}

\* A wide store, a narrow one to the same key (a union's other field, a tag
\* at the start of an enum), and a read of all of it.
MCNarrowStore ==
    {Program(<<{2}, {3}, {}>>,
             <<<<Wide("store", "a1")>>, <<St("a1")>>, <<Wide("load", "a1")>>>>, StayPut)}

\* A loop stores to a[i]; its last iteration stores to a[i] again before the
\* loop is left; then a[0] is read.
MCLoopStore ==
    {Program(<<{2}, {2, 3}, {}>>,
             <<<<>>, <<St("a1")>>, <<St("a1"), Ld("a2")>>>>, <<{}, {"a1"}, {}>>)}
=============================================================================
