------------------------------ MODULE MCMidend ------------------------------
(***************************************************************************)
(* The functions the mid-end is checked on, by what they exercise.         *)
(***************************************************************************)
EXTENDS Midend

\* One block: parameters with types, operations, returned value.
Flat(params, ops, ret, ty) ==
  [blocks |-> <<1>>, args |-> <<params>>, ops |-> <<ops>>, term |-> <<Ret(ret)>>, ty |-> ty, epi |-> {}]
Cfg(args, ops, term, ty) ==
  [blocks |-> [i \in 1..Len(args) |-> i], args |-> args, ops |-> ops, term |-> term, ty |-> ty, epi |-> {}]
AllPreds == {"eq", "ne", "ult", "ule", "ugt", "uge", "slt", "sle", "sgt", "sge"}

\* Local algebra: x op c and c op x, folds of constants, reassociation.
WithConst ==
  {Flat(<<1>>, <<Const(2, c), IF sw THEN Bin(k, 3, 2, 1) ELSE Bin(k, 3, 1, 2)>>, 3, <<"n", "n", "n">>) :
     k \in BinKinds, c \in 0..3, sw \in BOOLEAN}
Constants ==
  {Flat(<<>>, <<Const(1, a), Const(2, b), Bin(k, 3, 1, 2)>>, 3, <<"n", "n", "n">>) :
     k \in BinKinds, a \in {1, 2, 3}, b \in {0, 1, 3}}
  \union {Flat(<<>>, <<Const(1, a), Const(2, b), ICmp(3, pr, 1, 2)>>, 3, <<"n", "n", "i1">>) :
            pr \in AllPreds, a \in {1, 2}, b \in {1, 3}}
Reassociated ==
  {Flat(<<1>>, <<Const(2, c1), [Bin(k, 3, 1, 2) EXCEPT !.p = fl], Const(4, c2),
                 [Bin(k, 5, 3, 4) EXCEPT !.p = fl]>>, 5, <<"w", "w", "w", "w", "w">>) :
     k \in {"add", "mul"}, c1 \in {4, 12}, c2 \in {2, 8, 13}, fl \in {"", "nsw"}}
CastFolds ==
  {Flat(<<1>>, <<Cast("zext", 2, 1), Cast("trunc", 3, 2)>>, 3, <<"n", "w", "n">>),
   Flat(<<1>>, <<Cast("sext", 2, 1), Cast("trunc", 3, 2)>>, 3, <<"n", "w", "n">>)}
  \union {Flat(<<>>, <<Const(1, c), Cast(k, 2, 1)>>, 2, <<"n", "w">>) : c \in {1, 2}, k \in {"zext", "sext"}}
  \union {Flat(<<>>, <<Const(1, c), Cast("trunc", 2, 1)>>, 2, <<"w", "n">>) : c \in {5, 14}}
Divisions ==
  {Flat(<<1>>, <<Const(2, c), Bin(k, 3, 1, 2)>>, 3, <<"w", "w", "w">>) : k \in Trapping, c \in 1..15}
  \union {Flat(<<1>>, <<Const(2, c), Bin(k, 3, 1, 2)>>, 3, <<"d", "d", "d">>) :
            k \in Trapping, c \in {3, 7, 10, 11, 64, 127, 128, 129, 200, 253}}
  \* the same sum with and without the no-overflow promise
  \union {Flat(<<1>>, <<Const(2, 3), [Bin("add", 3, 1, 2) EXCEPT !.p = f], [Bin("add", 4, 1, 2) EXCEPT !.p = g],
                        ICmp(5, "ult", 1, 2), Op("select", 6, <<5, 4, 1>>, 0, "", <<>>)>>, 6,
               <<"n", "n", "n", "n", "i1", "n">>) : f, g \in {"", "nsw"}}

\* Aggregates: values 1 and 2 put into a struct, parts taken out again.
Aggregates ==
  {Flat(<<1, 2>>, <<Undef(3), Insert(4, 3, 1, <<f>>), Insert(5, 4, 2, <<1 - f>>), Insert(6, 5, 2, <<g>>),
                    Extract(7, 6, <<h>>)>>, 7, <<"n", "n", "nn", "nn", "nn", "nn", "n">>) : f, g, h \in 0..1}
  \union {Flat(<<1, 2>>, <<Undef(3), Insert(4, 3, 1, <<0>>), Insert(5, 4, 2, <<1>>),
                           Undef(6), Insert(7, 6, 5, <<0>>), Insert(8, 7, 2, <<0, f>>), Insert(9, 8, 1, <<1>>),
                           Extract(10, 9, <<0>>), Extract(11, 10, <<g>>), Extract(12, 9, <<0, g>>),
                           Bin("sub", 13, 11, 12), Extract(14, 9, <<1>>), Bin("add", 15, 13, 14)>>, r,
               <<"n", "n", "nn", "nn", "nn", "t", "t", "t", "t", "nn", "n", "n", "n", "n", "n">>) :
            f, g \in 0..1, r \in {11, 12, 15}}
  \* a fat pointer as the base of an address, addresses of addresses
  \union {Flat(<<1, 2>>, <<Undef(3), Insert(4, 3, 1, <<0>>), Insert(5, 4, 2, <<1>>), GepC(6, 5, "n", c),
                           Load(7, 6)>>, 7, <<"ptr", "n", "pn", "pn", "pn", "ptr", "n">>) : c \in {0, 2}}
  \union {Flat(<<1>>, <<GepC(2, 1, e, a), GepC(3, 2, f, b), Load(4, 3)>>, 4, <<"ptr", "ptr", "ptr", "n">>) :
            e, f \in {"n", "w"}, a, b \in 0..1}

\* A struct slot written whole or by parts and read back: 1 and 2 its
\* fields, 5 the struct value, 6 the slot, 7 and 8 the addresses of leaves.
SlotTy(t) == <<"n", "n", t, t, t, "ptr", "ptr", "n", "n", t, "n">>
SlotOps(t, put, get) ==
  <<Undef(3), Insert(4, 3, 1, <<0>>), Insert(5, 4, 2, <<1>>), Alloca(6, t), GepC(7, 6, "n", 1)>> \o put \o get
Puts == {<<Store(5, 6)>>, <<Store(5, 6), Store(1, 7)>>, <<Store(2, 6), Store(1, 7)>>, <<Store(5, 6), Call(0, <<2>>)>>,
         <<Store(5, 6), Call(0, <<6>>)>>, <<Store(2, 7), Store(5, 6)>>}
Gets == {<<Load(9, 7)>>, <<Load(9, 6)>>, <<Load(10, 6), Extract(9, 10, <<0>>)>>,
         <<Load(10, 6), Store(1, 7), Extract(11, 10, <<1>>), Load(8, 7), Bin("sub", 9, 11, 8)>>}
StructSlots ==
  {Flat(<<1, 2>>, SlotOps(t, put, get), 9, [SlotTy("nn") EXCEPT ![10] = t]) :
     t \in {"nn", "sn"}, put \in Puts, get \in {<<Load(9, 7)>>, <<Load(9, 6)>>}}
  \union {Flat(<<1, 2>>, SlotOps("nn", put, get), 9, SlotTy("nn")) : put \in Puts, get \in Gets}
  \* stored as one type and loaded field by field as another of its layout
  \union {Flat(<<1, 2, 3>>, <<Undef(4), Insert(5, 4, 1, <<0>>), Insert(6, 5, 2, <<1>>), Store(6, 3)>> \o m \o
                            <<Load(7, 3), Extract(8, 7, <<g>>)>>, 8,
               <<"n", "n", "ptr", "nn", "nn", "nn", "sn", IF g = 0 THEN "s" ELSE "n", "n">>) :
            g \in 0..1, m \in {<<>>, <<Call(0, <<>>)>>, <<Load(9, 3)>>}}
  \* three leaves, one of them nested
  \union {Flat(<<1, 2>>, <<Undef(3), Insert(4, 3, 1, <<0, 0>>), Insert(5, 4, 2, <<0, 1>>), Insert(6, 5, 1, <<1>>),
                           Alloca(7, "t"), Store(6, 7), GepC(8, 7, "n", c), Store(2, 8), Load(9, 7),
                           Extract(10, 9, x)>>, 10,
               <<"n", "n", "t", "t", "t", "t", "ptr", "ptr", "t", "n">>) :
            c \in 0..2, x \in {<<0, 0>>, <<0, 1>>, <<1>>}}

\* Memory: two pointers 1 and 2 that may meet, an address 4 next to 1, a
\* slot 5 whose address may escape; two operations, then loads.
MemTy == <<"ptr", "ptr", "n", "ptr", "ptr", "n", "w", "n", "n", "n", "n", "n", "n">>
MemPool(d) == {Store(3, 1), Store(3, 2), Store(3, 4), Store(3, 5), Load(d, 2), Load(d, 5), Call(0, <<>>),
               Call(0, <<5>>), Call(d, <<3>>), Bin("add", d, 3, 3)}
MemoryOps ==
  {Flat(<<1, 2, 3>>, <<GepC(4, 1, "n", 1), Alloca(5, "n"), Store(3, 5), Load(6, a), x, y, Load(10, a),
                       Bin("sub", 11, 10, 6)>>, 11, MemTy) :
     a \in {1, 4, 5}, x \in MemPool(8), y \in MemPool(9)}
  \* an access of another width in between; the second read through a cast
  \union {Flat(<<1, 2, 3>>, <<GepC(4, 1, "n", 1), Load(6, a), Load(7, 2), x, Load(10, a), Bin("sub", 11, 10, 6)>>,
               r, MemTy) : a \in {1, 4}, x \in {Store(7, 1), Store(7, 2), Store(3, 2)}, r \in {10, 11}}
  \union {Flat(<<1, 3>>, <<Cast("bitcast", 2, 1), Store(3, 1), Load(6, 2)>>, 6, MemTy)}

\* A slot across blocks: 1 chooses the arm, the arms and the join use slot 3.
Slots ==
  {Cfg(<<<<1, 2>>, <<>>, <<>>, <<>>>>,
       <<<<Alloca(3, e)>> \o first, arm1, arm2, <<Load(6, 3)>>>>,
       <<CondBr(1, 2, <<>>, 3, <<>>), Br(4, <<>>), Br(4, <<>>), Ret(6)>>,
       <<"i1", "n", "ptr", "n", "n", out>>) :
     e \in {"n", "s"}, out \in {"n", "s"},
     first \in {<<>>, <<Store(2, 3)>>, <<Load(4, 3), Store(2, 3)>>, <<Store(2, 3), Load(4, 3), Store(4, 3)>>},
     arm1 \in {<<>>, <<Store(2, 3)>>, <<Const(5, 3), Store(5, 3)>>}, arm2 \in {<<>>, <<Call(0, <<3>>)>>}}

\* Branches: 1 and 2 are the parameters, 3 the condition; a diamond with an
\* argument at the join, forwarding blocks, and operations that may move.
Diamond(entry, cond, arm1, v1, arm2, v2, join, ret, ty) ==
  Cfg(<<<<1, 2>>, <<>>, <<>>, <<4>>>>, <<entry, arm1, arm2, join>>,
      <<CondBr(cond, 2, <<>>, 3, <<>>), Br(4, <<v1>>), Br(4, <<v2>>), Ret(ret)>>, ty)
DiaTy == <<"n", "n", "i1", "n", "n", "n", "n", "i1", "i1", "n">>
Zero == Const(10, 0)
Diamonds ==
  {Diamond(<<Zero, ICmp(3, pr, 1, 10), Bin(k, 5, 1, 2)>>, 3, <<Bin(k, 6, 1, 2)>>, v1, <<Bin("xor", 7, 1, 2)>>, 7,
           <<>>, ret, DiaTy) : pr \in {"eq", "ult"}, k \in {"add", "udiv"}, v1 \in {5, 6, 1}, ret \in {4, 5}}
  \* the division is guarded by its own condition
  \union {Diamond(<<Zero, ICmp(3, "ne", 2, 10)>>, 3, <<Bin(k, 6, 1, 2)>>, 6, <<>>, 1, <<Bin("add", 7, 4, 1)>>, 7, DiaTy) :
            k \in Trapping}
  \* a condition compared with a constant, a constant condition
  \union {Diamond(<<ICmp(3, "ult", 1, 2), Const(8, c), ICmp(9, pr, IF sw THEN 8 ELSE 3, IF sw THEN 3 ELSE 8)>>,
                  9, <<>>, 1, <<>>, 2, <<>>, 4, DiaTy) : pr \in {"eq", "ne"}, c \in 0..1, sw \in BOOLEAN}
  \union {Diamond(<<Const(3, c)>>, 3, <<Bin("add", 6, 1, 2)>>, 6, <<>>, v, <<>>, 4, DiaTy) : c \in 0..1, v \in 1..2}
\* Block 2 forwards its argument 4 to 3; 4 is, or is not, used further down.
Forwarders ==
  {Cfg(<<<<1, 2>>, <<4>>, <<5>>>>, <<<<ICmp(3, "ult", 1, 2)>>, mid, last>>,
       <<CondBr(3, 2, <<1>>, 3, <<2>>), Br(3, <<4>>), Ret(r)>>, <<"n", "n", "i1", "n", "n", "n", "n">>) :
     mid \in {<<>>, <<Bin("add", 6, 4, 4)>>}, last \in {<<>>, <<Bin("mul", 7, 5, 1)>>}, r \in {5, 1}}
  \union {Cfg(<<<<1, 2>>, <<4>>, <<>>, <<>>, <<>>>>, <<<<ICmp(3, "ult", 1, 2)>>, <<>>, <<>>, <<>>, <<>>>>,
              <<CondBr(3, 2, <<1>>, 2, <<2>>), Br(3, <<>>), Br(d, <<>>), Ret(4), Ret(1)>>, <<"n", "n", "i1", "n">>) :
            d \in {4, 5}}
  \* every edge to block 4 comes through an empty block that passes an argument on
  \union {Cfg(<<<<1, 2>>, <<4>>, <<5>>, <<6>>>>, <<<<ICmp(3, "ult", 1, 2)>>, <<>>, <<>>, <<>>>>,
              <<CondBr(3, 2, <<a>>, 3, <<b>>), Br(4, <<4>>), Br(4, <<b>>), Ret(6)>>,
              <<"n", "n", "i1", "n", "n", "n">>) : a, b \in 1..2}
\* Memory across blocks: stores and calls on the way to a load of 1.
MemoryPaths ==
  {Cfg(<<<<1, 2, 3>>, <<>>, <<>>, <<>>, <<>>>>,
       <<<<Load(5, 1), Const(6, 2), ICmp(4, "ult", 3, 6)>>, arm1, arm2, join, <<Load(7, 1), Bin("sub", 8, 7, 5)>>>>,
       <<CondBr(4, 2, <<>>, 3, <<>>), Br(4, <<>>), Br(IF direct THEN 5 ELSE 4, <<>>), Br(5, <<>>), Ret(8)>>,
       <<"ptr", "ptr", "n", "i1", "n", "n", "n", "n", "n">>) :
     arm1 \in {<<Store(3, 2)>>, <<Call(0, <<3>>)>>, <<>>}, arm2 \in {<<>>, <<Store(3, 1)>>},
     join \in {<<>>, <<Load(9, 1)>>}, direct \in BOOLEAN}
  \* a chain of single predecessors, longer than the search goes
  \union {Cfg([b \in 1..5 |-> IF b = 1 THEN <<1, 2, 3>> ELSE <<>>],
              [b \in 1..5 |-> IF b = at THEN <<Store(3, a)>> ELSE IF b = 5 THEN <<Load(4, 1)>> ELSE <<>>],
              [b \in 1..5 |-> IF b = 5 THEN Ret(4) ELSE Br(b + 1, <<>>)], <<"ptr", "ptr", "n", "n">>) :
            at \in 1..4, a \in 1..2}
\* Blocks no path reaches, and a loop without an exit beside the return.
Unreached ==
  {Cfg(<<<<1>>, <<3>>, <<>>>>, <<<<Const(2, c)>>, <<Bin("add", 4, 3, 1)>>, <<>>>>,
       <<CondBr(2, 3, <<>>, 2, <<1>>), Br(2, <<4>>), Ret(1)>>, <<"n", "i1", "n", "n">>) : c \in 0..1}
  \union {Cfg(<<<<1>>, <<3>>, <<>>, <<>>>>, <<<<Const(5, 1), ICmp(2, "ult", 1, 5)>>, <<Bin("add", 4, 3, 1)>>, <<>>, <<>>>>,
              <<CondBr(2, 3, <<>>, 2, <<1>>), CondBr(2, 2, <<4>>, d, IF d = 2 THEN <<1>> ELSE <<>>), Ret(1), Br(2, <<1>>)>>,
              <<"n", "i1", "n", "n", "n">>) : d \in {2, 4}}

\* Loops.  1 is the parameter; 2, 3 and 4 the constants start, step and
\* bound; 5 the counter and 6 the accumulator, block arguments of the header.
LoopTy == <<"w", "w", "w", "w", "w", "w", "w", "w", "i1", "w", "w", "i1", "w">>
LoopConsts(a, c, z) == <<Const(2, a), Const(3, c), Const(4, z)>>
Steps == {<<0, "add", 1, "ult", 3>>, <<0, "add", 1, "ne", 3>>, <<4, "add", 15, "ne", 0>>, <<0, "add", 2, "ule", 5>>,
          <<1, "mul", 2, "ult", 8>>, <<1, "shl", 1, "ne", 8>>, <<8, "lshr", 1, "ugt", 1>>, <<12, "ashr", 1, "slt", 15>>,
          <<8, "udiv", 2, "uge", 2>>, <<0, "add", 1, "ult", 9>>, <<3, "add", 1, "ult", 3>>, <<14, "add", 1, "uge", 14>>}
\* do-while: one block that tests the new or the old counter
DoWhiles ==
  {Cfg(<<<<1>>, <<5, 6>>, <<10>>>>,
       <<LoopConsts(st[1], st[3], st[5]),
         <<Bin(st[2], 7, 5, 3), acc, ICmp(9, st[4], t, 4)>>, <<Bin("xor", 11, 10, 8)>>>>,
       <<Br(2, <<2, 1>>), IF pos THEN CondBr(9, 2, <<7, 8>>, 3, <<6>>) ELSE CondBr(9, 3, <<6>>, 2, <<7, 8>>), Ret(11)>>,
       LoopTy) :
     st \in Steps, t \in {7, 5}, acc \in {Bin("add", 8, 6, 5), Bin("mul", 8, 1, 3)}, pos \in BOOLEAN}
\* while: the header tests, the body steps; a swap of the carried values
Whiles ==
  {Cfg(<<<<1>>, <<5, 6, 10>>, <<>>, <<>>>>,
       <<LoopConsts(st[1], st[3], st[5]), <<IF sw THEN ICmp(9, st[4], 4, 5) ELSE ICmp(9, st[4], 5, 4)>>,
         <<Bin(st[2], 7, 5, 3), Bin(k, 8, 6, 5), Bin("udiv", 11, 1, 3)>>, <<Bin("sub", 13, 6, 10)>>>>,
       <<Br(2, <<2, 1, 3>>), CondBr(9, 3, <<>>, 4, <<>>), Br(2, IF swap THEN <<7, 10, 8>> ELSE <<7, 8, 11>>), Ret(13)>>,
       LoopTy) : st \in Steps, k \in {"add", "xor"}, swap \in BOOLEAN, sw \in BOOLEAN}
\* a body of several blocks: the division runs only under its guard; a side
\* exit; a loop inside
DiamondBody(st, guard, side) ==
  Cfg(<<<<1>>, <<5, 6>>, <<>>, <<>>, <<>>, <<8>>, <<>>, <<>>>>,
      <<LoopConsts(st[1], st[3], st[5]), <<ICmp(9, st[4], 5, 4)>>, <<ICmp(12, guard, 1, 2)>>,
        <<Bin("udiv", 10, 3, 1), Bin("add", 11, 6, 10)>>, <<>>, <<Bin(st[2], 7, 5, 3)>>, <<>>, <<>>>>,
      <<Br(2, <<2, 1>>), CondBr(9, 3, <<>>, 7, <<>>), CondBr(12, 4, <<>>, 5, <<>>), Br(6, <<11>>), Br(6, <<6>>),
        IF side THEN CondBr(12, 2, <<7, 8>>, 8, <<>>) ELSE Br(2, <<7, 8>>), Ret(6), Ret(1)>>, LoopTy)
Bodies == {DiamondBody(st, g, side) : st \in {q \in Steps : q[1] = 0 /\ q[5] < 9}, g \in {"ne", "eq"}, side \in BOOLEAN}
  \union {Cfg(<<<<1>>, <<5, 6>>, <<8>>, <<>>, <<>>>>,
              <<LoopConsts(0, 1, 2), <<>>, <<Bin("add", 7, 8, 3), ICmp(9, "ult", 7, 4)>>,
                <<Bin("add", 10, 5, 3), Bin("add", 11, 6, 7), Bin("mul", 13, 1, 1), ICmp(12, "ne", 10, 4)>>, <<>>>>,
              <<Br(2, <<2, 1>>), Br(3, <<in>>), CondBr(9, 3, <<7>>, 4, <<>>), CondBr(12, 2, <<10, 11>>, 5, <<>>), Ret(r)>>,
              LoopTy) : in \in {2, 5}, r \in {11, 13}}
\* memory in a loop: a load that does not depend on the counter, a store that may reach it
LoopMemory ==
  {Cfg(<<<<1, 13>>, <<5, 6>>, <<10>>>>,
       <<LoopConsts(0, 1, 3) \o <<Load(12, 13)>>,
         <<Load(11, 13)>> \o mid \o <<Bin("add", 7, 5, 3), Bin("add", 8, 6, 11), ICmp(9, "ult", 7, 4)>>, <<>>>>,
       <<Br(2, <<2, 1>>), CondBr(9, 2, <<7, 8>>, 3, <<8>>), Ret(10)>>,
       [LoopTy EXCEPT ![12] = "w", ![13] = "ptr"] @@ (14 :> "ptr")) :
     mid \in {<<>>, <<Store(6, 13)>>, <<Call(0, <<6>>)>>, <<GepV(14, 13, "w", 5), Store(6, 14)>>}}

\* Recurrences through memory: 1 the array, 2 the parameter; 3, 4 and 5 the
\* start, step and bound; 6 the counter, 7 a shift; 8 and 9 the indices of
\* the load and the store, 12 the value stored.
FwdTy == <<"ptr", "n", "d", "d", "d", "d", "d", "d", "d", "ptr", "n", "n", "ptr", "d", "i1", "n", "n", "d">>
FwdBody(ix, first, last) ==
  <<Const(7, ix[1]), Const(18, 2)>> \o ix[2] \o <<GepV(10, 1, "n", ix[3]), GepV(13, 1, "n", ix[4])>>
  \o first \o <<Load(11, 10), Bin("add", 12, 11, 2), Store(12, 13)>> \o last \o <<Bin("add", 14, 6, 4)>>
FwdBounds == {<<Const(5, 4)>>, <<Const(5, 1)>>, <<Cast("zext", 5, 2)>>}
FwdIdx == {<<1, <<Bin("sub", 8, 6, 7)>>, 8, 6>>, <<1, <<Bin("add", 9, 6, 7)>>, 6, 9>>,
           <<2, <<Bin("sub", 8, 6, 7)>>, 8, 6>>, <<255, <<Bin("add", 8, 7, 6)>>, 8, 6>>,
           <<1, <<Bin("shl", 8, 6, 7), Bin("add", 9, 8, 18)>>, 8, 9>>,
           <<1, <<Bin("mul", 8, 18, 6), Bin("add", 9, 8, 7)>>, 8, 9>>,
           <<1, <<Bin("add", 9, 6, 5), Bin("sub", 8, 9, 7)>>, 8, 9>>}
Recurrences ==
  {Cfg(<<<<1, 2>>, <<6>>, <<>>, <<>>>>,
       <<<<Const(3, 1), Const(4, 1)>> \o bound, <<ICmp(15, "ult", 6, 5)>>,
         FwdBody(ix, first, last), <<Load(16, 1)>>>>,
       <<Br(2, <<3>>), CondBr(15, 3, <<>>, 4, <<>>), Br(2, <<14>>), Ret(16)>>, FwdTy) :
     bound \in FwdBounds, ix \in FwdIdx, first \in {<<>>, <<Call(0, <<>>)>>}, last \in {<<>>, <<Load(17, 10), Store(17, 1)>>}}
  \union {Cfg(<<<<1, 2>>, <<6>>, <<>>>>,
              <<<<Const(3, 1), Const(4, 1)>> \o bound,
                FwdBody(ix, <<>>, <<>>) \o <<ICmp(15, "ult", 14, 5)>>, <<Load(16, 1)>>>>,
              <<Br(2, <<3>>), CondBr(15, 2, <<14>>, 3, <<>>), Ret(16)>>, FwdTy) :
            bound \in FwdBounds, ix \in FwdIdx}

\* The condition is the same in every iteration: tested in the loop, or
\* computed before it, where the guard of a carried value has no clone of it.
SteadyRecurrences ==
  {Cfg(<<<<1, 2>>, <<6>>, <<>>, <<>>>>,
       <<<<Const(3, 1), Const(4, 1), Cast("zext", 5, 2)>> \o before, inside, FwdBody(ix, <<>>, <<>>), <<Load(16, 1)>>>>,
       <<Br(2, <<3>>), CondBr(15, 3, <<>>, 4, <<>>), Br(2, <<14>>), Ret(16)>>, FwdTy) :
     <<before, inside>> \in {<<<<>>, <<ICmp(15, "ult", 3, 5)>>>>, <<<<ICmp(15, "ult", 3, 5)>>, <<>>>>}, ix \in FwdIdx}

\* Streams: 1 the array read, 18 = 1 + 8 cells the one written (or 1
\* itself); 2 the parameter, which makes the bound 3 to 6; 6 the counter,
\* 7 and 8 the sums carried.
StreamTy(e) == <<"ptr", "n", "d", "d", "d", "d", e, e, "d", "ptr", e, e, "ptr", "d", "i1", e, "d", "ptr", e, "n", "ptr", "d", "d">>
Streams(e) ==
  LET one == IF e = "n" THEN GepC(18, 1, "n", 8) ELSE GepC(18, 1, "w", 4)
      zero == Const(16, 0)
      cfg(start, bound, cmp, body, latch) ==
        Cfg(<<<<1, 2>>, <<6, 7, 8>>, <<>>, <<>>>>,
            <<<<Const(3, start), Const(4, 1), zero, one>> \o bound, <<cmp>>, body \o <<Bin("add", 14, 6, 4)>>,
              <<Bin("xor", 19, 7, 8)>>>>,
            <<Br(2, <<3, 16, 16>>), CondBr(15, 3, <<>>, 4, <<>>), Br(2, <<14, latch[1], latch[2]>>), Ret(19)>>, StreamTy(e))
      runtime == <<Cast("zext", 22, 2), Const(23, 3), Bin("add", 5, 22, 23)>>
      up == ICmp(15, "ult", 6, 5)
      get == <<GepV(10, 1, e, 6), Load(11, 10)>>
      sum == Bin("add", 12, 7, 11)
      put(base, v) == <<GepV(13, base, e, 6), Store(v, 13)>>
  IN \* sums, copies and both; an address with an offset, by elements or by shift
     {cfg(s, runtime, up, get \o <<sum>> \o out, <<12, 8>>) :
        s \in {0, 1, 5}, out \in {<<>>, put(18, 11), put(1, 11), put(1, 16), put(18, 8), put(1, 12)}}
     \union {cfg(s, <<Const(5, z)>>, c, get \o <<sum>>, <<12, 8>>) :
               s \in {0, 254, 3}, z \in {5, 2}, c \in {up, ICmp(15, "slt", 6, 5), ICmp(15, "ugt", 5, 6), ICmp(15, "ule", 6, 5)}}
     \union {cfg(0, runtime, up, <<Bin("add", 9, 6, k), GepV(10, 1, e, 9), Load(11, 10), sum>> \o out, <<12, 8>>) :
               k \in {4, 3}, out \in {<<>>, put(18, 11), put(1, 11)}}
     \union {cfg(0, runtime, up, <<Const(17, k), Bin("shl", 9, 6, 17), GepV(10, 1, "n", 9), Load(11, 10), sum>>, <<12, 8>>) :
               k \in 0..1}
     \* lane-wise operations, a passed-through value, an order of accesses
     \union {cfg(0, runtime, up, get \o <<Bin(k, 12, 11, r)>> \o put(b, 12), <<7, 8>>) :
               k \in {"add", "sub", "mul", "xor"}, r \in {11, 7, 16}, b \in {1, 18}}
     \union {cfg(0, runtime, up, get \o <<Const(17, c), Bin(k, 12, 11, 17)>> \o put(18, 12), <<7, 8>>) :
               k \in {"shl", "ashr"}, c \in 0..2}
     \union {cfg(0, runtime, up, put(1, 7) \o get \o <<Bin("add", 12, 7, 11)>>, <<12, 8>>),
             cfg(0, runtime, up, get \o <<Bin("add", 12, 8, 11)>>, <<12, 7>>),
             cfg(0, runtime, up, get \o <<Call(0, <<>>), sum>>, <<12, 8>>)}
\* The base is reloaded from a slot 21 in every iteration.
SlotStreams ==
  {Cfg(<<<<1, 2>>, <<6, 7>>, <<>>, <<>>>>,
       <<<<Const(3, 0), Const(4, 1), Const(16, 0), GepC(18, 1, "n", 8), Alloca(21, "ptr"), Store(1, 21), Cast("zext", 22, 2), Const(23, 3), Bin("add", 5, 22, 23)>> \o esc,
         <<ICmp(15, "ult", 6, 5)>>,
         <<Load(10, 21), GepV(13, 10, "n", 6), Load(11, 13), Bin("add", 12, 7, 11)>> \o inl \o <<Bin("add", 14, 6, 4)>>, <<>>>>,
       <<Br(2, <<3, 16>>), CondBr(15, 3, <<>>, 4, <<>>), Br(2, <<14, 12>>), Ret(7)>>, StreamTy("n")) :
     esc \in {<<>>, <<Call(0, <<21>>)>>}, inl \in {<<>>, <<Store(18, 21)>>}}

MCMidendPrograms == WithConst \union Constants \union Reassociated \union CastFolds \union Divisions
  \union Aggregates \union StructSlots \union MemoryOps \union Slots
  \union Diamonds \union Forwarders \union MemoryPaths \union Unreached
  \union DoWhiles \union Whiles \union Bodies \union LoopMemory
  \union Recurrences \union SteadyRecurrences \union Streams("n") \union Streams("w") \union SlotStreams
MCMidendMemory == [c \in 0..15 |-> <<1, 2, 3, 0, 2, 1, 0, 3>>[(c % 8) + 1]]
=============================================================================
