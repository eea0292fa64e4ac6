------------------------ MODULE MCPureExpressions ------------------------
(***************************************************************************)
(* Bodies, programs and values for the model checker.                      *)
(***************************************************************************)
EXTENDS PureExpressions

CONSTANT Width      \* the integer type of the bodies

MCDiscriminants == [A |-> 0, B |-> 1]
IntT == Prim(Width)
BoolT == Prim("bool")
Pair == Ty("tuple", <<IntT, BoolT>>)
EnumT == Ty("enum", <<IntT>>)
RefT(t) == Ty("ref", <<t>>)

\* The locals of all bodies: _1, _2, _6 are arguments.
Locals(ret) == [x \in {"_0", "_1", "_2", "_3", "_4", "_5", "_6", "_7", "_8"} |->
  CASE x = "_0" -> ret [] x \in {"_1", "_3"} -> IntT [] x \in {"_2", "_5"} -> BoolT
    [] x = "_4" -> Pair [] x \in {"_6", "_7"} -> EnumT [] x = "_8" -> RefT(IntT)]

Block(stmts, term) == [stmts |-> stmts, term |-> term]
Body(ret, blocks) == [ty |-> Locals(ret), args |-> <<"_1", "_2", "_6">>, blocks |-> blocks]

Goto(b) == Term("goto", <<>>, <<>>, <<b>>)
Ret == Term("return", <<>>, <<>>, <<>>)
Use(x, o) == Assign(x, <<>>, Rvalue("use", "", <<o>>))
Bin(x, op, l, r) == Assign(x, <<>>, Rvalue("bin", op, <<l, r>>))
V(x) == Copy(x, <<>>)

\* Assignments to _3, and to _0 from _3.
Ints3 == {Use("_3", ConstInt(2)), Use("_3", V("_1")), Bin("_3", "rem", V("_1"), ConstInt(-3)),
          Bin("_3", "+", V("_3"), V("_1")), Assign("_3", <<>>, Rvalue("un", "minus", <<V("_3")>>))}

Diamonds ==
  {Body(IntT, <<Block(<<Use("_3", V("_1")), s1>>, Term("switch", <<V("_2")>>, <<0>>, <<3, 2>>)),
                Block(<<s2>>, Goto(4)),
                Block(<<s3>>, t3),
                Block(<<Use("_0", V("_3"))>>, Ret)>>) :
     s1 \in Ints3, s2 \in Ints3, s3 \in Ints3,
     t3 \in {Goto(4), Term("false_edge", <<>>, <<>>, <<4, 2>>), Term("drop", <<>>, <<>>, <<4>>),
             Term("false_unwind", <<>>, <<>>, <<4>>)}}

Checked(op, r) == Assign("_4", <<>>, Rvalue("checked", op, <<V("_1"), r>>))

\* An overflow check, in a function and in an assertion.
Overflows ==
  {Body(IntT, <<Block(<<Checked(op, r)>>, Term("assert", <<Copy("_4", <<"tuple_1">>)>>, <<0>>, <<2, 3>>)),
                Block(<<Use("_0", Copy("_4", <<"tuple_0">>))>>, Ret),
                Block(<<>>, Term("resume", <<>>, <<>>, <<>>))>>)
     : op \in {"+", "-", "*"}, r \in {ConstInt(1), V("_1")}}
  \cup
  {Body(BoolT, <<Block(<<Checked(op, ConstInt(1))>>,
                       Term("assert", <<Copy("_4", <<"tuple_1">>)>>, <<0>>, <<2>>)),
                 Block(<<Bin("_0", cmp, Copy("_4", <<"tuple_0">>), ConstInt(0))>>, Ret)>>)
     : op \in {"+", "-"}, cmp \in {"<", ">="}}
  \cup
  \* a && b, with a check on the way to b
  {Body(BoolT, <<Block(<<>>, Term("switch", <<V("_2")>>, <<0>>, <<2, 3>>)),
                 Block(<<Use("_0", ConstBool(FALSE))>>, Goto(5)),
                 Block(<<Bin("_5", cmp, V("_1"), ConstInt(0))>>,
                       Term("assert", <<V("_5")>>, <<1>>, <<4>>)),
                 Block(<<Bin("_0", "rem", V("_1"), ConstInt(2)), Bin("_0", "!=", V("_1"), ConstInt(5))>>, Goto(5)),
                 Block(<<>>, Ret)>>) : cmp \in {"<", "!="}}

\* A match on an enumeration: an argument, or a value built before.
Matches ==
  {Body(IntT, <<Block(pre \o <<Assign("_3", <<>>, Rvalue("discriminant", "", <<V(x)>>))>>, switch),
                Block(<<Use("_0", ConstInt(3))>>, Goto(5)),
                Block(<<Use("_3", Copy(x, <<"B", "f">>)), Bin("_0", "-", V("_3"), V("_1"))>>, Goto(5)),
                Block(<<>>, Term("unreachable", <<>>, <<>>, <<>>)),
                Block(<<>>, Ret)>>)
     : <<pre, x>> \in {<< <<>>, "_6">>, << <<Use("_7", V("_6"))>>, "_7">>,
                       << <<Assign("_7", <<>>, Rvalue("adt", "B", <<V("_1")>>))>>, "_7">>,
                       << <<Assign("_7", <<>>, Rvalue("adt", "B", <<ConstInt(4)>>))>>, "_7">>,
                       << <<Assign("_7", <<>>, Rvalue("adt", "A", <<>>))>>, "_7">>},
       switch \in {Term("switch", <<V("_3")>>, <<0, 1>>, <<2, 3, 4>>),
                   Term("switch", <<V("_3")>>, <<1>>, <<3, 2>>),
                   Term("switch", <<V("_3")>>, <<0, 1>>, <<2, 3, 2>>)}}

References ==
  {Body(IntT, <<Block(<<Use("_3", o), Assign("_8", <<>>, Rvalue("ref", "", <<V("_3")>>)),
                        Assign("_8", <<>>, Rvalue("ref", "", <<Copy("_8", <<"deref">>)>>)),
                        Bin("_0", "+", Copy("_8", <<"deref">>), V("_1"))>>, Ret)>>)
     : o \in {V("_1"), ConstInt(2)}}

Tuples ==
  {Body(Pair, <<Block(<<Assign("_4", <<>>, Rvalue("tuple", "", <<V("_1"), o>>))>> \o s, Ret)>>)
     : o \in {V("_2"), ConstBool(TRUE)},
       s \in {<<Use("_0", V("_4"))>>,
              <<Use("_3", Copy("_4", <<"tuple_0">>)),
                Assign("_0", <<>>, Rvalue("tuple", "", <<V("_3"), Copy("_4", <<"tuple_1">>)>>))>>}}
  \cup
  {Body(IntT, <<Block(<<Assign("_4", <<>>, Rvalue("tuple", "", <<V("_1"), V("_2")>>)),
                        Assign("_4", <<"tuple_0">>, Rvalue("use", "", <<ConstInt(1)>>)),
                        Use("_0", Copy("_4", <<"tuple_0">>))>>, Ret)>>)}

\* Boolean operations, and operations on integers that are refused if their
\* result is used.
BitOperations ==
  {Body(BoolT, <<Block(<<Bin("_5", "<", V("_1"), ConstInt(1)), Bin("_0", op, V("_5"), V("_2"))>>, Ret)>>)
     : op \in {"and", "or", "xor"}}
  \cup
  {Body(IntT, <<Block(<<Bin("_3", op, V("_1"), ConstInt(1)), Use("_0", o)>>, Ret)>>)
     : <<op, o>> \in {<<"or", V("_3")>>, <<"shl", V("_3")>>, <<"shl", V("_1")>>}}

\* loop { return x }, with a block to unwind to, and a value that is replaced.
Panicking ==
  {Body(IntT, <<Block(<<>>, t),
                Block(<<Use("_0", V("_1"))>>, Ret),
                Block(<<>>, Term("resume", <<>>, <<>>, <<>>))>>)
     : t \in {Term(k, <<>>, <<>>, <<2, 3>>) : k \in {"false_unwind", "drop", "drop_and_replace"}}}

Calls ==
  {Body(IntT, <<Block(<<Bin("_3", "+", V("_1"), ConstInt(1))>>, CallTerm(f, "_3", <<V("_3")>>, <<2>>)),
                Block(<<Bin("_0", "-", V("_3"), V("_1"))>>, Ret)>>)
     : f \in {"old", "before_expiry", "g", "impure"}}
  \cup
  {Body(BoolT, <<Block(<<Assign("_4", <<>>, Rvalue("tuple", "", <<V("_1"), V("_2")>>))>>,
                       CallTerm(f, "_0", <<V("_4"), V("_4")>>, <<2>>)),
                 Block(<<>>, Ret)>>) : f \in {"eq", "ne"}}
  \cup
  {Body(IntT, <<Block(<<>>, Term("switch", <<V("_2")>>, <<0>>, <<2, 3>>)),
                Block(<<>>, CallTerm("panic", "", <<>>, to)),
                Block(<<Use("_0", V("_1"))>>, Ret),
                Block(<<>>, Term("resume", <<>>, <<>>, <<>>))>>) : to \in {<<>>, <<4>>}}
  \cup
  {Body(Prim("u8"), <<Block(<<Assign("_0", <<>>, Rvalue("cast", "", <<V("_1")>>))>>, Ret)>>)}

Loops ==
  {Body(IntT, <<Block(<<>>, first), Block(<<Use("_3", V("_1"))>>, second),
                Block(<<Use("_0", V("_1"))>>, Ret)>>)
     : first \in {Goto(3), Term("switch", <<V("_2")>>, <<0>>, <<2, 3>>)},
       second \in {Goto(1), Goto(2), Goto(3), Term("switch", <<V("_2")>>, <<0, 1>>, <<3, 3, 2>>)}}

MCBodies == Diamonds \cup Overflows \cup Matches \cup References \cup Tuples \cup BitOperations \cup Panicking \cup Calls \cup Loops

(***************************************************************************)
(* Values.                                                                 *)
(***************************************************************************)
IntSamples == {MIN[Width], -4, 0, 1, MAX[Width]} \cap MIN[Width]..MAX[Width]

IsUsed(body, x) ==
  \E b \in DOMAIN body.blocks : LET block == body.blocks[b] IN
    \/ \E st \in Range(block.stmts) : st.lhs.x = x \/ \E o \in Range(st.rv.ops) : o.x = x
    \/ \E o \in Range(block.term.ops) : o.x = x

Samples(body, x) ==
  LET ty == body.ty[x]
      all == CASE IsInt(ty) -> {IntCell(i) : i \in IF x = "_1" THEN IntSamples ELSE {3, 1}}
               [] ty.t = "bool" -> {BoolCell(b) : b \in BOOLEAN}
               [] ty.t = "tuple" -> {[tuple_0 |-> IntCell(i), tuple_1 |-> BoolCell(i = 2)] : i \in {2, 9}}
               [] ty.t = "enum" -> {EnumA(MCDiscriminants), EnumB(MCDiscriminants, IntCell(8))}
               [] ty.t = "ref" -> {[val_ref |-> IntCell(6)]}
  IN IF IsUsed(body, x) /\ x # "_0" THEN all ELSE {CHOOSE v \in all : TRUE}

RECURSIVE Product(_, _)
Product(body, xs) ==
  IF xs = <<>> THEN {<<>>}
  ELSE {(Head(xs) :> v) @@ env : v \in Samples(body, Head(xs)), env \in Product(body, Tail(xs))}

MCEnvsOf(body) == Product(body, <<"_0", "_1", "_2", "_3", "_4", "_5", "_6", "_7", "_8">>)

OldEnv(body, i) == [x \in DOMAIN body.ty |->
                      IF IsInt(body.ty[x]) THEN IntCell(i) ELSE CHOOSE v \in Samples(body, x) : TRUE]
MCOldsOf(body) == [old |-> OldEnv(body, 10), before_expiry |-> OldEnv(body, 20)]

(***************************************************************************)
(* Programs.  The places are those of the argument a, a pair, and of the   *)
(* argument e, an enumeration.                                             *)
(***************************************************************************)
RECURSIVE Unfolded(_, _)
Unfolded(p, e) == IF p.k = "local" THEN e ELSE Unfolded(p.s[1], Unfolding(p.s[1], e))

PA == Local("a", 0)
PE == Local("e", 0)
ReadOf(p) == Unfolded(p, p)
FirstOf == Field(Field(PA, "tuple_0"), "val_int")
SecondOf == Field(Field(PA, "tuple_1"), "val_int")
DiscrOf == Field(PE, "discriminant")
PayloadOf == Field(Field(Variant(PE, "B"), "f"), "val_int")

IntLeaves == {ReadOf(FirstOf), ReadOf(SecondOf), ReadOf(PayloadOf), FuncApp("c1", 0, <<IntConst(0)>>)}
BoolLeaves == {BinOp("==", ReadOf(DiscrOf), IntConst(1)), BinOp("==", SnapApp(PA), SnapApp(PA)),
               BinOp("==", ReadOf(FirstOf), FuncApp("c2", 0, <<IntConst(0)>>)),
               Unfolded(Field(PA, "tuple_0"), BinOp("==", SnapApp(Field(PA, "tuple_0")), IntConst(2))),
               BinOp("==", SnapApp(PE), SnapApp(PE))}

\* What was read in an earlier state, whose unfoldings stay inside.
OldLeaves == {BinOp("<", LabelledOld("old", ReadOf(p)), ReadOf(FirstOf)) : p \in {FirstOf, PayloadOf}}
             \cup {BinOp("<", LabelledOld("old", BinOp("+", ReadOf(FirstOf), IntConst(1))), ReadOf(SecondOf))}

Comparisons == {BinOp("<", l, r) : l \in IntLeaves, r \in IntLeaves}

\* A conditional with a branch that reads as a whole what its guard unfolds is left
\* out: find_common_unfoldings3 takes an unfolding no operand but the guard has for
\* a common one, and moves it out of the unfolding of its prefix.
Branches == BoolLeaves \ {BinOp("==", SnapApp(PA), SnapApp(PA)), BinOp("==", SnapApp(PE), SnapApp(PE)),
                           Unfolded(Field(PA, "tuple_0"), BinOp("==", SnapApp(Field(PA, "tuple_0")), IntConst(2)))}

Inhaled == {BinOp(o, l, r) : o \in {"&&", "==>"}, l \in BoolLeaves, r \in BoolLeaves \cup Comparisons}
           \cup {Cond(g, t, e) : g \in BoolLeaves, t \in Comparisons, e \in Branches}
           \cup {BinOp("==>", l, Cond(g, t, e)) : l \in BoolLeaves, g \in BoolLeaves,
                                                  t \in {BinOp("<", ReadOf(PayloadOf), ReadOf(FirstOf))},
                                                  e \in Branches}
           \cup {BinOp("==>", l, r) : l \in BoolLeaves, r \in OldLeaves}
           \cup {BinOp("&&", Permission(p), r) : p \in {PA, PE}, r \in BoolLeaves \cup Comparisons}

\* c1 is constant once c2 has been inlined; c3 has a precondition.
MCFunctions ==
  [c1 |-> [body |-> BinOp("+", FuncApp("c2", 0, <<IntConst(0)>>), IntConst(3)),
           permission_pres |-> TRUE, no_posts |-> TRUE],
   c2 |-> [body |-> IntConst(2), permission_pres |-> TRUE, no_posts |-> TRUE],
   c3 |-> [body |-> IntConst(7), permission_pres |-> FALSE, no_posts |-> TRUE]]

MCPrograms == {[functions |-> MCFunctions, inhales |-> <<e>>] : e \in Inhaled}

MCProgramEnvs ==
  {[a |-> [tuple_0 |-> IntCell(i), tuple_1 |-> IntCell(2)], e |-> v] :
     i \in {2, 5}, v \in {EnumA(MCDiscriminants), EnumB(MCDiscriminants, IntCell(3))}}

=============================================================================
