----------------------- MODULE MCDefinitelyInitialized -----------------------
(* Bodies of four blocks for DefinitelyInitialized.  The types are those of   *)
(*   struct Outer { p: Pair, q: i32 }     struct Pair { f: i32, g: i32 }      *)
(*   enum Opt { V(i32, i32) }             Box<i32>                            *)
EXTENDS DefinitelyInitialized

MCTypeOfElem == [p |-> "Pair", q |-> "i32", f |-> "i32", g |-> "i32"] @@
                [x \in {"as V"} |-> "Opt"] @@ [x \in {"0", "1", "*"} |-> "i32"]
MCFieldsOfStruct == [Outer |-> {"p", "q"}, Pair |-> {"f", "g"}, V |-> {"0", "1"}]

a == <<"a">>
n == <<"n">>
Field(x, y) == Append(x, y)
ap == Field(a, "p")

MCTypeOfLocal == [a |-> "Outer", n |-> "i32", e |-> "Opt", b |-> "Box"]
MCLeaves == {<<"a", "p", "f">>, <<"a", "p", "g">>, <<"a", "q">>, n,
             <<"e", "as V", "0">>, <<"e", "as V", "1">>, <<"b", "*">>}

\* Structs: one argument with nested fields, and an integer.
StructsStatements ==
  {Nop, Assign(n, <<Field(ap, "f")>>), Assign(Field(ap, "f"), <<n>>),
   Assign(ap, <<>>), Assign(n, <<a>>), Assign(a, <<ap, Field(a, "q")>>)}

\* All bodies with the given statements: a branch, a loop, and a block that is
\* entered by unwinding.
BodiesOf(statements, some, T0, T1, T2) ==
  {[b \in 0 .. 3 |-> CASE b = 0 -> Block(<<s0>>, t0)
                       [] b = 1 -> Block(<<s1>>, t1)
                       [] b = 2 -> Block(<<s2, s3>>, t2)
                       [] b = 3 -> Block(<<>>, Return)] :
     s0 \in some, s1 \in statements, s2 \in statements, s3 \in some,
     t0 \in T0, t1 \in T1, t2 \in T2}

StructsBodies ==
  BodiesOf(StructsStatements, {Nop, Assign(n, <<ap>>)},
    {Goto(1), SwitchInt(<<n>>, <<1, 2>>)},
    {Goto(2), SwitchInt(<<>>, <<2, 3>>), Drop(ap, 2, 3), Call(n, <<a>>, 2, 3)},
    {Goto(1), Return, DropAndReplace(Field(a, "q"), <<n>>, 1, NoBlock), AssertTrue(<<n>>, 1, 3),
     Yield(<<ap>>, 1, 3), Diverge(<<a>>, 3), InlineAsm(3), Call(a, <<n>>, 1, NoBlock)})

\* An enum and a box: moving a part of them loses the others.
EnumsStatements ==
  {Nop, Assign(<<"b">>, <<<<"e", "as V", "0">>>>), Assign(<<"e">>, <<<<"b", "*">>>>),
   Assign(<<"b", "*">>, <<>>)}
EnumsBodies ==
  BodiesOf(EnumsStatements, {Nop, Assign(<<"b", "*">>, <<<<"e", "as V", "1">>>>)},
    {Goto(1), SwitchInt(<<>>, <<1, 2>>)},
    {SwitchInt(<<>>, <<2, 3>>), Call(<<"e">>, <<<<"b">>>>, 2, 3)},
    {Goto(1), Drop(<<"e">>, 1, 3)})

MCBodies == StructsBodies \cup EnumsBodies
==============================================================================
