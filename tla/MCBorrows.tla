------------------------------ MODULE MCBorrows ------------------------------
(* Small bodies: two owners, two mutable and two shared references, a pair. *)
EXTENDS Borrows

MCSignatures ==
  [id    |-> [args |-> <<"a">>, ret |-> "a"],
   pick  |-> [args |-> <<"a", "a">>, ret |-> "a"],
   first |-> [args |-> <<"a", "b">>, ret |-> "a"],
   take  |-> [args |-> <<"a">>, ret |-> NoLifetime]]

RefOf(kind, x, p) == [op |-> "Ref", kind |-> kind, lhs |-> <<x>>, src |-> p]
Mut(x, p) == RefOf("Mut", x, p)
Shared(x, p) == RefOf("Shared", x, p)
Move(x, p) == [op |-> "Use", kind |-> "Move", lhs |-> <<x>>, src |-> p]
Copy(x, p) == [op |-> "Use", kind |-> "Copy", lhs |-> <<x>>, src |-> p]
Pair(x, y) == [op |-> "Aggregate", lhs |-> <<"t">>, src |-> <<<<x>>, <<y>>>>]
Cast(x, p, unsize) == [op |-> "Cast", kind |-> IF unsize THEN "Copy" ELSE "Move", unsize |-> unsize, lhs |-> <<x>>, src |-> p]
Write(p) == [op |-> "Write", lhs |-> p]
Read(p) == [op |-> "Read", src |-> p]
Call(x, fn, args, to) == [op |-> "Call", lhs |-> x, fn |-> fn, args |-> args, to |-> {to}]
Goto(i) == [op |-> "Goto", to |-> {i}]
Switch(i, j) == [op |-> "Switch", to |-> {i, j}]
Ret == [op |-> "Return", to |-> {}]
Code(stmts, term) == [stmts |-> stmts, term |-> term]

O == <<"o">>
Of == <<"o", "f">>
P == <<"p">>
X == <<"x", "*">>
Xf == <<"x", "*", "f">>
Y == <<"y", "*">>
Yf == <<"y", "*", "f">>

S1 == <<"s1", "*">>
S2 == <<"s2", "*">>
A == <<"a", "*">>
Z == <<"z", "*">>
T0 == <<"t", "0">>
T1 == <<"t", "1">>

Straight(stmts) == [ret |-> FALSE, blocks |-> <<Code(stmts, Ret)>>]

\* Reborrowing, moving and overwriting mutable references.
Changes == {Mut("y", X), Mut("y", Xf), Move("y", <<"x">>), Mut("x", P), Mut("x", Y), Mut("x", Yf), Move("x", <<"y">>), Write(X), Write(Y)}
Reborrows == {Straight(<<Mut("x", O), c, d, e, u>>) : c, d, e \in Changes, u \in {Write(O), Write(Y), Write(X)}}

\* Shared references that overlap.
SharedRefsMade == {Shared("s1", O), Shared("s2", Of), Shared("s2", X), Shared("s1", Xf), Copy("s2", <<"s1">>), Shared("s2", S1)}
SharedBorrows == {Straight(<<m, c, d, e, f, u>>) : m \in {Write(O), Mut("x", O)}, c, d \in SharedRefsMade,
                                                  e, f \in {Read(S1), Read(S2), Write(X)}, u \in {Write(O), Write(X)}}

\* Pairs of references.
PairChanges == {Move("x", T0), Move("y", T1), Move("y", T0), Mut("x", T0 \o <<"*">>), Write(X), Write(Y),
                Write(T0 \o <<"*">>), Write(T1 \o <<"*">>)}
Pairs == {Straight(<<Mut("x", O), m, Pair("x", "y"), c, d, u>>) :
            m \in {Mut("y", P), Mut("y", Xf)}, c, d \in PairChanges, u \in {Write(O), Write(X), Write(T1 \o <<"*">>)}}

\* Calls that return a reference or end one.
Calls == {Call(<<"y">>, "id", <<<<"x">>>>, 2), Call(<<"x">>, "id", <<<<"y">>>>, 2), Call(<<>>, "take", <<<<"x">>>>, 2),
          Call(<<"z">>, "pick", <<<<"x">>, <<"y">>>>, 2), Call(<<"z">>, "first", <<<<"x">>, <<"y">>>>, 2)}
WithCall == {[ret |-> FALSE, blocks |-> <<Code(<<Mut("x", O), n>>, c), Code(<<d, e, u>>, Ret)>>] :
               n \in {Mut("y", P), Mut("y", X), Mut("y", Xf), Write(X)}, c \in Calls,
               d \in {Mut("y", X), Mut("x", P), Mut("x", Y), Mut("x", Z), Write(X), Write(Y), Write(Z)},
               e \in {Mut("x", P), Write(X), Write(Y), Write(Z)}, u \in {Write(O), Write(X), Write(Y), Write(Z)}}

\* Branches, one of them with a call.
Diamond(m, n, c, d, e, u) ==
  [ret |-> FALSE, blocks |-> <<Code(<<m, n>>, Switch(2, 3)), Code(<<c>>, Goto(4)), Code(<<d>>, Goto(4)), Code(<<e, u>>, Ret)>>]
Branches == {Diamond(Mut("x", O), n, c, d, e, u) : n \in {Mut("y", P), Mut("y", X), Write(X)},
               c, d \in Changes, e \in {Write(X), Write(Y), Write(P)}, u \in {Write(O), Write(Y)}}
BranchCalls == {[ret |-> FALSE, blocks |-> <<Code(<<Mut("x", O)>>, Switch(2, 3)), Code(<<>>, Call(<<"z">>, "id", <<<<"x">>>>, 4)),
                                            Code(<<d>>, Goto(4)), Code(<<Write(Z), Write(O)>>, Ret)>>] :
                  d \in {Mut("z", P), Mut("z", X), Move("z", <<"x">>)}}

\* Bodies that return a reference.
Returning == {[ret |-> TRUE, blocks |-> <<Code(<<m, c, d, e>>, Ret)>>] :
                m \in {Mut("x", A), Mut("x", A \o <<"f">>), Move("x", <<"a">>)}, c, d \in Changes,
                e \in {Move("r0", <<"x">>), Move("r0", <<"y">>), Mut("r0", X), Mut("r0", Yf)}}
\* Casts: one that is refused, and slices of an array.
Casting == {Straight(<<Mut("x", O), Cast("y", <<"x">>, FALSE), Write(Y)>>)} \cup
           {Straight(<<Mut("x", O), Shared("s1", m), Cast("s2", <<"s1">>, TRUE), c, Read(S2), u>>) :
              m \in {O, X, Xf}, c \in {Shared("s1", O), Shared("s1", X), Write(P)}, u \in {Write(O), Write(X)}}
Candidates == UNION {Reborrows, SharedBorrows, Pairs, WithCall, Branches, BranchCalls, Returning, Casting}

\* Every reference that is assigned is used before it is assigned again.
NoDeadStores(b) ==
  LET live == LiveVars(b, CfgEdges(b)) IN
    \A l \in Locations(b) : Defines(StatementAt(b, l)) # <<>> =>
      \A m \in get_successors(b, l) : StatementAt(b, l).lhs[1] \in live[Start(m)]
MCBodies == {b \in Candidates : NoDeadStores(b) /\ OnlyInitialisedIsUsed(b, Initialised(b))}
=============================================================================
