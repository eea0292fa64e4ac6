-------------------------- MODULE MCSpecifications --------------------------
(***************************************************************************)
(* Crates with annotations of the following kinds.                         *)
(*  - Sequences of lexemes, well-formed or not, as preconditions.          *)
(*  - Quantifiers, nested and with shadowing, with legal and illegal       *)
(*    triggers, and entailments.                                           *)
(*  - Items with several annotations, pledges, closures, predicates,       *)
(*    traits with implementations and external specifications.             *)
(* Left out are the inputs that the code reads in an unexpected way   *)
(* (README, remarks on the front end).                                     *)
(***************************************************************************)
EXTENDS Specifications

a == <<Ident("a")>>
b == <<Ident("b")>>
x == <<Ident("x")>>
y == <<Ident("y")>>
result == <<Ident("result")>>
Paren(s) == <<Group("(", s)>>
Call(f, s) == <<Ident(f)>> \o Paren(s)
Imp(l, r)  == l \o Op("==>") \o r
Conj(l, r) == l \o Op("&&") \o r
Disj(l, r) == l \o Op("||") \o r
Eq(l, r)   == l \o Op("==") \o r
Not(s)     == Op("!") \o s
Quant(q, params, body) == Call(q, Op("|") \o params \o Op("|") \o body)
Two(l, r)  == l \o Op(",") \o r
Triggers(body, sets) == body \o Op(",") \o <<Ident("triggers")>> \o Op("=") \o <<Group("[", sets)>>
Tuple(t)   == Paren(t \o Op(","))
Entails(params, clauses) ==
  <<Ident("f")>> \o Op("|=") \o (IF params = <<>> THEN <<>> ELSE Op("|") \o params \o Op("|"))
    \o <<Group("[", clauses)>>

Attr(kind, tokens) == [kind |-> kind, tokens |-> tokens]
Item(macro, node, name, params, attrs, uses, target) ==
  [macro |-> macro, node |-> node, name |-> name, params |-> params, attrs |-> attrs, uses |-> uses,
   target |-> target]
Fn(name, attrs) == Item("attributes", "fn", name, <<"a", "b", "f">>, attrs, {}, <<>>)
Plain(name, uses) == Item("body_invariant", "fn", name, <<"a", "b", "f">>, <<>>, uses, <<>>)

\* Flat sequences of up to three lexemes, and alternations of operands and operators.
Operators == {Op("==>"), Op("&&"), Op("||"), Op("==")}
Operands  == {a, b, Not(a), Paren(Imp(a, b)), Paren(Disj(a, b)), Paren(Conj(b, a))}
Lexemes   == Operators \cup {a, Op("!"), Op(","), Op("|="), Paren(<<>>), Paren(Imp(a, b)), Call("p", a)}
Flat == {l : l \in Lexemes} \cup {l \o m : l, m \in Lexemes} \cup {l \o m \o n : l, m, n \in Lexemes}
Chains == {l \o o \o m \o p \o n : l, m, n \in Operands, o, p \in Operators}
            \cup {l \o o \o m \o p \o n \o q \o a : l, m, n \in {a, b}, o, p, q \in Operators}

\* Bodies with the variables x and y of the quantifiers around them.
Atoms  == {x, a, Conj(x, a), Imp(x, a), Disj(x, y), Eq(x, y), Paren(Imp(y, Not(x))), Call("p", x)}
Inner  == {Quant("exists", x, Eq(x, y)), Quant("forall", x, Disj(x, a)), Quant("forall", Two(x, y), Imp(x, y)),
           Quant("exists", y, Imp(x, y)), Quant("forall", <<>>, a)}
Bodies == Atoms \cup Inner \cup {Conj(l, r) : l \in Atoms \ {Disj(x, y)}, r \in Inner}
            \cup {Imp(l, r) : l \in Inner, r \in Atoms}
Quantified ==
  {Quant(q, params, body) : q \in {"forall", "exists"}, params \in {x, Two(x, y), y}, body \in Bodies}
    \cup {Quant("forall", Two(x, y), Triggers(Imp(x, y), sets)) :
            sets \in {Tuple(Call("p", x)), Paren(Two(Call("p", x), Call("p", y))),
                      Two(Paren(Two(Call("p", x), Call("p", y))), Paren(Two(Call("p", y), Call("p", x)))),
                      Paren(Two(Call("p", x), Not(y))), Paren(Two(Call("p", x), Call("q", y))), Call("p", x)}}
    \cup {Quant("forall", x, Conj(Quant("forall", y, Triggers(Imp(x, y), Tuple(Call("p", t)))), Imp(x, x))) :
            t \in {x, y}}
    \cup {Imp(Quant("forall", x, x), a), Conj(Quant("exists", x, x), Quant("forall", x, x)),
          Disj(Quant("exists", x, x), a), Disj(a, Quant("exists", x, x)), Not(Quant("exists", x, x))}

Req(s) == Call("requires", s)
Ens(s) == Call("ensures", s)
Entailments ==
  {Entails(params, clauses) : params \in {x, Two(x, y), <<>>},
     clauses \in {<<>>, Req(x), Ens(Eq(result, x)), Two(Req(Imp(a, x)), Ens(Imp(x, result))),
                  Two(Ens(Disj(result, a)), Two(Req(x), Req(Conj(a, x)))), Two(Req(result), Ens(a)),
                  Req(Disj(a, Conj(x, b))), Ens(Quant("forall", x, Eq(x, result)))}}
    \cup {Conj(a, Entails(x, Req(x))), Imp(Entails(x, Ens(x)), b)}

Conditions == Flat \cup Chains \cup Quantified \cup Entailments
OneCondition == {<<Fn("m", <<Attr("requires", s)>>)>> : s \in Conditions}

\* Several annotations, in any order.
Clause == {Attr("requires", Imp(a, b)), Attr("requires", Disj(b, Conj(a, b))), Attr("ensures", Eq(result, a)),
           Attr("ensures", Quant("forall", x, Imp(x, result))), Attr("pure", <<>>), Attr("trusted", <<>>),
           Attr("after_expiry", result \o Op("=>") \o Conj(a, b)), Attr("after_expiry", Disj(a, b)),
           Attr("after_expiry", a \o Op("=>") \o b), Attr("after_expiry", Disj(a, Conj(b, a))),
           Attr("after_expiry", Conj(a, Paren(Disj(a, Conj(b, a))))),
           Attr("after_expiry_if", Two(a, Conj(Disj(a, result), b))),
           Attr("after_expiry_if", result \o Op("=>") \o Two(Conj(a, b), Imp(result, b))),
           Attr("after_expiry_if", Two(Quant("exists", x, Eq(x, a)), b)), Attr("after_expiry_if", a)}
Several == {<<Fn("m", <<c, d>>)>> : c, d \in Clause}
             \cup {<<Fn("m", <<c, d, Attr("ensures", b)>>), Fn("n", <<d>>)>> : c, d \in Clause}
             \cup {<<[Fn("m", <<c>>) EXCEPT !.params = <<"a", "b", "result">>]>> : c \in Clause}
             \cup {<<Fn("m", <<Attr("trusted", <<>>), Attr("predicate", <<>>)>>)>>, <<Fn("m", <<Attr("pure", a)>>)>>}

Asserted == {Conj(a, b), Imp(a, Quant("forall", x, Disj(x, b))), Disj(a, Conj(b, b)), Disj(a, x)}
Loops == {<<Item("body_invariant", "fn", "m", <<"a", "b">>, <<Attr("body_invariant", s), Attr("body_invariant", t)>>,
                 {}, <<>>), Fn("n", <<Attr("requires", s)>>)>> : s, t \in Asserted}
Closures == {<<Item("closure", "fn", "c", <<"a", "b">>, <<Attr(k, s), Attr(m, t), Attr("requires", a)>>, {}, <<>>)>> :
               k, m \in {"requires", "ensures"}, s, t \in {Conj(a, b), Eq(b, a), Imp(a, b), Eq(result, a)}}
              \cup {<<Item("closure", "fn", "c", <<"a", "b">>, <<>>, {}, <<>>)>>}
PredicateItems == {<<Item("predicate", "fn", "q", <<"a", "b">>, <<Attr("predicate", s)>>, {}, <<>>), user>> :
                     s \in Asserted, user \in {Plain("m", {"q"}), Plain("m", {"r"}),
                                               Item("attributes", "trait", "m", <<"a", "b">>,
                                                    <<Attr("ensures", Eq(result, b))>>, {"q"}, <<>>)}}
Traits == {<<Item("attributes", "trait", "t", <<"a", "b">>, ts, {}, <<>>),
             Item("refine_trait_spec", "fn", "i", <<"a", "b">>, is, {}, <<>>)>> :
             ts \in {<<Attr("requires", a)>>, <<Attr("ensures", Eq(result, b)), Attr("requires", Disj(a, b))>>},
             is \in {<<>>, <<Attr("requires", b)>>, <<Attr("ensures", Imp(b, result))>>, <<Attr("pure", <<>>)>>}}
External(name, fn, clauses) ==
  Item("extern_spec", "fn", name, <<"self", "a">>, clauses, {}, <<[fn |-> fn, impl |-> "S"]>>)
self == <<Ident("self")>>
Externals == {<<External("e1", "std", c), other>> :
                c \in {<<>>, <<Attr("requires", Eq(self, a))>>,
                       <<Attr("ensures", Quant("forall", x, Imp(Paren(Eq(x, self)), result))), Attr("pure", <<>>)>>},
                other \in {External("e2", "std", <<Attr("requires", a)>>), External("e2", "m", <<Attr("requires", a)>>),
                           Plain("m", {}), Fn("std", <<Attr("requires", a)>>)}}
MCCrates == OneCondition \cup Several \cup Loops \cup Closures \cup PredicateItems \cup Traits \cup Externals
=============================================================================
