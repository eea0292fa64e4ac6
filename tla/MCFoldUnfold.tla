---------------------------- MODULE MCFoldUnfold ----------------------------
(* Finite instances of FoldUnfold.  The types are those of                    *)
(*   struct Pair { l: i32, r: i32 }     struct Outer { p: Pair, q: Pair }     *)
(*   enum Opt { Som(i32), Non }                                               *)
(* as Prusti encodes them: an i32 is a predicate with the field val_int, a    *)
(* reference one with the field val_ref, an enum has a discriminant.          *)
EXTENDS FoldUnfold

MCFieldType ==
  [l |-> "Int", r |-> "Int", p |-> "Pair", q |-> "Pair", val_int |-> "int", val_ref |-> "Pair",
   discriminant |-> "int", Som |-> "OptSom", Non |-> "OptNon", payload |-> "Int"]
MCStructFields ==
  [Pair |-> {"l", "r"}, Outer |-> {"p", "q"}, Int |-> {"val_int"}, Ref |-> {"val_ref"},
   OptSom |-> {"payload"}, OptNon |-> {}]
MCVariants == [Opt |-> {"Som", "Non"}]

MCLocalType ==
  [a |-> "Pair", b |-> "Pair", n |-> "Int", e |-> "Opt", f |-> "Opt", o |-> "Outer",
   m |-> "Ref", x |-> "Ref", y |-> "Ref", t |-> "int"]

\* The operations before the branch, on each side of it, and after the join.
Steps(e, l, r, m) == [entry |-> e, left |-> l, right |-> r, merged |-> m]

Procedure(locals, args, places, operations, budget, loans) ==
  [locals |-> locals \cup {"t"}, args |-> args, places |-> places,
   operations |-> operations, budget |-> budget, loans |-> loans]

\* Moves out of and into the fields of two pairs.
Moves ==
  Procedure({"a", "b", "n"}, {"a"},
    {<<"a">>, <<"b">>, <<"n">>, <<"a", "l">>, <<"a", "l", "val_int">>, <<"b", "r">>},
    {"Call", "Move", "Consume", "WriteValue", "ReadValue"}, Steps(1, 2, 1, 2), 0)

\* Matches on an enum, and moves of its payload.
Enums ==
  Procedure({"e", "f", "n"}, {"e", "n"},
    {<<"e">>, <<"f">>, <<"n">>, <<"e", "Som", "payload">>,
     <<"e", "Som", "payload", "val_int">>, <<"n", "val_int">>},
    {"Consume", "Move", "WriteValue", "ReadValue"}, Steps(1, 2, 1, 2), 0)

\* A mutable reference to a field of a struct or to another variable, perhaps to
\* a different one on each side of the branch.
Mutable ==
  Procedure({"o", "b", "m"}, {"o", "b"},
    {<<"b">>, <<"o", "p">>, <<"o", "p", "l", "val_int">>, <<"m", "val_ref", "l", "val_int">>},
    {"Borrow", "Expire", "WriteValue", "Consume"}, Steps(2, 2, 2, 3), 5)

OwnedProcedures == {Moves, Enums, Mutable}

\* Two shared references to one field of a struct, made and expiring in any order.
SharedPlaces == {<<"o", "p">>, <<"o", "p", "l", "val_int">>, <<"o", "q", "l", "val_int">>,
                 <<"x", "val_ref", "l", "val_int">>, <<"y", "val_ref", "r", "val_int">>}
Shared ==
  Procedure({"o", "x", "y"}, {"o"}, SharedPlaces,
    {"Borrow", "Expire", "WriteValue", "ReadValue"}, Steps(2, 2, 2, 3), 2)

\* The sides of the branch may share different fields, which are read through
\* the references only.
Fields ==
  Procedure({"o", "x", "y"}, {"o"},
    {<<"o", "p">>, <<"o", "q">>, <<"x", "val_ref", "l", "val_int">>,
     <<"y", "val_ref", "r", "val_int">>},
    {"Borrow", "Expire", "ReadValue", "Consume"}, Steps(2, 2, 2, 3), 2)

SharedProcedures == {Shared, Fields}

=============================================================================
