------------------------------- MODULE MCEncoder -------------------------------
(***************************************************************************)
(* A crate for the encoder: recursive, generic and mutually recursive      *)
(* types, two types with the same short name, pure functions that call     *)
(* each other with instantiations, functions whose encoding fails at       *)
(* different places, a closure with a specification.                       *)
(***************************************************************************)
EXTENDS Encoder

CONSTANTS MaxTask,    \* length of the tasks
          Crate       \* the functions the tasks are made of

I32   == Ty("prim", "i32", <<>>)
Bool  == Ty("prim", "bool", <<>>)
T     == Ty("param", "T", <<>>)
U     == Ty("param", "U", <<>>)
Raw   == Ty("raw", "", <<I32>>)
Ref(t)     == Ty("ref", "", <<t>>)
RefMut(t)  == Ty("ref", "mut", <<t>>)
Box(t)     == Ty("box", "", <<t>>)
Option(t)  == Ty("adt", "core::Option", <<t>>)
List       == Ty("adt", "a::List", <<>>)
Node(t)    == Ty("adt", "b::List", <<t>>)
Token      == Ty("adt", "a::Token", <<>>)
Cursor     == Ty("adt", "a::Cursor", <<>>)
Pair       == Ty("tuple", "", <<List, I32>>)
Array      == Ty("array", "2", <<Pair>>)
Slice      == Ty("slice", "", <<I32>>)
FnPtr      == Ty("other", "fnptr", <<>>)
Str        == Ty("other", "generator", <<>>)

MCAdts ==
  [a \in {"core::Option", "a::List", "b::List", "a::Token", "a::Cursor"} |->
     CASE a = "core::Option" -> [kind |-> "enum", params |-> <<"T">>, variants |-> << <<>>, <<T>> >>]
       [] a = "a::List"   -> [kind |-> "struct", params |-> <<>>, variants |-> << <<I32, Option(Box(List))>> >>]
       [] a = "b::List"   -> [kind |-> "struct", params |-> <<"T">>, variants |-> << <<T, RefMut(Cursor)>> >>]
       [] a = "a::Token"  -> [kind |-> "struct", params |-> <<>>, variants |-> << <<>> >>]
       [] a = "a::Cursor" -> [kind |-> "struct", params |-> <<>>,
                              variants |-> << <<Ref(Node(I32)), Ref(Cursor), FnPtr, Str>> >>]]

Default ==
  [pure |-> FALSE, trusted |-> FALSE, predicate |-> FALSE, closure |-> FALSE, copy |-> FALSE,
   new_fails |-> FALSE, generics |-> <<>>, args |-> <<>>, ret |-> Bool, body |-> <<>>, spec |-> <<>>, post |-> <<>>,
   patched |-> <<>>, closures |-> <<>>, spec_names |-> <<>>]

MCFns ==
  [f \in {"main", "walk", "size", "valid", "ghost", "bad_ret", "no_copy", "calls_bad", "stubbed",
          "no_cfg", "extern", "closure", "spec", "wrap", "caller"} |->
     CASE f = "main" -> [Default EXCEPT
            !.args = <<List, RefMut(List)>>,
            !.body = <<Do("builtin_method", "HavocInt"), Do("predicate_use", Pair),
                       Do("discriminant", Option(Box(List))), Do("call_pure", <<"size", <<I32>>>>),
                       Do("invariant_func_app", RefMut(List)), Do("invariant_func_app", Ref(List)),
                       Do("call_impure", <<"walk", <<>>>>), Do("cast", <<I32, Bool>>),
                       Do("cast", <<I32, Bool>>), Do("register", "verification")>>,
            !.patched = <<Pair>>, !.closures = <<"spec@main">>]
       [] f = "walk" -> [Default EXCEPT
            !.args = <<Node(I32)>>,
            !.body = <<Do("snapshot", Array), Do("array_types", Array), Do("tag_func_app", Node(I32)),
                       Do("tag_func_app", Node(I32)), Do("invariant_func_app", Cursor),
                       Do("call_pure", <<"valid", <<>>>>), Do("assertion", "spec")>>,
            !.spec = <<Do("assertion", "spec")>>, !.post = <<Do("call_pure", <<"ghost", <<I32>>>>)>>]
       [] f = "size" -> [Default EXCEPT
            !.pure = TRUE, !.generics = <<"T">>, !.args = <<Ref(T)>>, !.ret = I32,
            !.body = <<Do("snapshot", List), Do("call_pure", <<"size", <<T>>>>),
                       Do("call_pure", <<"valid", <<>>>>)>>,
            !.patched = <<Option(Box(List))>>]
       [] f = "valid" -> [Default EXCEPT
            !.pure = TRUE, !.predicate = TRUE, !.args = <<Ref(Cursor)>>,
            !.body = <<Do("assertion", "spec")>>]
       [] f = "ghost" -> [Default EXCEPT
            !.pure = TRUE, !.trusted = TRUE, !.generics = <<"T">>, !.args = <<Option(T), Token>>,
            !.ret = Token]
       [] f = "bad_ret" -> [Default EXCEPT !.pure = TRUE, !.ret = Raw]
       [] f = "no_copy" -> [Default EXCEPT !.pure = TRUE, !.ret = Ty("tuple", "", <<I32, Token>>),
                                           !.args = <<Slice>>]
       [] f = "calls_bad" -> [Default EXCEPT
            !.pure = TRUE, !.generics = <<"T">>, !.args = <<T>>,
            !.body = <<Do("snapshot", Slice), Do("call_pure", <<"bad_ret", <<>>>>)>>]
       [] f = "stubbed" -> [Default EXCEPT
            !.body = <<Do("register", "unsupported"), Do("call_pure", <<"calls_bad", <<I32>>>>),
                       Do("call_pure", <<"calls_bad", <<Bool>>>>),
                       Do("call_pure", <<"no_copy", <<>>>>), Do("fail", "unsupported")>>,
            !.closure = TRUE, !.spec_names = <<"sf_pre_s", "sf_post_s">>]
       [] f = "no_cfg" -> [Default EXCEPT !.new_fails = TRUE, !.closures = <<"spec@no_cfg">>]
       [] f = "extern" -> [Default EXCEPT !.trusted = TRUE, !.body = <<Do("fail", "internal")>>]
       [] f = "closure" -> [Default EXCEPT
            !.closure = TRUE, !.args = <<Pair>>, !.spec = <<Do("assertion", "spec")>>,
            !.body = <<Do("register", "unsupported")>>,
            !.spec_names = <<"sf_pre_c", "sf_post_c">>]
       [] f = "spec" -> [Default EXCEPT
            !.body = <<Do("predicate_use", Option(I32)), Do("snapshot", Option(I32))>>]
       [] f = "wrap" -> [Default EXCEPT
            !.pure = TRUE, !.generics = <<"U">>, !.args = <<U>>,
            !.body = <<Do("call_pure", <<"size", <<U>>>>)>>]
       [] f = "caller" -> [Default EXCEPT !.body = <<Do("call_pure", <<"wrap", <<I32>>>>)>>]]

SpecNames == {"sf_pre_s", "sf_post_s", "sf_pre_c", "sf_post_c"}
MCFullNames == DOMAIN MCAdts \cup DOMAIN MCFns \cup SpecNames

\* The two types List share their short name, the closures have the same name.
MCReadableNames ==
  [n \in MCFullNames |->
     CASE n \in {"a::List", "b::List"} -> <<"m_List">>
       [] n \in {"sf_pre_s", "sf_pre_c"} -> <<"sf_pre_closure">>
       [] n \in {"sf_post_s", "sf_post_c"} -> <<"sf_post_closure">>
       [] n = "core::Option" -> <<"m_Option">>
       [] n = "a::Token" -> <<"m_Token">>
       [] OTHER -> <<n>>]

(***************************************************************************)
(* The types and type maps of the crate: those of the signatures and       *)
(* requests, closed under what the encoder makes of them.                  *)
(***************************************************************************)
RequestsOf(f) == ToSet(MCFns[f].body) \cup ToSet(MCFns[f].spec) \cup ToSet(MCFns[f].post)

TypesOf(r) ==
  CASE r.op \in TypeRequests -> {r.x}
    [] r.op = "cast" -> ToSet(r.x)
    [] r.op \in {"call_pure", "call_impure"} -> ToSet(r.x[2])
    [] OTHER -> {}

MapsOf(r) ==
  IF r.op \in {"call_pure", "call_impure"} THEN {TyMap(MCFns[r.x[1]].generics, r.x[2])} ELSE {}

Mentioned ==
  [types |-> UNION {{MCFns[f].ret} \cup ToSet(MCFns[f].args) \cup ToSet(MCFns[f].patched)
                    \cup UNION {TypesOf(r) : r \in RequestsOf(f)} : f \in DOMAIN MCFns},
   maps  |-> {<<>>} \cup UNION {UNION {MapsOf(r) : r \in RequestsOf(f)} : f \in DOMAIN MCFns}]

Grow(c) ==
  [types |-> c.types \cup UNION {ToSet(t.args) \cup ToSet(FieldTys(t)) : t \in c.types}
             \cup UNION {DOMAIN m : m \in c.maps} \cup {FoldTy(t, m) : t \in c.types, m \in c.maps},
   maps  |-> c.maps \cup {CurrentTymap(<<m, n>>) : m \in c.maps, n \in c.maps}
             \cup {TyMap(MCAdts[t.name].params, t.args) : t \in {u \in c.types : IsSupportedStruct(u)}}]

Grown[n \in Nat] == IF n = 0 THEN Mentioned ELSE Grow(Grown[n - 1])

Closed == Grown[ResolveDepth]
MCCrateTypes == Closed.types
MCCrateMaps  == Closed.maps

MCTasks == UNION {{s \in [1 .. n -> Crate] : IsInjective(s)} : n \in 1 .. MaxTask}
===============================================================================
