------------------------------ MODULE VirExpr ------------------------------
(***************************************************************************)
(* The pure expressions of the intermediate representation (VIR):          *)
(* vir/ast/expr.rs, and what Viper makes of them.                          *)
(*                                                                         *)
(* An expression is a node with a kind, a name, a number and the sequence  *)
(* of its operands.  Positions and types are left out; the only type the   *)
(* code asks for, Bool, is the number 1 of a local, a field or a function  *)
(* application.                                                            *)
(*                                                                         *)
(* A value is a record.  [i |-> n] and [b |-> x] are the values of Viper's *)
(* Int and Bool, [fs |-> ...] a snapshot; a record with any other fields   *)
(* is the content of a place, one field for every field of the place.      *)
(* The record [err |-> why] is no value: the expression is not defined.    *)
(***************************************************************************)
EXTENDS Integers, Sequences, SequencesExt, Functions

node(k, d, n, s) == [k |-> k, d |-> d, n |-> n, s |-> s]

IntConst(i)        == node("int", "", i, <<>>)
BoolConst(b)        == node("bool", "", IF b THEN 1 ELSE 0, <<>>)
Local(x, t)    == node("local", x, t, <<>>)
Field(e, f)    == node("field", f, IF f = "val_bool" THEN 1 ELSE 0, <<e>>)
Variant(e, v)  == node("variant", v, 0, <<e>>)
AddrOf(e)      == node("addr_of", "", 0, <<e>>)
Not(e)         == node("un", "not", 0, <<e>>)
Minus(e)       == node("un", "minus", 0, <<e>>)
BinOp(o, l, r) == node("bin", o, 0, <<l, r>>)
Cond(g, t, e)  == node("cond", "", 0, <<g, t, e>>)
FuncApp(f, t, args)   == node("app", f, t, args)
Constructor(args)     == node("cons", "", 0, args)
SnapApp(e)            == node("snap", "", 0, <<e>>)
LabelledOld(l, e)     == node("old", l, 0, <<e>>)
Downcast(e, p, v)     == node("downcast", v, 0, <<e, p>>)
Unfolding(p, e)       == node("unfolding", "", 0, <<p, e>>)
Permission(p)         == node("acc", "", 0, <<p>>)     \* to a predicate or a field

\* Expr::rem: the remainder of Rust in terms of Viper's modulo.
rem(l, r) ==
  LET mod == BinOp("%", l, r)
  IN Cond(BinOp("||", BinOp(">=", l, IntConst(0)), BinOp("==", mod, IntConst(0))),
          mod,
          BinOp("-", mod, Cond(BinOp(">=", r, IntConst(0)), r, Minus(r))))

RECURSIVE is_place(_)
is_place(e) == \/ e.k = "local"
               \/ /\ e.k \in {"variant", "field", "addr_of", "old"}
                  /\ is_place(e.s[1])
               \/ e.k = "unfolding" /\ is_place(e.s[2])

is_bool(e) == IF is_place(e) THEN e.n = 1
              ELSE \/ e.k = "bool"
                   \/ e.k = "un" /\ e.d = "not"
                   \/ e.k = "app" /\ e.n = 1
                   \/ e.k = "bin" /\ e.d \in {"==", "!=", ">", ">=", "<", "<=",
                                              "&&", "||", "==>"}

RECURSIVE explode_place(_)
explode_place(e) ==
  IF e.k \in {"variant", "field"}
  THEN LET below == explode_place(e.s[1])
       IN [base |-> below.base,
           components |-> Append(below.components, <<e.k, e.d>>)]
  ELSE [base |-> e, components |-> <<>>]

RECURSIVE vir_has_prefix(_, _)
vir_has_prefix(e, p) ==
  e = p \/ (e.k \in {"variant", "field", "addr_of"} /\ vir_has_prefix(e.s[1], p))

vir_has_proper_prefix(e, p) == e # p /\ vir_has_prefix(e, p)

(***************************************************************************)
(* expr_transformers.rs: a folder rebuilds an expression from its folded   *)
(* operands, a walker visits every operand.                                *)
(***************************************************************************)
default_fold_expr(e, folded) == node(e.k, e.d, e.n, folded)

\* The operands of an expression, each one folded.
FoldOperands(e, fold(_)) ==
  CASE Len(e.s) = 0 -> <<>>
    [] Len(e.s) = 1 -> <<fold(e.s[1])>>
    [] Len(e.s) = 2 -> <<fold(e.s[1]), fold(e.s[2])>>
    [] Len(e.s) = 3 -> <<fold(e.s[1]), fold(e.s[2]), fold(e.s[3])>>

RECURSIVE find(_, _)
find(e, target) == e = target \/ \E j \in DOMAIN e.s : find(e.s[j], target)

RECURSIVE replace_place(_, _, _)
replace_place(e, target, replacement) ==
  IF is_place(e) /\ e = target THEN replacement
  ELSE default_fold_expr(e, FoldOperands(e, LAMBDA c : replace_place(c, target, replacement)))

(***************************************************************************)
(* What Viper makes of an expression.  Modulo and division are Euclidean.  *)
(* A Boolean operator and a conditional evaluate the operands they need.   *)
(***************************************************************************)
Err(why) == [err |-> why]
IsErr(v) == "err" \in DOMAIN v
I(i) == [i |-> i]
B(b) == [b |-> b]

EuclidMod(a, n) == a % (IF n < 0 THEN -n ELSE n)
EuclidDiv(a, n) == (a - EuclidMod(a, n)) \div n

\* The snapshot of a value; a snapshot is its own.
RECURSIVE SnapshotOf(_)
SnapshotOf(v) ==
  LET D == DOMAIN v
  IN CASE D \cap {"i", "b", "fs", "err"} # {} -> v
       [] "val_int" \in D -> v.val_int
       [] "val_bool" \in D -> v.val_bool
       [] "val_ref" \in D -> SnapshotOf(v.val_ref)
       [] "discriminant" \in D ->
            LET variant == CHOOSE w \in {"A", "B"} : w \in D
            IN [fs |-> <<v.discriminant>> \o
                       (IF "f" \in DOMAIN v[variant]
                        THEN <<SnapshotOf(v[variant].f)>> ELSE <<>>)]
       [] OTHER -> [fs |-> <<SnapshotOf(v.tuple_0), SnapshotOf(v.tuple_1)>>]

\* A field of a place, or of a snapshot: the snapshot of a primitive value is
\* that value, and the field of an absent variant is not defined.
Access(v, f) ==
  LET D == DOMAIN v
      snapshot == D \cap {"i", "b", "fs"} # {}
  IN CASE "err" \in D -> v
       [] f \in D -> v[f]
       [] snapshot /\ f \in {"val_int", "val_bool", "val_ref"} -> v
       [] "fs" \in D /\ f \in {"tuple_0", "discriminant"} -> v.fs[1]
       [] "fs" \in D /\ f \in {"tuple_1", "f"} -> v.fs[2]
       [] "fs" \in D /\ f = "A" /\ Len(v.fs) = 1 -> v
       [] "fs" \in D /\ f = "B" /\ Len(v.fs) = 2 -> v
       [] OTHER -> Err("no such field")

ViperBinOp(op, l, r) ==
  CASE op = "==" -> B(SnapshotOf(l) = SnapshotOf(r))
    [] op = "!=" -> B(SnapshotOf(l) # SnapshotOf(r))
    [] op = "<"  -> B(l.i < r.i)
    [] op = "<=" -> B(l.i <= r.i)
    [] op = ">"  -> B(l.i > r.i)
    [] op = ">=" -> B(l.i >= r.i)
    [] op = "+"  -> I(l.i + r.i)
    [] op = "-"  -> I(l.i - r.i)
    [] op = "*"  -> I(l.i * r.i)
    [] op = "%"  -> IF r.i = 0 THEN Err("division") ELSE I(EuclidMod(l.i, r.i))
    [] op = "/"  -> IF r.i = 0 THEN Err("division") ELSE I(EuclidDiv(l.i, r.i))

\* Does the left operand of a Boolean operator decide its value?
Decides(op, l) == \/ op = "&&" /\ ~l.b
                  \/ op = "||" /\ l.b
                  \/ op = "==>" /\ ~l.b

FirstError(vs) == LET J == {j \in DOMAIN vs : IsErr(vs[j])}
                  IN vs[CHOOSE j \in J : \A k \in J : j <= k]

\* The bounds of the integer types of the model (IntTy and UintTy of rustc).
MIN == [u8 |-> 0, i8 |-> -128, i16 |-> -32768]
MAX == [u8 |-> 255, i8 |-> 127, i16 |-> 32767]
InRange(i, w) == MIN[w] <= i /\ i <= MAX[w]

\* Functions without a body: the builtin functions that are never called on a
\* path of the program, the casts, which require the number to fit, and a pure
\* function of the program.
FunctionValue(f, vs) ==
  CASE f \in {"unreachable", "undefined"} -> Err(f)
    [] f \in DOMAIN MIN -> IF InRange(vs[1].i, f) THEN vs[1] ELSE Err("precondition")
    [] OTHER -> I(1 - vs[1].i)

\* The value of e when the locals have the values env and old expressions are
\* evaluated with the locals old gives for their label.  A function whose body is known is a name of env too.
RECURSIVE Eval(_, _, _)
Eval(e, env, old) ==
  LET vals == [j \in DOMAIN e.s |-> Eval(e.s[j], env, old)]
      first == Eval(e.s[1], env, old)
      strict(v) == IF \E j \in DOMAIN e.s : IsErr(vals[j]) THEN FirstError(vals) ELSE v
      lazy(v) == IF IsErr(first) THEN first ELSE v
  IN CASE e.k = "int" -> I(e.n)
       [] e.k = "bool" -> B(e.n = 1)
       [] e.k = "local" -> IF e.d \in DOMAIN env THEN env[e.d] ELSE Err("unbound")
       [] e.k \in {"field", "variant"} -> Access(first, e.d)
       [] e.k = "addr_of" -> Err("address")
       [] e.k = "acc" -> B(TRUE)
       [] e.k = "snap" -> SnapshotOf(first)
       [] e.k = "old" -> Eval(e.s[1], old[e.d], old)
       [] e.k = "cons" -> strict([fs |-> [j \in DOMAIN e.s |-> SnapshotOf(vals[j])]])
       [] e.k = "app" -> strict(IF e.d \in DOMAIN env THEN Eval(env[e.d], env, old)
                                ELSE FunctionValue(e.d, vals))
       [] e.k = "un" -> lazy(IF e.d = "not" THEN B(~first.b) ELSE I(-first.i))
       [] e.k = "cond" -> lazy(Eval(e.s[IF first.b THEN 2 ELSE 3], env, old))
       [] e.k = "downcast" -> first        \* to_viper.rs: the base alone is kept
       [] e.k = "bin" /\ e.d \in {"&&", "||", "==>"} ->
            lazy(IF Decides(e.d, first) THEN B(e.d # "&&") ELSE Eval(e.s[2], env, old))
       [] e.k = "bin" /\ e.d \notin {"&&", "||", "==>"} ->
            strict(ViperBinOp(e.d, vals[1], vals[2]))
       [] OTHER -> Err("unfolding")

-----------------------------------------------------------------------------
(***************************************************************************)
(* The rewritings of pure expressions: the simplifier                      *)
(* (optimizations/functions/simplifier.rs), the optimisation that moves    *)
(* unfoldings outwards (optimizations/folding/expressions.rs) and the      *)
(* inlining of constant functions (optimizations/functions/inliner.rs).    *)
(***************************************************************************)

(***************************************************************************)
(* ExprSimplifier.                                                         *)
(***************************************************************************)
IsBool(e) == e.k = "bool"
IsBin(e, op) == e.k = "bin" /\ e.d = op

\* Mutant: the negation of an implication's guard is forgotten.
RECURSIVE apply_rules_KeepGuard(_)
apply_rules_KeepGuard(e) ==
  IF IsBin(e, "==>") /\ IsBool(e.s[2])
  THEN IF e.s[2].n = 1 THEN BoolConst(TRUE) ELSE e.s[1]
  ELSE IF IsBin(e, "&&")
  THEN BinOp("&&", apply_rules_KeepGuard(e.s[1]), apply_rules_KeepGuard(e.s[2]))
  ELSE e

\* The first rule that matches is applied.
RECURSIVE apply_rules(_)
apply_rules(e) ==
  LET neg == e.k = "un" /\ e.d = "not"
      And == IsBin(e, "&&")
      Or == IsBin(e, "||")
      Imp == IsBin(e, "==>")
      const == {j \in DOMAIN e.s : IsBool(e.s[j])}
      j == IF 1 \in const THEN 1 ELSE 2          \* the constant that is looked at
      b == e.s[j].n = 1
  IN IF neg /\ IsBool(e.s[1]) THEN BoolConst(e.s[1].n = 0)
     ELSE IF neg /\ IsBin(e.s[1], "==") THEN BinOp("!=", e.s[1].s[1], e.s[1].s[2])
     ELSE IF And /\ const = {1, 2} THEN BoolConst(e.s[1].n = 1 /\ e.s[2].n = 1)
     ELSE IF And /\ const # {} THEN IF b THEN e.s[3 - j] ELSE BoolConst(FALSE)
     ELSE IF Or /\ const # {} THEN IF b THEN BoolConst(TRUE) ELSE e.s[3 - j]
     ELSE IF Imp /\ 2 \in const THEN IF e.s[2].n = 1 THEN BoolConst(TRUE) ELSE Not(e.s[1])
     ELSE IF Imp /\ const = {1} THEN IF b THEN e.s[2] ELSE BoolConst(TRUE)
     ELSE IF And THEN BinOp("&&", apply_rules(e.s[1]), apply_rules(e.s[2]))
     ELSE e

\* A conditional of truth values becomes a conjunction of implications.
fold_cond(guard, then, else) ==
  apply_rules(IF is_bool(then) \/ is_bool(else)
              THEN BinOp("&&", BinOp("==>", guard, then), BinOp("==>", Not(guard), else))
              ELSE Cond(guard, then, else))

RECURSIVE simplify(_)
simplify(e) ==
  apply_rules(IF e.k = "cond" THEN fold_cond(simplify(e.s[1]), simplify(e.s[2]), simplify(e.s[3]))
              ELSE default_fold_expr(e, FoldOperands(e, simplify)))

(***************************************************************************)
(* ExprOptimizer: the unfoldings of the operands are collected, with the   *)
(* places the operands read; unfoldings whose operands read places that    *)
(* are in conflict are put back around their operand.                      *)
(***************************************************************************)
\* Unfoldings are wrapped around an expression, a place inside its prefixes.
RECURSIVE place_depth(_)
place_depth(e) == IF e.k = "local" THEN 1 ELSE 1 + place_depth(e.s[1])

restore_unfoldings(unfoldings, e) ==
  FoldLeft(LAMBDA acc, p : Unfolding(p, acc), e,
           SetToSortSeq(unfoldings, LAMBDA p, q : place_depth(p) > place_depth(q)))

FirstDifference(c1, c2) ==
  CHOOSE j \in 1..Len(c1) + 1 :
    /\ j > Len(c1) \/ j > Len(c2) \/ c1[j] # c2[j]
    /\ \A k \in 1..(j - 1) : c1[k] = c2[k]

\* Two places of different variants, or a discriminant and what it guards.
GuardConflict(c1, c2) ==
  LET j == FirstDifference(c1, c2)
      last == j = Len(c1) /\ j = Len(c2)
      kinds == <<c1[j][1], c2[j][1]>>
      discriminant == "discriminant" \in {c1[j][2], c2[j][2]}
  IN /\ ~last
     /\ \/ kinds = <<"variant", "variant">>
        \/ kinds \in {<<"field", "variant">>, <<"variant", "field">>} /\ discriminant

\* The base of two places that cannot be read under the same unfoldings.
ConflictOf(p1, p2, reqs1, reqs2) ==
  LET x1 == explode_place(p1)  x2 == explode_place(p2)
  IN IF vir_has_proper_prefix(p1, p2) /\ p2 \notin reqs1 THEN {x2.base}
     ELSE IF vir_has_proper_prefix(p2, p1) /\ p1 \notin reqs2 THEN {x1.base}
     ELSE IF /\ x1.base = x2.base
             /\ ~vir_has_prefix(p1, p2) /\ ~vir_has_prefix(p2, p1)
             /\ GuardConflict(x1.components, x2.components) THEN {x1.base}
     ELSE {}

\* Mutant: places below a discriminant are not in conflict with it.
check_requirements_conflict_NoGuards(reqs1, reqs2) ==
  UNION {IF vir_has_proper_prefix(p1, p2) \/ vir_has_proper_prefix(p2, p1)
         THEN ConflictOf(p1, p2, reqs1, reqs2) ELSE {} : p1 \in reqs1, p2 \in reqs2}

check_requirements_conflict(reqs1, reqs2) ==
  UNION {ConflictOf(p1, p2, reqs1, reqs2) : p1 \in reqs1, p2 \in reqs2}

split_unfoldings(unfoldings, conflicts) ==
  {p \in unfoldings : \E c \in conflicts : vir_has_prefix(p, c)}

find_common_unfoldings2(first, second) == first \cap second

Agrees(p, unfoldings, reqs) == p \in unfoldings \/ \A r \in reqs : ~vir_has_prefix(r, p)

find_common_unfoldings3(first, second, second_reqs, third, third_reqs) ==
  {p \in first : Agrees(p, second, second_reqs) /\ Agrees(p, third, third_reqs)}

update_requirements(reqs, places) ==
  {r \in reqs : \A p \in places : ~vir_has_prefix(r, p)} \cup
  {p \in places : \A q \in places : ~vir_has_proper_prefix(p, q)}

\* A folded operand: the expression, its unfoldings and its requirements.
Folded(e, unfoldings, reqs) == [e |-> e, unf |-> unfoldings, req |-> reqs]

\* The operands of a binary operator or of a conditional, with what they have
\* in common and what is in conflict.
MergeOperands(e, ops, common, conflicts) ==
  LET rest(j) == ops[j].unf \ common
      restored(j) == split_unfoldings(rest(j), conflicts)
      reqs == UNION {ops[j].req : j \in DOMAIN ops}
      rebuild(s) == default_fold_expr(e, s)
  IN IF conflicts = {}
     THEN Folded(rebuild([j \in DOMAIN ops |-> ops[j].e]), UNION {ops[j].unf : j \in DOMAIN ops}, reqs)
     ELSE Folded(rebuild([j \in DOMAIN ops |-> restore_unfoldings(restored(j), ops[j].e)]),
                 common \cup UNION {rest(j) \ restored(j) : j \in DOMAIN ops},
                 FoldLeft(LAMBDA acc, j : update_requirements(acc, restored(j)), reqs,
                          [j \in DOMAIN ops |-> j]))

\* fallible_fold gives up on permissions; it does not look into places and old
\* expressions.
RECURSIVE IsUnsupported(_)
IsUnsupported(e) ==
  \/ e.k = "acc"
  \/ e.k # "old" /\ ~is_place(e) /\ \E j \in DOMAIN e.s : IsUnsupported(e.s[j])

RECURSIVE fallible_fold(_)
fallible_fold(e) ==
  LET ops == [j \in DOMAIN e.s |-> fallible_fold(e.s[j])]
      rebuild(s) == [e EXCEPT !.s = s]
      conflict(i, j) == check_requirements_conflict(ops[i].req, ops[j].req)
  IN CASE e.k = "old" -> Folded(e, {}, IF is_place(e) THEN {e} ELSE {})
       [] e.k = "unfolding" ->
            LET body == fallible_fold(e.s[2])
            IN Folded(body.e, body.unf \cup {e.s[1]}, body.req)
       [] e.k \notin {"old", "unfolding"} /\ is_place(e) -> Folded(e, {}, {e})
       [] e.k = "bin" ->
            MergeOperands(e, ops, find_common_unfoldings2(ops[1].unf, ops[2].unf), conflict(1, 2))
       [] e.k = "cond" ->
            MergeOperands(e, ops, find_common_unfoldings3(ops[1].unf, ops[2].unf, ops[2].req,
                                                       ops[3].unf, ops[3].req),
                          conflict(1, 2) \cup conflict(1, 3) \cup conflict(2, 3))
       [] OTHER -> Folded(rebuild([j \in DOMAIN e.s |-> ops[j].e]),
                          UNION {ops[j].unf : j \in DOMAIN e.s},
                          UNION {ops[j].req : j \in DOMAIN e.s})

\* An expression that is not supported stays as it is.
optimize(e) == LET f == fallible_fold(e)
               IN IF IsUnsupported(e) THEN e ELSE restore_unfoldings(f.unf, f.e)

(***************************************************************************)
(* When an expression with unfoldings is well-defined for Viper: a place   *)
(* is read where the predicates of its prefixes are unfolded, a predicate  *)
(* is used where it is not, and that of a variant only if the value is of  *)
(* that variant.                                                           *)
(***************************************************************************)
RECURSIVE Strip(_)
Strip(e) == IF e.k = "unfolding" THEN Strip(e.s[2]) ELSE default_fold_expr(e, FoldOperands(e, Strip))

RECURSIVE PrefixesOf(_)
PrefixesOf(p) == IF p.k = "local" THEN {} ELSE {p.s[1]} \cup PrefixesOf(p.s[1])

IsValueField(p) == p.k = "field" /\ p.d \in {"val_int", "val_bool", "discriminant"}

Available(p, unfolded) == PrefixesOf(p) \subseteq unfolded /\ (IsValueField(p) \/ p \notin unfolded)

\* An old expression is evaluated where nothing is unfolded yet.
RECURSIVE WellFolded(_, _, _, _)
WellFolded(e, env, old, unfolded) ==
  LET ok(j) == WellFolded(e.s[j], env, old, unfolded)
      val(j) == Eval(Strip(e.s[j]), env, old)
  IN CASE e.k = "unfolding" -> /\ Available(e.s[1], unfolded)
                               /\ ~IsErr(Eval(e.s[1], env, old))
                               /\ WellFolded(e.s[2], env, old, unfolded \cup {e.s[1]})
       [] e.k = "old" -> WellFolded(e.s[1], old[e.d], old, {})
       [] e.k \notin {"unfolding", "old"} /\ is_place(e) -> Available(e, unfolded)
       [] e.k = "cond" -> ok(1) /\ ok(IF val(1).b THEN 2 ELSE 3)
       [] e.k = "bin" /\ e.d \in {"&&", "||", "==>"} -> ok(1) /\ (Decides(e.d, val(1)) \/ ok(2))
       [] OTHER -> \A j \in DOMAIN e.s : ok(j)

(***************************************************************************)
(* inline_constant_functions.  A function has a body, or None, and flags   *)
(* that tell whether its precondition consists of permissions only and     *)
(* whether it has a postcondition.                                         *)
(***************************************************************************)
RECURSIVE is_constant(_)
is_constant(e) == \/ e.k \in {"int", "bool"}
                  \/ e.k \in {"un", "bin"} /\ \A j \in DOMAIN e.s : is_constant(e.s[j])

try_purify(f) == is_constant(f.body) /\ f.permission_pres /\ f.no_posts

\* ConstantFunctionInliner.
RECURSIVE inline(_, _)
inline(e, pure) ==
  CASE e.k = "app" /\ e.d \in DOMAIN pure -> pure[e.d]
    [] e.k = "unfolding" ->
         LET body == inline(e.s[2], pure)
         IN IF is_constant(body) THEN body ELSE Unfolding(inline(e.s[1], pure), body)
    [] OTHER -> default_fold_expr(e, FoldOperands(e, LAMBDA c : inline(c, pure)))
=============================================================================
