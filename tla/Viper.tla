------------------------------- MODULE Viper -------------------------------
(***************************************************************************)
(* The permissions that Viper really holds while it executes the           *)
(* statements that fold-unfold emits.  Viper is not part of the            *)
(* repository; this is its documented semantics, as far as the encoding    *)
(* uses it.  A machine v is a record:                                      *)
(*   store    the object each local variable refers to                     *)
(*   heap     the fields that have been assigned, and what they refer to   *)
(*   acc      permission to fields, keyed by <<object, field>>             *)
(*   pred     permission to predicates, keyed by object                    *)
(*   variant  the variant of the enum objects whose discriminant is known  *)
(*   fresh    number of objects allocated                                  *)
(*   ok       FALSE once a statement did not verify                        *)
(* Objects are named by the path that first reached them: <<3, "f">> is    *)
(* what field f of the third fresh object refers to until f is assigned.   *)
(***************************************************************************)
EXTENDS FoldUnfoldState

Quantity(a) == [Write |-> 10, Read |-> 1, Remaining |-> 9][a]

Child(v, o, f) == IF <<o, f>> \in DOMAIN v.heap THEN v.heap[<<o, f>>] ELSE Append(o, f)

\* The object that a place refers to, and the field that holds the place.
Eval(v, p) == FoldLeft(LAMBDA o, f : Child(v, o, f), v.store[p[1]], Tail(p))
Loc(v, p)  == <<Eval(v, Front(p)), Last(p)>>

Key(v, x) == IF x.kind = "acc" THEN Loc(v, x.place) ELSE Eval(v, x.place)

Held(mask, k) == IF k \in DOMAIN mask THEN mask[k] ELSE 0

\* The mask with quantity n at key k; keys without permission are left out.
SetMask(mask, k, n) ==
  IF n = 0 THEN Restrict(mask, DOMAIN mask \ {k})
  ELSE (k :> n) @@ mask

Has(v, x) == Held(v[x.kind], Key(v, x)) >= Quantity(x.amount)

Gain(v, x) ==
  LET k == Key(v, x) IN
    [v EXCEPT ![x.kind] = SetMask(@, k, Held(@, k) + Quantity(x.amount))]

Lose(v, x) ==
  LET k == Key(v, x) IN
    IF Has(v, x) THEN [v EXCEPT ![x.kind] = SetMask(@, k, Held(@, k) - Quantity(x.amount))]
    ELSE [v EXCEPT !.ok = FALSE]

GainAll(v, X) == FoldLeft(Gain, v, AsSeq(X))
LoseAll(v, X) == FoldLeft(Lose, v, AsSeq(X))

\* The body of the predicate of p.  As long as the discriminant of an enum is
\* not known, its body holds the fields of every variant conditionally.
PredicateBody(v, p, a) ==
  LET o == Eval(v, p)
      possible == IF o \in DOMAIN v.variant THEN {v.variant[o]} ELSE Variants[TypeOf(p)]
  IN  IF is_enum(p)
        THEN UNION {get_body_footprint(p, w, a) : w \in possible}
        ELSE get_body_footprint(p, NoVariant, a)

\* A branch on the discriminant of p: the other variants' permissions vanish.
Resolve(v, p, w) ==
  LET o == Eval(v, p)
      others == Variants[TypeOf(p)] \ {w}
      objects == {Child(v, o, f) : f \in others}
  IN  [v EXCEPT !.variant = (o :> w) @@ @,
                !.acc = Restrict(@, DOMAIN @ \ {<<o, f>> : f \in others}),
                !.pred = Restrict(@, DOMAIN @ \ objects)]

\* Every field on the way to p may be read.
Readable(v, p) == \A n \in 2 .. Len(p) : Held(v.acc, Loc(v, SubSeq(p, 1, n))) > 0

Writable(v, p) ==
  is_local(p) \/ (Readable(v, Front(p)) /\ Held(v.acc, Loc(v, p)) >= Quantity("Write"))

Require(v, cond) == IF cond THEN v ELSE [v EXCEPT !.ok = FALSE]

\* lhs := rhs; a Copy copies a primitive value, any other kind a reference.
ExecAssign(v, lhs, rhs, kind) ==
  LET o == Eval(v, rhs)
      k == Loc(v, lhs)
      w == Require(v, Readable(v, rhs) /\ Writable(v, lhs))
  IN  IF kind = "Copy" THEN w
      ELSE IF is_local(lhs) THEN [w EXCEPT !.store[lhs[1]] = o]
      ELSE [w EXCEPT !.heap = (k :> o) @@ @]

\* One statement.  When a borrow expires, its two names denote one object: the
\* assertion that check_foldunfold_state adds.  Downcasts and the comment that
\* stands for a dropped permission do nothing here.
Exec(v, s) ==
  CASE s.op = "inhale" -> Gain(v, s.perm)
    [] s.op = "exhale" -> Lose(v, s.perm)
    [] s.op = "havoc"  -> [v EXCEPT !.store[s.target] = <<v.fresh + 1>>, !.fresh = @ + 1]
    [] s.op = "fold"   -> Gain(LoseAll(v, PredicateBody(v, s.place, s.amount)),
                               Pred(s.place, s.amount))
    [] s.op = "unfold" -> GainAll(Lose(v, Pred(s.place, s.amount)),
                                  PredicateBody(v, s.place, s.amount))
    [] s.op = "assign" -> ExecAssign(v, s.lhs, s.rhs, s.kind)
    [] s.op = "transfer" -> Require(v, Eval(v, s.lhs) = Eval(v, s.rhs))
    [] OTHER           -> v

ExecAll(v, stmts) == FoldLeft(Exec, v, stmts)

-----------------------------------------------------------------------------
\* The permission c claims for key k of kind `kind', summed over all the places
\* that denote k.
Claimed(v, c, kind, k) ==
  LET places == {p \in DOMAIN c[kind] : (kind = "pred" \/ ~is_local(p))}
      claims == {p \in places : Key(v, [kind |-> kind, place |-> p, amount |-> "Read"]) = k}
  IN  FoldLeft(LAMBDA n, p : n + Quantity(c[kind][p]), 0, AsSeq(claims))

\* What the context c claims is available in Viper.
Available(v, c) ==
  /\ \A p \in DOMAIN c.acc :
       ~is_local(p) => Claimed(v, c, "acc", Loc(v, p)) <= Held(v.acc, Loc(v, p))
  /\ \A p \in DOMAIN c.pred :
       Claimed(v, c, "pred", Eval(v, p)) <= Held(v.pred, Eval(v, p))
=============================================================================
