--------------------------- MODULE FoldUnfoldState ---------------------------
(***************************************************************************)
(* The state that the fold-unfold algorithm tracks along a path of the     *)
(* control-flow graph (foldunfold/state.rs), and the effect of statements  *)
(* on it (foldunfold/semantics.rs).  A context c is a record:              *)
(*   acc, pred  maps from places to the permission amount held             *)
(*   moved      places that have been moved out                            *)
(*   out        the statements emitted so far                              *)
(*   missing    the permission that the last obtain failed to get          *)
(*   err        the error or panic that stopped the translation            *)
(*   log        what has to be undone when borrows expire (log.rs)         *)
(***************************************************************************)
EXTENDS Naturals, Sequences, FiniteSets, FiniteSetsExt, SequencesExt, Functions

CONSTANTS
  LocalType,      \* the type of each local variable
  FieldType,      \* the type of each field, variants included
  StructFields,   \* the fields in the body of each struct predicate
  Variants        \* the variants of each enum predicate

ASSUME PlacesAssumption ==
  /\ DOMAIN StructFields \cap DOMAIN Variants = {}
  /\ \A T \in DOMAIN Variants : Variants[T] \subseteq DOMAIN FieldType

-----------------------------------------------------------------------------
(***************************************************************************)
(* Places of the verification IR (vir::Expr restricted to places): a local *)
(* variable followed by fields, <<"x", "f", "g">> for x.f.g.  The types    *)
(* decide which predicate a place has and what the body of it contains.    *)
(***************************************************************************)

\* The elements of a set, in the order of some iterator.
AsSeq(S) == FoldSet(LAMBDA x, s : Append(s, x), <<>>, S)

NoVariant == "none"                 \* MaybeEnumVariantIndex::None

Field(p, f) == Append(p, f)
Deref(r)    == <<r, "val_ref">>     \* the target of the reference local r

TypeOf(p) == IF Len(p) = 1 THEN LocalType[p[1]] ELSE FieldType[Last(p)]

\* Type::is_ref: the place has a predicate.
is_ref(p)  == TypeOf(p) \in DOMAIN StructFields \cup DOMAIN Variants
is_enum(p) == TypeOf(p) \in DOMAIN Variants

is_local(p)   == Len(p) = 1
is_variant(p) == Len(p) > 1 /\ \E T \in DOMAIN Variants : Last(p) \in Variants[T]

\* The place is the target of a local variable of reference type.
is_mir_reference(p) == Len(p) = 2 /\ p[2] = "val_ref"

has_prefix(p, q)        == IsPrefix(q, p)
has_proper_prefix(p, q) == IsStrictPrefix(q, p)

\* Two places overlap.
Comparable(p, q) == has_prefix(p, q) \/ has_prefix(q, p)

replace_place(p, target, replacement) ==
  IF has_prefix(p, target)
    THEN replacement \o SubSeq(p, Len(target) + 1, Len(p))
    ELSE p

-----------------------------------------------------------------------------
(* places_utils.rs *)

filter_proper_extensions_of(A, B) ==
  {a \in A : \E b \in B : has_proper_prefix(a, b)}

filter_not_proper_extensions_of(A, B) ==
  {a \in A : \A b \in B : ~has_proper_prefix(a, b)}

ancestors(A) == filter_not_proper_extensions_of(A, A)

-----------------------------------------------------------------------------
(* Permissions and the footprints of predicates *)

Acc(p, a)  == [kind |-> "acc",  place |-> p, amount |-> a]
Pred(p, a) == [kind |-> "pred", place |-> p, amount |-> a]

\* EnumPredicate::get_variant_footprint.
get_variant_footprint(p, v, a) == {Acc(Field(p, v), a), Pred(Field(p, v), a)}

\* The permissions in the body of the predicate of p, each with amount a; for
\* an enum whose variant is not known, only the one to the discriminant.
get_body_footprint(p, variant, a) ==
  IF is_enum(p)
    THEN {Acc(Field(p, "discriminant"), a)}
           \cup (IF variant = NoVariant THEN {} ELSE get_variant_footprint(p, variant, a))
    ELSE LET fields == {Field(p, f) : f \in StructFields[TypeOf(p)]} IN
           {Acc(q, a) : q \in fields} \cup {Pred(q, a) : q \in {q \in fields : is_ref(q)}}

-----------------------------------------------------------------------------
None == [kind |-> "none"]

\* The first error wins.
Fail(c, e) == [c EXCEPT !.err = IF @ = "none" THEN e ELSE @]
Failed(c)  == c.err # "none"
Check(c, cond, e) == IF cond THEN c ELSE Fail(c, e)

Emit(c, stmt) == [c EXCEPT !.out = Append(@, stmt)]

-----------------------------------------------------------------------------
(* PermAmount *)

Amounts == {"Read", "Write", "Remaining"}

add(a, b) == IF {a, b} = {"Read", "Remaining"} THEN "Write" ELSE "InvalidAdd"

sub(a, b) ==
  IF a = "Write" /\ b = "Read" THEN "Remaining"
  ELSE IF a = "Write" /\ b = "Remaining" THEN "Read"
  ELSE "InvalidSub"

is_valid_for_specs(a) == a # "Remaining"

\* a >= b of the partial order: nothing compares with Remaining.
AtLeast(a, b) == a # "Remaining" /\ b # "Remaining" /\ (a = "Write" \/ b = "Read")

-----------------------------------------------------------------------------
(* Operations of State *)

contains_perm(c, x) == x.place \in DOMAIN c[x.kind]

Put(c, kind, p, a) == [c EXCEPT ![kind] = (p :> a) @@ @]
Del(c, kind, S)    == [c EXCEPT ![kind] = Restrict(@, DOMAIN @ \ S)]

\* insert_acc and insert_pred.
insert_perm(c, x) ==
  IF Failed(c) THEN c
  ELSE IF ~contains_perm(c, x) THEN Put(c, x.kind, x.place, x.amount)
  ELSE LET new == add(c[x.kind][x.place], x.amount) IN
         IF new \in Amounts THEN Put(c, x.kind, x.place, new) ELSE Fail(c, new)

insert_all_perms(c, X) == FoldSet(LAMBDA x, d : insert_perm(d, x), c, X)

\* remove_acc and remove_pred.
remove_perm(c, x) ==
  IF Failed(c) THEN c
  ELSE IF ~contains_perm(c, x) THEN Fail(c, "FailedToRemove")
  ELSE IF c[x.kind][x.place] = x.amount THEN Del(c, x.kind, {x.place})
  ELSE LET new == sub(c[x.kind][x.place], x.amount) IN
         IF new \in Amounts THEN Put(c, x.kind, x.place, new) ELSE Fail(c, new)

remove_all_perms(c, X) == FoldSet(LAMBDA x, d : remove_perm(d, x), c, X)

Extensions(c, kind, p)       == {q \in DOMAIN c[kind] : has_prefix(q, p)}
ProperExtensions(c, kind, p) == {q \in DOMAIN c[kind] : has_proper_prefix(q, p)}

\* The places below p lose their name.
forget_moved(c, p) == [c EXCEPT !.moved = {q \in @ : ~has_prefix(q, p)}]

is_prefix_of_some_moved(c, p) == \E q \in c.moved : has_prefix(q, p)

\* restore_acc and restore_pred, with the moved paths they cancel.
restore_dropped_perm(c, x) ==
  LET amount == IF contains_perm(c, x) THEN add(c[x.kind][x.place], x.amount) ELSE x.amount
      d == [c EXCEPT !.moved = {q \in @ : ~has_prefix(x.place, q)}]
  IN  IF Failed(c) THEN c
      ELSE IF amount \notin Amounts THEN Fail(c, amount)
      ELSE IF x.kind = "acc"
        THEN IF \E q \in DOMAIN d.pred : has_proper_prefix(x.place, q)
               THEN d
               ELSE Put(d, "acc", x.place, amount)
        ELSE Put(Del(d, "acc", ProperExtensions(d, "acc", x.place)), "pred", x.place, amount)

-----------------------------------------------------------------------------
(* check_consistency *)

\* The fields of a place are reached through places that are unfolded.
AncestorsHeld(c) ==
  /\ \A p \in DOMAIN c.pred :
       \/ p \in DOMAIN c.acc
       \/ Len(p) > 1 /\ Front(p) \in DOMAIN c.pred
       \/ c.pred[p] # "Write"
       \/ is_mir_reference(p)
  /\ \A p \in DOMAIN c.acc :
       \/ is_local(p)
       \/ Front(p) \in DOMAIN c.acc
       \/ c.acc[p] = "Read" /\ Len(p) = 3

\* No place is held both folded and unfolded.
FoldedOrUnfolded(c) ==
  /\ \A p, q \in DOMAIN c.pred :
       has_proper_prefix(p, q) => c.pred[p] # "Write" /\ c.pred[q] = "Read"
  /\ \A p \in DOMAIN c.acc, q \in DOMAIN c.pred : ~has_proper_prefix(p, q)

\* Nothing is held below a place that was moved out.
NothingBelowMoved(c) ==
  \A m \in c.moved :
    /\ \A p \in DOMAIN c.acc : ~has_proper_prefix(p, m)
    /\ \A p \in DOMAIN c.pred : ~Comparable(p, m)

check_consistency(c) == AncestorsHeld(c) /\ FoldedOrUnfolded(c) /\ NothingBelowMoved(c)

\* The assertion of check_consistency.
Consistent(c) == Check(c, check_consistency(c), "Inconsistent")

-----------------------------------------------------------------------------
(* apply_on_state, for the kinds of statements                              *)

\* The permissions of a footprint without those to local variables.
NonLocal(X) == {x \in X : ~(is_local(x.place) /\ x.kind = "acc")}

ApplyInhale(c, X) == insert_all_perms(c, NonLocal(X))
ApplyExhale(c, X) == remove_all_perms(c, NonLocal(X))

\* MethodCall with targets {x}: Prusti uses it to havoc local variables.
ApplyHavoc(c, x) ==
  LET d == forget_moved(c, <<x>>) IN
    Del(Del(d, "pred", Extensions(d, "pred", <<x>>)),
        "acc", ProperExtensions(d, "acc", <<x>>))

\* The permissions of c below `from', renamed to be below `to'.
Renamed(c, from, to) ==
  {Acc(replace_place(p, from, to), c.acc[p]) : p \in ProperExtensions(c, "acc", from)}
    \cup {Pred(replace_place(p, from, to), c.pred[p]) : p \in Extensions(c, "pred", from)}

\* Mutant: the predicates keep their old name.
Forget_KeepsPredicates(c, p) == Del(c, "acc", ProperExtensions(c, "acc", p))

Forget(c, p) ==
  Del(Del(c, "pred", Extensions(c, "pred", p)), "acc", ProperExtensions(c, "acc", p))

\* In d, which is c with some permissions forgotten, those below `from' get the
\* names below `to'; `from' has been moved out unless it lies in `to'.
MovePermissions(c, d, from, to) ==
  [insert_all_perms(d, Renamed(c, from, to)) EXCEPT
     !.moved = IF has_prefix(from, to) THEN @ ELSE @ \cup {from}]

\* lhs := rhs, a move or the creation of a borrow.
ApplyAssign(c, lhs, rhs, kind) ==
  LET Assigned(clean) ==
        IF kind = "Copy" THEN clean
        ELSE IF is_prefix_of_some_moved(c, rhs) THEN Fail(c, "TwoPhaseBorrow")
        ELSE IF \E q \in DOMAIN c.pred : has_proper_prefix(rhs, q) THEN Fail(c, "RhsIsFolded")
        ELSE IF kind = "SharedBorrow" THEN clean
        ELSE MovePermissions(c, Forget(clean, rhs), rhs, lhs)
  IN  Assigned(Forget(forget_moved(c, lhs), lhs))

\* TransferPerm(lhs, rhs, unchecked = false): the borrow lhs of rhs expires.
ApplyTransferPerm(c, lhs, rhs) ==
  IF \A q \in DOMAIN c.acc \cup DOMAIN c.pred : ~has_prefix(q, lhs)
    THEN Fail(c, "ExpiringBorrowNotHeld")
    ELSE MovePermissions(c, forget_moved(Forget(Forget(c, lhs), rhs), rhs), lhs, rhs)

\* The variant with which the enum p is unfolded and downcast; there is at most one.
UnfoldedVariants(c, p) ==
  {q[Len(p) + 1] : q \in {q \in ProperExtensions(c, "acc", p) :
                            is_variant(q) /\ is_variant(SubSeq(q, 1, Len(p) + 1))}}
find_unfolded_variant(c, p) ==
  LET vs == UnfoldedVariants(c, p) IN IF vs = {} THEN NoVariant ELSE CHOOSE v \in vs : TRUE

ApplyDowncast(c, p, variant) ==
  LET d == Field(p, "discriminant") IN
    IF ~(UnfoldedVariants(c, p) \subseteq {variant}) THEN Fail(c, "OtherVariant")
    ELSE IF find_unfolded_variant(c, p) # NoVariant \/ d \notin DOMAIN c.acc
      THEN c
      ELSE insert_all_perms(c, get_variant_footprint(p, variant, c.acc[d]))
=============================================================================
