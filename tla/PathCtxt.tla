------------------------------ MODULE PathCtxt ------------------------------
(***************************************************************************)
(* The fold-unfold context of a path (foldunfold/path_ctxt.rs): obtaining  *)
(* a permission by folding and unfolding predicates, and joining the       *)
(* contexts of two branches.  The permissions that are folded, unfolded or *)
(* dropped on the way are emitted as statements.                           *)
(***************************************************************************)
EXTENDS FoldUnfoldState

FoldStmt(p, a, v)   == [op |-> "fold",   place |-> p, amount |-> a, variant |-> v]
UnfoldStmt(p, a, v) == [op |-> "unfold", place |-> p, amount |-> a, variant |-> v]
DropStmt(x, m)      == [op |-> "drop",   perm |-> x, missing |-> m]

\* unfold: simulate an unfold of the predicate of p.
unfold(c, p, a, v) ==
  LET d == remove_perm(c, Pred(p, a)) IN
    IF ~is_valid_for_specs(a) THEN Fail(c, "InvalidAmount")
    ELSE Emit(insert_all_perms(d, get_body_footprint(p, v, a)), UnfoldStmt(p, a, v))

\* The variant of the enum p on the way to place q.
find_variant(p, q) ==
  LET child == SubSeq(q, 1, Len(p) + 1) IN
    IF is_variant(child) THEN Last(child) ELSE NoVariant

\* The amounts held at the places of the body X, or below them.
Offered(c, X) ==
  UNION {{c.acc[q] : q \in Extensions(c, "acc", x.place)}
           \cup {c.pred[q] : q \in Extensions(c, "pred", x.place)} : x \in X}

Missing(c, req) == [c EXCEPT !.missing = req]

\* The permission must have been obtained.
Obtained(c) == Check(c, c.missing = None, "FailedToObtain")

\* x is the predicate to fold in d, which is c after the permissions X of its
\* body were obtained.
FoldBody(c, d, x, X, variant) ==
  IF Failed(d) THEN d
  ELSE IF d.missing # None THEN [d EXCEPT !.out = c.out]
  ELSE IF x.place \notin DOMAIN d.acc THEN Fail(d, "FoldedPlaceNotHeld")
  ELSE Emit(insert_perm(remove_all_perms(d, {[y EXCEPT !.amount = x.amount] : y \in X}), x),
            FoldStmt(x.place, x.amount, variant))

\* obtain: change c so that it holds the permission req; in the result, missing
\* is the permission that could not be had.
RECURSIVE obtain(_, _)
obtain(c, req) ==
  LET p == req.place
      prefixes == {q \in DOMAIN c.pred : has_proper_prefix(p, q)}
      Unfold(q) ==
        IF ~AtLeast(c.pred[q], req.amount) THEN Fail(c, "AmountTooSmall")
        ELSE Obtained(obtain(unfold(c, q, c.pred[q], find_variant(q, p)), req))
      Fold(variant, body, offered) ==
        IF req.kind # "pred" \/ (ProperExtensions(c, "acc", p) = {} /\ body # {})
          THEN Missing(c, req)
        ELSE IF "Remaining" \in offered THEN Fail(c, "InvalidAmount")
        ELSE FoldBody(c, FoldLeft(LAMBDA e, x : IF e.missing = None THEN obtain(e, x) ELSE e,
                                  c, AsSeq(body)),
                      Pred(p, IF "Read" \in offered THEN "Read" ELSE "Write"), body, variant)
      FoldVariant(variant) ==
        Fold(variant, get_body_footprint(p, variant, "Write"),
             Offered(c, get_body_footprint(p, variant, "Write")))
  IN  IF Failed(c) \/ contains_perm(c, req) \/ (req.kind = "acc" /\ is_local(p)) THEN c
      ELSE IF prefixes # {} THEN Unfold(CHOOSE q \in prefixes : TRUE)
      ELSE FoldVariant(find_unfolded_variant(c, p))

\* solve_conficts: what can be had with an unfolding of another requirement.
solve_conficts(X) ==
  {x \in X : \A y \in X : y.kind = "pred" => ~has_proper_prefix(x.place, y.place)}

\* obtain_permissions: access permissions first, then predicates.
obtain_permissions(c, X) ==
  LET reqs == solve_conficts(X)
      seq  == AsSeq({x \in reqs : x.kind = "acc"}) \o AsSeq({x \in reqs : x.kind = "pred"})
  IN  FoldLeft(LAMBDA d, x : Obtained(obtain(d, x)), c, seq)

-----------------------------------------------------------------------------
(* join *)

\* Mutant: variants that only one side has downcast to are not folded back.
compute_fold_target_NoConflicts(L, R) ==
  [acc |-> {p \in L \cup R : ~(p \in L /\ p \in R)}, pred |-> {}]

\* compute_fold_target: what to obtain by unfolding, and which enums to fold
\* because they are unfolded differently on the two sides.
compute_fold_target(L, R) ==
  LET Conflicts(A, B) ==
        {Front(p) : p \in {p \in A : is_variant(p) /\ \A q \in B : ~has_prefix(q, p)}}
      base == Conflicts(L, R) \cup Conflicts(R, L)
      Leaves(A, B) ==
        {p \in A : /\ \A q \in A : ~has_proper_prefix(q, p)
                   /\ \A q \in B : ~has_prefix(q, p)
                   /\ \A b \in base : ~has_prefix(p, b)}
  IN  [acc |-> Leaves(L, R) \cup Leaves(R, L), pred |-> ancestors(base)]

\* The permissions of kind `kind' to the places in S are dropped because m is
\* missing: each of them itself when m is None.
DropAll(c, kind, S, m) ==
  FoldLeft(LAMBDA d, p : LET x == [kind |-> kind, place |-> p, amount |-> d[kind][p]] IN
                           Emit(Del(d, kind, {p}), DropStmt(x, IF m = None THEN x ELSE m)),
           c, AsSeq(S))

\* remove_places: what one side cannot fold, both sides lose.
LosePlace(c, p, m) ==
  LET d == DropAll(forget_moved(c, p), "acc", ProperExtensions(c, "acc", p), m)
  IN  DropAll(d, "pred", Extensions(c, "pred", p), m)

\* The pair of contexts of the two sides.
Both(F(_)) == <<F(1), F(2)>>

\* One side of the join obtains the predicate of p by folding; s is the pair of contexts.
TryFold(s, i, req) ==
  LET Tried(c) ==
        IF c.missing = None THEN [s EXCEPT ![i] = c]
        ELSE Both(LAMBDA j : LosePlace(IF j = i THEN [c EXCEPT !.missing = None] ELSE s[j],
                                       req.place, c.missing))
  IN  Tried(obtain(s[i], req))

FoldBoth(s, p) ==
  LET Below(i) == {s[i].acc[q] : q \in ProperExtensions(s[i], "acc", p)}
      amounts  == IF Below(1) # {} THEN Below(1) ELSE Below(2)
      req      == Pred(p, CHOOSE a \in amounts : TRUE)
  IN  IF \E i \in 1 .. 2 : Failed(s[i]) THEN s
      ELSE IF amounts = {} THEN [s EXCEPT ![1] = Fail(@, "NothingBelowConflict")]
      ELSE FoldLeft(LAMBDA t, i : TryFold(t, i, req), s, <<1, 2>>)

\* One side obtains an access permission that the other one has; if it cannot,
\* the other one drops it.
TryUnfold(s, i, p) ==
  LET req == Acc(p, s[3 - i].acc[p])
      Tried(c) ==
        IF c.missing = None THEN [s EXCEPT ![i] = c]
        ELSE [s EXCEPT ![i] = [c EXCEPT !.missing = None],
                       ![3 - i] = Emit(remove_perm(@, req), DropStmt(req, c.missing))]
  IN  IF Failed(s[i]) \/ p \in DOMAIN s[i].acc THEN s
      ELSE IF p \notin DOMAIN s[3 - i].acc THEN [s EXCEPT ![i] = Fail(@, "NoAmount")]
      ELSE Tried(obtain(s[i], req))

\* Mutant: only the left side unfolds.
UnfoldBoth_LeftOnly(s, p) == TryUnfold(s, 1, p)

UnfoldBoth(s, p) ==
  LET Right(t) == IF p \in DOMAIN t[1].acc THEN TryUnfold(t, 2, p) ELSE t IN
    Right(TryUnfold(s, 1, p))

\* Mutant: Write stays on the side that has it.
Equalise_Never(s, kind) == s

\* Write on one side and Read on the other become Read on both.
Equalise(s, kind) ==
  LET Excess(i) ==
        {p \in DOMAIN s[i][kind] : s[i][kind][p] = "Write" /\ s[3 - i][kind][p] = "Read"}
      Lower(c, p) ==
        LET x == [kind |-> kind, place |-> p, amount |-> "Remaining"] IN
          Emit(remove_perm(c, x), DropStmt(x, x))
  IN  Both(LAMBDA i : FoldLeft(Lower, s[i], AsSeq(Excess(i))))

\* Both sides drop what lies below a moved place, then what the other side lacks.
DropDifference(s, kind, moved) ==
  LET Unmoved(c, S) ==
        IF kind = "pred" THEN c
        ELSE [c EXCEPT !.moved = {m \in @ : \A p \in S : ~has_prefix(m, p)}]
      DropAlone(c, S) == DropAll(Unmoved(c, S), kind, S, None)
      OneSided(t) ==
        Both(LAMBDA i : DropAlone(t[i], DOMAIN t[i][kind] \ DOMAIN t[3 - i][kind]))
  IN  OneSided(Both(LAMBDA i :
        DropAll(s[i], kind, filter_proper_extensions_of(DOMAIN s[i][kind], moved), None)))

SameState(c, d) == c.acc = d.acc /\ c.pred = d.pred /\ c.moved = d.moved

\* EventLog::join: for a borrow that both sides know, self wins.
JoinLog(l, r) ==
  [drops |-> [b \in DOMAIN l.drops |-> IF l.drops[b] # <<>> THEN l.drops[b] ELSE r.drops[b]],
   dups  |-> [b \in DOMAIN l.dups \cup DOMAIN r.dups |->
                IF b \in DOMAIN l.dups THEN l.dups[b] ELSE r.dups[b]],
   conv  |-> [b \in DOMAIN l.conv \cup DOMAIN r.conv |->
                IF b \in DOMAIN l.conv THEN l.conv[b] ELSE r.conv[b]]]

\* Hash sets are iterated in some order: the one or its reverse.
InOrder(S, reversed) == IF reversed THEN Reverse(AsSeq(S)) ELSE AsSeq(S)

\* The error that stops the join with contexts s, and the assertion at its end.
JoinError(s) ==
  IF Failed(s[1]) THEN s[1].err
  ELSE IF Failed(s[2]) THEN s[2].err
  ELSE IF s[1].acc # s[2].acc \/ s[1].pred # s[2].pred THEN "JoinedStatesDiffer"
  ELSE IF ~check_consistency(s[1]) THEN "Inconsistent"
  ELSE "none"

\* join: the contexts of the two branches, made equal: first the enums that are
\* unfolded differently are folded, then predicates are unfolded where one side
\* has done so, then permissions are dropped and equalised.  The state of the
\* left branch has to be consistent before, and the common state after.
join(left, right, reversed) ==
  LET moved == ancestors(left.moved \cup right.moved)
      Wanted(S) == InOrder(filter_not_proper_extensions_of(S, moved), reversed)
      FoldUnfoldTo(target) ==
        LET start == <<[left EXCEPT !.moved = moved], [right EXCEPT !.moved = moved]>> IN
          FoldLeft(UnfoldBoth, FoldLeft(FoldBoth, start, Wanted(target.pred)), Wanted(target.acc))
      DropAndEqualise(s) ==
        IF \E i \in 1 .. 2 : Failed(s[i]) THEN s
        ELSE Equalise(Equalise(DropDifference(DropDifference(s, "pred", moved), "acc", moved),
                               "acc"), "pred")
      Finish(s) ==
        Both(LAMBDA i : [s[i] EXCEPT !.err = JoinError(s), !.log = JoinLog(left.log, right.log)])
  IN  Finish(IF SameState(left, right) \/ ~check_consistency(left) THEN <<left, right>>
             ELSE DropAndEqualise(FoldUnfoldTo(compute_fold_target(DOMAIN left.acc,
                                                                   DOMAIN right.acc))))
=============================================================================
