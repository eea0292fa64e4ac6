----------------------------- MODULE FoldUnfold -----------------------------
(***************************************************************************)
(* The fold-unfold algorithm of prusti-viper on the procedures that the    *)
(* Rust compiler accepts.  A procedure is a straight line, a branch of two *)
(* sides, and a straight line after the join.  Each MIR operation becomes  *)
(* the statements that procedure_encoder.rs emits for it; replace_stmt     *)
(* adds the folds and unfolds they need; Viper executes the result.        *)
(*                                                                         *)
(* ctx is what fold-unfold tracks, vip what Viper holds on each of the two *)
(* executions (one per side of the branch), mir what the borrow checker    *)
(* knows: it decides which operations a legal program may do next.         *)
(***************************************************************************)
EXTENDS PathCtxt, Viper

CONSTANTS
  Temp,        \* a local variable for primitive values
  MutableRefs, \* the references of type &mut; the others have type &
  Procedures   \* what procedures are made of: records with
               \*   locals, args   the local variables and which of them are arguments
               \*   places         the places that operations may name
               \*   operations     the kinds of MIR operations that occur
               \*   budget         how many operations occur in each phase
               \*   loans          how many borrows there are

ASSUME FoldUnfoldAssumption ==
  /\ MutableRefs \subseteq DOMAIN LocalType
  /\ \A p \in Procedures :
       /\ Temp \in p.locals /\ p.args \subseteq p.locals /\ p.locals \subseteq DOMAIN LocalType
       /\ p.loans \in Nat
       /\ \A ph \in {"entry", "left", "right", "merged"} : p.budget[ph] \in Nat

VARIABLES proc, phase, steps, ctx, vip, mir
vars == <<proc, phase, steps, ctx, vip, mir>>

Sides == {1, 2}
IsReference(x) == LocalType[x] \in DOMAIN StructFields /\ StructFields[LocalType[x]] = {"val_ref"}
References == {x \in proc.locals : IsReference(x)}
Owners     == {x \in proc.locals : ~IsReference(x)} \ {Temp}

\* The context that the statements of a phase change, and the executions
\* that perform them.
Current == IF phase = "right" THEN 2 ELSE 1
Running == CASE phase = "merged" -> Sides [] phase = "right" -> {2} [] OTHER -> {1}

-----------------------------------------------------------------------------
(* replace_stmt *)

Inhale(x)            == [op |-> "inhale", perm |-> x]
Exhale(x)            == [op |-> "exhale", perm |-> x]
Havoc(x)             == [op |-> "havoc", target |-> x]
Assign(l, r, k, b)   == [op |-> "assign", lhs |-> l, rhs |-> r, kind |-> k, borrow |-> b]
TransferPerm(l, r)   == [op |-> "transfer", lhs |-> l, rhs |-> r]
Downcast(p, v)       == [op |-> "downcast", place |-> p, variant |-> v]

NoBorrow == 0

\* get_required_permissions of a statement.
get_required_permissions(s) ==
  LET Read(p) == IF is_local(p) THEN {} ELSE {Acc(p, "Read")} IN
    CASE s.op = "inhale"   -> IF s.perm.kind = "pred" THEN {Acc(s.perm.place, "Read")} ELSE {}
      [] s.op = "exhale"   -> IF s.perm.kind = "pred"
                                THEN {Pred(s.perm.place, "Read"), Acc(s.perm.place, "Read")}
                                ELSE Read(s.perm.place)
      [] s.op = "havoc"    -> {Acc(<<s.target>>, "Write")}
      [] s.op = "assign"   -> {Acc(s.lhs, "Write")} \cup Read(s.rhs)
      [] s.op = "transfer" -> {Acc(s.lhs, "Read")}
      [] s.op = "downcast" -> {Acc(Field(s.place, "discriminant"), "Read")}

apply_on_state(c, s) ==
  CASE s.op = "inhale"   -> ApplyInhale(c, {s.perm})
    [] s.op = "exhale"   -> ApplyExhale(c, {s.perm})
    [] s.op = "havoc"    -> ApplyHavoc(c, s.target)
    [] s.op = "assign"   -> ApplyAssign(c, s.lhs, s.rhs, s.kind)
    [] s.op = "transfer" -> ApplyTransferPerm(c, s.lhs, s.rhs)
    [] s.op = "downcast" -> ApplyDowncast(c, s.place, s.variant)

\* apply_stmt, and the statement goes to the output.
apply_stmt(c, s) ==
  IF Failed(c) THEN c ELSE Emit(Consistent(apply_on_state(c, s)), s)

\* An entry of a log that maps borrows to sequences.
LogEntry(log, b) == IF b \in DOMAIN log THEN log[b] ELSE <<>>
AddToLog(c, field, b, e) ==
  [c EXCEPT !.log[field] = (b :> Append(LogEntry(@, b), e)) @@ @]

\* Of a permission x below rhs that is shared by borrow b, lhs gets a duplicate;
\* what is left of a Write is exhaled.
DuplicateRead(c, b, lhs, rhs, x) ==
  LET rest == [x EXCEPT !.amount = "Remaining"]
      dup  == [x EXCEPT !.amount = "Read", !.place = replace_place(@, rhs, lhs)]
      logged == AddToLog(IF x.amount = "Write" THEN AddToLog(c, "conv", b, rest) ELSE c,
                         "dups", b, <<dup, lhs>>)
  IN  FoldLeft(apply_stmt, logged,
               IF x.amount = "Write" THEN <<Exhale(rest), Inhale(dup)>> ELSE <<Inhale(dup)>>)

\* Step 7 of replace_stmt, after lhs := &rhs; access permissions are shared
\* from the root down, then predicates.
share_permissions(c, b, lhs, rhs) ==
  LET accs  == {Acc(p, c.acc[p]) : p \in {p \in Extensions(c, "acc", rhs) :
                  ~is_local(p) /\ ~(p = rhs /\ lhs \in DOMAIN c.acc /\ c.acc[lhs] = "Write")}}
      preds == {Pred(p, c.pred[p]) : p \in Extensions(c, "pred", rhs)}
      sorted == SortSeq(AsSeq(accs), LAMBDA x, y : Len(x.place) < Len(y.place)) \o AsSeq(preds)
      valid == /\ \A p \in DOMAIN c.acc : is_valid_for_specs(c.acc[p])
               /\ \A p \in DOMAIN c.pred : is_valid_for_specs(c.pred[p])
  IN  IF ~valid THEN Fail(c, "InvalidAmount")
      ELSE FoldLeft(LAMBDA d, x : DuplicateRead(d, b, lhs, rhs, x), c, sorted)

replace_stmt(c, s) ==
  LET Share(d) == IF s.op = "assign" /\ s.kind = "SharedBorrow" /\ ~Failed(d)
                    THEN share_permissions(d, s.borrow, s.lhs, s.rhs)
                    ELSE d
  IN  Share(apply_stmt(Consistent(obtain_permissions(c, get_required_permissions(s))), s))

replace_all(c, stmts) == FoldLeft(replace_stmt, c, stmts)

-----------------------------------------------------------------------------
(* process_expire_borrows *)

\* restore_write_permissions: what borrow b had converted becomes Write again.
restore_write_permissions(c, b) ==
  LET Restore(d, x) ==
        apply_stmt(obtain_permissions(d, {[x EXCEPT !.amount = "Read"]}), Inhale(x))
  IN  [FoldLeft(Restore, c, LogEntry(c.log.conv, b)) EXCEPT
         !.log.conv = Restrict(@, DOMAIN @ \ {b}),
         !.log.dups = Restrict(@, DOMAIN @ \ {b})]

\* get_duplicated_read_permissions: predicates first, then the deepest places.
get_duplicated_read_permissions(log, b) ==
  LET dups == LogEntry(log.dups, b)
      accs == SelectSeq(dups, LAMBDA e : e[1].kind = "acc")
  IN  SelectSeq(dups, LAMBDA e : e[1].kind = "pred")
        \o SortSeq(accs, LAMBDA e, f : Len(e[1].place) > Len(f[1].place))

\* collect_dropped_permissions: what was dropped on side i because of a borrowed place.
collect_dropped_permissions(log, i, borrowed) ==
  LET drops == SelectSeq(log.drops[i],
                         LAMBDA d : \E p \in borrowed : has_prefix(d.missing.place, p))
  IN  [j \in DOMAIN drops |-> drops[j].perm]

\* The lender gets its permissions back, and the duplicates dups are exhaled: then
\* the reference that had them counts as moved out.
EndLoan(c, dups, loan) ==
  LET lhs == Deref(loan.ref)
      Ended(d) == IF dups # <<>> /\ lhs \in DOMAIN d.acc
                    THEN [d EXCEPT !.moved = @ \cup {lhs}] ELSE d
  IN  Ended(replace_all(c, (IF loan.mut THEN <<TransferPerm(lhs, loan.place)>> ELSE <<>>)
                             \o [j \in DOMAIN dups |-> Exhale(dups[j][1])]))

\* Mutant: Write is restored only for what the expiring borrow itself converted.
process_node_OnlyItself(c, around, loan, alive) ==
  FoldLeft(restore_write_permissions,
           EndLoan(c, get_duplicated_read_permissions(around, loan.id), loan),
           IF loan.conflicts \cap {l.id : l \in alive} # {} THEN <<>> ELSE <<loan.id>>)

\* process_node: the loan expires in context c; `around' is the log of the
\* surrounding context, `alive' the loans that stay alive.
process_node(c, around, loan, alive) ==
  FoldLeft(restore_write_permissions,
           EndLoan(c, get_duplicated_read_permissions(around, loan.id), loan),
           IF loan.conflicts \cap {l.id : l \in alive} # {} THEN <<>>
           ELSE AsSeq(loan.conflicts) \o <<loan.id>>)

\* A node of the reborrowing DAG without predecessors starts from the
\* surrounding context and gets back what was dropped since its borrow was
\* created, on the path through side i, unless that was in this block.
ExpireNode(c, loan, borrowed, alive, i) ==
  LET dropped == IF phase = "merged" /\ loan.born # "merged"
                   THEN collect_dropped_permissions(c.log, i, borrowed) ELSE <<>>
  IN  process_node(Consistent(FoldLeft(restore_dropped_perm, c, dropped)), c.log, loan, alive)

Drops(stmts) == SelectSeq(stmts, LAMBDA s : s.op = "drop")

\* construct_final_pctxt: two nodes are joined, and what the join drops of the
\* borrowed places is restored.
FinishNodes(c, d, borrowed, reversed) ==
  LET Lost(x) == /\ \E p \in borrowed : has_prefix(x.missing.place, p)
                 /\ x.perm.amount # "Read"
      Finish(s) ==
        [ctx |-> FoldLeft(LAMBDA e, x : restore_dropped_perm(e, x.perm), s[1],
                          SelectSeq(Drops(s[1].out) \o Drops(s[2].out), Lost)),
         out |-> <<c.out \o s[1].out, d.out \o s[2].out>>]
  IN  Finish(join([c EXCEPT !.out = <<>>], [d EXCEPT !.out = <<>>], reversed))

-----------------------------------------------------------------------------
(* The borrow checker's view, which decides what a legal program may do.    *)

Initialised(m, p) == \A u \in m.uninit : ~Comparable(u, p)
Borrowed(m, p)    == \E l \in m.loans : Comparable(l.place, p)
Frozen(m, p)      == \E l \in m.loans : l.mut /\ Comparable(l.place, p)
LoansOf(m, r)     == {l \in m.loans : l.ref = r}

\* The enums that p goes through, each with the variant it names.
DowncastsOf(p) ==
  {<<SubSeq(p, 1, n), p[n + 1]>> : n \in {n \in 1 .. Len(p) - 1 : is_enum(SubSeq(p, 1, n))}}

Reachable(m, p) ==
  /\ DowncastsOf(p) \subseteq m.known
  /\ p[1] \in References => LoansOf(m, p[1]) # {}
  /\ p[1] \in Owners => Initialised(m, p)

CanRead(m, p)  == Reachable(m, p) /\ ~Frozen(m, p)
CanWrite(m, p) ==
  /\ Reachable(m, p) /\ ~Borrowed(m, p)
  /\ \A l \in LoansOf(m, p[1]) : l.mut
CanMove(m, p)  == CanWrite(m, p) /\ p[1] \in Owners

\* A place that may get a new value: its parent is initialised.
CanAssign(m, p) ==
  /\ p[1] \in Owners /\ DowncastsOf(p) = {}
  /\ ~Borrowed(m, p)
  /\ \A u \in m.uninit : ~has_proper_prefix(p, u)

\* p gets a new value, or loses it.
Overwrite(m, p) == [m EXCEPT !.uninit = {u \in @ : ~has_prefix(u, p)},
                             !.known = {k \in @ : ~Comparable(k[1], p)}]
MoveOut(m, p)   == [m EXCEPT !.uninit = {u \in @ : ~has_prefix(u, p)} \cup {p},
                             !.known = {k \in @ : ~has_prefix(k[1], p)}]

-----------------------------------------------------------------------------
(* The operations of a procedure *)

DowncastStmts(p) ==
  LET ds == SortSeq(AsSeq(DowncastsOf(p)), LAMBDA d, e : Len(d[1]) < Len(e[1])) IN
    [j \in DOMAIN ds |-> Downcast(ds[j][1], ds[j][2])]

CanStep(kind) ==
  /\ kind \in proc.operations
  /\ steps < proc.budget[phase]
  /\ ~Failed(ctx[Current])

\* The statements are replaced in the current context and executed.
Perform(stmts, m) ==
  \E c \in {replace_all(ctx[Current], stmts)} :
    /\ ctx' = [ctx EXCEPT ![Current] = [c EXCEPT !.out = <<>>]]
    /\ vip' = [i \in Sides |-> IF i \in Running THEN ExecAll(vip[i], c.out) ELSE vip[i]]
    /\ mir' = [mir EXCEPT ![Current] = m]
    /\ steps' = steps + 1
    /\ UNCHANGED <<phase, proc>>

\* x = f(..): the result of a call is havocked and its predicate inhaled.
CallStmts(x) == <<Havoc(x), Inhale(Pred(<<x>>, "Write"))>>

Call(x) ==
  /\ CanStep("Call")
  /\ CanAssign(mir[Current], <<x>>)
  /\ Perform(CallStmts(x), Overwrite(mir[Current], <<x>>))

\* lhs = move rhs.
Move(lhs, rhs) ==
  /\ CanStep("Move")
  /\ is_ref(lhs) /\ is_ref(rhs) /\ TypeOf(lhs) = TypeOf(rhs) /\ ~Comparable(lhs, rhs)
  /\ CanAssign(mir[Current], lhs) /\ CanMove(mir[Current], rhs)
  /\ Perform(DowncastStmts(rhs) \o <<Assign(lhs, rhs, "Move", NoBorrow)>>,
             MoveOut(Overwrite(mir[Current], lhs), rhs))

\* f(move x): the precondition takes the predicate of the argument.
Consume(x) ==
  /\ CanStep("Consume")
  /\ CanMove(mir[Current], <<x>>)
  /\ Perform(<<Exhale(Pred(<<x>>, "Write"))>>, MoveOut(mir[Current], <<x>>))

\* p = temp and temp = p, for a primitive p.
WriteValue(p) ==
  /\ CanStep("WriteValue")
  /\ ~is_ref(p) /\ CanWrite(mir[Current], p)
  /\ Perform(DowncastStmts(p) \o <<Assign(p, <<Temp>>, "Copy", NoBorrow)>>, mir[Current])

ReadValue(p) ==
  /\ CanStep("ReadValue")
  /\ ~is_ref(p) /\ CanRead(mir[Current], p)
  /\ Perform(DowncastStmts(p) \o <<Assign(<<Temp>>, p, "Copy", NoBorrow)>>, mir[Current])

\* r = &p or r = &mut p.  A reference that is not allocated yet is havocked.
Borrow(r, p) ==
  LET m == mir[Current]
      mut == r \in MutableRefs
      alloc == IF r \in m.allocated THEN <<>> ELSE <<Havoc(r), Inhale(Acc(Deref(r), "Write"))>>
      kind == IF mut THEN "MutableBorrow" ELSE "SharedBorrow"
      overlapping == {l.id : l \in {l \in m.loans : Comparable(l.place, p)}}
      new == [id |-> m.next + 1, ref |-> r, place |-> p, mut |-> mut,
              born |-> phase, conflicts |-> overlapping]
      old == {[l EXCEPT !.conflicts = IF l.id \in overlapping THEN @ \cup {m.next + 1} ELSE @] :
                l \in m.loans}
  IN  /\ CanStep("Borrow") /\ m.next < proc.loans
      /\ p[1] \in Owners /\ is_ref(p) /\ TypeOf(p) = FieldType["val_ref"]
      /\ LoansOf(m, r) = {}
      /\ IF mut THEN CanWrite(m, p) ELSE CanRead(m, p)
      /\ Perform(DowncastStmts(p) \o alloc \o <<Assign(Deref(r), p, kind, m.next + 1)>>,
                 [m EXCEPT !.loans = old \cup {new}, !.next = @ + 1,
                           !.allocated = @ \cup {r},
                           !.known = {k \in @ : ~(mut /\ Comparable(k[1], p))}])

\* The statement ExpireBorrows with a DAG of one node per loan: the context
\* after it and the statements that each side executes.  A node is executed on
\* the side where its loan was made.
process_expire_borrows(c, loans, alive, via, reversed) ==
  LET borrowed == {l.place : l \in loans}
      Side(l) == CASE l.born = "left" -> 1 [] l.born = "right" -> 2 [] OTHER -> via
      nodes == SortSeq(AsSeq(loans), LAMBDA k, l : Side(k) < Side(l))
      Final(cs) ==
        IF Len(cs) = 1 THEN [ctx |-> cs[1], out |-> <<cs[1].out, cs[1].out>>]
        ELSE FinishNodes(cs[1], cs[2], borrowed, reversed)
  IN  Final(FoldLeft(LAMBDA cs, l : Append(cs, ExpireNode(c, l, borrowed, alive, Side(l))),
                     <<>>, nodes))

\* The loans of reference r expire.
Expire(r, via, reversed) ==
  LET m == mir[Current]
      loans == LoansOf(m, r)
      alive == m.loans \ loans
  IN  /\ CanStep("Expire")
      /\ loans # {}
      /\ \E e \in {process_expire_borrows(ctx[Current], loans, alive, via, reversed)} :
           /\ ctx' = [ctx EXCEPT ![Current] = [e.ctx EXCEPT !.out = <<>>]]
           /\ vip' = [i \in Sides |-> IF i \in Running THEN ExecAll(vip[i], e.out[i]) ELSE vip[i]]
      /\ mir' = [mir EXCEPT ![Current].loans = alive]
      /\ steps' = steps + 1
      /\ UNCHANGED <<phase, proc>>

-----------------------------------------------------------------------------
(* The branch and the join *)

GoTo(ph) == phase' = ph /\ steps' = 0 /\ UNCHANGED proc

\* A branch on something else than a discriminant.
Branch ==
  /\ phase = "entry" /\ ~Failed(ctx[1])
  /\ GoTo("left")
  /\ ctx' = [i \in Sides |-> ctx[1]]
  /\ vip' = [i \in Sides |-> vip[1]]
  /\ mir' = [i \in Sides |-> mir[1]]

\* match p: the discriminant is read, and each side knows its variant.
Switch(p, v, w) ==
  /\ phase = "entry" /\ ~Failed(ctx[1])
  /\ is_enum(p) /\ CanRead(mir[1], p)
  /\ {v, w} \subseteq Variants[TypeOf(p)] /\ v # w
  /\ GoTo("left")
  /\ \E c \in {replace_stmt(ctx[1], Assign(<<Temp>>, Field(p, "discriminant"), "Copy", NoBorrow))} :
       /\ ctx' = [i \in Sides |-> [c EXCEPT !.out = <<>>]]
       /\ vip' = [i \in Sides |-> Resolve(ExecAll(vip[1], c.out), p, <<v, w>>[i])]
  /\ mir' = [i \in Sides |-> [mir[1] EXCEPT !.known = @ \cup {<<p, <<v, w>>[i]>>}]]

OtherSide ==
  /\ phase = "left" /\ ~Failed(ctx[1])
  /\ GoTo("right")
  /\ mir' = [mir EXCEPT ![2].next = mir[1].next]
  /\ UNCHANGED <<ctx, vip>>

\* A reference that is used after the join carries the same loan on both sides,
\* or each side made its own; every other loan has expired before.
SameBorrow(L, R) ==
  \/ {l.id : l \in L} = {l.id : l \in R}
  \/ L # {} /\ R # {} /\ \A l \in L \cup R : l.born # "entry"

\* A loan known to both sides conflicts with what it met on either.
MergeLoans(loans) ==
  {[l EXCEPT !.conflicts = UNION {k.conflicts : k \in {k \in loans : k.id = l.id}}] : l \in loans}

Joinable ==
  /\ phase = "right" /\ ~Failed(ctx[2])
  /\ \A r \in References : SameBorrow(LoansOf(mir[1], r), LoansOf(mir[2], r))

\* prepend_join and perform_prejoin_action.
Join(reversed) ==
  /\ Joinable
  /\ GoTo("merged")
  /\ \E s \in {join(ctx[1], ctx[2], reversed)} :
       /\ ctx' = [i \in Sides |->
                    [s[1] EXCEPT !.out = <<>>,
                                 !.log.drops = [j \in Sides |-> Drops(s[j].out)]]]
       /\ vip' = [i \in Sides |-> ExecAll(vip[i], s[i].out)]
  /\ mir' = [i \in Sides |->
               [uninit |-> ancestors(mir[1].uninit \cup mir[2].uninit),
                known |-> mir[1].known \cap mir[2].known,
                allocated |-> mir[1].allocated \cap mir[2].allocated,
                loans |-> MergeLoans(mir[1].loans \cup mir[2].loans),
                next |-> mir[2].next]]

-----------------------------------------------------------------------------
EmptyMap == [x \in {} |-> 0]

EmptyContext ==
  [acc |-> [p \in {<<x>> : x \in proc.locals} |-> "Write"], pred |-> EmptyMap, moved |-> {},
   out |-> <<>>, missing |-> None, err |-> "none",
   log |-> [drops |-> [i \in Sides |-> <<>>], dups |-> EmptyMap, conv |-> EmptyMap]]

EmptyViper ==
  [store |-> [x \in proc.locals |-> <<0, x>>], heap |-> EmptyMap, acc |-> EmptyMap,
   pred |-> EmptyMap, variant |-> EmptyMap, fresh |-> 0, ok |-> TRUE]

\* The procedure starts with the predicates of its arguments inhaled.
Init ==
  /\ proc \in Procedures
  /\ phase = "entry" /\ steps = 0
  /\ \E c \in {FoldSet(LAMBDA x, d : replace_all(d, CallStmts(x)), EmptyContext, proc.args)} :
       /\ ctx = [i \in Sides |-> [c EXCEPT !.out = <<>>]]
       /\ vip = [i \in Sides |-> ExecAll(EmptyViper, c.out)]
  /\ mir = [i \in Sides |->
              [uninit |-> {<<x>> : x \in Owners \ proc.args}, known |-> {}, allocated |-> {},
               loans |-> {}, next |-> 0]]

Next ==
  \/ \E x \in Owners : Call(x) \/ Consume(x)
  \/ \E p, q \in proc.places : Move(p, q)
  \/ \E p \in proc.places : WriteValue(p) \/ ReadValue(p)
  \/ \E r \in References, p \in proc.places : Borrow(r, p)
  \/ \E r \in References, via \in Sides, reversed \in BOOLEAN : Expire(r, via, reversed)
  \/ Branch \/ OtherSide
  \/ \E p \in proc.places : \E v, w \in DOMAIN FieldType : Switch(p, v, w)
  \/ \E reversed \in BOOLEAN : Join(reversed)

Spec == Init /\ [][Next]_vars

-----------------------------------------------------------------------------
(* Properties *)

\* Every operation of a legal procedure is translated: no assertion of the
\* fold-unfold code fails and no permission is found missing.
NoTranslationError == \A i \in Sides : ctx[i].err = "none"

\* The statements that fold-unfold emits verify: whatever a fold, unfold, exhale
\* or assignment needs is held by Viper when it gets there.
EveryStatementVerifies == \A i \in Sides : vip[i].ok

\* The tracked permissions are an under-approximation of those in Viper, on
\* every execution that reaches the current point.
UnderApproximation == \A i \in Running : Available(vip[i], ctx[Current])

\* What fold-unfold tracks is held by Viper; once there are borrows, at least what
\* it tracks of the initialised places, also when permissions that a join dropped
\* have been restored by an expiring borrow.
InitialisedIsAvailable ==
  LET m == mir[Current]
      Keep(c, kind) == Del(c, kind, {p \in DOMAIN c[kind] : m.next > 0 /\ ~Initialised(m, p)})
      tracked == Keep(Keep(ctx[Current], "acc"), "pred")
  IN  \A i \in Running : Available(vip[i], tracked)

\* The predicate of every variable that the borrow checker lets the program move
\* can be obtained, whatever was unfolded, moved, borrowed and dropped before.
MovableIsObtainable ==
  \A x \in Owners :
    (CanMove(mir[Current], <<x>>) /\ ~Failed(ctx[Current])) =>
      \E c \in {obtain(ctx[Current], Pred(<<x>>, "Write"))} :
        ~Failed(c) /\ c.missing = None /\ c.pred[<<x>>] = "Write"

\* Once no loan is alive, every permission that a shared borrow reduced to Read
\* is Write again.
WriteRestored ==
  mir[Current].loans = {} =>
    \A kind \in {"acc", "pred"} : \A p \in DOMAIN ctx[Current][kind] :
      p[1] \in Owners => ctx[Current][kind][p] = "Write"

\* The state after a join depends neither on the order in which the permissions
\* are iterated nor on which predecessor comes first.
JoinIsSymmetric ==
  Joinable =>
    \E s \in {join(ctx[1], ctx[2], FALSE)} :
      ~Failed(s[1]) => \A t \in {join(ctx[1], ctx[2], TRUE), join(ctx[2], ctx[1], FALSE)} :
                          SameState(s[1], t[1])

=============================================================================
