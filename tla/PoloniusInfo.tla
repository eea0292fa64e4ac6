---------------------------- MODULE PoloniusInfo ----------------------------
(***************************************************************************)
(* Which loans are alive, when each one ends and which loans reborrow it:  *)
(* PoloniusInfo in                                                         *)
(* prusti-interface/src/environment/polonius_info.rs, from the facts of    *)
(* rustc's borrow checker and the rules of the Polonius engine.  The       *)
(* bodies have no loops.                                                   *)
(***************************************************************************)
EXTENDS BorrowCheck

-----------------------------------------------------------------------------
(* Polonius: Output::compute with Algorithm::Naive *)

SubsetAt(f, live, pts) ==
  FoldLeft(LAMBDA sub, q :
             [sub EXCEPT ![q] = TransitiveClosure(
                {<<o[1], o[2]>> : o \in {o \in f.outlives : o[3] = q}} \cup
                UNION {{e \in sub[p] : {e[1], e[2]} \subseteq live[q]} : p \in Preds(f.edges, q)})],
           [q \in ToSet(pts) |-> {}], pts)

\* The pairs <<region, loan>> of `new' and those their supersets inherit.
Inherited(new, sub) ==
  new \cup {<<e[2][2], e[1][2]>> : e \in {e \in new \X sub : e[1][1] = e[2][1]}}

RestrictsAt(f, live, sub, pts) ==
  FoldLeft(LAMBDA req, q :
             [req EXCEPT ![q] = Inherited(
                f.placeholder \cup {<<br[1], br[2]>> : br \in {br \in f.borrow_region : br[3] = q}} \cup
                UNION {{rl \in req[p] : rl[1] \in live[q] /\ <<rl[2], p>> \notin f.killed} :
                         p \in Preds(f.edges, q)}, sub[q])],
           [q \in ToSet(pts) |-> {}], pts)

LoansOfLive(restricts, live) ==
  [p \in DOMAIN restricts |-> {rl[2] : rl \in {rl \in restricts[p] : rl[1] \in live[p]}}]

-----------------------------------------------------------------------------
(* PoloniusInfo::new *)

\* The places below a local that have a region of their own.
all_places(x) == SelectSeq(<<<<x>>>> \o [i \in DOMAIN TupleFields |-> <<x, TupleFields[i]>>],
                           LAMBDA p : p \in RefPlaces)

Fake(loc, n, p, kind) == [loan |-> FakeLoan(loc, n), region |-> Var(p), point |-> Mid(loc), kind |-> kind]
CallFakes(loc, s, dests) ==
  {Fake(loc, 1, p, "Call") : p \in ToSet(dests)} \cup
  {Fake(loc, Len(dests) + i, s.args[i], "ArgumentMove") : i \in DOMAIN s.args}
AssignFakes(loc, places) == {Fake(loc, i, places[i], "Assignment") : i \in DOMAIN places}

\* The loans invented for what is moved where no borrow of the program is.
add_fake_facts(b, f) ==
  UNION {LET s == StatementAt(b, l) IN
           IF s.op = "Call" THEN CallFakes(l, s, IF s.lhs = <<>> THEN <<>> ELSE all_places(s.lhs[1]))
           ELSE AssignFakes(l, IF Len(s.lhs) = 1 THEN all_places(s.lhs[1]) ELSE <<s.lhs>>) :
         l \in {l \in Locations(b) :
                 /\ \E o \in f.outlives : o[3] = Mid(l) /\ {o[1], o[2]} \cap f.universal_region = {}
                 /\ \A r \in f.borrow_region : r[3] # Mid(l)}}

\* The result no longer counts as borrowed from the caller.
disconnect_universal_regions(b, f) ==
  [f EXCEPT !.outlives = {o \in @ : /\ o[1] \notin f.universal_region \/ o[2] = Var(<<Argument>>)
                                    /\ o[2] \notin f.universal_region},
            !.universal_region = @ \cup {Var(<<ReturnPlace>>) : x \in {b.ret} \cap {TRUE}}]

AllFacts(b, f, fakes) ==
  disconnect_universal_regions(b,
    [f EXCEPT !.borrow_region = @ \cup {<<k.region, k.loan, k.point>> : k \in fakes}])

-----------------------------------------------------------------------------
(* AdditionalFacts: killed loans whose reference lives on are zombies. *)

Killed(f, restricts, p) == {rl \in restricts[p] : <<rl[2], p>> \in f.killed}

derive_zombie_requires(f, restricts, live, sub, pts) ==
  FoldLeft(LAMBDA z, q :
             [z EXCEPT ![q] = Inherited(
                UNION {{rl \in Killed(f, restricts, p) \cup z[p] : rl[1] \in live[q]} :
                         p \in Preds(f.edges, q)}, sub[q])],
           [q \in ToSet(pts) |-> {}], pts)

borrow_become_zombie_at(f, restricts, live) ==
  [p \in DOMAIN restricts |->
     {rl[2] : rl \in {rl \in Killed(f, restricts, p) : \E q \in Succs(f.edges, p) : rl[1] \in live[q]}}]

\* The loans of one aggregate do not reborrow each other.
Incompatible(fakes) ==
  {<<km[1].loan, km[2].loan>> : km \in {km \in fakes \X fakes : /\ km[1].kind = "Assignment"
                                                            /\ km[1].point = km[2].point}}

load_reborrows(f, fakes, restricts, zombies) ==
  UNION {{<<r[2], rl[2]>> : rl \in {rl \in restricts[r[3]] \cup zombies[r[3]] : rl[1] = r[1]}} :
           r \in f.borrow_region} \ Incompatible(fakes)

Irreflexive(R) == {lm \in R : lm[1] # lm[2]}
derive_nontransitive(R) == {lm \in R : ~\E k \in R : k[2] = lm[2] /\ <<lm[1], k[1]>> \in R}

-----------------------------------------------------------------------------
(* What a loan borrows *)

split_assignment(s) ==
  IF s.op = "Aggregate"
  THEN [i \in DOMAIN s.src |-> [op |-> "Use", kind |-> "Move", lhs |-> s.lhs \o <<TupleFields[i]>>, src |-> s.src[i]]]
  ELSE <<s>>

\* The statement that made the loan; for a field of an aggregate, the part with the loan's region.
get_assignment_for_loan(b, info, l) ==
  LET parts == split_assignment(StatementAt(b, get_loan_location(l))) IN
    IF Len(parts) = 1 THEN parts[1]
    ELSE CHOOSE s \in ToSet(parts) : <<Var(s.lhs), l, Mid(get_loan_location(l))>> \in info.borrow_region

get_borrowed_places(b, l) ==
  IF l = Placeholder \/ IsTerminator(b, get_loan_location(l)) THEN {}
  ELSE Operands(StatementAt(b, get_loan_location(l)))

\* A loan made by a cast is refused, except for the one that makes an array a slice.
UnsupportedLoans(b, f) ==
  \E r \in f.borrow_region :
    /\ r[2] # Placeholder /\ IsOp(b, get_loan_location(r[2]), "Cast")
    /\ ~StatementAt(b, get_loan_location(r[2])).unsize

\* No block of the bodies is dead or part of a specification: loans made there are skipped.
ConflictPairs(b, f, live) ==
  UNION {{<<r[2], m>> : m \in {m \in live[r[3]] \ {r[2]} :
            \E p \in get_borrowed_places(b, r[2]), q \in get_borrowed_places(b, m) : Overlap(p, q)}} :
         r \in f.borrow_region}
\* Mutant: a loan conflicts with the earlier ones only.
EarlierConflicts(pairs) == pairs

compute_loan_conflict_sets(pairs) == pairs \cup {<<c[2], c[1]>> : c \in pairs}

LoansOfKind(fakes, kind) == {k.loan : k \in {k \in fakes : k.kind = kind}}
RestrictedBy(region, restricts) == [p \in DOMAIN restricts |-> {rl[2] : rl \in {rl \in restricts[p] : rl[1] = region}}]

\* What PoloniusInfo keeps; of `restricts' only what package statements read.
NewInfo(b, f, fakes, live, restricts, zombies, reborrows, borrow_live_at) ==
  [borrow_region |-> f.borrow_region, reborrows |-> reborrows, reborrows_direct |-> derive_nontransitive(reborrows),
   borrow_live_at |-> borrow_live_at, zombie_borrow_live_at |-> LoansOfLive(zombies, live),
   borrow_become_zombie_at |-> borrow_become_zombie_at(f, restricts, live),
   kept |-> RestrictedBy(Var(<<ReturnPlace>>), restricts), kept_zombies |-> RestrictedBy(Var(<<ReturnPlace>>), zombies),
   reference_moves |-> LoansOfKind(fakes, "Assignment"), argument_moves |-> LoansOfKind(fakes, "ArgumentMove"),
   call_magic_wands |-> LoansOfKind(fakes, "Call"),
   conflicts |-> compute_loan_conflict_sets(ConflictPairs(b, f, borrow_live_at))]

-----------------------------------------------------------------------------
(* Which loans end *)

get_borrow_live_at(info, zombie) == IF zombie THEN info.zombie_borrow_live_at ELSE info.borrow_live_at

\* Loans begin at Mid, so those of Mid include those of Start.
StartWithinMid(info, loc, zombie) ==
  get_borrow_live_at(info, zombie)[Start(loc)] \subseteq get_borrow_live_at(info, zombie)[Mid(loc)]

get_active_loans(info, loc, zombie) ==
  get_borrow_live_at(info, zombie)[Mid(loc)] \cup
  (IF zombie THEN {} ELSE {r[2] : r \in {r \in info.borrow_region : r[3] = Mid(loc)}})

\* Mutant: zombies are never expired.
DyingExceptZombies(b, info, loc, zombie) ==
  {l \in get_active_loans(info, loc, zombie) :
     /\ ~zombie /\ ~is_return(b, loc)
     /\ \A m \in get_successors(b, loc) : l \notin get_borrow_live_at(info, zombie)[Start(m)]}

get_loans_dying_at(b, info, loc, zombie) ==
  {l \in get_active_loans(info, loc, zombie) \ info.borrow_become_zombie_at[Mid(loc)] :
     /\ \A m \in get_successors(b, loc) : l \notin get_borrow_live_at(info, zombie)[Start(m)]
     /\ ~is_return(b, loc)}

get_loans_dying_between(info, loc, final, zombie) ==
  (get_active_loans(info, loc, zombie) \ info.borrow_become_zombie_at[Mid(loc)])
    \ get_borrow_live_at(info, zombie)[Start(final)]

\* The loans, the new ones last, then the zombies: a loan that is both comes twice.
WithZombies(info, loc, loans, zombies) ==
  LET old == info.borrow_live_at[Mid(loc)] IN
    Sorted(loans \cap old) \o Sorted(loans \ old) \o Sorted(zombies)

get_alive_conflicting_loans(info, l, loc) ==
  {c[2] : c \in {c \in info.conflicts : c[1] = l}} \cap info.borrow_live_at[Mid(loc)]
get_conflicting_loans(info, l) == {c[2] : c \in {c \in info.conflicts : c[1] = l}}

-----------------------------------------------------------------------------
(* construct_reborrowing_dag *)

\* Depth first from the i-th of `loans'; a loan that is met twice on a path is a cycle.
RECURSIVE visit(_, _, _, _)
visit(loans, direct, i, s) ==
  CASE i \in s.permanent -> s
    [] i \notin s.permanent /\ i \in s.temporary -> [s EXCEPT !.cycle = TRUE]
    [] OTHER ->
         LET t == FoldLeft(LAMBDA u, j : IF <<loans[i], loans[j]>> \in direct /\ ~u.cycle
                                         THEN visit(loans, direct, j, u) ELSE u,
                           [s EXCEPT !.temporary = @ \cup {i}], [j \in DOMAIN loans |-> j])
         IN [t EXCEPT !.permanent = @ \cup {i}, !.sorted = Append(@, loans[i])]

SortLoans(loans, direct) ==
  FoldLeft(LAMBDA s, i : visit(loans, direct, i, s),
           [sorted |-> <<>>, permanent |-> {}, temporary |-> {}, cycle |-> FALSE], [i \in DOMAIN loans |-> i])

construct_reborrowing_kind(info, l) ==
  CASE l \in info.call_magic_wands -> "Call"
    [] l \in info.argument_moves -> "ArgumentMove"
    [] OTHER -> "Assignment"

\* The loans of the DAG that reborrow l, and whether the references they were made from are gone.
Incoming(info, loans, l) == {m \in loans : <<m, l>> \in info.reborrows_direct}
Gone(info, zombies, m) == m \in zombies \cup info.reference_moves \cup info.argument_moves
find_loan_roots(info, loans) == {l \in loans : \A m \in loans : <<m, l>> \notin info.reborrows}

MovedIntoCall(b, info, loans, l, loc) ==
  \/ is_call(b, loc) /\ l \in find_loan_roots(info, loans)
  \/ Incoming(info, loans, l) \cap info.call_magic_wands # {}
check_incoming_zombies(b, info, loans, zombies, l, loc) ==
  MovedIntoCall(b, info, loans, l, loc) \/ \E m \in Incoming(info, loans, l) : Gone(info, zombies, m)
\* assert_eq!: the references that a loan's reborrows were made from are all gone or none is.
MixedZombies(b, info, loans, zombies, l, loc) ==
  /\ ~MovedIntoCall(b, info, loans, l, loc)
  /\ \E m, n \in Incoming(info, loans, l) : Gone(info, zombies, m) /\ ~Gone(info, zombies, n)

Node(b, info, loans, zombies, l, loc) ==
  [loan |-> l, kind |-> construct_reborrowing_kind(info, l),
   zombie |-> l \in zombies \cup info.reference_moves,
   incoming_zombies |-> check_incoming_zombies(b, info, loans, zombies, l, loc),
   reborrowing |-> Incoming(info, loans, l),
   reborrowed |-> {m \in loans : <<l, m>> \in info.reborrows_direct}]

\* Mutant: the nodes in the order in which the visit finished them.
DagInVisitOrder(b, info, loans, zombies, sorted, loc) ==
  [i \in DOMAIN sorted |-> Node(b, info, ToSet(loans), zombies, sorted[i], loc)]

\* The nodes, from the loans that nothing reborrows to the first ones.
construct_reborrowing_dag(b, info, loans, zombies, sorted, loc) ==
  [i \in DOMAIN sorted |-> Node(b, info, ToSet(loans), zombies, Reverse(sorted)[i], loc)]

=============================================================================
