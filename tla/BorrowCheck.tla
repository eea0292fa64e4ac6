----------------------------- MODULE BorrowCheck -----------------------------
(***************************************************************************)
(* The MIR of a procedure with references, the facts that rustc's borrow   *)
(* checker dumps about it and the bodies that it accepts: the input of     *)
(* PoloniusInfo.  rustc is external; its part is modelled by what          *)
(* prusti-interface/src/environment/polonius_info.rs reads of it.          *)
(*                                                                         *)
(* A body is [blocks, ret]: its blocks are numbered so that every edge     *)
(* leads to a larger number, and ret says whether it returns a reference.  *)
(* A location is <<block, index>>; the index after the last statement is   *)
(* that of the terminator.  A place is a local followed by its             *)
(* projections: fields and "*".                                            *)
(***************************************************************************)
EXTENDS Integers, Sequences, FiniteSets, SequencesExt, FiniteSetsExt

CONSTANTS MutRefs,      \* the locals of type &mut T
          SharedRefs,   \* the locals of type &T
          Tuples,       \* the locals of type (&mut T, &mut T)
          Argument,     \* the argument of type &'a mut T
          ReturnPlace,  \* _0, of type &'a mut T if the body returns a reference
          Owners,       \* the locals that own what they hold
          Signatures    \* signature -> [args, ret], the lifetimes of its references

NoLifetime == "none"
TupleFields == <<"0", "1">>

-----------------------------------------------------------------------------
(* MIR *)

Before(s, t) == \E i \in DOMAIN s : s[i] < t[i] /\ \A j \in 1..i - 1 : s[j] = t[j]
Sorted(S) == [i \in 1..Cardinality(S) |-> CHOOSE s \in S : Cardinality({t \in S : Before(t, s)}) = i - 1]

Block(b, loc) == b.blocks[loc[1]]
IsTerminator(b, loc) == loc[2] > Len(Block(b, loc).stmts)
StatementAt(b, loc) ==
  IF IsTerminator(b, loc) THEN Block(b, loc).term ELSE Block(b, loc).stmts[loc[2]]
LocationSeq(b) ==
  FlattenSeq([i \in DOMAIN b.blocks |-> [j \in 1..Len(b.blocks[i].stmts) + 1 |-> <<i, j>>]])
Locations(b) == UNION {{<<i, j>> : j \in 1..Len(b.blocks[i].stmts) + 1} : i \in DOMAIN b.blocks}

get_successors(b, loc) ==
  IF IsTerminator(b, loc) THEN {<<i, 1>> : i \in StatementAt(b, loc).to}
  ELSE {<<loc[1], loc[2] + 1>>}

IsOp(b, loc, op) == StatementAt(b, loc).op = op
is_call(b, loc)   == IsOp(b, loc, "Call")
is_return(b, loc) == IsOp(b, loc, "Return")

\* The places that may hold a reference; References are the locals.
References == MutRefs \cup SharedRefs
RefPlaces == {<<x>> : x \in References} \cup {<<u, f>> : u \in Tuples, f \in ToSet(TupleFields)}

\* The reference that place p goes through, or <<>>.
DerefBase(p) ==
  IF "*" \in ToSet(p) THEN SubSeq(p, 1, (CHOOSE i \in DOMAIN p : p[i] = "*") - 1) ELSE <<>>

Overlap(p, q) == IsPrefix(p, q) \/ IsPrefix(q, p)

\* The places a statement moves, copies or reborrows, and the local it defines.
Operands(s) ==
  CASE s.op \in {"Ref", "Use", "Cast", "Read"} -> {s.src}
    [] s.op = "Aggregate" -> ToSet(s.src)
    [] s.op = "Call" -> ToSet(s.args)
    [] OTHER -> {}
Defines(s) == IF s.op \in {"Ref", "Use", "Cast", "Aggregate", "Call"} THEN s.lhs ELSE <<>>

-----------------------------------------------------------------------------
(* Relations *)

Compose(R, S) == {<<e[1][1], e[2][2]>> : e \in {e \in R \X S : e[1][2] = e[2][1]}}
Twice(R) == R \cup Compose(R, R)
\* For relations whose paths have at most sixteen steps.
TransitiveClosure(R) == Twice(Twice(Twice(Twice(R))))

-----------------------------------------------------------------------------
(* The facts of the borrow checker.  A point is a location with 0 (Start)  *)
(* or 1 (Mid).  A loan is <<class, block, index, n>>: class 0 for a borrow *)
(* of the program, 1 for the placeholder of the argument, 2 for the loans  *)
(* that add_fake_facts invents.  Loans are numbered in this order.         *)

Start(loc) == <<loc[1], loc[2], 0>>
Mid(loc)   == <<loc[1], loc[2], 1>>
LocationOf(point) == <<point[1], point[2]>>
Points(b) ==
  FlattenSeq([i \in DOMAIN b.blocks |->
                [k \in 1..2 * (Len(b.blocks[i].stmts) + 1) |-> <<i, (k + 1) \div 2, (k + 1) % 2>>]])

RealLoan(loc)    == <<0, loc[1], loc[2], 0>>
FakeLoan(loc, n) == <<2, loc[1], loc[2], n>>
Placeholder      == <<1, 0, 0, 0>>
get_loan_location(l) == <<l[2], l[3]>>

\* The region of a place, of a borrow, of a lifetime of a call, and 'a.
Var(p) == <<"var", p>>
BorrowRegion(loc) == <<"borrow", loc>>
CallRegion(loc, lifetime) == <<lifetime, loc>>
Universal == <<"universal", <<>>>>

CfgEdges(b) ==
  UNION {{<<Start(l), Mid(l)>>} \cup {<<Mid(l), Start(m)>> : m \in get_successors(b, l)} :
           l \in Locations(b)}
Preds(edges, q) == {e[1] : e \in {e \in edges : e[2] = q}}
Succs(edges, p) == {e[2] : e \in {e \in edges : e[1] = p}}

OutlivesAt(b, loc, s) ==
  CASE s.op = "Ref" ->
         {<<BorrowRegion(loc), Var(s.lhs)>>} \cup
         {<<Var(q), BorrowRegion(loc)>> : q \in {DerefBase(s.src)} \ {<<>>}}
    [] s.op \in {"Use", "Cast"} -> {<<Var(s.src), Var(s.lhs)>>}
    [] s.op = "Aggregate" -> {<<Var(s.src[i]), Var(s.lhs \o <<TupleFields[i]>>)>> : i \in DOMAIN s.src}
    [] s.op = "Call" ->
         {<<Var(s.args[i]), CallRegion(loc, Signatures[s.fn].args[i])>> : i \in DOMAIN s.args} \cup
         {<<CallRegion(loc, r), Var(s.lhs)>> : r \in {Signatures[s.fn].ret} \ {NoLifetime}}
    [] OTHER -> {}

RefLocations(b) == {l \in Locations(b) : IsOp(b, l, "Ref")}

\* The equalities of the regions of _0 and of the argument with 'a hold everywhere.
NllFacts(b) ==
  [edges |-> CfgEdges(b),
   outlives |-> UNION {{<<e[1], e[2], Mid(l)>> : e \in OutlivesAt(b, l, StatementAt(b, l))} : l \in Locations(b)}
                \cup {<<r[1], r[2], p>> : r \in {<<Universal, Var(<<Argument>>)>>, <<Var(<<Argument>>), Universal>>,
                                                 <<Universal, Var(<<ReturnPlace>>)>>, <<Var(<<ReturnPlace>>), Universal>>},
                                          p \in ToSet(Points(b))},
   borrow_region |-> {<<BorrowRegion(l), RealLoan(l), Mid(l)>> : l \in RefLocations(b)},
   killed |-> {<<RealLoan(m), Mid(l)>> : <<l, m>> \in
                 {lm \in Locations(b) \X RefLocations(b) :
                    Defines(StatementAt(b, lm[1])) = <<StatementAt(b, lm[2]).src[1]>>}},
   universal_region |-> {Universal},
   placeholder |-> {<<Universal, Placeholder>>}]

\* The variables that are live on entry to each point, and their regions.
UsedLocals(b, s) ==
  {p[1] : p \in Operands(s)} \cup
  (IF s.op = "Write" /\ DerefBase(s.lhs) # <<>> THEN {s.lhs[1]} ELSE {}) \cup
  (IF s.op = "Return" /\ b.ret THEN {ReturnPlace} ELSE {})
LiveVars(b, edges) ==
  FoldLeft(LAMBDA live, p :
             [live EXCEPT ![p] =
                (IF p[3] = 1 THEN UsedLocals(b, StatementAt(b, LocationOf(p))) ELSE {}) \cup
                {x \in UNION {live[q] : q \in Succs(edges, p)} :
                   p[3] = 0 \/ Defines(StatementAt(b, LocationOf(p))) # <<x>>}],
           [p \in ToSet(Points(b)) |-> {}], Reverse(Points(b)))
LiveRegions(b, f) ==
  LET vars == LiveVars(b, f.edges) IN
    [p \in DOMAIN vars |-> f.universal_region \cup {Var(q) : q \in {q \in RefPlaces : q[1] \in vars[p]}}]

-----------------------------------------------------------------------------
(* Which bodies rustc accepts: NLL, where a region is one set of points. *)

\* The places a statement accesses, and whether it needs them for itself.
Accesses(b, s) ==
  {[place |-> p, unique |-> s.op \notin {"Read"} /\ ("kind" \in DOMAIN s => s.kind \in {"Mut", "Move"})] : p \in Operands(s)} \cup
  {[place |-> s.lhs, unique |-> TRUE] : x \in {s.op} \cap {"Write"}} \cup
  {[place |-> <<ReturnPlace>>, unique |-> TRUE] : x \in {x \in {s.op} : x = "Return" /\ b.ret}}

IsUniqueLoan(b, l) == StatementAt(b, get_loan_location(l)).kind = "Mut"

RegionPoints(outlives, live, r) ==
  {p \in DOMAIN live : \E q \in live[p] : q = r \/ <<r, q>> \in outlives}

LoansInScope(f, live, outlives, pts) ==
  FoldLeft(LAMBDA scope, q :
             [scope EXCEPT ![q] =
                {l \in UNION {scope[p] \cup {r[2] : r \in {r \in f.borrow_region : r[3] = p}} : p \in Preds(f.edges, q)} :
                   /\ q \in RegionPoints(outlives, live, BorrowRegion(get_loan_location(l)))
                   /\ \A p \in Preds(f.edges, q) : <<l, p>> \notin f.killed}],
           [q \in ToSet(pts) |-> {}], pts)

NoConflict(b, scope) ==
  \A loc \in Locations(b) : LET s == StatementAt(b, loc) IN \A l \in scope[Start(loc)] :
    LET src == StatementAt(b, get_loan_location(l)).src IN
      /\ \A a \in Accesses(b, s) : Overlap(a.place, src) => ~a.unique /\ ~IsUniqueLoan(b, l)
      /\ s.op = "Return" => src[1] \notin Owners

\* The references that are initialised at each location, on every path to it.
Below(p) == {q \in RefPlaces : IsPrefix(p, q)}
MovedOut(s) == IF s.op \in {"Aggregate", "Call", "Cast"} \/ ("kind" \in DOMAIN s /\ s.kind = "Move") THEN Operands(s) ELSE {}
AfterStatement(b, init, loc) ==
  (init[loc] \ MovedOut(StatementAt(b, loc))) \cup
  (IF Defines(StatementAt(b, loc)) = <<>> THEN {} ELSE Below(Defines(StatementAt(b, loc))))
Initialised(b) ==
  FoldLeft(LAMBDA init, loc :
             [init EXCEPT ![loc] = {p \in RefPlaces : \A m \in {m \in Locations(b) : loc \in get_successors(b, m)} :
                                                        p \in AfterStatement(b, init, m)}],
           [loc \in Locations(b) |-> {<<Argument>>}], Tail(LocationSeq(b)))
OnlyInitialisedIsUsed(b, init) ==
  \A loc \in Locations(b) : \A a \in Accesses(b, StatementAt(b, loc)) :
    LET r == IF DerefBase(a.place) = <<>> THEN a.place ELSE DerefBase(a.place) IN
      r[1] \in Owners \/ r \in init[loc]

Accepted(b) ==
  /\ OnlyInitialisedIsUsed(b, Initialised(b))
  /\ LET f == NllFacts(b)
         live == LiveRegions(b, f)
     IN NoConflict(b, LoansInScope(f, live, TransitiveClosure({<<o[1], o[2]>> : o \in f.outlives}), Points(b)))

=============================================================================
