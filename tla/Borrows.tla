------------------------------- MODULE Borrows -------------------------------
(***************************************************************************)
(* The expiry of loans: when the permissions that a reference took come    *)
(* back, under which name, and which magic wands are applied for it        *)
(* (prusti-viper/src/encoder/procedure_encoder.rs with                     *)
(* prusti-common/src/vir/borrows.rs), over the executions of a body that   *)
(* rustc accepts.                                                          *)
(*                                                                         *)
(* An address is the place that owns the memory.  env gives every          *)
(* reference the address it holds and the loans it was obtained through.   *)
(***************************************************************************)
EXTENDS PoloniusInfo

CONSTANTS Bodies,   \* the bodies that are encoded
          NoInfo    \* the loans of a body that has not been analysed

VARIABLES
  body,         \* the body
  info,         \* polonius_info
  pc,           \* the location to execute, or <<>>
  env,          \* reference place -> [addr, chain]
  labels,       \* location -> the environments at its labels
  executed,     \* cfg_block_has_been_executed
  outstanding,  \* [loan, addrs, unique], the loans whose memory has not come back
  readonly,     \* the shared ones whose memory has not become writable again
  expired,      \* what the last expiry transferred and restored
  outcome       \* "running", "verified", "rejected", "unsupported" or "panic"

vars == <<body, info, pc, env, labels, executed, outstanding, readonly, expired, outcome>>

CallerMemory == <<"caller">>
NoExpiry == [transfers |-> {}, restored |-> {}]

Address(e, p) ==
  LET r == DerefBase(p) IN IF r = <<>> THEN p ELSE e[r].addr \o SubSeq(p, Len(r) + 2, Len(p))
\* The loans through which p is accessed.
Chain(e, p) == LET r == IF p \in RefPlaces THEN p ELSE DerefBase(p) IN IF r = <<>> THEN {} ELSE e[r].chain
\* What an access to p touches: of a reference, the memory it refers to.
Touched(e, p) == IF p \in RefPlaces THEN e[p].addr ELSE Address(e, p)

-----------------------------------------------------------------------------
(* compute_procedure_contract: a lifetime of the result blocks the         *)
(* arguments that have it.                                                 *)

borrow_infos(fn) == {r \in ToSet(Signatures[fn].args) : r = Signatures[fn].ret}
blocked_paths(fn, r) == {i \in DOMAIN Signatures[fn].args : Signatures[fn].args[i] = r}

-----------------------------------------------------------------------------
(* vir::borrows::DAG *)

check_integrity(nodes) ==
  /\ nodes # <<>> => Head(nodes).reborrowing = {} /\ Last(nodes).reborrowed = {}
  /\ \A i, j \in DOMAIN nodes : nodes[i].loan = nodes[j].loan => i = j

ReborrowingClosure(nodes) ==
  TransitiveClosure(UNION {{<<nodes[i].loan, m>> : m \in nodes[i].reborrowing} : i \in DOMAIN nodes})
\* The complete guard: the blocks of the loan and of all that reborrow it were executed.
guard(closure, ran, l) == \A m \in {l} \cup {c[2] : c \in {c \in closure : c[1] = l}} : m[2] \in ran

-----------------------------------------------------------------------------
(* construct_vir_reborrowing_dag: what expiring a loan executes.  A        *)
(* transfer is the pair of the addresses its two names stand for.          *)

After(lbl, l) == lbl[get_loan_location(l)].after
\* The labels of the assignments that made loans: calls are labelled before their result is there.
is_mutable_borrow(b, i, l) ==
  \/ IsTerminator(b, get_loan_location(l))
  \/ get_assignment_for_loan(b, i, l).kind \in {"Mut", "Move"}

RestoredPlace(e, s) == IF s.op = "Ref" THEN Address(e, s.src) ELSE e[s.src].addr

\* Mutant: the names of zombies are not labelled.
UnlabelledTransfers(n, s, e, lbl, ins) ==
  IF s.kind \in {"Mut", "Move"} THEN {<<e[s.lhs].addr, RestoredPlace(e, s)>>} ELSE {}

AssignmentTransfers(n, s, e, lbl, ins) ==
  {<<After(lbl, m)[s.lhs].addr, After(lbl, n.loan)[s.lhs].addr>> : m \in ins} \cup
  (IF s.kind \in {"Mut", "Move"}
   THEN {<<(IF ins = {} THEN e ELSE After(lbl, n.loan))[s.lhs].addr,
           RestoredPlace(IF n.zombie /\ n.reborrowed # {} THEN After(lbl, n.loan) ELSE e, s)>>}
   ELSE {})

construct_vir_reborrowing_node_for_assignment(b, i, n, e, lbl) ==
  AssignmentTransfers(n, get_assignment_for_loan(b, i, n.loan), e, lbl,
                      {m \in n.reborrowing : n.incoming_zombies /\ is_mutable_borrow(b, i, m)})

construct_vir_reborrowing_node_for_call(b, n, e, lbl) ==
  LET lhs == StatementAt(b, get_loan_location(n.loan)).lhs
      post == lbl[get_loan_location(n.loan)].post[lhs].addr
  IN {<<After(lbl, m)[lhs].addr, post>> : m \in {m \in n.reborrowing : n.incoming_zombies}} \cup
     (IF n.incoming_zombies /\ n.reborrowing # {} THEN {} ELSE {<<e[lhs].addr, post>>})

NodeTransfers(b, i, n, e, lbl) ==
  CASE n.kind = "Assignment" -> construct_vir_reborrowing_node_for_assignment(b, i, n, e, lbl)
    [] n.kind = "Call" -> construct_vir_reborrowing_node_for_call(b, n, e, lbl)
    [] OTHER -> {}

\* Mutant: only the loan that expires gets its write permission back.
RestoredOwnWrite(i, n, loc) ==
  IF n.kind = "Assignment" /\ get_alive_conflicting_loans(i, n.loan, loc) = {} THEN {n.loan} ELSE {}

\* process_node: write permissions return once no conflicting loan is alive.
RestoredWrites(i, n, loc) ==
  IF n.kind = "Assignment" /\ get_alive_conflicting_loans(i, n.loan, loc) = {}
  THEN {n.loan} \cup get_conflicting_loans(i, n.loan) ELSE {}

MoreThanOneWand(b, n) ==
  n.kind = "Call" /\ Cardinality(borrow_infos(StatementAt(b, get_loan_location(n.loan)).fn)) # 1

\* The assertions on the way from the loans to the DAG.
DagPanics(b, i, loans, zombies, sort, nodes, loc) ==
  \/ sort.cycle
  \/ \E l \in ToSet(loans) : MixedZombies(b, i, ToSet(loans), zombies, l, loc)
  \/ ~check_integrity(nodes)
  \/ \E k \in DOMAIN nodes : MoreThanOneWand(b, nodes[k])
ActivePanics(i, loc) == \E zombie \in BOOLEAN : ~StartWithinMid(i, loc, zombie)

\* The names of a transfer, and whether its loan had expired before on the path: where paths join, a
\* loan expires that on some of them is over already.
Transfer(names, again) == [names |-> names, again |-> again]

\* A transfer only renames a permission; a wand is applied where the complete guard holds.
\* m is what the loans expire in: [env, labels, executed, outstanding, readonly], and other transfers.
encode_expiration_of_loans(m, end, nodes, closure) ==
  LET run == {k \in DOMAIN nodes : guard(closure, m.executed, nodes[k].loan)}
      ended == {nodes[k].loan : k \in {k \in DOMAIN nodes : nodes[k].kind = "Call" => k \in run}}
      restored == UNION {RestoredWrites(info, nodes[k], end) : k \in run}
      again(l) == \A o \in m.outstanding : o.loan # l
  IN /\ expired' = [transfers |-> m.others \cup
                       UNION {{Transfer(t, again(nodes[k].loan)) : t \in NodeTransfers(body, info, nodes[k], m.env, m.labels)} :
                                k \in run},
                    restored |-> {o \in m.readonly : o.loan \in restored}]
     /\ outstanding' = {o \in m.outstanding : o.loan \notin ended}
     /\ readonly' = {o \in m.readonly : o.loan \notin restored}

ExpireLoans(m, loc, end, loans, zombies, then) ==
  \E sort \in {SortLoans(loans, info.reborrows_direct)} :
  \E nodes \in {construct_reborrowing_dag(body, info, loans, zombies, sort.sorted, loc)} :
  \E closure \in {ReborrowingClosure(nodes)} :
    /\ encode_expiration_of_loans(m, end, nodes, closure)
    /\ outcome' = IF DagPanics(body, info, loans, zombies, sort, nodes, loc) \/ ActivePanics(info, loc)
                  THEN "panic" ELSE then

encode_expiring_borrows_at(m, loc) ==
  \E loans \in {get_loans_dying_at(body, info, loc, FALSE) \ {Placeholder}},
     zombies \in {get_loans_dying_at(body, info, loc, TRUE)} :
    ExpireLoans(m, loc, loc, WithZombies(info, loc, loans, zombies), zombies, "running")

encode_expiring_borrows_between(m, loc, final) ==
  \E loans \in {get_loans_dying_between(info, loc, final, FALSE) \ {Placeholder}},
     zombies \in {get_loans_dying_between(info, loc, final, TRUE)} :
    ExpireLoans(m, loc, final, WithZombies(info, loc, loans, zombies), zombies, "running")

-----------------------------------------------------------------------------
(* The loans and the references that a statement makes *)

Loan(l, addrs, unique) == [loan |-> l, addrs |-> addrs, unique |-> unique]
IsUnique(p) == p[1] \notin SharedRefs

CallLoans(e, loc, s, dests) ==
  {Loan(FakeLoan(loc, dests + k), {e[s.args[k]].addr}, IsUnique(s.args[k])) : k \in DOMAIN s.args} \cup
  (IF dests = 0 THEN {}
   ELSE {Loan(FakeLoan(loc, 1), {e[s.args[k]].addr : k \in blocked_paths(s.fn, Signatures[s.fn].ret)}, IsUnique(s.lhs))})
NewLoans(e, loc, s) ==
  CASE s.op = "Ref" -> {Loan(RealLoan(loc), {Address(e, s.src)}, s.kind = "Mut")}
    [] s.op \in {"Use", "Cast"} -> {Loan(FakeLoan(loc, 1), {e[s.src].addr}, IsUnique(s.lhs))}
    [] s.op = "Aggregate" -> {Loan(FakeLoan(loc, k), {e[s.src[k]].addr}, TRUE) : k \in DOMAIN s.src}
    [] s.op = "Call" -> CallLoans(e, loc, s, Len(s.lhs))
    [] OTHER -> {}

\* Only a borrow of what is writable makes it read-only.
NewReadonly(loans, s) ==
  IF s.op = "Ref" /\ (DerefBase(s.src) = <<>> \/ IsUnique(s.src)) THEN {l \in loans : ~l.unique} ELSE {}

Reference(addr, chain) == [addr |-> addr, chain |-> chain]
Assigned(e, loc, s) ==
  CASE s.op = "Ref" -> [e EXCEPT ![s.lhs] = Reference(Address(e, s.src), Chain(e, s.src) \cup {RealLoan(loc)})]
    [] s.op \in {"Use", "Cast"} -> [e EXCEPT ![s.lhs] = Reference(e[s.src].addr, e[s.src].chain \cup {FakeLoan(loc, 1)})]
    [] s.op = "Aggregate" ->
         [p \in DOMAIN e |->
            IF Len(p) = 2 /\ <<p[1]>> = s.lhs
            THEN LET k == CHOOSE k \in DOMAIN TupleFields : TupleFields[k] = p[2]
                 IN Reference(e[s.src[k]].addr, e[s.src[k]].chain \cup {FakeLoan(loc, k)})
            ELSE e[p]]
    [] OTHER -> e

\* The result of a call comes from one of the arguments it blocks; the caller cannot tell which.
CallResults(e, loc, s) ==
  IF s.lhs = <<>> THEN {e}
  ELSE LET blocked == blocked_paths(s.fn, Signatures[s.fn].ret)
           chain == UNION {e[s.args[k]].chain \cup {FakeLoan(loc, 1), FakeLoan(loc, 1 + k)} : k \in blocked}
       IN {[e EXCEPT ![s.lhs] = Reference(e[s.args[k]].addr, chain)] : k \in blocked}

Memory(e, lbl, ran, loans, s) ==
  [env |-> e, labels |-> lbl, executed |-> ran, others |-> {}, outstanding |-> outstanding \cup loans,
   readonly |-> readonly \cup NewReadonly(loans, s)]

-----------------------------------------------------------------------------
(* The execution of the encoded body *)

Init ==
  /\ body \in Bodies /\ info = NoInfo
  /\ pc = <<1, 1>>
  /\ env = [p \in RefPlaces |-> IF p = <<Argument>> THEN Reference(CallerMemory, {}) ELSE Reference(<<>>, {})]
  /\ labels = [l \in Locations(body) |-> [after |-> env, post |-> env]]
  /\ executed = {1}
  /\ outstanding = {} /\ readonly = {} /\ expired = NoExpiry
  /\ outcome = "running"

\* rustc reports its errors before the encoder starts.
Reject ==
  /\ info = NoInfo /\ outcome = "running"
  /\ ~Accepted(body)
  /\ outcome' = "rejected"
  /\ UNCHANGED <<body, info, pc, env, labels, executed, outstanding, readonly, expired>>

\* PoloniusInfo::new
New ==
  /\ info = NoInfo /\ outcome = "running"
  /\ Accepted(body)
  /\ \E facts \in {NllFacts(body)}, pts \in {Points(body)} :
     \E fakes \in {add_fake_facts(body, facts)} :
     \E f \in {AllFacts(body, facts, fakes)} :
       /\ outcome' = IF UnsupportedLoans(body, f) THEN "unsupported" ELSE outcome
       /\ \E live \in {LiveRegions(body, f)} :
          \E sub \in {SubsetAt(f, live, pts)} :
          \E restricts \in {RestrictsAt(f, live, sub, pts)} :
          \E zombies \in {derive_zombie_requires(f, restricts, live, sub, pts)} :
          \E reborrows \in {Irreflexive(TransitiveClosure(load_reborrows(f, fakes, restricts, zombies)))} :
            info' = NewInfo(body, f, fakes, live, restricts, zombies, reborrows, LoansOfLive(restricts, live))
  /\ UNCHANGED <<body, pc, env, labels, executed, outstanding, readonly, expired>>

Running(terminator) == info # NoInfo /\ outcome = "running" /\ IsTerminator(body, pc) = terminator

Statement ==
  /\ Running(FALSE)
  /\ \E s \in {StatementAt(body, pc)} :
       /\ env' = Assigned(env, pc, s)
       /\ labels' = [labels EXCEPT ![pc] = [after |-> env', post |-> env']]
       /\ encode_expiring_borrows_at(Memory(env', labels', executed, NewLoans(env, pc, s), s), pc)
  /\ pc' = <<pc[1], pc[2] + 1>>
  /\ UNCHANGED <<body, info, executed>>

\* encode_terminator with the edge to a successor; a call is labelled before its result is there.
Terminator ==
  /\ Running(TRUE)
  /\ \E s \in {StatementAt(body, pc)} : \E target \in s.to :
       /\ env' \in IF s.op = "Call" THEN CallResults(env, pc, s) ELSE {env}
       /\ labels' = [labels EXCEPT ![pc] = [after |-> env, post |-> env']]
       /\ encode_expiring_borrows_between(Memory(env', labels', executed, NewLoans(env, pc, s), s), pc, <<target, 1>>)
       /\ pc' = <<target, 1>>
       /\ executed' = executed \cup {target}
  /\ UNCHANGED <<body, info>>

\* encode_package_end_of_method: the loans that the result keeps alive expire in the wand, then what
\* the argument refers to gets its name of the pre-state.
PackageLoans == info.kept[Start(pc)] \ {Placeholder}
encode_package_end_of_method(m) ==
  ExpireLoans([m EXCEPT !.others = {Transfer(<<env[<<Argument>>].addr, CallerMemory>>, FALSE)}], pc, pc,
              WithZombies(info, pc, PackageLoans, info.kept_zombies[Start(pc)]),
              info.kept_zombies[Start(pc)], "verified")

Return ==
  /\ Running(TRUE) /\ is_return(body, pc)
  /\ IF body.ret THEN encode_package_end_of_method(Memory(env, labels, executed, {}, StatementAt(body, pc)))
     ELSE outcome' = "verified" /\ UNCHANGED <<outstanding, readonly, expired>>
  /\ UNCHANGED <<body, info, pc, env, labels, executed>>

Done == outcome # "running" /\ UNCHANGED vars

Next == Reject \/ New \/ Statement \/ Terminator \/ Return \/ Done

Spec == Init /\ [][Next]_vars

-----------------------------------------------------------------------------
(* Properties *)

Covers(o, address) == \E a \in o.addrs : Overlap(a, address)

\* Every loan that was made and has not been given back is one that the analysis still holds for
\* alive or for a zombie, so that some later location expires it; when the body returns, none is
\* left, those of the result having gone into the wand (get_loans_dying_at, get_loans_dying_between,
\* encode_package_end_of_method).
NoLoanForgotten ==
  /\ outcome = "running" /\ info # NoInfo =>
       {o.loan : o \in outstanding} \subseteq info.borrow_live_at[Start(pc)] \cup info.zombie_borrow_live_at[Start(pc)]
  /\ outcome = "verified" => outstanding = {}

\* A statement that rustc accepts finds the permissions it needs: no loan is outstanding on what it
\* accesses but those through which it accesses it, what it writes is no longer read-only, and
\* nothing borrows from a local that goes out of scope.
NothingBlockedIsUsed ==
  outcome = "running" /\ info # NoInfo =>
    /\ \A a \in Accesses(body, StatementAt(body, pc)) :
         /\ \A o \in outstanding : o.loan \notin Chain(env, a.place) /\ Covers(o, Touched(env, a.place))
                                      => ~a.unique /\ ~o.unique
         /\ \A o \in readonly : Covers(o, Touched(env, a.place)) => ~a.unique
    /\ is_return(body, pc) => \A o \in outstanding : \A x \in Owners : ~Covers(o, <<x>>)

HasBranch(b) == \E l \in Locations(b) : IsOp(b, l, "Switch")

\* When a loan expires, the two names of every permission that is transferred stand for the same
\* memory, whatever was assigned since the loan was made (the assertion of encode_transfer_permissions).
\* Where paths join, the guard of a node holds also on those on which its loan has expired before
\* (construct_location_guard).  There the names may differ, and the assertion would fail, although
\* the memory came back when the loan expired first.
TransfersAlias ==
  \A t \in expired.transfers : t.names[1] = t.names[2] \/ (t.again /\ HasBranch(body))

\* Write permissions come back for a shared loan only when no other reference can still read there
\* (compute_loan_conflict_sets, process_node).
RestoreIsSafe ==
  \A o \in outstanding, r \in expired.restored : \A a \in r.addrs : ~o.unique => ~Covers(o, a)

\* In a body without branches no assertion of the construction of the reborrowing graph fails: the
\* relation has no cycle, the nodes are sorted and occur once, and the reborrows of a loan agree on
\* whether their references are gone.
NoPanicWithoutBranches == ~HasBranch(body) => outcome # "panic"

=============================================================================
