------------------------- MODULE ProcedureEncoder -------------------------
(***************************************************************************)
(* procedure_encoder.rs: from a MIR body to a loop-free method, the graph  *)
(* of that method (cfg/method.rs) and the passes that optimise it          *)
(* (optimizations/methods).                                                *)
(*                                                                         *)
(* Memory is seen at the level of leaves: a local variable, its fields and *)
(* the permissions to them are the permissions to its leaves.  So folding  *)
(* and unfolding is no step here (see FoldUnfold), and a reference is      *)
(* what it refers to.  The flags of executed blocks and the copies of      *)
(* discriminants, which nothing else reads, are left out; so are borrows   *)
(* that are created in the body, arrays and enums.                         *)
(***************************************************************************)
EXTENDS ProcedureLoops

CONSTANT Contracts   \* per called function: [pure, pre, post, body], over <<"arg">> and <<"res">>

(***************************************************************************)
(* VIR expressions; a Boolean is 0 or 1.  Val(p) is the value of a leaf,   *)
(* Old(p) and Lab(p) its value at the labels of the precondition and of    *)
(* the last call.                                                          *)
(***************************************************************************)
Node(k, p, n, s) == [k |-> k, p |-> p, n |-> n, s |-> s]
Num(n) == Node("num", <<>>, n, <<>>)
Val(p) == Node("val", p, 0, <<>>)
Old(p) == Node("old", p, 0, <<>>)
Lab(p) == Node("lab", p, 0, <<>>)
Op(op, s) == Node(op, <<>>, 0, s)
App(f, a) == Node("app", f, 0, <<a>>)
Conjoin(es) == IF es = <<>> THEN Num(1) ELSE Op("and", es)
Implies(l, r) == Op("implies", <<l, r>>)

RECURSIVE PlacesIn(_, _)
PlacesIn(e, kinds) ==
  (IF e.k \in kinds THEN {e.p} ELSE {}) \cup UNION {PlacesIn(e.s[j], kinds) : j \in DOMAIN e.s}

\* Every node of the kind at the place becomes the other expression.
RECURSIVE replace_place(_, _, _, _)
replace_place(e, kind, p, new) ==
  IF e.k = kind /\ e.p = p THEN new
  ELSE IF e.s = <<>> THEN e ELSE [e EXCEPT !.s = [j \in DOMAIN e.s |-> replace_place(e.s[j], kind, p, new)]]

(***************************************************************************)
(* VIR statements and methods.  acc is a set of leaves.                    *)
(***************************************************************************)
Stmt(k, p, e, acc, err) == [k |-> k, p |-> p, e |-> e, acc |-> acc, err |-> err]
AssignStmt(p, e) == Stmt("assign", p, e, {}, "")
MoveStmt(p, q) == Stmt("move", p, Val(q), {}, "")
Havoc(p) == Stmt("havoc", p, Num(1), {}, "")
Inhale(e) == Stmt("inhale", <<>>, e, {}, "")
InhaleAcc(acc) == Stmt("inhale_acc", <<>>, Num(1), acc, "")
AssertStmt(e, err) == Stmt("assert", <<>>, e, {}, err)
ExhaleAcc(acc, err) == Stmt("exhale_acc", <<>>, Num(1), acc, err)
ReadAcc(acc, err) == Stmt("read_acc", <<>>, Num(1), acc, err)
Label(l) == Stmt("label", <<l>>, Num(1), {}, "")

Successor(k, cases, to) == [k |-> k, cases |-> cases, to |-> to]
Undefined == Successor("undefined", <<>>, 0)
Return == Successor("return", <<>>, 0)
Kill == Successor("kill", <<>>, 0)            \* of a MIR block only
Goto(b) == Successor("goto", <<>>, b)
GotoSwitch(cases, b) == Successor("switch", cases, b)

add_block(method, stmts) == Append(method, [stmts |-> stmts, succ |-> Undefined])
set_successor(method, b, succ) == [method EXCEPT ![b].succ = succ]
add_stmts(method, b, stmts) == [method EXCEPT ![b].stmts = @ \o stmts]

\* The targets of a switch: its default first.
targets(succ) ==
  CASE succ.k = "goto" -> <<succ.to>>
    [] succ.k = "switch" -> <<succ.to>> \o [j \in DOMAIN succ.cases |-> succ.cases[j][2]]
    [] OTHER -> <<>>
get_following(succ) == Range(targets(succ))
predecessors(method, b) == {a \in DOMAIN method : b \in get_following(method[a].succ)}

\* Kahn's algorithm removes every block unless there is a cycle.
RECURSIVE has_loops(_, _)
has_loops(method, left) ==
  LET roots == {b \in left : predecessors(method, b) \cap left = {}}
  IN IF roots = {} THEN left # {} ELSE has_loops(method, left \ roots)

\* Depth first from each block in turn; the first block stays first.
RECURSIVE topological_sort_impl(_, _, _)
topological_sort_impl(method, work, sorted) ==
  IF work = <<>> THEN sorted
  ELSE LET b == Head(work)
           below == topological_sort_impl(method, targets(method[b].succ), sorted)
       IN topological_sort_impl(method, Tail(work),
             IF b = 1 \/ b \in Range(sorted) THEN sorted ELSE Append(below, b))

\* Mutant: the blocks are visited in the order in which they were added.
get_topological_sort_AsAdded(method) == [j \in DOMAIN method |-> j]

get_topological_sort(method) ==
  <<1>> \o Reverse(topological_sort_impl(method, [j \in 1..Len(method) - 1 |-> j + 1], <<>>))

\* The local variables that are assigned between two blocks: by a call of a
\* builtin method or as a whole.
collect_assigned_vars(method, start, end) ==
  LET back == {<<b, a>> \in (DOMAIN method) \X (DOMAIN method) : a # end /\ b \in get_following(method[a].succ)}
      visited == Reach(back, {start}) \ {end}
      stmts == UNION {Range(method[b].stmts) : b \in visited}
  IN {s.p : s \in {s \in stmts : s.k \in {"havoc", "move"} /\ Len(s.p) = 1}}

(***************************************************************************)
(* Statements.  P is the procedure: [mir, args, pre, post, trait,          *)
(* check_panics, allow_unsupported, usize], its info, the leaves that are  *)
(* initialised before each block and the block of each loop's invariant.   *)
(***************************************************************************)
encode_operand_expr(o) == IF o.k = "const" THEN Num(o.n) ELSE Val(o.p)

encode_havoc_and_allocation(p) == <<Havoc(p), InhaleAcc(LeavesOf(p))>>

prepare_assign_target(init, p) ==
  IF is_vir_place_accessible(init, p) THEN <<>> ELSE encode_havoc_and_allocation(p)

encode_copy_value_assign(init, p, e) == prepare_assign_target(init, p) \o <<AssignStmt(p, e)>>

\* The leaf of p that corresponds to a leaf of q.
Corresponding(p, q, l) == p \o SubSeq(l, Len(q) + 1, Len(l))

\* A value of more than one leaf is copied by an equality of snapshots.
encode_copy_snapshot_value(p, q) ==
  encode_havoc_and_allocation(p) \o
    <<Inhale(Conjoin(SetToSeq({Op("eq", <<Val(l), Val(Corresponding(p, q, l))>>) : l \in LeavesOf(q)})))>>

encode_assign_operand(init, p, o) ==
  CASE o.k = "move" -> <<MoveStmt(p, o.p)>>
    [] o.k = "copy" /\ o.p \notin Leaves -> encode_copy_snapshot_value(p, o.p)
    [] OTHER -> encode_copy_value_assign(init, p, encode_operand_expr(o))

encode_assign_checked_binary_op(init, st) ==
  LET operands == [j \in 1..2 |-> encode_operand_expr(st.rv.ops[j])]
  IN prepare_assign_target(init, st.p) \o
       <<AssignStmt(Append(st.p, "0"), Op("add", operands)),
         AssignStmt(Append(st.p, "1"), Op("overflows", operands))>>

encode_assign_aggregate(init, st) ==
  encode_havoc_and_allocation(st.p) \o
    FlattenSeq([j \in DOMAIN st.rv.ops |->
                 encode_assign_operand(init, Append(st.p, <<"0", "1">>[j]), st.rv.ops[j])])

encode_assign(init, st) ==
  CASE st.rv.k = "use" -> encode_assign_operand(init, st.p, st.rv.ops[1])
    [] st.rv.k = "checked_add" -> encode_assign_checked_binary_op(init, st)
    [] st.rv.k = "aggregate" -> encode_assign_aggregate(init, st)
    [] OTHER -> encode_copy_value_assign(init, st.p,
                  Op(st.rv.k, [j \in DOMAIN st.rv.ops |-> encode_operand_expr(st.rv.ops[j])]))

is_panic_block(block) == block.term.k = "call" /\ block.term.fn = "panic"

\* The statements with what is initialised after them.
encode_block_statements(P, b) ==
  FoldLeft(LAMBDA acc, st : [stmts |-> acc.stmts \o (IF is_panic_block(P.mir[b]) THEN <<>> ELSE encode_assign(acc.init, st)),
                             init |-> InitAfterStmt(acc.init, st)],
           [stmts |-> <<>>, init |-> P.init[b]], P.mir[b].stmts)

(***************************************************************************)
(* Terminators: the statements, the successor, and what is unsupported.    *)
(***************************************************************************)
Encoded(stmts, succ, err) == [stmts |-> stmts, succ |-> succ, err |-> err]

\* The value of an actual argument in the contract of a callee.
replace_fake_exprs(e, actual, dest) ==
  LET labelled == IF actual.k = "const" THEN Num(actual.n) ELSE Lab(actual.p)
      pre == replace_place(e, "val", <<"arg">>, encode_operand_expr(actual))
      post == replace_place(pre, "old", <<"arg">>, labelled)
  IN replace_place(post, "val", <<"res">>, Val(dest))

\* A constant argument gets a variable of its own, outside of loops only.
encode_impure_function_call(P, b, term) ==
  LET contract == Contracts[term.fn]
      actual == term.ops[1]
      constant == actual.k = "const"
      arg == IF constant THEN <<"fresh">> ELSE actual.p
      returns == term.to # <<>>
      postcondition == replace_place(contract.post, "val", <<"arg">>, Old(<<"arg">>))
      before == <<Label("call")>>
                 \o (IF constant THEN encode_havoc_and_allocation(arg) ELSE <<>>)
                 \o <<AssertStmt(replace_fake_exprs(contract.pre, actual, term.dest), "pre"),
                      ExhaleAcc(LeavesOf(arg), "perm")>>
      result == <<Havoc(term.dest), InhaleAcc(LeavesOf(term.dest)),
                  Inhale(replace_fake_exprs(postcondition, actual, term.dest)), Label("post")>>
  IN IF constant /\ P.info.depth[b] > 0 THEN Encoded(<<>>, Kill, "unsupported")
     ELSE IF returns THEN Encoded(before \o result, Goto(term.to[1]), "")
     ELSE Encoded(before \o <<Label("post"), Inhale(Num(0))>>, Kill, "")

encode_pure_function_call(term) ==
  Encoded(<<Label("call"), Havoc(term.dest), InhaleAcc(LeavesOf(term.dest)),
            Inhale(Op("eq", <<Val(term.dest), App(term.fn, encode_operand_expr(term.ops[1]))>>))>>,
          Goto(term.to[1]), "")

\* The values of the switch, in order, then its default.  A default that is
\* unreachable or a specification is dropped; a Boolean switch is ordered as
\* in the source.
encode_switch(P, term) ==
  LET discr == encode_operand_expr(term.ops[1])
      n == Len(term.to) - 1
      cases == [j \in 1..n |-> <<Op("eq", <<discr, Num(term.fn[j])>>), term.to[j]>>]
      default == Last(term.to)
      kill_default_target == \/ P.mir[default].term.k = "unreachable"
                             \/ default \notin P.info.nonspec
      swap == n = 1 /\ term.fn = <<0>> /\ term.to[1] > default
  IN IF kill_default_target THEN GotoSwitch(SubSeq(cases, 1, n - 1), cases[n][2])
     ELSE IF swap THEN GotoSwitch(<<<<Op("not", <<cases[1][1]>>), default>>>>, term.to[1])
     ELSE GotoSwitch(cases, default)

\* The value that the operand is expected to have is in term.fn.
encode_assert(P, term) ==
  LET cond == encode_operand_expr(term.ops[1])
      guard == IF term.fn = <<1>> THEN cond ELSE Op("not", <<cond>>)
  IN Encoded(<<IF P.check_panics THEN AssertStmt(guard, "assert") ELSE Inhale(guard)>>, Goto(term.to[1]), "")

encode_panic(P) ==
  Encoded(IF P.check_panics THEN <<AssertStmt(Num(0), "panic")>> ELSE <<>>, Kill, "")

\* The functions that the code encodes in a way of their own are left out: Box::new, eq and ne of a
\* structural PartialEq, Fn::call and the length of a slice need boxes, snapshots, closures or arrays.
encode_call(P, b, term) ==
  CASE term.fn = "panic" -> encode_panic(P)
    [] term.fn = "next" -> Encoded(<<>>, Kill, "unsupported")
    [] OTHER -> IF Contracts[term.fn].pure THEN encode_pure_function_call(term)
                ELSE encode_impure_function_call(P, b, term)

encode_terminator(P, b, init) ==
  LET term == P.mir[b].term
  IN CASE term.k = "return" -> Encoded(<<>>, Return, "")
       [] term.k \in {"goto", "drop"} -> Encoded(<<>>, Goto(term.to[1]), "")
       [] term.k = "switch" -> Encoded(<<>>, encode_switch(P, term), "")
       [] term.k = "unreachable" -> Encoded(<<>>, Kill, "")
       [] term.k = "abort" -> Encoded(<<AssertStmt(Num(0), "panic")>>, Kill, "")
       [] term.k = "drop_and_replace" -> Encoded(encode_assign_operand(init, term.dest, term.ops[1]), Goto(term.to[1]), "")
       [] term.k = "call" -> encode_call(P, b, term)
       [] term.k = "assert" -> encode_assert(P, term)

\* Code that is not supported may be allowed if it cannot be reached.
encode_statement_at(P, b, init) ==
  LET t == encode_terminator(P, b, init)
  IN IF t.err = "unsupported" /\ P.allow_unsupported
     THEN Encoded(<<AssertStmt(Num(0), "unsupported")>>, Kill, "") ELSE t

(***************************************************************************)
(* Blocks.  An edge <<c, b>> leads from a block c of the method to a block *)
(* b of MIR that has no block yet.                                         *)
(***************************************************************************)
ReturnBlock == 2

Part(method, head, edges, err) == [m |-> method, head |-> head, edges |-> edges, err |-> err]

\* The end of the block c; a block for each target of a switch, of equal targets the last one counts.
encode_edges(method, c, succ, to) ==
  LET edge == [x \in Range(to) |-> c + Max({j \in DOMAIN to : to[j] = x})]
      switch == GotoSwitch([j \in DOMAIN succ.cases |-> <<succ.cases[j][1], edge[succ.cases[j][2]]>>], edge[succ.to])
  IN CASE Len(to) = 0 -> Part(set_successor(method, c, IF succ = Return THEN Goto(ReturnBlock) ELSE Return), c, {}, "")
       [] Len(to) = 1 -> Part(method, c, {<<c, to[1]>>}, "")
       [] OTHER -> Part(set_successor(FoldLeft(LAMBDA m, j : add_block(m, <<>>), method, to), c, switch),
                        c, {<<edge[x], x>> : x \in Range(to)}, "")

encode_block(P, method, b) ==
  LET finish(stmts, t) ==
        IF t.err # "" THEN Part(method, 0, {}, t.err)
        ELSE encode_edges(add_block(method, stmts \o t.stmts), Len(method) + 1, t.succ, targets(t.succ))
      terminate(body) == finish(body.stmts, encode_statement_at(P, b, body.init))
  IN terminate(encode_block_statements(P, b))

\* The edges to the block b lead to the block c.
Link(part, edges, b, c) ==
  [part EXCEPT !.m = FoldSet(LAMBDA e, m : set_successor(m, e[1], Goto(c)), part.m, {e \in edges : e[2] = b}),
               !.edges = @ \cup {e \in edges : e[2] # b}]

encode_unresolved_edges(part, edges, map) ==
  [part EXCEPT !.m = FoldSet(LAMBDA e, m : set_successor(m, e[1], Goto(map[e[2]])), part.m,
                             {e \in edges : e[2] \in DOMAIN map}),
               !.edges = {e \in edges : e[2] \notin DOMAIN map}]

(***************************************************************************)
(* Loop invariants.                                                        *)
(***************************************************************************)
encode_loop_invariant_specs(P, h) ==
  LET spec == SelectSeq(P.info.ordered, LAMBDA b : /\ b \in P.info.reachable \ P.info.nonspec
                                                   /\ P.info.enclosing[b] # {}
                                                   /\ get_loop_head(P.info, b) = h)
  IN Conjoin(FlattenSeq([j \in DOMAIN spec |->
       LET closures == SelectSeq(P.mir[spec[j]].stmts, LAMBDA st : st.rv.k = "closure")
       IN [k \in DOMAIN closures |-> closures[k].inv]]))

\* The permissions at the end of the block of the invariant.
LoopPermissions(P, h) ==
  LET inv == P.invblock[h]
      forest == compute_loop_invariant(P.mir, P.info, h, InitAfter(P.init[inv], P.mir[inv]))
  IN [write |-> UNION {LeavesOf(p) : p \in forest.write}, read |-> UNION {LeavesOf(p) : p \in forest.read}]

encode_loop_invariant_exhale_stmts(P, h, after_loop_iteration) ==
  LET perms == LoopPermissions(P, h)
  IN <<AssertStmt(encode_loop_invariant_specs(P, h), IF after_loop_iteration THEN "inv_after" ELSE "inv_entry"),
       ReadAcc(perms.read, "perm"), ExhaleAcc(perms.write, "perm")>>

encode_loop_invariant_inhale_stmts(P, h) ==
  <<InhaleAcc(LoopPermissions(P, h).write), Inhale(encode_loop_invariant_specs(P, h))>>

HavocAssigned(method, end_body, inv_pre) ==
  LET vars == SetToSeq(collect_assigned_vars(method, end_body, inv_pre))
  IN [j \in DOMAIN vars |-> Havoc(vars[j])]

\* A loop is encoded part by part: blocks of statements, and groups of blocks
\* of MIR with the block to which control goes on.
StmtPart(stmts) == [k |-> "stmts", stmts |-> stmts, group |-> <<>>, next |-> 0]
GroupPart(group, next) == [k |-> "group", stmts |-> <<>>, group |-> group, next |-> next]

\* start - G - B1 - invariant - B2 - G - B1 - end
LoopParts(P, h) ==
  LET body == reachable_nonspec(P.info, P.info.bodies[h])
      after_inv == 1 + (CHOOSE j \in DOMAIN body : body[j] = P.invblock[h])
      exits == {j \in 1..after_inv - 1 : body[j] \in Range(P.info.exits[h])}
      after_guard == 1 + Max({0} \cup exits)
      G == GroupPart(SubSeq(body, 1, after_guard - 1), body[after_guard])
      B1 == GroupPart(SubSeq(body, after_guard, after_inv - 1), body[after_inv])
      B2 == GroupPart(SubSeq(body, after_inv, Len(body)), h)
  IN <<StmtPart(<<>>), G, B1,
       StmtPart(encode_loop_invariant_exhale_stmts(P, h, FALSE)), StmtPart(encode_loop_invariant_inhale_stmts(P, h)),
       B2, G, B1, StmtPart(encode_loop_invariant_exhale_stmts(P, h, TRUE) \o <<Inhale(Num(0))>>)>>

\* Each part goes on to the next one that is not empty; at the block before the
\* invariant (the fourth part) what the body assigns is havocked.
LinkParts(parts, done) ==
  LET heads == [n \in DOMAIN parts |-> done.encoded[n].head]
      following == [n \in 1..Len(parts) - 1 |-> heads[Min({j \in n + 1..Len(parts) : heads[j] # 0})]]
      link(acc, n) ==
        CASE n = Len(parts) -> [acc EXCEPT !.m = set_successor(@, heads[n], Return)]
          [] parts[n].k = "stmts" -> [acc EXCEPT !.m = set_successor(@, heads[n], Goto(following[n]))]
          [] OTHER -> Link(acc, done.encoded[n].edges, parts[n].next, following[n])
      havoc(part) == [part EXCEPT !.m = add_stmts(@, heads[4], HavocAssigned(@, Last(heads), heads[4]))]
  IN havoc(FoldLeft(link, Part(done.m, heads[1], {}, ""), [n \in DOMAIN parts |-> n]))

RECURSIVE encode_loop(_, _, _), encode_blocks_group(_, _, _, _)
encode_loop(P, method, h) ==
  LET add(acc, e) == [m |-> e.m, encoded |-> Append(acc.encoded, [head |-> e.head, edges |-> e.edges]), err |-> e.err]
      step(acc, part) ==
        IF acc.err # "" THEN acc
        ELSE add(acc, IF part.k = "stmts" THEN Part(add_block(acc.m, part.stmts), Len(acc.m) + 1, {}, "")
                      ELSE encode_blocks_group(P, acc.m, part.group, P.info.depth[h]))
      finish(parts, done) == IF done.err # "" THEN Part(method, 0, {}, done.err) ELSE LinkParts(parts, done)
      run(parts) == finish(parts, FoldLeft(step, [m |-> method, encoded |-> <<>>, err |-> ""], parts))
  IN run(LoopParts(P, h))

\* The blocks of a group are encoded in order, a nested loop at its head.
encode_blocks_group(P, method, group, depth) ==
  LET own(b) == \/ P.info.depth[b] = depth
                \/ P.info.depth[b] = depth + 1 /\ b \in P.info.heads
      add(acc, b, e) == [part |-> Part(e.m, 0, acc.part.edges \cup e.edges, e.err), map |-> (b :> e.head) @@ acc.map]
      step(acc, b) ==
        IF acc.part.err # "" \/ ~own(b) THEN acc
        ELSE add(acc, b, IF P.info.depth[b] = depth THEN encode_block(P, acc.part.m, b)
                         ELSE encode_loop(P, acc.part.m, b))
      finish(all) ==
        IF all.part.err # "" \/ group = <<>> THEN all.part
        ELSE [encode_unresolved_edges(all.part, all.part.edges, all.map) EXCEPT !.head = all.map[group[1]]]
  IN finish(FoldLeft(step, [part |-> Part(method, 0, {}, ""), map |-> <<>>], group))

\* Blocks 1 and 2 are the start and the return block.
encode(P) ==
  LET finish(body) ==
        IF body.err # "" THEN body
        ELSE IF body.edges # {} THEN [body EXCEPT !.err = "internal"]
        ELSE [body EXCEPT !.m = set_successor(@, 1, Goto(IF body.head = 0 THEN ReturnBlock ELSE body.head))]
  IN finish(encode_blocks_group(P, <<[stmts |-> <<>>, succ |-> Undefined], [stmts |-> <<>>, succ |-> Return]>>,
                                reachable_nonspec(P.info, P.info.ordered), 0))

(***************************************************************************)
(* Contracts.  A method of a trait takes over the contract of the trait    *)
(* where it has none, and otherwise may weaken the precondition and        *)
(* strengthen the postcondition.                                           *)
(***************************************************************************)
functional_precondition(P) == Conjoin(IF P.pre = <<>> /\ P.trait # <<>> THEN P.trait[1].pre ELSE P.pre)
functional_postcondition(P) == Conjoin(IF P.post = <<>> /\ P.trait # <<>> THEN P.trait[1].post ELSE P.post)

precondition_weakening(P) ==
  IF P.trait = <<>> \/ P.pre = <<>> THEN <<>>
  ELSE <<AssertStmt(Implies(Conjoin(P.trait[1].pre), Conjoin(P.pre)), "weakening")>>

postcondition_strengthening(P) ==
  IF P.trait = <<>> \/ P.post = <<>> THEN <<>>
  ELSE <<AssertStmt(Implies(Conjoin(P.post), Conjoin(P.trait[1].post)), "strengthening")>>

ArgLeaves(P) == UNION {LeavesOf(<<x>>) : x \in P.args}

encode_precondition_expr(P) ==
  [type_spec |-> ArgLeaves(P), func_spec |-> functional_precondition(P), weakening |-> precondition_weakening(P)]

\* Mutant: the weakening is checked when the precondition is known.
encode_preconditions_TooLate(P, method) ==
  LET spec == encode_precondition_expr(P)
  IN add_stmts(method, 1, <<InhaleAcc(spec.type_spec), Inhale(spec.func_spec)>> \o spec.weakening \o <<Label("pre")>>)

encode_preconditions(P, method) ==
  LET spec == encode_precondition_expr(P)
  IN add_stmts(method, 1, <<InhaleAcc(spec.type_spec)>> \o spec.weakening \o <<Inhale(spec.func_spec), Label("pre")>>)

\* The postcondition sees what an argument was and what a reference refers to now.
wrap_arguments_into_old(P, e) ==
  FoldSet(LAMBDA l, acc : IF l[1] \in P.args /\ "deref" \notin Range(l) THEN replace_place(acc, "val", l, Old(l)) ELSE acc,
          e, PlacesIn(e, {"val"}))

\* What mutable references refer to is given back.
encode_postcondition_expr(P) ==
  LET strengthening == postcondition_strengthening(P)
  IN [strengthening |-> [j \in DOMAIN strengthening |-> [strengthening[j] EXCEPT !.e = wrap_arguments_into_old(P, @)]],
      func_spec |-> wrap_arguments_into_old(P, functional_postcondition(P)),
      type_spec |-> {l \in ArgLeaves(P) : "deref" \in Range(l)}, return_perm |-> LeavesOf(<<"_0">>)]

encode_postconditions(P, method) ==
  LET spec == encode_postcondition_expr(P)
  IN add_stmts(method, ReturnBlock,
       spec.strengthening \o <<AssertStmt(spec.func_spec, "post"),
                               ExhaleAcc(spec.type_spec, "perm"), ExhaleAcc(spec.return_perm, "perm")>>)

(***************************************************************************)
(* Optimisations of methods.                                               *)
(***************************************************************************)
StmtsOf(method) == UNION {Range(method[b].stmts) : b \in DOMAIN method}

\* Variables of a purifiable type that are never moved or returned.
PureVars(usize, method) ==
  {x \in usize : x # <<"_0">> /\ \A st \in StmtsOf(method) : st.k = "move" => x # st.p /\ x # st.e.p}

Bounds(acc) == Conjoin(SetToSeq({Op("in_range", <<Val(l)>>) : l \in acc}))

\* In a pure variable there is no permission, and no old value.
PurifyExpr(e, pure) ==
  FoldSet(LAMBDA x, acc : replace_place(replace_place(acc, "old", x, Val(x)), "lab", x, Val(x)), e, pure)

PurifyStmt(st, pure) ==
  LET p == st.acc \cap pure
      rest == [st EXCEPT !.acc = @ \ pure, !.e = PurifyExpr(@, pure)]
  IN CASE st.k = "havoc" /\ st.p \in pure -> <<[st EXCEPT !.k = "havoc_int"]>>
       [] st.k = "assign" /\ st.p \in pure -> <<[rest EXCEPT !.k = "assign_var"]>>
       [] p # {} -> <<rest, IF st.k = "inhale_acc" THEN Inhale(Bounds(p)) ELSE AssertStmt(Bounds(p), st.err)>>
       [] OTHER -> <<rest>>

MapStmts(method, f(_)) ==
  [b \in DOMAIN method |-> [method[b] EXCEPT !.stmts = FlattenSeq([j \in DOMAIN @ |-> f(@[j])])]]

purify_vars(usize, method) ==
  LET pure == PureVars(usize, method) IN MapStmts(method, LAMBDA st : PurifyStmt(st, pure))

\* The variables that are mentioned outside of permissions.
UsedVars(method) ==
  UNION {{<<p[1]>> : p \in PlacesIn(st.e, {"val", "old", "lab"}) \cup (IF Len(st.p) > 0 THEN {st.p} ELSE {})}
           : st \in StmtsOf(method)}
  \cup UNION {UNION {{<<p[1]>> : p \in PlacesIn(c[1], {"val"})} : c \in Range(method[b].succ.cases)} : b \in DOMAIN method}

remove_unused_vars(method) ==
  LET used == UsedVars(method)
  IN MapStmts(method, LAMBDA st : <<[st EXCEPT !.acc = {l \in @ : <<l[1]>> \in used}]>>)

IsTrivial(st) == \/ st.k \in {"assert", "inhale"} /\ st.e = Num(1)
                 \/ st.k \in {"inhale_acc", "exhale_acc", "read_acc"} /\ st.acc = {}
remove_trivial_assertions(method) == MapStmts(method, LAMBDA st : IF IsTrivial(st) THEN <<>> ELSE <<st>>)

\* The target of a block that has no other predecessor.
SoleTarget(method, b) ==
  {c \in DOMAIN method : method[b].succ = Goto(c) /\ predecessors(method, c) = {b}}

\* The blocks that become one block with b.
RECURSIVE Chain(_, _)
Chain(method, b) ==
  LET next == SoleTarget(method, b)
  IN IF next = {} THEN <<b>> ELSE <<b>> \o Chain(method, CHOOSE c \in next : TRUE)

\* Merged in topological order; the targets get the new indices.
clean_cfg(method) ==
  LET order == get_topological_sort(method)
      chain == [b \in DOMAIN method |-> Chain(method, b)]
      kept == SelectSeq(order, LAMBDA b : ~\E a \in DOMAIN method : b \in SoleTarget(method, a))
      new(b) == CHOOSE n \in DOMAIN kept : \E j \in DOMAIN chain[kept[n]] : chain[kept[n]][j] = b
      renamed(succ) == [succ EXCEPT !.to = IF @ = 0 THEN 0 ELSE new(@),
                                    !.cases = [j \in DOMAIN @ |-> <<@[j][1], new(@[j][2])>>]]
  IN [n \in DOMAIN kept |->
       [stmts |-> FlattenSeq([j \in DOMAIN chain[kept[n]] |-> method[chain[kept[n]][j]].stmts]),
        succ |-> renamed(method[Last(chain[kept[n]])].succ)]]

optimize_method_encoding(usize, method) ==
  clean_cfg(remove_trivial_assertions(remove_unused_vars(purify_vars(usize, method))))
=============================================================================
