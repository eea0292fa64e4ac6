-------------------------- MODULE ProcedureLoops --------------------------
(***************************************************************************)
(* loops.rs, procedure.rs, real_edges.rs, loops_utils.rs and               *)
(* loop_encoder.rs: the loops of a procedure, its specification blocks,    *)
(* the block at whose end a loop invariant holds, and the permissions of   *)
(* that invariant.                                                         *)
(*                                                                         *)
(* A MIR body is a sequence of blocks, the first one is the entry.  Places *)
(* are a local with at most one projection; a leaf is a place of a         *)
(* primitive type.  Array accesses, borrows in the body and downcasts are  *)
(* left out.                                                               *)
(***************************************************************************)
EXTENDS Integers, Sequences, FiniteSets, SequencesExt, FiniteSetsExt

CONSTANT Leaves      \* the places of a primitive type

(***************************************************************************)
(* MIR.                                                                    *)
(***************************************************************************)
Operand(k, p, n) == [k |-> k, p |-> p, n |-> n]       \* "copy", "move" or "const"
Copy(p) == Operand("copy", p, 0)
Move(p) == Operand("move", p, 0)
Const(n) == Operand("const", <<>>, n)

\* An assignment; the closure that a specification block builds is one too.
Rvalue(k, ops) == [k |-> k, ops |-> ops]
Assign(p, rv) == [p |-> p, rv |-> rv, inv |-> <<>>]
SpecClosure(e, read) == [p |-> <<"spec">>, rv |-> Rvalue("closure", [j \in DOMAIN read |-> Copy(read[j])]), inv |-> e]

\* to: the real targets; unwind: the other ones; dest and ops: what is written and used;
\* fn: the called function, the values of a switch (its last target is the default), or what an
\* assertion expects.
Terminator(k, ops, dest, to, unwind, fn) ==
  [k |-> k, ops |-> ops, dest |-> dest, to |-> to, unwind |-> unwind, fn |-> fn]

Block(stmts, term) == [stmts |-> stmts, term |-> term]

is_prefix(p, prefix) == IsPrefix(prefix, p)
LeavesOf(p) == {l \in Leaves : is_prefix(l, p)}

(***************************************************************************)
(* RealEdges: the edges without those that only matter for unwinding or    *)
(* for the borrow checker.                                                 *)
(***************************************************************************)
real_targets(term) == term.to
real_successors(mir, b) == real_targets(mir[b].term)
RealEdges(mir) == UNION {{<<b, s>> : s \in Range(real_successors(mir, b))} : b \in DOMAIN mir}
AllEdges(mir) == RealEdges(mir) \cup UNION {{<<b, s>> : s \in mir[b].term.unwind} : b \in DOMAIN mir}

RECURSIVE Reach(_, _)
Reach(edges, from) ==
  LET next == from \cup {e[2] : e \in {e \in edges : e[1] \in from}}
  IN IF next = from THEN from ELSE Reach(edges, next)

\* Dominators of the complete graph.
Dominated(mir, d) ==
  DOMAIN mir \ (IF d = 1 THEN {} ELSE Reach({e \in AllEdges(mir) : e[2] # d}, {1}))

(***************************************************************************)
(* Procedure: reachable blocks and specification blocks.                   *)
(***************************************************************************)
build_reachable_basic_blocks(mir) == Reach(RealEdges(mir), {1})

is_spec_basic_block(block) == \E j \in DOMAIN block.stmts : block.stmts[j].rv.k = "closure"

\* The blocks whose only way leads to a block of the set.
RECURSIVE blocks_definitely_leading_to(_, _)
blocks_definitely_leading_to(edges, targets) ==
  LET next == targets \cup {e[1] : e \in {e \in edges : /\ e[2] \in targets
                                                        /\ \A f \in edges : f[1] = e[1] => f = e}}
  IN IF next = targets THEN targets ELSE blocks_definitely_leading_to(edges, next)

build_nonspec_basic_blocks(mir) ==
  LET reachable == build_reachable_basic_blocks(mir)
      edges == {e \in RealEdges(mir) : e[1] \in reachable}
  IN reachable \ blocks_definitely_leading_to(edges, {b \in reachable : is_spec_basic_block(mir[b])})

(***************************************************************************)
(* ProcedureLoops::new.                                                    *)
(***************************************************************************)
BackEdges(mir) == {e \in RealEdges(mir) : e[1] \in Dominated(mir, e[2])}

\* The walk up from the source of a back edge stops at the head.
collect_loop_body(mir, head, source) ==
  Reach({<<e[2], e[1]>> : e \in {e \in RealEdges(mir) : e[2] # head \/ e[2] = source}}, {source})

LoopBodies(mir) ==
  LET back == BackEdges(mir)
  IN [h \in {e[2] : e \in back} |-> UNION {collect_loop_body(mir, h, e[1]) : e \in {e \in back : e[2] = h}}]

\* The exits are visited first, so that the body is before them in the reversed order.
SuccessorGroups(succs, depth, b) ==
  SelectSeq(succs, LAMBDA s : depth[s] < depth[b]) \o SelectSeq(succs, LAMBDA s : depth[s] >= depth[b])

RECURSIVE VisitBlocks(_, _, _, _, _)
VisitBlocks(mir, back, depth, work, sorted) ==
  IF work = <<>> THEN sorted
  ELSE LET b == Head(work)
           succs == SelectSeq(SuccessorGroups(real_successors(mir, b), depth, b), LAMBDA s : <<b, s>> \notin back)
           below == VisitBlocks(mir, back, depth, succs, sorted)
       IN VisitBlocks(mir, back, depth, Tail(work), IF b \in Range(sorted) THEN sorted ELSE Append(below, b))

order_basic_blocks(mir, back, depth) ==
  Reverse(VisitBlocks(mir, back, depth, [b \in DOMAIN mir |-> b], <<>>))

\* Everything that is computed when a procedure is loaded.
ProcedureInfo(mir) ==
  LET bodies == LoopBodies(mir)
      enclosing == [b \in DOMAIN mir |-> {h \in DOMAIN bodies : b \in bodies[h]}]
      depth == [b \in DOMAIN mir |-> Max({0} \cup {Cardinality(enclosing[h]) : h \in enclosing[b]})]
      back == BackEdges(mir)
      ordered == order_basic_blocks(mir, back, depth)
      body(h) == SelectSeq(ordered, LAMBDA b : b \in bodies[h])
      is_exit(h, b) == /\ mir[b].term.k = "switch"
                       /\ \E s \in Range(real_successors(mir, b)) : depth[s] < depth[h]
  IN [heads |-> DOMAIN bodies, depth |-> depth, enclosing |-> enclosing, ordered |-> ordered,
      bodies |-> [h \in DOMAIN bodies |-> body(h)],
      exits |-> [h \in DOMAIN bodies |-> SelectSeq(body(h), LAMBDA b : is_exit(h, b))],
      nonconditional |-> [h \in DOMAIN bodies |->
         {b \in bodies[h] : \A e \in back : e[2] = h => e[1] \in Dominated(mir, b)}],
      reachable |-> build_reachable_basic_blocks(mir),
      nonspec |-> build_nonspec_basic_blocks(mir)]

\* The innermost loop of a block, its head included.
get_loop_head(info, b) == CHOOSE h \in info.enclosing[b] : info.depth[h] = info.depth[b]
reachable_nonspec(info, s) == SelectSeq(s, LAMBDA b : b \in info.reachable \cap info.nonspec)

(***************************************************************************)
(* The leaves that are initialised on every path to a block, and what a    *)
(* statement or a terminator does to them (compute_definitely_initialized).*)
(***************************************************************************)
Moved(ops) == UNION {LeavesOf(o.p) : o \in {o \in Range(ops) : o.k = "move"}}
InitAfterStmt(init, st) == (init \ Moved(st.rv.ops)) \cup LeavesOf(st.p)
InitAfterTerm(init, term) ==
  ((init \ Moved(term.ops)) \ (IF term.k = "drop" THEN LeavesOf(term.dest) ELSE {}))
    \cup (IF term.k \in {"call", "drop_and_replace"} THEN LeavesOf(term.dest) ELSE {})
InitAfter(init, block) == InitAfterTerm(FoldLeft(InitAfterStmt, init, block.stmts), block.term)

RECURSIVE InitFixpoint(_, _, _)
InitFixpoint(mir, args, before) ==
  LET next == [b \in DOMAIN mir |->
        LET preds == {p \in DOMAIN mir : b \in Range(mir[p].term.to)}
        IN {l \in before[b] : /\ \A p \in preds : l \in InitAfter(before[p], mir[p])
                              /\ b = 1 => l \in args}]
  IN IF next = before THEN before ELSE InitFixpoint(mir, args, next)

get_before_block(mir, args) == InitFixpoint(mir, args, [b \in DOMAIN mir |-> Leaves])

\* InitInfo: a place is accessible when some part of its local is initialised.
is_vir_place_accessible(init, p) == \E l \in init : l[1] = p[1]

(***************************************************************************)
(* LoopEncoder.                                                            *)
(***************************************************************************)
LeadsToSpec(mir, info, b) ==
  \E s \in Range(mir[b].term.to) \cup mir[b].term.unwind : s \in info.reachable \ info.nonspec

\* Mutant: a specification of an inner loop is taken for one of this loop.
InvariantBlock_AnyDepth(mir, info, h) ==
  LET candidates == SelectSeq(info.bodies[h], LAMBDA b : b \in info.nonspec /\ LeadsToSpec(mir, info, b))
  IN IF candidates # <<>> THEN candidates[1]
     ELSE IF info.exits[h] # <<>> THEN info.exits[h][1] ELSE h

\* The block before the specification, the first exit, or the head.
InvariantBlock(mir, info, h) ==
  LET candidates == SelectSeq(info.bodies[h], LAMBDA b : /\ b \in info.nonspec
                                                         /\ info.depth[b] = info.depth[h]
                                                         /\ LeadsToSpec(mir, info, b))
  IN IF candidates # <<>> THEN candidates[1]
     ELSE IF info.exits[h] # <<>> THEN info.exits[h][1] ELSE h

LoopInvariantInBranch(mir, info, h) == InvariantBlock(mir, info, h) \notin info.nonconditional[h]

(***************************************************************************)
(* The accesses of a loop body: a set of <<place, kind>>.                  *)
(***************************************************************************)
OperandAccesses(ops) ==
  {<<o.p, IF o.k = "move" THEN "move" ELSE "read">> : o \in {o \in Range(ops) : o.k # "const"}}

StmtAccesses(st) ==
  OperandAccesses(st.rv.ops) \cup (IF st.rv.k = "closure" THEN {} ELSE {<<st.p, "store">>})

TermAccesses(term) ==
  OperandAccesses(term.ops) \cup
    (CASE term.k = "call" -> {<<term.dest, "store">>}
       [] term.k \in {"drop", "drop_and_replace"} -> {<<term.dest, "move">>}
       [] OTHER -> {})

compute_used_paths(mir, body) ==
  UNION {UNION {StmtAccesses(mir[b].stmts[j]) : j \in DOMAIN mir[b].stmts} \cup TermAccesses(mir[b].term)
           : b \in Range(body)}

is_write_access(a) == a[2] \in {"store", "move"}

WriteLeaves(accesses) ==
  {a[1] : a \in {a \in accesses : /\ is_write_access(a)
                                  /\ ~\E c \in accesses : /\ is_write_access(c) /\ c[1] # a[1]
                                                          /\ is_prefix(a[1], c[1])}}

ReadLeaves(accesses) ==
  {a[1] : a \in {a \in accesses : /\ ~is_write_access(a)
                                  /\ ~\E c \in accesses : c[1] # a[1] /\ is_prefix(a[1], c[1])}}
    \ WriteLeaves(accesses)

\* What is initialised at the invariant; a store only needs a part of the place.
InitialisedAccess(init, a) ==
  LeavesOf(a[1]) \subseteq init \/ (a[2] = "store" /\ LeavesOf(a[1]) \cap init # {})

\* PermissionForest: the trees of the written places, then the read places that
\* have no tree yet (a read root is not added to an existing tree).
PermissionForest(accesses) ==
  LET write == WriteLeaves(accesses)
      read == {p \in ReadLeaves(accesses) : ~\E w \in write : is_prefix(w, p)}
  IN [write |-> write, read |-> read]

compute_loop_invariant(mir, info, h, init) ==
  PermissionForest({a \in compute_used_paths(mir, info.bodies[h]) : InitialisedAccess(init, a)})
=============================================================================
