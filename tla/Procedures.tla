---------------------------- MODULE Procedures ----------------------------
(***************************************************************************)
(* The life of a procedure: it is loaded, encoded, completed with its      *)
(* contract, traversed (cfg/visitor.rs), optimised and verified by Viper;  *)
(* then it runs.  An execution that starts in the precondition watches     *)
(* what the specification promises.                                        *)
(***************************************************************************)
EXTENDS ProcedureEncoder

CONSTANTS
  Procedures,     \* the procedures with their annotations
  MaxInt,         \* the integers are 0..MaxInt
  BoolLeaves      \* the leaves of type bool

VARIABLES
  proc,       \* the procedure
  phase,      \* how far it is
  method,     \* the encoded method
  errors,     \* what encoding or verifying it reported
  pc, store, initial, via, status      \* the execution

vars == <<proc, phase, method, errors, pc, store, initial, via, status>>

(***************************************************************************)
(* Values and expressions.  Gone: uninitialised, or no permission.         *)
(***************************************************************************)
Gone == -1
Values(l) == IF l \in BoolLeaves THEN 0..1 ELSE 0..MaxInt
Nothing == [l \in Leaves |-> Gone]
Truth(b) == IF b THEN 1 ELSE 0

\* s: the memory and what it was at the labels of the precondition and of a call.
RECURSIVE Eval(_, _)
Eval(e, s) ==
  LET v(j) == Eval(e.s[j], s)
  IN CASE e.k = "num" -> e.n
       [] e.k = "val" -> s.m[e.p]
       [] e.k = "old" -> s.old[e.p]
       [] e.k = "lab" -> s.lab[e.p]
       [] e.k = "app" -> Eval(replace_place(Contracts[e.p].body, "val", <<"arg">>, Num(v(1))), s)
       [] e.k = "and" -> Truth(\A j \in DOMAIN e.s : v(j) = 1)
       [] e.k = "implies" -> Truth(v(1) = 1 => v(2) = 1)
       [] e.k = "not" -> 1 - v(1)
       [] e.k = "eq" -> Truth(v(1) = v(2))
       [] e.k = "le" -> Truth(v(1) <= v(2))
       [] e.k = "lt" -> Truth(v(1) < v(2))
       [] e.k = "add" -> v(1) + v(2)
       [] e.k = "overflows" -> Truth(v(1) + v(2) > MaxInt)
       [] e.k = "in_range" -> Truth(v(1) \in 0..MaxInt)

\* The contract of a function holds of an argument, or of it and a result.
Meets(e, arg, res) ==
  Eval(replace_place(replace_place(e, "val", <<"arg">>, Num(arg)), "val", <<"res">>, Num(res)),
       [m |-> Nothing, old |-> Nothing, lab |-> Nothing]) = 1

RECURSIVE Faults(_, _)
Faults(e, s) ==
  UNION {Faults(e.s[j], s) : j \in DOMAIN e.s} \cup
    (IF e.k = "val" /\ s.m[e.p] = Gone THEN {"perm"} ELSE {}) \cup
    (IF e.k = "app" /\ Faults(e.s[1], s) = {} /\ ~Meets(Contracts[e.p].pre, Eval(e.s[1], s), 0) THEN {"pre"} ELSE {})

(***************************************************************************)
(* External: Viper.  The states after a statement, and the errors.  A      *)
(* state that violates an assertion is reported and not followed further.  *)
(***************************************************************************)
After(states, errs) == [s |-> states, errs |-> errs]

GiveAcc(s, acc) ==
  IF \E l \in acc : s.m[l] # Gone THEN {}
  ELSE {[s EXCEPT !.m = [l \in Leaves |-> IF l \in acc THEN f[l] ELSE @[l]]]
          : f \in {f \in [acc -> 0..MaxInt] : \A l \in acc : f[l] \in Values(l)}}

Without(m, ls) == [l \in Leaves |-> IF l \in ls THEN Gone ELSE m[l]]

MovedWhole(m, p, q) ==
  LET left == Without(Without(m, LeavesOf(p)), LeavesOf(q))
  IN [l \in Leaves |-> IF \E k \in LeavesOf(q) : l = Corresponding(p, q, k)
                       THEN m[CHOOSE k \in LeavesOf(q) : l = Corresponding(p, q, k)] ELSE left[l]]

ViperStmt(st, s) ==
  LET faults == Faults(st.e, s)
      missing(ls) == \E l \in ls : s.m[l] = Gone
      v == Eval(st.e, s)
  IN CASE st.k = "inhale_acc" -> After(GiveAcc(s, st.acc), {})
       [] st.k = "exhale_acc" -> IF missing(st.acc) THEN After({}, {st.err})
                                 ELSE After({[s EXCEPT !.m = Without(@, st.acc)]}, {})
       [] st.k = "read_acc" -> IF missing(st.acc) THEN After({}, {st.err}) ELSE After({s}, {})
       [] st.k = "havoc" -> After({[s EXCEPT !.m = Without(@, LeavesOf(st.p))]}, {})
       [] st.k = "havoc_int" -> After({[s EXCEPT !.m[st.p] = n] : n \in 0..MaxInt}, {})
       [] st.k = "move" -> IF missing(LeavesOf(st.e.p)) THEN After({}, {"perm"})
                           ELSE After({[s EXCEPT !.m = MovedWhole(@, st.p, st.e.p)]}, {})
       [] st.k = "label" -> After({[s EXCEPT !.old = IF st.p = <<"pre">> THEN s.m ELSE @,
                                             !.lab = CASE st.p = <<"call">> -> s.m [] st.p = <<"post">> -> Nothing
                                                       [] OTHER -> @]}, {})
       [] faults # {} -> After({}, faults)
       [] st.k = "assign" /\ missing({st.p}) -> After({}, {"perm"})
       [] st.k \in {"assign", "assign_var"} -> After({[s EXCEPT !.m[st.p] = v]}, {})
       [] st.k = "inhale" -> After(IF v = 1 THEN {s} ELSE {}, {})
       [] st.k = "assert" -> IF v = 1 THEN After({s}, {}) ELSE After({}, {st.err})

ViperStmts(stmts, states) ==
  FoldLeft(LAMBDA acc, st : LET all == {ViperStmt(st, s) : s \in acc.s}
                            IN After(UNION {a.s : a \in all}, acc.errs \cup UNION {a.errs : a \in all}),
           After(states, {}), stmts)

\* The target that a state takes.
Taken(succ, s) ==
  LET holds == {j \in DOMAIN succ.cases : Eval(succ.cases[j][1], s) = 1}
  IN IF holds = {} THEN succ.to ELSE succ.cases[Min(holds)][2]

Verify(m, pure) ==
  LET start == {[m |-> [l \in Leaves |-> IF l \in pure THEN f[l] ELSE Gone], old |-> Nothing, lab |-> Nothing]
                  : f \in [pure -> 0..MaxInt]}
      step(acc, b) ==
        LET r == ViperStmts(m[b].stmts, acc.at[b])
        IN [at |-> [c \in DOMAIN m |-> IF c \in get_following(m[b].succ)
                                       THEN acc.at[c] \cup {s \in r.s : Taken(m[b].succ, s) = c} ELSE acc.at[c]],
            errs |-> acc.errs \cup r.errs]
  IN FoldLeft(step, [at |-> [b \in DOMAIN m |-> IF b = 1 THEN start ELSE {}], errs |-> {}],
              get_topological_sort(m)).errs

(***************************************************************************)
(* CfgReplacer::replace_cfg: in topological order each reachable block     *)
(* starts from the contexts at the ends of its visited predecessors.       *)
(***************************************************************************)
replace_cfg(m) ==
  LET step(acc, b) ==
        LET incoming == predecessors(m, b) \cap acc.visited
            next == [acc EXCEPT !.visited = @ \cup {b}]
        IN IF b \notin acc.reachable THEN next
           ELSE [next EXCEPT !.reachable = @ \cup get_following(m[b].succ), !.has_context = @ \cup {b},
                             !.unwraps_none = @ \cup (incoming \ acc.has_context),
                             !.back_edges = @ \cup {<<b, c>> : c \in get_following(m[b].succ) \cap next.visited}]
  IN FoldLeft(step, [visited |-> {}, reachable |-> {1}, has_context |-> {}, unwraps_none |-> {}, back_edges |-> {}],
              get_topological_sort(m))

(***************************************************************************)
(* Actions: encoding.                                                      *)
(***************************************************************************)
Init ==
  /\ proc \in Procedures
  /\ phase = "new" /\ method = <<>> /\ errors = {}
  /\ pc = 0 /\ store = Nothing /\ initial = Nothing /\ via = "own" /\ status = "none"

Idle == UNCHANGED <<pc, store, initial, via, status>>

\* ProcedureEncoder::new.
Load ==
  /\ phase = "new"
  /\ proc' = [info |-> ProcedureInfo(proc.mir),
              init |-> get_before_block(proc.mir, ArgLeaves(proc))] @@ proc
  /\ phase' = "loaded"
  /\ UNCHANGED <<method, errors>> /\ Idle

\* The loop invariants must not be in a branch.
PreprocessLoops ==
  /\ phase = "loaded"
  /\ IF \E h \in proc.info.heads : LoopInvariantInBranch(proc.mir, proc.info, h)
     THEN /\ errors' = {"incorrect"} /\ phase' = "done" /\ UNCHANGED proc
     ELSE /\ proc' = [invblock |-> [h \in proc.info.heads |-> InvariantBlock(proc.mir, proc.info, h)]] @@ proc
          /\ phase' = "preprocessed" /\ UNCHANGED errors
  /\ UNCHANGED method /\ Idle

Finish(body) ==
  IF body.err = "" THEN method' = body.m /\ phase' = "encoded" /\ UNCHANGED errors
  ELSE errors' = {body.err} /\ phase' = "done" /\ UNCHANGED method

Encode ==
  /\ phase = "preprocessed"
  /\ Finish(encode(proc))
  /\ UNCHANGED proc /\ Idle

\* The pre- and postcondition; check_vir.
AddContract ==
  /\ phase = "encoded"
  /\ method' = encode_postconditions(proc, encode_preconditions(proc, method))
  /\ IF has_loops(method', DOMAIN method') THEN errors' = {"internal"} /\ phase' = "done"
     ELSE phase' = "complete" /\ UNCHANGED errors
  /\ UNCHANGED proc /\ Idle

Optimise ==
  /\ phase = "complete"
  /\ method' = optimize_method_encoding(proc.usize, method)
  /\ proc' = [pure |-> PureVars(proc.usize, method)] @@ proc
  /\ phase' = "optimised"
  /\ UNCHANGED errors /\ Idle

RunViper ==
  /\ phase = "optimised"
  /\ errors' = Verify(method, proc.pure)
  /\ phase' = IF errors' = {} THEN "verified" ELSE "done"
  /\ method' = <<>>
  /\ UNCHANGED proc /\ Idle

(***************************************************************************)
(* External: an execution of the MIR body of a verified procedure.         *)
(***************************************************************************)
Precondition(P, v) == IF v = "own" THEN functional_precondition(P) ELSE Conjoin(P.trait[1].pre)
Postcondition(P, v) == IF v = "own" THEN functional_postcondition(P) ELSE Conjoin(P.trait[1].post)
Now(m) == [m |-> m, old |-> initial, lab |-> Nothing]

Call ==
  /\ phase = "verified"
  /\ via' \in {"own"} \cup (IF proc.trait # <<>> THEN {"trait"} ELSE {})
  /\ \E f \in {f \in [ArgLeaves(proc) -> 0..MaxInt] : \A l \in ArgLeaves(proc) : f[l] \in Values(l)} :
       /\ initial' = [l \in Leaves |-> IF l \in ArgLeaves(proc) THEN f[l] ELSE Gone]
       /\ Eval(Precondition(proc, via'), [m |-> initial', old |-> initial', lab |-> Nothing]) = 1
  /\ store' = initial'
  /\ phase' = "running" /\ pc' = 1 /\ status' = "running"
  /\ UNCHANGED <<proc, method, errors>>

OperandValue(m, o) == IF o.k = "const" THEN o.n ELSE m[o.p]
Consume(m, ops) == Without(m, Moved(ops))

ExecAssign(m, st) ==
  LET w == Consume(m, st.rv.ops)
      v(j) == OperandValue(m, st.rv.ops[j])
  IN CASE st.rv.k = "use" /\ st.p \notin Leaves ->
            [l \in Leaves |-> IF is_prefix(l, st.p) THEN m[Corresponding(st.rv.ops[1].p, st.p, l)] ELSE w[l]]
       [] st.rv.k = "use" /\ st.p \in Leaves -> [w EXCEPT ![st.p] = v(1)]
       [] st.rv.k = "checked_add" -> [w EXCEPT ![Append(st.p, "0")] = (v(1) + v(2)) % (MaxInt + 1),
                                              ![Append(st.p, "1")] = Truth(v(1) + v(2) > MaxInt)]
       [] st.rv.k = "aggregate" -> [w EXCEPT ![Append(st.p, "0")] = v(1), ![Append(st.p, "1")] = v(2)]
       [] st.rv.k \in {"le", "lt", "eq"} ->
            [w EXCEPT ![st.p] = Eval(Op(st.rv.k, [j \in 1..2 |-> Num(v(j))]), Now(m))]
       [] OTHER -> w

\* The loop invariants at a block that jumps over them.
InvariantsAt(b) ==
  LET spec == IF proc.mir[b].term.k = "switch" THEN Last(proc.mir[b].term.to) ELSE b
      blocks == Reach({e \in RealEdges(proc.mir) : e[1] \notin proc.info.nonspec /\ e[2] \notin proc.info.nonspec}, {spec})
  IN IF spec \in proc.info.nonspec THEN {}
     ELSE UNION {{st.inv : st \in {st \in Range(proc.mir[c].stmts) : st.rv.k = "closure"}} : c \in blocks}

Stop(why) == status' = why /\ phase' = "done" /\ UNCHANGED <<pc, store>>
GoTo(b, m) == pc' = b /\ store' = m /\ UNCHANGED <<status, phase>>

ExecTerminator(m, term) ==
  LET v == OperandValue(m, term.ops[1])
      w == Consume(m, term.ops)
      contract == Contracts[term.fn]
  IN \/ /\ term.k = "goto" /\ GoTo(term.to[1], m)
     \/ /\ term.k = "drop" /\ GoTo(term.to[1], Without(m, LeavesOf(term.dest)))
     \/ /\ term.k = "drop_and_replace" /\ GoTo(term.to[1], [w EXCEPT ![term.dest] = v])
     \/ /\ term.k = "switch"
        /\ GoTo(IF \E j \in DOMAIN term.fn : term.fn[j] = v
                THEN term.to[CHOOSE j \in DOMAIN term.fn : term.fn[j] = v] ELSE Last(term.to), w)
     \/ /\ term.k = "assert" /\ IF <<v>> = term.fn THEN GoTo(term.to[1], w) ELSE Stop("panicked")
     \/ /\ term.k = "return"
        /\ Stop(IF Eval(Postcondition(proc, via), [m |-> [l \in Leaves |-> IF l[1] \in proc.args /\ "deref" \notin Range(l)
                                                                            THEN initial[l] ELSE m[l]],
                                                   old |-> initial, lab |-> Nothing]) = 1
                THEN "returned" ELSE "post violated")
     \/ /\ term.k = "call" /\ term.fn = "panic" /\ Stop("panicked")
     \/ /\ term.k = "call" /\ term.fn = "next" /\ Stop("unsupported")
     \/ /\ term.k = "call" /\ term.fn \in DOMAIN Contracts
        /\ IF ~Meets(contract.pre, v, 0) THEN Stop("pre violated")
           ELSE IF term.to = <<>> THEN Stop("diverged")
           ELSE \E r \in 0..MaxInt :
                  /\ IF contract.pure THEN r = Eval(App(term.fn, Num(v)), Now(m)) ELSE Meets(contract.post, v, r)
                  /\ GoTo(term.to[1], [w EXCEPT ![term.dest] = r])

ExecBlock ==
  /\ phase = "running"
  /\ LET block == proc.mir[pc]
         m == FoldLeft(ExecAssign, store, block.stmts)
     IN IF \E e \in InvariantsAt(pc) : Eval(e, Now(m)) # 1 THEN Stop("invariant violated")
        ELSE ExecTerminator(m, block.term)
  /\ UNCHANGED <<proc, method, errors, initial, via>>

Done == phase = "done" /\ UNCHANGED vars

Next == \/ Load \/ PreprocessLoops \/ Encode \/ AddContract \/ Optimise \/ RunViper
        \/ Call \/ ExecBlock \/ Done

Spec == Init /\ [][Next]_vars

-----------------------------------------------------------------------------
(* Properties *)

\* A procedure that Prusti accepts does what it promises: no execution that
\* starts in the precondition (its own, or that of the trait it implements)
\* calls a function outside of its precondition, breaks a loop invariant,
\* returns without the postcondition, runs into code that is not supported
\* or, if panics are checked, panics (procedure_encoder.rs, the whole encoding).
VerifiedMeansSafe ==
  errors = {} => /\ status \notin {"pre violated", "invariant violated", "post violated", "unsupported"}
                 /\ status = "panicked" => ~proc.check_panics

\* The graph of an encoded method has no loop, every edge is resolved, and the
\* traversal that adds folds and unfolds finds a context at the end of each
\* predecessor of a reachable block (cfg/visitor.rs).
TraversalSucceeds ==
  phase = "complete" =>
    LET t == replace_cfg(method)
    IN /\ t.unwraps_none = {} /\ t.back_edges = {}
       /\ \A b \in t.reachable : method[b].succ # Undefined
=============================================================================
