--------------------------- MODULE MCProcedures ---------------------------
(***************************************************************************)
(* Procedures for TLC.  They are written as structured programs, which are *)
(* lowered to MIR the way rustc does it, and have a meaning of their own:  *)
(* the usual rules for a loop with an invariant and for a call with a      *)
(* contract, against which the verdict of the encoding is compared.        *)
(***************************************************************************)
EXTENDS Procedures

x == <<"x">>
y == <<"y">>
z == <<"z">>
result == <<"_0">>
Field0 == <<"p", "0">>
Field1 == <<"p", "1">>
Deref == <<"r", "deref">>

MCLeaves == {x, y, z, result, <<"b">>, <<"s">>, <<"a">>, <<"fresh">>, <<"c", "0">>, <<"c", "1">>,
             Field0, Field1, <<"q", "0">>, <<"q", "1">>, Deref}
MCBoolLeaves == {<<"b">>, <<"s">>, <<"c", "1">>}
MCMaxInt == 2

Arg == Val(<<"arg">>)
Res == Val(<<"res">>)
Le(l, r) == Op("le", <<l, r>>)
Eq(l, r) == Op("eq", <<l, r>>)
Lt(l, r) == Op("lt", <<l, r>>)
Plus(l, n) == Op("add", <<l, Num(n)>>)

MCContracts ==
  [succ |-> [pure |-> FALSE, pre |-> Le(Arg, Num(1)), post |-> Eq(Res, Plus(Arg, 1)), body |-> Num(0)],
   less |-> [pure |-> FALSE, pre |-> Num(1), post |-> Le(Res, Arg), body |-> Num(0)],
   next1 |-> [pure |-> TRUE, pre |-> Le(Arg, Num(1)), post |-> Num(1), body |-> Plus(Arg, 1)],
   exit |-> [pure |-> FALSE, pre |-> Le(Arg, Num(1)), post |-> Num(0), body |-> Num(0)]]

(***************************************************************************)
(* Structured programs.                                                    *)
(***************************************************************************)
Command(k, p, rv, s1, s2, e, fn) == [k |-> k, p |-> p, rv |-> rv, s1 |-> s1, s2 |-> s2, e |-> e, fn |-> fn]
NoRv == Rvalue("use", <<>>)
Use(o) == Rvalue("use", <<o>>)
Cmp(op, l, r) == Rvalue(op, <<l, r>>)
Set(p, rv) == Command("set", p, rv, <<>>, <<>>, Num(1), "")
Let(p, q) == Set(p, Use(Copy(q)))
LetNum(p, n) == Set(p, Use(Const(n)))
Pair(p, l, r) == Set(p, Rvalue("aggregate", <<l, r>>))
\* The check of an index against the length of an array.
BoundsCheck(rv) == Command("check", <<>>, rv, <<>>, <<>>, Num(1), "")
Inc(p) == Command("inc", p, NoRv, <<>>, <<>>, Num(1), "")
CallFn(p, fn, q) == Command("call", p, Use(Copy(q)), <<>>, <<>>, Num(1), fn)
CallNum(p, fn, n) == Command("call", p, Use(Const(n)), <<>>, <<>>, Num(1), fn)
Exit(q) == Command("call", <<>>, Use(Copy(q)), <<>>, <<>>, Num(1), "exit")
Next1 == Command("next", z, NoRv, <<>>, <<>>, Num(1), "next")
If(rv, s1, s2) == Command("if", <<>>, rv, s1, s2, Num(1), "")
Match(rv, s1, s2) == Command("match", <<>>, rv, s1, s2, Num(1), "")
While(rv, body) == Command("while", <<>>, rv, body, <<>>, Num(1), "")
Forever(body) == Command("while", <<>>, NoRv, body, <<>>, Num(1), "")
Inv(e, read) == Command("inv", <<>>, NoRv, read, <<>>, e, "")
AssertThat(rv) == Command("if", <<>>, rv, <<>>, <<Command("panic", <<>>, NoRv, <<>>, <<>>, Num(1), "")>>, Num(1), "")
Break == Command("break", <<>>, NoRv, <<>>, <<>>, Num(1), "")
Ret(p) == Command("return", p, NoRv, <<>>, <<>>, Num(1), "")
Drop(p) == Command("drop", p, NoRv, <<>>, <<>>, Num(1), "")
Replace(p, q) == Command("replace", p, Use(Copy(q)), <<>>, <<>>, Num(1), "")

(***************************************************************************)
(* Lowering.  Block 2 is the cleanup block of unwinding.  B: the blocks    *)
(* and the one that is open, 0 in dead code.                               *)
(***************************************************************************)
Blank == Block(<<>>, Terminator("unreachable", <<>>, <<>>, <<>>, {}, ""))
Emit(B, st) == IF B.open = 0 THEN B ELSE [B EXCEPT !.bs[B.open].stmts = Append(@, st)]
Close(B, term) == IF B.open = 0 THEN B ELSE [B EXCEPT !.bs[B.open].term = term, !.open = 0]
Grow(B, n) == [B EXCEPT !.bs = @ \o [j \in 1..n |-> Blank]]
Open(B, b) == [B EXCEPT !.open = b]
GotoTerm(b, imaginary) == Terminator("goto", <<>>, <<>>, <<b>>, imaginary, "")
SwitchTerm(p, values, to) == Terminator("switch", <<Copy(p)>>, <<>>, to, {}, values)

RECURSIVE LowerSeq(_, _, _)
LowerSeq(cmds, B, brk) ==
  LET lower(acc, c) ==
        LET n == Len(acc.bs)
            next == Open(Grow(acc, 1), n + 1)
            on(block, term) == Open(Close(Grow(acc, 1), term), n + 1)
            call(a, o, dest, to) == Close(a, Terminator("call", <<o>>, dest, to, {2}, c.fn))
        IN IF acc.open = 0 THEN acc
           ELSE CASE c.k = "set" -> Emit(acc, Assign(c.p, c.rv))
             [] c.k = "inc" ->
                  LET sum == Emit(acc, Assign(<<"c">>, Rvalue("checked_add", <<Copy(c.p), Const(1)>>)))
                      checked == Close(Grow(sum, 1), Terminator("assert", <<Move(<<"c", "1">>)>>, <<>>, <<n + 1>>, {2}, <<0>>))
                  IN Emit(Open(checked, n + 1), Assign(c.p, Use(Move(<<"c", "0">>))))
             [] c.k = "call" ->
                  LET constant == c.rv.ops[1].k = "const"
                      arg == IF constant THEN acc ELSE Emit(acc, Assign(<<"a">>, c.rv))
                      actual == IF constant THEN c.rv.ops[1] ELSE Move(<<"a">>)
                  IN IF c.p = <<>> THEN call(arg, actual, <<>>, <<>>)
                     ELSE Open(call(Grow(arg, 1), actual, c.p, <<n + 1>>), n + 1)
             [] c.k = "check" ->
                  LET test == Emit(acc, Assign(<<"b">>, c.rv))
                  IN Open(Close(Grow(test, 1), Terminator("assert", <<Move(<<"b">>)>>, <<>>, <<n + 1>>, {2}, <<1>>)), n + 1)
             [] c.k = "next" -> Open(Close(Grow(acc, 1), Terminator("call", <<Const(0)>>, c.p, <<n + 1>>, {2}, "next")), n + 1)
             [] c.k = "panic" -> Close(acc, Terminator("call", <<Const(0)>>, <<>>, <<>>, {2}, "panic"))
             [] c.k = "return" -> Close(Emit(acc, Assign(result, Use(Copy(c.p)))),
                                        Terminator("return", <<>>, <<>>, <<>>, {}, ""))
             [] c.k = "break" -> Close(acc, GotoTerm(brk, {}))
             [] c.k = "drop" -> Open(Close(Grow(acc, 1), Terminator("drop", <<>>, c.p, <<n + 1>>, {2}, "")), n + 1)
             [] c.k = "replace" ->
                  LET arg == Emit(acc, Assign(<<"a">>, c.rv))
                  IN Open(Close(Grow(arg, 1), Terminator("drop_and_replace", <<Move(<<"a">>)>>, c.p, <<n + 1>>, {2}, "")), n + 1)
             [] c.k \in {"if", "match"} ->
                  LET test == Emit(Grow(acc, 4), Assign(<<"b">>, c.rv))
                      switch == IF c.k = "if" THEN SwitchTerm(<<"b">>, <<0>>, <<n + 2, n + 1>>)
                                ELSE SwitchTerm(<<"b">>, <<0, 1>>, <<n + 2, n + 1, n + 4>>)
                      then == LowerSeq(c.s1, Open(Close(test, switch), n + 1), brk)
                      else == LowerSeq(c.s2, Open(Close(then, GotoTerm(n + 3, {})), n + 2), brk)
                      dead == then.open = 0 /\ else.open = 0
                  IN Open(Close(else, GotoTerm(n + 3, {})), IF dead THEN 0 ELSE n + 3)
             [] c.k = "while" ->
                  LET head == Open(Close(Grow(acc, 6), GotoTerm(n + 1, {})), n + 1)
                      guard == Open(Close(head, GotoTerm(n + 2, {2})), n + 2)
                      test == IF c.rv = NoRv THEN Close(guard, GotoTerm(n + 4, {}))
                              ELSE Close(Emit(guard, Assign(<<"b">>, c.rv)), SwitchTerm(<<"b">>, <<0>>, <<n + 3, n + 4>>))
                      leave == IF c.rv = NoRv THEN test ELSE Close(Open(test, n + 3), GotoTerm(n + 6, {}))
                      body == LowerSeq(c.s1, Open(Close(Open(leave, n + 4), GotoTerm(n + 5, {n + 3})), n + 5), n + 6)
                  IN Open(Close(body, GotoTerm(n + 1, {})), n + 6)
             [] c.k = "inv" ->
                  LET test == Emit(Grow(acc, 4), Assign(<<"s">>, Use(Const(0))))
                      jump == Close(test, SwitchTerm(<<"s">>, <<0>>, <<n + 1, n + 2>>))
                      over == Close(Open(jump, n + 1), GotoTerm(n + 4, {}))
                      spec == Close(Open(over, n + 2), GotoTerm(n + 3, {}))
                      closure == Emit(Open(spec, n + 3), SpecClosure(c.e, c.s1))
                  IN Open(Close(closure, GotoTerm(n + 4, {})), n + 4)
  IN FoldLeft(lower, B, cmds)

LowerProgram(cmds) ==
  LowerSeq(cmds, [bs |-> <<Blank, Block(<<>>, Terminator("resume", <<>>, <<>>, <<>>, {}, ""))>>, open |-> 1], 0).bs

(***************************************************************************)
(* Reference: what a structured program does, modularly.  States are       *)
(* [m, old]; the states that fall through, break and return, and errors.   *)
(***************************************************************************)
Flow(norm, brk, ret, errs) == [norm |-> norm, brk |-> brk, ret |-> ret, errs |-> errs]
Both(f, g) == Flow(f.norm \cup g.norm, f.brk \cup g.brk, f.ret \cup g.ret, f.errs \cup g.errs)
View(s) == [m |-> s.m, old |-> s.old, lab |-> Nothing]
Holds(e, s) == Eval(e, View(s)) = 1
OperandIn(s, o) == IF o.k = "const" THEN o.n ELSE s.m[o.p]
TestIn(s, rv) == rv = NoRv \/ Eval(Op(rv.k, [j \in 1..2 |-> Num(OperandIn(s, rv.ops[j]))]), View(s)) = 1
Put(s, p, v) == [s EXCEPT !.m[p] = v]

RECURSIVE Written(_)
Written(cmds) ==
  UNION {IF c.k \in {"set", "inc", "call", "replace"} THEN LeavesOf(c.p) ELSE Written(c.s1) \cup Written(c.s2)
           : c \in {c \in Range(cmds) : c.k \notin {"inv", "return", "break", "next", "panic", "drop"} /\ c.p # <<"_">>}}

\* Checks a condition in all states.
Check(states, e, err) == Flow({s \in states : Holds(e, s)}, {}, {}, IF \E s \in states : ~Holds(e, s) THEN {err} ELSE {})

RECURSIVE Ref(_, _, _)
Ref(P, cmds, states) ==
  LET one(c, S) ==
        CASE c.k = "set" /\ c.rv.k = "aggregate" ->
               Flow({Put(Put(s, Append(c.p, "0"), OperandIn(s, c.rv.ops[1])), Append(c.p, "1"), OperandIn(s, c.rv.ops[2])) : s \in S}, {}, {}, {})
          [] c.k = "set" /\ c.p \notin Leaves ->
               Flow({[s EXCEPT !.m = [l \in Leaves |-> IF is_prefix(l, c.p) THEN s.m[Corresponding(c.rv.ops[1].p, c.p, l)] ELSE @[l]]]
                       : s \in S}, {}, {}, {})
          [] c.k \in {"set", "replace"} /\ c.p \in Leaves /\ c.rv.k # "aggregate" ->
               Flow({Put(s, c.p, OperandIn(s, c.rv.ops[1])) : s \in S}, {}, {}, {})
          [] c.k = "inc" ->
               Flow({Put(s, c.p, s.m[c.p] + 1) : s \in {s \in S : s.m[c.p] < MaxInt}}, {}, {},
                    IF P.check_panics /\ \E s \in S : s.m[c.p] = MaxInt THEN {"assert"} ELSE {})
          [] c.k = "call" ->
               LET f == Contracts[c.fn]
                   ok == {s \in S : Meets(f.pre, OperandIn(s, c.rv.ops[1]), 0)}
                   results(s) == {v \in 0..MaxInt : IF f.pure THEN v = Eval(App(c.fn, Num(OperandIn(s, c.rv.ops[1]))), View(s))
                                                    ELSE Meets(f.post, OperandIn(s, c.rv.ops[1]), v)}
               IN Flow(IF c.p = <<>> THEN {} ELSE UNION {{Put(s, c.p, v) : v \in results(s)} : s \in ok}, {}, {},
                       IF S # ok THEN {"pre"} ELSE {})
          [] c.k = "check" ->
               Flow({s \in S : TestIn(s, c.rv)}, {}, {},
                    IF P.check_panics /\ \E s \in S : ~TestIn(s, c.rv) THEN {"assert"} ELSE {})
          [] c.k = "next" -> Flow({}, {}, {}, IF S = {} THEN {} ELSE {"unsupported"})
          [] c.k = "panic" -> Flow({}, {}, {}, IF P.check_panics /\ S # {} THEN {"panic"} ELSE {})
          [] c.k = "return" -> Flow({}, {}, {Put(s, result, s.m[c.p]) : s \in S}, {})
          [] c.k = "break" -> Flow({}, S, {}, {})
          [] c.k = "drop" -> Flow({[s EXCEPT !.m = Without(@, LeavesOf(c.p))] : s \in S}, {}, {}, {})
          [] c.k \in {"if", "match"} ->
               Both(Ref(P, c.s1, {s \in S : TestIn(s, c.rv)}), Ref(P, c.s2, {s \in S : ~TestIn(s, c.rv)}))
          [] c.k = "while" ->
               LET at == {j \in DOMAIN c.s1 : c.s1[j].k = "inv"}
                   first == IF at = {} THEN 1 ELSE Min(at)
                   B1 == SubSeq(c.s1, 1, first - 1)
                   B2 == SubSeq(c.s1, first, Len(c.s1))
                   I == Conjoin([j \in 1..Cardinality(at) |-> c.s1[first + j - 1].e])
                   written == Written(c.s1)
                   enter(T) == {s \in T : TestIn(s, c.rv)}
                   leave(T) == {s \in T : ~TestIn(s, c.rv)}
                   any(s) == {[s EXCEPT !.m = [l \in Leaves |-> IF l \in DOMAIN f THEN f[l] ELSE @[l]]]
                                : f \in [{l \in written : s.m[l] # Gone} -> 0..MaxInt]}
                   Out(r) == Flow(r.brk, {}, r.ret, r.errs)
                   last(r3) == Both(Out(r3), Out(Check(r3.norm, I, "inv_after")))
                   second(r2) == Both(Flow(leave(r2.norm), {}, {}, {}), Both(Out(r2), last(Ref(P, B1, enter(r2.norm)))))
                   inv(entry) == Both(Out(entry), second(Ref(P, B2, {s \in UNION {any(s) : s \in entry.norm} : Holds(I, s)})))
                   first_time(r1) == Both(Out(r1), inv(Check(r1.norm, I, "inv_entry")))
               IN Both(Flow(leave(S), {}, {}, {}), first_time(Ref(P, B1, enter(S))))
          [] c.k = "inv" -> Flow(S, {}, {}, {})
      then(acc, r) == Flow(r.norm, acc.brk \cup r.brk, acc.ret \cup r.ret, acc.errs \cup r.errs)
      step(acc, c) == then(acc, one(c, acc.norm))
  IN FoldLeft(step, Flow(states, {}, {}, {}), cmds)

RECURSIVE HasCommand(_, _)
HasCommand(cmds, k) == \E c \in Range(cmds) : c.k = k \/ (c.k # "inv" /\ (HasCommand(c.s1, k) \/ HasCommand(c.s2, k)))
RECURSIVE InvInBranch(_, _)
InvInBranch(cmds, branch) ==
  \E c \in Range(cmds) : \/ c.k = "inv" /\ branch
                         \/ c.k = "while" /\ InvInBranch(c.s1, FALSE)
                         \/ c.k \in {"if", "match"} /\ (InvInBranch(c.s1, TRUE) \/ InvInBranch(c.s2, TRUE))
RECURSIVE ConstInLoop(_, _)
ConstInLoop(cmds, loop) ==
  \E c \in Range(cmds) : \/ c.k = "call" /\ c.rv.ops[1].k = "const" /\ loop
                         \/ c.k # "inv" /\ (ConstInLoop(c.s1, loop \/ c.k = "while") \/ ConstInLoop(c.s2, loop))

\* What the documented rules say of a procedure.
Expected(P) ==
  LET start == {s \in {[m |-> [l \in Leaves |-> IF l \in ArgLeaves(P) THEN f[l] ELSE Gone], old |-> Nothing]
                         : f \in [ArgLeaves(P) -> 0..MaxInt]} : TRUE}
      weak == IF P.trait = <<>> \/ P.pre = <<>> THEN Flow(start, {}, {}, {})
              ELSE Check(start, Implies(Conjoin(P.trait[1].pre), Conjoin(P.pre)), "weakening")
      known == {[s EXCEPT !.old = s.m] : s \in {s \in weak.norm : Holds(functional_precondition(P), s)}}
      body == Ref(P, P.source, known)
      final == {[s EXCEPT !.m = [l \in Leaves |-> IF l \in ArgLeaves(P) /\ l # Deref THEN s.old[l] ELSE @[l]]] : s \in body.ret}
      strong == IF P.trait = <<>> \/ P.post = <<>> THEN Flow(final, {}, {}, {})
                ELSE Check(final, Implies(Conjoin(P.post), Conjoin(P.trait[1].post)), "strengthening")
      post == Check(strong.norm, functional_postcondition(P), "post")
  IN IF InvInBranch(P.source, FALSE) THEN {"incorrect"}
     ELSE IF ConstInLoop(P.source, FALSE) \/ (HasCommand(P.source, "next") /\ ~P.allow_unsupported) THEN {"unsupported"}
     ELSE weak.errs \cup body.errs \cup strong.errs \cup post.errs

\* The verdict on a procedure is the one that the rules of its specification
\* give, error by error: an encoding error or the kinds of the verification
\* errors (procedure_encoder.rs and the optimisations of methods).
VerdictMatchesRules ==
  phase \in {"verified", "done"} /\ status = "none" => errors = Expected(proc)

(***************************************************************************)
(* The procedures: programs with all combinations of some specifications.  *)
(***************************************************************************)
Proc(source, args, pre, post, trait, check_panics, allow, usize) ==
  [source |-> source, mir |-> LowerProgram(source), args |-> args, pre |-> pre, post |-> post, trait |-> trait,
   check_panics |-> check_panics, allow_unsupported |-> allow, usize |-> usize]

With(source, args, pres, posts, usize) ==
  {Proc(source, args, pre, post, <<>>, panics, FALSE, usize) : pre \in pres, post \in posts, panics \in BOOLEAN}

Some(e) == <<e>>
Pres == {<<>>, Some(Le(Val(x), Num(1)))}
Posts == {<<>>, Some(Eq(Val(result), Val(x))), Some(Le(Val(result), Val(x))), Some(Eq(Val(result), Plus(Val(x), 1)))}
Invs == {Num(1), Le(Val(y), Val(x)), Lt(Val(y), Val(x)), Eq(Val(y), Num(0))}

YltX == Cmp("lt", Copy(y), Copy(x))
XisNum(n) == Cmp("eq", Copy(x), Const(n))
YisNum(n) == Cmp("eq", Copy(y), Const(n))
I(e) == Inv(e, <<y, x>>)

\* Straight code, branches and calls.
Straight ==
  {<<Let(y, x), Inc(y), Ret(y)>>,
   <<Let(y, x), Let(z, y), AssertThat(Cmp("le", Copy(z), Const(1))), Ret(z)>>,
   <<If(XisNum(0), <<LetNum(y, 1)>>, <<Let(y, x)>>), Ret(y)>>,
   <<Match(XisNum(2), <<Ret(x)>>, <<Let(y, x), Inc(y)>>), Ret(y)>>,
   <<LetNum(y, 0), If(XisNum(1), <<Inc(y)>>, <<>>), Replace(y, x), Inc(y), Ret(y)>>,
   <<BoundsCheck(Cmp("lt", Copy(x), Const(2))), Let(y, x), Inc(y), Ret(y)>>,
   <<CallFn(y, "succ", x), Ret(y)>>,
   <<CallFn(y, "less", x), CallFn(z, "succ", y), Ret(z)>>,
   <<CallFn(y, "next1", x), CallFn(y, "less", y), Ret(y)>>,
   <<CallNum(y, "succ", 1), If(Cmp("le", Copy(y), Copy(x)), <<>>, <<Exit(x)>>), Ret(y)>>,
   <<Pair(<<"p">>, Copy(x), Const(1)), Inc(Field0), Set(<<"q">>, Use(Copy(<<"p">>))), Let(Field0, Field1),
     Drop(<<"p">>), Let(y, <<"q", "0">>), Ret(y)>>}

\* Loops with every invariant.
Loops ==
  UNION {{<<LetNum(y, 0), While(YltX, <<I(e), Inc(y)>>), Ret(y)>>,
          <<LetNum(y, 0), While(YltX, <<Inc(y), I(e)>>), Ret(y)>>,
          <<LetNum(y, 0), While(YltX, <<I(e), I(Le(Val(y), Num(1))), Inc(y), If(YisNum(1), <<Break>>, <<>>)>>), Ret(y)>>,
          <<LetNum(y, 0), Forever(<<If(YisNum(2), <<Ret(y)>>, <<>>), I(e), CallFn(y, "succ", y)>>)>>,
          <<LetNum(y, 0), While(YltX, <<I(e), CallFn(z, "succ", y), If(YltX, <<Let(y, z)>>, <<LetNum(y, 2)>>)>>), Ret(y)>>,
          <<LetNum(y, 0), While(YltX, <<I(e), BoundsCheck(YltX), Inc(y)>>), Ret(y)>>,
          <<LetNum(y, 0), While(YltX, <<If(YisNum(0), <<I(e)>>, <<>>), Inc(y)>>), Ret(y)>>}
           : e \in Invs}
  \cup {<<LetNum(y, 0), While(YltX, <<Inc(y)>>), Ret(y)>>,
        <<LetNum(y, 0), While(YltX, <<CallNum(y, "succ", 1)>>), Ret(y)>>,
        <<LetNum(y, 0), Forever(<<LetNum(y, 1)>>)>>}

\* A loop in a loop, a pair and a reference that are changed in a loop.
Nested ==
  UNION {{<<LetNum(y, 0), LetNum(z, 0),
            While(Cmp("lt", Copy(z), Copy(x)),
                  <<Inv(e1, <<z, x>>), While(YltX, <<I(e2), Inc(y)>>), Inc(z)>>), Ret(z)>>,
          <<LetNum(y, 0), LetNum(z, 0),
            While(Cmp("lt", Copy(z), Copy(x)),
                  <<While(YltX, <<I(e2), Inc(y)>>), Inv(e1, <<z, x>>), Inc(z)>>), Ret(z)>>,
          <<LetNum(y, 0), LetNum(z, 0),
            While(Cmp("lt", Copy(z), Copy(x)), <<LetNum(y, 0), While(YltX, <<I(e2), Inc(y)>>), Let(z, y)>>), Ret(z)>>,
          <<LetNum(y, 0), Pair(<<"p">>, Const(0), Const(1)),
            While(Cmp("lt", Copy(Field0), Copy(x)),
                  <<Inv(replace_place(e1, "val", z, Val(Field0)), <<Field0, x>>), I(e2), Inc(Field0)>>), Ret(Field0)>>}
           : e1 \in {Num(1), Le(Val(z), Val(x))}, e2 \in {Num(1), Le(Val(y), Val(x)), Eq(Val(y), Num(0))}}

ByReference ==
  {<<LetNum(y, 0), While(YltX, <<Inv(e, <<y, x, Deref>>), Inc(y), Let(Deref, y)>>), Ret(y)>>
     : e \in {Num(1), Le(Val(y), Val(x)), Le(Val(Deref), Val(y)), Eq(Val(Deref), Old(Deref))}}
RefPosts == {<<>>, Some(Le(Val(Deref), Val(result))), Some(Eq(Val(Deref), Old(Deref)))}

Traits ==
  {Proc(source, {"x"}, pre, post, Some([pre |-> tpre, post |-> tpost]), TRUE, FALSE, {})
     : source \in {<<Let(y, x), Inc(y), Ret(y)>>}, pre \in Pres \cup {Some(Le(Val(x), Num(0)))},
       post \in {<<>>, Some(Le(Val(x), Val(result))), Some(Eq(Val(result), Plus(Val(x), 1)))},
       tpre \in {Some(Num(1)), Some(Le(Val(x), Num(1)))},
       tpost \in {Some(Le(Num(1), Val(result))), Some(Lt(Val(x), Val(result)))}}

Unsupported ==
  {Proc(<<If(XisNum(2), <<Next1, AssertThat(XisNum(0)), Exit(x)>>, <<>>), Ret(x)>>, {"x"}, pre, <<>>, <<>>, TRUE, allow, {})
     : pre \in Pres, allow \in BOOLEAN}

MCProcedureSet ==
  UNION {With(source, {"x"}, Pres, Posts, usize) : source \in Straight, usize \in {{}, {x}, {x, y, z}}}
  \cup UNION {With(source, {"x"}, Pres, Posts, usize) : source \in Loops, usize \in {{}, {x}}}
  \cup UNION {With(source, {"x"}, {<<>>}, {<<>>, Some(Eq(Val(result), Val(x)))}, {}) : source \in Nested}
  \cup UNION {With(source, {"x", "r"}, {<<>>}, RefPosts, {}) : source \in ByReference}
  \cup Traits \cup Unsupported

\* A variable of type usize that a loop assigns a constant, and reads before that.
PurifiedInLoop ==
  {Proc(<<LetNum(y, 0), LetNum(z, 0),
          While(Cmp("lt", Copy(z), Copy(x)),
                <<Inv(Lt(Val(z), Val(x)), <<z, x>>), AssertThat(YisNum(0)), LetNum(y, 1), Inc(z)>>), Ret(z)>>,
        {"x"}, <<>>, <<>>, <<>>, TRUE, FALSE, usize) : usize \in {{}, {x, y, z}}}
=============================================================================
