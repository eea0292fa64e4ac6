------------------------------ MODULE PureMir ------------------------------
(***************************************************************************)
(* The MIR of a pure function or of an assertion, as the compiler hands it *)
(* to the encoder, and what it computes.  This module is the reference the *)
(* encoding is compared with; it models rustc, not Prusti.                 *)
(*                                                                         *)
(* A body has a type for every local, the sequence of its arguments and    *)
(* its basic blocks; block 1 is the first one.  A place is a local with a  *)
(* sequence of projections: a field, "deref", or the name of a variant.    *)
(***************************************************************************)
EXTENDS VirExpr

Place(x, p) == [x |-> x, p |-> p]

\* Types: an integer type, "bool", a pair, an enumeration, a reference.
Ty(t, s)  == [t |-> t, s |-> s]
Prim(t)   == Ty(t, <<>>)
IsInt(ty) == ty.t \in DOMAIN MIN

ElemTy(ty, f) == CASE f = "tuple_0" -> ty.s[1]
                   [] f = "tuple_1" -> ty.s[2]
                   [] f = "deref" -> ty.s[1]
                   [] f = "f" -> ty.s[1]
                   [] OTHER -> ty          \* a downcast keeps the type

PlaceTy(body, pl) == FoldLeft(ElemTy, body.ty[pl.x], pl.p)

\* Operands: a copied or moved place, or a constant.
Copy(x, p)  == [k |-> "place", x |-> x, p |-> p, n |-> 0]
ConstInt(n) == [k |-> "int", x |-> "", p |-> <<>>, n |-> n]
ConstBool(b) == [k |-> "bool", x |-> "", p |-> <<>>, n |-> IF b THEN 1 ELSE 0]

Rvalue(k, d, ops) == [k |-> k, d |-> d, ops |-> ops]
Assign(x, p, rv)  == [lhs |-> Place(x, p), rv |-> rv]
Term(k, ops, vals, to) ==
  [k |-> k, ops |-> ops, vals |-> vals, to |-> to, d |-> "", lhs |-> Place("", <<>>)]
CallTerm(f, x, ops, to) ==
  [k |-> "call", ops |-> ops, vals |-> <<>>, to |-> to, d |-> f, lhs |-> Place(x, <<>>)]

(***************************************************************************)
(* The values of the locals.                                               *)
(***************************************************************************)
FieldOf(f) == IF f = "deref" THEN "val_ref" ELSE f

Read(env, pl) == FoldLeft(LAMBDA v, f : v[FieldOf(f)], env[pl.x], pl.p)

RECURSIVE Updated(_, _, _)
Updated(v, p, new) == IF p = <<>> THEN new
                      ELSE [v EXCEPT ![FieldOf(Head(p))] = Updated(@, Tail(p), new)]

Write(env, pl, v) == [env EXCEPT ![pl.x] = Updated(@, pl.p, v)]

IntCell(n)  == [val_int |-> I(n)]
BoolCell(b) == [val_bool |-> B(b)]
EnumA(d)    == [discriminant |-> I(d["A"]), A |-> [unit |-> I(0)]]
EnumB(d, v) == [discriminant |-> I(d["B"]), B |-> [f |-> v]]

OperandValue(env, o) == CASE o.k = "place" -> Read(env, o)
                          [] o.k = "int" -> IntCell(o.n)
                          [] o.k = "bool" -> BoolCell(o.n = 1)

Raw(v) == IF "val_int" \in DOMAIN v THEN v.val_int ELSE v.val_bool

Abs(i) == IF i < 0 THEN -i ELSE i

\* The remainder of Rust has the sign of the dividend, the quotient is truncated.
RustRem(a, n) == IF a < 0 THEN -(Abs(a) % Abs(n)) ELSE a % Abs(n)
RustDiv(a, n) == (a - RustRem(a, n)) \div n

RustBinOp(op, l, r) ==
  CASE op = "rem" -> IntCell(RustRem(l.i, r.i))
    [] op = "div" -> IntCell(RustDiv(l.i, r.i))
    [] op = "xor" -> BoolCell(l.b # r.b)
    [] op = "and" -> BoolCell(l.b /\ r.b)
    [] op = "or" -> BoolCell(l.b \/ r.b)
    [] op \in {"+", "-", "*"} -> IntCell(ViperBinOp(op, l, r).i)
    [] OTHER -> BoolCell(ViperBinOp(op, l, r).b)

\* Wrapping conversion to the type w.
Wrap(i, w) == MIN[w] + ((i - MIN[w]) % (MAX[w] - MIN[w] + 1))

\* The value of a right-hand side.  The semantics sem gives the discriminants of
\* the variants and tells whether integers are bounded.
RvalueValue(env, rv, ty, sem) ==
  LET v == [j \in DOMAIN rv.ops |-> OperandValue(env, rv.ops[j])]
  IN CASE rv.k = "use" -> v[1]
       [] rv.k = "tuple" -> [tuple_0 |-> v[1], tuple_1 |-> v[2]]
       [] rv.k = "adt" -> IF rv.d = "A" THEN EnumA(sem.discr) ELSE EnumB(sem.discr, v[1])
       [] rv.k = "bin" /\ rv.d = "shl" -> IntCell(Wrap(Raw(v[1]).i * 2^Raw(v[2]).i, ty.t))
       [] rv.k = "bin" /\ rv.d # "shl" -> RustBinOp(rv.d, Raw(v[1]), Raw(v[2]))
       [] rv.k = "checked" ->
            LET r == RustBinOp(rv.d, Raw(v[1]), Raw(v[2])).val_int.i
            IN [tuple_0 |-> IntCell(r),
                tuple_1 |-> BoolCell(sem.bounded /\ ~InRange(r, ty.s[1].t))]
       [] rv.k = "un" -> IF rv.d = "not" THEN BoolCell(~Raw(v[1]).b)
                         ELSE IntCell(-Raw(v[1]).i)
       [] rv.k = "discriminant" -> [val_int |-> v[1].discriminant]
       [] rv.k = "ref" -> [val_ref |-> v[1]]
       [] rv.k = "cast" -> IF sem.bounded THEN IntCell(Wrap(Raw(v[1]).i, ty.t)) ELSE v[1]

\* A function call.  The argument of old and of before_expiry is evaluated with
\* the locals of an earlier state, which olds gives for either function.
CallValue(f, env, olds, ops) ==
  LET v == [j \in DOMAIN ops |-> OperandValue(env, ops[j])]
  IN CASE f \in DOMAIN olds -> OperandValue(olds[f], ops[1])
       [] f = "eq" -> BoolCell(SnapshotOf(v[1]) = SnapshotOf(v[2]))
       [] f = "ne" -> BoolCell(SnapshotOf(v[1]) # SnapshotOf(v[2]))
       [] OTHER -> [val_int |-> FunctionValue(f, <<Raw(v[1])>>)]

SwitchTarget(term, v) ==
  LET n == IF "val_bool" \in DOMAIN v THEN (IF v.val_bool.b THEN 1 ELSE 0) ELSE v.val_int.i
      J == {j \in DOMAIN term.vals : term.vals[j] = n}
  IN IF J = {} THEN term.to[Len(term.to)] ELSE term.to[CHOOSE j \in J : TRUE]

(***************************************************************************)
(* Execution of block b of the body to the end of the function: the value  *)
(* of the result, or [err |-> "panic" or "assert" or "undefined"].  The    *)
(* statements are executed in the earlier states too: that is what old(e)  *)
(* means for an expression e that takes several statements to compute.     *)
(***************************************************************************)
\* An operand reads a variant the value does not have.
WrongVariant(m, o) ==
  o.k = "place" /\ \E j \in DOMAIN o.p :
    o.p[j] \in {"A", "B"} /\ o.p[j] \notin DOMAIN Read(m, Place(o.x, SubSeq(o.p, 1, j - 1)))

ExecStatement(body, m, st, sem) ==
  IF "err" \in DOMAIN m THEN m
  ELSE IF \E o \in Range(st.rv.ops) : WrongVariant(m, o) THEN Err("undefined")
  ELSE Write(m, st.lhs, RvalueValue(m, st.rv, PlaceTy(body, st.lhs), sem))

RECURSIVE Exec(_, _, _, _, _)
Exec(body, b, env, olds, sem) ==
  LET block == body.blocks[b]
      t == block.term
      after(m) == FoldLeft(LAMBDA m1, st : ExecStatement(body, m1, st, sem), m, block.stmts)
      now == after(env)
      then == [l \in DOMAIN olds |-> after(olds[l])]
      val == OperandValue(now, t.ops[1])
      called(m) == Write(m, t.lhs, CallValue(t.d, m, then, t.ops))
  IN CASE "err" \in DOMAIN now -> now
       [] t.k = "return" -> now["_0"]
       [] t.k = "unreachable" -> Err("undefined")
       [] t.k = "resume" -> Err("panic")
       [] t.k \in {"goto", "drop", "false_edge", "false_unwind"} ->
            Exec(body, t.to[1], now, then, sem)
       [] t.k = "switch" -> Exec(body, SwitchTarget(t, val), now, then, sem)
       [] t.k = "assert" -> IF val.val_bool.b = (t.vals[1] = 1)
                            THEN Exec(body, t.to[1], now, then, sem) ELSE Err("assert")
       [] t.k = "call" -> IF t.lhs.x = "" THEN Err("panic")
                          ELSE Exec(body, t.to[1], called(now),
                                    [l \in DOMAIN then |-> called(then[l])], sem)

SuccessorsOf(body, b) == Range(body.blocks[b].term.to)
=============================================================================
