----------------------- MODULE PureFunctionEncoder -----------------------
(***************************************************************************)
(* pure_function_encoder.rs and mir_interpreter.rs: the body of a pure     *)
(* function, or of an assertion, becomes one expression.  The control-flow *)
(* graph is interpreted backwards; the state of a block is the expression  *)
(* for the result in terms of the values the locals have when the block    *)
(* begins.                                                                 *)
(*                                                                         *)
(* Arrays, slices and closures are left out.                               *)
(***************************************************************************)
EXTENDS PureMir

CONSTANTS
  Bodies,          \* the bodies to encode
  Discriminants    \* the discriminant of every variant of the enumeration

VARIABLES
  mir,                     \* the body
  is_encoding_assertion,   \* BOOLEAN
  check_overflows,         \* the configuration flag
  pending_blocks,          \* Seq of blocks
  heads,                   \* block -> expression
  stage,                   \* "interpret", then "failed", "panicked", "loop", "body", "assertion", ..., "idle"
  expr                     \* the encoded body
pureVars == <<mir, is_encoding_assertion, check_overflows, pending_blocks, heads,
              stage, expr>>

NoExpr == BoolConst(TRUE)

(***************************************************************************)
(* mir_encoder: places, operands and operators.                            *)
(***************************************************************************)
encode_projection(e, elem) ==
  CASE elem = "deref" -> Field(e, "val_ref")
    [] elem \in {"A", "B"} -> Variant(e, elem)
    [] OTHER -> Field(e, elem)

encode_place(pl) == FoldLeft(encode_projection, Local(pl.x, 0), pl.p)

\* encode_value_expr: primitive values and references are in a field.
encode_value_expr(e, ty) ==
  CASE IsInt(ty) -> Field(e, "val_int")
    [] ty.t = "bool" -> Field(e, "val_bool")
    [] ty.t = "ref" -> Field(e, "val_ref")
    [] OTHER -> e

encode_const_expr(o) == IF o.k = "int" THEN IntConst(o.n) ELSE BoolConst(o.n = 1)

encode_operand_expr(o) ==
  IF o.k = "place" THEN encode_value_expr(encode_place(o), PlaceTy(mir, o))
  ELSE encode_const_expr(o)

encode_bin_op_expr(op, l, r) ==
  CASE op = "rem" -> rem(l, r)
    [] op = "div" -> BinOp("/", l, r)
    [] op = "and" -> BinOp("&&", l, r)
    [] op = "or" -> BinOp("||", l, r)
    [] op = "xor" -> Not(BinOp("==", l, r))
    [] OTHER -> BinOp(op, l, r)

\* Shifts, and bitwise operations on integers, are refused.
UnsupportedOp(rv, ty) ==
  \/ rv.k \in {"bin", "checked"} /\ rv.d \in {"shl", "shr"}
  \/ rv.k = "bin" /\ rv.d \in {"and", "or", "xor"} /\ ty.t # "bool"

\* The upper bound the overflow check of a type compares with.
CheckedMax(w) == IF w = "i16" THEN MIN[w] ELSE MAX[w]

encode_bin_op_check(op, l, r, w) ==
  LET result == encode_bin_op_expr(op, l, r)
  IN IF ~check_overflows THEN BoolConst(FALSE)
     ELSE BinOp("||", BinOp("<", result, IntConst(MIN[w])),
                      BinOp(">", result, IntConst(CheckedMax(w))))

\* Every value of the first type is a value of the second one.
CannotFail(src, dst) == src = dst \/ (src = "i8" /\ dst = "i16")

encode_cast_expr(o, dst) ==
  LET val == encode_operand_expr(o)
  IN IF CannotFail(PlaceTy(mir, o).t, dst) \/ ~check_overflows THEN val
     ELSE FuncApp(dst, 0, <<val>>)

(***************************************************************************)
(* MultiExprBackwardInterpreterState, which holds one expression.          *)
(***************************************************************************)
substitute_value(e, target, replacement) == replace_place(e, target, replacement)

RECURSIVE substitute_place(_, _, _)
substitute_place(e, target, replacement) ==
  LET simplified == IF replacement.k = "addr_of"
                    THEN substitute_place(e, Field(target, "val_ref"), replacement.s[1])
                    ELSE e
  IN replace_place(simplified, target, replacement)

\* A field of an aggregate is substituted by the operand it is built from.
AssignOperand(e, target, ty, o) ==
  IF o.k = "place" THEN substitute_place(e, target, encode_place(o))
  ELSE substitute_value(e, encode_value_expr(target, ty), encode_const_expr(o))

(***************************************************************************)
(* apply_downcasts: the variants the statement or the terminator relies    *)
(* on, the outermost place first.                                          *)
(***************************************************************************)
DowncastsOf(pl) ==
  {<<Place(pl.x, SubSeq(pl.p, 1, j - 1)), pl.p[j]>> : j \in {j \in DOMAIN pl.p : pl.p[j] \in {"A", "B"}}}

detect_downcasts(places) ==
  LET all == UNION {DowncastsOf(pl) : pl \in places}
  IN SetToSortSeq(all, LAMBDA c, d : Len(c[1].p) < Len(d[1].p))

apply_downcasts(e, places) ==
  FoldLeft(LAMBDA acc, d : Downcast(acc, encode_place(d[1]), d[2]),
           e, Reverse(detect_downcasts(places)))

PlacesOf(ops) == {Place(o.x, o.p) : o \in {o \in Range(ops) : o.k = "place"}}

(***************************************************************************)
(* apply_statement: an assignment.  The expression is rewritten to the one *)
(* that has, before the statement, the value e has after it.               *)
(***************************************************************************)
AssignUse(e, lhs, ty, o) == AssignOperand(e, lhs, ty, o)

\* Every field is substituted, then what is left of the tuple as a whole.
AssignTuple(e, lhs, ty, ops) ==
  LET fields == FoldLeft(LAMBDA acc, j : AssignOperand(acc, Field(lhs, <<"tuple_0", "tuple_1">>[j]),
                                                       ty.s[j], ops[j]), e, <<1, 2>>)
      field_expr(o) == IF o.k = "place" THEN encode_place(o) ELSE encode_const_expr(o)
  IN substitute_place(fields, lhs, Constructor([j \in DOMAIN ops |-> field_expr(ops[j])]))

\* The discriminant becomes the index of the variant; the fields follow.
VariantIndex(v) == IF v = "A" THEN 0 ELSE 1

AssignAdt(e, lhs, ty, variant, ops) ==
  LET discr == substitute_value(e, Field(lhs, "discriminant"), IntConst(VariantIndex(variant)))
  IN IF ops = <<>> THEN discr
     ELSE AssignOperand(discr, Field(Variant(lhs, variant), "f"), ty.s[1], ops[1])

AssignBinaryOp(e, lhs, ty, op, ops) ==
  LET val(j) == SnapApp(encode_operand_expr(ops[j]))
  IN substitute_value(e, encode_value_expr(lhs, ty), encode_bin_op_expr(op, val(1), val(2)))

AssignCheckedBinaryOp(e, lhs, ty, op, ops) ==
  LET val(j) == SnapApp(encode_operand_expr(ops[j]))
      value == substitute_value(e, Field(Field(lhs, "tuple_0"), "val_int"),
                                encode_bin_op_expr(op, val(1), val(2)))
  IN substitute_value(value, Field(Field(lhs, "tuple_1"), "val_bool"),
                      encode_bin_op_check(op, val(1), val(2), ty.s[1].t))

AssignUnaryOp(e, lhs, ty, op, ops) ==
  LET val == encode_operand_expr(ops[1])
  IN substitute_value(e, encode_value_expr(lhs, ty), IF op = "not" THEN Not(val) ELSE Minus(val))

AssignDiscriminant(e, lhs, ty, src) ==
  substitute_value(e, encode_value_expr(lhs, ty), Field(encode_place(src), "discriminant"))

\* The address of a dereferenced reference is that reference.
AssignRef(e, lhs, src) ==
  LET place == encode_place(src)
  IN substitute_place(e, lhs, IF place.k = "field" /\ place.d = "val_ref"
                              THEN place.s[1] ELSE AddrOf(place))

AssignCast(e, lhs, ty, o) ==
  substitute_value(e, encode_value_expr(lhs, ty), encode_cast_expr(o, ty.t))

apply_statement(e, st) ==
  LET lhs == encode_place(st.lhs)
      ty == PlaceTy(mir, st.lhs)
      rv == st.rv
      assigned == CASE rv.k = "use" -> AssignUse(e, lhs, ty, rv.ops[1])
                    [] rv.k = "tuple" -> AssignTuple(e, lhs, ty, rv.ops)
                    [] rv.k = "adt" -> AssignAdt(e, lhs, ty, rv.d, rv.ops)
                    [] rv.k = "bin" -> AssignBinaryOp(e, lhs, ty, rv.d, rv.ops)
                    [] rv.k = "checked" -> AssignCheckedBinaryOp(e, lhs, ty, rv.d, rv.ops)
                    [] rv.k = "un" -> AssignUnaryOp(e, lhs, ty, rv.d, rv.ops)
                    [] rv.k = "discriminant" -> AssignDiscriminant(e, lhs, ty, rv.ops[1])
                    [] rv.k = "ref" -> AssignRef(e, lhs, rv.ops[1])
                    [] rv.k = "cast" -> AssignCast(e, lhs, ty, rv.ops[1])
  IN IF ~find(e, lhs) THEN e
     ELSE apply_downcasts(assigned, PlacesOf(rv.ops) \cup {st.lhs})

(***************************************************************************)
(* apply_terminator: the state after the block from those of its           *)
(* successors.                                                             *)
(***************************************************************************)
unreachable_expr == FuncApp("unreachable", IF mir.ty["_0"].t = "bool" THEN 1 ELSE 0, <<>>)
undef_expr == FuncApp("undefined", IF mir.ty["_0"].t = "bool" THEN 1 ELSE 0, <<>>)

SwitchGuard(t, j) ==
  LET discr == encode_operand_expr(t.ops[1])
  IN IF PlaceTy(mir, t.ops[1]).t = "bool" THEN (IF t.vals[j] = 0 THEN Not(discr) ELSE discr)
     ELSE BinOp("==", discr, IntConst(t.vals[j]))

\* Mutant: when the default is unreachable, the first target replaces it although
\* its value is tested too, and the last one is lost.
ApplySwitchInt_DropFirst(t) ==
  LET otherwise == Last(t.to)
      default_is_unreachable == mir.blocks[otherwise].term.k = "unreachable" /\ t.vals # <<>>
      n == IF default_is_unreachable THEN Len(t.vals) - 1 ELSE Len(t.vals)
  IN FoldLeft(LAMBDA else_expr, j : IF heads[t.to[j]] = else_expr THEN else_expr
                                    ELSE Cond(SwitchGuard(t, j), heads[t.to[j]], else_expr),
              heads[IF default_is_unreachable THEN t.to[1] ELSE otherwise], [j \in 1..n |-> j])

\* The value of the last target is not tested when the default is unreachable.
ApplySwitchInt(t) ==
  LET otherwise == Last(t.to)
      default_is_unreachable == mir.blocks[otherwise].term.k = "unreachable" /\ t.vals # <<>>
      n == IF default_is_unreachable THEN Len(t.vals) - 1 ELSE Len(t.vals)
      refined_default_target == IF default_is_unreachable THEN t.to[n + 1] ELSE otherwise
  IN FoldLeft(LAMBDA else_expr, j : IF heads[t.to[j]] = else_expr THEN else_expr
                                    ELSE Cond(SwitchGuard(t, j), heads[t.to[j]], else_expr),
              heads[refined_default_target], [j \in 1..n |-> j])

\* The value a call gives to its destination.
CallExpr(t) ==
  LET arg(j) == encode_operand_expr(t.ops[j])
  IN CASE t.d = "old" -> LabelledOld("old", SnapApp(arg(1)))
       [] t.d = "before_expiry" -> LabelledOld("before_expiry", arg(1))
       [] t.d = "eq" -> BinOp("==", SnapApp(arg(1)), SnapApp(arg(2)))
       [] t.d = "ne" -> BinOp("!=", SnapApp(arg(1)), SnapApp(arg(2)))
       [] OTHER -> FuncApp(t.d, 0, <<arg(1)>>)

ApplyCall(t) ==
  IF t.lhs.x = "" THEN unreachable_expr
  ELSE substitute_value(heads[t.to[1]],
                        encode_value_expr(encode_place(t.lhs), PlaceTy(mir, t.lhs)), CallExpr(t))

\* A failing check makes an assertion false and a function call unreachable.
ApplyAssert(t) ==
  LET cond == encode_operand_expr(t.ops[1])
  IN Cond(IF t.vals[1] = 1 THEN cond ELSE Not(cond), heads[t.to[1]],
          IF is_encoding_assertion THEN BoolConst(FALSE) ELSE unreachable_expr)

apply_terminator(t) ==
  LET state == CASE t.k = "unreachable" -> undef_expr
                 [] t.k = "resume" -> unreachable_expr
                 [] t.k \in {"goto", "drop", "false_edge", "false_unwind"} -> heads[t.to[1]]
                 [] t.k = "return" -> encode_value_expr(Local("_0", 0), mir.ty["_0"])
                 [] t.k = "switch" -> ApplySwitchInt(t)
                 [] t.k = "call" -> ApplyCall(t)
                 [] t.k = "assert" -> ApplyAssert(t)
  IN apply_downcasts(state, PlacesOf(t.ops))

(***************************************************************************)
(* run_backward_interpretation, one step per block.                        *)
(***************************************************************************)
Blocks == DOMAIN mir.blocks

FinalBlocks(body) == SelectSeq([b \in DOMAIN body.blocks |-> b],
                               LAMBDA b : body.blocks[b].term.to = <<>>)

\* mir.predecessors(): a block is listed once for each of its edges.
predecessors(b) == FlattenSeq([p \in Blocks |->
                     [j \in 1..Cardinality({j \in DOMAIN mir.blocks[p].term.to :
                                              mir.blocks[p].term.to[j] = b}) |-> p]])

\* The state between statement j of block b and the next one.
StateAfter(b, j) == LET block == mir.blocks[b]
                        rest == SubSeq(block.stmts, j + 1, Len(block.stmts))
                    IN FoldLeft(apply_statement, apply_terminator(block.term), Reverse(rest))

BlockState(b) == StateAfter(b, 0)

\* A call of an impure function cannot be encoded, nor can an operation that is
\* not supported if its result is used.
Fails(b) ==
  LET block == mir.blocks[b]
      t == block.term
  IN \/ t.k = "call" /\ t.lhs.x # "" /\ t.d = "impure"
     \/ \E j \in DOMAIN block.stmts :
          LET st == block.stmts[j]
          IN /\ UnsupportedOp(st.rv, PlaceTy(mir, st.lhs))
             /\ find(StateAfter(b, j), encode_place(st.lhs))

\* The assertions of apply_terminator on the number of its successors, and the
\* terminator it does not implement.
TerminatorPanics(b) ==
  LET k == mir.blocks[b].term.k
      states == Cardinality(SuccessorsOf(mir, b))
  IN \/ k \in {"unreachable", "resume", "return"} /\ states # 0
     \/ k = "drop" /\ states \notin 1..2
     \/ k \in {"goto", "false_unwind"} /\ states # 1
     \/ k = "false_edge" /\ states # 2
     \/ k = "drop_and_replace"

ReadyPredecessors(b, done) ==
  SelectSeq(predecessors(b), LAMBDA p : SuccessorsOf(mir, p) \subseteq done)

InterpretBlock ==
  /\ stage = "interpret" /\ pending_blocks # <<>>
  /\ LET b == Last(pending_blocks)
     IN /\ ~TerminatorPanics(b) /\ ~Fails(b)
        /\ heads' = [c \in DOMAIN heads \cup {b} |-> IF c = b THEN BlockState(b) ELSE heads[c]]
        /\ pending_blocks' = Front(pending_blocks) \o ReadyPredecessors(b, DOMAIN heads \cup {b})
  /\ UNCHANGED <<mir, is_encoding_assertion, check_overflows, stage, expr>>

FailBlock ==
  /\ stage = "interpret" /\ pending_blocks # <<>>
  /\ ~TerminatorPanics(Last(pending_blocks)) /\ Fails(Last(pending_blocks))
  /\ stage' = "failed"
  /\ UNCHANGED <<mir, is_encoding_assertion, check_overflows, pending_blocks, heads, expr>>

PanicInBlock ==
  /\ stage = "interpret" /\ pending_blocks # <<>>
  /\ TerminatorPanics(Last(pending_blocks))
  /\ stage' = "panicked"
  /\ UNCHANGED <<mir, is_encoding_assertion, check_overflows, pending_blocks, heads, expr>>

\* The state of the first block, if it has one.
FinishInterpretation ==
  /\ stage = "interpret" /\ pending_blocks = <<>>
  /\ IF 1 \in DOMAIN heads THEN stage' = "body" /\ expr' = heads[1]
     ELSE stage' = "loop" /\ UNCHANGED expr
  /\ UNCHANGED <<mir, is_encoding_assertion, check_overflows, pending_blocks, heads>>

\* encode_body: the expression of an assertion is used as it is.
encode_body ==
  /\ stage = "body" /\ is_encoding_assertion
  /\ stage' = "assertion"
  /\ UNCHANGED <<mir, is_encoding_assertion, check_overflows, pending_blocks, heads, expr>>

\* encode_function: the values of the arguments become the formal arguments,
\* and the result becomes a snapshot.
FixArgument(e, x) ==
  substitute_place(e, encode_value_expr(Local(x, 0), mir.ty[x]),
                   Local(x, IF mir.ty[x].t = "bool" THEN 1 ELSE 0))

encode_function ==
  /\ stage = "body" /\ ~is_encoding_assertion
  /\ stage' = "function"
  /\ LET e == FoldLeft(FixArgument, expr, mir.args)
     IN expr' = IF mir.ty["_0"].t \in {"tuple", "enum"} THEN SnapApp(e) ELSE e
  /\ UNCHANGED <<mir, is_encoding_assertion, check_overflows, pending_blocks, heads>>

\* encode_function_given_body, when the configuration asks for it.
Simplify ==
  /\ stage = "function"
  /\ stage' = "simplified" /\ expr' = simplify(expr)
  /\ UNCHANGED <<mir, is_encoding_assertion, check_overflows, pending_blocks, heads>>

PureInit ==
  /\ mir \in Bodies
  /\ check_overflows \in BOOLEAN
  /\ is_encoding_assertion \in (IF mir.ty["_0"].t = "bool" THEN BOOLEAN ELSE {FALSE})
  /\ pending_blocks = FinalBlocks(mir)
  /\ heads = <<>>
  /\ stage = "interpret" /\ expr = NoExpr

PureNext == InterpretBlock \/ FailBlock \/ PanicInBlock \/ FinishInterpretation \/ encode_body
            \/ encode_function \/ Simplify
====
