-------------------------- MODULE PureExpressions --------------------------
(***************************************************************************)
(* From the MIR of a pure function to the expression Viper gets: the       *)
(* encoder of pure functions and the optimiser of the encoded program,     *)
(* with the properties that relate the expressions to the execution of the *)
(* MIR.  A behaviour encodes one body or optimises one program.            *)
(***************************************************************************)
EXTENDS PureFunctionEncoder

CONSTANTS
  Programs,       \* the programs to optimise: functions and inhaled expressions
  EnvsOf(_),      \* the values of the locals of a body
  OldsOf(_),      \* the values the locals had in the labelled states
  ProgramEnvs     \* the values of the places an optimised program reads

-----------------------------------------------------------------------------
(* Program::optimized, as far as it rewrites expressions: constant         *)
(* functions are inlined until nothing changes, then unfoldings are moved  *)
(* outwards in the inhaled expressions.                                    *)

VARIABLES
  source,              \* the program as it was encoded
  functions,           \* name -> [body, permission_pres, no_posts]
  pure_function_map,   \* name -> body of a function that is inlined
  inhales,             \* Seq of the expressions the methods inhale
  opt_phase            \* "inline", "methods", "folding", "done"
optVars == <<source, functions, pure_function_map, inhales, opt_phase>>

Purified(fs) == {f \in DOMAIN fs : try_purify(fs[f])}

\* One iteration of the loop of inline_constant_functions.
InlineRound ==
  /\ opt_phase = "inline"
  /\ LET pure == Purified(functions)
         map == [f \in DOMAIN pure_function_map \cup pure |->
                   IF f \in pure THEN functions[f].body ELSE pure_function_map[f]]
     IN /\ pure_function_map' = map
        /\ functions' = [f \in DOMAIN functions \ pure |->
                           [functions[f] EXCEPT !.body = inline(@, map)]]
        /\ opt_phase' = IF pure = {} THEN "methods" ELSE "inline"
  /\ UNCHANGED <<source, inhales>>

inline_into_methods ==
  /\ opt_phase = "methods"
  /\ inhales' = [j \in DOMAIN inhales |-> inline(inhales[j], pure_function_map)]
  /\ opt_phase' = "folding"
  /\ UNCHANGED <<source, functions, pure_function_map>>

optimize_folding ==
  /\ opt_phase = "folding"
  /\ inhales' = [j \in DOMAIN inhales |-> optimize(inhales[j])]
  /\ functions' = [f \in DOMAIN functions |-> [functions[f] EXCEPT !.body = optimize(@)]]
  /\ opt_phase' = "done"
  /\ UNCHANGED <<source, pure_function_map>>

OptInit(p) == /\ source = p
              /\ functions = p.functions /\ inhales = p.inhales
              /\ pure_function_map = <<>>
              /\ opt_phase = "inline"

OptNext == InlineRound \/ inline_into_methods \/ optimize_folding

BodiesOf(fs) == [f \in DOMAIN fs |-> Strip(fs[f].body)]

-----------------------------------------------------------------------------
(* The encoder and the optimiser. *)

vars == <<pureVars, optVars>>

IdleProgram == [functions |-> <<>>, inhales |-> <<>>]

Init == \/ /\ PureInit
           /\ source = IdleProgram /\ functions = <<>> /\ inhales = <<>>
           /\ pure_function_map = <<>> /\ opt_phase = "done"
        \/ /\ \E p \in Programs : OptInit(p)
           /\ mir = CHOOSE m \in Bodies : TRUE
           /\ check_overflows = TRUE /\ is_encoding_assertion = FALSE
           /\ pending_blocks = <<>> /\ heads = <<>> /\ stage = "idle" /\ expr = NoExpr

Done == stage \in {"failed", "panicked", "loop", "assertion", "simplified", "idle"} /\ opt_phase = "done"

\* The encoder and the optimiser stop; a behaviour stops nowhere else.
Next == \/ PureNext /\ UNCHANGED optVars
        \/ OptNext /\ UNCHANGED pureVars
        \/ Done /\ UNCHANGED vars

Spec == Init /\ [][Next]_vars

Semantics == [discr |-> Discriminants, bounded |-> check_overflows]

-----------------------------------------------------------------------------
(* Properties *)

\* The expression has the value ev where the execution gives ex.  Nothing is
\* claimed where Viper rejects a cast, and for unreachable code.
Agrees_(ev, ex) ==
  \/ ev = Err("precondition")
  \/ ex = Err("undefined")
  \/ ex = Err("panic") /\ ev = Err("unreachable")
  \/ ex = Err("assert") /\ ev = (IF is_encoding_assertion THEN B(FALSE) ELSE Err("unreachable"))
  \/ ~IsErr(ex) /\ SnapshotOf(ev) = SnapshotOf(ex)

\* The formal arguments of an encoded function have snapshots as values.
ArgumentsOf(body, env) == [x \in Range(body.args) |-> SnapshotOf(env[x])]

\* The state computed for a block is, for all values of the locals, what the
\* program returns when it is executed from the beginning of that block: through
\* substitutions in the reverse order of the assignments, merged branches,
\* references, aggregates, discriminants, overflow checks and downcasts.
HeadsExact ==
  \A b \in DOMAIN heads : \A env \in EnvsOf(mir) :
    Agrees_(Eval(heads[b], env, OldsOf(mir)), Exec(mir, b, env, OldsOf(mir), Semantics))

\* The function that is handed to Viper, before and after simplification, returns
\* what the Rust function returns, and reads nothing but its arguments.
FunctionExact ==
  stage \in {"function", "simplified"} =>
    \A env \in EnvsOf(mir) :
      Agrees_(Eval(expr, ArgumentsOf(mir, env),
                   [l \in DOMAIN OldsOf(mir) |-> ArgumentsOf(mir, OldsOf(mir)[l])]),
              Exec(mir, 1, env, OldsOf(mir), Semantics))

\* An inhaled expression that is well-defined whatever the values of the places is
\* well-defined, with the same value, after the optimisations: moving an unfolding
\* outwards takes away no predicate another operand needs and unfolds no variant
\* the value does not have, and no call of a function that was removed is left.
OptimizedExact ==
  opt_phase \in {"folding", "done"} =>
    \A j \in DOMAIN inhales :
      LET before(env) == env @@ BodiesOf(source.functions)
          now(env) == env @@ BodiesOf(functions)
          olds(in(_)) == [old |-> in(CHOOSE env \in ProgramEnvs : TRUE)]
      IN (\A env \in ProgramEnvs : WellFolded(source.inhales[j], before(env), olds(before), {})) =>
         \A env \in ProgramEnvs :
           /\ WellFolded(inhales[j], now(env), olds(now), {})
           /\ Eval(Strip(inhales[j]), now(env), olds(now))
                = Eval(Strip(source.inhales[j]), before(env), olds(before))

=============================================================================
