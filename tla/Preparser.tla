----------------------------- MODULE Preparser -----------------------------
(***************************************************************************)
(* The parser of specifications (prusti-specs/.../preparser.rs), over      *)
(* token trees.  A token is an identifier, one character of punctuation or *)
(* a group in parentheses or brackets.  The parser understands `==>`, `&&`,*)
(* quantifiers and specification entailments; what lies between them is    *)
(* handed to syn as a Rust expression.  An argument `x: T` of a quantifier *)
(* is the single token `x`.                                                *)
(***************************************************************************)
EXTENDS Naturals, Sequences, FiniteSets, SequencesExt

Ident(name)     == [k |-> "ident", v |-> name, in |-> <<>>]
Punct(c)        == [k |-> "punct", v |-> c, in |-> <<>>]
Group(d, inner) == [k |-> "group", v |-> d, in |-> inner]

\* The characters of an operator.
Chars == [op \in {"==>", "=>", "==", "&&", "||", "|=", "|", ",", "=", "!", ">"} |->
           CASE op = "==>" -> <<"=", "=", ">">> [] op = "=>" -> <<"=", ">">>
             [] op = "==" -> <<"=", "=">>       [] op = "&&" -> <<"&", "&">>
             [] op = "||" -> <<"|", "|">>       [] op = "|=" -> <<"|", "=">>
             [] OTHER -> <<op>>]

Op(op) == [i \in DOMAIN Chars[op] |-> Punct(Chars[op][i])]

From(s, i)   == SubSeq(s, i, Len(s))
Before(s, i) == SubSeq(s, 1, i - 1)

peek_operator_stream_offset(s, op, i) ==
  \A j \in DOMAIN Chars[op] : i + j - 1 \in DOMAIN s /\ s[i + j - 1] = Punct(Chars[op][j])

peek_operator(s, op)    == peek_operator_stream_offset(s, op, 1)
consume_operator(s, op) == From(s, Len(Chars[op]) + 1)
peek_keyword(s, name)   == s # <<>> /\ s[1] = Ident(name)
peek_group(s, d)        == s # <<>> /\ s[1].k = "group" /\ s[1].v = d

\* The tokens before and from the first place where one of the operators starts.
SplitBefore(s, end) == [before |-> Before(s, end), rest |-> From(s, end)]
UntilOneOf(s, ops) ==
  LET Starts(i) == \E op \in ops : peek_operator_stream_offset(s, op, i)
  IN  SplitBefore(s, IF \E i \in DOMAIN s : Starts(i)
                     THEN CHOOSE i \in DOMAIN s : Starts(i) /\ \A j \in 1 .. i - 1 : ~Starts(j)
                     ELSE Len(s) + 1)

contains_operator(s, op) == UntilOneOf(s, {op}).rest # <<>>

RECURSIVE contains_operator_recursive(_, _)
contains_operator_recursive(s, op) ==
  \/ contains_operator(s, op)
  \/ \E i \in DOMAIN s : contains_operator_recursive(s[i].in, op)

\* The pieces of s between the operators.
RECURSIVE SplitAt(_, _)
SplitAt(s, op) ==
  LET Pieces(u) == IF u.rest = <<>> THEN <<u.before>>
                   ELSE <<u.before>> \o SplitAt(consume_operator(u.rest, op), op)
  IN  Pieces(UntilOneOf(s, {op}))

-----------------------------------------------------------------------------
(* syn, the parser of Rust expressions, for the expressions of the instance:*)
(* calls, `!`, `==`, `&&` and `||`.                                         *)

\* The parameters of a closure or quantifier, `x` or `x, y`.
Parameters(s) == \A i \in DOMAIN s : s[i] = Punct(",") <=> i % 2 = 0
Names(s)      == [i \in 1 .. ((Len(s) + 1) \div 2) |-> s[2 * i - 1].v]

RECURSIVE IsRust(_)
IsRust(s) ==
  LET Each(op) == \A piece \in Range(SplitAt(s, op)) : IsRust(piece)
      IsClosure(u) == u.rest # <<>> /\ Parameters(u.before) /\ IsRust(Tail(u.rest))
      IsArgument(a) == IF peek_operator(a, "|") THEN IsClosure(UntilOneOf(Tail(a), {"|"})) ELSE IsRust(a)
  IN  IF contains_operator(s, "||") THEN Each("||")
      ELSE IF contains_operator(s, "&&") THEN Each("&&")
      ELSE IF contains_operator(s, "==") THEN Len(SplitAt(s, "==")) = 2 /\ Each("==")
      ELSE \/ peek_operator(s, "!") /\ IsRust(Tail(s))
           \/ Len(s) = 1 /\ s[1].k = "ident"
           \/ Len(s) = 1 /\ peek_group(s, "(") /\ IsRust(s[1].in)
           \/ /\ Len(s) = 2 /\ s[1].k = "ident" /\ peek_group(Tail(s), "(")
              /\ s[2].in = <<>> \/ \A a \in Range(SplitAt(s[2].in, ",")) : IsArgument(a)

-----------------------------------------------------------------------------
(* The parser.  A result has the parsed node and the tokens that are left.  *)

Node(kind, expr, vars, triggers, of, posts) ==
  [kind |-> kind, expr |-> expr, vars |-> vars, triggers |-> triggers, of |-> of, posts |-> posts]
And(of)       == Node("And", <<>>, <<>>, <<>>, of, <<>>)
Implies(l, r) == Node("Implies", <<>>, <<>>, <<>>, <<l, r>>, <<>>)
Expr(tokens)  == Node("Expr", tokens, <<>>, <<>>, <<>>, <<>>)

Ok(node, rest) == [ok |-> TRUE, node |-> node, rest |-> rest]
Err            == [ok |-> FALSE, node |-> And(<<>>), rest |-> <<>>]

\* Mutant: an implication does not separate subexpressions.
BothAcrossImplications(s) == contains_operator(s, "&&") /\ contains_operator(s, "||")

\* Whether `&&` and `||` occur in one subexpression, that is in one group
\* without `==>` between them.
RECURSIVE contains_both_and_or(_)
contains_both_and_or(s) ==
  LET At(op) == {i \in DOMAIN s : peek_operator_stream_offset(s, op, i)}
      Apart(i, j, ends) == \E k \in ends : k \in (i .. j) \cup (j .. i)
  IN  \/ \E i \in At("&&"), j \in At("||") : ~Apart(i, j, At("==>"))
      \/ \E i \in DOMAIN s : s[i].k = "group" /\ s[i].v = "(" /\ contains_both_and_or(s[i].in)

\* Is there a non-Prusti operator after the first token?
is_part_of_rust_expr(s) ==
  Len(s) > 1 /\ \A op \in {"|=", "&&", "==>"} : ~peek_operator(Tail(s), op)

RustExpr(u) ==
  IF contains_operator_recursive(u.before, "==>") \/ u.before = <<>> \/ ~IsRust(u.before) THEN Err
  ELSE Ok(Expr(u.before), u.rest)

parse_rust_until(s, terminator) == RustExpr(UntilOneOf(s, {"|=", "&&", "==>", terminator}))

RECURSIVE parse_prusti(_)

\* An empty assertion is true; nothing may be left over.
extract_assertion(s) ==
  LET Complete(p) == IF p.ok /\ p.rest = <<>> THEN p ELSE Err
  IN  IF s = <<>> THEN Ok(And(<<>>), <<>>)
      ELSE IF contains_both_and_or(s) THEN Err
      ELSE Complete(parse_prusti(s))

\* The node of a group that was parsed to its end, and the tokens after the group.
InGroup(inner, rest) == IF inner.ok THEN Ok(inner.node, rest) ELSE Err

Items(g) == SelectSeq(SplitAt(g.in, ","), LAMBDA item : item # <<>>)

\* The `triggers` of a quantifier, an array of tuples.
AreTriggers(s) ==
  /\ Len(s) = 1 /\ peek_group(s, "[")
  /\ \A e \in Range(Items(s[1])) :
       /\ Len(e) = 1 /\ peek_group(e, "(") /\ (e[1].in = <<>> \/ contains_operator(e[1].in, ","))
       /\ \A term \in Range(Items(e[1])) : IsRust(term)
TriggerSets(s) == LET Sets(tuples) == [i \in DOMAIN tuples |-> Items(tuples[i][1])] IN Sets(Items(s[1]))

\* The tokens that follow a body without triggers are not looked at.
extract_quantifier_rhs(s, kind) ==
  LET Quantifier(names, sets, body) == Ok(Node(kind, <<>>, names, sets, <<body>>, <<>>), <<>>)
      WithTriggers(names, body, keyword) ==
        IF /\ peek_keyword(keyword, "triggers") /\ peek_operator(Tail(keyword), "=")
           /\ AreTriggers(From(keyword, 3))
        THEN Quantifier(names, TriggerSets(From(keyword, 3)), body)
        ELSE Err
      WithBody(names, body) ==
        IF ~body.ok THEN Err
        ELSE IF peek_operator(body.rest, ",") THEN WithTriggers(names, body.node, Tail(body.rest))
        ELSE Quantifier(names, <<>>, body.node)
      WithArgs(args) ==
        IF args.before = <<>> \/ args.rest = <<>> \/ ~Parameters(args.before) THEN Err
        ELSE WithBody(Names(args.before), parse_prusti(Tail(args.rest)))
  IN  IF peek_operator(s, "|") THEN WithArgs(UntilOneOf(Tail(s), {"|"})) ELSE Err

parse_primary(s) ==
  IF peek_group(s, "(") THEN InGroup(extract_assertion(s[1].in), Tail(s))
  ELSE IF ~peek_group(Tail(s), "(") THEN Err
  ELSE InGroup(extract_quantifier_rhs(s[2].in, IF s[1].v = "forall" THEN "ForAll" ELSE "Exists"), From(s, 3))

\* The contract in the brackets of an entailment.
extract_entailment_rhs(s, lhs, vars) ==
  LET Clause(c) ==
        IF Len(c) = 2 /\ peek_group(Tail(c), "(") /\ (peek_keyword(c, "requires") \/ peek_keyword(c, "ensures"))
        THEN [kind |-> c[1].v, of |-> extract_assertion(c[2].in)]
        ELSE [kind |-> "", of |-> Err]
      OfKind(clauses, kind) ==
        LET Nodes(cs) == [i \in DOMAIN cs |-> cs[i].of.node]
        IN  Nodes(SelectSeq(clauses, LAMBDA c : c.kind = kind))
      Contract(clauses) ==
        IF \A i \in DOMAIN clauses : clauses[i].of.ok
        THEN Ok(Node("SpecEntailment", lhs.expr, vars, <<>>,
                     OfKind(clauses, "requires"), OfKind(clauses, "ensures")), <<>>)
        ELSE Err
      Clauses(cs) == Contract([i \in DOMAIN cs |-> Clause(cs[i])])
  IN  Clauses(IF s = <<>> THEN <<>> ELSE SplitAt(s, ","))

\* An entailment without parameters is read like one with an empty list of them.
parse_entailment(s) ==
  LET Contract(lhs, vars, rhs) ==
        IF peek_group(rhs, "[") THEN InGroup(extract_entailment_rhs(rhs[1].in, lhs, vars), Tail(rhs)) ELSE Err
      WithArgs(lhs, args) ==
        IF args.rest = <<>> \/ ~Parameters(args.before) THEN Err
        ELSE Contract(lhs, Names(args.before), Tail(args.rest))
      Args(rhs) == IF peek_operator(rhs, "|") THEN UntilOneOf(Tail(rhs), {"|"})
                   ELSE [before |-> <<>>, rest |-> Op("|") \o rhs]
      AfterRust(lhs) ==
        IF ~lhs.ok \/ ~peek_operator(lhs.rest, "|=") THEN lhs
        ELSE WithArgs(lhs.node, Args(consume_operator(lhs.rest, "|=")))
  IN  IF \/ peek_group(s, "(") /\ ~is_part_of_rust_expr(s)
         \/ peek_keyword(s, "forall") \/ peek_keyword(s, "exists")
      THEN parse_primary(s)
      ELSE AfterRust(parse_rust_until(s, ","))

RECURSIVE Conjuncts(_)
Conjuncts(s) ==
  LET Joined(first, more) == IF more.ok THEN Ok(<<first>> \o more.node, more.rest) ELSE Err
      After(first) ==
        IF ~first.ok THEN Err
        ELSE IF peek_operator(first.rest, "&&")
             THEN Joined(first.node, Conjuncts(consume_operator(first.rest, "&&")))
        ELSE Ok(<<first.node>>, first.rest)
  IN  After(parse_entailment(s))

parse_conjunction(s) ==
  LET Conjunction(c) == IF ~c.ok THEN Err
                        ELSE Ok(IF Len(c.node) = 1 THEN c.node[1] ELSE And(c.node), c.rest)
  IN  Conjunction(Conjuncts(s))

parse_prusti(s) ==
  LET Implication(lhs, rhs) == IF rhs.ok THEN Ok(Implies(lhs, rhs.node), rhs.rest) ELSE Err
      After(lhs) == IF lhs.ok /\ peek_operator(lhs.rest, "==>")
                    THEN Implication(lhs.node, parse_prusti(consume_operator(lhs.rest, "==>")))
                    ELSE lhs
  IN  After(parse_conjunction(s))

-----------------------------------------------------------------------------
(* Pledges, with the reference that expires and, if there is one, the left- *)
(* hand side.                                                               *)

Pledge(ok, reference, lhs, rhs, rest) ==
  [ok |-> ok, reference |-> reference, lhs |-> lhs, rhs |-> rhs, rest |-> rest]
NoPledge == Pledge(FALSE, <<>>, <<>>, And(<<>>), <<>>)

parse_pledge_assertion_only(s) ==
  LET Of(reference, assertion) ==
        IF assertion.ok THEN Pledge(TRUE, reference, <<>>, assertion.node, assertion.rest) ELSE NoPledge
      After(reference) ==
        IF ~reference.ok THEN NoPledge
        ELSE Of(reference.node.expr,
                parse_prusti(IF peek_operator(reference.rest, "=>") THEN consume_operator(reference.rest, "=>")
                             ELSE reference.rest))
  IN  After(IF contains_operator(s, "=>") THEN parse_rust_until(s, "=>") ELSE Ok(Expr(<<>>), s))

extract_pledge_rhs_only(s) ==
  LET Complete(p) == IF p.ok /\ p.rest = <<>> THEN p ELSE NoPledge
  IN  Complete(parse_pledge_assertion_only(s))

extract_pledge(s) ==
  LET Complete(p, rhs) == IF rhs.ok /\ rhs.rest = <<>>
                          THEN Pledge(TRUE, p.reference, <<p.rhs>>, rhs.node, <<>>)
                          ELSE NoPledge
      After(p) == IF p.ok /\ peek_operator(p.rest, ",")
                  THEN Complete(p, parse_prusti(consume_operator(p.rest, ",")))
                  ELSE NoPledge
  IN  After(parse_pledge_assertion_only(s))
=============================================================================
