--------------------------- MODULE Specifications ---------------------------
(***************************************************************************)
(* How a specification travels from the source to the encoder: the macros  *)
(* of prusti-specs parse it, number its expressions and hide them from the *)
(* compiler in functions and closures that are only type-checked, with the *)
(* structure of the assertion in an attribute; the collector of            *)
(* prusti-interface finds the pieces again in the HIR and puts them        *)
(* together by their identifiers; spec_encoder.rs encodes the result.      *)
(* The values of the instance are Booleans, so that an assertion has a     *)
(* truth table.                                                            *)
(***************************************************************************)
EXTENDS Preparser, TLC

CONSTANT Crates   \* the crates: sequences of annotated items

VARIABLES
  crate,      \* the source
  todo,       \* the items whose macros are not expanded yet
  hir,        \* the expanded items
  last_spec,  \* the last identifier of a specification (a fresh UUID)
  phase,      \* expand, check, collect, encode, done, refused or panicked
  collector,  \* the tables of SpecCollector
  def_spec    \* DefSpecificationMap

vars == <<crate, todo, hir, last_spec, phase, collector, def_spec>>

-----------------------------------------------------------------------------
(* Assertions with identifiers.  An identifier is a pair of the number of   *)
(* the specification and the number of the expression within its macro.     *)

NoId == <<0, 0>>

\* The trigger terms are numbered from first on.
NumberedTriggers(triggers, spec, first) ==
  [i \in DOMAIN triggers |-> [j \in DOMAIN triggers[i] |->
     [id |-> <<spec, first + Len(FlattenSeq(Before(triggers, i))) + j - 1>>, expr |-> triggers[i][j]]]]

\* The number of identifiers that a node has itself.
OwnIds(kind) == CASE kind \in {"And", "Implies"} -> 0 [] kind = "SpecEntailment" -> 3 [] OTHER -> 1

\* An assertion takes its own identifiers first, then those of its triggers and of its parts.
RECURSIVE assign_id(_, _, _)
assign_id(n, spec, last) ==
  LET Id(k) == IF k <= OwnIds(n.kind) THEN <<spec, last + k>> ELSE NoId
      Parts(acc, m) == LET Then(r) == [nodes |-> Append(acc.nodes, r.node), last |-> r.last]
                       IN  Then(assign_id(m, spec, acc.last))
      Numbered(parts) ==
        [node |-> [kind |-> n.kind, id |-> Id(1), pre_id |-> Id(2), post_id |-> Id(3),
                   expr |-> n.expr, vars |-> n.vars,
                   triggers |-> NumberedTriggers(n.triggers, spec, last + OwnIds(n.kind) + 1),
                   of |-> Before(parts.nodes, Len(n.of) + 1), posts |-> From(parts.nodes, Len(n.of) + 1)],
         last |-> parts.last]
  IN  Numbered(FoldLeft(Parts, [nodes |-> <<>>, last |-> last + OwnIds(n.kind) + Len(FlattenSeq(n.triggers))],
                        n.of \o n.posts))

\* The attributes that carry the specifications through the compiler.
NoAttrs == [pre |-> <<>>, post |-> <<>>, pledge |-> <<>>, pred |-> <<>>, pure |-> FALSE, trusted |-> FALSE,
            spec_only |-> FALSE, invariant |-> FALSE, closure |-> FALSE, extern_spec |-> <<>>,
            expr_id |-> <<>>, spec_id |-> <<>>, assertion |-> <<>>]

Hir(node, name, params, expr, body, attrs, uses) ==
  [node |-> node, name |-> name, params |-> params, expr |-> expr, body |-> body, attrs |-> attrs, uses |-> uses]

TypeCheckClosure(params, expr, body, id) ==
  Hir("closure", "", params, expr, body, [NoAttrs EXCEPT !.spec_only = TRUE, !.expr_id = <<id>>], {})

\* The closures that have the compiler check the expressions.
RECURSIVE encode_type_check(_)
encode_type_check(n) ==
  LET All(ns)  == FlattenSeq([i \in DOMAIN ns |-> encode_type_check(ns[i])])
      terms    == FlattenSeq(n.triggers)
      triggers == [i \in DOMAIN terms |-> TypeCheckClosure(<<>>, terms[i].expr, <<>>, terms[i].id)]
  IN  CASE n.kind = "Expr" -> <<TypeCheckClosure(<<>>, n.expr, <<>>, n.id)>>
        [] n.kind \in {"And", "Implies"} -> All(n.of)
        [] n.kind \in {"ForAll", "Exists"} ->
             <<TypeCheckClosure(n.vars, <<>>, All(n.of) \o triggers, n.id)>>
        [] n.kind = "SpecEntailment" ->
             <<TypeCheckClosure(<<>>, n.expr, <<>>, n.id),
               TypeCheckClosure(n.vars, <<>>, All(n.of), n.pre_id),
               TypeCheckClosure(Append(n.vars, "result"), <<>>, All(n.posts), n.post_id)>>

\* What is left of an assertion in the JSON of an attribute: identifiers and counts.
RECURSIVE to_structure(_)
to_structure(n) ==
  [kind |-> n.kind, id |-> n.id, pre_id |-> n.pre_id, post_id |-> n.post_id, count |-> Len(n.vars),
   triggers |-> [i \in DOMAIN n.triggers |-> [j \in DOMAIN n.triggers[i] |-> n.triggers[i][j].id]],
   of |-> [i \in DOMAIN n.of |-> to_structure(n.of[i])],
   posts |-> [i \in DOMAIN n.posts |-> to_structure(n.posts[i])]]

-----------------------------------------------------------------------------
(* The macros.  The expansion of an annotation has the generated items and  *)
(* the attributes that refer to them; `used` counts the identifiers.        *)

SpecAttrs(spec, assertion) ==
  [NoAttrs EXCEPT !.spec_only = TRUE, !.spec_id = <<spec>>, !.assertion = <<to_structure(assertion)>>]

\* The function that has an assertion checked; a postcondition has the result as its last argument.
generate_spec_item_fn(type, spec, assertion, item) ==
  Hir("fn", type, IF type = "post" THEN Append(item.params, "result") ELSE item.params, <<>>,
      encode_type_check(assertion), SpecAttrs(spec, assertion), {})

generate_spec_loop(spec, assertion) ==
  Hir("closure", "", <<>>, <<>>, encode_type_check(assertion),
      [SpecAttrs(spec, assertion) EXCEPT !.invariant = TRUE], {})

HasResultParameter(item) == \E i \in DOMAIN item.params : item.params[i] = "result"

Generated(ok, items, attrs, used) ==
  [ok |-> ok, items |-> items, attrs |-> attrs, used |-> used, panics |-> FALSE]
Refused == Generated(FALSE, <<>>, NoAttrs, 0)

\* Expression identifiers start at 101 in each macro.
parse_assertion(tokens, spec) ==
  LET Numbered(p) == [ok |-> p.ok, node |-> assign_id(p.node, spec, 100).node]
  IN  Numbered(extract_assertion(tokens))

generate_for_condition(type, tokens, item, spec) ==
  LET For(p) == IF ~p.ok \/ HasResultParameter(item) THEN Refused
                ELSE Generated(TRUE, <<generate_spec_item_fn(type, spec, p.node, item)>>,
                               IF type = "pre" THEN [NoAttrs EXCEPT !.pre = <<spec>>]
                               ELSE [NoAttrs EXCEPT !.post = <<spec>>], 1)
  IN  For(parse_assertion(tokens, spec))

check_is_result(reference) == reference \in {<<>>, <<Ident("result")>>}

\* The identifiers of a pledge: those of the reference come first.
NumberedPledge(p, lhs_id, rhs_id) ==
  LET Number(nodes, side) ==
        LET Then(r) == [node |-> Append(nodes.node, r.node), last |-> r.last]
        IN  Then(assign_id(side.node, side.id, nodes.last))
  IN  FoldLeft(Number, [node |-> <<>>, last |-> 100 + Len(p.reference)],
               [i \in DOMAIN p.lhs |-> [node |-> p.lhs[i], id |-> lhs_id]] \o <<[node |-> p.rhs, id |-> rhs_id]>>).node

generate_for_after_expiry(tokens, item, spec) ==
  LET For(p) == IF ~p.ok \/ ~check_is_result(p.reference) \/ HasResultParameter(item) THEN Refused
                ELSE Generated(TRUE,
                               <<generate_spec_item_fn("post", spec, NumberedPledge(p, spec, spec)[1], item)>>,
                               [NoAttrs EXCEPT !.pledge = <<[lhs |-> <<>>, rhs |-> spec]>>], 1)
  IN  For(extract_pledge_rhs_only(tokens))

\* Mutant: the item of the left-hand side is forgotten.
RhsOnly(n, spec, item) == <<generate_spec_item_fn("post", spec + 1, n[2], item)>>

BothItems(n, spec, item) ==
  <<generate_spec_item_fn("post", spec, n[1], item), generate_spec_item_fn("post", spec + 1, n[2], item)>>

generate_for_after_expiry_if(tokens, item, spec) ==
  LET For(p) == IF ~p.ok \/ ~check_is_result(p.reference) \/ HasResultParameter(item) THEN Refused
                ELSE Generated(TRUE, BothItems(NumberedPledge(p, spec, spec + 1), spec, item),
                               [NoAttrs EXCEPT !.pledge = <<[lhs |-> <<spec>>, rhs |-> spec + 1]>>], 2)
  IN  For(extract_pledge(tokens))

\* `pure` and `trusted` take no parameters.
generate_for_flag(name, tokens) ==
  IF tokens # <<>> THEN Refused
  ELSE Generated(TRUE, <<>>, IF name = "pure" THEN [NoAttrs EXCEPT !.pure = TRUE]
                             ELSE [NoAttrs EXCEPT !.trusted = TRUE], 0)

\* The number of specifications that an attribute has.
SpecsOf(kind) == CASE kind = "after_expiry_if" -> 2 [] kind \in {"pure", "trusted"} -> 0 [] OTHER -> 1

AndAttrs(attrs, more) ==
  [attrs EXCEPT !.pre = @ \o more.pre, !.post = @ \o more.post, !.pledge = @ \o more.pledge,
                !.pure = @ \/ more.pure, !.trusted = @ \/ more.trusted]

generate_spec_and_assertions(attributes, item, spec) ==
  LET For(a, id) ==
        CASE a.kind = "after_expiry" -> generate_for_after_expiry(a.tokens, item, id)
          [] a.kind = "after_expiry_if" -> generate_for_after_expiry_if(a.tokens, item, id)
          [] a.kind \in {"requires", "ensures"} ->
               generate_for_condition(IF a.kind = "requires" THEN "pre" ELSE "post", a.tokens, item, id)
          [] OTHER -> generate_for_flag(a.kind, a.tokens)
      First(i)  == FoldLeft(LAMBDA n, a : n + SpecsOf(a.kind), spec, Before(attributes, i))
      Extern(attrs) == IF item.target = <<>> THEN attrs ELSE [attrs EXCEPT !.extern_spec = item.target]
      Together(gs)  ==
        Generated(\A i \in DOMAIN gs : gs[i].ok, FlattenSeq([i \in DOMAIN gs |-> gs[i].items]),
                  Extern(FoldLeft(LAMBDA attrs, g : AndAttrs(attrs, g.attrs), NoAttrs, gs)),
                  First(Len(attributes) + 1) - spec)
  IN  Together([i \in DOMAIN attributes |-> For(attributes[i], First(i))])

Tokens(kind, item) ==
  LET as == SelectSeq(item.attrs, LAMBDA a : a.kind = kind) IN [i \in DOMAIN as |-> as[i].tokens]

\* The macro of the first attribute asserts that `pure` and `trusted` among the others have no parameters.
extract_prusti_attributes(attributes, g) ==
  [g EXCEPT !.panics = \E i \in DOMAIN attributes :
                         attributes[i].kind \in {"pure", "trusted"} /\ attributes[i].tokens # <<>>]

\* A macro leaves its item to the compiler, or a compile error.
Expand(g, item) ==
  /\ hir' = IF g.ok THEN hir \o item ELSE hir
  /\ phase' = IF g.panics THEN "panicked" ELSE IF g.ok THEN phase ELSE "refused"
  /\ last_spec' = last_spec + g.used
  /\ todo' = Tail(todo)
  /\ UNCHANGED <<crate, collector, def_spec>>

IsNext(macro) == phase = "expand" /\ todo # <<>> /\ Head(todo).macro = macro

Init ==
  /\ crate \in Crates
  /\ todo = crate /\ hir = <<>> /\ last_spec = 0 /\ phase = "expand"
  /\ collector = [spec_items |-> <<>>, typed_expressions |-> <<>>, procedure_specs |-> <<>>,
                  loop_specs |-> <<>>, extern_fn_map |-> <<>>, duplicates |-> {}, next |-> 1]
  /\ def_spec = [specs |-> <<>>, loops |-> <<>>, extern_specs |-> <<>>]

\* All attributes of a function are handled by the macro of the first one.
rewrite_prusti_attributes ==
  /\ IsNext("attributes")
  /\ LET item == Head(todo)
     IN  \E g \in {extract_prusti_attributes(Tail(item.attrs),
                     IF Tokens("predicate", item) # <<>> THEN Refused
                     ELSE generate_spec_and_assertions(item.attrs, item, last_spec + 1))} :
           Expand(g, Append(g.items, Hir(item.node, item.name, item.params, <<>>, <<>>, g.attrs, item.uses)))

refine_trait_spec ==
  /\ IsNext("refine_trait_spec")
  /\ LET item == Head(todo)
     IN  \E g \in {extract_prusti_attributes(item.attrs,
                     generate_spec_and_assertions(item.attrs, item, last_spec + 1))} :
           Expand(g, Append(g.items, Hir("fn", item.name, item.params, <<>>, <<>>, g.attrs, item.uses)))

\* A function that calls the specified one, for the macros of its attributes; `self` is renamed.
RECURSIVE rewrite_self(_)
rewrite_self(tokens) ==
  [i \in DOMAIN tokens |-> [tokens[i] EXCEPT !.v = IF tokens[i] = Ident("self") THEN "_self" ELSE @,
                                             !.in = rewrite_self(@)]]

extern_spec ==
  /\ IsNext("extern_spec")
  /\ LET item == Head(todo)
         attrs == [i \in DOMAIN item.attrs |-> [item.attrs[i] EXCEPT !.tokens = rewrite_self(@)]]
     IN  todo' = <<[item EXCEPT !.macro = "attributes",
                                !.attrs = Append(attrs, [kind |-> "trusted", tokens |-> <<>>]),
                                !.params = [i \in DOMAIN @ |-> IF @[i] = "self" THEN "_self" ELSE @[i]]]>>
                 \o Tail(todo)
  /\ UNCHANGED <<crate, hir, last_spec, phase, collector, def_spec>>

\* A function with invariants in its loops.
body_invariant ==
  /\ IsNext("body_invariant")
  /\ LET item == Head(todo)
     IN  \E parsed \in {[i \in DOMAIN item.attrs |-> parse_assertion(item.attrs[i].tokens, last_spec + i)]} :
           Expand(Generated(\A i \in DOMAIN parsed : parsed[i].ok, <<>>, NoAttrs, Len(parsed)),
                  <<Hir("fn", item.name, item.params, <<>>,
                        [i \in DOMAIN parsed |-> generate_spec_loop(last_spec + i, parsed[i].node)],
                        NoAttrs, item.uses)>>)

\* A closure with a contract: its conditions are first read as Rust expressions, and share a rewriter.
closure ==
  /\ IsNext("closure")
  /\ LET item   == Head(todo)
         pres   == Len(Tokens("requires", item))
         sorted == Tokens("requires", item) \o Tokens("ensures", item)
         ids    == [i \in DOMAIN sorted |-> last_spec + i]
         Number(acc, p) == LET With(r) == [nodes |-> Append(acc.nodes, r.node), last |-> r.last]
                           IN  With(assign_id(p.node, last_spec + Len(acc.nodes) + 1, acc.last))
     IN  \E parsed \in {[i \in DOMAIN sorted |-> IF IsRust(sorted[i]) THEN extract_assertion(sorted[i]) ELSE Err]} :
         \E nodes \in {FoldLeft(Number, [nodes |-> <<>>, last |-> 100], parsed).nodes} :
           Expand(Generated(\A i \in DOMAIN parsed : parsed[i].ok, <<>>, NoAttrs, Len(parsed)),
                  <<Hir("let", "", <<>>, <<>>,
                        <<Hir("closure", item.name, item.params, <<>>,
                              [i \in DOMAIN nodes |->
                                 generate_spec_item_fn(IF i <= pres THEN "pre" ELSE "post", ids[i], nodes[i], item)],
                              NoAttrs, item.uses)>>,
                        [NoAttrs EXCEPT !.closure = TRUE, !.pre = SubSeq(ids, 1, pres),
                                        !.post = From(ids, pres + 1)], {})>>)

predicate ==
  /\ IsNext("predicate")
  /\ LET item == Head(todo)
     IN  \E p \in {parse_assertion(item.attrs[1].tokens, last_spec + 1)} :
           Expand(Generated(p.ok /\ ~HasResultParameter(item), <<>>, NoAttrs, 1),
                  <<generate_spec_item_fn("pred", last_spec + 1, p.node, item),
                    Hir("fn", item.name, item.params, <<>>, <<>>,
                        [NoAttrs EXCEPT !.pure = TRUE, !.trusted = TRUE, !.pred = <<last_spec + 1>>], {})>>)

-----------------------------------------------------------------------------
(* The compiler, and the check of predicates.  A definition is identified   *)
(* by its path in the HIR.                                                  *)

RECURSIVE Identifiers(_)
Identifiers(s) ==
  LET called(i) == i < Len(s) /\ s[i + 1].k = "group"
  IN  UNION {IF s[i].k = "ident" THEN {<<IF called(i) THEN "call" ELSE "name", s[i].v>>}
             ELSE Identifiers(s[i].in) : i \in DOMAIN s}

\* The pure function p can be called; closures see the parameters around them, functions only their own.
Resolves(expr, scope) == Identifiers(expr) \subseteq {<<"call", "p">>} \cup {<<"name", v>> : v \in scope}

RECURSIVE TypeChecks(_, _)
TypeChecks(n, scope) ==
  LET inner == (IF n.node = "fn" THEN {} ELSE scope) \cup Range(n.params)
  IN  Resolves(n.expr, inner) /\ \A i \in DOMAIN n.body : TypeChecks(n.body[i], inner)

RECURSIVE NodeAt(_, _)
NodeAt(items, path) ==
  IF Len(path) = 1 THEN items[path[1]] ELSE NodeAt(items[path[1]].body, Tail(path))

\* The paths below and at a node, children first.
RECURSIVE Walk(_, _)
Walk(n, path) ==
  Append(FlattenSeq([i \in DOMAIN n.body |-> Walk(n.body[i], Append(path, i))]), path)

\* Functions that use a predicate; the check does not look into traits.
pred_usages ==
  LET predicates == {hir[i].name : i \in {j \in DOMAIN hir : hir[j].attrs.pred # <<>>}}
      checked    == {i \in DOMAIN hir : hir[i].node # "trait" /\ ~hir[i].attrs.spec_only}
  IN  {i \in checked : \E q \in Range(Walk(hir[i], <<i>>)) : NodeAt(hir, q).uses \cap predicates # {}}

check_predicate_usages ==
  /\ phase = "expand" /\ todo = <<>>
  /\ phase' = IF (\A i \in DOMAIN hir : TypeChecks(hir[i], {})) /\ pred_usages = {}
              THEN "collect" ELSE "refused"
  /\ UNCHANGED <<crate, todo, hir, last_spec, collector, def_spec>>

-----------------------------------------------------------------------------
(* The collector.                                                           *)

\* An external specification is for the function that its body calls.
add_extern_fn(c, target, path) ==
  IF target.fn \in DOMAIN c.extern_fn_map /\ c.extern_fn_map[target.fn].impl = target.impl
  THEN [c EXCEPT !.duplicates = @ \cup {target.fn}]
  ELSE [c EXCEPT !.extern_fn_map = (target.fn :> [impl |-> target.impl, path |-> path]) @@ @]

has_procedure_spec(a) == a.pure \/ a.trusted \/ <<>> # a.pre \o a.post \o a.pledge \o a.pred

\* visit_trait_item and visit_fn.
visit_fn(c, path) ==
  LET n == NodeAt(hir, path)
      a == n.attrs
      extern(d) == IF a.extern_spec = <<>> THEN d ELSE add_extern_fn(d, a.extern_spec[1], path)
      procedure(d) == IF has_procedure_spec(a) THEN [d EXCEPT !.procedure_specs = (path :> a) @@ @] ELSE d
      typed(d) == IF a.expr_id = <<>> THEN d
                  ELSE [d EXCEPT !.typed_expressions = (a.expr_id[1] :> path) @@ @]
      item(d) == IF a.spec_id = <<>> THEN d
                 ELSE [d EXCEPT !.spec_items = Append(@, [spec |-> a.spec_id[1], assertion |-> a.assertion[1]]),
                                !.loop_specs = IF a.invariant THEN (path :> a.spec_id) @@ @ ELSE @]
  IN  item(typed(procedure(extern(c))))

\* The contract of a closure belongs to the closure that the statement binds.
visit_stmt(c, path) ==
  LET a == NodeAt(hir, path).attrs
  IN  IF a.closure /\ has_procedure_spec(a)
      THEN [c EXCEPT !.procedure_specs = (Append(path, 1) :> a) @@ @]
      ELSE c

visit(c, path) == IF NodeAt(hir, path).node = "let" THEN visit_stmt(c, path) ELSE visit_fn(c, path)

Collect ==
  /\ phase = "collect" /\ collector.next \in DOMAIN hir
  /\ LET i == collector.next
     IN  collector' = [FoldLeft(visit, collector, Walk(hir[i], <<i>>)) EXCEPT !.next = i + 1]
  /\ UNCHANGED <<crate, todo, hir, last_spec, phase, def_spec>>

\* Looking up the expressions of an assertion, and comparing the parameters, may fail.
RECURSIVE CanBeTyped(_)
CanBeTyped(j) ==
  LET found == collector.typed_expressions
      Has(id, count) == id \in DOMAIN found /\ Len(NodeAt(hir, found[id]).params) = count
  IN  /\ CASE j.kind \in {"And", "Implies"} -> TRUE
           [] j.kind = "Expr" -> j.id \in DOMAIN found
           [] j.kind = "SpecEntailment" ->
                j.id \in DOMAIN found /\ Has(j.pre_id, j.count) /\ Has(j.post_id, j.count + 1)
           [] OTHER -> Has(j.id, j.count)
      /\ \A i \in DOMAIN FlattenSeq(j.triggers) : FlattenSeq(j.triggers)[i] \in DOMAIN found
      /\ \A i \in DOMAIN j.of : CanBeTyped(j.of[i])
      /\ \A i \in DOMAIN j.posts : CanBeTyped(j.posts[i])

\* The first argument of a closure is the closure, so the variables are the locals from 2 on.
RECURSIVE to_typed(_)
to_typed(j) ==
  LET found == collector.typed_expressions
      Def(id) == IF id \in DOMAIN found THEN found[id] ELSE <<>>
  IN  [kind |-> j.kind, id |-> j.id, pre_id |-> j.pre_id, post_id |-> j.post_id, def |-> Def(j.id),
       locals |-> [i \in 1 .. j.count |-> i + 1],
       triggers |-> [i \in DOMAIN j.triggers |-> [k \in DOMAIN j.triggers[i] |-> Def(j.triggers[i][k])]],
       of |-> [i \in DOMAIN j.of |-> to_typed(j.of[i])],
       posts |-> [i \in DOMAIN j.posts |-> to_typed(j.posts[i])]]

\* The procedures and loops with their assertions; `typed` has the assertions by specification.
determine_procedure_specs(typed) ==
  LET Each(ids) == [i \in DOMAIN ids |-> typed[ids[i]]]
  IN  [path \in DOMAIN collector.procedure_specs |->
         LET a == collector.procedure_specs[path]
         IN  [pres |-> Each(a.pre), posts |-> Each(a.post),
              pledges |-> [i \in DOMAIN a.pledge |->
                             [lhs |-> Each(a.pledge[i].lhs), rhs |-> typed[a.pledge[i].rhs]]],
              predicate_body |-> Each(a.pred), pure |-> a.pure, trusted |-> a.trusted]]

determine_loop_specs(typed) ==
  [path \in DOMAIN collector.loop_specs |->
     LET ids == collector.loop_specs[path] IN [i \in DOMAIN ids |-> typed[ids[i]]]]

PathsOf(name) == {<<i>> : i \in {j \in DOMAIN hir : hir[j].name = name /\ hir[j].attrs.extern_spec = <<>>}}

determine_extern_specs(specs) ==
  [fn \in {f \in DOMAIN collector.extern_fn_map : collector.extern_fn_map[f].path \in DOMAIN specs} |->
     collector.extern_fn_map[fn].path]

Doubled(specs) ==
  collector.duplicates \cup {fn \in DOMAIN collector.extern_fn_map : PathsOf(fn) \cap DOMAIN specs # {}}

\* Every specification is found under its number, and every reference to one can be followed.
Typed ==
  LET items == collector.spec_items
      ItemOf(s) == CHOOSE i \in DOMAIN items : items[i].spec = s
  IN  [s \in {items[i].spec : i \in DOMAIN items} |-> to_typed(items[ItemOf(s)].assertion)]

References ==
  LET procedures == {collector.procedure_specs[d] : d \in DOMAIN collector.procedure_specs}
      Pledged(a) == UNION {Range(a.pledge[i].lhs) \cup {a.pledge[i].rhs} : i \in DOMAIN a.pledge}
  IN  UNION {Range(a.pre) \cup Range(a.post) \cup Pledged(a) \cup Range(a.pred) : a \in procedures}

build_def_specs ==
  /\ phase = "collect" /\ collector.next \notin DOMAIN hir
  /\ LET items == collector.spec_items
     IN  IF /\ \A i \in DOMAIN items : CanBeTyped(items[i].assertion)
            /\ References \subseteq {items[i].spec : i \in DOMAIN items}
         THEN \E typed \in {Typed} :
                LET specs == determine_procedure_specs(typed)
                IN  /\ def_spec' = [specs |-> specs, loops |-> determine_loop_specs(typed),
                                    extern_specs |-> determine_extern_specs(specs)]
                    /\ phase' = IF Doubled(specs) = {} THEN "encode" ELSE "refused"
         ELSE phase' = "panicked" /\ UNCHANGED def_spec
  /\ UNCHANGED <<crate, todo, hir, last_spec, collector>>

NoProcedureSpec == [pres |-> <<>>, posts |-> <<>>, pledges |-> <<>>, predicate_body |-> <<>>,
                    pure |-> FALSE, trusted |-> FALSE]

\* The specification of a function: an external one comes first.
get(fn) ==
  LET paths == IF fn \in DOMAIN def_spec.extern_specs THEN {def_spec.extern_specs[fn]}
               ELSE PathsOf(fn) \cap DOMAIN def_spec.specs
  IN  IF paths = {} THEN NoProcedureSpec ELSE def_spec.specs[CHOOSE q \in paths : TRUE]

\* What an implementation says replaces what the trait says, clause by clause.
refine(self, other) ==
  [NoProcedureSpec EXCEPT
     !.pres = IF other.pres = <<>> THEN self.pres ELSE other.pres,
     !.posts = IF other.posts = <<>> THEN self.posts ELSE other.posts,
     !.pledges = IF other.pledges = <<>> THEN self.pledges ELSE other.pledges,
     !.predicate_body = IF other.predicate_body = <<>> THEN self.predicate_body ELSE other.predicate_body,
     !.pure = other.pure, !.trusted = other.trusted]

-----------------------------------------------------------------------------
(* The encoder.  A quantified variable is named after the local of the      *)
(* closure that binds it and the identifier of the quantifier.              *)

\* Mutant: quantifiers share their variables.
LocalOnly(local, id) == <<local, NoId>>

encode_quantifier_arg(local, id) == <<local, id>>

NamesIn(expr) == {x[2] : x \in {y \in Identifiers(expr) : y[1] = "name"}}

\* The variables that a closure captures from the item or closure around it.
RECURSIVE Free(_)
Free(n) == (NamesIn(n.expr) \cup UNION {Free(n.body[i]) : i \in DOMAIN n.body}) \ Range(n.params)
Captured(path) == SetToSeq(Free(NodeAt(hir, path)))

\* A place in the expression of a closure: an argument of it (the first one is the closure), a field
\* of what it captured, or a variable that stands for an argument of a quantifier already left.
Place(kind, index, var) == [kind |-> kind, index |-> index, var |-> var]
Index(s, name) == CHOOSE i \in DOMAIN s : s[i] = name
PlaceOf(path, name) ==
  LET n == NodeAt(hir, path)
      skipped == IF n.node = "fn" THEN 0 ELSE 1
  IN  IF name \in Range(n.params) THEN Place("local", Index(n.params, name) + skipped, <<>>)
      ELSE Place("captured", Index(Captured(path), name), <<>>)

\* One step outwards: a captured field is what the closure around it has there, and the arguments of
\* a quantifier get their names.
translate_expr_to_closure_def_site(path, place) ==
  LET id == NodeAt(hir, path).attrs.expr_id
  IN  CASE place.kind = "captured" -> PlaceOf(Front(path), Captured(path)[place.index])
        [] place.kind = "local" /\ id # <<>> ->
             Place("quantified", 0, encode_quantifier_arg(place.index, id[1]))
        [] OTHER -> place

\* Outwards to the item that has the specification.
RECURSIVE AtDefSite(_, _)
AtDefSite(path, place) ==
  IF NodeAt(hir, path).node = "fn" THEN place
  ELSE AtDefSite(Front(path), translate_expr_to_closure_def_site(path, place))

\* The value of a Rust expression; p is the identity.
RECURSIVE Value(_, _)
Value(s, env) ==
  LET parts(op) == {SplitAt(s, op)[i] : i \in DOMAIN SplitAt(s, op)}
  IN  CASE contains_operator(s, "||") -> \E e \in parts("||") : Value(e, env)
        [] ~contains_operator(s, "||") /\ contains_operator(s, "&&") -> \A e \in parts("&&") : Value(e, env)
        [] ~contains_operator(s, "||") /\ ~contains_operator(s, "&&") /\ contains_operator(s, "==") ->
             \A e, f \in parts("==") : Value(e, env) = Value(f, env)
        [] OTHER -> IF peek_operator(s, "!") THEN ~Value(Tail(s), env)
                    ELSE IF Len(s) = 2 THEN Value(s[2].in, env)
                    ELSE IF s[1].k = "group" THEN Value(s[1].in, env)
                    ELSE env[s[1].v]

encode_expression(path, args, bound) ==
  LET expr == NodeAt(hir, path).expr
      ValueOf(place) == IF place.kind = "local" THEN args[place.index]
                        ELSE place.var \in DOMAIN bound /\ bound[place.var]
  IN  Value(expr, [name \in NamesIn(expr) |-> ValueOf(AtDefSite(path, PlaceOf(path, name)))])

\* The contract of the closure f of an entailment.
SpecPre(xs)     == \A i \in DOMAIN xs : xs[i]
SpecPost(xs, r) == r = SpecPre(xs)

Vals(n) == [1 .. n -> BOOLEAN]

RECURSIVE encode_assertion(_, _, _)
encode_assertion(n, args, bound) ==
  LET All(ns, b) == \A i \in DOMAIN ns : encode_assertion(ns[i], args, b)
      Binding(locals, id, xs) ==
        LET var(i) == encode_quantifier_arg(locals[i], id)
        IN  [v \in {var(i) : i \in DOMAIN locals} |-> xs[CHOOSE i \in DOMAIN locals : var(i) = v]] @@ bound
      result == Append(n.locals, Len(n.locals) + 2)
      count  == Len(n.locals)
  IN  CASE n.kind = "Expr" -> encode_expression(n.def, args, bound)
        [] n.kind = "And" -> All(n.of, bound)
        [] n.kind = "Implies" ->
             encode_assertion(n.of[1], args, bound) => encode_assertion(n.of[2], args, bound)
        [] n.kind = "ForAll" -> \A xs \in Vals(count) : All(n.of, Binding(n.locals, n.id, xs))
        [] n.kind = "Exists" -> \E xs \in Vals(count) : All(n.of, Binding(n.locals, n.id, xs))
        [] n.kind = "SpecEntailment" ->
             /\ \A xs \in Vals(count) : All(n.of, Binding(n.locals, n.pre_id, xs)) => SpecPre(xs)
             /\ \A xs \in Vals(count), r \in BOOLEAN :
                  /\ All(n.of, Binding(n.locals, n.pre_id, xs))
                  /\ SpecPost(xs, r)
                  => All(n.posts, Binding(result, n.post_id, Append(xs, r)))

\* A trigger consists of function calls, and mentions the variables of its quantifier.
OnlyCalls(expr) == \A i \in DOMAIN expr : expr[i].k # "punct" \/ expr[i].v = ","

encode_trigger(terms, variables) ==
  /\ \A i \in DOMAIN terms : OnlyCalls(NodeAt(hir, terms[i]).expr)
  /\ variables \subseteq
       UNION {{AtDefSite(terms[i], PlaceOf(terms[i], name)).var : name \in NamesIn(NodeAt(hir, terms[i]).expr)}
              : i \in DOMAIN terms}

RECURSIVE TriggersAreLegal(_)
TriggersAreLegal(n) ==
  /\ \A i \in DOMAIN n.triggers :
       encode_trigger(n.triggers[i], {encode_quantifier_arg(n.locals[k], n.id) : k \in DOMAIN n.locals})
  /\ \A i \in DOMAIN n.of : TriggersAreLegal(n.of[i])
  /\ \A i \in DOMAIN n.posts : TriggersAreLegal(n.posts[i])

Assertions ==
  LET procedures == {def_spec.specs[d] : d \in DOMAIN def_spec.specs}
      Pledged(s) == UNION {Range(s.pledges[i].lhs) \cup {s.pledges[i].rhs} : i \in DOMAIN s.pledges}
  IN  UNION {Range(s.pres) \cup Range(s.posts) \cup Pledged(s) \cup Range(s.predicate_body) : s \in procedures}
        \cup UNION {Range(def_spec.loops[d]) : d \in DOMAIN def_spec.loops}

Encode ==
  /\ phase = "encode"
  /\ phase' = IF \A n \in Assertions : TriggersAreLegal(n) THEN "done" ELSE "refused"
  /\ UNCHANGED <<crate, todo, hir, last_spec, collector, def_spec>>

Done == phase \in {"done", "refused", "panicked"} /\ UNCHANGED vars

Next ==
  \/ rewrite_prusti_attributes \/ refine_trait_spec \/ extern_spec \/ body_invariant \/ closure \/ predicate
  \/ check_predicate_usages \/ Collect \/ build_def_specs \/ Encode \/ Done

Spec == Init /\ [][Next]_vars

-----------------------------------------------------------------------------
(* What a specification says to its reader: `==>` binds weakest, to the     *)
(* right, then `||`, `&&`, `==` and `!`.                                    *)

\* The parameters and the rest of `|x, y| rest`.
Bound(s) ==
  LET Split(u) == IF u.rest = <<>> \/ ~Parameters(u.before) THEN [names |-> <<>>, rest |-> <<>>]
                  ELSE [names |-> Names(u.before), rest |-> Tail(u.rest)]
  IN  Split(UntilOneOf(Tail(s), {"|"}))
ContractOf(rhs) == IF peek_operator(rhs, "|") THEN Bound(rhs) ELSE [names |-> <<>>, rest |-> rhs]
Bind(names, xs, env) == [v \in Range(names) |-> xs[CHOOSE i \in DOMAIN names : names[i] = v]] @@ env

IsQuantifier(s) == Len(s) = 2 /\ s[1].v \in {"forall", "exists"} /\ peek_group(Tail(s), "(")

RECURSIVE Written(_, _)
Written(s, env) ==
  LET Has(op)   == contains_operator(s, op)
      Some(ps)  == \E e \in Range(ps) : Written(e, env)
      All(ps)   == \A e \in Range(ps) : Written(e, env)
      Same(ps)  == \A e, f \in Range(ps) : Written(e, env) = Written(f, env)
      Implied(u) == Written(u.before, env) => Written(consume_operator(u.rest, "==>"), env)
      Quantified(names, body) ==
        LET values == {Written(body, Bind(names, xs, env)) : xs \in Vals(Len(names))}
        IN  IF s[1].v = "forall" THEN FALSE \notin values ELSE TRUE \in values
      Quantifier(b) == Quantified(b.names, SplitAt(b.rest, ",")[1])
      Clauses(cs, k, e) == \A c \in Range(cs) : c # <<>> /\ c[1].v = k => Written(c[2].in, e)
      Entailed(names, cs) ==
        \A xs \in Vals(Len(names)), r \in BOOLEAN :
          Clauses(cs, "requires", Bind(names, xs, env)) =>
            /\ SpecPre(xs)
            /\ SpecPost(xs, r) => Clauses(cs, "ensures", Bind(Append(names, "result"), Append(xs, r), env))
      Entailment(c) == Entailed(c.names, SplitAt(c.rest[1].in, ","))
  IN  IF s = <<>> THEN TRUE
      ELSE IF Has("==>") THEN Implied(UntilOneOf(s, {"==>"}))
      ELSE IF Has("||") THEN Some(SplitAt(s, "||"))
      ELSE IF Has("&&") THEN All(SplitAt(s, "&&"))
      ELSE IF Has("|=") THEN Entailment(ContractOf(consume_operator(UntilOneOf(s, {"|="}).rest, "|=")))
      ELSE IF Has("==") THEN Same(SplitAt(s, "=="))
      ELSE IF peek_operator(s, "!") THEN ~Written(Tail(s), env)
      ELSE IF IsQuantifier(s) THEN Quantifier(Bound(s[2].in))
      ELSE IF Len(s) = 2 THEN Written(s[2].in, env)
      ELSE IF s[1].k = "group" THEN Written(s[1].in, env)
      ELSE env[s[1].v]

\* `&&` and `||` may not be mixed without parentheses, nor across an implication only.
RECURSIVE Ambiguous(_)
Ambiguous(s) ==
  \/ \E part \in Range(SplitAt(s, "==>")) : contains_operator(part, "&&") /\ contains_operator(part, "||")
  \/ \E i \in DOMAIN s : s[i].k = "group" /\ Ambiguous(s[i].in)

LegalTriggers(s, names, scope) ==
  /\ peek_keyword(s, "triggers") /\ peek_operator(Tail(s), "=") /\ AreTriggers(From(s, 3))
  /\ \A terms \in {Range(set) : set \in Range(TriggerSets(From(s, 3)))} :
       /\ \A term \in terms : OnlyCalls(term) /\ Resolves(term, scope)
       /\ Range(names) \subseteq UNION {NamesIn(term) : term \in terms}

\* Implications of conjunctions of Rust expressions, assertions in parentheses, quantifiers and entailments.
RECURSIVE Grammatical(_, _)
Grammatical(s, scope) ==
  LET Triggered(body, more, names, tail) ==
        /\ body # <<>> /\ Grammatical(body, scope \cup Range(names))
        /\ more => LegalTriggers(From(tail, Len(body) + 2), names, scope \cup Range(names))
      Parts(parts, b)  == Triggered(parts[1], Len(parts) > 1, b.names, b.rest)
      Quantifier(q, b) == peek_operator(q, "|") /\ b.names # <<>> /\ Parts(SplitAt(b.rest, ","), b)
      Clause(c, names) ==
        /\ Len(c) = 2 /\ c[1].v \in {"requires", "ensures"} /\ peek_group(Tail(c), "(")
        /\ Grammatical(c[2].in, scope \cup Range(names) \cup (IF c[1].v = "ensures" THEN {"result"} ELSE {}))
      Contract(b) ==
        /\ Len(b.rest) = 1 /\ peek_group(b.rest, "[")
        /\ b.rest[1].in = <<>> \/ \A c \in Range(SplitAt(b.rest[1].in, ",")) : Clause(c, b.names)
      Entailment(e) ==
        /\ IsRust(e.before) /\ Resolves(e.before, scope)
        /\ Contract(ContractOf(consume_operator(e.rest, "|=")))
      Conjunct(c) ==
        IF Len(c) = 1 /\ peek_group(c, "(") THEN Grammatical(c[1].in, scope)
        ELSE IF IsQuantifier(c) THEN Quantifier(c[2].in, Bound(c[2].in))
        ELSE IF contains_operator(c, "|=") THEN Entailment(UntilOneOf(c, {"|="}))
        ELSE IsRust(c) /\ Resolves(c, scope)
  IN  s = <<>> \/ \A part \in Range(SplitAt(s, "==>")) : \A c \in Range(SplitAt(part, "&&")) : Conjunct(c)

\* A pledge, `result => lhs, rhs`, without its reference.
Expired(tokens) ==
  IF contains_operator(tokens, "=>") /\ tokens[1] = Ident("result") THEN From(tokens, 4) ELSE tokens
\* The assertions in an annotation.
PartsOf(a) ==
  CASE a.kind = "after_expiry"    -> <<Expired(a.tokens)>>
    [] a.kind = "after_expiry_if" -> SplitAt(Expired(a.tokens), ",")
    [] OTHER                      -> <<a.tokens>>

IsPledge(a) == a.kind \in {"after_expiry", "after_expiry_if"}

\* An annotation of an item that is well-formed, ambiguity aside.
Reasonable(a, item) ==
  LET scope == Range(item.params)
                 \cup (IF a.kind = "ensures" \/ IsPledge(a) THEN {"result"} ELSE {})
  IN  IF a.kind \in {"pure", "trusted"} THEN a.tokens = <<>>
      ELSE /\ \A part \in Range(PartsOf(a)) : Grammatical(part, scope)
           /\ a.kind = "after_expiry_if" => Len(PartsOf(a)) = 2
           /\ a.kind = "predicate" => item.macro = "predicate"
           /\ item.macro = "closure" => IsRust(a.tokens)

Annotated(item) == \E i \in DOMAIN item.attrs : item.attrs[i].kind \notin {"pure", "trusted", "body_invariant"}

Predicates == {crate[i].name : i \in {j \in DOMAIN crate : crate[j].macro = "predicate"}}

\* The places where something speaks against a crate.
Reasons ==
  LET Attributes == UNION {{<<i, j>> : j \in DOMAIN crate[i].attrs} : i \in DOMAIN crate}
      At(ij) == crate[ij[1]].attrs[ij[2]]
      Twice(i, j) == /\ crate[i].target # <<>> /\ crate[j].macro # "body_invariant"
                     /\ \/ crate[j].target = crate[i].target
                        \/ /\ crate[j].name = crate[i].target[1].fn
                           /\ crate[j].target = <<>> /\ crate[j].attrs # <<>>
  IN  [malformed |-> {ij \in Attributes : ~Reasonable(At(ij), crate[ij[1]])},
       ambiguous |-> {ij \in Attributes : \E part \in Range(PartsOf(At(ij))) : Ambiguous(part)},
       result    |-> {i \in DOMAIN crate : Annotated(crate[i]) /\ HasResultParameter(crate[i])},
       predicate |-> {i \in DOMAIN crate : crate[i].uses \cap Predicates # {}},
       twice     |-> {i \in DOMAIN crate : \E j \in DOMAIN crate \ {i} : Twice(i, j)}]

\* The first gap in the checks: preparser.rs:111-157 parses a pledge without looking for
\* ambiguity, except in the assertions in parentheses that it has as conjuncts.
UncheckedPledge(a) ==
  LET Conjoined(part) == UNION {Range(SplitAt(p, "&&")) : p \in Range(SplitAt(part, "==>"))}
      Checked(c) == Len(c) = 1 /\ peek_group(c, "(") /\ Ambiguous(c[1].in)
  IN  IsPledge(a) /\ ~\E part \in Range(PartsOf(a)) : \E c \in Conjoined(part) : Checked(c)

\* The second gap: checker.rs:80-91 does not walk into traits, so that a default method may use a
\* predicate, although predicates are `never used from non-specification code' (checker.rs:19-20).
UncheckedCode(item) == item.node = "trait"

-----------------------------------------------------------------------------
(* Properties.                                                              *)

\* A lookup of an expression or a specification by its identifier, and the comparison of the
\* number of parameters, never fail on what the macros generated: typed.rs asserts and unwraps.
NoPanic == phase # "panicked"

\* A crate is refused exactly if one of its annotations is not an assertion of the grammar over
\* the names in scope or has an illegal trigger or reference, an annotation mixes `&&` and `||`,
\* an annotated item has a parameter `result`, a predicate is used in code, or a function has two
\* specifications; but for two gaps in the code, pledges that mix the operators and default
\* methods of traits that use a predicate, which are accepted if nothing else is wrong.
RefusedForAReason ==
  LET noticed == [Reasons EXCEPT
                      !.ambiguous = {ij \in @ : ~UncheckedPledge(crate[ij[1]].attrs[ij[2]])},
                      !.predicate = {i \in @ : ~UncheckedCode(crate[i])}]
  IN  phase \in {"refused", "done"} =>
        (phase = "refused" <=> \E why \in DOMAIN noticed : noticed[why] # {})

Env(item, xs) == Bind(Append(item.params, "result"), xs, <<>>)

\* What is written in the annotations of an item, under the values xs of its parameters and the result.
Says(item, kind, xs) ==
  LET tokens == Tokens(kind, item) IN \A i \in DOMAIN tokens : Written(tokens[i], Env(item, xs))
Means(assertions, xs) == \A i \in DOMAIN assertions : encode_assertion(assertions[i], xs, <<>>)

SamePledges(pledges, item, xs) ==
  LET written == SelectSeq(item.attrs, LAMBDA a : IsPledge(a))
      Same(assertions, parts) ==
        /\ Len(assertions) = Len(parts)
        /\ \A k \in DOMAIN parts : ~Ambiguous(parts[k]) =>
             encode_assertion(assertions[k], xs, <<>>) = Written(parts[k], Env(item, xs))
  IN  /\ Len(pledges) = Len(written)
      /\ \A i \in DOMAIN written : Same(Append(pledges[i].lhs, pledges[i].rhs), PartsOf(written[i]))

HasFlag(item, name) == Tokens(name, item) # <<>>

SameContract(spec, item) ==
  /\ \A xs \in Vals(Len(item.params) + 1) :
       /\ Means(spec.pres, xs) = Says(item, "requires", xs)
       /\ Means(spec.posts, xs) = Says(item, "ensures", xs)
       /\ Means(spec.predicate_body, xs) = Says(item, "predicate", xs)
       /\ SamePledges(spec.pledges, item, xs)
  /\ spec.pure = (HasFlag(item, "pure") \/ item.macro = "predicate")
  /\ spec.trusted = (HasFlag(item, "trusted") \/ item.macro \in {"predicate", "extern_spec"})

\* The contract of a call on a receiver whose implementation refines the trait.
SameRefinement(trait, impl) ==
  LET spec == refine(get(trait.name), get(impl.name))
      Of(kind) == IF HasFlag(impl, kind) THEN impl ELSE trait
  IN  \A xs \in Vals(Len(trait.params) + 1) :
        /\ Means(spec.pres, xs) = Says(Of("requires"), "requires", xs)
        /\ Means(spec.posts, xs) = Says(Of("ensures"), "ensures", xs)

SpecOf(item) ==
  LET closures == {Append(<<i>>, 1) : i \in {j \in DOMAIN hir : hir[j].node = "let" /\ hir[j].body[1].name = item.name}}
  IN  IF item.macro = "closure"
      THEN LET paths == closures \cap DOMAIN def_spec.specs
           IN  IF paths = {} THEN NoProcedureSpec ELSE def_spec.specs[CHOOSE q \in paths : TRUE]
      ELSE get(IF item.target # <<>> THEN item.target[1].fn ELSE item.name)

LoopsOf(item) ==
  LET path == CHOOSE q \in PathsOf(item.name) : TRUE
  IN  [i \in DOMAIN item.attrs |-> def_spec.loops[Append(path, i)]]

\* What the encoder gets as the contract of a function, a closure, an external function or a
\* predicate, or as the invariant of a loop, has under all values of the variables the truth
\* value of what is written there; an implementation overrides the clauses of its trait.  Excepted
\* are pledges that mix `&&` and `||`: they are not refused, and `||` is read as binding tighter.
MeansWhatIsWritten ==
  phase = "done" =>
    \A i \in DOMAIN crate :
      LET item == crate[i]
      IN  IF item.macro = "body_invariant"
          THEN \A j \in DOMAIN item.attrs : \A xs \in Vals(Len(item.params) + 1) :
                 Means(LoopsOf(item)[j], xs) = Written(item.attrs[j].tokens, Env(item, xs))
          ELSE /\ SameContract(SpecOf(item), item)
               /\ item.macro = "refine_trait_spec" =>
                    \A k \in DOMAIN crate : crate[k].node = "trait" => SameRefinement(crate[k], item)
=============================================================================
