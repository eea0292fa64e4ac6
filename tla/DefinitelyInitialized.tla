------------------------ MODULE DefinitelyInitialized ------------------------
(***************************************************************************)
(* The analysis of definitely initialised places: the abstract domain      *)
(* DefinitelyInitializedState (analysis/src/abstract_domains), run by the  *)
(* Analyzer, and the conversion of its result into the tables that the     *)
(* encoder uses (prusti-interface/.../mir_analyses/initialization.rs).     *)
(* A state is a set of places none of which is a prefix of another.  A     *)
(* place is a local variable followed by projections: <<"x", "f", "g">>    *)
(* for x.f.g, and names such as "as Some" and "*" for downcasts and        *)
(* dereferences.                                                           *)
(***************************************************************************)
EXTENDS Mir

CONSTANTS
  Locals,         \* the local variables
  TypeOfLocal,    \* the type of each local variable
  TypeOfElem,     \* the type of a place, by its last projection
  FieldsOfStruct, \* the fields of each struct or tuple type
  Downcasts,      \* the projections to a variant of an enum
  Bodies,         \* the bodies to be analysed
  Args,           \* the local variables that are arguments
  Leaves          \* the places that have no parts

TypeOfPlace(p) == IF Len(p) = 1 THEN TypeOfLocal[p[1]] ELSE TypeOfElem[Last(p)]
IsField(e) == \E T \in DOMAIN FieldsOfStruct : e \in FieldsOfStruct[T]
IsVariant(p) == Len(p) > 1 /\ Last(p) \in Downcasts
IsStruct(p) == ~IsVariant(p) /\ TypeOfPlace(p) \in DOMAIN FieldsOfStruct

\* A place goes on to a field of its struct, a field of its variant, a variant, or
\* to what a box or a reference points to.
IsPlace(p) ==
  /\ IsSequence(p) /\ p # NoPlace /\ p[1] \in Locals
  /\ \A n \in 1 .. Len(p) - 1 :
       LET q == SubSeq(p, 1, n) IN
         CASE IsStruct(q)  -> p[n + 1] \in FieldsOfStruct[TypeOfPlace(q)]
           [] IsVariant(q) -> IsField(p[n + 1])
           [] OTHER        -> p[n + 1] = "*" \/ p[n + 1] \in Downcasts

\* No place that a body uses is below a leaf, and the leaves below a place are
\* reached by dereferencing it or else by its fields or variants.
IsUsable(p) ==
  /\ IsPlace(p)
  /\ \A l \in Leaves : \A n \in 1 .. Len(p) - 1 :
       IsPrefix(SubSeq(p, 1, n), l) => Len(l) > n /\ (l[n + 1] = "*" <=> p[n + 1] = "*")

\* A variant of an enum is not assigned by itself.
IsAssignable(p) == IsUsable(p) /\ \A i \in 2 .. Len(p) : p[i] \notin Downcasts

UsesPlaces(bdy) ==
  \A b \in DOMAIN bdy :
    LET t == bdy[b].terminator
        OperandsOK(moves) == IsSequence(moves) /\ \A p \in Range(moves) : IsUsable(p)
    IN  /\ \A stmt \in Range(bdy[b].statements) :
             OperandsOK(stmt.moves) /\ (stmt.target # NoPlace => IsAssignable(stmt.target))
        /\ OperandsOK(t.moves)
        /\ t.kind = "Drop" => IsUsable(t.place)
        /\ t.kind = "DropAndReplace" => IsAssignable(t.place)
        /\ t.kind = "Call" /\ t.place # NoPlace => IsAssignable(t.place)

\* Bodies are as rustc builds them before aggregates are split up.
ASSUME PlacesAssumption ==
  /\ IsFiniteSet(Leaves) /\ \A l \in Leaves : IsPlace(l)
  /\ Args \subseteq Locals
  /\ \A bdy \in Bodies : WellFormed(bdy) /\ UsesPlaces(bdy)

-----------------------------------------------------------------------------
(* place_utils.rs and, identical up to Index projections,                  *)
(* prusti-interface/src/utils.rs                                           *)

is_prefix(place, potential_prefix) == IsPrefix(potential_prefix, place)

\* The fields of the struct `place' without one of them; a downcast has none.
expand_struct_place(place, without_field) ==
  IF IsVariant(place) THEN {}
  ELSE {Append(place, f) : f \in FieldsOfStruct[TypeOfPlace(place)] \ {without_field}}

\* The places next to the one that is a level closer to guide_place.
Siblings(current_place, guide_place) ==
  LET e == guide_place[Len(current_place) + 1] IN
    IF IsField(e) THEN expand_struct_place(current_place, e) ELSE {}

\* Mutant: only the last level is unrolled.
expand_LastLevel(minuend, subtrahend) ==
  IF minuend = subtrahend THEN {} ELSE Siblings(Front(subtrahend), subtrahend)

\* expand: what is left of minuend without its part subtrahend.
expand(minuend, subtrahend) ==
  UNION {Siblings(SubSeq(subtrahend, 1, n), subtrahend) : n \in Len(minuend) .. Len(subtrahend) - 1}

\* collapse: from the inside out, all fields of a place become that place.
collapse(places, guide_place) ==
  LET Expansion(n) ==
        Siblings(SubSeq(guide_place, 1, n), guide_place) \cup {SubSeq(guide_place, 1, n + 1)}
      collapsed[i \in 0 .. Len(guide_place) - 1] ==
        IF i = 0 THEN places
        ELSE LET n == Len(guide_place) - i
                 S == collapsed[i - 1]
             IN  IF Expansion(n) \subseteq S
                 THEN (S \ Expansion(n)) \cup {SubSeq(guide_place, 1, n)} ELSE S
  IN  collapsed[Len(guide_place) - 1]

-----------------------------------------------------------------------------
(* The abstract domain *)

VARIABLES body, work_set, state_before, state_after_block, status, result

set_place_initialised(S, place) ==
  IF \E current \in S : is_prefix(place, current) THEN S
  ELSE collapse({current \in S : ~is_prefix(current, place)} \cup {place}, place)

set_place_uninitialised(S, place) ==
  UNION {CASE is_prefix(place, old) -> expand(old, place)
           [] ~is_prefix(place, old) /\ is_prefix(old, place) -> {}
           [] OTHER -> {old} : old \in S}

\* apply_operand_effect, of all operands that are moved.
apply_operand_effects(S, moves) ==
  LET after[i \in 0 .. Len(moves)] ==
        IF i = 0 THEN S ELSE set_place_uninitialised(after[i - 1], moves[i])
  IN  after[Len(moves)]

InitBottom(bdy)  == {<<x>> : x \in Locals}
InitTop          == {}
InitInitial(bdy) == {<<x>> : x \in Args}

\* The places of one set that the other one covers.
InitJoin(S, T) ==
  {p \in S : \E q \in T : is_prefix(p, q)} \cup {p \in T : \E q \in S : is_prefix(p, q)}

InitStatement(stmt, location, S) ==
  IF stmt.target = <<>> THEN S
  ELSE set_place_initialised(apply_operand_effects(S, stmt.moves), stmt.target)

\* The state after terminator t on its normal edges.
AfterTerminator(t, S) ==
  LET moved == apply_operand_effects(S, t.moves) IN
    CASE t.kind = "Drop" -> set_place_uninitialised(S, t.place)
      [] t.kind = "DropAndReplace" ->
           set_place_initialised(
             apply_operand_effects(set_place_uninitialised(S, t.place), t.moves), t.place)
      [] t.kind = "Call" /\ t.place # <<>> -> set_place_initialised(moved, t.place)
      [] OTHER -> moved

\* Mutant: a call that unwinds has not touched anything.
InitTerminator_UnwindKeeps(t, location, S) ==
  [ok |-> t.kind # "InlineAsm", states |-> EdgePairs(t, AfterTerminator(t, S), S)]

\* apply_terminator_effect: nothing is known to be initialised after unwinding.
InitTerminator(t, location, S) ==
  [ok |-> t.kind # "InlineAsm", states |-> EdgePairs(t, AfterTerminator(t, S), InitTop)]

A == INSTANCE Analyzer WITH
       new_bottom <- InitBottom, new_initial <- InitInitial, join <- InitJoin,
       apply_statement_effect <- InitStatement, apply_terminator_effect <- InitTerminator

analysis == <<body, work_set, state_before, state_after_block, status>>
vars == <<analysis, result>>

-----------------------------------------------------------------------------
NoResult == [before_block |-> <<>>, after_statement |-> <<>>]

Init == A!Init /\ result = NoResult

Analyze == A!Next /\ UNCHANGED result

\* The state after a block: its edges joined; the bottom element if there are none.
AfterBlock(b) ==
  LET edges == state_after_block[b]
      one == CHOOSE t \in DOMAIN edges : TRUE
  IN  IF DOMAIN edges = {} THEN InitBottom(body)
      ELSE A!JoinIncoming(body, edges[one], edges)

\* The state after location <<b, i>>, counted from 0.
AfterLocation(b, i) ==
  IF i = terminator_index(body, b) THEN AfterBlock(b) ELSE state_before[b][i + 1]

\* compute_definitely_initialized, after the analysis; an error makes it panic.
Convert ==
  /\ status = "done" /\ result = NoResult
  /\ result' = [before_block |-> [b \in DOMAIN body |-> state_before[b][0]],
                after_statement |->
                  [b \in DOMAIN body |->
                     [i \in 0 .. terminator_index(body, b) |-> AfterLocation(b, i)]]]
  /\ UNCHANGED analysis

Next == Analyze \/ Convert

Spec == Init /\ [][Next]_vars

-----------------------------------------------------------------------------
(* The reference: which leaves are initialised along the paths of the body. *)

Parts(S) == {l \in Leaves : \E p \in S : is_prefix(l, p)}

\* The leaves that are reached through fields of structs alone.
FieldLeaves == {l \in Leaves : \A i \in 2 .. Len(l) : l[i] # "*" /\ l[i] \notin Downcasts}

Moved(c, moves) == c \ Parts(Range(moves))

Exec(c, stmt, location) ==
  IF stmt.target = NoPlace THEN c ELSE Moved(c, stmt.moves) \cup Parts({stmt.target})

\* The terminator on its normal edges, and when it unwinds.
Leave(c, t, location) ==
  {CASE t.kind = "Drop"           -> c \ Parts({t.place})
     [] t.kind = "DropAndReplace" -> Moved(c, t.moves) \cup Parts({t.place})
     [] t.kind = "Call"           -> Moved(c, t.moves) \cup Parts({t.place} \ {NoPlace})
     [] OTHER                     -> Moved(c, t.moves)}
Unwind(c, t, location) ==
  {IF t.kind \in {"Drop", "DropAndReplace"} THEN Moved(c, t.moves) \ Parts({t.place})
   ELSE Moved(c, t.moves)}

\* The pairs of a block and the leaves that are initialised when a path enters it.
Entries ==
  Entering(body, {Parts({<<x>> : x \in Args})}, Exec, Leave, Unwind, SUBSET Leaves)

\* The leaves after the statement with index i, for a block entered with c.
After(b, c, i) == Along(body, b, c, Exec)[i + 1]

-----------------------------------------------------------------------------
(* Properties *)

\* When run_fwd_analysis returns, visiting any block again changes nothing,
\* although a block is revisited only when a state on an edge into it changed.
FixedPoint == A!FixedPoint

\* Whatever the result claims to be initialised before a block, after a statement
\* or after a terminator is initialised on every path to that point, unwinding
\* included.
OnlyInitialisedIsClaimed ==
  result # NoResult =>
    \A x \in Entries :
      LET b == x[1]
          last == terminator_index(body, b)
          t == body[b].terminator
          end == After(b, x[2], last - 1)
          left == (IF t.targets = <<>> THEN {} ELSE Leave(end, t, <<b, last>>))
                    \cup (IF t.unwind = NoBlock THEN {} ELSE Unwind(end, t, <<b, last>>))
          claims == result.after_statement[b]
      IN  /\ Parts(result.before_block[b]) \subseteq x[2]
          /\ \A i \in 0 .. last - 1 : Parts(claims[i]) \subseteq After(b, x[2], i)
          /\ \A d \in left : Parts(claims[last]) \subseteq d

\* Nothing is lost either: what every path initialises before a block is
\* claimed, if the block is not reached by unwinding and the body has no dead
\* blocks.  Expanding and collapsing places, and joining sets of places of
\* different depths, is exact for structs.
AllInitialisedIsClaimed ==
  (result # NoResult /\ AllReachable(body)) =>
    \A b \in Clean(body) :
      LET entering == {x[2] : x \in {x \in Entries : x[1] = b}} IN
        {l \in FieldLeaves : \A c \in entering : l \in c} \subseteq Parts(result.before_block[b])
=============================================================================
