------------------------- MODULE ReachingDefinitions -------------------------
(***************************************************************************)
(* The abstract domain ReachingDefsState (analysis/src/abstract_domains),  *)
(* run by the Analyzer.  A state maps a local variable to the locations of *)
(* the assignments, and to the parameter, that it may have its value from. *)
(***************************************************************************)
EXTENDS DefinitionPaths

CONSTANT Bodies   \* the bodies to be analysed

\* Bodies are as rustc builds them, with finitely many variables.
ASSUME DefinitionsAssumption ==
  /\ IsFiniteSet(Locals) /\ Args \in Seq(Locals)
  /\ \A bdy \in Bodies : WellFormed(bdy) /\ AssignsLocals(bdy)

VARIABLES body, work_set, state_before, state_after_block, status
vars == <<body, work_set, state_before, state_after_block, status>>

Defs(S, x) == IF x \in DOMAIN S THEN S[x] ELSE {}

\* reaching_defs.entry(x), with new contents.
Entry(S, x, defs) == [y \in DOMAIN S \cup {x} |-> IF y = x THEN defs ELSE S[y]]

\* The target of an assignment, if it is a local variable, has only this definition.
Redefine(S, p, location) == IF IsLocal(p) THEN Entry(S, p[1], {location}) ELSE S

ReachBottom(bdy)  == [x \in {} |-> {}]
ReachInitial(bdy) == [x \in Range(Args) |-> {Parameter(ArgIndex(x) - 1)}]

ReachJoin(S, T) == [x \in DOMAIN S \cup DOMAIN T |-> Defs(S, x) \cup Defs(T, x)]

ReachStatement(stmt, location, S) == Redefine(S, stmt.target, location)

\* Mutant: a call that unwinds has written its destination.
ReachTerminator_UnwindRedefines(t, location, S) ==
  LET after == IF t.kind = "Call" THEN Redefine(S, t.place, location) ELSE S IN
    [ok |-> t.kind # "InlineAsm", states |-> EdgePairs(t, after, after)]

\* apply_terminator_effect: on the unwind edge of a call, its destination may or
\* may not have been written.
ReachTerminator(t, location, S) ==
  LET called == t.kind = "Call" /\ IsLocal(t.place)
      after  == IF called THEN Redefine(S, t.place, location) ELSE S
      unwind == IF called THEN Entry(S, t.place[1], Defs(S, t.place[1]) \cup {location}) ELSE S
  IN  [ok |-> t.kind # "InlineAsm", states |-> EdgePairs(t, after, unwind)]

A == INSTANCE Analyzer WITH
       new_bottom <- ReachBottom, new_initial <- ReachInitial, join <- ReachJoin,
       apply_statement_effect <- ReachStatement, apply_terminator_effect <- ReachTerminator

Init == A!Init
Next == A!Next
Spec == Init /\ [][Next]_vars

-----------------------------------------------------------------------------
(* Properties *)

\* The definition that a variable has on some path, unwinding included, is found at every
\* location of that path, except that apply_terminator_effect takes DropAndReplace for no
\* assignment and never finds a Replacement.  If the body has no dead blocks, no other
\* definition is found, except for a variable that a path brings a Replacement of: what it
\* overwrote may still be there.
ReachingDefinitionsExact ==
  status = "done" =>
    \A b \in DOMAIN body : \A i \in DOMAIN state_before[b], x \in Locals :
      LET carried == Reaching(body, b, i, x)
          found   == Defs(state_before[b][i], x)
      IN  /\ carried \ {Replacement} \subseteq found
          /\ AllReachable(body) /\ Replacement \notin carried => found \subseteq carried

==============================================================================
