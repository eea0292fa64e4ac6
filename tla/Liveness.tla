------------------------------ MODULE Liveness ------------------------------
(***************************************************************************)
(* The liveness analysis of prusti-interface (mir_analyses/liveness.rs):   *)
(* which assignments to local variables reach each point of a MIR body.    *)
(* It is a fixed-point iteration of its own, with a stack of work items.   *)
(* The set after the terminator is one for all successors of a block.      *)
(***************************************************************************)
EXTENDS DefinitionPaths

CONSTANTS
  Bodies,         \* the bodies to be analysed
  MaxIterations   \* after so many iterations run() panics (1000000)

\* Bodies are as rustc builds them.
ASSUME LivenessAssumption ==
  /\ MaxIterations \in Nat
  /\ IsFiniteSet(Locals) /\ Args \in Seq(Locals)
  /\ \A bdy \in Bodies : WellFormed(bdy) /\ AssignsLocals(bdy)

VARIABLES
  body,             \* the body under analysis
  filled,           \* how many blocks propagate_work_queue has dealt with
  queue,            \* the work items; the last one is taken first
  before_block,     \* the assignments that reach the start of each block
  after_statement,  \* and those after each statement and terminator, by block and index
  counter           \* the iterations so far
vars == <<body, filled, queue, before_block, after_statement, counter>>

Indices(b) == 0 .. terminator_index(body, b)

MergeEffects(b)              == [op |-> "merge", block |-> b, index |-> 0]
ApplyStatementEffects(b, i)  == [op |-> "statement", block |-> b, index |-> i]
ApplyTerminatorEffects(b)    == [op |-> "terminator", block |-> b,
                                 index |-> terminator_index(body, b)]

\* The item that applies the effects of the statement or terminator with index i.
Apply(b, i) ==
  IF i = terminator_index(body, b) THEN ApplyTerminatorEffects(b) ELSE ApplyStatementEffects(b, i)

\* Mutant: what was assigned before stays.
replace_in_set_Keeps(S, p, location) == IF IsLocal(p) THEN S \cup {<<p[1], location>>} ELSE S

\* replace_in_set: of the assignments to p only this one is left.
replace_in_set(S, p, location) ==
  IF IsLocal(p) THEN {e \in S : e[1] # p[1]} \cup {<<p[1], location>>} ELSE S

SetBefore(b, i) == IF i = 0 THEN before_block[b] ELSE after_statement[b][i - 1]
SetAfterBlock(b) == after_statement[b][terminator_index(body, b)]

\* The effect of the statement or terminator with index i on the set S.
StatementEffect(b, i, S)  == replace_in_set(S, body[b].statements[i + 1].target, <<b, i>>)
TerminatorEffect(b, i, S) ==
  LET t == body[b].terminator IN
    IF t.kind = "Call" THEN replace_in_set(S, t.place, <<b, i>>) ELSE S
Effect(b, i, S) ==
  IF i = terminator_index(body, b) THEN TerminatorEffect(b, i, S) ELSE StatementEffect(b, i, S)

Init ==
  /\ body \in Bodies
  /\ filled = 0
  /\ queue = <<>>
  /\ before_block = [b \in DOMAIN body |-> {}]
  /\ after_statement = [b \in DOMAIN body |-> [i \in Indices(b) |-> {}]]
  /\ counter = 0

\* propagate_work_queue: the items of one more block go to the bottom of the
\* stack, the first one on top of the others.
propagate_work_queue ==
  /\ filled \in DOMAIN body
  /\ LET n == terminator_index(body, filled) IN
       queue' = [i \in 1 .. n + 1 |-> Apply(filled, n + 1 - i)] \o <<MergeEffects(filled)>> \o queue
  /\ filled' = filled + 1
  /\ UNCHANGED <<body, before_block, after_statement, counter>>

\* The loop of run takes the last item, unless the assertion fails.
Pop(op) ==
  /\ filled \notin DOMAIN body
  /\ queue # <<>> /\ Last(queue).op = op
  /\ counter <= MaxIterations
  /\ counter' = counter + 1

\* Mutant: after a change of the terminator only the first successor is revisited.
Followers_FirstSuccessor(b, i) ==
  IF i < terminator_index(body, b) THEN <<Apply(b, i + 1)>>
  ELSE IF successor_list(body, b) = <<>> THEN <<>>
  ELSE <<MergeEffects(Head(successor_list(body, b)))>>

\* What has to be redone when the set after index i of block b has changed.
Followers(b, i) ==
  IF i < terminator_index(body, b) THEN <<Apply(b, i + 1)>>
  ELSE LET next == successor_list(body, b) IN [j \in DOMAIN next |-> MergeEffects(next[j])]

update_set_after_statement(b, i, S) ==
  /\ after_statement' = [after_statement EXCEPT ![b][i] = S]
  /\ queue' = Front(queue) \o (IF after_statement[b][i] = S THEN <<>> ELSE Followers(b, i))

apply_statement_effects ==
  /\ Pop("statement")
  /\ LET w == Last(queue) IN
       update_set_after_statement(w.block, w.index,
         StatementEffect(w.block, w.index, SetBefore(w.block, w.index)))
  /\ UNCHANGED <<body, filled, before_block>>

apply_terminator_effects ==
  /\ Pop("terminator")
  /\ LET w == Last(queue) IN
       update_set_after_statement(w.block, w.index,
         TerminatorEffect(w.block, w.index, SetBefore(w.block, w.index)))
  /\ UNCHANGED <<body, filled, before_block>>

\* The union over the predecessors; a block without any keeps its empty set.
Merged(b) == UNION {SetAfterBlock(p) : p \in predecessors(body, b)}

merge_effects ==
  /\ Pop("merge")
  /\ LET b == Last(queue).block IN
       /\ before_block' = [before_block EXCEPT ![b] = Merged(b)]
       /\ queue' = Front(queue) \o (IF before_block[b] = Merged(b) THEN <<>> ELSE <<Apply(b, 0)>>)
  /\ UNCHANGED <<body, filled, after_statement>>

Next ==
  propagate_work_queue \/ apply_statement_effects \/ apply_terminator_effects \/ merge_effects

Spec == Init /\ [][Next]_vars

-----------------------------------------------------------------------------
(* Properties *)

\* A point whose work item is not on the stack agrees with what comes before it:
\* nothing is forgotten although an item is pushed only when a set changed, and
\* the result is a fixed point when the stack is empty.
WaitingOrSettled ==
  filled \notin DOMAIN body =>
    \A b \in DOMAIN body :
      /\ MergeEffects(b) \in Range(queue) \/ before_block[b] = Merged(b)
      /\ \A i \in Indices(b) :
           Apply(b, i) \in Range(queue) \/ after_statement[b][i] = Effect(b, i, SetBefore(b, i))

\* The assignments to v that paths carry to the point before index i of block b: its
\* definitions but for the parameters.
LiveAssignments(b, i, v) == Reaching(body, b, i, v) \ {Parameter(j - 1) : j \in DOMAIN Args}

\* Those to v that the analysis has found there.
FoundAssignments(b, i, v) == {e[2] : e \in {e \in SetBefore(b, i) : e[1] = v}}

\* run() has returned.
Done == filled \notin DOMAIN body /\ queue = <<>>

\* Where no unwinding leads, and if the body has no dead blocks, the result is exact: the
\* assignments that reach a point on some path, and no others.  But a Replacement is never
\* found, since apply_terminator_effects looks at calls only, and for a variable that a path
\* brings a Replacement of, what it overwrote may still be there.
ExactWithoutUnwinding ==
  (Done /\ AllReachable(body)) =>
    \A b \in Clean(body) : \A i \in Indices(b), v \in Locals :
      LET carried == LiveAssignments(b, i, v)
          found   == FoundAssignments(b, i, v)
      IN  /\ carried \ {Replacement} \subseteq found
          /\ Replacement \notin carried => found \subseteq carried

=============================================================================
