------------------------------ MODULE Analyzer ------------------------------
(***************************************************************************)
(* Analyzer::run_fwd_analysis (analysis/src/analyzer.rs): forward abstract *)
(* interpretation of a MIR body with a work set of basic blocks.  The      *)
(* abstract domain is a parameter: the operations of the trait             *)
(* AbstractState.  No domain of the crate ever asks for widening           *)
(* (need_to_widen is constantly false), so it is left out.                 *)
(***************************************************************************)
EXTENDS Mir

CONSTANTS
  Bodies,           \* the bodies to be analysed
  new_bottom(_),    \* new_bottom(body)
  new_initial(_),   \* new_initial(body)
  join(_, _),       \* join(state, other)
  apply_statement_effect(_, _, _),    \* of the statement, its location, the state
  apply_terminator_effect(_, _, _)    \* of the terminator, its location, the state

VARIABLES
  body,               \* the body under analysis
  work_set,           \* the blocks to visit
  state_before,       \* of each visited block, the states before its locations
  state_after_block,  \* of each visited block, the states on its outgoing edges
  status              \* running, or what run_fwd_analysis returned
vars == <<body, work_set, state_before, state_after_block, status>>

Blocks == DOMAIN body

\* The map f with an entry for b.
Insert(f, b, x) == [c \in DOMAIN f \cup {b} |-> IF c = b THEN x ELSE f[c]]

\* The states in the map, joined into s in the order of the blocks of bdy.
JoinIncoming(bdy, s, in) ==
  LET n == Cardinality(DOMAIN bdy)
      joined[i \in 0 .. n] ==
        IF i = 0 THEN s
        ELSE IF i - 1 \in DOMAIN in THEN join(joined[i - 1], in[i - 1]) ELSE joined[i - 1]
  IN  joined[n]

\* The states on the edges into b, of the predecessors that were visited.
Incoming(b) ==
  [p \in {p \in DOMAIN state_after_block : b \in successors(body, p)} |-> state_after_block[p][b]]

\* state_before_block.
EntryState(b) ==
  JoinIncoming(body, IF b = START_BLOCK THEN new_initial(body) ELSE new_bottom(body), Incoming(b))

\* The states before the statements of block b and, last, before its terminator.
BlockStates(stmts, b, s) ==
  LET state[i \in 0 .. Len(stmts)] ==
        IF i = 0 THEN s ELSE apply_statement_effect(stmts[i], <<b, i - 1>>, state[i - 1])
  IN  state

\* The states for each target, those for the same one joined.
EdgeStates(pairs) ==
  LET new_map[i \in 0 .. Len(pairs)] ==
        IF i = 0 THEN [b \in {} |-> 0]
        ELSE LET next_bb == pairs[i].block
                 before  == new_map[i - 1]
             IN  Insert(before, next_bb,
                   IF next_bb \in DOMAIN before THEN join(before[next_bb], pairs[i].state)
                   ELSE pairs[i].state)
  IN  new_map[Len(pairs)]

\* What a visit of b computes: the states before its locations, and the result,
\* Ok or Err, of its terminator.
Visit(b) == BlockStates(body[b].statements, b, EntryState(b))
Leave(b) ==
  LET i == terminator_index(body, b) IN
    apply_terminator_effect(body[b].terminator, <<b, i>>, Visit(b)[i])

Init ==
  /\ body \in Bodies
  /\ work_set = DOMAIN body
  /\ state_before = [b \in {} |-> 0]
  /\ state_after_block = [b \in {} |-> 0]
  /\ status = "running"

\* Mutant: the successors are inserted only if there was a state before.
Changed_NotFirst(b, new) ==
  {t \in successors(body, b) : b \in DOMAIN state_after_block /\ state_after_block[b][t] # new[t]}

\* The successors of b whose input state has changed.
Changed(b, new) ==
  {t \in successors(body, b) :
     ~(b \in DOMAIN state_after_block /\ state_after_block[b][t] = new[t])}

\* One iteration of the loop, for the block with the smallest index.
AnalyzeBlock(b) ==
  /\ status = "running" /\ b \in work_set /\ \A c \in work_set : b <= c
  /\ state_before' = Insert(state_before, b, Visit(b))
  /\ LET next == Leave(b)
         new == EdgeStates(next.states)
         covered == successors(body, b) \subseteq DOMAIN new
         error == CASE ~next.ok -> "UnsupportedStatement"
                    [] next.ok /\ ~covered -> "SuccessorWithoutState"
                    [] OTHER -> "none"
     IN  \/ /\ error # "none"
            /\ status' = error
            /\ work_set' = work_set \ {b}
            /\ UNCHANGED state_after_block
         \/ /\ error = "none"
            /\ state_after_block' =
                 Insert(state_after_block, b, [t \in successors(body, b) |-> new[t]])
            /\ work_set' = (work_set \ {b}) \cup Changed(b, new)
            /\ UNCHANGED status
  /\ UNCHANGED body

Finish ==
  /\ status = "running" /\ work_set = {}
  /\ status' = "done"
  /\ UNCHANGED <<body, work_set, state_before, state_after_block>>

Next == (\E b \in Blocks : AnalyzeBlock(b)) \/ Finish

Spec == Init /\ [][Next]_vars

-----------------------------------------------------------------------------
(* Properties *)

\* What a visit would compute for b now is what is recorded.
Settled(b) ==
  /\ b \in DOMAIN state_before /\ state_before[b] = Visit(b)
  /\ b \in DOMAIN state_after_block
  /\ \A t \in successors(body, b) : state_after_block[b][t] = EdgeStates(Leave(b).states)[t]

\* "... until a fixed point is reached" (analyzer.rs): when the analysis is done,
\* visiting any block again changes nothing, although blocks are only revisited
\* when the state on an edge into them has changed.
FixedPoint == status = "done" => \A b \in Blocks : Settled(b)

=============================================================================
