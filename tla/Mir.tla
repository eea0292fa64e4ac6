--------------------------------- MODULE Mir ---------------------------------
(***************************************************************************)
(* MIR bodies, as the dataflow analyses read them through the interface of *)
(* rustc (rustc_middle::mir).  A statement is reduced to the place it      *)
(* assigns and the places that its operands move; a terminator to its      *)
(* kind, the places its operands move, the place it writes or drops, its   *)
(* normal targets and its unwind target.                                   *)
(***************************************************************************)
EXTENDS Integers, Sequences, FiniteSets, SequencesExt

NoPlace == <<>>
NoBlock == -1
START_BLOCK == 0

Assign(p, moves) == [target |-> p, moves |-> moves]
Nop == Assign(NoPlace, <<>>)          \* StorageLive, StorageDead, FakeRead, ...

Terminator(kind, moves, p, targets, unwind) ==
  [kind |-> kind, moves |-> moves, place |-> p, targets |-> targets, unwind |-> unwind]
Goto(b)             == Terminator("Goto", <<>>, NoPlace, <<b>>, NoBlock)
Return              == Terminator("Return", <<>>, NoPlace, <<>>, NoBlock)
SwitchInt(moves, s) == Terminator("SwitchInt", moves, NoPlace, s, NoBlock)
Drop(p, b, u)       == Terminator("Drop", <<>>, p, <<b>>, u)
DropAndReplace(p, moves, b, u) == Terminator("DropAndReplace", moves, p, <<b>>, u)
Call(p, args, b, u) == Terminator("Call", args, p, <<b>>, u)
Diverge(args, u)    == Terminator("Call", args, NoPlace, <<>>, u)  \* destination is None
AssertTrue(moves, b, u) == Terminator("Assert", moves, NoPlace, <<b>>, u)
Yield(moves, b, u)  == Terminator("Yield", moves, NoPlace, <<b>>, u)
InlineAsm(b)        == Terminator("InlineAsm", <<>>, NoPlace, <<b>>, NoBlock)

\* A basic block: its statements and its terminator.  A body maps indices to blocks.
Block(statements, terminator) == [statements |-> statements, terminator |-> terminator]

Unwinds(body, b) == IF body[b].terminator.unwind = NoBlock THEN {} ELSE {body[b].terminator.unwind}
successors(body, b) == Range(body[b].terminator.targets) \cup Unwinds(body, b)
predecessors(body, b) == {p \in DOMAIN body : b \in successors(body, p)}

\* The same in the order of the iterator TerminatorKind::successors.
successor_list(body, b) ==
  LET t == body[b].terminator IN t.targets \o (IF t.unwind = NoBlock THEN <<>> ELSE <<t.unwind>>)

\* What a terminator yields: a state for each target and one for its unwind block.
EdgePairs(t, after, unwound) ==
  [i \in DOMAIN t.targets |-> [block |-> t.targets[i], state |-> after]]
    \o (IF t.unwind = NoBlock THEN <<>> ELSE <<[block |-> t.unwind, state |-> unwound]>>)

\* The index of the terminator in its block; the statements have the indices before.
terminator_index(body, b) == Len(body[b].statements)

\* A body has consecutive blocks, to which its terminators lead.
IsSequence(s) == s \in Seq(Range(s))
WellFormed(body) ==
  /\ \E last \in DOMAIN body : last \in Nat /\ DOMAIN body = 0 .. last
  /\ \A b \in DOMAIN body :
       /\ IsSequence(body[b].statements) /\ IsSequence(body[b].terminator.targets)
       /\ successors(body, b) \subseteq DOMAIN body

-----------------------------------------------------------------------------
(* What the paths through a body do, as the reference for the results of   *)
(* the dataflow analyses: the collecting semantics of a body, for concrete *)
(* states that an analysis is about.                                       *)

\* The least set that contains S0 and, with x, all of next[x]; within U.
Closure(S0, next, U) ==
  LET close[S \in SUBSET U] ==
        LET T == S \cup UNION {next[x] : x \in S} IN IF T = S THEN S ELSE close[T]
  IN  close[S0]

\* The blocks that can be reached from the blocks in S.
ReachableFrom(body, S) == Closure(S, [b \in DOMAIN body |-> successors(body, b)], DOMAIN body)

AllReachable(body) == ReachableFrom(body, {START_BLOCK}) = DOMAIN body

\* The blocks that are reached only without unwinding.
Clean(body) ==
  DOMAIN body \ ReachableFrom(body, UNION {Unwinds(body, b) : b \in DOMAIN body})

\* The concrete states before the locations of b, of a path that enters it with c.
Along(body, b, c, Exec(_, _, _)) ==
  LET at[i \in 0 .. terminator_index(body, b)] ==
        IF i = 0 THEN c ELSE Exec(at[i - 1], body[b].statements[i], <<b, i - 1>>)
  IN  at

\* Where the path goes from there, and with which states: Leave and Unwind run
\* the terminator, to its targets and to its unwind block.
Onward(body, b, c, Exec(_, _, _), Leave(_, _, _), Unwind(_, _, _)) ==
  LET t == body[b].terminator
      i == terminator_index(body, b)
      end == Along(body, b, c, Exec)[i]
  IN  (Range(t.targets) \X Leave(end, t, <<b, i>>))
        \cup (Unwinds(body, b) \X Unwind(end, t, <<b, i>>))

\* The blocks and the concrete states in U with which paths enter them, from a
\* state in Start.
Entering(body, Start, Exec(_, _, _), Leave(_, _, _), Unwind(_, _, _), U) ==
  Closure({START_BLOCK} \X Start,
          [x \in (DOMAIN body) \X U |-> Onward(body, x[1], x[2], Exec, Leave, Unwind)],
          (DOMAIN body) \X U)
=============================================================================
