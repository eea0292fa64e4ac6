---------------------------- MODULE AnalyzerProofs ----------------------------
(***************************************************************************)
(* The result of run_fwd_analysis is a fixed point, for every body and     *)
(* every abstract domain; it is sound and precise for every domain whose   *)
(* operations are.  What a domain is about is given by a semantics of MIR  *)
(* with concrete states, as in Mir.                                        *)
(***************************************************************************)
EXTENDS Analyzer, FiniteSetTheorems, TLAPS

CONSTANTS
  IsState(_),       \* whether something is a state of the abstract domain
  StartStates(_),   \* the concrete states in which a body is entered
  RunStates(_),     \* all concrete states of a body
  RunStatement(_, _, _), RunTerminator(_, _, _), RunUnwinding(_, _, _),
                    \* of the concrete state, the statement or terminator, its location
  Describes(_, _),  \* the abstract state is true of the concrete one
  Justified(_, _),  \* the abstract state says no more than is true of one of the concrete ones
  PreciseBlocks(_)  \* the blocks of a body where the domain is precise

\* A block that is not in the work set is settled: the loop may stop when the
\* set is empty.
OthersSettled ==
  /\ status \in {"running", "done"} => \A b \in Blocks \ work_set : Settled(b) /\ Leave(b).ok
  /\ status = "done" => work_set = {}

\* At first every block is in the work set.
LEMMA InitOK == Init => OthersSettled
  BY DEF Init, OthersSettled, Blocks

\* A visit without error.
Visited(b) ==
  /\ b \in work_set /\ Leave(b).ok
  /\ state_before' = Insert(state_before, b, Visit(b))
  /\ state_after_block' =
       Insert(state_after_block, b,
              [t \in successors(body, b) |-> EdgeStates(Leave(b).states)[t]])
  /\ work_set' = (work_set \ {b}) \cup Changed(b, EdgeStates(Leave(b).states))
  /\ body' = body /\ status' = status

\* The states on the edges into a block that the visit of b does not insert
\* into the work set stay as they are.
LEMMA IncomingUnchanged ==
  ASSUME NEW b, Visited(b), NEW c, c \notin work_set'
  PROVE  Incoming(c)' = Incoming(c)
<1> DEFINE new == EdgeStates(Leave(b).states)
<1>1. /\ DOMAIN state_after_block' = DOMAIN state_after_block \cup {b}
      /\ \A p \in DOMAIN state_after_block' :
           state_after_block'[p] =
             IF p = b THEN [t \in successors(body, b) |-> new[t]] ELSE state_after_block[p]
  BY DEF Visited, Insert
<1>2. c \in successors(body, b) =>
        b \in DOMAIN state_after_block /\ state_after_block[b][c] = new[c]
  BY DEF Visited, Changed
<1>3. {p \in DOMAIN state_after_block' : c \in successors(body, p)}
        = {p \in DOMAIN state_after_block : c \in successors(body, p)}
  BY <1>1, <1>2
<1>4. \A p \in {p \in DOMAIN state_after_block : c \in successors(body, p)} :
        state_after_block'[p][c] = state_after_block[p][c]
  BY <1>1, <1>2
<1> QED
  BY <1>3, <1>4 DEF Incoming, Visited

\* So what a visit of that block would compute stays the same.
LEMMA VisitUnchanged ==
  ASSUME NEW b, Visited(b), NEW c, c \notin work_set'
  PROVE  Visit(c)' = Visit(c) /\ Leave(c)' = Leave(c)
<1>1. Incoming(c)' = Incoming(c)
  BY IncomingUnchanged
<1>2. body' = body
  BY DEF Visited
<1>3. EntryState(c)' = EntryState(c)
  BY <1>1, <1>2 DEF EntryState
<1>4. Visit(c)' = Visit(c)
  BY <1>2, <1>3 DEF Visit
<1> QED
  BY <1>2, <1>4 DEF Leave

\* After a visit the visited block is settled, and the others outside the work
\* set stay so.
LEMMA VisitOK ==
  ASSUME OthersSettled, NEW b, b \in Blocks, Visited(b), status = "running"
  PROVE  OthersSettled'
<1>1. status' = "running" /\ body' = body
  BY DEF Visited
<1>2. ASSUME NEW c, c \in Blocks, c \notin work_set'
      PROVE  (Settled(c) /\ Leave(c).ok)'
  <2>1. Visit(c)' = Visit(c) /\ Leave(c)' = Leave(c)
    BY <1>2, VisitUnchanged
  <2>2. /\ DOMAIN state_before' = DOMAIN state_before \cup {b}
        /\ \A p \in DOMAIN state_before' :
             state_before'[p] = IF p = b THEN Visit(b) ELSE state_before[p]
    BY DEF Visited, Insert
  <2>3. /\ DOMAIN state_after_block' = DOMAIN state_after_block \cup {b}
        /\ \A p \in DOMAIN state_after_block' :
             state_after_block'[p] =
               IF p = b THEN [t \in successors(body, b) |-> EdgeStates(Leave(b).states)[t]]
               ELSE state_after_block[p]
    BY DEF Visited, Insert
  <2>4. CASE c = b
    <3>1. b \in DOMAIN state_before' /\ state_before'[b] = Visit(b)'
      BY <2>1, <2>2, <2>4
    <3>2. b \in DOMAIN state_after_block'
      BY <2>3
    <3>3. \A t \in successors(body, b) :
            state_after_block'[b][t] = EdgeStates(Leave(b).states)[t]
      BY <2>3, <3>2
    <3>4. Leave(b)' = Leave(b)
      BY <2>1, <2>4
    <3>5. \A t \in successors(body', b) :
            state_after_block'[b][t] = EdgeStates(Leave(b)'.states)[t]
      BY <1>1, <3>3, <3>4
    <3> QED
      BY <2>4, <3>1, <3>2, <3>4, <3>5 DEF Settled, Visited
  <2>5. CASE c # b
    <3>1. c \notin work_set
      BY <1>2, <2>5 DEF Visited
    <3>2. Settled(c) /\ Leave(c).ok
      BY <1>2, <3>1 DEF OthersSettled
    <3> QED
      BY <1>1, <2>1, <2>2, <2>3, <2>5, <3>2 DEF Settled
  <2> QED
    BY <2>4, <2>5
<1> QED
  BY <1>1, <1>2 DEF OthersSettled, Blocks

\* Every iteration of the loop, and its end, keeps the invariant.
LEMMA NextOK == OthersSettled /\ [Next]_vars => OthersSettled'
<1> SUFFICES ASSUME OthersSettled, [Next]_vars PROVE OthersSettled'
  OBVIOUS
<1>1. ASSUME NEW b \in Blocks, AnalyzeBlock(b) PROVE OthersSettled'
  <2>1. CASE status' \notin {"running", "done"}
    BY <2>1 DEF OthersSettled
  <2>2. CASE status' \in {"running", "done"}
    <3>1. status = "running" /\ Visited(b)
      BY <1>1, <2>2 DEF AnalyzeBlock, Visited
    <3> QED
      BY <3>1, VisitOK
  <2> QED
    BY <2>1, <2>2
<1>2. ASSUME Finish PROVE OthersSettled'
  <2>1. UNCHANGED <<body, work_set, state_before, state_after_block>> /\ work_set = {}
        /\ status = "running"
    BY <1>2 DEF Finish
  <2>2. \A c \in Blocks \ work_set : Settled(c) /\ Leave(c).ok
    BY <2>1 DEF OthersSettled
  <2>3. \A c : Visit(c)' = Visit(c) /\ Leave(c)' = Leave(c)
    BY <2>1 DEF Visit, Leave, EntryState, Incoming
  <2>4. \A c \in Blocks : (Settled(c) /\ Leave(c).ok)'
    BY <2>1, <2>2, <2>3 DEF Settled
  <2> QED
    BY <2>1, <2>4 DEF OthersSettled, Blocks
<1>3. ASSUME UNCHANGED vars PROVE OthersSettled'
  <2>1. UNCHANGED <<body, work_set, state_before, state_after_block, status>>
    BY <1>3 DEF vars
  <2>2. \A c : Visit(c)' = Visit(c) /\ Leave(c)' = Leave(c)
    BY <2>1 DEF Visit, Leave, EntryState, Incoming
  <2> QED
    BY <2>1, <2>2 DEF OthersSettled, Settled, Blocks
<1> QED
  BY <1>1, <1>2, <1>3 DEF Next

\* When run_fwd_analysis returns Ok, its result is a fixed point: the block
\* states and edge states are what one more visit of any block would compute.
THEOREM ResultIsFixedPoint == Spec => []FixedPoint
<1>1. OthersSettled => FixedPoint
  BY DEF OthersSettled, FixedPoint
<1> QED
  BY <1>1, InitOK, NextOK, PTL DEF Spec

-----------------------------------------------------------------------------
(* The recursive functions of the Analyzer and of the paths, by their steps. *)

JoinStep(in, i, s) == IF i - 1 \in DOMAIN in THEN join(s, in[i - 1]) ELSE s
EdgeStep(pairs, i, m) ==
  Insert(m, pairs[i].block,
         IF pairs[i].block \in DOMAIN m THEN join(m[pairs[i].block], pairs[i].state)
         ELSE pairs[i].state)
BlockStep(at, i, s) == apply_statement_effect(at.statements[i], <<at.block, i - 1>>, s)
AlongStep(at, i, c) == RunStatement(c, at.body[at.block].statements[i], <<at.block, i - 1>>)

J == INSTANCE MirProofs WITH Step <- JoinStep
E == INSTANCE MirProofs WITH Step <- EdgeStep
B == INSTANCE MirProofs WITH Step <- BlockStep
M == INSTANCE MirProofs WITH Step <- AlongStep

\* Bodies are as rustc builds them.
WellFormedBodies == \A bdy \in Bodies : WellFormed(bdy)

\* What is used of that.
LEMMA BodyFacts ==
  ASSUME WellFormedBodies, NEW bdy \in Bodies
  PROVE  /\ \E n \in Nat \ {0} : DOMAIN bdy = 0 .. n - 1
         /\ START_BLOCK \in DOMAIN bdy
         /\ \A b \in DOMAIN bdy :
              /\ terminator_index(bdy, b) = Len(bdy[b].statements)
              /\ terminator_index(bdy, b) \in Nat
              /\ successors(bdy, b) \subseteq DOMAIN bdy
<1>1. PICK last \in Nat : DOMAIN bdy = 0 .. last
  BY DEF WellFormedBodies, WellFormed
<1>2. last + 1 \in Nat \ {0} /\ last = (last + 1) - 1
  BY <1>1
<1>3. \A b \in DOMAIN bdy :
        /\ terminator_index(bdy, b) = Len(bdy[b].statements)
        /\ terminator_index(bdy, b) \in Nat
        /\ successors(bdy, b) \subseteq DOMAIN bdy
  BY DEF WellFormedBodies, WellFormed, IsSequence, terminator_index
<1> QED
  BY <1>1, <1>2, <1>3 DEF START_BLOCK

\* f is the recursive function of JoinIncoming.
Joins(bdy, s, in, n, f) ==
  /\ DOMAIN bdy = 0 .. n - 1
  /\ JoinIncoming(bdy, s, in) = f[n] /\ f[0] = s
  /\ \A i \in 1 .. n : f[i] = JoinStep(in, i, f[i - 1])

\* JoinIncoming, unfolded.
LEMMA JoinUnfolds ==
  ASSUME WellFormedBodies, NEW bdy \in Bodies, NEW s, NEW in
  PROVE  \E n \in Nat : \E f : Joins(bdy, s, in, n, f)
<1>1. PICK n \in Nat \ {0} : DOMAIN bdy = 0 .. n - 1
  BY BodyFacts
<1>2. Cardinality(DOMAIN bdy) = n
  BY <1>1, FS_Interval
<1>3. JoinIncoming(bdy, s, in) = J!Iterated(in, s, n)[n]
  BY <1>2 DEF JoinIncoming, J!Iterated, JoinStep
<1>4. /\ J!Iterated(in, s, n)[0] = s
      /\ \A i \in 1 .. n : J!Iterated(in, s, n)[i] = JoinStep(in, i, J!Iterated(in, s, n)[i - 1])
  BY J!IterationUnfolds
<1> QED
  BY <1>1, <1>3, <1>4 DEF Joins

\* EdgeStates, unfolded.
LEMMA EdgesUnfold ==
  ASSUME NEW pairs, Len(pairs) \in Nat
  PROVE  \E f :
           /\ EdgeStates(pairs) = f[Len(pairs)] /\ f[0] = [b \in {} |-> 0]
           /\ \A i \in 1 .. Len(pairs) : f[i] = EdgeStep(pairs, i, f[i - 1])
<1> DEFINE f == E!Iterated(pairs, [b \in {} |-> 0], Len(pairs))
<1>1. EdgeStates(pairs) = f[Len(pairs)]
  BY DEF EdgeStates, E!Iterated, EdgeStep
<1>2. f[0] = [b \in {} |-> 0] /\ \A i \in 1 .. Len(pairs) : f[i] = EdgeStep(pairs, i, f[i - 1])
  BY E!IterationUnfolds
<1> QED
  BY <1>1, <1>2

\* BlockStates, unfolded.
LEMMA BlockUnfolds ==
  ASSUME NEW stmts, Len(stmts) \in Nat, NEW b, NEW s
  PROVE  /\ DOMAIN BlockStates(stmts, b, s) = 0 .. Len(stmts)
         /\ BlockStates(stmts, b, s)[0] = s
         /\ \A i \in 1 .. Len(stmts) : BlockStates(stmts, b, s)[i] =
              apply_statement_effect(stmts[i], <<b, i - 1>>, BlockStates(stmts, b, s)[i - 1])
<1> DEFINE at == [statements |-> stmts, block |-> b]
<1>1. BlockStates(stmts, b, s) = B!Iterated(at, s, Len(stmts))
  BY DEF BlockStates, B!Iterated, BlockStep
<1>2. \A i, x : BlockStep(at, i, x) = apply_statement_effect(stmts[i], <<b, i - 1>>, x)
  BY DEF BlockStep
<1> HIDE DEF at
<1> QED
  BY <1>1, <1>2, B!IterationUnfolds

\* The concrete states before the locations of block b.
At(bdy, b, c) == Along(bdy, b, c, RunStatement)

\* Along, unfolded.
LEMMA AlongUnfolds ==
  ASSUME WellFormedBodies, NEW bdy \in Bodies, NEW b \in DOMAIN bdy, NEW c
  PROVE  /\ terminator_index(bdy, b) \in Nat
         /\ DOMAIN At(bdy, b, c) = 0 .. terminator_index(bdy, b)
         /\ At(bdy, b, c)[0] = c
         /\ \A i \in 1 .. terminator_index(bdy, b) : At(bdy, b, c)[i] =
              RunStatement(At(bdy, b, c)[i - 1], bdy[b].statements[i], <<b, i - 1>>)
<1> DEFINE at == [body |-> bdy, block |-> b]
           n == terminator_index(bdy, b)
<1>1. n \in Nat
  BY BodyFacts
<1>2. At(bdy, b, c) = M!Iterated(at, c, n)
  BY DEF At, Along, M!Iterated, AlongStep
<1>3. \A i, x : AlongStep(at, i, x) = RunStatement(x, bdy[b].statements[i], <<b, i - 1>>)
  BY DEF AlongStep
<1> HIDE DEF at, n
<1>4. /\ DOMAIN M!Iterated(at, c, n) = 0 .. n
      /\ M!Iterated(at, c, n)[0] = c
      /\ \A i \in 1 .. n : M!Iterated(at, c, n)[i] = AlongStep(at, i, M!Iterated(at, c, n)[i - 1])
  BY <1>1, M!IterationUnfolds
<1> QED
  BY <1>1, <1>2, <1>3, <1>4 DEF n

-----------------------------------------------------------------------------
(* What is asked of a domain and of the concrete semantics. *)

\* The pairs that the terminator of b yields for the state s.
PairsOf(bdy, b, s) ==
  apply_terminator_effect(bdy[b].terminator, <<b, terminator_index(bdy, b)>>, s).states
Accepted(bdy, b, s) ==
  apply_terminator_effect(bdy[b].terminator, <<b, terminator_index(bdy, b)>>, s).ok

\* The blocks and concrete states to which the terminator of b leads from c.
Outcomes(bdy, b, c) ==
  LET t == bdy[b].terminator
      location == <<b, terminator_index(bdy, b)>>
  IN  (Range(t.targets) \X RunTerminator(c, t, location))
        \cup (Unwinds(bdy, b) \X RunUnwinding(c, t, location))

\* The operations of the domain yield states.
ClosedDomain ==
  /\ \A bdy \in Bodies : IsState(new_bottom(bdy)) /\ IsState(new_initial(bdy))
  /\ \A s, t : IsState(s) /\ IsState(t) => IsState(join(s, t))
  /\ \A bdy \in Bodies : \A b \in DOMAIN bdy : \A s : IsState(s) =>
       /\ \A i \in 1 .. terminator_index(bdy, b) :
            IsState(apply_statement_effect(bdy[b].statements[i], <<b, i - 1>>, s))
       /\ PairsOf(bdy, b, s) \in Seq(Range(PairsOf(bdy, b, s)))
       /\ \A i \in DOMAIN PairsOf(bdy, b, s) : IsState(PairsOf(bdy, b, s)[i].state)

\* So do the concrete steps, of which there are finitely many.
ClosedSemantics ==
  \A bdy \in Bodies :
    /\ IsFiniteSet(RunStates(bdy))
    /\ StartStates(bdy) \subseteq RunStates(bdy)
    /\ \A b \in DOMAIN bdy : \A c \in RunStates(bdy) :
         /\ \A i \in 1 .. terminator_index(bdy, b) :
              RunStatement(c, bdy[b].statements[i], <<b, i - 1>>) \in RunStates(bdy)
         /\ Outcomes(bdy, b, c) \subseteq (DOMAIN bdy) \X RunStates(bdy)

\* Each operation is true of the concrete states after the step, and a join of
\* what either state was true of.
SoundDomain ==
  /\ \A bdy \in Bodies : \A c \in StartStates(bdy) : Describes(new_initial(bdy), c)
  /\ \A s, t, c : (IsState(s) /\ IsState(t) /\ (Describes(s, c) \/ Describes(t, c)))
                    => Describes(join(s, t), c)
  /\ \A bdy \in Bodies : \A b \in DOMAIN bdy : \A c \in RunStates(bdy) : \A s :
       IsState(s) /\ Describes(s, c) =>
         /\ \A i \in 1 .. terminator_index(bdy, b) :
              Describes(apply_statement_effect(bdy[b].statements[i], <<b, i - 1>>, s),
                        RunStatement(c, bdy[b].statements[i], <<b, i - 1>>))
         /\ Accepted(bdy, b, s) =>
              \A y \in Outcomes(bdy, b, c) : \E i \in DOMAIN PairsOf(bdy, b, s) :
                /\ PairsOf(bdy, b, s)[i].block = y[1]
                /\ Describes(PairsOf(bdy, b, s)[i].state, y[2])

DomainOK == WellFormedBodies /\ ClosedDomain /\ ClosedSemantics

\* Joining states into s yields a state.
LEMMA JoinIsState ==
  ASSUME DomainOK, NEW bdy \in Bodies, NEW s, NEW in,
         IsState(s), \A p \in DOMAIN in : IsState(in[p])
  PROVE  IsState(JoinIncoming(bdy, s, in))
<1>1. PICK n \in Nat : \E f : Joins(bdy, s, in, n, f)
  <2>1. WellFormedBodies
    BY DEF DomainOK
  <2> QED
    BY <2>1, JoinUnfolds
<1>2. PICK f : Joins(bdy, s, in, n, f)
  BY <1>1
<1> USE DEF Joins
<1> DEFINE S == {i \in 0 .. n : IsState(f[i])}
<1>3. 0 \in S
  BY <1>2
<1>4. ASSUME NEW i \in 0 .. n - 1, i \in S PROVE i + 1 \in S
  <2>1. f[i + 1] = JoinStep(in, i + 1, f[i])
    BY <1>2
  <2>2. IsState(f[i])
    BY <1>4
  <2>3. IsState(JoinStep(in, i + 1, f[i]))
    BY <2>2 DEF JoinStep, DomainOK, ClosedDomain
  <2> QED
    BY <2>1, <2>3
<1> HIDE DEF S
<1>5. 0 .. n \subseteq S
  BY <1>3, <1>4, J!IndexInduction
<1>6. n \in S
  BY <1>5
<1> QED
  BY <1>2, <1>6 DEF S

\* Whatever one of the joined states is true of, the join is true of.
LEMMA JoinIsSound ==
  ASSUME DomainOK, SoundDomain, NEW bdy \in Bodies, NEW s, NEW in, NEW c,
         DOMAIN in \subseteq DOMAIN bdy,
         IsState(s), \A p \in DOMAIN in : IsState(in[p]),
         Describes(s, c) \/ \E p \in DOMAIN in : Describes(in[p], c)
  PROVE  Describes(JoinIncoming(bdy, s, in), c)
<1>1. PICK n \in Nat : \E f : Joins(bdy, s, in, n, f)
  <2>1. WellFormedBodies
    BY DEF DomainOK
  <2> QED
    BY <2>1, JoinUnfolds
<1>2. PICK f : Joins(bdy, s, in, n, f)
  BY <1>1
<1> USE DEF Joins
<1> DEFINE S == {i \in 0 .. n : /\ IsState(f[i])
                                /\ Describes(s, c) => Describes(f[i], c)
                                /\ \A p \in DOMAIN in : (p < i /\ Describes(in[p], c)) => Describes(f[i], c)}
<1>3. 0 \in S
  BY <1>2
<1>4. ASSUME NEW i \in 0 .. n - 1, i \in S PROVE i + 1 \in S
  <2>1. f[i + 1] = JoinStep(in, i + 1, f[i])
    BY <1>2
  <2>2. /\ IsState(f[i]) /\ (Describes(s, c) => Describes(f[i], c))
        /\ \A p \in DOMAIN in : (p < i /\ Describes(in[p], c)) => Describes(f[i], c)
    BY <1>4
  <2>3. /\ IsState(f[i + 1]) /\ (Describes(s, c) => Describes(f[i + 1], c))
        /\ Describes(f[i], c) => Describes(f[i + 1], c)
        /\ i \in DOMAIN in /\ Describes(in[i], c) => Describes(f[i + 1], c)
    BY <2>1, <2>2 DEF JoinStep, DomainOK, ClosedDomain, SoundDomain
  <2>4. \A p \in DOMAIN in : p < i + 1 => p < i \/ p = i
    BY <1>2
  <2> QED
    BY <2>2, <2>3, <2>4
<1> HIDE DEF S
<1>5. 0 .. n \subseteq S
  BY <1>3, <1>4, J!IndexInduction
<1>6. n \in S /\ \A p \in DOMAIN in : p < n
  BY <1>2, <1>5
<1> QED
  BY <1>2, <1>6 DEF S

\* The edges of a block: a state for each target, true of whatever one of the
\* states for that target is true of.
LEMMA EdgesAreSound ==
  ASSUME DomainOK, NEW pairs, pairs \in Seq(Range(pairs)),
         \A i \in DOMAIN pairs : IsState(pairs[i].state)
  PROVE  /\ \A i \in DOMAIN pairs : pairs[i].block \in DOMAIN EdgeStates(pairs)
         /\ \A t \in DOMAIN EdgeStates(pairs) : IsState(EdgeStates(pairs)[t])
         /\ SoundDomain => \A i \in DOMAIN pairs : \A c :
              Describes(pairs[i].state, c) => Describes(EdgeStates(pairs)[pairs[i].block], c)
<1> DEFINE n == Len(pairs)
<1>1. n \in Nat /\ DOMAIN pairs = 1 .. n
  OBVIOUS
<1>2. PICK f : /\ EdgeStates(pairs) = f[n] /\ f[0] = [b \in {} |-> 0]
               /\ \A i \in 1 .. n : f[i] = EdgeStep(pairs, i, f[i - 1])
  BY <1>1, EdgesUnfold
<1> DEFINE Good(k) ==
             /\ \A i \in 1 .. k : pairs[i].block \in DOMAIN f[k]
             /\ \A t \in DOMAIN f[k] : IsState(f[k][t])
             /\ SoundDomain => \A i \in 1 .. k : \A c :
                  Describes(pairs[i].state, c) => Describes(f[k][pairs[i].block], c)
           S == {k \in 0 .. n : Good(k)}
<1> HIDE DEF n
<1>3. 0 \in S
  BY <1>1, <1>2
<1>4. ASSUME NEW k \in 0 .. n - 1, k \in S PROVE k + 1 \in S
  <2> DEFINE x == pairs[k + 1]
             m == f[k]
             new == IF x.block \in DOMAIN m THEN join(m[x.block], x.state) ELSE x.state
  <2>1. Good(k)
    BY <1>4
  <2>2. k + 1 \in DOMAIN pairs /\ k + 1 \in 0 .. n /\ IsState(x.state)
    BY <1>1
  <2>3. f[k + 1] = Insert(m, x.block, new)
    BY <1>1, <1>2 DEF EdgeStep
  <2>4. /\ DOMAIN f[k + 1] = DOMAIN m \cup {x.block}
        /\ f[k + 1][x.block] = new
        /\ \A t \in DOMAIN m : t # x.block => f[k + 1][t] = m[t]
    BY <2>3 DEF Insert
  <2>5. IsState(new)
    BY <2>1, <2>2 DEF DomainOK, ClosedDomain
  <2>6. ASSUME SoundDomain, NEW c
        PROVE  /\ Describes(x.state, c) => Describes(new, c)
               /\ x.block \in DOMAIN m /\ Describes(m[x.block], c) => Describes(new, c)
    BY <2>1, <2>2, <2>6 DEF SoundDomain
  <2> HIDE DEF new, x, m
  <2>7. \A i \in 1 .. k + 1 : i \in 1 .. k \/ i = k + 1
    OBVIOUS
  <2>8. \A i \in 1 .. k + 1 : pairs[i].block \in DOMAIN f[k + 1]
    BY <2>1, <2>4, <2>7 DEF x, m
  <2>9. \A t \in DOMAIN f[k + 1] : IsState(f[k + 1][t])
    BY <2>1, <2>4, <2>5 DEF m
  <2>10. ASSUME SoundDomain, NEW i \in 1 .. k + 1, NEW c, Describes(pairs[i].state, c)
         PROVE  Describes(f[k + 1][pairs[i].block], c)
    <3>1. CASE i = k + 1
      BY <2>4, <2>6, <2>10, <3>1 DEF x
    <3>2. CASE i \in 1 .. k
      <4>1. pairs[i].block \in DOMAIN m /\ Describes(m[pairs[i].block], c)
        BY <2>1, <2>10, <3>2 DEF m
      <4> QED
        BY <2>4, <2>6, <2>10, <4>1
    <3> QED
      BY <2>7, <3>1, <3>2
  <2>11. Good(k + 1)
    BY <2>8, <2>9, <2>10
  <2> QED
    BY <2>2, <2>11
<1> HIDE DEF S
<1>5. 0 .. n \subseteq S
  BY <1>1, <1>3, <1>4, J!IndexInduction
<1>6. n \in S
  BY <1>1, <1>5
<1> QED
  BY <1>1, <1>2, <1>6 DEF S

-----------------------------------------------------------------------------
(* The recorded states are states of the domain. *)

Recorded ==
  /\ body \in Bodies
  /\ DOMAIN state_after_block \subseteq DOMAIN body
  /\ \A b \in DOMAIN state_after_block :
       /\ DOMAIN state_after_block[b] = successors(body, b)
       /\ \A t \in successors(body, b) : IsState(state_after_block[b][t])

\* The states on the edges into a block.
LEMMA IncomingStates ==
  ASSUME Recorded, NEW b
  PROVE  /\ DOMAIN Incoming(b) = {p \in DOMAIN state_after_block : b \in successors(body, p)}
         /\ DOMAIN Incoming(b) \subseteq DOMAIN body
         /\ \A p \in DOMAIN Incoming(b) :
              Incoming(b)[p] = state_after_block[p][b] /\ IsState(Incoming(b)[p])
  BY DEF Recorded, Incoming

\* What a visit computes are states.
LEMMA VisitIsState ==
  ASSUME DomainOK, Recorded, NEW b \in Blocks
  PROVE  /\ IsState(EntryState(b))
         /\ terminator_index(body, b) \in Nat
         /\ DOMAIN Visit(b) = 0 .. terminator_index(body, b)
         /\ Visit(b)[0] = EntryState(b)
         /\ \A i \in 1 .. terminator_index(body, b) :
              Visit(b)[i] = apply_statement_effect(body[b].statements[i], <<b, i - 1>>, Visit(b)[i - 1])
         /\ \A i \in 0 .. terminator_index(body, b) : IsState(Visit(b)[i])
         /\ Leave(b).states = PairsOf(body, b, Visit(b)[terminator_index(body, b)])
         /\ Leave(b).ok = Accepted(body, b, Visit(b)[terminator_index(body, b)])
         /\ \A t \in DOMAIN EdgeStates(Leave(b).states) : IsState(EdgeStates(Leave(b).states)[t])
<1> DEFINE n == terminator_index(body, b)
<1>1. body \in Bodies /\ b \in DOMAIN body
  BY DEF Recorded, Blocks
<1>2. IsState(EntryState(b))
  <2>1. IsState(IF b = START_BLOCK THEN new_initial(body) ELSE new_bottom(body))
    BY <1>1 DEF DomainOK, ClosedDomain
  <2> QED
    BY <1>1, <2>1, IncomingStates, JoinIsState DEF EntryState
<1>3. n \in Nat /\ n = Len(body[b].statements)
  BY <1>1, BodyFacts DEF DomainOK
<1>4. /\ DOMAIN Visit(b) = 0 .. n
      /\ Visit(b)[0] = EntryState(b)
      /\ \A i \in 1 .. n :
           Visit(b)[i] = apply_statement_effect(body[b].statements[i], <<b, i - 1>>, Visit(b)[i - 1])
  BY <1>3, BlockUnfolds DEF Visit
<1> DEFINE S == {i \in 0 .. n : IsState(Visit(b)[i])}
<1> HIDE DEF n
<1>5. 0 .. n \subseteq S
  <2>1. 0 \in S
    BY <1>2, <1>3, <1>4
  <2>2. ASSUME NEW i \in 0 .. n - 1, i \in S PROVE i + 1 \in S
    <3>1. i + 1 \in 1 .. n /\ (i + 1) - 1 = i
      BY <1>3
    <3>2. Visit(b)[i + 1] = apply_statement_effect(body[b].statements[i + 1], <<b, (i + 1) - 1>>, Visit(b)[i])
      BY <1>4, <3>1
    <3>3. IsState(apply_statement_effect(body[b].statements[i + 1], <<b, (i + 1) - 1>>, Visit(b)[i]))
      BY <1>1, <2>2, <3>1 DEF DomainOK, ClosedDomain, n
    <3> QED
      BY <1>3, <3>2, <3>3
  <2> HIDE DEF S
  <2> QED
    BY <1>3, <2>1, <2>2, J!IndexInduction
<1>6. /\ Leave(b).states = PairsOf(body, b, Visit(b)[n])
      /\ Leave(b).ok = Accepted(body, b, Visit(b)[n])
  BY DEF Leave, PairsOf, Accepted, n
<1>7. \A t \in DOMAIN EdgeStates(Leave(b).states) : IsState(EdgeStates(Leave(b).states)[t])
  <2>1. IsState(Visit(b)[n])
    BY <1>3, <1>5
  <2>2. /\ Leave(b).states \in Seq(Range(Leave(b).states))
        /\ \A i \in DOMAIN Leave(b).states : IsState(Leave(b).states[i].state)
    BY <1>1, <1>6, <2>1 DEF DomainOK, ClosedDomain
  <2> QED
    BY <2>2, EdgesAreSound
<1> QED
  BY <1>2, <1>3, <1>4, <1>5, <1>6, <1>7 DEF n

\* Every iteration records states.
LEMMA NextRecorded ==
  ASSUME DomainOK, Recorded, [Next]_vars
  PROVE  Recorded'
<1>1. ASSUME NEW b \in Blocks, AnalyzeBlock(b) PROVE Recorded'
  <2>1. body' = body
    BY <1>1 DEF AnalyzeBlock
  <2>2. CASE state_after_block' = state_after_block
    BY <2>1, <2>2 DEF Recorded
  <2>3. CASE state_after_block' # state_after_block
    <3> DEFINE new == EdgeStates(Leave(b).states)
    <3>1. /\ state_after_block' =
               Insert(state_after_block, b, [t \in successors(body, b) |-> new[t]])
          /\ successors(body, b) \subseteq DOMAIN new
      BY <1>1, <2>3 DEF AnalyzeBlock
    <3>2. \A t \in DOMAIN new : IsState(new[t])
      BY VisitIsState
    <3> HIDE DEF new
    <3>3. /\ DOMAIN state_after_block' = DOMAIN state_after_block \cup {b}
          /\ \A p \in DOMAIN state_after_block' : state_after_block'[p] =
               IF p = b THEN [t \in successors(body, b) |-> new[t]] ELSE state_after_block[p]
      BY <3>1 DEF Insert
    <3> QED
      BY <2>1, <3>1, <3>2, <3>3 DEF Recorded, Blocks
  <2> QED
    BY <2>2, <2>3
<1>2. CASE Finish
  BY <1>2 DEF Finish, Recorded
<1>3. CASE UNCHANGED vars
  BY <1>3 DEF vars, Recorded
<1> QED
  BY <1>1, <1>2, <1>3 DEF Next

-----------------------------------------------------------------------------
(* Soundness. *)

Onwards(bdy, b, c) == Onward(bdy, b, c, RunStatement, RunTerminator, RunUnwinding)
Paths(bdy) ==
  Entering(bdy, StartStates(bdy), RunStatement, RunTerminator, RunUnwinding, RunStates(bdy))

\* A path stays within the concrete states.
LEMMA AlongStates ==
  ASSUME DomainOK, NEW bdy \in Bodies, NEW b \in DOMAIN bdy, NEW c \in RunStates(bdy)
  PROVE  /\ \A i \in 0 .. terminator_index(bdy, b) : At(bdy, b, c)[i] \in RunStates(bdy)
         /\ Onwards(bdy, b, c) = Outcomes(bdy, b, At(bdy, b, c)[terminator_index(bdy, b)])
         /\ Onwards(bdy, b, c) \subseteq (DOMAIN bdy) \X RunStates(bdy)
<1> DEFINE n == terminator_index(bdy, b)
           at == At(bdy, b, c)
           S == {i \in 0 .. n : at[i] \in RunStates(bdy)}
<1>1. WellFormedBodies
  BY DEF DomainOK
<1>2. /\ n \in Nat /\ at[0] = c
      /\ \A i \in 1 .. n : at[i] = RunStatement(at[i - 1], bdy[b].statements[i], <<b, i - 1>>)
  BY <1>1, AlongUnfolds
<1> HIDE DEF at
<1>3. 0 .. n \subseteq S
  <2>1. 0 \in S
    BY <1>2
  <2>2. ASSUME NEW i \in 0 .. n - 1, i \in S PROVE i + 1 \in S
    <3>1. i + 1 \in 1 .. n /\ (i + 1) - 1 = i
      BY <1>2
    <3>2. at[i + 1] = RunStatement(at[i], bdy[b].statements[i + 1], <<b, (i + 1) - 1>>)
      BY <1>2, <3>1
    <3>3. RunStatement(at[i], bdy[b].statements[i + 1], <<b, (i + 1) - 1>>) \in RunStates(bdy)
      BY <2>2, <3>1 DEF DomainOK, ClosedSemantics
    <3> QED
      BY <1>2, <3>2, <3>3
  <2> HIDE DEF S, n
  <2> QED
    BY <1>2, <2>1, <2>2, J!IndexInduction
<1>4. Onwards(bdy, b, c) = Outcomes(bdy, b, at[n])
  BY DEF Onwards, Onward, Outcomes, at, At
<1>5. Outcomes(bdy, b, at[n]) \subseteq (DOMAIN bdy) \X RunStates(bdy)
  BY <1>2, <1>3 DEF DomainOK, ClosedSemantics
<1> QED
  BY <1>3, <1>4, <1>5 DEF at

\* The paths: they start with the block START_BLOCK, go on, and there are no others.
LEMMA PathsAreClosure ==
  ASSUME DomainOK, NEW bdy \in Bodies
  PROVE  /\ {START_BLOCK} \X StartStates(bdy) \subseteq Paths(bdy)
         /\ Paths(bdy) \subseteq (DOMAIN bdy) \X RunStates(bdy)
         /\ \A x \in Paths(bdy) : Onwards(bdy, x[1], x[2]) \subseteq Paths(bdy)
         /\ \A C : (/\ {START_BLOCK} \X StartStates(bdy) \subseteq C
                    /\ \A x \in C \cap ((DOMAIN bdy) \X RunStates(bdy)) :
                         Onwards(bdy, x[1], x[2]) \subseteq C)
                   => Paths(bdy) \subseteq C
<1> DEFINE U == (DOMAIN bdy) \X RunStates(bdy)
           next == [x \in U |-> Onwards(bdy, x[1], x[2])]
           S0 == {START_BLOCK} \X StartStates(bdy)
<1>1. IsFiniteSet(U)
  <2>1. PICK n \in Nat \ {0} : DOMAIN bdy = 0 .. n - 1
    BY BodyFacts DEF DomainOK
  <2>2. IsFiniteSet(DOMAIN bdy)
    BY <2>1, FS_Interval
  <2>3. IsFiniteSet(RunStates(bdy))
    BY DEF DomainOK, ClosedSemantics
  <2> QED
    BY ONLY <2>2, <2>3, FS_Product
<1>2. next \in [U -> SUBSET U]
  <2>1. ASSUME NEW x \in U PROVE Onwards(bdy, x[1], x[2]) \in SUBSET U
    <3>1. x[1] \in DOMAIN bdy /\ x[2] \in RunStates(bdy)
      OBVIOUS
    <3> QED
      BY <3>1, AlongStates
  <2> QED
    BY <2>1
<1>3. S0 \in SUBSET U
  <2>1. START_BLOCK \in DOMAIN bdy
    BY BodyFacts DEF DomainOK
  <2>2. StartStates(bdy) \subseteq RunStates(bdy)
    BY DEF DomainOK, ClosedSemantics
  <2> QED
    BY <2>1, <2>2
<1>4. Paths(bdy) = J!Closure(S0, next, U)
  <2>1. Paths(bdy) = Closure(S0, next, U)
    BY DEF Paths, Entering, Onwards, Onward, Along
  <2> QED
    BY <2>1 DEF Closure, J!Closure
<1>5. \A x \in U : next[x] = Onwards(bdy, x[1], x[2])
  OBVIOUS
<1> HIDE DEF U, next, S0
<1>6. IsFiniteSet(U) = J!IsFiniteSet(U)
  BY DEF IsFiniteSet, J!IsFiniteSet
<1>7. /\ S0 \subseteq Paths(bdy) /\ Paths(bdy) \subseteq U
      /\ \A x \in Paths(bdy) : next[x] \subseteq Paths(bdy)
      /\ \A C : (S0 \subseteq C /\ \A x \in C \cap U : next[x] \subseteq C)
                   => Paths(bdy) \subseteq C
  BY <1>1, <1>2, <1>3, <1>4, <1>6, J!ClosureProperties
<1> QED
  BY <1>5, <1>7 DEF S0, U

\* A visit describes what happens on a path through the block.
LEMMA VisitIsSound ==
  ASSUME DomainOK, SoundDomain, Recorded, NEW b \in Blocks, NEW c \in RunStates(body),
         Describes(EntryState(b), c)
  PROVE  /\ \A i \in 0 .. terminator_index(body, b) : Describes(Visit(b)[i], At(body, b, c)[i])
         /\ Leave(b).ok => \A y \in Onwards(body, b, c) :
              Describes(EdgeStates(Leave(b).states)[y[1]], y[2])
<1> DEFINE n == terminator_index(body, b)
           at == At(body, b, c)
           S == {i \in 0 .. n : Describes(Visit(b)[i], at[i])}
<1>1. body \in Bodies /\ b \in DOMAIN body /\ WellFormedBodies
  BY DEF Recorded, Blocks, DomainOK
<1>2. /\ n \in Nat /\ at[0] = c
      /\ \A i \in 1 .. n : at[i] = RunStatement(at[i - 1], body[b].statements[i], <<b, i - 1>>)
  BY <1>1, AlongUnfolds
<1>3. /\ Visit(b)[0] = EntryState(b)
      /\ \A i \in 1 .. n :
           Visit(b)[i] = apply_statement_effect(body[b].statements[i], <<b, i - 1>>, Visit(b)[i - 1])
      /\ \A i \in 0 .. n : IsState(Visit(b)[i])
  BY VisitIsState
<1>4. \A i \in 0 .. n : at[i] \in RunStates(body)
  BY <1>1, AlongStates
<1> HIDE DEF at
<1>5. 0 .. n \subseteq S
  <2>1. 0 \in S
    BY <1>2, <1>3
  <2>2. ASSUME NEW i \in 0 .. n - 1, i \in S PROVE i + 1 \in S
    <3>1. i + 1 \in 1 .. n /\ (i + 1) - 1 = i /\ i \in 0 .. n
      BY <1>2
    <3>2. /\ at[i + 1] = RunStatement(at[i], body[b].statements[i + 1], <<b, (i + 1) - 1>>)
          /\ Visit(b)[i + 1] =
               apply_statement_effect(body[b].statements[i + 1], <<b, (i + 1) - 1>>, Visit(b)[i])
      BY <1>2, <1>3, <3>1
    <3>3. IsState(Visit(b)[i]) /\ Describes(Visit(b)[i], at[i]) /\ at[i] \in RunStates(body)
      BY <1>3, <1>4, <2>2, <3>1
    <3>4. Describes(apply_statement_effect(body[b].statements[i + 1], <<b, (i + 1) - 1>>, Visit(b)[i]),
                    RunStatement(at[i], body[b].statements[i + 1], <<b, (i + 1) - 1>>))
      BY <1>1, <3>1, <3>3 DEF SoundDomain
    <3> QED
      BY <1>2, <3>2, <3>4
  <2> HIDE DEF S, n
  <2> QED
    BY <1>2, <2>1, <2>2, J!IndexInduction
<1>6. ASSUME Leave(b).ok, NEW y \in Onwards(body, b, c)
      PROVE  Describes(EdgeStates(Leave(b).states)[y[1]], y[2])
  <2> DEFINE s == Visit(b)[n]
  <2>1. n \in 0 .. n
    BY <1>2
  <2>2. IsState(s) /\ Describes(s, at[n]) /\ at[n] \in RunStates(body)
    BY <1>3, <1>4, <1>5, <2>1
  <2>3. y \in Outcomes(body, b, at[n])
    BY <1>1, <1>6, AlongStates DEF at
  <2>4. Leave(b).states = PairsOf(body, b, s) /\ Accepted(body, b, s)
    BY <1>6, VisitIsState
  <2>5. PICK i \in DOMAIN PairsOf(body, b, s) :
          /\ PairsOf(body, b, s)[i].block = y[1]
          /\ Describes(PairsOf(body, b, s)[i].state, y[2])
    BY <1>1, <2>2, <2>3, <2>4 DEF SoundDomain
  <2>6. /\ PairsOf(body, b, s) \in Seq(Range(PairsOf(body, b, s)))
        /\ \A j \in DOMAIN PairsOf(body, b, s) : IsState(PairsOf(body, b, s)[j].state)
    BY <1>1, <2>2 DEF DomainOK, ClosedDomain
  <2> QED
    BY <2>4, <2>5, <2>6, EdgesAreSound
<1> QED
  BY <1>5, <1>6 DEF at

\* What the result says of a block is true of every path that enters it, at
\* every location and on every edge out of it.
Sound ==
  status = "done" =>
    \A x \in Paths(body) :
      /\ \A i \in 0 .. terminator_index(body, x[1]) :
           Describes(state_before[x[1]][i], At(body, x[1], x[2])[i])
      /\ \A y \in Onwards(body, x[1], x[2]) : Describes(state_after_block[x[1]][y[1]], y[2])

\* It follows because the result is a fixed point.
LEMMA FixedPointIsSound ==
  ASSUME DomainOK, SoundDomain, Recorded, OthersSettled
  PROVE  Sound
<1> SUFFICES ASSUME status = "done" PROVE
      \A x \in Paths(body) :
        /\ \A i \in 0 .. terminator_index(body, x[1]) :
             Describes(state_before[x[1]][i], At(body, x[1], x[2])[i])
        /\ \A y \in Onwards(body, x[1], x[2]) : Describes(state_after_block[x[1]][y[1]], y[2])
  BY DEF Sound
<1>1. \A b \in Blocks : Settled(b) /\ Leave(b).ok
  BY DEF OthersSettled
<1>2. body \in Bodies /\ Blocks = DOMAIN body
  BY DEF Recorded, Blocks
<1> DEFINE C == {x \in (DOMAIN body) \X RunStates(body) : Describes(EntryState(x[1]), x[2])}
<1>3. {START_BLOCK} \X StartStates(body) \subseteq C
  <2> SUFFICES ASSUME NEW c \in StartStates(body)
               PROVE  <<START_BLOCK, c>> \in C
    OBVIOUS
  <2>1. START_BLOCK \in DOMAIN body
    BY <1>2, BodyFacts DEF DomainOK
  <2>2. c \in RunStates(body)
    BY <1>2 DEF DomainOK, ClosedSemantics
  <2>3. IsState(new_initial(body)) /\ Describes(new_initial(body), c)
    BY <1>2 DEF DomainOK, ClosedDomain, SoundDomain
  <2>4. Describes(JoinIncoming(body, new_initial(body), Incoming(START_BLOCK)), c)
    BY <1>2, <2>3, IncomingStates, JoinIsSound
  <2> QED
    BY <2>1, <2>2, <2>4 DEF EntryState
<1>4. ASSUME NEW x \in C
      PROVE  /\ \A i \in 0 .. terminator_index(body, x[1]) :
                  Describes(state_before[x[1]][i], At(body, x[1], x[2])[i])
             /\ \A y \in Onwards(body, x[1], x[2]) :
                  Describes(state_after_block[x[1]][y[1]], y[2]) /\ y \in C
  <2> DEFINE b == x[1]
             c == x[2]
  <2>1. b \in Blocks /\ c \in RunStates(body) /\ Describes(EntryState(b), c)
    BY <1>2
  <2>2. Settled(b) /\ Leave(b).ok
    BY <1>1, <2>1
  <2> HIDE DEF b, c
  <2>3. /\ \A i \in 0 .. terminator_index(body, b) : Describes(Visit(b)[i], At(body, b, c)[i])
        /\ \A y \in Onwards(body, b, c) : Describes(EdgeStates(Leave(b).states)[y[1]], y[2])
    BY <2>1, <2>2, VisitIsSound
  <2>4. \A i \in 0 .. terminator_index(body, b) : Describes(state_before[b][i], At(body, b, c)[i])
    BY <2>2, <2>3 DEF Settled
  <2>5. ASSUME NEW y \in Onwards(body, b, c)
        PROVE  Describes(state_after_block[b][y[1]], y[2]) /\ y \in C
    <3>1. y \in (DOMAIN body) \X RunStates(body) /\ y[1] \in successors(body, b)
      <4>1. /\ Onwards(body, b, c) = Outcomes(body, b, At(body, b, c)[terminator_index(body, b)])
            /\ Onwards(body, b, c) \subseteq (DOMAIN body) \X RunStates(body)
        BY <1>2, <2>1, AlongStates
      <4> QED
        BY <4>1 DEF Outcomes, successors
    <3>2. /\ b \in DOMAIN state_after_block
          /\ state_after_block[b][y[1]] = EdgeStates(Leave(b).states)[y[1]]
      BY <2>2, <3>1 DEF Settled
    <3>3. Describes(state_after_block[b][y[1]], y[2])
      BY <2>3, <3>2
    <3>4. b \in DOMAIN Incoming(y[1]) /\ Incoming(y[1])[b] = state_after_block[b][y[1]]
      BY <3>1, <3>2, IncomingStates
    <3> DEFINE s == IF y[1] = START_BLOCK THEN new_initial(body) ELSE new_bottom(body)
    <3>5. IsState(s)
      BY <1>2 DEF DomainOK, ClosedDomain
    <3>6. EntryState(y[1]) = JoinIncoming(body, s, Incoming(y[1]))
      BY DEF EntryState
    <3> HIDE DEF s
    <3>7. /\ DOMAIN Incoming(y[1]) \subseteq DOMAIN body
          /\ \A p \in DOMAIN Incoming(y[1]) : IsState(Incoming(y[1])[p])
      BY IncomingStates
    <3>8. \E p \in DOMAIN Incoming(y[1]) : Describes(Incoming(y[1])[p], y[2])
      BY <3>3, <3>4
    <3>9. Describes(EntryState(y[1]), y[2])
      BY <1>2, <3>5, <3>6, <3>7, <3>8, JoinIsSound
    <3> QED
      BY <3>1, <3>3, <3>9
  <2> QED
    BY <2>4, <2>5 DEF b, c
<1>5. Paths(body) \subseteq C
  <2>1. \A x \in C \cap ((DOMAIN body) \X RunStates(body)) : Onwards(body, x[1], x[2]) \subseteq C
    BY <1>4
  <2> HIDE DEF C
  <2> QED
    BY <1>2, <1>3, <2>1, PathsAreClosure
<1> QED
  BY <1>4, <1>5

\* The analysis is sound for every domain whose operations are: what it says is
\* true of every path through the body, unwinding included.
THEOREM ResultIsSound == (DomainOK /\ SoundDomain) => (Spec => []Sound)
<1> SUFFICES ASSUME DomainOK, SoundDomain PROVE Spec => []Sound
  OBVIOUS
<1>1. Init => Recorded /\ OthersSettled
  BY InitOK DEF Init, Recorded
<1>2. Recorded /\ OthersSettled /\ [Next]_vars => (Recorded /\ OthersSettled)'
  BY NextRecorded, NextOK
<1>3. Recorded /\ OthersSettled => Sound
  BY FixedPointIsSound
<1> QED
  BY <1>1, <1>2, <1>3, PTL DEF Spec

-----------------------------------------------------------------------------
(* Precision. *)

\* The states that c leads to in block t, over the terminator of b.
LeadingTo(bdy, b, C, t) == {d \in RunStates(bdy) : \E c \in C : <<t, d>> \in Outcomes(bdy, b, c)}
Execute(bdy, b, i, C) == {RunStatement(c, bdy[b].statements[i], <<b, i - 1>>) : c \in C}

\* The statements of b and its terminator say no more than they justify, where
\* something is executed at all.
PreciseSteps(bdy, b) ==
  \A C \in SUBSET RunStates(bdy) : \A s : IsState(s) /\ Justified(s, C) /\ C # {} =>
    /\ \A i \in 1 .. terminator_index(bdy, b) :
         Justified(apply_statement_effect(bdy[b].statements[i], <<b, i - 1>>, s),
                   Execute(bdy, b, i, C))
    /\ \A i \in DOMAIN PairsOf(bdy, b, s) :
         LET t == PairsOf(bdy, b, s)[i].block IN
           t \in PreciseBlocks(bdy) =>
             Justified(PairsOf(bdy, b, s)[i].state, LeadingTo(bdy, b, C, t))

\* So do the other operations; a precise block is entered from precise blocks alone.
PreciseDomain ==
  /\ \A s, C, D : (IsState(s) /\ Justified(s, C) /\ C \subseteq D) => Justified(s, D)
  /\ \A s, t, C : (IsState(s) /\ IsState(t) /\ Justified(s, C) /\ Justified(t, C))
                    => Justified(join(s, t), C)
  /\ \A bdy \in Bodies :
       /\ StartStates(bdy) # {} /\ PreciseBlocks(bdy) \subseteq DOMAIN bdy
       /\ \A C : Justified(new_bottom(bdy), C)
       /\ Justified(new_initial(bdy), StartStates(bdy))
       /\ \A b \in DOMAIN bdy :
            /\ successors(bdy, b) \cap PreciseBlocks(bdy) # {} => b \in PreciseBlocks(bdy)
            /\ \A c \in RunStates(bdy) : \A t \in successors(bdy, b) :
                 \E d : <<t, d>> \in Outcomes(bdy, b, c)
       /\ \A b \in PreciseBlocks(bdy) : PreciseSteps(bdy, b)

\* The concrete states in which paths enter block b.
EntriesAt(bdy, b) == {c \in RunStates(bdy) : <<b, c>> \in Paths(bdy)}

\* Where all blocks can be reached, a path enters each of them.
LEMMA EveryBlockEntered ==
  ASSUME DomainOK, PreciseDomain, NEW bdy \in Bodies, AllReachable(bdy), NEW b \in DOMAIN bdy
  PROVE  EntriesAt(bdy, b) # {}
<1> DEFINE U == DOMAIN bdy
           next == [p \in U |-> successors(bdy, p)]
           C == {p \in U : EntriesAt(bdy, p) # {}}
<1>1. START_BLOCK \in U /\ J!IsFiniteSet(U)
  <2>1. PICK n \in Nat \ {0} : U = 0 .. n - 1
    BY BodyFacts DEF DomainOK
  <2>2. IsFiniteSet(U)
    BY <2>1, FS_Interval
  <2> QED
    BY <2>1, <2>2 DEF START_BLOCK, IsFiniteSet, J!IsFiniteSet
<1>2. next \in [U -> SUBSET U]
  BY BodyFacts DEF DomainOK
<1>3. J!Closure({START_BLOCK}, next, U) = U
  BY DEF AllReachable, ReachableFrom, Closure, J!Closure
<1>4. START_BLOCK \in C
  <2>1. PICK c \in StartStates(bdy) : TRUE
    BY DEF PreciseDomain, PreciseSteps
  <2>2. <<START_BLOCK, c>> \in Paths(bdy) /\ c \in RunStates(bdy)
    BY PathsAreClosure DEF DomainOK, ClosedSemantics
  <2> QED
    BY <1>1, <2>2 DEF EntriesAt
<1>5. ASSUME NEW p \in C PROVE successors(bdy, p) \subseteq C
  <2> SUFFICES ASSUME NEW t \in successors(bdy, p) PROVE t \in C
    OBVIOUS
  <2>1. PICK c \in RunStates(bdy) : <<p, c>> \in Paths(bdy)
    BY <1>5 DEF EntriesAt
  <2> DEFINE end == At(bdy, p, c)[terminator_index(bdy, p)]
  <2>2. /\ end \in RunStates(bdy)
        /\ Onwards(bdy, p, c) = Outcomes(bdy, p, end)
        /\ Onwards(bdy, p, c) \subseteq U \X RunStates(bdy)
    <3>1. terminator_index(bdy, p) \in Nat
      BY BodyFacts DEF DomainOK
    <3> QED
      BY <3>1, AlongStates
  <2>3. PICK d : <<t, d>> \in Outcomes(bdy, p, end)
    BY <2>2 DEF PreciseDomain, PreciseSteps
  <2>4. <<t, d>> \in Paths(bdy)
    BY <2>1, <2>2, <2>3, PathsAreClosure
  <2> QED
    BY <2>2, <2>3, <2>4 DEF EntriesAt
<1>6. J!Closure({START_BLOCK}, next, U) \subseteq C
  <2>1. \A p \in C \cap U : next[p] \subseteq C
    BY <1>5
  <2> HIDE DEF C, next, U
  <2> QED
    BY <1>1, <1>2, <1>4, <2>1, J!ClosureProperties
<1> QED
  BY <1>3, <1>6

\* A join of justified states is justified.
LEMMA JoinIsPrecise ==
  ASSUME DomainOK, PreciseDomain, NEW bdy \in Bodies, NEW s, NEW in, NEW C,
         IsState(s), \A p \in DOMAIN in : IsState(in[p]),
         Justified(s, C), \A p \in DOMAIN in : Justified(in[p], C)
  PROVE  Justified(JoinIncoming(bdy, s, in), C)
<1>1. PICK n \in Nat : \E f : Joins(bdy, s, in, n, f)
  <2>1. WellFormedBodies
    BY DEF DomainOK
  <2> QED
    BY <2>1, JoinUnfolds
<1>2. PICK f : Joins(bdy, s, in, n, f)
  BY <1>1
<1> USE DEF Joins
<1> DEFINE S == {i \in 0 .. n : IsState(f[i]) /\ Justified(f[i], C)}
<1>3. 0 \in S
  BY <1>2
<1>4. ASSUME NEW i \in 0 .. n - 1, i \in S PROVE i + 1 \in S
  <2>1. f[i + 1] = JoinStep(in, i + 1, f[i])
    BY <1>2
  <2>2. IsState(f[i]) /\ Justified(f[i], C)
    BY <1>4
  <2>3. IsState(f[i + 1]) /\ Justified(f[i + 1], C)
    BY <2>1, <2>2 DEF JoinStep, DomainOK, ClosedDomain, PreciseDomain, PreciseSteps
  <2> QED
    BY <2>3
<1> HIDE DEF S
<1>5. 0 .. n \subseteq S
  BY <1>3, <1>4, J!IndexInduction
<1>6. n \in S
  BY <1>5
<1> QED
  BY <1>2, <1>6 DEF S

\* So is the state on an edge, if all states for its target are.
LEMMA EdgesArePrecise ==
  ASSUME DomainOK, PreciseDomain, NEW pairs, pairs \in Seq(Range(pairs)),
         \A i \in DOMAIN pairs : IsState(pairs[i].state),
         NEW t, t \in DOMAIN EdgeStates(pairs), NEW C,
         \A i \in DOMAIN pairs : pairs[i].block = t => Justified(pairs[i].state, C)
  PROVE  Justified(EdgeStates(pairs)[t], C)
<1> DEFINE n == Len(pairs)
<1>1. n \in Nat /\ DOMAIN pairs = 1 .. n
  OBVIOUS
<1>2. PICK f : /\ EdgeStates(pairs) = f[n] /\ f[0] = [b \in {} |-> 0]
               /\ \A i \in 1 .. n : f[i] = EdgeStep(pairs, i, f[i - 1])
  BY <1>1, EdgesUnfold
<1> DEFINE Good(k) == t \in DOMAIN f[k] => (IsState(f[k][t]) /\ Justified(f[k][t], C))
           S == {k \in 0 .. n : Good(k)}
<1> HIDE DEF n
<1>3. 0 \in S
  BY <1>1, <1>2
<1>4. ASSUME NEW k \in 0 .. n - 1, k \in S PROVE k + 1 \in S
  <2> DEFINE x == pairs[k + 1]
             m == f[k]
             new == IF x.block \in DOMAIN m THEN join(m[x.block], x.state) ELSE x.state
  <2>1. Good(k)
    BY <1>4
  <2>2. k + 1 \in DOMAIN pairs /\ k + 1 \in 0 .. n /\ IsState(x.state)
    BY <1>1
  <2>3. f[k + 1] = Insert(m, x.block, new)
    BY <1>1, <1>2 DEF EdgeStep
  <2>4. /\ DOMAIN f[k + 1] = DOMAIN m \cup {x.block}
        /\ f[k + 1][x.block] = new
        /\ \A u \in DOMAIN m : u # x.block => f[k + 1][u] = m[u]
    BY <2>3 DEF Insert
  <2>5. x.block = t => IsState(new) /\ Justified(new, C)
    BY <2>1, <2>2 DEF DomainOK, ClosedDomain, PreciseDomain, PreciseSteps
  <2> HIDE DEF new, x
  <2>6. Good(k + 1)
    BY <2>1, <2>4, <2>5
  <2> QED
    BY <2>2, <2>6
<1> HIDE DEF S
<1>5. 0 .. n \subseteq S
  BY <1>1, <1>3, <1>4, J!IndexInduction
<1>6. n \in S
  BY <1>1, <1>5
<1> QED
  BY <1>1, <1>2, <1>6 DEF S

\* What is recorded of a precise block is justified by the paths that enter it,
\* and what is recorded of an edge by those that enter its target.
AtLocation(bdy, b, i) == {At(bdy, b, c)[i] : c \in EntriesAt(bdy, b)}
Precise ==
  AllReachable(body) =>
    /\ \A b \in DOMAIN state_before : b \in PreciseBlocks(body) =>
         \A i \in 0 .. terminator_index(body, b) :
           Justified(state_before[b][i], AtLocation(body, b, i))
    /\ \A b \in DOMAIN state_after_block : \A t \in successors(body, b) \cap PreciseBlocks(body) :
         Justified(state_after_block[b][t], EntriesAt(body, t))

\* A visit computes no more than that.
LEMMA VisitIsPrecise ==
  ASSUME DomainOK, PreciseDomain, Recorded, Precise, AllReachable(body),
         NEW b \in Blocks, b \in PreciseBlocks(body)
  PROVE  /\ \A i \in 0 .. terminator_index(body, b) : Justified(Visit(b)[i], AtLocation(body, b, i))
         /\ \A t \in DOMAIN EdgeStates(Leave(b).states) :
              t \in PreciseBlocks(body) => Justified(EdgeStates(Leave(b).states)[t], EntriesAt(body, t))
<1> DEFINE n == terminator_index(body, b)
           S == {i \in 0 .. n : Justified(Visit(b)[i], AtLocation(body, b, i))}
<1>1. body \in Bodies /\ b \in DOMAIN body /\ WellFormedBodies
  BY DEF Recorded, Blocks, DomainOK
<1>2. /\ n \in Nat
      /\ \A c \in EntriesAt(body, b) :
           /\ At(body, b, c)[0] = c
           /\ \A i \in 1 .. n : At(body, b, c)[i] =
                RunStatement(At(body, b, c)[i - 1], body[b].statements[i], <<b, i - 1>>)
  <2>1. n \in Nat
    BY <1>1, BodyFacts
  <2>2. ASSUME NEW c \in EntriesAt(body, b)
        PROVE  /\ At(body, b, c)[0] = c
               /\ \A i \in 1 .. n : At(body, b, c)[i] =
                    RunStatement(At(body, b, c)[i - 1], body[b].statements[i], <<b, i - 1>>)
    BY <1>1, AlongUnfolds
  <2> QED
    BY <2>1, <2>2
<1>3. /\ Visit(b)[0] = EntryState(b)
      /\ \A i \in 1 .. n :
           Visit(b)[i] = apply_statement_effect(body[b].statements[i], <<b, i - 1>>, Visit(b)[i - 1])
      /\ \A i \in 0 .. n : IsState(Visit(b)[i])
  BY VisitIsState
<1>4. /\ EntriesAt(body, b) # {} /\ EntriesAt(body, b) \subseteq RunStates(body)
      /\ \A i \in 0 .. n : AtLocation(body, b, i) \in SUBSET RunStates(body) /\ AtLocation(body, b, i) # {}
  <2>1. EntriesAt(body, b) # {} /\ EntriesAt(body, b) \subseteq RunStates(body)
    BY <1>1, EveryBlockEntered DEF EntriesAt
  <2>2. \A c \in EntriesAt(body, b) : \A i \in 0 .. n : At(body, b, c)[i] \in RunStates(body)
    BY <1>1, <2>1, AlongStates
  <2> QED
    BY <2>1, <2>2 DEF AtLocation
<1> HIDE DEF n
<1>5. Justified(EntryState(b), EntriesAt(body, b))
  <2> DEFINE s == IF b = START_BLOCK THEN new_initial(body) ELSE new_bottom(body)
  <2>1. IsState(s) /\ Justified(s, EntriesAt(body, b))
    <3>1. CASE b = START_BLOCK
      <4>1. StartStates(body) \subseteq EntriesAt(body, b)
        BY <1>1, <3>1, PathsAreClosure DEF EntriesAt, DomainOK, ClosedSemantics
      <4>2. IsState(new_initial(body)) /\ Justified(new_initial(body), StartStates(body))
        BY <1>1 DEF DomainOK, ClosedDomain, PreciseDomain, PreciseSteps
      <4> QED
        BY <3>1, <4>1, <4>2 DEF PreciseDomain, PreciseSteps
    <3>2. CASE b # START_BLOCK
      BY <1>1, <3>2 DEF DomainOK, ClosedDomain, PreciseDomain, PreciseSteps
    <3> QED
      BY <3>1, <3>2
  <2>2. EntryState(b) = JoinIncoming(body, s, Incoming(b))
    BY DEF EntryState
  <2> HIDE DEF s
  <2>3. \A p \in DOMAIN Incoming(b) :
          IsState(Incoming(b)[p]) /\ Justified(Incoming(b)[p], EntriesAt(body, b))
    BY IncomingStates DEF Precise
  <2> QED
    BY <1>1, <2>1, <2>2, <2>3, JoinIsPrecise
<1>6. 0 .. n \subseteq S
  <2>1. 0 \in S
    <3>1. AtLocation(body, b, 0) = EntriesAt(body, b)
      BY <1>2 DEF AtLocation
    <3> QED
      BY <1>2, <1>3, <1>5, <3>1
  <2>2. ASSUME NEW i \in 0 .. n - 1, i \in S PROVE i + 1 \in S
    <3>1. i + 1 \in 1 .. n /\ (i + 1) - 1 = i /\ i \in 0 .. n
      BY <1>2
    <3>2. Visit(b)[i + 1] =
            apply_statement_effect(body[b].statements[i + 1], <<b, (i + 1) - 1>>, Visit(b)[i])
      BY <1>3, <3>1
    <3>3. AtLocation(body, b, i + 1) = Execute(body, b, i + 1, AtLocation(body, b, i))
      <4>1. \A c \in EntriesAt(body, b) : At(body, b, c)[i + 1] =
              RunStatement(At(body, b, c)[i], body[b].statements[i + 1], <<b, (i + 1) - 1>>)
        BY <1>2, <3>1
      <4> QED
        BY <4>1 DEF AtLocation, Execute
    <3>4. /\ IsState(Visit(b)[i]) /\ Justified(Visit(b)[i], AtLocation(body, b, i))
          /\ AtLocation(body, b, i) \in SUBSET RunStates(body) /\ AtLocation(body, b, i) # {}
      BY <1>3, <1>4, <2>2, <3>1
    <3>5. Justified(apply_statement_effect(body[b].statements[i + 1], <<b, (i + 1) - 1>>, Visit(b)[i]),
                    Execute(body, b, i + 1, AtLocation(body, b, i)))
      BY <1>1, <3>1, <3>4 DEF PreciseDomain, PreciseSteps, n
    <3> QED
      BY <1>2, <3>2, <3>3, <3>5
  <2> HIDE DEF S
  <2> QED
    BY <1>2, <2>1, <2>2, J!IndexInduction
<1>7. ASSUME NEW t \in DOMAIN EdgeStates(Leave(b).states), t \in PreciseBlocks(body)
      PROVE  Justified(EdgeStates(Leave(b).states)[t], EntriesAt(body, t))
  <2> DEFINE s == Visit(b)[n]
             C == AtLocation(body, b, n)
             pairs == PairsOf(body, b, s)
  <2>1. n \in 0 .. n
    BY <1>2
  <2>2. IsState(s) /\ Justified(s, C) /\ C \in SUBSET RunStates(body) /\ C # {}
    BY <1>3, <1>4, <1>6, <2>1
  <2>3. Leave(b).states = pairs
    BY VisitIsState DEF n
  <2>4. LeadingTo(body, b, C, t) \subseteq EntriesAt(body, t)
    <3> SUFFICES ASSUME NEW d \in LeadingTo(body, b, C, t) PROVE d \in EntriesAt(body, t)
      OBVIOUS
    <3>1. PICK c \in EntriesAt(body, b) : <<t, d>> \in Outcomes(body, b, At(body, b, c)[n])
      BY DEF LeadingTo, AtLocation
    <3>2. <<t, d>> \in Onwards(body, b, c)
      BY <1>1, <1>4, <3>1, AlongStates DEF n
    <3>3. <<b, c>> \in Paths(body)
      BY DEF EntriesAt
    <3>4. <<t, d>> \in Paths(body)
      BY <1>1, <3>2, <3>3, PathsAreClosure
    <3> QED
      BY <3>4 DEF EntriesAt, LeadingTo
  <2> HIDE DEF s, C
  <2>5. \A i \in DOMAIN pairs : pairs[i].block = t => Justified(pairs[i].state, LeadingTo(body, b, C, t))
    BY <1>1, <1>7, <2>2 DEF PreciseDomain, PreciseSteps
  <2>6. /\ pairs \in Seq(Range(pairs))
        /\ \A j \in DOMAIN pairs : IsState(pairs[j].state)
    BY <1>1, <2>2 DEF DomainOK, ClosedDomain
  <2> HIDE DEF pairs
  <2>7. \A i \in DOMAIN pairs : pairs[i].block = t => Justified(pairs[i].state, EntriesAt(body, t))
    BY <2>4, <2>5, <2>6 DEF PreciseDomain, PreciseSteps
  <2> QED
    BY <1>7, <2>3, <2>6, <2>7, EdgesArePrecise
<1> QED
  BY <1>6, <1>7 DEF n

\* So every iteration keeps the invariant.
LEMMA NextPrecise ==
  ASSUME DomainOK, PreciseDomain, Recorded, Precise, [Next]_vars
  PROVE  Precise'
<1>1. ASSUME NEW b \in Blocks, AnalyzeBlock(b) PROVE Precise'
  <2> SUFFICES ASSUME AllReachable(body) PROVE Precise'
    BY <1>1 DEF AnalyzeBlock, Precise
  <2> DEFINE new == EdgeStates(Leave(b).states)
  <2>1. body' = body /\ body \in Bodies /\ b \in DOMAIN body
    BY <1>1 DEF AnalyzeBlock, Recorded, Blocks
  <2>2. /\ DOMAIN state_before' = DOMAIN state_before \cup {b}
        /\ \A p \in DOMAIN state_before' :
             state_before'[p] = IF p = b THEN Visit(b) ELSE state_before[p]
    BY <1>1 DEF AnalyzeBlock, Insert
  <2>3. \/ state_after_block' = state_after_block
        \/ /\ successors(body, b) \subseteq DOMAIN new
           /\ DOMAIN state_after_block' = DOMAIN state_after_block \cup {b}
           /\ \A p \in DOMAIN state_after_block' : state_after_block'[p] =
                IF p = b THEN [t \in successors(body, b) |-> new[t]] ELSE state_after_block[p]
    BY <1>1 DEF AnalyzeBlock, Insert
  <2>4. \A t \in successors(body, b) \cap PreciseBlocks(body) : b \in PreciseBlocks(body)
    BY <2>1 DEF PreciseDomain, PreciseSteps
  <2>5. b \in PreciseBlocks(body) =>
          /\ \A i \in 0 .. terminator_index(body, b) : Justified(Visit(b)[i], AtLocation(body, b, i))
          /\ \A t \in DOMAIN new :
               t \in PreciseBlocks(body) => Justified(new[t], EntriesAt(body, t))
    BY VisitIsPrecise
  <2> HIDE DEF new
  <2>6. \A p \in DOMAIN state_before' : p \in PreciseBlocks(body) =>
          \A i \in 0 .. terminator_index(body, p) :
            Justified(state_before'[p][i], AtLocation(body, p, i))
    BY <2>2, <2>5 DEF Precise
  <2>7. \A p \in DOMAIN state_after_block' : \A t \in successors(body, p) \cap PreciseBlocks(body) :
          Justified(state_after_block'[p][t], EntriesAt(body, t))
    BY <2>3, <2>4, <2>5 DEF Precise
  <2> QED
    BY <2>1, <2>6, <2>7 DEF Precise
<1>2. CASE Finish
  BY <1>2 DEF Finish, Precise
<1>3. CASE UNCHANGED vars
  BY <1>3 DEF vars, Precise
<1> QED
  BY <1>1, <1>2, <1>3 DEF Next

\* The analysis is precise for every domain whose operations are: at no time
\* does it record more than the paths justify, where the body has no dead blocks.
THEOREM ResultIsPrecise == (DomainOK /\ PreciseDomain) => (Spec => []Precise)
<1> SUFFICES ASSUME DomainOK, PreciseDomain PROVE Spec => []Precise
  OBVIOUS
<1>1. Init => Recorded /\ Precise
  BY DEF Init, Recorded, Precise
<1>2. Recorded /\ Precise /\ [Next]_vars => (Recorded /\ Precise)'
  BY NextRecorded, NextPrecise
<1> QED
  BY <1>1, <1>2, PTL DEF Spec
===============================================================================
