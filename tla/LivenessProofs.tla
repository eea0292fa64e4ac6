--------------------------- MODULE LivenessProofs ---------------------------
(***************************************************************************)
(* The result of the liveness analysis is a fixed point of its equations,  *)
(* for every body: a work item that is not on the stack has nothing to do. *)
(***************************************************************************)
EXTENDS Liveness, TLAPS

Blocks == DOMAIN body

\* The work items of the body.
WorkItems ==
  UNION {{MergeEffects(b)} \cup {Apply(b, i) : i \in Indices(b)} : b \in Blocks}

TypeOK ==
  /\ body \in Bodies
  /\ filled \in Nat
  /\ queue \in Seq(WorkItems)
  /\ DOMAIN before_block = Blocks
  /\ DOMAIN after_statement = Blocks
  /\ \A b \in Blocks : DOMAIN after_statement[b] = Indices(b)
  /\ counter \in Nat

\* While the stack is filled, it holds the items of the blocks so far.
BlocksFilled ==
  \A b \in Blocks : b < filled /\ filled \in Blocks =>
    /\ MergeEffects(b) \in Range(queue)
    /\ \A i \in Indices(b) : Apply(b, i) \in Range(queue)

IInv == TypeOK /\ BlocksFilled /\ WaitingOrSettled

-----------------------------------------------------------------------------
\* A body has numbered blocks with finitely many statements.
LEMMA BodyShape ==
  ASSUME body \in Bodies
  PROVE  /\ Blocks \subseteq Nat
         /\ \A b \in Blocks : 0 .. b \subseteq Blocks
         /\ \A b \in Blocks : terminator_index(body, b) \in Nat
         /\ \A b \in Blocks : successors(body, b) \subseteq Blocks
  BY LivenessAssumption DEF Blocks, terminator_index, IsSequence, WellFormed

\* The elements of a concatenation.
LEMMA RangeConcat ==
  ASSUME NEW S, NEW s \in Seq(S), NEW r \in Seq(S)
  PROVE  Range(s \o r) = Range(s) \cup Range(r)
<1>1. /\ Len(s) \in Nat /\ Len(r) \in Nat
      /\ DOMAIN s = 1 .. Len(s) /\ DOMAIN r = 1 .. Len(r)
      /\ DOMAIN (s \o r) = 1 .. Len(s) + Len(r)
  OBVIOUS
<1>2. ASSUME NEW j \in 1 .. Len(s) PROVE (s \o r)[j] = s[j] /\ j \in DOMAIN (s \o r)
  BY <1>1, <1>2
<1>3. ASSUME NEW j \in 1 .. Len(r)
      PROVE  (s \o r)[Len(s) + j] = r[j] /\ Len(s) + j \in DOMAIN (s \o r)
  BY <1>1, <1>3
<1>4. ASSUME NEW j \in DOMAIN (s \o r) PROVE (s \o r)[j] \in Range(s) \cup Range(r)
  <2>1. CASE j <= Len(s)
    BY <1>1, <1>4, <1>2, <2>1 DEF Range
  <2>2. CASE ~(j <= Len(s))
    <3>1. j - Len(s) \in 1 .. Len(r) /\ Len(s) + (j - Len(s)) = j
      BY <1>1, <1>4, <2>2
    <3> QED
      BY <1>1, <1>3, <3>1 DEF Range
  <2> QED
    BY <2>1, <2>2
<1>5. Range(s \o r) \subseteq Range(s) \cup Range(r)
  BY <1>4 DEF Range
<1>6. Range(s) \subseteq Range(s \o r)
  BY <1>1, <1>2 DEF Range
<1>7. Range(r) \subseteq Range(s \o r)
  BY <1>1, <1>3 DEF Range
<1> QED
  BY <1>5, <1>6, <1>7

\* All successors of a block are on its list.
LEMMA SuccessorList ==
  ASSUME body \in Bodies, NEW b \in Blocks
  PROVE  /\ successor_list(body, b) \in Seq(Blocks)
         /\ Range(successor_list(body, b)) = successors(body, b)
<1> DEFINE t == body[b].terminator
           u == IF t.unwind = NoBlock THEN <<>> ELSE <<t.unwind>>
<1>1. t.targets \in Seq(Range(t.targets)) /\ successors(body, b) \subseteq Blocks
  BY LivenessAssumption DEF Blocks, IsSequence, WellFormed
<1>2. Range(t.targets) \subseteq Blocks
  BY <1>1 DEF successors
<1>3. t.targets \in Seq(Blocks)
  BY <1>1, <1>2 DEF Range
<1>4. u \in Seq(Blocks) /\ Range(u) = Unwinds(body, b)
  BY <1>1 DEF successors, Unwinds, Range
<1>5. Range(t.targets \o u) = Range(t.targets) \cup Range(u)
  <2> HIDE DEF u
  <2> QED
    BY <1>3, <1>4, RangeConcat
<1> QED
  BY <1>3, <1>4, <1>5 DEF successor_list, successors

\* What a pop and a push leave on the stack.
LEMMA PopPush ==
  ASSUME NEW S, NEW q \in Seq(S), q # <<>>, NEW r \in Seq(S)
  PROVE  /\ Last(q) \in S
         /\ Front(q) \o r \in Seq(S)
         /\ \A e \in Range(q) : e # Last(q) => e \in Range(Front(q) \o r)
         /\ Range(r) \subseteq Range(Front(q) \o r)
<1>1. Len(q) \in Nat \ {0} /\ DOMAIN q = 1 .. Len(q) /\ Last(q) \in S
  BY DEF Last
<1>2. /\ Front(q) \in Seq(S)
      /\ DOMAIN Front(q) = 1 .. Len(q) - 1
      /\ \A j \in 1 .. Len(q) - 1 : Front(q)[j] = q[j]
  BY <1>1 DEF Front
<1>3. Range(Front(q) \o r) = Range(Front(q)) \cup Range(r)
  BY <1>2, RangeConcat
<1>4. \A e \in Range(q) : e # Last(q) => e \in Range(Front(q))
  BY <1>1, <1>2 DEF Range, Last
<1> QED
  BY <1>1, <1>2, <1>3, <1>4

\* The items are told apart by their block and index.
LEMMA ItemsDiffer ==
  ASSUME body \in Bodies, NEW b \in Blocks, NEW i \in Indices(b)
  PROVE  /\ \A c \in Blocks : MergeEffects(c) # Apply(b, i)
         /\ \A c \in Blocks : \A j \in Indices(c) : Apply(b, i) = Apply(c, j) => b = c /\ i = j
  BY BodyShape DEF MergeEffects, Apply, ApplyTerminatorEffects, ApplyStatementEffects, Indices

-----------------------------------------------------------------------------
\* At first no block is filled in.
LEMMA InitOK == Init => IInv
<1> SUFFICES ASSUME Init PROVE IInv
  OBVIOUS
<1>1. body \in Bodies /\ filled = 0 /\ queue = <<>>
  BY DEF Init
<1>2. TypeOK
  BY DEF Init, TypeOK, Blocks
<1>3. \A b \in Blocks : ~(b < filled)
  BY <1>1, BodyShape
<1>4. filled \notin Blocks => Blocks = {}
  BY <1>1, BodyShape
<1> QED
  BY <1>2, <1>3, <1>4 DEF IInv, BlocksFilled, WaitingOrSettled, Blocks

\* The items of the block that is filled in come on the stack, the others stay.
LEMMA FillOK ==
  ASSUME IInv, propagate_work_queue
  PROVE  IInv'
<1> DEFINE n == terminator_index(body, filled)
           items == [i \in 1 .. n + 1 |-> Apply(filled, n + 1 - i)]
           top == items \o <<MergeEffects(filled)>>
<1>1. /\ TypeOK /\ BlocksFilled /\ filled \in Blocks
      /\ queue' = top \o queue
      /\ filled' = filled + 1
      /\ body' = body /\ before_block' = before_block
      /\ after_statement' = after_statement /\ counter' = counter
  BY DEF IInv, propagate_work_queue, Blocks
<1>2. /\ body \in Bodies /\ filled \in Nat /\ n \in Nat
      /\ queue \in Seq(WorkItems) /\ Indices(filled) = 0 .. n
  BY <1>1, BodyShape DEF TypeOK, Indices
<1>3. /\ \A i \in 0 .. n : Apply(filled, i) \in WorkItems
      /\ MergeEffects(filled) \in WorkItems
  BY <1>1, <1>2 DEF WorkItems
<1>4. items \in Seq(WorkItems) /\ DOMAIN items = 1 .. n + 1
  BY <1>2, <1>3
<1>5. \A i \in 0 .. n : Apply(filled, i) \in Range(items)
  <2> SUFFICES ASSUME NEW i \in 0 .. n PROVE Apply(filled, i) \in Range(items)
    OBVIOUS
  <2>1. n + 1 - i \in 1 .. n + 1 /\ n + 1 - (n + 1 - i) = i
    BY <1>2
  <2>2. items[n + 1 - i] = Apply(filled, i)
    BY <2>1
  <2> QED
    BY <1>4, <2>1, <2>2 DEF Range
<1>6. /\ top \in Seq(WorkItems)
      /\ Range(top) = Range(items) \cup Range(<<MergeEffects(filled)>>)
  <2> DEFINE one == <<MergeEffects(filled)>>
  <2>1. one \in Seq(WorkItems)
    BY <1>3
  <2> HIDE DEF items, one
  <2>2. items \o one \in Seq(WorkItems) /\ Range(items \o one) = Range(items) \cup Range(one)
    BY <1>4, <2>1, RangeConcat
  <2> QED
    BY <2>2 DEF one
<1>7. /\ queue' \in Seq(WorkItems)
      /\ Range(queue') = Range(top) \cup Range(queue)
  <2> HIDE DEF top
  <2> QED
    BY <1>1, <1>2, <1>6, RangeConcat
<1>8. /\ MergeEffects(filled) \in Range(queue')
      /\ \A i \in Indices(filled) : Apply(filled, i) \in Range(queue')
  <2>1. MergeEffects(filled) \in Range(<<MergeEffects(filled)>>)
    BY DEF Range
  <2> HIDE DEF top, items
  <2> QED
    BY <1>2, <1>5, <1>6, <1>7, <2>1
<1>9. /\ Blocks' = Blocks /\ WorkItems' = WorkItems
      /\ \A b : MergeEffects(b)' = MergeEffects(b) /\ Indices(b)' = Indices(b)
      /\ \A b, i : Apply(b, i)' = Apply(b, i)
  BY <1>1 DEF Blocks, WorkItems, MergeEffects, Indices, Apply, ApplyTerminatorEffects,
              ApplyStatementEffects
<1>10. \A b \in Blocks : b < filled + 1 =>
         /\ MergeEffects(b) \in Range(queue')
         /\ \A i \in Indices(b) : Apply(b, i) \in Range(queue')
  <2> SUFFICES ASSUME NEW b \in Blocks, b < filled + 1
               PROVE  /\ MergeEffects(b) \in Range(queue')
                      /\ \A i \in Indices(b) : Apply(b, i) \in Range(queue')
    OBVIOUS
  <2>1. b = filled \/ b < filled
    BY <1>2, BodyShape
  <2>2. CASE b < filled
    BY <1>1, <1>7, <2>2 DEF BlocksFilled
  <2> QED
    BY <1>8, <2>1, <2>2
<1>11. TypeOK'
  BY <1>1, <1>2, <1>7, <1>9 DEF TypeOK
<1>12. BlocksFilled'
  BY <1>1, <1>9, <1>10 DEF BlocksFilled
<1>13. filled' \notin Blocks => \A b \in Blocks : b < filled + 1
  BY <1>1, <1>2, BodyShape
<1> QED
  BY <1>1, <1>9, <1>10, <1>11, <1>12, <1>13 DEF IInv, WaitingOrSettled, Blocks

\* The set after index i of block b is computed again.
LEMMA ApplyOK ==
  ASSUME IInv, filled \notin Blocks, queue # <<>>,
         NEW b \in Blocks, NEW i \in Indices(b), Last(queue) = Apply(b, i),
         update_set_after_statement(b, i, Effect(b, i, SetBefore(b, i))),
         UNCHANGED <<body, filled, before_block>>, counter' \in Nat
  PROVE  IInv'
<1> DEFINE new == Effect(b, i, SetBefore(b, i))
           last == terminator_index(body, b)
           pushed == IF after_statement[b][i] = new THEN <<>> ELSE Followers(b, i)
<1>1. /\ TypeOK /\ WaitingOrSettled /\ body \in Bodies
      /\ queue \in Seq(WorkItems) /\ Blocks \subseteq Nat
      /\ last \in Nat /\ i \in 0 .. last
      /\ body' = body /\ filled' = filled /\ before_block' = before_block
  BY BodyShape DEF IInv, TypeOK, Indices
<1>2. /\ after_statement' = [after_statement EXCEPT ![b][i] = new]
      /\ queue' = Front(queue) \o pushed
  BY DEF update_set_after_statement
<1>3. /\ DOMAIN after_statement' = Blocks
      /\ \A c \in Blocks : DOMAIN after_statement'[c] = Indices(c)
      /\ \A c \in Blocks : \A j \in Indices(c) :
           after_statement'[c][j] = IF c = b /\ j = i THEN new ELSE after_statement[c][j]
  BY <1>1, <1>2 DEF TypeOK
<1>4. /\ Followers(b, i) \in Seq(WorkItems)
      /\ i < last => Apply(b, i + 1) \in Range(Followers(b, i))
      /\ i = last => \A c \in successors(body, b) : MergeEffects(c) \in Range(Followers(b, i))
  <2>1. CASE i < last
    <3>1. i + 1 \in Indices(b) /\ Followers(b, i) = <<Apply(b, i + 1)>>
      BY <1>1, <2>1 DEF Indices, Followers
    <3>2. Apply(b, i + 1) \in WorkItems
      BY <3>1 DEF WorkItems
    <3> QED
      BY <1>1, <2>1, <3>1, <3>2 DEF Range
  <2>2. CASE i = last
    <3> DEFINE next == successor_list(body, b)
    <3>1. next \in Seq(Blocks) /\ Range(next) = successors(body, b)
      BY <1>1, SuccessorList
    <3>2. Followers(b, i) = [j \in DOMAIN next |-> MergeEffects(next[j])]
      BY <1>1, <2>2 DEF Followers
    <3> HIDE DEF next
    <3>3. \A j \in DOMAIN next : MergeEffects(next[j]) \in WorkItems
      BY <3>1 DEF WorkItems
    <3>4. Followers(b, i) \in Seq(WorkItems)
      BY <3>1, <3>2, <3>3
    <3>5. \A c \in Range(next) : MergeEffects(c) \in Range(Followers(b, i))
      BY <3>2 DEF Range
    <3> QED
      BY <1>1, <2>2, <3>1, <3>4, <3>5
  <2> QED
    BY <1>1, <2>1, <2>2
<1>5. /\ pushed \in Seq(WorkItems)
      /\ after_statement[b][i] # new => pushed = Followers(b, i)
  BY <1>4
<1>6. /\ queue' \in Seq(WorkItems)
      /\ \A e \in Range(queue) : e # Apply(b, i) => e \in Range(queue')
      /\ Range(pushed) \subseteq Range(queue')
  <2> HIDE DEF pushed
  <2> QED
    BY <1>1, <1>2, <1>5, PopPush
<1>7. /\ Blocks' = Blocks /\ WorkItems' = WorkItems
      /\ \A c : MergeEffects(c)' = MergeEffects(c) /\ Indices(c)' = Indices(c)
      /\ \A c, j : Apply(c, j)' = Apply(c, j)
      /\ \A c, j, S : Effect(c, j, S)' = Effect(c, j, S)
  BY <1>1 DEF Blocks, WorkItems, MergeEffects, Indices, Apply, ApplyTerminatorEffects,
              ApplyStatementEffects, Effect, TerminatorEffect, StatementEffect
<1>8. TypeOK'
  BY <1>1, <1>3, <1>6, <1>7 DEF TypeOK
<1>9. BlocksFilled'
  BY <1>1, <1>7 DEF BlocksFilled
<1>10. ASSUME NEW c \in Blocks
       PROVE  MergeEffects(c) \in Range(queue') \/ before_block'[c] = Merged(c)'
  <2>1. CASE MergeEffects(c) \in Range(queue)
    <3>1. MergeEffects(c) # Apply(b, i)
      BY <1>1, ItemsDiffer
    <3> QED
      BY <1>6, <2>1, <3>1
  <2>2. CASE MergeEffects(c) \notin Range(queue)
    <3>1. before_block[c] = Merged(c)
      BY <1>1, <1>10, <2>2 DEF WaitingOrSettled, Blocks
    <3>2. CASE after_statement[b][i] # new /\ i = last /\ c \in successors(body, b)
      BY <1>4, <1>5, <1>6, <3>2
    <3>3. CASE ~(after_statement[b][i] # new /\ i = last /\ c \in successors(body, b))
      <4>1. ASSUME NEW p \in predecessors(body, c)
            PROVE  SetAfterBlock(p)' = SetAfterBlock(p)
        <5>1. p \in Blocks /\ c \in successors(body, p)
          BY <4>1 DEF predecessors, Blocks
        <5>2. terminator_index(body, p) \in Indices(p)
          BY <1>1, <5>1, BodyShape DEF Indices
        <5> QED
          BY <1>1, <1>3, <3>3, <5>1, <5>2 DEF SetAfterBlock
      <4>2. Merged(c)' = Merged(c)
        BY <1>1, <4>1 DEF Merged
      <4> QED
        BY <1>1, <3>1, <4>2
    <3> QED
      BY <3>2, <3>3
  <2> QED
    BY <2>1, <2>2
<1>11. ASSUME NEW c \in Blocks, NEW j \in Indices(c)
       PROVE  \/ Apply(c, j) \in Range(queue')
              \/ after_statement'[c][j] = Effect(c, j, SetBefore(c, j)')
  <2>0. j \in Nat /\ j \in 0 .. terminator_index(body, c) /\ terminator_index(body, c) \in Nat
    BY <1>1, <1>11, BodyShape DEF Indices
  <2>1. CASE c = b /\ j = i
    <3>1. SetBefore(b, i)' = SetBefore(b, i)
      <4>1. i # 0 => i - 1 \in Indices(b) /\ i - 1 # i
        BY <1>1 DEF Indices
      <4> QED
        BY <1>1, <1>3, <4>1 DEF SetBefore
    <3> QED
      BY <1>3, <2>1, <3>1
  <2>2. CASE ~(c = b /\ j = i) /\ Apply(c, j) \in Range(queue)
    BY <1>1, <1>6, <2>2, ItemsDiffer
  <2>3. CASE ~(c = b /\ j = i) /\ Apply(c, j) \notin Range(queue)
    <3>1. after_statement[c][j] = Effect(c, j, SetBefore(c, j))
      BY <1>1, <1>11, <2>3 DEF WaitingOrSettled, Blocks
    <3>2. CASE c = b /\ j = i + 1 /\ after_statement[b][i] # new
      <4>1. i < last
        BY <1>1, <2>0, <3>2
      <4> QED
        BY <1>4, <1>5, <1>6, <3>2, <4>1
    <3>3. CASE ~(c = b /\ j = i + 1 /\ after_statement[b][i] # new)
      <4>1. j # 0 => j - 1 \in Indices(c)
        BY <2>0 DEF Indices
      <4>2. SetBefore(c, j)' = SetBefore(c, j)
        <5>1. CASE j = 0
          BY <1>1, <5>1 DEF SetBefore
        <5>2. CASE j # 0
          <6>1. after_statement'[c][j - 1] = after_statement[c][j - 1]
            BY <1>1, <1>3, <2>0, <3>3, <4>1, <5>2
          <6> QED
            BY <5>2, <6>1 DEF SetBefore
        <5> QED
          BY <5>1, <5>2
      <4> QED
        BY <1>3, <2>3, <3>1, <4>2
    <3> QED
      BY <3>2, <3>3
  <2> QED
    BY <2>1, <2>2, <2>3
<1> QED
  BY <1>7, <1>8, <1>9, <1>10, <1>11 DEF IInv, WaitingOrSettled, Blocks

\* The set before block b is computed again.
LEMMA MergeOK ==
  ASSUME IInv, filled \notin Blocks, queue # <<>>, NEW b \in Blocks,
         Last(queue) = MergeEffects(b), merge_effects
  PROVE  IInv'
<1> DEFINE pushed == IF before_block[b] = Merged(b) THEN <<>> ELSE <<Apply(b, 0)>>
<1>1. /\ TypeOK /\ WaitingOrSettled /\ body \in Bodies
      /\ queue \in Seq(WorkItems)
      /\ body' = body /\ filled' = filled /\ after_statement' = after_statement
      /\ counter' \in Nat
  BY DEF IInv, TypeOK, merge_effects, Pop
<1>2. /\ before_block' = [before_block EXCEPT ![b] = Merged(b)]
      /\ queue' = Front(queue) \o pushed
  BY DEF merge_effects, MergeEffects
<1>3. /\ DOMAIN before_block' = Blocks
      /\ \A c \in Blocks : before_block'[c] = IF c = b THEN Merged(b) ELSE before_block[c]
  BY <1>1, <1>2 DEF TypeOK
<1>4. /\ pushed \in Seq(WorkItems)
      /\ before_block[b] # Merged(b) => Apply(b, 0) \in Range(pushed)
  <2>1. Apply(b, 0) \in WorkItems
    BY <1>1, BodyShape DEF WorkItems, Indices
  <2> QED
    BY <2>1 DEF Range
<1>5. /\ queue' \in Seq(WorkItems)
      /\ \A e \in Range(queue) : e # MergeEffects(b) => e \in Range(queue')
      /\ Range(pushed) \subseteq Range(queue')
  <2> HIDE DEF pushed
  <2> QED
    BY <1>1, <1>2, <1>4, PopPush
<1>6. /\ Blocks' = Blocks /\ WorkItems' = WorkItems
      /\ \A c : /\ MergeEffects(c)' = MergeEffects(c) /\ Indices(c)' = Indices(c)
               /\ Merged(c)' = Merged(c)
      /\ \A c, j : Apply(c, j)' = Apply(c, j)
      /\ \A c, j, S : Effect(c, j, S)' = Effect(c, j, S)
  BY <1>1 DEF Blocks, WorkItems, MergeEffects, Indices, Apply, ApplyTerminatorEffects, Merged,
              SetAfterBlock, ApplyStatementEffects, Effect, TerminatorEffect, StatementEffect
<1>7. TypeOK'
  BY <1>1, <1>3, <1>5, <1>6 DEF TypeOK
<1>8. BlocksFilled'
  BY <1>1, <1>6 DEF BlocksFilled
<1>9. ASSUME NEW c \in Blocks
      PROVE  MergeEffects(c) \in Range(queue') \/ before_block'[c] = Merged(c)
  <2>1. CASE c = b
    BY <1>3, <2>1
  <2>2. CASE c # b
    <3>1. MergeEffects(c) # MergeEffects(b)
      BY <2>2 DEF MergeEffects
    <3>2. MergeEffects(c) \in Range(queue) \/ before_block[c] = Merged(c)
      BY <1>1 DEF WaitingOrSettled, Blocks
    <3> QED
      BY <1>3, <1>5, <2>2, <3>1, <3>2
  <2> QED
    BY <2>1, <2>2
<1>10. ASSUME NEW c \in Blocks, NEW j \in Indices(c)
       PROVE  \/ Apply(c, j) \in Range(queue')
              \/ after_statement'[c][j] = Effect(c, j, SetBefore(c, j)')
  <2>1. CASE Apply(c, j) \in Range(queue)
    BY <1>1, <1>5, <2>1, ItemsDiffer
  <2>2. CASE Apply(c, j) \notin Range(queue)
    <3>1. after_statement[c][j] = Effect(c, j, SetBefore(c, j))
      BY <1>1, <1>10, <2>2 DEF WaitingOrSettled, Blocks
    <3>2. CASE c = b /\ j = 0 /\ before_block[b] # Merged(b)
      BY <1>4, <1>5, <3>2
    <3>3. CASE ~(c = b /\ j = 0 /\ before_block[b] # Merged(b))
      <4>1. SetBefore(c, j)' = SetBefore(c, j)
        BY <1>1, <1>3, <3>3 DEF SetBefore
      <4> QED
        BY <1>1, <3>1, <4>1
    <3> QED
      BY <3>2, <3>3
  <2> QED
    BY <2>1, <2>2
<1> QED
  BY <1>6, <1>7, <1>8, <1>9, <1>10 DEF IInv, WaitingOrSettled, Blocks

-----------------------------------------------------------------------------
\* The item on top of the stack, by its kind.
LEMMA TopItem ==
  ASSUME TypeOK, queue # <<>>
  PROVE  LET w == Last(queue) IN
           /\ w.block \in Blocks
           /\ w.op = "merge" => w = MergeEffects(w.block)
           /\ w.op # "merge" => w.index \in Indices(w.block) /\ w = Apply(w.block, w.index)
           /\ w.op = "statement" => w.index # terminator_index(body, w.block)
           /\ w.op = "terminator" => w.index = terminator_index(body, w.block)
<1>1. Last(queue) \in WorkItems
  BY PopPush DEF TypeOK
<1>2. PICK b \in Blocks : Last(queue) \in {MergeEffects(b)} \cup {Apply(b, i) : i \in Indices(b)}
  BY <1>1 DEF WorkItems
<1>3. CASE Last(queue) = MergeEffects(b)
  BY <1>3 DEF MergeEffects
<1>4. ASSUME NEW i \in Indices(b), Last(queue) = Apply(b, i)
      PROVE  LET w == Last(queue) IN
               /\ w.block = b /\ w.index = i /\ w.op # "merge"
               /\ w.op = "statement" => i # terminator_index(body, b)
               /\ w.op = "terminator" => i = terminator_index(body, b)
  BY <1>4 DEF Apply, ApplyTerminatorEffects, ApplyStatementEffects
<1> QED
  BY <1>2, <1>3, <1>4

\* Every work item keeps the invariant.
LEMMA NextOK == IInv /\ [Next]_vars => IInv'
<1> SUFFICES ASSUME IInv, [Next]_vars PROVE IInv'
  OBVIOUS
<1>0. TypeOK /\ counter \in Nat
  BY DEF IInv, TypeOK
<1>1. CASE propagate_work_queue
  BY <1>1, FillOK
<1>2. CASE apply_statement_effects
  <2>1. /\ filled \notin Blocks /\ queue # <<>> /\ Last(queue).op = "statement"
        /\ counter' \in Nat /\ UNCHANGED <<body, filled, before_block>>
    BY <1>0, <1>2 DEF apply_statement_effects, Pop, Blocks
  <2> DEFINE b == Last(queue).block
             i == Last(queue).index
  <2>2. /\ b \in Blocks /\ i \in Indices(b) /\ Last(queue) = Apply(b, i)
        /\ i # terminator_index(body, b)
    BY <1>0, <2>1, TopItem
  <2>3. update_set_after_statement(b, i, Effect(b, i, SetBefore(b, i)))
    BY <1>2, <2>2 DEF apply_statement_effects, Effect
  <2> HIDE DEF b, i
  <2> QED
    BY <2>1, <2>2, <2>3, ApplyOK
<1>3. CASE apply_terminator_effects
  <2>1. /\ filled \notin Blocks /\ queue # <<>> /\ Last(queue).op = "terminator"
        /\ counter' \in Nat /\ UNCHANGED <<body, filled, before_block>>
    BY <1>0, <1>3 DEF apply_terminator_effects, Pop, Blocks
  <2> DEFINE b == Last(queue).block
             i == Last(queue).index
  <2>2. /\ b \in Blocks /\ i \in Indices(b) /\ Last(queue) = Apply(b, i)
        /\ i = terminator_index(body, b)
    BY <1>0, <2>1, TopItem
  <2>3. update_set_after_statement(b, i, Effect(b, i, SetBefore(b, i)))
    BY <1>3, <2>2 DEF apply_terminator_effects, Effect
  <2> HIDE DEF b, i
  <2> QED
    BY <2>1, <2>2, <2>3, ApplyOK
<1>4. CASE merge_effects
  <2>1. filled \notin Blocks /\ queue # <<>> /\ Last(queue).op = "merge"
    BY <1>4 DEF merge_effects, Pop, Blocks
  <2>2. Last(queue).block \in Blocks /\ Last(queue) = MergeEffects(Last(queue).block)
    BY <1>0, <2>1, TopItem
  <2> QED
    BY <1>4, <2>1, <2>2, MergeOK
<1>5. CASE UNCHANGED vars
  <2>1. /\ body' = body /\ filled' = filled /\ queue' = queue /\ counter' = counter
        /\ before_block' = before_block /\ after_statement' = after_statement
    BY <1>5 DEF vars
  <2> QED
    BY <2>1 DEF IInv, TypeOK, BlocksFilled, WaitingOrSettled, Blocks, WorkItems, Indices, Apply,
      ApplyTerminatorEffects, ApplyStatementEffects, MergeEffects, Merged, SetAfterBlock, SetBefore,
      Effect, TerminatorEffect, StatementEffect
<1> QED
  BY <1>1, <1>2, <1>3, <1>4, <1>5 DEF Next

\* A point of the body whose work item is not on the stack of liveness.rs is
\* settled, for every body; when run() returns, the result solves the equations.
THEOREM NothingIsForgotten == Spec => []WaitingOrSettled
<1>1. IInv => WaitingOrSettled
  BY DEF IInv
<1> QED
  BY <1>1, InitOK, NextOK, PTL DEF Spec

-----------------------------------------------------------------------------
(* The result is exact. *)

\* The paths are those of the analysis of reaching definitions; of its variables they
\* use none.
R == INSTANCE ReachingDefinitionsProofs WITH
       work_set <- queue, state_before <- before_block, state_after_block <- after_statement,
       status <- counter

\* A path carries, of each variable, the assignment that it got its value from, unless
\* that was a DropAndReplace.
IsAssignment(d) ==
  d \notin {NoDefinition, Replacement} /\ d \notin {Parameter(j - 1) : j \in DOMAIN Args}
States == [Locals -> Definitions(body)]
Live(c) == {e \in Locals \X Definitions(body) : e[2] = c[e[1]] /\ IsAssignment(e[2])}
At(b, c) == Along(body, b, c, Exec)
GoesTo(b, c) == Onward(body, b, c, Exec, Leave, Unwind)

\* The concrete state after index i of block b; after the terminator on its normal edges.
Then(b, c, i) ==
  IF i = terminator_index(body, b)
  THEN Written(At(b, c)[i], body[b].terminator, <<b, i>>)
  ELSE At(b, c)[i + 1]

LEMMA SameReference ==
  ASSUME body \in Bodies
  PROVE  /\ R!ReachStates(body) = States
         /\ R!Entries(body) = Entries(body)
         /\ R!AllReachable(body) = AllReachable(body)
         /\ R!AtStart = AtStart /\ R!START_BLOCK = START_BLOCK
         /\ \A c, p, location : R!Define(c, p, location) = Define(c, p, location)
         /\ \A b : R!terminator_index(body, b) = terminator_index(body, b)
         /\ \A b, c : /\ R!States(body, b, c) = At(b, c)
                      /\ R!GoesTo(body, b, c) = GoesTo(b, c)
<1>1. \A s : R!Range(s) = Range(s)
  BY DEF R!Range, Range
<1>2. \A b : R!terminator_index(body, b) = terminator_index(body, b) /\ R!Unwinds(body, b) = Unwinds(body, b)
             /\ R!successors(body, b) = successors(body, b)
  BY <1>1 DEF R!terminator_index, terminator_index, R!Unwinds, Unwinds, R!NoBlock, NoBlock, R!successors, successors
<1>3. /\ R!NoDefinition = NoDefinition /\ R!Replacement = Replacement
      /\ \A i : R!Parameter(i) = Parameter(i)
  BY DEF R!NoDefinition, NoDefinition, R!Parameter, Parameter, R!Replacement, Replacement
<1>4. R!Definitions(body) = Definitions(body)
  BY <1>2, <1>3 DEF R!Definitions, Definitions
<1>5. \A x : R!ArgIndex(x) = ArgIndex(x)
  BY DEF R!ArgIndex, ArgIndex, R!SelectInSeq, SelectInSeq, R!Min, Min
<1>6. R!AtStart = AtStart
  BY <1>3, <1>5 DEF R!AtStart, AtStart
<1>7. \A c, p, location : R!Define(c, p, location) = Define(c, p, location)
  BY DEF R!Define, Define, R!IsLocal, IsLocal
<1>8. \A c, stmt, location :
        /\ R!Exec(c, stmt, location) = Exec(c, stmt, location)
        /\ R!Leave(c, stmt, location) = Leave(c, stmt, location)
        /\ R!Unwind(c, stmt, location) = Unwind(c, stmt, location)
  BY <1>3, <1>7 DEF R!Exec, Exec, R!Written, Written, R!Leave, Leave, R!Unwind, Unwind
<1>9. \A b, c : R!States(body, b, c) = At(b, c)
  BY <1>2, <1>8 DEF R!States, R!Along, Along, At
<1>10. \A b, c : R!GoesTo(body, b, c) = GoesTo(b, c)
  BY <1>1, <1>2, <1>8, <1>9 DEF R!GoesTo, GoesTo, R!Onward, Onward, At, R!States
<1>11. \A S0, next, U : R!Closure(S0, next, U) = Closure(S0, next, U)
  BY DEF R!Closure, Closure
<1>12. R!Entries(body) = Entries(body)
  BY <1>4, <1>6, <1>10, <1>11 DEF R!GoesTo, GoesTo, R!Entries, Entries, R!Entering, Entering, R!START_BLOCK, START_BLOCK
<1>13. R!AllReachable(body) = AllReachable(body) /\ R!START_BLOCK = START_BLOCK
  BY <1>2, <1>11 DEF R!AllReachable, AllReachable, R!ReachableFrom, ReachableFrom, R!START_BLOCK, START_BLOCK
<1> QED
  BY <1>2, <1>4, <1>6, <1>7, <1>9, <1>10, <1>12, <1>13 DEF R!ReachStates, States

\* What is used of the bodies and their paths.
LEMMA PathFacts ==
  ASSUME body \in Bodies
  PROVE  /\ START_BLOCK \in Blocks /\ AtStart \in States /\ Live(AtStart) = {}
         /\ Entries(body) \subseteq Blocks \X States
         /\ \A b \in Blocks : \A c \in States : GoesTo(b, c) \subseteq Blocks \X States
         /\ \A x \in Entries(body) : GoesTo(x[1], x[2]) \subseteq Entries(body)
         /\ \A C : (/\ <<START_BLOCK, AtStart>> \in C
                    /\ \A x \in C \cap (Blocks \X States) :
                         GoesTo(x[1], x[2]) \subseteq C)
                   => Entries(body) \subseteq C
         /\ AllReachable(body) => \A b \in Blocks : \E c \in States : <<b, c>> \in Entries(body)
         /\ \A b \in Blocks : \A c \in States :
              /\ At(b, c)[0] = c
              /\ \A i \in 1 .. terminator_index(body, b) :
                   At(b, c)[i] = Define(At(b, c)[i - 1], body[b].statements[i].target, <<b, i - 1>>)
              /\ \A i \in 0 .. terminator_index(body, b) : At(b, c)[i] \in States
<1>1. /\ R!IsFiniteSet(Locals) /\ Args \in Seq(Locals)
      /\ \A bdy \in Bodies : R!WellFormed(bdy) /\ R!AssignsLocals(bdy)
  <2>1. R!IsFiniteSet(Locals) /\ Args \in Seq(Locals)
    BY LivenessAssumption DEF R!IsFiniteSet, IsFiniteSet
  <2>2. \A s : R!Range(s) = Range(s) /\ R!IsSequence(s) = IsSequence(s)
    BY DEF R!Range, Range, R!IsSequence, IsSequence
  <2>3. \A bdy, b : R!successors(bdy, b) = successors(bdy, b)
    BY <2>2 DEF R!Unwinds, Unwinds, R!NoBlock, NoBlock, R!successors, successors
  <2>4. \A bdy : R!WellFormed(bdy) = WellFormed(bdy) /\ R!AssignsLocals(bdy) = AssignsLocals(bdy)
    BY <2>2, <2>3 DEF R!WellFormed, WellFormed, R!AssignsLocals, AssignsLocals, R!IsLocal, IsLocal
  <2> QED
    BY <2>1, <2>4, LivenessAssumption
<1>2. /\ R!Entries(body) \subseteq Blocks \X R!ReachStates(body)
      /\ \A x \in R!Entries(body) :
           R!GoesTo(body, x[1], x[2]) \subseteq R!Entries(body)
      /\ \A C : (/\ <<R!START_BLOCK, R!AtStart>> \in C
                 /\ \A x \in C \cap (Blocks \X R!ReachStates(body)) :
                      R!GoesTo(body, x[1], x[2]) \subseteq C)
                => R!Entries(body) \subseteq C
      /\ R!AllReachable(body) => \A b \in Blocks : \E c \in R!ReachStates(body) : <<b, c>> \in R!Entries(body)
  BY <1>1, R!PathFacts DEF Blocks
<1>3. ASSUME NEW b \in Blocks, NEW c \in States
      PROVE  /\ At(b, c)[0] = c
             /\ \A i \in 1 .. terminator_index(body, b) :
                  At(b, c)[i] = Define(At(b, c)[i - 1], body[b].statements[i].target, <<b, i - 1>>)
             /\ \A i \in 0 .. terminator_index(body, b) : At(b, c)[i] \in States
  <2>1. c \in R!ReachStates(body) /\ b \in DOMAIN body
    BY SameReference DEF Blocks
  <2>2. /\ R!States(body, b, c)[0] = c
        /\ \A i \in 1 .. R!terminator_index(body, b) :
             R!States(body, b, c)[i] =
               R!Exec(R!States(body, b, c)[i - 1], body[b].statements[i], <<b, i - 1>>)
        /\ \A i \in 0 .. R!terminator_index(body, b) : R!States(body, b, c)[i] \in R!ReachStates(body)
    BY <1>1, <2>1, R!PathFacts
  <2> QED
    BY <2>2, SameReference DEF R!Exec
<1>4. START_BLOCK \in Blocks /\ AtStart \in States
  <2>1. <<START_BLOCK, AtStart>> \in Blocks \X States
    BY <1>1, R!PathFacts, SameReference DEF Blocks
  <2> QED
    BY <2>1
<1>5. Live(AtStart) = {}
  <2> SUFFICES ASSUME NEW e \in Live(AtStart) PROVE FALSE
    OBVIOUS
  <2>1. e[1] \in Locals /\ e[2] = AtStart[e[1]] /\ IsAssignment(AtStart[e[1]])
    BY DEF Live
  <2>2. \/ AtStart[e[1]] = NoDefinition
        \/ ArgIndex(e[1]) # 0 /\ AtStart[e[1]] = Parameter(ArgIndex(e[1]) - 1)
    BY <2>1 DEF AtStart
  <2>3. ArgIndex(e[1]) # 0 => ArgIndex(e[1]) \in DOMAIN Args
    <3>1. R!ArgIndex(e[1]) # 0 => R!ArgIndex(e[1]) \in DOMAIN Args
      BY <1>1, R!ArgIndexFacts
    <3>2. R!ArgIndex(e[1]) = ArgIndex(e[1])
      BY DEF R!ArgIndex, ArgIndex, R!SelectInSeq, SelectInSeq, R!Min, Min
    <3> QED
      BY <3>1, <3>2
  <2> QED
    BY <2>1, <2>2, <2>3 DEF IsAssignment
<1>6. \A b \in Blocks : \A c \in R!ReachStates(body) : R!GoesTo(body, b, c) \subseteq Blocks \X R!ReachStates(body)
  BY <1>1, R!PathFacts DEF Blocks
<1> QED
  BY <1>2, <1>3, <1>4, <1>5, <1>6, SameReference

\* An assignment replaces what was live for the variable.
LEMMA DefineIsReplace ==
  ASSUME body \in Bodies, NEW b \in Blocks, NEW i \in Indices(b), NEW c \in States,
         NEW p, IsLocal(p) => p[1] \in Locals
  PROVE  /\ Define(c, p, <<b, i>>) \in States
         /\ Live(Define(c, p, <<b, i>>)) = replace_in_set(Live(c), p, <<b, i>>)
<1> DEFINE d == <<b, i>>
           new == Define(c, p, d)
<1>1. d \in Definitions(body) /\ IsAssignment(d)
  <2>1. b \in Nat /\ i \in Nat
    BY BodyShape DEF Indices
  <2>2. d \in Definitions(body)
    BY DEF Definitions, Blocks, Indices
  <2> QED
    BY <2>1, <2>2 DEF IsAssignment, NoDefinition, Parameter, Replacement
<1> HIDE DEF d
<1>2. CASE ~IsLocal(p)
  BY <1>2 DEF Define, replace_in_set, d
<1>3. CASE IsLocal(p)
  <2>1. new = [c EXCEPT ![p[1]] = d] /\ p[1] \in Locals
    BY <1>3 DEF Define
  <2>2. new \in States /\ \A x \in Locals : new[x] = IF x = p[1] THEN d ELSE c[x]
    BY <1>1, <2>1 DEF States
  <2> HIDE DEF new
  <2>3. \A e \in Locals \X Definitions(body) : e \in Live(new) <=>
          (e \in Live(c) /\ e[1] # p[1]) \/ e = <<p[1], d>>
    <3> TAKE e \in Locals \X Definitions(body)
    <3>1. e = <<e[1], e[2]>> /\ e[1] \in Locals
      OBVIOUS
    <3>2. CASE e[1] = p[1]
      <4>1. e \in Live(new) <=> e[2] = d
        BY <1>1, <2>2, <3>1, <3>2 DEF Live
      <4> QED
        BY <3>1, <3>2, <4>1
    <3>3. CASE e[1] # p[1]
      <4>1. e # <<p[1], d>>
        BY <3>3
      <4> QED
        BY <2>2, <3>1, <3>3, <4>1 DEF Live
    <3> QED
      BY <3>2, <3>3
  <2>4. <<p[1], d>> \in Locals \X Definitions(body)
    BY <1>1, <2>1
  <2>5. Live(new) \subseteq Locals \X Definitions(body) /\ Live(c) \subseteq Locals \X Definitions(body)
    BY DEF Live
  <2>6. Live(new) = {e \in Live(c) : e[1] # p[1]} \cup {<<p[1], d>>}
    BY <2>3, <2>4, <2>5
  <2> QED
    BY <1>3, <2>2, <2>6 DEF replace_in_set, d, new
<1> QED
  BY <1>2, <1>3

\* A path in state c has the value of the variable of e from e, or from a DropAndReplace.
Carries(c, e) == e \in Live(c) \/ (e[1] \in Locals /\ c[e[1]] = Replacement)

\* A DropAndReplace of p leaves the other variables alone.
LEMMA ReplaceFacts ==
  ASSUME body \in Bodies, NEW c \in States, NEW p, IsLocal(p) => p[1] \in Locals
  PROVE  /\ Define(c, p, Replacement) \in States
         /\ Live(Define(c, p, Replacement)) \subseteq Live(c)
         /\ \A e : Carries(c, e) => Carries(Define(c, p, Replacement), e)
<1> DEFINE new == Define(c, p, Replacement)
<1>1. CASE ~IsLocal(p)
  BY <1>1 DEF Define
<1>2. CASE IsLocal(p)
  <2>1. new = [c EXCEPT ![p[1]] = Replacement] /\ p[1] \in Locals /\ Replacement \in Definitions(body)
    BY <1>2 DEF Define, Definitions
  <2>2. new \in States /\ \A x \in Locals : new[x] = IF x = p[1] THEN Replacement ELSE c[x]
    BY <2>1 DEF States
  <2> HIDE DEF new
  <2>3. ASSUME NEW e \in Live(new) PROVE e \in Live(c)
    BY <2>2 DEF Live, IsAssignment
  <2>4. ASSUME NEW e, Carries(c, e) PROVE Carries(new, e)
    <3>1. e[1] \in Locals
      BY <2>4 DEF Carries, Live
    <3> QED
      BY <2>2, <2>4, <3>1 DEF Carries, Live
  <2> QED
    BY <2>2, <2>3, <2>4 DEF new
<1> QED
  BY <1>1, <1>2

\* Along a path: what is live after a point is among the effect of the point on what was
\* live before; what the point leaves in a set, the path carries if it did before, or if it
\* was not in the set before.
LEMMA PathEffect ==
  ASSUME body \in Bodies, NEW b \in Blocks, NEW c \in States, NEW i \in Indices(b)
  PROVE  /\ Then(b, c, i) \in States
         /\ Live(Then(b, c, i)) \subseteq Effect(b, i, Live(At(b, c)[i]))
         /\ \A S : \A e \in Effect(b, i, S) :
              (e \in S => Carries(At(b, c)[i], e)) => Carries(Then(b, c, i), e)
<1> DEFINE last == terminator_index(body, b)
           t == body[b].terminator
           here == At(b, c)[i]
<1>1. last \in Nat /\ i \in 0 .. last
  BY BodyShape DEF Indices
<1>2. here \in States
  BY <1>1, PathFacts
<1>3. AssignsLocals(body) /\ WellFormed(body)
  BY LivenessAssumption
\* an assignment of the code's
<1>4. ASSUME NEW p, IsLocal(p) => p[1] \in Locals, NEW new, new = Define(here, p, <<b, i>>),
             \A S : Effect(b, i, S) = replace_in_set(S, p, <<b, i>>)
      PROVE  /\ new \in States /\ Live(new) \subseteq Effect(b, i, Live(here))
             /\ \A S : \A e \in Effect(b, i, S) : (e \in S => Carries(here, e)) => Carries(new, e)
  <2>1. new \in States /\ Live(new) = replace_in_set(Live(here), p, <<b, i>>)
    BY <1>2, <1>4, DefineIsReplace
  <2>2. ASSUME NEW S, NEW e \in Effect(b, i, S), e \in S => Carries(here, e) PROVE Carries(new, e)
    <3>1. CASE IsLocal(p) /\ e = <<p[1], <<b, i>>>>
      BY <2>1, <3>1 DEF replace_in_set, Carries
    <3>2. CASE ~(IsLocal(p) /\ e = <<p[1], <<b, i>>>>)
      <4>1. e \in S /\ (IsLocal(p) => e[1] # p[1]) /\ Carries(here, e)
        BY <1>4, <2>2, <3>2 DEF replace_in_set
      <4>2. CASE e \in Live(here)
        BY <2>1, <4>1, <4>2 DEF replace_in_set, Carries
      <4>3. CASE e[1] \in Locals /\ here[e[1]] = Replacement
        <5>1. new[e[1]] = Replacement
          BY <1>2, <1>4, <4>1, <4>3 DEF Define, States
        <5> QED
          BY <4>3, <5>1 DEF Carries
      <4> QED
        BY <4>1, <4>2, <4>3 DEF Carries
    <3> QED
      BY <3>1, <3>2
  <2> QED
    BY <1>4, <2>1, <2>2
<1>5. CASE i = last
  <2>1. IsLocal(t.place) => t.place[1] \in Locals
    BY <1>3 DEF AssignsLocals, Blocks
  <2>2. \A S : Effect(b, i, S) = IF t.kind = "Call" THEN replace_in_set(S, t.place, <<b, i>>) ELSE S
    BY <1>5 DEF Effect, TerminatorEffect
  <2>3. Then(b, c, i) = Written(here, t, <<b, i>>)
    BY <1>5 DEF Then
  <2> HIDE DEF here
  <2>4. CASE t.kind = "Call"
    <3>1. Then(b, c, i) = Define(here, t.place, <<b, i>>)
      BY <2>3, <2>4 DEF Written
    <3>2. \A S : Effect(b, i, S) = replace_in_set(S, t.place, <<b, i>>)
      BY <2>2, <2>4
    <3> QED
      BY <1>4, <2>1, <3>1, <3>2 DEF here
  <2>5. CASE t.kind = "DropAndReplace"
    <3>1. Then(b, c, i) = Define(here, t.place, Replacement)
      BY <2>3, <2>5 DEF Written
    <3> QED
      BY <1>2, <2>1, <2>2, <2>5, <3>1, ReplaceFacts DEF here
  <2>6. CASE t.kind \notin {"Call", "DropAndReplace"}
    <3>1. Then(b, c, i) = here
      BY <2>3, <2>6 DEF Written
    <3> QED
      BY <1>2, <2>2, <2>6, <3>1 DEF here
  <2> QED
    BY <2>4, <2>5, <2>6
<1>6. CASE i # last
  <2> DEFINE p == body[b].statements[i + 1].target
  <2>1. i + 1 \in 1 .. last /\ (i + 1) - 1 = i
    BY <1>1, <1>6
  <2>2. i + 1 \in DOMAIN body[b].statements
    BY <1>3, <2>1 DEF WellFormed, Blocks, IsSequence, terminator_index
  <2>3. IsLocal(p) => p[1] \in Locals
    BY <1>3, <2>2 DEF AssignsLocals, Blocks
  <2>4. Then(b, c, i) = Define(here, p, <<b, i>>)
    <3>1. At(b, c)[i + 1] = Define(At(b, c)[(i + 1) - 1], p, <<b, (i + 1) - 1>>)
      BY <2>1, PathFacts
    <3> QED
      BY <1>6, <2>1, <3>1 DEF Then
  <2>5. \A S : Effect(b, i, S) = replace_in_set(S, p, <<b, i>>)
    BY <1>6 DEF Effect, StatementEffect
  <2> HIDE DEF here, p
  <2> QED
    BY <1>4, <2>3, <2>4, <2>5 DEF here
<1> QED
  BY <1>5, <1>6

\* A terminator leads to a clean block only from a clean one, on a normal edge.
N == INSTANCE MirProofs WITH Step <- Exec
LEMMA CleanFacts ==
  ASSUME body \in Bodies, NEW b \in Blocks
  PROVE  /\ Clean(body) \subseteq Blocks
         /\ successors(body, b) \cap Clean(body) # {} => b \in Clean(body)
         /\ Unwinds(body, b) \cap Clean(body) = {}
<1>1. \A s : N!Range(s) = Range(s) /\ N!IsSequence(s) = IsSequence(s)
  BY DEF N!Range, Range, N!IsSequence, IsSequence
<1>2. \A p : N!Unwinds(body, p) = Unwinds(body, p) /\ N!successors(body, p) = successors(body, p)
  BY <1>1 DEF N!Unwinds, Unwinds, N!NoBlock, NoBlock, N!successors, successors
<1>3. \A S0, next, U : N!Closure(S0, next, U) = Closure(S0, next, U)
  BY DEF N!Closure, Closure
<1>4. N!Clean(body) = Clean(body)
  BY <1>2, <1>3 DEF N!Clean, Clean, N!ReachableFrom, ReachableFrom
<1>5. N!WellFormed(body)
  BY <1>1, <1>2, LivenessAssumption DEF N!WellFormed, WellFormed
<1> QED
  BY <1>2, <1>4, <1>5, N!CleanFacts DEF Blocks

\* Where a path goes from block b.
LEMMA GoesToFacts ==
  ASSUME body \in Bodies, NEW b \in Blocks, NEW c
  PROVE  \E D : GoesTo(b, c) = (Range(body[b].terminator.targets) \X {Then(b, c, terminator_index(body, b))})
                                 \cup (Unwinds(body, b) \X D)
<1> DEFINE last == terminator_index(body, b)
           t == body[b].terminator
           end == At(b, c)[last]
<1>1. GoesTo(b, c) = (Range(t.targets) \X Leave(end, t, <<b, last>>))
                       \cup (Unwinds(body, b) \X Unwind(end, t, <<b, last>>))
  BY DEF GoesTo, Onward, At
<1>2. Leave(end, t, <<b, last>>) = {Then(b, c, last)}
  BY DEF Leave, Then
<1> QED
  BY <1>1, <1>2

\* The effect of a point is monotonic.
LEMMA EffectFacts ==
  ASSUME NEW b, NEW i, NEW S, NEW T, S \subseteq T
  PROVE  Effect(b, i, S) \subseteq Effect(b, i, T)
  BY DEF Effect, TerminatorEffect, StatementEffect, replace_in_set

\* The concrete states in which paths enter block b.
EnteredWith(b) == {c \in States : <<b, c>> \in Entries(body)}

\* What the analysis has found so far is carried by a path, or has been replaced on one.
Carried ==
  AllReachable(body) =>
    \A b \in Clean(body) :
      /\ \A e \in before_block[b] : \E c \in EnteredWith(b) : Carries(c, e)
      /\ \A i \in Indices(b) : \A e \in after_statement[b][i] :
           \E c \in EnteredWith(b) : Carries(Then(b, c, i), e)

\* Hence, what it has found before each point.
LEMMA BeforeIsCarried ==
  ASSUME body \in Bodies, AllReachable(body), Carried, NEW b \in Clean(body), NEW i \in Indices(b),
         NEW e \in SetBefore(b, i)
  PROVE  \E c \in EnteredWith(b) : Carries(At(b, c)[i], e)
<1>1. b \in Blocks /\ terminator_index(body, b) \in Nat /\ i \in 0 .. terminator_index(body, b)
  BY BodyShape DEF Indices, Clean, Blocks
<1>2. CASE i = 0
  <2>1. \A c \in EnteredWith(b) : At(b, c)[0] = c
    BY <1>1, PathFacts DEF EnteredWith
  <2> QED
    BY <1>2, <2>1 DEF SetBefore, Carried
<1>3. CASE i # 0
  <2>1. i - 1 \in Indices(b) /\ i - 1 # terminator_index(body, b) /\ (i - 1) + 1 = i
    BY <1>1, <1>3 DEF Indices
  <2>2. \A c \in EnteredWith(b) : Then(b, c, i - 1) = At(b, c)[i]
    BY <2>1 DEF Then
  <2>3. \A x \in after_statement[b][i - 1] : \E c \in EnteredWith(b) : Carries(Then(b, c, i - 1), x)
    BY <2>1 DEF Carried
  <2> QED
    BY <1>3, <2>2, <2>3 DEF SetBefore
<1> QED
  BY <1>2, <1>3

\* So is what it finds at a point from there.
LEMMA EffectIsCarried ==
  ASSUME body \in Bodies, AllReachable(body), Carried, NEW b \in Clean(body), NEW i \in Indices(b),
         NEW e \in Effect(b, i, SetBefore(b, i))
  PROVE  \E c \in EnteredWith(b) : Carries(Then(b, c, i), e)
<1>1. b \in Blocks /\ \A c \in EnteredWith(b) : c \in States
  BY DEF Clean, Blocks, EnteredWith
<1>2. PICK c \in EnteredWith(b) : e \in SetBefore(b, i) => Carries(At(b, c)[i], e)
  <2>1. \E c \in EnteredWith(b) : TRUE
    BY <1>1, PathFacts DEF EnteredWith
  <2>2. e \in SetBefore(b, i) => \E c \in EnteredWith(b) : Carries(At(b, c)[i], e)
    BY BeforeIsCarried
  <2> QED
    BY <2>1, <2>2
<1> QED
  BY <1>1, <1>2, PathEffect

\* And what it merges.
LEMMA MergedIsCarried ==
  ASSUME body \in Bodies, AllReachable(body), Carried, NEW b \in Clean(body), NEW e \in Merged(b)
  PROVE  \E c \in EnteredWith(b) : Carries(c, e)
<1>1. PICK p \in predecessors(body, b) : e \in SetAfterBlock(p)
  BY DEF Merged
<1> DEFINE last == terminator_index(body, p)
<1>2. p \in Blocks /\ b \in successors(body, p) /\ last \in Nat /\ last \in Indices(p)
  BY <1>1, BodyShape DEF predecessors, Blocks, Indices
<1>3. p \in Clean(body) /\ b \in Range(body[p].terminator.targets)
  BY <1>2, CleanFacts DEF successors
<1>4. PICK c \in EnteredWith(p) : Carries(Then(p, c, last), e)
  BY <1>1, <1>2, <1>3 DEF Carried, SetAfterBlock
<1>5. c \in States /\ <<p, c>> \in Entries(body) /\ <<p, c>>[1] = p /\ <<p, c>>[2] = c
  BY <1>4 DEF EnteredWith
<1>6. <<b, Then(p, c, last)>> \in GoesTo(p, c)
  BY <1>2, <1>3, GoesToFacts
<1>7. <<b, Then(p, c, last)>> \in Entries(body)
  BY <1>5, <1>6, PathFacts
<1>8. Then(p, c, last) \in States
  BY <1>2, <1>5, PathEffect
<1> QED
  BY <1>4, <1>7, <1>8 DEF EnteredWith

\* What the paths carry depends on the body alone.
LEMMA PathsUnchanged ==
  ASSUME body' = body
  PROVE  /\ AllReachable(body)' = AllReachable(body) /\ Clean(body)' = Clean(body)
         /\ \A b : Indices(b)' = Indices(b) /\ EnteredWith(b)' = EnteredWith(b)
         /\ \A c : Live(c)' = Live(c)
         /\ \A c, e : Carries(c, e)' = Carries(c, e)
         /\ \A b, c, i : Then(b, c, i)' = Then(b, c, i)
  BY DEF Indices, EnteredWith, States, Live, Carries, Then, At

LEMMA NextCarried == IInv /\ Carried /\ [Next]_vars => Carried'
<1> SUFFICES ASSUME IInv, Carried, [Next]_vars, AllReachable(body)', NEW b \in Clean(body)'
             PROVE  /\ \A e \in before_block'[b] : \E c \in EnteredWith(b)' : Carries(c, e)'
                    /\ \A i \in Indices(b)' : \A e \in after_statement'[b][i] :
                         \E c \in EnteredWith(b)' : Carries(Then(b, c, i), e)'
  BY DEF Carried
<1>1. body' = body /\ body \in Bodies /\ TypeOK
  BY DEF Next, vars, propagate_work_queue, apply_statement_effects, apply_terminator_effects,
     merge_effects, IInv, TypeOK
<1>2. AllReachable(body) /\ b \in Clean(body) /\ b \in Blocks
  BY <1>1 DEF Clean, Blocks
<1> SUFFICES /\ \A e \in before_block'[b] : \E c \in EnteredWith(b) : Carries(c, e)
             /\ \A i \in Indices(b) : \A e \in after_statement'[b][i] :
                  \E c \in EnteredWith(b) : Carries(Then(b, c, i), e)
  BY <1>1, PathsUnchanged
<1>3. /\ \A e \in before_block[b] : \E c \in EnteredWith(b) : Carries(c, e)
      /\ \A i \in Indices(b) : \A e \in after_statement[b][i] :
           \E c \in EnteredWith(b) : Carries(Then(b, c, i), e)
  BY <1>2 DEF Carried
<1>4. ASSUME NEW q \in Blocks, NEW k \in Indices(q), before_block' = before_block,
             after_statement' = [after_statement EXCEPT ![q][k] = Effect(q, k, SetBefore(q, k))]
      PROVE  /\ \A e \in before_block'[b] : \E c \in EnteredWith(b) : Carries(c, e)
             /\ \A i \in Indices(b) : \A e \in after_statement'[b][i] :
                  \E c \in EnteredWith(b) : Carries(Then(b, c, i), e)
  <2>1. \A i \in Indices(b) : after_statement'[b][i] =
          IF b = q /\ i = k THEN Effect(q, k, SetBefore(q, k)) ELSE after_statement[b][i]
    BY <1>1, <1>2, <1>4 DEF TypeOK
  <2>2. b = q => \A e \in Effect(q, k, SetBefore(q, k)) : \E c \in EnteredWith(b) : Carries(Then(b, c, k), e)
    BY <1>1, <1>2, <1>4, EffectIsCarried
  <2> QED
    BY <1>3, <1>4, <2>1, <2>2
<1>5. CASE apply_statement_effects \/ apply_terminator_effects
  <2> DEFINE q == Last(queue).block
             k == Last(queue).index
  <2>1. /\ queue # <<>> /\ before_block' = before_block
        /\ Last(queue).op \in {"statement", "terminator"}
    BY <1>5 DEF apply_statement_effects, apply_terminator_effects, Pop
  <2>2. /\ q \in Blocks /\ k \in Indices(q)
        /\ Last(queue).op = "statement" => k # terminator_index(body, q)
        /\ Last(queue).op = "terminator" => k = terminator_index(body, q)
    BY <1>1, <2>1, TopItem
  <2>3. after_statement' = [after_statement EXCEPT ![q][k] = Effect(q, k, SetBefore(q, k))]
    BY <1>5, <2>2 DEF apply_statement_effects, apply_terminator_effects, Pop, update_set_after_statement, Effect
  <2> HIDE DEF q, k
  <2> QED
    BY <1>4, <2>1, <2>2, <2>3
<1>6. CASE merge_effects
  <2> DEFINE q == Last(queue).block
  <2>1. /\ queue # <<>> /\ after_statement' = after_statement
        /\ before_block' = [before_block EXCEPT ![q] = Merged(q)]
    BY <1>6 DEF merge_effects, Pop
  <2>2. before_block'[b] = IF b = q THEN Merged(q) ELSE before_block[b]
    BY <1>1, <1>2, <2>1 DEF TypeOK
  <2>3. b = q => \A e \in Merged(q) : \E c \in EnteredWith(b) : Carries(c, e)
    BY <1>1, <1>2, MergedIsCarried
  <2> HIDE DEF q
  <2> QED
    BY <1>3, <2>1, <2>2, <2>3
<1>7. CASE propagate_work_queue \/ UNCHANGED vars
  <2>1. before_block' = before_block /\ after_statement' = after_statement
    BY <1>7 DEF propagate_work_queue, vars
  <2> QED
    BY <1>3, <2>1
<1> QED
  BY <1>5, <1>6, <1>7 DEF Next

\* When the stack is empty, nothing that a path carries to a clean block is missing.
LEMMA NothingMissing ==
  ASSUME IInv, Done, NEW b \in Clean(body), NEW c \in EnteredWith(b), NEW i \in Indices(b)
  PROVE  Live(At(b, c)[i]) \subseteq SetBefore(b, i)
<1>1. body \in Bodies
  BY DEF IInv, TypeOK
<1>2. /\ \A q \in Blocks : before_block[q] = Merged(q)
      /\ \A q \in Blocks : \A k \in Indices(q) : after_statement[q][k] = Effect(q, k, SetBefore(q, k))
  <2>1. filled \notin DOMAIN body /\ Range(queue) = {}
    BY DEF Done, Range
  <2> QED
    BY <2>1 DEF IInv, WaitingOrSettled, Blocks
\* within a block
<1>3. ASSUME NEW q \in Blocks, NEW d \in States, Live(d) \subseteq before_block[q], NEW k \in Indices(q)
      PROVE  Live(At(q, d)[k]) \subseteq SetBefore(q, k) /\ Live(Then(q, d, k)) \subseteq after_statement[q][k]
  <2> DEFINE last == terminator_index(body, q)
             G == {j \in 0 .. last : Live(At(q, d)[j]) \subseteq SetBefore(q, j)}
  <2>1. last \in Nat /\ Indices(q) = 0 .. last
    BY <1>1, BodyShape DEF Indices
  <2>2. \A j \in 0 .. last : Live(Then(q, d, j)) \subseteq Effect(q, j, Live(At(q, d)[j]))
    BY <1>1, <2>1, PathEffect
  <2>3. \A j \in G : Live(Then(q, d, j)) \subseteq after_statement[q][j]
    BY <1>2, <2>1, <2>2, EffectFacts
  <2>4. 0 \in G
    <3>1. At(q, d)[0] = d
      BY <1>1, PathFacts
    <3> QED
      BY <1>3, <2>1, <3>1 DEF SetBefore
  <2>5. ASSUME NEW j \in 0 .. last - 1, j \in G PROVE j + 1 \in G
    <3>1. j # last /\ j + 1 \in 0 .. last /\ (j + 1) - 1 = j /\ j + 1 # 0
      BY <2>1
    <3>2. Then(q, d, j) = At(q, d)[j + 1] /\ SetBefore(q, j + 1) = after_statement[q][j]
      BY <3>1 DEF Then, SetBefore
    <3> QED
      BY <2>3, <2>5, <3>1, <3>2
  <2> HIDE DEF G
  <2>6. 0 .. last \subseteq G
    BY <2>1, <2>4, <2>5, N!IndexInduction
  <2>7. k \in G
    BY <2>1, <2>6
  <2> QED
    BY <2>3, <2>7 DEF G
\* from block to block
<1> DEFINE Good == {x \in Blocks \X States : x[1] \in Clean(body) => Live(x[2]) \subseteq before_block[x[1]]}
<1>7. <<START_BLOCK, AtStart>> \in Good
  BY <1>1, PathFacts
<1>8. ASSUME NEW x \in Good PROVE GoesTo(x[1], x[2]) \subseteq Good
  <2> DEFINE q == x[1]
             d == x[2]
             last == terminator_index(body, q)
  <2>1. q \in Blocks /\ d \in States /\ last \in Nat /\ last \in Indices(q)
    BY <1>1, BodyShape DEF Indices
  <2>2. PICK D : GoesTo(q, d) = (Range(body[q].terminator.targets) \X {Then(q, d, last)}) \cup (Unwinds(body, q) \X D)
    BY <1>1, <2>1, GoesToFacts
  <2>3. GoesTo(q, d) \subseteq Blocks \X States
    BY <1>1, <2>1, PathFacts
  <2>4. ASSUME NEW y \in GoesTo(q, d), y[1] \in Clean(body) PROVE Live(y[2]) \subseteq before_block[y[1]]
    <3>1. y[1] \in Blocks
      BY <2>3
    <3>2. y[1] \notin Unwinds(body, q)
      BY <1>1, <2>1, <2>4, CleanFacts
    <3>3. y[1] \in Range(body[q].terminator.targets) /\ y[2] = Then(q, d, last)
      BY <2>2, <2>4, <3>2
    <3>4. y[1] \in successors(body, q)
      BY <3>3 DEF successors
    <3>5. q \in Clean(body)
      BY <1>1, <2>1, <2>4, <3>4, CleanFacts
    <3>6. Live(d) \subseteq before_block[q]
      BY <1>8, <3>5
    <3>7. Live(Then(q, d, last)) \subseteq after_statement[q][last]
      BY <1>3, <2>1, <3>6
    <3>8. after_statement[q][last] \subseteq Merged(y[1])
      BY <2>1, <3>4 DEF Merged, predecessors, SetAfterBlock, Blocks
    <3> QED
      BY <1>2, <3>1, <3>3, <3>7, <3>8
  <2> QED
    BY <2>3, <2>4
<1>9. Entries(body) \subseteq Good
  <2> HIDE DEF Good
  <2> QED
    BY <1>1, <1>7, <1>8, PathFacts
<1>10. b \in Blocks /\ c \in States /\ Live(c) \subseteq before_block[b]
  <2>1. <<b, c>> \in Good
    BY <1>9 DEF EnteredWith
  <2> QED
    BY <2>1
<1> QED
  BY <1>3, <1>10

\* The reference, by what the paths carry.
LEMMA LiveAssignmentsFacts ==
  ASSUME body \in Bodies, NEW b \in Blocks, NEW i \in Indices(b), NEW v \in Locals
  PROVE  /\ \A d \in LiveAssignments(b, i, v) \ {Replacement} :
              \E c \in EnteredWith(b) : <<v, d>> \in Live(At(b, c)[i])
         /\ \A c \in EnteredWith(b) : \A d :
              /\ <<v, d>> \in Live(At(b, c)[i]) => d \in LiveAssignments(b, i, v)
              /\ At(b, c)[i][v] = Replacement => Replacement \in LiveAssignments(b, i, v)
<1> DEFINE Parameters == {Parameter(j - 1) : j \in DOMAIN Args}
           D(c) == At(b, c)[i][v]
<1>1. Entries(body) \subseteq Blocks \X States /\ \A c \in States : At(b, c)[i] \in States
  BY PathFacts DEF Indices
<1>2. Reaching(body, b, i, v) = {D(x[2]) : x \in {x \in Entries(body) : x[1] = b}} \ {NoDefinition}
  BY DEF Reaching, At
<1>3. \A c \in EnteredWith(b) : D(c) \in Definitions(body)
  BY <1>1 DEF EnteredWith, States
<1>4. LiveAssignments(b, i, v) = Reaching(body, b, i, v) \ Parameters
  BY DEF LiveAssignments
<1>5. \A c, d : <<v, d>> \in Live(At(b, c)[i]) <=> /\ d \in Definitions(body) /\ d = D(c)
                                                   /\ d \notin {NoDefinition, Replacement} /\ d \notin Parameters
  BY DEF Live, IsAssignment
<1>6. NoDefinition # Replacement /\ Replacement \notin Parameters
  BY DEF NoDefinition, Replacement, Parameter
<1> HIDE DEF Parameters, D
<1>7. \A d : d \in Reaching(body, b, i, v) <=> d # NoDefinition /\ \E c \in EnteredWith(b) : d = D(c)
  <2>1. ASSUME NEW x \in Entries(body), x[1] = b PROVE x[2] \in EnteredWith(b)
    BY <1>1, <2>1 DEF EnteredWith
  <2>2. ASSUME NEW c \in EnteredWith(b) PROVE \E x \in Entries(body) : x[1] = b /\ x[2] = c
    <3>1. <<b, c>> \in Entries(body) /\ <<b, c>>[1] = b /\ <<b, c>>[2] = c
      BY DEF EnteredWith
    <3> QED
      BY <3>1
  <2> QED
    BY <1>2, <2>1, <2>2
<1>8. ASSUME NEW d \in LiveAssignments(b, i, v) \ {Replacement}
      PROVE  \E c \in EnteredWith(b) : <<v, d>> \in Live(At(b, c)[i])
  BY <1>3, <1>4, <1>5, <1>7, <1>8
<1>9. ASSUME NEW c \in EnteredWith(b), NEW d
      PROVE  /\ <<v, d>> \in Live(At(b, c)[i]) => d \in LiveAssignments(b, i, v)
             /\ At(b, c)[i][v] = Replacement => Replacement \in LiveAssignments(b, i, v)
  <2>1. D(c) = At(b, c)[i][v]
    BY DEF D
  <2> QED
    BY <1>4, <1>5, <1>6, <1>7, <2>1
<1> QED
  BY <1>8, <1>9

\* run() of liveness.rs finds, at every point of a body without dead blocks to which no
\* unwinding leads, exactly the assignments that reach it on some path; a DropAndReplace
\* counts as none, and leaves those of its variable in doubt.
THEOREM LivenessIsExact == Spec => []ExactWithoutUnwinding
<1>1. Init => Carried
  BY DEF Init, Carried, Clean, Indices
<1>2. IInv /\ Carried => ExactWithoutUnwinding
  <2> SUFFICES ASSUME IInv, Carried, Done, AllReachable(body), NEW b \in Clean(body), NEW i \in Indices(b),
                      NEW v \in Locals
               PROVE  /\ LiveAssignments(b, i, v) \ {Replacement} \subseteq FoundAssignments(b, i, v)
                      /\ Replacement \notin LiveAssignments(b, i, v) =>
                           FoundAssignments(b, i, v) \subseteq LiveAssignments(b, i, v)
    BY DEF ExactWithoutUnwinding
  <2>1. body \in Bodies /\ b \in Blocks
    BY DEF IInv, TypeOK, Clean, Blocks
  <2>2. ASSUME NEW d \in LiveAssignments(b, i, v) \ {Replacement} PROVE d \in FoundAssignments(b, i, v)
    <3>1. PICK c \in EnteredWith(b) : <<v, d>> \in Live(At(b, c)[i])
      BY <2>1, LiveAssignmentsFacts
    <3>2. <<v, d>> \in SetBefore(b, i)
      BY <3>1, NothingMissing
    <3>3. <<v, d>>[1] = v /\ <<v, d>>[2] = d
      OBVIOUS
    <3> QED
      BY <3>2, <3>3 DEF FoundAssignments
  <2>3. ASSUME Replacement \notin LiveAssignments(b, i, v), NEW d \in FoundAssignments(b, i, v)
        PROVE  d \in LiveAssignments(b, i, v)
    <3>1. PICK e \in SetBefore(b, i) : e[1] = v /\ e[2] = d
      BY DEF FoundAssignments
    <3>2. PICK c \in EnteredWith(b) : Carries(At(b, c)[i], e)
      BY <2>1, BeforeIsCarried
    <3>3. e \in Live(At(b, c)[i])
      BY <2>1, <2>3, <3>1, <3>2, LiveAssignmentsFacts DEF Carries
    <3>4. e = <<v, d>>
      BY <3>1, <3>3 DEF Live
    <3> QED
      BY <2>1, <3>3, <3>4, LiveAssignmentsFacts
  <2> QED
    BY <2>2, <2>3
<1> QED
  BY <1>1, <1>2, InitOK, NextOK, NextCarried, PTL DEF Spec
=============================================================================
