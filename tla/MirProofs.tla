------------------------------ MODULE MirProofs ------------------------------
(***************************************************************************)
(* What the reference semantics of Mir computes: induction over indices,   *)
(* functions defined by recursion over them, and closures.  Step is the    *)
(* body of the recursion; a module that needs the facts about a recursion  *)
(* of its own instantiates this one with it.                               *)
(***************************************************************************)
EXTENDS Mir, WellFoundedInduction, FiniteSetTheorems, TLAPS

CONSTANT Step(_, _, _)   \* of a parameter, the index and the value before

\* A set of natural numbers has a least element.
LEMMA LeastNatural ==
  ASSUME NEW T, T \subseteq Nat, T # {}
  PROVE  \E x \in T : \A y \in T : x <= y
<1> DEFINE R == {ss \in Nat \X Nat : ss[1] < ss[2]}
<1>1. OpToRel(<, Nat) = R
  BY DEF OpToRel
<1>2. IsWellFoundedOn(R, Nat)
  BY NatLessThanWellFounded, <1>1
<1> HIDE DEF R
<1>3. PICK x \in T : \A y \in T : ~(<<y, x>> \in R)
  BY <1>2, WFMin
<1>4. \A y \in T : y \in Nat /\ x \in Nat /\ ~(y < x)
  <2> TAKE y \in T
  <2>1. y \in Nat /\ x \in Nat
    OBVIOUS
  <2>2. y < x => <<y, x>> \in R
    BY <2>1 DEF R
  <2> QED
    BY <1>3, <2>1, <2>2
<1> QED
  BY <1>4

\* Induction, for a set S in the place of a predicate, up to n.
LEMMA IndexInduction ==
  ASSUME NEW n \in Nat, NEW S, 0 \in S, \A i \in 0 .. n - 1 : i \in S => i + 1 \in S
  PROVE  0 .. n \subseteq S
<1> SUFFICES ASSUME NEW z \in 0 .. n, z \notin S PROVE FALSE
  OBVIOUS
<1> DEFINE T == (0 .. n) \ S
<1>1. PICK x \in T : \A y \in T : x <= y
  <2>1. T \subseteq Nat /\ T # {}
    OBVIOUS
  <2> HIDE DEF T
  <2> QED
    BY <2>1, LeastNatural
<1>2. x # 0 /\ x \in 0 .. n
  OBVIOUS
<1>3. x - 1 \in 0 .. n - 1 /\ x - 1 \in S
  BY <1>1, <1>2
<1> QED
  BY <1>3

\* The function that starts with s and takes n steps, as a recursive definition.
Iterated(p, s, n) ==
  LET at[i \in 0 .. n] == IF i = 0 THEN s ELSE Step(p, i, at[i - 1]) IN at
SatisfiesRecursion(p, s, n, at) == at = [i \in 0 .. n |-> IF i = 0 THEN s ELSE Step(p, i, at[i - 1])]

\* There is such a function, so the recursive definition means what it says.
LEMMA IterationExists ==
  ASSUME NEW p, NEW s, NEW n \in Nat
  PROVE  \E f : SatisfiesRecursion(p, s, n, f)
<1> DEFINE S == {k \in Nat : \E f : SatisfiesRecursion(p, s, k, f)}
<1>1. 0 \in S
  <2>1. SatisfiesRecursion(p, s, 0, [i \in 0 .. 0 |-> s])
    BY DEF SatisfiesRecursion
  <2> QED
    BY <2>1
<1>2. ASSUME NEW k \in Nat, k \in S PROVE k + 1 \in S
  <2>1. PICK f : SatisfiesRecursion(p, s, k, f)
    BY <1>2
  <2> DEFINE g == [i \in 0 .. k + 1 |-> IF i = k + 1 THEN Step(p, k + 1, f[k]) ELSE f[i]]
  <2>2. \A i \in 0 .. k : g[i] = f[i]
    OBVIOUS
  <2>3. \A i \in 0 .. k + 1 : g[i] = IF i = 0 THEN s ELSE Step(p, i, g[i - 1])
    <3> TAKE i \in 0 .. k + 1
    <3>1. CASE i = k + 1
      BY <3>1
    <3>2. CASE i # k + 1
      <4>1. i \in 0 .. k /\ (i # 0 => i - 1 \in 0 .. k)
        BY <3>2
      <4>2. f[i] = IF i = 0 THEN s ELSE Step(p, i, f[i - 1])
        BY <2>1, <4>1 DEF SatisfiesRecursion
      <4> QED
        BY <4>1, <4>2, <2>2
    <3> QED
      BY <3>1, <3>2
  <2>4. SatisfiesRecursion(p, s, k + 1, g)
    <3> HIDE DEF g
    <3>1. g = [i \in 0 .. k + 1 |-> g[i]]
      BY DEF g
    <3> QED
      BY <3>1, <2>3 DEF SatisfiesRecursion
  <2> QED
    BY <2>4
<1> HIDE DEF S
<1>3. 0 .. n \subseteq S
  BY <1>1, <1>2, IndexInduction
<1> QED
  BY <1>3 DEF S

\* The values of the recursive function.
LEMMA IterationUnfolds ==
  ASSUME NEW p, NEW s, NEW n \in Nat
  PROVE  /\ DOMAIN Iterated(p, s, n) = 0 .. n
         /\ Iterated(p, s, n)[0] = s
         /\ \A i \in 1 .. n : Iterated(p, s, n)[i] = Step(p, i, Iterated(p, s, n)[i - 1])
<1> DEFINE f == Iterated(p, s, n)
<1>1. f = CHOOSE g : SatisfiesRecursion(p, s, n, g)
  BY DEF Iterated, SatisfiesRecursion
<1> HIDE DEF f
<1>2. SatisfiesRecursion(p, s, n, f)
  BY <1>1, IterationExists
<1>3. DOMAIN f = 0 .. n /\ \A i \in 0 .. n : f[i] = IF i = 0 THEN s ELSE Step(p, i, f[i - 1])
  BY <1>2 DEF SatisfiesRecursion
<1>4. f[0] = s /\ \A i \in 1 .. n : f[i] = Step(p, i, f[i - 1])
  BY <1>3
<1> QED
  BY <1>3, <1>4 DEF f

\* A function has finitely many values on a finite set.
LEMMA FiniteImage ==
  ASSUME NEW D, NEW f, IsFiniteSet(D)
  PROVE  IsFiniteSet({f[x] : x \in D})
<1> DEFINE T == {f[x] : x \in D}
           g == [x \in D |-> f[x]]
<1>1. g \in [D -> T] /\ \A y \in T : \E x \in D : g[x] = y
  OBVIOUS
<1> HIDE DEF g, T
<1>2. g \in Surjection(D, T)
  BY <1>1 DEF Surjection
<1>3. IsFiniteSet(T)
  BY <1>2, FS_Surjection
<1> QED
  BY <1>3 DEF T

\* Between finite sets there are finitely many functions.
LEMMA FiniteFunctions ==
  ASSUME NEW D, NEW R, IsFiniteSet(D), IsFiniteSet(R)
  PROVE  IsFiniteSet([D -> R])
<1> DEFINE Graph(f) == {<<x, f[x]>> : x \in D}
           graph == [f \in [D -> R] |-> Graph(f)]
<1>1. IsFiniteSet(SUBSET (D \X R))
  BY FS_Product, FS_SUBSET
<1>2. graph \in [[D -> R] -> SUBSET (D \X R)]
  OBVIOUS
<1>3. ASSUME NEW f \in [D -> R], NEW g \in [D -> R], graph[f] = graph[g] PROVE f = g
  <2>1. \A x \in D : f[x] = g[x]
    <3> TAKE x \in D
    <3>1. <<x, f[x]>> \in Graph(g)
      BY <1>3
    <3> QED
      BY <3>1
  <2> QED
    BY <2>1
<1> HIDE DEF graph
<1>4. graph \in Injection([D -> R], SUBSET (D \X R))
  BY <1>2, <1>3 DEF Injection, IsInjective
<1> QED
  BY <1>1, <1>4, FS_Injection

-----------------------------------------------------------------------------
\* What the paths from S0 can reach, as the intersection of all closed sets.
Closed(C, next) == \A x \in C : next[x] \subseteq C
LeastClosed(S0, next, U) ==
  {x \in U : \A C \in SUBSET U : (S0 \subseteq C /\ Closed(C, next)) => x \in C}
OneMore(S, next) == S \cup UNION {next[x] : x \in S}
SatisfiesClosure(f, next, U) ==
  f = [S \in SUBSET U |-> IF OneMore(S, next) = S THEN S ELSE f[OneMore(S, next)]]

\* One more step changes nothing about the least closed set.
LEMMA LeastClosedStep ==
  ASSUME NEW U, NEW next \in [U -> SUBSET U], NEW S \in SUBSET U
  PROVE  /\ OneMore(S, next) \in SUBSET U
         /\ S \subseteq OneMore(S, next)
         /\ LeastClosed(S, next, U) =
              IF OneMore(S, next) = S THEN S ELSE LeastClosed(OneMore(S, next), next, U)
<1>1. OneMore(S, next) \in SUBSET U /\ S \subseteq OneMore(S, next)
  BY DEF OneMore
<1>2. CASE OneMore(S, next) = S
  <2>1. Closed(S, next)
    BY <1>2 DEF OneMore, Closed
  <2> QED
    BY <1>1, <1>2, <2>1 DEF LeastClosed
<1>3. CASE OneMore(S, next) # S
  <2>1. ASSUME NEW C \in SUBSET U, Closed(C, next)
        PROVE  S \subseteq C <=> OneMore(S, next) \subseteq C
    BY <2>1 DEF OneMore, Closed
  <2> QED
    BY <1>1, <1>3, <2>1 DEF LeastClosed
<1> QED
  BY <1>1, <1>2, <1>3

\* Every function that satisfies the recursive definition yields that set: the
\* recursion ends because U is finite.
LEMMA ClosureIsLeast ==
  ASSUME NEW U, IsFiniteSet(U), NEW next \in [U -> SUBSET U],
         NEW f, SatisfiesClosure(f, next, U), NEW S0 \in SUBSET U
  PROVE  f[S0] = LeastClosed(S0, next, U)
<1> DEFINE Bad == {S \in SUBSET U : f[S] # LeastClosed(S, next, U)}
           Sizes == {Cardinality(U \ S) : S \in Bad}
<1>1. \A S \in SUBSET U : IsFiniteSet(U \ S) /\ Cardinality(U \ S) \in Nat
  BY FS_Subset, FS_CardinalityType
<1> SUFFICES ASSUME Bad # {} PROVE FALSE
  OBVIOUS
<1>2. Sizes \subseteq Nat /\ Sizes # {}
  BY <1>1
<1>3. PICK k \in Sizes : \A m \in Sizes : k <= m
  <2> HIDE DEF Sizes
  <2> QED
    BY <1>2, LeastNatural
<1>4. PICK S \in Bad : k = Cardinality(U \ S)
  OBVIOUS
<1> DEFINE T == OneMore(S, next)
<1>5. T \in SUBSET U /\ S \subseteq T
  BY LeastClosedStep
<1>6. f[S] = IF T = S THEN S ELSE f[T]
  BY DEF SatisfiesClosure
<1>7. LeastClosed(S, next, U) = IF T = S THEN S ELSE LeastClosed(T, next, U)
  BY LeastClosedStep
<1> HIDE DEF T
<1>8. T # S
  BY <1>6, <1>7
<1>9. T \in Bad
  BY <1>5, <1>6, <1>7, <1>8
<1>10. Cardinality(U \ T) \in Sizes
  BY <1>9
<1>11. Cardinality(U \ T) < Cardinality(U \ S)
  <2>1. (U \ T) \subseteq (U \ S) /\ (U \ T) # (U \ S)
    BY <1>5, <1>8
  <2>2. Cardinality(U \ T) <= Cardinality(U \ S) /\ Cardinality(U \ T) # Cardinality(U \ S)
    BY <2>1, <1>1, FS_Subset
  <2> QED
    BY <1>1, <1>5, <2>2
<1>12. k <= Cardinality(U \ T) /\ k = Cardinality(U \ S)
  BY <1>3, <1>4, <1>10
<1> QED
  BY <1>1, <1>5, <1>11, <1>12

\* The closure of S0: it contains S0, is closed, and is below every closed set.
LEMMA ClosureProperties ==
  ASSUME NEW U, IsFiniteSet(U), NEW next \in [U -> SUBSET U], NEW S0 \in SUBSET U
  PROVE  /\ S0 \subseteq Closure(S0, next, U)
         /\ Closure(S0, next, U) \subseteq U
         /\ \A x \in Closure(S0, next, U) : next[x] \subseteq Closure(S0, next, U)
         /\ \A C : (S0 \subseteq C /\ \A x \in C \cap U : next[x] \subseteq C)
                     => Closure(S0, next, U) \subseteq C
<1> DEFINE f == CHOOSE g : SatisfiesClosure(g, next, U)
           L == LeastClosed(S0, next, U)
<1>1. SatisfiesClosure([S \in SUBSET U |-> LeastClosed(S, next, U)], next, U)
  <2> DEFINE h == [S \in SUBSET U |-> LeastClosed(S, next, U)]
  <2>1. \A S \in SUBSET U : h[S] = IF OneMore(S, next) = S THEN S ELSE h[OneMore(S, next)]
    BY LeastClosedStep
  <2>2. h = [S \in SUBSET U |-> h[S]]
    OBVIOUS
  <2> HIDE DEF h
  <2>3. SatisfiesClosure(h, next, U)
    BY <2>1, <2>2 DEF SatisfiesClosure
  <2> QED
    BY <2>3 DEF h
<1>2. SatisfiesClosure(f, next, U)
  BY <1>1
<1>3. Closure(S0, next, U) = f[S0]
  BY DEF Closure, SatisfiesClosure, OneMore
<1> HIDE DEF f
<1>4. Closure(S0, next, U) = L
  BY <1>2, <1>3, ClosureIsLeast
<1>5. S0 \subseteq L /\ L \subseteq U
  BY DEF LeastClosed
<1>6. \A x \in L : next[x] \subseteq L
  BY DEF LeastClosed, Closed
<1>7. ASSUME NEW C, S0 \subseteq C, \A x \in C \cap U : next[x] \subseteq C
      PROVE  L \subseteq C
  <2>1. (C \cap U) \in SUBSET U /\ S0 \subseteq (C \cap U) /\ Closed(C \cap U, next)
    BY <1>7 DEF Closed
  <2> QED
    BY <2>1 DEF LeastClosed
<1> QED
  BY <1>4, <1>5, <1>6, <1>7

-----------------------------------------------------------------------------
\* A sequence is one over any set that its elements are in.
LEMMA SequenceOver ==
  ASSUME NEW S, NEW T, NEW s \in Seq(S), \A i \in DOMAIN s : s[i] \in T
  PROVE  s \in Seq(T)
  OBVIOUS

\* The pairs that a terminator yields: one for each target, with the one state,
\* and one for the unwind block, with the other.
ArePairs(pairs, body, b, after, unwound) ==
  LET targets == Range(body[b].terminator.targets) IN
    /\ pairs \in Seq(Range(pairs))
    /\ \A i \in DOMAIN pairs :
         \/ pairs[i].block \in targets /\ pairs[i].state = after
         \/ pairs[i].block \in Unwinds(body, b) /\ pairs[i].state = unwound
    /\ \A c \in targets : \E i \in DOMAIN pairs :
         pairs[i].block = c /\ pairs[i].state = after
    /\ \A c \in Unwinds(body, b) : \E i \in DOMAIN pairs :
         pairs[i].block = c /\ pairs[i].state = unwound

LEMMA EdgePairsFacts ==
  ASSUME NEW body, NEW b, NEW after, NEW unwound, IsSequence(body[b].terminator.targets)
  PROVE  ArePairs(EdgePairs(body[b].terminator, after, unwound), body, b, after, unwound)
<1> DEFINE t == body[b].terminator
           pairs == EdgePairs(t, after, unwound)
           n == Len(t.targets)
           one == [i \in DOMAIN t.targets |-> [block |-> t.targets[i], state |-> after]]
           other == IF t.unwind = NoBlock THEN <<>> ELSE <<[block |-> t.unwind, state |-> unwound]>>
           All == Range(one) \cup Range(other)
<1>1. n \in Nat /\ DOMAIN t.targets = 1 .. n
  BY DEF IsSequence
<1>2. one \in Seq(All) /\ Len(one) = n /\ other \in Seq(All)
  <2>1. one = [i \in 1 .. n |-> [block |-> t.targets[i], state |-> after]]
    BY <1>1
  <2>2. \A i \in 1 .. n : one[i] \in All
    BY <1>1 DEF Range
  <2>3. one \in Seq(All) /\ Len(one) = n
    <3> HIDE DEF All, n
    <3> QED
      BY <1>1, <2>1, <2>2
  <2>4. other \in Seq(All)
    <3>1. \A i \in DOMAIN other : other[i] \in All
      <4> HIDE DEF one, other
      <4> QED
        BY DEF Range
    <3> HIDE DEF All
    <3> QED
      BY <3>1
  <2> QED
    BY <2>3, <2>4
<1>3. pairs = one \o other
  BY DEF EdgePairs
<1>4. /\ pairs \in Seq(All) /\ DOMAIN pairs = 1 .. n + Len(other)
      /\ \A i \in DOMAIN pairs : pairs[i] = IF i <= n THEN one[i] ELSE other[i - n]
  <2> HIDE DEF one, other, n, pairs, All
  <2> QED
    BY <1>1, <1>2, <1>3
<1>5. pairs \in Seq(Range(pairs))
  <2>1. \A i \in DOMAIN pairs : pairs[i] \in Range(pairs)
    BY DEF Range
  <2> HIDE DEF pairs, other, one, n, All
  <2> QED
    BY <1>4, <2>1, SequenceOver
<1>6. Range(t.targets) = {t.targets[i] : i \in 1 .. n}
  BY <1>1 DEF Range
<1> DEFINE Goal ==
             /\ \A i \in DOMAIN pairs :
                  \/ pairs[i].block \in Range(t.targets) /\ pairs[i].state = after
                  \/ pairs[i].block \in Unwinds(body, b) /\ pairs[i].state = unwound
             /\ \A c \in Range(t.targets) : \E i \in DOMAIN pairs :
                  pairs[i].block = c /\ pairs[i].state = after
             /\ \A c \in Unwinds(body, b) : \E i \in DOMAIN pairs :
                  pairs[i].block = c /\ pairs[i].state = unwound
<1>7. CASE t.unwind = NoBlock
  <2>1. Unwinds(body, b) = {} /\ Len(other) = 0
    BY <1>7 DEF Unwinds
  <2>2. DOMAIN pairs = 1 .. n /\ \A i \in 1 .. n : pairs[i] = [block |-> t.targets[i], state |-> after]
    <3> HIDE DEF other, pairs, n
    <3> QED
      BY <1>1, <1>4, <2>1
  <2>3. Goal
    <3> HIDE DEF pairs, n
    <3> QED
      BY <1>6, <2>1, <2>2
  <2> QED
    BY <1>5, <2>3 DEF ArePairs
<1>8. CASE t.unwind # NoBlock
  <2>1. /\ Unwinds(body, b) = {t.unwind} /\ Len(other) = 1
        /\ other[1] = [block |-> t.unwind, state |-> unwound]
    BY <1>8 DEF Unwinds
  <2>2. DOMAIN pairs = 1 .. n + 1 /\ \A i \in 1 .. n + 1 : i \in 1 .. n \/ i = n + 1
    <3> HIDE DEF other, pairs, n
    <3> QED
      BY <1>1, <1>4, <2>1
  <2>3. /\ \A i \in 1 .. n : pairs[i] = [block |-> t.targets[i], state |-> after]
        /\ pairs[n + 1] = [block |-> t.unwind, state |-> unwound]
    <3>1. n + 1 \in DOMAIN pairs /\ ~(n + 1 <= n) /\ (n + 1) - n = 1
          /\ \A i \in 1 .. n : i <= n /\ i \in DOMAIN pairs
      <4> HIDE DEF other, pairs, n
      <4> QED
        BY <1>1, <2>2
    <3>2. \A i \in 1 .. n : one[i] = [block |-> t.targets[i], state |-> after]
      BY <1>1
    <3> HIDE DEF other, pairs, n, one
    <3> QED
      BY <1>4, <2>1, <3>1, <3>2
  <2>4. Goal
    <3>1. n + 1 \in DOMAIN pairs /\ \A i \in 1 .. n : i \in DOMAIN pairs
      <4> HIDE DEF pairs, n
      <4> QED
        BY <1>1, <2>2
    <3>2. \A i \in DOMAIN pairs : i \in 1 .. n \/ i = n + 1
      BY <2>2
    <3> HIDE DEF pairs, n
    <3>3. \A i \in 1 .. n : pairs[i].block = t.targets[i] /\ pairs[i].state = after
      <4> TAKE i \in 1 .. n
      <4>1. pairs[i] = [block |-> t.targets[i], state |-> after]
        BY <2>3
      <4> QED
        BY <4>1
    <3>4. pairs[n + 1].block = t.unwind /\ pairs[n + 1].state = unwound
      BY <2>3
    <3> HIDE DEF t
    <3> QED
      BY <1>6, <2>1, <3>1, <3>2, <3>3, <3>4
  <2> QED
    BY <1>5, <2>4 DEF ArePairs
<1> QED
  BY <1>7, <1>8

\* A block is clean only if no terminator unwinds to it, and then so are the blocks
\* that lead to it.
LEMMA CleanFacts ==
  ASSUME NEW body, WellFormed(body), NEW b \in DOMAIN body
  PROVE  /\ Clean(body) \subseteq DOMAIN body
         /\ successors(body, b) \cap Clean(body) # {} => b \in Clean(body)
         /\ Unwinds(body, b) \cap Clean(body) = {}
<1> DEFINE V == DOMAIN body
           next == [p \in V |-> successors(body, p)]
           S0 == UNION {Unwinds(body, p) : p \in V}
           R == ReachableFrom(body, S0)
<1>1. R = Closure(S0, next, V) /\ Clean(body) = V \ R
  BY DEF ReachableFrom, Clean
<1>2. next \in [V -> SUBSET V] /\ S0 \in SUBSET V
  BY DEF successors, WellFormed
<1>3. IsFiniteSet(V)
  BY FS_Interval DEF WellFormed
<1>4. \A p \in V : next[p] = successors(body, p)
  OBVIOUS
<1>5. Unwinds(body, b) \subseteq S0
  OBVIOUS
<1> HIDE DEF V, next, S0, R
<1>6. S0 \subseteq R /\ R \subseteq V /\ \A p \in R : next[p] \subseteq R
  BY <1>1, <1>2, <1>3, ClosureProperties
<1> QED
  BY <1>1, <1>4, <1>5, <1>6 DEF V
=============================================================================
