--------------------- MODULE DefinitelyInitializedProofs ---------------------
(***************************************************************************)
(* The analysis of definitely initialised places is sound, and complete    *)
(* for structs, for every body: its domain is sound and precise with       *)
(* respect to the leaves that the paths initialise, and so is the Analyzer *)
(* with it (AnalyzerProofs).                                               *)
(***************************************************************************)
EXTENDS DefinitelyInitialized, FiniteSetTheorems, TLAPS

\* The places that a state has are initialised; the leaves that are initialised in
\* all of the concrete states are parts of the places that the state has.
InitIsState(S) == \A p \in S : IsSequence(p) /\ p # NoPlace
InitStart(bdy) == {Parts({<<x>> : x \in Args})}
InitStates(bdy) == SUBSET Leaves
OnlyInitialised(S, c) == Parts(S) \subseteq c
AllInitialised(S, C) == {l \in FieldLeaves : \A c \in C : l \in c} \subseteq Parts(S)

P == INSTANCE AnalyzerProofs WITH
       new_bottom <- InitBottom, new_initial <- InitInitial, join <- InitJoin,
       apply_statement_effect <- InitStatement, apply_terminator_effect <- InitTerminator,
       IsState <- InitIsState, StartStates <- InitStart, RunStates <- InitStates,
       RunStatement <- Exec, RunTerminator <- Leave, RunUnwinding <- Unwind,
       Describes <- OnlyInitialised, Justified <- AllInitialised, PreciseBlocks <- Clean

MoveStep(moves, i, S) == set_place_uninitialised(S, moves[i])
Expansion(p, n) == Siblings(SubSeq(p, 1, n), p) \cup {SubSeq(p, 1, n + 1)}
CollapseStep(p, i, S) ==
  IF Expansion(p, Len(p) - i) \subseteq S
  THEN (S \ Expansion(p, Len(p) - i)) \cup {SubSeq(p, 1, Len(p) - i)} ELSE S
U == INSTANCE MirProofs WITH Step <- MoveStep
K == INSTANCE MirProofs WITH Step <- CollapseStep

-----------------------------------------------------------------------------
(* Prefixes of places. *)

\* A sequence is one over any set that has its elements.
LEMMA SequenceFacts ==
  ASSUME NEW s
  PROVE  /\ IsSequence(s) => Len(s) \in Nat /\ DOMAIN s = 1 .. Len(s)
         /\ \A T : s \in Seq(T) => IsSequence(s)
  BY DEF IsSequence, Range

LEMMA PrefixFacts ==
  ASSUME NEW s, NEW t, IsSequence(s), IsSequence(t)
  PROVE  IsPrefix(s, t) <=> Len(s) <= Len(t) /\ \A i \in 1 .. Len(s) : s[i] = t[i]
  BY DEF IsPrefix, IsSequence

LEMMA SubSeqFacts ==
  ASSUME NEW s, IsSequence(s), NEW n \in 0 .. Len(s)
  PROVE  /\ IsSequence(SubSeq(s, 1, n)) /\ Len(SubSeq(s, 1, n)) = n
         /\ \A i \in 1 .. n : SubSeq(s, 1, n)[i] = s[i]
<1>1. /\ SubSeq(s, 1, n) \in Seq(Range(s)) /\ Len(SubSeq(s, 1, n)) = n
      /\ \A i \in 1 .. n : SubSeq(s, 1, n)[i] = s[i]
  BY DEF IsSequence
<1> QED
  BY <1>1, SequenceFacts

LEMMA AppendFacts ==
  ASSUME NEW s, IsSequence(s), NEW e
  PROVE  /\ IsSequence(Append(s, e)) /\ Len(Append(s, e)) = Len(s) + 1
         /\ \A i \in 1 .. Len(s) : Append(s, e)[i] = s[i]
         /\ Append(s, e)[Len(s) + 1] = e
  BY DEF IsSequence, Range

LEMMA PrefixTransitive ==
  ASSUME NEW p, NEW q, NEW r, IsSequence(p), IsSequence(q), IsSequence(r),
         IsPrefix(p, q), IsPrefix(q, r)
  PROVE  IsPrefix(p, r)
<1>1. Len(p) \in Nat /\ Len(q) \in Nat /\ Len(r) \in Nat
  BY SequenceFacts
<1>2. /\ Len(p) <= Len(q) /\ \A i \in 1 .. Len(p) : p[i] = q[i]
      /\ Len(q) <= Len(r) /\ \A i \in 1 .. Len(q) : q[i] = r[i]
  BY PrefixFacts
<1>3. Len(p) <= Len(r) /\ \A i \in 1 .. Len(p) : p[i] = r[i]
  BY <1>1, <1>2
<1> QED
  BY <1>3, PrefixFacts

\* Of two prefixes of a sequence one is a prefix of the other.
LEMMA PrefixesComparable ==
  ASSUME NEW p, NEW q, NEW r, IsSequence(p), IsSequence(q), IsSequence(r),
         IsPrefix(p, r), IsPrefix(q, r)
  PROVE  /\ IsPrefix(p, q) \/ IsPrefix(q, p)
         /\ Len(p) <= Len(q) => IsPrefix(p, q)
<1>1. Len(p) \in Nat /\ Len(q) \in Nat /\ Len(r) \in Nat
  BY SequenceFacts
<1>2. /\ Len(p) <= Len(r) /\ \A i \in 1 .. Len(p) : p[i] = r[i]
      /\ Len(q) <= Len(r) /\ \A i \in 1 .. Len(q) : q[i] = r[i]
  BY PrefixFacts
<1>3. CASE Len(p) <= Len(q)
  <2>1. \A i \in 1 .. Len(p) : p[i] = q[i]
    BY <1>1, <1>2, <1>3
  <2> QED
    BY <1>3, <2>1, PrefixFacts
<1>4. CASE ~(Len(p) <= Len(q))
  <2>1. Len(q) <= Len(p) /\ \A i \in 1 .. Len(q) : q[i] = p[i]
    BY <1>1, <1>2, <1>4
  <2> QED
    BY <1>4, <2>1, PrefixFacts
<1> QED
  BY <1>3, <1>4

\* The leaves, as parts of the places in S.
LEMMA PartsFacts ==
  ASSUME NEW S, NEW l
  PROVE  /\ l \in Parts(S) <=> l \in Leaves /\ \E p \in S : IsPrefix(p, l)
         /\ l \in Leaves => IsSequence(l) /\ IsPlace(l)
  BY PlacesAssumption DEF Parts, is_prefix, IsPlace

\* The siblings at a level of p: they leave the way to p there.
LEMMA SiblingFacts ==
  ASSUME NEW p, IsSequence(p), NEW n \in 0 .. Len(p) - 1, NEW q \in Siblings(SubSeq(p, 1, n), p)
  PROVE  /\ IsSequence(q) /\ q # NoPlace /\ Len(q) = n + 1
         /\ \A i \in 1 .. n : q[i] = p[i]
         /\ q[n + 1] # p[n + 1]
<1> DEFINE r == SubSeq(p, 1, n)
<1>1. Len(p) \in Nat /\ n \in 0 .. Len(p)
  BY SequenceFacts
<1>2. IsSequence(r) /\ Len(r) = n /\ \A i \in 1 .. n : r[i] = p[i]
  BY <1>1, SubSeqFacts
<1>3. PICK f : q = Append(r, f) /\ f # p[n + 1]
  BY <1>2 DEF Siblings, expand_struct_place
<1> HIDE DEF r
<1>4. /\ IsSequence(q) /\ Len(q) = n + 1 /\ q[n + 1] = f
      /\ \A i \in 1 .. n : q[i] = r[i]
  BY <1>2, <1>3, AppendFacts
<1>5. q # NoPlace
  BY <1>1, <1>4 DEF NoPlace
<1> QED
  BY <1>2, <1>3, <1>4, <1>5

\* What is left of a place without its part p is below the place, and apart from p.
LEMMA ExpandFacts ==
  ASSUME NEW old, NEW p, IsSequence(old), IsSequence(p), IsPrefix(old, p), NEW q \in expand(old, p)
  PROVE  /\ IsSequence(q) /\ q # NoPlace /\ IsPrefix(old, q)
         /\ \A l : IsSequence(l) /\ IsPrefix(q, l) => ~IsPrefix(p, l)
<1>1. Len(old) \in Nat /\ Len(p) \in Nat /\ Len(old) <= Len(p) /\ \A i \in 1 .. Len(old) : old[i] = p[i]
  BY SequenceFacts, PrefixFacts
<1>2. PICK n \in Len(old) .. Len(p) - 1 : q \in Siblings(SubSeq(p, 1, n), p)
  BY DEF expand
<1>3. n \in 0 .. Len(p) - 1
  BY <1>1
<1>4. /\ IsSequence(q) /\ q # NoPlace /\ Len(q) = n + 1
      /\ \A i \in 1 .. n : q[i] = p[i]
      /\ q[n + 1] # p[n + 1]
  BY <1>2, <1>3, SiblingFacts
<1>5. Len(old) <= Len(q) /\ \A i \in 1 .. Len(old) : old[i] = q[i]
  BY <1>1, <1>4
<1>6. IsPrefix(old, q)
  BY <1>4, <1>5, PrefixFacts
<1>7. ASSUME NEW l, IsSequence(l), IsPrefix(q, l), IsPrefix(p, l) PROVE FALSE
  <2>1. \A i \in 1 .. n + 1 : q[i] = l[i]
    BY <1>4, <1>7, PrefixFacts
  <2>2. \A i \in 1 .. Len(p) : p[i] = l[i]
    BY <1>7, PrefixFacts
  <2>3. n + 1 \in 1 .. n + 1 /\ n + 1 \in 1 .. Len(p)
    BY <1>1, <1>3
  <2> QED
    BY <1>4, <2>1, <2>2, <2>3
<1> QED
  BY <1>4, <1>6, <1>7

\* Two places that agree up to level n have the same prefix there.
LEMMA SamePrefix ==
  ASSUME NEW p, NEW l, IsSequence(p), IsSequence(l), NEW n \in 0 .. Len(p), IsPrefix(SubSeq(p, 1, n), l)
  PROVE  n <= Len(l) /\ SubSeq(l, 1, n) = SubSeq(p, 1, n) /\ \A i \in 1 .. n : l[i] = p[i]
<1> DEFINE r == SubSeq(p, 1, n)
<1>1. IsSequence(r) /\ Len(r) = n /\ (\A i \in 1 .. n : r[i] = p[i]) /\ IsPrefix(r, l)
  BY SubSeqFacts
<1>2. n <= Len(l) /\ \A i \in 1 .. n : l[i] = p[i]
  <2> HIDE DEF r
  <2> QED
    BY <1>1, PrefixFacts
<1>3. SubSeq(l, 1, n) = SubSeq(p, 1, n)
  BY <1>2 DEF IsSequence
<1> QED
  BY <1>2, <1>3

\* A leaf below SubSeq(p, 1, n) that does not go on as p does is below a sibling, unless
\* it is reached through a variant of an enum.
LEMMA SiblingsCover ==
  ASSUME NEW p, IsUsable(p), NEW l \in Leaves, NEW n \in 1 .. Len(p) - 1,
         IsPrefix(SubSeq(p, 1, n), l), l[n + 1] # p[n + 1], ~IsVariant(SubSeq(p, 1, n)),
         p[n + 1] \notin Downcasts \/ l[n + 1] \notin Downcasts
  PROVE  \E q \in Siblings(SubSeq(p, 1, n), p) : IsPrefix(q, l)
<1> DEFINE r == SubSeq(p, 1, n)
<1>1. IsSequence(p) /\ IsPlace(p) /\ IsSequence(l) /\ IsPlace(l) /\ Len(p) \in Nat /\ Len(l) \in Nat
  BY PartsFacts, SequenceFacts DEF IsUsable, IsPlace
<1>2. Len(l) > n /\ (l[n + 1] = "*" <=> p[n + 1] = "*")
  BY DEF IsUsable
<1>3. SubSeq(l, 1, n) = r /\ \A i \in 1 .. n : l[i] = p[i]
  BY <1>1, SamePrefix
<1>4. IsSequence(r) /\ Len(r) = n /\ \A i \in 1 .. n : r[i] = p[i]
  BY <1>1, SubSeqFacts
<1> HIDE DEF r
<1>5. n \in 1 .. Len(l) - 1
  BY <1>1, <1>2
<1>6. IsStruct(r)
  <2> SUFFICES ASSUME ~IsStruct(r) PROVE FALSE
    OBVIOUS
  <2>1. p[n + 1] = "*" \/ p[n + 1] \in Downcasts
    BY <1>1 DEF IsPlace, r
  <2>2. l[n + 1] = "*" \/ l[n + 1] \in Downcasts
    BY <1>1, <1>3, <1>5 DEF IsPlace, r
  <2> QED
    BY <1>2, <2>1, <2>2
<1>7. p[n + 1] \in FieldsOfStruct[TypeOfPlace(r)] /\ l[n + 1] \in FieldsOfStruct[TypeOfPlace(r)]
  <2>1. p[n + 1] \in FieldsOfStruct[TypeOfPlace(r)]
    BY <1>1, <1>6 DEF IsPlace, r, IsStruct
  <2>2. l[n + 1] \in FieldsOfStruct[TypeOfPlace(r)]
    BY <1>1, <1>3, <1>5, <1>6 DEF IsPlace, IsStruct
  <2> QED
    BY <2>1, <2>2
<1>8. Append(r, l[n + 1]) \in Siblings(r, p)
  <2>1. IsField(p[n + 1]) /\ ~IsVariant(r) /\ p[Len(r) + 1] = p[n + 1]
    BY <1>4, <1>6, <1>7 DEF IsField, IsStruct
  <2> QED
    BY <1>7, <2>1 DEF Siblings, expand_struct_place
<1>9. IsPrefix(Append(r, l[n + 1]), l)
  <2> DEFINE q == Append(r, l[n + 1])
  <2>1. IsSequence(q) /\ Len(q) = n + 1 /\ q[n + 1] = l[n + 1] /\ \A i \in 1 .. n : q[i] = r[i]
    BY <1>4, AppendFacts
  <2> HIDE DEF q
  <2>2. Len(q) <= Len(l) /\ \A i \in 1 .. Len(q) : q[i] = l[i]
    <3>1. \A i \in 1 .. n + 1 : i \in 1 .. n \/ i = n + 1
      OBVIOUS
    <3> QED
      BY <1>1, <1>3, <1>4, <1>5, <2>1, <3>1
  <2>3. IsPrefix(q, l)
    BY <1>1, <2>1, <2>2, PrefixFacts
  <2> QED
    BY <2>3 DEF q
<1> QED
  BY <1>8, <1>9 DEF r

-----------------------------------------------------------------------------
(* The operations of the domain. *)

\* After a place was moved or dropped, none of its parts is claimed and nothing else
\* is lost, of what is reached through fields of structs.
LEMMA UninitialisedFacts ==
  ASSUME NEW S, InitIsState(S), NEW p, IsUsable(p)
  PROVE  /\ InitIsState(set_place_uninitialised(S, p))
         /\ Parts(set_place_uninitialised(S, p)) \subseteq Parts(S) \ Parts({p})
         /\ FieldLeaves \cap (Parts(S) \ Parts({p})) \subseteq Parts(set_place_uninitialised(S, p))
<1> DEFINE Left(old) == CASE is_prefix(p, old) -> expand(old, p)
                          [] ~is_prefix(p, old) /\ is_prefix(old, p) -> {}
                          [] OTHER -> {old}
           T == set_place_uninitialised(S, p)
<1>1. T = UNION {Left(old) : old \in S}
  BY DEF set_place_uninitialised
<1>2. /\ \A old \in S : IsPrefix(old, p) => Left(old) = expand(old, p)
      /\ \A old \in S : ~IsPrefix(old, p) /\ IsPrefix(p, old) => Left(old) = {}
      /\ \A old \in S : ~IsPrefix(old, p) /\ ~IsPrefix(p, old) => Left(old) = {old}
  BY DEF is_prefix
<1> HIDE DEF Left
<1>3. IsSequence(p) /\ IsPlace(p) /\ Len(p) \in Nat /\ \A q \in S : IsSequence(q) /\ Len(q) \in Nat /\ q # NoPlace
  BY SequenceFacts DEF IsUsable, IsPlace, InitIsState
<1>4. ASSUME NEW old \in S, NEW q \in Left(old)
      PROVE  /\ IsSequence(q) /\ q # NoPlace /\ IsPrefix(old, q)
             /\ \A l : IsSequence(l) /\ IsPrefix(q, l) => ~IsPrefix(p, l)
  <2>1. CASE IsPrefix(old, p)
    BY <1>2, <1>3, <2>1, ExpandFacts
  <2>2. CASE ~IsPrefix(old, p) /\ ~IsPrefix(p, old)
    <3>1. q = old
      BY <1>2, <2>2
    <3>2. IsPrefix(old, old)
      BY <1>3, PrefixFacts
    <3> QED
      BY <1>3, <2>2, <3>1, <3>2, PrefixesComparable
  <2> QED
    BY <1>2, <2>1, <2>2
<1>5. InitIsState(T)
  BY <1>1, <1>4 DEF InitIsState
<1>6. ASSUME NEW l \in Parts(T) PROVE l \in Parts(S) /\ l \notin Parts({p})
  <2>1. IsSequence(l) /\ l \in Leaves
    BY PartsFacts
  <2>2. PICK old \in S : \E q \in Left(old) : IsPrefix(q, l)
    BY <1>1, PartsFacts
  <2>3. PICK q \in Left(old) : IsPrefix(q, l)
    BY <2>2
  <2>4. IsSequence(q) /\ IsPrefix(old, q) /\ ~IsPrefix(p, l)
    BY <1>4, <2>1, <2>3
  <2>5. IsPrefix(old, l)
    BY <1>3, <2>1, <2>3, <2>4, PrefixTransitive
  <2> QED
    BY <2>1, <2>4, <2>5, PartsFacts
<1>7. ASSUME NEW l \in FieldLeaves, l \in Parts(S), l \notin Parts({p}) PROVE l \in Parts(T)
  <2>1. l \in Leaves /\ IsSequence(l) /\ Len(l) \in Nat /\ ~IsPrefix(p, l)
    BY <1>7, PartsFacts, SequenceFacts
  <2>2. PICK old \in S : IsPrefix(old, l)
    BY <1>7, PartsFacts
  <2>3. ~IsPrefix(p, old)
    BY <1>3, <2>1, <2>2, PrefixTransitive
  <2>4. CASE ~IsPrefix(old, p)
    BY <1>1, <1>2, <2>1, <2>2, <2>3, <2>4, PartsFacts
  <2>5. CASE IsPrefix(old, p)
    <3> DEFINE Apart == {i \in 1 .. Len(p) : i > Len(l) \/ l[i] # p[i]}
    <3>1. Apart \subseteq Nat /\ Apart # {}
      <4>1. ~(Len(p) <= Len(l) /\ \A i \in 1 .. Len(p) : p[i] = l[i])
        BY <1>3, <2>1, PrefixFacts
      <4>2. CASE \E i \in 1 .. Len(p) : p[i] # l[i]
        BY <4>2
      <4>3. CASE ~(Len(p) <= Len(l))
        <5>1. Len(p) \in Apart
          BY <1>3, <2>1, <4>3
        <5> QED
          BY <5>1
      <4> QED
        BY <4>1, <4>2, <4>3
    <3>2. PICK k \in Apart : \A i \in Apart : k <= i
      <4> HIDE DEF Apart
      <4> QED
        BY <3>1, U!LeastNatural
    <3> DEFINE n == k - 1
    <3>3. \A i \in 1 .. n : i \notin Apart
      BY <1>3, <3>2
    <3>4. \A i \in 1 .. n : i <= Len(l) /\ l[i] = p[i]
      BY <1>3, <2>1, <3>2, <3>3
    <3>5. /\ Len(old) >= 1 /\ Len(old) <= Len(p) /\ \A i \in 1 .. Len(old) : old[i] = p[i]
          /\ Len(old) <= Len(l) /\ \A i \in 1 .. Len(old) : old[i] = l[i]
      <4>1. Len(old) # 0
        BY <1>3 DEF NoPlace, IsSequence
      <4> QED
        BY <1>3, <2>1, <2>2, <2>5, <4>1, PrefixFacts
    <3>6. k \in 1 .. Len(p) /\ k > Len(old)
      BY <1>3, <2>1, <3>2, <3>5
    <3>7. n \in 1 .. Len(p) - 1 /\ n \in Len(old) .. Len(p) - 1 /\ n \in 0 .. Len(p) /\ n + 1 = k /\ n <= Len(l)
      <4>1. n \in 1 .. Len(p) - 1 /\ n \in Len(old) .. Len(p) - 1 /\ n \in 0 .. Len(p) /\ n + 1 = k
        BY <1>3, <3>5, <3>6
      <4> HIDE DEF n
      <4>2. n \in 1 .. n
        BY <4>1
      <4> QED
        BY <3>4, <4>1, <4>2
    <3> HIDE DEF n
    <3>8. IsPrefix(SubSeq(p, 1, n), l)
      <4>1. IsSequence(SubSeq(p, 1, n)) /\ Len(SubSeq(p, 1, n)) = n /\ \A i \in 1 .. n : SubSeq(p, 1, n)[i] = p[i]
        BY <1>3, <3>7, SubSeqFacts
      <4> QED
        BY <2>1, <3>4, <3>7, <4>1, PrefixFacts
    <3>9. Len(l) > n
      BY <2>1, <3>7, <3>8 DEF IsUsable
    <3>10. l[n + 1] # p[n + 1] /\ l[n + 1] \notin Downcasts
      <4>1. n + 1 \in 2 .. Len(l)
        BY <2>1, <3>7, <3>9
      <4> QED
        BY <2>1, <3>2, <3>7, <3>9, <4>1 DEF FieldLeaves
    <3>11. ~IsVariant(SubSeq(p, 1, n))
      <4> DEFINE r == SubSeq(p, 1, n)
      <4>1. IsSequence(r) /\ Len(r) = n /\ \A i \in 1 .. n : r[i] = p[i]
        BY <1>3, <3>7, SubSeqFacts
      <4>2. Last(r) = p[n] /\ p[n] = l[n]
        BY <3>4, <3>7, <4>1 DEF Last
      <4>3. n > 1 => n \in 2 .. Len(l)
        BY <3>7, <2>1
      <4> HIDE DEF r
      <4> QED
        BY <4>1, <4>2, <4>3 DEF IsVariant, FieldLeaves, r
    <3>12. PICK q \in Siblings(SubSeq(p, 1, n), p) : IsPrefix(q, l)
      BY <2>1, <3>7, <3>8, <3>10, <3>11, SiblingsCover
    <3>13. q \in expand(old, p)
      BY <3>7, <3>12 DEF expand
    <3> QED
      BY <1>1, <1>2, <2>1, <2>5, <3>12, <3>13, PartsFacts
  <2> QED
    BY <2>4, <2>5
<1> QED
  BY <1>5, <1>6, <1>7

\* A place with all its parts: collapsing a level changes no claim.
LEMMA CollapseStepFacts ==
  ASSUME NEW S, InitIsState(S), NEW p, IsAssignable(p), NEW i \in 1 .. Len(p) - 1
  PROVE  InitIsState(CollapseStep(p, i, S)) /\ Parts(CollapseStep(p, i, S)) = Parts(S)
<1> DEFINE n == Len(p) - i
           r == SubSeq(p, 1, n)
           next == SubSeq(p, 1, n + 1)
           X == Expansion(p, n)
<1>1. IsUsable(p) /\ IsSequence(p) /\ Len(p) \in Nat
  BY SequenceFacts DEF IsAssignable, IsUsable, IsPlace
<1>2. n \in 1 .. Len(p) - 1 /\ n \in 0 .. Len(p) /\ n + 1 \in 0 .. Len(p) /\ n \in 0 .. Len(p) - 1
  BY <1>1
<1> HIDE DEF n
<1>3. IsSequence(r) /\ Len(r) = n /\ \A k \in 1 .. n : r[k] = p[k]
  BY <1>1, <1>2, SubSeqFacts
<1>4. IsSequence(next) /\ Len(next) = n + 1 /\ \A k \in 1 .. n + 1 : next[k] = p[k]
  BY <1>1, <1>2, SubSeqFacts
<1>5. X = Siblings(r, p) \cup {next}
  BY DEF Expansion
<1> SUFFICES ASSUME X \subseteq S
             PROVE  InitIsState((S \ X) \cup {r}) /\ Parts((S \ X) \cup {r}) = Parts(S)
  BY DEF CollapseStep, n
<1>6. r # NoPlace
  BY <1>2, <1>3 DEF NoPlace
<1>7. InitIsState((S \ X) \cup {r})
  BY <1>3, <1>6 DEF InitIsState
<1>8. ASSUME NEW q \in X PROVE IsPrefix(r, q) /\ IsSequence(q)
  <2>1. IsSequence(q) /\ Len(q) = n + 1 /\ \A k \in 1 .. n : q[k] = p[k]
    <3>1. CASE q = next
      BY <1>2, <1>4, <3>1
    <3>2. CASE q \in Siblings(r, p)
      BY <1>1, <1>2, <3>2, SiblingFacts
    <3> QED
      BY <1>5, <3>1, <3>2
  <2> HIDE DEF r, X
  <2>2. Len(r) <= Len(q) /\ \A k \in 1 .. Len(r) : r[k] = q[k]
    BY <1>2, <1>3, <2>1
  <2> QED
    BY <1>3, <2>1, <2>2, PrefixFacts
<1>9. ASSUME NEW l \in Parts(S) PROVE l \in Parts((S \ X) \cup {r})
  <2>1. PICK q \in S : IsPrefix(q, l) /\ l \in Leaves /\ IsSequence(l)
    BY PartsFacts
  <2>2. CASE q \in X
    <3>1. IsPrefix(r, l)
      BY <1>3, <1>8, <2>1, <2>2, PrefixTransitive
    <3> HIDE DEF r, X
    <3> QED
      BY <2>1, <3>1, PartsFacts
  <2>3. CASE q \notin X
    <3> HIDE DEF r, X
    <3> QED
      BY <2>1, <2>3, PartsFacts
  <2> QED
    BY <2>2, <2>3
<1>10. ASSUME NEW l \in Leaves, IsPrefix(r, l) PROVE \E q \in X : IsPrefix(q, l)
  <2>1. IsSequence(l) /\ Len(l) \in Nat
    BY PartsFacts, SequenceFacts
  <2>2. Len(l) > n
    BY <1>1, <1>2, <1>10 DEF IsUsable
  <2>3. CASE l[n + 1] = p[n + 1]
    <3>1. \A k \in 1 .. n : l[k] = p[k]
      BY <1>1, <1>2, <1>10, <2>1, SamePrefix
    <3> HIDE DEF next, r
    <3>2. Len(next) <= Len(l) /\ \A k \in 1 .. Len(next) : next[k] = l[k]
      BY <1>2, <1>4, <2>1, <2>2, <2>3, <3>1
    <3>3. IsPrefix(next, l)
      BY <1>4, <2>1, <3>2, PrefixFacts
    <3> QED
      BY <1>5, <3>3
  <2>4. CASE l[n + 1] # p[n + 1]
    <3>1. p[n + 1] \notin Downcasts
      BY <1>1, <1>2 DEF IsAssignable
    <3>2. ~IsVariant(r)
      <4>1. Last(r) = p[n] /\ (n > 1 => n \in 2 .. Len(p))
        BY <1>1, <1>2, <1>3 DEF Last
      <4> HIDE DEF r
      <4> QED
        BY <1>3, <4>1 DEF IsVariant, IsAssignable
    <3>3. \E q \in Siblings(r, p) : IsPrefix(q, l)
      BY <1>1, <1>2, <1>10, <2>4, <3>1, <3>2, SiblingsCover
    <3> QED
      BY <1>5, <3>3
  <2> QED
    BY <2>3, <2>4
<1>11. ASSUME NEW l \in Parts((S \ X) \cup {r}) PROVE l \in Parts(S)
  <2> HIDE DEF r, X
  <2>1. PICK q \in (S \ X) \cup {r} : IsPrefix(q, l) /\ l \in Leaves
    BY PartsFacts
  <2>2. \E o \in S : IsPrefix(o, l)
    BY <1>10, <2>1
  <2> QED
    BY <2>1, <2>2, PartsFacts
<1> QED
  BY <1>7, <1>9, <1>11

LEMMA CollapseFacts ==
  ASSUME NEW S, InitIsState(S), NEW p, IsAssignable(p)
  PROVE  InitIsState(collapse(S, p)) /\ Parts(collapse(S, p)) = Parts(S)
<1> DEFINE m == Len(p) - 1
           f == K!Iterated(p, S, m)
           G == {k \in 0 .. m : InitIsState(f[k]) /\ Parts(f[k]) = Parts(S)}
<1>1. m \in Nat
  <2>1. IsSequence(p) /\ p # NoPlace
    BY DEF IsAssignable, IsUsable, IsPlace
  <2> QED
    BY <2>1 DEF IsSequence, NoPlace
<1>2. collapse(S, p) = f[m]
  BY DEF collapse, K!Iterated, CollapseStep, Expansion
<1> HIDE DEF m
<1>3. f[0] = S /\ \A k \in 1 .. m : f[k] = CollapseStep(p, k, f[k - 1])
  BY <1>1, K!IterationUnfolds
<1> HIDE DEF f
<1>4. 0 \in G
  BY <1>1, <1>3
<1>5. ASSUME NEW k \in 0 .. m - 1, k \in G PROVE k + 1 \in G
  <2>1. k + 1 \in 1 .. m /\ f[k + 1] = CollapseStep(p, k + 1, f[k])
    BY <1>1, <1>3
  <2>2. k + 1 \in 1 .. Len(p) - 1 /\ InitIsState(f[k]) /\ Parts(f[k]) = Parts(S)
    BY <1>5, <2>1 DEF m
  <2>3. InitIsState(f[k + 1]) /\ Parts(f[k + 1]) = Parts(f[k])
    BY <2>1, <2>2, CollapseStepFacts
  <2> QED
    BY <1>1, <2>1, <2>2, <2>3
<1> HIDE DEF G
<1>6. m \in G
  BY <1>1, <1>4, <1>5, K!IndexInduction
<1> QED
  BY <1>2, <1>6 DEF G

\* After an assignment, exactly the parts of the assigned place are claimed in addition.
LEMMA InitialisedFacts ==
  ASSUME NEW S, InitIsState(S), NEW p, IsAssignable(p)
  PROVE  /\ InitIsState(set_place_initialised(S, p))
         /\ Parts(set_place_initialised(S, p)) = Parts(S) \cup Parts({p})
<1>1. IsSequence(p) /\ p # NoPlace /\ \A q \in S : IsSequence(q)
  BY DEF IsAssignable, IsUsable, IsPlace, InitIsState
<1>2. CASE \E current \in S : is_prefix(p, current)
  <2>1. PICK q \in S : IsPrefix(q, p)
    BY <1>2 DEF is_prefix
  <2>2. \A l \in Parts({p}) : IsSequence(l) /\ l \in Leaves /\ IsPrefix(p, l)
    BY PartsFacts
  <2>3. Parts({p}) \subseteq Parts(S)
    BY <1>1, <2>1, <2>2, PrefixTransitive, PartsFacts
  <2> QED
    BY <1>2, <2>3 DEF set_place_initialised
<1>3. CASE ~\E current \in S : is_prefix(p, current)
  <2> DEFINE T == {current \in S : ~is_prefix(current, p)} \cup {p}
  <2>1. set_place_initialised(S, p) = collapse(T, p) /\ InitIsState(T)
    BY <1>1, <1>3 DEF set_place_initialised, InitIsState
  <2>2. Parts(T) = Parts(S) \cup Parts({p})
    <3>1. ASSUME NEW l, l \in Parts(S) PROVE l \in Parts(T)
      <4>1. PICK q \in S : IsPrefix(q, l) /\ l \in Leaves /\ IsSequence(l)
        BY <3>1, PartsFacts
      <4>2. CASE IsPrefix(p, q)
        <5>1. IsPrefix(p, l)
          BY <1>1, <4>1, <4>2, PrefixTransitive
        <5> QED
          BY <4>1, <5>1, PartsFacts
      <4>3. CASE ~IsPrefix(p, q)
        <5>1. q \in T
          BY <4>3 DEF is_prefix
        <5> QED
          BY <4>1, <5>1, PartsFacts
      <4> QED
        BY <4>2, <4>3
    <3>2. \A l : l \in Parts({p}) => l \in Parts(T)
      BY PartsFacts
    <3>3. \A l : l \in Parts(T) => l \in Parts(S) \/ l \in Parts({p})
      BY PartsFacts
    <3> QED
      BY <3>1, <3>2, <3>3
  <2> HIDE DEF T
  <2> QED
    BY <2>1, <2>2, CollapseFacts
<1> QED
  BY <1>2, <1>3

AreOperands(moves) == IsSequence(moves) /\ \A p \in Range(moves) : IsUsable(p)

\* After all operands were moved, none of their parts is claimed; of the leaves that
\* are reached through fields no other is lost.
LEMMA OperandFacts ==
  ASSUME NEW S, InitIsState(S), NEW moves, AreOperands(moves)
  PROVE  LET T == apply_operand_effects(S, moves) IN
           /\ InitIsState(T)
           /\ Parts(T) \subseteq Parts(S) \ Parts(Range(moves))
           /\ FieldLeaves \cap (Parts(S) \ Parts(Range(moves))) \subseteq Parts(T)
<1> DEFINE m == Len(moves)
           f == U!Iterated(moves, S, m)
           Gone(k) == {l \in Leaves : \E j \in 1 .. k : IsPrefix(moves[j], l)}
           Good(k) == /\ InitIsState(f[k])
                      /\ Parts(f[k]) \subseteq Parts(S) \ Gone(k)
                      /\ FieldLeaves \cap (Parts(S) \ Gone(k)) \subseteq Parts(f[k])
           G == {k \in 0 .. m : Good(k)}
<1>1. m \in Nat /\ DOMAIN moves = 1 .. m /\ \A j \in 1 .. m : IsUsable(moves[j])
  BY SequenceFacts DEF AreOperands, Range
<1>2. apply_operand_effects(S, moves) = f[m]
  BY DEF apply_operand_effects, U!Iterated, MoveStep
<1>3. Parts(Range(moves)) = Gone(m)
  BY <1>1, PartsFacts DEF Range
<1> HIDE DEF m
<1>4. f[0] = S /\ \A k \in 1 .. m : f[k] = set_place_uninitialised(f[k - 1], moves[k])
  BY <1>1, U!IterationUnfolds DEF MoveStep
<1> HIDE DEF f
<1>5. 0 \in G
  BY <1>1, <1>4
<1>6. ASSUME NEW k \in 0 .. m - 1, k \in G PROVE k + 1 \in G
  <2>1. k + 1 \in 1 .. m /\ f[k + 1] = set_place_uninitialised(f[k], moves[k + 1])
    BY <1>1, <1>4
  <2> DEFINE here == Parts({moves[k + 1]})
  <2>2. /\ InitIsState(f[k + 1])
        /\ Parts(f[k + 1]) \subseteq Parts(f[k]) \ here
        /\ FieldLeaves \cap (Parts(f[k]) \ here) \subseteq Parts(f[k + 1])
    <3>1. InitIsState(f[k]) /\ IsUsable(moves[k + 1])
      BY <1>1, <1>6, <2>1
    <3> HIDE DEF Good, Gone, G
    <3>2. PICK W, p : W = f[k] /\ p = moves[k + 1]
      OBVIOUS
    <3>3. InitIsState(W) /\ IsUsable(p)
      BY <3>1, <3>2
    <3>4. LET T == set_place_uninitialised(W, p) IN
            /\ InitIsState(T)
            /\ Parts(T) \subseteq Parts(W) \ Parts({p})
            /\ FieldLeaves \cap (Parts(W) \ Parts({p})) \subseteq Parts(T)
      BY <3>3, UninitialisedFacts, Zenon
    <3> QED
      BY <2>1, <3>2, <3>4, Zenon
  <2>3. Gone(k + 1) = Gone(k) \cup here
    <3>1. \A j : j \in 1 .. k + 1 <=> j \in 1 .. k \/ j = k + 1
      BY <1>1
    <3>2. here = {l \in Leaves : IsPrefix(moves[k + 1], l)}
      BY DEF Parts, is_prefix
    <3> QED
      BY <3>1, <3>2
  <2> HIDE DEF Gone, here
  <2>4. Good(k + 1)
    BY <1>6, <2>2, <2>3
  <2> QED
    BY <2>1, <2>4, <1>1
<1> HIDE DEF G, Good, Gone
<1>7. m \in G
  <2>1. 0 .. m \subseteq G
    BY <1>1, <1>5, <1>6, U!IndexInduction
  <2> QED
    BY <1>1, <2>1
<1>8. Good(m)
  BY <1>7 DEF G
<1> QED
  BY <1>2, <1>3, <1>8 DEF Good

\* A join claims what both states claim.
LEMMA JoinFacts ==
  ASSUME NEW S, NEW T, InitIsState(S), InitIsState(T)
  PROVE  InitIsState(InitJoin(S, T)) /\ Parts(InitJoin(S, T)) = Parts(S) \cap Parts(T)
<1>1. \A p \in S \cup T : IsSequence(p)
  BY DEF InitIsState
<1>2. /\ \A p \in S : p \in InitJoin(S, T) <=> (p \in T /\ \E q \in S : IsPrefix(q, p)) \/ (\E q \in T : IsPrefix(q, p))
      /\ \A p \in T : p \in InitJoin(S, T) <=> (p \in S /\ \E q \in T : IsPrefix(q, p)) \/ (\E q \in S : IsPrefix(q, p))
      /\ InitJoin(S, T) \subseteq S \cup T
  BY DEF InitJoin, is_prefix
<1>3. ASSUME NEW l \in Parts(InitJoin(S, T)) PROVE l \in Parts(S) /\ l \in Parts(T)
  <2>1. IsSequence(l) /\ l \in Leaves
    BY PartsFacts
  <2>2. PICK p \in InitJoin(S, T) : IsPrefix(p, l)
    BY PartsFacts
  <2>3. \/ p \in S /\ \E q \in T : IsPrefix(q, p)
        \/ p \in T /\ \E q \in S : IsPrefix(q, p)
    BY <2>2 DEF InitJoin, is_prefix
  <2> QED
    BY <1>1, <2>1, <2>2, <2>3, PrefixTransitive, PartsFacts
<1>4. ASSUME NEW l \in Parts(S), l \in Parts(T) PROVE l \in Parts(InitJoin(S, T))
  <2>1. IsSequence(l) /\ l \in Leaves
    BY PartsFacts
  <2>2. PICK p \in S : IsPrefix(p, l)
    BY PartsFacts
  <2>3. PICK q \in T : IsPrefix(q, l)
    BY <1>4, PartsFacts
  <2>4. IsPrefix(p, q) \/ IsPrefix(q, p)
    BY <1>1, <2>1, <2>2, <2>3, PrefixesComparable
  <2>5. p \in InitJoin(S, T) \/ q \in InitJoin(S, T)
    BY <2>4 DEF InitJoin, is_prefix
  <2> QED
    BY <2>1, <2>2, <2>3, <2>5, PartsFacts
<1>5. InitIsState(InitJoin(S, T))
  BY <1>2 DEF InitIsState
<1> QED
  BY <1>3, <1>4, <1>5

-----------------------------------------------------------------------------
(* The steps of the domain, and the concrete ones. *)

\* What is used of a body.
LEMMA BodyFacts ==
  ASSUME NEW bdy \in Bodies, NEW b \in DOMAIN bdy
  PROVE  LET t == bdy[b].terminator IN
           /\ terminator_index(bdy, b) \in Nat
           /\ Len(bdy[b].statements) = terminator_index(bdy, b)
           /\ IsSequence(t.targets) /\ successors(bdy, b) \subseteq DOMAIN bdy
           /\ \A i \in 1 .. terminator_index(bdy, b) :
                /\ AreOperands(bdy[b].statements[i].moves)
                /\ bdy[b].statements[i].target # NoPlace => IsAssignable(bdy[b].statements[i].target)
           /\ AreOperands(t.moves)
           /\ t.kind = "Drop" => IsUsable(t.place)
           /\ t.kind = "DropAndReplace" => IsAssignable(t.place)
           /\ t.kind = "Call" /\ t.place # NoPlace => IsAssignable(t.place)
<1>1. WellFormed(bdy) /\ UsesPlaces(bdy)
  BY PlacesAssumption
<1>2. /\ IsSequence(bdy[b].statements) /\ IsSequence(bdy[b].terminator.targets)
      /\ successors(bdy, b) \subseteq DOMAIN bdy
  BY <1>1 DEF WellFormed
<1>3. /\ terminator_index(bdy, b) \in Nat /\ Len(bdy[b].statements) = terminator_index(bdy, b)
      /\ DOMAIN bdy[b].statements = 1 .. terminator_index(bdy, b)
  BY <1>2, SequenceFacts DEF terminator_index
<1>4. \A i \in 1 .. terminator_index(bdy, b) : bdy[b].statements[i] \in Range(bdy[b].statements)
  BY <1>3 DEF Range
<1> QED
  BY <1>1, <1>2, <1>3, <1>4 DEF UsesPlaces, AreOperands

\* From the claims of S to those of T: the leaves in gone are moved or dropped, then
\* those in new are initialised.
Transfers(S, T, gone, new) ==
  /\ InitIsState(T)
  /\ Parts(T) \subseteq (Parts(S) \ gone) \cup new
  /\ FieldLeaves \cap ((Parts(S) \ gone) \cup new) \subseteq Parts(T)

LEMMA TransferFacts ==
  ASSUME NEW S, NEW T, NEW gone, NEW new, Transfers(S, T, gone, new)
  PROVE  /\ \A c : OnlyInitialised(S, c) => OnlyInitialised(T, (c \ gone) \cup new)
         /\ \A C : AllInitialised(S, C) /\ C # {} => AllInitialised(T, {(c \ gone) \cup new : c \in C})
<1>1. \A c : OnlyInitialised(S, c) => OnlyInitialised(T, (c \ gone) \cup new)
  BY DEF Transfers, OnlyInitialised
<1>2. ASSUME NEW C, AllInitialised(S, C), C # {}
      PROVE  AllInitialised(T, {(c \ gone) \cup new : c \in C})
  <2> SUFFICES ASSUME NEW l \in FieldLeaves, \A c \in C : l \in (c \ gone) \cup new
               PROVE  l \in Parts(T)
    BY DEF AllInitialised
  <2>1. CASE l \in new
    BY <2>1 DEF Transfers
  <2>2. CASE l \notin new
    <3>1. (\A c \in C : l \in c) /\ l \notin gone
      BY <1>2, <2>2
    <3>2. l \in Parts(S)
      BY <1>2, <3>1 DEF AllInitialised
    <3> QED
      BY <3>1, <3>2 DEF Transfers
  <2> QED
    BY <2>1, <2>2
<1> QED
  BY <1>1, <1>2

\* What a statement does to the claims is what it does to the concrete states.
RunsAs(S, stmt, location) ==
  \E gone, new : /\ Transfers(S, InitStatement(stmt, location, S), gone, new)
                 /\ gone \subseteq Leaves /\ new \subseteq Leaves
                 /\ \A c : Exec(c, stmt, location) = (c \ gone) \cup new

\* A statement.
LEMMA StatementFacts ==
  ASSUME NEW S, InitIsState(S), NEW stmt, NEW location, AreOperands(stmt.moves),
         stmt.target # NoPlace => IsAssignable(stmt.target)
  PROVE  RunsAs(S, stmt, location)
<1> USE DEF RunsAs
<1>1. CASE stmt.target = NoPlace
  <2>1. Transfers(S, InitStatement(stmt, location, S), {}, {})
    BY <1>1 DEF Transfers, InitStatement, NoPlace
  <2>2. \A c : Exec(c, stmt, location) = (c \ {}) \cup {}
    BY <1>1 DEF Exec
  <2> QED
    BY <2>1, <2>2
<1>2. CASE stmt.target # NoPlace
  <2> DEFINE T == apply_operand_effects(S, stmt.moves)
             N == InitStatement(stmt, location, S)
             gone == Parts(Range(stmt.moves))
             new == Parts({stmt.target})
  <2>1. N = set_place_initialised(T, stmt.target) /\ \A c : Exec(c, stmt, location) = (c \ gone) \cup new
    BY <1>2 DEF InitStatement, NoPlace, Exec, Moved
  <2>2. /\ InitIsState(T) /\ Parts(T) \subseteq Parts(S) \ gone
        /\ FieldLeaves \cap (Parts(S) \ gone) \subseteq Parts(T)
    BY OperandFacts
  <2>3. gone \subseteq Leaves /\ new \subseteq Leaves
    BY DEF Parts
  <2> HIDE DEF T
  <2>4. InitIsState(N) /\ Parts(N) = Parts(T) \cup new
    BY <1>2, <2>1, <2>2, InitialisedFacts
  <2> HIDE DEF N, gone, new
  <2>5. Transfers(S, N, gone, new)
    BY <2>2, <2>4 DEF Transfers
  <2> QED
    BY <2>1, <2>3, <2>5 DEF N
<1> QED
  BY <1>1, <1>2

\* The statements of a body.
LEMMA BlockStatementFacts ==
  ASSUME NEW bdy \in Bodies, NEW b \in DOMAIN bdy, NEW i \in 1 .. terminator_index(bdy, b),
         NEW S, InitIsState(S)
  PROVE  RunsAs(S, bdy[b].statements[i], <<b, i - 1>>)
<1> DEFINE stmt == bdy[b].statements[i]
           location == <<b, i - 1>>
<1>1. AreOperands(stmt.moves) /\ (stmt.target # NoPlace => IsAssignable(stmt.target))
  BY BodyFacts
<1> HIDE DEF stmt, location
<1>2. RunsAs(S, stmt, location)
  BY <1>1, StatementFacts
<1> QED
  BY <1>2 DEF stmt, location

\* The leaves after a terminator, on its normal edges and when it unwinds.
Normally(c, t) == CHOOSE d : Leave(c, t, 0) = {d}
Unwinding(c, t) == CHOOSE d : Unwind(c, t, 0) = {d}

LEMMA OutcomeSingletons ==
  ASSUME NEW c, NEW t, NEW location
  PROVE  /\ Leave(c, t, location) = {Normally(c, t)} /\ Unwind(c, t, location) = {Unwinding(c, t)}
         /\ c \subseteq Leaves => Unwinding(c, t) \subseteq Leaves
<1>1. \E d : Leave(c, t, 0) = {d}
  BY DEF Leave
<1>2. PICK d : Unwind(c, t, 0) = {d} /\ (c \subseteq Leaves => d \subseteq Leaves)
  BY DEF Unwind, Moved
<1>3. Leave(c, t, 0) = {Normally(c, t)} /\ Unwind(c, t, 0) = {Unwinding(c, t)}
  BY <1>1, <1>2 DEF Normally, Unwinding
<1>4. Leave(c, t, location) = Leave(c, t, 0) /\ Unwind(c, t, location) = Unwind(c, t, 0)
  BY DEF Leave, Unwind
<1>5. Unwinding(c, t) = d
  BY <1>2, <1>3
<1> QED
  BY <1>2, <1>3, <1>4, <1>5

\* A terminator, on its normal edges.
LEMMA TerminatorFacts ==
  ASSUME NEW bdy \in Bodies, NEW b \in DOMAIN bdy, NEW S, InitIsState(S)
  PROVE  LET t == bdy[b].terminator IN
           \E gone, new : /\ Transfers(S, AfterTerminator(t, S), gone, new)
                          /\ gone \subseteq Leaves /\ new \subseteq Leaves
                          /\ \A c : Normally(c, t) = (c \ gone) \cup new
<1> DEFINE t == bdy[b].terminator
           T == AfterTerminator(t, S)
           M == apply_operand_effects(S, t.moves)
           moved == Parts(Range(t.moves))
           place == Parts({t.place})
<1>1. /\ AreOperands(t.moves)
      /\ t.kind = "Drop" => IsUsable(t.place)
      /\ t.kind = "DropAndReplace" => IsAssignable(t.place)
      /\ t.kind = "Call" /\ t.place # NoPlace => IsAssignable(t.place)
  BY BodyFacts
<1>2. moved \subseteq Leaves /\ place \subseteq Leaves
  BY DEF Parts
<1>3. \A c, d : Leave(c, t, 0) = {d} => Normally(c, t) = d
  BY OutcomeSingletons
<1>4. /\ InitIsState(M) /\ Parts(M) \subseteq Parts(S) \ moved
      /\ FieldLeaves \cap (Parts(S) \ moved) \subseteq Parts(M)
  BY <1>1, OperandFacts
<1>5. CASE t.kind = "Drop"
  <2>1. T = set_place_uninitialised(S, t.place) /\ \A c : Leave(c, t, 0) = {(c \ place) \cup {}}
    BY <1>5 DEF AfterTerminator, Leave
  <2>2. Transfers(S, T, place, {})
    BY <1>1, <1>5, <2>1, UninitialisedFacts DEF Transfers
  <2> HIDE DEF T, place, t
  <2> QED
    BY <1>2, <1>3, <2>1, <2>2 DEF T, t
<1>6. CASE t.kind = "DropAndReplace"
  <2> DEFINE D == set_place_uninitialised(S, t.place)
             E == apply_operand_effects(D, t.moves)
  <2>1. T = set_place_initialised(E, t.place) /\ \A c : Leave(c, t, 0) = {(c \ moved) \cup place}
    BY <1>6 DEF AfterTerminator, Leave, Moved
  <2>2. IsUsable(t.place) /\ IsAssignable(t.place)
    BY <1>1, <1>6 DEF IsAssignable
  <2>3. /\ InitIsState(D) /\ Parts(D) \subseteq Parts(S) \ place
        /\ FieldLeaves \cap (Parts(S) \ place) \subseteq Parts(D)
    <3>1. PICK p : p = t.place
      OBVIOUS
    <3>2. IsUsable(p)
      BY <2>2, <3>1
    <3>3. LET R == set_place_uninitialised(S, p) IN
            /\ InitIsState(R) /\ Parts(R) \subseteq Parts(S) \ Parts({p})
            /\ FieldLeaves \cap (Parts(S) \ Parts({p})) \subseteq Parts(R)
      BY <3>2, UninitialisedFacts, Zenon
    <3> QED
      BY <3>1, <3>3, Zenon
  <2> HIDE DEF D
  <2>4. /\ InitIsState(E) /\ Parts(E) \subseteq Parts(D) \ moved
        /\ FieldLeaves \cap (Parts(D) \ moved) \subseteq Parts(E)
    BY <1>1, <2>3, OperandFacts
  <2> HIDE DEF E
  <2>5. InitIsState(T) /\ Parts(T) = Parts(E) \cup place
    BY <2>1, <2>2, <2>4, InitialisedFacts
  <2> HIDE DEF T, place, moved, t
  <2>6. Transfers(S, T, moved, place)
    BY <2>3, <2>4, <2>5 DEF Transfers
  <2> QED
    BY <1>2, <1>3, <2>1, <2>6 DEF T, t
<1>7. CASE t.kind = "Call" /\ t.place # NoPlace
  <2>1. T = set_place_initialised(M, t.place) /\ \A c : Leave(c, t, 0) = {(c \ moved) \cup place}
    <3>1. {t.place} \ {NoPlace} = {t.place}
      BY <1>7
    <3>2. T = set_place_initialised(M, t.place)
      BY <1>7 DEF AfterTerminator, NoPlace
    <3>3. \A c : Leave(c, t, 0) = {Moved(c, t.moves) \cup Parts({t.place} \ {NoPlace})}
      BY <1>7 DEF Leave
    <3> QED
      BY <3>1, <3>2, <3>3 DEF Moved
  <2> HIDE DEF M
  <2>2. InitIsState(T) /\ Parts(T) = Parts(M) \cup place
    BY <1>1, <1>4, <1>7, <2>1, InitialisedFacts
  <2> HIDE DEF T, place, moved, t
  <2>3. Transfers(S, T, moved, place)
    BY <1>4, <2>2 DEF Transfers
  <2> QED
    BY <1>2, <1>3, <2>1, <2>3 DEF T, t
<1>8. CASE t.kind \notin {"Drop", "DropAndReplace"} /\ ~(t.kind = "Call" /\ t.place # NoPlace)
  <2>1. T = M /\ \A c : Leave(c, t, 0) = {(c \ moved) \cup {}}
    <3>1. T = M
      BY <1>8 DEF AfterTerminator, NoPlace
    <3>2. t.kind = "Call" => Parts({t.place} \ {NoPlace}) = {}
      BY <1>8 DEF Parts
    <3>3. \A c : Leave(c, t, 0) = {Moved(c, t.moves)}
      <4> TAKE c
      <4>1. CASE t.kind = "Call"
        <5>1. Leave(c, t, 0) = {Moved(c, t.moves) \cup Parts({t.place} \ {NoPlace})}
          BY <4>1 DEF Leave
        <5> QED
          BY <3>2, <4>1, <5>1
      <4>2. CASE t.kind # "Call"
        BY <1>8, <4>2 DEF Leave
      <4> QED
        BY <4>1, <4>2
    <3> QED
      BY <3>1, <3>3 DEF Moved
  <2> HIDE DEF M
  <2>2. Transfers(S, M, moved, {})
    BY <1>4 DEF Transfers
  <2> HIDE DEF T, place, moved, t
  <2> QED
    BY <1>2, <1>3, <2>1, <2>2 DEF T, t
<1> QED
  BY <1>5, <1>6, <1>7, <1>8

-----------------------------------------------------------------------------
(* P and A name the same analyzer. *)

LEMMA SameMir ==
  /\ \A S : P!Cardinality(S) = Cardinality(S) /\ P!IsFiniteSet(S) = IsFiniteSet(S)
            /\ A!Cardinality(S) = Cardinality(S) /\ U!IsFiniteSet(S) = IsFiniteSet(S)
  /\ \A s : /\ P!Range(s) = Range(s) /\ A!Range(s) = Range(s) /\ U!Range(s) = Range(s)
            /\ P!IsSequence(s) = IsSequence(s) /\ U!IsSequence(s) = IsSequence(s)
  /\ \A bdy, b : /\ P!successors(bdy, b) = successors(bdy, b)
                 /\ A!successors(bdy, b) = successors(bdy, b)
                 /\ P!Unwinds(bdy, b) = Unwinds(bdy, b)
                 /\ U!Unwinds(bdy, b) = Unwinds(bdy, b) /\ U!successors(bdy, b) = successors(bdy, b)
                 /\ P!terminator_index(bdy, b) = terminator_index(bdy, b)
                 /\ A!terminator_index(bdy, b) = terminator_index(bdy, b)
  /\ P!START_BLOCK = START_BLOCK /\ A!START_BLOCK = START_BLOCK
  /\ \A bdy : P!WellFormed(bdy) = WellFormed(bdy)
<1>1. \A S : P!Cardinality(S) = Cardinality(S) /\ P!IsFiniteSet(S) = IsFiniteSet(S)
             /\ A!Cardinality(S) = Cardinality(S) /\ U!IsFiniteSet(S) = IsFiniteSet(S)
  BY DEF U!IsFiniteSet, A!Cardinality, P!Cardinality, Cardinality, A!IsFiniteSet, P!IsFiniteSet, IsFiniteSet
<1>2. \A s : /\ P!Range(s) = Range(s) /\ A!Range(s) = Range(s) /\ U!Range(s) = Range(s)
             /\ P!IsSequence(s) = IsSequence(s) /\ U!IsSequence(s) = IsSequence(s)
  BY DEF P!Range, A!Range, U!Range, Range, P!IsSequence, U!IsSequence, IsSequence
<1>3. P!START_BLOCK = START_BLOCK /\ A!START_BLOCK = START_BLOCK
  BY DEF P!START_BLOCK, A!START_BLOCK, START_BLOCK
<1>4. \A bdy, b : /\ P!successors(bdy, b) = successors(bdy, b)
                  /\ A!successors(bdy, b) = successors(bdy, b)
                  /\ P!Unwinds(bdy, b) = Unwinds(bdy, b)
                  /\ U!Unwinds(bdy, b) = Unwinds(bdy, b) /\ U!successors(bdy, b) = successors(bdy, b)
                  /\ P!terminator_index(bdy, b) = terminator_index(bdy, b)
                  /\ A!terminator_index(bdy, b) = terminator_index(bdy, b)
  BY <1>2 DEF A!successors, P!successors, U!successors, successors, A!Unwinds, P!Unwinds, U!Unwinds, Unwinds,
     A!NoBlock, P!NoBlock, U!NoBlock, NoBlock, A!terminator_index, P!terminator_index, terminator_index
<1>5. \A bdy : P!WellFormed(bdy) = WellFormed(bdy)
  BY <1>2, <1>4 DEF P!WellFormed, WellFormed
<1> QED
  BY <1>1, <1>2, <1>3, <1>4, <1>5

\* The operators over the state, and the steps.
LEMMA SameSteps ==
  /\ A!Init <=> P!Init
  /\ A!Next <=> P!Next
  /\ A!FixedPoint <=> P!FixedPoint
  /\ \A bdy, s, in : A!JoinIncoming(bdy, s, in) = P!JoinIncoming(bdy, s, in)
<1>1. A!Init <=> P!Init
  BY DEF A!Init, P!Init
<1>2. \A b : A!Incoming(b) = P!Incoming(b)
  BY SameMir DEF A!Incoming, P!Incoming
<1>3. \A bdy, s, in : A!JoinIncoming(bdy, s, in) = P!JoinIncoming(bdy, s, in)
  BY SameMir DEF A!JoinIncoming, P!JoinIncoming
<1>4. \A b : A!Visit(b) = P!Visit(b)
  BY SameMir, <1>2, <1>3 DEF A!Visit, P!Visit, A!BlockStates, P!BlockStates, A!EntryState, P!EntryState
<1>5. \A b : A!Leave(b) = P!Leave(b)
  BY SameMir, <1>4 DEF A!Leave, P!Leave
<1>6. \A s : A!EdgeStates(s) = P!EdgeStates(s)
  BY DEF A!EdgeStates, P!EdgeStates, A!Insert, P!Insert
<1>7. A!Next <=> P!Next
  BY SameMir, <1>4, <1>5, <1>6 DEF A!Next, P!Next, A!AnalyzeBlock, P!AnalyzeBlock,
     A!Finish, P!Finish, A!Blocks, P!Blocks, A!Insert, P!Insert, A!Changed, P!Changed
<1>8. A!FixedPoint <=> P!FixedPoint
  BY SameMir, <1>4, <1>5, <1>6 DEF A!FixedPoint, P!FixedPoint, A!Settled, P!Settled, A!Blocks, P!Blocks
<1> QED
  BY <1>1, <1>3, <1>7, <1>8

\* The conversion of the result is not a step of the analyzer.
LEMMA SameAnalyzer == Spec => P!Spec
<1>1. Init => P!Init
  BY SameSteps DEF Init
<1>2. [Next]_vars => [P!Next]_(P!vars)
  BY SameSteps DEF Next, Analyze, Convert, analysis, vars, P!vars
<1> QED
  BY <1>1, <1>2, PTL DEF Spec, P!Spec

-----------------------------------------------------------------------------
(* The domain is sound and precise. *)

\* The pairs of the terminator.
LEMMA PairsFacts ==
  ASSUME NEW bdy \in Bodies, NEW b \in DOMAIN bdy, NEW S
  PROVE  U!ArePairs(P!PairsOf(bdy, b, S), bdy, b, AfterTerminator(bdy[b].terminator, S), InitTop)
<1> DEFINE t == bdy[b].terminator
           pairs == EdgePairs(t, AfterTerminator(t, S), InitTop)
<1>1. P!PairsOf(bdy, b, S) = pairs
  BY SameMir DEF P!PairsOf, InitTerminator
<1>2. \A after, unwound : U!EdgePairs(t, after, unwound) = EdgePairs(t, after, unwound)
  BY DEF U!EdgePairs, EdgePairs, U!NoBlock, NoBlock
<1>3. U!IsSequence(t.targets)
  BY BodyFacts, SameMir
<1> QED
  BY <1>1, <1>2, <1>3, U!EdgePairsFacts

LEMMA OutcomeFacts ==
  ASSUME NEW bdy \in Bodies, NEW b \in DOMAIN bdy, NEW c
  PROVE  LET t == bdy[b].terminator IN
           P!Outcomes(bdy, b, c) = (Range(t.targets) \X {Normally(c, t)}) \cup (Unwinds(bdy, b) \X {Unwinding(c, t)})
  BY OutcomeSingletons, SameMir DEF P!Outcomes

\* The states that are made without a step.
LEMMA SimpleStates ==
  ASSUME NEW bdy
  PROVE  /\ InitIsState(InitBottom(bdy)) /\ InitIsState(InitInitial(bdy)) /\ InitIsState(InitTop)
         /\ Parts(InitTop) = {} /\ Leaves \subseteq Parts(InitBottom(bdy))
<1>1. \A x : IsSequence(<<x>>) /\ <<x>> # NoPlace /\ Len(<<x>>) = 1 /\ <<x>>[1] = x
  <2> TAKE x
  <2>1. <<x>> \in Seq({x})
    OBVIOUS
  <2> QED
    BY <2>1, SequenceFacts DEF NoPlace
<1>2. InitIsState(InitBottom(bdy)) /\ InitIsState(InitInitial(bdy)) /\ InitIsState(InitTop)
  BY <1>1 DEF InitIsState, InitBottom, InitInitial, InitTop
<1>3. Parts(InitTop) = {}
  BY DEF Parts, InitTop
<1>4. ASSUME NEW l \in Leaves PROVE l \in Parts(InitBottom(bdy))
  <2>1. IsSequence(l) /\ l # NoPlace /\ l[1] \in Locals
    BY PartsFacts DEF IsPlace
  <2>2. Len(l) >= 1
    BY <2>1 DEF IsSequence, NoPlace
  <2> DEFINE q == <<l[1]>>
  <2>3. q \in InitBottom(bdy) /\ IsSequence(q) /\ Len(q) = 1 /\ q[1] = l[1]
    BY <1>1, <2>1 DEF InitBottom
  <2> HIDE DEF q
  <2>4. IsPrefix(q, l)
    <3>1. Len(q) <= Len(l) /\ \A i \in 1 .. Len(q) : q[i] = l[i]
      <4>1. \A i \in 1 .. 1 : i = 1
        OBVIOUS
      <4> QED
        BY <2>2, <2>3, <4>1
    <3> QED
      BY <2>1, <2>3, <3>1, PrefixFacts
  <2> QED
    BY <2>3, <2>4, PartsFacts
<1> QED
  BY <1>2, <1>3, <1>4

LEMMA InitDomainOK == P!DomainOK
<1>1. P!WellFormedBodies
  BY PlacesAssumption, SameMir DEF P!WellFormedBodies
<1>2. P!ClosedDomain
  <2>1. ASSUME NEW bdy \in Bodies, NEW b \in DOMAIN bdy, NEW S, InitIsState(S)
        PROVE  /\ \A i \in 1 .. terminator_index(bdy, b) :
                    InitIsState(InitStatement(bdy[b].statements[i], <<b, i - 1>>, S))
               /\ P!PairsOf(bdy, b, S) \in Seq(P!Range(P!PairsOf(bdy, b, S)))
               /\ \A i \in DOMAIN P!PairsOf(bdy, b, S) : InitIsState(P!PairsOf(bdy, b, S)[i].state)
    <3>1. \A i \in 1 .. terminator_index(bdy, b) :
            InitIsState(InitStatement(bdy[b].statements[i], <<b, i - 1>>, S))
      BY <2>1, BlockStatementFacts DEF Transfers, RunsAs
    <3>2. InitIsState(AfterTerminator(bdy[b].terminator, S)) /\ InitIsState(InitTop)
      BY <2>1, TerminatorFacts, SimpleStates DEF Transfers
    <3> QED
      BY <3>1, <3>2, PairsFacts, SameMir DEF U!ArePairs
  <2>2. \A S, T : InitIsState(S) /\ InitIsState(T) => InitIsState(InitJoin(S, T))
    BY JoinFacts
  <2>3. \A bdy \in Bodies : InitIsState(InitBottom(bdy)) /\ InitIsState(InitInitial(bdy))
    BY SimpleStates
  <2> QED
    BY <2>1, <2>2, <2>3, SameMir DEF P!ClosedDomain
<1>3. P!ClosedSemantics
  <2> SUFFICES ASSUME NEW bdy \in Bodies
               PROVE  /\ IsFiniteSet(InitStates(bdy))
                      /\ InitStart(bdy) \subseteq InitStates(bdy)
                      /\ \A b \in DOMAIN bdy : \A c \in InitStates(bdy) :
                           /\ \A i \in 1 .. terminator_index(bdy, b) :
                                Exec(c, bdy[b].statements[i], <<b, i - 1>>) \in InitStates(bdy)
                           /\ P!Outcomes(bdy, b, c) \subseteq (DOMAIN bdy) \X InitStates(bdy)
    BY SameMir DEF P!ClosedSemantics
  <2>1. IsFiniteSet(InitStates(bdy))
    BY PlacesAssumption, FS_SUBSET DEF InitStates
  <2>2. InitStart(bdy) \subseteq InitStates(bdy)
    BY DEF InitStart, InitStates, Parts
  <2>3. InitIsState({})
    BY DEF InitIsState
  <2>4. ASSUME NEW b \in DOMAIN bdy, NEW c \in InitStates(bdy), NEW i \in 1 .. terminator_index(bdy, b)
        PROVE  Exec(c, bdy[b].statements[i], <<b, i - 1>>) \in InitStates(bdy)
    <3> DEFINE stmt == bdy[b].statements[i]
               location == <<b, i - 1>>
    <3>1. RunsAs({}, stmt, location)
      BY <2>3, BlockStatementFacts
    <3> HIDE DEF stmt, location
    <3>2. PICK gone, new : /\ Transfers({}, InitStatement(stmt, location, {}), gone, new)
                           /\ gone \subseteq Leaves /\ new \subseteq Leaves
                           /\ \A d : Exec(d, stmt, location) = (d \ gone) \cup new
      BY <3>1 DEF RunsAs
    <3>3. Exec(c, stmt, location) \in InitStates(bdy)
      BY <3>2 DEF InitStates
    <3> QED
      BY <3>3 DEF stmt, location
  <2>5. ASSUME NEW b \in DOMAIN bdy, NEW c \in InitStates(bdy)
        PROVE  P!Outcomes(bdy, b, c) \subseteq (DOMAIN bdy) \X InitStates(bdy)
    <3> DEFINE t == bdy[b].terminator
    <3>1. Normally(c, t) \in InitStates(bdy)
      <4>1. PICK gone, new : /\ Transfers({}, AfterTerminator(t, {}), gone, new)
                             /\ gone \subseteq Leaves /\ new \subseteq Leaves
                             /\ \A d : Normally(d, t) = (d \ gone) \cup new
        BY <2>3, TerminatorFacts
      <4> QED
        BY <4>1 DEF InitStates
    <3>2. Unwinding(c, t) \in InitStates(bdy)
      BY OutcomeSingletons DEF InitStates
    <3>3. Range(t.targets) \subseteq DOMAIN bdy /\ Unwinds(bdy, b) \subseteq DOMAIN bdy
      BY BodyFacts DEF successors
    <3> QED
      BY <3>1, <3>2, <3>3, OutcomeFacts
  <2> QED
    BY <2>1, <2>2, <2>4, <2>5
<1> QED
  BY <1>1, <1>2, <1>3 DEF P!DomainOK

\* Only what is initialised is claimed.
LEMMA InitSoundDomain == P!SoundDomain
<1>1. ASSUME NEW bdy \in Bodies, NEW c \in InitStart(bdy) PROVE OnlyInitialised(InitInitial(bdy), c)
  BY DEF InitStart, OnlyInitialised, InitInitial
<1>2. ASSUME NEW S, NEW T, NEW c, InitIsState(S), InitIsState(T),
             OnlyInitialised(S, c) \/ OnlyInitialised(T, c)
      PROVE  OnlyInitialised(InitJoin(S, T), c)
  <2>1. Parts(InitJoin(S, T)) = Parts(S) \cap Parts(T)
    BY <1>2, JoinFacts
  <2> QED
    BY <1>2, <2>1 DEF OnlyInitialised
<1>3. ASSUME NEW bdy \in Bodies, NEW b \in DOMAIN bdy, NEW c \in InitStates(bdy), NEW S,
             InitIsState(S), OnlyInitialised(S, c)
      PROVE  /\ \A i \in 1 .. terminator_index(bdy, b) :
                  OnlyInitialised(InitStatement(bdy[b].statements[i], <<b, i - 1>>, S),
                                  Exec(c, bdy[b].statements[i], <<b, i - 1>>))
             /\ \A y \in P!Outcomes(bdy, b, c) : \E i \in DOMAIN P!PairsOf(bdy, b, S) :
                  /\ P!PairsOf(bdy, b, S)[i].block = y[1]
                  /\ OnlyInitialised(P!PairsOf(bdy, b, S)[i].state, y[2])
  <2>1. ASSUME NEW i \in 1 .. terminator_index(bdy, b)
        PROVE  OnlyInitialised(InitStatement(bdy[b].statements[i], <<b, i - 1>>, S),
                               Exec(c, bdy[b].statements[i], <<b, i - 1>>))
    <3> DEFINE stmt == bdy[b].statements[i]
               location == <<b, i - 1>>
    <3>1. RunsAs(S, stmt, location)
      BY <1>3, BlockStatementFacts
    <3> HIDE DEF stmt, location
    <3>2. PICK gone, new : /\ Transfers(S, InitStatement(stmt, location, S), gone, new)
                           /\ gone \subseteq Leaves /\ new \subseteq Leaves
                           /\ \A d : Exec(d, stmt, location) = (d \ gone) \cup new
      BY <3>1 DEF RunsAs
    <3>3. OnlyInitialised(InitStatement(stmt, location, S), Exec(c, stmt, location))
      BY <1>3, <3>2, TransferFacts
    <3> QED
      BY <3>3 DEF stmt, location
  <2> DEFINE t == bdy[b].terminator
             pairs == P!PairsOf(bdy, b, S)
  <2>2. OnlyInitialised(AfterTerminator(t, S), Normally(c, t))
    <3>1. PICK gone, new : /\ Transfers(S, AfterTerminator(t, S), gone, new)
                           /\ Normally(c, t) = (c \ gone) \cup new
      BY <1>3, TerminatorFacts
    <3> QED
      BY <1>3, <3>1, TransferFacts
  <2>3. OnlyInitialised(InitTop, Unwinding(c, t))
    BY SimpleStates DEF OnlyInitialised
  <2>4. P!Outcomes(bdy, b, c) = (Range(t.targets) \X {Normally(c, t)}) \cup (Unwinds(bdy, b) \X {Unwinding(c, t)})
    BY OutcomeFacts
  <2>5. /\ \A u \in Range(t.targets) : \E i \in DOMAIN pairs :
             pairs[i].block = u /\ pairs[i].state = AfterTerminator(t, S)
        /\ \A u \in Unwinds(bdy, b) : \E i \in DOMAIN pairs :
             pairs[i].block = u /\ pairs[i].state = InitTop
    <3> DEFINE T == AfterTerminator(t, S)
    <3>1. U!ArePairs(pairs, bdy, b, T, InitTop)
      BY PairsFacts
    <3> HIDE DEF pairs, T
    <3>2. U!Range(t.targets) = Range(t.targets) /\ U!Unwinds(bdy, b) = Unwinds(bdy, b)
      BY SameMir
    <3> QED
      BY <3>1, <3>2 DEF U!ArePairs, T
  <2> HIDE DEF pairs, t
  <2>6. \A y \in P!Outcomes(bdy, b, c) : \E i \in DOMAIN pairs :
          pairs[i].block = y[1] /\ OnlyInitialised(pairs[i].state, y[2])
    BY <2>2, <2>3, <2>4, <2>5
  <2> QED
    BY <2>1, <2>6 DEF pairs
<1> QED
  BY <1>1, <1>2, <1>3, SameMir DEF P!SoundDomain

\* Unwinding does not lead to clean blocks.
LEMMA CleanFacts ==
  ASSUME NEW bdy \in Bodies, NEW b \in DOMAIN bdy
  PROVE  /\ Clean(bdy) \subseteq DOMAIN bdy
         /\ successors(bdy, b) \cap Clean(bdy) # {} => b \in Clean(bdy)
         /\ Unwinds(bdy, b) \cap Clean(bdy) = {}
<1>1. U!Clean(bdy) = Clean(bdy)
  <2>1. \A S0, next, W : U!Closure(S0, next, W) = Closure(S0, next, W)
    BY DEF U!Closure, Closure
  <2> QED
    BY <2>1, SameMir DEF U!Clean, Clean, U!ReachableFrom, ReachableFrom
<1>2. U!WellFormed(bdy)
  BY PlacesAssumption, SameMir DEF U!WellFormed, WellFormed
<1> QED
  BY <1>1, <1>2, SameMir, U!CleanFacts

\* What is initialised in all concrete states is claimed.
LEMMA InitPreciseDomain == P!PreciseDomain
<1>1. ASSUME NEW S, NEW C, NEW D, AllInitialised(S, C), C \subseteq D PROVE AllInitialised(S, D)
  BY <1>1 DEF AllInitialised
<1>2. ASSUME NEW S, NEW T, NEW C, InitIsState(S), InitIsState(T), AllInitialised(S, C), AllInitialised(T, C)
      PROVE  AllInitialised(InitJoin(S, T), C)
  <2>1. Parts(InitJoin(S, T)) = Parts(S) \cap Parts(T)
    BY <1>2, JoinFacts
  <2> QED
    BY <1>2, <2>1 DEF AllInitialised
<1>3. ASSUME NEW bdy \in Bodies
      PROVE  /\ InitStart(bdy) # {}
             /\ \A C : AllInitialised(InitBottom(bdy), C)
             /\ AllInitialised(InitInitial(bdy), InitStart(bdy))
  <2>1. \A C : AllInitialised(InitBottom(bdy), C)
    BY SimpleStates DEF AllInitialised, FieldLeaves
  <2> QED
    BY <2>1 DEF InitStart, AllInitialised, InitInitial
<1>4. ASSUME NEW bdy \in Bodies, NEW b \in DOMAIN bdy, NEW c \in InitStates(bdy),
             NEW t \in successors(bdy, b)
      PROVE  \E d : <<t, d>> \in P!Outcomes(bdy, b, c)
  <2> DEFINE k == bdy[b].terminator
  <2>1. P!Outcomes(bdy, b, c) = (Range(k.targets) \X {Normally(c, k)}) \cup (Unwinds(bdy, b) \X {Unwinding(c, k)})
    BY OutcomeFacts
  <2>2. t \in Range(k.targets) \/ t \in Unwinds(bdy, b)
    BY DEF successors
  <2>3. <<t, Normally(c, k)>> \in P!Outcomes(bdy, b, c) \/ <<t, Unwinding(c, k)>> \in P!Outcomes(bdy, b, c)
    BY <2>1, <2>2
  <2> QED
    BY <2>3
<1>5. ASSUME NEW bdy \in Bodies, NEW b \in DOMAIN bdy, NEW C \in SUBSET InitStates(bdy),
             NEW S, InitIsState(S), AllInitialised(S, C), C # {}
      PROVE  /\ \A i \in 1 .. terminator_index(bdy, b) :
                  AllInitialised(InitStatement(bdy[b].statements[i], <<b, i - 1>>, S), P!Execute(bdy, b, i, C))
             /\ \A i \in DOMAIN P!PairsOf(bdy, b, S) :
                  P!PairsOf(bdy, b, S)[i].block \in Clean(bdy) =>
                    AllInitialised(P!PairsOf(bdy, b, S)[i].state,
                                   P!LeadingTo(bdy, b, C, P!PairsOf(bdy, b, S)[i].block))
  <2>1. ASSUME NEW i \in 1 .. terminator_index(bdy, b)
        PROVE  AllInitialised(InitStatement(bdy[b].statements[i], <<b, i - 1>>, S), P!Execute(bdy, b, i, C))
    <3> DEFINE N == InitStatement(bdy[b].statements[i], <<b, i - 1>>, S)
    <3>1. PICK gone, new :
            /\ Transfers(S, N, gone, new)
            /\ gone \subseteq Leaves /\ new \subseteq Leaves
            /\ \A c : Exec(c, bdy[b].statements[i], <<b, i - 1>>) = (c \ gone) \cup new
      BY <1>5, BlockStatementFacts DEF RunsAs
    <3>2. P!Execute(bdy, b, i, C) = {(c \ gone) \cup new : c \in C}
      BY <3>1 DEF P!Execute
    <3>3. AllInitialised(N, {(c \ gone) \cup new : c \in C})
      BY <1>5, <3>1, TransferFacts
    <3> QED
      BY <3>2, <3>3
  <2> DEFINE t == bdy[b].terminator
             T == AfterTerminator(t, S)
  <2>2. PICK gone, new : /\ Transfers(S, T, gone, new) /\ new \subseteq Leaves
                         /\ \A c : Normally(c, t) = (c \ gone) \cup new
    BY <1>5, TerminatorFacts
  <2>3. AllInitialised(T, {(c \ gone) \cup new : c \in C})
    BY <1>5, <2>2, TransferFacts
  <2>4. ASSUME NEW u \in Range(t.targets) PROVE AllInitialised(T, P!LeadingTo(bdy, b, C, u))
    <3>1. \A c \in C : <<u, Normally(c, t)>> \in P!Outcomes(bdy, b, c) /\ Normally(c, t) \in InitStates(bdy)
      <4>1. \A c \in C : <<u, Normally(c, t)>> \in P!Outcomes(bdy, b, c)
        BY <2>4, OutcomeFacts
      <4> QED
        BY <2>2, <4>1 DEF InitStates
    <3>2. {(c \ gone) \cup new : c \in C} \subseteq P!LeadingTo(bdy, b, C, u)
      BY <2>2, <3>1 DEF P!LeadingTo
    <3> QED
      BY <1>1, <2>3, <3>2
  <2>5. ASSUME NEW i \in DOMAIN P!PairsOf(bdy, b, S), P!PairsOf(bdy, b, S)[i].block \in Clean(bdy)
        PROVE  AllInitialised(P!PairsOf(bdy, b, S)[i].state,
                              P!LeadingTo(bdy, b, C, P!PairsOf(bdy, b, S)[i].block))
    <3> DEFINE x == P!PairsOf(bdy, b, S)[i]
    <3>1. \/ x.block \in Range(t.targets) /\ x.state = T
          \/ x.block \in Unwinds(bdy, b)
      BY PairsFacts, SameMir DEF U!ArePairs
    <3>2. x.block \notin Unwinds(bdy, b)
      BY <2>5, CleanFacts
    <3> HIDE DEF x
    <3>3. AllInitialised(x.state, P!LeadingTo(bdy, b, C, x.block))
      BY <2>4, <3>1, <3>2
    <3> QED
      BY <3>3 DEF x
  <2> QED
    BY <2>1, <2>5
<1>6. ASSUME NEW bdy \in Bodies
      PROVE  /\ Clean(bdy) \subseteq DOMAIN bdy
             /\ \A b \in DOMAIN bdy :
                  /\ P!successors(bdy, b) \cap Clean(bdy) # {} => b \in Clean(bdy)
                  /\ \A c \in InitStates(bdy) : \A t \in P!successors(bdy, b) :
                       \E d : <<t, d>> \in P!Outcomes(bdy, b, c)
  BY <1>4, SameMir, CleanFacts DEF Clean
<1>7. ASSUME NEW bdy \in Bodies, NEW b \in Clean(bdy) PROVE P!PreciseSteps(bdy, b)
  <2>1. b \in DOMAIN bdy
    BY <1>6, <1>7
  <2> QED
    BY <1>5, <2>1, SameMir DEF P!PreciseSteps
<1> QED
  BY <1>1, <1>2, <1>3, <1>6, <1>7 DEF P!PreciseDomain

-----------------------------------------------------------------------------
(* The analysis, and the tables that are made from its result. *)

\* The paths of P are the reference.
LEMMA SamePaths ==
  /\ P!Paths(body) = Entries
  /\ \A b, c : P!At(body, b, c) = Along(body, b, c, Exec)
  /\ \A b, c : P!Onwards(body, b, c) = Onward(body, b, c, Exec, Leave, Unwind)
  /\ P!AllReachable(body) = AllReachable(body)
<1>1. \A S0, next, W : P!Closure(S0, next, W) = Closure(S0, next, W)
  BY DEF P!Closure, Closure
<1>2. \A b, c : P!At(body, b, c) = Along(body, b, c, Exec)
  BY SameMir DEF P!At, P!Along, Along
<1>3. \A b, c : P!Onwards(body, b, c) = Onward(body, b, c, Exec, Leave, Unwind)
  BY SameMir, <1>2 DEF P!Onwards, P!Onward, Onward, P!At
<1>4. P!Paths(body) = Entries
  BY SameMir, <1>1, <1>3 DEF P!Paths, P!Entering, Entries, Entering, P!Onwards, InitStart, InitStates
<1>5. P!AllReachable(body) = AllReachable(body)
  BY SameMir, <1>1 DEF P!AllReachable, AllReachable, P!ReachableFrom, ReachableFrom
<1> QED
  BY <1>2, <1>3, <1>4, <1>5

\* The tables are made when the analysis is done, which then stays as it is.
Converted ==
  result # NoResult =>
    /\ status = "done"
    /\ result = [before_block |-> [b \in DOMAIN body |-> state_before[b][0]],
                 after_statement |->
                   [b \in DOMAIN body |->
                      [i \in 0 .. terminator_index(body, b) |-> AfterLocation(b, i)]]]

LEMMA ResultIsConverted == Spec => []Converted
<1>1. Init => Converted
  BY DEF Init, Converted
<1>2. Converted /\ [Next]_vars => Converted'
  <2> SUFFICES ASSUME Converted, [Next]_vars PROVE Converted'
    OBVIOUS
  <2>1. CASE Analyze
    <3>1. status = "running" /\ result' = result
      BY <2>1 DEF Analyze, A!Next, A!AnalyzeBlock, A!Finish
    <3>2. result' = NoResult
      BY <3>1 DEF Converted
    <3> QED
      BY <3>2 DEF Converted
  <2>2. CASE Convert
    <3>1. /\ body' = body /\ state_before' = state_before /\ state_after_block' = state_after_block
          /\ status' = status /\ status = "done"
      BY <2>2 DEF Convert, analysis
    <3>2. \A b, i : AfterLocation(b, i)' = AfterLocation(b, i)
      BY <3>1 DEF AfterLocation, AfterBlock
    <3> QED
      BY <2>2, <3>1, <3>2 DEF Convert, Converted
  <2>3. CASE UNCHANGED vars
    <3>1. /\ body' = body /\ state_before' = state_before /\ state_after_block' = state_after_block
          /\ status' = status /\ result' = result
      BY <2>3 DEF vars, analysis
    <3>2. \A b, i : AfterLocation(b, i)' = AfterLocation(b, i)
      BY <3>1 DEF AfterLocation, AfterBlock
    <3> QED
      BY <3>1, <3>2 DEF Converted
  <2> QED
    BY <2>1, <2>2, <2>3 DEF Next
<1> QED
  BY <1>1, <1>2, PTL DEF Spec

\* What is recorded on the edges are states of the domain.
LEMMA EdgesAreStates == Spec => []P!Recorded
<1>1. P!Init => P!Recorded
  BY DEF P!Init, P!Recorded
<1>2. P!Recorded /\ [P!Next]_(P!vars) => P!Recorded'
  BY P!NextRecorded, InitDomainOK
<1> QED
  BY <1>1, <1>2, SameAnalyzer, PTL DEF P!Spec

LEMMA TableFacts ==
  ASSUME Converted, result # NoResult, NEW b \in DOMAIN body
  PROVE  /\ result.before_block[b] = state_before[b][0]
         /\ \A i \in 0 .. terminator_index(body, b) : result.after_statement[b][i] = AfterLocation(b, i)
<1> DEFINE before == [q \in DOMAIN body |-> state_before[q][0]]
           Row(q) == [i \in 0 .. terminator_index(body, q) |-> AfterLocation(q, i)]
           after == [q \in DOMAIN body |-> Row(q)]
<1>1. result = [before_block |-> before, after_statement |-> after]
  BY DEF Converted
<1>2. before[b] = state_before[b][0] /\ after[b] = Row(b)
  <2> HIDE DEF Row
  <2> QED
    OBVIOUS
<1>3. \A i \in 0 .. terminator_index(body, b) : Row(b)[i] = AfterLocation(b, i)
  OBVIOUS
<1> HIDE DEF before, after, Row
<1>4. result.before_block = before /\ result.after_statement = after
  BY <1>1
<1> QED
  BY <1>2, <1>3, <1>4

\* The tables say no more than the states that the analysis has recorded.
LEMMA OnlyFromPaths ==
  ASSUME Converted, P!Recorded, P!FixedPoint, P!Sound
  PROVE  OnlyInitialisedIsClaimed
<1> SUFFICES ASSUME result # NoResult, NEW x \in Entries
             PROVE  LET b == x[1]
                        last == terminator_index(body, b)
                        t == body[b].terminator
                        end == After(b, x[2], last - 1)
                        left == (IF t.targets = <<>> THEN {} ELSE Leave(end, t, <<b, last>>))
                                  \cup (IF t.unwind = NoBlock THEN {} ELSE Unwind(end, t, <<b, last>>))
                        claims == result.after_statement[b]
                    IN  /\ Parts(result.before_block[b]) \subseteq x[2]
                        /\ \A i \in 0 .. last - 1 : Parts(claims[i]) \subseteq After(b, x[2], i)
                        /\ \A d \in left : Parts(claims[last]) \subseteq d
  BY DEF OnlyInitialisedIsClaimed
<1> DEFINE b == x[1]
           c == x[2]
           last == terminator_index(body, b)
           t == body[b].terminator
           at == Along(body, b, c, Exec)
           end == After(b, c, last - 1)
           edges == state_after_block[b]
           claims == result.after_statement[b]
<1>1. body \in Bodies /\ status = "done"
  BY DEF P!Recorded, Converted
<1>2. b \in DOMAIN body /\ c \in InitStates(body) /\ x \in P!Paths(body)
  <2>1. P!Paths(body) \subseteq (DOMAIN body) \X InitStates(body)
    BY <1>1, InitDomainOK, P!PathsAreClosure
  <2> QED
    BY <2>1, SamePaths
<1>3. last \in Nat /\ IsSequence(t.targets)
  BY <1>1, <1>2, BodyFacts
<1>4. /\ result.before_block[b] = state_before[b][0]
      /\ \A i \in 0 .. last : claims[i] = AfterLocation(b, i)
  BY <1>2, TableFacts
<1>5. /\ \A i \in 0 .. last : OnlyInitialised(state_before[b][i], at[i])
      /\ \A y \in Onward(body, b, c, Exec, Leave, Unwind) : OnlyInitialised(edges[y[1]], y[2])
  <2>1. /\ \A i \in 0 .. P!terminator_index(body, b) : OnlyInitialised(state_before[b][i], P!At(body, b, c)[i])
        /\ \A y \in P!Onwards(body, b, c) : OnlyInitialised(edges[y[1]], y[2])
    BY <1>1, <1>2 DEF P!Sound
  <2>2. /\ P!At(body, b, c) = at /\ P!terminator_index(body, b) = last
        /\ P!Onwards(body, b, c) = Onward(body, b, c, Exec, Leave, Unwind)
    BY SamePaths, SameMir
  <2> QED
    BY <2>1, <2>2
<1>6. at[0] = c /\ end = at[last] /\ \A i \in 0 .. last - 1 : After(b, c, i) = at[i + 1]
  <2>1. at[0] = c
    <3>1. P!At(body, b, c)[0] = c
      BY <1>1, <1>2, InitDomainOK, P!AlongUnfolds DEF P!DomainOK
    <3> QED
      BY <3>1, SamePaths
  <2>2. (last - 1) + 1 = last
    BY <1>3
  <2> QED
    BY <2>1, <2>2 DEF After
<1>7. DOMAIN edges = successors(body, b) /\ \A u \in successors(body, b) : InitIsState(edges[u])
  <2>1. b \in DOMAIN state_after_block
    BY <1>1, <1>2 DEF P!FixedPoint, P!Settled, P!Blocks
  <2> QED
    BY <2>1, SameMir DEF P!Recorded
<1>8. Onward(body, b, c, Exec, Leave, Unwind) =
        (Range(t.targets) \X Leave(end, t, <<b, last>>)) \cup (Unwinds(body, b) \X Unwind(end, t, <<b, last>>))
  <2>1. at[terminator_index(body, b)] = end
    BY <1>6
  <2> QED
    BY <2>1 DEF Onward
<1> HIDE DEF at, end, edges, claims
<1>9. Parts(result.before_block[b]) \subseteq c
  BY <1>3, <1>4, <1>5, <1>6 DEF OnlyInitialised
<1>10. ASSUME NEW i \in 0 .. last - 1 PROVE Parts(claims[i]) \subseteq After(b, c, i)
  <2>1. i \in 0 .. last /\ i + 1 \in 0 .. last /\ i # last
    BY <1>3
  <2>2. claims[i] = state_before[b][i + 1]
    BY <1>4, <2>1 DEF AfterLocation
  <2> QED
    BY <1>5, <1>6, <2>1, <2>2 DEF OnlyInitialised
<1>11. ASSUME NEW d, NEW u \in successors(body, b), OnlyInitialised(edges[u], d)
       PROVE  Parts(claims[last]) \subseteq d
  <2> DEFINE one == CHOOSE v \in DOMAIN edges : TRUE
  <2>1. one \in DOMAIN edges
    BY <1>7
  <2>2. claims[last] = A!JoinIncoming(body, edges[one], edges)
    <3>1. claims[last] = AfterBlock(b)
      BY <1>3, <1>4 DEF AfterLocation
    <3> QED
      BY <1>7, <3>1 DEF AfterBlock, edges
  <2> HIDE DEF one
  <2>3. DOMAIN edges \subseteq DOMAIN body
    BY <1>1, <1>2, <1>7, BodyFacts
  <2>4. OnlyInitialised(P!JoinIncoming(body, edges[one], edges), d)
    BY <1>1, <1>7, <1>11, <2>1, <2>3, InitDomainOK, InitSoundDomain, P!JoinIsSound
  <2> QED
    BY <2>2, <2>4, SameSteps DEF OnlyInitialised
<1>12. ASSUME NEW d \in Leave(end, t, <<b, last>>), t.targets # <<>>
       PROVE  Parts(claims[last]) \subseteq d
  <2>1. PICK u : u \in Range(t.targets)
    <3>1. Len(t.targets) \in Nat /\ Len(t.targets) # 0 /\ DOMAIN t.targets = 1 .. Len(t.targets)
      BY <1>3, <1>12 DEF IsSequence
    <3>2. 1 \in DOMAIN t.targets
      BY <3>1
    <3> QED
      BY <3>2 DEF Range
  <2>2. <<u, d>> \in Onward(body, b, c, Exec, Leave, Unwind) /\ u \in successors(body, b)
    BY <1>8, <2>1 DEF successors
  <2>3. OnlyInitialised(edges[u], d)
    BY <1>5, <2>2
  <2> QED
    BY <1>11, <2>2, <2>3
<1>13. ASSUME NEW d \in Unwind(end, t, <<b, last>>), t.unwind # NoBlock
       PROVE  Parts(claims[last]) \subseteq d
  <2>1. t.unwind \in Unwinds(body, b)
    BY <1>13 DEF Unwinds
  <2>2. <<t.unwind, d>> \in Onward(body, b, c, Exec, Leave, Unwind) /\ t.unwind \in successors(body, b)
    BY <1>8, <2>1 DEF successors
  <2>3. OnlyInitialised(edges[t.unwind], d)
    BY <1>5, <2>2
  <2> QED
    BY <1>11, <2>2, <2>3
<1> QED
  BY <1>9, <1>10, <1>12, <1>13 DEF end, claims

LEMMA AllFromPaths ==
  ASSUME Converted, P!Recorded, P!FixedPoint, P!Precise
  PROVE  AllInitialisedIsClaimed
<1> SUFFICES ASSUME result # NoResult, AllReachable(body), NEW b \in Clean(body)
             PROVE  LET entering == {x[2] : x \in {x \in Entries : x[1] = b}} IN
                      {l \in FieldLeaves : \A c \in entering : l \in c} \subseteq Parts(result.before_block[b])
  BY DEF AllInitialisedIsClaimed
<1> DEFINE entering == {x[2] : x \in {x \in Entries : x[1] = b}}
<1>1. body \in Bodies /\ status = "done" /\ b \in DOMAIN body
  BY DEF P!Recorded, Converted, Clean
<1>2. b \in DOMAIN state_before
  BY <1>1 DEF P!FixedPoint, P!Settled, P!Blocks
<1>3. AllInitialised(state_before[b][0], P!AtLocation(body, b, 0))
  <2>1. 0 \in 0 .. P!terminator_index(body, b)
    BY <1>1, BodyFacts, SameMir
  <2> QED
    BY <1>2, <2>1, SamePaths DEF P!Precise
<1>4. P!AtLocation(body, b, 0) \subseteq entering
  <2> SUFFICES ASSUME NEW c \in P!EntriesAt(body, b) PROVE P!At(body, b, c)[0] \in entering
    BY DEF P!AtLocation
  <2>1. c \in InitStates(body) /\ <<b, c>> \in Entries
    BY SamePaths DEF P!EntriesAt
  <2>2. P!At(body, b, c)[0] = c
    BY <1>1, InitDomainOK, P!AlongUnfolds DEF P!DomainOK
  <2>3. <<b, c>>[1] = b /\ <<b, c>>[2] = c
    OBVIOUS
  <2> QED
    BY <2>1, <2>2, <2>3
<1> HIDE DEF entering
<1>5. result.before_block[b] = state_before[b][0]
  BY <1>1, TableFacts
<1>6. {l \in FieldLeaves : \A c \in entering : l \in c} \subseteq Parts(result.before_block[b])
  BY <1>3, <1>4, <1>5 DEF AllInitialised
<1> QED
  BY <1>6 DEF entering

-----------------------------------------------------------------------------

\* When run_fwd_analysis returns Ok for the domain of initialised places, visiting any
\* block again changes nothing.
THEOREM InitialisationIsFixedPoint == Spec => []FixedPoint
<1>1. P!Spec => []P!FixedPoint
  BY P!ResultIsFixedPoint
<1>2. P!FixedPoint <=> FixedPoint
  BY SameSteps DEF FixedPoint
<1> QED
  BY <1>1, <1>2, SameAnalyzer, PTL

\* Whatever compute_definitely_initialized claims to be initialised before a block, after
\* a statement or after a terminator is initialised on every path to that point, for every
\* body, unwinding included.
THEOREM ClaimsAreInitialised == Spec => []OnlyInitialisedIsClaimed
<1>1. P!Spec => []P!FixedPoint
  BY P!ResultIsFixedPoint
<1>2. P!Spec => []P!Sound
  BY P!ResultIsSound, InitDomainOK, InitSoundDomain
<1>3. Converted /\ P!Recorded /\ P!FixedPoint /\ P!Sound => OnlyInitialisedIsClaimed
  BY OnlyFromPaths
<1> QED
  BY <1>1, <1>2, <1>3, SameAnalyzer, ResultIsConverted, EdgesAreStates, PTL

\* Conversely, what every path initialises before a block is claimed, in a body without
\* dead blocks and if the block is not reached by unwinding, for the parts that are
\* reached through fields of structs: expand, collapse and join lose nothing.
THEOREM InitialisedIsClaimed == Spec => []AllInitialisedIsClaimed
<1>1. P!Spec => []P!FixedPoint
  BY P!ResultIsFixedPoint
<1>2. P!Spec => []P!Precise
  BY P!ResultIsPrecise, InitDomainOK, InitPreciseDomain
<1>3. Converted /\ P!Recorded /\ P!FixedPoint /\ P!Precise => AllInitialisedIsClaimed
  BY AllFromPaths
<1> QED
  BY <1>1, <1>2, <1>3, SameAnalyzer, ResultIsConverted, EdgesAreStates, PTL
==============================================================================
