---------------------- MODULE ReachingDefinitionsProofs ----------------------
(***************************************************************************)
(* The analysis of reaching definitions is exact, for every body, but for  *)
(* what DropAndReplace assigns: its domain is sound and precise with       *)
(* respect to the paths of DefinitionPaths, and so is the Analyzer with it *)
(* (AnalyzerProofs).                                                       *)
(***************************************************************************)
EXTENDS ReachingDefinitions, FiniteSetTheorems, TLAPS

\* Every definition that a variable has is in the state, unless it is a Replacement;
\* every one in the state is that of the variable in one of the concrete states, or the
\* variable has been replaced in one of them.
ReachIsState(S) == TRUE
ReachStart(bdy) == {AtStart}
ReachStates(bdy) == [Locals -> Definitions(bdy)]
Found(S, c) == \A x \in Locals : c[x] \notin {NoDefinition, Replacement} => c[x] \in Defs(S, x)
Supported(S, C) ==
  \A x \in Locals : \A d \in Defs(S, x) : d # NoDefinition /\ \E c \in C : c[x] \in {d, Replacement}
AllBlocks(bdy) == DOMAIN bdy

P == INSTANCE AnalyzerProofs WITH
       new_bottom <- ReachBottom, new_initial <- ReachInitial, join <- ReachJoin,
       apply_statement_effect <- ReachStatement, apply_terminator_effect <- ReachTerminator,
       IsState <- ReachIsState, StartStates <- ReachStart, RunStates <- ReachStates,
       RunStatement <- Exec, RunTerminator <- Leave, RunUnwinding <- Unwind,
       Describes <- Found, Justified <- Supported, PreciseBlocks <- AllBlocks
N == INSTANCE MirProofs WITH Step <- Exec

-----------------------------------------------------------------------------
(* P and A name the same analyzer. *)

LEMMA SameMir ==
  /\ \A S : P!Cardinality(S) = Cardinality(S) /\ P!IsFiniteSet(S) = IsFiniteSet(S)
            /\ A!Cardinality(S) = Cardinality(S) /\ N!IsFiniteSet(S) = IsFiniteSet(S)
  /\ \A s : /\ P!Range(s) = Range(s) /\ A!Range(s) = Range(s) /\ N!Range(s) = Range(s)
            /\ P!IsSequence(s) = IsSequence(s)
  /\ \A bdy, b : /\ P!successors(bdy, b) = successors(bdy, b)
                 /\ A!successors(bdy, b) = successors(bdy, b)
                 /\ P!Unwinds(bdy, b) = Unwinds(bdy, b)
                 /\ N!Unwinds(bdy, b) = Unwinds(bdy, b)
                 /\ P!terminator_index(bdy, b) = terminator_index(bdy, b)
                 /\ A!terminator_index(bdy, b) = terminator_index(bdy, b)
  /\ P!START_BLOCK = START_BLOCK /\ A!START_BLOCK = START_BLOCK /\ P!NoBlock = NoBlock
  /\ \A bdy : P!WellFormed(bdy) = WellFormed(bdy)
<1>1. \A S : P!Cardinality(S) = Cardinality(S) /\ P!IsFiniteSet(S) = IsFiniteSet(S)
             /\ A!Cardinality(S) = Cardinality(S) /\ N!IsFiniteSet(S) = IsFiniteSet(S)
  BY DEF N!IsFiniteSet, A!Cardinality, P!Cardinality, Cardinality, A!IsFiniteSet, P!IsFiniteSet, IsFiniteSet
<1>2. \A s : /\ P!Range(s) = Range(s) /\ A!Range(s) = Range(s) /\ N!Range(s) = Range(s)
             /\ P!IsSequence(s) = IsSequence(s)
  BY DEF P!Range, A!Range, N!Range, Range, P!IsSequence, IsSequence
<1>3. P!START_BLOCK = START_BLOCK /\ A!START_BLOCK = START_BLOCK /\ P!NoBlock = NoBlock
  BY DEF P!START_BLOCK, A!START_BLOCK, START_BLOCK, P!NoBlock, NoBlock
<1>4. \A bdy, b : /\ P!successors(bdy, b) = successors(bdy, b)
                  /\ A!successors(bdy, b) = successors(bdy, b)
                  /\ P!Unwinds(bdy, b) = Unwinds(bdy, b)
                  /\ N!Unwinds(bdy, b) = Unwinds(bdy, b)
                 /\ N!Unwinds(bdy, b) = Unwinds(bdy, b)
                  /\ P!terminator_index(bdy, b) = terminator_index(bdy, b)
                  /\ A!terminator_index(bdy, b) = terminator_index(bdy, b)
  BY <1>2 DEF A!successors, P!successors, successors, A!Unwinds, P!Unwinds, N!Unwinds, Unwinds,
     A!NoBlock, P!NoBlock, N!NoBlock, NoBlock, A!terminator_index, P!terminator_index, terminator_index
<1>5. \A bdy : P!WellFormed(bdy) = WellFormed(bdy)
  BY <1>2, <1>4 DEF P!WellFormed, WellFormed
<1> QED
  BY <1>1, <1>2, <1>3, <1>4, <1>5

LEMMA SameAnalyzer == Spec => P!Spec
<1>1. A!Init <=> P!Init
  BY DEF A!Init, P!Init
<1>2. \A b : A!Incoming(b) = P!Incoming(b)
  BY SameMir DEF A!Incoming, P!Incoming
<1>3. \A bdy, s, in : A!JoinIncoming(bdy, s, in) = P!JoinIncoming(bdy, s, in)
  BY SameMir DEF A!JoinIncoming, P!JoinIncoming
<1>4. \A b : A!Visit(b) = P!Visit(b)
  BY SameMir, <1>2, <1>3 DEF A!Visit, P!Visit, A!BlockStates, P!BlockStates, A!EntryState, P!EntryState
<1>5. \A b : A!Leave(b) = P!Leave(b)
  BY SameMir, <1>4 DEF A!Leave, P!Leave
<1>6. \A s : A!EdgeStates(s) = P!EdgeStates(s)
  BY DEF A!EdgeStates, P!EdgeStates, A!Insert, P!Insert
<1>7. A!Next <=> P!Next
  BY SameMir, <1>4, <1>5, <1>6 DEF A!Next, P!Next, A!AnalyzeBlock, P!AnalyzeBlock,
     A!Finish, P!Finish, A!Blocks, P!Blocks, A!Insert, P!Insert, A!Changed, P!Changed
<1> QED
  BY <1>1, <1>7, PTL DEF Spec, Init, Next, P!Spec, P!vars, vars

-----------------------------------------------------------------------------
(* The concrete states: functions from the variables to definitions. *)

\* The position of a variable among the arguments.
LEMMA ArgIndexFacts ==
  /\ \A x \in Range(Args) : ArgIndex(x) \in DOMAIN Args
  /\ \A x : x \notin Range(Args) => ArgIndex(x) = 0
<1>1. Args \in Seq(Locals) /\ DOMAIN Args = 1 .. Len(Args) /\ Len(Args) \in Nat
  BY DefinitionsAssumption
<1> DEFINE I(x) == {i \in 1 .. Len(Args) : Args[i] = x}
<1>2. \A x : ArgIndex(x) = IF I(x) # {} THEN Min(I(x)) ELSE 0
  BY DEF ArgIndex, SelectInSeq
<1>3. ASSUME NEW x \in Range(Args) PROVE ArgIndex(x) \in DOMAIN Args
  <2>1. I(x) \subseteq Nat /\ I(x) # {} /\ I(x) \subseteq DOMAIN Args
    BY <1>1 DEF Range
  <2> HIDE DEF I
  <2>2. \E m \in I(x) : \A y \in I(x) : m <= y
    BY <2>1, N!LeastNatural
  <2>3. Min(I(x)) \in I(x)
    BY <2>2 DEF Min
  <2> QED
    BY <1>2, <2>1, <2>3
<1>4. ASSUME NEW x, x \notin Range(Args) PROVE ArgIndex(x) = 0
  BY <1>1, <1>2, <1>4 DEF Range
<1> QED
  BY <1>3, <1>4

\* What bodies are used for.
LEMMA BodyFacts ==
  ASSUME NEW bdy \in Bodies
  PROVE  /\ \E last \in Nat : DOMAIN bdy = 0 .. last
         /\ \A b \in DOMAIN bdy :
              /\ b \in Nat /\ terminator_index(bdy, b) \in Nat
              /\ bdy[b].statements \in Seq(Range(bdy[b].statements))
              /\ Len(bdy[b].statements) = terminator_index(bdy, b)
              /\ bdy[b].terminator.targets \in Seq(Range(bdy[b].terminator.targets))
              /\ successors(bdy, b) \subseteq DOMAIN bdy
              /\ \A i \in 0 .. terminator_index(bdy, b) :
                   <<b, i>> \in Definitions(bdy) /\ <<b, i>> # NoDefinition
              /\ \A i \in 1 .. terminator_index(bdy, b) :
                   IsLocal(bdy[b].statements[i].target) => bdy[b].statements[i].target[1] \in Locals
              /\ IsLocal(bdy[b].terminator.place) => bdy[b].terminator.place[1] \in Locals
<1>1. WellFormed(bdy) /\ AssignsLocals(bdy)
  BY DefinitionsAssumption
<1>2. PICK last \in Nat : DOMAIN bdy = 0 .. last
  BY <1>1 DEF WellFormed
<1>3. ASSUME NEW b \in DOMAIN bdy
      PROVE  /\ b \in Nat /\ terminator_index(bdy, b) \in Nat
             /\ bdy[b].statements \in Seq(Range(bdy[b].statements))
             /\ Len(bdy[b].statements) = terminator_index(bdy, b)
             /\ bdy[b].terminator.targets \in Seq(Range(bdy[b].terminator.targets))
             /\ successors(bdy, b) \subseteq DOMAIN bdy
  BY <1>1, <1>2 DEF WellFormed, IsSequence, terminator_index
<1>4. ASSUME NEW b \in DOMAIN bdy, NEW i \in 0 .. terminator_index(bdy, b)
      PROVE  <<b, i>> \in Definitions(bdy) /\ <<b, i>> # NoDefinition
  BY <1>3 DEF Definitions, NoDefinition
<1>5. ASSUME NEW b \in DOMAIN bdy
      PROVE  /\ \A i \in 1 .. terminator_index(bdy, b) :
                  IsLocal(bdy[b].statements[i].target) => bdy[b].statements[i].target[1] \in Locals
             /\ IsLocal(bdy[b].terminator.place) => bdy[b].terminator.place[1] \in Locals
  <2>1. DOMAIN bdy[b].statements = 1 .. terminator_index(bdy, b)
    BY <1>3
  <2> QED
    BY <1>1, <2>1 DEF AssignsLocals
<1> QED
  BY <1>2, <1>3, <1>4, <1>5

\* There are finitely many definitions, hence finitely many concrete states.
LEMMA FinitelyManyStates ==
  ASSUME NEW bdy \in Bodies
  PROVE  IsFiniteSet(ReachStates(bdy))
<1> DEFINE Of(b) == {b} \X (0 .. terminator_index(bdy, b))
<1>1. IsFiniteSet(DOMAIN bdy)
  BY BodyFacts, FS_Interval
<1>2. IsFiniteSet({Of(b) : b \in DOMAIN bdy})
  <2> DEFINE f == [b \in DOMAIN bdy |-> Of(b)]
  <2>1. {Of(b) : b \in DOMAIN bdy} = {f[b] : b \in DOMAIN bdy}
    OBVIOUS
  <2> HIDE DEF f
  <2>2. IsFiniteSet({f[b] : b \in DOMAIN bdy})
    BY <1>1, N!FiniteImage, SameMir
  <2> QED
    BY <2>1, <2>2
<1>3. \A b \in DOMAIN bdy : IsFiniteSet(Of(b))
  <2> TAKE b \in DOMAIN bdy
  <2>1. IsFiniteSet(0 .. terminator_index(bdy, b))
    BY BodyFacts, FS_Interval
  <2> QED
    BY <2>1, FS_Singleton, FS_Product
<1>4. IsFiniteSet(UNION {Of(b) : b \in DOMAIN bdy})
  BY <1>2, <1>3, FS_UNION
<1>5. IsFiniteSet({Parameter(i - 1) : i \in DOMAIN Args})
  <2>1. Len(Args) \in Nat /\ DOMAIN Args = 1 .. Len(Args)
    BY DefinitionsAssumption
  <2>2. IsFiniteSet(1 .. Len(Args))
    BY <2>1, FS_Interval
  <2> DEFINE f == [i \in DOMAIN Args |-> Parameter(i - 1)]
  <2>3. {Parameter(i - 1) : i \in DOMAIN Args} = {f[i] : i \in DOMAIN Args}
    OBVIOUS
  <2> HIDE DEF f
  <2>4. IsFiniteSet({f[i] : i \in DOMAIN Args})
    BY <2>1, <2>2, N!FiniteImage, SameMir
  <2> QED
    BY <2>3, <2>4
<1>6. IsFiniteSet({NoDefinition, Replacement})
  <2>1. IsFiniteSet({NoDefinition}) /\ IsFiniteSet({Replacement})
    BY FS_Singleton
  <2>2. {NoDefinition, Replacement} = {NoDefinition} \cup {Replacement}
    OBVIOUS
  <2> QED
    BY <2>1, <2>2, FS_Union
<1>7. IsFiniteSet(Definitions(bdy))
  BY <1>4, <1>5, <1>6, FS_Union DEF Definitions
<1>8. N!IsFiniteSet(Locals) /\ N!IsFiniteSet(Definitions(bdy))
  BY <1>7, DefinitionsAssumption, SameMir
<1>9. N!IsFiniteSet([Locals -> Definitions(bdy)])
  BY <1>8, N!FiniteFunctions
<1> QED
  BY <1>9, SameMir DEF ReachStates

-----------------------------------------------------------------------------
(* The steps of the domain, and the concrete ones. *)

\* What the domain records for the terminator of block b: on the edges to its
\* targets, and on the one to its unwind block.
AfterCall(bdy, b, S) ==
  LET t == bdy[b].terminator IN
    IF t.kind = "Call" /\ IsLocal(t.place) THEN Redefine(S, t.place, <<b, terminator_index(bdy, b)>>) ELSE S
AfterUnwinding(bdy, b, S) ==
  LET t == bdy[b].terminator IN
    IF t.kind = "Call" /\ IsLocal(t.place)
    THEN Entry(S, t.place[1], Defs(S, t.place[1]) \cup {<<b, terminator_index(bdy, b)>>})
    ELSE S

\* The pairs of the terminator.
LEMMA PairsFacts ==
  ASSUME NEW bdy \in Bodies, NEW b \in DOMAIN bdy, NEW S
  PROVE  N!ArePairs(P!PairsOf(bdy, b, S), bdy, b, AfterCall(bdy, b, S), AfterUnwinding(bdy, b, S))
<1> DEFINE t == bdy[b].terminator
           pairs == EdgePairs(t, AfterCall(bdy, b, S), AfterUnwinding(bdy, b, S))
<1>1. P!PairsOf(bdy, b, S) = pairs
  BY SameMir DEF P!PairsOf, ReachTerminator, AfterCall, AfterUnwinding
<1>2. \A after, unwound : N!EdgePairs(t, after, unwound) = EdgePairs(t, after, unwound)
  BY DEF N!EdgePairs, EdgePairs, N!NoBlock, NoBlock
<1>3. N!IsSequence(t.targets)
  BY DefinitionsAssumption, SameMir DEF WellFormed, N!IsSequence, IsSequence
<1> QED
  BY <1>1, <1>2, <1>3, N!EdgePairsFacts

\* An entry replaces the definitions of one variable.
LEMMA EntryFacts ==
  ASSUME NEW S, NEW y, NEW defs, NEW x
  PROVE  Defs(Entry(S, y, defs), x) = IF x = y THEN defs ELSE Defs(S, x)
  BY DEF Defs, Entry

LEMMA JoinFacts ==
  ASSUME NEW S, NEW T, NEW x
  PROVE  Defs(ReachJoin(S, T), x) = Defs(S, x) \cup Defs(T, x)
  BY DEF Defs, ReachJoin

\* The concrete steps stay within the concrete states.
LEMMA DefineIsState ==
  ASSUME NEW bdy \in Bodies, NEW c \in ReachStates(bdy), NEW d \in Definitions(bdy),
         NEW p, IsLocal(p) => p[1] \in Locals
  PROVE  /\ Define(c, p, d) \in ReachStates(bdy)
         /\ \A x \in Locals : Define(c, p, d)[x] = IF IsLocal(p) /\ x = p[1] THEN d ELSE c[x]
  BY DEF Define, ReachStates

\* What the terminator of block b defines its place with, if it assigns one.
Value(bdy, b) ==
  IF bdy[b].terminator.kind = "Call" THEN <<b, terminator_index(bdy, b)>> ELSE Replacement
Assigns(bdy, b) ==
  bdy[b].terminator.kind \in {"Call", "DropAndReplace"} /\ IsLocal(bdy[b].terminator.place)

\* The concrete state after the terminator of block b.
After(bdy, b, c) == Written(c, bdy[b].terminator, <<b, terminator_index(bdy, b)>>)

LEMMA AfterFacts ==
  ASSUME NEW bdy \in Bodies, NEW b \in DOMAIN bdy, NEW c \in ReachStates(bdy)
  PROVE  /\ After(bdy, b, c) \in ReachStates(bdy)
         /\ \A x \in Locals :
              After(bdy, b, c)[x] =
                IF Assigns(bdy, b) /\ x = bdy[b].terminator.place[1] THEN Value(bdy, b) ELSE c[x]
<1> DEFINE t == bdy[b].terminator
           location == <<b, terminator_index(bdy, b)>>
<1>1. location \in Definitions(bdy) /\ Replacement \in Definitions(bdy)
  BY BodyFacts DEF Definitions
<1>2. IsLocal(t.place) => t.place[1] \in Locals
  BY BodyFacts
<1> HIDE DEF location
<1>3. /\ Define(c, t.place, location) \in ReachStates(bdy)
      /\ \A x \in Locals : Define(c, t.place, location)[x] = IF IsLocal(t.place) /\ x = t.place[1] THEN location ELSE c[x]
  BY <1>1, <1>2, DefineIsState
<1>4. /\ Define(c, t.place, Replacement) \in ReachStates(bdy)
      /\ \A x \in Locals : Define(c, t.place, Replacement)[x] = IF IsLocal(t.place) /\ x = t.place[1] THEN Replacement ELSE c[x]
  BY <1>1, <1>2, DefineIsState
<1>5. /\ t.kind = "Call" => After(bdy, b, c) = Define(c, t.place, location)
      /\ t.kind = "DropAndReplace" => After(bdy, b, c) = Define(c, t.place, Replacement)
      /\ t.kind \notin {"Call", "DropAndReplace"} => After(bdy, b, c) = c
  BY DEF After, Written, location
<1>6. /\ t.kind = "Call" => Value(bdy, b) = location
      /\ t.kind = "DropAndReplace" => Value(bdy, b) = Replacement
      /\ Assigns(bdy, b) <=> t.kind \in {"Call", "DropAndReplace"} /\ IsLocal(t.place)
  BY DEF Value, Assigns, location
<1>7. CASE t.kind = "Call"
  BY <1>3, <1>5, <1>6, <1>7
<1>8. CASE t.kind = "DropAndReplace"
  BY <1>4, <1>5, <1>6, <1>8
<1>9. CASE t.kind \notin {"Call", "DropAndReplace"}
  BY <1>5, <1>6, <1>9
<1> QED
  BY <1>7, <1>8, <1>9

\* Entering a body, every argument is defined by its parameter.
LEMMA StartFacts ==
  ASSUME NEW bdy \in Bodies
  PROVE  /\ AtStart \in ReachStates(bdy)
         /\ \A x \in Locals :
              /\ AtStart[x] # NoDefinition => Defs(ReachInitial(bdy), x) = {AtStart[x]}
              /\ AtStart[x] = NoDefinition => Defs(ReachInitial(bdy), x) = {}
<1> SUFFICES ASSUME NEW x \in Locals
             PROVE  /\ AtStart[x] \in Definitions(bdy)
                    /\ AtStart[x] # NoDefinition => Defs(ReachInitial(bdy), x) = {AtStart[x]}
                    /\ AtStart[x] = NoDefinition => Defs(ReachInitial(bdy), x) = {}
  BY DEF AtStart, ReachStates
<1>1. Args \in Seq(Locals) /\ DOMAIN Args = 1 .. Len(Args) /\ Len(Args) \in Nat
  BY DefinitionsAssumption
<1>2. CASE x \in Range(Args)
  <2>1. ArgIndex(x) \in DOMAIN Args /\ ArgIndex(x) # 0
    BY <1>1, <1>2, ArgIndexFacts
  <2>2. AtStart[x] = Parameter(ArgIndex(x) - 1) /\ Defs(ReachInitial(bdy), x) = {Parameter(ArgIndex(x) - 1)}
    BY <1>2, <2>1 DEF AtStart, Defs, ReachInitial
  <2>3. AtStart[x] # NoDefinition
    BY <2>2 DEF Parameter, NoDefinition
  <2> QED
    BY <2>1, <2>2, <2>3 DEF Definitions
<1>3. CASE x \notin Range(Args)
  <2>1. AtStart[x] = NoDefinition /\ Defs(ReachInitial(bdy), x) = {}
    BY <1>3, ArgIndexFacts DEF AtStart, Defs, ReachInitial
  <2> QED
    BY <2>1 DEF Definitions
<1> QED
  BY <1>2, <1>3

\* The concrete outcomes of a terminator.
LEMMA OutcomeFacts ==
  ASSUME NEW bdy \in Bodies, NEW b \in DOMAIN bdy, NEW c
  PROVE  \E U : /\ P!Outcomes(bdy, b, c) =
                     (Range(bdy[b].terminator.targets) \X {After(bdy, b, c)}) \cup (Unwinds(bdy, b) \X U)
                /\ After(bdy, b, c) \in U /\ U \subseteq {c, After(bdy, b, c)}
                /\ bdy[b].terminator.kind # "DropAndReplace" => c \in U
<1> DEFINE t == bdy[b].terminator
           location == <<b, terminator_index(bdy, b)>>
<1>1. /\ Leave(c, t, location) = {After(bdy, b, c)}
      /\ After(bdy, b, c) \in Unwind(c, t, location)
      /\ Unwind(c, t, location) \subseteq {c, After(bdy, b, c)}
      /\ t.kind # "DropAndReplace" => c \in Unwind(c, t, location)
  BY DEF Leave, Unwind, After
<1>2. P!Outcomes(bdy, b, c) = (Range(t.targets) \X Leave(c, t, location))
                                \cup (Unwinds(bdy, b) \X Unwind(c, t, location))
  BY SameMir DEF P!Outcomes
<1> QED
  BY <1>1, <1>2

\* The domain and the concrete semantics are closed.
LEMMA ReachDomainOK == P!DomainOK
<1>1. P!WellFormedBodies
  BY DefinitionsAssumption, SameMir DEF P!WellFormedBodies
<1>2. P!ClosedDomain
  <2>1. ASSUME NEW bdy \in Bodies, NEW b \in DOMAIN bdy, NEW S
        PROVE  P!PairsOf(bdy, b, S) \in Seq(P!Range(P!PairsOf(bdy, b, S)))
    BY <2>1, PairsFacts, SameMir DEF N!ArePairs
  <2> QED
    BY <2>1 DEF P!ClosedDomain, ReachIsState
<1>3. P!ClosedSemantics
  <2> SUFFICES ASSUME NEW bdy \in Bodies
               PROVE  /\ IsFiniteSet(ReachStates(bdy))
                      /\ ReachStart(bdy) \subseteq ReachStates(bdy)
                      /\ \A b \in DOMAIN bdy : \A c \in ReachStates(bdy) :
                           /\ \A i \in 1 .. terminator_index(bdy, b) :
                                Exec(c, bdy[b].statements[i], <<b, i - 1>>) \in ReachStates(bdy)
                           /\ P!Outcomes(bdy, b, c) \subseteq (DOMAIN bdy) \X ReachStates(bdy)
    BY SameMir DEF P!ClosedSemantics
  <2>1. IsFiniteSet(ReachStates(bdy))
    BY FinitelyManyStates
  <2>2. ReachStart(bdy) \subseteq ReachStates(bdy)
    BY StartFacts DEF ReachStart
  <2>3. ASSUME NEW b \in DOMAIN bdy, NEW c \in ReachStates(bdy), NEW i \in 1 .. terminator_index(bdy, b)
        PROVE  Exec(c, bdy[b].statements[i], <<b, i - 1>>) \in ReachStates(bdy)
    <3>1. i - 1 \in 0 .. terminator_index(bdy, b)
      BY BodyFacts
    <3>2. <<b, i - 1>> \in Definitions(bdy)
      BY <3>1, BodyFacts
    <3> QED
      BY <3>2, BodyFacts, DefineIsState DEF Exec
  <2>4. ASSUME NEW b \in DOMAIN bdy, NEW c \in ReachStates(bdy)
        PROVE  P!Outcomes(bdy, b, c) \subseteq (DOMAIN bdy) \X ReachStates(bdy)
    <3>1. After(bdy, b, c) \in ReachStates(bdy)
      BY AfterFacts
    <3>2. Range(bdy[b].terminator.targets) \subseteq DOMAIN bdy /\ Unwinds(bdy, b) \subseteq DOMAIN bdy
      BY BodyFacts DEF successors
    <3>3. PICK U : /\ P!Outcomes(bdy, b, c) =
                        (Range(bdy[b].terminator.targets) \X {After(bdy, b, c)}) \cup (Unwinds(bdy, b) \X U)
                   /\ U \subseteq {c, After(bdy, b, c)}
      BY OutcomeFacts
    <3> QED
      BY <3>1, <3>2, <3>3
  <2> QED
    BY <2>1, <2>2, <2>3, <2>4
<1> QED
  BY <1>1, <1>2, <1>3 DEF P!DomainOK

\* A definition on a path is not lost by the domain.
LEMMA ReachSoundDomain == P!SoundDomain
<1>1. ASSUME NEW bdy \in Bodies, NEW c \in ReachStart(bdy)
      PROVE  Found(ReachInitial(bdy), c)
  BY StartFacts DEF ReachStart, Found
<1>2. ASSUME NEW S, NEW T, NEW c, Found(S, c) \/ Found(T, c)
      PROVE  Found(ReachJoin(S, T), c)
  BY <1>2, JoinFacts DEF Found
<1>3. ASSUME NEW bdy \in Bodies, NEW b \in DOMAIN bdy, NEW c \in ReachStates(bdy), NEW S, Found(S, c)
      PROVE  /\ \A i \in 1 .. terminator_index(bdy, b) :
                  Found(ReachStatement(bdy[b].statements[i], <<b, i - 1>>, S),
                        Exec(c, bdy[b].statements[i], <<b, i - 1>>))
             /\ \A y \in P!Outcomes(bdy, b, c) : \E i \in DOMAIN P!PairsOf(bdy, b, S) :
                  /\ P!PairsOf(bdy, b, S)[i].block = y[1]
                  /\ Found(P!PairsOf(bdy, b, S)[i].state, y[2])
  <2>1. ASSUME NEW i \in 1 .. terminator_index(bdy, b)
        PROVE  Found(ReachStatement(bdy[b].statements[i], <<b, i - 1>>, S),
                     Exec(c, bdy[b].statements[i], <<b, i - 1>>))
    <3> DEFINE p == bdy[b].statements[i].target
    <3>1. i - 1 \in 0 .. terminator_index(bdy, b) /\ (IsLocal(p) => p[1] \in Locals)
      BY BodyFacts
    <3>2. <<b, i - 1>> \in Definitions(bdy)
      BY <3>1, BodyFacts
    <3>3. \A x \in Locals : Define(c, p, <<b, i - 1>>)[x] = IF IsLocal(p) /\ x = p[1] THEN <<b, i - 1>> ELSE c[x]
      BY <3>1, <3>2, DefineIsState
    <3> QED
      BY <1>3, <3>3, EntryFacts DEF Found, ReachStatement, Exec, Redefine
  <2> DEFINE t == bdy[b].terminator
             after == After(bdy, b, c)
  <2>2. \A x \in Locals : after[x] = IF Assigns(bdy, b) /\ x = t.place[1] THEN Value(bdy, b) ELSE c[x]
    BY AfterFacts
  <2> HIDE DEF after
  <2>3. Found(AfterCall(bdy, b, S), after)
    BY <1>3, <2>2, EntryFacts DEF Found, AfterCall, Redefine, Assigns, Value
  <2>4. Found(AfterUnwinding(bdy, b, S), after) /\ Found(AfterUnwinding(bdy, b, S), c)
    BY <1>3, <2>2, EntryFacts DEF Found, AfterUnwinding, Assigns, Value
  <2>5. PICK U : /\ P!Outcomes(bdy, b, c) = (Range(t.targets) \X {after}) \cup (Unwinds(bdy, b) \X U)
                 /\ U \subseteq {c, after}
    BY OutcomeFacts DEF after
  <2> DEFINE pairs == P!PairsOf(bdy, b, S)
  <2>6. /\ \A u \in Range(t.targets) : \E i \in DOMAIN pairs :
             pairs[i].block = u /\ pairs[i].state = AfterCall(bdy, b, S)
        /\ \A u \in Unwinds(bdy, b) : \E i \in DOMAIN pairs :
             pairs[i].block = u /\ pairs[i].state = AfterUnwinding(bdy, b, S)
    BY PairsFacts, SameMir DEF N!ArePairs
  <2> HIDE DEF pairs
  <2>7. \A y \in P!Outcomes(bdy, b, c) : \E i \in DOMAIN pairs :
          pairs[i].block = y[1] /\ Found(pairs[i].state, y[2])
    BY <2>3, <2>4, <2>5, <2>6
  <2> QED
    BY <2>1, <2>7 DEF pairs
<1> QED
  BY <1>1, <1>2, <1>3, SameMir DEF P!SoundDomain

\* A definition that the domain has is one of a path.
LEMMA ReachPreciseDomain == P!PreciseDomain
<1>1. ASSUME NEW S, NEW C, NEW D, Supported(S, C), C \subseteq D
      PROVE  Supported(S, D)
  BY <1>1 DEF Supported
<1>2. ASSUME NEW S, NEW T, NEW C, Supported(S, C), Supported(T, C)
      PROVE  Supported(ReachJoin(S, T), C)
  BY <1>2, JoinFacts DEF Supported
<1>3. ASSUME NEW bdy \in Bodies
      PROVE  /\ ReachStart(bdy) # {}
             /\ \A C : Supported(ReachBottom(bdy), C)
             /\ Supported(ReachInitial(bdy), ReachStart(bdy))
  BY StartFacts DEF ReachStart, Supported, ReachBottom, Defs
<1>4. ASSUME NEW bdy \in Bodies, NEW b \in DOMAIN bdy, NEW c \in ReachStates(bdy),
             NEW t \in successors(bdy, b)
      PROVE  \E d : <<t, d>> \in P!Outcomes(bdy, b, c)
  <2>1. t \in Range(bdy[b].terminator.targets) \/ t \in Unwinds(bdy, b)
    BY DEF successors
  <2>2. <<t, After(bdy, b, c)>> \in P!Outcomes(bdy, b, c)
    BY <2>1, OutcomeFacts
  <2> QED
    BY <2>2
<1>5. ASSUME NEW bdy \in Bodies, NEW b \in DOMAIN bdy, NEW C \in SUBSET ReachStates(bdy),
             NEW S, Supported(S, C), C # {}
      PROVE  /\ \A i \in 1 .. terminator_index(bdy, b) :
                  Supported(ReachStatement(bdy[b].statements[i], <<b, i - 1>>, S), P!Execute(bdy, b, i, C))
             /\ \A i \in DOMAIN P!PairsOf(bdy, b, S) :
                  Supported(P!PairsOf(bdy, b, S)[i].state,
                            P!LeadingTo(bdy, b, C, P!PairsOf(bdy, b, S)[i].block))
  <2>1. ASSUME NEW i \in 1 .. terminator_index(bdy, b)
        PROVE  Supported(ReachStatement(bdy[b].statements[i], <<b, i - 1>>, S), P!Execute(bdy, b, i, C))
    <3> DEFINE p == bdy[b].statements[i].target
               location == <<b, i - 1>>
    <3>1. /\ i - 1 \in 0 .. terminator_index(bdy, b) /\ (IsLocal(p) => p[1] \in Locals)
          /\ location \in Definitions(bdy) /\ location # NoDefinition
      BY BodyFacts
    <3>2. \A c \in C : \A x \in Locals :
            Define(c, p, location)[x] = IF IsLocal(p) /\ x = p[1] THEN location ELSE c[x]
      BY <3>1, DefineIsState
    <3>3. P!Execute(bdy, b, i, C) = {Define(c, p, location) : c \in C}
      BY DEF P!Execute, Exec
    <3>4. \A x : Defs(ReachStatement(bdy[b].statements[i], location, S), x)
                   = IF IsLocal(p) /\ x = p[1] THEN {location} ELSE Defs(S, x)
      BY EntryFacts DEF ReachStatement, Redefine
    <3> HIDE DEF location, p
    <3> QED
      BY <1>5, <3>1, <3>2, <3>3, <3>4 DEF Supported, location
  <2> DEFINE t == bdy[b].terminator
             location == <<b, terminator_index(bdy, b)>>
             To(c) == After(bdy, b, c)
  <2>2. \A c \in C : /\ To(c) \in ReachStates(bdy) /\ c \in ReachStates(bdy)
                     /\ \A x \in Locals :
                          To(c)[x] = IF Assigns(bdy, b) /\ x = t.place[1] THEN Value(bdy, b) ELSE c[x]
    BY AfterFacts
  <2>3. location # NoDefinition
    <3>1. terminator_index(bdy, b) \in 0 .. terminator_index(bdy, b)
      BY BodyFacts
    <3> QED
      BY <3>1, BodyFacts
  <2>4. \A c \in C : \E U :
          /\ P!Outcomes(bdy, b, c) = (Range(t.targets) \X {To(c)}) \cup (Unwinds(bdy, b) \X U)
          /\ To(c) \in U /\ (t.kind # "DropAndReplace" => c \in U)
    BY OutcomeFacts
  <2>5. Assigns(bdy, b) <=> t.kind \in {"Call", "DropAndReplace"} /\ IsLocal(t.place)
    BY DEF Assigns
  <2>6. Value(bdy, b) = IF t.kind = "Call" THEN location ELSE Replacement
    BY DEF Value
  <2> HIDE DEF To, location
  <2>7. /\ \A u \in Range(t.targets) : \A c \in C : To(c) \in P!LeadingTo(bdy, b, C, u)
        /\ \A u \in Unwinds(bdy, b) : \A c \in C :
             /\ To(c) \in P!LeadingTo(bdy, b, C, u)
             /\ t.kind # "DropAndReplace" => c \in P!LeadingTo(bdy, b, C, u)
    <3>1. ASSUME NEW u \in Range(t.targets), NEW c \in C PROVE To(c) \in P!LeadingTo(bdy, b, C, u)
      BY <2>2, <2>4 DEF P!LeadingTo
    <3>2. ASSUME NEW u \in Unwinds(bdy, b), NEW c \in C
          PROVE  /\ To(c) \in P!LeadingTo(bdy, b, C, u)
                 /\ t.kind # "DropAndReplace" => c \in P!LeadingTo(bdy, b, C, u)
      BY <2>2, <2>4 DEF P!LeadingTo
    <3> QED
      BY <3>1, <3>2
  <2>8. ASSUME NEW E, \A c \in C : To(c) \in E
        PROVE  Supported(AfterCall(bdy, b, S), E)
    <3>1. \A x : Defs(AfterCall(bdy, b, S), x) =
                   IF t.kind = "Call" /\ IsLocal(t.place) /\ x = t.place[1] THEN {location} ELSE Defs(S, x)
      BY EntryFacts DEF AfterCall, Redefine, location
    <3> SUFFICES ASSUME NEW x \in Locals, NEW d \in Defs(AfterCall(bdy, b, S), x)
                 PROVE  d # NoDefinition /\ \E c \in E : c[x] \in {d, Replacement}
      BY DEF Supported
    <3>2. CASE d \in Defs(S, x)
      <4>1. PICK c \in C : d # NoDefinition /\ c[x] \in {d, Replacement}
        BY <1>5, <3>2 DEF Supported
      <4>2. To(c)[x] \in {d, Replacement}
        BY <2>2, <2>5, <2>6, <3>1, <4>1
      <4> QED
        BY <2>8, <4>1, <4>2
    <3>3. CASE d \notin Defs(S, x)
      <4>1. t.kind = "Call" /\ IsLocal(t.place) /\ x = t.place[1] /\ d = location
        BY <3>1, <3>3
      <4>2. PICK c \in C : TRUE
        BY <1>5
      <4>3. To(c)[x] = d
        BY <2>2, <2>5, <2>6, <4>1
      <4> QED
        BY <2>3, <2>8, <4>1, <4>3
    <3> QED
      BY <3>2, <3>3
  <2>10. ASSUME NEW E, \A c \in C : To(c) \in E /\ (t.kind # "DropAndReplace" => c \in E)
        PROVE  Supported(AfterUnwinding(bdy, b, S), E)
    <3>1. \A x : Defs(AfterUnwinding(bdy, b, S), x) =
                   IF t.kind = "Call" /\ IsLocal(t.place) /\ x = t.place[1]
                   THEN Defs(S, x) \cup {location} ELSE Defs(S, x)
      <4> TAKE x
      <4>1. CASE t.kind = "Call" /\ IsLocal(t.place)
        <5>1. AfterUnwinding(bdy, b, S) = Entry(S, t.place[1], Defs(S, t.place[1]) \cup {location})
          BY <4>1 DEF AfterUnwinding, location
        <5> QED
          BY <4>1, <5>1, EntryFacts
      <4>2. CASE ~(t.kind = "Call" /\ IsLocal(t.place))
        BY <4>2 DEF AfterUnwinding
      <4> QED
        BY <4>1, <4>2
    <3> SUFFICES ASSUME NEW x \in Locals, NEW d \in Defs(AfterUnwinding(bdy, b, S), x)
                 PROVE  d # NoDefinition /\ \E c \in E : c[x] \in {d, Replacement}
      BY DEF Supported
    <3>2. CASE d \in Defs(S, x)
      <4>1. PICK c \in C : d # NoDefinition /\ c[x] \in {d, Replacement}
        BY <1>5, <3>2 DEF Supported
      <4>2. CASE t.kind = "DropAndReplace"
        <5>1. To(c)[x] \in {d, Replacement}
          BY <2>2, <2>5, <2>6, <4>1, <4>2
        <5> QED
          BY <2>10, <4>1, <5>1
      <4>3. CASE t.kind # "DropAndReplace"
        BY <2>10, <4>1, <4>3
      <4> QED
        BY <4>2, <4>3
    <3>3. CASE d \notin Defs(S, x)
      <4>1. t.kind = "Call" /\ IsLocal(t.place) /\ x = t.place[1] /\ d = location
        BY <3>1, <3>3
      <4>2. PICK c \in C : TRUE
        BY <1>5
      <4>3. To(c)[x] = d
        BY <2>2, <2>5, <2>6, <4>1
      <4> QED
        BY <2>3, <2>10, <4>1, <4>3
    <3> QED
      BY <3>2, <3>3
  <2>9. ASSUME NEW i \in DOMAIN P!PairsOf(bdy, b, S)
        PROVE  Supported(P!PairsOf(bdy, b, S)[i].state,
                         P!LeadingTo(bdy, b, C, P!PairsOf(bdy, b, S)[i].block))
    <3> DEFINE x == P!PairsOf(bdy, b, S)[i]
    <3>1. \/ x.block \in Range(t.targets) /\ x.state = AfterCall(bdy, b, S)
          \/ x.block \in Unwinds(bdy, b) /\ x.state = AfterUnwinding(bdy, b, S)
      BY PairsFacts, SameMir DEF N!ArePairs
    <3> HIDE DEF x
    <3>2. Supported(x.state, P!LeadingTo(bdy, b, C, x.block))
      BY <2>7, <2>8, <2>10, <3>1
    <3> QED
      BY <3>2 DEF x
  <2> QED
    BY <2>1, <2>9
<1>6. ASSUME NEW bdy \in Bodies
      PROVE  /\ \A b \in DOMAIN bdy : \A c \in ReachStates(bdy) : \A t \in P!successors(bdy, b) :
                  \E d : <<t, d>> \in P!Outcomes(bdy, b, c)
             /\ \A b \in DOMAIN bdy : P!terminator_index(bdy, b) = terminator_index(bdy, b)
  BY <1>4, SameMir
<1>7. ASSUME NEW bdy \in Bodies, NEW b \in DOMAIN bdy PROVE P!PreciseSteps(bdy, b)
  BY <1>5, <1>6 DEF P!PreciseSteps
<1> QED
  BY <1>1, <1>2, <1>3, <1>6, <1>7 DEF P!PreciseDomain, AllBlocks

-----------------------------------------------------------------------------
(* The analysis. *)

\* The paths of P are those of DefinitionPaths.
LEMMA SamePaths ==
  ASSUME NEW bdy
  PROVE  /\ P!Paths(bdy) = Entries(bdy)
         /\ \A b, c : P!At(bdy, b, c) = Along(bdy, b, c, Exec)
         /\ \A b, c : P!Onwards(bdy, b, c) = Onward(bdy, b, c, Exec, Leave, Unwind)
         /\ P!AllReachable(bdy) = AllReachable(bdy)
<1>1. \A S0, next, U : P!Closure(S0, next, U) = Closure(S0, next, U)
  BY DEF P!Closure, Closure
<1>2. \A b, c : P!At(bdy, b, c) = Along(bdy, b, c, Exec)
  BY SameMir DEF P!At, P!Along, Along
<1>3. \A b, c : P!Onwards(bdy, b, c) = Onward(bdy, b, c, Exec, Leave, Unwind)
  BY SameMir, <1>2 DEF P!Onwards, P!Onward, Onward, P!At
<1>4. P!Paths(bdy) = Entries(bdy)
  BY SameMir, <1>1, <1>3 DEF P!Paths, P!Entering, Entries, Entering, P!Onwards, ReachStart, ReachStates
<1>5. P!AllReachable(bdy) = AllReachable(bdy)
  BY SameMir, <1>1 DEF P!AllReachable, AllReachable, P!ReachableFrom, ReachableFrom
<1> QED
  BY <1>2, <1>3, <1>4, <1>5

\* The states of a path in block b, and where it goes from there.
States(bdy, b, c) == Along(bdy, b, c, Exec)
GoesTo(bdy, b, c) == Onward(bdy, b, c, Exec, Leave, Unwind)

\* What the paths are, in terms of the reference alone: they start with AtStart, go on,
\* there are no others, and where all blocks can be reached one of them enters each.
LEMMA PathFacts ==
  ASSUME NEW bdy \in Bodies
  PROVE  /\ <<START_BLOCK, AtStart>> \in Entries(bdy)
         /\ Entries(bdy) \subseteq (DOMAIN bdy) \X ReachStates(bdy)
         /\ \A b \in DOMAIN bdy : \A c \in ReachStates(bdy) :
              GoesTo(bdy, b, c) \subseteq (DOMAIN bdy) \X ReachStates(bdy)
         /\ \A x \in Entries(bdy) : GoesTo(bdy, x[1], x[2]) \subseteq Entries(bdy)
         /\ \A C : (/\ <<START_BLOCK, AtStart>> \in C
                    /\ \A x \in C \cap ((DOMAIN bdy) \X ReachStates(bdy)) :
                         GoesTo(bdy, x[1], x[2]) \subseteq C)
                   => Entries(bdy) \subseteq C
         /\ AllReachable(bdy) => \A b \in DOMAIN bdy : \E c \in ReachStates(bdy) : <<b, c>> \in Entries(bdy)
         /\ \A b \in DOMAIN bdy : \A c \in ReachStates(bdy) :
              /\ States(bdy, b, c)[0] = c
              /\ \A i \in 1 .. terminator_index(bdy, b) :
                   States(bdy, b, c)[i] =
                     Exec(States(bdy, b, c)[i - 1], bdy[b].statements[i], <<b, i - 1>>)
              /\ \A i \in 0 .. terminator_index(bdy, b) : States(bdy, b, c)[i] \in ReachStates(bdy)
<1>1. /\ {START_BLOCK} \X {AtStart} \subseteq Entries(bdy)
      /\ Entries(bdy) \subseteq (DOMAIN bdy) \X ReachStates(bdy)
      /\ \A x \in Entries(bdy) : GoesTo(bdy, x[1], x[2]) \subseteq Entries(bdy)
      /\ \A C : (/\ {START_BLOCK} \X {AtStart} \subseteq C
                 /\ \A x \in C \cap ((DOMAIN bdy) \X ReachStates(bdy)) :
                      GoesTo(bdy, x[1], x[2]) \subseteq C)
                => Entries(bdy) \subseteq C
  <2>1. \A b, c : P!Onwards(bdy, b, c) = GoesTo(bdy, b, c)
    BY SamePaths DEF GoesTo
  <2> QED
    BY <2>1, SamePaths, SameMir, ReachDomainOK, P!PathsAreClosure DEF ReachStart
<1>2. ASSUME AllReachable(bdy), NEW b \in DOMAIN bdy PROVE \E c \in ReachStates(bdy) : <<b, c>> \in Entries(bdy)
  <2>1. P!EntriesAt(bdy, b) # {}
    BY <1>2, SamePaths, ReachDomainOK, ReachPreciseDomain, P!EveryBlockEntered
  <2> QED
    BY <2>1, SamePaths DEF P!EntriesAt
<1>3. ASSUME NEW b \in DOMAIN bdy, NEW c \in ReachStates(bdy)
      PROVE  /\ States(bdy, b, c)[0] = c
             /\ \A i \in 1 .. terminator_index(bdy, b) :
                  States(bdy, b, c)[i] =
                    Exec(States(bdy, b, c)[i - 1], bdy[b].statements[i], <<b, i - 1>>)
             /\ \A i \in 0 .. terminator_index(bdy, b) : States(bdy, b, c)[i] \in ReachStates(bdy)
  <2>1. P!At(bdy, b, c) = States(bdy, b, c) /\ P!terminator_index(bdy, b) = terminator_index(bdy, b)
    BY SamePaths, SameMir DEF States
  <2>2. /\ P!At(bdy, b, c)[0] = c
        /\ \A i \in 1 .. P!terminator_index(bdy, b) :
             P!At(bdy, b, c)[i] = Exec(P!At(bdy, b, c)[i - 1], bdy[b].statements[i], <<b, i - 1>>)
    BY ReachDomainOK, P!AlongUnfolds DEF P!DomainOK
  <2>3. \A i \in 0 .. P!terminator_index(bdy, b) : P!At(bdy, b, c)[i] \in ReachStates(bdy)
    BY ReachDomainOK, P!AlongStates
  <2> QED
    BY <2>1, <2>2, <2>3
<1>4. \A C : <<START_BLOCK, AtStart>> \in C <=> {START_BLOCK} \X {AtStart} \subseteq C
  OBVIOUS
<1>5. \A b \in DOMAIN bdy : \A c \in ReachStates(bdy) :
        GoesTo(bdy, b, c) \subseteq (DOMAIN bdy) \X ReachStates(bdy)
  <2>1. \A b, c : P!Onwards(bdy, b, c) = GoesTo(bdy, b, c)
    BY SamePaths DEF GoesTo
  <2> QED
    BY <2>1, ReachDomainOK, P!AlongStates
<1> QED
  BY <1>1, <1>2, <1>3, <1>4, <1>5

\* A result that is sound and precise for the paths is exact.
LEMMA ExactFromPaths ==
  ASSUME body \in Bodies, P!FixedPoint, P!Sound, P!Precise
  PROVE  ReachingDefinitionsExact
<1> SUFFICES ASSUME status = "done", NEW b \in DOMAIN body, NEW i \in DOMAIN state_before[b], NEW x \in Locals
             PROVE  /\ Reaching(body, b, i, x) \ {Replacement} \subseteq Defs(state_before[b][i], x)
                    /\ AllReachable(body) /\ Replacement \notin Reaching(body, b, i, x) =>
                         Defs(state_before[b][i], x) \subseteq Reaching(body, b, i, x)
  BY DEF ReachingDefinitionsExact
<1>1. b \in DOMAIN state_before /\ state_before[b] = P!Visit(b)
  BY DEF P!FixedPoint, P!Blocks, P!Settled
<1>2. i \in 0 .. terminator_index(body, b)
  <2>1. Len(body[b].statements) \in Nat /\ Len(body[b].statements) = terminator_index(body, b)
    BY BodyFacts
  <2> QED
    BY <1>1, <2>1, P!BlockUnfolds DEF P!Visit
<1> DEFINE At(c) == Along(body, b, c, Exec)[i]
<1>3. Reaching(body, b, i, x) = {At(e[2])[x] : e \in {e \in Entries(body) : e[1] = b}} \ {NoDefinition}
  BY DEF Reaching
<1>4. Entries(body) \subseteq (DOMAIN body) \X ReachStates(body)
  BY ReachDomainOK, P!PathsAreClosure, SamePaths
<1>5. P!AtLocation(body, b, i) = {At(c) : c \in {c \in ReachStates(body) : <<b, c>> \in Entries(body)}}
  BY SamePaths DEF P!AtLocation, P!EntriesAt
<1> HIDE DEF At
<1>6. Reaching(body, b, i, x) \ {Replacement} \subseteq Defs(state_before[b][i], x)
  <2> SUFFICES ASSUME NEW e \in Entries(body), e[1] = b, At(e[2])[x] \notin {NoDefinition, Replacement}
               PROVE  At(e[2])[x] \in Defs(state_before[b][i], x)
    BY <1>3
  <2>1. e \in P!Paths(body)
    BY SamePaths
  <2>2. Found(state_before[b][i], P!At(body, b, e[2])[i])
    BY <1>2, <2>1, SameMir DEF P!Sound
  <2>3. P!At(body, b, e[2])[i] = At(e[2])
    BY SamePaths DEF At
  <2> QED
    BY <2>2, <2>3 DEF Found
<1>7. ASSUME AllReachable(body), Replacement \notin Reaching(body, b, i, x)
      PROVE  Defs(state_before[b][i], x) \subseteq Reaching(body, b, i, x)
  <2>1. P!AllReachable(body)
    BY <1>7, SamePaths
  <2>2. Supported(state_before[b][i], P!AtLocation(body, b, i))
    BY <1>1, <1>2, <2>1, SameMir DEF P!Precise, AllBlocks
  <2>3. ASSUME NEW d \in Defs(state_before[b][i], x) PROVE d \in Reaching(body, b, i, x)
    <3>1. PICK a \in P!AtLocation(body, b, i) : a[x] \in {d, Replacement} /\ d # NoDefinition
      BY <2>2 DEF Supported
    <3>2. PICK c \in ReachStates(body) : <<b, c>> \in Entries(body) /\ a = At(c)
      BY <1>5, <3>1
    <3>3. <<b, c>>[1] = b /\ <<b, c>>[2] = c
      OBVIOUS
    <3>4. NoDefinition # Replacement
      BY DEF NoDefinition, Replacement
    <3>5. a[x] \in Reaching(body, b, i, x)
      BY <1>3, <3>1, <3>2, <3>3, <3>4
    <3> QED
      BY <1>7, <3>1, <3>5
  <2> QED
    BY <2>3
<1> QED
  BY <1>6, <1>7

\* ReachingDefsState::run_analysis finds, at every location of every body, each
\* definition that a variable can have there on some path, unwinding included, other than
\* by DropAndReplace; and no other, if the body has no dead blocks and no path replaced
\* the variable.
THEOREM DefinitionsAreExact == Spec => []ReachingDefinitionsExact
<1>1. P!Spec => []P!FixedPoint
  BY P!ResultIsFixedPoint
<1>2. P!Spec => []P!Sound
  BY P!ResultIsSound, ReachDomainOK, ReachSoundDomain
<1>3. P!Spec => []P!Precise
  BY P!ResultIsPrecise, ReachDomainOK, ReachPreciseDomain
<1>4. Spec => [](body \in Bodies)
  <2>1. Init => body \in Bodies
    BY DEF Init, A!Init
  <2>2. body \in Bodies /\ [Next]_vars => (body \in Bodies)'
    BY DEF Next, A!Next, A!AnalyzeBlock, A!Finish, vars
  <2> QED
    BY <2>1, <2>2, PTL DEF Spec
<1>5. body \in Bodies /\ P!FixedPoint /\ P!Sound /\ P!Precise => ReachingDefinitionsExact
  BY ExactFromPaths
<1> QED
  BY <1>1, <1>2, <1>3, <1>4, <1>5, SameAnalyzer, PTL
==============================================================================
