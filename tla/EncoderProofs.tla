----------------------------- MODULE EncoderProofs -----------------------------
(***************************************************************************)
(* The encoder does not panic and only reports success for what it has     *)
(* encoded, for every crate and every task.                                *)
(***************************************************************************)
EXTENDS Encoder, FiniteSetTheorems, WellFoundedInduction, TLAPS

-------------------------------------------------------------------------------
(* The symbols of the name interner are unique and stable, for every set   *)
(* of names and every order in which they are interned.                    *)

\* The symbols that count as used are the ones that were handed out.
UsedAreHandedOut ==
  used_symbols = {name_to_symbol[f] : f \in DOMAIN name_to_symbol}

\* A name has one of the symbols that were proposed for it.
SymbolsAreCandidates ==
  \A f \in DOMAIN name_to_symbol : name_to_symbol[f] \in Candidates(f)

(***************************************************************************)
(* Uniqueness alone is not inductive.  A readable name is new because      *)
(* used_symbols has all symbols; a full name is new because only its owner *)
(* may propose it.                                                         *)
(***************************************************************************)
InternerInv ==
  /\ DOMAIN name_to_symbol \subseteq FullNames
  /\ name_to_symbol \in [DOMAIN name_to_symbol -> STRING]
  /\ UsedAreHandedOut
  /\ SymbolsAreCandidates
  /\ UniqueSymbols

\* A candidate of a name is a string, and never the full name of another one.
LEMMA CandidatesLemma ==
  ASSUME NEW f \in FullNames, NEW s \in Candidates(f)
  PROVE  /\ s \in STRING
         /\ s \in FullNames => s = f
<1>1. CASE s = f
  BY <1>1, ReadableAssumption
<1>2. ASSUME NEW i \in 1 .. Len(ReadableNames[f]), s = ReadableNames[f][i]
      PROVE  s \in STRING /\ (s \in FullNames => s = f)
  <2>1. ReadableNames[f] \in Seq(STRING)
    BY ReadableAssumption
  <2>2. s \in STRING
    BY <1>2, <2>1
  <2> QED
    BY <1>2, <2>2, ReadableAssumption
<1> QED
  BY <1>1, <1>2 DEF Candidates

\* The symbol chosen for a name that is not known belongs to nobody else.
LEMMA NewSymbolIsFresh ==
  ASSUME InternerInv, NEW f \in FullNames, f \notin DOMAIN name_to_symbol,
         NEW s \in Candidates(f), NewSymbol(f, s)
  PROVE  s \notin used_symbols
<1>1. CASE Unused(f) = {}
  <2>1. s = f
    BY <1>1 DEF NewSymbol
  <2>2. SUFFICES ASSUME NEW g \in DOMAIN name_to_symbol, name_to_symbol[g] = f
                 PROVE  FALSE
    BY <2>1 DEF InternerInv, UsedAreHandedOut
  <2>3. g \in FullNames /\ f \in Candidates(g)
    BY <2>2 DEF InternerInv, SymbolsAreCandidates
  <2>4. f = g
    BY <2>3, CandidatesLemma
  <2> QED
    BY <2>2, <2>4
<1>2. CASE Unused(f) # {}
  BY <1>2 DEF NewSymbol, Unused
<1> QED
  BY <1>1, <1>2

\* intern keeps the invariant, for a new name and for a known one.
LEMMA InternKeepsInv ==
  ASSUME InternerInv, NEW f \in FullNames, Intern(f)
  PROVE  InternerInv'
<1>1. CASE f \in DOMAIN name_to_symbol
  BY <1>1 DEF Intern, internerVars, InternerInv, UsedAreHandedOut, SymbolsAreCandidates,
              Candidates, UniqueSymbols
<1>2. CASE f \notin DOMAIN name_to_symbol
  <2>1. PICK s \in Candidates(f) : NewSymbol(f, s) /\ Assign(f, s)
    BY <1>2 DEF Intern
  <2>2. s \in STRING /\ s \notin used_symbols
    BY <1>2, <2>1, CandidatesLemma, NewSymbolIsFresh
  <2>3. /\ DOMAIN name_to_symbol' = DOMAIN name_to_symbol \cup {f}
        /\ name_to_symbol'[f] = s
        /\ \A g \in DOMAIN name_to_symbol : name_to_symbol'[g] = name_to_symbol[g]
        /\ used_symbols' = used_symbols \cup {s}
    BY <1>2, <2>1 DEF Assign
  <2>4. /\ DOMAIN name_to_symbol' \subseteq FullNames
        /\ name_to_symbol' \in [DOMAIN name_to_symbol' -> STRING]
    BY <1>2, <2>1, <2>2, <2>3 DEF InternerInv, Assign
  <2>5. UsedAreHandedOut'
    BY <1>2, <2>3 DEF InternerInv, UsedAreHandedOut
  <2>6. SymbolsAreCandidates'
    BY <1>2, <2>1, <2>3 DEF InternerInv, SymbolsAreCandidates, Candidates
  <2>7. \A g \in DOMAIN name_to_symbol : name_to_symbol[g] # s
    BY <2>2 DEF InternerInv, UsedAreHandedOut
  <2>8. UniqueSymbols'
    BY <1>2, <2>3, <2>7 DEF InternerInv, UniqueSymbols
  <2> QED
    BY <2>4, <2>5, <2>6, <2>8 DEF InternerInv
<1> QED
  BY <1>1, <1>2

\* intern never changes the symbol of a known name.
LEMMA InternKeepsSymbols ==
  ASSUME NEW f \in FullNames, Intern(f), NEW g \in DOMAIN name_to_symbol
  PROVE  g \in DOMAIN name_to_symbol' /\ name_to_symbol'[g] = name_to_symbol[g]
<1>1. CASE f \in DOMAIN name_to_symbol
  BY <1>1 DEF Intern, internerVars
<1>2. CASE f \notin DOMAIN name_to_symbol
  BY <1>2 DEF Intern, Assign
<1> QED
  BY <1>1, <1>2

LEMMA InternerInductive == InternerSpec => []InternerInv
<1>1. InternerInit => InternerInv
  BY DEF InternerInit, InternerInv, UsedAreHandedOut, SymbolsAreCandidates, UniqueSymbols
<1>2. InternerInv /\ [InternerNext]_internerVars => InternerInv'
  <2>1. ASSUME InternerInv, InternerNext PROVE InternerInv'
    BY <2>1, InternKeepsInv DEF InternerNext
  <2>2. ASSUME InternerInv, UNCHANGED internerVars PROVE InternerInv'
    BY <2>2 DEF internerVars, InternerInv, UsedAreHandedOut, SymbolsAreCandidates,
                Candidates, UniqueSymbols
  <2> QED
    BY <2>1, <2>2
<1> QED
  BY <1>1, <1>2, PTL DEF InternerSpec

(***************************************************************************)
(* "a possibly readable string that uniquely identifies it": in whatever   *)
(* order full and readable names reach NameInterner::intern, two full      *)
(* names never get the same symbol.                                        *)
(***************************************************************************)
THEOREM SymbolsAreUnique == InternerSpec => []UniqueSymbols
<1>1. InternerInv => UniqueSymbols
  BY DEF InternerInv
<1> QED
  BY <1>1, InternerInductive, PTL

(***************************************************************************)
(* A symbol that NameInterner::intern has handed out stays the symbol of   *)
(* its name.                                                               *)
(***************************************************************************)
THEOREM SymbolsAreStable == InternerSpec => StableSymbols
<1>1. [InternerNext]_internerVars =>
        [\A f \in DOMAIN name_to_symbol :
           f \in DOMAIN name_to_symbol' /\ name_to_symbol'[f] = name_to_symbol[f]]_internerVars
  BY InternKeepsSymbols DEF InternerNext
<1> QED
  BY <1>1, PTL DEF InternerSpec, StableSymbols

-------------------------------------------------------------------------------
(* Sequences of anything *)

IsSeq(s) == \E S : s \in Seq(S)

LEMMA SeqFacts ==
  ASSUME NEW s, IsSeq(s)
  PROVE  Len(s) \in Nat /\ DOMAIN s = 1 .. Len(s)
BY DEF IsSeq

LEMMA ConcatFacts ==
  ASSUME NEW s, NEW t, IsSeq(s), IsSeq(t)
  PROVE  /\ IsSeq(s \o t)
         /\ Len(s \o t) = Len(s) + Len(t)
         /\ \A i \in 1 .. Len(s) : (s \o t)[i] = s[i]
         /\ \A i \in 1 .. Len(t) : (s \o t)[Len(s) + i] = t[i]
<1>1. PICK S : s \in Seq(S)
  BY DEF IsSeq
<1>2. PICK T : t \in Seq(T)
  BY DEF IsSeq
<1>3. s \in Seq(S \cup T) /\ t \in Seq(S \cup T)
  BY <1>1, <1>2
<1>4. s \o t \in Seq(S \cup T)
  BY <1>3
<1> QED
  BY <1>3, <1>4 DEF IsSeq

LEMMA TailFacts ==
  ASSUME NEW s, IsSeq(s), s # <<>>
  PROVE  /\ IsSeq(Tail(s)) /\ Len(s) > 0 /\ Len(Tail(s)) = Len(s) - 1
         /\ Head(s) = s[1]
         /\ \A i \in 1 .. Len(s) - 1 : Tail(s)[i] = s[i + 1]
<1>1. PICK S : s \in Seq(S)
  BY DEF IsSeq
<1>2. Tail(s) \in Seq(S) /\ Len(s) > 0
  BY <1>1
<1> QED
  BY <1>1, <1>2 DEF IsSeq

LEMMA SingletonFacts ==
  ASSUME NEW e
  PROVE  IsSeq(<<e>>) /\ Len(<<e>>) = 1 /\ <<e>>[1] = e
<1>1. <<e>> \in Seq({e})
  OBVIOUS
<1> QED
  BY <1>1 DEF IsSeq

LEMMA EmptyFacts == IsSeq(<<>>) /\ Len(<<>>) = 0
<1>1. <<>> \in Seq({})
  OBVIOUS
<1> QED
  BY <1>1 DEF IsSeq

LEMMA SubSeqFacts ==
  ASSUME NEW s, IsSeq(s), NEW m \in 1 .. Len(s) + 1, NEW n \in 0 .. Len(s), m <= n + 1
  PROVE  /\ IsSeq(SubSeq(s, m, n)) /\ Len(SubSeq(s, m, n)) = n - m + 1
         /\ \A i \in 1 .. n - m + 1 : SubSeq(s, m, n)[i] = s[m + i - 1]
<1>1. PICK S : s \in Seq(S)
  BY DEF IsSeq
<1>2. SubSeq(s, m, n) \in Seq(S)
  BY <1>1
<1> QED
  BY <1>1, <1>2 DEF IsSeq

\* How often an operation occurs in a list of steps.
At(op, s) == {i \in DOMAIN s : s[i].op = op}

Count(op, s) == Cardinality(At(op, s))

LEMMA CountIsNat ==
  ASSUME NEW op, NEW s, IsSeq(s)
  PROVE  IsFiniteSet(At(op, s)) /\ Count(op, s) \in Nat
<1>1. IsFiniteSet(1 .. Len(s))
  BY SeqFacts, FS_Interval
<1>2. At(op, s) \subseteq 1 .. Len(s)
  BY SeqFacts DEF At
<1> QED
  BY <1>1, <1>2, FS_Subset, FS_CardinalityType DEF Count

LEMMA CountConcat ==
  ASSUME NEW op, NEW s, NEW t, IsSeq(s), IsSeq(t)
  PROVE  Count(op, s \o t) = Count(op, s) + Count(op, t)
<1> DEFINE f == [i \in At(op, t) |-> Len(s) + i]
           M == {Len(s) + i : i \in At(op, t)}
<1>1. DOMAIN s = 1 .. Len(s) /\ DOMAIN t = 1 .. Len(t) /\ Len(s) \in Nat /\ Len(t) \in Nat
  BY SeqFacts
<1>2. /\ DOMAIN (s \o t) = 1 .. Len(s) + Len(t)
      /\ \A i \in 1 .. Len(s) : (s \o t)[i] = s[i]
      /\ \A i \in 1 .. Len(t) : (s \o t)[Len(s) + i] = t[i]
  BY ConcatFacts, SeqFacts
<1>3. At(op, s) \subseteq 1 .. Len(s) /\ At(op, t) \subseteq 1 .. Len(t)
  BY <1>1 DEF At
<1>4. At(op, s \o t) = At(op, s) \cup M
  <2>1. ASSUME NEW i \in At(op, s \o t) PROVE i \in At(op, s) \cup M
    <3>1. CASE i <= Len(s)
      BY <1>1, <1>2, <3>1 DEF At
    <3>2. CASE ~(i <= Len(s))
      <4>1. i - Len(s) \in 1 .. Len(t) /\ i = Len(s) + (i - Len(s))
        BY <1>1, <1>2, <3>2 DEF At
      <4>2. i - Len(s) \in At(op, t)
        BY <1>1, <1>2, <4>1 DEF At
      <4> QED
        BY <4>1, <4>2
    <3> QED
      BY <3>1, <3>2
  <2>2. ASSUME NEW i \in At(op, s) PROVE i \in At(op, s \o t)
    BY <1>1, <1>2 DEF At
  <2>3. ASSUME NEW i \in At(op, t) PROVE Len(s) + i \in At(op, s \o t)
    BY <1>1, <1>2 DEF At
  <2> QED
    BY <2>1, <2>2, <2>3
<1>5. At(op, s) \cap M = {}
  BY <1>1, <1>3
<1>6. IsFiniteSet(At(op, s)) /\ IsFiniteSet(At(op, t))
  BY CountIsNat
<1>7. f \in Bijection(At(op, t), M)
  <2>1. f \in [At(op, t) -> M] /\ \A e \in M : \E i \in At(op, t) : f[i] = e
    OBVIOUS
  <2>2. \A i, j \in At(op, t) : f[i] = f[j] => i = j
    BY <1>1, <1>3
  <2> QED
    BY <2>1, <2>2 DEF Bijection, Injection, Surjection, IsInjective
<1>8. IsFiniteSet(M) /\ Cardinality(M) = Cardinality(At(op, t))
  BY <1>6, <1>7, FS_Bijection, Zenon DEF ExistsBijection
<1>9. Cardinality(At(op, s) \cup M) = Cardinality(At(op, s)) + Cardinality(M) - Cardinality({})
  BY <1>5, <1>6, <1>8, FS_Union
<1> QED
  BY <1>4, <1>8, <1>9, <1>6, FS_EmptySet, FS_CardinalityType DEF Count

LEMMA CountSingleton ==
  ASSUME NEW op, NEW e
  PROVE  Count(op, <<e>>) = IF e.op = op THEN 1 ELSE 0
<1>1. DOMAIN <<e>> = {1} /\ <<e>>[1] = e
  BY SingletonFacts, SeqFacts
<1>2. At(op, <<e>>) = IF e.op = op THEN {1} ELSE {}
  BY <1>1 DEF At
<1> QED
  BY <1>2, FS_EmptySet, FS_Singleton DEF Count

LEMMA CountNone ==
  ASSUME NEW op, NEW s, \A i \in DOMAIN s : s[i].op # op
  PROVE  Count(op, s) = 0
BY FS_EmptySet DEF Count, At

-------------------------------------------------------------------------------
(* The discipline of the stack *)

(***************************************************************************)
(* The order in which the tables are borrowed: what runs while a table is  *)
(* borrowed only borrows tables of a lower rank.  Naming types and         *)
(* encoding predicates borrows nothing, the snapshot encoder borrows the   *)
(* array types, the discriminant functions borrow the snapshot encoder.    *)
(***************************************************************************)
CellRank(c) == IF c = "array_types_encoder" THEN 1 ELSE IF c = "snapshot_encoder" THEN 2 ELSE 3

OpRank(op) ==
  IF op \in {"item_name", "encode_type", "predicate_use", "predicate_name", "predicate_def",
             "predicate_insert", "array_types_insert"} THEN 0
  ELSE IF op \in {"encode_snapshot", "snapshot_lookup", "snapshot_field", "snapshot_insert", "snap_app",
                  "array_types", "builtin_function"} THEN 1
  ELSE IF op \in {"discriminant_func", "discriminant_insert"} THEN 2
  ELSE 3

\* The tables a step and what it calls borrow have at most this rank.
Rank(it) ==
  IF it.op \in {"borrow_mut", "release"} THEN CellRank(it.x)
  ELSE IF it.op = "for" THEN OpRank(it.x[1])
  ELSE OpRank(it.op)

LoopOps ==
  {"predicate_use", "encode_type", "snapshot", "encode_snapshot", "item_name", "snapshot_field",
   "invariant_field"}

\* The functions that the steps are about.
ItemOK(it) ==
  /\ it.op \in {"pure_function_key", "pure_function_lookup", "assertion", "assertion_lookup", "procedure",
                "contract_for_call", "spec_funcs", "pure_function_use"} => it.x \in DOMAIN Fns
  /\ it.op = "pure_function_use" => Fns[it.x].pure
  /\ it.op \in {"pure_function_def", "call_pure", "call_impure"} => it.x[1] \in DOMAIN Fns
  /\ it.op = "call_pure" => Fns[it.x[1]].pure
  /\ it.op = "for" => it.x[1] \in LoopOps

\* From k on, the table c is released, after steps of a lower rank only.
Released(s, c, k) ==
  \E i \in k .. Len(s) :
    /\ s[i].op = "release" /\ s[i].x = c
    /\ \A j \in k .. i - 1 : Rank(s[j]) < CellRank(c)

Brackets(s) == \A k \in 1 .. Len(s) : s[k].op = "borrow_mut" => Released(s, s[k].x, k + 1)

\* A type map is pushed before anything else happens than naming types.
PushFirst(s) == \A k \in 1 .. Len(s) : s[k].op = "push_tymap" => \A j \in 1 .. k - 1 : Rank(s[j]) = 0

Placed == {"queue_done", "pure_function_def", "stub"}

Fits(s, r) ==
  /\ IsSeq(s)
  /\ \A i \in 1 .. Len(s) : ItemOK(s[i]) /\ Rank(s[i]) \in 0 .. r /\ s[i].op \notin Placed
  /\ Brackets(s)
  /\ PushFirst(s)
  /\ Count("pop_tymap", s) = Count("push_tymap", s)

NoPush(s) == \A i \in 1 .. Len(s) : s[i].op # "push_tymap"

\* A list of steps that a function of rank r makes.
Steps(s, r) == Fits(s, r) /\ NoPush(s)

LEMMA RankFacts ==
  /\ \A it : Rank(it) \in 0 .. 3
  /\ \A c : CellRank(c) \in 1 .. 3
BY DEF Rank, OpRank, CellRank

LEMMA EmptySteps ==
  ASSUME NEW r PROVE Steps(<<>>, r)
<1>1. \A op : Count(op, <<>>) = 0
  BY CountNone
<1> QED
  BY <1>1, EmptyFacts DEF Steps, Fits, NoPush, Brackets, PushFirst

LEMMA OneStep ==
  ASSUME NEW it, NEW r \in 0 .. 3, ItemOK(it), Rank(it) <= r,
         it.op \notin {"queue_done", "pure_function_def", "stub", "borrow_mut", "push_tymap", "pop_tymap"}
  PROVE  Steps(<<it>>, r)
<1>1. IsSeq(<<it>>) /\ Len(<<it>>) = 1 /\ <<it>>[1] = it
  BY SingletonFacts
<1>2. Count("pop_tymap", <<it>>) = 0 /\ Count("push_tymap", <<it>>) = 0
  BY CountSingleton
<1>3. Rank(it) \in 0 .. r
  BY RankFacts
<1> HIDE DEF Rank
<1> QED
  BY <1>1, <1>2, <1>3 DEF Steps, Fits, NoPush, Brackets, PushFirst, Placed

\* A bracket that is closed in a part of a list is closed in the list.
LEMMA ReleasedLater ==
  ASSUME NEW s, NEW t, IsSeq(s), IsSeq(t), NEW c, NEW k \in Nat, k >= 1
  PROVE  /\ Released(s, c, k) => Released(s \o t, c, k)
         /\ Released(t, c, k) => Released(s \o t, c, Len(s) + k)
         /\ Released(t, c, 1) /\ (\A j \in k .. Len(s) : Rank(s[j]) < CellRank(c)) /\ k <= Len(s) + 1
              => Released(s \o t, c, k)
<1> DEFINE u == s \o t
<1>1. /\ Len(u) = Len(s) + Len(t) /\ Len(s) \in Nat /\ Len(t) \in Nat
      /\ \A i \in 1 .. Len(s) : u[i] = s[i]
      /\ \A i \in 1 .. Len(t) : u[Len(s) + i] = t[i]
  BY ConcatFacts, SeqFacts
<1> HIDE DEF u
<1>2. ASSUME Released(s, c, k) PROVE Released(u, c, k)
  <2>1. PICK i \in k .. Len(s) : /\ s[i].op = "release" /\ s[i].x = c
                                 /\ \A j \in k .. i - 1 : Rank(s[j]) < CellRank(c)
    BY <1>2 DEF Released
  <2>2. i \in k .. Len(u) /\ u[i] = s[i] /\ \A j \in k .. i - 1 : j \in 1 .. Len(s)
    BY <1>1
  <2>3. \A j \in k .. i - 1 : Rank(u[j]) < CellRank(c)
    BY <1>1, <2>1, <2>2
  <2> QED
    BY <2>1, <2>2, <2>3 DEF Released
<1>3. ASSUME Released(t, c, k) PROVE Released(u, c, Len(s) + k)
  <2>1. PICK i \in k .. Len(t) : /\ t[i].op = "release" /\ t[i].x = c
                                 /\ \A j \in k .. i - 1 : Rank(t[j]) < CellRank(c)
    BY <1>3 DEF Released
  <2>2. Len(s) + i \in Len(s) + k .. Len(u) /\ u[Len(s) + i] = t[i]
    BY <1>1
  <2>3. ASSUME NEW j \in Len(s) + k .. Len(s) + i - 1 PROVE Rank(u[j]) < CellRank(c)
    <3>1. j - Len(s) \in k .. i - 1 /\ j - Len(s) \in 1 .. Len(t) /\ j = Len(s) + (j - Len(s))
      BY <1>1
    <3> QED
      BY <1>1, <2>1, <3>1
  <2> QED
    BY <2>1, <2>2, <2>3 DEF Released
<1>4. ASSUME Released(t, c, 1), \A j \in k .. Len(s) : Rank(s[j]) < CellRank(c), k <= Len(s) + 1
      PROVE  Released(u, c, k)
  <2>1. PICK i \in 1 .. Len(t) : /\ t[i].op = "release" /\ t[i].x = c
                                 /\ \A j \in 1 .. i - 1 : Rank(t[j]) < CellRank(c)
    BY <1>4 DEF Released
  <2>2. Len(s) + i \in k .. Len(u) /\ u[Len(s) + i] = t[i]
    BY <1>1, <1>4
  <2>3. ASSUME NEW j \in k .. Len(s) + i - 1 PROVE Rank(u[j]) < CellRank(c)
    <3>1. CASE j <= Len(s)
      <4>1. j \in k .. Len(s) /\ j \in 1 .. Len(s)
        BY <1>1, <3>1
      <4> QED
        BY <1>1, <1>4, <4>1
    <3>2. CASE ~(j <= Len(s))
      <4>1. j - Len(s) \in 1 .. i - 1 /\ j - Len(s) \in 1 .. Len(t) /\ j = Len(s) + (j - Len(s))
        BY <1>1, <3>2
      <4> QED
        BY <1>1, <2>1, <4>1
    <3> QED
      BY <3>1, <3>2
  <2> QED
    BY <2>1, <2>2, <2>3 DEF Released
<1> QED
  BY <1>2, <1>3, <1>4 DEF u

\* Lists of steps can be put together.
LEMMA ConcatFits ==
  ASSUME NEW s, NEW t, NEW r \in 0 .. 3, Fits(s, r), Fits(t, r), NoPush(t) \/ Fits(s, 0)
  PROVE  Fits(s \o t, r)
<1> DEFINE u == s \o t
<1>1. IsSeq(s) /\ IsSeq(t)
  BY DEF Fits
<1>2. /\ IsSeq(u) /\ Len(u) = Len(s) + Len(t) /\ Len(s) \in Nat /\ Len(t) \in Nat
      /\ \A i \in 1 .. Len(s) : u[i] = s[i]
      /\ \A i \in 1 .. Len(t) : u[Len(s) + i] = t[i]
  BY <1>1, ConcatFacts, SeqFacts
<1>3. \A op : Count(op, u) = Count(op, s) + Count(op, t)
  BY <1>1, CountConcat
<1>4. \A i \in 1 .. Len(u) : (i \in 1 .. Len(s) /\ u[i] = s[i])
                            \/ (i - Len(s) \in 1 .. Len(t) /\ u[i] = t[i - Len(s)])
  <2> TAKE i \in 1 .. Len(u)
  <2>1. CASE i <= Len(s)
    BY <1>2, <2>1
  <2>2. CASE ~(i <= Len(s))
    <3>1. i - Len(s) \in 1 .. Len(t) /\ i = Len(s) + (i - Len(s))
      BY <1>2, <2>2
    <3> QED
      BY <1>2, <3>1
  <2> QED
    BY <2>1, <2>2
<1>5. \A i \in 1 .. Len(u) : ItemOK(u[i]) /\ Rank(u[i]) \in 0 .. r /\ u[i].op \notin Placed
  BY <1>4 DEF Fits
<1>6. Brackets(u)
  <2> SUFFICES ASSUME NEW k \in 1 .. Len(u), u[k].op = "borrow_mut" PROVE Released(u, u[k].x, k + 1)
    BY DEF Brackets
  <2>1. CASE k \in 1 .. Len(s) /\ u[k] = s[k]
    <3>1. Released(s, u[k].x, k + 1)
      BY <2>1 DEF Fits, Brackets
    <3> QED
      BY <1>1, <1>2, <2>1, <3>1, ReleasedLater DEF u
  <2>2. CASE k - Len(s) \in 1 .. Len(t) /\ u[k] = t[k - Len(s)]
    <3>1. Released(t, u[k].x, (k - Len(s)) + 1)
      BY <2>2 DEF Fits, Brackets
    <3>2. Released(s \o t, u[k].x, Len(s) + ((k - Len(s)) + 1))
      BY <1>1, <1>2, <2>2, <3>1, ReleasedLater
    <3>3. Len(s) + ((k - Len(s)) + 1) = k + 1
      BY <1>2
    <3> QED
      BY <3>2, <3>3 DEF u
  <2> QED
    BY <1>4, <2>1, <2>2
<1> HIDE DEF u
<1>7. PushFirst(u)
  <2> SUFFICES ASSUME NEW k \in 1 .. Len(u), u[k].op = "push_tymap", NEW j \in 1 .. k - 1
               PROVE  Rank(u[j]) = 0
    BY DEF PushFirst
  <2>1. CASE k \in 1 .. Len(s) /\ u[k] = s[k]
    <3>1. s[k].op = "push_tymap"
      BY <2>1
    <3>2. PushFirst(s)
      BY DEF Fits
    <3>3. Rank(s[j]) = 0
      BY <2>1, <3>1, <3>2 DEF PushFirst
    <3>4. j \in 1 .. Len(s)
      BY <1>2, <2>1
    <3>5. u[j] = s[j]
      BY <1>2, <3>4
    <3> QED
      BY <3>3, <3>5
  <2>2. CASE k - Len(s) \in 1 .. Len(t) /\ u[k] = t[k - Len(s)]
    <3>1. Fits(s, 0)
      BY <2>2 DEF NoPush
    <3>2. CASE j \in 1 .. Len(s)
      <4>1. Rank(s[j]) \in 0 .. 0 /\ u[j] = s[j]
        BY <1>2, <3>1, <3>2 DEF Fits
      <4> QED
        BY <4>1
    <3>3. CASE j \notin 1 .. Len(s)
      <4>1. j \in 1 .. Len(u)
        BY <1>2, <2>2
      <4>2. PICK i \in 1 .. Len(t) : i = j - Len(s) /\ u[j] = t[i]
        BY <1>4, <3>3, <4>1
      <4>3. PICK h \in 1 .. Len(t) : h = k - Len(s) /\ u[k] = t[h]
        BY <2>2
      <4>4. i \in 1 .. h - 1
        BY <1>2, <4>2, <4>3
      <4>5. PushFirst(t) /\ t[h].op = "push_tymap"
        BY <4>3 DEF Fits
      <4> QED
        BY <4>2, <4>4, <4>5 DEF PushFirst
    <3> QED
      BY <3>2, <3>3
  <2> QED
    BY <1>4, <2>1, <2>2
<1>8. Count("pop_tymap", u) = Count("push_tymap", u)
  BY <1>3 DEF Fits
<1> QED
  BY <1>2, <1>5, <1>6, <1>7, <1>8 DEF Fits, u

LEMMA ConcatSteps ==
  ASSUME NEW s, NEW t, NEW r \in 0 .. 3, Steps(s, r), Steps(t, r)
  PROVE  Steps(s \o t, r)
<1>1. Fits(s \o t, r)
  BY ConcatFits DEF Steps
<1>2. NoPush(s \o t)
  <2>1. IsSeq(s) /\ IsSeq(t)
    BY DEF Steps, Fits
  <2>2. /\ Len(s \o t) = Len(s) + Len(t) /\ Len(s) \in Nat /\ Len(t) \in Nat
        /\ \A i \in 1 .. Len(s) : (s \o t)[i] = s[i]
        /\ \A i \in 1 .. Len(t) : (s \o t)[Len(s) + i] = t[i]
    BY <2>1, ConcatFacts, SeqFacts
  <2> SUFFICES ASSUME NEW i \in 1 .. Len(s) + Len(t) PROVE (s \o t)[i].op # "push_tymap"
    BY <2>2 DEF NoPush
  <2>3. CASE i <= Len(s)
    BY <2>2, <2>3 DEF Steps, NoPush
  <2>4. CASE ~(i <= Len(s))
    <3>1. i - Len(s) \in 1 .. Len(t) /\ i = Len(s) + (i - Len(s))
      BY <2>2, <2>4
    <3> QED
      BY <2>2, <3>1 DEF Steps, NoPush
  <2> QED
    BY <2>3, <2>4
<1> QED
  BY <1>1, <1>2 DEF Steps

LEMMA HigherRank ==
  ASSUME NEW s, NEW q \in 0 .. 3, NEW r \in 0 .. 3, q <= r
  PROVE  /\ Steps(s, q) => Steps(s, r)
         /\ Fits(s, q) => Fits(s, r)
<1>1. \A n \in 0 .. q : n \in 0 .. r
  OBVIOUS
<1> QED
  BY <1>1 DEF Steps, Fits

LEMMA LoopSteps ==
  ASSUME NEW op \in LoopOps, NEW xs, NEW r \in 0 .. 3, OpRank(op) <= r
  PROVE  Steps(For(op, xs), r)
<1>1. Steps(<<>>, r)
  BY EmptySteps
<1>2. Steps(<<Do("for", <<op, xs>>)>>, r)
  <2> DEFINE it == Do("for", <<op, xs>>)
  <2>1. it.op = "for" /\ it.x[1] = op
    BY DEF Do
  <2>2. Rank(it) = OpRank(op)
    BY <2>1 DEF Rank
  <2>3. ItemOK(it)
    BY <2>1 DEF ItemOK
  <2> HIDE DEF it
  <2>4. Steps(<<it>>, r)
    BY <2>1, <2>2, <2>3, OneStep
  <2> QED
    BY <2>4 DEF it
<1> QED
  BY <1>1, <1>2 DEF For

\* A table is borrowed for steps of a lower rank.
LEMMA BorrowedSteps ==
  ASSUME NEW c, NEW m, NEW r \in 0 .. 3, NEW q \in 0 .. 3,
         Steps(m, q), q < CellRank(c), CellRank(c) <= r
  PROVE  Steps(Borrowed(c, m), r)
<1> DEFINE b == Do("borrow_mut", c)
           e == Do("release", c)
           v == <<b>> \o m
           u == v \o <<e>>
<1>1. b.op = "borrow_mut" /\ b.x = c /\ e.op = "release" /\ e.x = c
  BY DEF Do
<1>2. Rank(b) = CellRank(c) /\ Rank(e) = CellRank(c) /\ ItemOK(b) /\ ItemOK(e) /\ CellRank(c) \in 1 .. 3
  BY <1>1, RankFacts DEF Rank, ItemOK
<1>3. Steps(m, r) /\ IsSeq(m) /\ Len(m) \in Nat
  <2>1. q <= r
    BY <1>2
  <2>2. Steps(m, r)
    BY <2>1, HigherRank
  <2>3. IsSeq(m)
    BY DEF Steps, Fits
  <2> QED
    BY <2>2, <2>3, SeqFacts
<1> HIDE DEF b, e
<1>4. IsSeq(<<b>>) /\ Len(<<b>>) = 1 /\ <<b>>[1] = b /\ IsSeq(<<e>>) /\ Len(<<e>>) = 1 /\ <<e>>[1] = e
  BY SingletonFacts
<1>5. IsSeq(v) /\ Len(v) = Len(m) + 1 /\ v[1] = b /\ \A i \in 1 .. Len(m) : v[1 + i] = m[i]
  BY <1>3, <1>4, ConcatFacts
<1> HIDE DEF v
<1>6. IsSeq(u) /\ Len(u) = Len(m) + 2 /\ (\A i \in 1 .. Len(v) : u[i] = v[i]) /\ u[Len(m) + 2] = e
  <2>1. IsSeq(u) /\ Len(u) = Len(v) + 1 /\ (\A i \in 1 .. Len(v) : u[i] = v[i])
        /\ u[Len(v) + 1] = e
    BY <1>4, <1>5, ConcatFacts
  <2> QED
    BY <1>3, <1>5, <2>1
<1> HIDE DEF u
<1>7. /\ u[1] = b /\ u[Len(m) + 2] = e
      /\ \A i \in 1 .. Len(u) : i = 1 \/ i = Len(m) + 2 \/ (i - 1 \in 1 .. Len(m) /\ u[i] = m[i - 1])
  <2>1. \A i \in 1 .. Len(u) : i # 1 /\ i # Len(m) + 2
          => i - 1 \in 1 .. Len(m) /\ i = 1 + (i - 1) /\ i \in 1 .. Len(v)
    BY <1>3, <1>5, <1>6
  <2> QED
    BY <1>3, <1>5, <1>6, <2>1
<1>8. \A i \in 1 .. Len(m) : ItemOK(m[i]) /\ Rank(m[i]) \in 0 .. q /\ m[i].op \notin Placed
                            /\ m[i].op # "push_tymap"
  BY DEF Steps, Fits, NoPush
<1>9. \A i \in 1 .. Len(u) : ItemOK(u[i]) /\ Rank(u[i]) \in 0 .. r /\ u[i].op \notin Placed
                            /\ u[i].op # "push_tymap"
  <2> TAKE i \in 1 .. Len(u)
  <2>1. CASE i = 1 \/ i = Len(m) + 2
    BY <1>1, <1>2, <1>7, <2>1 DEF Placed
  <2>2. CASE i - 1 \in 1 .. Len(m) /\ u[i] = m[i - 1]
    <3>1. ItemOK(u[i]) /\ Rank(u[i]) \in 0 .. q /\ u[i].op \notin Placed /\ u[i].op # "push_tymap"
      BY <1>8, <2>2
    <3> QED
      BY <1>2, <3>1
  <2> QED
    BY <1>7, <2>1, <2>2
<1>10. Brackets(u)
  <2> SUFFICES ASSUME NEW k \in 1 .. Len(u), u[k].op = "borrow_mut" PROVE Released(u, u[k].x, k + 1)
    BY DEF Brackets
  <2>1. CASE k = 1
    <3>1. Released(<<e>>, c, 1)
      BY <1>1, <1>4 DEF Released
    <3>2. \A j \in 2 .. Len(v) : Rank(v[j]) < CellRank(c)
      <4> TAKE j \in 2 .. Len(v)
      <4>1. j - 1 \in 1 .. Len(m) /\ j = 1 + (j - 1)
        BY <1>3, <1>5
      <4>2. v[j] = m[j - 1]
        BY <1>5, <4>1
      <4>3. Rank(m[j - 1]) \in 0 .. q
        BY <1>8, <4>1
      <4> QED
        BY <1>2, <4>2, <4>3
    <3>3. 2 \in Nat /\ 2 >= 1 /\ 2 <= Len(v) + 1
      BY <1>3, <1>5
    <3>4. Released(v \o <<e>>, c, 2)
      BY <1>4, <1>5, <3>1, <3>2, <3>3, ReleasedLater
    <3> QED
      BY <1>1, <1>7, <2>1, <3>4 DEF u
  <2>2. CASE k # 1
    <3>1. k - 1 \in 1 .. Len(m) /\ u[k] = m[k - 1]
      BY <1>1, <1>7, <2>2
    <3>2. Released(m, u[k].x, (k - 1) + 1)
      BY <3>1 DEF Steps, Fits, Brackets
    <3>3. (k - 1) + 1 = k /\ k \in Nat /\ k >= 1 /\ k + 1 \in Nat /\ k + 1 >= 1
      OBVIOUS
    <3>4. Released(<<b>> \o m, u[k].x, 1 + k)
      BY <1>3, <1>4, <3>2, <3>3, ReleasedLater
    <3>5. Released(v, u[k].x, k + 1)
      BY <3>3, <3>4 DEF v
    <3>6. Released(v \o <<e>>, u[k].x, k + 1)
      BY <1>4, <1>5, <3>3, <3>5, ReleasedLater
    <3> QED
      BY <3>6 DEF u
  <2> QED
    BY <2>1, <2>2
<1>11. Count("pop_tymap", u) = Count("push_tymap", u)
  <2>1. /\ \A op : Count(op, v) = Count(op, <<b>>) + Count(op, m)
        /\ \A op : Count(op, u) = Count(op, v) + Count(op, <<e>>)
    BY <1>3, <1>4, <1>5, CountConcat DEF u, v
  <2>2. Count("pop_tymap", <<b>>) = 0 /\ Count("push_tymap", <<b>>) = 0
        /\ Count("pop_tymap", <<e>>) = 0 /\ Count("push_tymap", <<e>>) = 0
    BY <1>1, CountSingleton
  <2> QED
    BY <2>1, <2>2 DEF Steps, Fits
<1>12. Fits(u, r) /\ NoPush(u)
  BY <1>6, <1>9, <1>10, <1>11 DEF Fits, NoPush, PushFirst
<1> QED
  BY <1>12 DEF Steps, Borrowed, u, v, b, e

\* A type map is pushed for any steps.
LEMMA TymapFits ==
  ASSUME NEW tymap, NEW m, Steps(m, 3)
  PROVE  Fits(WithTymap(tymap, m), 3)
<1> DEFINE b == Do("push_tymap", tymap)
           e == Do("pop_tymap", 0)
           v == <<b>> \o m
           u == v \o <<e>>
<1>1. b.op = "push_tymap" /\ e.op = "pop_tymap"
  BY DEF Do
<1>2. Rank(b) \in 0 .. 3 /\ Rank(e) \in 0 .. 3 /\ ItemOK(b) /\ ItemOK(e)
  BY <1>1, RankFacts DEF ItemOK
<1>3. IsSeq(m) /\ Len(m) \in Nat
  BY SeqFacts DEF Steps, Fits
<1> HIDE DEF b, e
<1>4. IsSeq(<<b>>) /\ Len(<<b>>) = 1 /\ <<b>>[1] = b /\ IsSeq(<<e>>) /\ Len(<<e>>) = 1 /\ <<e>>[1] = e
  BY SingletonFacts
<1>5. IsSeq(v) /\ Len(v) = Len(m) + 1 /\ v[1] = b /\ \A i \in 1 .. Len(m) : v[1 + i] = m[i]
  BY <1>3, <1>4, ConcatFacts
<1> HIDE DEF v
<1>6. IsSeq(u) /\ Len(u) = Len(m) + 2 /\ (\A i \in 1 .. Len(v) : u[i] = v[i]) /\ u[Len(m) + 2] = e
  <2>1. IsSeq(u) /\ Len(u) = Len(v) + 1 /\ (\A i \in 1 .. Len(v) : u[i] = v[i])
        /\ u[Len(v) + 1] = e
    BY <1>4, <1>5, ConcatFacts
  <2> QED
    BY <1>3, <1>5, <2>1
<1> HIDE DEF u
<1>7. /\ u[1] = b /\ u[Len(m) + 2] = e
      /\ \A i \in 1 .. Len(u) : i = 1 \/ i = Len(m) + 2 \/ (i - 1 \in 1 .. Len(m) /\ u[i] = m[i - 1])
  <2>1. \A i \in 1 .. Len(u) : i # 1 /\ i # Len(m) + 2
          => i - 1 \in 1 .. Len(m) /\ i = 1 + (i - 1) /\ i \in 1 .. Len(v)
    BY <1>3, <1>5, <1>6
  <2> QED
    BY <1>3, <1>5, <1>6, <2>1
<1>8. \A i \in 1 .. Len(m) : ItemOK(m[i]) /\ Rank(m[i]) \in 0 .. 3 /\ m[i].op \notin Placed
                            /\ m[i].op # "push_tymap"
  BY DEF Steps, Fits, NoPush
<1>9. \A i \in 1 .. Len(u) : ItemOK(u[i]) /\ Rank(u[i]) \in 0 .. 3 /\ u[i].op \notin Placed
                            /\ (u[i].op = "push_tymap" => i = 1)
  BY <1>1, <1>2, <1>7, <1>8 DEF Placed
<1>10. Brackets(u)
  <2> SUFFICES ASSUME NEW k \in 1 .. Len(u), u[k].op = "borrow_mut" PROVE Released(u, u[k].x, k + 1)
    BY DEF Brackets
  <2>1. k - 1 \in 1 .. Len(m) /\ u[k] = m[k - 1]
    BY <1>1, <1>7
  <2>2. Released(m, u[k].x, (k - 1) + 1)
    BY <2>1 DEF Steps, Fits, Brackets
  <2>3. (k - 1) + 1 = k /\ k \in Nat /\ k >= 1 /\ k + 1 \in Nat /\ k + 1 >= 1
    OBVIOUS
  <2>4. Released(<<b>> \o m, u[k].x, 1 + k)
    BY <1>3, <1>4, <2>2, <2>3, ReleasedLater
  <2>5. Released(v, u[k].x, k + 1)
    BY <2>3, <2>4 DEF v
  <2>6. Released(v \o <<e>>, u[k].x, k + 1)
    BY <1>4, <1>5, <2>3, <2>5, ReleasedLater
  <2> QED
    BY <2>6 DEF u
<1>11. Count("pop_tymap", u) = Count("push_tymap", u)
  <2>1. /\ \A op : Count(op, v) = Count(op, <<b>>) + Count(op, m)
        /\ \A op : Count(op, u) = Count(op, v) + Count(op, <<e>>)
    BY <1>3, <1>4, <1>5, CountConcat DEF u, v
  <2>2. Count("pop_tymap", <<b>>) = 0 /\ Count("push_tymap", <<b>>) = 1
        /\ Count("pop_tymap", <<e>>) = 1 /\ Count("push_tymap", <<e>>) = 0
    BY <1>1, CountSingleton
  <2>3. Count("pop_tymap", m) = Count("push_tymap", m) /\ Count("push_tymap", m) \in Nat
    BY <1>3, CountIsNat DEF Steps, Fits
  <2>4. /\ Count("pop_tymap", u) = (0 + Count("pop_tymap", m)) + 1
        /\ Count("push_tymap", u) = (1 + Count("push_tymap", m)) + 0
    BY <2>1, <2>2
  <2> QED
    BY <2>3, <2>4
<1>12. Fits(u, 3)
  BY <1>6, <1>9, <1>10, <1>11 DEF Fits, PushFirst
<1> QED
  BY <1>12 DEF WithTymap, u, v, b, e

\* The requests that the code of a function makes.
LEMMA RequestSteps ==
  ASSUME NEW f \in DOMAIN Fns
  PROVE  Steps(Fns[f].body, 3) /\ Steps(Fns[f].spec, 3) /\ Steps(Fns[f].post, 3)
<1>1. ASSUME NEW rs \in {Fns[f].body, Fns[f].spec, Fns[f].post} PROVE Steps(rs, 3)
  <2>1. rs \in Seq(ToSet(rs)) /\ \A r \in ToSet(rs) : IsRequest(r)
    BY FnsAssumption
  <2>2. IsSeq(rs) /\ DOMAIN rs = 1 .. Len(rs)
    BY <2>1 DEF IsSeq
  <2>3. \A i \in 1 .. Len(rs) : IsRequest(rs[i])
    BY <2>1, <2>2 DEF ToSet
  <2>4. \A i \in 1 .. Len(rs) : /\ ItemOK(rs[i]) /\ rs[i].op \notin Placed
                               /\ rs[i].op \notin {"borrow_mut", "push_tymap", "pop_tymap"}
    BY <2>3 DEF IsRequest, Requests, TypeRequests, ItemOK, Placed
  <2>5. \A i \in 1 .. Len(rs) : Rank(rs[i]) \in 0 .. 3
    BY RankFacts
  <2>6. Count("pop_tymap", rs) = 0 /\ Count("push_tymap", rs) = 0
    BY <2>2, <2>4, CountNone
  <2> QED
    BY <2>2, <2>4, <2>5, <2>6 DEF Steps, Fits, NoPush, Brackets, PushFirst
<1> QED
  BY <1>1

(***************************************************************************)
(* The stack: w is what is left to do, held the tables that are borrowed,  *)
(* maps the stack of type maps.  A table is borrowed exactly as long as    *)
(* its release is to come, a map is on the stack as long as its token is.  *)
(***************************************************************************)
Stack(w, held, maps) ==
  /\ IsSeq(w) /\ IsSeq(maps)
  /\ \A i \in 1 .. Len(w) : ItemOK(w[i])
  /\ Brackets(w)
  /\ PushFirst(w)
  /\ \A c \in held : Released(w, c, 1)
  /\ Count("pop_tymap", w) = Len(maps) + Count("push_tymap", w)
  /\ \A i \in 1 .. Len(w) : w[i].op = "queue_done" <=> i = Len(w)
  /\ \A i \in 1 .. Len(w) : w[i].op = "pure_function_def" => i = 1 /\ maps = <<>>

\* What is left after the first step.
LEMMA TailStack ==
  ASSUME NEW w, IsSeq(w), w # <<>>
  PROVE  /\ \A c : \A k \in Nat : k >= 1 /\ Released(w, c, k + 1) => Released(Tail(w), c, k)
         /\ \A c : Released(w, c, 1) /\ ~(w[1].op = "release" /\ w[1].x = c)
                     => Rank(w[1]) < CellRank(c) /\ Released(Tail(w), c, 1)
         /\ Brackets(w) => Brackets(Tail(w))
         /\ PushFirst(w) => PushFirst(Tail(w))
         /\ \A op : Count(op, w) = (IF w[1].op = op THEN 1 ELSE 0) + Count(op, Tail(w))
<1> DEFINE t == Tail(w)
<1>1. /\ IsSeq(t) /\ Len(w) \in Nat /\ Len(w) > 0 /\ Len(t) = Len(w) - 1
      /\ \A i \in 1 .. Len(t) : t[i] = w[i + 1]
  BY TailFacts, SeqFacts
<1>2. w = <<w[1]>> \o t
  <2>1. PICK S : w \in Seq(S)
    BY DEF IsSeq
  <2> QED
    BY <2>1
<1> HIDE DEF t
<1>3. ASSUME NEW c, NEW k \in Nat, k >= 1, Released(w, c, k + 1) PROVE Released(t, c, k)
  <2>1. PICK i \in k + 1 .. Len(w) : /\ w[i].op = "release" /\ w[i].x = c
                                     /\ \A j \in k + 1 .. i - 1 : Rank(w[j]) < CellRank(c)
    BY <1>3 DEF Released
  <2>2. i - 1 \in k .. Len(t) /\ t[i - 1] = w[i]
    <3>1. i - 1 \in 1 .. Len(t) /\ (i - 1) + 1 = i /\ i - 1 \in k .. Len(t)
      BY <1>1, <1>3
    <3> QED
      BY <1>1, <3>1
  <2>3. ASSUME NEW j \in k .. (i - 1) - 1 PROVE Rank(t[j]) < CellRank(c)
    <3>1. j + 1 \in k + 1 .. i - 1 /\ j \in 1 .. Len(t)
      BY <1>1, <1>3
    <3> QED
      BY <1>1, <2>1, <3>1
  <2> QED
    BY <2>1, <2>2, <2>3 DEF Released
<1>4. ASSUME NEW c, Released(w, c, 1), ~(w[1].op = "release" /\ w[1].x = c)
      PROVE  Rank(w[1]) < CellRank(c) /\ Released(t, c, 1)
  <2>1. PICK i \in 1 .. Len(w) : /\ w[i].op = "release" /\ w[i].x = c
                                 /\ \A j \in 1 .. i - 1 : Rank(w[j]) < CellRank(c)
    BY <1>4 DEF Released
  <2>2. i # 1 /\ 1 \in 1 .. i - 1
    BY <1>4, <2>1
  <2>3. i \in 2 .. Len(w) /\ \A j \in 2 .. i - 1 : j \in 1 .. i - 1
    BY <1>1, <2>2
  <2>4. Released(w, c, 1 + 1)
    BY <2>1, <2>3 DEF Released
  <2>5. Released(t, c, 1)
    BY <2>4, <1>3
  <2> QED
    BY <2>1, <2>2, <2>5
<1>5. ASSUME Brackets(w) PROVE Brackets(t)
  <2> SUFFICES ASSUME NEW k \in 1 .. Len(t), t[k].op = "borrow_mut" PROVE Released(t, t[k].x, k + 1)
    BY DEF Brackets
  <2>1. k + 1 \in 1 .. Len(w) /\ t[k] = w[k + 1] /\ k + 1 \in Nat /\ k + 1 >= 1
    BY <1>1
  <2>2. Released(w, t[k].x, (k + 1) + 1)
    BY <1>5, <2>1 DEF Brackets
  <2> QED
    BY <1>3, <2>1, <2>2
<1>6. ASSUME PushFirst(w) PROVE PushFirst(t)
  <2> SUFFICES ASSUME NEW k \in 1 .. Len(t), t[k].op = "push_tymap", NEW j \in 1 .. k - 1
               PROVE  Rank(t[j]) = 0
    BY DEF PushFirst
  <2>1. k + 1 \in 1 .. Len(w) /\ t[k] = w[k + 1] /\ j + 1 \in 1 .. (k + 1) - 1 /\ t[j] = w[j + 1]
    BY <1>1
  <2> QED
    BY <1>6, <2>1 DEF PushFirst
<1>7. \A op : Count(op, w) = (IF w[1].op = op THEN 1 ELSE 0) + Count(op, t)
  <2> TAKE op
  <2>1. Count(op, <<w[1]>> \o t) = Count(op, <<w[1]>>) + Count(op, t)
    BY <1>1, CountConcat, SingletonFacts
  <2> QED
    BY <1>2, <2>1, CountSingleton
<1> QED
  BY <1>3, <1>4, <1>5, <1>6, <1>7 DEF t

\* The first step is replaced by the steps it makes.
LEMMA StepStack ==
  ASSUME NEW w, NEW items, NEW held, NEW maps, Stack(w, held, maps), w # <<>>,
         w[1].op # "queue_done", Fits(items, Rank(w[1])),
         NEW held2 \in SUBSET held, \A c \in held2 : ~(w[1].op = "release" /\ w[1].x = c),
         NEW maps2, IsSeq(maps2),
         Len(maps2) = (Len(maps) + (IF w[1].op = "push_tymap" THEN 1 ELSE 0))
                                 - (IF w[1].op = "pop_tymap" THEN 1 ELSE 0)
  PROVE  Stack(items \o Tail(w), held2, maps2)
<1> DEFINE t == Tail(w)
           u == items \o t
           r == Rank(w[1])
<1>1. IsSeq(w) /\ IsSeq(maps) /\ IsSeq(items) /\ r \in 0 .. 3
  BY RankFacts DEF Stack, Fits
<1>2. /\ IsSeq(t) /\ Len(w) \in Nat /\ Len(w) > 0 /\ Len(t) = Len(w) - 1
      /\ \A i \in 1 .. Len(t) : t[i] = w[i + 1]
  BY <1>1, TailFacts, SeqFacts
<1>3. /\ IsSeq(u) /\ Len(u) = Len(items) + Len(t) /\ Len(items) \in Nat
      /\ \A i \in 1 .. Len(items) : u[i] = items[i]
      /\ \A i \in 1 .. Len(t) : u[Len(items) + i] = t[i]
  BY <1>1, <1>2, ConcatFacts, SeqFacts
<1>4. \A i \in 1 .. Len(items) : ItemOK(items[i]) /\ Rank(items[i]) \in 0 .. r /\ items[i].op \notin Placed
  BY DEF Fits
<1> HIDE DEF t, u, r
<1>5. \A i \in 1 .. Len(u) : \/ i \in 1 .. Len(items) /\ u[i] = items[i]
                            \/ /\ i - Len(items) \in 1 .. Len(t) /\ u[i] = t[i - Len(items)]
                               /\ i - Len(items) + 1 \in 2 .. Len(w) /\ u[i] = w[i - Len(items) + 1]
  <2> TAKE i \in 1 .. Len(u)
  <2>1. CASE i <= Len(items)
    BY <1>3, <2>1
  <2>2. CASE ~(i <= Len(items))
    <3>1. i - Len(items) \in 1 .. Len(t) /\ i = Len(items) + (i - Len(items))
      BY <1>2, <1>3, <2>2
    <3>2. u[i] = t[i - Len(items)]
      BY <1>3, <3>1
    <3>3. PICK m \in 1 .. Len(t) : m = i - Len(items)
      BY <3>1
    <3>4. t[m] = w[m + 1]
      BY <1>2
    <3>5. m + 1 \in 2 .. Len(w)
      BY <1>2
    <3> QED
      BY <3>2, <3>3, <3>4, <3>5
  <2> QED
    BY <2>1, <2>2
<1>6. \A i \in 1 .. Len(u) : ItemOK(u[i])
  <2> TAKE i \in 1 .. Len(u)
  <2>1. CASE i \in 1 .. Len(items) /\ u[i] = items[i]
    BY <1>4, <2>1
  <2>2. CASE i - Len(items) + 1 \in 2 .. Len(w) /\ u[i] = w[i - Len(items) + 1]
    <3>1. i - Len(items) + 1 \in 1 .. Len(w)
      BY <1>2, <2>2
    <3> QED
      BY <2>2, <3>1 DEF Stack
  <2> QED
    BY <1>5, <2>1, <2>2
<1>7. Brackets(u)
  <2> SUFFICES ASSUME NEW k \in 1 .. Len(u), u[k].op = "borrow_mut" PROVE Released(u, u[k].x, k + 1)
    BY DEF Brackets
  <2>1. CASE k \in 1 .. Len(items) /\ u[k] = items[k]
    <3>1. Released(items, u[k].x, k + 1)
      BY <2>1 DEF Fits, Brackets
    <3> QED
      BY <1>1, <1>2, <2>1, <3>1, ReleasedLater DEF u
  <2>2. CASE k - Len(items) \in 1 .. Len(t) /\ u[k] = t[k - Len(items)]
    <3>0. Brackets(t)
      BY <1>1, TailStack DEF Stack, t
    <3>1. Released(t, u[k].x, (k - Len(items)) + 1)
      BY <2>2, <3>0 DEF Brackets
    <3>2. Released(items \o t, u[k].x, Len(items) + ((k - Len(items)) + 1))
      BY <1>1, <1>2, <2>2, <3>1, ReleasedLater
    <3>3. Len(items) + ((k - Len(items)) + 1) = k + 1
      BY <1>3
    <3> QED
      BY <3>2, <3>3 DEF u
  <2> QED
    BY <1>5, <2>1, <2>2
<1>8. PushFirst(u)
  <2> SUFFICES ASSUME NEW k \in 1 .. Len(u), u[k].op = "push_tymap", NEW j \in 1 .. k - 1
               PROVE  Rank(u[j]) = 0
    BY DEF PushFirst
  <2>1. CASE k \in 1 .. Len(items) /\ u[k] = items[k]
    <3>1. items[k].op = "push_tymap"
      BY <2>1
    <3>2. PushFirst(items)
      BY DEF Fits
    <3>3. Rank(items[j]) = 0
      BY <2>1, <3>1, <3>2 DEF PushFirst
    <3>4. j \in 1 .. Len(items)
      BY <1>3, <2>1
    <3>5. u[j] = items[j]
      BY <1>3, <3>4
    <3> QED
      BY <3>3, <3>5
  <2>2. CASE k - Len(items) + 1 \in 2 .. Len(w) /\ u[k] = w[k - Len(items) + 1]
    <3>0. PICK h \in 2 .. Len(w) : h = k - Len(items) + 1 /\ u[k] = w[h]
      BY <2>2
    <3>a. h \in 1 .. Len(w) /\ w[h].op = "push_tymap" /\ PushFirst(w)
      BY <1>2, <3>0 DEF Stack
    <3>b. \A m \in 1 .. h - 1 : Rank(w[m]) = 0
      BY <3>a DEF PushFirst
    <3>1. \A m \in 1 .. (k - Len(items) + 1) - 1 : Rank(w[m]) = 0
      BY <3>0, <3>b
    <3>2. r = 0
      <4>1. 1 \in 1 .. h - 1
        BY <1>2, <3>0
      <4> QED
        BY <3>b, <4>1 DEF r
    <3>3. j \in 1 .. Len(u)
      BY <1>2, <1>3
    <3>4. CASE j \in 1 .. Len(items) /\ u[j] = items[j]
      <4>1. Rank(u[j]) \in 0 .. 0
        BY <1>4, <3>2, <3>4
      <4> QED
        BY <4>1
    <3>5. CASE j - Len(items) + 1 \in 2 .. Len(w) /\ u[j] = w[j - Len(items) + 1]
      <4>1. j - Len(items) + 1 \in 1 .. (k - Len(items) + 1) - 1
        BY <1>2, <1>3, <3>5
      <4> QED
        BY <3>1, <3>5, <4>1
    <3> QED
      BY <1>5, <3>3, <3>4, <3>5
  <2> QED
    BY <1>5, <2>1, <2>2
<1>9. ASSUME NEW c \in held2 PROVE Released(u, c, 1)
  <2>1. Released(w, c, 1)
    BY DEF Stack
  <2>2. r < CellRank(c) /\ Released(t, c, 1)
    BY <1>1, <2>1, TailStack DEF r, t
  <2>3. \A j \in 1 .. Len(items) : Rank(items[j]) < CellRank(c)
    <3> TAKE j \in 1 .. Len(items)
    <3>1. Rank(items[j]) \in 0 .. r /\ CellRank(c) \in 1 .. 3
      BY <1>4, RankFacts
    <3> QED
      BY <1>1, <2>2, <3>1
  <2>4. 1 \in Nat /\ 1 >= 1 /\ 1 <= Len(items) + 1
    BY <1>3
  <2> QED
    BY <1>1, <1>2, <2>2, <2>3, <2>4, ReleasedLater DEF u
<1>10. Count("pop_tymap", u) = Len(maps2) + Count("push_tymap", u)
  <2>1. Count("pop_tymap", u) = Count("pop_tymap", items) + Count("pop_tymap", t)
    BY <1>1, <1>2, CountConcat DEF u
  <2>2. Count("push_tymap", u) = Count("push_tymap", items) + Count("push_tymap", t)
    BY <1>1, <1>2, CountConcat DEF u
  <2>3. Count("pop_tymap", items) = Count("push_tymap", items)
    BY DEF Fits
  <2>4. /\ Count("pop_tymap", w) = (IF w[1].op = "pop_tymap" THEN 1 ELSE 0) + Count("pop_tymap", t)
        /\ Count("push_tymap", w) = (IF w[1].op = "push_tymap" THEN 1 ELSE 0) + Count("push_tymap", t)
    BY <1>1, TailStack DEF t
  <2>5. Count("pop_tymap", w) = Len(maps) + Count("push_tymap", w)
    BY DEF Stack
  <2>6. Count("pop_tymap", t) \in Nat /\ Count("push_tymap", t) \in Nat /\ Count("push_tymap", items) \in Nat
        /\ Len(maps) \in Nat
    BY <1>1, <1>2, CountIsNat, SeqFacts
  <2> DEFINE pushed == IF w[1].op = "push_tymap" THEN 1 ELSE 0
             popped == IF w[1].op = "pop_tymap" THEN 1 ELSE 0
  <2>7. pushed \in Nat /\ popped \in Nat /\ Len(maps2) = (Len(maps) + pushed) - popped
    OBVIOUS
  <2>8. Count("pop_tymap", w) = popped + Count("pop_tymap", t) /\ Count("push_tymap", w) = pushed + Count("push_tymap", t)
    BY <2>4
  <2> HIDE DEF pushed, popped
  <2>9. popped + Count("pop_tymap", t) = Len(maps) + (pushed + Count("push_tymap", t))
    BY <2>5, <2>8
  <2> DEFINE a == Count("push_tymap", items)
             b == Count("pop_tymap", t)
             c == Count("push_tymap", t)
             l == Len(maps)
  <2>10. a \in Nat /\ b \in Nat /\ c \in Nat /\ l \in Nat /\ popped + b = l + (pushed + c)
    BY <2>6, <2>9
  <2>11. Len(maps2) = (l + pushed) - popped /\ Count("pop_tymap", u) = a + b /\ Count("push_tymap", u) = a + c
    BY <2>1, <2>2, <2>3, <2>7
  <2> HIDE DEF a, b, c, l
  <2>12. a + b = ((l + pushed) - popped) + (a + c)
    BY <2>7, <2>10
  <2> QED
    BY <2>11, <2>12
<1>11. \A i \in 1 .. Len(u) : u[i].op = "queue_done" <=> i = Len(u)
  <2>1. \A i \in 1 .. Len(w) : w[i].op = "queue_done" <=> i = Len(w)
    BY DEF Stack
  <2>2. Len(w) # 1
    BY <1>2, <2>1
  <2> TAKE i \in 1 .. Len(u)
  <2>3. CASE i \in 1 .. Len(items) /\ u[i] = items[i]
    <3>1. i # Len(u)
      BY <1>2, <1>3, <2>2, <2>3
    <3> QED
      BY <1>4, <2>3, <3>1 DEF Placed
  <2>4. CASE i - Len(items) + 1 \in 2 .. Len(w) /\ u[i] = w[i - Len(items) + 1]
    <3>1. i - Len(items) + 1 = Len(w) <=> i = Len(u)
      BY <1>2, <1>3
    <3>2. i - Len(items) + 1 \in 1 .. Len(w)
      BY <1>2, <2>4
    <3> QED
      BY <2>1, <2>4, <3>1, <3>2
  <2> QED
    BY <1>5, <2>3, <2>4
<1>12. \A i \in 1 .. Len(u) : u[i].op # "pure_function_def"
  <2> TAKE i \in 1 .. Len(u)
  <2>1. CASE i \in 1 .. Len(items) /\ u[i] = items[i]
    BY <1>4, <2>1 DEF Placed
  <2>2. CASE i - Len(items) + 1 \in 2 .. Len(w) /\ u[i] = w[i - Len(items) + 1]
    <3>1. i - Len(items) + 1 \in 1 .. Len(w) /\ i - Len(items) + 1 # 1
      BY <1>2, <2>2
    <3> QED
      BY <2>2, <3>1 DEF Stack
  <2> QED
    BY <1>5, <2>1, <2>2
<1> QED
  BY <1>1, <1>3, <1>6, <1>7, <1>8, <1>9, <1>10, <1>11, <1>12 DEF Stack, u, t

LEMMA RunStack ==
  ASSUME NEW w, NEW items, NEW held, NEW maps, Stack(w, held, maps), w # <<>>,
         w[1].op \notin {"release", "push_tymap", "pop_tymap", "queue_done"},
         Fits(items, Rank(w[1]))
  PROVE  Stack(items \o Tail(w), held, maps)
<1>1. IsSeq(maps) /\ Len(maps) \in Nat
  BY SeqFacts DEF Stack
<1> QED
  BY <1>1, StepStack

\* A borrowed table is not borrowed again by the step that comes next.
LEMMA NotHeld ==
  ASSUME NEW w, NEW held, NEW maps, Stack(w, held, maps), w # <<>>, w[1].op = "borrow_mut"
  PROVE  w[1].x \notin held
<1> SUFFICES ASSUME w[1].x \in held PROVE FALSE
  OBVIOUS
<1>1. IsSeq(w) /\ Released(w, w[1].x, 1)
  BY DEF Stack
<1>2. Rank(w[1]) < CellRank(w[1].x)
  BY <1>1, TailStack
<1>3. Rank(w[1]) = CellRank(w[1].x) /\ CellRank(w[1].x) \in 1 .. 3
  BY RankFacts DEF Rank
<1> QED
  BY <1>2, <1>3

LEMMA BorrowStack ==
  ASSUME NEW w, NEW held, NEW maps, Stack(w, held, maps), w # <<>>, w[1].op = "borrow_mut"
  PROVE  Stack(<<>> \o Tail(w), held \cup {w[1].x}, maps)
<1> DEFINE t == Tail(w)
           u == <<>> \o t
<1>1. IsSeq(w) /\ IsSeq(t) /\ Len(w) \in Nat /\ Len(w) > 0
  BY TailFacts, SeqFacts DEF Stack
<1>2. Fits(<<>>, Rank(w[1]))
  BY EmptySteps DEF Steps
<1>3. Stack(u, held, maps)
  BY <1>2, RunStack
<1>4. Released(w, w[1].x, 1 + 1)
  BY <1>1 DEF Stack, Brackets
<1>5. Released(t, w[1].x, 1)
  BY <1>1, <1>4, TailStack
<1>6. Released(u, w[1].x, 1)
  <2>1. IsSeq(<<>>) /\ Len(<<>>) = 0
    BY EmptyFacts
  <2>2. \A j \in 1 .. Len(<<>>) : Rank(<<>>[j]) < CellRank(w[1].x)
    BY <2>1
  <2> HIDE DEF t, u
  <2> QED
    BY <1>1, <1>5, <2>1, <2>2, ReleasedLater DEF u
<1> HIDE DEF u
<1> QED
  BY <1>3, <1>6 DEF Stack, u

\* An error leaves the steps before a later one; no map is waiting to be pushed.
LEMMA SuffixStack ==
  ASSUME NEW w, NEW held, NEW maps, Stack(w, held, maps), NEW n \in 1 .. Len(w), w[1].op = "fail",
         NEW maps2, IsSeq(maps2), Len(maps2) = Len(maps) - Count("pop_tymap", SubSeq(w, 1, n))
  PROVE  /\ Stack(SubSeq(w, n + 1, Len(w)), {}, maps2)
         /\ Count("pop_tymap", SubSeq(w, 1, n)) \in 0 .. Len(maps)
<1> DEFINE a == SubSeq(w, 1, n)
           s == SubSeq(w, n + 1, Len(w))
<1>1. IsSeq(w) /\ Len(w) \in Nat /\ IsSeq(maps) /\ Len(maps) \in Nat
  BY SeqFacts DEF Stack
<1>2. /\ IsSeq(a) /\ Len(a) = n
      /\ IsSeq(s) /\ Len(s) = Len(w) - n /\ \A i \in 1 .. Len(s) : s[i] = w[n + i]
  <2>1. IsSeq(SubSeq(w, 1, n)) /\ Len(SubSeq(w, 1, n)) = n - 1 + 1
    BY <1>1, SubSeqFacts
  <2>2. /\ IsSeq(s) /\ Len(s) = Len(w) - (n + 1) + 1
        /\ \A i \in 1 .. Len(w) - (n + 1) + 1 : s[i] = w[(n + 1) + i - 1]
    <3>1. n + 1 \in 1 .. Len(w) + 1 /\ Len(w) \in 0 .. Len(w) /\ n + 1 <= Len(w) + 1
      BY <1>1
    <3> QED
      BY <1>1, <3>1, SubSeqFacts
  <2>3. \A i \in Nat : (n + 1) + i - 1 = n + i
    OBVIOUS
  <2> QED
    BY <1>1, <2>1, <2>2, <2>3
<1>3. a \o s = w
  <2>1. PICK S : w \in Seq(S)
    BY <1>1 DEF IsSeq
  <2> QED
    BY <2>1
<1> HIDE DEF a, s
<1>4. \A i \in 1 .. Len(w) : w[i].op # "push_tymap"
  <2> SUFFICES ASSUME NEW i \in 1 .. Len(w), w[i].op = "push_tymap" PROVE FALSE
    OBVIOUS
  <2>1. i # 1 /\ 1 \in 1 .. i - 1
    BY <1>1
  <2>2. Rank(w[1]) = 0
    BY <2>1 DEF Stack, PushFirst
  <2> QED
    BY <2>2 DEF Rank, OpRank
<1>5. Count("push_tymap", w) = 0
  BY <1>1, <1>4, CountNone, SeqFacts
<1>6. \A i \in 1 .. Len(s) : n + i \in 1 .. Len(w) /\ n + i # 1 /\ s[i] = w[n + i]
  BY <1>1, <1>2
<1>7. Count("push_tymap", s) = 0
  BY <1>2, <1>4, <1>6, CountNone, SeqFacts
<1>8. Count("pop_tymap", s) = Len(maps2) /\ Count("pop_tymap", a) \in 0 .. Len(maps)
  <2>1. Count("pop_tymap", a \o s) = Count("pop_tymap", a) + Count("pop_tymap", s)
    BY <1>2, CountConcat
  <2>2. Count("pop_tymap", w) = Len(maps) + 0
    BY <1>5 DEF Stack
  <2>3. Count("pop_tymap", a) \in Nat /\ Count("pop_tymap", s) \in Nat
    BY <1>2, CountIsNat
  <2>4. Len(maps) = Count("pop_tymap", a) + Count("pop_tymap", s)
    BY <1>1, <1>3, <2>1, <2>2
  <2>5. Len(maps2) = Len(maps) - Count("pop_tymap", a)
    BY DEF a
  <2> QED
    BY <1>1, <2>3, <2>4, <2>5
<1>9. Brackets(s)
  <2> SUFFICES ASSUME NEW k \in 1 .. Len(s), s[k].op = "borrow_mut" PROVE Released(s, s[k].x, k + 1)
    BY DEF Brackets
  <2>1. n + k \in 1 .. Len(w) /\ s[k] = w[n + k]
    BY <1>6
  <2>2. Released(w, s[k].x, (n + k) + 1)
    BY <2>1 DEF Stack, Brackets
  <2>3. PICK i \in (n + k) + 1 .. Len(w) :
          /\ w[i].op = "release" /\ w[i].x = s[k].x
          /\ \A j \in (n + k) + 1 .. i - 1 : Rank(w[j]) < CellRank(s[k].x)
    BY <2>2 DEF Released
  <2>4. i - n \in k + 1 .. Len(s) /\ s[i - n] = w[i]
    <3>1. i - n \in k + 1 .. Len(s) /\ i - n \in 1 .. Len(s) /\ n + (i - n) = i
      BY <1>1, <1>2, <2>3
    <3> QED
      BY <1>2, <3>1
  <2>5. ASSUME NEW j \in k + 1 .. (i - n) - 1 PROVE Rank(s[j]) < CellRank(s[k].x)
    <3>1. j \in 1 .. Len(s) /\ n + j \in (n + k) + 1 .. i - 1
      BY <1>1, <1>2, <2>3
    <3> QED
      BY <1>2, <2>3, <3>1
  <2> QED
    BY <2>3, <2>4, <2>5 DEF Released
<1>10. PushFirst(s)
  BY <1>4, <1>6 DEF PushFirst
<1>11. \A i \in 1 .. Len(s) : /\ ItemOK(s[i])
                             /\ (s[i].op = "queue_done" <=> i = Len(s))
                             /\ s[i].op # "pure_function_def"
  <2> TAKE i \in 1 .. Len(s)
  <2>1. n + i \in 1 .. Len(w) /\ n + i # 1 /\ s[i] = w[n + i] /\ (n + i = Len(w) <=> i = Len(s))
    BY <1>1, <1>2, <1>6
  <2> QED
    BY <2>1 DEF Stack
<1>12. Stack(s, {}, maps2)
  <2>1. Count("pop_tymap", s) = Len(maps2) + Count("push_tymap", s)
    BY <1>7, <1>8, SeqFacts
  <2>2. \A i \in 1 .. Len(s) : ItemOK(s[i])
    BY <1>11
  <2>3. \A i \in 1 .. Len(s) : s[i].op = "queue_done" <=> i = Len(s)
    BY <1>11
  <2>4. \A i \in 1 .. Len(s) : s[i].op = "pure_function_def" => i = 1 /\ maps2 = <<>>
    BY <1>11
  <2>5. IsSeq(s)
    BY <1>2
  <2> QED
    BY <2>1, <2>2, <2>3, <2>4, <2>5, <1>9, <1>10 DEF Stack
<1> QED
  BY <1>8, <1>12 DEF a, s

\* A step that handles an error is of the highest rank, so all tables are released before.
LEMMA NothingHeld ==
  ASSUME NEW w, NEW held, NEW maps, Stack(w, held, maps), NEW h \in 1 .. Len(w), w[h].op \in Handlers,
         NEW c \in held
  PROVE  \E i \in 1 .. h - 1 : w[i].op = "release" /\ w[i].x = c
<1>1. Len(w) \in Nat /\ Released(w, c, 1)
  BY SeqFacts DEF Stack
<1>2. PICK i \in 1 .. Len(w) : /\ w[i].op = "release" /\ w[i].x = c
                               /\ \A j \in 1 .. i - 1 : Rank(w[j]) < CellRank(c)
  BY <1>1 DEF Released
<1>3. Rank(w[h]) = 3 /\ CellRank(c) \in 1 .. 3
  BY RankFacts DEF Rank, OpRank, Handlers
<1>4. ~(h \in 1 .. i - 1)
  BY <1>2, <1>3
<1>5. i # h
  BY <1>2 DEF Handlers
<1>6. i \in 1 .. h - 1
  BY <1>1, <1>4, <1>5
<1> QED
  BY <1>2, <1>6

\* A set of natural numbers has a least element.
LEMMA LeastNatural ==
  ASSUME NEW T, T \subseteq Nat, T # {}
  PROVE  \E x \in T : \A y \in T : x <= y
<1> DEFINE R == {p \in Nat \X Nat : p[1] < p[2]}
<1>1. IsWellFoundedOn(R, Nat)
  <2>1. OpToRel(<, Nat) = R
    BY DEF OpToRel
  <2> QED
    BY <2>1, NatLessThanWellFounded
<1> HIDE DEF R
<1>2. PICK x \in T : \A y \in T : <<y, x>> \notin R
  BY <1>1, WFMin
<1>3. \A y \in T : x <= y
  <2> TAKE y \in T
  <2>1. x \in Nat /\ y \in Nat
    OBVIOUS
  <2>2. ~(y < x)
    BY <1>2, <2>1 DEF R
  <2> QED
    BY <2>1, <2>2
<1> QED
  BY <1>3

\* There is a first step that handles an error.
LEMMA FirstHandler ==
  ASSUME NEW w, NEW held, NEW maps, Stack(w, held, maps), w # <<>>
  PROVE  \E h \in DOMAIN w : w[h].op \in Handlers /\ \A j \in 1 .. h - 1 : w[j].op \notin Handlers
<1> DEFINE T == {i \in 1 .. Len(w) : w[i].op \in Handlers}
<1>1. IsSeq(w) /\ Len(w) \in Nat /\ DOMAIN w = 1 .. Len(w) /\ Len(w) > 0
  BY SeqFacts, TailFacts DEF Stack
<1>2. Len(w) \in T
  <2>1. Len(w) \in 1 .. Len(w)
    BY <1>1
  <2>2. w[Len(w)].op = "queue_done"
    BY <2>1 DEF Stack
  <2> QED
    BY <2>1, <2>2 DEF Handlers
<1>3. T \subseteq Nat /\ T # {}
  BY <1>2
<1>4. PICK h \in T : \A y \in T : h <= y
  <2> HIDE DEF T
  <2> QED
    BY <1>3, LeastNatural
<1>5. \A j \in 1 .. h - 1 : j \notin T /\ j \in 1 .. Len(w)
  BY <1>1, <1>4
<1> QED
  BY <1>1, <1>4, <1>5

-------------------------------------------------------------------------------
(* The inductive invariant *)

\* The fields of the encoder that the invariant is about.
Kept ==
  {"held", "typaram_repl", "queue", "task", "reported", "procedures", "pure_functions",
   "failed_pure_functions"}

Queued(f) == \E i \in 1 .. Len(enc.queue) : enc.queue[i][1] = f

\* The encoding of f is under way.
IsPending(it, f) ==
  IF Fns[f].pure
  THEN \/ it.op \in {"pure_function_key", "pure_function_lookup", "pure_function_insert"} /\ it.x = f
       \/ it.op = "pure_function_def" /\ it.x[1] = f
  ELSE it.op \in {"procedure", "procedure_encoded"} /\ it.x = f

Pending(f) == \E i \in 1 .. Len(work) : IsPending(work[i], f)

\* Nothing has failed so far: no error was emitted, and none is about to be.
NothingFailed == enc.reported = <<>> /\ (work # <<>> => work[1].op # "fail")

HasPure(f) == \E k \in enc.pure_functions : k[1] = f

(***************************************************************************)
(* As long as nothing has failed, every function of the task is encoded or *)
(* still to be; there are no stubs; and a function that is marked as       *)
(* failed is being encoded, or was encoded with another instantiation.     *)
(***************************************************************************)
Accounted ==
  /\ \A f \in enc.task : Fns[f].trusted \/ Encoded(f) \/ Queued(f) \/ Pending(f)
  /\ \A f \in DOMAIN enc.procedures : enc.procedures[f] = "procedure_encoded"
  /\ \A i \in 1 .. Len(work) : work[i].op # "stub"
  /\ \A k \in enc.failed_pure_functions :
       HasPure(k[1]) \/ \E i \in 1 .. Len(work) : work[i].op = "pure_function_insert" /\ work[i].x = k[1]

QueueOK ==
  /\ IsSeq(enc.queue)
  /\ \A i \in 1 .. Len(enc.queue) :
       enc.queue[i][1] \in DOMAIN Fns /\ (Fns[enc.queue[i][1]].pure \/ enc.queue[i][2] = <<>>)

\* What is emitted is an error, unless unsupported features are skipped.
ReportsOK ==
  /\ IsSeq(enc.reported)
  /\ ~skip => \A i \in 1 .. Len(enc.reported) : enc.reported[i].error

IInv ==
  /\ Kept \subseteq DOMAIN enc
  /\ NoPanic
  /\ Stack(work, enc.held, enc.typaram_repl)
  /\ QueueOK
  /\ phase \in {"queue", "encode", "verify"} => ReportsOK
  /\ phase # "encode" => work = <<>>
  /\ phase = "verify" => enc.queue = <<>>
  /\ phase \in {"queue", "encode", "verify"} /\ NothingFailed => Accounted
  /\ SuccessMeansVerified

\* u is w with its first step replaced by items.
Replaced(w, items, u) ==
  /\ \A i \in 2 .. Len(w) : \E j \in 1 .. Len(u) : u[j] = w[i]
  /\ \A j \in 1 .. Len(u) :
       (j \in 1 .. Len(items) /\ u[j] = items[j]) \/ (\E i \in 2 .. Len(w) : u[j] = w[i])
  /\ \A j \in 1 .. Len(items) : j \in 1 .. Len(u) /\ u[j] = items[j]

LEMMA Shifted ==
  ASSUME NEW w, NEW items, IsSeq(w), IsSeq(items), w # <<>>, NEW u, u = items \o Tail(w)
  PROVE  Replaced(w, items, u)
<1> DEFINE t == Tail(w)
<1>1. /\ IsSeq(t) /\ Len(w) \in Nat /\ Len(w) > 0 /\ Len(t) = Len(w) - 1
      /\ \A i \in 1 .. Len(t) : t[i] = w[i + 1]
  BY TailFacts, SeqFacts
<1>2. /\ IsSeq(u) /\ Len(u) = Len(items) + Len(t) /\ Len(items) \in Nat
      /\ \A i \in 1 .. Len(items) : u[i] = items[i]
      /\ \A i \in 1 .. Len(t) : u[Len(items) + i] = t[i]
  BY <1>1, ConcatFacts, SeqFacts
<1> HIDE DEF t
<1>3. ASSUME NEW i \in 2 .. Len(w) PROVE \E j \in 1 .. Len(u) : u[j] = w[i]
  <2>1. i - 1 \in 1 .. Len(t) /\ (i - 1) + 1 = i /\ Len(items) + (i - 1) \in 1 .. Len(u)
    BY <1>1, <1>2
  <2>2. u[Len(items) + (i - 1)] = w[i]
    BY <1>1, <1>2, <2>1
  <2> QED
    BY <2>1, <2>2
<1>4. ASSUME NEW j \in 1 .. Len(u)
      PROVE  (j \in 1 .. Len(items) /\ u[j] = items[j]) \/ \E i \in 2 .. Len(w) : u[j] = w[i]
  <2>1. CASE j <= Len(items)
    BY <1>2, <2>1
  <2>2. CASE ~(j <= Len(items))
    <3>1. j - Len(items) \in 1 .. Len(t) /\ j = Len(items) + (j - Len(items))
      BY <1>1, <1>2, <2>2
    <3>2. u[j] = t[j - Len(items)]
      BY <1>2, <3>1
    <3>3. PICK m \in 1 .. Len(t) : m = j - Len(items)
      BY <3>1
    <3>4. t[m] = w[m + 1]
      BY <1>1
    <3>5. m + 1 \in 2 .. Len(w)
      BY <1>1
    <3> QED
      BY <3>2, <3>3, <3>4, <3>5
  <2> QED
    BY <2>1, <2>2
<1>5. \A j \in 1 .. Len(items) : j \in 1 .. Len(u) /\ u[j] = items[j]
  BY <1>1, <1>2
<1> QED
  BY <1>3, <1>4, <1>5 DEF Replaced

KeptSame == Kept \subseteq DOMAIN enc' /\ \A a \in Kept : enc'[a] = enc[a]

\* The steps whose effect the invariant follows one by one.
Marked ==
  {"borrow_mut", "release", "push_tymap", "pop_tymap", "queue_done", "fail", "stub", "procedure",
   "procedure_encoded", "pure_function_def", "pure_function_key", "pure_function_lookup",
   "pure_function_insert", "pure_function_use"}

LEMMA AtHead ==
  ASSUME IInv, NEW op, Next1(op)
  PROVE  /\ phase = "encode" /\ work # <<>> /\ work[1].op = op /\ X = work[1].x
         /\ IsSeq(work) /\ Len(work) \in Nat /\ Len(work) > 0 /\ ItemOK(work[1])
<1>1. phase = "encode" /\ work # <<>> /\ Head(work).op = op
  BY DEF Next1
<1>2. IsSeq(work)
  BY DEF IInv, Stack
<1>3. Head(work) = work[1] /\ Len(work) \in Nat /\ Len(work) > 0
  BY <1>1, <1>2, TailFacts, SeqFacts
<1>4. 1 \in 1 .. Len(work)
  BY <1>3
<1>5. ItemOK(work[1])
  BY <1>4 DEF IInv, Stack
<1> QED
  BY <1>1, <1>2, <1>3, <1>5 DEF X

\* Errors and the phase stay as they are.
Continues == phase' = phase /\ skip' = skip /\ enc'.reported = enc.reported /\ Kept \subseteq DOMAIN enc'

LEMMA NextState ==
  ASSUME IInv, NEW op, Next1(op), Continues, Stack(work', enc'.held, enc'.typaram_repl), QueueOK',
         NothingFailed' => Accounted'
  PROVE  IInv'
<1>1. phase = "encode"
  BY DEF Next1
<1>2. ReportsOK'
  BY <1>1 DEF IInv, ReportsOK, Continues
<1> QED
  BY <1>1, <1>2 DEF IInv, NoPanic, SuccessMeansVerified, Continues

Gains ==
  \A f : (Encoded(f) => Encoded(f)') /\ (Queued(f) => Queued(f)') /\ (HasPure(f) => HasPure(f)')

\* k is in the tables, or it will be.
Explained(k) == HasPure(k[1]) \/ \E i \in 1 .. Len(work) : work[i].op = "pure_function_insert" /\ work[i].x = k[1]

(***************************************************************************)
(* A step keeps the account if nothing is lost from the tables and the     *)
(* queue, and if what the step itself was about to encode is encoded or    *)
(* still to be.                                                            *)
(***************************************************************************)
LEMMA AccountStep ==
  ASSUME IInv, NEW op, op # "fail", Next1(op), NEW items, Run(items), IsSeq(items),
         \A i \in 1 .. Len(items) : items[i].op # "stub",
         enc'.task = enc.task, enc'.reported = enc.reported, Gains,
         Accounted => \A f : IsPending(work[1], f) => Encoded(f)' \/ Pending(f)',
         Accounted => \A f \in DOMAIN enc'.procedures : enc'.procedures[f] = "procedure_encoded",
         \A k \in enc'.failed_pure_functions :
           Explained(k)' \/ (k \in enc.failed_pure_functions /\ ~(op = "pure_function_insert" /\ X = k[1]))
  PROVE  NothingFailed' => Accounted'
<1>1. /\ phase = "encode" /\ work # <<>> /\ work[1].op = op /\ IsSeq(work) /\ Len(work) \in Nat
      /\ X = work[1].x
  BY AtHead
<1>2. work' = items \o Tail(work)
  BY DEF Run
<1> SUFFICES ASSUME NothingFailed' PROVE Accounted'
  OBVIOUS
<1>3. NothingFailed
  BY <1>1 DEF NothingFailed
<1>4. Accounted
  BY <1>1, <1>3 DEF IInv
<1>5. /\ \A i \in 2 .. Len(work) : \E j \in 1 .. Len(work') : work'[j] = work[i]
      /\ \A j \in 1 .. Len(work') :
           (j \in 1 .. Len(items) /\ work'[j] = items[j]) \/ (\E i \in 2 .. Len(work) : work'[j] = work[i])
  <2>1. Replaced(work, items, work')
    BY <1>1, <1>2, Shifted
  <2> QED
    BY <2>1 DEF Replaced
<1>6. \A f : Pending(f) => Encoded(f)' \/ Pending(f)'
  <2> SUFFICES ASSUME NEW f, NEW i \in 1 .. Len(work), IsPending(work[i], f) PROVE Encoded(f)' \/ Pending(f)'
    BY DEF Pending
  <2>1. CASE i = 1
    BY <1>4, <2>1
  <2>2. CASE i # 1
    <3>1. PICK j \in 1 .. Len(work') : work'[j] = work[i]
      BY <1>1, <1>5, <2>2
    <3> QED
      BY <3>1 DEF Pending, IsPending
  <2> QED
    BY <2>1, <2>2
<1>7. \A f \in enc'.task : Fns[f].trusted \/ Encoded(f)' \/ Queued(f)' \/ Pending(f)'
  BY <1>4, <1>6 DEF Accounted, Gains
<1>8. \A j \in 1 .. Len(work') : work'[j].op # "stub"
  <2> TAKE j \in 1 .. Len(work')
  <2>1. CASE j \in 1 .. Len(items) /\ work'[j] = items[j]
    BY <2>1
  <2>2. CASE \E i \in 2 .. Len(work) : work'[j] = work[i]
    <3>1. PICK i \in 2 .. Len(work) : work'[j] = work[i]
      BY <2>2
    <3>2. i \in 1 .. Len(work)
      BY <1>1
    <3> QED
      BY <1>4, <3>1, <3>2 DEF Accounted
  <2> QED
    BY <1>5, <2>1, <2>2
<1>9. ASSUME NEW k \in enc'.failed_pure_functions
      PROVE  Explained(k)'
  <2>1. CASE Explained(k)'
    BY <2>1
  <2>2. CASE k \in enc.failed_pure_functions /\ ~(op = "pure_function_insert" /\ X = k[1])
    <3>1. CASE HasPure(k[1])
      BY <3>1 DEF Gains, Explained
    <3>2. CASE ~HasPure(k[1])
      <4>1. PICK i \in 1 .. Len(work) : work[i].op = "pure_function_insert" /\ work[i].x = k[1]
        BY <1>4, <2>2, <3>2 DEF Accounted
      <4>2. i \in 2 .. Len(work)
        BY <1>1, <2>2, <4>1
      <4> QED
        BY <1>5, <4>1, <4>2 DEF Explained
    <3> QED
      BY <3>1, <3>2
  <2> QED
    BY <2>1, <2>2
<1>10. \A f \in DOMAIN enc'.procedures : enc'.procedures[f] = "procedure_encoded"
  BY <1>4
<1> QED
  BY <1>7, <1>8, <1>9, <1>10 DEF Accounted, Explained

Accounts == {"queue", "task", "reported", "procedures", "pure_functions", "failed_pure_functions"}

AccountSame == Kept \subseteq DOMAIN enc' /\ \A a \in Accounts : enc'[a] = enc[a]

\* The steps that encode no function of the task.
Plain(op) ==
  op \notin {"queue_done", "fail", "stub", "procedure", "procedure_encoded", "pure_function_def",
             "pure_function_key", "pure_function_lookup", "pure_function_insert", "pure_function_use"}

LEMMA PlainAccount ==
  ASSUME IInv, NEW op, Plain(op), Next1(op), NEW items, Run(items), IsSeq(items),
         \A i \in 1 .. Len(items) : items[i].op # "stub", AccountSame,
         Stack(work', enc'.held, enc'.typaram_repl)
  PROVE  IInv'
<1>1. /\ enc'.queue = enc.queue /\ enc'.task = enc.task /\ enc'.reported = enc.reported
      /\ enc'.procedures = enc.procedures /\ enc'.pure_functions = enc.pure_functions
      /\ enc'.failed_pure_functions = enc.failed_pure_functions
      /\ Kept \subseteq DOMAIN enc'
  BY DEF AccountSame, Accounts
<1>2. Gains
  BY <1>1 DEF Gains, Encoded, Queued, HasPure
<1>3. \A f : ~IsPending(work[1], f)
  BY AtHead DEF IsPending, Plain
<1>4. Accounted => \A f \in DOMAIN enc'.procedures : enc'.procedures[f] = "procedure_encoded"
  BY <1>1 DEF Accounted
<1>5. \A k \in enc'.failed_pure_functions : k \in enc.failed_pure_functions /\ op # "pure_function_insert"
  BY <1>1 DEF Plain
<1>6. op # "fail"
  BY DEF Plain
<1>7. NothingFailed' => Accounted'
  BY <1>1, <1>2, <1>3, <1>4, <1>5, <1>6, AccountStep
<1>8. Continues
  BY <1>1 DEF Continues, Run
<1>9. QueueOK'
  BY <1>1 DEF IInv, QueueOK
<1> QED
  BY <1>7, <1>8, <1>9, NextState

\* What the other steps do to the account of the functions: nothing.
LEMMA CallStep ==
  ASSUME IInv, NEW op, op \notin Marked, Next1(op), NEW items, Run(items),
         Fits(items, Rank(work[1])), KeptSame
  PROVE  IInv'
<1>1. work # <<>> /\ work[1].op = op /\ IsSeq(items)
  BY AtHead DEF Fits
<1>2. enc'.held = enc.held /\ enc'.typaram_repl = enc.typaram_repl /\ AccountSame
  BY DEF KeptSame, Kept, AccountSame, Accounts
<1>3. Stack(work', enc'.held, enc'.typaram_repl)
  <2>1. Stack(work, enc.held, enc.typaram_repl)
    BY DEF IInv
  <2>2. Stack(items \o Tail(work), enc.held, enc.typaram_repl)
    BY <1>1, <2>1, RunStack DEF Marked
  <2> QED
    BY <1>2, <2>2 DEF Run
<1>4. \A i \in 1 .. Len(items) : items[i].op # "stub"
  BY DEF Fits, Placed
<1>5. Plain(op)
  BY DEF Plain, Marked
<1> QED
  BY <1>1, <1>2, <1>3, <1>4, <1>5, PlainAccount

LEMMA PlainCall ==
  ASSUME IInv, NEW op, op \notin Marked, op # "for", Next1(op), NEW items, Run(items),
         Fits(items, OpRank(op)), KeptSame
  PROVE  IInv'
<1>1. Rank(work[1]) = OpRank(op)
  BY AtHead DEF Rank, Marked
<1> QED
  BY <1>1, CallStep

LEMMA SameEncoder == IInv /\ UNCHANGED enc => KeptSame
BY DEF IInv, KeptSame

Structural ==
  {"queue_done", "pure_function_def", "stub", "borrow_mut", "release", "push_tymap", "pop_tymap", "for"}

OfFunctions ==
  {"pure_function_key", "pure_function_lookup", "assertion", "assertion_lookup", "procedure",
   "contract_for_call", "spec_funcs", "pure_function_use", "call_pure", "call_impure"}

LEMMA PlainStep ==
  ASSUME NEW op, NEW x, NEW r \in 0 .. 3, op \notin Structural \cup OfFunctions, OpRank(op) <= r
  PROVE  Steps(<<Do(op, x)>>, r)
<1> DEFINE it == Do(op, x)
<1>1. it.op = op
  BY DEF Do
<1>2. ItemOK(it) /\ Rank(it) = OpRank(op)
  BY <1>1 DEF ItemOK, Rank, Structural, OfFunctions
<1> HIDE DEF it
<1>3. Steps(<<it>>, r)
  BY <1>1, <1>2, OneStep DEF Structural
<1> QED
  BY <1>3 DEF it

LEMMA FunctionStep ==
  ASSUME NEW op, NEW x, op \in OfFunctions, ItemOK(Do(op, x))
  PROVE  Steps(<<Do(op, x)>>, 3)
<1> DEFINE it == Do(op, x)
<1>1. it.op = op
  BY DEF Do
<1>2. Rank(it) <= 3
  BY RankFacts
<1>3. ItemOK(it)
  OBVIOUS
<1> HIDE DEF it
<1>4. Steps(<<it>>, 3)
  BY <1>1, <1>2, <1>3, OneStep DEF OfFunctions
<1> QED
  BY <1>4 DEF it

LEMMA TwoSteps ==
  ASSUME NEW a, NEW b, NEW r \in 0 .. 3, Steps(<<a>>, r), Steps(<<b>>, r)
  PROVE  Steps(<<a, b>>, r)
<1> DEFINE S == {a, b}
           p == <<a>> \o <<b>>
           q == <<a, b>>
<1>1. <<a>> \in Seq(S) /\ <<b>> \in Seq(S) /\ q \in Seq(S)
  OBVIOUS
<1>2. p \in Seq(S) /\ Len(p) = 2 /\ p[1] = a /\ p[2] = b
  BY <1>1
<1>3. Len(q) = 2 /\ q[1] = a /\ q[2] = b
  OBVIOUS
<1>4. Steps(p, r)
  BY ConcatSteps
<1> HIDE DEF S, p, q
<1>5. p = q
  BY <1>1, <1>2, <1>3
<1> QED
  BY <1>4, <1>5 DEF q

LEMMA ThreeSteps ==
  ASSUME NEW a, NEW b, NEW c, NEW r \in 0 .. 3, Steps(<<a>>, r), Steps(<<b>>, r), Steps(<<c>>, r)
  PROVE  Steps(<<a, b, c>>, r)
<1> DEFINE S == {a, b, c}
<1>1. <<a, b>> \in Seq(S) /\ <<c>> \in Seq(S) /\ <<a, b, c>> \in Seq(S)
  OBVIOUS
<1>2. /\ <<a, b>> \o <<c>> \in Seq(S) /\ Len(<<a, b>> \o <<c>>) = 3
      /\ (<<a, b>> \o <<c>>)[1] = a /\ (<<a, b>> \o <<c>>)[2] = b /\ (<<a, b>> \o <<c>>)[3] = c
  BY <1>1
<1>3. <<a, b, c>> = <<a, b>> \o <<c>>
  BY <1>1, <1>2
<1>4. Steps(<<a, b>> \o <<c>>, r)
  BY TwoSteps, ConcatSteps
<1> QED
  BY <1>3, <1>4

LEMMA FourSteps ==
  ASSUME NEW a, NEW b, NEW c, NEW d, NEW r \in 0 .. 3,
         Steps(<<a>>, r), Steps(<<b>>, r), Steps(<<c>>, r), Steps(<<d>>, r)
  PROVE  Steps(<<a, b, c, d>>, r)
<1> DEFINE S == {a, b, c, d}
           p == <<a, b, c>> \o <<d>>
           q == <<a, b, c, d>>
<1>1. <<a, b, c>> \in Seq(S) /\ <<d>> \in Seq(S) /\ q \in Seq(S)
  OBVIOUS
<1> HIDE DEF S, p, q
<1>2. p \in Seq(S) /\ Len(p) = 4 /\ p[1] = a /\ p[2] = b /\ p[3] = c /\ p[4] = d
  <2>1. PICK x, y : x = <<a, b, c>> /\ y = <<d>>
    OBVIOUS
  <2>2. x \in Seq(S) /\ Len(x) = 3 /\ x[1] = a /\ x[2] = b /\ x[3] = c
    BY <1>1, <2>1
  <2>3. y \in Seq(S) /\ Len(y) = 1 /\ y[1] = d
    BY <1>1, <2>1
  <2>4. x \o y \in Seq(S)
    BY <2>2, <2>3
  <2>5. PICK z : z = x \o y
    OBVIOUS
  <2>6. /\ Len(z) = Len(x) + Len(y)
        /\ \A i \in 1 .. Len(x) : z[i] = x[i]
        /\ \A i \in 1 .. Len(y) : z[Len(x) + i] = y[i]
    <3>1. IsSeq(x) /\ IsSeq(y)
      BY <2>2, <2>3 DEF IsSeq
    <3> QED
      BY <2>5, <3>1, ConcatFacts
  <2>7. Len(z) = 4 /\ z[1] = a /\ z[2] = b /\ z[3] = c /\ z[4] = d
    BY <2>2, <2>3, <2>6
  <2> QED
    BY <2>1, <2>4, <2>5, <2>7 DEF p
<1>3. Len(q) = 4 /\ q[1] = a /\ q[2] = b /\ q[3] = c /\ q[4] = d
  BY DEF q
<1>4. Steps(p, r)
  BY ThreeSteps, ConcatSteps DEF p
<1>5. p = q
  <2>1. p \in [1 .. 4 -> S] /\ q \in [1 .. 4 -> S]
    BY <1>1, <1>2, <1>3
  <2>2. \A i \in 1 .. 4 : i = 1 \/ i = 2 \/ i = 3 \/ i = 4
    OBVIOUS
  <2>3. \A i \in 1 .. 4 : p[i] = q[i]
    BY <1>2, <1>3, <2>2
  <2> QED
    BY <2>1, <2>3
<1> QED
  BY <1>4, <1>5 DEF q

\* The names of a type and of the types it is made of.
LEMMA TypeNameSteps ==
  ASSUME NEW ty PROVE Steps(TypeName(ty), 0)
<1>1. Steps(ItemName(ty), 0)
  BY PlainStep, EmptySteps DEF ItemName, OpRank, Structural, OfFunctions
<1>2. Steps(For("predicate_use", NameParts(ty)), 0)
  BY LoopSteps DEF LoopOps, OpRank
<1> QED
  BY <1>1, <1>2, ConcatSteps DEF TypeName

\* A step that calls nothing.
LEMMA ReturnStep ==
  ASSUME IInv, NEW op, op \notin Marked, op # "for", Next1(op), Return, KeptSame
  PROVE  IInv'
<1>1. Run(<<>>)
  BY DEF Return
<1>2. Fits(<<>>, OpRank(op))
  BY EmptySteps DEF Steps
<1> QED
  BY <1>1, <1>2, PlainCall

-------------------------------------------------------------------------------
(* The tables keyed by types *)

LEMMA PredicateActions ==
  ASSUME IInv,
         EncodeTypePredicateUse \/ RecordPredicateName \/ EncodeTypePredicateDef \/ InsertPredicate
  PROVE  IInv'
<1>1. CASE EncodeTypePredicateUse
  <2>1. Next1("predicate_use")
    BY <1>1 DEF EncodeTypePredicateUse
  <2>2. CASE X \in DOMAIN enc.type_predicate_names
    <3>1. Return /\ KeptSame
      BY <1>1, <2>2 DEF EncodeTypePredicateUse, IInv, KeptSame, Kept, Use
    <3> QED
      BY <2>1, <3>1, ReturnStep DEF Marked
  <2>3. CASE X \notin DOMAIN enc.type_predicate_names
    <3> DEFINE items == TypeName(X) \o <<Do("predicate_name", X), Do("predicate_def", X)>>
    <3>1. Run(items) /\ KeptSame
      BY <1>1, <2>3, SameEncoder DEF EncodeTypePredicateUse
    <3>2. Steps(<<Do("predicate_name", X)>>, 0) /\ Steps(<<Do("predicate_def", X)>>, 0)
      BY PlainStep DEF OpRank, Structural, OfFunctions
    <3>3. Steps(items, 0)
      BY <3>2, TwoSteps, TypeNameSteps, ConcatSteps
    <3> HIDE DEF items
    <3> QED
      BY <2>1, <3>1, <3>3, PlainCall DEF Steps, Marked, OpRank
  <2> QED
    BY <2>2, <2>3
<1>2. CASE RecordPredicateName
  <2>1. Next1("predicate_name") /\ Return /\ KeptSame
    BY <1>2 DEF RecordPredicateName, IInv, KeptSame, Kept, Use
  <2> QED
    BY <2>1, ReturnStep DEF Marked
<1>3. CASE EncodeTypePredicateDef
  <2>1. Next1("predicate_def") /\ KeptSame
    BY <1>3, SameEncoder DEF EncodeTypePredicateDef
  <2>2. CASE X \notin DOMAIN enc.type_predicate_names
    <3> DEFINE items == <<Do("predicate_use", X), Do("predicate_def", X)>>
    <3>1. Run(items)
      BY <1>3, <2>2 DEF EncodeTypePredicateDef
    <3>2. Steps(<<Do("predicate_use", X)>>, 0) /\ Steps(<<Do("predicate_def", X)>>, 0)
      BY PlainStep DEF OpRank, Structural, OfFunctions
    <3>3. Steps(items, 0)
      BY <3>2, TwoSteps
    <3> HIDE DEF items
    <3> QED
      BY <2>1, <3>1, <3>3, PlainCall DEF Steps, Marked, OpRank
  <2>3. CASE X \in DOMAIN enc.type_predicate_names /\ Name(X) \in DOMAIN enc.type_predicates
    <3>1. Return
      BY <1>3, <2>3 DEF EncodeTypePredicateDef
    <3> QED
      BY <2>1, <3>1, ReturnStep DEF Marked
  <2>4. CASE ~(X \notin DOMAIN enc.type_predicate_names)
             /\ ~(X \in DOMAIN enc.type_predicate_names /\ Name(X) \in DOMAIN enc.type_predicates)
    <3> DEFINE items == For("predicate_use", FieldTys(X)) \o <<Do("predicate_insert", X)>>
    <3>1. Run(items)
      BY <1>3, <2>4 DEF EncodeTypePredicateDef
    <3>2. Steps(For("predicate_use", FieldTys(X)), 0)
      BY LoopSteps DEF LoopOps, OpRank
    <3>3. Steps(<<Do("predicate_insert", X)>>, 0)
      BY PlainStep DEF OpRank, Structural, OfFunctions
    <3>4. Steps(items, 0)
      BY <3>2, <3>3, ConcatSteps
    <3> HIDE DEF items
    <3> QED
      BY <2>1, <3>1, <3>4, PlainCall DEF Steps, Marked, OpRank
  <2> QED
    BY <2>2, <2>3, <2>4
<1>4. CASE InsertPredicate
  <2>1. Next1("predicate_insert") /\ Return /\ KeptSame
    BY <1>4 DEF InsertPredicate, IInv, KeptSame, Kept
  <2> QED
    BY <2>1, ReturnStep DEF Marked
<1> QED
  BY <1>1, <1>2, <1>3, <1>4

LEMMA InvariantActions ==
  ASSUME IInv,
         \/ EncodeInvariantFuncApp \/ EncodeTypeInvariantUse \/ EncodeTypeInvariantDef
         \/ InvariantOfField \/ InsertInvariant
  PROVE  IInv'
<1>1. CASE EncodeInvariantFuncApp \/ InvariantOfField
  <2>1. ASSUME NEW op \in {"invariant_use", "invariant_func_app"}
        PROVE  Steps(<<Do("predicate_use", X), Do(op, X)>>, 3)
    <3>1. Steps(<<Do("predicate_use", X)>>, 3) /\ Steps(<<Do(op, X)>>, 3)
      BY PlainStep DEF OpRank, Structural, OfFunctions
    <3> QED
      BY <3>1, TwoSteps
  <2>2. PICK op \in {"invariant_use", "invariant_func_app"}, at \in {"invariant_func_app", "invariant_field"} :
          Next1(at) /\ Run(<<Do("predicate_use", X), Do(op, X)>>) /\ UNCHANGED enc
    BY <1>1 DEF EncodeInvariantFuncApp, InvariantOfField
  <2>3. Fits(<<Do("predicate_use", X), Do(op, X)>>, OpRank(at)) /\ KeptSame
    BY <2>1, <2>2, SameEncoder DEF OpRank, Steps
  <2> QED
    BY <2>2, <2>3, PlainCall DEF Marked
<1>2. CASE EncodeTypeInvariantUse
  <2>1. Next1("invariant_use")
    BY <1>2 DEF EncodeTypeInvariantUse
  <2>2. CASE X \in DOMAIN enc.type_invariant_names
    <3>1. Return /\ KeptSame
      BY <1>2, <2>2 DEF EncodeTypeInvariantUse, IInv, KeptSame, Kept, Use
    <3> QED
      BY <2>1, <3>1, ReturnStep DEF Marked
  <2>3. CASE X \notin DOMAIN enc.type_invariant_names
    <3> DEFINE items == TypeName(X) \o <<Do("invariant_name", X)>>
    <3>1. Run(items) /\ KeptSame
      BY <1>2, <2>3, SameEncoder DEF EncodeTypeInvariantUse
    <3>2. Steps(<<Do("invariant_name", X)>>, 3) /\ Steps(TypeName(X), 3)
      BY PlainStep, TypeNameSteps, HigherRank DEF OpRank, Structural, OfFunctions
    <3>3. Steps(items, 3)
      BY <3>2, ConcatSteps
    <3> HIDE DEF items
    <3> QED
      BY <2>1, <3>1, <3>3, PlainCall DEF Steps, Marked, OpRank
  <2> QED
    BY <2>2, <2>3
<1>3. CASE EncodeTypeInvariantDef
  <2> DEFINE borrow == Borrowed("snapshot_encoder", <<>>)
             insert == <<Do("invariant_insert", X)>>
             use    == <<Do("predicate_use", X)>>
             items  == IF NameOf(X) \in enc.type_invariants THEN <<>>
                       ELSE use \o InvariantParts(X) \o borrow \o insert
  <2>1. Next1("invariant_name") /\ Run(items) /\ KeptSame
    BY <1>3 DEF EncodeTypeInvariantDef, IInv, KeptSame, Kept, Use
  <2>2. Steps(borrow, 3)
    BY EmptySteps, BorrowedSteps DEF CellRank
  <2>3. Steps(insert, 3) /\ Steps(use, 0)
    BY PlainStep DEF OpRank, Structural, OfFunctions
  <2>4. Fits(InvariantParts(X), 3)
    <3> DEFINE apps == For("invariant_field", FieldTys(X))
               args == For("predicate_use", X.args)
    <3>1. Steps(apps, 3) /\ Steps(args, 3) /\ Steps(<<>>, 3)
      BY LoopSteps, EmptySteps DEF LoopOps, OpRank
    <3>2. Steps(apps \o args, 3)
      BY <3>1, ConcatSteps
    <3>3. Fits(WithTymap(TyMap(Adts[X.name].params, X.args), apps), 3)
      BY <3>1, TymapFits
    <3>4. InvariantParts(X) \in {apps \o args, args, WithTymap(TyMap(Adts[X.name].params, X.args), apps), <<>>}
      BY DEF InvariantParts
    <3> HIDE DEF apps, args
    <3> QED
      BY <3>1, <3>2, <3>3, <3>4 DEF Steps
  <2> HIDE DEF use, borrow, insert
  <2>5. Fits(use \o InvariantParts(X), 3)
    BY <2>3, <2>4, ConcatFits, HigherRank DEF Steps
  <2>6. Fits((use \o InvariantParts(X)) \o borrow, 3)
    BY <2>2, <2>5, ConcatFits DEF Steps
  <2>7. Fits(((use \o InvariantParts(X)) \o borrow) \o insert, 3)
    BY <2>3, <2>6, ConcatFits DEF Steps
  <2>8. Fits(items, 3)
    BY <2>7, EmptySteps DEF Steps
  <2> HIDE DEF items
  <2> QED
    BY <2>1, <2>8, PlainCall DEF Marked, OpRank
<1>4. CASE InsertInvariant
  <2>1. Next1("invariant_insert") /\ Return /\ KeptSame
    BY <1>4 DEF InsertInvariant, IInv, KeptSame, Kept
  <2> QED
    BY <2>1, ReturnStep DEF Marked
<1> QED
  BY <1>1, <1>2, <1>3, <1>4

LEMMA InsertActions ==
  ASSUME IInv,
         \/ EncodeTypeTagDef \/ EncodeBuiltinFunction \/ EncodeBuiltinMethod \/ InsertCastFunction
         \/ InsertDiscriminantFunc \/ InsertArrayTypes \/ InsertSnapshot
  PROVE  IInv'
<1>1. CASE EncodeTypeTagDef
  <2>1. Next1("tag_def") /\ Return /\ KeptSame
    BY <1>1 DEF EncodeTypeTagDef, IInv, KeptSame, Kept
  <2> QED
    BY <2>1, ReturnStep DEF Marked
<1>2. CASE EncodeBuiltinFunction
  <2>1. Next1("builtin_function") /\ Return /\ KeptSame
    BY <1>2 DEF EncodeBuiltinFunction, IInv, KeptSame, Kept, Use
  <2> QED
    BY <2>1, ReturnStep DEF Marked
<1>3. CASE EncodeBuiltinMethod
  <2>1. Next1("builtin_method") /\ Return /\ KeptSame
    BY <1>3 DEF EncodeBuiltinMethod, IInv, KeptSame, Kept, Use
  <2> QED
    BY <2>1, ReturnStep DEF Marked
<1>4. CASE InsertCastFunction
  <2>1. Next1("cast_insert") /\ Return /\ KeptSame
    BY <1>4 DEF InsertCastFunction, IInv, KeptSame, Kept
  <2> QED
    BY <2>1, ReturnStep DEF Marked
<1>5. CASE InsertDiscriminantFunc
  <2>1. Next1("discriminant_insert") /\ Return /\ KeptSame
    BY <1>5 DEF InsertDiscriminantFunc, IInv, KeptSame, Kept
  <2> QED
    BY <2>1, ReturnStep DEF Marked
<1>6. CASE InsertArrayTypes
  <2>1. Next1("array_types_insert") /\ Return /\ KeptSame
    BY <1>6 DEF InsertArrayTypes, IInv, KeptSame, Kept
  <2> QED
    BY <2>1, ReturnStep DEF Marked
<1>7. CASE InsertSnapshot
  <2>1. Next1("snapshot_insert") /\ Return /\ KeptSame
    BY <1>7 DEF InsertSnapshot, IInv, KeptSame, Kept
  <2> QED
    BY <2>1, ReturnStep DEF Marked
<1> QED
  BY <1>1, <1>2, <1>3, <1>4, <1>5, <1>6, <1>7

LEMMA LookupActions ==
  ASSUME IInv,
         \/ EncodeTypeTagUse \/ EncodeCastFunctionUse \/ EncodeDiscriminantFuncApp
         \/ EncodeDiscriminantFunc \/ EncodeArrayTypes
  PROVE  IInv'
<1>1. CASE EncodeTypeTagUse
  <2> DEFINE items == IF X \in DOMAIN enc.type_tags THEN <<>> ELSE TypeName(X) \o <<Do("tag_def", X)>>
  <2>1. Next1("tag_func_app") /\ Run(items) /\ KeptSame
    BY <1>1 DEF EncodeTypeTagUse, IInv, KeptSame, Kept, Use
  <2>2. Steps(<<Do("tag_def", X)>>, 3) /\ Steps(TypeName(X), 3)
    BY PlainStep, TypeNameSteps, HigherRank DEF OpRank, Structural, OfFunctions
  <2>3. Steps(items, 3)
    BY <2>2, EmptySteps, ConcatSteps
  <2> HIDE DEF items
  <2> QED
    BY <2>1, <2>3, PlainCall DEF Steps, Marked, OpRank
<1>2. CASE EncodeCastFunctionUse
  <2> DEFINE items == IF X \in enc.type_cast_functions THEN <<>>
                      ELSE For("snapshot", <<X[1], X[2], X[2]>>) \o <<Do("cast_insert", X)>>
  <2>1. Next1("cast") /\ Run(items) /\ KeptSame
    BY <1>2 DEF EncodeCastFunctionUse, IInv, KeptSame, Kept, Use
  <2>2. Steps(<<Do("cast_insert", X)>>, 3) /\ Steps(For("snapshot", <<X[1], X[2], X[2]>>), 3)
    BY PlainStep, LoopSteps DEF OpRank, LoopOps, Structural, OfFunctions
  <2>3. Steps(items, 3)
    BY <2>2, EmptySteps, ConcatSteps
  <2> HIDE DEF items
  <2> QED
    BY <2>1, <2>3, PlainCall DEF Steps, Marked, OpRank
<1>3. CASE EncodeDiscriminantFuncApp
  <2> DEFINE inner == <<Do("discriminant_func", X)>>
             items == <<Do("predicate_use", X)>> \o Borrowed("type_discriminant_funcs", inner)
  <2>1. Next1("discriminant") /\ Run(items) /\ KeptSame
    BY <1>3, SameEncoder DEF EncodeDiscriminantFuncApp
  <2>2. Steps(<<Do("predicate_use", X)>>, 3) /\ Steps(inner, 2)
    BY PlainStep DEF OpRank, Structural, OfFunctions
  <2> HIDE DEF inner
  <2>3. Steps(Borrowed("type_discriminant_funcs", inner), 3)
    BY <2>2, BorrowedSteps DEF CellRank
  <2>4. Steps(items, 3)
    BY <2>2, <2>3, ConcatSteps
  <2> HIDE DEF items
  <2> QED
    BY <2>1, <2>4, PlainCall DEF Steps, Marked, OpRank
<1>4. CASE EncodeDiscriminantFunc
  <2> DEFINE inner  == <<Do("encode_snapshot", enc.predicate_types[Name(X)])>>
             insert == <<Do("discriminant_insert", X)>>
             items  == IF Name(X) \in enc.type_discriminant_funcs THEN <<>>
                       ELSE Borrowed("snapshot_encoder", inner) \o insert
  <2>1. Next1("discriminant_func") /\ Run(items) /\ KeptSame
    BY <1>4 DEF EncodeDiscriminantFunc, IInv, KeptSame, Kept, Use
  <2>2. Steps(insert, 2) /\ Steps(inner, 1)
    BY PlainStep DEF OpRank, Structural, OfFunctions
  <2> HIDE DEF inner, insert
  <2>3. Steps(Borrowed("snapshot_encoder", inner), 2)
    BY <2>2, BorrowedSteps DEF CellRank
  <2>4. Steps(items, 2)
    BY <2>2, <2>3, EmptySteps, ConcatSteps
  <2> HIDE DEF items
  <2> QED
    BY <2>1, <2>4, PlainCall DEF Steps, Marked, OpRank
<1>5. CASE EncodeArrayTypes
  <2> DEFINE calls == <<Do("predicate_use", X), Do("predicate_use", X.args[1]), Do("array_types_insert", X)>>
             inner == IF X \in enc.array_types THEN <<>> ELSE calls
             items == Borrowed("array_types_encoder", inner)
  <2>1. Next1("array_types") /\ Run(items) /\ KeptSame
    BY <1>5, SameEncoder DEF EncodeArrayTypes
  <2>2. /\ Steps(<<Do("predicate_use", X)>>, 0) /\ Steps(<<Do("predicate_use", X.args[1])>>, 0)
        /\ Steps(<<Do("array_types_insert", X)>>, 0)
    BY PlainStep DEF OpRank, Structural, OfFunctions
  <2>3. Steps(calls, 0)
    BY <2>2, ThreeSteps
  <2>4. Steps(inner, 0)
    BY <2>3, EmptySteps
  <2> HIDE DEF inner
  <2>5. Steps(items, 1)
    BY <2>4, BorrowedSteps DEF CellRank
  <2> HIDE DEF items
  <2> QED
    BY <2>1, <2>5, PlainCall DEF Steps, Marked, OpRank
<1> QED
  BY <1>1, <1>2, <1>3, <1>4, <1>5

\* What encode_snapshot_internal calls borrows at most the array types.
LEMMA SnapshotPartsSteps ==
  ASSUME NEW ty PROVE Steps(SnapshotParts(ty), 1)
<1> DEFINE snap   == Do("encode_snapshot", ty.args[1])
           types  == Do("array_types", ty)
           lookup == Do("builtin_function", <<"array_lookup_pure", ty>>)
           len    == Do("builtin_function", <<"slice_len", ty>>)
           slice  == Do("builtin_function", <<"slice_lookup_pure", ty>>)
<1>1. /\ Steps(<<snap>>, 1) /\ Steps(<<types>>, 1) /\ Steps(<<lookup>>, 1) /\ Steps(<<len>>, 1)
      /\ Steps(<<slice>>, 1)
  BY PlainStep DEF OpRank, Structural, OfFunctions
<1>2. Steps(FieldSnapshots(ty), 1)
  BY LoopSteps DEF FieldSnapshots, LoopOps, OpRank
<1>3. Steps(<<Do("predicate_def", ty)>>, 1)
  BY PlainStep DEF OpRank, Structural, OfFunctions
<1>4. Steps(<<Do("predicate_def", ty)>> \o FieldSnapshots(ty), 1)
  BY <1>2, <1>3, ConcatSteps
<1>5. ArrayParts(ty) = <<snap, types, lookup>> /\ SliceParts(ty) = <<types, snap, len, slice>>
  BY DEF ArrayParts, SliceParts
<1> HIDE DEF snap, types, lookup, len, slice
<1>6. Steps(ArrayParts(ty), 1) /\ Steps(SliceParts(ty), 1)
  BY <1>1, <1>5, ThreeSteps, FourSteps
<1>7. SnapshotParts(ty) \in {ArrayParts(ty), SliceParts(ty),
        <<Do("predicate_def", ty)>> \o FieldSnapshots(ty), FieldSnapshots(ty), <<>>}
  BY DEF SnapshotParts
<1> QED
  BY <1>2, <1>4, <1>6, <1>7, EmptySteps

LEMMA SnapshotActions ==
  ASSUME IInv,
         EncodeSnapshotApi \/ EncodeSnapshot \/ LookUpSnapshot \/ SnapshotOfField \/ SnapApp
  PROVE  IInv'
<1>1. CASE EncodeSnapshotApi
  <2> DEFINE inner == <<Do("encode_snapshot", X)>>
             items == Borrowed("snapshot_encoder", inner)
  <2>1. Next1("snapshot") /\ Run(items) /\ KeptSame
    BY <1>1, SameEncoder DEF EncodeSnapshotApi
  <2>2. Steps(inner, 1)
    BY PlainStep DEF OpRank, Structural, OfFunctions
  <2> HIDE DEF inner
  <2>3. Steps(items, 3)
    BY <2>2, BorrowedSteps DEF CellRank
  <2> HIDE DEF items
  <2> QED
    BY <2>1, <2>3, PlainCall DEF Steps, Marked, OpRank
<1>2. CASE EncodeSnapshot
  <2> DEFINE ty    == ResolveTyparam(StripRefsAndBoxes[X], enc.typaram_repl)
             items == <<Do("predicate_use", ty), Do("snapshot_lookup", ty)>>
  <2>1. Next1("encode_snapshot") /\ Run(items) /\ KeptSame
    BY <1>2, SameEncoder DEF EncodeSnapshot
  <2> HIDE DEF ty
  <2>2. Steps(<<Do("predicate_use", ty)>>, 1) /\ Steps(<<Do("snapshot_lookup", ty)>>, 1)
    BY PlainStep DEF OpRank, Structural, OfFunctions
  <2>3. Steps(items, 1)
    BY <2>2, TwoSteps
  <2> HIDE DEF items
  <2> QED
    BY <2>1, <2>3, PlainCall DEF Steps, Marked, OpRank
<1>3. CASE LookUpSnapshot
  <2>1. Next1("snapshot_lookup")
    BY <1>3 DEF LookUpSnapshot
  <2>2. CASE Name(X) \in DOMAIN enc.encoded \cup enc.in_progress
    <3>1. Return /\ KeptSame
      BY <1>3, <2>2 DEF LookUpSnapshot, IInv, KeptSame, Kept, Use
    <3> QED
      BY <2>1, <3>1, ReturnStep DEF Marked
  <2>3. CASE Name(X) \notin DOMAIN enc.encoded \cup enc.in_progress
    <3> DEFINE items == SnapshotParts(X) \o <<Do("snapshot_insert", X)>>
    <3>1. Run(items) /\ KeptSame
      BY <1>3, <2>3 DEF LookUpSnapshot, IInv, KeptSame, Kept, Use
    <3>2. Steps(<<Do("snapshot_insert", X)>>, 1)
      BY PlainStep DEF OpRank, Structural, OfFunctions
    <3>3. Steps(items, 1)
      BY <3>2, SnapshotPartsSteps, ConcatSteps
    <3> HIDE DEF items
    <3> QED
      BY <2>1, <3>1, <3>3, PlainCall DEF Steps, Marked, OpRank
  <2> QED
    BY <2>2, <2>3
<1>4. CASE SnapshotOfField
  <2> DEFINE items == <<Do("predicate_use", X), Do("snap_app", X), Do("encode_snapshot", X)>>
  <2>1. Next1("snapshot_field") /\ Run(items) /\ KeptSame
    BY <1>4, SameEncoder DEF SnapshotOfField
  <2>2. /\ Steps(<<Do("predicate_use", X)>>, 1) /\ Steps(<<Do("snap_app", X)>>, 1)
        /\ Steps(<<Do("encode_snapshot", X)>>, 1)
    BY PlainStep DEF OpRank, Structural, OfFunctions
  <2>3. Steps(items, 1)
    BY <2>2, ThreeSteps
  <2> HIDE DEF items
  <2> QED
    BY <2>1, <2>3, PlainCall DEF Steps, Marked, OpRank
<1>5. CASE SnapApp
  <2> DEFINE ty    == enc.predicate_types[Name(X)]
             inner == StripRefsAndBoxes[ty]
             snap  == IF inner.kind = "prim" \/ IsUnit(inner) THEN <<>> ELSE <<Do("encode_snapshot", inner)>>
             items == For("predicate_use", Dereferenced[ty]) \o snap
  <2>1. Next1("snap_app") /\ Run(items) /\ KeptSame
    BY <1>5, SameEncoder DEF SnapApp
  <2> HIDE DEF inner, ty
  <2>2. Steps(For("predicate_use", Dereferenced[ty]), 1)
    BY LoopSteps DEF LoopOps, OpRank
  <2>3. Steps(snap, 1)
    BY PlainStep, EmptySteps DEF OpRank, Structural, OfFunctions
  <2> HIDE DEF snap
  <2>4. Steps(items, 1)
    BY <2>2, <2>3, ConcatSteps
  <2> HIDE DEF items
  <2> QED
    BY <2>1, <2>4, PlainCall DEF Steps, Marked, OpRank
<1> QED
  BY <1>1, <1>2, <1>3, <1>4, <1>5

LEMMA TypeTableActions == IInv /\ TypeTableStep => IInv'
BY PredicateActions, InvariantActions, InsertActions, LookupActions, SnapshotActions DEF TypeTableStep

-------------------------------------------------------------------------------
(* Functions: the steps that leave the account alone *)

LEMMA LoopAction == IInv /\ Iterate => IInv'
<1> SUFFICES ASSUME IInv, Iterate PROVE IInv'
  OBVIOUS
<1> DEFINE call  == <<Do(X[1], Head(X[2]))>>
           items == call \o For(X[1], Tail(X[2]))
<1>1. Next1("for") /\ Run(items) /\ KeptSame
  BY SameEncoder DEF Iterate
<1>2. X = work[1].x /\ work[1].op = "for" /\ ItemOK(work[1])
  BY <1>1, AtHead
<1>3. X[1] \in LoopOps /\ Rank(work[1]) = OpRank(X[1])
  BY <1>2 DEF ItemOK, Rank
<1>4. OpRank(X[1]) \in 0 .. 3 /\ X[1] \notin Structural \cup OfFunctions
  BY <1>3 DEF OpRank, LoopOps, Structural, OfFunctions
<1>5. Steps(call, OpRank(X[1]))
  BY <1>4, PlainStep
<1>6. Steps(For(X[1], Tail(X[2])), OpRank(X[1]))
  BY <1>3, <1>4, LoopSteps
<1> HIDE DEF call
<1>7. Steps(items, OpRank(X[1]))
  BY <1>4, <1>5, <1>6, ConcatSteps
<1> HIDE DEF items
<1> QED
  BY <1>1, <1>3, <1>7, CallStep DEF Steps, Marked

LEMMA SubstitutionSteps == Steps(SubstitutionNames, 3)
BY LoopSteps DEF SubstitutionNames, LoopOps, OpRank

LEMMA PatchSteps == ASSUME NEW f PROVE Steps(Patch(f), 3)
<1>1. Steps(For("encode_snapshot", Fns[f].patched), 1)
  BY LoopSteps DEF LoopOps, OpRank
<1> QED
  BY <1>1, BorrowedSteps DEF Patch, CellRank

LEMMA RecordActions ==
  ASSUME IInv,
         \/ EncodeItemName \/ Register \/ GetProcedureContractForDef \/ EncodeMirrors
         \/ InsertPureExpression \/ InsertSpecFuncs
  PROVE  IInv'
<1>1. CASE EncodeItemName
  <2>1. Next1("item_name") /\ Return /\ KeptSame
    BY <1>1, SameEncoder DEF EncodeItemName
  <2> QED
    BY <2>1, ReturnStep DEF Marked
<1>2. CASE Register
  <2>1. Next1("register") /\ Return /\ KeptSame
    BY <1>2 DEF Register, IInv, KeptSame, Kept
  <2> QED
    BY <2>1, ReturnStep DEF Marked
<1>3. CASE GetProcedureContractForDef
  <2>1. Next1("contract") /\ Return /\ KeptSame
    BY <1>3 DEF GetProcedureContractForDef, IInv, KeptSame, Kept
  <2> QED
    BY <2>1, ReturnStep DEF Marked
<1>4. CASE EncodeMirrors
  <2>1. Next1("mirror") /\ Return /\ KeptSame
    BY <1>4 DEF EncodeMirrors, IInv, KeptSame, Kept
  <2> QED
    BY <2>1, ReturnStep DEF Marked
<1>5. CASE InsertPureExpression
  <2>1. Next1("assertion_insert") /\ Return /\ KeptSame
    BY <1>5 DEF InsertPureExpression, IInv, KeptSame, Kept
  <2> QED
    BY <2>1, ReturnStep DEF Marked
<1>6. CASE InsertSpecFuncs
  <2>1. Next1("spec_funcs_insert") /\ Return /\ KeptSame
    BY <1>6 DEF InsertSpecFuncs, IInv, KeptSame, Kept
  <2> QED
    BY <2>1, ReturnStep DEF Marked
<1> QED
  BY <1>1, <1>2, <1>3, <1>4, <1>5, <1>6

LEMMA CallActions ==
  ASSUME IInv,
         \/ EncodeType \/ EncodeFunctionReturnType \/ CallPure \/ CallImpure
         \/ GetProcedureContractForCall
  PROVE  IInv'
<1>1. CASE EncodeType
  <2>1. Next1("encode_type") /\ Run(TypeName(X)) /\ KeptSame
    BY <1>1, SameEncoder DEF EncodeType
  <2> QED
    BY <2>1, TypeNameSteps, PlainCall DEF Steps, Marked, OpRank
<1>2. CASE EncodeFunctionReturnType
  <2> DEFINE ty    == ResolveTyparam(Fns[X].ret, enc.typaram_repl)
             items == IF IsSupportedInPure[ty] THEN <<Do("snapshot", ty)>> ELSE <<Do("fail", "incorrect")>>
  <2>1. Next1("return_type") /\ Run(items) /\ KeptSame
    BY <1>2, SameEncoder DEF EncodeFunctionReturnType
  <2> HIDE DEF ty
  <2>2. Steps(<<Do("snapshot", ty)>>, 3) /\ Steps(<<Do("fail", "incorrect")>>, 3)
    BY PlainStep DEF OpRank, Structural, OfFunctions
  <2>3. Steps(items, 3)
    BY <2>2
  <2> HIDE DEF items
  <2> QED
    BY <2>1, <2>3, PlainCall DEF Steps, Marked, OpRank
<1>3. CASE CallPure
  <2> DEFINE tymap == TyMap(Fns[X[1]].generics, X[2])
             inner == <<Do("pure_function_use", X[1])>>
  <2>1. Next1("call_pure") /\ Run(WithTymap(tymap, inner)) /\ KeptSame
    BY <1>3, SameEncoder DEF CallPure
  <2>2. X[1] \in DOMAIN Fns /\ Fns[X[1]].pure
    BY <2>1, AtHead DEF ItemOK
  <2>3. ItemOK(Do("pure_function_use", X[1]))
    BY <2>2 DEF ItemOK, Do
  <2>4. Steps(inner, 3)
    BY <2>3, FunctionStep DEF OfFunctions
  <2> HIDE DEF inner, tymap
  <2>5. Fits(WithTymap(tymap, inner), 3)
    BY <2>4, TymapFits
  <2> QED
    BY <2>1, <2>5, PlainCall DEF Marked, OpRank
<1>4. CASE CallImpure
  <2> DEFINE tymap == TyMap(Fns[X[1]].generics, X[2])
             inner == <<Do("contract_for_call", X[1])>>
  <2>1. Next1("call_impure") /\ Run(WithTymap(tymap, inner)) /\ KeptSame
    BY <1>4, SameEncoder DEF CallImpure
  <2>2. X[1] \in DOMAIN Fns
    BY <2>1, AtHead DEF ItemOK
  <2>3. ItemOK(Do("contract_for_call", X[1]))
    BY <2>2 DEF ItemOK, Do
  <2>4. Steps(inner, 3)
    BY <2>3, FunctionStep DEF OfFunctions
  <2> HIDE DEF inner, tymap
  <2>5. Fits(WithTymap(tymap, inner), 3)
    BY <2>4, TymapFits
  <2> QED
    BY <2>1, <2>5, PlainCall DEF Marked, OpRank
<1>5. CASE GetProcedureContractForCall
  <2> DEFINE items == IF Len(enc.typaram_repl) # 1 THEN <<Do("fail", "internal")>>
                      ELSE Fns[X].spec \o Fns[X].post
  <2>1. Next1("contract_for_call") /\ Run(items) /\ KeptSame
    BY <1>5, SameEncoder DEF GetProcedureContractForCall
  <2>2. X \in DOMAIN Fns
    BY <2>1, AtHead DEF ItemOK
  <2>3. Steps(Fns[X].spec \o Fns[X].post, 3)
    BY <2>2, RequestSteps, ConcatSteps
  <2>4. Steps(<<Do("fail", "internal")>>, 3)
    BY PlainStep DEF OpRank, Structural, OfFunctions
  <2>5. Steps(items, 3)
    BY <2>3, <2>4
  <2> HIDE DEF items
  <2> QED
    BY <2>1, <2>5, PlainCall DEF Steps, Marked, OpRank
<1> QED
  BY <1>1, <1>2, <1>3, <1>4, <1>5

LEMMA SpecificationActions ==
  ASSUME IInv, EncodePureExpression \/ LookUpPureExpression \/ EncodeSpecFuncs
  PROVE  IInv'
<1>1. CASE EncodePureExpression
  <2> DEFINE calls == <<Do("assertion_lookup", X), Do("register", "verification")>>
  <2>1. Next1("assertion") /\ Run(SubstitutionNames \o calls) /\ KeptSame
    BY <1>1, SameEncoder DEF EncodePureExpression
  <2>2. ItemOK(Do("assertion_lookup", X))
    BY <2>1, AtHead DEF ItemOK, Do
  <2>3. Steps(<<Do("assertion_lookup", X)>>, 3)
    BY <2>2, FunctionStep DEF OfFunctions
  <2>4. Steps(<<Do("register", "verification")>>, 3)
    BY PlainStep DEF OpRank, Structural, OfFunctions
  <2>5. Steps(calls, 3)
    BY <2>3, <2>4, TwoSteps
  <2> HIDE DEF calls
  <2>6. Steps(SubstitutionNames \o calls, 3)
    BY <2>5, SubstitutionSteps, ConcatSteps
  <2> QED
    BY <2>1, <2>6, PlainCall DEF Steps, Marked, OpRank
<1>2. CASE LookUpPureExpression
  <2> DEFINE items == IF Key(X) \in enc.pure_function_bodies THEN <<>>
                      ELSE Fns[X].body \o <<Do("assertion_insert", X)>>
  <2>1. Next1("assertion_lookup") /\ Run(items) /\ KeptSame
    BY <1>2, SameEncoder DEF LookUpPureExpression
  <2>2. X \in DOMAIN Fns
    BY <2>1, AtHead DEF ItemOK
  <2>3. Steps(<<Do("assertion_insert", X)>>, 3)
    BY PlainStep DEF OpRank, Structural, OfFunctions
  <2>4. Steps(items, 3)
    BY <2>2, <2>3, RequestSteps, EmptySteps, ConcatSteps
  <2> HIDE DEF items
  <2> QED
    BY <2>1, <2>4, PlainCall DEF Steps, Marked, OpRank
<1>3. CASE EncodeSpecFuncs
  <2> DEFINE names  == For("item_name", Fns[X].spec_names)
             args   == For("snapshot", Fns[X].args)
             borrow == Borrowed("snapshot_encoder", <<>>)
             insert == <<Do("spec_funcs_insert", X)>>
             items  == IF X \in enc.spec_functions THEN <<>>
                       ELSE names \o args \o Fns[X].spec \o Fns[X].post \o borrow \o insert
  <2>1. Next1("spec_funcs") /\ Run(items) /\ KeptSame
    BY <1>3, SameEncoder DEF EncodeSpecFuncs
  <2>2. X \in DOMAIN Fns
    BY <2>1, AtHead DEF ItemOK
  <2>3. Steps(names, 3) /\ Steps(args, 3)
    BY LoopSteps DEF LoopOps, OpRank
  <2>4. Steps(borrow, 3)
    BY EmptySteps, BorrowedSteps DEF CellRank
  <2>5. Steps(insert, 3)
    BY PlainStep DEF OpRank, Structural, OfFunctions
  <2>6. Steps(Fns[X].spec, 3) /\ Steps(Fns[X].post, 3)
    BY <2>2, RequestSteps
  <2> HIDE DEF names, args, borrow, insert
  <2>7. Steps(names \o args \o Fns[X].spec, 3)
    BY <2>3, <2>6, ConcatSteps
  <2>8. Steps((names \o args \o Fns[X].spec) \o Fns[X].post \o borrow \o insert, 3)
    BY <2>4, <2>5, <2>6, <2>7, ConcatSteps
  <2>9. Steps(items, 3)
    BY <2>8, EmptySteps
  <2> HIDE DEF items
  <2> QED
    BY <2>1, <2>9, PlainCall DEF Steps, Marked, OpRank
<1> QED
  BY <1>1, <1>2, <1>3

-------------------------------------------------------------------------------
(* Borrows and type maps *)

LEMMA AppendFacts ==
  ASSUME NEW s, IsSeq(s), NEW e
  PROVE  /\ IsSeq(Append(s, e)) /\ Len(Append(s, e)) = Len(s) + 1
         /\ \A i \in 1 .. Len(s) : Append(s, e)[i] = s[i]
         /\ Append(s, e)[Len(s) + 1] = e
<1>1. PICK S : s \in Seq(S)
  BY DEF IsSeq
<1>2. s \in Seq(S \cup {e}) /\ Append(s, e) \in Seq(S \cup {e})
  BY <1>1
<1> QED
  BY <1>2 DEF IsSeq

\* An action that takes the first step away and changes the borrows or the type maps.
LEMMA StackAction ==
  ASSUME IInv, NEW op, Plain(op), Next1(op), Return, AccountSame,
         Stack(<<>> \o Tail(work), enc'.held, enc'.typaram_repl)
  PROVE  IInv'
<1>1. Run(<<>>) /\ IsSeq(<<>>) /\ Len(<<>>) = 0
  BY EmptyFacts DEF Return
<1>2. Stack(work', enc'.held, enc'.typaram_repl)
  BY <1>1 DEF Run
<1> QED
  BY <1>1, <1>2, PlainAccount

LEMMA BorrowActions == IInv /\ (BorrowMut \/ Release) => IInv'
<1> SUFFICES ASSUME IInv, BorrowMut \/ Release PROVE IInv'
  OBVIOUS
<1>1. Stack(work, enc.held, enc.typaram_repl) /\ IsSeq(enc.typaram_repl)
  BY DEF IInv, Stack
<1>2. CASE BorrowMut
  <2>1. Next1("borrow_mut")
    BY <1>2 DEF BorrowMut
  <2>2. work # <<>> /\ work[1].op = "borrow_mut" /\ X = work[1].x
    BY <2>1, AtHead
  <2>3. X \notin enc.held
    BY <1>1, <2>2, NotHeld
  <2>4. Return /\ AccountSame /\ enc'.held = enc.held \cup {X} /\ enc'.typaram_repl = enc.typaram_repl
    BY <1>2, <2>3 DEF BorrowMut, IInv, AccountSame, Accounts, Kept
  <2>5. Stack(<<>> \o Tail(work), enc'.held, enc'.typaram_repl)
    BY <1>1, <2>2, <2>4, BorrowStack
  <2> QED
    BY <2>1, <2>4, <2>5, StackAction DEF Plain
<1>3. CASE Release
  <2>1. Next1("release")
    BY <1>3 DEF Release
  <2>2. work # <<>> /\ work[1].op = "release" /\ X = work[1].x
    BY <2>1, AtHead
  <2>3. Return /\ AccountSame /\ enc'.held = enc.held \ {X} /\ enc'.typaram_repl = enc.typaram_repl
    BY <1>3 DEF Release, IInv, AccountSame, Accounts, Kept
  <2>4. enc'.held \in SUBSET enc.held /\ \A c \in enc'.held : ~(work[1].op = "release" /\ work[1].x = c)
    BY <2>2, <2>3
  <2>5. Fits(<<>>, Rank(work[1]))
    BY EmptySteps DEF Steps
  <2> DEFINE maps  == enc.typaram_repl
             held2 == enc'.held
  <2>6. Len(maps) = (Len(maps) + 0) - 0
    BY <1>1, SeqFacts
  <2>7. Stack(work, enc.held, maps) /\ IsSeq(maps)
    BY <1>1
  <2>8. held2 \in SUBSET enc.held /\ \A c \in held2 : ~(work[1].op = "release" /\ work[1].x = c)
    BY <2>4
  <2> HIDE DEF maps, held2
  <2>9. Stack(<<>> \o Tail(work), held2, maps)
    BY <2>2, <2>5, <2>6, <2>7, <2>8, StepStack
  <2> QED
    BY <2>1, <2>3, <2>9, StackAction DEF Plain, maps, held2
<1> QED
  BY <1>2, <1>3

\* After a step that is not about naming types, no map is waiting to be pushed.
LEMMA NoMorePushes ==
  ASSUME NEW w, NEW held, NEW maps, Stack(w, held, maps), w # <<>>, w[1].op # "push_tymap", Rank(w[1]) # 0
  PROVE  NoPush(w) /\ Len(maps) = Count("pop_tymap", w)
<1>1. IsSeq(w) /\ Len(w) \in Nat /\ DOMAIN w = 1 .. Len(w) /\ IsSeq(maps) /\ Len(maps) \in Nat
  BY SeqFacts DEF Stack
<1>2. NoPush(w)
  <2> SUFFICES ASSUME NEW i \in 1 .. Len(w), w[i].op = "push_tymap" PROVE FALSE
    BY DEF NoPush
  <2>1. 1 \in 1 .. i - 1
    BY <1>1
  <2> QED
    BY <2>1 DEF Stack, PushFirst
<1>3. Count("push_tymap", w) = 0
  BY <1>1, <1>2, CountNone DEF NoPush
<1>4. Count("pop_tymap", w) = Len(maps) + Count("push_tymap", w)
  BY DEF Stack
<1> QED
  BY <1>1, <1>2, <1>3, <1>4

LEMMA TymapActions == IInv /\ (PushTempTymap \/ CleanupTyMapStack) => IInv'
<1> SUFFICES ASSUME IInv, PushTempTymap \/ CleanupTyMapStack PROVE IInv'
  OBVIOUS
<1> DEFINE maps  == enc.typaram_repl
           maps2 == enc'.typaram_repl
<1>1. Stack(work, enc.held, maps) /\ IsSeq(maps) /\ Len(maps) \in Nat
  BY SeqFacts DEF IInv, Stack
<1>2. Fits(<<>>, Rank(work[1]))
  BY EmptySteps DEF Steps
<1>3. CASE PushTempTymap
  <2>1. Next1("push_tymap")
    BY <1>3 DEF PushTempTymap
  <2>2. work # <<>> /\ work[1].op = "push_tymap"
    BY <2>1, AtHead
  <2>3. Return /\ AccountSame /\ enc'.held = enc.held /\ maps2 = Append(maps, X)
    BY <1>3 DEF PushTempTymap, IInv, AccountSame, Accounts, Kept
  <2>4. IsSeq(maps2) /\ Len(maps2) = (Len(maps) + 1) - 0
    BY <1>1, <2>3, AppendFacts
  <2> HIDE DEF maps, maps2
  <2>5. Stack(<<>> \o Tail(work), enc.held, maps2)
    BY <1>1, <1>2, <2>2, <2>4, StepStack
  <2> QED
    BY <2>1, <2>3, <2>5, StackAction DEF Plain, maps2
<1>4. CASE CleanupTyMapStack
  <2>1. Next1("pop_tymap")
    BY <1>4 DEF CleanupTyMapStack
  <2>2. work # <<>> /\ work[1].op = "pop_tymap" /\ IsSeq(work) /\ Len(work) > 0 /\ Len(work) \in Nat
    BY <2>1, AtHead
  <2>3. Return /\ AccountSame /\ enc'.held = enc.held /\ maps2 = Front(maps)
    BY <1>4 DEF CleanupTyMapStack, IInv, AccountSame, Accounts, Kept
  <2>4. Len(maps) > 0
    <3>1. Rank(work[1]) # 0
      BY <2>2 DEF Rank, OpRank
    <3>2. Len(maps) = Count("pop_tymap", work)
      BY <1>1, <2>2, <3>1, NoMorePushes
    <3>3. Count("pop_tymap", work) = 1 + Count("pop_tymap", Tail(work))
      BY <2>2, TailStack
    <3>4. Count("pop_tymap", Tail(work)) \in Nat
      BY <2>2, TailFacts, CountIsNat
    <3> QED
      BY <3>2, <3>3, <3>4
  <2>5. IsSeq(maps2) /\ Len(maps2) = (Len(maps) + 0) - 1
    <3>1. 1 \in 1 .. Len(maps) + 1 /\ Len(maps) - 1 \in 0 .. Len(maps) /\ 1 <= (Len(maps) - 1) + 1
      BY <1>1, <2>4
    <3>2. IsSeq(SubSeq(maps, 1, Len(maps) - 1))
          /\ Len(SubSeq(maps, 1, Len(maps) - 1)) = (Len(maps) - 1) - 1 + 1
      BY <1>1, <3>1, SubSeqFacts
    <3> QED
      BY <1>1, <2>3, <3>2 DEF Front
  <2> HIDE DEF maps, maps2
  <2>6. Stack(<<>> \o Tail(work), enc.held, maps2)
    BY <1>1, <1>2, <2>2, <2>5, StepStack
  <2> QED
    BY <2>1, <2>3, <2>6, StackAction DEF Plain, maps2
<1> QED
  BY <1>3, <1>4

-------------------------------------------------------------------------------
(* Pure functions *)

\* What a step calls is among the steps to come.
LEMMA CalledIsPending ==
  ASSUME IInv, NEW op, Next1(op), NEW items, Run(items), IsSeq(items), NEW i \in 1 .. Len(items)
  PROVE  /\ \A f : IsPending(items[i], f) => Pending(f)'
         /\ \A k : items[i].op = "pure_function_insert" /\ items[i].x = k[1] => Explained(k)'
<1>1. work # <<>> /\ IsSeq(work)
  BY AtHead
<1>2. Replaced(work, items, work')
  BY <1>1, Shifted DEF Run
<1>3. i \in 1 .. Len(work') /\ work'[i] = items[i]
  BY <1>2 DEF Replaced
<1> QED
  BY <1>3 DEF Pending, IsPending, Explained

LEMMA LastItem ==
  ASSUME NEW s, IsSeq(s), NEW e
  PROVE  IsSeq(s \o <<e>>) /\ Len(s) + 1 \in 1 .. Len(s \o <<e>>) /\ (s \o <<e>>)[Len(s) + 1] = e
<1>1. IsSeq(<<e>>) /\ Len(<<e>>) = 1 /\ <<e>>[1] = e /\ Len(s) \in Nat
  BY SingletonFacts, SeqFacts
<1>2. /\ IsSeq(s \o <<e>>) /\ Len(s \o <<e>>) = Len(s) + 1
      /\ \A i \in 1 .. 1 : (s \o <<e>>)[Len(s) + i] = <<e>>[i]
  BY <1>1, ConcatFacts
<1> QED
  BY <1>1, <1>2

LEMMA FunctionCall ==
  ASSUME IInv, NEW op \in {"procedure", "pure_function_def", "pure_function_key", "pure_function_lookup"},
         Next1(op), NEW items, Run(items), Fits(items, 3),
         Kept \subseteq DOMAIN enc',
         \A a \in Kept \ {"failed_pure_functions"} : enc'[a] = enc[a],
         \A k \in enc'.failed_pure_functions : k \in enc.failed_pure_functions \/ Explained(k)',
         Accounted => \A f : IsPending(work[1], f) => Encoded(f) \/ Pending(f)'
  PROVE  IInv'
<1>1. work # <<>> /\ work[1].op = op /\ IsSeq(items)
  BY AtHead DEF Fits
<1>2. /\ enc'.held = enc.held /\ enc'.typaram_repl = enc.typaram_repl /\ enc'.queue = enc.queue
      /\ enc'.task = enc.task /\ enc'.reported = enc.reported /\ enc'.procedures = enc.procedures
      /\ enc'.pure_functions = enc.pure_functions
  BY DEF Kept
<1>3. Stack(work', enc'.held, enc'.typaram_repl)
  <2>1. Stack(work, enc.held, enc.typaram_repl) /\ Rank(work[1]) = 3
    BY <1>1 DEF IInv, Rank, OpRank
  <2>2. Stack(items \o Tail(work), enc.held, enc.typaram_repl)
    BY <1>1, <2>1, RunStack
  <2> QED
    BY <1>2, <2>2 DEF Run
<1>4. Gains
  BY <1>2 DEF Gains, Encoded, Queued, HasPure
<1>5. Accounted => \A f : IsPending(work[1], f) => Encoded(f)' \/ Pending(f)'
  BY <1>4 DEF Gains
<1>6. Accounted => \A f \in DOMAIN enc'.procedures : enc'.procedures[f] = "procedure_encoded"
  BY <1>2 DEF Accounted
<1>7. \A k \in enc'.failed_pure_functions :
        Explained(k)' \/ (k \in enc.failed_pure_functions /\ ~(op = "pure_function_insert" /\ X = k[1]))
  OBVIOUS
<1>8. \A i \in 1 .. Len(items) : items[i].op # "stub"
  BY DEF Fits, Placed
<1>9. op # "fail"
  OBVIOUS
<1>10. NothingFailed' => Accounted'
  BY <1>1, <1>2, <1>4, <1>5, <1>6, <1>7, <1>8, <1>9, AccountStep
<1>11. Continues /\ QueueOK'
  BY <1>2 DEF Continues, Run, IInv, QueueOK
<1> QED
  BY <1>3, <1>10, <1>11, NextState

LEMMA DefinitionAction == IInv /\ EncodePureFunctionDef => IInv'
<1> SUFFICES ASSUME IInv, EncodePureFunctionDef PROVE IInv'
  OBVIOUS
<1> DEFINE key   == Do("pure_function_key", X[1])
           items == WithTymap(X[2], <<key>>)
<1>1. Next1("pure_function_def")
  BY DEF EncodePureFunctionDef
<1>2. work[1].op = "pure_function_def" /\ X = work[1].x /\ Len(work) \in Nat /\ Len(work) > 0 /\ ItemOK(work[1])
  BY <1>1, AtHead
<1>3. enc.typaram_repl = <<>>
  <2>1. 1 \in 1 .. Len(work)
    BY <1>2
  <2> QED
    BY <1>2, <2>1 DEF IInv, Stack
<1>4. Run(items) /\ enc' = enc
  BY <1>3 DEF EncodePureFunctionDef
<1>5. ItemOK(key)
  BY <1>2 DEF ItemOK, Do
<1>6. Fits(items, 3)
  <2>1. Steps(<<key>>, 3)
    BY <1>5, FunctionStep DEF OfFunctions
  <2> HIDE DEF key
  <2> QED
    BY <2>1, TymapFits
<1>7. \A f : IsPending(work[1], f) => Pending(f)'
  <2> SUFFICES ASSUME NEW f, IsPending(work[1], f) PROVE Pending(f)'
    OBVIOUS
  <2>1. IsPending(key, f)
    BY <1>2 DEF IsPending, Do
  <2> HIDE DEF key
  <2> DEFINE push == <<Do("push_tymap", X[2])>>
             rest == <<Do("pop_tymap", 0)>>
  <2>2. IsSeq(push) /\ Len(push) = 1 /\ IsSeq(rest) /\ Len(rest) = 1
    BY SingletonFacts
  <2>3. items = (push \o <<key>>) \o rest
    BY DEF WithTymap
  <2> HIDE DEF push, rest
  <2>4. IsSeq(push \o <<key>>) /\ 2 \in 1 .. Len(push \o <<key>>) /\ (push \o <<key>>)[2] = key
    <3>1. /\ IsSeq(push \o <<key>>) /\ Len(push) + 1 \in 1 .. Len(push \o <<key>>)
          /\ (push \o <<key>>)[Len(push) + 1] = key
      BY <2>2, LastItem
    <3>2. Len(push) + 1 = 2
      BY <2>2
    <3> QED
      BY <3>1, <3>2
  <2> DEFINE front == push \o <<key>>
  <2> HIDE DEF front
  <2>5. IsSeq(front) /\ 2 \in 1 .. Len(front) /\ front[2] = key /\ Len(front) \in Nat
    BY <2>4, SeqFacts DEF front
  <2>6. Len(front \o rest) = Len(front) + 1 /\ (front \o rest)[2] = front[2]
    <3>1. /\ Len(front \o rest) = Len(front) + Len(rest)
          /\ \A i \in 1 .. Len(front) : (front \o rest)[i] = front[i]
      BY <2>2, <2>5, ConcatFacts
    <3> QED
      BY <2>2, <2>5, <3>1
  <2>7. 2 \in 1 .. Len(items) /\ items[2] = key
    BY <2>3, <2>5, <2>6 DEF front
  <2>8. IsSeq(items)
    BY <1>6 DEF Fits
  <2> HIDE DEF items
  <2> QED
    BY <1>1, <1>4, <2>1, <2>7, <2>8, CalledIsPending
<1>8. Kept \subseteq DOMAIN enc'
  BY <1>4 DEF IInv
<1> HIDE DEF items, key
<1> QED
  BY <1>1, <1>4, <1>6, <1>7, <1>8, FunctionCall

LEMMA KeyAction == IInv /\ SubstituteForKey => IInv'
<1> SUFFICES ASSUME IInv, SubstituteForKey PROVE IInv'
  OBVIOUS
<1> DEFINE lookup == Do("pure_function_lookup", X)
           items  == SubstitutionNames \o <<lookup>>
<1>1. Next1("pure_function_key") /\ Run(items) /\ enc' = enc
  BY DEF SubstituteForKey
<1>2. work[1].op = "pure_function_key" /\ X = work[1].x /\ ItemOK(work[1])
  BY <1>1, AtHead
<1>3. ItemOK(lookup)
  BY <1>2 DEF ItemOK, Do
<1>4. Steps(<<lookup>>, 3)
  BY <1>3, FunctionStep DEF OfFunctions
<1>5. \A f : IsPending(work[1], f) => IsPending(lookup, f)
  BY <1>2 DEF IsPending, Do
<1> HIDE DEF lookup
<1>6. Fits(items, 3) /\ IsSeq(items)
  <2>1. Steps(items, 3)
    BY <1>4, SubstitutionSteps, ConcatSteps
  <2> HIDE DEF items
  <2> QED
    BY <2>1 DEF Steps, Fits
<1>7. IsSeq(SubstitutionNames)
  BY SubstitutionSteps DEF Steps, Fits
<1>8. Len(SubstitutionNames) + 1 \in 1 .. Len(items) /\ items[Len(SubstitutionNames) + 1] = lookup
  BY <1>7, LastItem
<1> HIDE DEF items
<1>9. \A f : IsPending(work[1], f) => Pending(f)'
  BY <1>1, <1>5, <1>6, <1>8, CalledIsPending
<1>10. Kept \subseteq DOMAIN enc'
  BY <1>1 DEF IInv
<1> QED
  BY <1>1, <1>6, <1>9, <1>10, FunctionCall

\* What the encoding of a pure function calls.
LEMMA PureFunctionSteps ==
  ASSUME NEW f \in DOMAIN Fns
  PROVE  Steps(PureFunctionParts(f), 3)
<1> DEFINE name   == <<Do("item_name", f)>>
           both   == <<Do("item_name", f), Do("contract", f)>>
           args   == For("snapshot", Fns[f].args)
           snap   == <<Do("snapshot", Fns[f].ret)>>
           ret    == <<Do("return_type", f)>>
           ends   == <<Do("register", "verification"), Do("return_type", f)>>
           starts == <<Do("return_type", f), Do("register", "verification")>>
           mirror == <<Do("mirror", f)>>
           check  == IF Fns[f].ret.kind = "prim" \/ Fns[f].copy THEN <<>> ELSE <<Do("fail", "unsupported")>>
<1>1. /\ Steps(name, 3) /\ Steps(<<Do("contract", f)>>, 3) /\ Steps(snap, 3) /\ Steps(ret, 3)
      /\ Steps(<<Do("register", "verification")>>, 3) /\ Steps(mirror, 3)
      /\ Steps(<<Do("fail", "unsupported")>>, 3)
  BY PlainStep DEF OpRank, Structural, OfFunctions
<1>2. Steps(both, 3) /\ Steps(ends, 3) /\ Steps(starts, 3)
  BY <1>1, TwoSteps
<1>3. Steps(check, 3)
  BY <1>1, EmptySteps
<1>4. Steps(args, 3)
  BY LoopSteps DEF LoopOps, OpRank
<1>5. Steps(Fns[f].body, 3) /\ Steps(Fns[f].spec, 3) /\ Steps(Fns[f].post, 3)
  BY RequestSteps
<1>6. Precondition(f) = args \o Fns[f].spec /\ Postcondition(f) = args \o snap \o Fns[f].post \o ends
  BY DEF Precondition, Postcondition
<1>7. GivenBody(f) = both \o SubstitutionNames \o Precondition(f) \o Postcondition(f) \o args \o starts \o Patch(f)
  BY DEF GivenBody
<1>8. PureFunctionParts(f) \in {both \o args \o Fns[f].body \o GivenBody(f), GivenBody(f),
         name \o Fns[f].body \o args \o ret \o check \o GivenBody(f) \o mirror}
  BY DEF PureFunctionParts
<1> HIDE DEF name, both, args, snap, ret, ends, starts, mirror, check
<1>9. Steps(Precondition(f), 3) /\ Steps(Postcondition(f), 3)
  BY <1>1, <1>2, <1>4, <1>5, <1>6, ConcatSteps
<1>10. Steps(GivenBody(f), 3)
  <2>1. Steps(both \o SubstitutionNames \o Precondition(f) \o Postcondition(f), 3)
    BY <1>2, <1>9, SubstitutionSteps, ConcatSteps
  <2>2. Steps(both \o SubstitutionNames \o Precondition(f) \o Postcondition(f) \o args \o starts \o Patch(f), 3)
    BY <1>2, <1>4, <2>1, PatchSteps, ConcatSteps
  <2> QED
    BY <1>7, <2>2
<1>11. Steps(both \o args \o Fns[f].body \o GivenBody(f), 3)
  BY <1>2, <1>4, <1>5, <1>10, ConcatSteps
<1>12. Steps(name \o Fns[f].body \o args \o ret \o check \o GivenBody(f) \o mirror, 3)
  <2>1. Steps(name \o Fns[f].body \o args, 3)
    BY <1>1, <1>4, <1>5, ConcatSteps
  <2>2. Steps(name \o Fns[f].body \o args \o ret \o check, 3)
    BY <1>1, <1>3, <2>1, ConcatSteps
  <2> QED
    BY <1>1, <1>10, <2>2, ConcatSteps
<1> QED
  BY <1>8, <1>10, <1>11, <1>12

LEMMA LookupAction == IInv /\ LookUpPureFunction => IInv'
<1> SUFFICES ASSUME IInv, LookUpPureFunction PROVE IInv'
  OBVIOUS
<1>1. Next1("pure_function_lookup")
  BY DEF LookUpPureFunction
<1>2. /\ work # <<>> /\ work[1].op = "pure_function_lookup" /\ X = work[1].x /\ ItemOK(work[1])
      /\ IsSeq(work) /\ Len(work) \in Nat
  BY <1>1, AtHead
<1>3. Key(X)[1] = X /\ X \in DOMAIN Fns
  BY <1>2 DEF Key, ItemOK
<1>4. \A f : IsPending(work[1], f) => Fns[f].pure /\ X = f
  BY <1>2 DEF IsPending
<1>5. CASE Key(X) \in enc.pure_functions \cup enc.failed_pure_functions
  <2>1. Run(<<>>) /\ enc' = enc
    BY <1>5 DEF LookUpPureFunction, Return
  <2>2. ASSUME Accounted, NEW f, IsPending(work[1], f) PROVE Encoded(f) \/ Pending(f)'
    <3>1. Fns[f].pure /\ X = f
      BY <1>4, <2>2
    <3>2. CASE HasPure(f)
      BY <3>1, <3>2 DEF HasPure, Encoded
    <3>3. CASE ~HasPure(f)
      <4>1. Key(X) \in enc.failed_pure_functions
        BY <1>3, <1>5, <3>1, <3>3 DEF HasPure
      <4>2. PICK i \in 1 .. Len(work) : work[i].op = "pure_function_insert" /\ work[i].x = f
        BY <1>3, <2>2, <3>1, <3>3, <4>1 DEF Accounted
      <4>3. i \in 2 .. Len(work)
        BY <1>2, <4>2
      <4>4. Replaced(work, <<>>, work')
        BY <1>2, <2>1, EmptyFacts, Shifted DEF Run
      <4>5. PICK j \in 1 .. Len(work') : work'[j] = work[i]
        BY <4>3, <4>4 DEF Replaced
      <4> QED
        BY <3>1, <4>2, <4>5 DEF Pending, IsPending
    <3> QED
      BY <3>2, <3>3
  <2>3. Fits(<<>>, 3) /\ Kept \subseteq DOMAIN enc'
    BY <2>1, EmptySteps DEF Steps, IInv
  <2> QED
    BY <1>1, <2>1, <2>2, <2>3, FunctionCall
<1>6. CASE Key(X) \notin enc.pure_functions \cup enc.failed_pure_functions
  <2> DEFINE insert == Do("pure_function_insert", X)
             before == PureFunctionParts(X) \o Patch(X)
             items  == before \o <<insert>>
  <2>1. Run(items) /\ enc' = [enc EXCEPT !.failed_pure_functions = @ \cup {Key(X)}]
    BY <1>6 DEF LookUpPureFunction
  <2>2. Steps(before, 3)
    BY <1>3, PureFunctionSteps, PatchSteps, ConcatSteps
  <2>3. Steps(<<insert>>, 3)
    BY PlainStep DEF OpRank, Structural, OfFunctions
  <2>4. insert.op = "pure_function_insert" /\ insert.x = X
    BY DEF Do
  <2> HIDE DEF insert, before
  <2>5. Fits(items, 3) /\ IsSeq(items) /\ IsSeq(before)
    <3>1. Steps(items, 3)
      BY <2>2, <2>3, ConcatSteps
    <3> HIDE DEF items
    <3> QED
      BY <2>2, <3>1 DEF Steps, Fits
  <2>6. Len(before) + 1 \in 1 .. Len(items) /\ items[Len(before) + 1] = insert
    BY <2>5, LastItem
  <2> HIDE DEF items
  <2>7. \A f : IsPending(work[1], f) => Pending(f)'
    <3>1. \A f : IsPending(work[1], f) => IsPending(insert, f)
      BY <1>4, <2>4 DEF IsPending
    <3> QED
      BY <1>1, <2>1, <2>5, <2>6, <3>1, CalledIsPending
  <2>8. ASSUME NEW k, k[1] = X PROVE Explained(k)'
    BY <1>1, <2>1, <2>4, <2>5, <2>6, <2>8, CalledIsPending
  <2>9. \A k \in enc'.failed_pure_functions : k \in enc.failed_pure_functions \/ k = Key(X)
    BY <2>1 DEF IInv, Kept
  <2>10. \A k \in enc'.failed_pure_functions : k \in enc.failed_pure_functions \/ Explained(k)'
    BY <1>3, <2>8, <2>9
  <2>11. Kept \subseteq DOMAIN enc' /\ \A a \in Kept \ {"failed_pure_functions"} : enc'[a] = enc[a]
    BY <2>1 DEF IInv, Kept
  <2> QED
    BY <1>1, <2>1, <2>5, <2>7, <2>10, <2>11, FunctionCall
<1> QED
  BY <1>5, <1>6

\* A step that only replaces the first one, with what it calls.
LEMMA SameStack ==
  ASSUME IInv, NEW op, op \notin {"release", "push_tymap", "pop_tymap", "queue_done"}, Next1(op),
         NEW items, Run(items), Fits(items, Rank(work[1])),
         enc'.held = enc.held, enc'.typaram_repl = enc.typaram_repl
  PROVE  Stack(work', enc'.held, enc'.typaram_repl)
<1>1. work # <<>> /\ work[1].op = op /\ Stack(work, enc.held, enc.typaram_repl)
  BY AtHead DEF IInv
<1>2. Stack(items \o Tail(work), enc.held, enc.typaram_repl)
  BY <1>1, RunStack
<1> QED
  BY <1>2 DEF Run

LEMMA InsertAction == IInv /\ InsertPureFunction => IInv'
<1> SUFFICES ASSUME IInv, InsertPureFunction PROVE IInv'
  OBVIOUS
<1> DEFINE op == "pure_function_insert"
<1>1. Next1(op) /\ Run(<<>>)
  BY DEF InsertPureFunction, Return
<1>2. work[1].op = op /\ X = work[1].x
  BY <1>1, AtHead
<1>3. Key(X)[1] = X
  BY DEF Key
<1>4. /\ Kept \subseteq DOMAIN enc'
      /\ \A a \in Kept \ {"failed_pure_functions", "pure_functions"} : enc'[a] = enc[a]
      /\ enc'.pure_functions = enc.pure_functions \cup {Key(X)}
      /\ enc'.failed_pure_functions \subseteq enc.failed_pure_functions
  BY DEF InsertPureFunction, IInv, Kept
<1>5. /\ enc'.held = enc.held /\ enc'.typaram_repl = enc.typaram_repl /\ enc'.queue = enc.queue
      /\ enc'.task = enc.task /\ enc'.reported = enc.reported /\ enc'.procedures = enc.procedures
  BY <1>4 DEF Kept
<1>6. IsSeq(<<>>) /\ Len(<<>>) = 0 /\ Fits(<<>>, Rank(work[1]))
  BY EmptyFacts, EmptySteps DEF Steps
<1>7. Gains
  BY <1>4, <1>5 DEF Gains, Encoded, Queued, HasPure
<1>8. \A f : X = f => HasPure(f)'
  BY <1>3, <1>4 DEF HasPure
<1>9. \A f : IsPending(work[1], f) => Encoded(f)'
  <2> SUFFICES ASSUME NEW f, IsPending(work[1], f) PROVE Encoded(f)'
    OBVIOUS
  <2>1. Fns[f].pure /\ X = f
    BY <1>2 DEF IsPending
  <2> QED
    BY <1>8, <2>1 DEF Encoded, HasPure
<1>10. \A k \in enc'.failed_pure_functions : Explained(k)' \/ (k \in enc.failed_pure_functions /\ ~(X = k[1]))
  BY <1>4, <1>8 DEF Explained
<1>11. Accounted => \A f \in DOMAIN enc'.procedures : enc'.procedures[f] = "procedure_encoded"
  BY <1>5 DEF Accounted
<1>12. NothingFailed' => Accounted'
  BY <1>1, <1>5, <1>6, <1>7, <1>9, <1>10, <1>11, AccountStep
<1>13. Continues /\ QueueOK'
  BY <1>1, <1>4, <1>5 DEF Continues, Run, IInv, QueueOK
<1>14. Stack(work', enc'.held, enc'.typaram_repl)
  BY <1>1, <1>5, <1>6, SameStack
<1> QED
  BY <1>1, <1>12, <1>13, <1>14, NextState

LEMMA UseAction == IInv /\ EncodePureFunctionUse => IInv'
<1> SUFFICES ASSUME IInv, EncodePureFunctionUse PROVE IInv'
  OBVIOUS
<1> DEFINE op    == "pure_function_use"
           items == <<Do("item_name", X), Do("return_type", X)>>
           item  == <<X, CurrentMap>>
<1>1. Next1(op) /\ Run(items)
  BY DEF EncodePureFunctionUse
<1>2. work[1].op = op /\ X = work[1].x /\ ItemOK(work[1])
  BY <1>1, AtHead
<1>3. X \in DOMAIN Fns /\ Fns[X].pure /\ Rank(work[1]) = 3
  BY <1>2 DEF ItemOK, Rank, OpRank
<1>4. /\ Kept \subseteq DOMAIN enc'
      /\ \A a \in Kept \ {"queue"} : enc'[a] = enc[a]
      /\ enc'.queue = Append(enc.queue, item)
  BY DEF EncodePureFunctionUse, IInv, Kept, Use
<1>5. item[1] = X
  OBVIOUS
<1> HIDE DEF item
<1>6. /\ enc'.held = enc.held /\ enc'.typaram_repl = enc.typaram_repl /\ enc'.task = enc.task
      /\ enc'.reported = enc.reported /\ enc'.procedures = enc.procedures
      /\ enc'.pure_functions = enc.pure_functions
      /\ enc'.failed_pure_functions = enc.failed_pure_functions
  BY <1>4 DEF Kept
<1>7. /\ IsSeq(enc.queue) /\ Len(enc.queue) \in Nat /\ IsSeq(enc'.queue)
      /\ Len(enc'.queue) = Len(enc.queue) + 1
      /\ \A i \in 1 .. Len(enc.queue) : enc'.queue[i] = enc.queue[i]
      /\ enc'.queue[Len(enc.queue) + 1] = item
  BY <1>4, SeqFacts, AppendFacts DEF IInv, QueueOK
<1>8. \A i \in 1 .. Len(enc'.queue) : i \in 1 .. Len(enc.queue) \/ i = Len(enc.queue) + 1
  BY <1>7
<1>9. QueueOK'
  <2>1. ASSUME NEW i \in 1 .. Len(enc'.queue)
        PROVE  enc'.queue[i][1] \in DOMAIN Fns /\ (Fns[enc'.queue[i][1]].pure \/ enc'.queue[i][2] = <<>>)
    <3>1. CASE i \in 1 .. Len(enc.queue)
      BY <1>7, <3>1 DEF IInv, QueueOK
    <3>2. CASE i = Len(enc.queue) + 1
      BY <1>3, <1>5, <1>7, <3>2
    <3> QED
      BY <1>8, <3>1, <3>2
  <2> QED
    BY <1>7, <2>1 DEF QueueOK
<1>10. Steps(items, 3)
  <2>1. Steps(<<Do("item_name", X)>>, 3) /\ Steps(<<Do("return_type", X)>>, 3)
    BY PlainStep DEF OpRank, Structural, OfFunctions
  <2> QED
    BY <2>1, TwoSteps
<1> HIDE DEF items
<1>11. Fits(items, Rank(work[1])) /\ IsSeq(items) /\ \A i \in 1 .. Len(items) : items[i].op # "stub"
  BY <1>3, <1>10 DEF Steps, Fits, Placed
<1>12. Gains
  <2>1. \A f : Queued(f) => Queued(f)'
    <3> SUFFICES ASSUME NEW f, NEW i \in 1 .. Len(enc.queue), enc.queue[i][1] = f PROVE Queued(f)'
      BY DEF Queued
    <3>1. i \in 1 .. Len(enc'.queue) /\ enc'.queue[i][1] = f
      BY <1>7
    <3> QED
      BY <3>1 DEF Queued
  <2> QED
    BY <1>6, <2>1 DEF Gains, Encoded, HasPure
<1>13. \A f : ~IsPending(work[1], f)
  BY <1>2 DEF IsPending
<1>14. Accounted => \A f \in DOMAIN enc'.procedures : enc'.procedures[f] = "procedure_encoded"
  BY <1>6 DEF Accounted
<1>15. NothingFailed' => Accounted'
  BY <1>1, <1>6, <1>11, <1>12, <1>13, <1>14, AccountStep
<1>16. Continues
  BY <1>1, <1>4, <1>6 DEF Continues, Run
<1>17. Stack(work', enc'.held, enc'.typaram_repl)
  BY <1>1, <1>6, <1>11, SameStack
<1> QED
  BY <1>1, <1>9, <1>15, <1>16, <1>17, NextState

-------------------------------------------------------------------------------
(* Procedures *)

LEMMA ProcedureAction == IInv /\ EncodeProcedure => IInv'
<1> SUFFICES ASSUME IInv, EncodeProcedure PROVE IInv'
  OBVIOUS
<1>1. Next1("procedure")
  BY DEF EncodeProcedure
<1>2. work # <<>> /\ work[1].op = "procedure" /\ X = work[1].x /\ ItemOK(work[1])
  BY <1>1, AtHead
<1>3. X \in DOMAIN Fns
  BY <1>2 DEF ItemOK
<1>4. \A f : IsPending(work[1], f) => ~Fns[f].pure /\ X = f
  BY <1>2 DEF IsPending
<1>5. Steps(SpecFuncs(X), 3)
  <2>1. ItemOK(Do("spec_funcs", X))
    BY <1>3 DEF ItemOK, Do
  <2>2. Steps(<<Do("spec_funcs", X)>>, 3)
    BY <2>1, FunctionStep DEF OfFunctions
  <2> QED
    BY <2>2, EmptySteps DEF SpecFuncs
<1>6. CASE X \in DOMAIN enc.procedures
  <2>1. Run(SpecFuncs(X)) /\ enc' = enc
    BY <1>6 DEF EncodeProcedure
  <2>2. ASSUME Accounted, NEW f, IsPending(work[1], f) PROVE Encoded(f)
    BY <1>4, <1>6, <2>2 DEF Accounted, Encoded
  <2>3. Fits(SpecFuncs(X), 3) /\ Kept \subseteq DOMAIN enc'
    BY <1>5, <2>1 DEF Steps, IInv
  <2> QED
    BY <1>1, <2>1, <2>2, <2>3, FunctionCall
<1>7. CASE X \notin DOMAIN enc.procedures
  <2> DEFINE starts  == <<Do("item_name", X), Do("predicate_use", Fns[X].ret)>>
             args    == For("predicate_use", Fns[X].args)
             before  == starts \o Fns[X].body \o args \o Patch(X)
             done    == Do("procedure_encoded", X)
             encodes == before \o <<done>> \o SpecFuncs(X)
             fails   == <<Do("fail", "internal")>>
             items   == IF Fns[X].new_fails THEN fails ELSE encodes
  <2>1. Run(items) /\ enc' = Collect(enc, X)
    BY <1>7 DEF EncodeProcedure
  <2>2. Kept \subseteq DOMAIN enc' /\ \A a \in Kept : enc'[a] = enc[a]
    BY <2>1 DEF Collect, IInv, Kept
  <2>3. Steps(fails, 3) /\ Steps(<<done>>, 3) /\ Steps(<<Do("item_name", X)>>, 3)
        /\ Steps(<<Do("predicate_use", Fns[X].ret)>>, 3)
    BY PlainStep DEF OpRank, Structural, OfFunctions
  <2>4. Steps(starts, 3)
    BY <2>3, TwoSteps
  <2>5. Steps(args, 3)
    BY LoopSteps DEF LoopOps, OpRank
  <2>6. done.op = "procedure_encoded" /\ done.x = X
    BY DEF Do
  <2>7. fails[1].op = "fail" /\ Len(fails) = 1
    BY SingletonFacts DEF Do
  <2> HIDE DEF starts, args, done, fails
  <2>8. Steps(before, 3)
    BY <1>3, <2>4, <2>5, RequestSteps, PatchSteps, ConcatSteps
  <2> HIDE DEF before
  <2>9. Steps(encodes, 3)
    BY <1>5, <2>3, <2>8, ConcatSteps
  <2>10. Fits(items, 3) /\ IsSeq(items)
    <3>1. Steps(items, 3)
      BY <2>3, <2>9
    <3> HIDE DEF items
    <3> QED
      BY <3>1 DEF Steps, Fits
  <2>11. \A k \in enc'.failed_pure_functions : k \in enc.failed_pure_functions
    BY <2>2 DEF Kept
  <2>12. CASE ~Fns[X].new_fails
    <3>1. Len(before) + 1 \in 1 .. Len(items) /\ items[Len(before) + 1] = done
      <4>1. IsSeq(before) /\ IsSeq(before \o <<done>>) /\ IsSeq(SpecFuncs(X))
        BY <1>5, <2>3, <2>8, ConcatSteps DEF Steps, Fits
      <4>2. Len(before) + 1 \in 1 .. Len(before \o <<done>>) /\ (before \o <<done>>)[Len(before) + 1] = done
        BY <4>1, LastItem
      <4> DEFINE front == before \o <<done>>
      <4>3. /\ Len(front \o SpecFuncs(X)) = Len(front) + Len(SpecFuncs(X))
            /\ Len(front) \in Nat /\ Len(SpecFuncs(X)) \in Nat /\ Len(before) \in Nat
            /\ \A i \in 1 .. Len(front) : (front \o SpecFuncs(X))[i] = front[i]
        BY <4>1, ConcatFacts, SeqFacts
      <4>4. items = front \o SpecFuncs(X)
        BY <2>12
      <4> HIDE DEF front
      <4>5. Len(before) + 1 \in 1 .. Len(front) /\ front[Len(before) + 1] = done
        BY <4>2 DEF front
      <4> HIDE DEF items
      <4> QED
        BY <4>3, <4>4, <4>5
    <3> HIDE DEF items
    <3>2. \A f : IsPending(work[1], f) => IsPending(done, f)
      BY <1>4, <2>6 DEF IsPending
    <3>3. \A f : IsPending(work[1], f) => Pending(f)'
      BY <1>1, <2>1, <2>10, <3>1, <3>2, CalledIsPending
    <3> QED
      BY <1>1, <2>1, <2>2, <2>10, <2>11, <3>3, FunctionCall
  <2>13. CASE Fns[X].new_fails
    <3>1. Run(fails) /\ IsSeq(fails) /\ Fits(fails, Rank(work[1]))
      BY <1>2, <2>1, <2>3, <2>13 DEF Steps, Fits, Rank, OpRank
    <3>2. Replaced(work, fails, work')
      BY <1>1, <3>1, AtHead, Shifted DEF Run
    <3>3. 1 \in 1 .. Len(work') /\ work'[1].op = "fail"
      BY <2>7, <3>2 DEF Replaced
    <3>4. work' # <<>>
      BY <3>3, EmptyFacts
    <3>5. ~NothingFailed'
      BY <3>3, <3>4 DEF NothingFailed
    <3>6. enc'.held = enc.held /\ enc'.typaram_repl = enc.typaram_repl
      BY <2>2 DEF Kept
    <3>7. Stack(work', enc'.held, enc'.typaram_repl)
      BY <1>1, <3>1, <3>6, SameStack
    <3>8. Continues /\ QueueOK'
      BY <2>1, <2>2 DEF Continues, Run, IInv, QueueOK, Kept
    <3> QED
      BY <1>1, <3>5, <3>7, <3>8, NextState
  <2> QED
    BY <2>12, <2>13
<1> QED
  BY <1>6, <1>7

LEMMA InsertProcedureAction == IInv /\ InsertProcedure => IInv'
<1> SUFFICES ASSUME IInv, InsertProcedure PROVE IInv'
  OBVIOUS
<1>1. PICK op \in {"procedure_encoded", "stub"} : Next1(op)
  BY DEF InsertProcedure
<1>2. /\ work # <<>> /\ work[1].op = op /\ X = work[1].x /\ Head(work).op = op /\ Len(work) \in Nat
      /\ Len(work) > 0
  BY <1>1, AtHead DEF Next1
<1>3. Run(<<>>) /\ enc' = [enc EXCEPT !.procedures = Put(@, X, op)]
  BY <1>2 DEF InsertProcedure, Return
<1>4. /\ Kept \subseteq DOMAIN enc'
      /\ \A a \in Kept \ {"procedures"} : enc'[a] = enc[a]
      /\ enc'.procedures = Put(enc.procedures, X, op)
  BY <1>3 DEF IInv, Kept
<1>5. /\ enc'.held = enc.held /\ enc'.typaram_repl = enc.typaram_repl /\ enc'.queue = enc.queue
      /\ enc'.task = enc.task /\ enc'.reported = enc.reported /\ enc'.pure_functions = enc.pure_functions
      /\ enc'.failed_pure_functions = enc.failed_pure_functions
  BY <1>4 DEF Kept
<1>6. /\ DOMAIN enc'.procedures = DOMAIN enc.procedures \cup {X}
      /\ \A f \in DOMAIN enc'.procedures :
           enc'.procedures[f] = IF f = X THEN op ELSE enc.procedures[f]
  BY <1>4 DEF Put
<1>7. IsSeq(<<>>) /\ Len(<<>>) = 0 /\ Fits(<<>>, Rank(work[1]))
  BY EmptyFacts, EmptySteps DEF Steps
<1>8. NothingFailed' => Accounted'
  <2>1. CASE op = "stub"
    <3> SUFFICES ASSUME NothingFailed' PROVE FALSE
      OBVIOUS
    <3>1. phase = "encode" /\ NothingFailed
      BY <1>1, <1>2, <1>5, <2>1 DEF NothingFailed, Next1
    <3>2. 1 \in 1 .. Len(work)
      BY <1>2
    <3> QED
      BY <1>2, <2>1, <3>1, <3>2 DEF IInv, Accounted
  <2>2. CASE op = "procedure_encoded"
    <3>1. Gains
      BY <1>5, <1>6, <2>2 DEF Gains, Encoded, Queued, HasPure
    <3>2. \A f : IsPending(work[1], f) => ~Fns[f].pure /\ X = f
      BY <1>2, <2>2 DEF IsPending
    <3>3. \A f : IsPending(work[1], f) => Encoded(f)'
      BY <1>6, <2>2, <3>2 DEF Encoded
    <3>4. Accounted => \A f \in DOMAIN enc'.procedures : enc'.procedures[f] = "procedure_encoded"
      BY <1>6, <2>2 DEF Accounted
    <3> QED
      BY <1>1, <1>3, <1>5, <1>7, <2>2, <3>1, <3>3, <3>4, AccountStep
  <2> QED
    BY <2>1, <2>2
<1>9. Continues /\ QueueOK'
  BY <1>3, <1>4, <1>5 DEF Continues, Run, IInv, QueueOK
<1>10. Stack(work', enc'.held, enc'.typaram_repl)
  BY <1>1, <1>3, <1>5, <1>7, SameStack
<1> QED
  BY <1>1, <1>8, <1>9, <1>10, NextState

-------------------------------------------------------------------------------
(* Errors *)

\* After an error, the stub of the procedure is encoded before the rest.
LEMMA PrefixStack ==
  ASSUME NEW p, NEW s, NEW maps, Stack(s, {}, maps), s # <<>>, NoPush(s),
         \A i \in 1 .. Len(s) : s[i].op # "pure_function_def",
         IsSeq(p), \A i \in 1 .. Len(p) : p[i].op \in {"item_name", "predicate_use", "stub"}
  PROVE  Stack(p \o s, {}, maps)
<1> DEFINE u == p \o s
<1>1. IsSeq(s) /\ IsSeq(maps) /\ Len(s) \in Nat /\ Len(s) > 0 /\ Len(p) \in Nat
  BY SeqFacts, TailFacts DEF Stack
<1>2. /\ IsSeq(u) /\ Len(u) = Len(p) + Len(s)
      /\ \A i \in 1 .. Len(p) : u[i] = p[i]
      /\ \A i \in 1 .. Len(s) : u[Len(p) + i] = s[i]
  BY <1>1, ConcatFacts
<1>3. \A op : Count(op, u) = Count(op, p) + Count(op, s)
  BY <1>1, CountConcat
<1>4. Count("pop_tymap", p) = 0 /\ Count("push_tymap", p) = 0
  <2>1. DOMAIN p = 1 .. Len(p)
    BY SeqFacts
  <2> QED
    BY <2>1, CountNone
<1>5. \A k \in 1 .. Len(s) : s[k].op = "borrow_mut" => Released(u, s[k].x, Len(p) + (k + 1))
  <2> SUFFICES ASSUME NEW k \in 1 .. Len(s), s[k].op = "borrow_mut" PROVE Released(u, s[k].x, Len(p) + (k + 1))
    OBVIOUS
  <2>1. Released(s, s[k].x, k + 1) /\ k + 1 \in Nat /\ k + 1 >= 1
    BY DEF Stack, Brackets
  <2> QED
    BY <1>1, <2>1, ReleasedLater
<1> HIDE DEF u
<1>6. \A i \in 1 .. Len(u) : \/ i \in 1 .. Len(p) /\ u[i] = p[i] /\ i # Len(u)
                            \/ /\ i - Len(p) \in 1 .. Len(s) /\ u[i] = s[i - Len(p)]
                               /\ (i - Len(p) = Len(s) <=> i = Len(u)) /\ Len(p) + (i - Len(p)) = i
  <2> TAKE i \in 1 .. Len(u)
  <2>1. CASE i <= Len(p)
    BY <1>1, <1>2, <2>1
  <2>2. CASE ~(i <= Len(p))
    <3>1. i - Len(p) \in 1 .. Len(s) /\ i = Len(p) + (i - Len(p)) /\ (i - Len(p) = Len(s) <=> i = Len(u))
      <4>1. Len(p) \in Nat /\ Len(s) \in Nat /\ Len(u) = Len(p) + Len(s)
        BY <1>1, <1>2
      <4> QED
        BY <2>2, <4>1
    <3> QED
      BY <1>2, <3>1
  <2> QED
    BY <2>1, <2>2
<1>7. ASSUME NEW i \in 1 .. Len(u)
      PROVE  /\ ItemOK(u[i]) /\ u[i].op \notin {"push_tymap", "pure_function_def"}
             /\ (u[i].op = "queue_done" <=> i = Len(u))
             /\ (u[i].op = "borrow_mut" => Released(u, u[i].x, i + 1))
  <2>1. CASE i \in 1 .. Len(p) /\ u[i] = p[i] /\ i # Len(u)
    <3>1. u[i].op \in {"item_name", "predicate_use", "stub"}
      BY <2>1
    <3> QED
      BY <2>1, <3>1 DEF ItemOK
  <2>2. CASE /\ i - Len(p) \in 1 .. Len(s) /\ u[i] = s[i - Len(p)]
             /\ (i - Len(p) = Len(s) <=> i = Len(u)) /\ Len(p) + (i - Len(p)) = i
    <3> DEFINE k == i - Len(p)
    <3>1. k \in 1 .. Len(s) /\ u[i] = s[k] /\ (k = Len(s) <=> i = Len(u)) /\ Len(p) + (k + 1) = i + 1
      BY <1>1, <2>2
    <3> HIDE DEF k
    <3>2. /\ ItemOK(s[k]) /\ s[k].op \notin {"push_tymap", "pure_function_def"}
          /\ (s[k].op = "queue_done" <=> k = Len(s))
      BY <3>1 DEF Stack, NoPush
    <3> QED
      BY <1>5, <3>1, <3>2
  <2> QED
    BY <1>6, <2>1, <2>2
<1>8. Count("pop_tymap", u) = Len(maps) + Count("push_tymap", u)
  <2>1. Count("pop_tymap", s) = Len(maps) + Count("push_tymap", s)
    BY DEF Stack
  <2>2. Count("pop_tymap", s) \in Nat /\ Count("push_tymap", s) \in Nat
    BY <1>1, CountIsNat
  <2> QED
    BY <1>3, <1>4, <2>1, <2>2
<1> QED
  BY <1>1, <1>2, <1>7, <1>8 DEF Stack, Brackets, PushFirst, u

LEMMA EmptyStack ==
  ASSUME NEW held, NEW maps, Stack(<<>>, held, maps)
  PROVE  held = {} /\ maps = <<>>
<1>1. \A op : Count(op, <<>>) = 0
  BY CountNone
<1>2. IsSeq(maps) /\ Len(maps) \in Nat
  BY SeqFacts DEF Stack
<1>3. Len(maps) = 0
  BY <1>1, <1>2 DEF Stack
<1>4. PICK S : maps \in Seq(S)
  BY <1>2 DEF IsSeq
<1>5. maps = <<>>
  BY <1>3, <1>4
<1>6. ASSUME NEW c \in held PROVE FALSE
  <2>1. Released(<<>>, c, 1)
    BY DEF Stack
  <2> QED
    BY <2>1, EmptyFacts DEF Released
<1> QED
  BY <1>5, <1>6

\* What an Err does: everything up to the handler at h is left.
Unwound(h) ==
  /\ enc'.held = enc.held \ {work[i].x : i \in {j \in 1 .. h - 1 : work[j].op = "release"}}
  /\ enc'.typaram_repl = SubSeq(enc.typaram_repl, 1,
                                Len(enc.typaram_repl) - Count("pop_tymap", SubSeq(work, 1, h - 1)))
  /\ \E e : e.error = IsError(X) /\ enc'.reported = Append(enc.reported, e)
  /\ enc'.queue = enc.queue
  /\ Kept \subseteq DOMAIN enc'
  /\ work' = IF work[h].op = "queue_done" THEN SubSeq(work, h, Len(work))
             ELSE <<Do("item_name", work[h].x), Do("predicate_use", Fns[work[h].x].ret),
                    Do("stub", work[h].x)>> \o SubSeq(work, h + 1, Len(work))

ErrorHandled ==
  \E h \in 1 .. Len(work) : /\ work[h].op \in Handlers
                            /\ \A j \in 1 .. h - 1 : work[j].op \notin Handlers
                            /\ Unwound(h)

LEMMA UnwindFacts ==
  ASSUME IInv, Fail, work # <<>>
  PROVE  ErrorHandled
<1> DEFINE h == CHOOSE i \in DOMAIN work :
                  work[i].op \in Handlers /\ \A j \in 1 .. i - 1 : work[j].op \notin Handlers
           dropped == SubSeq(work, 1, h - 1)
           Places(op) == {i \in DOMAIN dropped : dropped[i].op = op}
           Dropped(op) == {dropped[i].x : i \in Places(op)}
           tokens == Cardinality(Places("pop_tymap"))
           left == [enc EXCEPT
                      !.held = @ \ Dropped("release"),
                      !.in_progress = @ \ {enc.type_predicate_names[t] : t \in Dropped("snapshot_insert")},
                      !.typaram_repl = SubSeq(@, 1, Len(@) - tokens)]
<1>1. Stack(work, enc.held, enc.typaram_repl) /\ IsSeq(work) /\ Len(work) \in Nat /\ DOMAIN work = 1 .. Len(work)
  BY SeqFacts DEF IInv, Stack
<1>2. \E i \in DOMAIN work : work[i].op \in Handlers /\ \A j \in 1 .. i - 1 : work[j].op \notin Handlers
  BY <1>1, FirstHandler
<1>3. h \in 1 .. Len(work) /\ work[h].op \in Handlers /\ \A j \in 1 .. h - 1 : work[j].op \notin Handlers
  BY <1>1, <1>2
<1>4. /\ enc' = Emit(left, X)
      /\ work' = IF work[h].op = "queue_done" THEN SubSeq(work, h, Len(work))
                 ELSE <<Do("item_name", work[h].x), Do("predicate_use", Fns[work[h].x].ret),
                        Do("stub", work[h].x)>> \o SubSeq(work, h + 1, Len(work))
  BY DEF Fail, Unwind
<1> HIDE DEF h
<1>5. IsSeq(dropped) /\ Len(dropped) = h - 1 /\ \A i \in 1 .. h - 1 : dropped[i] = work[i]
  <2>1. 1 \in 1 .. Len(work) + 1 /\ h - 1 \in 0 .. Len(work) /\ 1 <= (h - 1) + 1
    BY <1>1, <1>3
  <2>2. /\ IsSeq(dropped) /\ Len(dropped) = (h - 1) - 1 + 1
        /\ \A i \in 1 .. (h - 1) - 1 + 1 : dropped[i] = work[1 + i - 1]
    BY <1>1, <2>1, SubSeqFacts
  <2>3. (h - 1) - 1 + 1 = h - 1 /\ \A i \in 1 .. h - 1 : 1 + i - 1 = i
    BY <1>1, <1>3
  <2> QED
    BY <2>2, <2>3
<1>6. DOMAIN dropped = 1 .. h - 1
  BY <1>5, SeqFacts
<1>7. tokens = Count("pop_tymap", dropped)
  BY DEF Count, At
<1>8. Dropped("release") = {work[i].x : i \in {j \in 1 .. h - 1 : work[j].op = "release"}}
  <2> HIDE DEF dropped
  <2> QED
    BY <1>5, <1>6
<1> HIDE DEF tokens, Dropped
<1>9. /\ left.held = enc.held \ Dropped("release")
      /\ left.typaram_repl = SubSeq(enc.typaram_repl, 1, Len(enc.typaram_repl) - tokens)
      /\ left.reported = enc.reported /\ left.queue = enc.queue
      /\ Kept \subseteq DOMAIN left
  BY DEF IInv, Kept
<1> HIDE DEF left
<1>10. /\ enc'.held = left.held /\ enc'.typaram_repl = left.typaram_repl /\ enc'.queue = left.queue
       /\ Kept \subseteq DOMAIN enc'
  BY <1>4, <1>9 DEF Emit, Kept
<1>11. \E e : e.error = IsError(X) /\ enc'.reported = Append(enc.reported, e)
  <2> DEFINE e == [of |-> left.current_proc, kind |-> X, error |-> IsError(X)]
  <2>1. e.error = IsError(X) /\ enc'.reported = Append(left.reported, e)
    BY <1>4, <1>9 DEF Emit, Kept
  <2> QED
    BY <1>9, <2>1
<1>12. Unwound(h)
  BY <1>4, <1>7, <1>8, <1>9, <1>10, <1>11 DEF Unwound
<1> QED
  BY <1>3, <1>12 DEF ErrorHandled

\* The type maps whose tokens an Err drops are on the stack.
LEMMA TokensDropped ==
  ASSUME IInv, NEW h \in 1 .. Len(work), work # <<>>, work[1].op = "fail", work[h].op \in Handlers
  PROVE  /\ Count("pop_tymap", SubSeq(work, 1, h - 1)) \in Nat
         /\ Count("pop_tymap", SubSeq(work, 1, h - 1)) <= Len(enc.typaram_repl)
         /\ NoPush(work) /\ h # 1 /\ h \in 2 .. Len(work) /\ h - 1 \in 1 .. Len(work)
         /\ \A n \in 1 .. Len(work) : /\ IsSeq(SubSeq(work, 1, n)) /\ DOMAIN SubSeq(work, 1, n) = 1 .. n
                                      /\ \A i \in 1 .. n : SubSeq(work, 1, n)[i] = work[i]
<1> DEFINE maps == enc.typaram_repl
           c    == Count("pop_tymap", SubSeq(work, 1, h - 1))
<1>1. /\ Stack(work, enc.held, maps) /\ IsSeq(work) /\ Len(work) \in Nat /\ DOMAIN work = 1 .. Len(work)
      /\ IsSeq(maps) /\ Len(maps) \in Nat
  BY SeqFacts DEF IInv, Stack
<1>2. h # 1 /\ h \in 2 .. Len(work) /\ h - 1 \in 1 .. Len(work)
  <2>1. h # 1
    BY DEF Handlers
  <2> QED
    BY <1>1, <2>1
<1>3. NoPush(work) /\ Len(maps) = Count("pop_tymap", work)
  <2>1. Rank(work[1]) # 0
    BY DEF Rank, OpRank
  <2> QED
    BY <1>1, <2>1, NoMorePushes
<1>4. ASSUME NEW n \in 1 .. Len(work)
      PROVE  IsSeq(SubSeq(work, 1, n)) /\ DOMAIN SubSeq(work, 1, n) = 1 .. n
             /\ \A i \in 1 .. n : SubSeq(work, 1, n)[i] = work[i]
  <2>1. 1 \in 1 .. Len(work) + 1 /\ n \in 0 .. Len(work) /\ 1 <= n + 1
    BY <1>1
  <2>2. /\ IsSeq(SubSeq(work, 1, n)) /\ Len(SubSeq(work, 1, n)) = n - 1 + 1
        /\ \A i \in 1 .. n - 1 + 1 : SubSeq(work, 1, n)[i] = work[1 + i - 1]
    BY <1>1, <2>1, SubSeqFacts
  <2>3. n - 1 + 1 = n /\ \A i \in 1 .. n : 1 + i - 1 = i
    BY <1>1
  <2> QED
    BY <2>2, <2>3, SeqFacts
<1>5. c \in Nat /\ c <= Len(maps)
  <2>1. At("pop_tymap", SubSeq(work, 1, h - 1)) \subseteq At("pop_tymap", work)
    BY <1>1, <1>2, <1>4 DEF At
  <2>2. IsFiniteSet(At("pop_tymap", work))
    BY <1>1, CountIsNat
  <2>3. c \in Nat
    BY <1>2, <1>4, CountIsNat
  <2>4. c <= Count("pop_tymap", work)
    BY <2>1, <2>2, FS_Subset DEF Count
  <2> QED
    BY <1>3, <2>3, <2>4
<1> QED
  BY <1>2, <1>3, <1>4, <1>5

LEMMA UnwoundStack ==
  ASSUME IInv, NEW h \in 1 .. Len(work), Unwound(h), work # <<>>, work[1].op = "fail",
         work[h].op \in Handlers
  PROVE  Stack(work', enc'.held, enc'.typaram_repl)
<1> DEFINE maps  == enc.typaram_repl
           maps2 == enc'.typaram_repl
           c     == Count("pop_tymap", SubSeq(work, 1, h - 1))
           rest  == SubSeq(work, h + 1, Len(work))
<1>1. /\ Stack(work, enc.held, maps) /\ IsSeq(work) /\ Len(work) \in Nat /\ DOMAIN work = 1 .. Len(work)
      /\ IsSeq(maps) /\ Len(maps) \in Nat
  BY SeqFacts DEF IInv, Stack
<1>2. h # 1 /\ h \in 2 .. Len(work) /\ h - 1 \in 1 .. Len(work)
  BY TokensDropped
<1>3. NoPush(work)
  BY TokensDropped
<1>4. ASSUME NEW n \in 1 .. Len(work)
      PROVE  IsSeq(SubSeq(work, 1, n)) /\ DOMAIN SubSeq(work, 1, n) = 1 .. n
             /\ \A i \in 1 .. n : SubSeq(work, 1, n)[i] = work[i]
  BY TokensDropped
<1>5. c \in Nat /\ c <= Len(maps)
  BY TokensDropped
<1>6. IsSeq(maps2) /\ Len(maps2) = Len(maps) - c
  <2>1. maps2 = SubSeq(maps, 1, Len(maps) - c)
    BY DEF Unwound
  <2> HIDE DEF maps, maps2, c
  <2>2. 1 \in 1 .. Len(maps) + 1 /\ Len(maps) - c \in 0 .. Len(maps) /\ 1 <= (Len(maps) - c) + 1
    BY <1>1, <1>5
  <2>3. IsSeq(SubSeq(maps, 1, Len(maps) - c)) /\ Len(SubSeq(maps, 1, Len(maps) - c)) = (Len(maps) - c) - 1 + 1
    BY <1>1, <2>2, SubSeqFacts
  <2> QED
    BY <1>1, <1>5, <2>1, <2>3
<1>7. enc'.held = {}
  <2>1. enc'.held = enc.held \ {work[i].x : i \in {j \in 1 .. h - 1 : work[j].op = "release"}}
    BY DEF Unwound
  <2>2. ASSUME NEW d \in enc.held PROVE d \in {work[i].x : i \in {j \in 1 .. h - 1 : work[j].op = "release"}}
    <3>1. PICK i \in 1 .. h - 1 : work[i].op = "release" /\ work[i].x = d
      BY <1>1, NothingHeld
    <3> QED
      BY <3>1
  <2> QED
    BY <2>1, <2>2
<1>8. CASE work[h].op = "queue_done"
  <2>1. work' = SubSeq(work, h, Len(work))
    BY <1>8 DEF Unwound
  <2>2. Stack(SubSeq(work, (h - 1) + 1, Len(work)), {}, maps2)
    <3> HIDE DEF maps, maps2
    <3>1. Len(maps2) = Len(maps) - Count("pop_tymap", SubSeq(work, 1, h - 1))
      BY <1>6
    <3> DEFINE n == h - 1
    <3>2. n \in 1 .. Len(work) /\ Len(maps2) = Len(maps) - Count("pop_tymap", SubSeq(work, 1, n))
      BY <1>2, <3>1
    <3> HIDE DEF n
    <3>3. Stack(SubSeq(work, n + 1, Len(work)), {}, maps2)
      BY <1>1, <1>6, <3>2, SuffixStack
    <3> QED
      BY <3>3 DEF n
  <2>3. (h - 1) + 1 = h
    BY <1>2
  <2> QED
    BY <1>7, <2>1, <2>2, <2>3
<1>9. CASE work[h].op # "queue_done"
  <2> DEFINE p == <<Do("item_name", work[h].x), Do("predicate_use", Fns[work[h].x].ret), Do("stub", work[h].x)>>
  <2>1. work' = p \o rest
    BY <1>9 DEF Unwound
  <2>2. c = Count("pop_tymap", SubSeq(work, 1, h))
    <3>1. At("pop_tymap", SubSeq(work, 1, h - 1)) = At("pop_tymap", SubSeq(work, 1, h))
      <4>1. \A i \in 1 .. h : i \in 1 .. h - 1 \/ i = h
        BY <1>1
      <4>2. work[h].op # "pop_tymap" /\ \A i \in 1 .. h - 1 : i \in 1 .. h
        BY <1>1 DEF Handlers
      <4>3. DOMAIN SubSeq(work, 1, h - 1) = 1 .. h - 1 /\ DOMAIN SubSeq(work, 1, h) = 1 .. h
        BY <1>2, <1>4
      <4>4. \A i \in 1 .. h - 1 : SubSeq(work, 1, h - 1)[i] = work[i]
        BY <1>2, <1>4
      <4>5. \A i \in 1 .. h : SubSeq(work, 1, h)[i] = work[i]
        BY <1>2, <1>4
      <4> QED
        BY <4>1, <4>2, <4>3, <4>4, <4>5 DEF At
    <3> QED
      BY <3>1 DEF Count
  <2>3. Stack(rest, {}, maps2)
    <3>1. Len(maps2) = Len(maps) - Count("pop_tymap", SubSeq(work, 1, h))
      BY <1>6, <2>2
    <3> HIDE DEF maps, maps2
    <3> QED
      BY <1>1, <1>6, <3>1, SuffixStack
  <2>4. h # Len(work) /\ h < Len(work)
    <3>1. Len(work) \in 1 .. Len(work)
      BY <1>2, <1>1
    <3>2. work[Len(work)].op = "queue_done"
      BY <1>1, <3>1 DEF Stack
    <3>3. h # Len(work)
      BY <1>9, <3>2
    <3>4. Len(work) \in Nat
      BY <1>1
    <3> QED
      BY <3>3, <3>4
  <2>5. /\ Len(rest) = Len(work) - h /\ IsSeq(rest)
        /\ \A i \in 1 .. Len(rest) : rest[i] = work[h + i]
    <3>1. h + 1 \in 1 .. Len(work) + 1 /\ Len(work) \in 0 .. Len(work) /\ h + 1 <= Len(work) + 1
      <4>1. Len(work) \in Nat
        BY <1>1
      <4> QED
        BY <2>4, <4>1
    <3>2. /\ IsSeq(rest) /\ Len(rest) = Len(work) - (h + 1) + 1
          /\ \A i \in 1 .. Len(work) - (h + 1) + 1 : rest[i] = work[(h + 1) + i - 1]
      <4> DEFINE m == h + 1
                 n == Len(work)
      <4>1. m \in 1 .. Len(work) + 1 /\ n \in 0 .. Len(work) /\ m <= n + 1 /\ IsSeq(work)
        BY <1>1, <3>1
      <4> HIDE DEF m, n
      <4>2. /\ IsSeq(SubSeq(work, m, n)) /\ Len(SubSeq(work, m, n)) = n - m + 1
            /\ \A i \in 1 .. n - m + 1 : SubSeq(work, m, n)[i] = work[m + i - 1]
        BY <4>1, SubSeqFacts
      <4> QED
        BY <4>2 DEF m, n
    <3>3. Len(work) - (h + 1) + 1 = Len(work) - h /\ \A i \in 1 .. Len(work) - h : (h + 1) + i - 1 = h + i
      BY <1>1
    <3> QED
      BY <3>2, <3>3
  <2> HIDE DEF rest
  <2>6. rest # <<>> /\ NoPush(rest) /\ \A i \in 1 .. Len(rest) : rest[i].op # "pure_function_def"
    <3>1. rest # <<>>
      <4>1. Len(work) \in Nat /\ Len(rest) = Len(work) - h /\ h < Len(work)
        BY <1>1, <2>4, <2>5
      <4>2. Len(rest) # 0
        BY <4>1
      <4> QED
        BY <4>2, EmptyFacts
    <3>2. \A i \in 1 .. Len(rest) : h + i \in 1 .. Len(work) /\ h + i # 1
      BY <1>1, <2>5
    <3>3. \A i \in 1 .. Len(rest) : rest[i].op # "push_tymap"
      BY <1>3, <2>5, <3>2 DEF NoPush
    <3>4. \A i \in 1 .. Len(rest) : rest[i].op # "pure_function_def"
      <4>1. \A j \in 1 .. Len(work) : work[j].op = "pure_function_def" => j = 1
        BY <1>1 DEF Stack
      <4> QED
        BY <2>5, <3>2, <4>1
    <3> QED
      BY <3>1, <3>3, <3>4 DEF NoPush
  <2>7. IsSeq(p) /\ \A i \in 1 .. Len(p) : p[i].op \in {"item_name", "predicate_use", "stub"}
    <3> DEFINE p1 == Do("item_name", work[h].x)
               p2 == Do("predicate_use", Fns[work[h].x].ret)
               p3 == Do("stub", work[h].x)
    <3>1. p1.op = "item_name" /\ p2.op = "predicate_use" /\ p3.op = "stub"
      BY DEF Do
    <3>2. p = <<p1, p2, p3>>
      OBVIOUS
    <3> HIDE DEF p1, p2, p3, p
    <3>3. <<p1, p2, p3>> \in Seq({p1, p2, p3})
      OBVIOUS
    <3>4. IsSeq(p)
      BY <3>2, <3>3 DEF IsSeq
    <3>5. Len(p) = 3 /\ p[1] = p1 /\ p[2] = p2 /\ p[3] = p3
      BY <3>2
    <3>6. \A i \in 1 .. 3 : i = 1 \/ i = 2 \/ i = 3
      OBVIOUS
    <3> QED
      BY <3>1, <3>4, <3>5, <3>6
  <2> HIDE DEF p, maps2
  <2>8. Stack(p \o rest, {}, maps2)
    BY <2>3, <2>6, <2>7, PrefixStack
  <2> QED
    BY <1>7, <2>1, <2>8 DEF maps2
<1> QED
  BY <1>8, <1>9

LEMMA FailAction == IInv /\ Fail => IInv'
<1> SUFFICES ASSUME IInv, Fail PROVE IInv'
  OBVIOUS
<1>1. Next1("fail")
  BY DEF Fail
<1>2. phase = "encode" /\ work # <<>> /\ work[1].op = "fail"
  BY <1>1, AtHead
<1>3. PICK h \in 1 .. Len(work) : /\ work[h].op \in Handlers
                                  /\ \A j \in 1 .. h - 1 : work[j].op \notin Handlers
                                  /\ Unwound(h)
  BY <1>2, UnwindFacts DEF ErrorHandled
<1>4. Stack(work', enc'.held, enc'.typaram_repl)
  BY <1>2, <1>3, UnwoundStack
<1>5. phase' = phase /\ skip' = skip
  BY DEF Fail, Unwind
<1>6. PICK e : e.error = IsError(X) /\ enc'.reported = Append(enc.reported, e)
  BY <1>3 DEF Unwound
<1>7. /\ IsSeq(enc'.reported) /\ Len(enc'.reported) = Len(enc.reported) + 1 /\ Len(enc.reported) \in Nat
      /\ \A i \in 1 .. Len(enc.reported) : enc'.reported[i] = enc.reported[i]
      /\ enc'.reported[Len(enc.reported) + 1] = e
  BY <1>2, <1>6, SeqFacts, AppendFacts DEF IInv, ReportsOK
<1>8. ReportsOK'
  <2>1. ASSUME ~skip, NEW i \in 1 .. Len(enc'.reported) PROVE enc'.reported[i].error
    <3>1. CASE i \in 1 .. Len(enc.reported)
      BY <1>2, <1>7, <2>1, <3>1 DEF IInv, ReportsOK
    <3>2. CASE i = Len(enc.reported) + 1
      BY <1>6, <1>7, <2>1, <3>2 DEF IsError
    <3> QED
      BY <1>7, <3>1, <3>2
  <2> QED
    BY <1>5, <1>7, <2>1 DEF ReportsOK
<1>9. ~NothingFailed'
  BY <1>7, EmptyFacts DEF NothingFailed
<1>10. QueueOK' /\ Kept \subseteq DOMAIN enc'
  BY <1>3 DEF Unwound, IInv, QueueOK
<1> QED
  BY <1>2, <1>4, <1>5, <1>8, <1>9, <1>10 DEF IInv, NoPanic, SuccessMeansVerified

-------------------------------------------------------------------------------
(* The queue and the driver *)

LEMMA NoWork == Stack(<<>>, {}, <<>>)
<1>1. \A op : Count(op, <<>>) = 0
  BY CountNone
<1> QED
  BY <1>1, EmptyFacts DEF Stack, Brackets, PushFirst

LEMMA IsEmptySeq ==
  ASSUME NEW s, IsSeq(s), Len(s) = 0
  PROVE  s = <<>>
<1>1. PICK S : s \in Seq(S)
  BY DEF IsSeq
<1> QED
  BY <1>1

LEMMA EndAction == IInv /\ EndOfItem => IInv'
<1> SUFFICES ASSUME IInv, EndOfItem PROVE IInv'
  OBVIOUS
<1> DEFINE op == "queue_done"
<1>1. Next1(op) /\ Run(<<>>)
  BY DEF EndOfItem, Return
<1>2. /\ work # <<>> /\ work[1].op = op /\ IsSeq(work) /\ Len(work) \in Nat /\ Len(work) > 0
  BY <1>1, AtHead
<1>3. Kept \subseteq DOMAIN enc' /\ \A a \in Kept : enc'[a] = enc[a]
  BY DEF EndOfItem, IInv, Kept
<1>4. /\ enc'.held = enc.held /\ enc'.typaram_repl = enc.typaram_repl /\ enc'.queue = enc.queue
      /\ enc'.task = enc.task /\ enc'.reported = enc.reported /\ enc'.procedures = enc.procedures
      /\ enc'.pure_functions = enc.pure_functions
      /\ enc'.failed_pure_functions = enc.failed_pure_functions
  BY <1>3 DEF Kept
<1>5. Stack(work, enc.held, enc.typaram_repl)
  BY DEF IInv
<1>6. Len(work) = 1
  <2>1. 1 \in 1 .. Len(work)
    BY <1>2
  <2> QED
    BY <1>2, <1>5, <2>1 DEF Stack
<1>7. work' = <<>>
  <2>1. IsSeq(Tail(work)) /\ Len(Tail(work)) = 0
    BY <1>2, <1>6, TailFacts
  <2>3. IsSeq(<<>> \o Tail(work)) /\ Len(<<>> \o Tail(work)) = 0
    BY <2>1, EmptyFacts, ConcatFacts
  <2> QED
    BY <1>1, <2>3, IsEmptySeq DEF Run
<1>8. enc.held = {} /\ enc.typaram_repl = <<>>
  <2>1. ASSUME NEW c \in enc.held PROVE FALSE
    <3>1. PICK i \in 1 .. Len(work) : work[i].op = "release"
      BY <1>5 DEF Stack, Released
    <3>2. i = 1
      BY <1>6
    <3> QED
      BY <1>2, <3>1, <3>2
  <2>2. Len(enc.typaram_repl) = Count("pop_tymap", work)
    <3>1. Rank(work[1]) # 0
      BY <1>2 DEF Rank, OpRank
    <3> QED
      BY <1>2, <1>5, <3>1, NoMorePushes
  <2>3. Count("pop_tymap", work) = 0
    <3>1. DOMAIN work = 1 .. 1
      BY <1>2, <1>6, SeqFacts
    <3>2. \A i \in DOMAIN work : work[i].op # "pop_tymap"
      BY <1>2, <3>1
    <3> QED
      BY <3>2, CountNone
  <2>4. IsSeq(enc.typaram_repl)
    BY <1>5 DEF Stack
  <2> QED
    BY <2>1, <2>2, <2>3, <2>4, IsEmptySeq
<1>9. Stack(work', enc'.held, enc'.typaram_repl)
  BY <1>4, <1>7, <1>8, NoWork
<1>10. IsSeq(<<>>) /\ Len(<<>>) = 0
  BY EmptyFacts
<1>11. Gains
  BY <1>4 DEF Gains, Encoded, Queued, HasPure
<1>12. \A f : ~IsPending(work[1], f)
  BY <1>2 DEF IsPending
<1>13. Accounted => \A f \in DOMAIN enc'.procedures : enc'.procedures[f] = "procedure_encoded"
  BY <1>4 DEF Accounted
<1>14. NothingFailed' => Accounted'
  BY <1>1, <1>4, <1>10, <1>11, <1>12, <1>13, AccountStep
<1>15. Continues /\ QueueOK'
  BY <1>1, <1>3, <1>4 DEF Continues, Run, IInv, QueueOK
<1> QED
  BY <1>1, <1>9, <1>14, <1>15, NextState

\* The work for an item of the queue.
LEMMA StartStack ==
  ASSUME NEW p, NEW d, d.op = "queue_done",
         \/ p = <<>>
         \/ \E a : p = <<a>> /\ a.op \in {"pure_function_def", "procedure"} /\ ItemOK(a)
  PROVE  Stack(p \o <<d>>, {}, <<>>)
<1> DEFINE u == p \o <<d>>
<1>1. /\ IsSeq(p) /\ Len(p) \in {0, 1}
      /\ \A i \in 1 .. Len(p) : p[i].op \in {"pure_function_def", "procedure"} /\ ItemOK(p[i])
  <2>1. CASE p = <<>>
    BY <2>1, EmptyFacts
  <2>2. ASSUME NEW a, p = <<a>>, a.op \in {"pure_function_def", "procedure"}, ItemOK(a)
        PROVE  /\ IsSeq(p) /\ Len(p) \in {0, 1}
               /\ \A i \in 1 .. Len(p) : p[i].op \in {"pure_function_def", "procedure"} /\ ItemOK(p[i])
    <3>1. IsSeq(p) /\ Len(p) = 1 /\ p[1] = a
      BY <2>2, SingletonFacts
    <3>2. \A i \in 1 .. Len(p) : i = 1
      BY <3>1
    <3> QED
      BY <2>2, <3>1, <3>2
  <2> QED
    BY <2>1, <2>2
<1>2. IsSeq(<<d>>) /\ Len(<<d>>) = 1 /\ <<d>>[1] = d
  BY SingletonFacts
<1>3. /\ IsSeq(u) /\ Len(u) = Len(p) + 1
      /\ \A i \in 1 .. Len(p) : u[i] = p[i]
      /\ \A i \in 1 .. 1 : u[Len(p) + i] = <<d>>[i]
  BY <1>1, <1>2, ConcatFacts
<1> HIDE DEF u
<1>4. u[Len(u)] = d
  BY <1>1, <1>2, <1>3
<1>5. ASSUME NEW i \in 1 .. Len(u)
      PROVE  \/ i = Len(u) /\ u[i] = d
             \/ i # Len(u) /\ i = 1 /\ u[i].op \in {"pure_function_def", "procedure"} /\ ItemOK(u[i])
  <2>1. CASE i = Len(u)
    BY <1>4, <2>1
  <2>2. CASE i # Len(u)
    <3>1. i \in 1 .. Len(p) /\ i = 1
      BY <1>1, <1>3, <2>2
    <3> QED
      BY <1>1, <1>3, <2>2, <3>1
  <2> QED
    BY <2>1, <2>2
<1>6. ItemOK(d)
  BY DEF ItemOK
<1>7. \A i \in 1 .. Len(u) : /\ ItemOK(u[i]) /\ (u[i].op = "queue_done" <=> i = Len(u))
                            /\ u[i].op \in {"queue_done", "pure_function_def", "procedure"}
                            /\ (u[i].op = "pure_function_def" => i = 1)
  BY <1>5, <1>6
<1>8. Count("pop_tymap", u) = 0 /\ Count("push_tymap", u) = 0
  <2>1. DOMAIN u = 1 .. Len(u)
    BY <1>3, SeqFacts
  <2> QED
    BY <1>7, <2>1, CountNone
<1>9. Brackets(u) /\ PushFirst(u)
  BY <1>7 DEF Brackets, PushFirst
<1> QED
  BY <1>3, <1>7, <1>8, <1>9, EmptyFacts DEF Stack, u

LEMMA PopAction == IInv /\ PopQueue => IInv'
<1> SUFFICES ASSUME IInv, PopQueue PROVE IInv'
  OBVIOUS
<1> DEFINE q == enc.queue
           n == Len(q)
<1>1. phase = "encode" /\ work = <<>> /\ q # <<>>
  BY DEF PopQueue
<1>2. /\ IsSeq(q) /\ n \in Nat /\ n > 0
      /\ \A i \in 1 .. n : q[i][1] \in DOMAIN Fns /\ (Fns[q[i][1]].pure \/ q[i][2] = <<>>)
  <2>1. IsSeq(q) /\ \A i \in 1 .. Len(q) : q[i][1] \in DOMAIN Fns /\ (Fns[q[i][1]].pure \/ q[i][2] = <<>>)
    BY DEF IInv, QueueOK
  <2> QED
    BY <1>1, <2>1, SeqFacts, TailFacts
<1>3. PICK f, substs : f = q[n][1] /\ substs = q[n][2]
  OBVIOUS
<1>4. f \in DOMAIN Fns /\ (Fns[f].pure \/ substs = <<>>)
  <2>1. n \in 1 .. n
    BY <1>2
  <2> QED
    BY <1>2, <1>3, <2>1
<1> DEFINE p == IF Fns[f].pure THEN <<Do("pure_function_def", <<f, substs>>)>>
                ELSE IF Fns[f].trusted THEN <<>>
                ELSE <<Do("procedure", f)>>
           d == Do("queue_done", f)
<1>5. /\ enc' = [enc EXCEPT !.queue = Front(@), !.current_proc = f]
      /\ phase' = phase /\ skip' = skip /\ work' = p \o <<d>>
  <2>1. Last(enc.queue)[1] = f /\ Last(enc.queue)[2] = substs
    BY <1>3 DEF Last
  <2> QED
    BY <1>4, <2>1 DEF PopQueue
<1>6. /\ Kept \subseteq DOMAIN enc'
      /\ \A a \in Kept \ {"queue"} : enc'[a] = enc[a]
      /\ enc'.queue = Front(q)
  BY <1>5 DEF IInv, Kept
<1>7. /\ enc'.held = enc.held /\ enc'.typaram_repl = enc.typaram_repl
      /\ enc'.task = enc.task /\ enc'.reported = enc.reported /\ enc'.procedures = enc.procedures
      /\ enc'.pure_functions = enc.pure_functions
      /\ enc'.failed_pure_functions = enc.failed_pure_functions
  BY <1>6 DEF Kept
<1>8. enc.held = {} /\ enc.typaram_repl = <<>>
  BY <1>1, EmptyStack DEF IInv
<1>9. Stack(work', enc'.held, enc'.typaram_repl)
  <2> DEFINE a == Do("pure_function_def", <<f, substs>>)
             b == Do("procedure", f)
  <2>1. d.op = "queue_done" /\ a.op = "pure_function_def" /\ b.op = "procedure" /\ ItemOK(a) /\ ItemOK(b)
    BY <1>4 DEF Do, ItemOK
  <2>2. p \in {<<a>>, <<>>, <<b>>}
    OBVIOUS
  <2> HIDE DEF a, b, d, p
  <2>3. p = <<>> \/ \E it : p = <<it>> /\ it.op \in {"pure_function_def", "procedure"} /\ ItemOK(it)
    BY <2>1, <2>2
  <2>4. Stack(p \o <<d>>, {}, <<>>)
    BY <2>1, <2>3, StartStack
  <2> QED
    BY <1>5, <1>7, <1>8, <2>4
<1>10. /\ IsSeq(enc'.queue) /\ Len(enc'.queue) = n - 1
       /\ \A i \in 1 .. n - 1 : enc'.queue[i] = q[i]
  <2>1. enc'.queue = SubSeq(q, 1, n - 1)
    BY <1>6 DEF Front
  <2> HIDE DEF q, n
  <2>2. n = Len(q)
    BY DEF n
  <2>3. 1 \in 1 .. Len(q) + 1 /\ n - 1 \in 0 .. Len(q) /\ 1 <= (n - 1) + 1
    BY <1>2, <2>2
  <2>4. /\ IsSeq(SubSeq(q, 1, n - 1)) /\ Len(SubSeq(q, 1, n - 1)) = (n - 1) - 1 + 1
        /\ \A i \in 1 .. (n - 1) - 1 + 1 : SubSeq(q, 1, n - 1)[i] = q[1 + i - 1]
    BY <1>2, <2>3, SubSeqFacts
  <2>5. (n - 1) - 1 + 1 = n - 1 /\ \A i \in 1 .. n - 1 : 1 + i - 1 = i
    BY <1>2
  <2> QED
    BY <2>1, <2>4, <2>5
<1>11. QueueOK'
  <2>1. \A i \in 1 .. Len(enc'.queue) : i \in 1 .. n /\ enc'.queue[i] = q[i]
    BY <1>2, <1>10
  <2>2. \A i \in 1 .. Len(enc'.queue) :
          enc'.queue[i][1] \in DOMAIN Fns /\ (Fns[enc'.queue[i][1]].pure \/ enc'.queue[i][2] = <<>>)
    BY <1>2, <2>1
  <2> QED
    BY <1>10, <2>2 DEF QueueOK
<1>12. ReportsOK'
  BY <1>1, <1>5, <1>7 DEF IInv, ReportsOK
<1>13. ASSUME NothingFailed' PROVE Accounted'
  <2>1. Accounted /\ enc.reported = <<>>
    BY <1>1, <1>7, <1>13 DEF NothingFailed, IInv
  <2>2. Len(work) = 0
    BY <1>1, EmptyFacts
  <2>3. \A g : ~Pending(g)
    BY <2>2 DEF Pending
  <2>4. \A g : Queued(g) => Queued(g)' \/ g = f
    <3> SUFFICES ASSUME NEW g, NEW i \in 1 .. n, q[i][1] = g PROVE Queued(g)' \/ g = f
      BY DEF Queued
    <3>1. CASE i = n
      BY <1>3, <3>1
    <3>2. CASE i # n
      <4>1. i \in 1 .. n - 1
        BY <1>2, <3>2
      <4>2. i \in 1 .. Len(enc'.queue) /\ enc'.queue[i][1] = g
        BY <1>10, <4>1
      <4> QED
        BY <4>2 DEF Queued
    <3> QED
      BY <3>1, <3>2
  <2>5. Fns[f].trusted \/ Pending(f)'
    <3>1. CASE Fns[f].pure \/ ~Fns[f].trusted
      <4> DEFINE it == IF Fns[f].pure THEN Do("pure_function_def", <<f, substs>>) ELSE Do("procedure", f)
      <4>1. p = <<it>> /\ IsPending(it, f)
        BY <3>1 DEF IsPending, Do
      <4> HIDE DEF it, p, d
      <4>2. IsSeq(<<it>>) /\ Len(<<it>>) = 1 /\ <<it>>[1] = it /\ IsSeq(<<d>>) /\ Len(<<d>>) = 1
        BY SingletonFacts
      <4>3. /\ Len(<<it>> \o <<d>>) = Len(<<it>>) + Len(<<d>>)
            /\ \A i \in 1 .. Len(<<it>>) : (<<it>> \o <<d>>)[i] = <<it>>[i]
        BY <4>2, ConcatFacts
      <4>4. work' = <<it>> \o <<d>>
        BY <1>5, <4>1
      <4>5. 1 \in 1 .. Len(work') /\ work'[1] = it
        BY <4>2, <4>3, <4>4
      <4> QED
        BY <4>1, <4>5 DEF Pending, IsPending
    <3>2. CASE ~(Fns[f].pure \/ ~Fns[f].trusted)
      BY <3>2
    <3> QED
      BY <3>1, <3>2
  <2>6. \A g : (Encoded(g) => Encoded(g)') /\ (HasPure(g) => HasPure(g)')
    BY <1>7 DEF Encoded, HasPure
  <2>7. ASSUME NEW g \in enc'.task PROVE Fns[g].trusted \/ Encoded(g)' \/ Queued(g)' \/ Pending(g)'
    <3>1. Fns[g].trusted \/ Encoded(g) \/ Queued(g)
      BY <1>7, <2>1, <2>3 DEF Accounted
    <3> QED
      BY <2>4, <2>5, <2>6, <3>1
  <2>8. \A i \in 1 .. Len(work') : work'[i].op # "stub"
    <3>1. ASSUME NEW i \in 1 .. Len(work') PROVE work'[i].op # "stub"
      <4> DEFINE a == Do("pure_function_def", <<f, substs>>)
                 b == Do("procedure", f)
      <4>1. d.op # "stub" /\ a.op # "stub" /\ b.op # "stub"
        BY DEF Do
      <4>2. p \in {<<a>>, <<>>, <<b>>}
        OBVIOUS
      <4> HIDE DEF a, b, d, p
      <4>3. IsSeq(p) /\ \A j \in 1 .. Len(p) : p[j].op # "stub"
        <5>1. \A e : IsSeq(<<e>>) /\ Len(<<e>>) = 1 /\ <<e>>[1] = e
          BY SingletonFacts
        <5>2. \A j \in 1 .. 1 : j = 1
          OBVIOUS
        <5> QED
          BY <4>1, <4>2, <5>1, <5>2, EmptyFacts
      <4>4. IsSeq(<<d>>) /\ Len(<<d>>) = 1 /\ <<d>>[1] = d /\ Len(p) \in Nat
        BY <4>3, SingletonFacts, SeqFacts
      <4>5. /\ Len(p \o <<d>>) = Len(p) + Len(<<d>>)
            /\ \A j \in 1 .. Len(p) : (p \o <<d>>)[j] = p[j]
            /\ \A j \in 1 .. Len(<<d>>) : (p \o <<d>>)[Len(p) + j] = <<d>>[j]
        BY <4>3, <4>4, ConcatFacts
      <4>6. i \in 1 .. Len(p) \/ i = Len(p) + 1
        BY <1>5, <4>4, <4>5
      <4> QED
        BY <1>5, <4>1, <4>3, <4>4, <4>5, <4>6
    <3> QED
      BY <3>1
  <2>9. \A k \in enc'.failed_pure_functions : HasPure(k[1])'
    BY <1>7, <2>1, <2>2, <2>6 DEF Accounted
  <2>10. \A g \in DOMAIN enc'.procedures : enc'.procedures[g] = "procedure_encoded"
    BY <1>7, <2>1 DEF Accounted
  <2> QED
    BY <2>7, <2>8, <2>9, <2>10 DEF Accounted
<1> QED
  BY <1>1, <1>5, <1>6, <1>9, <1>11, <1>12, <1>13 DEF IInv, NoPanic, SuccessMeansVerified

LEMMA DriverActions == IInv /\ (Initialize \/ QueueIsEmpty \/ UNCHANGED vars) => IInv'
<1> SUFFICES ASSUME IInv, Initialize \/ QueueIsEmpty \/ UNCHANGED vars PROVE IInv'
  OBVIOUS
<1>1. Kept \subseteq DOMAIN enc' /\ (\A a \in Kept : enc'[a] = enc[a]) /\ work' = work /\ skip' = skip
  BY DEF Initialize, QueueIsEmpty, vars, IInv, Kept
<1>2. /\ enc'.held = enc.held /\ enc'.typaram_repl = enc.typaram_repl /\ enc'.queue = enc.queue
      /\ enc'.task = enc.task /\ enc'.reported = enc.reported /\ enc'.procedures = enc.procedures
      /\ enc'.pure_functions = enc.pure_functions
      /\ enc'.failed_pure_functions = enc.failed_pure_functions
  BY <1>1 DEF Kept
<1>3. /\ Stack(work', enc'.held, enc'.typaram_repl) /\ QueueOK' /\ (ReportsOK => ReportsOK')
  BY <1>1, <1>2 DEF IInv, QueueOK, ReportsOK
<1>4. (NothingFailed' => NothingFailed) /\ (Accounted => Accounted')
  BY <1>1, <1>2 DEF NothingFailed, Accounted, Encoded, Queued, Pending, IsPending, HasPure
<1>5. SuccessMeansVerified /\ phase' = phase => SuccessMeansVerified'
  BY <1>1, <1>2 DEF SuccessMeansVerified, Encoded
<1>6. CASE Initialize
  BY <1>1, <1>3, <1>4, <1>6 DEF IInv, Initialize, NoPanic, SuccessMeansVerified
<1>7. CASE QueueIsEmpty
  BY <1>1, <1>2, <1>3, <1>4, <1>7 DEF IInv, QueueIsEmpty, NoPanic, SuccessMeansVerified
<1>8. CASE UNCHANGED vars
  BY <1>1, <1>2, <1>3, <1>4, <1>5, <1>8 DEF IInv, vars, NoPanic
<1> QED
  BY <1>6, <1>7, <1>8

LEMMA VerifyAction == IInv /\ Verify => IInv'
<1> SUFFICES ASSUME IInv, Verify PROVE IInv'
  OBVIOUS
<1>1. phase = "verify" /\ work' = work /\ skip' = skip /\ phase' \in {"Success", "Failure"}
  BY DEF Verify, Verdict
<1>2. \E r : enc' = [enc EXCEPT !.reported = r]
  BY DEF Verify, Verdict, Emit
<1>3. Kept \subseteq DOMAIN enc' /\ \A a \in Kept \ {"reported"} : enc'[a] = enc[a]
  BY <1>2 DEF IInv, Kept
<1>4. /\ enc'.held = enc.held /\ enc'.typaram_repl = enc.typaram_repl /\ enc'.queue = enc.queue
      /\ enc'.task = enc.task /\ enc'.procedures = enc.procedures
      /\ enc'.pure_functions = enc.pure_functions
  BY <1>3 DEF Kept
<1>5. work = <<>> /\ enc.queue = <<>>
  BY <1>1 DEF IInv
<1>6. phase' = "Success" => EncodingErrors = {}
  BY DEF Verify, Verdict
<1>7. ASSUME phase' = "Success", ~skip, NEW f \in enc.task PROVE Fns[f].trusted \/ Encoded(f)
  <2>1. IsSeq(enc.reported) /\ \A i \in 1 .. Len(enc.reported) : enc.reported[i].error
    BY <1>1, <1>7 DEF IInv, ReportsOK
  <2>2. DOMAIN enc.reported = 1 .. Len(enc.reported) /\ Len(enc.reported) \in Nat
    BY <2>1, SeqFacts
  <2>3. \A i \in 1 .. Len(enc.reported) : FALSE
    BY <1>6, <1>7, <2>1, <2>2 DEF EncodingErrors
  <2>4. Len(enc.reported) = 0
    BY <2>2, <2>3
  <2>5. enc.reported = <<>>
    BY <2>1, <2>4, IsEmptySeq
  <2>6. Accounted
    BY <1>1, <1>5, <2>5 DEF IInv, NothingFailed
  <2>7. ~Queued(f) /\ ~Pending(f)
    BY <1>5, EmptyFacts DEF Queued, Pending
  <2> QED
    BY <2>6, <2>7 DEF Accounted
<1>8. SuccessMeansVerified'
  BY <1>1, <1>4, <1>7 DEF SuccessMeansVerified, Encoded
<1>9. Stack(work', enc'.held, enc'.typaram_repl) /\ QueueOK'
  BY <1>1, <1>4 DEF IInv, QueueOK
<1> QED
  BY <1>1, <1>3, <1>5, <1>8, <1>9 DEF IInv, NoPanic

LEMMA InitiallyInvariant == Init => IInv
<1> SUFFICES ASSUME Init PROVE IInv
  OBVIOUS
<1>1. PICK task \in Tasks : enc = NewEncoder(task)
  BY DEF Init
<1>2. task \in Seq(DOMAIN Fns)
  BY FnsAssumption
<1> DEFINE n == Len(task)
<1>3. n \in Nat /\ DOMAIN task = 1 .. n
  BY <1>2
<1>4. /\ enc.held = {} /\ enc.typaram_repl = <<>> /\ enc.reported = <<>> /\ enc.task = ToSet(task)
      /\ enc.procedures = NoTable /\ enc.failed_pure_functions = {}
      /\ enc.queue = [i \in DOMAIN Reverse(task) |-> <<Reverse(task)[i], <<>>>>]
      /\ Kept \subseteq DOMAIN enc
  BY <1>1 DEF NewEncoder, Kept
<1>5. enc.queue = [i \in 1 .. n |-> <<task[(n - i) + 1], <<>>>>]
  <2>1. DOMAIN Reverse(task) = 1 .. n /\ \A i \in 1 .. n : Reverse(task)[i] = task[(n - i) + 1]
    BY DEF Reverse
  <2> QED
    BY <1>4, <2>1
<1>6. \A i \in 1 .. n : task[(n - i) + 1] \in DOMAIN Fns
  BY <1>2, <1>3
<1>7. IsSeq(enc.queue) /\ Len(enc.queue) = n
  <2> DEFINE S == {enc.queue[i] : i \in 1 .. n}
  <2>1. DOMAIN enc.queue = 1 .. n /\ \A i \in 1 .. n : enc.queue[i] \in S
    BY <1>5
  <2>2. enc.queue = [i \in 1 .. n |-> enc.queue[i]]
    BY <1>5
  <2> HIDE DEF S
  <2>3. enc.queue \in Seq(S)
    BY <1>3, <2>1, <2>2
  <2> QED
    BY <1>3, <2>1, <2>3 DEF IsSeq
<1>8. QueueOK
  <2>1. \A i \in 1 .. n : enc.queue[i][1] \in DOMAIN Fns /\ enc.queue[i][2] = <<>>
    BY <1>5, <1>6
  <2> QED
    BY <1>7, <2>1 DEF QueueOK
<1>9. work = <<>> /\ phase = "queue"
  BY DEF Init
<1>10. ReportsOK
  BY <1>4, EmptyFacts DEF ReportsOK
<1>11. Accounted
  <2>1. ASSUME NEW f \in enc.task PROVE Queued(f)
    <3>1. PICK i \in 1 .. n : task[i] = f
      BY <1>3, <1>4 DEF ToSet
    <3>2. (n - i) + 1 \in 1 .. n /\ (n - ((n - i) + 1)) + 1 = i
      BY <1>3
    <3>3. enc.queue[(n - i) + 1][1] = f
      BY <1>5, <3>1, <3>2
    <3> QED
      BY <1>7, <3>2, <3>3 DEF Queued
  <2>2. DOMAIN enc.procedures = {}
    BY <1>4 DEF NoTable
  <2> QED
    BY <1>4, <1>9, <2>1, <2>2, EmptyFacts DEF Accounted
<1> QED
  BY <1>4, <1>8, <1>9, <1>10, <1>11, NoWork DEF IInv, NoPanic, SuccessMeansVerified

LEMMA EncoderActions == IInv /\ EncoderStep => IInv'
<1> SUFFICES ASSUME IInv, EncoderStep PROVE IInv'
  OBVIOUS
<1>1. CASE BorrowMut \/ Release \/ PushTempTymap \/ CleanupTyMapStack \/ Iterate \/ Fail
  BY <1>1, BorrowActions, TymapActions, LoopAction, FailAction
<1>2. CASE EncodePureFunctionDef \/ SubstituteForKey \/ LookUpPureFunction \/ InsertPureFunction
           \/ EncodePureFunctionUse \/ EncodeProcedure \/ InsertProcedure
  BY <1>2, DefinitionAction, KeyAction, LookupAction, InsertAction, UseAction, ProcedureAction,
     InsertProcedureAction
<1>3. CASE EncodeItemName \/ Register \/ GetProcedureContractForDef \/ EncodeMirrors
           \/ InsertPureExpression \/ InsertSpecFuncs
  BY <1>3, RecordActions
<1>4. CASE EncodeType \/ EncodeFunctionReturnType \/ CallPure \/ CallImpure \/ GetProcedureContractForCall
  BY <1>4, CallActions
<1>5. CASE EncodePureExpression \/ LookUpPureExpression \/ EncodeSpecFuncs
  BY <1>5, SpecificationActions
<1> QED
  BY <1>1, <1>2, <1>3, <1>4, <1>5 DEF EncoderStep

(***************************************************************************)
(* Every step of the encoder, an error that unwinds its stack included,    *)
(* keeps the discipline of the call stack: tables (RefCells) are borrowed  *)
(* in the order of CellRank and released in the opposite one, a type map   *)
(* is pushed once and popped when its scope ends, and no function of the   *)
(* task gets lost between the queue, the stack and the tables.             *)
(***************************************************************************)
THEOREM StackDiscipline == Spec => []IInv
<1>1. IInv /\ [Next]_vars => IInv'
  <2> SUFFICES ASSUME IInv, [Next]_vars PROVE IInv'
    OBVIOUS
  <2>1. CASE Initialize \/ QueueIsEmpty \/ UNCHANGED vars
    BY <2>1, DriverActions
  <2>2. CASE PopQueue \/ EndOfItem \/ Verify
    BY <2>2, PopAction, EndAction, VerifyAction
  <2>3. CASE TypeTableStep \/ EncoderStep
    BY <2>3, TypeTableActions, EncoderActions
  <2> QED
    BY <2>1, <2>2, <2>3 DEF Next
<1> QED
  BY <1>1, InitiallyInvariant, PTL DEF Spec

(***************************************************************************)
(* For every crate and task, the encoder never borrows a table twice,      *)
(* never starts a pure function with a type map on the stack, never queues *)
(* a procedure with substitutions (the RefCells and assertions of          *)
(* encoder.rs): the tables are borrowed in the order of CellRank.          *)
(***************************************************************************)
THEOREM EncoderNeverPanics == Spec => []NoPanic
<1>1. IInv => NoPanic
  BY DEF IInv
<1> QED
  BY <1>1, StackDiscipline, PTL

(***************************************************************************)
(* Success is only reported when every function of the task is trusted or  *)
(* in the program (Verifier::verify): as long as no error is emitted, each *)
(* one is encoded, in the queue or among the steps to come.                *)
(***************************************************************************)
THEOREM SuccessIsEarned == Spec => []SuccessMeansVerified
<1>1. IInv => SuccessMeansVerified
  BY DEF IInv
<1> QED
  BY <1>1, StackDiscipline, PTL
=============================================================================
