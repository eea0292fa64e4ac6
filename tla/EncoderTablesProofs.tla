-------------------------- MODULE EncoderTablesProofs --------------------------
(***************************************************************************)
(* What the encoder writes in its tables, for every crate and every task:  *)
(* names stay what they are once they are given, a pure function that      *)
(* fails is reported once for each of its instantiations, and the program  *)
(* defines everything that it refers to.                                   *)
(***************************************************************************)
EXTENDS EncoderProofs

-------------------------------------------------------------------------------
(* What a step is about *)

TypeOps ==
  {"encode_type", "predicate_use", "predicate_name", "predicate_def", "predicate_insert",
   "invariant_func_app", "invariant_use", "invariant_name", "invariant_field", "invariant_insert",
   "tag_func_app", "tag_def", "discriminant", "discriminant_func", "discriminant_insert",
   "array_types_insert", "snapshot", "encode_snapshot", "snapshot_lookup", "snapshot_field",
   "snapshot_insert", "snap_app"}

TypeLoops == LoopOps \ {"item_name"}

ArrayTypes == {t \in CrateTypes : t.kind \in {"array", "slice"}}

FunctionOps ==
  {"return_type", "contract", "mirror", "pure_function_use", "assertion", "assertion_lookup",
   "assertion_insert", "contract_for_call", "spec_funcs", "spec_funcs_insert"}

Cells == {"snapshot_encoder", "array_types_encoder", "type_discriminant_funcs"}

ArrayFunctions == {"array_lookup_pure", "slice_len", "slice_lookup_pure"}

ErrorKinds == {"verification", "incorrect", "internal", "unsupported"}

\* The requests of the crate.
RequestItems ==
  UNION {ToSet(Fns[f].body) \cup ToSet(Fns[f].spec) \cup ToSet(Fns[f].post) : f \in DOMAIN Fns}

Loops ==
  [op : {"for"}, x : (TypeLoops \X (Seq(CrateTypes) \ {<<>>})) \cup ({"item_name"} \X (Seq(FullNames) \ {<<>>}))]

OtherItems ==
  [op : {"array_types"}, x : ArrayTypes]
  \cup [op : {"builtin_function"}, x : ArrayFunctions \X CrateTypes]
  \cup [op : {"cast_insert"}, x : CrateTypes \X CrateTypes]
  \cup [op : {"borrow_mut", "release"}, x : Cells]
  \cup [op : {"register", "fail"}, x : ErrorKinds]
  \cup [op : {"item_name"}, x : FullNames]
  \cup [op : {"push_tymap"}, x : CrateMaps]
  \cup [op : {"pop_tymap"}, x : {0}]

\* The steps that most functions of the encoder make.
PlainItems ==
  RequestItems \cup [op : TypeOps, x : CrateTypes] \cup [op : FunctionOps, x : DOMAIN Fns]
  \cup Loops \cup OtherItems

\* The stages of encode_pure_function_def after its type map is pushed.
Stages == {"pure_function_key", "pure_function_lookup", "pure_function_insert"}

SpecialOps == Stages \cup {"queue_done", "stub", "procedure", "procedure_encoded"}

SpecialItems ==
  [op : SpecialOps, x : DOMAIN Fns] \cup [op : {"pure_function_def"}, x : (DOMAIN Fns) \X CrateMaps]

Items == PlainItems \cup SpecialItems

\* The fields of the encoder that the invariant is about.
Columns ==
  Kept \cup {"current_proc", "type_predicate_names", "predicate_types", "type_invariant_names"}

Typing ==
  /\ Columns \subseteq DOMAIN enc
  /\ work \in Seq(Items)
  /\ \A k \in 0 .. Len(enc.typaram_repl) : CurrentTymap(SubSeq(enc.typaram_repl, 1, k)) \in CrateMaps
  /\ \A i \in 1 .. Len(enc.queue) : enc.queue[i][2] \in CrateMaps

-------------------------------------------------------------------------------
(* Names *)

\* What the name of ty is made of.
Parts(ty) ==
  {<<"type", NameParts(ty)[i]>> : i \in DOMAIN NameParts(ty)}
  \cup (IF ty.kind = "adt" THEN {<<"symbol", ty.name>>} ELSE {})

Known(w) ==
  IF w[1] = "type" THEN w[2] \in DOMAIN enc.type_predicate_names ELSE w[2] \in DOMAIN name_to_symbol

AllKnown(S) == \A w \in S : Known(w)

\* What is known after a call of op for x.
GivenBy(op, x) ==
  CASE op \in {"predicate_use", "predicate_name"} -> {<<"type", x>>}
    [] op = "item_name" -> {<<"symbol", x>>}
    [] op = "encode_type" -> Parts(x)
    [] OTHER -> {}

Gives(it) ==
  IF it.op = "for" THEN UNION {GivenBy(it.x[1], it.x[2][i]) : i \in DOMAIN it.x[2]}
  ELSE GivenBy(it.op, it.x)

\* What has to be known when it is the turn of a step.
Needs(it) ==
  CASE it.op \in {"predicate_name", "invariant_name"} -> Parts(it.x)
    [] it.op = "predicate_insert" ->
         {<<"type", it.x>>} \cup {<<"type", FieldTys(it.x)[i]>> : i \in DOMAIN FieldTys(it.x)}
    [] it.op \in {"snapshot_lookup", "snapshot_insert", "snap_app", "discriminant_func",
                  "discriminant_insert"} -> {<<"type", it.x>>}
    [] OTHER -> {}

\* S is known, or the steps before step j of s make it known.
Supplied(s, j, S) == \A w \in S : Known(w) \/ \E i \in 1 .. j - 1 : w \in Gives(s[i])

Ready(s) == \A j \in 1 .. Len(s) : Supplied(s, j, Needs(s[j]))

\* A recorded name is the name of the type, whose parts are known.
Names ==
  /\ \A t \in DOMAIN enc.type_predicate_names :
       /\ t \in CrateTypes /\ AllKnown(Parts(t)) /\ Name(t) = NameOf(t)
       /\ Name(t) \in DOMAIN enc.predicate_types
  /\ \A n \in DOMAIN enc.predicate_types : enc.predicate_types[n] \in CrateTypes
  /\ \A t \in DOMAIN enc.type_invariant_names :
       t \in CrateTypes /\ AllKnown(Parts(t)) /\ enc.type_invariant_names[t] = NameOf(t)

\* What the substitution key of a type map is made of.
KeyParts(tymap) == UNION {Parts(t) \cup Parts(tymap[t]) : t \in DOMAIN tymap}

-------------------------------------------------------------------------------
(* An item of the queue *)

Bottom == CurrentTymap(SubSeq(enc.typaram_repl, 1, 1))

Inserting == \E i \in 1 .. Len(work) : work[i].op = "pure_function_insert"

\* Step i of the work, with what precedes and follows it.
StepOK(i) ==
  LET op == work[i].op
      f  == enc.current_proc
  IN /\ op \in Stages => /\ Fns[f].pure /\ work[i].x = f
                         /\ i = Len(work) - 2 /\ work[i + 1].op = "pop_tymap"
     /\ op = "pure_function_def" => Fns[f].pure /\ work[i].x[1] = f /\ Len(work) = 2
     /\ op = "pure_function_key" => \A j \in 1 .. i - 1 : work[j].op = "push_tymap"
     /\ op = "pure_function_lookup" => /\ \A j \in 1 .. i - 1 : Rank(work[j]) = 0
                                       /\ Supplied(work, i, KeyParts(CurrentMap))
     /\ op = "pure_function_insert" => /\ Len(enc.typaram_repl) >= 1
                                       /\ AllKnown(KeyParts(Bottom))
                                       /\ <<f, SubstitutionKey(Bottom)>> \in enc.failed_pure_functions
     /\ op = "procedure" => ~Fns[f].pure /\ Len(work) = 2
     /\ op = "procedure_encoded" => /\ ~Fns[f].pure
                                    /\ \A j \in i + 1 .. Len(work) : work[j].op \in {"spec_funcs", "queue_done"}

ItemShape ==
  /\ work = <<>> => enc.current_proc = "none"
  /\ work # <<>> => enc.current_proc \in DOMAIN Fns
  /\ \A i \in 1 .. Len(work) : StepOK(i)
  /\ work # <<>> /\ Fns[enc.current_proc].pure =>
       \/ \E i \in 1 .. Len(work) : work[i].op \in Stages \cup {"pure_function_def"}
       \/ \A i \in 1 .. Len(work) : work[i].op \in {"pop_tymap", "queue_done"}

ReportsOf(f) == {i \in DOMAIN enc.reported : enc.reported[i].of = f}
FailuresOf(f) == {k \in enc.failed_pure_functions : k[1] = f}

FailureAccount ==
  /\ IsFiniteSet(enc.failed_pure_functions)
  /\ \A f \in DOMAIN Fns : Fns[f].pure =>
       Cardinality(FailuresOf(f)) =
         (IF Inserting /\ f = enc.current_proc THEN Cardinality(ReportsOf(f)) + 1 ELSE Cardinality(ReportsOf(f)))

TInv == Typing /\ Names /\ Ready(work) /\ ItemShape /\ FailureAccount

-------------------------------------------------------------------------------
(* References *)

SetTables ==
  {"type_invariants", "type_discriminant_funcs", "type_cast_functions", "builtin_functions",
   "builtin_methods"}

Tables == {"type_predicates", "encoded", "type_tags", "functions"} \cup SetTables

\* The fields of the encoder that the references are about.
ReferenceColumns ==
  {"uses", "type_predicate_names", "type_predicates", "type_invariant_names", "in_progress", "encoded",
   "type_tags", "pure_functions", "queue"} \cup SetTables

\* The names in the bodies of the predicates.
InBodies == UNION {enc.type_predicates[k] : k \in DOMAIN enc.type_predicates}

\* What the definitions so far refer to, or will be looked up by.
References ==
  enc.uses
  \cup {<<"type_predicates", Name(t)>> : t \in DOMAIN enc.type_predicate_names}
  \cup {<<"type_predicates", n>> : n \in InBodies}
  \cup {<<"encoded", n>> : n \in enc.in_progress}
  \cup {<<"type_invariants", enc.type_invariant_names[t]>> : t \in DOMAIN enc.type_invariant_names}

\* The definition is there, or its function is queued.
Present(u) ==
  CASE u[1] = "type_predicates" -> u[2] \in DOMAIN enc.type_predicates
    [] u[1] = "encoded"   -> u[2] \in DOMAIN enc.encoded
    [] u[1] = "type_tags" -> u[2] \in DOMAIN enc.type_tags
    [] u[1] = "functions" -> HasPure(u[2]) \/ Queued(u[2])
    [] OTHER -> u[2] \in enc[u[1]]

\* The step is about a type whose name is n.
Named(it, n) == it.x \in DOMAIN enc.type_predicate_names /\ Name(it.x) = n

\* The step makes the definition, at the latest when what it calls has returned.
Delivers(it, u) ==
  CASE u[1] = "type_predicates" -> it.op \in {"predicate_def", "predicate_insert"} /\ Named(it, u[2])
    [] u[1] = "encoded" -> it.op = "snapshot_insert" /\ Named(it, u[2])
    [] u[1] = "type_tags" -> it.op = "tag_def" /\ it.x = u[2]
    [] u[1] = "functions" -> IsPending(it, u[2])
    [] u[1] = "type_invariants" ->
         /\ it.op = "invariant_insert"
         /\ it.x \in DOMAIN enc.type_invariant_names /\ enc.type_invariant_names[it.x] = u[2]
    [] u[1] = "type_discriminant_funcs" -> it.op = "discriminant_insert" /\ Named(it, u[2])
    [] u[1] = "type_cast_functions" -> it.op = "cast_insert" /\ it.x = u[2]
    [] OTHER -> FALSE

Covered(u) == Present(u) \/ \E i \in 1 .. Len(work) : Delivers(work[i], u)

\* A name is recorded before the predicate is defined.
Followed(s) ==
  \A i \in 1 .. Len(s) : s[i].op = "predicate_name" =>
    \E j \in i + 1 .. Len(s) : s[j].op = "predicate_def" /\ s[j].x = s[i].x

\* A function is used by its name, the other definitions by a key of their table.
UseOK(u) ==
  /\ u[1] \in Tables
  /\ u[1] = "functions" => u[2] \in DOMAIN Fns /\ Fns[u[2]].pure

Encoding == phase \in {"queue", "encode", "verify"} /\ enc.reported = <<>>

RInv ==
  /\ ReferenceColumns \subseteq DOMAIN enc
  /\ \A u \in enc.uses : UseOK(u)
  /\ phase = "queue" => enc.uses = {}
  /\ Encoding => Followed(work) /\ \A u \in References : Covered(u)

-------------------------------------------------------------------------------
(* Lists of steps *)

LEMMA RequestFacts ==
  ASSUME NEW it \in RequestItems PROVE IsRequest(it)
<1>1. PICK f \in DOMAIN Fns : it \in ToSet(Fns[f].body) \cup ToSet(Fns[f].spec) \cup ToSet(Fns[f].post)
  BY DEF RequestItems
<1> QED
  BY <1>1, FnsAssumption

\* What a step is about, by its operation.
LEMMA ItemFacts ==
  ASSUME NEW it \in Items
  PROVE  /\ it.op \in TypeOps => it.x \in CrateTypes
         /\ it.op = "array_types" => it.x \in ArrayTypes
         /\ it.op \in FunctionOps \cup SpecialOps => it.x \in DOMAIN Fns
         /\ it.op = "pure_function_def" => it.x \in (DOMAIN Fns) \X CrateMaps
         /\ it.op = "builtin_function" => it.x \in ArrayFunctions \X CrateTypes
         /\ it.op \in {"cast", "cast_insert"} => it.x \in CrateTypes \X CrateTypes
         /\ it.op = "item_name" => it.x \in FullNames
         /\ it.op = "push_tymap" => it.x \in CrateMaps
         /\ it.op \in {"call_pure", "call_impure"} =>
              it.x[1] \in DOMAIN Fns /\ TyMap(Fns[it.x[1]].generics, it.x[2]) \in CrateMaps
         /\ it.op = "for" => it \in Loops
<1>1. CASE it \in RequestItems
  BY <1>1, RequestFacts
     DEF IsRequest, Requests, TypeRequests, TypeOps, FunctionOps, SpecialOps, Stages, ArrayTypes
<1>2. CASE it \in [op : TypeOps, x : CrateTypes]
  BY <1>2 DEF TypeOps, FunctionOps, SpecialOps, Stages
<1>3. CASE it \in [op : FunctionOps, x : DOMAIN Fns]
  BY <1>3 DEF TypeOps, FunctionOps, SpecialOps, Stages
<1>4. CASE it \in Loops
  BY <1>4 DEF Loops, TypeOps, FunctionOps, SpecialOps, Stages
<1>5. CASE it \in OtherItems
  BY <1>5 DEF OtherItems, TypeOps, FunctionOps, SpecialOps, Stages
<1>6. CASE it \in SpecialItems
  BY <1>6 DEF SpecialItems, TypeOps, FunctionOps, SpecialOps, Stages
<1> QED
  BY <1>1, <1>2, <1>3, <1>4, <1>5, <1>6 DEF Items, PlainItems

\* None of the plain steps is special.
LEMMA PlainIsNotSpecial ==
  ASSUME NEW it \in PlainItems
  PROVE  it \in Items /\ it.op \notin SpecialOps \cup {"pure_function_def"}
<1> SUFFICES it.op \notin SpecialOps \cup {"pure_function_def"}
  BY DEF Items
<1>1. CASE it \in RequestItems
  BY <1>1, RequestFacts DEF IsRequest, Requests, TypeRequests, SpecialOps, Stages
<1>2. CASE it \in [op : TypeOps, x : CrateTypes] \cup [op : FunctionOps, x : DOMAIN Fns] \cup Loops
  BY <1>2 DEF Loops, TypeOps, FunctionOps, SpecialOps, Stages
<1>3. CASE it \in OtherItems
  BY <1>3 DEF OtherItems, SpecialOps, Stages
<1>4. it \in RequestItems \/ it \in OtherItems
      \/ it \in [op : TypeOps, x : CrateTypes] \cup [op : FunctionOps, x : DOMAIN Fns] \cup Loops
  BY DEF PlainItems
<1> QED
  BY <1>1, <1>2, <1>3, <1>4

NeedyOps ==
  {"predicate_name", "invariant_name", "predicate_insert", "snapshot_lookup", "snapshot_insert", "snap_app",
   "discriminant_func", "discriminant_insert"}

\* Plain steps that need no names.
FreeItems == {it \in PlainItems : it.op \notin NeedyOps}

LEMMA NoNeeds ==
  ASSUME NEW it, it.op \notin NeedyOps PROVE Needs(it) = {}
BY DEF Needs, NeedyOps

LEMMA PlainDo ==
  /\ \A op \in TypeOps, x \in CrateTypes : Do(op, x) \in PlainItems
  /\ \A op \in FunctionOps, x \in DOMAIN Fns : Do(op, x) \in PlainItems
  /\ \A x \in FullNames : Do("item_name", x) \in PlainItems
  /\ \A x \in ArrayTypes : Do("array_types", x) \in PlainItems
  /\ \A x \in ArrayFunctions \X CrateTypes : Do("builtin_function", x) \in PlainItems
  /\ \A x \in CrateTypes \X CrateTypes : Do("cast_insert", x) \in PlainItems
  /\ \A x \in Cells : Do("borrow_mut", x) \in PlainItems /\ Do("release", x) \in PlainItems
  /\ \A x \in ErrorKinds : Do("register", x) \in PlainItems /\ Do("fail", x) \in PlainItems
  /\ \A x \in CrateMaps : Do("push_tymap", x) \in PlainItems
  /\ Do("pop_tymap", 0) \in PlainItems
<1>1. /\ \A op \in TypeOps, x \in CrateTypes : Do(op, x) \in [op : TypeOps, x : CrateTypes]
      /\ \A op \in FunctionOps, x \in DOMAIN Fns : Do(op, x) \in [op : FunctionOps, x : DOMAIN Fns]
  BY DEF Do
<1>2. /\ \A x \in FullNames : Do("item_name", x) \in OtherItems
      /\ \A x \in ArrayTypes : Do("array_types", x) \in OtherItems
      /\ \A x \in ArrayFunctions \X CrateTypes : Do("builtin_function", x) \in OtherItems
      /\ \A x \in CrateTypes \X CrateTypes : Do("cast_insert", x) \in OtherItems
      /\ \A x \in Cells : Do("borrow_mut", x) \in OtherItems /\ Do("release", x) \in OtherItems
      /\ \A x \in ErrorKinds : Do("register", x) \in OtherItems /\ Do("fail", x) \in OtherItems
      /\ \A x \in CrateMaps : Do("push_tymap", x) \in OtherItems
      /\ Do("pop_tymap", 0) \in OtherItems
  BY DEF Do, OtherItems
<1> QED
  BY <1>1, <1>2 DEF PlainItems

LEMMA FreeDo ==
  /\ \A op \in TypeOps \ NeedyOps, x \in CrateTypes : Do(op, x) \in FreeItems
  /\ \A op \in FunctionOps, x \in DOMAIN Fns : Do(op, x) \in FreeItems
  /\ \A x \in FullNames : Do("item_name", x) \in FreeItems
  /\ \A x \in ArrayTypes : Do("array_types", x) \in FreeItems
  /\ \A x \in ArrayFunctions \X CrateTypes : Do("builtin_function", x) \in FreeItems
  /\ \A x \in CrateTypes \X CrateTypes : Do("cast_insert", x) \in FreeItems
  /\ \A x \in Cells : Do("borrow_mut", x) \in FreeItems /\ Do("release", x) \in FreeItems
  /\ \A x \in ErrorKinds : Do("register", x) \in FreeItems /\ Do("fail", x) \in FreeItems
  /\ \A x \in CrateMaps : Do("push_tymap", x) \in FreeItems
  /\ Do("pop_tymap", 0) \in FreeItems
<1>1. \A op, x : Do(op, x).op = op
  BY DEF Do
<1>2. \A op, x : Do(op, x) \in PlainItems /\ op \notin NeedyOps => Do(op, x) \in FreeItems
  BY <1>1 DEF FreeItems
<1>3. FunctionOps \cap NeedyOps = {}
  BY DEF FunctionOps, NeedyOps
<1>4. {"item_name", "array_types", "builtin_function", "cast_insert", "borrow_mut", "release", "register",
       "fail", "push_tymap", "pop_tymap"} \cap NeedyOps = {}
  BY DEF NeedyOps
<1> QED
  BY <1>2, <1>3, <1>4, PlainDo

LEMMA FreeLoops ==
  /\ \A op \in TypeLoops, xs \in Seq(CrateTypes) : For(op, xs) \in Seq(FreeItems)
  /\ \A xs \in Seq(FullNames) : For("item_name", xs) \in Seq(FreeItems)
<1>1. ASSUME NEW op, NEW xs, xs # <<>>, <<op, xs>> \in (TypeLoops \X (Seq(CrateTypes) \ {<<>>}))
                                                 \cup ({"item_name"} \X (Seq(FullNames) \ {<<>>}))
      PROVE  For(op, xs) \in Seq(FreeItems)
  <2>1. Do("for", <<op, xs>>) \in Loops /\ Do("for", <<op, xs>>).op = "for"
    BY <1>1 DEF Do, Loops
  <2>2. Do("for", <<op, xs>>) \in FreeItems
    BY <2>1 DEF FreeItems, PlainItems, NeedyOps
  <2> HIDE DEF Do
  <2> QED
    BY <1>1, <2>2 DEF For
<1>2. \A op : For(op, <<>>) \in Seq(FreeItems)
  BY DEF For
<1>3. ASSUME NEW op \in TypeLoops, NEW xs \in Seq(CrateTypes) PROVE For(op, xs) \in Seq(FreeItems)
  <2>1. CASE xs = <<>>
    BY <1>2, <2>1
  <2>2. CASE xs # <<>>
    BY <1>1, <2>2
  <2> QED
    BY <2>1, <2>2
<1>4. ASSUME NEW xs \in Seq(FullNames) PROVE For("item_name", xs) \in Seq(FreeItems)
  <2>1. CASE xs = <<>>
    BY <1>2, <2>1
  <2>2. CASE xs # <<>>
    BY <1>1, <2>2
  <2> QED
    BY <2>1, <2>2
<1> QED
  BY <1>3, <1>4

LEMMA FreeRequests ==
  ASSUME NEW f \in DOMAIN Fns
  PROVE  Fns[f].body \in Seq(FreeItems) /\ Fns[f].spec \in Seq(FreeItems) /\ Fns[f].post \in Seq(FreeItems)
<1>1. ASSUME NEW rs \in {Fns[f].body, Fns[f].spec, Fns[f].post} PROVE rs \in Seq(FreeItems)
  <2>1. rs \in Seq(ToSet(rs)) /\ ToSet(rs) \subseteq RequestItems
    BY FnsAssumption DEF RequestItems
  <2>2. RequestItems \subseteq FreeItems
    BY RequestFacts DEF IsRequest, Requests, TypeRequests, FreeItems, PlainItems, NeedyOps
  <2> QED
    BY <2>1, <2>2
<1> QED
  BY <1>1

LEMMA FreeBorrowed ==
  ASSUME NEW c \in Cells, NEW s \in Seq(FreeItems) PROVE Borrowed(c, s) \in Seq(FreeItems)
<1>1. <<Do("borrow_mut", c)>> \in Seq(FreeItems) /\ <<Do("release", c)>> \in Seq(FreeItems)
  BY FreeDo
<1> QED
  BY <1>1 DEF Borrowed

LEMMA FreeTymap ==
  ASSUME NEW m \in CrateMaps, NEW s \in Seq(FreeItems) PROVE WithTymap(m, s) \in Seq(FreeItems)
<1>1. <<Do("push_tymap", m)>> \in Seq(FreeItems) /\ <<Do("pop_tymap", 0)>> \in Seq(FreeItems)
  BY FreeDo
<1> QED
  BY <1>1 DEF WithTymap

LEMMA FreeTypeName ==
  ASSUME NEW ty \in CrateTypes PROVE TypeName(ty) \in Seq(FreeItems)
<1>1. ItemName(ty) \in Seq(FreeItems)
  <2>1. CASE ty.kind = "adt"
    BY <2>1, TypesAssumption, FreeDo DEF ItemName
  <2>2. CASE ty.kind # "adt"
    BY <2>2 DEF ItemName
  <2> QED
    BY <2>1, <2>2
<1>2. NameParts(ty) \in Seq(CrateTypes)
  BY TypesAssumption DEF NameParts
<1>3. For("predicate_use", NameParts(ty)) \in Seq(FreeItems)
  BY <1>2, FreeLoops DEF TypeLoops, LoopOps
<1> QED
  BY <1>1, <1>3 DEF TypeName
-------------------------------------------------------------------------------
(* Names that are known when they are needed *)

Provides(s, w) == \E i \in 1 .. Len(s) : w \in Gives(s[i])

LEMMA ReadyJoin ==
  ASSUME NEW s, NEW t, IsSeq(s), IsSeq(t), Ready(s),
         \A j \in 1 .. Len(t) : \A w \in Needs(t[j]) :
           Known(w) \/ Provides(s, w) \/ \E i \in 1 .. j - 1 : w \in Gives(t[i])
  PROVE  Ready(s \o t)
<1> DEFINE u == s \o t
<1>1. /\ Len(u) = Len(s) + Len(t) /\ Len(s) \in Nat /\ Len(t) \in Nat
      /\ \A i \in 1 .. Len(s) : u[i] = s[i]
      /\ \A i \in 1 .. Len(t) : u[Len(s) + i] = t[i]
  BY ConcatFacts, SeqFacts
<1> HIDE DEF u
<1> SUFFICES ASSUME NEW k \in 1 .. Len(u), NEW w \in Needs(u[k])
             PROVE  Known(w) \/ \E i \in 1 .. k - 1 : w \in Gives(u[i])
  BY DEF Ready, Supplied, u
<1>2. CASE k <= Len(s)
  <2>1. k \in 1 .. Len(s) /\ u[k] = s[k] /\ \A i \in 1 .. k - 1 : u[i] = s[i]
    BY <1>1, <1>2
  <2> QED
    BY <2>1 DEF Ready, Supplied
<1>3. CASE ~(k <= Len(s))
  <2> DEFINE j == k - Len(s)
  <2>1. j \in 1 .. Len(t) /\ k = Len(s) + j
    BY <1>1, <1>3
  <2>2. u[k] = t[j]
    BY <1>1, <2>1
  <2>3. CASE Provides(s, w)
    <3>1. PICK i \in 1 .. Len(s) : w \in Gives(s[i])
      BY <2>3 DEF Provides
    <3>2. i \in 1 .. k - 1 /\ u[i] = s[i]
      BY <1>1, <1>3, <3>1
    <3> QED
      BY <3>1, <3>2
  <2>4. CASE \E i \in 1 .. j - 1 : w \in Gives(t[i])
    <3>1. PICK i \in 1 .. j - 1 : w \in Gives(t[i])
      BY <2>4
    <3>2. Len(s) + i \in 1 .. k - 1 /\ u[Len(s) + i] = t[i]
      BY <1>1, <2>1, <3>1
    <3> QED
      BY <3>1, <3>2
  <2> QED
    BY <2>1, <2>2, <2>3, <2>4
<1> QED
  BY <1>2, <1>3

LEMMA ReadyConcat ==
  ASSUME NEW s, NEW t, IsSeq(s), IsSeq(t), Ready(s), Ready(t)
  PROVE  Ready(s \o t)
<1>1. \A j \in 1 .. Len(t) : \A w \in Needs(t[j]) : Known(w) \/ \E i \in 1 .. j - 1 : w \in Gives(t[i])
  BY DEF Ready, Supplied
<1> QED
  BY <1>1, ReadyJoin

LEMMA PlainSeq ==
  ASSUME NEW s \in Seq(PlainItems)
  PROVE  /\ IsSeq(s) /\ s \in Seq(Items) /\ Len(s) \in Nat /\ DOMAIN s = 1 .. Len(s)
         /\ \A i \in 1 .. Len(s) : s[i] \in PlainItems
<1>1. PlainItems \subseteq Items
  BY DEF Items
<1> QED
  BY <1>1 DEF IsSeq

LEMMA FreeReady ==
  ASSUME NEW s \in Seq(FreeItems) PROVE s \in Seq(PlainItems) /\ Ready(s)
<1>1. \A i \in 1 .. Len(s) : s[i] \in FreeItems
  OBVIOUS
<1>2. \A i \in 1 .. Len(s) : Needs(s[i]) = {}
  BY <1>1, NoNeeds DEF FreeItems
<1>3. FreeItems \subseteq PlainItems
  BY DEF FreeItems
<1>4. s \in Seq(PlainItems)
  BY <1>3
<1> QED
  BY <1>2, <1>4 DEF Ready, Supplied

\* What the parts of a list provide, the list provides.
LEMMA ProvidesConcat ==
  ASSUME NEW s, NEW t, IsSeq(s), IsSeq(t), NEW w, Provides(s, w) \/ Provides(t, w)
  PROVE  Provides(s \o t, w)
<1> DEFINE u == s \o t
<1>1. /\ Len(u) = Len(s) + Len(t) /\ Len(s) \in Nat /\ Len(t) \in Nat
      /\ \A i \in 1 .. Len(s) : u[i] = s[i]
      /\ \A i \in 1 .. Len(t) : u[Len(s) + i] = t[i]
  BY ConcatFacts, SeqFacts
<1> HIDE DEF u
<1>2. CASE Provides(s, w)
  <2>1. PICK i \in 1 .. Len(s) : w \in Gives(s[i])
    BY <1>2 DEF Provides
  <2>2. i \in 1 .. Len(u) /\ u[i] = s[i]
    BY <1>1
  <2> QED
    BY <2>1, <2>2 DEF Provides, u
<1>3. CASE Provides(t, w)
  <2>1. PICK i \in 1 .. Len(t) : w \in Gives(t[i])
    BY <1>3 DEF Provides
  <2>2. Len(s) + i \in 1 .. Len(u) /\ u[Len(s) + i] = t[i]
    BY <1>1
  <2> QED
    BY <2>1, <2>2 DEF Provides, u
<1> QED
  BY <1>2, <1>3

\* A loop gives what its calls give.
LEMMA LoopProvides ==
  ASSUME NEW op, NEW xs, NEW S, xs \in Seq(S), NEW i \in 1 .. Len(xs), NEW w \in GivenBy(op, xs[i])
  PROVE  Provides(For(op, xs), w)
<1>1. xs # <<>> /\ i \in DOMAIN xs
  OBVIOUS
<1> DEFINE it == Do("for", <<op, xs>>)
<1>2. For(op, xs) = <<it>>
  BY <1>1 DEF For
<1>3. it.op = "for" /\ it.x[1] = op /\ it.x[2] = xs
  BY DEF Do
<1> HIDE DEF it
<1>4. Gives(it) = UNION {GivenBy(op, xs[j]) : j \in DOMAIN xs}
  BY <1>3 DEF Gives
<1>5. w \in Gives(it)
  BY <1>1, <1>4
<1> QED
  BY <1>2, <1>5, SingletonFacts DEF Provides

LEMMA TypeNameProvides ==
  ASSUME NEW ty \in CrateTypes, NEW w \in Parts(ty)
  PROVE  Provides(TypeName(ty), w)
<1>1. NameParts(ty) \in Seq(CrateTypes)
  BY TypesAssumption DEF NameParts
<1> DEFINE s == ItemName(ty)
           t == For("predicate_use", NameParts(ty))
<1>2. IsSeq(s) /\ IsSeq(t)
  BY SingletonFacts, EmptyFacts DEF ItemName, For
<1>3. CASE ty.kind = "adt" /\ w = <<"symbol", ty.name>>
  <2> DEFINE it == Do("item_name", ty.name)
  <2>1. s = <<it>>
    BY <1>3 DEF ItemName
  <2>2. it.op = "item_name" /\ it.x = ty.name
    BY DEF Do
  <2> HIDE DEF it
  <2>3. w \in Gives(it)
    BY <1>3, <2>2 DEF Gives, GivenBy
  <2>4. Provides(s, w)
    BY <2>1, <2>3, SingletonFacts DEF Provides
  <2> HIDE DEF s, t
  <2> QED
    BY <1>2, <2>4, ProvidesConcat DEF TypeName, s, t
<1>4. CASE \E i \in DOMAIN NameParts(ty) : w = <<"type", NameParts(ty)[i]>>
  <2>1. PICK i \in 1 .. Len(NameParts(ty)) : w = <<"type", NameParts(ty)[i]>>
    BY <1>1, <1>4
  <2>2. w \in GivenBy("predicate_use", NameParts(ty)[i])
    BY <2>1 DEF GivenBy
  <2>3. Provides(t, w)
    BY <1>1, <2>2, LoopProvides
  <2> HIDE DEF s, t
  <2> QED
    BY <1>2, <2>3, ProvidesConcat DEF TypeName, s, t
<1> QED
  BY <1>3, <1>4 DEF Parts

\* SetToSeq enumerates a finite set.
LEMMA SetToSeqFacts ==
  ASSUME NEW S, IsFiniteSet(S)
  PROVE  SetToSeq(S) \in Seq(S) /\ \A e \in S : \E i \in 1 .. Len(SetToSeq(S)) : SetToSeq(S)[i] = e
<1> DEFINE n == Cardinality(S)
           f == SetToSeq(S)
<1>1. n \in Nat /\ ExistsBijection(1 .. n, S)
  BY FS_CardinalityType
<1>2. PICK g \in [1 .. n -> S] : IsInjective(g)
  BY <1>1 DEF ExistsBijection, Bijection, Injection, IsInjective
<1>3. f \in [1 .. n -> S] /\ IsInjective(f)
  BY <1>2 DEF SetToSeq
<1>4. f \in Injection(1 .. n, S)
  BY <1>3 DEF Injection, IsInjective
<1>5. Cardinality(1 .. n) = n
  <2>1. Cardinality(1 .. n) = IF 1 > n THEN 0 ELSE n - 1 + 1
    BY <1>1, FS_Interval
  <2> QED
    BY <1>1, <2>1
<1>6. f \in Surjection(1 .. n, S)
  BY <1>4, <1>5, FS_Injection
<1>7. \A e \in S : \E i \in 1 .. n : f[i] = e
  BY <1>6 DEF Surjection
<1> HIDE DEF f, n
<1>8. f \in Seq(S) /\ Len(f) = n
  BY <1>1, <1>3
<1> QED
  BY <1>7, <1>8 DEF f
\* The whole stack of maps is one of its prefixes.
LEMMA CurrentMapFacts ==
  ASSUME IInv, Typing
  PROVE  CurrentMap \in CrateMaps
<1>1. IsSeq(enc.typaram_repl)
  BY DEF IInv, Stack
<1>2. PICK S : enc.typaram_repl \in Seq(S)
  BY <1>1 DEF IsSeq
<1>3. SubSeq(enc.typaram_repl, 1, Len(enc.typaram_repl)) = enc.typaram_repl
      /\ Len(enc.typaram_repl) \in 0 .. Len(enc.typaram_repl)
  BY <1>2
<1> QED
  BY <1>3 DEF Typing, CurrentMap

\* Naming the types of the current map provides the parts of its key.
LEMMA SubstitutionFacts ==
  ASSUME CurrentMap \in CrateMaps
  PROVE  /\ SubstitutionNames \in Seq(FreeItems)
         /\ \A w \in KeyParts(CurrentMap) : Provides(SubstitutionNames, w)
<1> DEFINE m == CurrentMap
           S == DOMAIN m \cup {m[t] : t \in DOMAIN m}
           xs == SetToSeq(S)
<1>1. IsFiniteSet(DOMAIN m) /\ S \subseteq CrateTypes
  BY MapsAssumption
<1>2. IsFiniteSet({m[t] : t \in DOMAIN m})
  <2> DEFINE R == {m[t] : t \in DOMAIN m}
             g == [t \in DOMAIN m |-> m[t]]
  <2>1. g \in Surjection(DOMAIN m, R)
    BY DEF Surjection
  <2> QED
    BY <1>1, <2>1, FS_Surjection
<1>3. IsFiniteSet(S)
  BY <1>1, <1>2, FS_Union
<1>4. xs \in Seq(S) /\ \A e \in S : \E i \in 1 .. Len(xs) : xs[i] = e
  BY <1>3, SetToSeqFacts
<1>5. SubstitutionNames = For("encode_type", xs)
  BY DEF SubstitutionNames
<1> HIDE DEF xs
<1>6. xs \in Seq(CrateTypes)
  BY <1>1, <1>4
<1>7. For("encode_type", xs) \in Seq(FreeItems)
  BY <1>6, FreeLoops DEF TypeLoops, LoopOps
<1>8. ASSUME NEW w \in KeyParts(m) PROVE Provides(For("encode_type", xs), w)
  <2>1. PICK t \in S : w \in Parts(t)
    BY <1>8 DEF KeyParts
  <2>2. PICK i \in 1 .. Len(xs) : xs[i] = t
    BY <1>4, <2>1
  <2>3. w \in GivenBy("encode_type", xs[i])
    BY <2>1, <2>2 DEF GivenBy
  <2> QED
    BY <1>6, <2>3, LoopProvides
<1> QED
  BY <1>5, <1>7, <1>8

\* Recorded names and symbols stay as they are.
NamesKept ==
  /\ \A t \in DOMAIN enc.type_predicate_names :
       /\ t \in DOMAIN enc'.type_predicate_names
       /\ enc'.type_predicate_names[t] = enc.type_predicate_names[t]
  /\ \A n \in DOMAIN name_to_symbol :
       n \in DOMAIN name_to_symbol' /\ name_to_symbol'[n] = name_to_symbol[n]

LEMMA KnownKept ==
  ASSUME NamesKept, NEW w, Known(w) PROVE Known(w)'
BY DEF NamesKept, Known

LEMMA NameKept ==
  ASSUME NamesKept, NEW t, AllKnown(Parts(t)) PROVE NameOf(t)' = NameOf(t)
<1> DEFINE a == [i \in DOMAIN NameParts(t) |-> enc.type_predicate_names[NameParts(t)[i]]]
           b == [i \in DOMAIN NameParts(t) |-> enc'.type_predicate_names[NameParts(t)[i]]]
<1>1. \A i \in DOMAIN NameParts(t) : Known(<<"type", NameParts(t)[i]>>)
  BY DEF AllKnown, Parts
<1>2. \A i \in DOMAIN NameParts(t) : NameParts(t)[i] \in DOMAIN enc.type_predicate_names
  BY <1>1 DEF Known
<1>3. \A i \in DOMAIN NameParts(t) : a[i] = b[i]
  BY <1>2 DEF NamesKept
<1>4. a = b
  BY <1>3
<1>5. t.kind = "adt" => name_to_symbol'[t.name] = name_to_symbol[t.name]
  <2> SUFFICES ASSUME t.kind = "adt" PROVE name_to_symbol'[t.name] = name_to_symbol[t.name]
    OBVIOUS
  <2>1. Known(<<"symbol", t.name>>)
    BY DEF AllKnown, Parts
  <2>2. t.name \in DOMAIN name_to_symbol
    BY <2>1 DEF Known
  <2> QED
    BY <2>2 DEF NamesKept
<1>6. NameOf(t) = PredicateName(t, a, IF t.kind = "adt" THEN name_to_symbol[t.name] ELSE "")
  BY DEF NameOf, Name
<1>7. NameOf(t)' = PredicateName(t, b, IF t.kind = "adt" THEN name_to_symbol'[t.name] ELSE "")
  BY DEF NameOf, Name, PredicateName, NameParts
<1> HIDE DEF a, b
<1> QED
  BY <1>4, <1>5, <1>6, <1>7

\* Where a step is after the first one was replaced by items.
LEMMA Positions ==
  ASSUME NEW w, NEW items, IsSeq(w), IsSeq(items), w # <<>>, NEW u, u = items \o Tail(w)
  PROVE  /\ IsSeq(u) /\ Len(w) \in Nat /\ Len(items) \in Nat /\ Len(u) = Len(items) + Len(w) - 1
         /\ \A i \in 1 .. Len(items) : i \in 1 .. Len(u) /\ u[i] = items[i]
         /\ \A i \in 2 .. Len(w) : Len(items) + i - 1 \in 1 .. Len(u) /\ u[Len(items) + i - 1] = w[i]
         /\ \A k \in 1 .. Len(u) : k \in 1 .. Len(items) \/ k - Len(items) + 1 \in 2 .. Len(w)
<1> DEFINE t == Tail(w)
<1>1. /\ IsSeq(t) /\ Len(w) \in Nat /\ Len(w) > 0 /\ Len(t) = Len(w) - 1
      /\ \A i \in 1 .. Len(t) : t[i] = w[i + 1]
  BY TailFacts, SeqFacts
<1>2. /\ IsSeq(u) /\ Len(u) = Len(items) + Len(t) /\ Len(items) \in Nat
      /\ \A i \in 1 .. Len(items) : u[i] = items[i]
      /\ \A i \in 1 .. Len(t) : u[Len(items) + i] = t[i]
  BY <1>1, ConcatFacts, SeqFacts
<1> HIDE DEF t
<1>3. ASSUME NEW i \in 2 .. Len(w) PROVE Len(items) + i - 1 \in 1 .. Len(u) /\ u[Len(items) + i - 1] = w[i]
  <2>1. i - 1 \in 1 .. Len(t) /\ (i - 1) + 1 = i /\ Len(items) + (i - 1) \in 1 .. Len(u)
        /\ Len(items) + (i - 1) = Len(items) + i - 1
    BY <1>1, <1>2
  <2>2. u[Len(items) + (i - 1)] = w[i]
    BY <1>1, <1>2, <2>1
  <2> QED
    BY <2>1, <2>2
<1> QED
  BY <1>1, <1>2, <1>3

\* What was supplied to a later step still is.
LEMMA SuppliedStep ==
  ASSUME IsSeq(work), work # <<>>, NEW items, IsSeq(items), work' = items \o Tail(work), NamesKept,
         \A w \in Gives(work[1]) : Known(w)' \/ Provides(items, w),
         NEW i \in 2 .. Len(work), NEW S, Supplied(work, i, S)
  PROVE  \A w \in S : Known(w)' \/ \E j \in 1 .. (Len(items) + i - 1) - 1 : w \in Gives(work'[j])
<1>1. /\ Len(work) \in Nat /\ Len(items) \in Nat
      /\ \A j \in 1 .. Len(items) : work'[j] = items[j]
      /\ \A j \in 2 .. Len(work) : work'[Len(items) + j - 1] = work[j]
  BY Positions
<1> SUFFICES ASSUME NEW w \in S, ~Known(w)'
             PROVE  \E j \in 1 .. (Len(items) + i - 1) - 1 : w \in Gives(work'[j])
  OBVIOUS
<1>2. ~Known(w)
  BY KnownKept
<1>3. PICK j \in 1 .. i - 1 : w \in Gives(work[j])
  BY <1>2 DEF Supplied
<1>4. CASE j = 1
  <2>1. PICK k \in 1 .. Len(items) : w \in Gives(items[k])
    BY <1>3, <1>4 DEF Provides
  <2>2. k \in 1 .. (Len(items) + i - 1) - 1 /\ work'[k] = items[k]
    BY <1>1, <2>1
  <2> QED
    BY <2>1, <2>2
<1>5. CASE j # 1
  <2>1. j \in 2 .. Len(work) /\ Len(items) + j - 1 \in 1 .. (Len(items) + i - 1) - 1
    BY <1>1, <1>5
  <2> QED
    BY <1>1, <1>3, <2>1
<1> QED
  BY <1>4, <1>5
\* Every step has what it needs after the first one was replaced.
LEMMA ReadyStep ==
  ASSUME IsSeq(work), work # <<>>, NEW items, IsSeq(items), work' = items \o Tail(work), NamesKept,
         Ready(work), Ready(items), \A w \in Gives(work[1]) : Known(w)' \/ Provides(items, w)
  PROVE  Ready(work)'
<1>1. /\ Len(work) \in Nat /\ Len(items) \in Nat /\ Len(work') = Len(items) + Len(work) - 1
      /\ \A j \in 1 .. Len(items) : work'[j] = items[j]
      /\ \A j \in 2 .. Len(work) : work'[Len(items) + j - 1] = work[j]
      /\ \A k \in 1 .. Len(work') : k \in 1 .. Len(items) \/ k - Len(items) + 1 \in 2 .. Len(work)
  BY Positions
<1> SUFFICES ASSUME NEW k \in 1 .. Len(work'), NEW w \in Needs(work'[k])
             PROVE  Known(w)' \/ \E j \in 1 .. k - 1 : w \in Gives(work'[j])
  BY DEF Ready, Supplied
<1>2. CASE k \in 1 .. Len(items)
  <2>1. work'[k] = items[k] /\ \A j \in 1 .. k - 1 : j \in 1 .. Len(items)
    BY <1>1, <1>2
  <2>2. Known(w) \/ \E j \in 1 .. k - 1 : w \in Gives(items[j])
    BY <1>2, <2>1 DEF Ready, Supplied
  <2> QED
    BY <1>1, <2>1, <2>2, KnownKept
<1>3. CASE k - Len(items) + 1 \in 2 .. Len(work)
  <2> DEFINE i == k - Len(items) + 1
  <2>1. i \in 2 .. Len(work) /\ k = Len(items) + i - 1 /\ i \in 1 .. Len(work)
    BY <1>1, <1>3
  <2>2. work'[k] = work[i]
    BY <1>1, <2>1
  <2>3. Supplied(work, i, Needs(work[i]))
    BY <2>1 DEF Ready
  <2> HIDE DEF i
  <2>4. \A v \in Needs(work[i]) : Known(v)' \/ \E j \in 1 .. (Len(items) + i - 1) - 1 : v \in Gives(work'[j])
    BY <2>1, <2>3, SuppliedStep
  <2> QED
    BY <2>1, <2>2, <2>4
<1> QED
  BY <1>1, <1>2, <1>3

\* The key of the definition that is being encoded.
LEMMA BottomKept ==
  ASSUME NamesKept, Bottom' = Bottom, AllKnown(KeyParts(Bottom))
  PROVE  AllKnown(KeyParts(Bottom))' /\ SubstitutionKey(Bottom)' = SubstitutionKey(Bottom)
<1>1. PICK m : m = Bottom
  OBVIOUS
<1>2. AllKnown(KeyParts(m)) /\ m = Bottom'
  BY <1>1
<1>3. \A w \in KeyParts(m) : Known(w)'
  BY <1>2, KnownKept DEF AllKnown
<1>4. \A t \in DOMAIN m : AllKnown(Parts(t)) /\ AllKnown(Parts(m[t]))
  BY <1>2 DEF AllKnown, KeyParts
<1>5. \A t \in DOMAIN m : NameOf(t)' = NameOf(t) /\ NameOf(m[t])' = NameOf(m[t])
  BY <1>4, NameKept
<1>6. SubstitutionKey(Bottom)' = {<<NameOf(t)', NameOf(m[t])'>> : t \in {u \in DOMAIN m : NameOf(u)' # NameOf(m[u])'}}
  BY <1>2 DEF SubstitutionKey, NameOf, Name
<1>7. SubstitutionKey(Bottom) = {<<NameOf(t), NameOf(m[t])>> : t \in {u \in DOMAIN m : NameOf(u) # NameOf(m[u])}}
  BY <1>1 DEF SubstitutionKey
<1>8. SubstitutionKey(Bottom)' = SubstitutionKey(Bottom)
  BY <1>5, <1>6, <1>7
<1>9. AllKnown(KeyParts(Bottom))'
  BY <1>2, <1>3 DEF AllKnown
<1> QED
  BY <1>8, <1>9

\* The work before and after a step that replaces its first item.
LEMMA WorkFacts ==
  ASSUME IInv, NEW op, op # "queue_done", Next1(op), NEW items, IsSeq(items), work' = items \o Tail(work)
  PROVE  /\ work # <<>> /\ work[1].op = op /\ IsSeq(work) /\ Len(work) \in Nat /\ Len(work) >= 2
         /\ Len(items) \in Nat /\ Len(work') = Len(items) + Len(work) - 1
         /\ \A j \in 1 .. Len(items) : j \in 1 .. Len(work') /\ work'[j] = items[j]
         /\ \A j \in 2 .. Len(work) :
              Len(items) + j - 1 \in 1 .. Len(work') /\ work'[Len(items) + j - 1] = work[j]
         /\ \A k \in 1 .. Len(work') : k \in 1 .. Len(items) \/ k - Len(items) + 1 \in 2 .. Len(work)
         /\ \A i \in 1 .. Len(work) : /\ work[i].op = "queue_done" => i = Len(work)
                                      /\ i = Len(work) => work[i].op = "queue_done"
                                      /\ work[i].op = "pure_function_def" => i = 1
<1>1. work # <<>> /\ work[1].op = op /\ IsSeq(work) /\ Len(work) \in Nat /\ Len(work) > 0
  BY AtHead
<1>2. /\ Len(items) \in Nat /\ Len(work') = Len(items) + Len(work) - 1
      /\ \A j \in 1 .. Len(items) : j \in 1 .. Len(work') /\ work'[j] = items[j]
      /\ \A j \in 2 .. Len(work) : Len(items) + j - 1 \in 1 .. Len(work') /\ work'[Len(items) + j - 1] = work[j]
      /\ \A k \in 1 .. Len(work') : k \in 1 .. Len(items) \/ k - Len(items) + 1 \in 2 .. Len(work)
  BY <1>1, Positions
<1>3. \A i \in 1 .. Len(work) : /\ work[i].op = "queue_done" => i = Len(work)
                                /\ i = Len(work) => work[i].op = "queue_done"
                                /\ work[i].op = "pure_function_def" => i = 1
  BY DEF IInv, Stack
<1>4. 1 # Len(work)
  BY <1>1, <1>3
<1> QED
  BY <1>1, <1>2, <1>3, <1>4

\* The maps that a pending definition of a pure function depends on.
MapsKept ==
  /\ \A i \in 2 .. Len(work) : work[i].op = "pure_function_lookup" => enc'.typaram_repl = enc.typaram_repl
  /\ \A i \in 2 .. Len(work) : work[i].op = "pure_function_insert" =>
       Len(enc'.typaram_repl) >= 1 /\ SubSeq(enc'.typaram_repl, 1, 1) = SubSeq(enc.typaram_repl, 1, 1)

\* The steps that are not a stage of an item of the queue.
Ordinary(op) == op \notin Stages \cup {"pure_function_def", "queue_done"}

(***************************************************************************)
(* The first step is replaced by plain steps: the item keeps its shape if  *)
(* names and failures are kept, and if naming steps only make such steps.  *)
(***************************************************************************)
LEMMA ShapeStep ==
  ASSUME IInv, Typing, ItemShape, NEW op, Ordinary(op), Next1(op), NEW items, items \in Seq(PlainItems),
         work' = items \o Tail(work), NamesKept, MapsKept,
         \A w \in Gives(work[1]) : Known(w)' \/ Provides(items, w),
         Rank(work[1]) = 0 => \A i \in 1 .. Len(items) : Rank(items[i]) = 0,
         op \in {"push_tymap", "pop_tymap"} => items = <<>>,
         enc'.current_proc = enc.current_proc, enc.failed_pure_functions \subseteq enc'.failed_pure_functions
  PROVE  ItemShape' /\ (Inserting' <=> Inserting)
<1>2. IsSeq(items) /\ \A i \in 1 .. Len(items) : items[i].op \notin SpecialOps \cup {"pure_function_def"}
  BY PlainSeq, PlainIsNotSpecial
<1>0. op # "queue_done"
  BY DEF Ordinary, SpecialOps
<1>1. work # <<>> /\ work[1].op = op /\ IsSeq(work) /\ Len(work) \in Nat /\ Len(work) > 0
  BY AtHead
<1>3. /\ Len(items) \in Nat /\ Len(work') = Len(items) + Len(work) - 1
      /\ \A j \in 1 .. Len(items) : j \in 1 .. Len(work') /\ work'[j] = items[j]
      /\ \A j \in 2 .. Len(work) : Len(items) + j - 1 \in 1 .. Len(work') /\ work'[Len(items) + j - 1] = work[j]
      /\ \A k \in 1 .. Len(work') : k \in 1 .. Len(items) \/ k - Len(items) + 1 \in 2 .. Len(work)
  BY <1>0, <1>2, WorkFacts
<1>4. \A i \in 1 .. Len(work) : StepOK(i)
  BY DEF ItemShape
<1>5. \A i \in 1 .. Len(work) : /\ work[i].op = "queue_done" => i = Len(work)
                                /\ i = Len(work) => work[i].op = "queue_done"
                                /\ work[i].op = "pure_function_def" => i = 1
  BY <1>0, <1>2, WorkFacts
<1>6. Len(work) >= 2
  BY <1>0, <1>2, WorkFacts
<1>7. ASSUME NEW k \in 1 .. Len(work') PROVE StepOK(k)'
  <2>1. CASE k \in 1 .. Len(items)
    BY <1>2, <1>3, <2>1 DEF StepOK, SpecialOps, Stages
  <2>2. CASE k - Len(items) + 1 \in 2 .. Len(work)
    <3> DEFINE i == k - Len(items) + 1
               f == enc.current_proc
    <3>1. i \in 2 .. Len(work) /\ i \in 1 .. Len(work) /\ k = Len(items) + i - 1 /\ 1 \in 1 .. i - 1
      BY <1>1, <1>3, <2>2
    <3> HIDE DEF i
    <3>2. work'[k] = work[i]
      BY <1>3, <3>1
    <3>3. StepOK(i)
      BY <1>4, <3>1
    <3>4. work[i].op \in Stages => /\ Fns[f].pure /\ work[i].x = f
                                   /\ k = Len(work') - 2 /\ work'[k + 1].op = "pop_tymap"
      <4> SUFFICES ASSUME work[i].op \in Stages
                   PROVE  Fns[f].pure /\ work[i].x = f /\ k = Len(work') - 2 /\ work'[k + 1].op = "pop_tymap"
        OBVIOUS
      <4>1. Fns[f].pure /\ work[i].x = f /\ i = Len(work) - 2 /\ work[i + 1].op = "pop_tymap"
        BY <3>3 DEF StepOK
      <4>2. i + 1 \in 2 .. Len(work)
        BY <3>1, <4>1
      <4>3. PICK j \in 2 .. Len(work) : j = i + 1
        BY <4>2
      <4>4. work'[Len(items) + j - 1] = work[j]
        BY <1>3
      <4>5. Len(items) + j - 1 = k + 1
        BY <1>3, <3>1, <4>3
      <4>6. work'[k + 1] = work[i + 1]
        BY <4>3, <4>4, <4>5
      <4> QED
        <5>1. Len(items) \in Nat /\ Len(work') = Len(items) + Len(work) - 1
          BY <1>3
        <5>2. Len(work) \in Nat /\ i \in Nat /\ k = Len(items) + i - 1 /\ i = Len(work) - 2
          BY <1>1, <3>1, <4>1
        <5>3. k = Len(work') - 2
          BY <5>1, <5>2
        <5> QED
          BY <4>1, <4>6, <5>3
    <3>5. work[i].op # "pure_function_def" /\ work[i].op # "procedure"
      <4>1. i # 1
        BY <1>1, <3>1
      <4>2. work[i].op # "pure_function_def"
        BY <1>5, <3>1, <4>1
      <4>3. work[i].op = "procedure" => Len(work) = 2
        BY <3>3 DEF StepOK
      <4>5. i = Len(work) => work[i].op = "queue_done"
        BY <1>5, <3>1
      <4>4. CASE Len(work) = 2
        BY <3>1, <4>2, <4>4, <4>5
      <4> QED
        BY <4>2, <4>3, <4>4
    <3>6. work[i].op = "pure_function_key" => \A j \in 1 .. k - 1 : work'[j].op = "push_tymap"
      <4> SUFFICES ASSUME work[i].op = "pure_function_key", NEW j \in 1 .. k - 1
                   PROVE  work'[j].op = "push_tymap"
        OBVIOUS
      <4>1. \A n \in 1 .. i - 1 : work[n].op = "push_tymap"
        BY <3>3 DEF StepOK
      <4>2. op = "push_tymap" /\ items = <<>> /\ Len(items) = 0
        BY <1>1, <3>1, <4>1, EmptyFacts
      <4>3. j + 1 \in 1 .. i - 1 /\ j + 1 \in 2 .. Len(work) /\ Len(items) + (j + 1) - 1 = j
        BY <1>1, <1>3, <3>1, <4>2
      <4>4. work'[j] = work[j + 1]
        BY <1>3, <4>3
      <4> QED
        BY <4>1, <4>3, <4>4
    <3>7. work[i].op = "pure_function_lookup" =>
            /\ \A j \in 1 .. k - 1 : Rank(work'[j]) = 0
            /\ Supplied(work, k, KeyParts(CurrentMap))'
      <4> SUFFICES ASSUME work[i].op = "pure_function_lookup"
                   PROVE  (\A j \in 1 .. k - 1 : Rank(work'[j]) = 0) /\ Supplied(work, k, KeyParts(CurrentMap))'
        OBVIOUS
      <4>1. (\A n \in 1 .. i - 1 : Rank(work[n]) = 0) /\ Supplied(work, i, KeyParts(CurrentMap))
        BY <3>3 DEF StepOK
      <4>2. \A n \in 1 .. Len(items) : Rank(items[n]) = 0
        BY <3>1, <4>1
      <4>3. ASSUME NEW j \in 1 .. k - 1 PROVE Rank(work'[j]) = 0
        <5>1. CASE j \in 1 .. Len(items)
          BY <1>3, <4>2, <5>1
        <5>2. CASE j \notin 1 .. Len(items)
          <6> DEFINE n == j - Len(items) + 1
          <6>1. n \in 2 .. Len(work) /\ n \in 1 .. i - 1 /\ Len(items) + n - 1 = j
            BY <1>1, <1>3, <3>1, <5>2
          <6>2. work'[j] = work[n]
            BY <1>3, <6>1
          <6> HIDE DEF n
          <6> QED
            BY <4>1, <6>1, <6>2
        <5> QED
          BY <5>1, <5>2
      <4>4. enc'.typaram_repl = enc.typaram_repl
        BY <3>1 DEF MapsKept
      <4>5. KeyParts(CurrentMap)' = KeyParts(CurrentMap)
        BY <4>4 DEF CurrentMap
      <4>6. \A w \in KeyParts(CurrentMap) :
              Known(w)' \/ \E j \in 1 .. (Len(items) + i - 1) - 1 : w \in Gives(work'[j])
        BY <1>1, <1>2, <3>1, <4>1, SuppliedStep
      <4>7. Supplied(work, k, KeyParts(CurrentMap))'
        BY <3>1, <4>5, <4>6 DEF Supplied
      <4> QED
        BY <4>3, <4>7
    <3>8. work[i].op = "pure_function_insert" =>
            /\ Len(enc'.typaram_repl) >= 1 /\ AllKnown(KeyParts(Bottom))'
            /\ <<f, SubstitutionKey(Bottom)'>> \in enc'.failed_pure_functions
      <4> SUFFICES ASSUME work[i].op = "pure_function_insert"
                   PROVE  /\ Len(enc'.typaram_repl) >= 1 /\ AllKnown(KeyParts(Bottom))'
                          /\ <<f, SubstitutionKey(Bottom)'>> \in enc'.failed_pure_functions
        OBVIOUS
      <4>1. AllKnown(KeyParts(Bottom)) /\ <<f, SubstitutionKey(Bottom)>> \in enc.failed_pure_functions
        BY <3>3 DEF StepOK
      <4>2. Len(enc'.typaram_repl) >= 1 /\ Bottom' = Bottom
        BY <3>1 DEF MapsKept, Bottom
      <4>3. AllKnown(KeyParts(Bottom))' /\ SubstitutionKey(Bottom)' = SubstitutionKey(Bottom)
        BY <4>1, <4>2, BottomKept
      <4> QED
        BY <4>1, <4>2, <4>3
    <3>9. work[i].op = "procedure_encoded" =>
            /\ ~Fns[f].pure
            /\ \A j \in k + 1 .. Len(work') : work'[j].op \in {"spec_funcs", "queue_done"}
      <4> SUFFICES ASSUME work[i].op = "procedure_encoded", NEW j \in k + 1 .. Len(work')
                   PROVE  ~Fns[f].pure /\ work'[j].op \in {"spec_funcs", "queue_done"}
        BY <3>3 DEF StepOK
      <4>1. ~Fns[f].pure /\ \A n \in i + 1 .. Len(work) : work[n].op \in {"spec_funcs", "queue_done"}
        BY <3>3 DEF StepOK
      <4> DEFINE n == j - Len(items) + 1
      <4>2. n \in i + 1 .. Len(work) /\ n \in 2 .. Len(work) /\ Len(items) + n - 1 = j
        BY <1>1, <1>3, <3>1
      <4>3. work'[j] = work[n]
        BY <1>3, <4>2
      <4> HIDE DEF n
      <4> QED
        BY <4>1, <4>2, <4>3
    <3> QED
      BY <3>2, <3>4, <3>5, <3>6, <3>7, <3>8, <3>9 DEF StepOK
  <2> QED
    BY <1>3, <2>1, <2>2
<1>9. work' # <<>>
  BY <1>3, <1>6, EmptyFacts
<1>10. Fns[enc.current_proc].pure =>
         \/ \E k \in 1 .. Len(work') : work'[k].op \in Stages \cup {"pure_function_def"}
         \/ \A k \in 1 .. Len(work') : work'[k].op \in {"pop_tymap", "queue_done"}
  <2> SUFFICES ASSUME Fns[enc.current_proc].pure
               PROVE  \/ \E k \in 1 .. Len(work') : work'[k].op \in Stages \cup {"pure_function_def"}
                      \/ \A k \in 1 .. Len(work') : work'[k].op \in {"pop_tymap", "queue_done"}
    OBVIOUS
  <2>1. CASE \E i \in 1 .. Len(work) : work[i].op \in Stages \cup {"pure_function_def"}
    <3>1. PICK i \in 1 .. Len(work) : work[i].op \in Stages \cup {"pure_function_def"}
      BY <2>1
    <3>2. i \in 2 .. Len(work)
      BY <1>1, <3>1 DEF Ordinary
    <3> QED
      BY <1>3, <3>1, <3>2
  <2>2. CASE \A i \in 1 .. Len(work) : work[i].op \in {"pop_tymap", "queue_done"}
    <3>1. work[1].op = "pop_tymap" /\ 1 \in 1 .. Len(work)
      BY <1>1, <2>2 DEF Ordinary, SpecialOps
    <3>2. items = <<>>
      BY <1>1, <3>1
    <3>3. \A k \in 1 .. Len(work') : \E i \in 1 .. Len(work) : work'[k] = work[i]
      <4> TAKE k \in 1 .. Len(work')
      <4>1. k + 1 \in 2 .. Len(work) /\ k + 1 \in 1 .. Len(work) /\ Len(items) + (k + 1) - 1 = k
        BY <1>1, <1>3, <3>2, EmptyFacts
      <4>2. work'[Len(items) + (k + 1) - 1] = work[k + 1]
        BY <1>3, <4>1
      <4>3. work'[k] = work[k + 1]
        BY <4>1, <4>2
      <4> QED
        BY <4>1, <4>3
    <3> QED
      BY <2>2, <3>3
  <2> QED
    BY <1>1, <2>1, <2>2 DEF ItemShape
<1>11. ItemShape'
  BY <1>1, <1>7, <1>9, <1>10 DEF ItemShape
<1>12. Inserting' <=> Inserting
  <2>1. ASSUME Inserting PROVE Inserting'
    <3>1. PICK i \in 1 .. Len(work) : work[i].op = "pure_function_insert"
      BY <2>1 DEF Inserting
    <3>2. i \in 2 .. Len(work)
      BY <1>1, <3>1 DEF Ordinary, SpecialOps, Stages
    <3>3. Len(items) + i - 1 \in 1 .. Len(work') /\ work'[Len(items) + i - 1] = work[i]
      BY <1>3, <3>2
    <3>4. \E k \in 1 .. Len(work') : work'[k].op = "pure_function_insert"
      BY <3>1, <3>3
    <3> QED
      BY <3>4 DEF Inserting
  <2>2. ASSUME Inserting' PROVE Inserting
    <3>1. PICK k \in 1 .. Len(work') : work'[k].op = "pure_function_insert"
      BY <2>2 DEF Inserting
    <3>2. k \notin 1 .. Len(items)
      BY <1>2, <1>3, <3>1 DEF SpecialOps, Stages
    <3> DEFINE i == k - Len(items) + 1
    <3>3. i \in 2 .. Len(work) /\ i \in 1 .. Len(work) /\ Len(items) + i - 1 = k
      BY <1>1, <1>3, <3>2
    <3>4. work'[k] = work[i]
      BY <1>3, <3>3
    <3> HIDE DEF i
    <3> QED
      BY <3>1, <3>3, <3>4 DEF Inserting
  <2> QED
    BY <2>1, <2>2
<1> QED
  BY <1>11, <1>12

-------------------------------------------------------------------------------
(* Steps that leave names and failures alone *)

Accountless ==
  /\ Columns \subseteq DOMAIN enc'
  /\ enc'.current_proc = enc.current_proc /\ enc'.reported = enc.reported
  /\ enc'.failed_pure_functions = enc.failed_pure_functions

MapsTyped ==
  /\ \A k \in 0 .. Len(enc.typaram_repl) : CurrentTymap(SubSeq(enc.typaram_repl, 1, k)) \in CrateMaps
  /\ \A i \in 1 .. Len(enc.queue) : enc.queue[i][2] \in CrateMaps

LEMMA ItemsStep ==
  ASSUME IInv, Typing, NEW op, op # "queue_done", Next1(op), NEW items, items \in Seq(Items),
         work' = items \o Tail(work)
  PROVE  work' \in Seq(Items)
<1>1. work \in Seq(Items) /\ work # <<>>
  BY AtHead DEF Typing
<1> QED
  BY <1>1

LEMMA OrdinaryStep ==
  ASSUME IInv, TInv, NEW op, Ordinary(op), Next1(op), NEW items, items \in Seq(PlainItems), Ready(items),
         work' = items \o Tail(work), NamesKept, MapsKept,
         \A w \in Gives(work[1]) : Known(w)' \/ Provides(items, w),
         Rank(work[1]) = 0 => \A i \in 1 .. Len(items) : Rank(items[i]) = 0,
         op \in {"push_tymap", "pop_tymap"} => items = <<>>,
         Accountless, MapsTyped', Names'
  PROVE  TInv'
<1>1. Typing /\ ItemShape /\ Ready(work) /\ FailureAccount
  BY DEF TInv
<1>2. op # "queue_done"
  BY DEF Ordinary, SpecialOps
<1>3. items \in Seq(Items) /\ IsSeq(items)
  BY PlainSeq
<1>4. work' \in Seq(Items)
  BY <1>1, <1>2, <1>3, ItemsStep
<1>5. Typing'
  BY <1>4 DEF Typing, MapsTyped, Accountless
<1>6. work # <<>> /\ IsSeq(work)
  BY AtHead
<1>7. Ready(work)'
  BY <1>1, <1>3, <1>6, ReadyStep
<1>8. ItemShape' /\ (Inserting' <=> Inserting)
  BY <1>1, ShapeStep DEF Accountless
<1>9. FailureAccount'
  <2>1. /\ enc'.failed_pure_functions = enc.failed_pure_functions /\ enc'.reported = enc.reported
        /\ enc'.current_proc = enc.current_proc
    BY DEF Accountless
  <2>2. \A f : FailuresOf(f)' = FailuresOf(f) /\ ReportsOf(f)' = ReportsOf(f)
    BY <2>1 DEF FailuresOf, ReportsOf
  <2> QED
    BY <1>1, <1>8, <2>1, <2>2 DEF FailureAccount
<1> QED
  BY <1>5, <1>7, <1>8, <1>9 DEF TInv

ColumnsSame == Columns \subseteq DOMAIN enc' /\ \A a \in Columns \ {"held", "procedures"} : enc'[a] = enc[a]

LEMMA SameColumns == TInv /\ UNCHANGED enc => ColumnsSame
BY DEF TInv, Typing, ColumnsSame

LEMMA ColumnFacts ==
  ASSUME ColumnsSame
  PROVE  /\ Columns \subseteq DOMAIN enc'
         /\ enc'.typaram_repl = enc.typaram_repl /\ enc'.queue = enc.queue /\ enc'.reported = enc.reported
         /\ enc'.failed_pure_functions = enc.failed_pure_functions /\ enc'.current_proc = enc.current_proc
         /\ enc'.type_predicate_names = enc.type_predicate_names
         /\ enc'.predicate_types = enc.predicate_types
         /\ enc'.type_invariant_names = enc.type_invariant_names
BY DEF ColumnsSame, Columns, Kept

SameTables ==
  /\ enc'.type_predicate_names = enc.type_predicate_names
  /\ enc'.predicate_types = enc.predicate_types
  /\ enc'.type_invariant_names = enc.type_invariant_names

\* Names and symbols did not change.
SameNames == SameTables /\ name_to_symbol' = name_to_symbol

LEMMA NamesStay ==
  ASSUME Names, SameTables, NamesKept
  PROVE  Names'
<1>2. \A t \in DOMAIN enc.type_predicate_names : NameOf(t)' = NameOf(t)
  BY NameKept DEF Names
<1>3. \A t \in DOMAIN enc.type_invariant_names : NameOf(t)' = NameOf(t)
  BY NameKept DEF Names
<1>4. \A S : AllKnown(S) => AllKnown(S)'
  BY KnownKept DEF AllKnown
<1>5. \A t : Name(t)' = Name(t)
  BY DEF Name, SameTables
<1> QED
  BY <1>2, <1>3, <1>4, <1>5 DEF Names, SameTables

LEMMA NamesSame ==
  ASSUME Names, SameNames
  PROVE  Names' /\ NamesKept
<1>1. NamesKept
  BY DEF NamesKept, SameNames, SameTables
<1> QED
  BY <1>1, NamesStay DEF SameNames

LEMMA MapsSame ==
  ASSUME IInv, ItemShape, enc'.typaram_repl = enc.typaram_repl PROVE MapsKept
<1>1. \A i \in 2 .. Len(work) : work[i].op = "pure_function_insert" => Len(enc.typaram_repl) >= 1
  BY DEF ItemShape, StepOK
<1> QED
  BY <1>1 DEF MapsKept

\* The columns stay as they are.
LEMMA PlainStep2 ==
  ASSUME IInv, TInv, NEW op, Ordinary(op), op \notin {"push_tymap", "pop_tymap"}, Next1(op),
         NEW items, items \in Seq(PlainItems), Ready(items), Run(items), ColumnsSame, NoIntern,
         \A w \in Gives(work[1]) : Known(w) \/ Provides(items, w),
         Rank(work[1]) = 0 => \A i \in 1 .. Len(items) : Rank(items[i]) = 0
  PROVE  TInv'
<1>1. SameNames /\ Accountless
  BY ColumnFacts DEF SameNames, SameTables, Accountless, NoIntern, internerVars
<1>2. Names' /\ NamesKept
  BY <1>1, NamesSame DEF TInv
<1>3. MapsKept
  BY ColumnFacts, MapsSame DEF TInv
<1>4. MapsTyped'
  BY ColumnFacts DEF TInv, Typing, MapsTyped
<1>5. \A w \in Gives(work[1]) : Known(w)' \/ Provides(items, w)
  BY <1>2, KnownKept
<1>6. work' = items \o Tail(work)
  BY DEF Run
<1> QED
  BY <1>1, <1>2, <1>3, <1>4, <1>5, <1>6, OrdinaryStep

\* Steps that name nothing.
Nameless(op) == Ordinary(op) /\ op \notin {"push_tymap", "pop_tymap", "for"} /\ OpRank(op) # 0

LEMMA NamelessFacts ==
  ASSUME NEW it, Nameless(it.op) PROVE Gives(it) = {} /\ Rank(it) # 0
<1>1. Rank(it) # 0
  BY RankFacts DEF Nameless, Rank
<1>2. it.op \notin {"for", "predicate_use", "predicate_name", "item_name", "encode_type"}
  BY DEF Nameless, OpRank
<1>3. Gives(it) = {}
  BY <1>2 DEF Gives, GivenBy
<1> QED
  BY <1>1, <1>3

LEMMA NamelessStep ==
  ASSUME IInv, TInv, NEW op, Nameless(op), Next1(op),
         NEW items, items \in Seq(PlainItems), Ready(items), Run(items), ColumnsSame, NoIntern
  PROVE  TInv'
<1>1. Ordinary(op) /\ op \notin {"push_tymap", "pop_tymap"}
  BY DEF Nameless
<1>2. Gives(work[1]) = {} /\ Rank(work[1]) # 0
  BY AtHead, NamelessFacts
<1> QED
  BY <1>1, <1>2, PlainStep2

LEMMA FreeStep ==
  ASSUME IInv, TInv, NEW op, Nameless(op), Next1(op),
         NEW items, items \in Seq(FreeItems), Run(items), ColumnsSame, NoIntern
  PROVE  TInv'
BY FreeReady, NamelessStep

LEMMA FreeReturn ==
  ASSUME IInv, TInv, NEW op, Nameless(op), Next1(op), Return, ColumnsSame, NoIntern
  PROVE  TInv'
<1>1. <<>> \in Seq(FreeItems)
  OBVIOUS
<1> QED
  BY <1>1, FreeStep DEF Return

-------------------------------------------------------------------------------
(* What the first step has, and lists of steps that need names *)

LEMMA HeadItem ==
  ASSUME IInv, TInv, NEW op, Next1(op)
  PROVE  /\ work[1] \in Items /\ work[1].op = op /\ X = work[1].x /\ 1 \in 1 .. Len(work)
         /\ AllKnown(Needs(work[1]))
<1>1. work # <<>> /\ work[1].op = op /\ X = work[1].x /\ Len(work) \in Nat /\ Len(work) > 0
  BY AtHead
<1>2. work \in Seq(Items) /\ 1 \in 1 .. Len(work)
  BY <1>1 DEF TInv, Typing
<1>3. Supplied(work, 1, Needs(work[1]))
  BY <1>2 DEF TInv, Ready
<1>4. \A w \in Needs(work[1]) : Known(w)
  BY <1>3 DEF Supplied
<1> QED
  BY <1>1, <1>2, <1>4 DEF AllKnown

LEMMA TypeAtHead ==
  ASSUME IInv, TInv, NEW op \in TypeOps, Next1(op) PROVE X \in CrateTypes
BY HeadItem, ItemFacts

LEMMA FunctionAtHead ==
  ASSUME IInv, TInv, NEW op \in FunctionOps \cup SpecialOps, Next1(op) PROVE X \in DOMAIN Fns
BY HeadItem, ItemFacts

\* The name of the type that the first step needs is known.
LEMMA NameAtHead ==
  ASSUME IInv, TInv, Next1("predicate_insert") \/ Next1("snapshot_lookup") \/ Next1("snapshot_insert")
                     \/ Next1("snap_app") \/ Next1("discriminant_func") \/ Next1("discriminant_insert")
  PROVE  /\ Known(<<"type", X>>) /\ X \in DOMAIN enc.type_predicate_names
         /\ Name(X) \in DOMAIN enc.predicate_types /\ enc.predicate_types[Name(X)] \in CrateTypes
<1>1. PICK op \in {"predicate_insert", "snapshot_lookup", "snapshot_insert", "snap_app", "discriminant_func",
                   "discriminant_insert"} : Next1(op)
  OBVIOUS
<1>2. AllKnown(Needs(work[1])) /\ work[1].op = op /\ X = work[1].x
  BY <1>1, HeadItem
<1>3. <<"type", X>> \in Needs(work[1])
  BY <1>1, <1>2 DEF Needs
<1>4. Known(<<"type", X>>)
  BY <1>2, <1>3 DEF AllKnown
<1>5. X \in DOMAIN enc.type_predicate_names
  BY <1>4 DEF Known
<1> QED
  BY <1>4, <1>5 DEF TInv, Names

\* Plain steps that need at most S.
Wanting(S) == {it \in PlainItems : Needs(it) \subseteq S}

LEMMA FreeWanting ==
  ASSUME NEW S PROVE FreeItems \subseteq Wanting(S)
BY NoNeeds DEF FreeItems, Wanting

LEMMA WantingDo ==
  /\ \A op \in {"snapshot_lookup", "snapshot_insert", "snap_app", "discriminant_func", "discriminant_insert"},
        x \in CrateTypes : Do(op, x) \in Wanting({<<"type", x>>})
  /\ \A op \in {"predicate_name", "invariant_name"}, x \in CrateTypes : Do(op, x) \in Wanting(Parts(x))
<1>1. \A op, x : Do(op, x).op = op /\ Do(op, x).x = x
  BY DEF Do
<1>2. \A op \in TypeOps, x \in CrateTypes : Do(op, x) \in PlainItems
  BY PlainDo
<1>3. \A op \in {"snapshot_lookup", "snapshot_insert", "snap_app", "discriminant_func", "discriminant_insert"} : \A x :
        Needs(Do(op, x)) = {<<"type", x>>}
  BY <1>1 DEF Needs
<1>4. \A op \in {"predicate_name", "invariant_name"} : \A x : Needs(Do(op, x)) = Parts(x)
  BY <1>1 DEF Needs
<1>5. {"snapshot_lookup", "snapshot_insert", "snap_app", "discriminant_func", "discriminant_insert",
       "predicate_name", "invariant_name"} \subseteq TypeOps
  BY DEF TypeOps
<1> QED
  BY <1>2, <1>3, <1>4, <1>5 DEF Wanting

LEMMA AfterProviders ==
  ASSUME NEW p, p \in Seq(FreeItems), NEW S, NEW s, s \in Seq(Wanting(S)),
         \A w \in S : Known(w) \/ Provides(p, w)
  PROVE  p \o s \in Seq(PlainItems) /\ Ready(p \o s)
<1>1. p \in Seq(PlainItems) /\ Ready(p)
  BY FreeReady
<1>2. s \in Seq(PlainItems) /\ \A j \in 1 .. Len(s) : Needs(s[j]) \subseteq S
  <2>1. Wanting(S) \subseteq PlainItems /\ \A j \in 1 .. Len(s) : s[j] \in Wanting(S)
    BY DEF Wanting
  <2> QED
    BY <2>1 DEF Wanting
<1>3. IsSeq(p) /\ IsSeq(s)
  BY <1>1, <1>2, PlainSeq
<1>4. Ready(p \o s)
  BY <1>1, <1>2, <1>3, ReadyJoin
<1> QED
  BY <1>1, <1>2, <1>4

LEMMA KnownReady ==
  ASSUME NEW S, NEW s, s \in Seq(Wanting(S)), AllKnown(S)
  PROVE  s \in Seq(PlainItems) /\ Ready(s)
<1>1. s \in Seq(PlainItems) /\ \A j \in 1 .. Len(s) : Needs(s[j]) \subseteq S
  <2>1. Wanting(S) \subseteq PlainItems /\ \A j \in 1 .. Len(s) : s[j] \in Wanting(S)
    BY DEF Wanting
  <2> QED
    BY <2>1 DEF Wanting
<1> QED
  BY <1>1 DEF Ready, Supplied, AllKnown

\* A type is used, then what needs its name.
LEMMA AfterUse ==
  ASSUME NEW x \in CrateTypes, NEW s, s \in Seq(Wanting({<<"type", x>>}))
  PROVE  <<Do("predicate_use", x)>> \o s \in Seq(PlainItems) /\ Ready(<<Do("predicate_use", x)>> \o s)
<1> DEFINE it == Do("predicate_use", x)
<1>1. it \in FreeItems
  BY FreeDo DEF TypeOps, NeedyOps
<1>2. it.op = "predicate_use" /\ it.x = x
  BY DEF Do
<1> HIDE DEF it
<1>3. <<"type", x>> \in Gives(it)
  BY <1>2 DEF Gives, GivenBy
<1>4. Provides(<<it>>, <<"type", x>>)
  BY <1>3, SingletonFacts DEF Provides
<1>5. <<it>> \in Seq(FreeItems)
  BY <1>1
<1> DEFINE S == {<<"type", x>>}
<1>6. s \in Seq(Wanting(S)) /\ \A w \in S : Known(w) \/ Provides(<<it>>, w)
  BY <1>4
<1> HIDE DEF S
<1>7. <<it>> \o s \in Seq(PlainItems) /\ Ready(<<it>> \o s)
  BY <1>5, <1>6, AfterProviders
<1> QED
  BY <1>7 DEF it

\* A type is named, then what needs the parts of its name.
LEMMA AfterName ==
  ASSUME NEW ty \in CrateTypes, NEW s, s \in Seq(Wanting(Parts(ty)))
  PROVE  TypeName(ty) \o s \in Seq(PlainItems) /\ Ready(TypeName(ty) \o s)
BY FreeTypeName, TypeNameProvides, AfterProviders

LEMMA WantingBorrowed ==
  ASSUME NEW S, NEW c \in Cells, NEW s, s \in Seq(Wanting(S)) PROVE Borrowed(c, s) \in Seq(Wanting(S))
<1>1. Do("borrow_mut", c) \in Wanting(S) /\ Do("release", c) \in Wanting(S)
  BY FreeDo, FreeWanting
<1> QED
  BY <1>1 DEF Borrowed

-------------------------------------------------------------------------------
(* Types: the steps that name nothing *)

LEMMA TypeOpFacts ==
  /\ \A op \in TypeOps, x \in CrateTypes : op \notin NeedyOps => Do(op, x) \in FreeItems
  /\ \A op \in TypeLoops, xs \in Seq(CrateTypes) : For(op, xs) \in Seq(FreeItems)
BY FreeDo, FreeLoops

\* The fields of a table outside of the columns.
LEMMA UseSame ==
  ASSUME TInv, NEW table, NEW key PROVE enc' = Use(enc, table, key) => ColumnsSame
BY DEF TInv, Typing, Columns, Kept, Use, ColumnsSame

LEMMA InvariantTables ==
  ASSUME IInv, TInv, EncodeInvariantFuncApp \/ InvariantOfField \/ InsertInvariant
  PROVE  TInv'
<1>1. CASE EncodeInvariantFuncApp
  <2>1. Next1("invariant_func_app") /\ ColumnsSame /\ NoIntern
        /\ Run(<<Do("predicate_use", X), Do("invariant_use", X)>>)
    BY <1>1, SameColumns DEF EncodeInvariantFuncApp
  <2>2. X \in CrateTypes
    BY <2>1, TypeAtHead DEF TypeOps
  <2>3. <<Do("predicate_use", X), Do("invariant_use", X)>> \in Seq(FreeItems)
    BY <2>2, TypeOpFacts DEF TypeOps, NeedyOps
  <2>4. Nameless("invariant_func_app")
    BY DEF Nameless, Ordinary, SpecialOps, Stages, OpRank
  <2> QED
    BY <2>1, <2>3, <2>4, FreeStep
<1>2. CASE InvariantOfField
  <2>1. Next1("invariant_field") /\ ColumnsSame /\ NoIntern
        /\ Run(<<Do("predicate_use", X), Do("invariant_func_app", X)>>)
    BY <1>2, SameColumns DEF InvariantOfField
  <2>2. X \in CrateTypes
    BY <2>1, TypeAtHead DEF TypeOps
  <2>3. <<Do("predicate_use", X), Do("invariant_func_app", X)>> \in Seq(FreeItems)
    BY <2>2, TypeOpFacts DEF TypeOps, NeedyOps
  <2>4. Nameless("invariant_field")
    BY DEF Nameless, Ordinary, SpecialOps, Stages, OpRank
  <2> QED
    BY <2>1, <2>3, <2>4, FreeStep
<1>3. CASE InsertInvariant
  <2>1. Next1("invariant_insert") /\ Return /\ NoIntern
    BY <1>3 DEF InsertInvariant
  <2>2. ColumnsSame
    BY <1>3 DEF InsertInvariant, TInv, Typing, Columns, Kept, ColumnsSame
  <2>3. Nameless("invariant_insert")
    BY DEF Nameless, Ordinary, SpecialOps, Stages, OpRank
  <2> QED
    BY <2>1, <2>2, <2>3, FreeReturn
<1> QED
  BY <1>1, <1>2, <1>3

LEMMA InvariantUse == IInv /\ TInv /\ EncodeTypeInvariantUse => TInv'
<1> SUFFICES ASSUME IInv, TInv, EncodeTypeInvariantUse PROVE TInv'
  OBVIOUS
<1>1. Next1("invariant_use") /\ NoIntern
  BY DEF EncodeTypeInvariantUse
<1>2. Nameless("invariant_use")
  BY DEF Nameless, Ordinary, SpecialOps, Stages, OpRank
<1>3. CASE X \in DOMAIN enc.type_invariant_names
  <2>1. Return /\ ColumnsSame
    BY <1>3, UseSame DEF EncodeTypeInvariantUse
  <2> QED
    BY <1>1, <1>2, <2>1, FreeReturn
<1>4. CASE X \notin DOMAIN enc.type_invariant_names
  <2> DEFINE items == TypeName(X) \o <<Do("invariant_name", X)>>
  <2>1. Run(items) /\ ColumnsSame
    BY <1>4, SameColumns DEF EncodeTypeInvariantUse
  <2>2. X \in CrateTypes
    BY <1>1, TypeAtHead DEF TypeOps
  <2>3. <<Do("invariant_name", X)>> \in Seq(Wanting(Parts(X)))
    BY <2>2, WantingDo
  <2>4. items \in Seq(PlainItems) /\ Ready(items)
    BY <2>2, <2>3, AfterName
  <2> HIDE DEF items
  <2> QED
    BY <1>1, <1>2, <2>1, <2>4, NamelessStep
<1> QED
  BY <1>3, <1>4

\* Steps that only record something outside of the columns.
LEMMA RecordTables ==
  ASSUME IInv, TInv,
         \/ EncodeTypeTagDef \/ EncodeBuiltinFunction \/ EncodeBuiltinMethod \/ InsertCastFunction
         \/ InsertDiscriminantFunc \/ InsertSnapshot \/ Register \/ GetProcedureContractForDef
         \/ EncodeMirrors \/ InsertPureExpression \/ InsertSpecFuncs \/ Release
  PROVE  TInv'
<1>1. PICK op \in {"tag_def", "builtin_function", "builtin_method", "cast_insert", "discriminant_insert",
                   "snapshot_insert", "register", "contract", "mirror", "assertion_insert",
                   "spec_funcs_insert", "release"} : Next1(op)
  BY DEF EncodeTypeTagDef, EncodeBuiltinFunction, EncodeBuiltinMethod, InsertCastFunction,
         InsertDiscriminantFunc, InsertSnapshot, Register, GetProcedureContractForDef, EncodeMirrors,
         InsertPureExpression, InsertSpecFuncs, Release
<1>2. Return /\ NoIntern
  BY DEF EncodeTypeTagDef, EncodeBuiltinFunction, EncodeBuiltinMethod, InsertCastFunction,
         InsertDiscriminantFunc, InsertSnapshot, Register, GetProcedureContractForDef, EncodeMirrors,
         InsertPureExpression, InsertSpecFuncs, Release
<1>3. ColumnsSame
  BY DEF EncodeTypeTagDef, EncodeBuiltinFunction, EncodeBuiltinMethod, InsertCastFunction,
         InsertDiscriminantFunc, InsertSnapshot, Register, GetProcedureContractForDef, EncodeMirrors,
         InsertPureExpression, InsertSpecFuncs, Release, Use, TInv, Typing, Columns, Kept, ColumnsSame
<1>4. Nameless(op)
  BY DEF Nameless, Ordinary, SpecialOps, Stages, OpRank
<1> QED
  BY <1>1, <1>2, <1>3, <1>4, FreeReturn

LEMMA BorrowTables == IInv /\ TInv /\ BorrowMut => TInv'
<1> SUFFICES ASSUME IInv, TInv, BorrowMut PROVE TInv'
  OBVIOUS
<1>1. Next1("borrow_mut") /\ NoIntern
  BY DEF BorrowMut
<1>2. X \notin enc.held
  <2>1. X = work[1].x /\ work # <<>> /\ work[1].op = "borrow_mut"
    BY <1>1, AtHead
  <2> QED
    BY <2>1, NotHeld DEF IInv
<1>3. Return /\ ColumnsSame
  BY <1>2 DEF BorrowMut, TInv, Typing, Columns, Kept, ColumnsSame
<1>4. Nameless("borrow_mut")
  BY DEF Nameless, Ordinary, SpecialOps, Stages, OpRank
<1> QED
  BY <1>1, <1>3, <1>4, FreeReturn

LEMMA TagTables == IInv /\ TInv /\ EncodeTypeTagUse => TInv'
<1> SUFFICES ASSUME IInv, TInv, EncodeTypeTagUse PROVE TInv'
  OBVIOUS
<1> DEFINE items == IF X \in DOMAIN enc.type_tags THEN <<>> ELSE TypeName(X) \o <<Do("tag_def", X)>>
<1>1. Next1("tag_func_app") /\ NoIntern /\ ColumnsSame /\ Run(items)
  BY UseSame DEF EncodeTypeTagUse
<1>2. X \in CrateTypes
  BY <1>1, TypeAtHead DEF TypeOps
<1>3. <<Do("tag_def", X)>> \in Seq(FreeItems)
  BY <1>2, TypeOpFacts DEF TypeOps, NeedyOps
<1>4. items \in Seq(FreeItems)
  BY <1>2, <1>3, FreeTypeName
<1>5. Nameless("tag_func_app")
  BY DEF Nameless, Ordinary, SpecialOps, Stages, OpRank
<1> HIDE DEF items
<1> QED
  BY <1>1, <1>4, <1>5, FreeStep

LEMMA CastTables == IInv /\ TInv /\ EncodeCastFunctionUse => TInv'
<1> SUFFICES ASSUME IInv, TInv, EncodeCastFunctionUse PROVE TInv'
  OBVIOUS
<1> DEFINE items == IF X \in enc.type_cast_functions THEN <<>>
                    ELSE For("snapshot", <<X[1], X[2], X[2]>>) \o <<Do("cast_insert", X)>>
<1>1. Next1("cast") /\ NoIntern /\ ColumnsSame /\ Run(items)
  BY UseSame DEF EncodeCastFunctionUse
<1>2. X \in CrateTypes \X CrateTypes
  BY <1>1, HeadItem, ItemFacts
<1>3. <<Do("cast_insert", X)>> \in Seq(FreeItems)
  BY <1>2, FreeDo
<1>4. <<X[1], X[2], X[2]>> \in Seq(CrateTypes)
  BY <1>2
<1>5. For("snapshot", <<X[1], X[2], X[2]>>) \in Seq(FreeItems)
  BY <1>4, TypeOpFacts DEF TypeLoops, LoopOps
<1>6. items \in Seq(FreeItems)
  BY <1>3, <1>5
<1>7. Nameless("cast")
  BY DEF Nameless, Ordinary, SpecialOps, Stages, OpRank
<1> HIDE DEF items
<1> QED
  BY <1>1, <1>6, <1>7, FreeStep

LEMMA DiscriminantTables ==
  ASSUME IInv, TInv, EncodeDiscriminantFuncApp \/ EncodeDiscriminantFunc
  PROVE  TInv'
<1>1. CASE EncodeDiscriminantFuncApp
  <2> DEFINE inner == Borrowed("type_discriminant_funcs", <<Do("discriminant_func", X)>>)
             items == <<Do("predicate_use", X)>> \o inner
  <2>1. Next1("discriminant") /\ NoIntern /\ ColumnsSame /\ Run(items)
    BY <1>1, SameColumns DEF EncodeDiscriminantFuncApp
  <2>2. X \in CrateTypes
    BY <2>1, TypeAtHead DEF TypeOps
  <2>3. <<Do("discriminant_func", X)>> \in Seq(Wanting({<<"type", X>>}))
    BY <2>2, WantingDo
  <2>4. inner \in Seq(Wanting({<<"type", X>>}))
    BY <2>3, WantingBorrowed DEF Cells
  <2> HIDE DEF inner
  <2>5. items \in Seq(PlainItems) /\ Ready(items)
    BY <2>2, <2>4, AfterUse
  <2>6. Nameless("discriminant")
    BY DEF Nameless, Ordinary, SpecialOps, Stages, OpRank
  <2> HIDE DEF items
  <2> QED
    BY <2>1, <2>5, <2>6, NamelessStep
<1>2. CASE EncodeDiscriminantFunc
  <2> DEFINE ty == enc.predicate_types[Name(X)]
             inner == Borrowed("snapshot_encoder", <<Do("encode_snapshot", ty)>>)
             items == IF Name(X) \in enc.type_discriminant_funcs THEN <<>>
                      ELSE inner \o <<Do("discriminant_insert", X)>>
  <2>1. Next1("discriminant_func") /\ NoIntern /\ Run(items)
    BY <1>2 DEF EncodeDiscriminantFunc
  <2>2. ColumnsSame
    BY <1>2 DEF EncodeDiscriminantFunc, Use, TInv, Typing, Columns, Kept, ColumnsSame
  <2>3. X \in CrateTypes /\ ty \in CrateTypes /\ AllKnown({<<"type", X>>})
    BY <2>1, TypeAtHead, NameAtHead DEF TypeOps, AllKnown
  <2> HIDE DEF ty
  <2>4. <<Do("encode_snapshot", ty)>> \in Seq(FreeItems)
    BY <2>3, TypeOpFacts DEF TypeOps, NeedyOps
  <2>5. inner \in Seq(FreeItems)
    BY <2>4, FreeBorrowed DEF Cells
  <2> HIDE DEF inner
  <2>6. <<Do("discriminant_insert", X)>> \in Seq(Wanting({<<"type", X>>}))
    BY <2>3, WantingDo
  <2>7. inner \in Seq(Wanting({<<"type", X>>}))
    BY <2>5, FreeWanting
  <2>8. items \in Seq(PlainItems) /\ Ready(items)
    <3> DEFINE W == Wanting({<<"type", X>>})
    <3>1. <<>> \in Seq(W) /\ inner \in Seq(W) /\ <<Do("discriminant_insert", X)>> \in Seq(W)
      BY <2>6, <2>7
    <3> HIDE DEF W
    <3>2. items \in Seq(W)
      BY <3>1
    <3> QED
      BY <2>3, <3>2, KnownReady DEF W
  <2>9. Nameless("discriminant_func")
    BY DEF Nameless, Ordinary, SpecialOps, Stages, OpRank
  <2> HIDE DEF items
  <2> QED
    BY <2>1, <2>2, <2>8, <2>9, NamelessStep
<1> QED
  BY <1>1, <1>2

-------------------------------------------------------------------------------
(* Arrays and snapshots *)

LEMMA ArrayFacts ==
  ASSUME NEW ty \in ArrayTypes PROVE ty \in CrateTypes /\ ty.args[1] \in CrateTypes
<1>1. ty \in CrateTypes /\ ty.args \in Seq(CrateTypes) /\ Len(ty.args) = 1
  BY TypesAssumption DEF ArrayTypes
<1> QED
  BY <1>1

LEMMA ArrayTables == IInv /\ TInv /\ EncodeArrayTypes => TInv'
<1> SUFFICES ASSUME IInv, TInv, EncodeArrayTypes PROVE TInv'
  OBVIOUS
<1> DEFINE inner == IF X \in enc.array_types THEN <<>>
                    ELSE <<Do("predicate_use", X), Do("predicate_use", X.args[1]), Do("array_types_insert", X)>>
           items == Borrowed("array_types_encoder", inner)
<1>1. Next1("array_types") /\ NoIntern /\ ColumnsSame /\ Run(items)
  BY SameColumns DEF EncodeArrayTypes
<1>2. X \in ArrayTypes
  BY <1>1, HeadItem, ItemFacts
<1>3. X \in CrateTypes /\ X.args[1] \in CrateTypes
  BY <1>2, ArrayFacts
<1>4. <<Do("predicate_use", X), Do("predicate_use", X.args[1]), Do("array_types_insert", X)>> \in Seq(FreeItems)
  BY <1>3, TypeOpFacts DEF TypeOps, NeedyOps
<1>5. inner \in Seq(FreeItems)
  BY <1>4
<1> HIDE DEF inner
<1>6. items \in Seq(FreeItems)
  BY <1>5, FreeBorrowed DEF Cells
<1>7. Nameless("array_types")
  BY DEF Nameless, Ordinary, SpecialOps, Stages, OpRank
<1> HIDE DEF items
<1> QED
  BY <1>1, <1>6, <1>7, FreeStep

LEMMA FreeSnapshotParts ==
  ASSUME NEW ty \in CrateTypes PROVE SnapshotParts(ty) \in Seq(FreeItems)
<1>1. FieldSnapshots(ty) \in Seq(FreeItems)
  BY TypesAssumption, TypeOpFacts DEF FieldSnapshots, TypeLoops, LoopOps
<1>2. <<Do("predicate_def", ty)>> \in Seq(FreeItems)
  BY TypeOpFacts DEF TypeOps, NeedyOps
<1>3. ty.kind \in {"array", "slice"} => ArrayParts(ty) \in Seq(FreeItems) /\ SliceParts(ty) \in Seq(FreeItems)
  <2> SUFFICES ASSUME ty.kind \in {"array", "slice"}
               PROVE  ArrayParts(ty) \in Seq(FreeItems) /\ SliceParts(ty) \in Seq(FreeItems)
    OBVIOUS
  <2>1. ty \in ArrayTypes /\ ty.args[1] \in CrateTypes
    BY ArrayFacts DEF ArrayTypes
  <2>2. Do("encode_snapshot", ty.args[1]) \in FreeItems /\ Do("array_types", ty) \in FreeItems
    BY <2>1, FreeDo, TypeOpFacts DEF TypeOps, NeedyOps
  <2>3. /\ Do("builtin_function", <<"array_lookup_pure", ty>>) \in FreeItems
        /\ Do("builtin_function", <<"slice_len", ty>>) \in FreeItems
        /\ Do("builtin_function", <<"slice_lookup_pure", ty>>) \in FreeItems
    BY <2>1, FreeDo, ArrayFacts DEF ArrayFunctions
  <2> QED
    BY <2>2, <2>3 DEF ArrayParts, SliceParts
<1> QED
  BY <1>1, <1>2, <1>3 DEF SnapshotParts

LEMMA SnapshotTables ==
  ASSUME IInv, TInv, EncodeSnapshotApi \/ EncodeSnapshot \/ SnapshotOfField \/ SnapApp
  PROVE  TInv'
<1>1. CASE EncodeSnapshotApi
  <2> DEFINE items == Borrowed("snapshot_encoder", <<Do("encode_snapshot", X)>>)
  <2>1. Next1("snapshot") /\ NoIntern /\ ColumnsSame /\ Run(items)
    BY <1>1, SameColumns DEF EncodeSnapshotApi
  <2>2. X \in CrateTypes
    BY <2>1, TypeAtHead DEF TypeOps
  <2>3. <<Do("encode_snapshot", X)>> \in Seq(FreeItems)
    BY <2>2, TypeOpFacts DEF TypeOps, NeedyOps
  <2>4. items \in Seq(FreeItems)
    BY <2>3, FreeBorrowed DEF Cells
  <2>5. Nameless("snapshot")
    BY DEF Nameless, Ordinary, SpecialOps, Stages, OpRank
  <2> HIDE DEF items
  <2> QED
    BY <2>1, <2>4, <2>5, FreeStep
<1>2. CASE EncodeSnapshot
  <2> DEFINE ty == ResolveTyparam(StripRefsAndBoxes[X], enc.typaram_repl)
             items == <<Do("predicate_use", ty), Do("snapshot_lookup", ty)>>
  <2>1. Next1("encode_snapshot") /\ NoIntern /\ ColumnsSame /\ Run(items)
    BY <1>2, SameColumns DEF EncodeSnapshot
  <2>2. X \in CrateTypes
    BY <2>1, TypeAtHead DEF TypeOps
  <2>3. CurrentMap \in CrateMaps
    BY CurrentMapFacts DEF TInv
  <2>4. ty \in CrateTypes
    BY <2>2, <2>3, TypesAssumption, MapsAssumption DEF ResolveTyparam, CurrentMap
  <2> HIDE DEF ty
  <2>5. <<Do("snapshot_lookup", ty)>> \in Seq(Wanting({<<"type", ty>>}))
    BY <2>4, WantingDo
  <2>6. items = <<Do("predicate_use", ty)>> \o <<Do("snapshot_lookup", ty)>>
    OBVIOUS
  <2>7. items \in Seq(PlainItems) /\ Ready(items)
    BY <2>4, <2>5, <2>6, AfterUse
  <2>8. Nameless("encode_snapshot")
    BY DEF Nameless, Ordinary, SpecialOps, Stages, OpRank
  <2> HIDE DEF items
  <2> QED
    BY <2>1, <2>7, <2>8, NamelessStep
<1>3. CASE SnapshotOfField
  <2> DEFINE items == <<Do("predicate_use", X), Do("snap_app", X), Do("encode_snapshot", X)>>
  <2>1. Next1("snapshot_field") /\ NoIntern /\ ColumnsSame /\ Run(items)
    BY <1>3, SameColumns DEF SnapshotOfField
  <2>2. X \in CrateTypes
    BY <2>1, TypeAtHead DEF TypeOps
  <2>3. Do("snap_app", X) \in Wanting({<<"type", X>>}) /\ Do("encode_snapshot", X) \in FreeItems
    BY <2>2, WantingDo, TypeOpFacts DEF TypeOps, NeedyOps
  <2>4. <<Do("snap_app", X), Do("encode_snapshot", X)>> \in Seq(Wanting({<<"type", X>>}))
    BY <2>3, FreeWanting
  <2>5. items = <<Do("predicate_use", X)>> \o <<Do("snap_app", X), Do("encode_snapshot", X)>>
    OBVIOUS
  <2>6. items \in Seq(PlainItems) /\ Ready(items)
    BY <2>2, <2>4, <2>5, AfterUse
  <2>7. Nameless("snapshot_field")
    BY DEF Nameless, Ordinary, SpecialOps, Stages, OpRank
  <2> HIDE DEF items
  <2> QED
    BY <2>1, <2>6, <2>7, NamelessStep
<1>4. CASE SnapApp
  <2> DEFINE ty == enc.predicate_types[Name(X)]
             inner == StripRefsAndBoxes[ty]
             items == For("predicate_use", Dereferenced[ty])
                      \o (IF inner.kind = "prim" \/ IsUnit(inner) THEN <<>> ELSE <<Do("encode_snapshot", inner)>>)
  <2>1. Next1("snap_app") /\ NoIntern /\ ColumnsSame /\ Run(items)
    BY <1>4, SameColumns DEF SnapApp
  <2>2. ty \in CrateTypes
    BY <2>1, NameAtHead
  <2> HIDE DEF ty
  <2>3. inner \in CrateTypes /\ Dereferenced[ty] \in Seq(CrateTypes)
    BY <2>2, TypesAssumption
  <2> HIDE DEF inner
  <2>4. For("predicate_use", Dereferenced[ty]) \in Seq(FreeItems)
    BY <2>3, TypeOpFacts DEF TypeLoops, LoopOps
  <2>5. <<Do("encode_snapshot", inner)>> \in Seq(FreeItems)
    BY <2>3, TypeOpFacts DEF TypeOps, NeedyOps
  <2>6. items \in Seq(FreeItems)
    BY <2>4, <2>5
  <2>7. Nameless("snap_app")
    BY DEF Nameless, Ordinary, SpecialOps, Stages, OpRank
  <2> HIDE DEF items
  <2> QED
    BY <2>1, <2>6, <2>7, FreeStep
<1> QED
  BY <1>1, <1>2, <1>3, <1>4

LEMMA SnapshotLookup == IInv /\ TInv /\ LookUpSnapshot => TInv'
<1> SUFFICES ASSUME IInv, TInv, LookUpSnapshot PROVE TInv'
  OBVIOUS
<1>1. Next1("snapshot_lookup") /\ NoIntern
  BY DEF LookUpSnapshot
<1>2. Nameless("snapshot_lookup")
  BY DEF Nameless, Ordinary, SpecialOps, Stages, OpRank
<1>3. CASE Name(X) \in DOMAIN enc.encoded \cup enc.in_progress
  <2>1. Return /\ ColumnsSame
    BY <1>3, UseSame DEF LookUpSnapshot
  <2> QED
    BY <1>1, <1>2, <2>1, FreeReturn
<1>4. CASE Name(X) \notin DOMAIN enc.encoded \cup enc.in_progress
  <2> DEFINE items == SnapshotParts(X) \o <<Do("snapshot_insert", X)>>
             W == Wanting({<<"type", X>>})
  <2>1. Run(items)
    BY <1>4 DEF LookUpSnapshot
  <2>2. ColumnsSame
    BY <1>4 DEF LookUpSnapshot, Use, TInv, Typing, Columns, Kept, ColumnsSame
  <2>3. X \in CrateTypes /\ AllKnown({<<"type", X>>})
    BY <1>1, TypeAtHead, NameAtHead DEF TypeOps, AllKnown
  <2>4. SnapshotParts(X) \in Seq(W)
    BY <2>3, FreeSnapshotParts, FreeWanting
  <2>5. <<Do("snapshot_insert", X)>> \in Seq(W)
    BY <2>3, WantingDo
  <2> HIDE DEF W
  <2>6. items \in Seq(W)
    BY <2>4, <2>5
  <2>7. items \in Seq(PlainItems) /\ Ready(items)
    BY <2>3, <2>6, KnownReady DEF W
  <2> HIDE DEF items
  <2> QED
    BY <1>1, <1>2, <2>1, <2>2, <2>7, NamelessStep
<1> QED
  BY <1>3, <1>4

-------------------------------------------------------------------------------
(* Functions: the steps that most functions make *)

LEMMA CallTables ==
  ASSUME IInv, TInv, EncodeFunctionReturnType \/ CallPure \/ CallImpure \/ GetProcedureContractForCall
  PROVE  TInv'
<1>1. CASE EncodeFunctionReturnType
  <2> DEFINE ty == ResolveTyparam(Fns[X].ret, enc.typaram_repl)
             items == IF IsSupportedInPure[ty] THEN <<Do("snapshot", ty)>> ELSE <<Do("fail", "incorrect")>>
  <2>1. Next1("return_type") /\ NoIntern /\ ColumnsSame /\ Run(items)
    BY <1>1, SameColumns DEF EncodeFunctionReturnType
  <2>2. X \in DOMAIN Fns
    BY <2>1, FunctionAtHead DEF FunctionOps
  <2>3. CurrentMap \in CrateMaps
    BY CurrentMapFacts DEF TInv
  <2>4. Fns[X].ret \in CrateTypes
    BY <2>2, SignaturesAssumption
  <2>5. ty \in CrateTypes
    BY <2>3, <2>4, MapsAssumption DEF ResolveTyparam, CurrentMap
  <2> HIDE DEF ty
  <2>6. <<Do("snapshot", ty)>> \in Seq(FreeItems) /\ <<Do("fail", "incorrect")>> \in Seq(FreeItems)
    BY <2>5, TypeOpFacts, FreeDo DEF TypeOps, NeedyOps, ErrorKinds
  <2>7. items \in Seq(FreeItems)
    BY <2>6
  <2>8. Nameless("return_type")
    BY DEF Nameless, Ordinary, SpecialOps, Stages, OpRank
  <2> HIDE DEF items
  <2> QED
    BY <2>1, <2>7, <2>8, FreeStep
<1>2. CASE CallPure
  <2> DEFINE m == TyMap(Fns[X[1]].generics, X[2])
             items == WithTymap(m, <<Do("pure_function_use", X[1])>>)
  <2>1. Next1("call_pure") /\ NoIntern /\ ColumnsSame /\ Run(items)
    BY <1>2, SameColumns DEF CallPure
  <2>2. X[1] \in DOMAIN Fns /\ m \in CrateMaps
    BY <2>1, HeadItem, ItemFacts
  <2> HIDE DEF m
  <2>3. <<Do("pure_function_use", X[1])>> \in Seq(FreeItems)
    BY <2>2, FreeDo DEF FunctionOps
  <2>4. items \in Seq(FreeItems)
    BY <2>2, <2>3, FreeTymap
  <2>5. Nameless("call_pure")
    BY DEF Nameless, Ordinary, SpecialOps, Stages, OpRank
  <2> HIDE DEF items
  <2> QED
    BY <2>1, <2>4, <2>5, FreeStep
<1>3. CASE CallImpure
  <2> DEFINE m == TyMap(Fns[X[1]].generics, X[2])
             items == WithTymap(m, <<Do("contract_for_call", X[1])>>)
  <2>1. Next1("call_impure") /\ NoIntern /\ ColumnsSame /\ Run(items)
    BY <1>3, SameColumns DEF CallImpure
  <2>2. X[1] \in DOMAIN Fns /\ m \in CrateMaps
    BY <2>1, HeadItem, ItemFacts
  <2> HIDE DEF m
  <2>3. <<Do("contract_for_call", X[1])>> \in Seq(FreeItems)
    BY <2>2, FreeDo DEF FunctionOps
  <2>4. items \in Seq(FreeItems)
    BY <2>2, <2>3, FreeTymap
  <2>5. Nameless("call_impure")
    BY DEF Nameless, Ordinary, SpecialOps, Stages, OpRank
  <2> HIDE DEF items
  <2> QED
    BY <2>1, <2>4, <2>5, FreeStep
<1>4. CASE GetProcedureContractForCall
  <2> DEFINE items == IF Len(enc.typaram_repl) # 1 THEN <<Do("fail", "internal")>>
                      ELSE Fns[X].spec \o Fns[X].post
  <2>1. Next1("contract_for_call") /\ NoIntern /\ ColumnsSame /\ Run(items)
    BY <1>4, SameColumns DEF GetProcedureContractForCall
  <2>2. X \in DOMAIN Fns
    BY <2>1, FunctionAtHead DEF FunctionOps
  <2>3. Fns[X].spec \in Seq(FreeItems) /\ Fns[X].post \in Seq(FreeItems)
    BY <2>2, FreeRequests
  <2>4. <<Do("fail", "internal")>> \in Seq(FreeItems)
    BY FreeDo DEF ErrorKinds
  <2>5. items \in Seq(FreeItems)
    BY <2>3, <2>4
  <2>6. Nameless("contract_for_call")
    BY DEF Nameless, Ordinary, SpecialOps, Stages, OpRank
  <2> HIDE DEF items
  <2> QED
    BY <2>1, <2>5, <2>6, FreeStep
<1> QED
  BY <1>1, <1>2, <1>3, <1>4

LEMMA ExpressionTables ==
  ASSUME IInv, TInv, EncodePureExpression \/ LookUpPureExpression \/ EncodeSpecFuncs
  PROVE  TInv'
<1>1. CASE EncodePureExpression
  <2> DEFINE rest == <<Do("assertion_lookup", X), Do("register", "verification")>>
             items == SubstitutionNames \o rest
  <2>1. Next1("assertion") /\ NoIntern /\ ColumnsSame /\ Run(items)
    BY <1>1, SameColumns DEF EncodePureExpression
  <2>2. X \in DOMAIN Fns
    BY <2>1, FunctionAtHead DEF FunctionOps
  <2>3. SubstitutionNames \in Seq(FreeItems)
    BY CurrentMapFacts, SubstitutionFacts DEF TInv
  <2>4. rest \in Seq(FreeItems)
    BY <2>2, FreeDo DEF FunctionOps, ErrorKinds
  <2> HIDE DEF rest
  <2>5. items \in Seq(FreeItems)
    BY <2>3, <2>4
  <2>6. Nameless("assertion")
    BY DEF Nameless, Ordinary, SpecialOps, Stages, OpRank
  <2> HIDE DEF items
  <2> QED
    BY <2>1, <2>5, <2>6, FreeStep
<1>2. CASE LookUpPureExpression
  <2> DEFINE items == IF Key(X) \in enc.pure_function_bodies THEN <<>>
                      ELSE Fns[X].body \o <<Do("assertion_insert", X)>>
  <2>1. Next1("assertion_lookup") /\ NoIntern /\ ColumnsSame /\ Run(items)
    BY <1>2, SameColumns DEF LookUpPureExpression
  <2>2. X \in DOMAIN Fns
    BY <2>1, FunctionAtHead DEF FunctionOps
  <2>3. Fns[X].body \in Seq(FreeItems) /\ <<Do("assertion_insert", X)>> \in Seq(FreeItems)
    BY <2>2, FreeRequests, FreeDo DEF FunctionOps
  <2>4. items \in Seq(FreeItems)
    BY <2>3
  <2>5. Nameless("assertion_lookup")
    BY DEF Nameless, Ordinary, SpecialOps, Stages, OpRank
  <2> HIDE DEF items
  <2> QED
    BY <2>1, <2>4, <2>5, FreeStep
<1>3. CASE EncodeSpecFuncs
  <2> DEFINE a == For("item_name", Fns[X].spec_names)
             b == For("snapshot", Fns[X].args)
             c == Borrowed("snapshot_encoder", <<>>)
             d == <<Do("spec_funcs_insert", X)>>
             items == IF X \in enc.spec_functions THEN <<>>
                      ELSE a \o b \o Fns[X].spec \o Fns[X].post \o c \o d
  <2>1. Next1("spec_funcs") /\ NoIntern /\ ColumnsSame /\ Run(items)
    BY <1>3, SameColumns DEF EncodeSpecFuncs
  <2>2. X \in DOMAIN Fns
    BY <2>1, FunctionAtHead DEF FunctionOps
  <2>3. Fns[X].spec \in Seq(FreeItems) /\ Fns[X].post \in Seq(FreeItems)
    BY <2>2, FreeRequests
  <2>4. a \in Seq(FreeItems)
    BY <2>2, SignaturesAssumption, FreeLoops
  <2>5. b \in Seq(FreeItems)
    BY <2>2, SignaturesAssumption, FreeLoops DEF TypeLoops, LoopOps
  <2>6. <<>> \in Seq(FreeItems)
    OBVIOUS
  <2>7. c \in Seq(FreeItems)
    BY <2>6, FreeBorrowed DEF Cells
  <2>8. d \in Seq(FreeItems)
    BY <2>2, FreeDo DEF FunctionOps
  <2> HIDE DEF a, b, c, d
  <2>9. items \in Seq(FreeItems)
    BY <2>3, <2>4, <2>5, <2>7, <2>8
  <2>10. Nameless("spec_funcs")
    BY DEF Nameless, Ordinary, SpecialOps, Stages, OpRank
  <2> HIDE DEF items
  <2> QED
    BY <2>1, <2>9, <2>10, FreeStep
<1> QED
  BY <1>1, <1>2, <1>3

\* The queue grows by a function with the current type map.
LEMMA UseTables == IInv /\ TInv /\ EncodePureFunctionUse => TInv'
<1> SUFFICES ASSUME IInv, TInv, EncodePureFunctionUse PROVE TInv'
  OBVIOUS
<1> DEFINE items == <<Do("item_name", X), Do("return_type", X)>>
           it    == <<X, CurrentMap>>
           op    == "pure_function_use"
<1>1. Next1(op) /\ NoIntern /\ work' = items \o Tail(work)
  BY DEF EncodePureFunctionUse, Run
<1>2. /\ enc'.queue = Append(enc.queue, it) /\ Accountless /\ enc'.typaram_repl = enc.typaram_repl
      /\ enc'.type_predicate_names = enc.type_predicate_names /\ enc'.predicate_types = enc.predicate_types
      /\ enc'.type_invariant_names = enc.type_invariant_names
  BY DEF EncodePureFunctionUse, Use, TInv, Typing, Columns, Kept, Accountless
<1>3. X \in DOMAIN Fns /\ X \in FullNames
  BY <1>1, FunctionAtHead, SignaturesAssumption DEF FunctionOps
<1>4. items \in Seq(FreeItems)
  BY <1>3, FreeDo DEF FunctionOps
<1>5. items \in Seq(PlainItems) /\ Ready(items)
  BY <1>4, FreeReady
<1>6. CurrentMap \in CrateMaps
  BY CurrentMapFacts DEF TInv
<1>7. MapsTyped'
  <2>1. IsSeq(enc.queue) /\ Len(enc.queue) \in Nat
    BY SeqFacts DEF IInv, QueueOK
  <2>2. /\ Len(Append(enc.queue, it)) = Len(enc.queue) + 1
        /\ \A i \in 1 .. Len(enc.queue) : Append(enc.queue, it)[i] = enc.queue[i]
        /\ Append(enc.queue, it)[Len(enc.queue) + 1] = it
    BY <2>1, AppendFacts
  <2>3. it[2] \in CrateMaps
    BY <1>6
  <2>4. \A i \in 1 .. Len(enc.queue) : enc.queue[i][2] \in CrateMaps
    BY DEF TInv, Typing
  <2> HIDE DEF it
  <2>5. \A i \in 1 .. Len(enc.queue) + 1 : Append(enc.queue, it)[i][2] \in CrateMaps
    BY <2>1, <2>2, <2>3, <2>4
  <2> QED
    BY <1>2, <2>2, <2>5 DEF MapsTyped, TInv, Typing
<1>8. SameNames
  BY <1>1, <1>2 DEF SameNames, SameTables, NoIntern, internerVars
<1>9. Names' /\ NamesKept /\ MapsKept
  BY <1>2, <1>8, NamesSame, MapsSame DEF TInv
<1>10. Ordinary(op) /\ op \notin {"push_tymap", "pop_tymap"} /\ Nameless(op)
  BY DEF Nameless, Ordinary, SpecialOps, Stages, OpRank
<1>11. Gives(work[1]) = {} /\ Rank(work[1]) # 0
  BY <1>1, <1>10, AtHead, NamelessFacts
<1> HIDE DEF items, op
<1> QED
  BY <1>1, <1>2, <1>5, <1>7, <1>9, <1>10, <1>11, OrdinaryStep

-------------------------------------------------------------------------------
(* The steps that name types *)

ZeroItems == {it \in PlainItems : Rank(it) = 0}

ZeroOps == {"encode_type", "predicate_use", "predicate_name", "predicate_def", "predicate_insert"}

LEMMA ZeroDo ==
  /\ \A op \in ZeroOps, x \in CrateTypes : Do(op, x) \in ZeroItems
  /\ \A x \in FullNames : Do("item_name", x) \in ZeroItems
<1>1. \A op \in ZeroOps \cup {"item_name"} : \A x : Rank(Do(op, x)) = 0
  <2> TAKE op \in ZeroOps \cup {"item_name"}
  <2> TAKE x
  <2>1. Do(op, x).op = op
    BY DEF Do
  <2> QED
    BY <2>1 DEF Rank, OpRank, ZeroOps
<1>2. ZeroOps \subseteq TypeOps
  BY DEF ZeroOps, TypeOps
<1> QED
  BY <1>1, <1>2, PlainDo DEF ZeroItems

LEMMA ZeroLoop ==
  ASSUME NEW xs \in Seq(CrateTypes) PROVE For("predicate_use", xs) \in Seq(ZeroItems)
<1> DEFINE it == Do("for", <<"predicate_use", xs>>)
<1>1. For("predicate_use", xs) \in Seq(FreeItems)
  BY FreeLoops DEF TypeLoops, LoopOps
<1>2. CASE xs = <<>>
  BY <1>2 DEF For
<1>3. CASE xs # <<>>
  <2>1. For("predicate_use", xs) = <<it>>
    BY <1>3 DEF For
  <2>2. it.op = "for" /\ it.x[1] = "predicate_use"
    BY DEF Do
  <2> HIDE DEF it
  <2>3. <<it>> \in Seq(PlainItems)
    BY <1>1, <2>1, FreeReady
  <2>4. it \in PlainItems
    BY <2>3, SingletonFacts, PlainSeq
  <2>5. Rank(it) = 0
    BY <2>2 DEF Rank, OpRank
  <2>6. it \in ZeroItems
    BY <2>4, <2>5 DEF ZeroItems
  <2>7. <<it>> \in Seq(ZeroItems)
    BY <2>6
  <2> QED
    BY <2>1, <2>7
<1> QED
  BY <1>2, <1>3

LEMMA ZeroTypeName ==
  ASSUME NEW ty \in CrateTypes PROVE TypeName(ty) \in Seq(ZeroItems)
<1>1. ItemName(ty) \in Seq(ZeroItems)
  <2>1. CASE ty.kind = "adt"
    BY <2>1, TypesAssumption, ZeroDo DEF ItemName
  <2>2. CASE ty.kind # "adt"
    BY <2>2 DEF ItemName
  <2> QED
    BY <2>1, <2>2
<1>2. NameParts(ty) \in Seq(CrateTypes)
  BY TypesAssumption DEF NameParts
<1>3. For("predicate_use", NameParts(ty)) \in Seq(ZeroItems)
  BY <1>2, ZeroLoop
<1> QED
  BY <1>1, <1>3 DEF TypeName

LEMMA ZeroFacts ==
  ASSUME NEW s, s \in Seq(ZeroItems) PROVE \A i \in 1 .. Len(s) : Rank(s[i]) = 0
<1>1. \A i \in 1 .. Len(s) : s[i] \in ZeroItems
  OBVIOUS
<1> QED
  BY <1>1 DEF ZeroItems

\* A step that names types and calls steps that do.
LEMMA NamingStep ==
  ASSUME IInv, TInv, NEW op \in ZeroOps, Next1(op),
         NEW items, items \in Seq(PlainItems), Ready(items), Run(items), ColumnsSame, NoIntern,
         \A w \in GivenBy(op, X) : Known(w) \/ Provides(items, w),
         items \in Seq(ZeroItems)
  PROVE  TInv'
<1>1. Ordinary(op) /\ op \notin {"push_tymap", "pop_tymap"} /\ op # "for"
  BY DEF Ordinary, SpecialOps, Stages, ZeroOps
<1>2. Gives(work[1]) = GivenBy(op, X)
  BY <1>1, AtHead DEF Gives
<1>3. \A i \in 1 .. Len(items) : Rank(items[i]) = 0
  BY ZeroFacts
<1> QED
  BY <1>1, <1>2, <1>3, PlainStep2

LEMMA NamingReturn ==
  ASSUME IInv, TInv, NEW op \in ZeroOps, Next1(op), Return, ColumnsSame, NoIntern, AllKnown(GivenBy(op, X))
  PROVE  TInv'
<1>1. <<>> \in Seq(FreeItems) /\ <<>> \in Seq(ZeroItems)
  OBVIOUS
<1>2. <<>> \in Seq(PlainItems) /\ Ready(<<>>)
  BY <1>1, FreeReady
<1> QED
  BY <1>1, <1>2, NamingStep DEF Return, AllKnown

LEMMA PredicateUse == IInv /\ TInv /\ EncodeTypePredicateUse => TInv'
<1> SUFFICES ASSUME IInv, TInv, EncodeTypePredicateUse PROVE TInv'
  OBVIOUS
<1>1. Next1("predicate_use") /\ NoIntern /\ "predicate_use" \in ZeroOps
  BY DEF EncodeTypePredicateUse, ZeroOps
<1>2. GivenBy("predicate_use", X) = {<<"type", X>>}
  BY DEF GivenBy
<1>3. CASE X \in DOMAIN enc.type_predicate_names
  <2>1. Return /\ ColumnsSame
    BY <1>3, UseSame DEF EncodeTypePredicateUse
  <2>2. AllKnown(GivenBy("predicate_use", X))
    BY <1>2, <1>3 DEF AllKnown, Known
  <2> QED
    BY <1>1, <2>1, <2>2, NamingReturn
<1>4. CASE X \notin DOMAIN enc.type_predicate_names
  <2> DEFINE p == TypeName(X)
             s == <<Do("predicate_name", X), Do("predicate_def", X)>>
             items == p \o s
  <2>1. Run(items) /\ ColumnsSame
    BY <1>4, SameColumns DEF EncodeTypePredicateUse
  <2>2. X \in CrateTypes
    BY <1>1, TypeAtHead DEF TypeOps
  <2>3. s \in Seq(Wanting(Parts(X)))
    BY <2>2, WantingDo, TypeOpFacts, FreeWanting DEF TypeOps, NeedyOps
  <2>4. p \in Seq(ZeroItems) /\ s \in Seq(ZeroItems)
    BY <2>2, ZeroTypeName, ZeroDo DEF ZeroOps
  <2>5. IsSeq(p) /\ IsSeq(s)
    BY <2>4 DEF IsSeq
  <2>6. Provides(s, <<"type", X>>)
    <3> DEFINE it == Do("predicate_name", X)
    <3>1. it.op = "predicate_name" /\ it.x = X
      BY DEF Do
    <3>2. s[1] = it /\ 1 \in 1 .. Len(s)
      OBVIOUS
    <3> HIDE DEF it, s
    <3>3. <<"type", X>> \in Gives(it)
      BY <3>1 DEF Gives, GivenBy
    <3> QED
      BY <3>2, <3>3 DEF Provides
  <2> HIDE DEF s
  <2>7. items \in Seq(PlainItems) /\ Ready(items)
    BY <2>2, <2>3, AfterName
  <2> HIDE DEF p
  <2>8. items \in Seq(ZeroItems)
    BY <2>4
  <2>9. Provides(items, <<"type", X>>)
    BY <2>5, <2>6, ProvidesConcat
  <2> HIDE DEF items
  <2>10. \A w \in GivenBy("predicate_use", X) : Known(w) \/ Provides(items, w)
    BY <1>2, <2>9
  <2> QED
    BY <1>1, <2>1, <2>7, <2>8, <2>10, NamingStep
<1> QED
  BY <1>3, <1>4

LEMMA PredicateDef == IInv /\ TInv /\ EncodeTypePredicateDef => TInv'
<1> SUFFICES ASSUME IInv, TInv, EncodeTypePredicateDef PROVE TInv'
  OBVIOUS
<1> DEFINE op == "predicate_def"
<1>1. Next1(op) /\ NoIntern /\ op \in ZeroOps /\ ColumnsSame
  BY SameColumns DEF EncodeTypePredicateDef, ZeroOps
<1>2. GivenBy(op, X) = {}
  BY DEF GivenBy
<1>3. X \in CrateTypes
  BY <1>1, TypeAtHead DEF TypeOps
<1>4. CASE X \notin DOMAIN enc.type_predicate_names
  <2> DEFINE items == <<Do("predicate_use", X), Do("predicate_def", X)>>
  <2>1. Run(items)
    BY <1>4 DEF EncodeTypePredicateDef
  <2>2. items \in Seq(FreeItems) /\ items \in Seq(ZeroItems)
    BY <1>3, TypeOpFacts, ZeroDo DEF TypeOps, NeedyOps, ZeroOps
  <2> HIDE DEF items, op
  <2>3. items \in Seq(PlainItems) /\ Ready(items)
    BY <2>2, FreeReady
  <2> QED
    BY <1>1, <1>2, <2>1, <2>2, <2>3, NamingStep
<1>5. CASE X \in DOMAIN enc.type_predicate_names /\ Name(X) \in DOMAIN enc.type_predicates
  <2>1. Return
    BY <1>5 DEF EncodeTypePredicateDef
  <2> HIDE DEF op
  <2> QED
    BY <1>1, <1>2, <2>1, NamingReturn DEF AllKnown
<1>6. CASE X \in DOMAIN enc.type_predicate_names /\ Name(X) \notin DOMAIN enc.type_predicates
  <2> DEFINE p == For("predicate_use", FieldTys(X))
             it == Do("predicate_insert", X)
             S == Needs(it)
             items == p \o <<it>>
  <2>1. Run(items)
    BY <1>6 DEF EncodeTypePredicateDef
  <2>2. FieldTys(X) \in Seq(CrateTypes)
    BY <1>3, TypesAssumption
  <2>3. p \in Seq(FreeItems) /\ p \in Seq(ZeroItems) /\ <<it>> \in Seq(ZeroItems)
    BY <1>3, <2>2, TypeOpFacts, ZeroLoop, ZeroDo DEF TypeLoops, LoopOps, ZeroOps
  <2>4. S = {<<"type", X>>} \cup {<<"type", FieldTys(X)[i]>> : i \in DOMAIN FieldTys(X)}
    <3>1. it.op = "predicate_insert" /\ it.x = X
      BY DEF Do
    <3> HIDE DEF it
    <3> QED
      BY <3>1 DEF Needs
  <2>5. it \in PlainItems
    BY <1>3, PlainDo DEF TypeOps
  <2>6. <<it>> \in Seq(Wanting(S))
    <3> HIDE DEF it
    <3> QED
      BY <2>5 DEF Wanting
  <2> HIDE DEF it, S
  <2>7. ASSUME NEW w \in S PROVE Known(w) \/ Provides(p, w)
    <3>1. CASE w = <<"type", X>>
      BY <1>6, <3>1 DEF Known
    <3>2. CASE \E i \in DOMAIN FieldTys(X) : w = <<"type", FieldTys(X)[i]>>
      <4>1. PICK i \in 1 .. Len(FieldTys(X)) : w = <<"type", FieldTys(X)[i]>>
        BY <2>2, <3>2
      <4>2. w \in GivenBy("predicate_use", FieldTys(X)[i])
        BY <4>1 DEF GivenBy
      <4> QED
        BY <2>2, <4>2, LoopProvides
    <3> QED
      BY <2>4, <3>1, <3>2
  <2> HIDE DEF p
  <2>8. items \in Seq(PlainItems) /\ Ready(items)
    BY <2>3, <2>6, <2>7, AfterProviders
  <2>9. items \in Seq(ZeroItems)
    BY <2>3
  <2> HIDE DEF items, op
  <2> QED
    BY <1>1, <1>2, <2>1, <2>8, <2>9, NamingStep
<1> QED
  BY <1>4, <1>5, <1>6

LEMMA PredicateInsert ==
  ASSUME IInv, TInv, InsertPredicate \/ InsertArrayTypes
  PROVE  TInv'
<1>1. CASE InsertPredicate
  <2>1. Next1("predicate_insert") /\ Return /\ NoIntern /\ "predicate_insert" \in ZeroOps
    BY <1>1 DEF InsertPredicate, ZeroOps
  <2>2. ColumnsSame
    BY <1>1 DEF InsertPredicate, TInv, Typing, Columns, Kept, ColumnsSame
  <2>3. GivenBy("predicate_insert", X) = {}
    BY DEF GivenBy
  <2> QED
    BY <2>1, <2>2, <2>3, NamingReturn DEF AllKnown
<1>2. CASE InsertArrayTypes
  <2> DEFINE op == "array_types_insert"
  <2>1. Next1(op) /\ Return /\ NoIntern
    BY <1>2 DEF InsertArrayTypes
  <2>2. ColumnsSame
    BY <1>2 DEF InsertArrayTypes, TInv, Typing, Columns, Kept, ColumnsSame
  <2>3. Gives(work[1]) = {}
    BY <2>1, AtHead DEF Gives, GivenBy
  <2>4. Ordinary(op) /\ op \notin {"push_tymap", "pop_tymap"}
    BY DEF Ordinary, SpecialOps, Stages
  <2>5. <<>> \in Seq(FreeItems)
    OBVIOUS
  <2>6. <<>> \in Seq(PlainItems) /\ Ready(<<>>)
    BY <2>5, FreeReady
  <2>7. <<>> \in Seq(ZeroItems)
    OBVIOUS
  <2>8. \A i \in 1 .. Len(<<>>) : Rank(<<>>[i]) = 0
    BY <2>7, ZeroFacts
  <2> HIDE DEF op
  <2> QED
    BY <2>1, <2>2, <2>3, <2>4, <2>6, <2>8, PlainStep2 DEF Return
<1> QED
  BY <1>1, <1>2

LEMMA TypeTables == IInv /\ TInv /\ EncodeType => TInv'
<1> SUFFICES ASSUME IInv, TInv, EncodeType PROVE TInv'
  OBVIOUS
<1> DEFINE items == TypeName(X)
<1>1. Next1("encode_type") /\ NoIntern /\ "encode_type" \in ZeroOps /\ ColumnsSame /\ Run(items)
  BY SameColumns DEF EncodeType, ZeroOps
<1>2. X \in CrateTypes
  BY <1>1, TypeAtHead DEF TypeOps
<1>3. GivenBy("encode_type", X) = Parts(X)
  BY DEF GivenBy
<1>4. items \in Seq(PlainItems) /\ Ready(items) /\ items \in Seq(ZeroItems)
  BY <1>2, FreeTypeName, FreeReady, ZeroTypeName
<1>5. \A w \in GivenBy("encode_type", X) : Provides(items, w)
  BY <1>2, <1>3, TypeNameProvides
<1> HIDE DEF items
<1> QED
  BY <1>1, <1>4, <1>5, NamingStep

LEMMA LoopTables == IInv /\ TInv /\ Iterate => TInv'
<1> SUFFICES ASSUME IInv, TInv, Iterate PROVE TInv'
  OBVIOUS
<1>1. /\ Next1("for") /\ NoIntern /\ ColumnsSame
      /\ Run(<<Do(X[1], Head(X[2]))>> \o For(X[1], Tail(X[2])))
  BY SameColumns DEF Iterate
<1>2. work[1] \in Loops /\ work[1].op = "for" /\ X = work[1].x
  BY <1>1, HeadItem, ItemFacts
<1>3. PICK S \in {CrateTypes, FullNames} :
        /\ X[2] \in Seq(S) /\ X[2] # <<>>
        /\ (X[1] \in TypeLoops /\ S = CrateTypes) \/ (X[1] = "item_name" /\ S = FullNames)
  BY <1>2 DEF Loops
<1>4. PICK op, xs : op = X[1] /\ xs = X[2]
  OBVIOUS
<1> DEFINE h == Head(xs)
           t == Tail(xs)
           it == Do(op, h)
           r == For(op, t)
           items == <<it>> \o r
<1>5. /\ xs \in Seq(S) /\ xs # <<>> /\ h \in S /\ h = xs[1] /\ t \in Seq(S) /\ Len(t) = Len(xs) - 1
      /\ \A i \in 2 .. Len(xs) : i - 1 \in 1 .. Len(t) /\ t[i - 1] = xs[i]
  BY <1>3, <1>4
<1>6. op \in LoopOps /\ op # "for" /\ op \notin {"borrow_mut", "release"}
  BY <1>3, <1>4 DEF TypeLoops, LoopOps
<1>7. it.op = op /\ it.x = h
  BY DEF Do
<1> HIDE DEF h, t
<1>8. it \in FreeItems
  <2>1. CASE op \in TypeLoops /\ S = CrateTypes
    BY <1>5, <2>1, TypeOpFacts DEF TypeLoops, LoopOps, TypeOps, NeedyOps
  <2>2. CASE op = "item_name" /\ S = FullNames
    BY <1>5, <2>2, FreeDo
  <2> QED
    BY <1>3, <1>4, <2>1, <2>2
<1>9. r \in Seq(FreeItems)
  BY <1>3, <1>4, <1>5, FreeLoops
<1>10. Rank(work[1]) = OpRank(op)
  BY <1>2, <1>4 DEF Rank
<1>11. Rank(it) = OpRank(op)
  <2> HIDE DEF it
  <2> QED
    BY <1>6, <1>7 DEF Rank
<1>12. \A i \in 1 .. Len(r) : Rank(r[i]) = OpRank(op)
  <2>1. CASE t = <<>>
    BY <2>1, EmptyFacts DEF For
  <2>2. CASE t # <<>>
    <3> DEFINE e == Do("for", <<op, t>>)
    <3>1. r = <<e>>
      BY <2>2 DEF For
    <3>2. e.op = "for" /\ e.x[1] = op
      BY DEF Do
    <3> HIDE DEF e, r
    <3>3. Rank(e) = OpRank(op)
      BY <3>2 DEF Rank
    <3> QED
      BY <3>1, <3>3, SingletonFacts
  <2> QED
    BY <2>1, <2>2
<1>13. Gives(it) = GivenBy(op, h)
  <2> HIDE DEF it
  <2> QED
    BY <1>6, <1>7 DEF Gives
<1>14. \A w : (\E i \in 2 .. Len(xs) : w \in GivenBy(op, xs[i])) => Provides(r, w)
  <2> SUFFICES ASSUME NEW w, NEW i \in 2 .. Len(xs), w \in GivenBy(op, xs[i]) PROVE Provides(r, w)
    OBVIOUS
  <2>1. i - 1 \in 1 .. Len(t) /\ w \in GivenBy(op, t[i - 1])
    BY <1>5
  <2> QED
    BY <1>5, <2>1, LoopProvides
<1> HIDE DEF it, r
<1>15. IsSeq(<<it>>) /\ IsSeq(r)
  BY <1>9, SingletonFacts DEF IsSeq
<1>16. items \in Seq(FreeItems)
  BY <1>8, <1>9
<1>17. ASSUME NEW w \in Gives(work[1]) PROVE Provides(items, w)
  <2>1. PICK i \in DOMAIN xs : w \in GivenBy(op, xs[i])
    BY <1>2, <1>4, <1>17 DEF Gives
  <2>2. i \in 1 .. Len(xs)
    BY <1>5, <2>1
  <2>3. CASE i = 1
    <3>1. w \in Gives(it)
      BY <1>5, <1>13, <2>1, <2>3
    <3>2. Provides(<<it>>, w)
      BY <3>1, SingletonFacts DEF Provides
    <3> QED
      BY <1>15, <3>2, ProvidesConcat
  <2>4. CASE i # 1
    <3>1. i \in 2 .. Len(xs)
      BY <2>2, <2>4
    <3>2. Provides(r, w)
      BY <1>14, <2>1, <3>1
    <3> QED
      BY <1>15, <3>2, ProvidesConcat
  <2> QED
    BY <2>3, <2>4
<1>18. Rank(work[1]) = 0 => \A i \in 1 .. Len(items) : Rank(items[i]) = 0
  <2>1. /\ Len(items) = 1 + Len(r) /\ items[1] = it /\ Len(r) \in Nat
        /\ \A i \in 1 .. Len(r) : items[1 + i] = r[i]
    BY <1>15, SingletonFacts, ConcatFacts, SeqFacts
  <2> HIDE DEF items
  <2>2. \A i \in 1 .. Len(items) : i = 1 \/ (i - 1 \in 1 .. Len(r) /\ 1 + (i - 1) = i)
    BY <2>1
  <2>3. \A i \in 1 .. Len(items) : i = 1 \/ (i - 1 \in 1 .. Len(r) /\ items[i] = r[i - 1])
    BY <2>1, <2>2
  <2> QED
    BY <1>10, <1>11, <1>12, <2>1, <2>3
<1>19. Run(items)
  BY <1>1, <1>4 DEF items, it, r, h, t
<1> HIDE DEF items
<1>20. items \in Seq(PlainItems) /\ Ready(items)
  BY <1>16, FreeReady
<1>21. Ordinary("for")
  BY DEF Ordinary, SpecialOps, Stages
<1> QED
  BY <1>1, <1>17, <1>18, <1>19, <1>20, <1>21, PlainStep2

-------------------------------------------------------------------------------
(* The steps that record names *)

LEMMA PartsAtHead ==
  ASSUME IInv, TInv, Next1("predicate_name") \/ Next1("invariant_name")
  PROVE  X \in CrateTypes /\ AllKnown(Parts(X))
<1>1. PICK op \in {"predicate_name", "invariant_name"} : Next1(op)
  OBVIOUS
<1>2. AllKnown(Needs(work[1])) /\ work[1].op = op /\ X = work[1].x
  BY <1>1, HeadItem
<1>3. Needs(work[1]) = Parts(X)
  BY <1>1, <1>2 DEF Needs
<1>4. X \in CrateTypes
  BY <1>1, TypeAtHead DEF TypeOps
<1> QED
  BY <1>2, <1>3, <1>4

LEMMA NameTables == IInv /\ TInv /\ RecordPredicateName => TInv'
<1> SUFFICES ASSUME IInv, TInv, RecordPredicateName PROVE TInv'
  OBVIOUS
<1> DEFINE op == "predicate_name"
<1>1. Next1(op) /\ NoIntern /\ Return
  BY DEF RecordPredicateName
<1>2. /\ enc'.type_predicate_names = Put(enc.type_predicate_names, X, NameOf(X))
      /\ enc'.predicate_types = Put(enc.predicate_types, NameOf(X), X)
      /\ enc'.type_invariant_names = enc.type_invariant_names
      /\ enc'.typaram_repl = enc.typaram_repl /\ enc'.queue = enc.queue /\ Accountless
  BY DEF RecordPredicateName, Use, TInv, Typing, Columns, Kept, Accountless
<1>3. X \in CrateTypes /\ AllKnown(Parts(X))
  BY <1>1, PartsAtHead
<1>4. Names /\ ItemShape
  BY DEF TInv
<1>5. PICK n, ty : n = NameOf(X) /\ ty = X
  OBVIOUS
<1>6. /\ DOMAIN enc'.type_predicate_names = DOMAIN enc.type_predicate_names \cup {ty}
      /\ enc'.type_predicate_names[ty] = n
      /\ \A t \in DOMAIN enc.type_predicate_names : t # ty =>
           enc'.type_predicate_names[t] = enc.type_predicate_names[t]
      /\ DOMAIN enc'.predicate_types = DOMAIN enc.predicate_types \cup {n}
      /\ \A m \in DOMAIN enc'.predicate_types :
           enc'.predicate_types[m] = IF m = n THEN ty ELSE enc.predicate_types[m]
  BY <1>2, <1>5 DEF Put
<1>7. NamesKept
  <2>1. \A t \in DOMAIN enc.type_predicate_names :
          t \in DOMAIN enc'.type_predicate_names /\ enc'.type_predicate_names[t] = enc.type_predicate_names[t]
    <3> TAKE t \in DOMAIN enc.type_predicate_names
    <3>1. enc.type_predicate_names[t] = NameOf(t)
      BY <1>4 DEF Names, Name
    <3> QED
      BY <1>5, <1>6, <3>1
  <2> QED
    BY <1>1, <2>1 DEF NamesKept, NoIntern, internerVars
<1>8. \A S : AllKnown(S) => AllKnown(S)'
  BY <1>7, KnownKept DEF AllKnown
<1>9. \A t : AllKnown(Parts(t)) => NameOf(t)' = NameOf(t)
  BY <1>7, NameKept
<1>10. Names'
  <2>1. ASSUME NEW t \in DOMAIN enc'.type_predicate_names
        PROVE  /\ t \in CrateTypes /\ AllKnown(Parts(t))' /\ Name(t)' = NameOf(t)'
               /\ Name(t)' \in DOMAIN enc'.predicate_types
    <3>1. CASE t = ty
      <4>1. Name(t)' = n
        BY <1>6, <3>1 DEF Name
      <4>2. AllKnown(Parts(t)) /\ NameOf(t) = n /\ t \in CrateTypes
        BY <1>3, <1>5, <3>1
      <4> QED
        BY <1>6, <1>8, <1>9, <4>1, <4>2
    <3>2. CASE t # ty
      <4>1. t \in DOMAIN enc.type_predicate_names /\ Name(t)' = Name(t)
        BY <1>6, <3>2 DEF Name
      <4>2. /\ t \in CrateTypes /\ AllKnown(Parts(t)) /\ Name(t) = NameOf(t)
            /\ Name(t) \in DOMAIN enc.predicate_types
        BY <1>4, <4>1 DEF Names
      <4> QED
        BY <1>6, <1>8, <1>9, <4>1, <4>2
    <3> QED
      BY <3>1, <3>2
  <2>2. \A m \in DOMAIN enc'.predicate_types : enc'.predicate_types[m] \in CrateTypes
    BY <1>3, <1>4, <1>5, <1>6 DEF Names
  <2>3. ASSUME NEW t \in DOMAIN enc'.type_invariant_names
        PROVE  t \in CrateTypes /\ AllKnown(Parts(t))' /\ enc'.type_invariant_names[t] = NameOf(t)'
    <3>1. /\ t \in DOMAIN enc.type_invariant_names
          /\ t \in CrateTypes /\ AllKnown(Parts(t)) /\ enc.type_invariant_names[t] = NameOf(t)
      BY <1>2, <1>4, <2>3 DEF Names
    <3> QED
      BY <1>2, <1>8, <1>9, <3>1
  <2> QED
    BY <2>1, <2>2, <2>3 DEF Names
<1>11. MapsKept /\ MapsTyped'
  BY <1>2, <1>4, MapsSame DEF TInv, Typing, MapsTyped
<1>12. \A w \in Gives(work[1]) : Known(w)'
  <2>1. Gives(work[1]) = {<<"type", ty>>}
    BY <1>1, <1>5, AtHead DEF Gives, GivenBy
  <2> QED
    BY <1>6, <2>1 DEF Known
<1>13. Ordinary(op)
  BY DEF Ordinary, SpecialOps, Stages
<1>14. <<>> \in Seq(FreeItems) /\ <<>> \in Seq(ZeroItems)
  OBVIOUS
<1>15. <<>> \in Seq(PlainItems) /\ Ready(<<>>) /\ \A i \in 1 .. Len(<<>>) : Rank(<<>>[i]) = 0
  <2>1. \A i \in 1 .. Len(<<>>) : Rank(<<>>[i]) = 0
    BY <1>14, ZeroFacts
  <2> QED
    BY <1>14, <2>1, FreeReady
<1>16. work' = <<>> \o Tail(work)
  BY <1>1 DEF Return, Run
<1> HIDE DEF op
<1> QED
  BY <1>1, <1>2, <1>7, <1>10, <1>11, <1>12, <1>13, <1>15, <1>16, OrdinaryStep

LEMMA FreeInvariantParts ==
  ASSUME NEW ty \in CrateTypes PROVE InvariantParts(ty) \in Seq(FreeItems)
<1>1. For("invariant_field", FieldTys(ty)) \in Seq(FreeItems)
  BY TypesAssumption, TypeOpFacts DEF TypeLoops, LoopOps
<1>2. For("predicate_use", ty.args) \in Seq(FreeItems)
  BY TypesAssumption, TypeOpFacts DEF TypeLoops, LoopOps
<1>3. IsSupportedStruct(ty) =>
        WithTymap(TyMap(Adts[ty.name].params, ty.args), For("invariant_field", FieldTys(ty))) \in Seq(FreeItems)
  BY <1>1, TypesAssumption, FreeTymap
<1> QED
  BY <1>1, <1>2, <1>3 DEF InvariantParts

LEMMA InvariantNameTables == IInv /\ TInv /\ EncodeTypeInvariantDef => TInv'
<1> SUFFICES ASSUME IInv, TInv, EncodeTypeInvariantDef PROVE TInv'
  OBVIOUS
<1> DEFINE op == "invariant_name"
           a == <<Do("predicate_use", X)>>
           c == Borrowed("snapshot_encoder", <<>>)
           d == <<Do("invariant_insert", X)>>
           items == IF NameOf(X) \in enc.type_invariants THEN <<>> ELSE a \o InvariantParts(X) \o c \o d
<1>1. Next1(op) /\ NoIntern /\ work' = items \o Tail(work)
  BY DEF EncodeTypeInvariantDef, Run
<1>2. /\ enc'.type_invariant_names = Put(enc.type_invariant_names, X, NameOf(X))
      /\ enc'.predicate_types = enc.predicate_types
      /\ enc'.type_predicate_names = enc.type_predicate_names
      /\ enc'.typaram_repl = enc.typaram_repl /\ enc'.queue = enc.queue /\ Accountless
  BY DEF EncodeTypeInvariantDef, Use, TInv, Typing, Columns, Kept, Accountless
<1>3. X \in CrateTypes /\ AllKnown(Parts(X))
  BY <1>1, PartsAtHead
<1>4. Names /\ ItemShape
  BY DEF TInv
<1>5. PICK n, ty : n = NameOf(X) /\ ty = X
  OBVIOUS
<1>6. /\ DOMAIN enc'.type_invariant_names = DOMAIN enc.type_invariant_names \cup {ty}
      /\ \A t \in DOMAIN enc'.type_invariant_names :
           enc'.type_invariant_names[t] = IF t = ty THEN n ELSE enc.type_invariant_names[t]
  BY <1>2, <1>5 DEF Put
<1>7. NamesKept
  BY <1>1, <1>2 DEF NamesKept, NoIntern, internerVars
<1>8. \A S : AllKnown(S) => AllKnown(S)'
  BY <1>7, KnownKept DEF AllKnown
<1>9. \A t : AllKnown(Parts(t)) => NameOf(t)' = NameOf(t)
  BY <1>7, NameKept
<1>10. Names'
  <2>1. ASSUME NEW t \in DOMAIN enc'.type_predicate_names
        PROVE  /\ t \in CrateTypes /\ AllKnown(Parts(t))' /\ Name(t)' = NameOf(t)'
               /\ Name(t)' \in DOMAIN enc'.predicate_types
    <3>1. t \in DOMAIN enc.type_predicate_names /\ Name(t)' = Name(t)
      BY <1>2 DEF Name
    <3>2. /\ t \in CrateTypes /\ AllKnown(Parts(t)) /\ Name(t) = NameOf(t)
          /\ Name(t) \in DOMAIN enc.predicate_types
      BY <1>4, <3>1 DEF Names
    <3> QED
      BY <1>2, <1>8, <1>9, <3>1, <3>2
  <2>2. \A m \in DOMAIN enc'.predicate_types : enc'.predicate_types[m] \in CrateTypes
    BY <1>2, <1>4 DEF Names
  <2>3. ASSUME NEW t \in DOMAIN enc'.type_invariant_names
        PROVE  t \in CrateTypes /\ AllKnown(Parts(t))' /\ enc'.type_invariant_names[t] = NameOf(t)'
    <3>1. CASE t = ty
      <4>1. t \in CrateTypes /\ AllKnown(Parts(t)) /\ enc'.type_invariant_names[t] = NameOf(t)
        BY <1>3, <1>5, <1>6, <3>1
      <4> QED
        BY <1>8, <1>9, <4>1
    <3>2. CASE t # ty
      <4>1. /\ t \in CrateTypes /\ AllKnown(Parts(t)) /\ enc'.type_invariant_names[t] = NameOf(t)
        BY <1>4, <1>6, <3>2 DEF Names
      <4> QED
        BY <1>8, <1>9, <4>1
    <3> QED
      BY <3>1, <3>2
  <2> QED
    BY <2>1, <2>2, <2>3 DEF Names
<1>11. MapsKept /\ MapsTyped'
  BY <1>2, <1>4, MapsSame DEF TInv, Typing, MapsTyped
<1>12. Ordinary(op) /\ op \notin {"push_tymap", "pop_tymap"} /\ Nameless(op)
  BY DEF Nameless, Ordinary, SpecialOps, Stages, OpRank
<1>13. Gives(work[1]) = {} /\ Rank(work[1]) # 0
  BY <1>1, <1>12, AtHead, NamelessFacts
<1>14. /\ a \in Seq(FreeItems) /\ InvariantParts(X) \in Seq(FreeItems) /\ d \in Seq(FreeItems)
       /\ <<>> \in Seq(FreeItems)
  BY <1>3, TypeOpFacts, FreeInvariantParts DEF TypeOps, NeedyOps
<1>15. c \in Seq(FreeItems)
  BY <1>14, FreeBorrowed DEF Cells
<1> HIDE DEF a, c, d
<1>16. items \in Seq(FreeItems)
  BY <1>14, <1>15
<1> HIDE DEF items, op
<1>17. items \in Seq(PlainItems) /\ Ready(items)
  BY <1>16, FreeReady
<1> QED
  BY <1>1, <1>2, <1>7, <1>10, <1>11, <1>12, <1>13, <1>17, OrdinaryStep

LEMMA SymbolTables == IInv /\ TInv /\ EncodeItemName => TInv'
<1> SUFFICES ASSUME IInv, TInv, EncodeItemName PROVE TInv'
  OBVIOUS
<1> DEFINE op == "item_name"
<1>1. Next1(op) /\ Return /\ Intern(X) /\ UNCHANGED enc
  BY DEF EncodeItemName
<1>2. X \in FullNames
  BY <1>1, HeadItem, ItemFacts
<1>3. NamesKept
  BY <1>1, <1>2, InternKeepsSymbols DEF NamesKept
<1>4. X \in DOMAIN name_to_symbol'
  BY <1>1 DEF Intern, Assign, internerVars
<1>5. SameTables /\ Accountless
  BY <1>1 DEF SameTables, Accountless, TInv, Typing
<1>6. Names' /\ MapsKept /\ MapsTyped'
  BY <1>1, <1>3, <1>5, NamesStay, MapsSame DEF TInv, Typing, MapsTyped
<1>7. Ordinary(op)
  BY DEF Ordinary, SpecialOps, Stages
<1>8. <<>> \in Seq(FreeItems) /\ <<>> \in Seq(ZeroItems)
  OBVIOUS
<1>9. \A i \in 1 .. Len(<<>>) : Rank(<<>>[i]) = 0
  BY <1>8, ZeroFacts
<1>10. \A w \in Gives(work[1]) : Known(w)'
  <2>1. PICK n : n = X
    OBVIOUS
  <2>2. Gives(work[1]) = {<<"symbol", n>>}
    BY <1>1, <2>1, AtHead DEF Gives, GivenBy
  <2> QED
    BY <1>4, <2>1, <2>2 DEF Known
<1>11. work' = <<>> \o Tail(work) /\ <<>> \in Seq(PlainItems) /\ Ready(<<>>)
  BY <1>1, <1>8, FreeReady DEF Return, Run
<1> HIDE DEF op
<1> QED
  BY <1>1, <1>3, <1>5, <1>6, <1>7, <1>9, <1>10, <1>11, OrdinaryStep

-------------------------------------------------------------------------------
(* The stack of type maps *)

\* The position of the outermost map that has t.
Outer(maps, t, i) == i \in 1 .. Len(maps) /\ t \in DOMAIN maps[i] /\ \A j \in 1 .. i - 1 : t \notin DOMAIN maps[j]

LEMMA TymapFacts ==
  ASSUME NEW maps, IsSeq(maps)
  PROVE  /\ CurrentTymap(maps) = [t \in DOMAIN CurrentTymap(maps) |-> CurrentTymap(maps)[t]]
         /\ DOMAIN CurrentTymap(maps) = UNION {DOMAIN maps[i] : i \in 1 .. Len(maps)}
         /\ \A t \in DOMAIN CurrentTymap(maps) : \E i : Outer(maps, t, i)
         /\ \A t \in DOMAIN CurrentTymap(maps) : \A i : Outer(maps, t, i) => CurrentTymap(maps)[t] = maps[i][t]
<1> DEFINE At1(t) == CHOOSE i \in DOMAIN maps : t \in DOMAIN maps[i] /\ \A j \in 1 .. i - 1 : t \notin DOMAIN maps[j]
           D == UNION {DOMAIN maps[i] : i \in DOMAIN maps}
<1>1. DOMAIN maps = 1 .. Len(maps) /\ Len(maps) \in Nat
  BY SeqFacts
<1>2. CurrentTymap(maps) = [t \in D |-> maps[At1(t)][t]]
  BY DEF CurrentTymap
<1>3. ASSUME NEW t \in D PROVE \E i : Outer(maps, t, i)
  <2> DEFINE T == {i \in 1 .. Len(maps) : t \in DOMAIN maps[i]}
  <2>1. T \subseteq Nat /\ T # {}
    BY <1>1, <1>3
  <2>2. PICK i \in T : \A y \in T : i <= y
    <3> HIDE DEF T
    <3> QED
      BY <2>1, LeastNatural
  <2>3. \A j \in 1 .. i - 1 : t \notin DOMAIN maps[j]
    BY <1>1, <2>2
  <2> QED
    BY <2>2, <2>3 DEF Outer
<1>4. ASSUME NEW t, NEW i, NEW k, Outer(maps, t, i), Outer(maps, t, k) PROVE i = k
  BY <1>1, <1>4 DEF Outer
<1>5. ASSUME NEW t \in D, NEW i, Outer(maps, t, i) PROVE At1(t) = i
  <2>1. i \in DOMAIN maps /\ t \in DOMAIN maps[i] /\ \A j \in 1 .. i - 1 : t \notin DOMAIN maps[j]
    BY <1>1, <1>5 DEF Outer
  <2>2. At1(t) \in DOMAIN maps /\ t \in DOMAIN maps[At1(t)] /\ \A j \in 1 .. At1(t) - 1 : t \notin DOMAIN maps[j]
    BY <2>1
  <2> HIDE DEF At1
  <2>3. Outer(maps, t, At1(t))
    BY <1>1, <2>2 DEF Outer
  <2> QED
    BY <1>4, <1>5, <2>3
<1> HIDE DEF At1
<1>6. D = UNION {DOMAIN maps[i] : i \in 1 .. Len(maps)}
  BY <1>1
<1> HIDE DEF D
<1>7. DOMAIN CurrentTymap(maps) = D /\ \A t \in D : CurrentTymap(maps)[t] = maps[At1(t)][t]
  BY <1>2
<1>8. CurrentTymap(maps) = [t \in DOMAIN CurrentTymap(maps) |-> CurrentTymap(maps)[t]]
  BY <1>2
<1> QED
  BY <1>3, <1>5, <1>6, <1>7, <1>8

\* Pushing a map on the stack is pushing it on the current map.
LEMMA TymapAppend ==
  ASSUME NEW maps, IsSeq(maps), NEW m
  PROVE  CurrentTymap(Append(maps, m)) = CurrentTymap(<<CurrentTymap(maps), m>>)
<1> DEFINE c == CurrentTymap(maps)
           a == Append(maps, m)
           p == <<c, m>>
           u == CurrentTymap(a)
           v == CurrentTymap(p)
<1>1. /\ IsSeq(a) /\ Len(a) = Len(maps) + 1 /\ Len(maps) \in Nat
      /\ \A i \in 1 .. Len(maps) : a[i] = maps[i]
      /\ a[Len(maps) + 1] = m
  BY AppendFacts, SeqFacts
<1>2. IsSeq(p) /\ Len(p) = 2 /\ p[1] = c /\ p[2] = m
  <2>1. p \in Seq({c, m})
    OBVIOUS
  <2> QED
    BY <2>1 DEF IsSeq
<1>3. /\ DOMAIN c = UNION {DOMAIN maps[i] : i \in 1 .. Len(maps)}
      /\ \A t \in DOMAIN c : \E i : Outer(maps, t, i)
      /\ \A t \in DOMAIN c : \A i : Outer(maps, t, i) => c[t] = maps[i][t]
  BY TymapFacts
<1> HIDE DEF a, p, c
<1>4. /\ u = [t \in DOMAIN u |-> u[t]] /\ DOMAIN u = UNION {DOMAIN a[i] : i \in 1 .. Len(a)}
      /\ \A t \in DOMAIN u : \A i : Outer(a, t, i) => u[t] = a[i][t]
  BY <1>1, TymapFacts
<1>5. /\ v = [t \in DOMAIN v |-> v[t]] /\ DOMAIN v = UNION {DOMAIN p[i] : i \in 1 .. Len(p)}
      /\ \A t \in DOMAIN v : \A i : Outer(p, t, i) => v[t] = p[i][t]
  BY <1>2, TymapFacts
<1> HIDE DEF u, v
<1>6. DOMAIN u = DOMAIN c \cup DOMAIN m
  <2>1. ASSUME NEW t \in DOMAIN u PROVE t \in DOMAIN c \cup DOMAIN m
    <3>1. PICK i \in 1 .. Len(a) : t \in DOMAIN a[i]
      BY <1>4
    <3>2. CASE i = Len(maps) + 1
      BY <1>1, <3>1, <3>2
    <3>3. CASE i # Len(maps) + 1
      <4>1. i \in 1 .. Len(maps)
        BY <1>1, <3>1, <3>3
      <4> QED
        BY <1>1, <1>3, <3>1, <4>1
    <3> QED
      BY <3>2, <3>3
  <2>2. ASSUME NEW t \in DOMAIN c PROVE t \in DOMAIN u
    <3>1. PICK i \in 1 .. Len(maps) : t \in DOMAIN maps[i]
      BY <1>3
    <3>2. i \in 1 .. Len(a) /\ t \in DOMAIN a[i]
      BY <1>1, <3>1
    <3> QED
      BY <1>4, <3>2
  <2>3. ASSUME NEW t \in DOMAIN m PROVE t \in DOMAIN u
    <3>1. Len(maps) + 1 \in 1 .. Len(a) /\ t \in DOMAIN a[Len(maps) + 1]
      BY <1>1
    <3> QED
      BY <1>4, <3>1
  <2> QED
    BY <2>1, <2>2, <2>3
<1>7. DOMAIN v = DOMAIN c \cup DOMAIN m
  <2>1. 1 .. Len(p) = {1, 2}
    BY <1>2
  <2> QED
    BY <1>2, <1>5, <2>1
<1>8. ASSUME NEW t \in DOMAIN u PROVE u[t] = v[t]
  <2>1. CASE t \in DOMAIN c
    <3>1. PICK i : Outer(maps, t, i)
      BY <1>3, <2>1
    <3>2. c[t] = maps[i][t] /\ i \in 1 .. Len(maps)
      BY <1>3, <2>1, <3>1 DEF Outer
    <3>3. Outer(a, t, i) /\ a[i] = maps[i]
      BY <1>1, <3>1 DEF Outer
    <3>4. Outer(p, t, 1)
      BY <1>2, <2>1 DEF Outer
    <3>5. t \in DOMAIN v
      BY <1>7, <2>1
    <3>6. u[t] = a[i][t]
      BY <1>4, <3>3
    <3>7. v[t] = p[1][t]
      BY <1>5, <3>4, <3>5
    <3> QED
      BY <1>2, <3>2, <3>3, <3>6, <3>7
  <2>2. CASE t \notin DOMAIN c
    <3>1. t \in DOMAIN m /\ t \in DOMAIN v
      BY <1>6, <1>7, <2>2
    <3>2. \A j \in 1 .. Len(maps) : t \notin DOMAIN maps[j]
      BY <1>3, <2>2
    <3>3. Outer(a, t, Len(maps) + 1)
      <4>1. \A j \in 1 .. (Len(maps) + 1) - 1 : j \in 1 .. Len(maps)
        BY <1>1
      <4>2. Len(maps) + 1 \in 1 .. Len(a)
        BY <1>1
      <4> QED
        BY <1>1, <3>1, <3>2, <4>1, <4>2 DEF Outer
    <3>4. Outer(p, t, 2)
      <4>1. \A j \in 1 .. 2 - 1 : j = 1
        OBVIOUS
      <4> QED
        BY <1>2, <2>2, <3>1, <4>1 DEF Outer
    <3>5. u[t] = a[Len(maps) + 1][t] /\ v[t] = p[2][t]
      BY <1>4, <1>5, <3>1, <3>3, <3>4
    <3> QED
      BY <1>1, <1>2, <3>5
  <2> QED
    BY <2>1, <2>2
<1>9. u = v
  BY <1>4, <1>5, <1>6, <1>7, <1>8
<1> QED
  BY <1>9 DEF u, v, a, p, c

LEMMA PushTables == IInv /\ TInv /\ PushTempTymap => TInv'
<1> SUFFICES ASSUME IInv, TInv, PushTempTymap PROVE TInv'
  OBVIOUS
<1> DEFINE op == "push_tymap"
           maps == enc.typaram_repl
<1>1. Next1(op) /\ Return /\ NoIntern
  BY DEF PushTempTymap
<1>2. /\ enc'.typaram_repl = Append(maps, X) /\ enc'.queue = enc.queue /\ SameTables /\ Accountless
  BY DEF PushTempTymap, TInv, Typing, Columns, Kept, Accountless, SameTables
<1>3. X \in CrateMaps
  BY <1>1, HeadItem, ItemFacts
<1>4. IsSeq(maps) /\ Len(maps) \in Nat
  BY SeqFacts DEF IInv, Stack
<1>5. Names' /\ NamesKept
  BY <1>1, <1>2, NamesSame DEF SameNames, TInv, NoIntern, internerVars
<1>6. CurrentMap \in CrateMaps
  BY CurrentMapFacts DEF TInv
<1>7. CurrentTymap(Append(maps, X)) \in CrateMaps
  BY <1>3, <1>4, <1>6, TymapAppend, MapsAssumption DEF CurrentMap
<1>8. PICK a : a = Append(maps, X)
  OBVIOUS
<1>9. /\ IsSeq(a) /\ Len(a) = Len(maps) + 1
      /\ \A k \in 0 .. Len(maps) : SubSeq(a, 1, k) = SubSeq(maps, 1, k)
      /\ SubSeq(a, 1, Len(maps) + 1) = a
  <2>1. PICK S : maps \in Seq(S)
    BY <1>4 DEF IsSeq
  <2>2. PICK b : b = X
    OBVIOUS
  <2>3. a = Append(maps, b) /\ maps \in Seq(S \cup {b})
    BY <1>8, <2>1, <2>2
  <2>4. a \in Seq(S \cup {b}) /\ Len(a) = Len(maps) + 1 /\ \A i \in 1 .. Len(maps) : a[i] = maps[i]
    BY <2>3
  <2>5. \A k \in 0 .. Len(maps) : SubSeq(a, 1, k) = SubSeq(maps, 1, k)
    BY <1>4, <2>3, <2>4
  <2>6. SubSeq(a, 1, Len(a)) = a
    BY <2>4
  <2> QED
    BY <2>4, <2>5, <2>6 DEF IsSeq
<1>10. MapsTyped'
  <2>1. \A k \in 0 .. Len(a) : k \in 0 .. Len(maps) \/ k = Len(maps) + 1
    BY <1>4, <1>9
  <2>2. \A k \in 0 .. Len(a) : CurrentTymap(SubSeq(a, 1, k)) \in CrateMaps
    BY <1>7, <1>8, <1>9, <2>1 DEF TInv, Typing
  <2> QED
    BY <1>2, <1>8, <2>2 DEF MapsTyped, TInv, Typing
<1>11. work # <<>> /\ work[1].op = op /\ Len(work) \in Nat
  BY <1>1, AtHead
<1>12. Rank(work[1]) = 3
  BY <1>11 DEF Rank, OpRank
<1>13. ASSUME NEW i \in 2 .. Len(work) PROVE i \in 1 .. Len(work) /\ StepOK(i) /\ 1 \in 1 .. i - 1
  BY <1>11 DEF TInv, ItemShape
<1>14. MapsKept
  <2>1. ASSUME NEW i \in 2 .. Len(work), work[i].op = "pure_function_lookup" PROVE FALSE
    BY <1>12, <1>13, <2>1 DEF StepOK
  <2>2. ASSUME NEW i \in 2 .. Len(work), work[i].op = "pure_function_insert"
        PROVE  Len(enc'.typaram_repl) >= 1 /\ SubSeq(enc'.typaram_repl, 1, 1) = SubSeq(enc.typaram_repl, 1, 1)
    <3>1. Len(maps) >= 1
      BY <1>13, <2>2 DEF StepOK
    <3> QED
      BY <1>2, <1>4, <1>8, <1>9, <3>1
  <2> QED
    BY <2>1, <2>2 DEF MapsKept
<1>15. Ordinary(op)
  BY DEF Ordinary, Stages
<1>16. Gives(work[1]) = {}
  BY <1>11 DEF Gives, GivenBy
<1>17. <<>> \in Seq(FreeItems)
  OBVIOUS
<1>18. <<>> \in Seq(PlainItems) /\ Ready(<<>>) /\ work' = <<>> \o Tail(work)
  BY <1>1, <1>17, FreeReady DEF Return, Run
<1>19. Rank(work[1]) # 0 /\ \A w \in Gives(work[1]) : Known(w)' \/ Provides(<<>>, w)
  BY <1>12, <1>16
<1>20. Rank(work[1]) = 0 => \A i \in 1 .. Len(<<>>) : Rank(<<>>[i]) = 0
  BY <1>19
<1> HIDE DEF op, maps
<1> QED
  BY <1>1, <1>2, <1>5, <1>10, <1>14, <1>15, <1>18, <1>19, <1>20, OrdinaryStep

\* A pending definition keeps its own map on the stack.
LEMMA PopTables == IInv /\ TInv /\ CleanupTyMapStack => TInv'
<1> SUFFICES ASSUME IInv, TInv, CleanupTyMapStack PROVE TInv'
  OBVIOUS
<1> DEFINE op == "pop_tymap"
           maps == enc.typaram_repl
<1>1. Next1(op) /\ Return /\ NoIntern
  BY DEF CleanupTyMapStack
<1>2. /\ enc'.typaram_repl = Front(maps) /\ enc'.queue = enc.queue /\ SameTables /\ Accountless
  BY DEF CleanupTyMapStack, TInv, Typing, Columns, Kept, Accountless, SameTables
<1>3. Stack(work, enc.held, maps) /\ IsSeq(maps) /\ Len(maps) \in Nat
  BY SeqFacts DEF IInv, Stack
<1>4. Names' /\ NamesKept
  BY <1>1, <1>2, NamesSame DEF SameNames, TInv, NoIntern, internerVars
<1>5. work # <<>> /\ work[1].op = op /\ Len(work) \in Nat /\ IsSeq(work)
  BY <1>1, AtHead
<1>6. Rank(work[1]) = 3
  BY <1>5 DEF Rank, OpRank
<1>7. Len(maps) = Count("pop_tymap", work)
  BY <1>3, <1>5, <1>6, NoMorePushes
<1>8. Count("pop_tymap", work) = 1 + Count("pop_tymap", Tail(work)) /\ Count("pop_tymap", Tail(work)) \in Nat
  BY <1>5, TailStack, TailFacts, CountIsNat
<1>9. PICK a : a = Front(maps)
  OBVIOUS
<1>10. /\ Len(a) = Len(maps) - 1
       /\ \A k \in 0 .. Len(a) : SubSeq(a, 1, k) = SubSeq(maps, 1, k)
  <2>1. PICK S : maps \in Seq(S)
    BY <1>3 DEF IsSeq
  <2>2. a = SubSeq(maps, 1, Len(maps) - 1) /\ Len(maps) >= 1
    BY <1>7, <1>8, <1>9 DEF Front
  <2>3. a \in Seq(S) /\ Len(a) = Len(maps) - 1 /\ \A i \in 1 .. Len(a) : a[i] = maps[i]
    BY <1>3, <2>1, <2>2
  <2>4. \A k \in 0 .. Len(a) : SubSeq(a, 1, k) = SubSeq(maps, 1, k)
    BY <1>3, <2>1, <2>3
  <2> QED
    BY <2>3, <2>4
<1>11. MapsTyped'
  <2>1. \A k \in 0 .. Len(a) : k \in 0 .. Len(maps)
    BY <1>3, <1>10
  <2>2. \A k \in 0 .. Len(a) : CurrentTymap(SubSeq(a, 1, k)) \in CrateMaps
    BY <1>10, <2>1 DEF TInv, Typing
  <2> QED
    BY <1>2, <1>9, <2>2 DEF MapsTyped, TInv, Typing
<1>12. ASSUME NEW i \in 2 .. Len(work) PROVE i \in 1 .. Len(work) /\ StepOK(i) /\ 1 \in 1 .. i - 1
  BY <1>5 DEF TInv, ItemShape
<1>13. MapsKept
  <2>1. ASSUME NEW i \in 2 .. Len(work), work[i].op = "pure_function_lookup" PROVE FALSE
    BY <1>6, <1>12, <2>1 DEF StepOK
  <2>2. ASSUME NEW i \in 2 .. Len(work), work[i].op = "pure_function_insert"
        PROVE  Len(enc'.typaram_repl) >= 1 /\ SubSeq(enc'.typaram_repl, 1, 1) = SubSeq(enc.typaram_repl, 1, 1)
    <3> DEFINE t == Tail(work)
    <3>1. i = Len(work) - 2 /\ work[i + 1].op = "pop_tymap"
      BY <1>12, <2>2 DEF StepOK, Stages
    <3>2. /\ IsSeq(t) /\ Len(t) = Len(work) - 1 /\ DOMAIN t = 1 .. Len(t)
          /\ \A j \in 1 .. Len(work) - 1 : t[j] = work[j + 1]
      BY <1>5, TailFacts, SeqFacts
    <3> HIDE DEF t
    <3>3. i \in 1 .. Len(t) /\ t[i].op = "pop_tymap"
      BY <1>5, <3>1, <3>2
    <3>4. At("pop_tymap", t) # {} /\ IsFiniteSet(At("pop_tymap", t)) /\ Count("pop_tymap", t) \in Nat
      BY <3>2, <3>3, CountIsNat DEF At
    <3>5. Count("pop_tymap", t) # 0
      BY <3>4, FS_EmptySet DEF Count
    <3>6. Len(a) >= 1
      BY <1>7, <1>8, <1>10, <3>4, <3>5 DEF t
    <3>7. 1 \in 0 .. Len(a)
      BY <1>3, <1>10, <3>6
    <3> QED
      BY <1>2, <1>9, <1>10, <3>6, <3>7
  <2> QED
    BY <2>1, <2>2 DEF MapsKept
<1>14. Ordinary(op)
  BY DEF Ordinary, Stages
<1>15. Gives(work[1]) = {}
  BY <1>5 DEF Gives, GivenBy
<1>16. <<>> \in Seq(FreeItems)
  OBVIOUS
<1>17. <<>> \in Seq(PlainItems) /\ Ready(<<>>) /\ work' = <<>> \o Tail(work)
  BY <1>1, <1>16, FreeReady DEF Return, Run
<1>18. Rank(work[1]) # 0 /\ \A w \in Gives(work[1]) : Known(w)' \/ Provides(<<>>, w)
  BY <1>6, <1>15
<1>19. Rank(work[1]) = 0 => \A i \in 1 .. Len(<<>>) : Rank(<<>>[i]) = 0
  BY <1>18
<1> HIDE DEF op, maps
<1> QED
  BY <1>1, <1>2, <1>4, <1>11, <1>13, <1>14, <1>17, <1>18, <1>19, OrdinaryStep

-------------------------------------------------------------------------------
(* The stages of an item of the queue *)

LEMMA SpecialGives ==
  ASSUME NEW it, it.op \in SpecialOps \cup {"pure_function_def"}
  PROVE  Gives(it) = {} /\ Needs(it) = {}
BY DEF Gives, GivenBy, Needs, SpecialOps, Stages

LEMMA SpecialDo ==
  ASSUME NEW op \in SpecialOps, NEW f \in DOMAIN Fns
  PROVE  Do(op, f) \in Items /\ Do(op, f).op = op /\ Do(op, f).x = f /\ <<Do(op, f)>> \in Seq(Items)
<1>1. Do(op, f) \in SpecialItems /\ Do(op, f).op = op /\ Do(op, f).x = f
  BY DEF Do, SpecialItems
<1>2. Do(op, f) \in Items
  BY <1>1 DEF Items
<1> HIDE DEF Do
<1> QED
  BY <1>1, <1>2

\* A special step after steps that are ready.
LEMMA ReadySpecial ==
  ASSUME NEW s, IsSeq(s), Ready(s), NEW it, it.op \in SpecialOps
  PROVE  Ready(s \o <<it>>)
<1>1. Needs(it) = {}
  BY SpecialGives
<1>2. IsSeq(<<it>>) /\ Len(<<it>>) = 1 /\ <<it>>[1] = it
  BY SingletonFacts
<1>3. Ready(<<it>>)
  BY <1>1, <1>2 DEF Ready, Supplied
<1> QED
  BY <1>2, <1>3, ReadyConcat

LEMMA StageStep ==
  ASSUME IInv, TInv, NEW op \in SpecialOps \cup {"pure_function_def"}, op # "queue_done", Next1(op),
         NEW items, items \in Seq(Items), Ready(items), Run(items), SameNames,
         Columns \subseteq DOMAIN enc', enc'.typaram_repl = enc.typaram_repl, enc'.queue = enc.queue
  PROVE  Typing' /\ Names' /\ Ready(work)' /\ NamesKept
<1>1. work # <<>> /\ work[1].op = op /\ IsSeq(work) /\ work' = items \o Tail(work)
  BY AtHead DEF Run
<1>2. Typing /\ Names /\ Ready(work)
  BY DEF TInv
<1>3. Names' /\ NamesKept
  BY <1>2, NamesSame
<1>4. IsSeq(items)
  BY DEF IsSeq
<1>5. Gives(work[1]) = {}
  BY <1>1, SpecialGives
<1>6. Ready(work)'
  BY <1>1, <1>2, <1>3, <1>4, <1>5, ReadyStep
<1>7. work' \in Seq(Items)
  BY <1>1, <1>2, ItemsStep
<1>8. Typing'
  BY <1>2, <1>7 DEF Typing
<1> QED
  BY <1>3, <1>6, <1>8

LEMMA AccountKept ==
  ASSUME FailureAccount, Accountless, Inserting' <=> Inserting
  PROVE  FailureAccount'
<1>1. /\ enc'.failed_pure_functions = enc.failed_pure_functions /\ enc'.reported = enc.reported
      /\ enc'.current_proc = enc.current_proc
  BY DEF Accountless
<1>2. \A f : FailuresOf(f)' = FailuresOf(f) /\ ReportsOf(f)' = ReportsOf(f)
  BY <1>1 DEF FailuresOf, ReportsOf
<1> QED
  BY <1>1, <1>2 DEF FailureAccount

\* What the work looks like when a stage of an item is its first step.
LEMMA StageAtHead ==
  ASSUME IInv, TInv, NEW op, Next1(op)
  PROVE  /\ StepOK(1) /\ work[1].op = op /\ X = work[1].x /\ enc.current_proc \in DOMAIN Fns
         /\ op \in Stages => Fns[enc.current_proc].pure /\ X = enc.current_proc /\ Len(work) = 3
                             /\ work[2].op = "pop_tymap"
         /\ op \in {"pure_function_def", "procedure"} => Len(work) = 2
         /\ op # "queue_done" => Len(work) >= 2 /\ work[Len(work)].op = "queue_done"
<1>1. work # <<>> /\ work[1].op = op /\ X = work[1].x /\ Len(work) \in Nat /\ Len(work) > 0
  BY AtHead
<1>2. StepOK(1) /\ enc.current_proc \in DOMAIN Fns
  BY <1>1 DEF TInv, ItemShape
<1>3. op \in Stages => Fns[enc.current_proc].pure /\ X = enc.current_proc /\ 1 = Len(work) - 2
                       /\ work[1 + 1].op = "pop_tymap"
  BY <1>1, <1>2 DEF StepOK
<1>4. op \in {"pure_function_def", "procedure"} => Len(work) = 2
  BY <1>1, <1>2 DEF StepOK
<1>5. Len(work) \in 1 .. Len(work) /\ 1 \in 1 .. Len(work)
  BY <1>1
<1>6. work[Len(work)].op = "queue_done"
  BY <1>5 DEF IInv, Stack
<1>7. op # "queue_done" => Len(work) >= 2
  BY <1>1, <1>6
<1> QED
  BY <1>1, <1>2, <1>3, <1>4, <1>6, <1>7

-------------------------------------------------------------------------------
(* Procedures *)

LEMMA FreePatch ==
  ASSUME NEW f \in DOMAIN Fns PROVE Patch(f) \in Seq(FreeItems)
<1>1. For("encode_snapshot", Fns[f].patched) \in Seq(FreeItems)
  BY SignaturesAssumption, FreeLoops DEF TypeLoops, LoopOps
<1> QED
  BY <1>1, FreeBorrowed DEF Patch, Cells

LEMMA FreeSpecFuncs ==
  ASSUME NEW f \in DOMAIN Fns
  PROVE  /\ SpecFuncs(f) \in Seq(FreeItems)
         /\ \A i \in 1 .. Len(SpecFuncs(f)) : SpecFuncs(f)[i].op = "spec_funcs"
<1>1. Do("spec_funcs", f) \in FreeItems /\ Do("spec_funcs", f).op = "spec_funcs"
  BY FreeDo DEF FunctionOps, Do
<1> HIDE DEF Do
<1> QED
  BY <1>1 DEF SpecFuncs

LEMMA InsertProcedureTables == IInv /\ TInv /\ InsertProcedure => TInv'
<1> SUFFICES ASSUME IInv, TInv, InsertProcedure PROVE TInv'
  OBVIOUS
<1>1. PICK op \in {"procedure_encoded", "stub"} : Next1(op)
  BY DEF InsertProcedure
<1>2. Return /\ NoIntern /\ ColumnsSame
  BY DEF InsertProcedure, ColumnsSame, TInv, Typing
<1>3. Nameless(op)
  BY <1>1 DEF Nameless, Ordinary, Stages, OpRank
<1> QED
  BY <1>1, <1>2, <1>3, FreeReturn

\* The encoding of a procedure, of which the result is recorded at last.
LEMMA ProcedureShape ==
  ASSUME IInv, TInv, Next1("procedure"), NEW front, front \in Seq(FreeItems), ColumnsSame, NoIntern,
         Run(front \o <<Do("procedure_encoded", X)>> \o SpecFuncs(X))
  PROVE  TInv'
<1> DEFINE it    == Do("procedure_encoded", X)
           one   == front \o <<it>>
           back  == SpecFuncs(X)
           items == one \o back
           n     == Len(front) + 1
<1>1. X \in DOMAIN Fns /\ Len(work) = 2 /\ work[2].op = "queue_done" /\ ~Fns[enc.current_proc].pure
  <2>1. X \in DOMAIN Fns
    BY FunctionAtHead DEF SpecialOps
  <2>2. StepOK(1) /\ work[1].op = "procedure" /\ Len(work) = 2 /\ work[Len(work)].op = "queue_done"
    BY StageAtHead
  <2>3. ~Fns[enc.current_proc].pure
    BY <2>2 DEF StepOK
  <2> QED
    BY <2>1, <2>2, <2>3
<1>2. it \in Items /\ it.op = "procedure_encoded" /\ <<it>> \in Seq(Items)
  BY <1>1, SpecialDo DEF SpecialOps
<1>3. /\ front \in Seq(PlainItems) /\ Ready(front) /\ IsSeq(front) /\ front \in Seq(Items)
      /\ Len(front) \in Nat
  BY FreeReady, PlainSeq
<1>4. /\ back \in Seq(PlainItems) /\ Ready(back) /\ IsSeq(back) /\ back \in Seq(Items) /\ Len(back) \in Nat
      /\ \A i \in 1 .. Len(back) : back[i].op = "spec_funcs"
  BY <1>1, FreeSpecFuncs, FreeReady, PlainSeq
<1>5. \A i \in 1 .. Len(front) : front[i].op \notin SpecialOps \cup {"pure_function_def"}
  BY <1>3, PlainSeq, PlainIsNotSpecial
<1> HIDE DEF it, back
<1>6. IsSeq(<<it>>) /\ Len(<<it>>) = 1 /\ <<it>>[1] = it
  BY SingletonFacts
<1>7. /\ IsSeq(one) /\ Len(one) = n /\ one[n] = it /\ \A i \in 1 .. Len(front) : one[i] = front[i]
      /\ one \in Seq(Items) /\ Ready(one)
  <2>1. /\ IsSeq(front \o <<it>>) /\ Len(front \o <<it>>) = Len(front) + Len(<<it>>)
        /\ \A i \in 1 .. Len(front) : (front \o <<it>>)[i] = front[i]
        /\ \A i \in 1 .. Len(<<it>>) : (front \o <<it>>)[Len(front) + i] = <<it>>[i]
    BY <1>3, <1>6, ConcatFacts
  <2>2. Ready(front \o <<it>>)
    BY <1>2, <1>3, ReadySpecial DEF SpecialOps
  <2>3. front \o <<it>> \in Seq(Items)
    BY <1>2, <1>3
  <2> QED
    BY <1>6, <2>1, <2>2, <2>3
<1>8. Run(items)
  BY DEF it, back
<1> HIDE DEF one
<1>9. /\ IsSeq(items) /\ Len(items) = Len(one) + Len(back)
      /\ \A i \in 1 .. Len(one) : items[i] = one[i]
      /\ \A i \in 1 .. Len(back) : items[Len(one) + i] = back[i]
  <2>1. IsSeq(one) /\ IsSeq(back)
    BY <1>4, <1>7
  <2> QED
    BY <2>1, ConcatFacts
<1>10. items \in Seq(Items) /\ Ready(items)
  BY <1>4, <1>7, ReadyConcat
<1> HIDE DEF items
<1>11. /\ Len(items) = n + Len(back) /\ items[n].op = "procedure_encoded"
       /\ \A i \in 1 .. Len(items) : i # n => items[i].op \notin SpecialOps \cup {"pure_function_def"}
       /\ \A i \in n + 1 .. Len(items) : items[i].op = "spec_funcs"
  <2>1. Len(items) = n + Len(back) /\ items[n].op = "procedure_encoded"
    BY <1>2, <1>3, <1>7, <1>9
  <2>2. ASSUME NEW i \in 1 .. Len(items), i < n PROVE items[i].op \notin SpecialOps \cup {"pure_function_def"}
    <3>1. i \in 1 .. Len(front) /\ i \in 1 .. Len(one)
      BY <1>3, <1>7, <2>2
    <3> QED
      BY <1>5, <1>7, <1>9, <3>1
  <2>3. ASSUME NEW i \in n + 1 .. Len(items) PROVE items[i].op = "spec_funcs"
    <3>1. i - n \in 1 .. Len(back) /\ Len(one) + (i - n) = i
      BY <1>3, <1>4, <1>7, <2>1
    <3> QED
      BY <1>4, <1>9, <3>1
  <2>4. "spec_funcs" \notin SpecialOps \cup {"pure_function_def"}
    BY DEF SpecialOps, Stages
  <2>5. \A i \in 1 .. Len(items) : i # n => i < n \/ i \in n + 1 .. Len(items)
    BY <1>3, <1>4, <2>1
  <2> QED
    BY <2>1, <2>2, <2>3, <2>4, <2>5
<1>12. n \in Nat /\ n >= 1 /\ Len(back) \in Nat
  BY <1>3, <1>4
<1> HIDE DEF n
<1>13. /\ Len(work') = Len(items) + 1 /\ \A j \in 1 .. Len(items) : work'[j] = items[j]
       /\ work'[Len(items) + 1].op = "queue_done"
  <2>1. work' = items \o Tail(work)
    BY <1>8 DEF Run
  <2>2. /\ Len(work') = Len(items) + Len(work) - 1 /\ \A j \in 1 .. Len(items) : work'[j] = items[j]
        /\ \A j \in 2 .. Len(work) : work'[Len(items) + j - 1] = work[j]
    <3>1. "procedure" # "queue_done"
      OBVIOUS
    <3>2. IsSeq(items)
      BY <1>9
    <3> HIDE DEF items
    <3> QED
      BY <2>1, <3>1, <3>2, WorkFacts
  <2>3. Len(items) + 2 - 1 = Len(items) + 1 /\ 2 \in 2 .. Len(work)
    BY <1>1, <1>11, <1>12
  <2>4. work'[Len(items) + 2 - 1] = work[2]
    BY <2>2, <2>3
  <2>5. Len(work') = Len(items) + 1
    BY <1>1, <1>11, <1>12, <2>2
  <2> QED
    BY <1>1, <2>2, <2>3, <2>4, <2>5
<1>14. SameNames /\ Accountless
  BY ColumnFacts DEF SameNames, SameTables, Accountless, NoIntern, internerVars
<1>15. Typing' /\ Names' /\ Ready(work)'
  BY <1>8, <1>10, <1>14, ColumnFacts, StageStep DEF SpecialOps
<1>16. \A k \in 1 .. Len(work') : k \in 1 .. Len(items) \/ k = Len(items) + 1
  BY <1>11, <1>12, <1>13
<1>17. enc'.current_proc = enc.current_proc /\ enc.current_proc \in DOMAIN Fns
  BY ColumnFacts, StageAtHead
<1>18. \A k \in 1 .. Len(work') :
         work'[k].op \in {"procedure_encoded", "queue_done"} \/ work'[k].op \notin SpecialOps \cup {"pure_function_def"}
  BY <1>11, <1>13, <1>16
<1>19. \A k \in 1 .. Len(work') : work'[k].op = "procedure_encoded" => k = n
  BY <1>11, <1>13, <1>16 DEF SpecialOps
<1>20. \A j \in n + 1 .. Len(work') : work'[j].op \in {"spec_funcs", "queue_done"}
  BY <1>11, <1>12, <1>13, <1>16
<1>21. ASSUME NEW k \in 1 .. Len(work') PROVE StepOK(k)'
  <2>1. work'[k].op \notin Stages \cup {"pure_function_def", "procedure"}
    BY <1>18 DEF SpecialOps, Stages
  <2>2. work'[k].op = "procedure_encoded" =>
          ~Fns[enc'.current_proc].pure /\ \A j \in k + 1 .. Len(work') : work'[j].op \in {"spec_funcs", "queue_done"}
    BY <1>1, <1>17, <1>19, <1>20
  <2> QED
    BY <2>1, <2>2 DEF StepOK, Stages
<1>22. ItemShape'
  <2>1. work' # <<>>
    BY <1>11, <1>12, <1>13, EmptyFacts
  <2> QED
    BY <1>1, <1>17, <1>21, <2>1 DEF ItemShape
<1>23. ~Inserting' /\ ~Inserting
  <2>1. ~Inserting'
    BY <1>18 DEF Inserting, SpecialOps, Stages
  <2>2. work[1].op = "procedure"
    BY AtHead
  <2>3. ~Inserting
    BY <1>1, <2>2 DEF Inserting
  <2> QED
    BY <2>1, <2>3
<1>24. FailureAccount'
  BY <1>14, <1>23, AccountKept DEF TInv
<1> QED
  BY <1>15, <1>22, <1>24 DEF TInv

LEMMA ProcedureTables == IInv /\ TInv /\ EncodeProcedure => TInv'
<1> SUFFICES ASSUME IInv, TInv, EncodeProcedure PROVE TInv'
  OBVIOUS
<1>1. Next1("procedure") /\ NoIntern
  BY DEF EncodeProcedure
<1>2. Nameless("procedure")
  BY DEF Nameless, Ordinary, Stages, OpRank
<1>3. X \in DOMAIN Fns
  BY <1>1, FunctionAtHead DEF SpecialOps
<1>4. CASE X \in DOMAIN enc.procedures
  <2>1. Run(SpecFuncs(X)) /\ UNCHANGED enc
    BY <1>4 DEF EncodeProcedure
  <2> QED
    BY <1>1, <1>2, <1>3, <2>1, SameColumns, FreeSpecFuncs, FreeStep
<1>5. CASE X \notin DOMAIN enc.procedures
  <2>1. enc' = Collect(enc, X)
    BY <1>5 DEF EncodeProcedure
  <2>2. ColumnsSame
    BY <2>1 DEF Collect, ColumnsSame, TInv, Typing, Columns, Kept
  <2>3. CASE Fns[X].new_fails
    <3>1. Run(<<Do("fail", "internal")>>)
      BY <1>5, <2>3 DEF EncodeProcedure
    <3>2. Do("fail", "internal") \in FreeItems
      BY FreeDo DEF ErrorKinds
    <3>3. <<Do("fail", "internal")>> \in Seq(FreeItems)
      BY <3>2
    <3> QED
      BY <1>1, <1>2, <2>2, <3>1, <3>3, FreeStep
  <2>4. CASE ~Fns[X].new_fails
    <3> DEFINE start == <<Do("item_name", X), Do("predicate_use", Fns[X].ret)>>
               front == start \o Fns[X].body \o For("predicate_use", Fns[X].args) \o Patch(X)
    <3>1. Run(front \o <<Do("procedure_encoded", X)>> \o SpecFuncs(X))
      BY <1>5, <2>4 DEF EncodeProcedure
    <3>2. start \in Seq(FreeItems)
      <4>1. Do("item_name", X) \in FreeItems
        BY <1>3, SignaturesAssumption, FreeDo
      <4>2. Do("predicate_use", Fns[X].ret) \in FreeItems
        BY <1>3, SignaturesAssumption, FreeDo DEF TypeOps, NeedyOps
      <4> QED
        BY <4>1, <4>2
    <3>3. For("predicate_use", Fns[X].args) \in Seq(FreeItems)
      BY <1>3, SignaturesAssumption, FreeLoops DEF TypeLoops, LoopOps
    <3> HIDE DEF start
    <3>4. front \in Seq(FreeItems)
      BY <1>3, <3>2, <3>3, FreeRequests, FreePatch
    <3> HIDE DEF front
    <3> QED
      BY <1>1, <2>2, <3>1, <3>4, ProcedureShape
  <2> QED
    BY <2>3, <2>4
<1> QED
  BY <1>4, <1>5

-------------------------------------------------------------------------------
(* Definitions of pure functions *)

\* encode_pure_function_def pushes the only type map.
LEMMA DefinitionTables == IInv /\ TInv /\ EncodePureFunctionDef => TInv'
<1> SUFFICES ASSUME IInv, TInv, EncodePureFunctionDef PROVE TInv'
  OBVIOUS
<1> DEFINE f     == enc.current_proc
           push  == Do("push_tymap", X[2])
           key   == Do("pure_function_key", X[1])
           pop   == Do("pop_tymap", 0)
           items == WithTymap(X[2], <<key>>)
<1>1. Next1("pure_function_def") /\ NoIntern /\ UNCHANGED enc
  BY DEF EncodePureFunctionDef
<1>2. /\ StepOK(1) /\ work[1].op = "pure_function_def" /\ X = work[1].x /\ Len(work) = 2
      /\ work[2].op = "queue_done" /\ f \in DOMAIN Fns
  BY <1>1, StageAtHead
<1>3. Fns[f].pure /\ X[1] = f
  BY <1>2 DEF StepOK
<1>4. X \in (DOMAIN Fns) \X CrateMaps
  BY <1>1, HeadItem, ItemFacts
<1>5. Run(items)
  <2>1. 1 \in 1 .. Len(work)
    BY <1>2
  <2>2. enc.typaram_repl = <<>>
    BY <1>2, <2>1 DEF IInv, Stack
  <2> QED
    BY <2>2 DEF EncodePureFunctionDef
<1>6. /\ push \in Items /\ push.op = "push_tymap" /\ pop \in Items /\ pop.op = "pop_tymap"
      /\ key \in Items /\ key.op = "pure_function_key" /\ key.x = f
  <2>1. push \in PlainItems /\ pop \in PlainItems
    BY <1>4, PlainDo
  <2>2. push \in Items /\ pop \in Items
    BY <2>1, PlainIsNotSpecial
  <2>3. key \in Items /\ key.op = "pure_function_key" /\ key.x = f
    BY <1>3, <1>4, SpecialDo DEF SpecialOps, Stages
  <2>4. push.op = "push_tymap" /\ pop.op = "pop_tymap"
    BY DEF Do
  <2> QED
    BY <2>2, <2>3, <2>4
<1>7. items = <<push>> \o <<key>> \o <<pop>>
  BY DEF WithTymap
<1> HIDE DEF push, key, pop
<1>8. /\ IsSeq(<<push>>) /\ Len(<<push>>) = 1 /\ <<push>>[1] = push
      /\ IsSeq(<<key>>) /\ Len(<<key>>) = 1 /\ <<key>>[1] = key
      /\ IsSeq(<<pop>>) /\ Len(<<pop>>) = 1 /\ <<pop>>[1] = pop
  BY SingletonFacts
<1>9. items \in Seq(Items) /\ Len(items) = 3 /\ items[1] = push /\ items[2] = key /\ items[3] = pop
  <2> DEFINE two == <<push>> \o <<key>>
  <2>1. IsSeq(two) /\ Len(two) = 2 /\ two[1] = push /\ two[2] = key
    <3>1. /\ IsSeq(two) /\ Len(two) = Len(<<push>>) + Len(<<key>>)
          /\ \A i \in 1 .. Len(<<push>>) : two[i] = <<push>>[i]
          /\ \A i \in 1 .. Len(<<key>>) : two[Len(<<push>>) + i] = <<key>>[i]
      BY <1>8, ConcatFacts
    <3> QED
      BY <1>8, <3>1
  <2>2. two \in Seq(Items) /\ <<pop>> \in Seq(Items)
    BY <1>6
  <2> HIDE DEF two
  <2>3. items = two \o <<pop>>
    BY <1>7 DEF two
  <2> HIDE DEF items
  <2>4. items \in Seq(Items)
    BY <2>2, <2>3
  <2>5. /\ Len(items) = Len(two) + Len(<<pop>>)
        /\ \A i \in 1 .. Len(two) : items[i] = two[i]
        /\ \A i \in 1 .. Len(<<pop>>) : items[Len(two) + i] = <<pop>>[i]
    <3>1. IsSeq(two) /\ IsSeq(<<pop>>)
      BY <1>8, <2>1
    <3>2. /\ Len(two \o <<pop>>) = Len(two) + Len(<<pop>>)
          /\ \A i \in 1 .. Len(two) : (two \o <<pop>>)[i] = two[i]
          /\ \A i \in 1 .. Len(<<pop>>) : (two \o <<pop>>)[Len(two) + i] = <<pop>>[i]
      BY <3>1, ConcatFacts
    <3> QED
      BY <2>3, <3>2
  <2>6. Len(items) = 3 /\ items[1] = push /\ items[2] = key
    BY <1>8, <2>1, <2>5
  <2>7. items[2 + 1] = pop
    BY <1>8, <2>1, <2>5
  <2> QED
    BY <2>4, <2>6, <2>7
<1> HIDE DEF items
<1>10. Ready(items)
  <2>1. Needs(push) = {} /\ Needs(key) = {} /\ Needs(pop) = {}
    BY <1>6, NoNeeds DEF NeedyOps
  <2>2. \A i \in 1 .. Len(items) : Needs(items[i]) = {}
    BY <1>9, <2>1
  <2> QED
    BY <2>2 DEF Ready, Supplied
<1>11. SameNames /\ Accountless /\ enc'.typaram_repl = enc.typaram_repl /\ enc'.queue = enc.queue
  BY <1>1, SameColumns, ColumnFacts DEF SameNames, SameTables, Accountless, NoIntern, internerVars
<1>12. Typing' /\ Names' /\ Ready(work)'
  BY <1>1, <1>5, <1>9, <1>10, <1>11, StageStep DEF Accountless
<1>13. /\ Len(work') = 4 /\ work'[1].op = "push_tymap" /\ work'[2] = key
       /\ work'[3].op = "pop_tymap" /\ work'[4].op = "queue_done"
  <2>1. work' = items \o Tail(work) /\ IsSeq(items)
    BY <1>5, <1>9 DEF Run, IsSeq
  <2>2. /\ Len(work') = Len(items) + Len(work) - 1 /\ \A j \in 1 .. Len(items) : work'[j] = items[j]
        /\ \A j \in 2 .. Len(work) : work'[Len(items) + j - 1] = work[j]
    BY <1>1, <2>1, WorkFacts
  <2>3. work'[3 + 2 - 1] = work[2]
    BY <1>2, <1>9, <2>2
  <2> QED
    BY <1>2, <1>6, <1>9, <2>2, <2>3
<1>14. enc'.current_proc = f
  BY <1>1
<1> HIDE DEF f
<1>15. ASSUME NEW k \in 1 .. Len(work') PROVE StepOK(k)'
  <2>1. CASE k = 2
    <3>1. k = Len(work') - 2 /\ work'[k + 1].op = "pop_tymap" /\ work'[k].op = "pure_function_key" /\ work'[k].x = f
      BY <1>6, <1>13, <2>1
    <3>2. \A j \in 1 .. k - 1 : work'[j].op = "push_tymap"
      BY <1>13, <2>1
    <3> QED
      BY <1>3, <1>14, <3>1, <3>2 DEF StepOK, Stages
  <2>2. CASE k # 2
    <3>1. work'[k].op \in {"push_tymap", "pop_tymap", "queue_done"}
      BY <1>13, <2>2
    <3> QED
      BY <3>1 DEF StepOK, Stages
  <2> QED
    BY <2>1, <2>2
<1>16. ItemShape'
  <2>1. work'[2].op \in Stages
    BY <1>6, <1>13 DEF Stages
  <2>2. Len(work') = 4
    BY <1>13
  <2>3. work' # <<>> /\ 2 \in 1 .. Len(work')
    BY <2>2, EmptyFacts
  <2> QED
    BY <1>2, <1>14, <1>15, <2>1, <2>3 DEF ItemShape, f
<1>17. ~Inserting' /\ ~Inserting
  <2>1. \A k \in 1 .. Len(work') : work'[k].op # "pure_function_insert"
    BY <1>6, <1>13
  <2>2. \A k \in 1 .. Len(work) : work[k].op # "pure_function_insert"
    BY <1>2
  <2> QED
    BY <2>1, <2>2 DEF Inserting
<1>18. FailureAccount'
  BY <1>11, <1>17, AccountKept DEF TInv
<1> QED
  BY <1>12, <1>16, <1>18 DEF TInv

\* The work after a stage is replaced by front and the next stage.
LEMMA StageWork ==
  ASSUME IInv, TInv, NEW op \in Stages, Next1(op), NEW front, front \in Seq(PlainItems), NEW it,
         Run(front \o <<it>>)
  PROVE  /\ Len(front) \in Nat /\ Len(work') = Len(front) + 3
         /\ \A i \in 1 .. Len(front) :
              work'[i] = front[i] /\ front[i].op \notin SpecialOps \cup {"pure_function_def"}
         /\ work'[Len(front) + 1] = it
         /\ work'[Len(front) + 2].op = "pop_tymap" /\ work'[Len(front) + 3].op = "queue_done"
         /\ \A k \in 1 .. Len(work') :
              k \in 1 .. Len(front) \/ k \in {Len(front) + 1, Len(front) + 2, Len(front) + 3}
<1> DEFINE items == front \o <<it>>
           n     == Len(front)
<1>1. Len(work) = 3 /\ work[2].op = "pop_tymap" /\ work[Len(work)].op = "queue_done" /\ op # "queue_done"
  <2>1. op # "queue_done"
    BY DEF Stages
  <2> QED
    BY <2>1, StageAtHead
<1>2. IsSeq(front) /\ n \in Nat /\ \A i \in 1 .. n : front[i].op \notin SpecialOps \cup {"pure_function_def"}
  BY PlainSeq, PlainIsNotSpecial
<1>3. IsSeq(<<it>>) /\ Len(<<it>>) = 1 /\ <<it>>[1] = it
  BY SingletonFacts
<1>4. /\ IsSeq(items) /\ Len(items) = n + Len(<<it>>) /\ \A i \in 1 .. n : items[i] = front[i]
      /\ \A i \in 1 .. Len(<<it>>) : items[n + i] = <<it>>[i]
  BY <1>2, <1>3, ConcatFacts
<1>5. IsSeq(items) /\ Len(items) = n + 1 /\ (\A i \in 1 .. n : items[i] = front[i]) /\ items[n + 1] = it
  BY <1>3, <1>4
<1> HIDE DEF items
<1>6. /\ Len(work') = Len(items) + Len(work) - 1 /\ \A j \in 1 .. Len(items) : work'[j] = items[j]
      /\ \A j \in 2 .. Len(work) : work'[Len(items) + j - 1] = work[j]
  <2>1. work' = items \o Tail(work)
    BY DEF items, Run
  <2>2. IsSeq(items) /\ op # "queue_done"
    BY <1>1, <1>5
  <2> QED
    BY <2>1, <2>2, WorkFacts
<1>7. n \in Nat /\ Len(items) = n + 1 /\ Len(work) = 3
  BY <1>1, <1>2, <1>5
<1> HIDE DEF n
<1>8. Len(work') = n + 3 /\ 2 \in 2 .. Len(work) /\ 3 \in 2 .. Len(work)
  BY <1>6, <1>7
<1>9. Len(items) + 2 - 1 = n + 2 /\ Len(items) + 3 - 1 = n + 3
  BY <1>7
<1>10. work'[n + 2] = work[2] /\ work'[n + 3] = work[3]
  BY <1>6, <1>8, <1>9
<1>11. \A i \in 1 .. n : work'[i] = front[i]
  BY <1>5, <1>6, <1>7
<1>12. work'[n + 1] = it
  BY <1>5, <1>6, <1>7
<1>13. \A k \in 1 .. Len(work') : k \in 1 .. n \/ k \in {n + 1, n + 2, n + 3}
  BY <1>7, <1>8
<1> QED
  BY <1>1, <1>2, <1>7, <1>8, <1>10, <1>11, <1>12, <1>13 DEF n

LEMMA StageShape ==
  ASSUME IInv, TInv, NEW op \in Stages, Next1(op), NEW front, front \in Seq(PlainItems), NEW it,
         Run(front \o <<it>>), it.op \in Stages, it.x = enc.current_proc,
         enc'.current_proc = enc.current_proc, it.op # "pure_function_key",
         it.op = "pure_function_lookup" => /\ \A i \in 1 .. Len(front) : Rank(front[i]) = 0
                                           /\ Supplied(work, Len(front) + 1, KeyParts(CurrentMap))',
         it.op = "pure_function_insert" =>
           /\ Len(enc'.typaram_repl) >= 1 /\ AllKnown(KeyParts(Bottom))'
           /\ <<enc.current_proc, SubstitutionKey(Bottom)'>> \in enc'.failed_pure_functions
  PROVE  ItemShape' /\ (Inserting' <=> it.op = "pure_function_insert")
<1> DEFINE n == Len(front)
<1>1. /\ n \in Nat /\ Len(work') = n + 3
      /\ \A i \in 1 .. n : work'[i] = front[i] /\ front[i].op \notin SpecialOps \cup {"pure_function_def"}
      /\ work'[n + 1] = it /\ work'[n + 2].op = "pop_tymap" /\ work'[n + 3].op = "queue_done"
      /\ \A k \in 1 .. Len(work') : k \in 1 .. n \/ k \in {n + 1, n + 2, n + 3}
  BY StageWork
<1>2. Fns[enc.current_proc].pure /\ enc.current_proc \in DOMAIN Fns
  BY StageAtHead
<1>3. \A k \in 1 .. Len(work') : k # n + 1 =>
        work'[k].op \notin Stages \cup {"pure_function_def", "procedure", "procedure_encoded"}
  <2> SUFFICES ASSUME NEW k \in 1 .. Len(work'), k # n + 1
               PROVE  work'[k].op \notin Stages \cup {"pure_function_def", "procedure", "procedure_encoded"}
    OBVIOUS
  <2>1. CASE k \in 1 .. n
    BY <1>1, <2>1 DEF SpecialOps
  <2>2. CASE k \in {n + 2, n + 3}
    BY <1>1, <2>2 DEF Stages
  <2> QED
    BY <1>1, <2>1, <2>2
<1>0. n \in Nat /\ Len(work') = n + 3
  BY <1>1
<1> HIDE DEF n
<1>4. StepOK(n + 1)'
  <2>1. n + 1 = Len(work') - 2 /\ (n + 1) + 1 = n + 2 /\ (n + 1) - 1 = n
    BY <1>0
  <2>2. work'[n + 1].op \in Stages =>
          /\ Fns[enc'.current_proc].pure /\ work'[n + 1].x = enc'.current_proc
          /\ n + 1 = Len(work') - 2 /\ work'[(n + 1) + 1].op = "pop_tymap"
    BY <1>1, <1>2, <2>1
  <2>3. work'[n + 1].op = "pure_function_lookup" =>
          (\A j \in 1 .. (n + 1) - 1 : Rank(work'[j]) = 0) /\ Supplied(work, n + 1, KeyParts(CurrentMap))'
    BY <1>1, <2>1 DEF n
  <2>4. work'[n + 1].op = "pure_function_insert" =>
          /\ Len(enc'.typaram_repl) >= 1 /\ AllKnown(KeyParts(Bottom))'
          /\ <<enc'.current_proc, SubstitutionKey(Bottom)'>> \in enc'.failed_pure_functions
    BY <1>1
  <2>5. work'[n + 1].op \notin {"pure_function_def", "pure_function_key", "procedure", "procedure_encoded"}
    BY <1>1 DEF Stages
  <2> QED
    BY <2>2, <2>3, <2>4, <2>5 DEF StepOK
<1>5. \A k \in 1 .. Len(work') : StepOK(k)'
  <2> SUFFICES ASSUME NEW k \in 1 .. Len(work') PROVE StepOK(k)'
    OBVIOUS
  <2>1. CASE k = n + 1
    BY <1>4, <2>1
  <2>2. CASE k # n + 1
    BY <1>3, <2>2 DEF StepOK, Stages
  <2> QED
    BY <2>1, <2>2
<1>6. n + 1 \in 1 .. Len(work') /\ work' # <<>>
  BY <1>0, EmptyFacts
<1>7. \E k \in 1 .. Len(work') : work'[k].op \in Stages \cup {"pure_function_def"}
  BY <1>1, <1>6
<1>8. ItemShape'
  BY <1>2, <1>5, <1>6, <1>7 DEF ItemShape
<1>9. Inserting' <=> it.op = "pure_function_insert"
  BY <1>1, <1>3, <1>6 DEF Inserting, Stages
<1> QED
  BY <1>8, <1>9

LEMMA KeyTables == IInv /\ TInv /\ SubstituteForKey => TInv'
<1> SUFFICES ASSUME IInv, TInv, SubstituteForKey PROVE TInv'
  OBVIOUS
<1>0. PICK front, it : front = SubstitutionNames /\ it = Do("pure_function_lookup", X)
  OBVIOUS
<1> DEFINE items == front \o <<it>>
<1>1. Next1("pure_function_key") /\ NoIntern /\ UNCHANGED enc /\ Run(items)
  BY <1>0 DEF SubstituteForKey
<1>2. work[1].op = "pure_function_key" /\ X = enc.current_proc /\ X \in DOMAIN Fns
  BY <1>1, StageAtHead DEF Stages
<1>3. it \in Items /\ it.op = "pure_function_lookup" /\ it.x = X /\ <<it>> \in Seq(Items)
  BY <1>0, <1>2, SpecialDo DEF SpecialOps, Stages
<1>4. CurrentMap \in CrateMaps
  BY CurrentMapFacts DEF TInv
<1>5. front \in Seq(FreeItems) /\ \A w \in KeyParts(CurrentMap) : Provides(front, w)
  BY <1>0, <1>4, SubstitutionFacts
<1>6. \A i \in 1 .. Len(front) : Rank(front[i]) = 0
  <2>1. \A xs : Rank(Do("for", <<"encode_type", xs>>)) = 0
    BY DEF Rank, OpRank, Do
  <2> HIDE DEF Do, Rank
  <2>2. PICK xs : front = For("encode_type", xs)
    BY <1>0 DEF SubstitutionNames
  <2>3. front = <<>> \/ front = <<Do("for", <<"encode_type", xs>>)>>
    BY <2>2 DEF For
  <2> QED
    BY <2>1, <2>3
<1>7. front \in Seq(PlainItems) /\ Ready(front) /\ front \in Seq(Items) /\ IsSeq(front)
  BY <1>5, FreeReady, PlainSeq
<1>8. items \in Seq(Items) /\ Ready(items)
  <2>1. it.op \in SpecialOps
    BY <1>3 DEF SpecialOps, Stages
  <2>2. Ready(items)
    BY <1>7, <2>1, ReadySpecial
  <2> QED
    BY <1>3, <1>7, <2>2
<1>10. SameNames /\ Accountless /\ enc'.typaram_repl = enc.typaram_repl /\ enc'.queue = enc.queue
  BY <1>1, SameColumns, ColumnFacts DEF SameNames, SameTables, Accountless, NoIntern, internerVars
<1>11. Typing' /\ Names' /\ Ready(work)'
  <2> HIDE DEF items
  <2> QED
    BY <1>1, <1>8, <1>10, StageStep DEF Accountless, SpecialOps, Stages
<1>12. "pure_function_key" \in Stages /\ it.op \in Stages
  BY <1>3 DEF Stages
<1>13. Supplied(work, Len(front) + 1, KeyParts(CurrentMap))'
  <2>0. Next1("pure_function_key") /\ front \in Seq(PlainItems) /\ Run(front \o <<it>>)
    BY <1>1, <1>7
  <2>1. Len(front) \in Nat /\ \A i \in 1 .. Len(front) : work'[i] = front[i]
    BY <1>12, <2>0, StageWork
  <2>2. KeyParts(CurrentMap)' = KeyParts(CurrentMap)
    BY <1>10 DEF CurrentMap
  <2>3. ASSUME NEW w \in KeyParts(CurrentMap)
        PROVE  \E j \in 1 .. (Len(front) + 1) - 1 : w \in Gives(work'[j])
    <3>1. PICK i \in 1 .. Len(front) : w \in Gives(front[i])
      BY <1>5 DEF Provides
    <3> QED
      BY <2>1, <3>1
  <2>4. \A w \in KeyParts(CurrentMap)' :
          Known(w)' \/ \E j \in 1 .. (Len(front) + 1) - 1 : w \in Gives(work'[j])
    BY <2>2, <2>3
  <2> QED
    BY <2>4 DEF Supplied
<1>14. ItemShape' /\ ~Inserting'
  <2>1. Next1("pure_function_key") /\ front \in Seq(PlainItems) /\ Run(front \o <<it>>)
    BY <1>1, <1>7
  <2>2. it.op = "pure_function_lookup" /\ it.x = enc.current_proc /\ enc'.current_proc = enc.current_proc
    BY <1>2, <1>3, <1>10 DEF Accountless
  <2> QED
    BY <1>6, <1>12, <1>13, <2>1, <2>2, StageShape
<1>15. ~Inserting
  <2>1. Len(work) = 3 /\ work[2].op = "pop_tymap" /\ work[Len(work)].op = "queue_done"
    BY <1>1, <1>12, StageAtHead
  <2>2. \A k \in 1 .. Len(work) : work[k].op # "pure_function_insert"
    BY <1>2, <2>1
  <2> QED
    BY <2>2 DEF Inserting
<1>16. FailureAccount'
  BY <1>10, <1>14, <1>15, AccountKept DEF TInv
<1> QED
  BY <1>11, <1>14, <1>16 DEF TInv

\* What the encoding of a pure function asks for needs no names.
LEMMA FreePureFunction ==
  ASSUME NEW f \in DOMAIN Fns, CurrentMap \in CrateMaps
  PROVE  PureFunctionParts(f) \in Seq(FreeItems)
<1> DEFINE name   == <<Do("item_name", f)>>
           both   == <<Do("item_name", f), Do("contract", f)>>
           args   == For("snapshot", Fns[f].args)
           snap   == <<Do("snapshot", Fns[f].ret)>>
           ret    == <<Do("return_type", f)>>
           ends   == <<Do("register", "verification"), Do("return_type", f)>>
           starts == <<Do("return_type", f), Do("register", "verification")>>
           mirror == <<Do("mirror", f)>>
           check  == IF Fns[f].ret.kind = "prim" \/ Fns[f].copy THEN <<>> ELSE <<Do("fail", "unsupported")>>
<1>1. /\ Do("item_name", f) \in FreeItems /\ Do("contract", f) \in FreeItems
      /\ Do("snapshot", Fns[f].ret) \in FreeItems /\ Do("return_type", f) \in FreeItems
      /\ Do("register", "verification") \in FreeItems /\ Do("mirror", f) \in FreeItems
      /\ Do("fail", "unsupported") \in FreeItems
  <2>1. f \in FullNames /\ Fns[f].ret \in CrateTypes
    BY SignaturesAssumption
  <2>2. Do("item_name", f) \in FreeItems
    BY <2>1, FreeDo
  <2>3. Do("snapshot", Fns[f].ret) \in FreeItems
    BY <2>1, FreeDo DEF TypeOps, NeedyOps
  <2>4. Do("contract", f) \in FreeItems /\ Do("return_type", f) \in FreeItems /\ Do("mirror", f) \in FreeItems
    BY FreeDo DEF FunctionOps
  <2>5. Do("register", "verification") \in FreeItems /\ Do("fail", "unsupported") \in FreeItems
    BY FreeDo DEF ErrorKinds
  <2> QED
    BY <2>2, <2>3, <2>4, <2>5
<1>2. /\ name \in Seq(FreeItems) /\ both \in Seq(FreeItems) /\ snap \in Seq(FreeItems) /\ ret \in Seq(FreeItems)
      /\ ends \in Seq(FreeItems) /\ starts \in Seq(FreeItems) /\ mirror \in Seq(FreeItems)
      /\ check \in Seq(FreeItems)
  <2> HIDE DEF Do
  <2> QED
    BY <1>1
<1>3. args \in Seq(FreeItems)
  BY SignaturesAssumption, FreeLoops DEF TypeLoops, LoopOps
<1>4. Fns[f].body \in Seq(FreeItems) /\ Fns[f].spec \in Seq(FreeItems) /\ Fns[f].post \in Seq(FreeItems)
  BY FreeRequests
<1>5. SubstitutionNames \in Seq(FreeItems) /\ Patch(f) \in Seq(FreeItems)
  BY SubstitutionFacts, FreePatch
<1>6. Precondition(f) = args \o Fns[f].spec /\ Postcondition(f) = args \o snap \o Fns[f].post \o ends
  BY DEF Precondition, Postcondition
<1>7. GivenBody(f) = both \o SubstitutionNames \o Precondition(f) \o Postcondition(f) \o args \o starts \o Patch(f)
  BY DEF GivenBody
<1>8. PureFunctionParts(f) \in {both \o args \o Fns[f].body \o GivenBody(f), GivenBody(f),
         name \o Fns[f].body \o args \o ret \o check \o GivenBody(f) \o mirror}
  BY DEF PureFunctionParts
<1> HIDE DEF name, both, args, snap, ret, ends, starts, mirror, check
<1>9. Precondition(f) \in Seq(FreeItems) /\ Postcondition(f) \in Seq(FreeItems)
  BY <1>2, <1>3, <1>4, <1>6
<1>10. GivenBody(f) \in Seq(FreeItems)
  BY <1>2, <1>3, <1>5, <1>7, <1>9
<1>11. both \o args \o Fns[f].body \o GivenBody(f) \in Seq(FreeItems)
  BY <1>2, <1>3, <1>4, <1>10
<1>12. name \o Fns[f].body \o args \o ret \o check \o GivenBody(f) \o mirror \in Seq(FreeItems)
  BY <1>2, <1>3, <1>4, <1>10
<1> QED
  BY <1>8, <1>10, <1>11, <1>12

\* When the function is looked up and when it is inserted, its map is the only one.
LEMMA OneMap ==
  ASSUME IInv, TInv, NEW op \in {"pure_function_lookup", "pure_function_insert"}, Next1(op)
  PROVE  Len(enc.typaram_repl) = 1 /\ Bottom = CurrentMap
<1>1. Len(work) = 3 /\ work[1].op = op /\ work[2].op = "pop_tymap" /\ work[Len(work)].op = "queue_done"
  BY StageAtHead DEF Stages
<1>2. Rank(work[1]) # 0 /\ work[1].op # "push_tymap"
  BY <1>1 DEF Rank, OpRank
<1>3. Stack(work, enc.held, enc.typaram_repl) /\ IsSeq(work) /\ work # <<>>
  BY AtHead DEF IInv
<1>4. Len(enc.typaram_repl) = Count("pop_tymap", work)
  BY <1>2, <1>3, NoMorePushes
<1>5. DOMAIN work = 1 .. 3
  BY <1>1, <1>3, SeqFacts
<1>6. At("pop_tymap", work) = {2}
  BY <1>1, <1>5 DEF At
<1>7. Count("pop_tymap", work) = 1
  BY <1>6, FS_Singleton DEF Count
<1>8. PICK S : enc.typaram_repl \in Seq(S)
  BY <1>3 DEF Stack, IsSeq
<1>9. SubSeq(enc.typaram_repl, 1, 1) = enc.typaram_repl
  BY <1>4, <1>7, <1>8
<1> QED
  BY <1>4, <1>7, <1>9 DEF Bottom, CurrentMap

\* The work when a stage is over: nothing but the end of the item.
LEMMA LastStage ==
  ASSUME IInv, TInv, NEW op \in Stages, Next1(op), Return, enc'.current_proc = enc.current_proc
  PROVE  ItemShape' /\ ~Inserting'
<1>1. /\ Len(work) = 3 /\ work[2].op = "pop_tymap" /\ work[Len(work)].op = "queue_done"
      /\ enc.current_proc \in DOMAIN Fns
  BY StageAtHead DEF Stages
<1>2. IsSeq(<<>>) /\ Len(<<>>) = 0
  BY EmptyFacts
<1>3. /\ Len(work') = Len(<<>>) + Len(work) - 1
      /\ \A j \in 2 .. Len(work) : work'[Len(<<>>) + j - 1] = work[j]
  <2>1. op # "queue_done" /\ work' = <<>> \o Tail(work)
    BY DEF Stages, Return, Run
  <2> QED
    BY <1>2, <2>1, WorkFacts
<1>4. Len(work') = 2 /\ work'[1].op = "pop_tymap" /\ work'[2].op = "queue_done"
  <2>1. work'[0 + 2 - 1] = work[2] /\ work'[0 + 3 - 1] = work[3]
    BY <1>1, <1>2, <1>3
  <2>2. 0 + 2 - 1 = 1 /\ 0 + 3 - 1 = 2
    OBVIOUS
  <2>3. Len(work') = 2
    BY <1>1, <1>2, <1>3
  <2> QED
    BY <1>1, <2>1, <2>2, <2>3
<1>5. \A k \in 1 .. Len(work') : work'[k].op \in {"pop_tymap", "queue_done"}
  BY <1>4
<1>6. \A k \in 1 .. Len(work') : StepOK(k)'
  BY <1>5 DEF StepOK, Stages
<1>7. work' # <<>>
  <2>1. Len(work') = 2
    BY <1>4
  <2> QED
    BY <2>1, EmptyFacts
<1> QED
  BY <1>1, <1>5, <1>6, <1>7 DEF ItemShape, Inserting

LEMMA LookupTables == IInv /\ TInv /\ LookUpPureFunction => TInv'
<1> SUFFICES ASSUME IInv, TInv, LookUpPureFunction PROVE TInv'
  OBVIOUS
<1> DEFINE op == "pure_function_lookup"
<1>1. Next1(op) /\ NoIntern /\ op \in Stages /\ op \in SpecialOps /\ op # "queue_done"
  BY DEF LookUpPureFunction, Stages, SpecialOps
<1>2. /\ X = enc.current_proc /\ X \in DOMAIN Fns /\ Fns[X].pure /\ StepOK(1) /\ work[1].op = op
      /\ Len(work) = 3 /\ work[2].op = "pop_tymap" /\ work[Len(work)].op = "queue_done"
  BY <1>1, StageAtHead
<1>3. ~Inserting
  <2>1. \A k \in 1 .. Len(work) : work[k].op # "pure_function_insert"
    BY <1>2
  <2> QED
    BY <2>1 DEF Inserting
<1>4. CASE Key(X) \in enc.pure_functions \cup enc.failed_pure_functions
  <2>1. Return /\ UNCHANGED enc
    BY <1>4 DEF LookUpPureFunction
  <2>2. SameNames /\ Accountless /\ enc'.typaram_repl = enc.typaram_repl /\ enc'.queue = enc.queue
    BY <1>1, <2>1, SameColumns, ColumnFacts DEF SameNames, SameTables, Accountless, NoIntern, internerVars
  <2>3. <<>> \in Seq(Items) /\ Ready(<<>>)
    BY EmptyFacts DEF Ready
  <2>4. Typing' /\ Names' /\ Ready(work)'
    BY <1>1, <2>1, <2>2, <2>3, StageStep DEF Accountless, Return
  <2>5. ItemShape' /\ ~Inserting'
    BY <1>1, <2>1, <2>2, LastStage DEF Accountless
  <2>6. FailureAccount'
    BY <1>3, <2>2, <2>5, AccountKept DEF TInv
  <2> QED
    BY <2>4, <2>5, <2>6 DEF TInv
<1>5. CASE Key(X) \notin enc.pure_functions \cup enc.failed_pure_functions
  <2>0. PICK front, it, f, key : /\ front = PureFunctionParts(X) \o Patch(X)
                                 /\ it = Do("pure_function_insert", X) /\ f = X /\ key = Key(X)
    OBVIOUS
  <2> DEFINE items == front \o <<it>>
  <2>1. Run(items) /\ enc' = [enc EXCEPT !.failed_pure_functions = @ \cup {key}]
    BY <1>5, <2>0 DEF LookUpPureFunction
  <2>2. CurrentMap \in CrateMaps
    BY CurrentMapFacts DEF TInv
  <2>3. front \in Seq(FreeItems)
    BY <1>2, <2>0, <2>2, FreePureFunction, FreePatch
  <2>4. front \in Seq(PlainItems) /\ Ready(front) /\ front \in Seq(Items) /\ IsSeq(front)
    BY <2>3, FreeReady, PlainSeq
  <2>5. it \in Items /\ it.op = "pure_function_insert" /\ it.x = f /\ <<it>> \in Seq(Items)
    BY <1>2, <2>0, SpecialDo DEF SpecialOps, Stages
  <2>6. it.op \in Stages /\ it.op \in SpecialOps
    BY <2>5 DEF SpecialOps, Stages
  <2>7. items \in Seq(Items) /\ Ready(items)
    BY <2>4, <2>5, <2>6, ReadySpecial
  <2>8. /\ Columns \subseteq DOMAIN enc' /\ enc'.failed_pure_functions = enc.failed_pure_functions \cup {key}
        /\ \A a \in Columns \ {"failed_pure_functions"} : enc'[a] = enc[a]
    BY <2>1 DEF TInv, Typing, Columns, Kept
  <2>9. /\ SameNames /\ enc'.typaram_repl = enc.typaram_repl /\ enc'.queue = enc.queue
        /\ enc'.current_proc = enc.current_proc /\ enc'.reported = enc.reported
    BY <1>1, <2>8 DEF SameNames, SameTables, NoIntern, internerVars, Columns, Kept
  <2> HIDE DEF items
  <2>10. Typing' /\ Names' /\ Ready(work)' /\ NamesKept
    BY <1>1, <2>1, <2>7, <2>8, <2>9, StageStep
  <2>11. Len(enc.typaram_repl) = 1 /\ Bottom = CurrentMap
    BY <1>1, OneMap
  <2>12. AllKnown(KeyParts(Bottom))
    <3>1. Supplied(work, 1, KeyParts(CurrentMap))
      BY <1>2 DEF StepOK
    <3>2. \A w \in KeyParts(CurrentMap) : Known(w)
      BY <3>1 DEF Supplied
    <3> QED
      BY <2>11, <3>2 DEF AllKnown
  <2>13. AllKnown(KeyParts(Bottom))' /\ SubstitutionKey(Bottom)' = SubstitutionKey(Bottom)
    <3>1. Bottom' = Bottom
      BY <2>9 DEF Bottom
    <3> QED
      BY <2>10, <2>12, <3>1, BottomKept
  <2>14. key = <<f, SubstitutionKey(Bottom)>>
    BY <2>0, <2>11 DEF Key
  <2>15. /\ Len(enc'.typaram_repl) >= 1
         /\ <<enc.current_proc, SubstitutionKey(Bottom)'>> \in enc'.failed_pure_functions
    BY <1>2, <2>0, <2>8, <2>9, <2>11, <2>13, <2>14
  <2>16. ItemShape' /\ (Inserting' <=> it.op = "pure_function_insert")
    <3>1. Run(front \o <<it>>) /\ it.x = enc.current_proc
      BY <1>2, <2>0, <2>1, <2>5 DEF items
    <3> QED
      BY <1>1, <2>4, <2>5, <2>6, <2>9, <2>13, <2>15, <3>1, StageShape
  <2>17. FailureAccount'
    <3>1. IsFiniteSet(enc.failed_pure_functions) /\ key \notin enc.failed_pure_functions /\ key[1] = f
      BY <1>5, <2>0, <2>14 DEF TInv, FailureAccount
    <3>2. IsFiniteSet(enc'.failed_pure_functions)
      BY <2>8, <3>1, FS_AddElement
    <3>3. \A g : ReportsOf(g)' = ReportsOf(g)
      BY <2>9 DEF ReportsOf
    <3>4. \A g : FailuresOf(g)' = IF g = f THEN FailuresOf(g) \cup {key} ELSE FailuresOf(g)
      BY <2>8, <3>1 DEF FailuresOf
    <3>5. Cardinality(FailuresOf(f) \cup {key}) = Cardinality(FailuresOf(f)) + 1
      <4>1. IsFiniteSet(FailuresOf(f)) /\ key \notin FailuresOf(f)
        BY <3>1, FS_Subset DEF FailuresOf
      <4> QED
        BY <4>1, FS_AddElement
    <3>6. \A g \in DOMAIN Fns : Fns[g].pure => Cardinality(FailuresOf(g)) = Cardinality(ReportsOf(g))
      BY <1>3 DEF TInv, FailureAccount
    <3>7. ASSUME NEW g \in DOMAIN Fns, Fns[g].pure
          PROVE  Cardinality(FailuresOf(g)') = (IF g = f THEN Cardinality(ReportsOf(g)') + 1 ELSE Cardinality(ReportsOf(g)'))
      <4>1. CASE g = f
        <5>1. Cardinality(FailuresOf(g)) = Cardinality(ReportsOf(g))
          BY <3>6, <3>7
        <5>2. Cardinality(FailuresOf(g)') = Cardinality(FailuresOf(g)) + 1
          BY <3>4, <3>5, <4>1
        <5>3. Cardinality(FailuresOf(g)) \in Nat
          BY <3>1, FS_Subset, FS_CardinalityType DEF FailuresOf
        <5>4. IsFiniteSet(ReportsOf(g)) /\ Cardinality(ReportsOf(g)) \in Nat
          <6>1. IsSeq(enc.reported)
            BY <1>1 DEF IInv, ReportsOK, Next1
          <6>2. IsFiniteSet(DOMAIN enc.reported)
            BY <6>1, SeqFacts, FS_Interval
          <6> QED
            BY <6>2, FS_Subset, FS_CardinalityType DEF ReportsOf
        <5> QED
          BY <3>3, <4>1, <5>1, <5>2, <5>3, <5>4
      <4>2. CASE g # f
        BY <3>3, <3>4, <3>6, <3>7, <4>2
      <4> QED
        BY <4>1, <4>2
    <3>8. Inserting' /\ enc'.current_proc = f
      BY <1>2, <2>0, <2>5, <2>9, <2>16
    <3> QED
      BY <3>2, <3>7, <3>8 DEF FailureAccount
  <2> QED
    BY <2>10, <2>16, <2>17 DEF TInv
<1> QED
  BY <1>4, <1>5

LEMMA InsertTables == IInv /\ TInv /\ InsertPureFunction => TInv'
<1> SUFFICES ASSUME IInv, TInv, InsertPureFunction PROVE TInv'
  OBVIOUS
<1> DEFINE op == "pure_function_insert"
<1>1. Next1(op) /\ NoIntern /\ Return /\ op \in Stages /\ op \in SpecialOps /\ op # "queue_done"
  BY DEF InsertPureFunction, Stages, SpecialOps
<1>2. /\ X = enc.current_proc /\ X \in DOMAIN Fns /\ Fns[X].pure /\ StepOK(1) /\ work[1].op = op
      /\ Len(work) = 3
  BY <1>1, StageAtHead
<1>3. Inserting
  <2>1. 1 \in 1 .. Len(work)
    BY <1>2
  <2> QED
    BY <1>2, <2>1 DEF Inserting
<1>0. PICK f, key : f = X /\ key = Key(X)
  OBVIOUS
<1>4. /\ Columns \subseteq DOMAIN enc' /\ enc'.failed_pure_functions = enc.failed_pure_functions \ {key}
      /\ \A a \in Columns \ {"failed_pure_functions", "pure_functions"} : enc'[a] = enc[a]
  BY <1>0 DEF InsertPureFunction, TInv, Typing, Columns, Kept
<1>5. /\ SameNames /\ enc'.typaram_repl = enc.typaram_repl /\ enc'.queue = enc.queue
      /\ enc'.current_proc = enc.current_proc /\ enc'.reported = enc.reported
  BY <1>1, <1>4 DEF SameNames, SameTables, NoIntern, internerVars, Columns, Kept
<1>6. <<>> \in Seq(Items) /\ Ready(<<>>)
  BY EmptyFacts DEF Ready
<1>7. Typing' /\ Names' /\ Ready(work)'
  BY <1>1, <1>4, <1>5, <1>6, StageStep DEF Return
<1>8. ItemShape' /\ ~Inserting'
  BY <1>1, <1>5, LastStage
<1>9. key \in enc.failed_pure_functions /\ key[1] = f
  <2>1. <<X, SubstitutionKey(Bottom)>> \in enc.failed_pure_functions
    BY <1>2 DEF StepOK
  <2>2. Bottom = CurrentMap
    BY <1>1, OneMap
  <2> QED
    BY <1>0, <2>1, <2>2 DEF Key
<1>10. FailureAccount'
  <2>1. IsFiniteSet(enc.failed_pure_functions)
    BY DEF TInv, FailureAccount
  <2>2. IsFiniteSet(enc'.failed_pure_functions)
    BY <1>4, <2>1, FS_Subset
  <2>3. \A g : ReportsOf(g)' = ReportsOf(g)
    BY <1>5 DEF ReportsOf
  <2>4. \A g : FailuresOf(g)' = IF g = f THEN FailuresOf(g) \ {key} ELSE FailuresOf(g)
    BY <1>4, <1>9 DEF FailuresOf
  <2>5. Cardinality(FailuresOf(f) \ {key}) = Cardinality(FailuresOf(f)) - 1 /\ Cardinality(FailuresOf(f)) \in Nat
    <3>1. IsFiniteSet(FailuresOf(f)) /\ key \in FailuresOf(f)
      BY <1>9, <2>1, FS_Subset DEF FailuresOf
    <3> QED
      BY <3>1, FS_RemoveElement, FS_CardinalityType
  <2>6. /\ \A g \in DOMAIN Fns : Fns[g].pure =>
             Cardinality(FailuresOf(g)) = (IF g = f THEN Cardinality(ReportsOf(g)) + 1 ELSE Cardinality(ReportsOf(g)))
    BY <1>0, <1>2, <1>3 DEF TInv, FailureAccount
  <2>7. ASSUME NEW g \in DOMAIN Fns, Fns[g].pure
        PROVE  Cardinality(FailuresOf(g)') = Cardinality(ReportsOf(g)')
    <3>1. CASE g = f
      <4>1. Cardinality(FailuresOf(g)) = Cardinality(ReportsOf(g)) + 1
        BY <2>6, <2>7, <3>1
      <4>2. Cardinality(FailuresOf(g)') = Cardinality(FailuresOf(g)) - 1
        BY <2>4, <2>5, <3>1
      <4>3. Cardinality(ReportsOf(g)) \in Nat
        <5>1. IsSeq(enc.reported)
          BY <1>1 DEF IInv, ReportsOK, Next1
        <5>2. IsFiniteSet(DOMAIN enc.reported)
          BY <5>1, SeqFacts, FS_Interval
        <5> QED
          BY <5>2, FS_Subset, FS_CardinalityType DEF ReportsOf
      <4> QED
        BY <2>3, <2>5, <3>1, <4>1, <4>2, <4>3
    <3>2. CASE g # f
      BY <2>3, <2>4, <2>6, <2>7, <3>2
    <3> QED
      BY <3>1, <3>2
  <2> QED
    BY <1>8, <2>2, <2>7 DEF FailureAccount
<1> QED
  BY <1>7, <1>8, <1>10 DEF TInv

-------------------------------------------------------------------------------
(* Errors *)

\* What an Err changes in the tables.
LEMMA FailColumns ==
  ASSUME IInv, TInv, Fail
  PROVE  /\ Columns \subseteq DOMAIN enc' /\ SameNames /\ enc'.queue = enc.queue
         /\ enc'.current_proc = enc.current_proc
         /\ enc'.failed_pure_functions = enc.failed_pure_functions
         /\ \E e : e.of = enc.current_proc /\ enc'.reported = Append(enc.reported, e)
<1> DEFINE h == CHOOSE i \in DOMAIN work :
                  work[i].op \in Handlers /\ \A j \in 1 .. i - 1 : work[j].op \notin Handlers
           dropped == SubSeq(work, 1, h - 1)
           Places(op) == {i \in DOMAIN dropped : dropped[i].op = op}
           Dropped(op) == {dropped[i].x : i \in Places(op)}
           tokens == Cardinality(Places("pop_tymap"))
           left == [enc EXCEPT
                      !.held = @ \ Dropped("release"),
                      !.in_progress = @ \ {enc.type_predicate_names[t] : t \in Dropped("snapshot_insert")},
                      !.typaram_repl = SubSeq(@, 1, Len(@) - tokens)]
<1>1. enc' = Emit(left, X)
  BY DEF Fail, Unwind
<1> HIDE DEF tokens, Dropped
<1>2. /\ Columns \subseteq DOMAIN left
      /\ \A a \in Columns \ {"held", "typaram_repl"} : left[a] = enc[a]
  BY DEF TInv, Typing, Columns, Kept
<1> HIDE DEF left
<1>3. PICK l, e : l = left /\ e = [of |-> left.current_proc, kind |-> X, error |-> IsError(X)]
  OBVIOUS
<1>4. enc' = [l EXCEPT !.reported = Append(@, e)]
  BY <1>1, <1>3 DEF Emit
<1>5. Columns \subseteq DOMAIN l /\ \A a \in Columns \ {"held", "typaram_repl"} : l[a] = enc[a]
  BY <1>2, <1>3
<1>6. e.of = l.current_proc
  BY <1>3
<1>7. /\ Columns \subseteq DOMAIN enc' /\ enc'.reported = Append(l.reported, e)
      /\ \A a \in Columns \ {"held", "typaram_repl", "reported"} : enc'[a] = enc[a]
  BY <1>4, <1>5 DEF Columns, Kept
<1>8. l.reported = enc.reported /\ l.current_proc = enc.current_proc
  BY <1>5 DEF Columns, Kept
<1>9. name_to_symbol' = name_to_symbol
  BY DEF Fail, NoIntern, internerVars
<1> QED
  BY <1>6, <1>7, <1>8, <1>9 DEF Columns, Kept, SameNames, SameTables

\* A pure function that fails is being encoded.
LEMMA FailsInserting ==
  ASSUME IInv, TInv, Next1("fail"), Fns[enc.current_proc].pure
  PROVE  Inserting
<1>1. work # <<>> /\ work[1].op = "fail" /\ Len(work) \in Nat /\ 1 \in 1 .. Len(work)
  BY AtHead, HeadItem
<1>2. PICK i \in 1 .. Len(work) : work[i].op \in Stages \cup {"pure_function_def"}
  <2>1. \/ \E i \in 1 .. Len(work) : work[i].op \in Stages \cup {"pure_function_def"}
        \/ \A i \in 1 .. Len(work) : work[i].op \in {"pop_tymap", "queue_done"}
    BY <1>1 DEF TInv, ItemShape
  <2> QED
    BY <1>1, <2>1
<1>3. StepOK(i) /\ 1 \in 1 .. i - 1
  <2>1. i # 1
    BY <1>1, <1>2 DEF Stages
  <2> QED
    BY <1>1, <2>1 DEF TInv, ItemShape
<1>4. work[i].op # "pure_function_def"
  BY <1>3 DEF IInv, Stack
<1>5. work[i].op # "pure_function_key"
  BY <1>1, <1>3 DEF StepOK
<1>6. work[i].op # "pure_function_lookup"
  <2>1. Rank(work[1]) # 0
    BY <1>1 DEF Rank, OpRank
  <2> QED
    BY <1>3, <2>1 DEF StepOK
<1>7. work[i].op = "pure_function_insert"
  BY <1>2, <1>4, <1>5, <1>6 DEF Stages
<1> QED
  BY <1>7 DEF Inserting

\* What is left to do after an error: the stub of the procedure, or nothing.
LEMMA UnwoundWork ==
  ASSUME IInv, TInv, NEW h \in 1 .. Len(work), Unwound(h), Next1("fail"), work[h].op \in Handlers
  PROVE  /\ work' \in Seq(Items) /\ work' # <<>>
         /\ \A k \in 1 .. Len(work') :
              work'[k].op \in {"item_name", "predicate_use", "stub", "spec_funcs", "queue_done"}
         /\ Fns[enc.current_proc].pure => \A k \in 1 .. Len(work') : work'[k].op = "queue_done"
<1>1. /\ work # <<>> /\ work \in Seq(Items) /\ Len(work) \in Nat /\ StepOK(h)
      /\ (work[h].op = "queue_done" <=> h = Len(work)) /\ work[Len(work)].op = "queue_done"
  <2>1. work # <<>> /\ Len(work) \in Nat /\ Len(work) > 0
    BY AtHead
  <2>2. Len(work) \in 1 .. Len(work)
    BY <2>1
  <2>3. \A i \in 1 .. Len(work) : work[i].op = "queue_done" <=> i = Len(work)
    BY DEF IInv, Stack
  <2>4. work \in Seq(Items) /\ StepOK(h)
    BY <2>1 DEF TInv, Typing, ItemShape
  <2> QED
    BY <2>1, <2>2, <2>3, <2>4
<1>2. CASE work[h].op = "queue_done"
  <2>1. PICK q : q = SubSeq(work, h, Len(work))
    OBVIOUS
  <2>2. q \in Seq(Items) /\ Len(q) = 1 /\ q[1] = work[h]
    <3>1. h = Len(work) /\ h \in Nat /\ h >= 1
      BY <1>1, <1>2
    <3>2. work \in Seq(Items)
      BY <1>1
    <3>3. Len(q) = 1
      BY <2>1, <3>1, <3>2
    <3>4. q \in Seq(Items) /\ q[1] = work[h]
      BY <2>1, <3>1, <3>2, <3>3
    <3> QED
      BY <3>3, <3>4
  <2>3. work' = q
    BY <1>2, <2>1 DEF Unwound
  <2>4. q # <<>> /\ \A k \in 1 .. Len(q) : q[k].op = "queue_done"
    <3>1. Len(q) # Len(<<>>)
      BY <2>2, EmptyFacts
    <3>2. \A k \in 1 .. Len(q) : k = 1
      BY <2>2
    <3> QED
      BY <1>2, <2>2, <3>1, <3>2, Zenon
  <2> QED
    BY <2>2, <2>3, <2>4
<1>3. CASE work[h].op # "queue_done"
  <2>1. work[h].op = "procedure_encoded" /\ h # Len(work)
    BY <1>1, <1>3 DEF Handlers
  <2>2. /\ ~Fns[enc.current_proc].pure
        /\ \A j \in h + 1 .. Len(work) : work[j].op \in {"spec_funcs", "queue_done"}
    BY <1>1, <2>1 DEF StepOK
  <2>3. PICK f, a, b, c, rest : /\ f = work[h].x /\ a = Do("item_name", f) /\ b = Do("predicate_use", Fns[f].ret)
                                /\ c = Do("stub", f) /\ rest = SubSeq(work, h + 1, Len(work))
    OBVIOUS
  <2>4. f \in DOMAIN Fns
    BY <1>1, <2>1, <2>3, ItemFacts DEF SpecialOps
  <2>5. /\ a \in Items /\ a.op = "item_name" /\ b \in Items /\ b.op = "predicate_use"
        /\ c \in Items /\ c.op = "stub"
    <3>1. f \in FullNames /\ Fns[f].ret \in CrateTypes
      BY <2>4, SignaturesAssumption
    <3>2. a \in PlainItems /\ b \in PlainItems
      BY <2>3, <3>1, PlainDo DEF TypeOps
    <3>3. a.op = "item_name" /\ b.op = "predicate_use"
      BY <2>3 DEF Do
    <3>4. c \in Items /\ c.op = "stub"
      BY <2>3, <2>4, SpecialDo DEF SpecialOps
    <3> QED
      BY <3>2, <3>3, <3>4, PlainIsNotSpecial
  <2>6. /\ rest \in Seq(Items) /\ Len(rest) = Len(work) - h
        /\ \A i \in 1 .. Len(rest) : rest[i] = work[h + i]
    BY <1>1, <2>3
  <2>7. \A i \in 1 .. Len(rest) : rest[i].op \in {"spec_funcs", "queue_done"}
    <3> TAKE i \in 1 .. Len(rest)
    <3>1. h + i \in h + 1 .. Len(work)
      BY <1>1, <2>6
    <3> QED
      BY <2>2, <2>6, <3>1
  <2>8. PICK p : p = <<a, b, c>>
    OBVIOUS
  <2>9. p \in Seq(Items) /\ Len(p) = 3 /\ p[1] = a /\ p[2] = b /\ p[3] = c
    BY <2>5, <2>8
  <2>10. \A i \in 1 .. Len(p) : p[i].op \in {"item_name", "predicate_use", "stub"}
    BY <2>5, <2>9
  <2>11. PICK u : u = p \o rest
    OBVIOUS
  <2>12. /\ u \in Seq(Items) /\ Len(u) = 3 + Len(rest) /\ Len(rest) \in Nat
         /\ \A i \in 1 .. 3 : u[i] = p[i]
         /\ \A i \in 4 .. Len(u) : u[i] = rest[i - 3]
    <3>1. IsSeq(p) /\ IsSeq(rest) /\ Len(rest) \in Nat /\ Len(p) = 3
      BY <2>6, <2>9 DEF IsSeq
    <3>2. /\ Len(u) = Len(p) + Len(rest) /\ \A i \in 1 .. Len(p) : u[i] = p[i]
          /\ \A i \in 1 .. Len(rest) : u[Len(p) + i] = rest[i]
      <4>1. IsSeq(p) /\ IsSeq(rest)
        BY <3>1
      <4>2. /\ Len(p \o rest) = Len(p) + Len(rest) /\ \A i \in 1 .. Len(p) : (p \o rest)[i] = p[i]
            /\ \A i \in 1 .. Len(rest) : (p \o rest)[Len(p) + i] = rest[i]
        BY <4>1, ConcatFacts
      <4> QED
        BY <2>11, <4>2
    <3>3. u \in Seq(Items)
      BY <2>6, <2>9, <2>11
    <3>4. ASSUME NEW i \in 4 .. Len(u) PROVE u[i] = rest[i - 3]
      <4>1. i - 3 \in 1 .. Len(rest) /\ Len(p) + (i - 3) = i
        BY <3>1, <3>2
      <4> QED
        BY <3>2, <4>1
    <3> QED
      BY <3>1, <3>2, <3>3, <3>4
  <2>13. \A k \in 1 .. Len(u) : u[k].op \in {"item_name", "predicate_use", "stub", "spec_funcs", "queue_done"}
    <3> TAKE k \in 1 .. Len(u)
    <3>1. CASE k \in 1 .. 3
      BY <2>9, <2>10, <2>12, <3>1
    <3>2. CASE k \notin 1 .. 3
      <4>1. k \in 4 .. Len(u) /\ k - 3 \in 1 .. Len(rest)
        BY <2>12, <3>2
      <4> QED
        BY <2>7, <2>12, <4>1
    <3> QED
      BY <3>1, <3>2
  <2>14. work' = u
    BY <1>3, <2>3, <2>8, <2>11 DEF Unwound
  <2>15. u # <<>>
    BY <2>12, EmptyFacts
  <2> QED
    BY <2>2, <2>12, <2>13, <2>14, <2>15
<1> QED
  BY <1>2, <1>3

\* The maps that are left are the lower ones.
LEMMA UnwoundMaps ==
  ASSUME IInv, TInv, NEW h \in 1 .. Len(work), Unwound(h), Next1("fail"), work[h].op \in Handlers
  PROVE  \A k \in 0 .. Len(enc'.typaram_repl) : CurrentTymap(SubSeq(enc'.typaram_repl, 1, k)) \in CrateMaps
<1>1. PICK c, maps : c = Count("pop_tymap", SubSeq(work, 1, h - 1)) /\ maps = enc.typaram_repl
  OBVIOUS
<1>2. work # <<>> /\ work[1].op = "fail" /\ IsSeq(maps) /\ Len(maps) \in Nat
  BY <1>1, AtHead, SeqFacts DEF IInv, Stack
<1>3. c \in Nat /\ c <= Len(maps)
  BY <1>1, <1>2, TokensDropped
<1>4. PICK S : maps \in Seq(S)
  BY <1>2 DEF IsSeq
<1>5. PICK n : n = Len(maps) - c
  OBVIOUS
<1>6. n \in 0 .. Len(maps)
  BY <1>2, <1>3, <1>5
<1>7. PICK a : a = SubSeq(maps, 1, n)
  OBVIOUS
<1>8. a \in Seq(S) /\ Len(a) = n /\ \A i \in 1 .. n : a[i] = maps[i]
  BY <1>2, <1>4, <1>6, <1>7
<1>9. \A k \in 0 .. n : SubSeq(a, 1, k) = SubSeq(maps, 1, k)
  BY <1>2, <1>4, <1>6, <1>8
<1>10. \A k \in 0 .. n : k \in 0 .. Len(maps)
  BY <1>2, <1>6
<1>11. \A k \in 0 .. Len(a) : CurrentTymap(SubSeq(a, 1, k)) \in CrateMaps
  BY <1>1, <1>8, <1>9, <1>10 DEF TInv, Typing
<1>12. enc'.typaram_repl = a
  BY <1>1, <1>5, <1>7 DEF Unwound
<1> QED
  BY <1>11, <1>12

\* One more error is reported for the function that is being encoded.
LEMMA ReportsAppended ==
  ASSUME NEW e, IsSeq(enc.reported), enc'.reported = Append(enc.reported, e)
  PROVE  \A f : /\ Cardinality(ReportsOf(f)) \in Nat
                /\ e.of # f => ReportsOf(f)' = ReportsOf(f)
                /\ e.of = f => Cardinality(ReportsOf(f)') = Cardinality(ReportsOf(f)) + 1
<1>0. PICK r, s : r = enc.reported /\ s = Append(r, e)
  OBVIOUS
<1>1. /\ IsSeq(s) /\ Len(s) = Len(r) + 1 /\ Len(r) \in Nat
      /\ \A i \in 1 .. Len(r) : s[i] = r[i]
      /\ s[Len(r) + 1] = e
  BY <1>0, SeqFacts, AppendFacts
<1>2. DOMAIN r = 1 .. Len(r) /\ DOMAIN s = 1 .. Len(r) + 1
  BY <1>0, <1>1, SeqFacts
<1> SUFFICES ASSUME NEW f
             PROVE  /\ Cardinality(ReportsOf(f)) \in Nat
                    /\ e.of # f => ReportsOf(f)' = ReportsOf(f)
                    /\ e.of = f => Cardinality(ReportsOf(f)') = Cardinality(ReportsOf(f)) + 1
  OBVIOUS
<1>3. PICK A, B : A = {i \in 1 .. Len(r) : r[i].of = f} /\ B = {i \in 1 .. Len(r) + 1 : s[i].of = f}
  OBVIOUS
<1>4. ReportsOf(f) = A /\ ReportsOf(f)' = B
  <2>1. enc'.reported = s
    BY <1>0
  <2> QED
    BY <1>0, <1>2, <1>3, <2>1 DEF ReportsOf
<1>5. IsFiniteSet(A) /\ Len(r) + 1 \notin A /\ Cardinality(A) \in Nat
  <2>1. IsFiniteSet(1 .. Len(r)) /\ A \subseteq 1 .. Len(r)
    BY <1>1, <1>3, FS_Interval
  <2>2. IsFiniteSet(A)
    BY <2>1, FS_Subset
  <2> QED
    BY <1>1, <2>1, <2>2, FS_CardinalityType
<1>6. CASE e.of # f
  <2>1. B = A
    BY <1>1, <1>3, <1>6
  <2> QED
    BY <1>4, <1>5, <1>6, <2>1
<1>7. CASE e.of = f
  <2>1. B = A \cup {Len(r) + 1}
    BY <1>1, <1>3, <1>7
  <2>2. Cardinality(A \cup {Len(r) + 1}) = Cardinality(A) + 1
    BY <1>5, FS_AddElement
  <2> QED
    BY <1>4, <1>5, <1>7, <2>1, <2>2
<1> QED
  BY <1>6, <1>7

LEMMA FailTables == IInv /\ TInv /\ Fail => TInv'
<1> SUFFICES ASSUME IInv, TInv, Fail PROVE TInv'
  OBVIOUS
<1>1. Next1("fail") /\ phase = "encode" /\ work # <<>>
  BY AtHead DEF Fail, Next1
<1>2. PICK h \in 1 .. Len(work) : work[h].op \in Handlers /\ Unwound(h)
  BY <1>1, UnwindFacts DEF ErrorHandled
<1>3. /\ Columns \subseteq DOMAIN enc' /\ SameNames /\ enc'.queue = enc.queue
      /\ enc'.current_proc = enc.current_proc
      /\ enc'.failed_pure_functions = enc.failed_pure_functions
  BY FailColumns
<1>4. PICK e : e.of = enc.current_proc /\ enc'.reported = Append(enc.reported, e)
  BY FailColumns
<1>5. /\ work' \in Seq(Items) /\ work' # <<>>
      /\ \A k \in 1 .. Len(work') :
           work'[k].op \in {"item_name", "predicate_use", "stub", "spec_funcs", "queue_done"}
      /\ Fns[enc.current_proc].pure => \A k \in 1 .. Len(work') : work'[k].op = "queue_done"
  BY <1>1, <1>2, UnwoundWork
<1>6. Names'
  BY <1>3, NamesSame DEF TInv
<1>7. Typing'
  <2>1. \A k \in 0 .. Len(enc'.typaram_repl) : CurrentTymap(SubSeq(enc'.typaram_repl, 1, k)) \in CrateMaps
    BY <1>1, <1>2, UnwoundMaps
  <2>2. \A i \in 1 .. Len(enc'.queue) : enc'.queue[i][2] \in CrateMaps
    BY <1>3 DEF TInv, Typing
  <2> QED
    BY <1>3, <1>5, <2>1, <2>2 DEF Typing
<1>8. Ready(work)'
  <2>1. \A k \in 1 .. Len(work') : Needs(work'[k]) = {}
    BY <1>5, NoNeeds DEF NeedyOps
  <2> QED
    BY <2>1 DEF Ready, Supplied
<1>9. ItemShape' /\ ~Inserting'
  <2>1. \A k \in 1 .. Len(work') : StepOK(k)'
    BY <1>5 DEF StepOK, Stages
  <2>2. enc.current_proc \in DOMAIN Fns
    BY <1>1, StageAtHead
  <2> QED
    BY <1>3, <1>5, <2>1, <2>2 DEF ItemShape, Inserting
<1>10. FailureAccount'
  <2>1. \A f : FailuresOf(f)' = FailuresOf(f)
    BY <1>3 DEF FailuresOf
  <2>2. IsSeq(enc.reported)
    BY <1>1 DEF IInv, ReportsOK
  <2>3. \A f : /\ Cardinality(ReportsOf(f)) \in Nat
               /\ e.of # f => ReportsOf(f)' = ReportsOf(f)
               /\ e.of = f => Cardinality(ReportsOf(f)') = Cardinality(ReportsOf(f)) + 1
    BY <1>4, <2>2, ReportsAppended
  <2>4. ASSUME NEW f \in DOMAIN Fns, Fns[f].pure
        PROVE  Cardinality(FailuresOf(f)') = Cardinality(ReportsOf(f)')
    <3>1. Cardinality(FailuresOf(f)) =
            (IF Inserting /\ f = enc.current_proc THEN Cardinality(ReportsOf(f)) + 1 ELSE Cardinality(ReportsOf(f)))
      BY <2>4 DEF TInv, FailureAccount
    <3>2. CASE f = enc.current_proc
      <4>1. Inserting
        BY <1>1, <2>4, <3>2, FailsInserting
      <4>2. Cardinality(ReportsOf(f)') = Cardinality(ReportsOf(f)) + 1
        BY <1>4, <2>3, <3>2
      <4>3. Cardinality(FailuresOf(f)) = Cardinality(ReportsOf(f)) + 1
        BY <3>1, <3>2, <4>1
      <4>4. Cardinality(ReportsOf(f)) \in Nat
        BY <2>3
      <4> QED
        BY <2>1, <4>2, <4>3, <4>4
    <3>3. CASE f # enc.current_proc
      <4>1. ReportsOf(f)' = ReportsOf(f)
        BY <1>4, <2>3, <3>3
      <4> QED
        BY <2>1, <3>1, <3>3, <4>1
    <3> QED
      BY <3>2, <3>3
  <2> QED
    BY <1>3, <1>9, <2>4 DEF FailureAccount, TInv
<1> QED
  BY <1>6, <1>7, <1>8, <1>9, <1>10 DEF TInv

-------------------------------------------------------------------------------
(* The queue and the driver *)

\* Without work, only the names, the maps and the failures matter.
LEMMA IdleTables ==
  ASSUME IInv, TInv, work' = <<>>, ~Inserting, Columns \subseteq DOMAIN enc', SameNames,
         enc'.typaram_repl = enc.typaram_repl, enc'.queue = enc.queue, enc'.current_proc = "none",
         enc'.failed_pure_functions = enc.failed_pure_functions,
         \A f \in DOMAIN Fns : ReportsOf(f)' = ReportsOf(f)
  PROVE  TInv'
<1>1. Names'
  BY NamesSame DEF TInv
<1>2. <<>> \in Seq(Items) /\ Len(<<>>) = 0
  BY EmptyFacts
<1>3. Typing'
  BY <1>2 DEF TInv, Typing
<1>4. Ready(work)' /\ ItemShape' /\ ~Inserting'
  BY <1>2 DEF Ready, ItemShape, Inserting
<1>5. \A f : FailuresOf(f)' = FailuresOf(f)
  BY DEF FailuresOf
<1>6. FailureAccount'
  BY <1>4, <1>5 DEF TInv, FailureAccount
<1> QED
  BY <1>1, <1>3, <1>4, <1>6 DEF TInv

LEMMA EndTables == IInv /\ TInv /\ EndOfItem => TInv'
<1> SUFFICES ASSUME IInv, TInv, EndOfItem PROVE TInv'
  OBVIOUS
<1>1. Next1("queue_done") /\ Return /\ NoIntern /\ enc' = [enc EXCEPT !.current_proc = "none"]
  BY DEF EndOfItem
<1>2. work # <<>> /\ work[1].op = "queue_done" /\ IsSeq(work) /\ Len(work) \in Nat /\ Len(work) > 0
  BY <1>1, AtHead
<1>3. Len(work) = 1
  <2>1. 1 \in 1 .. Len(work)
    BY <1>2
  <2> QED
    BY <1>2, <2>1 DEF IInv, Stack
<1>4. work' = <<>>
  <2>1. IsSeq(Tail(work)) /\ Len(Tail(work)) = 0
    BY <1>2, <1>3, TailFacts
  <2>2. IsSeq(<<>> \o Tail(work)) /\ Len(<<>> \o Tail(work)) = 0
    BY <2>1, EmptyFacts, ConcatFacts
  <2> QED
    BY <1>1, <2>2, IsEmptySeq DEF Return, Run
<1>5. ~Inserting
  BY <1>2, <1>3 DEF Inserting
<1>6. Columns \subseteq DOMAIN enc' /\ \A a \in Columns \ {"current_proc"} : enc'[a] = enc[a]
  BY <1>1 DEF TInv, Typing, Columns, Kept
<1>7. enc'.current_proc = "none"
  BY <1>1 DEF TInv, Typing, Columns
<1>8. /\ SameNames /\ enc'.typaram_repl = enc.typaram_repl /\ enc'.queue = enc.queue
      /\ enc'.failed_pure_functions = enc.failed_pure_functions /\ enc'.reported = enc.reported
  BY <1>1, <1>6 DEF SameNames, SameTables, NoIntern, internerVars, Columns, Kept
<1>9. \A f \in DOMAIN Fns : ReportsOf(f)' = ReportsOf(f)
  BY <1>8 DEF ReportsOf
<1> QED
  BY <1>4, <1>5, <1>6, <1>7, <1>8, <1>9, IdleTables

LEMMA DriverTables == IInv /\ TInv /\ (Initialize \/ QueueIsEmpty) => TInv'
<1> SUFFICES ASSUME IInv, TInv, Initialize \/ QueueIsEmpty PROVE TInv'
  OBVIOUS
<1>1. work = <<>> /\ work' = <<>> /\ NoIntern
  BY DEF Initialize, QueueIsEmpty, IInv
<1>2. ColumnsSame
  BY DEF Initialize, QueueIsEmpty, ColumnsSame, TInv, Typing, Columns, Kept
<1>3. ~Inserting
  BY <1>1, EmptyFacts DEF Inserting
<1>4. enc.current_proc = "none"
  BY <1>1 DEF TInv, ItemShape
<1>5. \A f \in DOMAIN Fns : ReportsOf(f)' = ReportsOf(f)
  BY <1>2, ColumnFacts DEF ReportsOf
<1>6. SameNames
  BY <1>1, <1>2, ColumnFacts DEF SameNames, SameTables, NoIntern, internerVars
<1> QED
  BY <1>1, <1>2, <1>3, <1>4, <1>5, <1>6, ColumnFacts, IdleTables

\* What Viper reports is not an error of the encoding of a function.
LEMMA VerifyTables == IInv /\ TInv /\ Verify => TInv'
<1> SUFFICES ASSUME IInv, TInv, Verify PROVE TInv'
  OBVIOUS
<1>1. work = <<>> /\ work' = <<>> /\ NoIntern /\ phase = "verify"
  BY DEF Verify, IInv
<1>2. enc.current_proc = "none" /\ IsSeq(enc.reported)
  BY <1>1 DEF TInv, ItemShape, IInv, ReportsOK
<1>3. \E more : /\ IsSeq(more) /\ \A i \in 1 .. Len(more) : more[i].of \in {"viper", "none"}
                /\ enc' = [enc EXCEPT !.reported = @ \o more]
  <2>1. CASE Verdict(<<>>)
    <3> DEFINE more == [i \in DOMAIN <<>> |->
                 [of |-> "viper", kind |-> Translate(<<>>[i]), error |-> IsError(Translate(<<>>[i]))]]
    <3>1. enc' = [enc EXCEPT !.reported = @ \o more]
      BY <2>1 DEF Verdict
    <3>2. more \in Seq({})
      OBVIOUS
    <3> HIDE DEF more
    <3>3. IsSeq(more) /\ \A i \in 1 .. Len(more) : more[i].of \in {"viper", "none"}
      BY <3>2 DEF IsSeq
    <3> QED
      BY <3>1, <3>3
  <2>2. ASSUME NEW pos \in 0 .. Len(enc.positions), Verdict(<<pos>>)
        PROVE  \E more : /\ IsSeq(more) /\ \A i \in 1 .. Len(more) : more[i].of \in {"viper", "none"}
                         /\ enc' = [enc EXCEPT !.reported = @ \o more]
    <3> DEFINE r    == [of |-> "viper", kind |-> Translate(<<pos>>[1]), error |-> IsError(Translate(<<pos>>[1]))]
               more == [i \in DOMAIN <<pos>> |->
                 [of |-> "viper", kind |-> Translate(<<pos>>[i]), error |-> IsError(Translate(<<pos>>[i]))]]
    <3>1. enc' = [enc EXCEPT !.reported = @ \o more]
      BY <2>2 DEF Verdict
    <3>2. DOMAIN <<pos>> = 1 .. 1
      OBVIOUS
    <3>3. more \in [1 .. 1 -> {r}] /\ r.of = "viper"
      BY <3>2
    <3> HIDE DEF more, r
    <3>4. more[1] = r /\ more = [i \in 1 .. 1 |-> more[i]]
      <4>1. 1 \in 1 .. 1
        OBVIOUS
      <4> QED
        BY <3>3, <4>1
    <3>5. <<r>> = [i \in 1 .. 1 |-> r]
      BY SMT
    <3>6. more = <<r>>
      <4>1. \A i \in 1 .. 1 : more[i] = r
        BY <3>3
      <4> QED
        BY <3>4, <3>5, <4>1
    <3>7. IsSeq(<<r>>) /\ Len(<<r>>) = 1 /\ <<r>>[1] = r
      BY SingletonFacts
    <3>8. \A i \in 1 .. Len(<<r>>) : <<r>>[i].of \in {"viper", "none"}
      BY <3>3, <3>7
    <3> QED
      BY <3>1, <3>6, <3>7, <3>8
  <2>3. CASE enc' = Emit(enc, "internal")
    <3> DEFINE r == [of |-> enc.current_proc, kind |-> "internal", error |-> IsError("internal")]
    <3>1. r.of = "none" /\ enc' = [enc EXCEPT !.reported = Append(@, r)]
      BY <1>2, <2>3 DEF Emit
    <3> HIDE DEF r
    <3>2. PICK S : enc.reported \in Seq(S)
      BY <1>2 DEF IsSeq
    <3>3. Append(enc.reported, r) = enc.reported \o <<r>>
      BY <3>2
    <3>4. enc' = [enc EXCEPT !.reported = @ \o <<r>>]
      BY <3>1, <3>3
    <3>5. IsSeq(<<r>>) /\ \A i \in 1 .. Len(<<r>>) : <<r>>[i].of \in {"viper", "none"}
      BY <3>1, SingletonFacts
    <3> QED
      BY <3>4, <3>5
  <2> QED
    BY <2>1, <2>2, <2>3 DEF Verify
<1>4. PICK more : /\ IsSeq(more) /\ \A i \in 1 .. Len(more) : more[i].of \in {"viper", "none"}
                  /\ enc' = [enc EXCEPT !.reported = @ \o more]
  BY <1>3
<1>5. /\ Columns \subseteq DOMAIN enc' /\ enc'.reported = enc.reported \o more
      /\ \A a \in Columns \ {"reported"} : enc'[a] = enc[a]
  BY <1>4 DEF TInv, Typing, Columns, Kept
<1>6. /\ SameNames /\ enc'.typaram_repl = enc.typaram_repl /\ enc'.queue = enc.queue
      /\ enc'.failed_pure_functions = enc.failed_pure_functions /\ enc'.current_proc = "none"
  BY <1>1, <1>2, <1>5 DEF SameNames, SameTables, NoIntern, internerVars, Columns, Kept
<1>7. ASSUME NEW f \in DOMAIN Fns PROVE ReportsOf(f)' = ReportsOf(f)
  <2>1. PICK r, s : r = enc.reported /\ s = r \o more
    OBVIOUS
  <2>2. /\ IsSeq(s) /\ Len(s) = Len(r) + Len(more) /\ Len(r) \in Nat /\ Len(more) \in Nat
        /\ \A i \in 1 .. Len(r) : s[i] = r[i]
        /\ \A i \in 1 .. Len(more) : s[Len(r) + i] = more[i]
    <3>1. IsSeq(r) /\ IsSeq(more)
      BY <1>2, <1>4, <2>1
    <3>2. /\ IsSeq(r \o more) /\ Len(r \o more) = Len(r) + Len(more)
          /\ \A i \in 1 .. Len(r) : (r \o more)[i] = r[i]
          /\ \A i \in 1 .. Len(more) : (r \o more)[Len(r) + i] = more[i]
      BY <3>1, ConcatFacts
    <3> QED
      BY <2>1, <3>1, <3>2, SeqFacts
  <2>3. f \notin {"none", "viper"}
    BY SignaturesAssumption
  <2>4. \A i \in 1 .. Len(s) : s[i].of = f => i \in 1 .. Len(r)
    <3> SUFFICES ASSUME NEW i \in 1 .. Len(s), i \notin 1 .. Len(r) PROVE s[i].of # f
      OBVIOUS
    <3>1. i - Len(r) \in 1 .. Len(more) /\ Len(r) + (i - Len(r)) = i
      BY <2>2
    <3> QED
      BY <1>4, <2>2, <2>3, <3>1
  <2>5. DOMAIN r = 1 .. Len(r) /\ DOMAIN s = 1 .. Len(s)
    BY <1>2, <2>1, <2>2, SeqFacts
  <2>6. {i \in 1 .. Len(s) : s[i].of = f} = {i \in 1 .. Len(r) : r[i].of = f}
    BY <2>2, <2>4
  <2>7. enc'.reported = s /\ enc.reported = r
    BY <1>5, <2>1
  <2> QED
    BY <2>5, <2>6, <2>7 DEF ReportsOf
<1>8. ~Inserting
  BY <1>1, EmptyFacts DEF Inserting
<1> QED
  BY <1>1, <1>5, <1>6, <1>7, <1>8, IdleTables

\* The work for an item of the queue.
LEMMA StartWork ==
  ASSUME NEW p, NEW d, d \in Items, d.op = "queue_done",
         \/ p = <<>>
         \/ \E a \in Items : p = <<a>> /\ a.op \in {"pure_function_def", "procedure"}
  PROVE  /\ p \o <<d>> \in Seq(Items)
         /\ p = <<>> => Len(p \o <<d>>) = 1 /\ (p \o <<d>>)[1] = d
         /\ p # <<>> => Len(p \o <<d>>) = 2 /\ (p \o <<d>>)[1] = p[1] /\ (p \o <<d>>)[2] = d
<1>1. <<d>> \in Seq(Items) /\ Len(<<d>>) = 1 /\ <<d>>[1] = d
  OBVIOUS
<1>2. p \in Seq(Items) /\ (p # <<>> => Len(p) = 1) /\ (p = <<>> => Len(p) = 0)
  <2>1. CASE p = <<>>
    <3>1. <<>> \in Seq(Items) /\ Len(<<>>) = 0
      BY EmptyFacts
    <3> QED
      BY <2>1, <3>1
  <2>2. ASSUME NEW a \in Items, p = <<a>> PROVE p \in Seq(Items) /\ Len(p) = 1 /\ p # <<>>
    <3>1. <<a>> \in Seq(Items) /\ Len(<<a>>) = 1
      OBVIOUS
    <3>2. p \in Seq(Items) /\ Len(p) = 1
      BY <2>2, <3>1
    <3>3. <<a>> # <<>>
      OBVIOUS
    <3> QED
      BY <2>2, <3>2, <3>3
  <2> QED
    BY <2>1, <2>2
<1>3. IsSeq(p) /\ IsSeq(<<d>>)
  BY <1>1, <1>2 DEF IsSeq
<1>4. /\ Len(p \o <<d>>) = Len(p) + Len(<<d>>)
      /\ \A i \in 1 .. Len(p) : (p \o <<d>>)[i] = p[i]
      /\ \A i \in 1 .. Len(<<d>>) : (p \o <<d>>)[Len(p) + i] = <<d>>[i]
  BY <1>3, ConcatFacts
<1>5. p \o <<d>> \in Seq(Items)
  BY <1>1, <1>2
<1>6. (p \o <<d>>)[Len(p) + 1] = d
  BY <1>1, <1>4
<1>7. CASE p = <<>>
  BY <1>1, <1>2, <1>4, <1>5, <1>6, <1>7
<1>8. CASE p # <<>>
  <2>1. Len(p) = 1
    BY <1>2, <1>8
  <2>2. Len(p) + 1 = 2 /\ 1 \in 1 .. Len(p)
    BY <2>1
  <2>3. Len(p \o <<d>>) = 2 /\ (p \o <<d>>)[1] = p[1] /\ (p \o <<d>>)[2] = d
    BY <1>1, <1>4, <1>6, <2>1, <2>2
  <2> QED
    BY <1>5, <1>8, <2>3
<1> QED
  BY <1>7, <1>8

LEMMA QueueTables == IInv /\ TInv /\ PopQueue => TInv'
<1> SUFFICES ASSUME IInv, TInv, PopQueue PROVE TInv'
  OBVIOUS
<1>0. PICK q, n : q = enc.queue /\ n = Len(q)
  OBVIOUS
<1>1. phase = "encode" /\ work = <<>> /\ q # <<>> /\ NoIntern
  BY <1>0 DEF PopQueue
<1>2. /\ IsSeq(q) /\ n \in Nat /\ n > 0
      /\ \A i \in 1 .. n : q[i][1] \in DOMAIN Fns /\ (Fns[q[i][1]].pure \/ q[i][2] = <<>>) /\ q[i][2] \in CrateMaps
  <2>1. /\ IsSeq(q) /\ \A i \in 1 .. Len(q) : q[i][1] \in DOMAIN Fns /\ (Fns[q[i][1]].pure \/ q[i][2] = <<>>)
        /\ \A i \in 1 .. Len(q) : q[i][2] \in CrateMaps
    BY <1>0 DEF IInv, QueueOK, TInv, Typing
  <2> QED
    BY <1>0, <1>1, <2>1, SeqFacts, TailFacts
<1>3. PICK f, substs : f = q[n][1] /\ substs = q[n][2]
  OBVIOUS
<1>4. f \in DOMAIN Fns /\ (Fns[f].pure \/ substs = <<>>) /\ substs \in CrateMaps
  <2>1. n \in 1 .. n
    BY <1>2
  <2> QED
    BY <1>2, <1>3, <2>1
<1>5. PICK a, b, d : /\ a = Do("pure_function_def", <<f, substs>>) /\ b = Do("procedure", f)
                     /\ d = Do("queue_done", f)
  OBVIOUS
<1>6. PICK p : p = IF Fns[f].pure THEN <<a>> ELSE IF Fns[f].trusted THEN <<>> ELSE <<b>>
  OBVIOUS
<1>7. /\ enc' = [enc EXCEPT !.queue = Front(@), !.current_proc = f]
      /\ phase' = phase /\ skip' = skip /\ work' = p \o <<d>>
  <2>1. Last(enc.queue)[1] = f /\ Last(enc.queue)[2] = substs
    BY <1>0, <1>3 DEF Last
  <2> QED
    BY <1>4, <1>5, <1>6, <2>1 DEF PopQueue
<1>8. /\ a \in Items /\ a.op = "pure_function_def" /\ a.x[1] = f
      /\ b \in Items /\ b.op = "procedure" /\ d \in Items /\ d.op = "queue_done"
  <2>1. b \in Items /\ b.op = "procedure" /\ d \in Items /\ d.op = "queue_done"
    BY <1>4, <1>5, SpecialDo DEF SpecialOps
  <2>2. a \in SpecialItems /\ a.op = "pure_function_def" /\ a.x[1] = f
    BY <1>4, <1>5 DEF Do, SpecialItems
  <2> QED
    BY <2>1, <2>2 DEF Items
<1>9. PICK u : u = p \o <<d>>
  OBVIOUS
<1>10. /\ u \in Seq(Items)
       /\ p = <<>> => Len(u) = 1 /\ u[1] = d
       /\ p # <<>> => Len(u) = 2 /\ u[1] = p[1] /\ u[2] = d
  <2>1. p = <<>> \/ \E it \in Items : p = <<it>> /\ it.op \in {"pure_function_def", "procedure"}
    BY <1>6, <1>8
  <2> QED
    BY <1>8, <1>9, <2>1, StartWork
<1>11. work' = u
  BY <1>7, <1>9
<1>12. /\ Columns \subseteq DOMAIN enc' /\ enc'.queue = Front(q) /\ enc'.current_proc = f
       /\ \A c \in Columns \ {"queue", "current_proc"} : enc'[c] = enc[c]
  BY <1>0, <1>7 DEF TInv, Typing, Columns, Kept
<1>13. /\ SameNames /\ enc'.typaram_repl = enc.typaram_repl
       /\ enc'.failed_pure_functions = enc.failed_pure_functions /\ enc'.reported = enc.reported
  BY <1>1, <1>12 DEF SameNames, SameTables, NoIntern, internerVars, Columns, Kept
<1>14. Names'
  BY <1>13, NamesSame DEF TInv
<1>15. \A i \in 1 .. Len(enc'.queue) : enc'.queue[i][2] \in CrateMaps
  <2>1. PICK r : r = SubSeq(q, 1, n - 1)
    OBVIOUS
  <2>2. enc'.queue = r
    BY <1>0, <1>12, <2>1 DEF Front
  <2>3. PICK S : q \in Seq(S)
    BY <1>2 DEF IsSeq
  <2>4. Len(r) = n - 1 /\ \A i \in 1 .. n - 1 : r[i] = q[i]
    BY <1>0, <1>2, <2>1, <2>3
  <2>5. \A i \in 1 .. n - 1 : i \in 1 .. n
    BY <1>2
  <2> QED
    BY <1>2, <2>2, <2>4, <2>5
<1>16. Typing'
  BY <1>10, <1>11, <1>12, <1>13, <1>15 DEF TInv, Typing
<1>17. \A k \in 1 .. Len(u) : u[k].op \in {"pure_function_def", "procedure", "queue_done"}
  <2>1. CASE p = <<>>
    <3>1. Len(u) = 1 /\ u[1] = d
      BY <1>10, <2>1
    <3> QED
      BY <1>8, <3>1
  <2>2. CASE p # <<>>
    <3>1. p[1] = a \/ p[1] = b
      BY <1>6, <2>2
    <3>2. Len(u) = 2 /\ u[1] = p[1] /\ u[2] = d
      BY <1>10, <2>2
    <3> QED
      BY <1>8, <3>1, <3>2
  <2> QED
    BY <2>1, <2>2
<1>18. Ready(work)'
  <2>1. \A k \in 1 .. Len(u) : Needs(u[k]) = {}
    BY <1>17, NoNeeds DEF NeedyOps
  <2> QED
    BY <1>11, <2>1 DEF Ready, Supplied
<1>19. /\ \A k \in 1 .. Len(u) : u[k].op = "pure_function_def" => Fns[f].pure /\ u[k].x[1] = f /\ Len(u) = 2
       /\ \A k \in 1 .. Len(u) : u[k].op = "procedure" => ~Fns[f].pure /\ Len(u) = 2
       /\ Fns[f].pure => \E k \in 1 .. Len(u) : u[k].op = "pure_function_def"
  <2>1. CASE Fns[f].pure
    <3>1. p # <<>> /\ p[1] = a
      BY <1>6, <2>1
    <3>2. Len(u) = 2 /\ u[1] = a /\ u[2] = d
      BY <1>10, <3>1
    <3> QED
      BY <1>8, <2>1, <3>2
  <2>2. CASE ~Fns[f].pure /\ Fns[f].trusted
    <3>1. Len(u) = 1 /\ u[1] = d
      BY <1>6, <1>10, <2>2
    <3> QED
      BY <1>8, <2>2, <3>1
  <2>3. CASE ~Fns[f].pure /\ ~Fns[f].trusted
    <3>1. p # <<>> /\ p[1] = b
      BY <1>6, <2>3
    <3>2. Len(u) = 2 /\ u[1] = b /\ u[2] = d
      BY <1>10, <3>1
    <3> QED
      BY <1>8, <2>3, <3>2
  <2> QED
    BY <2>1, <2>2, <2>3
<1>20. u # <<>>
  <2>1. Len(u) \in {1, 2}
    BY <1>10
  <2> QED
    BY <2>1, EmptyFacts
<1>21. ItemShape' /\ ~Inserting'
  <2>1. \A k \in 1 .. Len(work') : StepOK(k)'
    BY <1>11, <1>12, <1>17, <1>19 DEF StepOK, Stages
  <2>2. work' # <<>> /\ enc'.current_proc \in DOMAIN Fns
    BY <1>4, <1>11, <1>12, <1>20
  <2>3. Fns[enc'.current_proc].pure => \E k \in 1 .. Len(work') : work'[k].op \in Stages \cup {"pure_function_def"}
    BY <1>11, <1>12, <1>19
  <2>4. ItemShape'
    BY <2>1, <2>2, <2>3 DEF ItemShape
  <2>5. ~Inserting'
    BY <1>11, <1>17 DEF Inserting
  <2> QED
    BY <2>4, <2>5
<1>22. FailureAccount'
  <2>1. ~Inserting
    BY <1>1, EmptyFacts DEF Inserting
  <2>2. \A g : FailuresOf(g)' = FailuresOf(g) /\ ReportsOf(g)' = ReportsOf(g)
    BY <1>13 DEF FailuresOf, ReportsOf
  <2> QED
    BY <1>13, <1>21, <2>1, <2>2 DEF TInv, FailureAccount
<1> QED
  BY <1>14, <1>16, <1>18, <1>21, <1>22 DEF TInv

-------------------------------------------------------------------------------
(* The tables are sound *)

LEMMA StutterTables == TInv /\ UNCHANGED vars => TInv'
<1> SUFFICES ASSUME TInv, UNCHANGED vars PROVE TInv'
  OBVIOUS
<1>1. enc' = enc /\ work' = work /\ name_to_symbol' = name_to_symbol
  BY DEF vars, internerVars
<1>2. Typing'
  BY <1>1 DEF TInv, Typing
<1>3. Names'
  BY <1>1, NamesSame DEF TInv, SameNames, SameTables
<1>4. \A w : Known(w)' = Known(w)
  BY <1>1 DEF Known
<1>5. Ready(work)'
  BY <1>1, <1>4 DEF TInv, Ready, Supplied
<1>6. Bottom' = Bottom /\ CurrentMap' = CurrentMap
  BY <1>1 DEF Bottom, CurrentMap
<1>7. \A m : SubstitutionKey(m)' = SubstitutionKey(m)
  <2>1. \A t : NameOf(t)' = NameOf(t)
    BY <1>1 DEF NameOf, Name
  <2> QED
    BY <2>1 DEF SubstitutionKey
<1>8. \A i \in 1 .. Len(work) : StepOK(i)'
  BY <1>1, <1>4, <1>6, <1>7 DEF TInv, ItemShape, StepOK, Supplied, AllKnown
<1>9. ItemShape'
  BY <1>1, <1>8 DEF TInv, ItemShape
<1>10. FailureAccount'
  BY <1>1 DEF TInv, FailureAccount, FailuresOf, ReportsOf, Inserting
<1> QED
  BY <1>2, <1>3, <1>5, <1>9, <1>10 DEF TInv

LEMMA InitialTables == Init => TInv
<1> SUFFICES ASSUME Init PROVE TInv
  OBVIOUS
<1>1. PICK task \in Tasks : enc = NewEncoder(task)
  BY DEF Init
<1>2. task \in Seq(DOMAIN Fns)
  BY FnsAssumption
<1>3. /\ enc.typaram_repl = <<>> /\ enc.reported = <<>> /\ enc.failed_pure_functions = {}
      /\ enc.current_proc = "none" /\ enc.type_predicate_names = NoTable
      /\ enc.predicate_types = NoTable /\ enc.type_invariant_names = NoTable
      /\ enc.queue = [i \in DOMAIN Reverse(task) |-> <<Reverse(task)[i], <<>>>>]
      /\ Columns \subseteq DOMAIN enc
  BY <1>1 DEF NewEncoder, Columns, Kept
<1>4. work = <<>> /\ <<>> \in Seq(Items) /\ Len(<<>>) = 0
  BY EmptyFacts DEF Init
<1>5. \A k \in 0 .. Len(enc.typaram_repl) : CurrentTymap(SubSeq(enc.typaram_repl, 1, k)) \in CrateMaps
  <2>1. Len(enc.typaram_repl) = 0
    BY <1>3, EmptyFacts
  <2>2. IsSeq(SubSeq(<<>>, 1, 0)) /\ Len(SubSeq(<<>>, 1, 0)) = 0
    <3>1. 1 \in 1 .. Len(<<>>) + 1 /\ 0 \in 0 .. Len(<<>>) /\ 1 <= 0 + 1 /\ 0 - 1 + 1 = 0
      BY <1>4
    <3> QED
      BY <3>1, EmptyFacts, SubSeqFacts
  <2>3. SubSeq(<<>>, 1, 0) = <<>>
    BY <2>2, IsEmptySeq
  <2>4. CurrentTymap(SubSeq(<<>>, 1, 0)) \in CrateMaps
    BY <2>3, MapsAssumption
  <2>5. \A k \in 0 .. 0 : k = 0
    OBVIOUS
  <2> QED
    BY <1>3, <2>1, <2>4, <2>5
<1>6. \A i \in 1 .. Len(enc.queue) : enc.queue[i][2] \in CrateMaps
  <2>1. IsSeq(enc.queue)
    BY InitiallyInvariant DEF IInv, QueueOK
  <2>2. DOMAIN enc.queue = 1 .. Len(enc.queue)
    BY <2>1, SeqFacts
  <2>3. \A i \in DOMAIN enc.queue : enc.queue[i][2] = <<>>
    BY <1>3
  <2> QED
    BY <2>2, <2>3, MapsAssumption
<1>7. Typing
  BY <1>3, <1>4, <1>5, <1>6 DEF Typing
<1>8. Names
  BY <1>3 DEF Names, NoTable
<1>9. Ready(work)
  BY <1>4 DEF Ready
<1>10. ItemShape /\ ~Inserting
  BY <1>3, <1>4 DEF ItemShape, Inserting
<1>11. FailureAccount
  <2>1. \A f : FailuresOf(f) = {} /\ ReportsOf(f) = {}
    <3>1. DOMAIN enc.reported = {}
      BY <1>3
    <3> QED
      BY <1>3, <3>1 DEF FailuresOf, ReportsOf
  <2>2. IsFiniteSet(enc.failed_pure_functions) /\ Cardinality({}) = 0
    BY <1>3, FS_EmptySet
  <2>3. \A f : Cardinality(FailuresOf(f)) = 0 /\ Cardinality(ReportsOf(f)) = 0
    BY <2>1, <2>2
  <2> QED
    BY <1>10, <2>2, <2>3 DEF FailureAccount
<1> QED
  BY <1>7, <1>8, <1>9, <1>10, <1>11 DEF TInv

LEMMA TypeTableTables == IInv /\ TInv /\ TypeTableStep => TInv'
<1> SUFFICES ASSUME IInv, TInv, TypeTableStep PROVE TInv'
  OBVIOUS
<1>1. CASE EncodeTypePredicateUse \/ RecordPredicateName \/ EncodeTypePredicateDef
           \/ InsertPredicate \/ InsertArrayTypes
  BY <1>1, PredicateUse, NameTables, PredicateDef, PredicateInsert
<1>2. CASE EncodeInvariantFuncApp \/ EncodeTypeInvariantUse \/ EncodeTypeInvariantDef
           \/ InvariantOfField \/ InsertInvariant
  BY <1>2, InvariantTables, InvariantUse, InvariantNameTables
<1>3. CASE EncodeTypeTagDef \/ EncodeBuiltinFunction \/ EncodeBuiltinMethod \/ InsertCastFunction
           \/ InsertDiscriminantFunc \/ InsertSnapshot
  BY <1>3, RecordTables
<1>4. CASE EncodeTypeTagUse \/ EncodeCastFunctionUse \/ EncodeDiscriminantFuncApp
           \/ EncodeDiscriminantFunc \/ EncodeArrayTypes
  BY <1>4, TagTables, CastTables, DiscriminantTables, ArrayTables
<1>5. CASE EncodeSnapshotApi \/ EncodeSnapshot \/ LookUpSnapshot \/ SnapshotOfField \/ SnapApp
  BY <1>5, SnapshotTables, SnapshotLookup
<1> QED
  BY <1>1, <1>2, <1>3, <1>4, <1>5 DEF TypeTableStep

LEMMA EncoderTables == IInv /\ TInv /\ EncoderStep => TInv'
<1> SUFFICES ASSUME IInv, TInv, EncoderStep PROVE TInv'
  OBVIOUS
<1>1. CASE EncodeType \/ Iterate \/ BorrowMut \/ PushTempTymap \/ CleanupTyMapStack \/ EncodeItemName \/ Fail
  BY <1>1, TypeTables, LoopTables, BorrowTables, PushTables, PopTables, SymbolTables, FailTables
<1>2. CASE Release \/ Register \/ GetProcedureContractForDef \/ EncodeMirrors \/ InsertPureExpression
           \/ InsertSpecFuncs
  BY <1>2, RecordTables
<1>3. CASE EncodePureFunctionDef \/ SubstituteForKey \/ LookUpPureFunction \/ InsertPureFunction
           \/ EncodePureFunctionUse \/ EncodeProcedure \/ InsertProcedure
  BY <1>3, DefinitionTables, KeyTables, LookupTables, InsertTables, UseTables, ProcedureTables,
     InsertProcedureTables
<1>4. CASE EncodeFunctionReturnType \/ CallPure \/ CallImpure \/ GetProcedureContractForCall
  BY <1>4, CallTables
<1>5. CASE EncodePureExpression \/ LookUpPureExpression \/ EncodeSpecFuncs
  BY <1>5, ExpressionTables
<1> QED
  BY <1>1, <1>2, <1>3, <1>4, <1>5 DEF EncoderStep

(***************************************************************************)
(* The memo tables of the encoder are what their users take them for, for  *)
(* every crate and task: a name is recorded after the names that it is     *)
(* made of and is never another one later, a name is only looked up once   *)
(* it is recorded, and a pure function is in failed_pure_functions exactly *)
(* when its error was reported or its encoding is under way.               *)
(***************************************************************************)
THEOREM TablesAreSound == Spec => []TInv
<1>1. IInv /\ TInv /\ [Next]_vars => TInv'
  <2> SUFFICES ASSUME IInv, TInv, [Next]_vars PROVE TInv'
    OBVIOUS
  <2>1. CASE Initialize \/ QueueIsEmpty \/ UNCHANGED vars
    BY <2>1, DriverTables, StutterTables
  <2>2. CASE PopQueue \/ EndOfItem \/ Verify
    BY <2>2, QueueTables, EndTables, VerifyTables
  <2>3. CASE TypeTableStep \/ EncoderStep
    BY <2>3, TypeTableTables, EncoderTables
  <2> QED
    BY <2>1, <2>2, <2>3 DEF Next
<1> QED
  BY <1>1, InitialTables, StackDiscipline, PTL DEF Spec

(***************************************************************************)
(* A pure function that cannot be encoded is reported once for each of its *)
(* instantiations, however often it is called or queued                    *)
(* (encode_pure_function_def): the key under which the failure is recorded *)
(* is the same each time, and nothing else removes it.                     *)
(***************************************************************************)
THEOREM EachFailureIsReportedOnce == Spec => []FailuresReportedOnce
<1>1. TInv => FailuresReportedOnce
  <2> SUFFICES ASSUME TInv, work = <<>>, NEW f \in DOMAIN Fns, Fns[f].pure
               PROVE  Cardinality(ReportsOf(f)) = Cardinality(FailuresOf(f))
    BY DEF FailuresReportedOnce, ReportsOf, FailuresOf
  <2>1. ~Inserting
    BY EmptyFacts DEF Inserting
  <2> QED
    BY <2>1 DEF TInv, FailureAccount
<1> QED
  BY <1>1, TablesAreSound, PTL

\* Only the interner hands out symbols, for full names.
LEMMA InternerStep == IInv /\ TInv /\ [Next]_vars => [InternerNext]_internerVars
<1> SUFFICES ASSUME IInv, TInv, [Next]_vars PROVE InternerNext \/ UNCHANGED internerVars
  OBVIOUS
<1>1. CASE EncodeItemName
  <2>1. Next1("item_name") /\ Intern(X)
    BY <1>1 DEF EncodeItemName
  <2>2. X \in FullNames
    BY <2>1, HeadItem, ItemFacts
  <2> QED
    BY <2>1, <2>2 DEF InternerNext
<1>2. CASE Initialize \/ PopQueue \/ EndOfItem \/ QueueIsEmpty \/ Verify \/ UNCHANGED vars
  BY <1>2 DEF Initialize, PopQueue, EndOfItem, QueueIsEmpty, Verify, Verdict, NoIntern, vars, internerVars
<1>3. CASE TypeTableStep
  <2> USE DEF NoIntern
  <2>1. CASE EncodeTypePredicateUse \/ RecordPredicateName \/ EncodeTypePredicateDef
             \/ InsertPredicate \/ InsertArrayTypes
    BY <2>1 DEF EncodeTypePredicateUse, RecordPredicateName, EncodeTypePredicateDef, InsertPredicate,
                InsertArrayTypes
  <2>2. CASE EncodeInvariantFuncApp \/ EncodeTypeInvariantUse \/ EncodeTypeInvariantDef
             \/ InvariantOfField \/ InsertInvariant
    BY <2>2 DEF EncodeInvariantFuncApp, EncodeTypeInvariantUse, EncodeTypeInvariantDef,
                InvariantOfField, InsertInvariant
  <2>3. CASE EncodeTypeTagDef \/ EncodeBuiltinFunction \/ EncodeBuiltinMethod \/ InsertCastFunction
             \/ InsertDiscriminantFunc \/ InsertSnapshot
    BY <2>3 DEF EncodeTypeTagDef, EncodeBuiltinFunction, EncodeBuiltinMethod, InsertCastFunction,
                InsertDiscriminantFunc, InsertSnapshot
  <2>4. CASE EncodeTypeTagUse \/ EncodeCastFunctionUse \/ EncodeDiscriminantFuncApp
             \/ EncodeDiscriminantFunc \/ EncodeArrayTypes
    BY <2>4 DEF EncodeTypeTagUse, EncodeCastFunctionUse, EncodeDiscriminantFuncApp,
                EncodeDiscriminantFunc, EncodeArrayTypes
  <2>5. CASE EncodeSnapshotApi \/ EncodeSnapshot \/ LookUpSnapshot \/ SnapshotOfField \/ SnapApp
    BY <2>5 DEF EncodeSnapshotApi, EncodeSnapshot, LookUpSnapshot, SnapshotOfField, SnapApp
  <2> QED
    BY <1>3, <2>1, <2>2, <2>3, <2>4, <2>5 DEF TypeTableStep
<1>4. CASE EncoderStep /\ ~EncodeItemName
  <2> USE DEF NoIntern
  <2>1. CASE EncodeType \/ Iterate \/ BorrowMut \/ PushTempTymap \/ CleanupTyMapStack \/ Fail
    BY <2>1 DEF EncodeType, Iterate, BorrowMut, PushTempTymap, CleanupTyMapStack, Fail
  <2>2. CASE Release \/ Register \/ GetProcedureContractForDef \/ EncodeMirrors \/ InsertPureExpression
             \/ InsertSpecFuncs
    BY <2>2 DEF Release, Register, GetProcedureContractForDef, EncodeMirrors, InsertPureExpression,
                InsertSpecFuncs
  <2>3. CASE EncodePureFunctionDef \/ SubstituteForKey \/ LookUpPureFunction \/ InsertPureFunction
             \/ EncodePureFunctionUse \/ EncodeProcedure \/ InsertProcedure
    BY <2>3 DEF EncodePureFunctionDef, SubstituteForKey, LookUpPureFunction, InsertPureFunction,
                EncodePureFunctionUse, EncodeProcedure, InsertProcedure
  <2>4. CASE EncodeFunctionReturnType \/ CallPure \/ CallImpure \/ GetProcedureContractForCall
    BY <2>4 DEF EncodeFunctionReturnType, CallPure, CallImpure, GetProcedureContractForCall
  <2>5. CASE EncodePureExpression \/ LookUpPureExpression \/ EncodeSpecFuncs
    BY <2>5 DEF EncodePureExpression, LookUpPureExpression, EncodeSpecFuncs
  <2> QED
    BY <1>4, <2>1, <2>2, <2>3, <2>4, <2>5 DEF EncoderStep
<1> QED
  BY <1>1, <1>2, <1>3, <1>4 DEF Next

(***************************************************************************)
(* The encoder implements the interner: its item names come from intern    *)
(* alone, one full name at a time, whatever else it does between the calls *)
(* (encode_item_name).                                                     *)
(***************************************************************************)
THEOREM EncoderInterns == Spec => InternerSpec
<1>1. Init => InternerInit
  BY DEF Init
<1> QED
  BY <1>1, InternerStep, StackDiscipline, TablesAreSound, PTL DEF Spec, InternerSpec

(***************************************************************************)
(* Two functions or types of a crate never share a symbol of the Viper     *)
(* program (encode_item_name).                                             *)
(***************************************************************************)
THEOREM EncoderSymbolsAreUnique == Spec => []UniqueSymbols
BY EncoderInterns, SymbolsAreUnique, PTL

-------------------------------------------------------------------------------
(* Steps that record no name *)

Silent(s) == IsSeq(s) /\ \A i \in 1 .. Len(s) : s[i].op # "predicate_name"

LEMMA SilentConcat ==
  ASSUME NEW s, NEW t, Silent(s), Silent(t)
  PROVE  Silent(s \o t)
<1>1. IsSeq(s) /\ IsSeq(t) /\ Len(s) \in Nat /\ Len(t) \in Nat
  BY SeqFacts DEF Silent
<1>2. PICK u : u = s \o t
  OBVIOUS
<1>3. /\ IsSeq(u) /\ Len(u) = Len(s) + Len(t)
      /\ \A i \in 1 .. Len(s) : u[i] = s[i]
      /\ \A i \in 1 .. Len(t) : u[Len(s) + i] = t[i]
  BY <1>1, <1>2, ConcatFacts
<1>4. ASSUME NEW k \in 1 .. Len(u) PROVE u[k].op # "predicate_name"
  <2>1. CASE k <= Len(s)
    <3>1. k \in 1 .. Len(s)
      BY <1>1, <1>3, <2>1
    <3> QED
      BY <1>3, <3>1 DEF Silent
  <2>2. CASE ~(k <= Len(s))
    <3>1. k - Len(s) \in 1 .. Len(t) /\ Len(s) + (k - Len(s)) = k
      BY <1>1, <1>3, <2>2
    <3> QED
      BY <1>3, <3>1 DEF Silent
  <2> QED
    BY <2>1, <2>2
<1> QED
  BY <1>2, <1>3, <1>4 DEF Silent

LEMMA SilentEmpty == Silent(<<>>)
BY EmptyFacts DEF Silent

LEMMA SilentDo ==
  ASSUME NEW op, op # "predicate_name", NEW x PROVE Silent(<<Do(op, x)>>)
<1>1. PICK it : it = Do(op, x)
  OBVIOUS
<1>2. IsSeq(<<it>>) /\ Len(<<it>>) = 1 /\ <<it>>[1] = it
  BY SingletonFacts
<1>3. it.op = op
  BY <1>1 DEF Do
<1>4. Silent(<<it>>)
  BY <1>2, <1>3 DEF Silent
<1> QED
  BY <1>1, <1>4

LEMMA SilentPair ==
  ASSUME NEW op1, op1 # "predicate_name", NEW x1, NEW op2, op2 # "predicate_name", NEW x2
  PROVE  Silent(<<Do(op1, x1), Do(op2, x2)>>)
<1>1. PICK a, b : a = Do(op1, x1) /\ b = Do(op2, x2)
  OBVIOUS
<1>2. a.op = op1 /\ b.op = op2
  BY <1>1 DEF Do
<1>3. <<a, b>> \in Seq({a, b}) /\ Len(<<a, b>>) = 2 /\ <<a, b>>[1] = a /\ <<a, b>>[2] = b
  OBVIOUS
<1>4. PICK s : s = <<a, b>>
  OBVIOUS
<1>5. IsSeq(s) /\ Len(s) = 2 /\ s[1] = a /\ s[2] = b
  BY <1>3, <1>4 DEF IsSeq
<1>6. Silent(s)
  BY <1>2, <1>5 DEF Silent
<1> QED
  BY <1>1, <1>4, <1>6

LEMMA SilentTriple ==
  ASSUME NEW op1, op1 # "predicate_name", NEW x1, NEW op2, op2 # "predicate_name", NEW x2,
         NEW op3, op3 # "predicate_name", NEW x3
  PROVE  Silent(<<Do(op1, x1), Do(op2, x2), Do(op3, x3)>>)
<1>1. PICK a, b, c : a = Do(op1, x1) /\ b = Do(op2, x2) /\ c = Do(op3, x3)
  OBVIOUS
<1>2. a.op = op1 /\ b.op = op2 /\ c.op = op3
  BY <1>1 DEF Do
<1>3. /\ <<a, b, c>> \in Seq({a, b, c}) /\ Len(<<a, b, c>>) = 3
      /\ <<a, b, c>>[1] = a /\ <<a, b, c>>[2] = b /\ <<a, b, c>>[3] = c
  OBVIOUS
<1>4. PICK s : s = <<a, b, c>>
  OBVIOUS
<1>5. IsSeq(s) /\ Len(s) = 3 /\ s[1] = a /\ s[2] = b /\ s[3] = c
  BY <1>3, <1>4 DEF IsSeq
<1>6. Silent(s)
  BY <1>2, <1>5 DEF Silent
<1> QED
  BY <1>1, <1>4, <1>6

LEMMA SilentFor ==
  ASSUME NEW op, NEW xs PROVE Silent(For(op, xs))
BY SilentEmpty, SilentDo DEF For

LEMMA SilentAround ==
  ASSUME NEW s, Silent(s)
  PROVE  /\ \A c : Silent(Borrowed(c, s))
         /\ \A m : Silent(WithTymap(m, s))
<1>1. ASSUME NEW c PROVE Silent(Borrowed(c, s))
  <2>1. Silent(<<Do("borrow_mut", c)>>) /\ Silent(<<Do("release", c)>>)
    BY SilentDo
  <2>2. Silent(<<Do("borrow_mut", c)>> \o s)
    BY <2>1, SilentConcat
  <2> QED
    BY <2>1, <2>2, SilentConcat DEF Borrowed
<1>2. ASSUME NEW m PROVE Silent(WithTymap(m, s))
  <2>1. Silent(<<Do("push_tymap", m)>>) /\ Silent(<<Do("pop_tymap", 0)>>)
    BY SilentDo
  <2>2. Silent(<<Do("push_tymap", m)>> \o s)
    BY <2>1, SilentConcat
  <2> QED
    BY <2>1, <2>2, SilentConcat DEF WithTymap
<1> QED
  BY <1>1, <1>2

LEMMA SilentFree ==
  ASSUME NEW s \in Seq(FreeItems) PROVE Silent(s)
<1>1. \A i \in 1 .. Len(s) : s[i] \in FreeItems
  OBVIOUS
<1> QED
  BY <1>1 DEF Silent, IsSeq, FreeItems, NeedyOps

LEMMA SilentTypeName ==
  ASSUME NEW ty PROVE Silent(TypeName(ty))
<1>1. Silent(ItemName(ty))
  BY SilentEmpty, SilentDo DEF ItemName
<1> QED
  BY <1>1, SilentFor, SilentConcat DEF TypeName

LEMMA FollowedJoin ==
  ASSUME NEW s, NEW t, IsSeq(s), IsSeq(t), Followed(s), Followed(t)
  PROVE  Followed(s \o t)
<1>1. Len(s) \in Nat /\ Len(t) \in Nat
  BY SeqFacts
<1>2. PICK u : u = s \o t
  OBVIOUS
<1>3. /\ IsSeq(u) /\ Len(u) = Len(s) + Len(t)
      /\ \A i \in 1 .. Len(s) : u[i] = s[i]
      /\ \A i \in 1 .. Len(t) : u[Len(s) + i] = t[i]
  BY <1>2, ConcatFacts
<1>4. ASSUME NEW i \in 1 .. Len(u), u[i].op = "predicate_name"
      PROVE  \E j \in i + 1 .. Len(u) : u[j].op = "predicate_def" /\ u[j].x = u[i].x
  <2>1. CASE i <= Len(s)
    <3>1. i \in 1 .. Len(s) /\ u[i] = s[i]
      BY <1>1, <1>3, <2>1
    <3>2. PICK j \in i + 1 .. Len(s) : s[j].op = "predicate_def" /\ s[j].x = s[i].x
      BY <1>4, <3>1 DEF Followed
    <3>3. j \in i + 1 .. Len(u) /\ j \in 1 .. Len(s)
      BY <1>1, <1>3, <3>1, <3>2
    <3> QED
      BY <1>3, <3>1, <3>2, <3>3
  <2>2. CASE ~(i <= Len(s))
    <3>1. i - Len(s) \in 1 .. Len(t) /\ Len(s) + (i - Len(s)) = i
      BY <1>1, <1>3, <2>2
    <3>2. PICK k : k = i - Len(s)
      OBVIOUS
    <3>3. k \in 1 .. Len(t) /\ u[i] = t[k]
      BY <1>3, <3>1, <3>2
    <3>4. PICK j \in k + 1 .. Len(t) : t[j].op = "predicate_def" /\ t[j].x = t[k].x
      BY <1>4, <3>3 DEF Followed
    <3>5. Len(s) + j \in i + 1 .. Len(u) /\ j \in 1 .. Len(t)
      BY <1>1, <1>3, <3>1, <3>2, <3>3, <3>4
    <3>6. u[Len(s) + j] = t[j]
      BY <1>3, <3>5
    <3> QED
      BY <3>3, <3>4, <3>5, <3>6
  <2> QED
    BY <2>1, <2>2
<1>5. Followed(u)
  BY <1>4 DEF Followed
<1> QED
  BY <1>2, <1>5

LEMMA FollowedConcat ==
  ASSUME NEW s, NEW t, Silent(s), IsSeq(t), Followed(t)
  PROVE  Followed(s \o t)
<1>1. Followed(s) /\ IsSeq(s)
  BY DEF Silent, Followed
<1> QED
  BY <1>1, FollowedJoin

LEMMA FollowedTail ==
  ASSUME NEW s, IsSeq(s), s # <<>>, Followed(s)
  PROVE  Followed(Tail(s))
<1>1. PICK t : t = Tail(s)
  OBVIOUS
<1>2. /\ IsSeq(t) /\ Len(s) \in Nat /\ Len(s) > 0 /\ Len(t) = Len(s) - 1
      /\ \A i \in 1 .. Len(s) - 1 : t[i] = s[i + 1]
  BY <1>1, TailFacts, SeqFacts
<1>3. ASSUME NEW i \in 1 .. Len(t), t[i].op = "predicate_name"
      PROVE  \E j \in i + 1 .. Len(t) : t[j].op = "predicate_def" /\ t[j].x = t[i].x
  <2>1. i + 1 \in 1 .. Len(s) /\ t[i] = s[i + 1]
    BY <1>2
  <2>2. PICK j \in (i + 1) + 1 .. Len(s) : s[j].op = "predicate_def" /\ s[j].x = s[i + 1].x
    BY <1>3, <2>1 DEF Followed
  <2>3. j - 1 \in i + 1 .. Len(t) /\ j - 1 \in 1 .. Len(s) - 1 /\ (j - 1) + 1 = j
    BY <1>2, <2>1, <2>2
  <2>4. t[j - 1] = s[j]
    BY <1>2, <2>3
  <2> QED
    BY <2>1, <2>2, <2>3, <2>4
<1>4. Followed(t)
  BY <1>3 DEF Followed
<1> QED
  BY <1>1, <1>4

\* Replacing the first step by steps that record no name.
LEMMA FollowedStep ==
  ASSUME NEW w, IsSeq(w), w # <<>>, Followed(w), NEW items, Silent(items)
  PROVE  Followed(items \o Tail(w))
<1>1. IsSeq(Tail(w))
  BY TailFacts
<1> QED
  BY <1>1, FollowedTail, FollowedConcat

-------------------------------------------------------------------------------
(* A step of the encoder and the references *)

\* The tables keep what they have.
Grows ==
  /\ ReferenceColumns \subseteq DOMAIN enc' /\ enc'.reported = enc.reported
  /\ \A t \in DOMAIN enc.type_predicate_names :
       t \in DOMAIN enc'.type_predicate_names /\ enc'.type_predicate_names[t] = enc.type_predicate_names[t]
  /\ \A t \in DOMAIN enc.type_invariant_names :
       t \in DOMAIN enc'.type_invariant_names /\ enc'.type_invariant_names[t] = enc.type_invariant_names[t]
  /\ DOMAIN enc.type_predicates \subseteq DOMAIN enc'.type_predicates
  /\ DOMAIN enc.encoded \subseteq DOMAIN enc'.encoded
  /\ DOMAIN enc.type_tags \subseteq DOMAIN enc'.type_tags
  /\ enc.pure_functions \subseteq enc'.pure_functions
  /\ \A f : Queued(f) => Queued(f)'
  /\ \A c \in SetTables : enc[c] \subseteq enc'[c]

LEMMA PresentKept ==
  ASSUME Grows, NEW u, u[1] \in Tables, Present(u) PROVE Present(u)'
<1>1. CASE u[1] = "type_predicates"
  BY <1>1 DEF Grows, Present
<1>2. CASE u[1] = "encoded"
  BY <1>2 DEF Grows, Present
<1>3. CASE u[1] = "type_tags"
  BY <1>3 DEF Grows, Present
<1>4. CASE u[1] = "functions"
  BY <1>4 DEF Grows, Present, HasPure
<1>5. CASE u[1] \in SetTables
  BY <1>5 DEF Grows, Present, SetTables
<1> QED
  BY <1>1, <1>2, <1>3, <1>4, <1>5 DEF Tables

LEMMA NamedKept ==
  ASSUME Grows, NEW it, NEW n, Named(it, n) PROVE Named(it, n)'
BY DEF Grows, Named, Name

LEMMA DeliversKept ==
  ASSUME Grows, NEW u, NEW it, u[1] \in Tables, Delivers(it, u) PROVE Delivers(it, u)'
<1>1. CASE u[1] \in {"type_predicates", "encoded", "type_discriminant_funcs"}
  BY <1>1, NamedKept DEF Delivers
<1>2. CASE u[1] \in {"type_tags", "functions", "type_cast_functions"}
  BY <1>2 DEF Delivers, IsPending
<1>3. CASE u[1] = "type_invariants"
  BY <1>3 DEF Grows, Delivers
<1>4. CASE u[1] \in {"builtin_functions", "builtin_methods"}
  BY <1>4 DEF Delivers
<1> QED
  BY <1>1, <1>2, <1>3, <1>4 DEF Tables, SetTables

LEMMA ReferenceFacts ==
  ASSUME RInv, NEW u \in References
  PROVE  u[1] \in Tables /\ (u[1] = "functions" => u[2] \in DOMAIN Fns /\ Fns[u[2]].pure)
<1>1. CASE u \in enc.uses
  BY <1>1 DEF RInv, UseOK
<1>2. CASE u \notin enc.uses
  <2>1. u[1] \in {"type_predicates", "encoded", "type_invariants"}
    BY <1>2 DEF References
  <2> QED
    BY <2>1 DEF Tables, SetTables
<1> QED
  BY <1>1, <1>2

(***************************************************************************)
(* A step keeps the references covered if it keeps the tables, what it was *)
(* to deliver is there or still to come, and so is what it refers to.      *)
(***************************************************************************)
LEMMA ReferenceStep ==
  ASSUME IInv, RInv, NEW op, Next1(op), NEW items, IsSeq(items), Run(items), Grows,
         Encoding => Followed(items \o Tail(work)),
         \A u \in enc'.uses : u \in enc.uses \/ UseOK(u),
         Encoding => \A u \in References : Delivers(work[1], u) => Covered(u)',
         Encoding => \A u \in References' : u \in References \/ Covered(u)'
  PROVE  RInv'
<1>1. phase = "encode" /\ work # <<>> /\ IsSeq(work) /\ Len(work) \in Nat /\ Len(work) > 0
  BY AtHead
<1>2. phase' = "encode" /\ work' = items \o Tail(work)
  BY <1>1 DEF Run
<1>3. Encoding' => Encoding
  BY <1>1, <1>2 DEF Encoding, Grows
<1>4. \A i \in 2 .. Len(work) : \E j \in 1 .. Len(work') : work'[j] = work[i]
  <2>1. Replaced(work, items, work')
    BY <1>1, <1>2, Shifted
  <2> QED
    BY <2>1 DEF Replaced
<1>5. ASSUME Encoding, NEW u \in References PROVE Covered(u)'
  <2>1. u[1] \in Tables /\ Covered(u)
    BY <1>5, ReferenceFacts DEF RInv
  <2>2. CASE Present(u)
    BY <2>1, <2>2, PresentKept DEF Covered
  <2>3. ASSUME NEW i \in 1 .. Len(work), Delivers(work[i], u) PROVE Covered(u)'
    <3>1. CASE i = 1
      BY <1>5, <2>3, <3>1
    <3>2. CASE i # 1
      <4>1. PICK it : it = work[i]
        OBVIOUS
      <4>2. PICK j \in 1 .. Len(work') : work'[j] = it
        BY <1>1, <1>4, <3>2, <4>1
      <4>3. Delivers(it, u)'
        BY <2>1, <2>3, <4>1, DeliversKept
      <4> QED
        BY <4>2, <4>3 DEF Covered
    <3> QED
      BY <3>1, <3>2
  <2> QED
    BY <2>1, <2>2, <2>3 DEF Covered
<1>6. Encoding' => Followed(work)' /\ \A u \in References' : Covered(u)'
  BY <1>2, <1>3, <1>5 DEF Followed
<1>7. ReferenceColumns \subseteq DOMAIN enc' /\ (\A u \in enc'.uses : UseOK(u)) /\ phase' # "queue"
  BY <1>2 DEF RInv, Grows
<1> QED
  BY <1>6, <1>7 DEF RInv, UseOK

\* Nothing changes for the references.
ReferencesSame ==
  /\ ReferenceColumns \subseteq DOMAIN enc' /\ enc'.reported = enc.reported
  /\ \A c \in ReferenceColumns : enc'[c] = enc[c]

LEMMA UnchangedReferences == IInv /\ RInv /\ UNCHANGED enc => ReferencesSame
BY DEF RInv, ReferencesSame

LEMMA SameFacts ==
  ASSUME ReferencesSame
  PROVE  /\ enc'.uses = enc.uses /\ enc'.type_predicate_names = enc.type_predicate_names
         /\ enc'.type_predicates = enc.type_predicates
         /\ enc'.type_invariant_names = enc.type_invariant_names /\ enc'.in_progress = enc.in_progress
         /\ enc'.encoded = enc.encoded /\ enc'.type_tags = enc.type_tags
         /\ enc'.pure_functions = enc.pure_functions /\ enc'.queue = enc.queue
         /\ \A c \in SetTables : enc'[c] = enc[c]
BY DEF ReferencesSame, ReferenceColumns

LEMMA SameReferences ==
  ASSUME ReferencesSame
  PROVE  Grows /\ References' = References
<1>1. InBodies' = InBodies
  BY SameFacts DEF InBodies
<1>2. References' = References
  BY <1>1, SameFacts DEF References, Name
<1>3. \A f : Queued(f) => Queued(f)'
  BY SameFacts DEF Queued
<1> QED
  BY <1>2, <1>3, SameFacts DEF Grows, ReferencesSame

DeliverOps ==
  {"predicate_def", "predicate_insert", "snapshot_insert", "tag_def", "invariant_insert",
   "discriminant_insert", "cast_insert", "pure_function_def"} \cup Stages

LEMMA NotDelivered ==
  ASSUME RInv, NEW it, it.op \notin DeliverOps, NEW u \in References PROVE ~Delivers(it, u)
<1>1. u[1] \in Tables /\ (u[1] = "functions" => u[2] \in DOMAIN Fns /\ Fns[u[2]].pure)
  BY ReferenceFacts
<1>2. CASE u[1] = "functions"
  BY <1>1, <1>2 DEF Delivers, IsPending, DeliverOps, Stages
<1>3. CASE u[1] # "functions"
  BY <1>1, <1>3 DEF Delivers, DeliverOps
<1> QED
  BY <1>2, <1>3

LEMMA QuietStep ==
  ASSUME IInv, RInv, NEW op, Next1(op), op \notin DeliverOps, NEW items, Silent(items), Run(items),
         ReferencesSame
  PROVE  RInv'
<1>1. work # <<>> /\ IsSeq(work) /\ work[1].op = op
  BY AtHead
<1>2. Encoding => Followed(items \o Tail(work))
  BY <1>1, FollowedStep DEF RInv
<1>3. Grows /\ References' = References /\ enc'.uses = enc.uses
  BY SameReferences, SameFacts
<1>4. \A u \in References : ~Delivers(work[1], u)
  BY <1>1, NotDelivered
<1> QED
  BY <1>2, <1>3, <1>4, ReferenceStep DEF Silent

\* A step that returns and leaves the references as they are.
LEMMA QuietReturn ==
  ASSUME IInv, RInv, NEW op, Next1(op), op \notin DeliverOps, Return, ReferencesSame
  PROVE  RInv'
BY SilentEmpty, QuietStep DEF Return

LEMMA RecordReferences ==
  ASSUME IInv, TInv, RInv,
         \/ Release \/ PushTempTymap \/ CleanupTyMapStack \/ InsertArrayTypes \/ Register
         \/ GetProcedureContractForDef \/ EncodeMirrors \/ InsertPureExpression \/ InsertProcedure
         \/ InsertSpecFuncs \/ EncodeItemName \/ EndOfItem
  PROVE  RInv'
<1>1. PICK op \in {"release", "push_tymap", "pop_tymap", "array_types_insert", "register", "contract",
                   "mirror", "assertion_insert", "procedure_encoded", "stub", "spec_funcs_insert",
                   "item_name", "queue_done"} : Next1(op)
  BY DEF Release, PushTempTymap, CleanupTyMapStack, InsertArrayTypes, Register,
         GetProcedureContractForDef, EncodeMirrors, InsertPureExpression, InsertProcedure,
         InsertSpecFuncs, EncodeItemName, EndOfItem
<1>2. op \notin DeliverOps
  BY DEF DeliverOps, Stages
<1>3. Return
  BY DEF Release, PushTempTymap, CleanupTyMapStack, InsertArrayTypes, Register,
         GetProcedureContractForDef, EncodeMirrors, InsertPureExpression, InsertProcedure,
         InsertSpecFuncs, EncodeItemName, EndOfItem
<1>4. ReferenceColumns \subseteq DOMAIN enc /\ "reported" \in DOMAIN enc
  BY DEF RInv, TInv, Typing, Columns, Kept
<1>5. CASE Release \/ PushTempTymap \/ CleanupTyMapStack \/ EncodeItemName \/ EndOfItem
  <2>1. ReferencesSame
    BY <1>4, <1>5 DEF Release, PushTempTymap, CleanupTyMapStack, EncodeItemName, EndOfItem,
                      ReferencesSame, ReferenceColumns, SetTables
  <2> QED
    BY <1>1, <1>2, <1>3, <2>1, QuietReturn
<1>6. CASE InsertArrayTypes \/ Register \/ GetProcedureContractForDef \/ EncodeMirrors
  <2>1. ReferencesSame
    BY <1>4, <1>6 DEF InsertArrayTypes, Register, GetProcedureContractForDef, EncodeMirrors,
                      ReferencesSame, ReferenceColumns, SetTables
  <2> QED
    BY <1>1, <1>2, <1>3, <2>1, QuietReturn
<1>7. CASE InsertPureExpression \/ InsertProcedure \/ InsertSpecFuncs
  <2>1. ReferencesSame
    BY <1>4, <1>7 DEF InsertPureExpression, InsertProcedure, InsertSpecFuncs,
                      ReferencesSame, ReferenceColumns, SetTables
  <2> QED
    BY <1>1, <1>2, <1>3, <2>1, QuietReturn
<1> QED
  BY <1>5, <1>6, <1>7

LEMMA BorrowReferences == IInv /\ IInv' /\ TInv /\ RInv /\ BorrowMut => RInv'
<1> SUFFICES ASSUME IInv, IInv', TInv, RInv, BorrowMut PROVE RInv'
  OBVIOUS
<1>1. Next1("borrow_mut") /\ "borrow_mut" \notin DeliverOps
  BY DEF BorrowMut, DeliverOps, Stages
<1>2. Return /\ enc' = [enc EXCEPT !.held = @ \cup {X}]
  BY DEF BorrowMut, Panic, IInv, NoPanic
<1>3. ReferencesSame
  BY <1>2 DEF ReferencesSame, ReferenceColumns, SetTables, RInv, TInv, Typing, Columns, Kept
<1> QED
  BY <1>1, <1>2, <1>3, QuietReturn

LEMMA CallReferences ==
  ASSUME IInv, TInv, RInv,
         \/ EncodeInvariantFuncApp \/ InvariantOfField \/ EncodeDiscriminantFuncApp \/ EncodeSnapshotApi
         \/ EncodeSnapshot \/ SnapshotOfField \/ EncodeType \/ CallPure \/ CallImpure
  PROVE  RInv'
<1>1. UNCHANGED enc
  BY DEF EncodeInvariantFuncApp, InvariantOfField, EncodeDiscriminantFuncApp, EncodeSnapshotApi,
         EncodeSnapshot, SnapshotOfField, EncodeType, CallPure, CallImpure
<1>2. PICK op \in {"invariant_func_app", "invariant_field", "discriminant", "snapshot", "encode_snapshot",
                   "snapshot_field", "encode_type", "call_pure", "call_impure"} : Next1(op)
  BY DEF EncodeInvariantFuncApp, InvariantOfField, EncodeDiscriminantFuncApp, EncodeSnapshotApi,
         EncodeSnapshot, SnapshotOfField, EncodeType, CallPure, CallImpure
<1>3. op \notin DeliverOps
  BY DEF DeliverOps, Stages
<1>4. \E items : Silent(items) /\ Run(items)
  <2>1. CASE EncodeInvariantFuncApp
    BY <2>1, SilentPair DEF EncodeInvariantFuncApp
  <2>2. CASE InvariantOfField
    BY <2>2, SilentPair DEF InvariantOfField
  <2>3. CASE EncodeDiscriminantFuncApp
    <3>1. Silent(<<Do("predicate_use", X)>>) /\ Silent(<<Do("discriminant_func", X)>>)
      BY SilentDo
    <3>2. Silent(Borrowed("type_discriminant_funcs", <<Do("discriminant_func", X)>>))
      BY <3>1, SilentAround
    <3> QED
      BY <2>3, <3>1, <3>2, SilentConcat DEF EncodeDiscriminantFuncApp
  <2>4. CASE EncodeSnapshotApi
    BY <2>4, SilentDo, SilentAround DEF EncodeSnapshotApi
  <2>5. CASE EncodeSnapshot
    BY <2>5, SilentPair DEF EncodeSnapshot
  <2>6. CASE SnapshotOfField
    BY <2>6, SilentTriple DEF SnapshotOfField
  <2>7. CASE EncodeType
    BY <2>7, SilentTypeName DEF EncodeType
  <2>8. CASE CallPure
    BY <2>8, SilentDo, SilentAround DEF CallPure
  <2>9. CASE CallImpure
    BY <2>9, SilentDo, SilentAround DEF CallImpure
  <2> QED
    BY <2>1, <2>2, <2>3, <2>4, <2>5, <2>6, <2>7, <2>8, <2>9
<1> QED
  BY <1>1, <1>2, <1>3, <1>4, UnchangedReferences, QuietStep

LEMMA FunctionReferences ==
  ASSUME IInv, TInv, RInv,
         \/ EncodeFunctionReturnType \/ EncodePureExpression \/ LookUpPureExpression
         \/ GetProcedureContractForCall \/ EncodeSpecFuncs
  PROVE  RInv'
<1>1. UNCHANGED enc
  BY DEF EncodeFunctionReturnType, EncodePureExpression, LookUpPureExpression,
         GetProcedureContractForCall, EncodeSpecFuncs
<1>2. PICK op \in {"return_type", "assertion", "assertion_lookup", "contract_for_call", "spec_funcs"} : Next1(op)
  BY DEF EncodeFunctionReturnType, EncodePureExpression, LookUpPureExpression,
         GetProcedureContractForCall, EncodeSpecFuncs
<1>3. op \notin DeliverOps /\ op \in FunctionOps \cup {"assertion"}
  BY DEF DeliverOps, Stages, FunctionOps
<1>4. X \in DOMAIN Fns
  <2>1. op \in FunctionOps
    BY <1>3 DEF FunctionOps
  <2> QED
    BY <1>2, <2>1, FunctionAtHead
<1>5. Silent(Fns[X].body) /\ Silent(Fns[X].spec) /\ Silent(Fns[X].post)
  BY <1>4, FreeRequests, SilentFree
<1>6. \E items : Silent(items) /\ Run(items)
  <2>1. CASE EncodeFunctionReturnType
    BY <2>1, SilentDo DEF EncodeFunctionReturnType
  <2>2. CASE EncodePureExpression
    <3>1. Silent(SubstitutionNames) /\ Silent(<<Do("assertion_lookup", X), Do("register", "verification")>>)
      BY SilentFor, SilentPair DEF SubstitutionNames
    <3> QED
      BY <2>2, <3>1, SilentConcat DEF EncodePureExpression
  <2>3. CASE LookUpPureExpression
    <3>1. Silent(<<Do("assertion_insert", X)>>)
      BY SilentDo
    <3>2. Silent(Fns[X].body \o <<Do("assertion_insert", X)>>)
      BY <1>5, <3>1, SilentConcat
    <3> QED
      BY <2>3, <3>2, SilentEmpty DEF LookUpPureExpression
  <2>4. CASE GetProcedureContractForCall
    <3>1. Silent(Fns[X].spec \o Fns[X].post) /\ Silent(<<Do("fail", "internal")>>)
      BY <1>5, SilentConcat, SilentDo
    <3> QED
      BY <2>4, <3>1 DEF GetProcedureContractForCall
  <2>5. CASE EncodeSpecFuncs
    <3> DEFINE a == For("item_name", Fns[X].spec_names) \o For("snapshot", Fns[X].args)
               b == a \o Fns[X].spec \o Fns[X].post
               c == b \o Borrowed("snapshot_encoder", <<>>)
               d == c \o <<Do("spec_funcs_insert", X)>>
    <3>1. Silent(a)
      BY SilentFor, SilentConcat
    <3>2. Silent(b)
      <4> HIDE DEF a
      <4>1. Silent(a \o Fns[X].spec)
        BY <1>5, <3>1, SilentConcat
      <4> QED
        BY <1>5, <4>1, SilentConcat DEF b
    <3>3. Silent(Borrowed("snapshot_encoder", <<>>)) /\ Silent(<<Do("spec_funcs_insert", X)>>)
      BY SilentEmpty, SilentAround, SilentDo
    <3>4. Silent(c)
      <4> HIDE DEF b
      <4> QED
        BY <3>2, <3>3, SilentConcat
    <3>5. Silent(d)
      <4> HIDE DEF c
      <4> QED
        BY <3>3, <3>4, SilentConcat
    <3>6. Run(IF X \in enc.spec_functions THEN <<>> ELSE d)
      BY <2>5 DEF EncodeSpecFuncs
    <3> HIDE DEF d
    <3> QED
      BY <3>5, <3>6, SilentEmpty
  <2> QED
    BY <2>1, <2>2, <2>3, <2>4, <2>5
<1> QED
  BY <1>1, <1>2, <1>3, <1>6, UnchangedReferences, QuietStep

LEMMA ArrayReferences == IInv /\ TInv /\ RInv /\ EncodeArrayTypes => RInv'
<1> SUFFICES ASSUME IInv, TInv, RInv, EncodeArrayTypes PROVE RInv'
  OBVIOUS
<1> DEFINE inner == IF X \in enc.array_types THEN <<>>
                    ELSE <<Do("predicate_use", X), Do("predicate_use", X.args[1]), Do("array_types_insert", X)>>
<1>1. Next1("array_types") /\ UNCHANGED enc /\ Run(Borrowed("array_types_encoder", inner))
  BY DEF EncodeArrayTypes
<1>2. Silent(inner)
  BY SilentEmpty, SilentTriple
<1>3. "array_types" \notin DeliverOps
  BY DEF DeliverOps, Stages
<1> HIDE DEF inner
<1>4. Silent(Borrowed("array_types_encoder", inner))
  BY <1>2, SilentAround
<1> QED
  BY <1>1, <1>3, <1>4, UnchangedReferences, QuietStep

LEMMA SnapReferences == IInv /\ TInv /\ RInv /\ SnapApp => RInv'
<1> SUFFICES ASSUME IInv, TInv, RInv, SnapApp PROVE RInv'
  OBVIOUS
<1>1. PICK ty, inner : ty = enc.predicate_types[Name(X)] /\ inner = StripRefsAndBoxes[ty]
  OBVIOUS
<1> DEFINE rest == IF inner.kind = "prim" \/ IsUnit(inner) THEN <<>> ELSE <<Do("encode_snapshot", inner)>>
<1>2. Next1("snap_app") /\ UNCHANGED enc /\ Run(For("predicate_use", Dereferenced[ty]) \o rest)
  BY <1>1 DEF SnapApp
<1>3. Silent(rest)
  BY SilentEmpty, SilentDo
<1>4. "snap_app" \notin DeliverOps
  BY DEF DeliverOps, Stages
<1> HIDE DEF rest
<1>5. Silent(For("predicate_use", Dereferenced[ty]) \o rest)
  BY <1>3, SilentFor, SilentConcat
<1> QED
  BY <1>2, <1>4, <1>5, UnchangedReferences, QuietStep

LEMMA LoopReferences == IInv /\ TInv /\ RInv /\ Iterate => RInv'
<1> SUFFICES ASSUME IInv, TInv, RInv, Iterate PROVE RInv'
  OBVIOUS
<1>1. /\ Next1("for") /\ UNCHANGED enc
      /\ Run(<<Do(X[1], Head(X[2]))>> \o For(X[1], Tail(X[2])))
  BY DEF Iterate
<1>2. work[1] \in Loops /\ X = work[1].x
  BY <1>1, HeadItem, ItemFacts
<1>3. X[1] \in TypeLoops \cup {"item_name"}
  BY <1>2 DEF Loops
<1>4. X[1] # "predicate_name"
  BY <1>3 DEF TypeLoops, LoopOps
<1>5. Silent(<<Do(X[1], Head(X[2]))>>) /\ Silent(For(X[1], Tail(X[2])))
  BY <1>4, SilentDo, SilentFor
<1>6. Silent(<<Do(X[1], Head(X[2]))>> \o For(X[1], Tail(X[2])))
  BY <1>5, SilentConcat
<1>7. "for" \notin DeliverOps
  BY DEF DeliverOps, Stages
<1> QED
  BY <1>1, <1>6, <1>7, UnchangedReferences, QuietStep

LEMMA ProcedureReferences == IInv /\ TInv /\ RInv /\ EncodeProcedure => RInv'
<1> SUFFICES ASSUME IInv, TInv, RInv, EncodeProcedure PROVE RInv'
  OBVIOUS
<1>1. Next1("procedure") /\ "procedure" \notin DeliverOps
  BY DEF EncodeProcedure, DeliverOps, Stages
<1>2. X \in DOMAIN Fns
  BY <1>1, FunctionAtHead DEF SpecialOps
<1>3. Silent(Fns[X].body) /\ Silent(SpecFuncs(X)) /\ Silent(Patch(X))
  BY <1>2, FreeRequests, FreeSpecFuncs, FreePatch, SilentFree
<1>4. ReferencesSame
  <2>1. CASE UNCHANGED enc
    BY <2>1, UnchangedReferences
  <2>2. CASE enc' = Collect(enc, X)
    BY <2>2 DEF Collect, ReferencesSame, ReferenceColumns, SetTables, RInv, TInv, Typing, Columns, Kept
  <2> QED
    BY <2>1, <2>2 DEF EncodeProcedure
<1>5. \E items : Silent(items) /\ Run(items)
  <2>1. CASE X \in DOMAIN enc.procedures
    BY <1>3, <2>1 DEF EncodeProcedure
  <2>2. CASE X \notin DOMAIN enc.procedures /\ Fns[X].new_fails
    <3>1. Run(<<Do("fail", "internal")>>)
      BY <2>2 DEF EncodeProcedure
    <3> QED
      BY <3>1, SilentDo
  <2>3. CASE X \notin DOMAIN enc.procedures /\ ~Fns[X].new_fails
    <3> DEFINE a == <<Do("item_name", X), Do("predicate_use", Fns[X].ret)>>
               b == a \o Fns[X].body
               c == b \o For("predicate_use", Fns[X].args)
               d == c \o Patch(X)
               e == d \o <<Do("procedure_encoded", X)>>
               items == e \o SpecFuncs(X)
    <3>1. Run(items)
      BY <2>3 DEF EncodeProcedure
    <3>2. Silent(a)
      BY SilentPair
    <3> HIDE DEF a
    <3>3. Silent(b)
      BY <1>3, <3>2, SilentConcat
    <3> HIDE DEF b
    <3>4. Silent(c)
      BY <3>3, SilentFor, SilentConcat
    <3> HIDE DEF c
    <3>5. Silent(d)
      BY <1>3, <3>4, SilentConcat
    <3> HIDE DEF d
    <3>6. Silent(e)
      BY <3>5, SilentDo, SilentConcat
    <3> HIDE DEF e
    <3>7. Silent(items)
      BY <1>3, <3>6, SilentConcat
    <3> HIDE DEF items
    <3> QED
      BY <3>1, <3>7
  <2> QED
    BY <2>1, <2>2, <2>3
<1> QED
  BY <1>1, <1>4, <1>5, QuietStep

-------------------------------------------------------------------------------
(* Steps that refer to a definition or make one *)

LEMMA TableStep ==
  ASSUME IInv, RInv, NEW op, Next1(op), NEW items, Silent(items), Run(items), Grows, NEW v, UseOK(v),
         enc'.uses \subseteq enc.uses \cup {v}, References' \subseteq References \cup {v},
         Encoding => v \in References \/ Covered(v)',
         Encoding => \A u \in References : Delivers(work[1], u) => Covered(u)'
  PROVE  RInv'
<1>1. work # <<>> /\ IsSeq(work)
  BY AtHead
<1>2. Encoding => Followed(items \o Tail(work))
  BY <1>1, FollowedStep DEF RInv
<1>3. IsSeq(items)
  BY DEF Silent
<1>4. \A u \in enc'.uses : u \in enc.uses \/ UseOK(u)
  OBVIOUS
<1>5. Encoding => \A u \in References' : u \in References \/ Covered(u)'
  OBVIOUS
<1> QED
  BY <1>2, <1>3, <1>4, <1>5, ReferenceStep

\* The last of the steps to come delivers v.
LEMMA DeliveredLast ==
  ASSUME IInv, NEW op, Next1(op), NEW front, IsSeq(front), NEW it, Run(front \o <<it>>),
         NEW v, Delivers(it, v)'
  PROVE  Covered(v)'
<1>1. work # <<>> /\ IsSeq(work)
  BY AtHead
<1>2. IsSeq(<<it>>) /\ Len(<<it>>) = 1 /\ <<it>>[1] = it /\ Len(front) \in Nat
  BY SingletonFacts, SeqFacts
<1>3. PICK items : items = front \o <<it>>
  OBVIOUS
<1>4. IsSeq(items) /\ Len(items) = Len(front) + 1 /\ items[Len(front) + 1] = it
  <2>1. /\ IsSeq(front \o <<it>>) /\ Len(front \o <<it>>) = Len(front) + Len(<<it>>)
        /\ \A i \in 1 .. Len(<<it>>) : (front \o <<it>>)[Len(front) + i] = <<it>>[i]
    BY <1>2, ConcatFacts
  <2>2. 1 \in 1 .. Len(<<it>>)
    BY <1>2
  <2> QED
    BY <1>2, <1>3, <2>1, <2>2
<1>5. work' = items \o Tail(work)
  BY <1>3 DEF Run
<1>6. PICK w : w = work'
  OBVIOUS
<1>7. \A j \in 1 .. Len(items) : j \in 1 .. Len(w) /\ w[j] = items[j]
  <2>1. Replaced(work, items, w)
    BY <1>1, <1>4, <1>5, <1>6, Shifted
  <2> QED
    BY <2>1 DEF Replaced
<1>8. Len(front) + 1 \in 1 .. Len(items)
  BY <1>2, <1>4
<1>9. \E j \in 1 .. Len(w) : w[j] = it
  BY <1>4, <1>7, <1>8
<1> QED
  BY <1>6, <1>9 DEF Covered

\* Only enc.uses changes.
Uses(v) ==
  /\ ReferenceColumns \subseteq DOMAIN enc' /\ enc'.reported = enc.reported
  /\ \A c \in ReferenceColumns \ {"uses"} : enc'[c] = enc[c]
  /\ enc'.uses = enc.uses \cup {v}

LEMMA UseFacts ==
  ASSUME NEW v, Uses(v)
  PROVE  /\ enc'.type_predicate_names = enc.type_predicate_names
         /\ enc'.type_predicates = enc.type_predicates
         /\ enc'.type_invariant_names = enc.type_invariant_names /\ enc'.in_progress = enc.in_progress
         /\ enc'.encoded = enc.encoded /\ enc'.type_tags = enc.type_tags
         /\ enc'.pure_functions = enc.pure_functions /\ enc'.queue = enc.queue
         /\ \A c \in SetTables : enc'[c] = enc[c]
         /\ Grows /\ References' = References \cup {v}
<1>1. /\ enc'.type_predicate_names = enc.type_predicate_names
      /\ enc'.type_predicates = enc.type_predicates
      /\ enc'.type_invariant_names = enc.type_invariant_names /\ enc'.in_progress = enc.in_progress
      /\ enc'.encoded = enc.encoded /\ enc'.type_tags = enc.type_tags
      /\ enc'.pure_functions = enc.pure_functions /\ enc'.queue = enc.queue
      /\ \A c \in SetTables : enc'[c] = enc[c]
  BY DEF Uses, ReferenceColumns, SetTables
<1>2. InBodies' = InBodies
  BY <1>1 DEF InBodies
<1>3. References' = References \cup {v}
  BY <1>1, <1>2 DEF References, Name, Uses
<1>4. \A f : Queued(f) => Queued(f)'
  BY <1>1 DEF Queued
<1> QED
  BY <1>1, <1>3, <1>4 DEF Grows, Uses

LEMMA UseStep ==
  ASSUME IInv, RInv, NEW op, Next1(op), op \notin DeliverOps, NEW items, Silent(items), Run(items),
         NEW v, UseOK(v), Uses(v), Encoding => v \in References \/ Covered(v)'
  PROVE  RInv'
<1>1. work[1].op = op
  BY AtHead
<1>2. \A u \in References : ~Delivers(work[1], u)
  BY <1>1, NotDelivered
<1>3. Grows /\ References' = References \cup {v} /\ enc'.uses = enc.uses \cup {v}
  BY UseFacts DEF Uses
<1> QED
  BY <1>2, <1>3, TableStep

LEMMA UseColumns ==
  ASSUME TInv, RInv, NEW table, NEW key, enc' = Use(enc, table, key) PROVE Uses(<<table, key>>)
BY DEF Use, Uses, ReferenceColumns, RInv, TInv, Typing, Columns, Kept

LEMMA KeyIsUse ==
  ASSUME NEW table \in Tables \ {"functions"}, NEW key PROVE UseOK(<<table, key>>)
BY DEF UseOK

LEMMA PredicateUseReferences == IInv /\ TInv /\ RInv /\ EncodeTypePredicateUse => RInv'
<1> SUFFICES ASSUME IInv, TInv, RInv, EncodeTypePredicateUse PROVE RInv'
  OBVIOUS
<1>1. Next1("predicate_use") /\ "predicate_use" \notin DeliverOps
  BY DEF EncodeTypePredicateUse, DeliverOps, Stages
<1>2. CASE X \in DOMAIN enc.type_predicate_names
  <2>1. PICK v : v = <<"type_predicates", Name(X)>>
    OBVIOUS
  <2>2. Return /\ enc' = Use(enc, "type_predicates", Name(X))
    BY <1>2 DEF EncodeTypePredicateUse
  <2>3. Uses(v) /\ UseOK(v)
    BY <2>1, <2>2, UseColumns, KeyIsUse DEF Tables
  <2>4. v \in References
    BY <1>2, <2>1 DEF References
  <2> QED
    BY <1>1, <2>2, <2>3, <2>4, SilentEmpty, UseStep DEF Return
<1>3. CASE X \notin DOMAIN enc.type_predicate_names
  <2>1. PICK s : s = <<Do("predicate_name", X), Do("predicate_def", X)>>
    OBVIOUS
  <2>2. Run(TypeName(X) \o s) /\ UNCHANGED enc
    BY <1>3, <2>1 DEF EncodeTypePredicateUse
  <2>3. IsSeq(s) /\ Followed(s)
    <3>1. PICK a, b : a = Do("predicate_name", X) /\ b = Do("predicate_def", X)
      OBVIOUS
    <3>2. a.op = "predicate_name" /\ b.op = "predicate_def" /\ a.x = b.x
      BY <3>1 DEF Do
    <3>3. <<a, b>> \in Seq({a, b}) /\ Len(<<a, b>>) = 2 /\ <<a, b>>[1] = a /\ <<a, b>>[2] = b
      OBVIOUS
    <3>4. IsSeq(s) /\ Len(s) = 2 /\ s[1] = a /\ s[2] = b
      BY <2>1, <3>1, <3>3 DEF IsSeq
    <3>5. ASSUME NEW i \in 1 .. Len(s), s[i].op = "predicate_name"
          PROVE  \E j \in i + 1 .. Len(s) : s[j].op = "predicate_def" /\ s[j].x = s[i].x
      <4>1. i = 1 /\ 2 \in i + 1 .. Len(s)
        BY <3>2, <3>4, <3>5
      <4> QED
        BY <3>2, <3>4, <4>1
    <3> QED
      BY <3>4, <3>5 DEF Followed
  <2>4. work # <<>> /\ IsSeq(work) /\ work[1].op = "predicate_use"
    BY <1>1, AtHead
  <2>5. PICK t : t = Tail(work)
    OBVIOUS
  <2>6. IsSeq(t) /\ (Encoding => Followed(t))
    BY <2>4, <2>5, TailFacts, FollowedTail DEF RInv
  <2>7. PICK n : n = TypeName(X)
    OBVIOUS
  <2>8. Silent(n)
    BY <2>7, SilentTypeName
  <2>9. IsSeq(n \o s)
    BY <2>3, <2>8, ConcatFacts DEF Silent
  <2>10. Encoding => Followed((n \o s) \o t)
    <3> SUFFICES ASSUME Encoding PROVE Followed((n \o s) \o t)
      OBVIOUS
    <3>1. Followed(n \o s)
      BY <2>3, <2>8, FollowedConcat
    <3>2. Followed(t)
      BY <2>6
    <3> QED
      BY <2>6, <2>9, <3>1, <3>2, FollowedJoin
  <2>11. Encoding => Followed((TypeName(X) \o s) \o Tail(work))
    BY <2>5, <2>7, <2>10
  <2>12. Grows /\ References' = References /\ enc'.uses = enc.uses
    BY <2>2, UnchangedReferences, SameReferences, SameFacts
  <2>13. \A u \in References : ~Delivers(work[1], u)
    BY <1>1, <2>4, NotDelivered
  <2>14. IsSeq(TypeName(X) \o s)
    BY <2>7, <2>9
  <2> QED
    BY <1>1, <2>2, <2>11, <2>12, <2>13, <2>14, ReferenceStep
<1> QED
  BY <1>2, <1>3

\* What follows predicate_name gives the definition for the name that it records.
LEMMA NameReferences == IInv /\ TInv /\ RInv /\ RecordPredicateName => RInv'
<1> SUFFICES ASSUME IInv, TInv, RInv, RecordPredicateName PROVE RInv'
  OBVIOUS
<1>1. PICK n, v, x : n = NameOf(X) /\ v = <<"type_predicates", n>> /\ x = X
  OBVIOUS
<1>2. /\ Next1("predicate_name") /\ Run(<<>>)
      /\ enc' = Use([enc EXCEPT !.type_predicate_names = Put(@, x, n),
                                !.predicate_types = Put(@, n, x)], "type_predicates", n)
  BY <1>1 DEF RecordPredicateName, Return
<1>3. /\ enc'.type_predicate_names = Put(enc.type_predicate_names, x, n) /\ enc'.uses = enc.uses \cup {v}
      /\ ReferenceColumns \subseteq DOMAIN enc' /\ enc'.reported = enc.reported
      /\ \A c \in ReferenceColumns \ {"uses", "type_predicate_names"} : enc'[c] = enc[c]
  BY <1>1, <1>2 DEF Use, ReferenceColumns, SetTables, RInv, TInv, Typing, Columns, Kept
<1>4. /\ enc'.type_predicates = enc.type_predicates
      /\ enc'.type_invariant_names = enc.type_invariant_names /\ enc'.in_progress = enc.in_progress
      /\ enc'.encoded = enc.encoded /\ enc'.type_tags = enc.type_tags
      /\ enc'.pure_functions = enc.pure_functions /\ enc'.queue = enc.queue
      /\ \A c \in SetTables : enc'[c] = enc[c]
  BY <1>3 DEF ReferenceColumns, SetTables
<1>5. x \in DOMAIN enc.type_predicate_names => enc.type_predicate_names[x] = n
  BY <1>1 DEF TInv, Names, Name
<1>6. /\ x \in DOMAIN enc'.type_predicate_names /\ enc'.type_predicate_names[x] = n
      /\ DOMAIN enc'.type_predicate_names = DOMAIN enc.type_predicate_names \cup {x}
      /\ \A t \in DOMAIN enc.type_predicate_names : enc'.type_predicate_names[t] = enc.type_predicate_names[t]
  BY <1>3, <1>5 DEF Put
<1>7. Grows
  <2>1. \A f : Queued(f) => Queued(f)'
    BY <1>4 DEF Queued
  <2> QED
    BY <1>3, <1>4, <1>6, <2>1 DEF Grows
<1>8. References' \subseteq References \cup {v}
  <2>1. InBodies' = InBodies
    BY <1>4 DEF InBodies
  <2>2. \A t \in DOMAIN enc'.type_predicate_names :
          <<"type_predicates", Name(t)'>> \in {<<"type_predicates", Name(y)>> : y \in DOMAIN enc.type_predicate_names} \cup {v}
    BY <1>1, <1>6 DEF Name
  <2> QED
    BY <1>3, <1>4, <2>1, <2>2 DEF References
<1>9. work # <<>> /\ IsSeq(work) /\ Len(work) \in Nat /\ Len(work) > 0 /\ work[1].op = "predicate_name" /\ work[1].x = x
  BY <1>1, <1>2, AtHead
<1>10. Encoding => Covered(v)'
  <2> SUFFICES ASSUME Encoding PROVE Covered(v)'
    OBVIOUS
  <2>1. 1 \in 1 .. Len(work)
    BY <1>9
  <2>2. PICK j \in 1 + 1 .. Len(work) : work[j].op = "predicate_def" /\ work[j].x = x
    BY <1>9, <2>1 DEF RInv, Followed
  <2>3. PICK it : it = work[j]
    OBVIOUS
  <2>4. PICK w : w = work'
    OBVIOUS
  <2>5. Replaced(work, <<>>, w)
    BY <1>2, <1>9, <2>4, EmptyFacts, Shifted DEF Run
  <2>6. j \in 2 .. Len(work)
    BY <1>9, <2>2
  <2>7. PICK k \in 1 .. Len(w) : w[k] = it
    BY <2>3, <2>5, <2>6 DEF Replaced
  <2>8. Named(it, n)'
    BY <1>6, <2>2, <2>3 DEF Named, Name
  <2>9. Delivers(it, v)'
    BY <1>1, <2>2, <2>3, <2>8 DEF Delivers
  <2> QED
    BY <2>4, <2>7, <2>9 DEF Covered
<1>11. \A u \in References : ~Delivers(work[1], u)
  BY <1>9, NotDelivered DEF DeliverOps, Stages
<1>12. UseOK(v)
  BY <1>1, KeyIsUse DEF Tables
<1>13. enc'.uses \subseteq enc.uses \cup {v}
  BY <1>3
<1> QED
  BY <1>2, <1>7, <1>8, <1>10, <1>11, <1>12, <1>13, SilentEmpty, TableStep

\* What a definition of a type's predicate was to deliver.
LEMMA PredicateDelivered ==
  ASSUME RInv, NEW it, it.op \in {"predicate_def", "predicate_insert"}, NEW u \in References, Delivers(it, u)
  PROVE  it.x \in DOMAIN enc.type_predicate_names /\ u[1] = "type_predicates" /\ u[2] = Name(it.x)
<1>1. u[1] \in Tables /\ (u[1] = "functions" => u[2] \in DOMAIN Fns /\ Fns[u[2]].pure)
  BY ReferenceFacts
<1>2. u[1] = "type_predicates"
  BY <1>1 DEF Delivers, IsPending
<1> QED
  BY <1>2 DEF Delivers, Named

LEMMA PredicateDefReferences == IInv /\ TInv /\ RInv /\ EncodeTypePredicateDef => RInv'
<1> SUFFICES ASSUME IInv, TInv, RInv, EncodeTypePredicateDef PROVE RInv'
  OBVIOUS
<1>1. Next1("predicate_def") /\ UNCHANGED enc
  BY DEF EncodeTypePredicateDef
<1>2. work[1].op = "predicate_def" /\ work[1].x = X /\ work # <<>> /\ IsSeq(work)
  BY <1>1, AtHead
<1>3. Grows /\ References' = References /\ enc'.uses = enc.uses
  BY <1>1, UnchangedReferences, SameReferences, SameFacts
<1>4. \A u \in References : Delivers(work[1], u) =>
        X \in DOMAIN enc.type_predicate_names /\ u[1] = "type_predicates" /\ u[2] = Name(X)
  BY <1>2, PredicateDelivered
<1>5. ASSUME NEW items, Silent(items), Run(items),
             \A u \in References : Delivers(work[1], u) => Covered(u)'
      PROVE  RInv'
  <2>1. Encoding => Followed(items \o Tail(work))
    BY <1>2, <1>5, FollowedStep DEF RInv
  <2>2. IsSeq(items)
    BY <1>5 DEF Silent
  <2> QED
    BY <1>1, <1>3, <1>5, <2>1, <2>2, ReferenceStep
<1>6. CASE X \notin DOMAIN enc.type_predicate_names
  <2>1. Run(<<Do("predicate_use", X), Do("predicate_def", X)>>)
    BY <1>6 DEF EncodeTypePredicateDef
  <2>2. Silent(<<Do("predicate_use", X), Do("predicate_def", X)>>)
    BY SilentPair
  <2> QED
    BY <1>4, <1>5, <1>6, <2>1, <2>2
<1>7. CASE X \in DOMAIN enc.type_predicate_names /\ Name(X) \in DOMAIN enc.type_predicates
  <2>1. Run(<<>>)
    BY <1>7 DEF EncodeTypePredicateDef, Return
  <2>2. \A u \in References : Delivers(work[1], u) => Covered(u)'
    <3>1. \A u \in References : Delivers(work[1], u) => u[1] \in Tables /\ Present(u)
      BY <1>4, <1>7 DEF Present, Tables
    <3> QED
      BY <1>3, <3>1, PresentKept DEF Covered
  <2> QED
    BY <1>5, <2>1, <2>2, SilentEmpty
<1>8. CASE X \in DOMAIN enc.type_predicate_names /\ Name(X) \notin DOMAIN enc.type_predicates
  <2>1. PICK front, it : front = For("predicate_use", FieldTys(X)) /\ it = Do("predicate_insert", X)
    OBVIOUS
  <2>2. Run(front \o <<it>>)
    BY <1>8, <2>1 DEF EncodeTypePredicateDef
  <2>3. Silent(front) /\ Silent(<<it>>)
    BY <2>1, SilentFor, SilentDo
  <2>4. Silent(front \o <<it>>)
    BY <2>3, SilentConcat
  <2>5. it.op = "predicate_insert" /\ it.x = X
    BY <2>1 DEF Do
  <2>6. ASSUME NEW u \in References, Delivers(work[1], u) PROVE Covered(u)'
    <3>1. u[1] = "type_predicates" /\ u[2] = Name(X)
      BY <1>4, <2>6
    <3>2. Delivers(it, u)
      BY <1>8, <2>5, <3>1 DEF Delivers, Named
    <3>3. Delivers(it, u)'
      BY <1>3, <3>1, <3>2, DeliversKept DEF Tables
    <3> QED
      BY <1>1, <2>2, <2>3, <3>3, DeliveredLast DEF Silent
  <2> QED
    BY <1>5, <2>2, <2>4, <2>6
<1> QED
  BY <1>6, <1>7, <1>8

LEMMA PredicateInsertReferences == IInv /\ TInv /\ RInv /\ InsertPredicate => RInv'
<1> SUFFICES ASSUME IInv, TInv, RInv, InsertPredicate PROVE RInv'
  OBVIOUS
<1>1. PICK n, x, b, v : n = Name(X) /\ x = X /\ b = PredicateBody(X) /\ v = <<"type_predicates", n>>
  OBVIOUS
<1>2. /\ Next1("predicate_insert") /\ Run(<<>>)
      /\ enc' = [enc EXCEPT !.type_predicates = Put(@, n, b), !.fields = @ \cup FieldNames(X)]
  BY <1>1 DEF InsertPredicate, Return
<1>3. x \in DOMAIN enc.type_predicate_names
  BY <1>1, <1>2, NameAtHead
<1>4. \A m \in b : <<"type_predicates", m>> \in References
  <2>1. AllKnown(Needs(work[1])) /\ work[1].op = "predicate_insert" /\ work[1].x = x
    BY <1>1, <1>2, HeadItem
  <2>2. \A i \in DOMAIN FieldTys(x) : Known(<<"type", FieldTys(x)[i]>>)
    BY <2>1 DEF AllKnown, Needs
  <2>3. \A i \in DOMAIN FieldTys(x) : FieldTys(x)[i] \in DOMAIN enc.type_predicate_names
    BY <2>2 DEF Known
  <2>4. b = {Name(FieldTys(x)[i]) : i \in DOMAIN FieldTys(x)}
    BY <1>1 DEF PredicateBody
  <2> QED
    BY <2>3, <2>4 DEF References
<1>5. /\ enc'.type_predicates = Put(enc.type_predicates, n, b)
      /\ ReferenceColumns \subseteq DOMAIN enc' /\ enc'.reported = enc.reported
      /\ \A c \in ReferenceColumns \ {"type_predicates"} : enc'[c] = enc[c]
  BY <1>2 DEF ReferenceColumns, SetTables, RInv, TInv, Typing, Columns, Kept
<1>6. /\ enc'.uses = enc.uses /\ enc'.type_predicate_names = enc.type_predicate_names
      /\ enc'.type_invariant_names = enc.type_invariant_names /\ enc'.in_progress = enc.in_progress
      /\ enc'.encoded = enc.encoded /\ enc'.type_tags = enc.type_tags
      /\ enc'.pure_functions = enc.pure_functions /\ enc'.queue = enc.queue
      /\ \A c \in SetTables : enc'[c] = enc[c]
  BY <1>5 DEF ReferenceColumns, SetTables
<1>7. /\ DOMAIN enc'.type_predicates = DOMAIN enc.type_predicates \cup {n}
      /\ \A k \in DOMAIN enc'.type_predicates :
           enc'.type_predicates[k] = IF k = n THEN b ELSE enc.type_predicates[k]
  BY <1>5 DEF Put
<1>8. Grows
  <2>1. \A f : Queued(f) => Queued(f)'
    BY <1>6 DEF Queued
  <2> QED
    BY <1>5, <1>6, <1>7, <2>1 DEF Grows
<1>9. References' \subseteq References \cup {v}
  <2>1. \A m \in InBodies' : m \in b \/ m \in InBodies
    BY <1>7 DEF InBodies
  <2>2. \A m \in InBodies' : <<"type_predicates", m>> \in References
    BY <1>4, <2>1 DEF References
  <2> QED
    BY <1>6, <2>2 DEF References, Name
<1>10. v \in References
  BY <1>1, <1>3 DEF References
<1>11. ASSUME NEW u \in References, Delivers(work[1], u) PROVE Covered(u)'
  <2>1. work[1].op = "predicate_insert" /\ work[1].x = x
    BY <1>1, <1>2, AtHead
  <2>2. u[1] = "type_predicates" /\ u[2] = n
    BY <1>1, <1>11, <2>1, PredicateDelivered
  <2> QED
    BY <1>7, <2>2 DEF Covered, Present
<1>12. UseOK(v)
  BY <1>1, KeyIsUse DEF Tables
<1> QED
  BY <1>2, <1>6, <1>8, <1>9, <1>10, <1>11, <1>12, SilentEmpty, TableStep

LEMMA InvariantUseReferences == IInv /\ TInv /\ RInv /\ EncodeTypeInvariantUse => RInv'
<1> SUFFICES ASSUME IInv, TInv, RInv, EncodeTypeInvariantUse PROVE RInv'
  OBVIOUS
<1>1. Next1("invariant_use") /\ "invariant_use" \notin DeliverOps
  BY DEF EncodeTypeInvariantUse, DeliverOps, Stages
<1>2. CASE X \in DOMAIN enc.type_invariant_names
  <2>1. PICK v : v = <<"type_invariants", enc.type_invariant_names[X]>>
    OBVIOUS
  <2>2. Return /\ enc' = Use(enc, "type_invariants", enc.type_invariant_names[X])
    BY <1>2 DEF EncodeTypeInvariantUse
  <2>3. Uses(v) /\ UseOK(v)
    BY <2>1, <2>2, UseColumns, KeyIsUse DEF Tables, SetTables
  <2>4. v \in References
    BY <1>2, <2>1 DEF References
  <2> QED
    BY <1>1, <2>2, <2>3, <2>4, SilentEmpty, UseStep DEF Return
<1>3. CASE X \notin DOMAIN enc.type_invariant_names
  <2>1. Run(TypeName(X) \o <<Do("invariant_name", X)>>) /\ UNCHANGED enc
    BY <1>3 DEF EncodeTypeInvariantUse
  <2>2. Silent(TypeName(X)) /\ Silent(<<Do("invariant_name", X)>>)
    BY SilentTypeName, SilentDo
  <2>3. Silent(TypeName(X) \o <<Do("invariant_name", X)>>)
    BY <2>2, SilentConcat
  <2> QED
    BY <1>1, <2>1, <2>3, UnchangedReferences, QuietStep
<1> QED
  BY <1>2, <1>3

LEMMA InvariantNameReferences == IInv /\ TInv /\ RInv /\ EncodeTypeInvariantDef => RInv'
<1> SUFFICES ASSUME IInv, TInv, RInv, EncodeTypeInvariantDef PROVE RInv'
  OBVIOUS
<1>1. PICK n, v, x, it : /\ n = NameOf(X) /\ v = <<"type_invariants", n>> /\ x = X
                         /\ it = Do("invariant_insert", X)
  OBVIOUS
<1>2. PICK front : front = <<Do("predicate_use", X)>> \o InvariantParts(X) \o Borrowed("snapshot_encoder", <<>>)
  OBVIOUS
<1>3. /\ Next1("invariant_name") /\ Run(IF n \in enc.type_invariants THEN <<>> ELSE front \o <<it>>)
      /\ enc' = Use([enc EXCEPT !.type_invariant_names = Put(@, x, n)], "type_invariants", n)
  BY <1>1, <1>2 DEF EncodeTypeInvariantDef
<1>4. /\ enc'.type_invariant_names = Put(enc.type_invariant_names, x, n) /\ enc'.uses = enc.uses \cup {v}
      /\ ReferenceColumns \subseteq DOMAIN enc' /\ enc'.reported = enc.reported
      /\ \A c \in ReferenceColumns \ {"uses", "type_invariant_names"} : enc'[c] = enc[c]
  BY <1>1, <1>3 DEF Use, ReferenceColumns, SetTables, RInv, TInv, Typing, Columns, Kept
<1>5. /\ enc'.type_predicates = enc.type_predicates
      /\ enc'.type_predicate_names = enc.type_predicate_names /\ enc'.in_progress = enc.in_progress
      /\ enc'.encoded = enc.encoded /\ enc'.type_tags = enc.type_tags
      /\ enc'.pure_functions = enc.pure_functions /\ enc'.queue = enc.queue
      /\ \A c \in SetTables : enc'[c] = enc[c]
  BY <1>4 DEF ReferenceColumns, SetTables
<1>6. x \in DOMAIN enc.type_invariant_names => enc.type_invariant_names[x] = n
  BY <1>1 DEF TInv, Names
<1>7. /\ x \in DOMAIN enc'.type_invariant_names /\ enc'.type_invariant_names[x] = n
      /\ DOMAIN enc'.type_invariant_names = DOMAIN enc.type_invariant_names \cup {x}
      /\ \A t \in DOMAIN enc.type_invariant_names : enc'.type_invariant_names[t] = enc.type_invariant_names[t]
  BY <1>4, <1>6 DEF Put
<1>8. Grows
  <2>1. \A f : Queued(f) => Queued(f)'
    BY <1>5 DEF Queued
  <2> QED
    BY <1>4, <1>5, <1>7, <2>1 DEF Grows
<1>9. References' \subseteq References \cup {v}
  <2>1. InBodies' = InBodies
    BY <1>5 DEF InBodies
  <2>2. \A t \in DOMAIN enc'.type_invariant_names :
          <<"type_invariants", enc'.type_invariant_names[t]>>
            \in {<<"type_invariants", enc.type_invariant_names[y]>> : y \in DOMAIN enc.type_invariant_names} \cup {v}
    BY <1>1, <1>7
  <2> QED
    BY <1>4, <1>5, <2>1, <2>2 DEF References, Name
<1>10. Silent(front) /\ Silent(<<it>>)
  <2>1. X \in CrateTypes
    BY <1>3, TypeAtHead DEF TypeOps
  <2>2. Silent(<<Do("predicate_use", X)>>) /\ Silent(InvariantParts(X)) /\ Silent(<<it>>)
    BY <1>1, <2>1, SilentDo, FreeInvariantParts, SilentFree
  <2>3. Silent(<<Do("predicate_use", X)>> \o InvariantParts(X)) /\ Silent(Borrowed("snapshot_encoder", <<>>))
    BY <2>2, SilentConcat, SilentEmpty, SilentAround
  <2> QED
    BY <1>2, <2>2, <2>3, SilentConcat
<1>11. Silent(front \o <<it>>)
  BY <1>10, SilentConcat
<1>12. Covered(v)'
  <2>1. CASE n \in enc.type_invariants
    BY <1>1, <1>5, <2>1 DEF Covered, Present, SetTables
  <2>2. CASE n \notin enc.type_invariants
    <3>1. it.op = "invariant_insert" /\ it.x = x
      BY <1>1 DEF Do
    <3>2. Delivers(it, v)'
      BY <1>1, <1>7, <3>1 DEF Delivers
    <3> QED
      BY <1>3, <1>10, <2>2, <3>2, DeliveredLast DEF Silent
  <2> QED
    BY <2>1, <2>2
<1>13. \A u \in References : ~Delivers(work[1], u)
  BY <1>3, AtHead, NotDelivered DEF DeliverOps, Stages
<1>14. UseOK(v)
  BY <1>1, KeyIsUse DEF Tables, SetTables
<1>15. PICK items : items = IF n \in enc.type_invariants THEN <<>> ELSE front \o <<it>>
  OBVIOUS
<1>16. Silent(items) /\ Run(items)
  BY <1>3, <1>11, <1>15, SilentEmpty
<1> QED
  BY <1>3, <1>4, <1>8, <1>9, <1>12, <1>13, <1>14, <1>16, TableStep

\* Only table c and the references change.
Writes(c, v) ==
  /\ ReferenceColumns \subseteq DOMAIN enc' /\ enc'.reported = enc.reported
  /\ \A a \in ReferenceColumns \ {"uses", c} : enc'[a] = enc[a]
  /\ enc'.uses \subseteq enc.uses \cup {v}
  /\ c \in SetTables => enc[c] \subseteq enc'[c]
  /\ c = "type_tags" => DOMAIN enc.type_tags \subseteq DOMAIN enc'.type_tags

LEMMA WriteFacts ==
  ASSUME NEW c \in SetTables \cup {"type_tags"}, NEW v, Writes(c, v)
  PROVE  /\ enc'.type_predicate_names = enc.type_predicate_names
         /\ Grows /\ References' \subseteq References \cup {v}
<1>1. /\ enc'.type_predicate_names = enc.type_predicate_names
      /\ enc'.type_predicates = enc.type_predicates
      /\ enc'.type_invariant_names = enc.type_invariant_names /\ enc'.in_progress = enc.in_progress
      /\ enc'.encoded = enc.encoded
      /\ enc'.pure_functions = enc.pure_functions /\ enc'.queue = enc.queue
  BY DEF Writes, ReferenceColumns, SetTables
<1>2. DOMAIN enc.type_tags \subseteq DOMAIN enc'.type_tags /\ \A a \in SetTables : enc[a] \subseteq enc'[a]
  <2>1. CASE c = "type_tags"
    BY <2>1 DEF Writes, ReferenceColumns, SetTables
  <2>2. CASE c \in SetTables
    <3>1. enc'.type_tags = enc.type_tags /\ \A a \in SetTables \ {c} : enc'[a] = enc[a]
      BY <2>2 DEF Writes, ReferenceColumns, SetTables
    <3> QED
      BY <2>2, <3>1 DEF Writes
  <2> QED
    BY <2>1, <2>2
<1>3. InBodies' = InBodies
  BY <1>1 DEF InBodies
<1>4. References' \subseteq References \cup {v}
  BY <1>1, <1>3 DEF References, Name, Writes
<1>5. \A f : Queued(f) => Queued(f)'
  BY <1>1 DEF Queued
<1> QED
  BY <1>1, <1>2, <1>4, <1>5 DEF Grows, Writes

\* What the other definitions were to deliver.
LEMMA TypeDelivered ==
  ASSUME RInv, NEW it, NEW u \in References, Delivers(it, u)
  PROVE  /\ it.op = "tag_def" => u[1] = "type_tags" /\ u[2] = it.x
         /\ it.op = "cast_insert" => u[1] = "type_cast_functions" /\ u[2] = it.x
         /\ it.op = "invariant_insert" =>
              /\ it.x \in DOMAIN enc.type_invariant_names
              /\ u[1] = "type_invariants" /\ u[2] = enc.type_invariant_names[it.x]
         /\ it.op = "discriminant_insert" => u[1] = "type_discriminant_funcs" /\ Named(it, u[2])
         /\ it.op = "snapshot_insert" => u[1] = "encoded" /\ Named(it, u[2])
<1>1. u[1] \in Tables /\ (u[1] = "functions" => u[2] \in DOMAIN Fns /\ Fns[u[2]].pure)
  BY ReferenceFacts
<1>2. CASE u[1] = "functions"
  BY <1>1, <1>2 DEF Delivers, IsPending
<1>3. CASE u[1] # "functions"
  BY <1>1, <1>3 DEF Delivers
<1> QED
  BY <1>2, <1>3

\* The step makes the definition v that it was to deliver.
LEMMA DefinitionStep ==
  ASSUME IInv, RInv, NEW op, Next1(op), Run(<<>>), NEW c \in SetTables \cup {"type_tags"}, NEW v, v[1] \in Tables,
         v[1] # "functions", Writes(c, v), Present(v)',
         \A u \in References : Delivers(work[1], u) => u[1] = v[1] /\ u[2] = v[2]
  PROVE  RInv'
<1>1. Grows /\ References' \subseteq References \cup {v} /\ enc'.uses \subseteq enc.uses \cup {v}
  BY WriteFacts DEF Writes
<1>2. \A u : u[1] = v[1] /\ u[2] = v[2] => Present(u)'
  BY DEF Present
<1>3. UseOK(v)
  BY DEF UseOK
<1>4. Covered(v)' /\ \A u \in References : Delivers(work[1], u) => Covered(u)'
  BY <1>2 DEF Covered
<1> QED
  BY <1>1, <1>3, <1>4, SilentEmpty, TableStep

LEMMA InvariantInsertReferences == IInv /\ TInv /\ RInv /\ InsertInvariant => RInv'
<1> SUFFICES ASSUME IInv, TInv, RInv, InsertInvariant PROVE RInv'
  OBVIOUS
<1>1. PICK n, v : n = enc.type_invariant_names[X] /\ v = <<"type_invariants", n>>
  OBVIOUS
<1>2. /\ Next1("invariant_insert") /\ Run(<<>>)
      /\ enc' = [enc EXCEPT !.type_invariants = @ \cup {n}]
  BY <1>1 DEF InsertInvariant, Return
<1>3. Writes("type_invariants", v) /\ n \in enc'.type_invariants
  BY <1>2 DEF Writes, ReferenceColumns, SetTables, RInv, TInv, Typing, Columns, Kept
<1>4. Present(v)' /\ v[1] = "type_invariants" /\ v[2] = n /\ v[1] \in Tables /\ "type_invariants" \in SetTables
  BY <1>1, <1>3 DEF Present, Tables, SetTables
<1>5. work[1].op = "invariant_insert" /\ work[1].x = X
  BY <1>2, AtHead
<1>6. \A u \in References : Delivers(work[1], u) => u[1] = v[1] /\ u[2] = v[2]
  BY <1>1, <1>4, <1>5, TypeDelivered
<1> QED
  BY <1>2, <1>3, <1>4, <1>6, DefinitionStep

LEMMA CastInsertReferences == IInv /\ TInv /\ RInv /\ InsertCastFunction => RInv'
<1> SUFFICES ASSUME IInv, TInv, RInv, InsertCastFunction PROVE RInv'
  OBVIOUS
<1>1. PICK n, v : n = X /\ v = <<"type_cast_functions", n>>
  OBVIOUS
<1>2. /\ Next1("cast_insert") /\ Run(<<>>)
      /\ enc' = [enc EXCEPT !.type_cast_functions = @ \cup {n}]
  BY <1>1 DEF InsertCastFunction, Return
<1>3. Writes("type_cast_functions", v) /\ n \in enc'.type_cast_functions
  BY <1>2 DEF Writes, ReferenceColumns, SetTables, RInv, TInv, Typing, Columns, Kept
<1>4. /\ Present(v)' /\ v[1] = "type_cast_functions" /\ v[2] = n /\ v[1] \in Tables
      /\ "type_cast_functions" \in SetTables
  BY <1>1, <1>3 DEF Present, Tables, SetTables
<1>5. work[1].op = "cast_insert" /\ work[1].x = X
  BY <1>2, AtHead
<1>6. \A u \in References : Delivers(work[1], u) => u[1] = v[1] /\ u[2] = v[2]
  BY <1>1, <1>4, <1>5, TypeDelivered
<1> QED
  BY <1>2, <1>3, <1>4, <1>6, DefinitionStep

LEMMA DiscriminantInsertReferences == IInv /\ TInv /\ RInv /\ InsertDiscriminantFunc => RInv'
<1> SUFFICES ASSUME IInv, TInv, RInv, InsertDiscriminantFunc PROVE RInv'
  OBVIOUS
<1>1. PICK n, v : n = Name(X) /\ v = <<"type_discriminant_funcs", n>>
  OBVIOUS
<1>2. /\ Next1("discriminant_insert") /\ Run(<<>>)
      /\ enc' = [enc EXCEPT !.type_discriminant_funcs = @ \cup {n}]
  BY <1>1 DEF InsertDiscriminantFunc, Return
<1>3. Writes("type_discriminant_funcs", v) /\ n \in enc'.type_discriminant_funcs
  BY <1>2 DEF Writes, ReferenceColumns, SetTables, RInv, TInv, Typing, Columns, Kept
<1>4. /\ Present(v)' /\ v[1] = "type_discriminant_funcs" /\ v[2] = n /\ v[1] \in Tables
      /\ "type_discriminant_funcs" \in SetTables
  BY <1>1, <1>3 DEF Present, Tables, SetTables
<1>5. work[1].op = "discriminant_insert" /\ work[1].x = X
  BY <1>2, AtHead
<1>6. \A u \in References : Delivers(work[1], u) => u[1] = v[1] /\ u[2] = v[2]
  BY <1>1, <1>4, <1>5, TypeDelivered DEF Named
<1> QED
  BY <1>2, <1>3, <1>4, <1>6, DefinitionStep

LEMMA TagDefReferences == IInv /\ TInv /\ RInv /\ EncodeTypeTagDef => RInv'
<1> SUFFICES ASSUME IInv, TInv, RInv, EncodeTypeTagDef PROVE RInv'
  OBVIOUS
<1>1. PICK n, v, m : n = X /\ v = <<"type_tags", n>> /\ m = NameOf(X)
  OBVIOUS
<1>2. /\ Next1("tag_def") /\ Run(<<>>)
      /\ enc' = [enc EXCEPT !.type_tags = Put(@, n, m)]
  BY <1>1 DEF EncodeTypeTagDef, Return
<1>3. Writes("type_tags", v) /\ n \in DOMAIN enc'.type_tags
  BY <1>2 DEF Writes, Put, ReferenceColumns, SetTables, RInv, TInv, Typing, Columns, Kept
<1>4. Present(v)' /\ v[1] = "type_tags" /\ v[2] = n /\ v[1] \in Tables
  BY <1>1, <1>3 DEF Present, Tables
<1>5. work[1].op = "tag_def" /\ work[1].x = X
  BY <1>2, AtHead
<1>6. \A u \in References : Delivers(work[1], u) => u[1] = v[1] /\ u[2] = v[2]
  BY <1>1, <1>4, <1>5, TypeDelivered
<1> QED
  BY <1>2, <1>3, <1>4, <1>6, DefinitionStep

LEMMA BuiltinReferences ==
  ASSUME IInv, TInv, RInv, EncodeBuiltinFunction \/ EncodeBuiltinMethod
  PROVE  RInv'
<1>1. CASE EncodeBuiltinFunction
  <2>1. PICK n, v : n = <<X[1], Name(X[2])>> /\ v = <<"builtin_functions", n>>
    OBVIOUS
  <2>2. /\ Next1("builtin_function") /\ Run(<<>>)
        /\ enc' = Use([enc EXCEPT !.builtin_functions = @ \cup {n}], "builtin_functions", n)
    BY <1>1, <2>1 DEF EncodeBuiltinFunction, Return
  <2>3. Writes("builtin_functions", v) /\ n \in enc'.builtin_functions
    BY <2>1, <2>2 DEF Use, Writes, ReferenceColumns, SetTables, RInv, TInv, Typing, Columns, Kept
  <2>4. /\ Present(v)' /\ v[1] = "builtin_functions" /\ v[2] = n /\ v[1] \in Tables
        /\ "builtin_functions" \in SetTables
    BY <2>1, <2>3 DEF Present, Tables, SetTables
  <2>5. \A u \in References : ~Delivers(work[1], u)
    BY <2>2, AtHead, NotDelivered DEF DeliverOps, Stages
  <2> QED
    BY <2>2, <2>3, <2>4, <2>5, DefinitionStep
<1>2. CASE EncodeBuiltinMethod
  <2>1. PICK n, v : n = X /\ v = <<"builtin_methods", n>>
    OBVIOUS
  <2>2. /\ Next1("builtin_method") /\ Run(<<>>)
        /\ enc' = Use([enc EXCEPT !.builtin_methods = @ \cup {n}], "builtin_methods", n)
    BY <1>2, <2>1 DEF EncodeBuiltinMethod, Return
  <2>3. Writes("builtin_methods", v) /\ n \in enc'.builtin_methods
    BY <2>1, <2>2 DEF Use, Writes, ReferenceColumns, SetTables, RInv, TInv, Typing, Columns, Kept
  <2>4. /\ Present(v)' /\ v[1] = "builtin_methods" /\ v[2] = n /\ v[1] \in Tables
        /\ "builtin_methods" \in SetTables
    BY <2>1, <2>3 DEF Present, Tables, SetTables
  <2>5. \A u \in References : ~Delivers(work[1], u)
    BY <2>2, AtHead, NotDelivered DEF DeliverOps, Stages
  <2> QED
    BY <2>2, <2>3, <2>4, <2>5, DefinitionStep
<1> QED
  BY <1>1, <1>2

LEMMA TagUseReferences == IInv /\ TInv /\ RInv /\ EncodeTypeTagUse => RInv'
<1> SUFFICES ASSUME IInv, TInv, RInv, EncodeTypeTagUse PROVE RInv'
  OBVIOUS
<1>1. PICK x, v, front, it : /\ x = X /\ v = <<"type_tags", x>> /\ front = TypeName(X)
                             /\ it = Do("tag_def", X)
  OBVIOUS
<1>2. /\ Next1("tag_func_app") /\ "tag_func_app" \notin DeliverOps
      /\ Run(IF x \in DOMAIN enc.type_tags THEN <<>> ELSE front \o <<it>>)
      /\ enc' = Use(enc, "type_tags", x)
  BY <1>1 DEF EncodeTypeTagUse, DeliverOps, Stages
<1>3. Uses(v) /\ UseOK(v)
  BY <1>1, <1>2, UseColumns, KeyIsUse DEF Tables
<1>4. Silent(front) /\ Silent(<<it>>)
  BY <1>1, SilentTypeName, SilentDo
<1>5. Silent(front \o <<it>>)
  BY <1>4, SilentConcat
<1>6. CASE x \in DOMAIN enc.type_tags
  <2>1. Run(<<>>)
    BY <1>2, <1>6
  <2>2. Covered(v)'
    BY <1>1, <1>3, <1>6, UseFacts DEF Covered, Present
  <2> QED
    BY <1>2, <1>3, <2>1, <2>2, SilentEmpty, UseStep
<1>7. CASE x \notin DOMAIN enc.type_tags
  <2>1. Run(front \o <<it>>)
    BY <1>2, <1>7
  <2>2. it.op = "tag_def" /\ it.x = x
    BY <1>1 DEF Do
  <2>3. Delivers(it, v)'
    BY <1>1, <2>2 DEF Delivers
  <2>4. Covered(v)'
    BY <1>2, <1>4, <2>1, <2>3, DeliveredLast DEF Silent
  <2> QED
    BY <1>2, <1>3, <1>5, <2>1, <2>4, UseStep
<1> QED
  BY <1>6, <1>7

LEMMA CastUseReferences == IInv /\ TInv /\ RInv /\ EncodeCastFunctionUse => RInv'
<1> SUFFICES ASSUME IInv, TInv, RInv, EncodeCastFunctionUse PROVE RInv'
  OBVIOUS
<1>1. PICK x, v, front, it : /\ x = X /\ v = <<"type_cast_functions", x>>
                             /\ front = For("snapshot", <<X[1], X[2], X[2]>>) /\ it = Do("cast_insert", X)
  OBVIOUS
<1>2. /\ Next1("cast") /\ "cast" \notin DeliverOps
      /\ Run(IF x \in enc.type_cast_functions THEN <<>> ELSE front \o <<it>>)
      /\ enc' = Use(enc, "type_cast_functions", x)
  BY <1>1 DEF EncodeCastFunctionUse, DeliverOps, Stages
<1>3. Uses(v) /\ UseOK(v)
  BY <1>1, <1>2, UseColumns, KeyIsUse DEF Tables, SetTables
<1>4. Silent(front) /\ Silent(<<it>>)
  BY <1>1, SilentFor, SilentDo
<1>5. Silent(front \o <<it>>)
  BY <1>4, SilentConcat
<1>6. CASE x \in enc.type_cast_functions
  <2>1. Run(<<>>)
    BY <1>2, <1>6
  <2>2. enc'.type_cast_functions = enc.type_cast_functions
    BY <1>3, UseFacts DEF SetTables
  <2>3. Covered(v)'
    BY <1>1, <1>6, <2>2 DEF Covered, Present
  <2> QED
    BY <1>2, <1>3, <2>1, <2>3, SilentEmpty, UseStep
<1>7. CASE x \notin enc.type_cast_functions
  <2>1. Run(front \o <<it>>)
    BY <1>2, <1>7
  <2>2. it.op = "cast_insert" /\ it.x = x
    BY <1>1 DEF Do
  <2>3. Delivers(it, v)'
    BY <1>1, <2>2 DEF Delivers
  <2>4. Covered(v)'
    BY <1>2, <1>4, <2>1, <2>3, DeliveredLast DEF Silent
  <2> QED
    BY <1>2, <1>3, <1>5, <2>1, <2>4, UseStep
<1> QED
  BY <1>6, <1>7

LEMMA DiscriminantReferences == IInv /\ TInv /\ RInv /\ EncodeDiscriminantFunc => RInv'
<1> SUFFICES ASSUME IInv, TInv, RInv, EncodeDiscriminantFunc PROVE RInv'
  OBVIOUS
<1>1. PICK x, n, v, front, it :
        /\ x = X /\ n = Name(X) /\ v = <<"type_discriminant_funcs", n>>
        /\ front = Borrowed("snapshot_encoder", <<Do("encode_snapshot", enc.predicate_types[Name(X)])>>)
        /\ it = Do("discriminant_insert", X)
  OBVIOUS
<1>2. /\ Next1("discriminant_func") /\ "discriminant_func" \notin DeliverOps
      /\ Run(IF n \in enc.type_discriminant_funcs THEN <<>> ELSE front \o <<it>>)
      /\ enc' = Use([enc EXCEPT !.fields = @ \cup {<<"discriminant">>}], "type_discriminant_funcs", n)
  BY <1>1 DEF EncodeDiscriminantFunc, DeliverOps, Stages
<1>3. Uses(v) /\ UseOK(v)
  <2>1. Uses(v)
    BY <1>1, <1>2 DEF Use, Uses, ReferenceColumns, SetTables, RInv, TInv, Typing, Columns, Kept
  <2> QED
    BY <1>1, <2>1, KeyIsUse DEF Tables, SetTables
<1>4. Silent(front) /\ Silent(<<it>>)
  BY <1>1, SilentAround, SilentDo
<1>5. Silent(front \o <<it>>)
  BY <1>4, SilentConcat
<1>6. CASE n \in enc.type_discriminant_funcs
  <2>1. Run(<<>>)
    BY <1>2, <1>6
  <2>2. enc'.type_discriminant_funcs = enc.type_discriminant_funcs
    BY <1>3, UseFacts DEF SetTables
  <2>3. Covered(v)'
    BY <1>1, <1>6, <2>2 DEF Covered, Present
  <2> QED
    BY <1>2, <1>3, <2>1, <2>3, SilentEmpty, UseStep
<1>7. CASE n \notin enc.type_discriminant_funcs
  <2>1. Run(front \o <<it>>)
    BY <1>2, <1>7
  <2>2. it.op = "discriminant_insert" /\ it.x = x
    BY <1>1 DEF Do
  <2>3. x \in DOMAIN enc.type_predicate_names
    BY <1>1, <1>2, NameAtHead
  <2>4. enc'.type_predicate_names = enc.type_predicate_names
    BY <1>3, UseFacts
  <2>5. Named(it, n)'
    BY <1>1, <2>2, <2>3, <2>4 DEF Named, Name
  <2>6. Delivers(it, v)'
    BY <1>1, <2>2, <2>5 DEF Delivers
  <2>7. Covered(v)'
    BY <1>2, <1>4, <2>1, <2>6, DeliveredLast DEF Silent
  <2> QED
    BY <1>2, <1>3, <1>5, <2>1, <2>7, UseStep
<1> QED
  BY <1>6, <1>7

LEMMA SnapshotReferences == IInv /\ TInv /\ RInv /\ LookUpSnapshot => RInv'
<1> SUFFICES ASSUME IInv, TInv, RInv, LookUpSnapshot PROVE RInv'
  OBVIOUS
<1>1. PICK x, n, v : x = X /\ n = Name(X) /\ v = <<"encoded", n>>
  OBVIOUS
<1>2. Next1("snapshot_lookup") /\ "snapshot_lookup" \notin DeliverOps /\ UseOK(v)
  BY <1>1, KeyIsUse DEF LookUpSnapshot, DeliverOps, Stages, Tables
<1>3. CASE n \in DOMAIN enc.encoded \cup enc.in_progress
  <2>1. Run(<<>>) /\ enc' = Use(enc, "encoded", n)
    BY <1>1, <1>3 DEF LookUpSnapshot, Return
  <2>2. Uses(v)
    BY <1>1, <2>1, UseColumns
  <2>3. CASE n \in DOMAIN enc.encoded
    <3>1. Covered(v)'
      BY <1>1, <2>2, <2>3, UseFacts DEF Covered, Present
    <3> QED
      BY <1>2, <2>1, <2>2, <3>1, SilentEmpty, UseStep
  <2>4. CASE n \in enc.in_progress
    <3>1. v \in References
      BY <1>1, <2>4 DEF References
    <3> QED
      BY <1>2, <2>1, <2>2, <3>1, SilentEmpty, UseStep
  <2> QED
    BY <1>3, <2>3, <2>4
<1>4. CASE n \notin DOMAIN enc.encoded \cup enc.in_progress
  <2>1. PICK front, it : front = SnapshotParts(X) /\ it = Do("snapshot_insert", X)
    OBVIOUS
  <2>2. /\ Run(front \o <<it>>)
        /\ enc' = Use([enc EXCEPT !.in_progress = @ \cup {n}], "encoded", n)
    BY <1>1, <1>4, <2>1 DEF LookUpSnapshot
  <2>3. X \in CrateTypes
    BY <1>2, TypeAtHead DEF TypeOps
  <2>4. Silent(front) /\ Silent(<<it>>)
    BY <2>1, <2>3, FreeSnapshotParts, SilentFree, SilentDo
  <2>5. Silent(front \o <<it>>)
    BY <2>4, SilentConcat
  <2>6. /\ enc'.in_progress = enc.in_progress \cup {n} /\ enc'.uses = enc.uses \cup {v}
        /\ ReferenceColumns \subseteq DOMAIN enc' /\ enc'.reported = enc.reported
        /\ \A c \in ReferenceColumns \ {"uses", "in_progress"} : enc'[c] = enc[c]
    BY <1>1, <2>2 DEF Use, ReferenceColumns, SetTables, RInv, TInv, Typing, Columns, Kept
  <2>7. /\ enc'.type_predicates = enc.type_predicates
        /\ enc'.type_predicate_names = enc.type_predicate_names
        /\ enc'.type_invariant_names = enc.type_invariant_names
        /\ enc'.encoded = enc.encoded /\ enc'.type_tags = enc.type_tags
        /\ enc'.pure_functions = enc.pure_functions /\ enc'.queue = enc.queue
        /\ \A c \in SetTables : enc'[c] = enc[c]
    BY <2>6 DEF ReferenceColumns, SetTables
  <2>8. Grows
    <3>1. \A f : Queued(f) => Queued(f)'
      BY <2>7 DEF Queued
    <3> QED
      BY <2>6, <2>7, <3>1 DEF Grows
  <2>9. References' \subseteq References \cup {v}
    <3>1. InBodies' = InBodies
      BY <2>7 DEF InBodies
    <3> QED
      BY <1>1, <2>6, <2>7, <3>1 DEF References, Name
  <2>10. Covered(v)'
    <3>1. it.op = "snapshot_insert" /\ it.x = x
      BY <1>1, <2>1 DEF Do
    <3>2. x \in DOMAIN enc.type_predicate_names
      BY <1>1, <1>2, NameAtHead
    <3>3. Named(it, n)'
      BY <1>1, <2>7, <3>1, <3>2 DEF Named, Name
    <3>4. Delivers(it, v)'
      BY <1>1, <3>1, <3>3 DEF Delivers
    <3> QED
      BY <1>2, <2>2, <2>4, <3>4, DeliveredLast DEF Silent
  <2>11. \A u \in References : ~Delivers(work[1], u)
    BY <1>2, AtHead, NotDelivered
  <2> QED
    BY <1>2, <2>2, <2>5, <2>6, <2>8, <2>9, <2>10, <2>11, TableStep
<1> QED
  BY <1>3, <1>4

LEMMA SnapshotInsertReferences == IInv /\ TInv /\ RInv /\ InsertSnapshot => RInv'
<1> SUFFICES ASSUME IInv, TInv, RInv, InsertSnapshot PROVE RInv'
  OBVIOUS
<1>1. PICK n, v, k : n = Name(X) /\ v = <<"encoded", n>> /\ k = SnapshotKind(X)
  OBVIOUS
<1>2. /\ Next1("snapshot_insert") /\ Run(<<>>)
      /\ enc' = [enc EXCEPT !.in_progress = @ \ {n}, !.encoded = Put(@, n, k)]
  BY <1>1 DEF InsertSnapshot, Return
<1>3. /\ enc'.in_progress = enc.in_progress \ {n} /\ enc'.encoded = Put(enc.encoded, n, k)
      /\ ReferenceColumns \subseteq DOMAIN enc' /\ enc'.reported = enc.reported
      /\ \A c \in ReferenceColumns \ {"encoded", "in_progress"} : enc'[c] = enc[c]
  BY <1>2 DEF ReferenceColumns, SetTables, RInv, TInv, Typing, Columns, Kept
<1>4. /\ enc'.uses = enc.uses /\ enc'.type_predicates = enc.type_predicates
      /\ enc'.type_predicate_names = enc.type_predicate_names
      /\ enc'.type_invariant_names = enc.type_invariant_names /\ enc'.type_tags = enc.type_tags
      /\ enc'.pure_functions = enc.pure_functions /\ enc'.queue = enc.queue
      /\ \A c \in SetTables : enc'[c] = enc[c]
  BY <1>3 DEF ReferenceColumns, SetTables
<1>5. DOMAIN enc'.encoded = DOMAIN enc.encoded \cup {n}
  BY <1>3 DEF Put
<1>6. Grows
  <2>1. \A f : Queued(f) => Queued(f)'
    BY <1>4 DEF Queued
  <2> QED
    BY <1>3, <1>4, <1>5, <2>1 DEF Grows
<1>7. References' \subseteq References \cup {v}
  <2>1. InBodies' = InBodies
    BY <1>4 DEF InBodies
  <2> QED
    BY <1>3, <1>4, <2>1 DEF References, Name
<1>8. \A u : u[1] = "encoded" /\ u[2] = n => Covered(u)'
  BY <1>5 DEF Covered, Present
<1>9. v[1] = "encoded" /\ v[2] = n /\ UseOK(v)
  BY <1>1, KeyIsUse DEF Tables
<1>10. work[1].op = "snapshot_insert" /\ work[1].x = X
  BY <1>2, AtHead
<1>11. \A u \in References : Delivers(work[1], u) => u[1] = "encoded" /\ u[2] = n
  BY <1>1, <1>10, TypeDelivered DEF Named
<1> QED
  BY <1>2, <1>4, <1>6, <1>7, <1>8, <1>9, <1>11, SilentEmpty, TableStep

-------------------------------------------------------------------------------
(* Pure functions and the references *)

\* The stages of a definition deliver their function.
LEMMA FunctionDelivered ==
  ASSUME RInv, NEW it, it.op \in Stages \cup {"pure_function_def"}, NEW u \in References, Delivers(it, u)
  PROVE  /\ u[1] = "functions" /\ u[2] \in DOMAIN Fns /\ Fns[u[2]].pure
         /\ it.op \in Stages => it.x = u[2]
         /\ it.op = "pure_function_def" => it.x[1] = u[2]
<1>1. u[1] \in Tables /\ (u[1] = "functions" => u[2] \in DOMAIN Fns /\ Fns[u[2]].pure)
  BY ReferenceFacts
<1>2. CASE u[1] = "functions"
  BY <1>1, <1>2 DEF Delivers, IsPending, Stages
<1>3. CASE u[1] # "functions"
  BY <1>1, <1>3 DEF Delivers, Stages
<1> QED
  BY <1>2, <1>3

LEMMA FunctionDelivers ==
  ASSUME NEW it, NEW u, u[1] = "functions", Fns[u[2]].pure, it.op \in Stages, it.x = u[2]
  PROVE  Delivers(it, u)'
BY DEF Delivers, IsPending, Stages

\* A step that only replaces the stage of a definition.
LEMMA StageReferences ==
  ASSUME IInv, RInv, NEW op, Next1(op), NEW items, Silent(items), Run(items), ReferencesSame,
         Encoding => \A u \in References : Delivers(work[1], u) => Covered(u)'
  PROVE  RInv'
<1>1. work # <<>> /\ IsSeq(work)
  BY AtHead
<1>2. Encoding => Followed(items \o Tail(work))
  BY <1>1, FollowedStep DEF RInv
<1>3. Grows /\ References' = References /\ enc'.uses = enc.uses
  BY SameReferences, SameFacts
<1> QED
  BY <1>2, <1>3, ReferenceStep DEF Silent

\* One of the steps to come delivers v.
LEMMA DeliveredItem ==
  ASSUME IInv, NEW op, Next1(op), NEW items, IsSeq(items), Run(items), NEW i \in 1 .. Len(items),
         NEW it, it = items[i], NEW v, Delivers(it, v)'
  PROVE  Covered(v)'
<1>1. work # <<>> /\ IsSeq(work)
  BY AtHead
<1>2. work' = items \o Tail(work)
  BY DEF Run
<1>3. PICK w : w = work'
  OBVIOUS
<1>4. i \in 1 .. Len(w) /\ w[i] = it
  <2>1. Replaced(work, items, w)
    BY <1>1, <1>2, <1>3, Shifted
  <2> QED
    BY <2>1 DEF Replaced
<1> QED
  BY <1>3, <1>4 DEF Covered

LEMMA DefinitionReferences == IInv /\ TInv /\ RInv /\ EncodePureFunctionDef => RInv'
<1> SUFFICES ASSUME IInv, TInv, RInv, EncodePureFunctionDef PROVE RInv'
  OBVIOUS
<1>1. Next1("pure_function_def") /\ UNCHANGED enc
  BY DEF EncodePureFunctionDef
<1>2. PICK f, push, key, pop : /\ f = X[1] /\ push = Do("push_tymap", X[2])
                               /\ key = Do("pure_function_key", f) /\ pop = Do("pop_tymap", 0)
  OBVIOUS
<1>3. work[1].op = "pure_function_def" /\ X = work[1].x /\ Len(work) \in Nat /\ Len(work) > 0
  BY <1>1, AtHead
<1>4. PICK items : items = WithTymap(X[2], <<key>>)
  OBVIOUS
<1>5. Run(items)
  <2>1. 1 \in 1 .. Len(work)
    BY <1>3
  <2>2. enc.typaram_repl = <<>>
    BY <1>3, <2>1 DEF IInv, Stack
  <2> QED
    BY <1>2, <1>4, <2>2 DEF EncodePureFunctionDef
<1>6. Silent(items)
  BY <1>2, <1>4, SilentDo, SilentAround
<1>7. 2 \in 1 .. Len(items) /\ items[2] = key
  <2>1. PICK a, b, c, ab : a = <<push>> /\ b = <<key>> /\ c = <<pop>> /\ ab = a \o b
    OBVIOUS
  <2>2. IsSeq(a) /\ IsSeq(b) /\ IsSeq(c) /\ Len(a) = 1 /\ Len(b) = 1 /\ Len(c) = 1 /\ b[1] = key
    BY <2>1, SingletonFacts
  <2>3. IsSeq(ab) /\ Len(ab) = Len(a) + Len(b) /\ \A i \in 1 .. Len(b) : ab[Len(a) + i] = b[i]
    BY <2>1, <2>2, ConcatFacts
  <2>4. Len(ab) = 2 /\ ab[1 + 1] = key
    BY <2>2, <2>3
  <2>5. Len(ab \o c) = Len(ab) + Len(c) /\ \A i \in 1 .. Len(ab) : (ab \o c)[i] = ab[i]
    BY <2>2, <2>3, ConcatFacts
  <2>6. items = ab \o c
    BY <1>2, <1>4, <2>1 DEF WithTymap
  <2>7. Len(ab \o c) = 3 /\ (ab \o c)[2] = ab[2]
    BY <2>2, <2>4, <2>5
  <2> QED
    BY <2>4, <2>6, <2>7
<1>8. key.op = "pure_function_key" /\ key.x = f /\ key.op \in Stages
  BY <1>2 DEF Do, Stages
<1>9. ASSUME NEW u \in References, Delivers(work[1], u) PROVE Covered(u)'
  <2>1. u[1] = "functions" /\ Fns[u[2]].pure /\ u[2] = f
    BY <1>2, <1>3, <1>9, FunctionDelivered
  <2>2. Delivers(key, u)'
    BY <1>8, <2>1, FunctionDelivers
  <2> QED
    BY <1>1, <1>5, <1>6, <1>7, <2>2, DeliveredItem DEF Silent
<1> QED
  BY <1>1, <1>5, <1>6, <1>9, UnchangedReferences, StageReferences

LEMMA KeyReferences == IInv /\ TInv /\ RInv /\ SubstituteForKey => RInv'
<1> SUFFICES ASSUME IInv, TInv, RInv, SubstituteForKey PROVE RInv'
  OBVIOUS
<1>1. PICK f, front, it : f = X /\ front = SubstitutionNames /\ it = Do("pure_function_lookup", f)
  OBVIOUS
<1>2. Next1("pure_function_key") /\ UNCHANGED enc /\ Run(front \o <<it>>)
  BY <1>1 DEF SubstituteForKey
<1>3. work[1].op = "pure_function_key" /\ work[1].x = f /\ work[1].op \in Stages
  BY <1>1, <1>2, AtHead DEF Stages
<1>4. Silent(front) /\ Silent(<<it>>)
  BY <1>1, SilentFor, SilentDo DEF SubstitutionNames
<1>5. Silent(front \o <<it>>)
  BY <1>4, SilentConcat
<1>6. it.op \in Stages /\ it.x = f
  BY <1>1 DEF Do, Stages
<1>7. ASSUME NEW u \in References, Delivers(work[1], u) PROVE Covered(u)'
  <2>1. u[1] = "functions" /\ Fns[u[2]].pure /\ u[2] = f
    BY <1>3, <1>7, FunctionDelivered
  <2>2. Delivers(it, u)'
    BY <1>6, <2>1, FunctionDelivers
  <2> QED
    BY <1>2, <1>4, <2>2, DeliveredLast DEF Silent
<1> QED
  BY <1>2, <1>5, <1>7, UnchangedReferences, StageReferences

(***************************************************************************)
(* A function that is found among the failed ones is being encoded further *)
(* up the stack, or has another instantiation, as long as nothing failed.  *)
(***************************************************************************)
LEMMA LookupReferences == IInv /\ TInv /\ RInv /\ LookUpPureFunction => RInv'
<1> SUFFICES ASSUME IInv, TInv, RInv, LookUpPureFunction PROVE RInv'
  OBVIOUS
<1>1. PICK f, front, it, k : /\ f = X /\ front = PureFunctionParts(X) \o Patch(X)
                             /\ it = Do("pure_function_insert", X) /\ k = Key(X)
  OBVIOUS
<1>2. Next1("pure_function_lookup") /\ k[1] = f
  BY <1>1 DEF LookUpPureFunction, Key
<1>3. /\ phase = "encode" /\ work # <<>> /\ IsSeq(work) /\ Len(work) \in Nat
      /\ work[1].op = "pure_function_lookup" /\ work[1].x = f /\ work[1].op \in Stages
      /\ X = work[1].x
  BY <1>1, <1>2, AtHead DEF Stages
<1>4. \A u \in References : Delivers(work[1], u) => u[1] = "functions" /\ Fns[u[2]].pure /\ u[2] = f
  BY <1>3, FunctionDelivered
<1>5. CASE k \in enc.pure_functions \cup enc.failed_pure_functions
  <2>1. Run(<<>>) /\ UNCHANGED enc
    BY <1>1, <1>5 DEF LookUpPureFunction, Return
  <2>2. ASSUME Encoding, NEW u \in References, Delivers(work[1], u) PROVE Covered(u)'
    <3>1. u[1] = "functions" /\ Fns[u[2]].pure /\ u[2] = f
      BY <1>4, <2>2
    <3>2. CASE HasPure(f)
      BY <2>1, <3>1, <3>2 DEF Covered, Present, HasPure
    <3>3. CASE ~HasPure(f)
      <4>1. k \in enc.failed_pure_functions
        BY <1>2, <1>5, <3>3 DEF HasPure
      <4>2. Accounted
        BY <1>3, <2>2 DEF IInv, NothingFailed, Encoding
      <4>3. PICK i \in 1 .. Len(work) : work[i].op = "pure_function_insert" /\ work[i].x = f
        BY <1>2, <3>3, <4>1, <4>2 DEF Accounted
      <4>4. i \in 2 .. Len(work)
        BY <1>3, <4>3
      <4>5. PICK e, w : e = work[i] /\ w = work'
        OBVIOUS
      <4>6. Replaced(work, <<>>, w)
        BY <1>3, <2>1, <4>5, EmptyFacts, Shifted DEF Run
      <4>7. PICK j \in 1 .. Len(w) : w[j] = e
        BY <4>4, <4>5, <4>6 DEF Replaced
      <4>8. e.op \in Stages /\ e.x = u[2]
        BY <3>1, <4>3, <4>5 DEF Stages
      <4>9. Delivers(e, u)'
        BY <3>1, <4>8, FunctionDelivers
      <4> QED
        BY <4>5, <4>7, <4>9 DEF Covered
    <3> QED
      BY <3>2, <3>3
  <2> QED
    BY <1>2, <2>1, <2>2, SilentEmpty, UnchangedReferences, StageReferences
<1>6. CASE k \notin enc.pure_functions \cup enc.failed_pure_functions
  <2>1. Run(front \o <<it>>) /\ enc' = [enc EXCEPT !.failed_pure_functions = @ \cup {k}]
    BY <1>1, <1>6 DEF LookUpPureFunction
  <2>2. X \in DOMAIN Fns /\ CurrentMap \in CrateMaps
    BY <1>2, StageAtHead, CurrentMapFacts DEF TInv, Stages
  <2>3. front \in Seq(FreeItems)
    BY <1>1, <2>2, FreePureFunction, FreePatch
  <2>4. Silent(front) /\ Silent(<<it>>)
    BY <1>1, <2>3, SilentFree, SilentDo
  <2>5. Silent(front \o <<it>>)
    BY <2>4, SilentConcat
  <2>6. ReferencesSame
    BY <2>1 DEF ReferencesSame, ReferenceColumns, SetTables, RInv, TInv, Typing, Columns, Kept
  <2>7. it.op \in Stages /\ it.x = f
    BY <1>1 DEF Do, Stages
  <2>8. ASSUME NEW u \in References, Delivers(work[1], u) PROVE Covered(u)'
    <3>1. u[1] = "functions" /\ Fns[u[2]].pure /\ u[2] = f
      BY <1>4, <2>8
    <3>2. Delivers(it, u)'
      BY <2>7, <3>1, FunctionDelivers
    <3> QED
      BY <1>2, <2>1, <2>4, <3>2, DeliveredLast DEF Silent
  <2> QED
    BY <1>2, <2>1, <2>5, <2>6, <2>8, StageReferences
<1> QED
  BY <1>5, <1>6

LEMMA InsertReferences == IInv /\ TInv /\ RInv /\ InsertPureFunction => RInv'
<1> SUFFICES ASSUME IInv, TInv, RInv, InsertPureFunction PROVE RInv'
  OBVIOUS
<1>1. PICK f, k : f = X /\ k = Key(X)
  OBVIOUS
<1>2. /\ Next1("pure_function_insert") /\ Run(<<>>) /\ k[1] = f
      /\ enc' = [enc EXCEPT !.failed_pure_functions = @ \ {k}, !.pure_functions = @ \cup {k}]
  BY <1>1 DEF InsertPureFunction, Return, Key
<1>3. work[1].op \in Stages /\ work[1].x = f /\ work # <<>> /\ IsSeq(work)
  BY <1>1, <1>2, AtHead DEF Stages
<1>4. /\ ReferenceColumns \subseteq DOMAIN enc' /\ enc'.reported = enc.reported
      /\ enc'.pure_functions = enc.pure_functions \cup {k}
      /\ \A c \in ReferenceColumns \ {"pure_functions"} : enc'[c] = enc[c]
  BY <1>2 DEF ReferenceColumns, SetTables, RInv, TInv, Typing, Columns, Kept
<1>5. /\ enc'.uses = enc.uses /\ enc'.type_predicate_names = enc.type_predicate_names
      /\ enc'.type_predicates = enc.type_predicates
      /\ enc'.type_invariant_names = enc.type_invariant_names /\ enc'.in_progress = enc.in_progress
      /\ enc'.encoded = enc.encoded /\ enc'.type_tags = enc.type_tags /\ enc'.queue = enc.queue
      /\ \A c \in SetTables : enc'[c] = enc[c]
  BY <1>4 DEF ReferenceColumns, SetTables
<1>6. References' = References
  <2>1. InBodies' = InBodies
    BY <1>5 DEF InBodies
  <2> QED
    BY <1>5, <2>1 DEF References, Name
<1>7. Grows
  <2>1. \A g : Queued(g) => Queued(g)'
    BY <1>5 DEF Queued
  <2> QED
    BY <1>4, <1>5, <2>1 DEF Grows
<1>8. ASSUME NEW u \in References, Delivers(work[1], u) PROVE Covered(u)'
  <2>1. u[1] = "functions" /\ u[2] = f
    BY <1>3, <1>8, FunctionDelivered
  <2>2. HasPure(f)'
    BY <1>2, <1>4 DEF HasPure
  <2> QED
    BY <2>1, <2>2 DEF Covered, Present
<1>9. Encoding => Followed(<<>> \o Tail(work))
  BY <1>3, SilentEmpty, FollowedStep DEF RInv
<1> QED
  BY <1>2, <1>5, <1>6, <1>7, <1>8, <1>9, EmptyFacts, ReferenceStep

LEMMA CalleeReferences == IInv /\ TInv /\ RInv /\ EncodePureFunctionUse => RInv'
<1> SUFFICES ASSUME IInv, TInv, RInv, EncodePureFunctionUse PROVE RInv'
  OBVIOUS
<1>1. PICK f, item, v, items, q :
        /\ f = X /\ item = <<X, CurrentMap>> /\ v = <<"functions", f>>
        /\ items = <<Do("item_name", X), Do("return_type", X)>> /\ q = enc.queue
  OBVIOUS
<1>2. /\ Next1("pure_function_use") /\ "pure_function_use" \notin DeliverOps /\ Run(items)
      /\ enc' = Use([enc EXCEPT !.queue = Append(@, item)], "functions", f)
  BY <1>1 DEF EncodePureFunctionUse, DeliverOps, Stages
<1>3. work[1].op = "pure_function_use" /\ X = work[1].x /\ ItemOK(work[1])
  BY <1>2, AtHead
<1>4. f \in DOMAIN Fns /\ Fns[f].pure
  BY <1>1, <1>3 DEF ItemOK
<1>5. UseOK(v) /\ Silent(items) /\ item[1] = f
  BY <1>1, <1>4, SilentPair DEF UseOK, Tables
<1>6. /\ ReferenceColumns \subseteq DOMAIN enc' /\ enc'.reported = enc.reported
      /\ enc'.queue = Append(q, item) /\ enc'.uses = enc.uses \cup {v}
      /\ \A c \in ReferenceColumns \ {"queue", "uses"} : enc'[c] = enc[c]
  BY <1>1, <1>2 DEF Use, ReferenceColumns, SetTables, RInv, TInv, Typing, Columns, Kept
<1>7. /\ enc'.type_predicate_names = enc.type_predicate_names
      /\ enc'.type_predicates = enc.type_predicates
      /\ enc'.type_invariant_names = enc.type_invariant_names /\ enc'.in_progress = enc.in_progress
      /\ enc'.encoded = enc.encoded /\ enc'.type_tags = enc.type_tags
      /\ enc'.pure_functions = enc.pure_functions /\ \A c \in SetTables : enc'[c] = enc[c]
  BY <1>6 DEF ReferenceColumns, SetTables
<1>8. PICK r : r = Append(q, item)
  OBVIOUS
<1>9. /\ Len(q) \in Nat /\ Len(r) = Len(q) + 1 /\ r[Len(q) + 1] = item
      /\ \A i \in 1 .. Len(q) : r[i] = q[i]
  <2>1. IsSeq(q)
    BY <1>1 DEF IInv, QueueOK
  <2> QED
    BY <1>8, <2>1, SeqFacts, AppendFacts
<1>10. enc'.queue = r /\ enc.queue = q
  BY <1>1, <1>6, <1>8
<1>11. Queued(f)' /\ \A g : Queued(g) => Queued(g)'
  <2>1. Len(q) + 1 \in 1 .. Len(r) /\ \A i \in 1 .. Len(q) : i \in 1 .. Len(r)
    BY <1>9
  <2> QED
    BY <1>5, <1>9, <1>10, <2>1 DEF Queued
<1>12. Grows
  BY <1>6, <1>7, <1>11 DEF Grows
<1>13. References' = References \cup {v}
  <2>1. InBodies' = InBodies
    BY <1>7 DEF InBodies
  <2> QED
    BY <1>6, <1>7, <2>1 DEF References, Name
<1>14. Covered(v)'
  BY <1>1, <1>11 DEF Covered, Present
<1>15. \A u \in References : ~Delivers(work[1], u)
  BY <1>2, <1>3, NotDelivered
<1> QED
  BY <1>2, <1>5, <1>6, <1>12, <1>13, <1>14, <1>15, TableStep

-------------------------------------------------------------------------------
(* The queue, the driver and the references *)

\* Without work, what is referred to is there or queued.
LEMMA IdlePresent ==
  ASSUME RInv, Encoding, work = <<>>, NEW u \in References PROVE Present(u)
<1>1. Len(work) = 0
  BY EmptyFacts
<1> QED
  BY <1>1 DEF RInv, Covered

LEMMA FailReferences == IInv /\ TInv /\ RInv /\ Fail => RInv'
<1> SUFFICES ASSUME IInv, TInv, RInv, Fail PROVE RInv'
  OBVIOUS
<1> DEFINE h == CHOOSE i \in DOMAIN work :
                  work[i].op \in Handlers /\ \A j \in 1 .. i - 1 : work[j].op \notin Handlers
           dropped == SubSeq(work, 1, h - 1)
           Places(op) == {i \in DOMAIN dropped : dropped[i].op = op}
           Dropped(op) == {dropped[i].x : i \in Places(op)}
           tokens == Cardinality(Places("pop_tymap"))
           left == [enc EXCEPT
                      !.held = @ \ Dropped("release"),
                      !.in_progress = @ \ {enc.type_predicate_names[t] : t \in Dropped("snapshot_insert")},
                      !.typaram_repl = SubSeq(@, 1, Len(@) - tokens)]
<1>1. enc' = Emit(left, X) /\ phase' = phase /\ phase = "encode"
  BY DEF Fail, Unwind, Next1
<1> HIDE DEF tokens, Dropped
<1>2. ReferenceColumns \subseteq DOMAIN left /\ left.uses = enc.uses
  BY DEF RInv, ReferenceColumns
<1> HIDE DEF left
<1>3. PICK l, e : l = left /\ e = [of |-> left.current_proc, kind |-> X, error |-> IsError(X)]
  OBVIOUS
<1>4. enc' = [l EXCEPT !.reported = Append(@, e)]
  BY <1>1, <1>3 DEF Emit
<1>5. ReferenceColumns \subseteq DOMAIN enc' /\ enc'.uses = enc.uses
  BY <1>2, <1>3, <1>4 DEF ReferenceColumns
<1>6. PICK d : enc'.reported = Append(enc.reported, d)
  BY FailColumns
<1>7. PICK r, s : r = enc.reported /\ s = Append(r, d)
  OBVIOUS
<1>8. IsSeq(r)
  BY <1>1, <1>7 DEF IInv, ReportsOK
<1>9. Len(s) = Len(r) + 1 /\ Len(r) \in Nat
  BY <1>7, <1>8, SeqFacts, AppendFacts
<1>10. s # <<>>
  BY <1>9, EmptyFacts
<1>11. ~Encoding'
  BY <1>6, <1>7, <1>10 DEF Encoding
<1> QED
  BY <1>1, <1>5, <1>11 DEF RInv, UseOK

LEMMA InitializeReferences == IInv /\ TInv /\ RInv /\ Initialize => RInv'
<1> SUFFICES ASSUME IInv, TInv, RInv, Initialize PROVE RInv'
  OBVIOUS
<1>1. /\ phase = "queue" /\ phase' = "encode" /\ work = <<>> /\ work' = <<>>
      /\ enc' = [enc EXCEPT !.builtin_methods = {"HavocBool", "HavocInt", "HavocRef"}]
  BY DEF Initialize, IInv
<1>2. /\ ReferenceColumns \subseteq DOMAIN enc' /\ enc'.reported = enc.reported
      /\ \A c \in ReferenceColumns \ {"builtin_methods"} : enc'[c] = enc[c]
  BY <1>1 DEF ReferenceColumns, SetTables, RInv, TInv, Typing, Columns, Kept
<1>3. /\ enc'.uses = enc.uses /\ enc'.type_predicate_names = enc.type_predicate_names
      /\ enc'.type_predicates = enc.type_predicates /\ enc'.type_invariants = enc.type_invariants
      /\ enc'.type_invariant_names = enc.type_invariant_names /\ enc'.in_progress = enc.in_progress
      /\ enc'.encoded = enc.encoded
  BY <1>2 DEF ReferenceColumns, SetTables
<1>4. References' = References
  <2>1. InBodies' = InBodies
    BY <1>3 DEF InBodies
  <2> QED
    BY <1>3, <2>1 DEF References, Name
<1>5. enc.uses = {}
  BY <1>1 DEF RInv
<1>6. ASSUME Encoding', NEW u \in References PROVE Covered(u)'
  <2>1. Encoding
    BY <1>1, <1>2, <1>6 DEF Encoding
  <2>2. Present(u)
    BY <1>1, <2>1, IdlePresent
  <2>3. u[1] \in {"type_predicates", "encoded", "type_invariants"}
    BY <1>5 DEF References
  <2>4. Present(u)'
    BY <1>3, <2>2, <2>3 DEF Present
  <2> QED
    BY <2>4 DEF Covered
<1>7. Followed(work)'
  BY <1>1, EmptyFacts DEF Followed
<1> QED
  BY <1>1, <1>2, <1>4, <1>5, <1>3, <1>6, <1>7 DEF RInv

\* When a function leaves the queue, the step that defines it is the next one.
LEMMA QueueReferences == IInv /\ TInv /\ RInv /\ PopQueue => RInv'
<1> SUFFICES ASSUME IInv, TInv, RInv, PopQueue PROVE RInv'
  OBVIOUS
<1>0. PICK q, n : q = enc.queue /\ n = Len(q)
  OBVIOUS
<1>1. phase = "encode" /\ work = <<>> /\ q # <<>>
  BY <1>0 DEF PopQueue
<1>2. /\ IsSeq(q) /\ n \in Nat /\ n > 0
      /\ \A i \in 1 .. n : q[i][1] \in DOMAIN Fns /\ (Fns[q[i][1]].pure \/ q[i][2] = <<>>)
  <2>1. IsSeq(q) /\ \A i \in 1 .. Len(q) : q[i][1] \in DOMAIN Fns /\ (Fns[q[i][1]].pure \/ q[i][2] = <<>>)
    BY <1>0 DEF IInv, QueueOK
  <2> QED
    BY <1>0, <1>1, <2>1, SeqFacts, TailFacts
<1>3. PICK f, substs : f = q[n][1] /\ substs = q[n][2]
  OBVIOUS
<1>4. f \in DOMAIN Fns /\ (Fns[f].pure \/ substs = <<>>)
  <2>1. n \in 1 .. n
    BY <1>2
  <2> QED
    BY <1>2, <1>3, <2>1
<1>5. PICK a, b, d : /\ a = Do("pure_function_def", <<f, substs>>) /\ b = Do("procedure", f)
                     /\ d = Do("queue_done", f)
  OBVIOUS
<1>6. PICK p : p = IF Fns[f].pure THEN <<a>> ELSE IF Fns[f].trusted THEN <<>> ELSE <<b>>
  OBVIOUS
<1>7. /\ enc' = [enc EXCEPT !.queue = Front(@), !.current_proc = f]
      /\ phase' = phase /\ work' = p \o <<d>>
  <2>1. Last(enc.queue)[1] = f /\ Last(enc.queue)[2] = substs
    BY <1>0, <1>3 DEF Last
  <2> QED
    BY <1>4, <1>5, <1>6, <2>1 DEF PopQueue
<1>8. PICK w : w = p \o <<d>>
  OBVIOUS
<1>9. Silent(w)
  <2>1. Silent(<<a>>) /\ Silent(<<b>>) /\ Silent(<<d>>)
    BY <1>5, SilentDo
  <2>2. Silent(p)
    BY <1>6, <2>1, SilentEmpty
  <2> QED
    BY <1>8, <2>1, <2>2, SilentConcat
<1>10. Fns[f].pure => 1 \in 1 .. Len(w) /\ w[1] = a
  <2> SUFFICES ASSUME Fns[f].pure PROVE 1 \in 1 .. Len(w) /\ w[1] = a
    OBVIOUS
  <2>1. p = <<a>>
    BY <1>6
  <2>2. PICK s, t : s = <<a>> /\ t = <<d>>
    OBVIOUS
  <2>3. IsSeq(s) /\ IsSeq(t) /\ Len(s) = 1 /\ Len(t) = 1 /\ s[1] = a
    BY <2>2, SingletonFacts
  <2>4. w = s \o t
    BY <1>8, <2>1, <2>2
  <2>5. Len(w) = Len(s) + Len(t) /\ \A i \in 1 .. Len(s) : w[i] = s[i]
    <3>1. IsSeq(s) /\ IsSeq(t)
      BY <2>3
    <3>2. Len(s \o t) = Len(s) + Len(t) /\ \A i \in 1 .. Len(s) : (s \o t)[i] = s[i]
      BY <3>1, ConcatFacts
    <3> QED
      BY <2>4, <3>2
  <2> QED
    BY <2>3, <2>5
<1>11. /\ ReferenceColumns \subseteq DOMAIN enc' /\ enc'.reported = enc.reported /\ enc'.queue = Front(q)
       /\ \A c \in ReferenceColumns \ {"queue"} : enc'[c] = enc[c]
  BY <1>0, <1>7 DEF ReferenceColumns, SetTables, RInv, TInv, Typing, Columns, Kept
<1>12. /\ enc'.uses = enc.uses /\ enc'.type_predicate_names = enc.type_predicate_names
       /\ enc'.type_predicates = enc.type_predicates
       /\ enc'.type_invariant_names = enc.type_invariant_names /\ enc'.in_progress = enc.in_progress
       /\ enc'.encoded = enc.encoded /\ enc'.type_tags = enc.type_tags
       /\ enc'.pure_functions = enc.pure_functions /\ \A c \in SetTables : enc'[c] = enc[c]
  BY <1>11 DEF ReferenceColumns, SetTables
<1>13. References' = References
  <2>1. InBodies' = InBodies
    BY <1>12 DEF InBodies
  <2> QED
    BY <1>12, <2>1 DEF References, Name
<1>14. \A g : Queued(g) => Queued(g)' \/ g = f
  <2>1. PICK r : r = SubSeq(q, 1, n - 1)
    OBVIOUS
  <2>2. enc'.queue = r /\ enc.queue = q
    BY <1>0, <1>11, <2>1 DEF Front
  <2>3. PICK S : q \in Seq(S)
    BY <1>2 DEF IsSeq
  <2>4. Len(r) = n - 1 /\ \A i \in 1 .. n - 1 : r[i] = q[i]
    BY <1>0, <1>2, <2>1, <2>3
  <2> SUFFICES ASSUME NEW g, NEW i \in 1 .. n, q[i][1] = g, g # f PROVE Queued(g)'
    BY <1>0, <2>2 DEF Queued
  <2>5. i \in 1 .. n - 1
    BY <1>2, <1>3
  <2>6. i \in 1 .. Len(r) /\ r[i][1] = g
    BY <2>4, <2>5
  <2> QED
    BY <2>2, <2>6 DEF Queued
<1>15. ASSUME Encoding, NEW u \in References PROVE Covered(u)'
  <2>1. Present(u) /\ u[1] \in Tables /\ (u[1] = "functions" => u[2] \in DOMAIN Fns /\ Fns[u[2]].pure)
    BY <1>1, <1>15, IdlePresent, ReferenceFacts
  <2>2. CASE u[1] = "type_predicates"
    BY <1>12, <2>1, <2>2 DEF Covered, Present
  <2>3. CASE u[1] = "encoded"
    BY <1>12, <2>1, <2>3 DEF Covered, Present
  <2>4. CASE u[1] = "type_tags"
    BY <1>12, <2>1, <2>4 DEF Covered, Present
  <2>5. CASE u[1] = "functions"
    <3>1. CASE HasPure(u[2]) \/ Queued(u[2])'
      BY <1>12, <2>5, <3>1 DEF Covered, Present, HasPure
    <3>2. CASE u[2] = f
      <4>1. a.op = "pure_function_def" /\ a.x[1] = f
        BY <1>5 DEF Do
      <4>2. Delivers(a, u)'
        BY <2>1, <2>5, <3>2, <4>1 DEF Delivers, IsPending
      <4>3. work' = w
        BY <1>7, <1>8
      <4> QED
        BY <1>10, <2>1, <2>5, <3>2, <4>2, <4>3 DEF Covered
    <3>3. HasPure(u[2]) \/ Queued(u[2])
      BY <2>1, <2>5 DEF Present
    <3> QED
      BY <1>14, <3>1, <3>2, <3>3
  <2>6. CASE u[1] \in SetTables
    <3>1. u[2] \in enc[u[1]] /\ enc'[u[1]] = enc[u[1]]
      BY <1>12, <2>1, <2>6 DEF Present, SetTables
    <3> QED
      BY <2>6, <3>1 DEF Covered, Present, SetTables
  <2> QED
    BY <2>1, <2>2, <2>3, <2>4, <2>5, <2>6 DEF Tables
<1>16. Encoding' => Encoding
  BY <1>1, <1>11 DEF Encoding
<1>17. Followed(work)'
  <2>1. work' = w /\ \A i \in 1 .. Len(w) : w[i].op # "predicate_name"
    BY <1>7, <1>8, <1>9 DEF Silent
  <2> QED
    BY <2>1 DEF Followed
<1>18. phase' # "queue"
  BY <1>1, <1>7
<1> QED
  BY <1>11, <1>12, <1>13, <1>15, <1>16, <1>17, <1>18 DEF RInv, UseOK

LEMMA EmptyQueueReferences == IInv /\ TInv /\ RInv /\ QueueIsEmpty => RInv'
<1> SUFFICES ASSUME IInv, TInv, RInv, QueueIsEmpty PROVE RInv'
  OBVIOUS
<1>1. phase = "encode" /\ work = <<>> /\ phase' = "verify" /\ enc' = enc /\ work' = work
  BY DEF QueueIsEmpty
<1>2. ReferencesSame
  BY <1>1, UnchangedReferences
<1>3. Grows /\ References' = References
  BY <1>2, SameReferences
<1>4. Encoding' => Encoding
  BY <1>1 DEF Encoding
<1>5. ASSUME Encoding, NEW u \in References PROVE Covered(u)'
  <2>1. Present(u) /\ u[1] \in Tables
    BY <1>1, <1>5, IdlePresent, ReferenceFacts
  <2> QED
    BY <1>3, <2>1, PresentKept DEF Covered
<1>6. Followed(work)'
  BY <1>1, EmptyFacts DEF Followed
<1> QED
  BY <1>1, <1>3, <1>4, <1>5, <1>6 DEF RInv, UseOK

LEMMA VerifyReferences == IInv /\ TInv /\ RInv /\ Verify => RInv'
<1> SUFFICES ASSUME IInv, TInv, RInv, Verify PROVE RInv'
  OBVIOUS
<1>1. phase' \in {"Success", "Failure"}
  BY DEF Verify, Verdict
<1>2. PICK more : enc' = [enc EXCEPT !.reported = more]
  BY DEF Verify, Verdict, Emit
<1>3. ReferenceColumns \subseteq DOMAIN enc' /\ enc'.uses = enc.uses
  BY <1>2 DEF RInv, ReferenceColumns
<1> QED
  BY <1>1, <1>3 DEF RInv, UseOK, Encoding

LEMMA StutterReferences == IInv /\ RInv /\ UNCHANGED vars => RInv'
<1> SUFFICES ASSUME IInv, RInv, UNCHANGED vars PROVE RInv'
  OBVIOUS
<1>1. enc' = enc /\ work' = work /\ phase' = phase
  BY DEF vars
<1>2. Grows /\ References' = References
  BY <1>1, UnchangedReferences, SameReferences
<1>3. ASSUME Encoding, NEW u \in References PROVE Covered(u)'
  <2>1. u[1] \in Tables /\ Covered(u)
    BY <1>3, ReferenceFacts DEF RInv
  <2>2. CASE Present(u)
    BY <1>2, <2>1, <2>2, PresentKept DEF Covered
  <2>3. ASSUME NEW i \in 1 .. Len(work), Delivers(work[i], u) PROVE Covered(u)'
    <3>1. PICK it, w : it = work[i] /\ w = work
      OBVIOUS
    <3>2. Delivers(it, u)'
      BY <1>2, <2>1, <2>3, <3>1, DeliversKept
    <3>3. work' = w /\ i \in 1 .. Len(w) /\ w[i] = it
      BY <1>1, <3>1
    <3> QED
      BY <3>2, <3>3 DEF Covered
  <2> QED
    BY <2>1, <2>2, <2>3 DEF Covered
<1> QED
  BY <1>1, <1>2, <1>3 DEF RInv, UseOK, Encoding, Followed

LEMMA InitialReferences == Init => RInv
<1> SUFFICES ASSUME Init PROVE RInv
  OBVIOUS
<1>1. PICK task \in Tasks : enc = NewEncoder(task)
  BY DEF Init
<1>2. /\ ReferenceColumns \subseteq DOMAIN enc /\ enc.uses = {} /\ enc.in_progress = {}
      /\ enc.type_predicate_names = NoTable /\ enc.type_predicates = NoTable
      /\ enc.type_invariant_names = NoTable
  BY <1>1 DEF NewEncoder, ReferenceColumns, SetTables
<1>3. InBodies = {}
  BY <1>2 DEF InBodies, NoTable
<1>4. References = {}
  BY <1>2, <1>3 DEF References, NoTable
<1>5. Followed(work)
  BY EmptyFacts DEF Init, Followed
<1> QED
  BY <1>2, <1>4, <1>5 DEF RInv

LEMMA TypeTableReferences == IInv /\ TInv /\ RInv /\ TypeTableStep => RInv'
<1> SUFFICES ASSUME IInv, TInv, RInv, TypeTableStep PROVE RInv'
  OBVIOUS
<1>1. CASE EncodeTypePredicateUse \/ RecordPredicateName \/ EncodeTypePredicateDef
           \/ InsertPredicate \/ InsertArrayTypes
  BY <1>1, PredicateUseReferences, NameReferences, PredicateDefReferences, PredicateInsertReferences,
     RecordReferences
<1>2. CASE EncodeInvariantFuncApp \/ EncodeTypeInvariantUse \/ EncodeTypeInvariantDef
           \/ InvariantOfField \/ InsertInvariant
  BY <1>2, CallReferences, InvariantUseReferences, InvariantNameReferences, InvariantInsertReferences
<1>3. CASE EncodeTypeTagUse \/ EncodeTypeTagDef \/ EncodeBuiltinFunction \/ EncodeBuiltinMethod
  BY <1>3, TagUseReferences, TagDefReferences, BuiltinReferences
<1>4. CASE EncodeCastFunctionUse \/ InsertCastFunction \/ EncodeDiscriminantFuncApp
           \/ EncodeDiscriminantFunc \/ InsertDiscriminantFunc
  BY <1>4, CastUseReferences, CastInsertReferences, CallReferences, DiscriminantReferences,
     DiscriminantInsertReferences
<1>5. CASE EncodeArrayTypes \/ EncodeSnapshotApi \/ EncodeSnapshot \/ LookUpSnapshot \/ SnapshotOfField
           \/ InsertSnapshot \/ SnapApp
  BY <1>5, ArrayReferences, CallReferences, SnapshotReferences, SnapshotInsertReferences, SnapReferences
<1> QED
  BY <1>1, <1>2, <1>3, <1>4, <1>5 DEF TypeTableStep

LEMMA EncoderReferences == IInv /\ IInv' /\ TInv /\ RInv /\ EncoderStep => RInv'
<1> SUFFICES ASSUME IInv, IInv', TInv, RInv, EncoderStep PROVE RInv'
  OBVIOUS
<1>1. CASE EncodeType \/ Iterate \/ BorrowMut \/ Fail
  BY <1>1, CallReferences, LoopReferences, BorrowReferences, FailReferences
<1>2. CASE Release \/ PushTempTymap \/ CleanupTyMapStack \/ EncodeItemName \/ Register
           \/ GetProcedureContractForDef \/ EncodeMirrors \/ InsertPureExpression
           \/ InsertProcedure \/ InsertSpecFuncs
  BY <1>2, RecordReferences
<1>3. CASE EncodePureFunctionDef \/ SubstituteForKey \/ LookUpPureFunction \/ InsertPureFunction
           \/ EncodePureFunctionUse \/ EncodeProcedure
  BY <1>3, DefinitionReferences, KeyReferences, LookupReferences, InsertReferences, CalleeReferences,
     ProcedureReferences
<1>4. CASE CallPure \/ CallImpure
  BY <1>4, CallReferences
<1>5. CASE EncodeFunctionReturnType \/ EncodePureExpression \/ LookUpPureExpression
           \/ GetProcedureContractForCall \/ EncodeSpecFuncs
  BY <1>5, FunctionReferences
<1> QED
  BY <1>1, <1>2, <1>3, <1>4, <1>5 DEF EncoderStep

(***************************************************************************)
(* As long as nothing was reported, everything that an encoding refers to  *)
(* is in its table, or the step that puts it there is still on the call    *)
(* stack, or its function is in the queue: for every crate and task, and   *)
(* whatever encoding re-enters which (encode_type_predicate_use,           *)
(* encode_snapshot, encode_pure_function_use).                             *)
(***************************************************************************)
THEOREM ReferencesAreCovered == Spec => []RInv
<1>1. IInv /\ IInv' /\ TInv /\ RInv /\ [Next]_vars => RInv'
  <2> SUFFICES ASSUME IInv, IInv', TInv, RInv, [Next]_vars PROVE RInv'
    OBVIOUS
  <2>1. CASE Initialize \/ QueueIsEmpty \/ UNCHANGED vars
    BY <2>1, InitializeReferences, EmptyQueueReferences, StutterReferences
  <2>2. CASE PopQueue \/ EndOfItem \/ Verify
    BY <2>2, QueueReferences, RecordReferences, VerifyReferences
  <2>3. CASE TypeTableStep \/ EncoderStep
    BY <2>3, TypeTableReferences, EncoderReferences
  <2> QED
    BY <2>1, <2>2, <2>3 DEF Next
<1> QED
  BY <1>1, InitialReferences, StackDiscipline, TablesAreSound, PTL DEF Spec

(***************************************************************************)
(* get_viper_program collects the tables when the queue is empty: for      *)
(* every crate and task, unless an error or a warning was emitted, it      *)
(* finds a definition of everything that some encoding refers to, and of   *)
(* the predicates in the bodies of these predicates.                       *)
(***************************************************************************)
THEOREM EncodedProgramIsClosed == Spec => []ProgramClosed
<1>1. IInv /\ RInv => ProgramClosed
  <2> SUFFICES ASSUME IInv, RInv, phase = "verify", enc.reported = <<>>, NEW u \in enc.uses
               PROVE  Defined(u[1], u[2])
    BY DEF ProgramClosed
  <2>1. Encoding /\ work = <<>> /\ enc.queue = <<>>
    BY DEF Encoding, IInv
  <2>2. \A f : ~Queued(f)
    BY <2>1, EmptyFacts DEF Queued
  <2>3. u \in References /\ u[1] \in Tables
    BY DEF References, RInv, UseOK
  <2>4. Present(u)
    BY <2>1, <2>3, IdlePresent
  <2>5. CASE u[1] = "type_predicates"
    <3>1. u[2] \in DOMAIN enc.type_predicates
      BY <2>4, <2>5 DEF Present
    <3>2. ASSUME NEW n \in enc.type_predicates[u[2]] PROVE n \in DOMAIN enc.type_predicates
      <4>1. PICK v : v = <<"type_predicates", n>>
        OBVIOUS
      <4>2. n \in InBodies
        BY <3>1 DEF InBodies
      <4>3. v \in References
        BY <4>1, <4>2 DEF References
      <4>4. Present(v)
        BY <2>1, <4>3, IdlePresent
      <4> QED
        BY <4>1, <4>4 DEF Present
    <3> QED
      BY <2>5, <3>1, <3>2 DEF Defined
  <2>6. CASE u[1] = "functions"
    BY <2>2, <2>4, <2>6 DEF Present, Defined, HasPure
  <2>7. CASE u[1] \in {"encoded", "type_tags"}
    BY <2>4, <2>7 DEF Present, Defined
  <2>8. CASE u[1] \in SetTables
    BY <2>4, <2>8 DEF Present, Defined, SetTables
  <2> QED
    BY <2>3, <2>5, <2>6, <2>7, <2>8 DEF Tables
<1> QED
  BY <1>1, ReferencesAreCovered, StackDiscipline, PTL
===============================================================================
