------------------------------- MODULE EncoderCore -------------------------------
(***************************************************************************)
(* The encoder of prusti-viper (encoder.rs): a queue of functions to       *)
(* encode and a set of memo tables that the encoding of functions, types,  *)
(* snapshots and invariants fills on demand and re-enters while it runs.   *)
(*                                                                         *)
(* The call stack is explicit.  `work' is the sequence of what is still to *)
(* be done, the next step first: a call [op, x], the rest of a function    *)
(* after a call it makes, the drop of a RefMut or of a type-map token at   *)
(* the end of its scope.  Returning is taking the next step; an Err        *)
(* unwinds `work' up to the code that handles it, and runs the drops it    *)
(* passes.  The functions of the program make requests of the encoder:     *)
(* those are the data of Fns.                                              *)
(***************************************************************************)
EXTENDS NameInterner, FiniteSets, SequencesExt

CONSTANTS
  Adts,           \* ADT -> [kind |-> struct | enum, params, variants: Seq(Seq(type))]
  ResolveDepth,   \* bound on the nesting of types and of substitutions
  Fns,    \* definition -> what the encoder knows of a function and its body
  Tasks   \* the sequences of functions the driver may be asked to verify

VARIABLES
  enc,     \* the tables of struct Encoder
  work,    \* what is still to be done, see above
  phase,   \* "queue", "encode", "verify", "panic", or the verdict
  skip     \* the configuration flag skip_unsupported_features

vars == <<enc, work, phase, skip, internerVars>>

-----------------------------------------------------------------------------
(* Rust types as the encoder looks at them, and the substitution of type   *)
(* parameters it keeps on a stack of type maps (encoder.rs, "FIXME: this   *)
(* is a hack to support generics").                                        *)

\* kind: prim, tuple, ref, box, raw, adt, array, slice, param, closure, other
Ty(kind, name, args) == [kind |-> kind, name |-> name, args |-> args]

IsUnit(ty) ==
  \/ ty.kind = "tuple" /\ ty.args = <<>>
  \/ ty.kind = "adt" /\ Adts[ty.name].variants \in {<<>>, << <<>> >>}

IsEnum(ty) == ty.kind = "adt" /\ Len(Adts[ty.name].variants) # 1

\* The types nested at most n deep.
Nested[n \in Nat] ==
  [kind : STRING, name : STRING, args : IF n = 0 THEN {<<>>} ELSE Seq(Nested[n - 1])]

Types == Nested[ResolveDepth]

StripRefsAndBoxes[ty \in Types] ==
  IF ty.kind \in {"ref", "box"} THEN StripRefsAndBoxes[ty.args[1]] ELSE ty

\* The types dereferenced on the way from ty to its stripped type.
Dereferenced[ty \in Types] ==
  IF ty.kind \in {"ref", "box"} THEN <<ty.args[1]>> \o Dereferenced[ty.args[1]] ELSE <<>>

(***************************************************************************)
(* The type folder of resolve_typaram: the type is looked up once, and the *)
(* components of what was found are folded in turn.                        *)
(***************************************************************************)
FoldTy(ty, tymap) ==
  LET Found(t) == IF t \in DOMAIN tymap THEN tymap[t] ELSE t
      Fold[t \in Types, depth \in 0 .. ResolveDepth] ==
        IF depth = 0 THEN Ty("other", "stack overflow", <<>>)
        ELSE [Found(t) EXCEPT !.args = [i \in DOMAIN @ |-> Fold[@[i], depth - 1]]]
  IN Fold[ty, ResolveDepth]

\* The type of a field of an instantiated ADT (field.ty(tcx, subst)).
Instantiate(ty, subst) ==
  LET Inst[t \in Types] ==
        IF t \in DOMAIN subst THEN subst[t]
        ELSE [t EXCEPT !.args = [i \in DOMAIN @ |-> Inst[@[i]]]]
  IN Inst[ty]

\* own_substs zipped with substs: what push_temp_tymap receives.
TyMap(params, args) ==
  [p \in {Ty("param", params[i], <<>>) : i \in DOMAIN params} |->
     args[CHOOSE i \in DOMAIN params : params[i] = p.name]]

FieldTys(ty) ==
  CASE ty.kind \in {"tuple", "ref", "box"} -> ty.args
    [] ty.kind = "adt" ->
         LET adt == Adts[ty.name]
         IN [i \in DOMAIN FlattenSeq(adt.variants) |->
               Instantiate(FlattenSeq(adt.variants)[i], TyMap(adt.params, ty.args))]
    [] OTHER -> <<>>

(***************************************************************************)
(* current_tymap: from the innermost map to the outermost, so that the     *)
(* outer maps overwrite the inner ones.  The loop over additional_substs   *)
(* inserts again the pairs that it has just read from the map.             *)
(***************************************************************************)
CurrentTymap(tymaps) ==
  LET Outermost(t) == CHOOSE i \in DOMAIN tymaps :
                        t \in DOMAIN tymaps[i] /\ \A j \in 1 .. i - 1 : t \notin DOMAIN tymaps[j]
  IN [t \in UNION {DOMAIN tymaps[i] : i \in DOMAIN tymaps} |-> tymaps[Outermost(t)][t]]

ResolveTyparam(ty, tymaps) == FoldTy(ty, CurrentTymap(tymaps))

(***************************************************************************)
(* The types whose predicate names are part of the name of ty's predicate  *)
(* (encode_predicate_use): they are encoded before the name is known.      *)
(***************************************************************************)
NameParts(ty) == IF ty.kind = "closure" THEN <<>> ELSE ty.args

\* Mutability is not part of the name; unsupported types share one by kind.
PredicateName(ty, argNames, symbol) ==
  CASE ty.kind = "adt"   -> <<"adt", symbol, argNames>>
    [] ty.kind = "ref"   -> <<"ref", "", argNames>>
    [] ty.kind = "other" -> <<"unsupported", ty.name, <<>>>>
    [] OTHER             -> <<ty.kind, ty.name, argNames>>

(***************************************************************************)
(* Types of which a pure function may return a value                       *)
(* (is_supported_type_of_pure_expression), and field types that type       *)
(* invariants support.                                                     *)
(***************************************************************************)
IsSupportedInPure[ty \in Types] ==
  \/ ty.kind = "prim"
  \/ ty.kind \in {"tuple", "adt"} /\ \A i \in DOMAIN FieldTys(ty) : IsSupportedInPure[FieldTys(ty)[i]]

IsSupportedField(ty) == ty.kind \in {"prim", "ref", "box", "adt", "tuple", "param"}

IsSupportedStruct(ty) ==
  /\ ty.kind = "adt" /\ Adts[ty.name].kind = "struct"
  /\ \A i \in DOMAIN FieldTys(ty) : IsSupportedField(FieldTys(ty)[i])
  /\ \A i \in DOMAIN ty.args : IsSupportedField(ty.args[i])

-----------------------------------------------------------------------------
(* The tables. *)

Do(op, x) == [op |-> op, x |-> x]

\* A loop that calls op for the elements of xs.
For(op, xs) == IF xs = <<>> THEN <<>> ELSE <<Do("for", <<op, xs>>)>>

NoTable == [k \in {} |-> {}]

Put(table, k, v) == [d \in DOMAIN table \cup {k} |-> IF d = k THEN v ELSE table[d]]

\* Encoder::new, and queue_procedure_encoding for the functions of the task.
NewEncoder(task) ==
  [task |-> ToSet(task),
   queue |-> [i \in DOMAIN Reverse(task) |-> <<Reverse(task)[i], <<>>>>],
   current_proc |-> "none", typaram_repl |-> <<>>, held |-> {},
   type_predicate_names |-> NoTable, predicate_types |-> NoTable, type_predicates |-> NoTable,
   type_invariant_names |-> NoTable, type_invariants |-> {}, type_tags |-> NoTable,
   type_discriminant_funcs |-> {}, type_cast_functions |-> {}, fields |-> {},
   encoded |-> NoTable, in_progress |-> {}, array_types |-> {},
   builtin_methods |-> {}, builtin_functions |-> {}, mirrors |-> {},
   pure_function_bodies |-> {}, pure_functions |-> {}, failed_pure_functions |-> {},
   procedures |-> NoTable, spec_functions |-> {}, procedure_contracts |-> {},
   visited |-> {}, instantiations |-> <<>>, positions |-> <<>>,
   reported |-> <<>>, uses |-> {}]

Init ==
  /\ \E task \in Tasks : enc = NewEncoder(task)
  /\ work = <<>>
  /\ phase = "queue"
  /\ skip \in BOOLEAN
  /\ InternerInit

-------------------------------------------------------------------------------
(* Steps of the call stack *)

Next1(op) == phase = "encode" /\ work # <<>> /\ Head(work).op = op
X == Head(work).x

\* Go on with the calls in items, then with the rest of the work.
Run(items) == work' = items \o Tail(work) /\ UNCHANGED <<phase, skip>>

Return == Run(<<>>)

Panic == phase' = "panic" /\ UNCHANGED <<work, skip>>

NoIntern == UNCHANGED internerVars

\* A reference to a definition of the Viper program, made by whoever asked for it.
Use(e, table, key) == [e EXCEPT !.uses = @ \cup {<<table, key>>}]

Name(ty) == enc.type_predicate_names[ty]

\* The name of ty's predicate, once its parts are known.
NameOf(ty) ==
  PredicateName(ty, [i \in DOMAIN NameParts(ty) |-> Name(NameParts(ty)[i])],
                IF ty.kind = "adt" THEN name_to_symbol[ty.name] ELSE "")

ItemName(ty) == IF ty.kind = "adt" THEN <<Do("item_name", ty.name)>> ELSE <<>>

\* TypeEncoder::encode_type: the name only, without the definition.
TypeName(ty) == ItemName(ty) \o For("predicate_use", NameParts(ty))

CurrentMap == CurrentTymap(enc.typaram_repl)

\* type_substitution_strings names all the types of the current map.
SubstitutionNames ==
  For("encode_type", SetToSeq(DOMAIN CurrentMap \cup {CurrentMap[t] : t \in DOMAIN CurrentMap}))

\* type_substitution_key: the pairs of names that differ.
SubstitutionKey(tymap) ==
  {<<NameOf(t), NameOf(tymap[t])>> : t \in {u \in DOMAIN tymap : NameOf(u) # NameOf(tymap[u])}}

EncodeType ==
  /\ Next1("encode_type")
  /\ Run(TypeName(X))
  /\ UNCHANGED enc
  /\ NoIntern

\* One iteration of a loop, X = <<call, what is left to iterate over>>.
Iterate ==
  /\ Next1("for")
  /\ Run(<<Do(X[1], Head(X[2]))>> \o For(X[1], Tail(X[2])))
  /\ UNCHANGED enc
  /\ NoIntern

BorrowMut ==
  /\ Next1("borrow_mut")
  /\ IF X \in enc.held THEN Panic /\ UNCHANGED enc
     ELSE Return /\ enc' = [enc EXCEPT !.held = @ \cup {X}]
  /\ NoIntern

Release ==
  /\ Next1("release")
  /\ Return
  /\ enc' = [enc EXCEPT !.held = @ \ {X}]
  /\ NoIntern

Borrowed(cell, items) == <<Do("borrow_mut", cell)>> \o items \o <<Do("release", cell)>>

PushTempTymap ==
  /\ Next1("push_tymap")
  /\ Return
  /\ enc' = [enc EXCEPT !.typaram_repl = Append(@, X)]
  /\ NoIntern

CleanupTyMapStack ==
  /\ Next1("pop_tymap")
  /\ Return
  /\ enc' = [enc EXCEPT !.typaram_repl = Front(@)]
  /\ NoIntern

WithTymap(tymap, items) == <<Do("push_tymap", tymap)>> \o items \o <<Do("pop_tymap", 0)>>

EncodeItemName ==
  /\ Next1("item_name")
  /\ Return
  /\ Intern(X)
  /\ UNCHANGED enc

-------------------------------------------------------------------------------
(* Errors *)

\* PrustiError::is_error: unsupported features are warnings when they are skipped.
IsError(kind) == kind # "unsupported" \/ ~skip

Emit(e, kind) ==
  [e EXCEPT !.reported = Append(@, [of |-> e.current_proc, kind |-> kind, error |-> IsError(kind)])]

Handlers == {"procedure_encoded", "queue_done"}

(***************************************************************************)
(* An Err leaves all functions up to the one that handles it.  Their       *)
(* guards are dropped, and encode_snapshot forgets what was in progress.   *)
(***************************************************************************)
Unwind(kind) ==
  LET h       == CHOOSE i \in DOMAIN work :
                   work[i].op \in Handlers /\ \A j \in 1 .. i - 1 : work[j].op \notin Handlers
      dropped == SubSeq(work, 1, h - 1)
      At(op)  == {i \in DOMAIN dropped : dropped[i].op = op}
      Dropped(op) == {dropped[i].x : i \in At(op)}
      tokens  == Cardinality(At("pop_tymap"))
      left    == [enc EXCEPT
                    !.held = @ \ Dropped("release"),
                    !.in_progress = @ \ {enc.type_predicate_names[t] : t \in Dropped("snapshot_insert")},
                    !.typaram_repl = SubSeq(@, 1, Len(@) - tokens)]
      rest    == SubSeq(work, h + 1, Len(work))
  IN /\ enc' = Emit(left, kind)
     /\ work' = IF work[h].op = "queue_done" THEN SubSeq(work, h, Len(work))
                ELSE <<Do("item_name", work[h].x), Do("predicate_use", Fns[work[h].x].ret),
                       Do("stub", work[h].x)>> \o rest
     /\ UNCHANGED <<phase, skip>>

\* An Err of the code that a request stands for.
Fail ==
  /\ Next1("fail")
  /\ Unwind(X)
  /\ NoIntern

\* ErrorManager::register: a fresh position with its context.
Register ==
  /\ Next1("register")
  /\ Return
  /\ enc' = [enc EXCEPT !.positions = Append(@, X)]
  /\ NoIntern
===============================================================================
