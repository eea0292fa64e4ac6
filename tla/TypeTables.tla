------------------------------ MODULE TypeTables ------------------------------
(***************************************************************************)
(* The tables of the encoder that are keyed by types: predicates, type     *)
(* invariants and tags, discriminant and cast functions, array types,      *)
(* builtin functions (encoder.rs, type_encoder.rs, array_encoder.rs,       *)
(* builtin_encoder.rs) and snapshots (snapshot/encoder.rs).                *)
(***************************************************************************)
EXTENDS EncoderCore

-------------------------------------------------------------------------------
(* Type predicates *)

(***************************************************************************)
(* encode_type_predicate_use: the name is recorded before the definition   *)
(* is encoded, which is what ends the recursion for recursive types.       *)
(***************************************************************************)
EncodeTypePredicateUse ==
  /\ Next1("predicate_use")
  /\ IF X \in DOMAIN enc.type_predicate_names
     THEN Return /\ enc' = Use(enc, "type_predicates", Name(X))
     ELSE /\ Run(TypeName(X) \o <<Do("predicate_name", X), Do("predicate_def", X)>>)
          /\ UNCHANGED enc
  /\ NoIntern

RecordPredicateName ==
  /\ Next1("predicate_name")
  /\ Return
  /\ enc' = Use([enc EXCEPT !.type_predicate_names = Put(@, X, NameOf(X)),
                            !.predicate_types = Put(@, NameOf(X), X)],
                "type_predicates", NameOf(X))
  /\ NoIntern

\* encode_type_predicate_def, and encode_predicate_def up to the fields.
EncodeTypePredicateDef ==
  /\ Next1("predicate_def")
  /\ UNCHANGED enc
  /\ CASE X \notin DOMAIN enc.type_predicate_names ->
            Run(<<Do("predicate_use", X), Do("predicate_def", X)>>)
       [] X \in DOMAIN enc.type_predicate_names /\ Name(X) \in DOMAIN enc.type_predicates -> Return
       [] OTHER -> Run(For("predicate_use", FieldTys(X)) \o <<Do("predicate_insert", X)>>)
  /\ NoIntern

\* The Viper fields that the predicate of ty and its variants access.
FieldNames(ty) ==
  CASE ty.kind \in {"ref", "box"} -> {<<"val_ref">>}
    [] ty.kind = "prim"  -> {<<"val", ty.name>>}
    [] ty.kind = "tuple" -> {<<"tuple", i>> : i \in DOMAIN ty.args}
    [] ty.kind = "adt"   ->
         {<<"f", i>> : i \in DOMAIN FieldTys(ty)}
         \cup (IF IsEnum(ty) THEN {<<"discriminant">>} \cup
                                  {<<"enum", ty.name, v>> : v \in DOMAIN Adts[ty.name].variants}
               ELSE {})
    [] OTHER -> {}

\* The predicates the body of ty's predicate refers to.
PredicateBody(ty) == {Name(FieldTys(ty)[i]) : i \in DOMAIN FieldTys(ty)}

InsertPredicate ==
  /\ Next1("predicate_insert")
  /\ Return
  /\ enc' = [enc EXCEPT !.type_predicates = Put(@, Name(X), PredicateBody(X)),
                        !.fields = @ \cup FieldNames(X)]
  /\ NoIntern

-------------------------------------------------------------------------------
(* Type invariants and type tags *)

\* encode_invariant_func_app
EncodeInvariantFuncApp ==
  /\ Next1("invariant_func_app")
  /\ Run(<<Do("predicate_use", X), Do("invariant_use", X)>>)
  /\ UNCHANGED enc
  /\ NoIntern

EncodeTypeInvariantUse ==
  /\ Next1("invariant_use")
  /\ IF X \in DOMAIN enc.type_invariant_names
     THEN Return /\ enc' = Use(enc, "type_invariants", enc.type_invariant_names[X])
     ELSE /\ Run(TypeName(X) \o <<Do("invariant_name", X)>>)
          /\ UNCHANGED enc
  /\ NoIntern

(***************************************************************************)
(* encode_type_invariant_def: the invariants of the fields are encoded     *)
(* with the arguments of the type pushed on the stack of type maps, and    *)
(* the result goes through the snapshot encoder.                           *)
(***************************************************************************)
InvariantParts(ty) ==
  LET fieldApps == For("invariant_field", FieldTys(ty))
  IN CASE ty.kind = "ref" -> fieldApps \o For("predicate_use", ty.args)
       [] ty.kind = "raw" -> For("predicate_use", ty.args)
       [] IsSupportedStruct(ty) -> WithTymap(TyMap(Adts[ty.name].params, ty.args), fieldApps)
       [] OTHER -> <<>>

\* A field of the type: its access and its invariant.
InvariantOfField ==
  /\ Next1("invariant_field")
  /\ Run(<<Do("predicate_use", X), Do("invariant_func_app", X)>>)
  /\ UNCHANGED enc
  /\ NoIntern

EncodeTypeInvariantDef ==
  /\ Next1("invariant_name")
  /\ enc' = Use([enc EXCEPT !.type_invariant_names = Put(@, X, NameOf(X))],
                "type_invariants", NameOf(X))
  /\ Run(IF NameOf(X) \in enc.type_invariants THEN <<>>
         ELSE <<Do("predicate_use", X)>> \o InvariantParts(X)
              \o Borrowed("snapshot_encoder", <<>>) \o <<Do("invariant_insert", X)>>)
  /\ NoIntern

InsertInvariant ==
  /\ Next1("invariant_insert")
  /\ Return
  /\ enc' = [enc EXCEPT !.type_invariants = @ \cup {enc.type_invariant_names[X]}]
  /\ NoIntern

\* encode_tag_func_app: the use of the tag and, the first time, its definition.
EncodeTypeTagUse ==
  /\ Next1("tag_func_app")
  /\ Run(IF X \in DOMAIN enc.type_tags THEN <<>> ELSE TypeName(X) \o <<Do("tag_def", X)>>)
  /\ enc' = Use(enc, "type_tags", X)
  /\ NoIntern

EncodeTypeTagDef ==
  /\ Next1("tag_def")
  /\ Return
  /\ enc' = [enc EXCEPT !.type_tags = Put(@, X, NameOf(X))]
  /\ NoIntern

-------------------------------------------------------------------------------
(* Builtin functions and methods, casts, discriminants, array types *)

\* encode_builtin_function_use and _def, for lookups in arrays and slices
\* and for the lengths of slices: X = <<kind, type>>.
EncodeBuiltinFunction ==
  /\ Next1("builtin_function")
  /\ Return
  /\ LET key == <<X[1], Name(X[2])>>
     IN enc' = Use([enc EXCEPT !.builtin_functions = @ \cup {key}], "builtin_functions", key)
  /\ NoIntern

EncodeBuiltinMethod ==
  /\ Next1("builtin_method")
  /\ Return
  /\ enc' = Use([enc EXCEPT !.builtin_methods = @ \cup {X}], "builtin_methods", X)
  /\ NoIntern

\* encode_cast_function_use, X = <<source, destination>>
EncodeCastFunctionUse ==
  /\ Next1("cast")
  /\ Run(IF X \in enc.type_cast_functions THEN <<>>
         ELSE For("snapshot", <<X[1], X[2], X[2]>>) \o <<Do("cast_insert", X)>>)
  /\ enc' = Use(enc, "type_cast_functions", X)
  /\ NoIntern

InsertCastFunction ==
  /\ Next1("cast_insert")
  /\ Return
  /\ enc' = [enc EXCEPT !.type_cast_functions = @ \cup {X}]
  /\ NoIntern

(***************************************************************************)
(* encode_discriminant_func_app encodes the function inside                *)
(* entry(..).or_insert_with(..): the table stays mutably borrowed while    *)
(* the snapshot encoder runs.  The place of X has type X's predicate.      *)
(***************************************************************************)
EncodeDiscriminantFuncApp ==
  /\ Next1("discriminant")
  /\ Run(<<Do("predicate_use", X)>>
         \o Borrowed("type_discriminant_funcs", <<Do("discriminant_func", X)>>))
  /\ UNCHANGED enc
  /\ NoIntern

EncodeDiscriminantFunc ==
  /\ Next1("discriminant_func")
  /\ Run(IF Name(X) \in enc.type_discriminant_funcs THEN <<>>
         ELSE Borrowed("snapshot_encoder", <<Do("encode_snapshot", enc.predicate_types[Name(X)])>>)
              \o <<Do("discriminant_insert", X)>>)
  /\ enc' = Use([enc EXCEPT !.fields = @ \cup {<<"discriminant">>}],
                "type_discriminant_funcs", Name(X))
  /\ NoIntern

InsertDiscriminantFunc ==
  /\ Next1("discriminant_insert")
  /\ Return
  /\ enc' = [enc EXCEPT !.type_discriminant_funcs = @ \cup {Name(X)}]
  /\ NoIntern

\* encode_array_types and encode_slice_types, under the borrow of their cache.
EncodeArrayTypes ==
  /\ Next1("array_types")
  /\ Run(Borrowed("array_types_encoder",
           IF X \in enc.array_types THEN <<>>
           ELSE <<Do("predicate_use", X), Do("predicate_use", X.args[1]), Do("array_types_insert", X)>>))
  /\ UNCHANGED enc
  /\ NoIntern

InsertArrayTypes ==
  /\ Next1("array_types_insert")
  /\ Return
  /\ enc' = [enc EXCEPT !.array_types = @ \cup {X}]
  /\ NoIntern

-------------------------------------------------------------------------------
(* Snapshots *)

\* encode_snapshot_type, _constructor, supports_snapshot_equality, ...: the
\* snapshot encoder is borrowed for the whole call.
EncodeSnapshotApi ==
  /\ Next1("snapshot")
  /\ Run(Borrowed("snapshot_encoder", <<Do("encode_snapshot", X)>>))
  /\ UNCHANGED enc
  /\ NoIntern

EncodeSnapshot ==
  /\ Next1("encode_snapshot")
  /\ LET ty == ResolveTyparam(StripRefsAndBoxes[X], enc.typaram_repl)
     IN Run(<<Do("predicate_use", ty), Do("snapshot_lookup", ty)>>)
  /\ UNCHANGED enc
  /\ NoIntern

FieldSnapshots(ty) == For("snapshot_field", FieldTys(ty))

\* A field of a tuple or ADT: its access and the type of its snapshot.
SnapshotOfField ==
  /\ Next1("snapshot_field")
  /\ Run(<<Do("predicate_use", X), Do("snap_app", X), Do("encode_snapshot", X)>>)
  /\ UNCHANGED enc
  /\ NoIntern

ArrayParts(ty) ==
  <<Do("encode_snapshot", ty.args[1]), Do("array_types", ty),
    Do("builtin_function", <<"array_lookup_pure", ty>>)>>

SliceParts(ty) ==
  <<Do("array_types", ty), Do("encode_snapshot", ty.args[1]),
    Do("builtin_function", <<"slice_len", ty>>), Do("builtin_function", <<"slice_lookup_pure", ty>>)>>

\* The calls of encode_snapshot_internal that change a table.
SnapshotParts(ty) ==
  CASE ty.kind = "array" -> ArrayParts(ty)
    [] ty.kind = "slice" -> SliceParts(ty)
    [] ty.kind = "adt" /\ ~IsUnit(ty) /\ Adts[ty.name].kind = "enum" ->
         <<Do("predicate_def", ty)>> \o FieldSnapshots(ty)
    [] ty.kind = "tuple" \/ (ty.kind = "adt" /\ ~IsUnit(ty) /\ Adts[ty.name].kind = "struct") ->
         FieldSnapshots(ty)
    [] OTHER -> <<>>

\* The Snapshot variant that encode_snapshot_internal returns.
SnapshotKind(ty) ==
  CASE IsUnit(ty) -> "Unit"
    [] ty.kind = "prim" -> "Primitive"
    [] ty.kind = "array" -> "Array"
    [] ty.kind = "slice" -> "Slice"
    [] ty.kind \in {"tuple", "adt"} /\ ~IsUnit(ty) -> "Complex"
    [] OTHER -> "Abstract"

(***************************************************************************)
(* encode_snapshot: a type whose snapshot is being encoded further up the  *)
(* stack gets a Lazy snapshot, which only has a type.                      *)
(***************************************************************************)
LookUpSnapshot ==
  /\ Next1("snapshot_lookup")
  /\ IF Name(X) \in DOMAIN enc.encoded \cup enc.in_progress
     THEN Return /\ enc' = Use(enc, "encoded", Name(X))
     ELSE /\ Run(SnapshotParts(X) \o <<Do("snapshot_insert", X)>>)
          /\ enc' = Use([enc EXCEPT !.in_progress = @ \cup {Name(X)}], "encoded", Name(X))
  /\ NoIntern

InsertSnapshot ==
  /\ Next1("snapshot_insert")
  /\ Return
  /\ enc' = [enc EXCEPT !.in_progress = @ \ {Name(X)},
                        !.encoded = Put(@, Name(X), SnapshotKind(X))]
  /\ NoIntern

\* Mutant: the snapshot of the target is requested from the encoder, which
\* borrows the snapshot encoder again.
SnapApp_ThroughEncoder ==
  /\ Next1("snap_app")
  /\ LET ty == enc.predicate_types[Name(X)]
         inner == StripRefsAndBoxes[ty]
     IN Run(For("predicate_use", Dereferenced[ty])
            \o (IF inner.kind = "prim" \/ IsUnit(inner) THEN <<>> ELSE <<Do("snapshot", inner)>>))
  /\ UNCHANGED enc
  /\ NoIntern

\* snap_app on a place of type X: decode its predicate, dereference, take a snapshot.
SnapApp ==
  /\ Next1("snap_app")
  /\ LET ty == enc.predicate_types[Name(X)]
         inner == StripRefsAndBoxes[ty]
     IN Run(For("predicate_use", Dereferenced[ty])
            \o (IF inner.kind = "prim" \/ IsUnit(inner) THEN <<>> ELSE <<Do("encode_snapshot", inner)>>))
  /\ UNCHANGED enc
  /\ NoIntern

TypeTableStep ==
  \/ EncodeTypePredicateUse \/ RecordPredicateName \/ EncodeTypePredicateDef \/ InsertPredicate
  \/ EncodeInvariantFuncApp \/ EncodeTypeInvariantUse \/ EncodeTypeInvariantDef \/ InvariantOfField
  \/ InsertInvariant
  \/ EncodeTypeTagUse \/ EncodeTypeTagDef \/ EncodeBuiltinFunction \/ EncodeBuiltinMethod
  \/ EncodeCastFunctionUse \/ InsertCastFunction
  \/ EncodeDiscriminantFuncApp \/ EncodeDiscriminantFunc \/ InsertDiscriminantFunc
  \/ EncodeArrayTypes \/ InsertArrayTypes
  \/ EncodeSnapshotApi \/ EncodeSnapshot \/ LookUpSnapshot \/ SnapshotOfField
  \/ InsertSnapshot \/ SnapApp
===============================================================================
