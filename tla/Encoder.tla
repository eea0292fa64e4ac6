-------------------------------- MODULE Encoder --------------------------------
(***************************************************************************)
(* The functions of the program: pure functions, procedures, specification *)
(* functions (encoder.rs, pure_function_encoder.rs, procedure_encoder.rs,  *)
(* spec_function_encoder.rs, stub_procedure_encoder.rs), the queue that    *)
(* drives their encoding, and the driver that verifies the result and      *)
(* reports (verifier.rs of prusti-viper, error_manager.rs).                *)
(***************************************************************************)
EXTENDS TypeTables

CONSTANTS
  CrateTypes,   \* the types that the encoder meets in the crate
  CrateMaps     \* the type maps it makes of them

(***************************************************************************)
(* The encoder ends for a crate only if the types it meets do not grow     *)
(* without bound.  They are closed under what the encoder makes of a type: *)
(* its arguments and fields, what it dereferences to, the type that a type *)
(* map resolves it to; the maps are closed under pushing one on another.   *)
(***************************************************************************)
ASSUME TypesAssumption ==
  \A t \in CrateTypes :
    /\ t.args \in Seq(CrateTypes) /\ FieldTys(t) \in Seq(CrateTypes)
    /\ StripRefsAndBoxes[t] \in CrateTypes /\ Dereferenced[t] \in Seq(CrateTypes)
    /\ t.kind \in {"array", "slice"} => Len(t.args) = 1
    /\ t.kind = "adt" => t.name \in FullNames
    /\ IsSupportedStruct(t) => TyMap(Adts[t.name].params, t.args) \in CrateMaps

ASSUME MapsAssumption ==
  /\ <<>> \in CrateMaps /\ CurrentTymap(<<>>) \in CrateMaps
  /\ \A m \in CrateMaps :
       /\ IsFiniteSet(DOMAIN m) /\ DOMAIN m \subseteq CrateTypes
       /\ \A t \in DOMAIN m : m[t] \in CrateTypes
       /\ \A t \in CrateTypes : FoldTy(t, m) \in CrateTypes
       /\ \A n \in CrateMaps : CurrentTymap(<<m, n>>) \in CrateMaps

\* What the code of a function asks of the encoder.
TypeRequests ==
  {"predicate_use", "invariant_func_app", "tag_func_app", "discriminant", "array_types", "snapshot"}

Requests ==
  TypeRequests \cup {"builtin_method", "cast", "assertion", "call_pure", "call_impure", "register", "fail"}

IsRequest(r) ==
  /\ r.op \in Requests
  /\ r.op \in TypeRequests => r.x \in CrateTypes
  /\ r.op = "array_types" => r.x.kind \in {"array", "slice"}
  /\ r.op = "cast" => r.x \in CrateTypes \X CrateTypes
  /\ r.op \in {"call_pure", "call_impure"} =>
       r.x[1] \in DOMAIN Fns /\ TyMap(Fns[r.x[1]].generics, r.x[2]) \in CrateMaps
  /\ r.op = "call_pure" => Fns[r.x[1]].pure
  /\ r.op = "assertion" => r.x \in DOMAIN Fns

\* A task names functions of the crate, whose code makes requests (a call to a pure
\* function is a call of a function with that attribute: is_pure).
ASSUME FnsAssumption ==
  /\ Tasks \subseteq Seq(DOMAIN Fns)
  /\ \A f \in DOMAIN Fns : \A rs \in {Fns[f].body, Fns[f].spec, Fns[f].post} :
       rs \in Seq(ToSet(rs)) /\ \A r \in ToSet(rs) : IsRequest(r)

\* Functions and types have the names they are defined with; "none" and "viper"
\* stand for the absence of a function.
ASSUME SignaturesAssumption ==
  /\ DOMAIN Fns \subseteq FullNames \ {"none", "viper"}
  /\ \A f \in DOMAIN Fns :
       /\ Fns[f].ret \in CrateTypes
       /\ Fns[f].args \in Seq(CrateTypes) /\ Fns[f].patched \in Seq(CrateTypes)
       /\ Fns[f].spec_names \in Seq(FullNames)

-------------------------------------------------------------------------------
(* Pure functions *)

\* encode_function_return_type
EncodeFunctionReturnType ==
  /\ Next1("return_type")
  /\ Run(IF IsSupportedInPure[ResolveTyparam(Fns[X].ret, enc.typaram_repl)]
         THEN <<Do("snapshot", ResolveTyparam(Fns[X].ret, enc.typaram_repl))>>
         ELSE <<Do("fail", "incorrect")>>)
  /\ UNCHANGED enc
  /\ NoIntern

\* get_procedure_contract_for_def
GetProcedureContractForDef ==
  /\ Next1("contract")
  /\ Return
  /\ enc' = [enc EXCEPT !.procedure_contracts = @ \cup {X}]
  /\ NoIntern

\* The snapshots that the patcher meets in the body of f.
Patch(f) == Borrowed("snapshot_encoder", For("encode_snapshot", Fns[f].patched))

Precondition(f) == For("snapshot", Fns[f].args) \o Fns[f].spec

Postcondition(f) ==
  For("snapshot", Fns[f].args) \o <<Do("snapshot", Fns[f].ret)>> \o Fns[f].post
  \o <<Do("register", "verification"), Do("return_type", f)>>

(***************************************************************************)
(* encode_function_given_body: the contract, the formal arguments and the  *)
(* return type, then the snapshot encoder patches the function.            *)
(***************************************************************************)
GivenBody(f) ==
  <<Do("item_name", f), Do("contract", f)>> \o SubstitutionNames
  \o Precondition(f) \o Postcondition(f)
  \o For("snapshot", Fns[f].args) \o <<Do("return_type", f), Do("register", "verification")>>
  \o Patch(f)

\* encode_predicate_function, encode_bodyless_function and encode_function.
PureFunctionParts(f) ==
  CASE Fns[f].predicate ->
         <<Do("item_name", f), Do("contract", f)>> \o For("snapshot", Fns[f].args)
         \o Fns[f].body \o GivenBody(f)
    [] ~Fns[f].predicate /\ Fns[f].trusted -> GivenBody(f)
    [] OTHER ->
         <<Do("item_name", f)>> \o Fns[f].body \o For("snapshot", Fns[f].args)
         \o <<Do("return_type", f)>>
         \o (IF Fns[f].ret.kind = "prim" \/ Fns[f].copy THEN <<>> ELSE <<Do("fail", "unsupported")>>)
         \o GivenBody(f) \o <<Do("mirror", f)>>

EncodeMirrors ==
  /\ Next1("mirror")
  /\ Return
  /\ enc' = [enc EXCEPT !.mirrors = @ \cup {X}]
  /\ NoIntern

\* encode_pure_function_def up to the key, X = <<function, substitutions>>.
EncodePureFunctionDef ==
  /\ Next1("pure_function_def")
  /\ IF enc.typaram_repl # <<>> THEN Panic
     ELSE Run(WithTymap(X[2], <<Do("pure_function_key", X[1])>>))
  /\ UNCHANGED enc
  /\ NoIntern

SubstituteForKey ==
  /\ Next1("pure_function_key")
  /\ Run(SubstitutionNames \o <<Do("pure_function_lookup", X)>>)
  /\ UNCHANGED enc
  /\ NoIntern

Key(f) == <<f, SubstitutionKey(CurrentMap)>>

\* Mutant: a function is not marked as failed while it is encoded.
LookUpPureFunction_NotMarked ==
  /\ Next1("pure_function_lookup")
  /\ IF Key(X) \in enc.pure_functions \cup enc.failed_pure_functions
     THEN Return /\ UNCHANGED enc
     ELSE /\ Run(PureFunctionParts(X) \o Patch(X) \o <<Do("pure_function_insert", X)>>)
          /\ UNCHANGED enc
  /\ NoIntern

(***************************************************************************)
(* "In case the function causes an encoding error, put it into the failed  *)
(* set.  If the encoding is successful, we remove it again."               *)
(***************************************************************************)
LookUpPureFunction ==
  /\ Next1("pure_function_lookup")
  /\ IF Key(X) \in enc.pure_functions \cup enc.failed_pure_functions
     THEN Return /\ UNCHANGED enc
     ELSE /\ Run(PureFunctionParts(X) \o Patch(X) \o <<Do("pure_function_insert", X)>>)
          /\ enc' = [enc EXCEPT !.failed_pure_functions = @ \cup {Key(X)}]
  /\ NoIntern

InsertPureFunction ==
  /\ Next1("pure_function_insert")
  /\ Return
  /\ enc' = [enc EXCEPT !.failed_pure_functions = @ \ {Key(X)},
                        !.pure_functions = @ \cup {Key(X)}]
  /\ NoIntern

\* A call of a pure function pushes the substitutions of the call, X = <<callee, types>>.
CallPure ==
  /\ Next1("call_pure")
  /\ Run(WithTymap(TyMap(Fns[X[1]].generics, X[2]), <<Do("pure_function_use", X[1])>>))
  /\ UNCHANGED enc
  /\ NoIntern

\* Mutant: the callee is not queued.
EncodePureFunctionUse_NotQueued ==
  /\ Next1("pure_function_use")
  /\ Run(<<Do("item_name", X), Do("return_type", X)>>)
  /\ enc' = Use(enc, "functions", X)
  /\ NoIntern

\* encode_pure_function_use: queue the definition, return name and type.
EncodePureFunctionUse ==
  /\ Next1("pure_function_use")
  /\ Run(<<Do("item_name", X), Do("return_type", X)>>)
  /\ enc' = Use([enc EXCEPT !.queue = Append(@, <<X, CurrentMap>>)], "functions", X)
  /\ NoIntern

\* encode_pure_expression: the body of an assertion's closure.
EncodePureExpression ==
  /\ Next1("assertion")
  /\ Run(SubstitutionNames \o <<Do("assertion_lookup", X), Do("register", "verification")>>)
  /\ UNCHANGED enc
  /\ NoIntern

LookUpPureExpression ==
  /\ Next1("assertion_lookup")
  /\ Run(IF Key(X) \in enc.pure_function_bodies THEN <<>>
         ELSE Fns[X].body \o <<Do("assertion_insert", X)>>)
  /\ UNCHANGED enc
  /\ NoIntern

InsertPureExpression ==
  /\ Next1("assertion_insert")
  /\ Return
  /\ enc' = [enc EXCEPT !.pure_function_bodies = @ \cup {Key(X)}]
  /\ NoIntern

-------------------------------------------------------------------------------
(* Procedures *)

\* SpecsClosuresCollector::collect visits a function once.
Collect(e, f) ==
  IF f \in e.visited THEN e
  ELSE [e EXCEPT !.visited = @ \cup {f}, !.instantiations = @ \o Fns[f].closures]

SpecFuncs(f) == IF Fns[f].closure THEN <<Do("spec_funcs", f)>> ELSE <<>>

(***************************************************************************)
(* encode_procedure.  An error of ProcedureEncoder::new goes to the queue, *)
(* an error of encode() is reported and leaves a stub.                     *)
(***************************************************************************)
EncodeProcedure ==
  /\ Next1("procedure")
  /\ IF X \in DOMAIN enc.procedures THEN Run(SpecFuncs(X)) /\ UNCHANGED enc
     ELSE /\ Run(IF Fns[X].new_fails THEN <<Do("fail", "internal")>>
                 ELSE <<Do("item_name", X), Do("predicate_use", Fns[X].ret)>>
                      \o Fns[X].body \o For("predicate_use", Fns[X].args) \o Patch(X)
                      \o <<Do("procedure_encoded", X)>> \o SpecFuncs(X))
          /\ enc' = Collect(enc, X)
  /\ NoIntern

InsertProcedure ==
  /\ \/ Next1("procedure_encoded")
     \/ Next1("stub")
  /\ Return
  /\ enc' = [enc EXCEPT !.procedures = Put(@, X, Head(work).op)]
  /\ NoIntern

\* A call of a method encodes the callee's contract, X = <<callee, types>>.
CallImpure ==
  /\ Next1("call_impure")
  /\ Run(WithTymap(TyMap(Fns[X[1]].generics, X[2]), <<Do("contract_for_call", X[1])>>))
  /\ UNCHANGED enc
  /\ NoIntern

\* get_procedure_contract_for_call: "tymap.len() = {}, but should be 1"
GetProcedureContractForCall ==
  /\ Next1("contract_for_call")
  /\ Run(IF Len(enc.typaram_repl) # 1 THEN <<Do("fail", "internal")>> ELSE Fns[X].spec \o Fns[X].post)
  /\ UNCHANGED enc
  /\ NoIntern

\* encode_spec_funcs and SpecFunctionEncoder::encode.
EncodeSpecFuncs ==
  /\ Next1("spec_funcs")
  /\ Run(IF X \in enc.spec_functions THEN <<>>
         ELSE For("item_name", Fns[X].spec_names)
              \o For("snapshot", Fns[X].args) \o Fns[X].spec \o Fns[X].post
              \o Borrowed("snapshot_encoder", <<>>)
              \o <<Do("spec_funcs_insert", X)>>)
  /\ UNCHANGED enc
  /\ NoIntern

InsertSpecFuncs ==
  /\ Next1("spec_funcs_insert")
  /\ Return
  /\ enc' = [enc EXCEPT !.spec_functions = @ \cup {X}]
  /\ NoIntern

-------------------------------------------------------------------------------
(* The queue and the driver *)

\* process_encoding_queue: initialize.  The closures of specifications that are collected
\* here are left out, as are their instantiations, the only thing they are used for.
Initialize ==
  /\ phase = "queue"
  /\ phase' = "encode"
  /\ enc' = [enc EXCEPT !.builtin_methods = {"HavocBool", "HavocInt", "HavocRef"}]
  /\ UNCHANGED <<work, skip>>
  /\ NoIntern

\* Mutant: the item stays in the queue.
PopQueue_Peeks ==
  /\ phase = "encode"
  /\ work = <<>>
  /\ enc.queue # <<>>
  /\ LET f == Last(enc.queue)[1]
         substs == Last(enc.queue)[2]
     IN /\ enc' = [enc EXCEPT !.current_proc = f]
        /\ UNCHANGED <<phase, skip>>
        /\ work' = (IF Fns[f].pure THEN <<Do("pure_function_def", <<f, substs>>)>>
                    ELSE IF Fns[f].trusted THEN <<>>
                    ELSE <<Do("procedure", f)>>) \o <<Do("queue_done", f)>>
  /\ NoIntern

PopQueue ==
  /\ phase = "encode"
  /\ work = <<>>
  /\ enc.queue # <<>>
  /\ LET f == Last(enc.queue)[1]
         substs == Last(enc.queue)[2]
     IN /\ enc' = [enc EXCEPT !.queue = Front(@), !.current_proc = f]
        /\ IF ~Fns[f].pure /\ substs # <<>> THEN Panic
           ELSE /\ UNCHANGED <<phase, skip>>
                /\ work' = (IF Fns[f].pure THEN <<Do("pure_function_def", <<f, substs>>)>>
                            ELSE IF Fns[f].trusted THEN <<>>
                            ELSE <<Do("procedure", f)>>) \o <<Do("queue_done", f)>>
  /\ NoIntern

EndOfItem ==
  /\ Next1("queue_done")
  /\ Return
  /\ enc' = [enc EXCEPT !.current_proc = "none"]
  /\ NoIntern

QueueIsEmpty ==
  /\ phase = "encode"
  /\ work = <<>>
  /\ enc.queue = <<>>
  /\ phase' = "verify"
  /\ UNCHANGED <<enc, work, skip>>
  /\ NoIntern

EncodingErrors == {i \in DOMAIN enc.reported : enc.reported[i].error}

\* translate_verification_error: position 0 stands for one nobody registered.
Translate(pos) == IF pos = 0 THEN "internal" ELSE enc.positions[pos]

\* Mutant: errors of the encoding do not count.
Verdict_IgnoresEncodingErrors(errors) ==
  /\ phase' = IF errors = <<>> THEN "Success" ELSE "Failure"
  /\ enc' = [enc EXCEPT !.reported =
               @ \o [i \in DOMAIN errors |->
                       [of |-> "viper", kind |-> Translate(errors[i]), error |-> IsError(Translate(errors[i]))]]]

(***************************************************************************)
(* Verifier::verify after the encoding: the program is verified even when  *)
(* there were encoding errors.  What Viper answers is not known: success,  *)
(* failures at some positions, consistency errors, a Java exception.       *)
(***************************************************************************)
Verdict(errors) ==
  /\ phase' = IF EncodingErrors = {} /\ errors = <<>> THEN "Success" ELSE "Failure"
  /\ enc' = [enc EXCEPT !.reported =
               @ \o [i \in DOMAIN errors |->
                       [of |-> "viper", kind |-> Translate(errors[i]), error |-> IsError(Translate(errors[i]))]]]

Verify ==
  /\ phase = "verify"
  /\ \/ Verdict(<<>>)
     \/ \E pos \in 0 .. Len(enc.positions) : Verdict(<<pos>>)
     \/ /\ phase' = "Failure"                 \* consistency errors, a Java exception
        /\ enc' = Emit(enc, "internal")
  /\ UNCHANGED <<work, skip>>
  /\ NoIntern

EncoderStep ==
  \/ EncodeType \/ Iterate \/ BorrowMut \/ Release \/ PushTempTymap \/ CleanupTyMapStack \/ EncodeItemName \/ Fail \/ Register
  \/ EncodeFunctionReturnType \/ GetProcedureContractForDef \/ EncodeMirrors
  \/ EncodePureFunctionDef \/ SubstituteForKey \/ LookUpPureFunction \/ InsertPureFunction
  \/ CallPure \/ EncodePureFunctionUse
  \/ EncodePureExpression \/ LookUpPureExpression \/ InsertPureExpression
  \/ EncodeProcedure \/ InsertProcedure \/ CallImpure \/ GetProcedureContractForCall
  \/ EncodeSpecFuncs \/ InsertSpecFuncs

Next ==
  \/ Initialize \/ PopQueue \/ EndOfItem \/ QueueIsEmpty \/ Verify
  \/ TypeTableStep
  \/ EncoderStep
  \/ phase \in {"Success", "Failure"} /\ UNCHANGED vars

\* One thread encodes and verifies: it goes on as long as it can.
Spec == Init /\ [][Next]_vars /\ WF_vars(Next)
-------------------------------------------------------------------------------
(* Properties *)

(***************************************************************************)
(* The encoder never panics: no table is borrowed mutably a second time    *)
(* while an encoding further up the stack holds it, no pure function       *)
(* definition starts with a type map on the stack, and no procedure is     *)
(* queued with substitutions.                                              *)
(***************************************************************************)
NoPanic == phase # "panic"

Defined(table, key) ==
  CASE table = "type_predicates" -> /\ key \in DOMAIN enc.type_predicates
                                    /\ enc.type_predicates[key] \subseteq DOMAIN enc.type_predicates
    [] table = "encoded"   -> key \in DOMAIN enc.encoded
    [] table = "type_tags" -> key \in DOMAIN enc.type_tags
    [] table = "functions" -> \E k \in enc.pure_functions : k[1] = key
    [] OTHER -> key \in enc[table]

(***************************************************************************)
(* get_viper_program collects the tables when the queue is empty: unless   *)
(* an error or a warning was emitted, everything that some encoding refers *)
(* to is defined in the program.                                           *)
(***************************************************************************)
ProgramClosed ==
  phase = "verify" /\ enc.reported = <<>> => \A u \in enc.uses : Defined(u[1], u[2])

(***************************************************************************)
(* A pure function that cannot be encoded is reported once for each of its *)
(* instantiations, however often it is called or queued.                   *)
(***************************************************************************)
FailuresReportedOnce ==
  work = <<>> => \A f \in DOMAIN Fns : Fns[f].pure =>
    Cardinality({i \in DOMAIN enc.reported : enc.reported[i].of = f})
      = Cardinality({k \in enc.failed_pure_functions : k[1] = f})

Encoded(f) ==
  IF Fns[f].pure THEN \E k \in enc.pure_functions : k[1] = f
  ELSE f \in DOMAIN enc.procedures /\ enc.procedures[f] = "procedure_encoded"

(***************************************************************************)
(* Success is only reported when every function that was to be verified    *)
(* and is not trusted is in the program, not as a stub, unless unsupported *)
(* features are skipped.                                                   *)
(***************************************************************************)
SuccessMeansVerified ==
  phase = "Success" /\ ~skip => \A f \in enc.task : Fns[f].trusted \/ Encoded(f)

\* Every task ends with a verdict: the queue becomes empty.
EveryTaskEnds == <>(phase \in {"Success", "Failure"})

===============================================================================
