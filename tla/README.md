# A TLA+ verification project for Prusti

Prusti verifies Rust programs.  It hooks into the Rust compiler, translates the
MIR of each annotated function into a Viper program, hands that program to a
Viper backend running in a JVM, either in process or on a *Prusti server*, and
reports Viper's errors at Rust source positions.

This directory holds TLA+ models of the parts of Prusti that carry its logic:
the way of a specification from the macros to the encoder, the encoder with its
queue and tables, the encoding of pure functions and of procedures, the loans of
references, fold-unfold, the dataflow analyses, the optimisations, and the
concurrent server.  The models are checked with TLC on small instances; what
makes the server, the three dataflow analyses and the encoder (its call stack,
names, tables and the program it puts together) correct is also proved with TLAPS,
for instances of any size.

Contents: [inventory](#inventory) · [modules](#modules) ·
[server](#the-verification-server) · [specifications](#specifications) ·
[encoder](#the-encoder) · [pure functions](#pure-functions-and-expressions) ·
[procedures](#procedures) · [borrows](#borrows) · [fold-unfold](#fold-unfold) ·
[analyses](#the-dataflow-analyses) · [runs and bounds](#runs-and-bounds) ·
[fairness](#fairness) · [proofs](#proofs) · [findings](#findings) ·
[remarks](#remarks) · [what is not modelled](#what-is-not-modelled) ·
[plan](#plan)

Paths in this file are relative to the root of the repository.

## Inventory

How a crate is verified: `cargo-prusti`/`prusti-rustc` (**launchers**) set up the
environment and start `prusti-driver`, a rustc with callbacks.  The **macros** of
`prusti-specs` have turned specifications into ordinary Rust items; after type
checking, the callbacks collect them (**specification collection**), build the
**environment** (procedures, loops, borrow information from Polonius) and call
the **verifier**, which puts every procedure into the queue of the **encoder**.
The encoder produces VIR functions and methods; **fold-unfold** completes them;
**optimisations** simplify them; the program goes to Viper through the **Viper
bindings** or to the **server**; the **error manager** translates the answer
back.

| component (source) | state it keeps | operations | what is hard | what makes it correct |
|---|---|---|---|---|
| verification server (`prusti-server/src`) | cache of verifier threads; per thread an mpsc queue; per request a oneshot channel | accept, take or create a thread, send, wait, put back and evict; start, verify, panic, exit | concurrency of handlers and threads, panics, eviction, boundary of the cache size | a request is answered once with its own result; a thread has one owner; the cache is bounded and holds live threads; every request is answered; no thread leaks |
| specification macros (`prusti-specs`) | the counter of identifiers | parse, number, rewrite items | the parser cuts token streams before Rust parses the pieces | what is refused has a reason; nothing is lost or regrouped |
| specification collection (`prusti-interface/src/specs`) | tables from identifiers to specifications | visit the HIR, look up, merge | pieces are joined again by identifiers; duplicates; traits | each function gets the specification that is written at it |
| encoder queue and tables (`encoder.rs`, `name_interner.rs`) | `RefCell` tables per kind of item, LIFO queue, error list, stack of type maps | encode on demand, memoise, mark failures, intern names | re-entrancy, cycles, failures half-way | nothing is borrowed twice; the program is closed; names are unique; the queue becomes empty |
| type, snapshot, builtin encoders | memo tables | generate predicates, functions, domains | recursive and generic types | each type is encoded once, under its own substitution |
| verification driver (`prusti-viper/src/verifier.rs`), error manager | program under construction; positions with contexts | encode, verify, translate, report | partial failure | success is reported only if everything was verified |
| pure function and specification encoders (`mir_interpreter.rs`, `pure_function_encoder.rs`, `spec_encoder.rs`) | backward state per block | run over an acyclic body | order of blocks and of substitutions, merging of branches | the expression equals the function |
| MIR encoder (`procedure_encoder.rs`) | CFG under construction, per-block labels, loop invariants, pledges | encode each statement and terminator, the contract, loops | loops are cut and encoded twice; unresolved edges; what is initialised | an accepted procedure keeps its promises |
| loop encoder, initialisation | loops; permission forests at loop heads | compute the permissions of an invariant | which places are initialised there | invariant covers what the body uses |
| borrow information (`polonius_info.rs`, `borrows.rs`) | facts from Polonius, fake loans, zombies | expiring loans, reborrowing DAG, conflict sets | overwritten and moved references, branches | every loan expires once, before its memory is needed |
| fold-unfold (`prusti-viper/src/encoder/foldunfold`) | per path: access and predicate permissions with amounts, moved places, a log | obtain, apply a statement, join, expire borrows | long sequences of legal statements; iteration order; borrows that outlive joins | it never fails on a legal program; what it emits verifies; permissions come back once |
| VIR (`prusti-common/src/vir`) | expressions, statements, basic blocks | build, traverse, substitute | back edges, unreachable blocks | each block is visited after its predecessors |
| VIR optimisations, purifier | functions found constant, variables found pure | simplify, inline, delete, merge | interference of passes | verification results are preserved |
| dataflow analyses (`analysis/`, `prusti-interface/.../mir_analyses`) | per block and edge an abstract state; a worklist | iterate, join, transfer | termination; what is revisited | result is a sound fixed point |
| configuration (`config.rs`) | one global settings value | layer defaults, file, environment, command line | order of layers | the later layer wins |
| launchers, Viper bindings, code generators, tests | – | I/O | – | – |

`PROJECT.json` lists every component with its sources and status, and every
*hazard*: a line of the code where something can go wrong that a test would
hardly reach, with the properties below that would catch it.

## Modules

| module | models | used by |
|---|---|---|
| `VerificationService` | what the trait `VerificationService` promises a client (abstract) | `PrustiServer` (refinement) |
| `PrustiServer` | `prusti-server/src/{lib,verifier_thread,service,verifier_runner}.rs` | `PrustiServerProofs` |
| `Preparser` | `prusti-specs/src/specifications/preparser.rs`, over token trees | `Specifications` |
| `Specifications` | the other files of `prusti-specs`, `prusti-interface/src/specs`, `spec_encoder.rs`; and what a specification means to its reader | |
| `NameInterner` | `name_interner.rs` | `EncoderCore` |
| `EncoderCore` | the tables of `encoder.rs`, its call stack, types and substitutions, errors | `TypeTables` |
| `TypeTables` | encodings keyed by types: `type_encoder.rs`, `snapshot/`, `builtin_encoder.rs`, `array_encoder.rs` | `Encoder` |
| `Encoder` | encodings keyed by functions, the queue, the driver, `error_manager.rs` | `EncoderProofs`, `EncoderTablesProofs` |
| `VirExpr` | pure expressions (`vir/ast/expr.rs`), their evaluation in Viper, and their rewritings (`simplifier.rs`, `folding/expressions.rs`, `functions/inliner.rs`) | `PureMir` |
| `PureMir` | reference: the MIR of a pure body and its execution | `PureFunctionEncoder` |
| `PureFunctionEncoder` | `pure_function_encoder.rs`, `mir_interpreter.rs`, `mir_encoder/mod.rs` | `PureExpressions` |
| `PureExpressions` | `Program::optimized` for expressions; composition of the three modules above | |
| `ProcedureLoops` | `loops.rs`, `procedure.rs`, `loops_utils.rs`, `loop_encoder.rs` | `ProcedureEncoder` |
| `ProcedureEncoder` | `procedure_encoder.rs`, `cfg/method.rs`, `optimizations/methods` | `Procedures` |
| `Procedures` | the life of a procedure: load, encode, contract, optimise, verify, run; `cfg/visitor.rs` | |
| `BorrowCheck` | external: MIR with references, the facts of rustc's borrow checker | `PoloniusInfo` |
| `PoloniusInfo` | `polonius_info.rs` | `Borrows` |
| `Borrows` | expiry of loans in `procedure_encoder.rs` and `borrows.rs`, along the executions of a body | |
| `FoldUnfoldState` | places of VIR, their prefixes, bodies of predicates (`places_utils.rs`, `footprint.rs`, `perm.rs`); `state.rs`, `semantics.rs`: tracked permissions and the effect of a statement on them | `PathCtxt`, `Viper` |
| `PathCtxt` | `path_ctxt.rs`, `log.rs`: obtain and join | `FoldUnfold` |
| `Viper` | external: what Viper does with the emitted statements | `FoldUnfold` |
| `FoldUnfold` | `mod.rs` (`replace_stmt`, joins), `process_expire_borrows.rs`, `requirements.rs`, and the statements that `procedure_encoder.rs` emits | |
| `Mir` | external: MIR bodies as the analyses read them, and what their paths do (collecting semantics) | `Analyzer`, `DefinitionPaths`, `MirProofs` |
| `Analyzer` | `analysis/src/analyzer.rs`, `pointwise_state.rs`, for any abstract domain | the two domains (INSTANCE), `AnalyzerProofs` |
| `DefinitelyInitialized` | `definitely_initialized.rs` and `place_utils.rs` composed with `Analyzer`, and `mir_analyses/initialization.rs` | `DefinitelyInitializedProofs` |
| `DefinitionPaths` | reference: the definition of each variable on a path; the bodies that both runs about definitions enumerate | the next two |
| `ReachingDefinitions` | `reaching_definitions.rs` composed with `Analyzer` | `ReachingDefinitionsProofs` |
| `Liveness` | `mir_analyses/liveness.rs`, `common.rs` | `LivenessProofs` |
| `MC...` | values of the constants for TLC | |
| `...Proofs` | theorems; `MirProofs` has the inductions that the proofs about analyses share | |

Definitions have the name of the function they translate where TLA+ allows it;
`PROJECT.json` maps each one to its lines.  A definition whose name has a suffix
after an underscore (`join_Forgets`) and whose comment begins with "Mutant" is
a plausible bug: it replaces the definition of that name when the properties are
tried out, and belongs to no specification.

The components that only compute something (an encoding, an analysis of loans, a
sequence of rewritings) are modelled as a run of that computation on one of the
inputs of the instance, chosen by `Init`, one action per stage or step of the
code, with the reference (the execution of the program, the meaning of the text)
as further actions or as definitions that the invariants compare with.

## The verification server

A tokio runtime with `max_concurrency` workers runs the HTTP handlers.
`PrustiServer::run_verifier` (`prusti-server/src/lib.rs`) locks the cache and
takes out the first thread with the right backend configuration, or creates one;
sends it the request with a oneshot sender; **blocks** on the oneshot receiver;
and, if it got a result, locks the cache again, evicts from the back when the
cache is full, and pushes the thread to the front.  If the sender was dropped,
the thread panicked and is thrown away.

| model | code |
|---|---|
| `pc`, `req`, `held` of a worker | the program counter and locals of `run_verifier` |
| `threads` | `PrustiServer.threads: RwLock<VecDeque<VerifierThread>>`, of which only the write lock is taken |
| `vstate`, `current` | where a verifier thread is in `VerifierThread::new` and `listen_for_requests` |
| `queue`, `oneshot` | the channels of `verifier_thread.rs`; a dropped sender is `Canceled` |
| `Accept`, `Reject` | the warp filter chain, with a body that does or does not decode |
| `TakeThread` | the first critical section, one atomic step because of the lock |
| `CreateThread`, `SpawnFails` | `VerifierThread::new`, whose `spawn(..).unwrap()` may panic |
| `SendToThread`, `SendFails` | `VerifierThread::verify`, whose `send(..).unwrap()` panics if the thread is dead |
| `PutBack`, `HandleCanceled` | the two arms after `wait()`; `PutBack` is the second critical section |
| `StartUp`, `StartUpPanics` | attaching to the JVM and starting the backend |
| `Receive`, `SendResult`, `VerifyPanics`, `Exit` | the loop of `listen_for_requests` |

A thread is created by exactly one request, hence its name.  A result carries
the program and the configuration it was computed for, so that an answer that
belongs to someone else is visible.  The wire formats are left out: a request
decodes or not.

`VerificationService` says what a client relies on: each posted request is
answered at most once, with the result of *its* program under *its*
configuration or with an error; `FairSpec` adds that it is answered.
`PrustiServer` refines it with the identity mapping on `sent` and `response`.
`CacheBounded` makes an exception for a cache size of 0: `run_verifier` evicts
before it pushes, so a server with `server_max_stored_verifiers = 0` keeps the
thread used last.

## Specifications

`#[requires(..)]` and the other macros parse the tokens of a specification,
give each expression in it an identifier, hide the expressions in functions and
closures that rustc only type-checks, and write the structure of the assertion,
as JSON with the identifiers, into an attribute.  The collector finds both in
the HIR and joins them; the specification encoder encodes the typed assertion.

`Preparser` translates the parser: a token is an identifier, one character of
punctuation or a group.  `Specifications` has an action per macro
(`rewrite_prusti_attributes`, `refine_trait_spec`, `extern_spec`,
`body_invariant`, `closure`, `predicate`), then `check_predicate_usages`,
`Collect`, `build_def_specs` and `Encode`.  An identifier is the pair of the
number of the specification and of the expression; a `DefId` is the path in the
tree of HIR items.  An item of a crate is a record of the macro, the node, the
name, the parameters, the attributes, the predicates its body uses and the
target of an implementation or external specification.

The reference is a reading of the tokens with the precedences a reader expects
(`==>` weakest and to the right, then `||`, `&&`, `==`, `!`).  All variables are
Booleans, so an assertion has a truth table, and quantifiers are finite.
`RefusedForAReason` and `MeansWhatIsWritten` compare the two; `NoPanic` says that
no `unwrap` or assertion of the collector fails on what the macros generate.

`Reasons` lists why a crate should be refused: an annotation is malformed or
ambiguous, an annotated item has a parameter `result`, a predicate is used in code, a
function has two specifications.  The code does not notice two of them: a pledge that
mixes `&&` and `||` (`UncheckedPledge`), although the other annotations may not, and the
default method of a trait that uses a predicate (`UncheckedCode`), although
`checker.rs:19-20` says that predicates are never used from non-specification code.
Both are in the instance; `RefusedForAReason` names them as its exceptions, and
`MeansWhatIsWritten` says nothing of a pledge that mixes the operators.  Which variable a
name in a quantified expression stands for is not looked up in the text: as the code
does, `translate_expr_to_closure_def_site` replaces captured places, one closure at a
time, until the definition site is reached.

## The encoder

`Encoder` keeps one table per kind of item, each in a `RefCell`, and fills them on
demand: encoding a procedure asks for its types, whose predicates ask for other
types, snapshots, discriminant functions, tags, and the pure functions it calls
put these into the queue with their substitutions.

The call stack is explicit: `work` is what is still to be done, the next step
first.  A call is pushed as the sequence of its steps; the drop of a `RefMut` or
of a type-map token is a step at the end of its scope; an `Err` unwinds `work` to
the code that handles it and runs the drops it passes.  A second `borrow_mut` of a
held cell, the assertions on the stack of type maps, and a procedure with
substitutions are panics.  The driver's part begins when the queue is empty:
Viper may answer anything, and `Verdict` translates positions and decides.

| property | meaning |
|---|---|
| `NoPanic` | no cell is borrowed twice, no assertion fails, errors included |
| `UniqueSymbols` | interned names are unique, whatever arrives in which order |
| `ProgramClosed` | what some encoding refers to is defined when the program is collected |
| `FailuresReportedOnce` | a pure function that fails is reported once per instantiation |
| `SuccessMeansVerified` | success is reported only if each function of the task is in the program, and not as a stub |
| `EveryTaskEnds` | the queue becomes empty, for recursive and polymorphic functions and types |

## Pure functions and expressions

The body of a pure function, and every assertion, becomes one expression by
interpreting the MIR backwards: the state of a block is the result in terms of
the values of the locals at its beginning.  `PureFunctionEncoder` takes one block
per step from `pending_blocks`, as `run_backward_interpretation` does; the
result is simplified.  Impure calls and unsupported operations whose result is used
are refused (`FailBlock`); the assertions of `apply_terminator` on the number of successors are
`PanicInBlock`.  `PureMir` executes the same body forwards, with overflow,
panics, references, pairs and an enum with discriminants of its own; `VirExpr!Eval`
evaluates the expression as Viper would, where `unfolding` needs the predicate
folded and a function application its precondition.

`HeadsExact`: the state of *every* block, not only of the first, equals the
execution from there, for all values of the locals.  `FunctionExact`: so does the
function that Viper gets, before and after simplification.  `OptimizedExact`: a
program whose expressions are well-defined keeps their values through inlining of
constant functions and moving unfoldings outwards; old expressions keep theirs inside,
and expressions with permissions stay as they are.

## Procedures

`Procedures` follows one procedure: `Load`, `PreprocessLoops` (natural loops, the
block of the invariant), `Encode` (blocks and loops become a loop-free graph),
`AddContract` (pre- and postcondition, refinement of a trait), `Optimise`,
`RunViper`; if it is accepted, `Call` starts an execution of the *MIR* in every
state of the precondition and `ExecBlock` runs it.  Memory is seen at the level of
leaves: permissions to a place are permissions to its leaves, so folding is no
step here.  A loop is encoded as in the code: the part before the invariant, the
exhaled and inhaled invariant with havocked locals, and the parts once more,
ending in the exhaled invariant; unresolved edges are patched.

| property | meaning |
|---|---|
| `VerifiedMeansSafe` | an accepted procedure, run from any state of its precondition, breaks none of its promises |
| `TraversalSucceeds` | the graph is acyclic with all edges resolved, and `cfg/visitor.rs` finds a context for each predecessor |
| `VerdictMatchesRules` | the errors are those that the rules of the specification give, computed independently per family of procedures in `MCProcedures` |

## Borrows

`PoloniusInfo` gets the facts of rustc's borrow checker for a body (computed in
`BorrowCheck`), adds fake loans for moves and calls, runs Polonius' rules, finds
the loans that live on as *zombies* after their variable is overwritten, conflicts
of shared loans, and the DAG of reborrows that expires at a location.  `Borrows`
executes the body with that information: every reference has an address (the
place that owns the memory) and the chain of loans it came through; each location
expires what the code expires there, transfers permissions between the *names* the
code gives them (with `old[l]`), and restores write permissions; a body that
returns a reference packages a wand.  Bodies that rustc would reject end as
`rejected`.

| property | meaning |
|---|---|
| `NoLoanForgotten` | a loan that has not been given back is alive or a zombie, so it will expire; none is left at the end |
| `NothingBlockedIsUsed` | a statement that rustc accepts finds the permissions it needs |
| `TransfersAlias` | both names of a transfer stand for the same memory, except at a join when the loan has expired before on the path taken (see [remarks](#remarks)) |
| `RestoreIsSafe` | write permission comes back when nobody else can read |
| `NoPanicWithoutBranches` | no assertion of the construction of the DAG fails |

## Fold-unfold

The MIR encoder emits statements without `fold` and `unfold`.  Fold-unfold goes
through them, keeps a symbolic state of the permissions held (`State`: maps
from places to `Read`, `Write` or `Remaining`, for field access and for
predicates, and the set of moved places), computes what each statement needs,
obtains it by folding and unfolding, applies the statement, and at a join makes
the states of the predecessors equal.  When borrows expire it gives the borrowed
permissions back to the lender, using a log of what was dropped at joins,
duplicated for shared borrows, and converted from `Write` to `Read`.

The model runs this algorithm against two other views of the same procedure:

* `ctx`: what fold-unfold tracks (`PathCtxt`: state, log, and the emitted
  statements), one context per side of the branch;
* `vip`: what Viper holds on each of the two executions.  `Viper.tla` executes
  the emitted statements: objects have identities, places are resolved through
  the heap, permissions are rational numbers in multiples of the read amount,
  and a statement that lacks a permission sets `ok` to false.  Viper is not in the repository;
  the module models it from how `to_viper.rs` uses it;
* `mir`: what the borrow checker knows (uninitialised places, loans, known
  variants).  It decides which operations a *legal* program may do next; without
  it every property would be about programs that rustc rejects.

A procedure is a straight line, one branch (on a condition, or a `match` on an
enum), and a straight line after the join.  An action chooses the next MIR
operation among all legal ones (`Call`, `Consume`, `Move`, `WriteValue`,
`ReadValue`, `Borrow`, `Expire`), translates it into the statements that
`procedure_encoder.rs` emits, runs `replace_stmt` on each and lets Viper execute
the output.  `Branch`, `Switch`, `OtherSide` and `Join` move between the
segments.  So TLC enumerates every legal procedure within the budget.  `proc`, one
of `Procedures`, says which variables, places and operations a procedure may use
and how many operations and loans.

`obtain`, `join`, `process_node`, `restore_dropped_perm`, ... keep their Rust
names.  Rust assertions and `unwrap`s become values of `ctx[i].err`.  Hash sets
are iterated in one order and in its reverse (`reversed`).

| property | meaning |
|---|---|
| `NoTranslationError` | no assertion of the algorithm fails and no needed permission is missing, for any legal procedure of the instance (see [remarks](#remarks) for ones outside of it) |
| `EveryStatementVerifies` | Viper has every permission that the emitted statements need |
| `UnderApproximation` | whatever fold-unfold tracks, Viper holds, on every execution that reaches the point |
| `InitialisedIsAvailable` | the same, once there are borrows only for initialised places (see [remarks](#remarks)) |
| `MovableIsObtainable` | the predicate of each variable that may be moved can be obtained |
| `WriteRestored` | when no loan is alive, nothing is left at `Read` |
| `JoinIsSymmetric` | a join depends neither on iteration order nor on the order of its predecessors |

## The dataflow analyses

`Analyzer::run_fwd_analysis` is one fixed-point iteration for every abstract
domain: it takes the block with the smallest index from the work set, joins the
states on the edges of those predecessors that were visited, applies the
statements and the terminator, and inserts the successors for which the state on
the edge changed.  In `Analyzer.tla` one iteration is the action `AnalyzeBlock`;
the operations of the trait `AbstractState` are CONSTANT operators, for which
`DefinitelyInitialized` and `ReachingDefinitions` substitute their domains with
INSTANCE.  `status` is what the function returned, errors included.
`need_to_widen` is constantly false in every domain, so widening is left out.

A MIR body is a function from block indices to blocks; a statement is the place
it assigns and the places it moves; a terminator has a kind, moves, a place,
targets and an unwind block (`Mir.tla`).  `FalseEdge` and the like are plain
targets, as for the analyses.  Places are sequences of projections, over struct,
enum and box types.

`Liveness` has a loop of its own: a stack of work items, filled by
`propagate_work_queue` (a block per step, in the model) and processed by
`apply_statement_effects`, `apply_terminator_effects` and `merge_effects`.  Its
result has one set after each terminator, where `Analyzer` has one state per edge.

All are compared with the paths of the body: `Mir!Entering` computes the
concrete states in which a path can enter each block.  For initialisation a
concrete state is the set of leaves that are initialised; for definitions it maps
each variable to the assignment it got its value from.  Both kinds of terminators that
assign a place do so in the reference, `Call` and `DropAndReplace`; the analyses of
definitions know the first one only, so an assignment of the second kind is the
definition `Replacement`, which they overlook.

| property | meaning |
|---|---|
| `FixedPoint` | when `run_fwd_analysis` returns, visiting any block again changes nothing |
| `OnlyInitialisedIsClaimed` | what the converted result claims holds on every path, unwinding included |
| `AllInitialisedIsClaimed` | and for structs nothing is lost, where no unwinding leads |
| `ReachingDefinitionsExact` | the definitions found at a location are exactly those that paths carry there, except for the assignment of a `DropAndReplace`, which is never found, and for what it overwrote, which may still be |
| `WaitingOrSettled` | a point that is out of date has its work item on the stack |
| `ExactWithoutUnwinding` | the result of `Liveness` is that of the paths, where no unwinding leads, with the same exception |

The exactness properties are about bodies without dead blocks: all blocks start
in the work set, so a dead block contributes its states to the joins after it.

## Runs and bounds

Each passing run has one mutant per property (`PROJECT.json`, "mutants"): a
plausible bug in a mapped definition for which TLC must find the property
violated.

| run | bounds | shows |
|---|---|---|
| `Server` | 2 workers, 4 requests (one undecodable) of 2 configurations, cache of 1, fairness | refinement of the service, ownership, idle and bounded cache; every request is answered, orphaned threads exit |
| `Specifications` | 6578 crates of one or two items; sequences of up to 7 lexemes, nested and shadowing quantifiers, triggers, entailments, pledges (ambiguous ones too), duplicates, traits, external specifications | refusals have a reason, the lookup never fails, the meaning is kept |
| `Encoder` | tasks of one or two functions out of 14, with recursive, generic and mutually recursive types, generic pure functions, failing and trusted functions; substitutions nested at most 5 deep (`ResolveDepth`) | no panic, closed program, failures reported once, right verdict, the queue empties |
| `PureExpressions` | some 900 bodies of up to 5 blocks over 8-bit integers, Booleans, pairs, an enum and references; some 600 programs of 3 functions | exactness of the interpretation and of the optimisations |
| `Procedures` | 1668 procedures; integers 0..2; loops, nested loops, calls, traits, references, unsupported code, panics checked or not | accepted means safe, traversal succeeds, verdict as the rules say |
| `ProcedurePurified` | one family of procedures with a `usize` in a loop | violation: finding 1 |
| `Borrows` | 764 bodies of up to 6 statements, of which rustc accepts 457; two owners, mutable and shared references, a pair, calls of 4 signatures, a branch, returned references | loans come back once, in time, under the right name |
| `FoldUnfoldOwned` | `Moves`: 2 structs, 1 integer; `Enums`: 2 enums, 1 integer; 1+2+1+2 operations each; `Mutable`: a nested struct, a struct and 1 `&mut`; 2+2+2+3 operations | moves, consumption, refilling; matches, with variants unfolded on one side only; a reference to different places on the two sides, expiring anywhere |
| `FoldUnfoldShared` | `Shared` and `Fields`: a nested struct, 2 `&`; 2+2+2+3 operations | splitting and restoring permissions; equalised amounts and merged logs at a join |
| `DefinitelyInitialized` | all bodies of 4 blocks over the given statements and terminators, with a nested struct and an integer, or an enum and a box | fixed point, sound, exact for structs |
| `ReachingDefinitions` | all bodies of 4 blocks, 2 variables, one an argument; `DropAndReplace` among the terminators | exact but for `DropAndReplace` |
| `Liveness` | the same bodies, at most 40 iterations | no work is forgotten; exact without unwinding, but for `DropAndReplace` |

Why the bounds are enough to be interesting.  In the server a race needs two
handlers; an eviction needs a cache smaller than the number of threads; reuse
and wrong reuse need two requests of one configuration and one of another: all
happen with three decodable requests of which two share a configuration.  In fold-unfold every statement
kind occurs before, in and after the branch; struct nesting of 2 makes a place
reachable through an intermediate predicate; two fields make one place foldable
and its sibling not; two shared references are the least with which expiry
order matters.  The field `budget` of a procedure caps the operations of each
segment, `loans` the borrows.  A body of four blocks has a branch, a join, a loop
that is entered at two places, a block that is entered by unwinding, dead blocks,
and blocks with a smaller index than their predecessor; two statements in one of
the blocks let one undo the other.  `MaxIterations` is 40 where the code has
1000000: the largest body is done before.  For loans, five statements suffice to
borrow, reborrow, overwrite, overwrite again and use; the sixth is for shared
references, pairs, calls and branches.  In the encoder two functions of a task are what it takes
for one to find what the other has left in the tables.  With integers up to 2 a
loop can run twice, so that an invariant is lost in the second iteration and not
only in the first.  8-bit integers have both bounds within the values the
instance evaluates.

Deadlock is not checked for the server, which may be idle for ever, and for
fold-unfold and the analyses, which end; the other specifications stutter
explicitly when they are done, and are checked for deadlock.

## Fairness

`PrustiServer!FairSpec`, under which the server is checked, assumes weak fairness
of each worker's and each verifier thread's steps.  The tokio runtime keeps polling
ready tasks and the operating system schedules every thread.  Weak fairness of
`ThreadStep` includes that a call of Viper returns or throws; a backend that never
returns blocks its worker for ever, in the code as well, because `run_verifier` has
no timeout.  Clients need not be fair.  The safety properties of that run hold
without fairness (and are proved so).

`Encoder!Spec` assumes weak fairness of `Next`: one thread, which goes on as long
as it can.  No other run assumes fairness.

## Proofs

| module, theorem | statement |
|---|---|
| `PrustiServerProofs` `Invariance` | `Spec => []IInv` |
| `TypeCorrect` | `Spec => []TypeOK` |
| `ThreadsOwnedOnce` | `Spec => []OwnedOnce` |
| `CacheIsIdle` | `Spec => []CachedThreadsIdle` |
| `CacheStaysBounded` | `Spec => []CacheBounded` |
| `ResultsAreAwaited` | `Spec => []ResultIsAwaited` |
| `ParallelismStaysBounded` | `Spec => []ParallelismBounded`, if `Workers` is finite |
| `ServerImplementsService` | `Spec => Service!Spec` |
| `EncoderProofs` `StackDiscipline` | `Spec => []IInv` |
| `EncoderNeverPanics` | `Spec => []NoPanic` |
| `SuccessIsEarned` | `Spec => []SuccessMeansVerified` |
| `SymbolsAreUnique` | `InternerSpec => []UniqueSymbols` |
| `SymbolsAreStable` | `InternerSpec => StableSymbols`: a symbol that was handed out stays |
| `EncoderTablesProofs` `TablesAreSound` | `Spec => []TInv` |
| `EachFailureIsReportedOnce` | `Spec => []FailuresReportedOnce` |
| `EncoderInterns` | `Spec => InternerSpec` |
| `EncoderSymbolsAreUnique` | `Spec => []UniqueSymbols` |
| `ReferencesAreCovered` | `Spec => []RInv` |
| `EncodedProgramIsClosed` | `Spec => []ProgramClosed` |
| `AnalyzerProofs` `ResultIsFixedPoint` | `Spec => []FixedPoint`, for every abstract domain |
| `ResultIsSound` | `Spec => []Sound`, for every domain with sound operations |
| `ResultIsPrecise` | `Spec => []Precise`, for every domain with precise operations |
| `DefinitelyInitializedProofs` `InitialisationIsFixedPoint` | `Spec => []FixedPoint` |
| `ClaimsAreInitialised` | `Spec => []OnlyInitialisedIsClaimed` |
| `InitialisedIsClaimed` | `Spec => []AllInitialisedIsClaimed` |
| `ReachingDefinitionsProofs` `DefinitionsAreExact` | `Spec => []ReachingDefinitionsExact` |
| `LivenessProofs` `NothingIsForgotten` | `Spec => []WaitingOrSettled` |
| `LivenessIsExact` | `Spec => []ExactWithoutUnwinding` |

**Server.** `PrustiServerProofs` is about any set of workers, requests and
configurations, any cache size and any set of result kinds.  Assumptions:
`ServerAssumption` (`CacheSize` is a natural number, undecodable requests are requests,
`None` is not one).  None of the properties is inductive.  The invariant `IInv` adds to them what
a worker knows at each point of `run_verifier` (`WorkerOK`): before sending, its
thread is alive with an empty queue or died while starting up (`SendOK`); while
waiting, its request is in exactly one place: the thread's queue, the thread's
hands, or the oneshot channel, answered or canceled (`WaitOK`).  `HandledOnce` says
that no request has two workers, `Fresh` that a request without a worker has never
created a thread that is about to be created again, `BusyHeld` that a thread that
starts up or verifies is held by a worker, `CacheOK` that cached threads are idle.
With `WaitOK` a result in a oneshot channel was computed for the request and for a
thread whose configuration is the request's: that is the refinement.  The proof
has one step per action, and under it one per conjunct the action can disturb;
`BusyHeld` gives `ParallelismBounded` by an injection from busy threads into
workers.

**Encoder.** `EncoderProofs` is about every crate, every task, every nesting of types
and every sequence of requests.  Assumption: `FnsAssumption` (a task consists of
functions of the crate; what their code asks for is one of `Requests`; a call of a pure
function calls a function with that attribute).  Nothing is assumed of the types: they
may be recursive in any way, and what the recursive operators on types compute plays no
part.  `NoPanic` looks one step ahead, so the invariant is about the whole stack
`work` (`Stack`):

* every step has a rank (`Rank`): the highest rank of a cell it may still borrow
  (`CellRank`: the array types are below the snapshot encoder, which is below the
  discriminant functions);
* a cell that is held has its `release` on the stack, and only steps of a lower rank
  come before it, so nothing that runs while a cell is held can ask for it again
  (`Released`); the same holds of a cell that is about to be borrowed (`Brackets`);
* a type map is pushed while nothing but naming comes before it (`PushFirst`), and
  there are as many `pop_tymap` steps as there are maps on `typaram_repl` and maps
  still to be pushed;
* `queue_done`, the handler of last resort, is the last step and no other; a
  `pure_function_def` is the first step, with no map on the stack.

`Fits` and `Steps` say the same of a sequence of steps that an action is about to push;
there is one lemma per operator that builds one (`WithTymap`, `Borrowed`, `GivenBody`,
`PureFunctionParts`, ...), and `PrefixStack` puts such a sequence on top of a stack.
`Unwind` is the hard case: it drops the steps down to the handler, so what remains
held must be what the steps below release.

For `SuccessMeansVerified` the invariant keeps an account (`Accounted`): as long as
no error has been emitted and none is about to be, each function of the task is trusted,
encoded, in the queue, or among the steps to come (`Pending`), and a pure function that is
marked as failed is being encoded.  With an error of a kind that counts, `Verdict` cannot
say success (`ReportsOK`).

`SymbolsAreUnique` and `SymbolsAreStable` are about every set of names, lists of readable
names and order of calls.  `ReadableAssumption` is the contract of `intern`: a readable name
is never the full name of another definition.  Uniqueness alone is not inductive:
`InternerInv` adds that `used_symbols` holds exactly what was handed out and that the
symbol of a name is one of its candidates; a readable name is then new because it is not
used, a full name because only its owner may propose it.

**Tables of the encoder.** `EncoderTablesProofs` builds on `EncoderProofs` and proves what
ends up in the tables.  Here the types matter, and three assumptions are added:
`TypesAssumption` and `MapsAssumption` (the types of the crate, `CrateTypes`, and its type
maps, `CrateMaps`, are closed under what the encoder makes of them: arguments, fields,
dereferencing, substitution, one map on another) and `SignaturesAssumption` (signatures
are made of those types; functions and types have names that the interner knows).  They exclude
only crates whose types grow without bound, for which the encoder does not end either;
TLC evaluates them for the crate of the run.  Types may still be recursive, in any number and
in any way; `FoldTy` is `EncoderCore`'s, which stops after `ResolveDepth` substitutions
within each other.

`TInv` is the invariant about names and failures:

* `Typing`: each step on the stack is a step that some function of the encoder makes, about
  types, functions and maps of the crate;
* `Names`: a recorded name of a predicate or an invariant is what `NameOf` computes now, and
  all it is made of is recorded.  Hence later entries never change it, and the key under
  which a pure function is inserted is the one under which it was looked up, although
  everything in its body was encoded in between;
* `Ready`: what a step will look up is recorded, or a step that comes before it on the stack
  records it (`Needs`, `Gives`, `Supplied`).  This is where the order of calls in the code
  matters;
* `ItemShape`: how far the item of the queue is, and that the key of the pure function under
  way is among the failed ones;
* `FailureAccount`: the failed instantiations of a pure function are as many as its reports,
  plus one if it is under way: the code marks it as failed first and removes the mark at its
  insertion.  An error in the body unwinds the stack down to the queue and is reported there,
  and the mark stays; it is reported once, because a second request finds the mark.

The actions push lists of steps.  There is one lemma per list that says which steps it has
(`Typing`) and that it is `Ready`, and one per action that records something, to show that
what was known stays known.  `Unwind` drops steps and, for a procedure, adds those of its
stub.  `EncoderInterns`
follows: `item_name` is the only step that touches the interner, and it interns names of
definitions.  With `SymbolsAreUnique` that gives `UniqueSymbols` for the encoder.

`ProgramClosed` speaks of the end, `RInv` of every state without reported errors: each of the
`References` (what encodings use, names of predicates and what their bodies mention,
snapshots in progress, names of invariants) is `Present` in its table, or a step on the
stack `Delivers` it (`Covered`).  The encoder breaks recursion by recording a name, or a mark in
`in_progress`, before there is a definition, so a lookup may answer before the definition is
there; `Covered` is what remains true then.  `Followed` is
the case of predicates: between `predicate_name` and `predicate_def` of a type other steps
may come.  A pure function may also be looked up while it is marked as failed;
`Accounted` of `EncoderProofs` says that it is then under way, as long as nothing is reported.
When the program is collected the stack and the queue are empty, and `Covered` is
`Present`.

**Analyses.** The reference of all three is `Mir!Entering`, the closure of the entry of a
body under its paths, and the code computes with loops over statements and successors.
Both are recursive functions in the model.  The library's induction theorems take
an operator as a parameter and cannot be instantiated here, so `MirProofs` does without:
a set of natural numbers has a least element (`LeastNatural`, from the well-foundedness of
`<`), hence what holds at 0 and is kept by each step holds up to `n` (`IndexInduction`, about
a set, not a formula).  From this come the values of the functions that the loops are
(`Step` is a parameter that each module substitutes by INSTANCE), and
the lemma `ClosureProperties`, by induction on the number of elements that are not yet in the
closure.

`ResultIsFixedPoint` needs no assumption at all: neither monotonicity nor the laws of
joins are needed for the result to be a fixed point, only for its existence.
`FixedPoint` speaks of the end; the invariant `OthersSettled` says that at any time
the blocks outside the work set are settled.  It is preserved because the states on the
edges into a block that a visit does not insert stay as they are
(`IncomingUnchanged`), hence also what a visit of that block would compute
(`VisitUnchanged`).

`ResultIsSound` and `ResultIsPrecise` are about any domain and any concrete semantics,
which are constants of `AnalyzerProofs`.  `SoundDomain` asks of the operations of
`AbstractState` that a join describes what either side describes and that a statement and
a terminator follow the concrete step; then the fixed point describes every
path, since the set of what it describes is closed under paths.  `PreciseDomain` asks for the
opposite: that no operation says more than some concrete state justifies.  `Precise` is an
invariant of every iteration, not only of the end, because it does not matter in
which order the blocks are visited; it is about bodies without dead blocks.

`DefinitelyInitializedProofs` and `ReachingDefinitionsProofs` instantiate these theorems
and prove their hypotheses for the two domains, so nothing of `SoundDomain` and
`PreciseDomain` is left as an assumption.  For initialisation this is about `expand`,
`collapse` and joins of sets of different depths: the leaves below the places of a state
are what it claims; expanding and collapsing change the places and not the leaves.
Assumptions are about the shape of bodies: blocks are numbered from 0 and terminators
lead to blocks (`WellFormed`); the variables assigned are locals (`DefinitionsAssumption`);
moves and assignments are of places that exist and can be moved out of or assigned
(`PlacesAssumption`).  TLC evaluates them for the bodies of the runs.

`LivenessProofs` is about every body that meets `LivenessAssumption`, of the same kind.
The invariant adds the type of the stack and, for the filling phase, that the items
of all blocks so far are on the stack (`BlocksFilled`).  The lemmas `RangeConcat` and
`PopPush` say what a pop and a push leave on the stack, `ApplyOK` and `MergeOK` that
whatever reads a set that changed is pushed.  With an empty stack the result solves the
equations; that it is the least solution is an invariant as well (every assignment in a set
reaches that point on some path).  Every solution contains what the paths carry:
`LivenessProofs` gets this by comparing with the same paths as
`ReachingDefinitionsProofs`.

**Only model-checked.**

* Liveness (`ImplementsFairService`, `OrphansExit`, `EveryTaskEnds`): TLAPS does not reason
  about fairness.
* Everything about expressions, specifications, procedures, borrows and fold-unfold, whose
  central operators (`obtain`, the evaluation of an expression, the parser) are declared
  RECURSIVE, which the prover cannot reason about.

## Findings

1. `ProcedurePurified`: a local of type `usize` or `isize` that is only used as a
   value is purified after the loops have been encoded.  Its permission is what
   makes exhaling and inhaling an invariant forget its value, and the havoc of
   the loop covers only variables assigned as a whole
   (`prusti-common/src/vir/cfg/assigned_vars.rs:38-54`), not `_y.val_int := 1`.  So it
   keeps the value of before the loop, although the comment at
   `procedure_encoder.rs:608` says that modified locals are havocked.  With
   `y = 0; loop { inv z < x; assert y == 0; y = 1; z += 1 }` a procedure is accepted
   whose second iteration panics.

## Remarks

Things met while modelling.  Each is outside of the instance of the passing run, or is
allowed for by a property, which then says so in its comment.  Where an instance leaves
something out, the list below says it; only some MC modules repeat it.  A property
shows nothing about the hazards that its instance avoids.

Front end (`prusti-specs`, `prusti-interface/src/specs`):

* tokens after a nested quantifier inside the body of a quantifier are dropped:
  `extract_quantifier_rhs` does not look for a rest;
* pledges are not checked by `contains_both_and_or` (`preparser.rs:111-157`), so
  `after_expiry(a || b && c)` is accepted and read as `(a || b) && c`;
* `after_expiry(a ==> b)` is refused, because `=>` is found inside `==>`;
* `(p ==> q), triggers = ...` is refused;
* an external specification of one function for a second implementing type replaces
  the first one (there is a TODO in `external.rs`);
* a predicate used in the default method of a trait is not reported
  (`checker.rs:80-91` skips traits, against `checker.rs:19-20`); an inner `#[pure(x)]`, or `#[requires]` without
  arguments, panics in the macro; `requires` of a closure is parsed as a Rust
  expression first, so `==>` is impossible there; spacing is ignored, `& &` is `&&`.

Encoder and driver:

* with `skip_unsupported_features` a verification error whose context is
  `Unsupported` becomes a warning; `Verifier::verify` still returns a failure, and
  `prusti/src/verifier.rs:67`, `debug_assert!(env.has_errors())`, fails;
* the `unwrap` and `expect` at `encoder.rs:847`, 950 and 1077 are of the name of a type, which
  cannot fail: `TypeEncoder::encode_predicate_use` names unsupported types by their kind and
  never returns an error.  The `unwrap` at 602, on the postcondition of a discriminant, would
  fail for a type whose snapshot has no variants; it is not modelled;
* `encode_stub_pure_function_use` (`encoder.rs:1227-1250`) has no caller.

Pure functions and expressions:

* the overflow check of `i16` compares with `i16::MIN` on both sides
  (`mir_encoder/mod.rs:613`); the instance has `i8`;
* `find_common_unfoldings3` (`folding/expressions.rs:244-269`) takes an unfolding that only
  the guard has for a common one when a branch reads its prefix as a whole;
* the assignment of a field is ignored if only the whole place is mentioned; an
  aggregate of an ADT uses the index of the variant as discriminant; division does not
  truncate towards zero; an assignment `*r = ..` through a mutable reference is ignored;
  `disjoin` of nothing is false, where its comment (`expr.rs:1831-1833`) says true; a
  `FalseUnwind` with a block to unwind to fails an assertion (line 635), so that `loop { return x }` in
  a pure function panics (`PanicInBlock`, without a property); the inliner leaves pre- and postconditions.

Procedures:

* an exit inside a conditional with an else branch before `body_invariant!` leaves
  unresolved edges and ends as an internal error; an invariant in the last block of a loop
  body makes `loop_body[after_inv_block_pos]` go out of range; a loop of one block
  violates `debug_assert_eq` at `loops.rs:295`;
* with `allow_unreachable_unsupported_code` an unsupported call whose continuation
  reaches a join makes `visitor.rs:176` unwrap `None`; the instance has unsupported code only
  where it is followed by a panic or a call that does not return;
* an unsupported statement after a terminator was set violates
  `debug_assert!(opt_succ.is_none())`;
* a local that is first assigned in the block of the invariant, before the invariant, is
  not in the permission forest and yet havocked;
* `old(x)` of a purified `usize` argument becomes the current `x`.

Borrows:

* in `x = &mut o; y = &mut x.f; z = &mut x.g; x = &mut p; *y; *z` the transfer for the
  zombie goes to `p.f` (`procedure_encoder.rs:1644`); the instance has one reborrow there;
* zombies in one branch and live loans in the other fail the assertion at
  `polonius_info.rs:1697`: `NoPanicWithoutBranches` is about bodies without branches;
* a reference that is assigned and never used makes a loan that expires nowhere
  (`NoDeadStores`); a loan that was overwritten in one branch, and has expired there, is
  expired again at the join: the guard of its node (`construct_location_guard`) tells only
  where the loan was made.  The names of that second transfer may differ, and the assertion
  at `procedure_encoder.rs:1477` fails then; `TransfersAlias` allows it there and nowhere else;
* the guard of a call whose loan is reborrowed in both branches is never true;
  `x = id(move x)` gives a cycle; a call that returns a lifetime none of its arguments has
  fails an assertion; reassigning the argument in a function that returns a reference
  makes the transfer of the package wrong;
* `regions_for_local_tuple` numbers references, not fields; the pattern for arguments
  requires two spaces for shared references; two shared loans that die at one statement
  see each other alive; fake loans are numbered in the order of a hash map (location
  order in the model).

Fold-unfold:

* `construct_final_pctxt` may restore a permission to a place that one of the paths has
  consumed (`process_expire_borrows.rs:344`).  No legal program can use the place, which is
  what `InitialisedIsAvailable` says;
* the assertion on amounts in `PathCtxt::obtain` (`path_ctxt.rs:553-555`) fails at a join of
  a side that shares `o.p` with one that writes `o.p.l` and shares `o.q`;
* of three shared borrows that overlap in a chain, the permission converted for the first
  is never restored to `Write` (`process_expire_borrows.rs:293`, and the comment at 277-278).

Analyses:

* `liveness.rs:181` has one set for all successors of a call, in which the call has
  replaced the earlier assignments to its destination; the unwind block, where the
  destination still has its old value, misses them (hence `ExactWithoutUnwinding`);
* `reaching_definitions.rs:202` and `liveness.rs:184` ignore that `DropAndReplace` assigns its
  place: neither analysis reports the assignment, and both keep what it overwrote.

## What is not modelled

* Server: message encodings, logging, the HTTP layer beyond accepting and
  rejecting, and the JVM.
* Specifications: the values of locals at the statement an assertion is at
  (`translate_expr_to_state`, `run_backward_interpretation_point_to_point`), spans, generated names, modules of external specifications beyond
  their functions.
* Encoder: the axioms and bodies that the type, snapshot and builtin encoders
  generate (only which tables they read, fill and ask for); wording of errors; the closures
  that `initialize` collects (`encoder.rs:213`), and finds again to instantiate them; `NoPanic` of the encoder says nothing of them.
* Pure functions: arrays, slices, strings, closures, positions.
* Procedures: the special cases of `encode_call` for `Box::new`, `PartialEq`, `Fn::call` and
  the length of slices (`procedure_encoder.rs:2118-2229`); arrays, enums (in `ProcedureEncoder`), casts, closures' specification
  blocks; `empty_if_remover` and `quantifier_fixer`; `purify_method`
  (`encoder/purifier.rs`, behind a flag); printing and conversion to Viper.
* Borrows: loans that live through loops (`construct_reborrowing_dag_loop_body`,
  `get_loan_loops`); dumping.
* Fold-unfold: labels and `old` places; magic wands (`PackageMagicWand`,
  `ApplyMagicWand`); `unfolding` inside expressions (`ExprReplacer`); the
  recombination of a statement with its unfoldings (step 6 of `replace_stmt`);
  `Stmt::If`; frames (`BeginFrame`/`EndFrame`, which `procedure_encoder.rs` does
  not emit); reborrowing DAGs with edges; the traversal of a whole CFG (one
  branch and its join are); arrays; references with several target types.  A
  reference that is re-borrowed on one side only and used after the join is
  excluded by `SameBorrow`.
* Analyses: widening, serialisation, `Index` and reference projections of places
  (for which `expand_struct_place` and `expand_one_level` panic or do nothing), the outputs
  of `InlineAsm` and `Yield`.
* Configuration (one computation at start-up), launchers, Viper bindings (JNI), code
  generators (build time), contracts and test infrastructure.

## Plan

Modelled and checked: the server, the analyses, fold-unfold, the way of
specifications, the encoder, pure functions, procedures, borrows, optimisations.
What is next, in order of importance:

1. **Proofs**: permission amounts and the tracked state of fold-unfold, once `obtain` and
   `join` are written as recursive functions; then pure expressions, once their evaluation is.
2. **Borrows in loops**, and fold-unfold along a DAG of reborrows with edges.
3. **Magic wands** in fold-unfold, composed with the packages of `Borrows`.
4. **Configuration and launchers**: layering of settings, supervision of processes.
