--------------------------- MODULE DefinitionPaths ---------------------------
(***************************************************************************)
(* The reference for the analyses of definitions: which assignment, or     *)
(* which parameter, each local variable got its value from on a path.      *)
(***************************************************************************)
EXTENDS Mir

CONSTANTS
  Locals,   \* the local variables
  Args      \* the arguments, a sequence of local variables

Parameter(i) == <<-1, i>>      \* DefLocation::Parameter
NoDefinition == <<-2, 0>>
Replacement  == <<-3, 0>>      \* the operand of a DropAndReplace, which the analyses overlook

IsLocal(p) == Len(p) = 1       \* Place::as_local

Define(c, p, location) == IF IsLocal(p) THEN [c EXCEPT ![p[1]] = location] ELSE c

Exec(c, stmt, location) == Define(c, stmt.target, location)

\* Two terminators assign a place: a call its destination, DropAndReplace the place it drops.
Written(c, t, location) ==
  CASE t.kind = "Call"           -> Define(c, t.place, location)
    [] t.kind = "DropAndReplace" -> Define(c, t.place, Replacement)
    [] OTHER                     -> c

Leave(c, t, location) == {Written(c, t, location)}

\* A call that unwinds may have written its destination; DropAndReplace assigns its
\* place also when the destructor unwinds.
Unwind(c, t, location) ==
  IF t.kind = "DropAndReplace" THEN Leave(c, t, location) ELSE {c} \cup Leave(c, t, location)

Definitions(body) ==
  (UNION {{b} \X (0 .. terminator_index(body, b)) : b \in DOMAIN body})
    \cup {Parameter(i - 1) : i \in DOMAIN Args} \cup {NoDefinition, Replacement}

\* The position of x among the arguments, 0 if it is none.
ArgIndex(x) == SelectInSeq(Args, LAMBDA y : y = x)
AtStart == [x \in Locals |-> IF ArgIndex(x) = 0 THEN NoDefinition ELSE Parameter(ArgIndex(x) - 1)]

\* The variables that are assigned are local variables of the body.
AssignsLocals(body) ==
  \A b \in DOMAIN body :
    /\ \A i \in DOMAIN body[b].statements :
         IsLocal(body[b].statements[i].target) => body[b].statements[i].target[1] \in Locals
    /\ IsLocal(body[b].terminator.place) => body[b].terminator.place[1] \in Locals

Entries(body) ==
  Entering(body, {AtStart}, Exec, Leave, Unwind, [Locals -> Definitions(body)])

\* The definitions of x that reach the location with index i of block b.
Reaching(body, b, i, x) ==
  {Along(body, b, e[2], Exec)[i][x] : e \in {e \in Entries(body) : e[1] = b}} \ {NoDefinition}

-------------------------------------------------------------------------------
(* Values of the constants for TLC, the same for both analyses: bodies of  *)
(* four blocks with a branch, a loop, dead blocks, calls and replacements  *)
(* that may unwind, and assignments to a field, which define no variable.  *)

MCx == <<"x">>
MCy == <<"y">>
MCArgs == <<"x">>
MCStatements == {Nop, Assign(MCx, <<>>), Assign(MCy, <<>>), Assign(<<"x", "f">>, <<>>)}

MCBodies ==
  {[b \in 0 .. 3 |-> CASE b = 0 -> Block(<<s0>>, t0)
                       [] b = 1 -> Block(<<s1>>, t1)
                       [] b = 2 -> Block(<<s2, s3>>, t2)
                       [] b = 3 -> Block(<<>>, t3)] :
     s0 \in {Nop, Assign(MCy, <<>>)}, s1 \in MCStatements, s2 \in MCStatements,
     s3 \in {Nop, Assign(MCx, <<>>)},
     t0 \in {Goto(1), SwitchInt(<<>>, <<1, 2, 2>>)},
     t1 \in {Goto(2), SwitchInt(<<>>, <<2, 3>>), Call(MCy, <<>>, 2, 3), Call(MCx, <<>>, 2, 2),
             DropAndReplace(MCx, <<>>, 2, 3)},
     t2 \in {SwitchInt(<<>>, <<3, 1>>), Drop(MCx, 1, 3), Call(MCx, <<>>, 1, 3), Diverge(<<>>, 3),
             DropAndReplace(MCy, <<>>, 1, 3), InlineAsm(1)},
     t3 \in {Return, Goto(1)}}
==============================================================================
