----------------------------- MODULE NameInterner -----------------------------
(***************************************************************************)
(* The name interner of the encoder (name_interner.rs): it replaces a long *)
(* unique name by a short readable one as long as nobody else has it.  The *)
(* encoder keeps one interner for the names of functions, types and        *)
(* specification functions, and asks for the symbol of a name each time it *)
(* needs it.                                                               *)
(***************************************************************************)
EXTENDS Naturals, Sequences

CONSTANTS
  FullNames,      \* the full unique names (paths of definitions)
  ReadableNames   \* full name -> the sequence of readable names passed with it

(***************************************************************************)
(* The contract of intern, in its doc comment and debug assertions: a      *)
(* readable name is never the full name of another definition.             *)
(***************************************************************************)
ASSUME ReadableAssumption ==
  /\ DOMAIN ReadableNames = FullNames
  /\ \A f \in FullNames : ReadableNames[f] \in Seq(STRING)
  /\ FullNames \subseteq STRING
  /\ \A f, g \in FullNames : \A i \in 1 .. Len(ReadableNames[f]) :
        ReadableNames[f][i] = g => f = g

VARIABLES name_to_symbol, used_symbols

internerVars == <<name_to_symbol, used_symbols>>

InternerInit ==
  /\ name_to_symbol = [f \in {} |-> ""]
  /\ used_symbols = {}

\* The readable names of f that nobody has yet, by position.
Unused(f) == {i \in 1 .. Len(ReadableNames[f]) : ReadableNames[f][i] \notin used_symbols}

\* Mutant: the first readable name, used or not.
NewSymbol_IgnoresUsed(f, s) ==
  IF ReadableNames[f] = <<>> THEN s = f ELSE s = ReadableNames[f][1]

\* The symbol s for f: the first unused readable name, else the full name.
NewSymbol(f, s) ==
  IF Unused(f) = {} THEN s = f
  ELSE \E i \in Unused(f) : s = ReadableNames[f][i] /\ \A j \in Unused(f) : i <= j

Candidates(f) == {f} \cup {ReadableNames[f][i] : i \in 1 .. Len(ReadableNames[f])}

Assign(f, s) ==
  /\ used_symbols' = used_symbols \cup {s}
  /\ name_to_symbol' =
       [g \in DOMAIN name_to_symbol \cup {f} |-> IF g = f THEN s ELSE name_to_symbol[g]]

\* What intern does for the name f: nothing when it is known.
Intern(f) ==
  IF f \in DOMAIN name_to_symbol
  THEN UNCHANGED internerVars
  ELSE \E s \in Candidates(f) : NewSymbol(f, s) /\ Assign(f, s)

InternerNext == \E f \in FullNames : Intern(f)

InternerSpec == InternerInit /\ [][InternerNext]_internerVars

(***************************************************************************)
(* "a possibly readable string that uniquely identifies it": two full      *)
(* names never share a symbol, whatever the order in which they arrive.    *)
(***************************************************************************)
UniqueSymbols ==
  \A f, g \in DOMAIN name_to_symbol : name_to_symbol[f] = name_to_symbol[g] => f = g

(***************************************************************************)
(* A symbol, once handed out, is never changed: references to a definition *)
(* made early and late in the encoding are the same.                       *)
(***************************************************************************)
StableSymbols ==
  [][\A f \in DOMAIN name_to_symbol :
       f \in DOMAIN name_to_symbol' /\ name_to_symbol'[f] = name_to_symbol[f]]_internerVars
===============================================================================
