------------------------------ MODULE ExpFile -------------------------------
(***************************************************************************)
(* The .exp file psp-build-exports reads, as the lines load_exports tells  *)
(* apart.  A name stands for a name that fits the arrays of the code, a    *)
(* line for one that fits MAX_LINE.                                        *)
(***************************************************************************)
EXTENDS Integers, Sequences, FiniteSets

CONSTANTS
  LibNames,      (* names of libraries                                     *)
  SyslibName,    (* SYSTEM_LIB_NAME                                        *)
  Names,         (* names of functions and variables, and aliases          *)
  Nids,          (* their NIDs, given or hashed                            *)
  MaxFuncs,      (* MAX_LIB_FUNCS                                          *)
  MaxVars,       (* MAX_LIB_VARS                                           *)
  ExpFiles,      (* the input files                                        *)
  Modes,         (* the output modes tried                                 *)
  Refused,       (* for each run: stub files that cannot be opened         *)
  None           (* NULL                                                   *)

Export == [nid : Nids, name : Names]
Alias  == [name : Names, alias : Names]

(***************************************************************************)
(* other: a blank line, a comment, PSP_BEGIN_EXPORTS or PSP_END_EXPORTS;   *)
(* bad: a line without the form of a command, an unknown command, a wrong  *)
(* number of parameters or an invalid number.                              *)
(***************************************************************************)
StartLine  == [kind : {"start"}, lib : LibNames]
ExportLine == [kind : {"func", "var"}, export : Export]
AliasLine  == [kind : {"alias"}, alias : Alias]
PlainLine  == [kind : {"end", "other", "bad"}]
Lines      == StartLine \cup ExportLine \cup AliasLine \cup PlainLine

OutputModes == {"exports", "stubs", "stubs_new", "cmake"}

ASSUME ExpConstants ==
  /\ SyslibName \in LibNames
  /\ MaxFuncs \in Nat /\ MaxVars \in Nat
  /\ ExpFiles \subseteq Seq(Lines)
  /\ Modes \subseteq OutputModes
  /\ Refused \subseteq SUBSET LibNames
  /\ None \notin LibNames \cup Names

(* Positions in order, and the first of them.                              *)
Only(S) == CHOOSE n \in S : TRUE
InOrder(S) ==
  [k \in 1 .. Cardinality(S) |-> Only({n \in S : Cardinality({m \in S : m < n}) = k - 1})]
Least(S) == CHOOSE n \in S : \A m \in S : n <= m
=============================================================================
