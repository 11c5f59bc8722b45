-------------------------- MODULE ExportsContract ---------------------------
(***************************************************************************)
(* What psp-build-exports promises, in one step: an .exp file is a list of *)
(* blocks from PSP_EXPORT_START to PSP_EXPORT_END, each a library; a file  *)
(* with a line out of place is rejected, any other gives what the chosen   *)
(* mode prints of the libraries.                                           *)
(***************************************************************************)
EXTENDS ExpFile

VARIABLES lines, mode, refused, verdict, content

contractVars == <<lines, mode, refused, verdict, content>>

Kind(n) == lines[n].kind

(* The library line n is in, as the position of its start; 0 for none.     *)
BlockOf(n) ==
  LET open == {m \in 1 .. n - 1 : Kind(m) = "start" /\ \A l \in m + 1 .. n - 1 : Kind(l) # "end"}
  IN  IF open = {} THEN 0 ELSE CHOOSE m \in open : \A l \in open : l <= m

Members(m, kind, upto) == {n \in m + 1 .. upto : Kind(n) = kind /\ BlockOf(n) = m}
LinesOf(m, kind) == InOrder(Members(m, kind, Len(lines)))
TooMany(n, kind, max) ==
  Kind(n) = kind /\ Cardinality(Members(BlockOf(n), kind, n)) > max

OutOfPlace(n) ==
  \/ Kind(n) = "bad"
  \/ Kind(n) = "start" /\ BlockOf(n) # 0
  \/ Kind(n) \in {"func", "var", "alias"} /\ BlockOf(n) = 0
  \/ TooMany(n, "func", MaxFuncs) \/ TooMany(n, "var", MaxVars)

Accepted ==
  /\ \A n \in 1 .. Len(lines) : ~OutOfPlace(n)
  /\ BlockOf(Len(lines) + 1) = 0

Starts == {n \in 1 .. Len(lines) : Kind(n) = "start"}
Blocks == InOrder(Starts)
ExportsOf(m, kind) ==
  LET at == LinesOf(m, kind) IN [k \in DOMAIN at |-> lines[at[k]].export]

(* The first alias of a block for a name.                                  *)
AliasIn(m, name) ==
  LET at == LinesOf(m, "alias")
      found == {k \in DOMAIN at : lines[at[k]].alias.name = name}
  IN  IF found = {} THEN None ELSE lines[at[Least(found)]].alias.alias

(***************************************************************************)
(* -b: for each library the functions and the variables it exports.  The   *)
(* system library has no name.                                             *)
(***************************************************************************)
ExportedLibraries ==
  [k \in DOMAIN Blocks |->
     [name  |-> IF lines[Blocks[k]].lib = SyslibName THEN None ELSE lines[Blocks[k]].lib,
      funcs |-> ExportsOf(Blocks[k], "func"),
      vars  |-> ExportsOf(Blocks[k], "var")]]

(***************************************************************************)
(* -s and -k: for each library but the system library a file, the last one *)
(* of libraries with one name.                                             *)
(***************************************************************************)
Public == {m \in Starts : lines[m].lib # SyslibName}
StubLibs == {lines[m].lib : m \in Public} \ refused
LastOf(l) ==
  CHOOSE m \in Public : lines[m].lib = l /\ \A n \in Public : lines[n].lib = l => n <= m
StubFiles ==
  [l \in StubLibs |->
     LET funcs == ExportsOf(LastOf(l), "func")
     IN  [k \in DOMAIN funcs |-> <<funcs[k], AliasIn(LastOf(l), funcs[k].name)>>]]

(***************************************************************************)
(* -c: the names of the public libraries, and beside each its size.        *)
(***************************************************************************)
StubList ==
  LET m == InOrder(Public)
  IN  [k \in DOMAIN m |-> [name  |-> lines[m[k]].lib,
                           count |-> Len(LinesOf(m[k], "func")) + Len(LinesOf(m[k], "var"))]]

Output == CASE mode = "exports" -> ExportedLibraries
            [] mode \in {"stubs", "stubs_new"} -> StubFiles
            [] mode = "cmake" -> StubList

Init ==
  /\ lines \in ExpFiles /\ mode \in Modes /\ refused \in Refused
  /\ verdict = "pending" /\ content = None

Decide ==
  /\ verdict = "pending"
  /\ \/ verdict' = "rejected" /\ content' = None /\ ~Accepted
     \/ verdict' = "built" /\ content' = Output /\ Accepted
  /\ UNCHANGED <<lines, mode, refused>>

(* The input file cannot be opened.                                        *)
NoInput ==
  /\ verdict = "pending"
  /\ verdict' = "rejected"
  /\ UNCHANGED <<lines, mode, refused, content>>

Spec == Init /\ [][Decide \/ NoInput]_contractVars

(* Every file is rejected or built.                                        *)
Decides == verdict = "pending" ~> verdict # "pending"
=============================================================================
