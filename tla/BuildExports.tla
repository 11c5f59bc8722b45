---------------------------- MODULE BuildExports ----------------------------
(***************************************************************************)
(* psp-build-exports: read an .exp file a line at a time into a list of    *)
(* libraries, then print the list in one of four forms.                    *)
(*                                                                         *)
(* The library being read is outside the list until its end line.  Counts  *)
(* are kept beside the lists they count, and the output prints both: array *)
(* bounds from the counts, contents from the lists.                        *)
(***************************************************************************)
EXTENDS ExpFile

VARIABLES
  lines, mode,   (* g_infile and g_outputmode                              *)
  refused,       (* the stub files that cannot be opened for writing       *)
  pc,
  line,          (* lines read                                             *)
  g_libhead,     (* the list of libraries                                  *)
  g_libcount,
  g_currlib,     (* name of the library being read, or NULL                *)
  funcs, vars, aliases, funcCount, varCount,   (* its other fields         *)
  pLib,          (* the library being printed, as an index                 *)
  tables,        (* printed: arrays of NIDs and addresses                  *)
  declared, entries,   (* printed: __library_exports and its bound         *)
  stubs,         (* the stub files                                         *)
  names, counts  (* printed: the CMake lists                               *)

inputs    == <<lines, mode, refused>>
currVars  == <<g_currlib, funcs, vars, aliases, funcCount, varCount>>
listVars  == <<g_libhead, g_libcount>>
printVars == <<pLib, tables, declared, entries, stubs, names, counts>>
allVars   == <<inputs, pc, line, currVars, listVars, printVars>>

Init ==
  /\ lines \in ExpFiles /\ mode \in Modes /\ refused \in Refused
  /\ pc = "open" /\ line = 0
  /\ g_libhead = <<>> /\ g_libcount = 0
  /\ g_currlib = None /\ funcs = <<>> /\ vars = <<>> /\ aliases = <<>>
  /\ funcCount = 0 /\ varCount = 0
  /\ pLib = 1 /\ tables = <<>> /\ declared = 0 /\ entries = <<>>
  /\ stubs = [l \in {} |-> <<>>] /\ names = <<>> /\ counts = <<>>

(***************************************************************************)
(* load_exports opens the file.                                            *)
(***************************************************************************)
OpenInput ==
  /\ pc = "open"
  /\ pc' \in {"load", "failed"}
  /\ UNCHANGED <<inputs, line, currVars, listVars, printVars>>

(***************************************************************************)
(* process_command: a handler for each kind of line.                       *)
(***************************************************************************)
Reads(kind) == pc = "load" /\ line < Len(lines) /\ lines[line + 1].kind = kind
NextLine    == line' = line + 1 /\ UNCHANGED <<inputs, pc, printVars>>
Reject      == pc' = "failed" /\ UNCHANGED <<inputs, line, currVars, listVars, printVars>>

OtherLine == Reads("other") /\ NextLine /\ UNCHANGED <<currVars, listVars>>
BadLine   == Reads("bad") /\ Reject

ExportStart ==
  /\ Reads("start")
  /\ g_currlib = None
  /\ g_currlib' = lines[line + 1].lib
  /\ funcs' = <<>> /\ vars' = <<>> /\ aliases' = <<>>
  /\ funcCount' = 0 /\ varCount' = 0
  /\ g_libcount' = g_libcount + 1
  /\ NextLine
  /\ UNCHANGED <<g_libhead>>

NestedStart == Reads("start") /\ g_currlib # None /\ Reject

Library == [name |-> g_currlib, funcs |-> funcs, vars |-> vars, aliases |-> aliases,
            funcCount |-> funcCount, varCount |-> varCount]

ExportEnd ==
  /\ Reads("end")
  /\ g_currlib # None
  /\ g_libhead' = Append(g_libhead, Library)
  /\ g_currlib' = None
  /\ NextLine
  /\ UNCHANGED <<funcs, vars, aliases, funcCount, varCount, g_libcount>>

(* The handler writes an error text and succeeds.                          *)
StrayEnd ==
  /\ Reads("end")
  /\ g_currlib = None
  /\ NextLine
  /\ UNCHANGED <<currVars, listVars>>

ExportFuncOneMore ==   (* mutant: one function too many *)
  /\ Reads("func")
  /\ g_currlib # None /\ funcCount <= MaxFuncs
  /\ funcs' = Append(funcs, lines[line + 1].export)
  /\ funcCount' = funcCount + 1
  /\ NextLine
  /\ UNCHANGED <<g_currlib, vars, aliases, varCount, listVars>>

ExportFunc ==
  /\ Reads("func")
  /\ g_currlib # None /\ funcCount < MaxFuncs
  /\ funcs' = Append(funcs, lines[line + 1].export)
  /\ funcCount' = funcCount + 1
  /\ NextLine
  /\ UNCHANGED <<g_currlib, vars, aliases, varCount, listVars>>

ExportVarInFuncs ==   (* mutant: the variable counted as a function *)
  /\ Reads("var")
  /\ g_currlib # None /\ varCount < MaxVars
  /\ vars' = Append(vars, lines[line + 1].export)
  /\ funcCount' = funcCount + 1
  /\ NextLine
  /\ UNCHANGED <<g_currlib, funcs, aliases, varCount, listVars>>

ExportVar ==
  /\ Reads("var")
  /\ g_currlib # None /\ varCount < MaxVars
  /\ vars' = Append(vars, lines[line + 1].export)
  /\ varCount' = varCount + 1
  /\ NextLine
  /\ UNCHANGED <<g_currlib, funcs, aliases, funcCount, listVars>>

ExportAlias ==
  /\ Reads("alias")
  /\ g_currlib # None
  /\ aliases' = Append(aliases, lines[line + 1].alias)
  /\ NextLine
  /\ UNCHANGED <<g_currlib, funcs, vars, funcCount, varCount, listVars>>

RejectExport ==
  /\ \/ Reads("func") /\ (g_currlib = None \/ funcCount >= MaxFuncs)
     \/ Reads("var") /\ (g_currlib = None \/ varCount >= MaxVars)
     \/ Reads("alias") /\ g_currlib = None
  /\ Reject

(***************************************************************************)
(* The end of load_exports: a library still open is an error without text. *)
(***************************************************************************)
EndOfFile ==
  /\ pc = "load"
  /\ line = Len(lines)
  /\ pc' = IF g_currlib # None THEN "failed"
           ELSE IF mode = "exports" THEN "tables"
           ELSE IF mode = "cmake" THEN "names" ELSE "stubs"
  /\ UNCHANGED <<inputs, line, currVars, listVars, printVars>>

(***************************************************************************)
(* The loops over the list.                                                *)
(***************************************************************************)
Printing(stage) == pc = stage /\ pLib <= Len(g_libhead)
Lib == g_libhead[pLib]
EndLoop(stage, next) == pc = stage /\ pLib > Len(g_libhead) /\ pc' = next /\ pLib' = 1
IsSyslib == Lib.name = SyslibName

NidsOf(es)  == [k \in DOMAIN es |-> es[k].nid]
NamesOf(es) == [k \in DOMAIN es |-> es[k].name]

(* build_exports: first the NIDs of functions and variables, then their    *)
(* addresses, in an array of the size the counts give.                     *)
CellsByKind(l) ==   (* mutant: functions and variables each with their addresses *)
  NidsOf(l.funcs) \o NamesOf(l.funcs) \o NidsOf(l.vars) \o NamesOf(l.vars)
Cells(l) == NidsOf(l.funcs) \o NidsOf(l.vars) \o NamesOf(l.funcs) \o NamesOf(l.vars)

PrintTable ==
  /\ Printing("tables")
  /\ tables' = Append(tables, [size |-> (Lib.funcCount + Lib.varCount) * 2, cells |-> Cells(Lib)])
  /\ pLib' = pLib + 1
  /\ UNCHANGED <<inputs, pc, line, currVars, listVars, declared, entries, stubs,
                 names, counts>>

TablesDone ==
  /\ EndLoop("tables", "entries")
  /\ declared' = g_libcount
  /\ UNCHANGED <<inputs, line, currVars, listVars, tables, entries, stubs, names, counts>>

PrintEntry ==
  /\ Printing("entries")
  /\ entries' = Append(entries, [name |-> IF IsSyslib THEN None ELSE Lib.name,
                                 vars |-> Lib.varCount, funcs |-> Lib.funcCount])
  /\ pLib' = pLib + 1
  /\ UNCHANGED <<inputs, pc, line, currVars, listVars, tables, declared, stubs,
                 names, counts>>

(* build_stubs: a file for each library but syslib, over any file of that  *)
(* name; one that cannot be opened is skipped.                             *)
AliasOf(l, name) ==
  LET found == {k \in DOMAIN l.aliases : l.aliases[k].name = name}
  IN  IF found = {} THEN None ELSE l.aliases[Least(found)].alias
StubsOf(l) ==
  [count |-> IF mode = "stubs" THEN l.funcCount ELSE Len(l.funcs),
   funcs |-> [k \in DOMAIN l.funcs |-> <<l.funcs[k], AliasOf(l, l.funcs[k].name)>>]]

WriteStubsOrStay ==   (* mutant: the loop goes on without the next library *)
  /\ Printing("stubs")
  /\ stubs' = IF IsSyslib \/ Lib.name \in refused THEN stubs
              ELSE [n \in DOMAIN stubs \cup {Lib.name} |->
                      IF n = Lib.name THEN StubsOf(Lib) ELSE stubs[n]]
  /\ pLib' = IF IsSyslib THEN pLib ELSE pLib + 1
  /\ UNCHANGED <<inputs, pc, line, currVars, listVars, tables, declared, entries,
                 names, counts>>

WriteStubs ==
  /\ Printing("stubs")
  /\ stubs' = IF IsSyslib \/ Lib.name \in refused THEN stubs
              ELSE [n \in DOMAIN stubs \cup {Lib.name} |->
                      IF n = Lib.name THEN StubsOf(Lib) ELSE stubs[n]]
  /\ pLib' = pLib + 1
  /\ UNCHANGED <<inputs, pc, line, currVars, listVars, tables, declared, entries,
                 names, counts>>

(* print_stubs_cmake: a separator if another library follows, syslib or    *)
(* not.                                                                    *)
Item(x) == [item |-> x, sep |-> pLib < Len(g_libhead)]

PrintName ==
  /\ Printing("names")
  /\ names' = IF IsSyslib THEN names ELSE Append(names, Item(Lib.name))
  /\ pLib' = pLib + 1
  /\ UNCHANGED <<inputs, pc, line, currVars, listVars, tables, declared, entries,
                 stubs, counts>>

PrintCount ==
  /\ Printing("counts")
  /\ counts' = IF IsSyslib THEN counts ELSE Append(counts, Item(Lib.funcCount + Lib.varCount))
  /\ pLib' = pLib + 1
  /\ UNCHANGED <<inputs, pc, line, currVars, listVars, tables, declared, entries,
                 stubs, names>>

LoopDone ==
  /\ \/ EndLoop("entries", "done")
     \/ EndLoop("stubs", "done")
     \/ EndLoop("names", "counts")
     \/ EndLoop("counts", "done")
  /\ UNCHANGED <<inputs, line, currVars, listVars, tables, declared, entries, stubs,
                 names, counts>>

Finished == pc \in {"done", "failed"} /\ UNCHANGED allVars

Next ==
  \/ OpenInput \/ OtherLine \/ BadLine \/ ExportStart \/ NestedStart \/ ExportEnd \/ StrayEnd
  \/ ExportFunc \/ ExportVar \/ ExportAlias \/ RejectExport \/ EndOfFile
  \/ PrintTable \/ TablesDone \/ PrintEntry \/ WriteStubs \/ PrintName \/ PrintCount
  \/ LoopDone \/ Finished

Spec == Init /\ [][Next]_allVars

(* The program is sequential and runs until it returns from main.          *)
FairSpec == Spec /\ WF_allVars(Next)

(***************************************************************************)
(* Type invariant.                                                         *)
(***************************************************************************)
Stages == {"open", "load", "tables", "entries", "stubs", "names", "counts", "done", "failed"}
LibRecord == [name : LibNames, funcs : Seq(Export), vars : Seq(Export), aliases : Seq(Alias),
              funcCount : Nat, varCount : Nat]

TypeOK ==
  /\ lines \in ExpFiles /\ mode \in Modes /\ refused \in Refused
  /\ pc \in Stages
  /\ line \in 0 .. Len(lines)
  /\ g_libhead \in Seq(LibRecord) /\ g_libcount \in Nat
  /\ g_currlib \in LibNames \cup {None}
  /\ funcs \in Seq(Export) /\ vars \in Seq(Export) /\ aliases \in Seq(Alias)
  /\ funcCount \in 0 .. MaxFuncs /\ varCount \in 0 .. MaxVars
  /\ pLib \in 1 .. Len(g_libhead) + 1
  /\ tables \in Seq([size : Nat, cells : Seq(Nids \cup Names)]) /\ declared \in Nat

(***************************************************************************)
(* The bounds printed are those of what is printed: the counts of a        *)
(* library are the lengths of its lists, g_libcount, which the start line  *)
(* advances, is the length of the list the end line extends, and so        *)
(* __library_exports and every __..._exports array has as many elements as *)
(* its declaration says.                                                   *)
(***************************************************************************)
CountsMatch ==
  /\ funcCount = Len(funcs) /\ varCount = Len(vars)
  /\ \A k \in DOMAIN g_libhead :
       /\ g_libhead[k].funcCount = Len(g_libhead[k].funcs)
       /\ g_libhead[k].varCount = Len(g_libhead[k].vars)
  /\ g_libcount = Len(g_libhead) + (IF g_currlib = None THEN 0 ELSE 1)
  /\ pc \notin {"open", "load", "failed"} => g_currlib = None
  /\ pc = "entries" => declared = Len(g_libhead)
  /\ \A k \in DOMAIN tables : tables[k].size = Len(tables[k].cells)
=============================================================================
