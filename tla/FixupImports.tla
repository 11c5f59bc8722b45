---------------------------- MODULE FixupImports ----------------------------
(***************************************************************************)
(* psp-fixup-imports: complete the import records of an ELF, rename its    *)
(* NIDs by a map file and write the ELF, by default over its input.        *)
(*                                                                         *)
(* A stub holds a record of .lib.stub and a NID; the tool makes it a jump, *)
(* and counts it in the record.  A record keeps only a position and a      *)
(* count, so its stubs have to be consecutive; the tool sees that they are *)
(* by remembering the record of the stub before.                           *)
(*                                                                         *)
(* Positions in .sceStub.text and in .rodata.sceNid are indices, addresses *)
(* in .lib.stub are record numbers; at holds where each record starts.     *)
(* Files without imported variables: fixup_variables returns at once.      *)
(***************************************************************************)
EXTENDS Integers, Sequences, FiniteSets

CONSTANTS
  Nids,         (* the NIDs                                                *)
  Libs,         (* the library names                                       *)
  Files,        (* the files as they are linked                            *)
  MapFiles,     (* for each the map files it is fixed up with              *)
  MaxMapNids,   (* MAX_MAPNIDS                                             *)
  MaxRuns,      (* bound: how often the tool is run                        *)
  None          (* NULL; a stub that is a jump; no position yet            *)

(***************************************************************************)
(* A line of a map file, as load_mapfile tells them apart after strip_wsp: *)
(* @name, old:new, old=new, @ alone, anything else, and an empty line or a *)
(* comment.                                                                *)
(***************************************************************************)
LibLine   == [kind : {"lib"}, name : Libs]
EntryLine == [kind : {"entry"}, old : Nids, new : Nids]
AssignLine == [kind : {"assign"}, old : Nids, new : Nids]
OtherLine == [kind : {"noname", "invalid", "comment"}]
Lines     == LibLine \cup EntryLine \cup AssignLine \cup OtherLine

(***************************************************************************)
(* A file.  imp[s]: the record stub s holds (-1: no address in .lib.stub,  *)
(* nrec: the address where .lib.stub ends), None if it is a jump;          *)
(* same[s]: the stub and .rodata.sceNid have the same NID.  Record nrec    *)
(* stands for the bytes after the section.  A record takes five words or,  *)
(* with the address of its variables, six; fixup_nidmap takes all of them  *)
(* for a struct PspModuleImport.                                           *)
(***************************************************************************)
EntryWords  == {5, 6}
StructWords == 6

Stubs(f) == 0 .. f.n - 1
Recs(f)  == 0 .. f.nrec - 1

WellFormedFile(f) ==
  /\ f.valid \in BOOLEAN /\ f.libstub \in BOOLEAN /\ f.stubtext \in BOOLEAN
  /\ f.n \in Nat /\ f.nrec \in Nat
  /\ ~f.stubtext \/ ~f.libstub => f.n = 0
  /\ f.imp   \in [Stubs(f) -> (-1 .. f.nrec) \cup {None}]
  /\ f.same  \in [Stubs(f) -> BOOLEAN]
  /\ f.nid   \in [Stubs(f) -> Nids]
  /\ f.at    \in [0 .. f.nrec -> Nat]
  /\ f.at[0] = 0 /\ \A k \in Recs(f) : f.at[k + 1] - f.at[k] \in EntryWords
  /\ \A k, l \in 0 .. f.nrec : k < l => f.at[k] < f.at[l]
  /\ f.name  \in [Recs(f) -> Libs \cup {None}]
  /\ f.vars  \in [Recs(f) -> Nat]
  /\ f.cnt   \in [0 .. f.nrec -> Nat]
  /\ f.nids  \in [0 .. f.nrec -> Nat \cup {None}]
  /\ f.funcs \in [0 .. f.nrec -> Nat \cup {None}]

ASSUME FixupConstants ==
  /\ None \notin Int
  /\ MaxMapNids \in Nat
  /\ MaxRuns \in Nat
  /\ \A f \in Files : WellFormedFile(f) /\ MapFiles[f] \subseteq Seq(Lines)

VARIABLES
  built,      (* the file as it was linked                                 *)
  file,       (* the file on disk                                          *)
  pc, runs,
  g_mapfile, g_reversemap,   (* the arguments                              *)
  line,       (* lines of the map file read                                *)
  g_map,      (* the import maps, the most recent first                    *)
  imp, nid, cnt, nids, funcs,   (* g_elfdata: the parts that change        *)
  s,          (* pText and pNid of fixup_functions, as an index            *)
  pLastImport,
  r,          (* pImport of fixup_nidmap, in words from the first record   *)
  p, count,   (* pNid and count of fixup_nidmap; count = -1: not yet set   *)
  written     (* history: the file on disk is one the tool wrote           *)

argVars  == <<built, g_mapfile, g_reversemap>>
mapVars  == <<line, g_map>>
elfVars  == <<imp, nid, cnt, nids, funcs>>
loopVars == <<s, pLastImport, r, p, count>>
vars == <<file, pc, runs, argVars, mapVars, elfVars, loopVars, written>>

LoadedFrom(f) ==
  /\ imp = f.imp /\ nid = f.nid /\ cnt = f.cnt /\ nids = f.nids /\ funcs = f.funcs

Init ==
  /\ built \in Files /\ file = built
  /\ pc = "start" /\ runs = 0
  /\ g_mapfile = <<>> /\ g_reversemap = FALSE
  /\ line = 0 /\ g_map = <<>>
  /\ LoadedFrom(file)
  /\ s = 0 /\ pLastImport = None
  /\ r = 0 /\ p = 0 /\ count = -1
  /\ written = FALSE

(***************************************************************************)
(* process_args: a new process, its globals at their initial values.  A    *)
(* map file that cannot be opened is like an empty one.                    *)
(***************************************************************************)
StartRun ==
  /\ pc \in {"start", "done", "crashed"}
  /\ runs < MaxRuns
  /\ runs' = runs + 1
  /\ g_mapfile' \in MapFiles[built]
  /\ g_reversemap' \in BOOLEAN
  /\ line' = 0 /\ g_map' = <<>>
  /\ s' = 0 /\ pLastImport' = None /\ r' = 0 /\ p' = 0 /\ count' = -1
  /\ pc' = "map"
  /\ UNCHANGED <<file, built, elfVars, written>>

(***************************************************************************)
(* load_mapfile, a line per step.  currmap is the head of the list.  Two   *)
(* errors end the loop, the function succeeds all the same; an entry with  *)
(* no library before it dereferences NULL.                                 *)
(***************************************************************************)
InMapFile == pc = "map" /\ line < Len(g_mapfile)
Current   == g_mapfile[line + 1]
SkipRest  == line' = Len(g_mapfile)

MapLibrary ==
  /\ InMapFile
  /\ Current.kind = "lib"
  /\ g_map' = <<[name |-> Current.name, nids |-> <<>>]>> \o g_map
  /\ line' = line + 1
  /\ UNCHANGED <<file, pc, runs, argVars, elfVars, loopVars, written>>

MapNoName ==
  /\ InMapFile
  /\ Current.kind = "noname"
  /\ g_map' = <<[name |-> None, nids |-> <<>>]>> \o g_map
  /\ SkipRest
  /\ UNCHANGED <<file, pc, runs, argVars, elfVars, loopVars, written>>

MapComment ==
  /\ InMapFile
  /\ Current.kind = "comment"
  /\ line' = line + 1
  /\ UNCHANGED <<file, pc, runs, argVars, g_map, elfVars, loopVars, written>>

MapEntry ==
  /\ InMapFile
  /\ Current.kind \in {"entry", "assign", "invalid"}
  /\ IF g_map = <<>> THEN pc' = "crashed" /\ UNCHANGED mapVars
     ELSE /\ UNCHANGED pc
          /\ IF Len(g_map[1].nids) = MaxMapNids THEN SkipRest /\ UNCHANGED g_map
             ELSE /\ line' = line + 1
                  /\ IF Current.kind # "entry" THEN UNCHANGED g_map
                     ELSE g_map' = <<[name |-> g_map[1].name,
                                      nids |-> Append(g_map[1].nids,
                                                      [old |-> Current.old, new |-> Current.new])]>>
                                   \o Tail(g_map)
  /\ UNCHANGED <<file, runs, argVars, elfVars, loopVars, written>>

(***************************************************************************)
(* load_elf, once the map file is read.                                    *)
(***************************************************************************)
LoadElf ==
  /\ pc = "map"
  /\ line = Len(g_mapfile)
  /\ imp' = file.imp /\ nid' = file.nid /\ cnt' = file.cnt
  /\ nids' = file.nids /\ funcs' = file.funcs
  /\ pc' = IF ~file.valid THEN "done"
           ELSE IF ~file.libstub THEN "write"
           ELSE IF file.stubtext THEN "functions" ELSE "nidmap"
  /\ UNCHANGED <<file, runs, argVars, mapVars, loopVars, written>>

(***************************************************************************)
(* fixup_functions, a stub per step.  An error returns 0 and the file is   *)
(* not written.  A jump leaves in pLastImport an address no record has,    *)
(* its own (-1).                                                           *)
(***************************************************************************)
InStubs == pc = "functions" /\ s < file.n
InvalidAddress(a) == a \notin 0 .. file.nrec
OutOfOrder(k) == cnt[k] # 0 /\ pLastImport # None /\ pLastImport # k
Rejected(t) ==
  \/ ~file.same[t]
  \/ InvalidAddress(imp[t])
  \/ ~InvalidAddress(imp[t]) /\ OutOfOrder(imp[t])

FixStubOnly ==   (* mutant: the stub is not made a jump *)
  /\ InStubs
  /\ imp[s] # None
  /\ ~Rejected(s)
  /\ LET k == imp[s]
     IN  /\ nids'  = IF cnt[k] = 0 THEN [nids EXCEPT ![k] = s] ELSE nids
         /\ funcs' = IF cnt[k] = 0 THEN [funcs EXCEPT ![k] = s] ELSE funcs
         /\ cnt'   = [cnt EXCEPT ![k] = cnt[k] + 1]
         /\ pLastImport' = k
  /\ s' = s + 1
  /\ UNCHANGED <<file, pc, runs, argVars, mapVars, imp, nid, r, p, count, written>>

FixStub ==
  /\ InStubs
  /\ imp[s] # None
  /\ ~Rejected(s)
  /\ LET k == imp[s]
     IN  /\ nids'  = IF cnt[k] = 0 THEN [nids EXCEPT ![k] = s] ELSE nids
         /\ funcs' = IF cnt[k] = 0 THEN [funcs EXCEPT ![k] = s] ELSE funcs
         /\ cnt'   = [cnt EXCEPT ![k] = cnt[k] + 1]
         /\ pLastImport' = k
  /\ imp' = [imp EXCEPT ![s] = None]
  /\ s' = s + 1
  /\ UNCHANGED <<file, pc, runs, argVars, mapVars, nid, r, p, count, written>>

SkipJumpOnly ==   (* mutant: the stub before the jump is still the last *)
  /\ InStubs
  /\ imp[s] = None
  /\ s' = s + 1
  /\ UNCHANGED <<file, pc, runs, argVars, mapVars, elfVars, pLastImport, r, p, count, written>>

SkipJump ==
  /\ InStubs
  /\ imp[s] = None
  /\ pLastImport' = -1
  /\ s' = s + 1
  /\ UNCHANGED <<file, pc, runs, argVars, mapVars, elfVars, r, p, count, written>>

RejectStub ==
  /\ InStubs
  /\ imp[s] # None
  /\ Rejected(s)
  /\ pc' = "done"
  /\ UNCHANGED <<file, runs, argVars, mapVars, elfVars, loopVars, written>>

StubsDone ==
  /\ pc = "functions"
  /\ s = file.n
  /\ pc' = "nidmap"
  /\ UNCHANGED <<file, runs, argVars, mapVars, elfVars, loopVars, written>>

(***************************************************************************)
(* fixup_nidmap: for each record find the map of its library, then walk    *)
(* func_count + var_count NIDs from the record's first.  Past the end of   *)
(* .rodata.sceNid there are other bytes, taken for no NID of the map; and  *)
(* words that start inside a record for one without a library name.        *)
(***************************************************************************)
LastMap(lib) ==   (* mutant: the oldest map of the library *)
  {m \in DOMAIN g_map : g_map[m].name = lib /\ \A l \in m + 1 .. Len(g_map) : g_map[l].name # lib}
FirstMap(lib) ==
  {m \in DOMAIN g_map : g_map[m].name = lib /\ \A l \in 1 .. m - 1 : g_map[l].name # lib}
Old(e) == IF g_reversemap THEN e.new ELSE e.old
New(e) == IF g_reversemap THEN e.old ELSE e.new
FirstEntry(entries, x) ==
  {n \in DOMAIN entries : Old(entries[n]) = x /\ \A l \in 1 .. n - 1 : Old(entries[l]) # x}
RenamedBy(entries, x) ==
  IF FirstEntry(entries, x) = {} THEN x
  ELSE New(entries[CHOOSE n \in FirstEntry(entries, x) : TRUE])

InSection == r + StructWords <= file.at[file.nrec]
StartsAt(k) == file.at[k] = r
Mapped(k) == StartsAt(k) /\ file.name[k] # None /\ FirstMap(file.name[k]) # {}
RecordHere == CHOOSE k \in Recs(file) : StartsAt(k)

OpenAnyRecord ==   (* mutant: pNid is not tested *)
  /\ pc = "nidmap"
  /\ InSection
  /\ count = -1
  /\ IF \E k \in Recs(file) : Mapped(k)
     THEN p' = nids[RecordHere] /\ count' = cnt[RecordHere] + file.vars[RecordHere] /\ UNCHANGED r
     ELSE r' = r + StructWords /\ UNCHANGED <<p, count>>
  /\ UNCHANGED <<file, pc, runs, argVars, mapVars, elfVars, s, pLastImport, written>>

OpenRecord ==
  /\ pc = "nidmap"
  /\ InSection
  /\ count = -1
  /\ IF \E k \in Recs(file) : Mapped(k) /\ nids[k] # None
     THEN /\ p' = nids[RecordHere]
          /\ count' = cnt[RecordHere] + file.vars[RecordHere]
          /\ UNCHANGED r
     ELSE r' = r + StructWords /\ UNCHANGED <<p, count>>
  /\ UNCHANGED <<file, pc, runs, argVars, mapVars, elfVars, s, pLastImport, written>>

MapNid ==
  /\ pc = "nidmap"
  /\ count > 0
  /\ \E m \in FirstMap(file.name[RecordHere]) :
       nid' = IF p \in DOMAIN nid THEN [nid EXCEPT ![p] = RenamedBy(g_map[m].nids, nid[p])] ELSE nid
  /\ p' = p + 1
  /\ count' = count - 1
  /\ UNCHANGED <<file, pc, runs, argVars, mapVars, imp, cnt, nids, funcs, s, pLastImport, r, written>>

CloseRecord ==
  /\ pc = "nidmap"
  /\ count = 0
  /\ r' = r + StructWords
  /\ count' = -1
  /\ UNCHANGED <<file, pc, runs, argVars, mapVars, elfVars, s, pLastImport, p, written>>

RecordsDone ==
  /\ pc = "nidmap"
  /\ ~InSection
  /\ count = -1
  /\ pc' = "write"
  /\ UNCHANGED <<file, runs, argVars, mapVars, elfVars, loopVars, written>>

(***************************************************************************)
(* The end of main: the output goes over the input, or with -o to another  *)
(* file, or nowhere if it cannot be opened (KeepInput).  The exit status   *)
(* is 0 in every case, and if fwrite fails half-way: the file the next run *)
(* then loads is one Files can contain.                                    *)
(***************************************************************************)
FileOf(i, d, c, ns, fs) ==
  [valid |-> file.valid, libstub |-> file.libstub, stubtext |-> file.stubtext,
   n |-> file.n, nrec |-> file.nrec, at |-> file.at, name |-> file.name, vars |-> file.vars,
   same |-> [t \in Stubs(file) |-> i[t] = None \/ file.same[t]],
   imp |-> i, nid |-> d, cnt |-> c, nids |-> ns, funcs |-> fs]
Fixed == FileOf(imp, nid, cnt, nids, funcs)

WriteOver ==
  /\ pc = "write"
  /\ file' = Fixed
  /\ written' = TRUE
  /\ pc' = "done"
  /\ UNCHANGED <<runs, argVars, mapVars, elfVars, loopVars>>

KeepInput ==
  /\ pc = "write"
  /\ pc' = "done"
  /\ UNCHANGED <<file, runs, argVars, mapVars, elfVars, loopVars, written>>

Terminated ==
  /\ pc \in {"crashed", "done"}
  /\ runs = MaxRuns
  /\ UNCHANGED vars

Next ==
  \/ StartRun \/ MapLibrary \/ MapNoName \/ MapComment \/ MapEntry
  \/ LoadElf \/ FixStub \/ SkipJump \/ RejectStub \/ StubsDone
  \/ OpenRecord \/ MapNid \/ CloseRecord \/ RecordsDone \/ WriteOver \/ KeepInput
  \/ Terminated

Spec == Init /\ [][Next]_vars

(***************************************************************************)
(* Type invariant.                                                         *)
(***************************************************************************)
Stages == {"start", "map", "functions", "nidmap", "write", "done", "crashed"}
Entry  == [old : Nids, new : Nids]
Map    == [name : Libs \cup {None}, nids : Seq(Entry)]

TypeOK ==
  /\ WellFormedFile(file)
  /\ pc \in Stages
  /\ runs \in Nat
  /\ built \in Files /\ g_mapfile \in MapFiles[built] \cup {<<>>} /\ g_reversemap \in BOOLEAN
  /\ line \in 0 .. Len(g_mapfile)
  /\ g_map \in Seq(Map)
  /\ imp   \in [Stubs(file) -> (-1 .. file.nrec) \cup {None}]
  /\ nid   \in [Stubs(file) -> Nids]
  /\ cnt   \in [0 .. file.nrec -> Nat]
  /\ nids  \in [0 .. file.nrec -> Nat \cup {None}]
  /\ funcs \in [0 .. file.nrec -> Nat \cup {None}]
  /\ s \in 0 .. file.n
  /\ pLastImport \in (-1 .. file.nrec) \cup {None}
  /\ r \in 0 .. file.at[file.nrec] /\ p \in Nat /\ count \in Nat \cup {-1}
  /\ written \in BOOLEAN

(***************************************************************************)
(* The stubs of a record when the file was read.                           *)
(***************************************************************************)
StubsOf(k) == {t \in Stubs(file) : file.imp[t] = k}

(* A table whose first stub belongs to a record that has been completed    *)
(* before: pLastImport is still NULL when it is tested.                    *)
StartsInCompleted(f) ==
  f.n > 0 /\ f.imp[0] \in Recs(f) /\ f.cnt[f.imp[0]] # 0

(* Record k describes its stubs: the count of stubs from the position it   *)
(* holds are exactly the stubs that named it, and their NIDs are at the    *)
(* same positions of .rodata.sceNid; a record completed before is left     *)
(* alone.                                                                  *)
Describes(k) ==
  IF StubsOf(k) = {} \/ file.cnt[k] # 0
  THEN StubsOf(k) = {} /\ cnt[k] = file.cnt[k] /\ funcs[k] = file.funcs[k]
  ELSE StubsOf(k) = funcs[k] .. funcs[k] + cnt[k] - 1 /\ nids[k] = funcs[k]

(***************************************************************************)
(* When fixup_functions succeeds every record describes its stubs ("so we  *)
(* know if we have out of order stubs over a fixed stub table",            *)
(* psp-fixup-imports.c:700).  The tool compares a stub only with the one   *)
(* before it, and the first with nothing.                                  *)
(***************************************************************************)
RecordsDescribeStubs ==
  pc \in {"nidmap", "write"} => \A k \in Recs(file) : Describes(k)

(***************************************************************************)
(* When fixup_functions succeeds every record describes its stubs, whatever*)
(* mixture of new stubs and jumps the table is, unless it starts with a    *)
(* new stub of a record completed before.                                  *)
(***************************************************************************)
RecordsDescribeTheirStubs == ~StartsInCompleted(file) => RecordsDescribeStubs

(***************************************************************************)
(* The inductive invariants.  Of the stubs passed those of a record are    *)
(* consecutive, and end here if the last one was of the record; the others *)
(* are as they were read.  A record is open only in the loop over it.  In  *)
(* a file the tool has written nothing is left to complete.                *)
(***************************************************************************)
Loaded == pc \in {"functions", "nidmap", "write"}
Passed(k) == {t \in Stubs(file) : t < s /\ file.imp[t] = k}

StubsPassed ==
  /\ pc = "map" => s = 0 /\ pLastImport = None
  /\ Loaded =>
       /\ pc # "functions" => s = file.n
       /\ \A t \in Stubs(file) : imp[t] = IF t < s THEN None ELSE file.imp[t]
       /\ IF s = 0 THEN pLastImport = None
          ELSE pLastImport = IF file.imp[s - 1] = None THEN -1 ELSE file.imp[s - 1]

Contiguous(k) ==
  IF Passed(k) = {}
  THEN cnt[k] = file.cnt[k] /\ funcs[k] = file.funcs[k] /\ nids[k] = file.nids[k]
  ELSE /\ file.cnt[k] = 0 /\ cnt[k] > 0
       /\ nids[k] = funcs[k] /\ funcs[k] \in Nat
       /\ Passed(k) = funcs[k] .. funcs[k] + cnt[k] - 1
       /\ pLastImport = k => funcs[k] + cnt[k] = s

RecordsInvariant == Loaded /\ ~StartsInCompleted(file) => \A k \in Recs(file) : Contiguous(k)

RecordOpen == count # -1 => pc = "nidmap" /\ InSection /\ \E k \in Recs(file) : Mapped(k) /\ nids[k] # None

NidsKept == Loaded /\ g_map = <<>> => nid = file.nid /\ count = -1

NothingLeft ==
  written =>
    /\ \A t \in Stubs(file) : file.imp[t] = None /\ file.same[t]
    /\ file = [valid |-> file.valid, libstub |-> file.libstub, stubtext |-> file.stubtext,
               n |-> file.n, nrec |-> file.nrec, at |-> file.at, name |-> file.name, vars |-> file.vars,
               same |-> file.same, imp |-> file.imp, nid |-> file.nid,
               cnt |-> file.cnt, nids |-> file.nids, funcs |-> file.funcs]
    /\ Loaded => cnt = file.cnt /\ nids = file.nids /\ funcs = file.funcs

FixupInvariant == StubsPassed /\ RecordsInvariant /\ RecordOpen /\ NidsKept /\ NothingLeft

(***************************************************************************)
(* A reading of the map file without a current map.  Reading ends at the   *)
(* first line without a library name or one entry too many; of the lines R *)
(* a library's entries are those below the last line that names it.        *)
(***************************************************************************)
Kind(n) == g_mapfile[n].kind
Positions == 1 .. Len(g_mapfile)
Above(n) == {m \in 1 .. n - 1 : Kind(m) = "lib"}
Below(h, n) == {m \in h + 1 .. n - 1 : Kind(m) = "entry"}

IsBlock(h, n) == h \in Above(n) /\ \A m \in Above(n) : m <= h
OneTooMany(n) ==
  /\ Kind(n) \in {"entry", "assign", "invalid"}
  /\ \E h \in Above(n) : IsBlock(h, n) /\ Cardinality(Below(h, n)) >= MaxMapNids
Ends(n) == Kind(n) = "noname" \/ OneTooMany(n)

Read == {n \in Positions : \A m \in 1 .. n : ~Ends(m)}
HeadOf(R, lib) == {n \in R : Kind(n) = "lib" /\ g_mapfile[n].name = lib}
InForce(R, lib) ==
  {n \in R : Kind(n) = "entry" /\ \E h \in HeadOf(R, lib) :
     /\ \A m \in HeadOf(R, lib) : m <= h
     /\ h < n /\ \A m \in h + 1 .. n : Kind(m) # "lib"}

Renames(n, x) == Old(g_mapfile[n]) = x
Renamed(lib, x) ==
  LET found == {n \in InForce(Read, lib) : Renames(n, x)}
  IN  IF found = {} THEN x
      ELSE New(g_mapfile[CHOOSE n \in found : \A m \in found : n <= m])

NewNid(k, t) == IF file.name[k] = None THEN file.nid[t] ELSE Renamed(file.name[k], file.nid[t])
Owns(k, t) == nids[k] # None /\ t \in nids[k] .. nids[k] + cnt[k] - 1

(***************************************************************************)
(* fixup_nidmap renames the NIDs of a library once, by the first entry     *)
(* old:new for them in the last block of the map file for that library     *)
(* ("@LibraryName followed by 0 or more" entries,                          *)
(* psp-fixup-imports.c:485), and no other NID.  The next line of that      *)
(* comment writes entries old=new, which the code refuses: no entries.     *)
(***************************************************************************)
NidsRenamed ==
  pc = "write" /\ file.libstub => \A t \in Stubs(file) :
    \/ /\ \A k \in Recs(file) : ~Owns(k, t)
       /\ nid[t] = file.nid[t]
    \/ \E k \in Recs(file) : Owns(k, t) /\ nid[t] = NewNid(k, t)

(***************************************************************************)
(* Files whose records take six words, and have no variables: var_count is *)
(* added to the number of NIDs walked.  The records completed before are   *)
(* as a run of the tool leaves them, each with jumps of its own.           *)
(***************************************************************************)
JumpsOf(k) == {t \in Stubs(file) : /\ file.nids[k] # None
                                  /\ t \in file.nids[k] .. file.nids[k] + file.cnt[k] - 1}
JumpsApart == \A k, l \in Recs(file) : \A t \in JumpsOf(k) :
  file.imp[t] = None /\ (k # l => t \notin JumpsOf(l))

Regular ==
  /\ \A k \in Recs(file) : file.vars[k] = 0 /\ file.at[k + 1] = file.at[k] + StructWords
  /\ JumpsApart
  /\ ~StartsInCompleted(file)

(***************************************************************************)
(* In such files fixup_nidmap renames the NIDs of a library as the entries *)
(* old:new of the map file say, which are those load_mapfile takes, and no *)
(* other.  Map files with lines old=new are excepted: the comment at       *)
(* psp-fixup-imports.c:486 gives entries that form, and the code, which    *)
(* looks for a colon, refuses them.                                        *)
(***************************************************************************)
ColonEntries == \A n \in Positions : Kind(n) # "assign"
NidsRenamedByTheirLibrary == Regular /\ ColonEntries => NidsRenamed

(***************************************************************************)
(* The inductive invariant of the map file: whichever library, the entries *)
(* of its first map rename what its lines in force do.  Until reading ends *)
(* the current map is that of the last line with a library, and as long as *)
(* there are entries below it.                                             *)
(***************************************************************************)
IsFirst(maps, m, lib) == maps[m].name = lib /\ \A l \in 1 .. m - 1 : maps[l].name # lib

Agree(entries, S) == \A x \in Nids :
  \/ /\ \A n \in DOMAIN entries : Old(entries[n]) # x
     /\ \A n \in S : ~Renames(n, x)
  \/ \E n \in DOMAIN entries, q \in S :
       /\ Old(entries[n]) = x /\ \A l \in 1 .. n - 1 : Old(entries[l]) # x
       /\ Renames(q, x) /\ \A l \in S : Renames(l, x) => q <= l
       /\ New(entries[n]) = New(g_mapfile[q])

MapsAsLines(maps, R) == \A lib \in Libs \ {None} :
  \/ (\A m \in DOMAIN maps : maps[m].name # lib) /\ InForce(R, lib) = {}
  \/ \E m \in DOMAIN maps : IsFirst(maps, m, lib) /\ Agree(maps[m].nids, InForce(R, lib))

Going == \A n \in 1 .. line : ~Ends(n)
CurrentMap(maps, n) ==
  \/ maps = <<>> /\ Above(n) = {}
  \/ maps # <<>> /\ \E h \in Above(n) :
       /\ IsBlock(h, n) /\ maps[1].name = g_mapfile[h].name
       /\ Len(maps[1].nids) = Cardinality(Below(h, n)) /\ Len(maps[1].nids) <= MaxMapNids

ReadingInvariant == pc = "map" \/ Loaded =>
  /\ Loaded => line = Len(g_mapfile)
  /\ IF Going THEN CurrentMap(g_map, line + 1) /\ MapsAsLines(g_map, 1 .. line)
     ELSE line = Len(g_mapfile) /\ MapsAsLines(g_map, Read)

(***************************************************************************)
(* The inductive invariant of fixup_nidmap, for such files: r is where a   *)
(* record starts or the section ends, the NIDs of the records before it    *)
(* are renamed, of the open one those before p, and no others.             *)
(***************************************************************************)
Walked(k, t) == file.at[k] < r \/ (StartsAt(k) /\ count # -1 /\ t < p)

WalkInvariant ==
  /\ pc \in {"map", "functions"} => r = 0 /\ count = -1
  /\ pc = "functions" => nid = file.nid
  /\ pc \in {"nidmap", "write"} /\ file.libstub /\ Regular =>
       /\ \E k \in 0 .. file.nrec : file.at[k] = r
       /\ pc = "write" => ~InSection /\ count = -1
       /\ \A k \in Recs(file) : StartsAt(k) /\ count # -1 =>
            /\ nids[k] # None /\ file.name[k] # None
            /\ nids[k] <= p /\ p + count = nids[k] + cnt[k]
       /\ \A t \in Stubs(file) :
            /\ \A k \in Recs(file) : Owns(k, t) /\ Walked(k, t) => nid[t] = NewNid(k, t)
            /\ (\A k \in Recs(file) : Owns(k, t) => ~Walked(k, t)) => nid[t] = file.nid[t]

(***************************************************************************)
(* Run again over its own output, with no map, the tool changes nothing:   *)
(* a makefile may run it twice.                                            *)
(***************************************************************************)
RerunChangesNothing ==
  pc = "write" /\ written /\ g_map = <<>> => Fixed = file

(***************************************************************************)
(* "Error, invalid stub address" (psp-fixup-imports.c:662): a stub that    *)
(* does not hold the address of a record is refused, so nothing but the    *)
(* records of .lib.stub is completed.                                      *)
(***************************************************************************)
OnlyRecordsCompleted ==
  cnt[file.nrec] = file.cnt[file.nrec] /\ funcs[file.nrec] = file.funcs[file.nrec]
=============================================================================
