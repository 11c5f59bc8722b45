-------------------------- MODULE FixupImportsProofs --------------------------
(***************************************************************************)
(* The type invariant of FixupImports, that records describe their stubs,  *)
(* that NIDs are renamed as the map file says and that a second run        *)
(* changes nothing, for files of any size, map files of any length and any *)
(* number of runs.                                                         *)
(***************************************************************************)
EXTENDS FixupImports, SequenceTheorems, FiniteSetTheorems, TLAPS

LEMMA FileFacts ==
  ASSUME NEW f, WellFormedFile(f)
  PROVE  /\ f.n \in Nat /\ f.nrec \in Nat
         /\ f.at[f.nrec] \in Nat /\ f.nrec \in 0 .. f.nrec /\ 0 \in 0 .. f.nrec
         /\ \A k \in 0 .. f.nrec : f.at[k] \in Nat
         /\ \A k, l \in 0 .. f.nrec : k # l => f.at[k] # f.at[l]
         /\ Recs(f) \subseteq 0 .. f.nrec
<1>1. f.n \in Nat /\ f.nrec \in Nat /\ f.at \in [0 .. f.nrec -> Nat]
  BY DEF WellFormedFile
<1>2. \A k, l \in 0 .. f.nrec : k < l => f.at[k] < f.at[l]
  BY DEF WellFormedFile
<1>3. \A k \in 0 .. f.nrec : f.at[k] \in Nat
  BY <1>1
<1>4. ASSUME NEW k \in 0 .. f.nrec, NEW l \in 0 .. f.nrec, k # l PROVE f.at[k] # f.at[l]
  <2>1. k < l \/ l < k
    BY <1>1, <1>4
  <2>2. f.at[k] < f.at[l] \/ f.at[l] < f.at[k]
    BY <2>1, <1>2
  <2> QED
    BY <2>2, <1>3
<1> QED
  BY <1>1, <1>3, <1>4 DEF Recs

(* The record fixup_nidmap is at is the one it has opened.                 *)
LEMMA RecordIsHere ==
  ASSUME WellFormedFile(file), NEW k \in Recs(file), StartsAt(k)
  PROVE  RecordHere = k
<1>1. \A l \in Recs(file) : StartsAt(l) => l = k
  BY FileFacts DEF StartsAt
<1> QED
  BY <1>1 DEF RecordHere

(***************************************************************************)
(* What RenamedBy returns is a NID.                                        *)
(***************************************************************************)
LEMMA EntryType ==
  ASSUME NEW maps \in Seq(Map), NEW m \in DOMAIN maps
  PROVE  /\ maps[m] \in Map
         /\ maps[m].nids \in Seq(Entry)
         /\ \A n \in DOMAIN maps[m].nids : maps[m].nids[n] \in Entry
<1>1. maps[m] \in Map
  BY ElementOfSeq
<1>2. maps[m].nids \in Seq(Entry)
  BY <1>1 DEF Map
<1>3. \A n \in DOMAIN maps[m].nids : maps[m].nids[n] \in Entry
  BY <1>2, ElementOfSeq
<1> QED
  BY <1>1, <1>2, <1>3

LEMMA RenamedType ==
  ASSUME g_map \in Seq(Map), NEW m \in DOMAIN g_map, NEW x \in Nids
  PROVE  RenamedBy(g_map[m].nids, x) \in Nids
<1> DEFINE es == g_map[m].nids
<1>1. CASE FirstEntry(es, x) = {}
  BY <1>1 DEF RenamedBy
<1>2. CASE FirstEntry(es, x) # {}
  <2>1. PICK n \in FirstEntry(es, x) : n = CHOOSE e \in FirstEntry(es, x) : TRUE
    BY <1>2
  <2>2. n \in DOMAIN es
    BY DEF FirstEntry
  <2>3. es[n] \in Entry
    BY <2>2, EntryType
  <2>4. New(es[n]) \in Nids
    BY <2>3 DEF New, Entry
  <2> QED
    BY <1>2, <2>1, <2>4 DEF RenamedBy
<1> QED
  BY <1>1, <1>2

(***************************************************************************)
(* Reading the map file keeps the type of the list.                        *)
(***************************************************************************)
LEMMA LineType ==
  ASSUME TypeOK, InMapFile
  PROVE  /\ Current \in Lines
         /\ line + 1 \in 0 .. Len(g_mapfile) /\ Len(g_mapfile) \in 0 .. Len(g_mapfile)
<1>1. MapFiles[built] \subseteq Seq(Lines)
  BY FixupConstants DEF TypeOK
<1>2. g_mapfile \in Seq(Lines)
  <2>1. <<>> \in Seq(Lines)
    OBVIOUS
  <2> QED
    BY <1>1, <2>1 DEF TypeOK
<1>3. line + 1 \in 1 .. Len(g_mapfile) /\ Len(g_mapfile) \in Nat
  BY <1>2 DEF TypeOK, InMapFile
<1> QED
  BY <1>2, <1>3 DEF Current

LEMMA NewMapType ==
  ASSUME NEW maps \in Seq(Map), NEW name \in Libs \cup {None}
  PROVE  <<[name |-> name, nids |-> <<>>]>> \o maps \in Seq(Map)
<1>1. <<>> \in Seq(Entry)
  OBVIOUS
<1>2. [name |-> name, nids |-> <<>>] \in Map
  BY <1>1 DEF Map
<1>3. <<[name |-> name, nids |-> <<>>]>> \in Seq(Map)
  BY <1>2
<1> QED
  BY <1>3, ConcatProperties

LEMMA NewEntryType ==
  ASSUME NEW maps \in Seq(Map), maps # <<>>, NEW e \in Entry
  PROVE  <<[name |-> maps[1].name, nids |-> Append(maps[1].nids, e)]>> \o Tail(maps) \in Seq(Map)
<1>1. 1 \in DOMAIN maps
  BY EmptySeq, LenProperties
<1>2. maps[1].nids \in Seq(Entry) /\ maps[1].name \in Libs \cup {None}
  BY <1>1, EntryType DEF Map
<1>3. Append(maps[1].nids, e) \in Seq(Entry)
  BY <1>2, AppendProperties
<1>4. [name |-> maps[1].name, nids |-> Append(maps[1].nids, e)] \in Map
  BY <1>2, <1>3 DEF Map
<1>5. <<[name |-> maps[1].name, nids |-> Append(maps[1].nids, e)]>> \in Seq(Map)
  BY <1>4
<1>6. Tail(maps) \in Seq(Map)
  BY HeadTailProperties
<1> QED
  BY <1>5, <1>6, ConcatProperties

(***************************************************************************)
(* The file the tool writes is one it can read.                            *)
(***************************************************************************)
LEMMA FixedFacts ==
  ASSUME NEW f, f = Fixed
  PROVE  /\ f.valid = file.valid /\ f.libstub = file.libstub /\ f.stubtext = file.stubtext
         /\ f.n = file.n /\ f.nrec = file.nrec /\ f.at = file.at /\ f.name = file.name
         /\ f.vars = file.vars
         /\ f.same = [t \in Stubs(file) |-> imp[t] = None \/ file.same[t]]
         /\ f.imp = imp /\ f.nid = nid /\ f.cnt = cnt /\ f.nids = nids /\ f.funcs = funcs
         /\ Stubs(f) = Stubs(file) /\ Recs(f) = Recs(file)
<1>1. /\ f.valid = file.valid /\ f.libstub = file.libstub /\ f.stubtext = file.stubtext
      /\ f.n = file.n /\ f.nrec = file.nrec /\ f.at = file.at /\ f.name = file.name
      /\ f.vars = file.vars
      /\ f.same = [t \in Stubs(file) |-> imp[t] = None \/ file.same[t]]
      /\ f.imp = imp /\ f.nid = nid /\ f.cnt = cnt /\ f.nids = nids /\ f.funcs = funcs
  BY DEF Fixed, FileOf
<1> QED
  BY <1>1 DEF Stubs, Recs

LEMMA FixedWellFormed ==
  ASSUME TypeOK, NEW f, f = Fixed
  PROVE  WellFormedFile(f)
<1>1. /\ f.valid \in BOOLEAN /\ f.libstub \in BOOLEAN /\ f.stubtext \in BOOLEAN
      /\ f.n \in Nat /\ f.nrec \in Nat
      /\ ~f.stubtext \/ ~f.libstub => f.n = 0
  BY FixedFacts DEF TypeOK, WellFormedFile
<1>2. /\ f.imp \in [Stubs(f) -> (-1 .. f.nrec) \cup {None}] /\ f.nid \in [Stubs(f) -> Nids]
      /\ f.cnt \in [0 .. f.nrec -> Nat]
      /\ f.nids \in [0 .. f.nrec -> Nat \cup {None}] /\ f.funcs \in [0 .. f.nrec -> Nat \cup {None}]
  BY FixedFacts DEF TypeOK
<1>3. f.same \in [Stubs(f) -> BOOLEAN]
  <2>1. f.same = [t \in Stubs(f) |-> imp[t] = None \/ file.same[t]]
    BY FixedFacts
  <2>2. file.same \in [Stubs(f) -> BOOLEAN]
    BY FixedFacts DEF TypeOK, WellFormedFile
  <2>3. \A t \in Stubs(f) : (imp[t] = None \/ file.same[t]) \in BOOLEAN
    OBVIOUS
  <2> QED
    BY <2>1, <2>3
<1>4. /\ f.at \in [0 .. f.nrec -> Nat]
      /\ f.at[0] = 0 /\ \A k \in Recs(f) : f.at[k + 1] - f.at[k] \in EntryWords
      /\ \A k, l \in 0 .. f.nrec : k < l => f.at[k] < f.at[l]
      /\ f.name \in [Recs(f) -> Libs \cup {None}] /\ f.vars \in [Recs(f) -> Nat]
  BY FixedFacts DEF TypeOK, WellFormedFile
<1> QED
  BY <1>1, <1>2, <1>3, <1>4 DEF WellFormedFile

(***************************************************************************)
(* Every step keeps the types.                                             *)
(***************************************************************************)
LEMMA InitTypes == Init => TypeOK /\ RecordOpen
<1> SUFFICES ASSUME Init PROVE TypeOK /\ RecordOpen
  OBVIOUS
<1>1. WellFormedFile(file) /\ built \in Files /\ MaxRuns \in Nat
  BY FixupConstants DEF Init
<1>2. /\ imp \in [Stubs(file) -> (-1 .. file.nrec) \cup {None}] /\ nid \in [Stubs(file) -> Nids]
      /\ cnt \in [0 .. file.nrec -> Nat]
      /\ nids \in [0 .. file.nrec -> Nat \cup {None}] /\ funcs \in [0 .. file.nrec -> Nat \cup {None}]
  BY <1>1 DEF Init, LoadedFrom, WellFormedFile
<1>3. g_map \in Seq(Map) /\ line \in 0 .. Len(g_mapfile)
  BY DEF Init
<1>4. s \in 0 .. file.n /\ r \in 0 .. file.at[file.nrec]
  BY <1>1, FileFacts DEF Init
<1>5. /\ pc \in Stages /\ runs \in Nat /\ g_mapfile \in MapFiles[built] \cup {<<>>} /\ g_reversemap \in BOOLEAN
      /\ pLastImport \in (-1 .. file.nrec) \cup {None} /\ p \in Nat /\ count = -1 /\ written \in BOOLEAN
  BY DEF Init, Stages
<1> QED
  BY <1>1, <1>2, <1>3, <1>4, <1>5 DEF TypeOK, RecordOpen

LEMMA StepTypes ==
  ASSUME TypeOK, RecordOpen, [Next]_vars
  PROVE  TypeOK'
<1> DEFINE FileTypes ==
      /\ WellFormedFile(file)
      /\ imp \in [Stubs(file) -> (-1 .. file.nrec) \cup {None}] /\ nid \in [Stubs(file) -> Nids]
      /\ cnt \in [0 .. file.nrec -> Nat]
      /\ nids \in [0 .. file.nrec -> Nat \cup {None}] /\ funcs \in [0 .. file.nrec -> Nat \cup {None}]
    MapTypes ==
      /\ built \in Files /\ g_mapfile \in MapFiles[built] \cup {<<>>} /\ g_reversemap \in BOOLEAN
      /\ line \in 0 .. Len(g_mapfile) /\ g_map \in Seq(Map)
    LoopTypes ==
      /\ s \in 0 .. file.n /\ pLastImport \in (-1 .. file.nrec) \cup {None}
      /\ r \in 0 .. file.at[file.nrec] /\ p \in Nat /\ count \in Nat \cup {-1}
    RunTypes == pc \in Stages /\ runs \in Nat /\ written \in BOOLEAN
<1>0. FileTypes /\ MapTypes /\ LoopTypes /\ RunTypes
  BY DEF TypeOK
<1>a. FileTypes' /\ MapTypes' /\ LoopTypes' /\ RunTypes' => TypeOK'
  BY DEF TypeOK
<1>b. UNCHANGED <<file, elfVars>> => FileTypes'
  BY <1>0 DEF elfVars
<1>c. UNCHANGED <<argVars, mapVars>> => MapTypes'
  BY <1>0 DEF argVars, mapVars
<1>d. UNCHANGED <<file, loopVars>> => LoopTypes'
  BY <1>0 DEF loopVars
<1>e. /\ file.n \in Nat /\ file.nrec \in Nat /\ file.at[file.nrec] \in Nat
      /\ Recs(file) \subseteq 0 .. file.nrec
  BY <1>0, FileFacts
<1> HIDE DEF FileTypes, MapTypes, LoopTypes, RunTypes
<1>1. CASE StartRun
  <2>1. MapTypes'
    <3>1. line' \in 0 .. Len(g_mapfile') /\ g_map' \in Seq(Map)
      <4>1. g_mapfile' \in Seq(Lines)
        BY <1>0, <1>1, FixupConstants DEF StartRun, MapTypes
      <4> QED
        BY <1>1, <4>1 DEF StartRun
    <3> QED
      BY <1>0, <1>1, <3>1 DEF StartRun, MapTypes
  <2>2. LoopTypes'
    BY <1>1, <1>e DEF StartRun, LoopTypes
  <2>3. RunTypes'
    BY <1>0, <1>1 DEF StartRun, RunTypes, Stages
  <2> QED
    BY <1>1, <2>1, <2>2, <2>3, <1>a, <1>b DEF StartRun
<1>2. CASE MapLibrary
  <2>1. MapTypes'
    <3>1. Current \in Lines /\ line + 1 \in 0 .. Len(g_mapfile)
      BY <1>2, LineType DEF MapLibrary
    <3>2. Current.name \in Libs
      BY <1>2, <3>1 DEF MapLibrary, Lines, LibLine, EntryLine, AssignLine, OtherLine
    <3>3. g_map' \in Seq(Map)
      BY <1>0, <1>2, <3>2, NewMapType DEF MapLibrary, MapTypes
    <3> QED
      BY <1>0, <1>2, <3>1, <3>3 DEF MapLibrary, MapTypes, argVars
  <2>2. RunTypes'
    BY <1>0, <1>2 DEF MapLibrary, RunTypes
  <2> QED
    BY <1>2, <2>1, <2>2, <1>a, <1>b, <1>d DEF MapLibrary
<1>3. CASE MapNoName
  <2>1. MapTypes'
    <3>1. Len(g_mapfile) \in 0 .. Len(g_mapfile)
      BY <1>3, LineType DEF MapNoName
    <3>2. g_map' \in Seq(Map)
      BY <1>0, <1>3, NewMapType DEF MapNoName, MapTypes
    <3> QED
      BY <1>0, <1>3, <3>1, <3>2 DEF MapNoName, SkipRest, MapTypes, argVars
  <2>2. RunTypes'
    BY <1>0, <1>3 DEF MapNoName, RunTypes
  <2> QED
    BY <1>3, <2>1, <2>2, <1>a, <1>b, <1>d DEF MapNoName
<1>4. CASE MapComment
  <2>1. MapTypes'
    <3>1. line + 1 \in 0 .. Len(g_mapfile)
      BY <1>4, LineType DEF MapComment
    <3> QED
      BY <1>0, <1>4, <3>1 DEF MapComment, MapTypes, argVars
  <2>2. RunTypes'
    BY <1>0, <1>4 DEF MapComment, RunTypes
  <2> QED
    BY <1>4, <2>1, <2>2, <1>a, <1>b, <1>d DEF MapComment
<1>5. CASE MapEntry
  <2>1. MapTypes'
    <3>1. /\ Current \in Lines
          /\ line + 1 \in 0 .. Len(g_mapfile) /\ Len(g_mapfile) \in 0 .. Len(g_mapfile)
      BY <1>5, LineType DEF MapEntry
    <3>2. line' = line \/ line' = line + 1 \/ line' = Len(g_mapfile)
      BY <1>5 DEF MapEntry, mapVars, SkipRest
    <3>3. g_map' \in Seq(Map)
      <4>1. CASE UNCHANGED g_map
        BY <1>0, <4>1 DEF MapTypes
      <4>2. CASE /\ g_map # <<>> /\ Current.kind = "entry"
                 /\ g_map' = <<[name |-> g_map[1].name,
                                nids |-> Append(g_map[1].nids, [old |-> Current.old, new |-> Current.new])]>>
                             \o Tail(g_map)
        <5>1. [old |-> Current.old, new |-> Current.new] \in Entry
          BY <3>1, <4>2 DEF Lines, LibLine, EntryLine, AssignLine, OtherLine, Entry
        <5> QED
          BY <1>0, <4>2, <5>1, NewEntryType DEF MapTypes
      <4> QED
        BY <1>5, <4>1, <4>2 DEF MapEntry, mapVars
    <3> QED
      BY <1>0, <1>5, <3>1, <3>2, <3>3 DEF MapEntry, MapTypes, argVars
  <2>2. RunTypes'
    BY <1>0, <1>5 DEF MapEntry, RunTypes, Stages
  <2> QED
    BY <1>5, <2>1, <2>2, <1>a, <1>b, <1>d DEF MapEntry
<1>6. CASE LoadElf
  <2>1. FileTypes'
    BY <1>0, <1>6 DEF LoadElf, FileTypes, WellFormedFile
  <2>2. RunTypes'
    BY <1>0, <1>6 DEF LoadElf, RunTypes, Stages
  <2> QED
    BY <1>6, <2>1, <2>2, <1>a, <1>c, <1>d DEF LoadElf
<1>7. CASE FixStub
  <2>1. s \in Stubs(file) /\ s + 1 \in 0 .. file.n
    BY <1>0, <1>7, <1>e DEF FixStub, InStubs, LoopTypes, Stubs
  <2>2. imp[s] \in 0 .. file.nrec
    BY <1>7 DEF FixStub, Rejected, InvalidAddress
  <2>3. PICK k \in 0 .. file.nrec : k = imp[s]
    BY <2>2
  <2>4. cnt[k] + 1 \in Nat /\ s \in Nat
    <3>1. cnt[k] \in Nat
      BY <1>0 DEF FileTypes
    <3>2. s \in Nat
      BY <1>0, <1>e DEF LoopTypes
    <3> QED
      BY <3>1, <3>2
  <2>5. /\ nids' = IF cnt[k] = 0 THEN [nids EXCEPT ![k] = s] ELSE nids
        /\ funcs' = IF cnt[k] = 0 THEN [funcs EXCEPT ![k] = s] ELSE funcs
        /\ cnt' = [cnt EXCEPT ![k] = cnt[k] + 1]
        /\ imp' = [imp EXCEPT ![s] = None]
        /\ pLastImport' = k /\ s' = s + 1
    BY <1>7, <2>3 DEF FixStub
  <2>6. FileTypes'
    <3>1. nids' \in [0 .. file.nrec -> Nat \cup {None}]
      BY <1>0, <2>4, <2>5 DEF FileTypes
    <3>2. funcs' \in [0 .. file.nrec -> Nat \cup {None}]
      BY <1>0, <2>4, <2>5 DEF FileTypes
    <3>3. cnt' \in [0 .. file.nrec -> Nat]
      BY <1>0, <2>4, <2>5 DEF FileTypes
    <3>4. imp' \in [Stubs(file) -> (-1 .. file.nrec) \cup {None}]
      BY <1>0, <2>5 DEF FileTypes
    <3> QED
      BY <1>0, <1>7, <3>1, <3>2, <3>3, <3>4 DEF FixStub, FileTypes
  <2>7. LoopTypes'
    BY <1>0, <1>7, <1>e, <2>1, <2>5 DEF FixStub, LoopTypes
  <2>8. RunTypes'
    BY <1>0, <1>7 DEF FixStub, RunTypes
  <2> QED
    BY <1>7, <2>6, <2>7, <2>8, <1>a, <1>c DEF FixStub
<1>8. CASE SkipJump
  <2>1. s + 1 \in 0 .. file.n /\ -1 \in -1 .. file.nrec
    BY <1>0, <1>8, <1>e DEF SkipJump, InStubs, LoopTypes
  <2>2. LoopTypes'
    BY <1>0, <1>8, <2>1 DEF SkipJump, LoopTypes
  <2>3. RunTypes'
    BY <1>0, <1>8 DEF SkipJump, RunTypes
  <2> QED
    BY <1>8, <2>2, <2>3, <1>a, <1>b, <1>c DEF SkipJump
<1>9. CASE RejectStub \/ StubsDone \/ RecordsDone \/ KeepInput
  <2>1. RunTypes'
    BY <1>0, <1>9 DEF RejectStub, StubsDone, RecordsDone, KeepInput, RunTypes, Stages
  <2> QED
    BY <1>9, <2>1, <1>a, <1>b, <1>c, <1>d DEF RejectStub, StubsDone, RecordsDone, KeepInput
<1>10. CASE OpenRecord
  <2>1. LoopTypes'
    <3>1. CASE \E k \in Recs(file) : Mapped(k) /\ nids[k] # None
      <4>1. PICK k \in Recs(file) : Mapped(k) /\ nids[k] # None
        BY <3>1
      <4>2. RecordHere = k
        BY <1>0, <4>1, RecordIsHere DEF Mapped, FileTypes
      <4>3. nids[k] \in Nat /\ cnt[k] + file.vars[k] \in Nat
        <5>1. nids[k] \in Nat \cup {None} /\ cnt[k] \in Nat
          BY <1>0, <1>e DEF FileTypes
        <5>2. file.vars[k] \in Nat
          BY <1>0 DEF FileTypes, WellFormedFile
        <5> QED
          BY <4>1, <5>1, <5>2
      <4> QED
        BY <1>0, <1>10, <3>1, <4>2, <4>3 DEF OpenRecord, LoopTypes
    <3>2. CASE ~\E k \in Recs(file) : Mapped(k) /\ nids[k] # None
      <4>1. r + StructWords \in 0 .. file.at[file.nrec]
        BY <1>0, <1>10, <1>e DEF OpenRecord, InSection, LoopTypes, StructWords
      <4> QED
        BY <1>0, <1>10, <3>2, <4>1 DEF OpenRecord, LoopTypes
    <3> QED
      BY <3>1, <3>2
  <2>2. RunTypes'
    BY <1>0, <1>10 DEF OpenRecord, RunTypes
  <2> QED
    BY <1>10, <2>1, <2>2, <1>a, <1>b, <1>c DEF OpenRecord
<1>11. CASE MapNid
  <2>1. FileTypes'
    <3>1. PICK m \in FirstMap(file.name[RecordHere]) :
            nid' = IF p \in DOMAIN nid THEN [nid EXCEPT ![p] = RenamedBy(g_map[m].nids, nid[p])] ELSE nid
      BY <1>11 DEF MapNid
    <3>2. m \in DOMAIN g_map /\ g_map \in Seq(Map)
      BY <1>0, <3>1 DEF FirstMap, MapTypes
    <3>3. p \in DOMAIN nid => RenamedBy(g_map[m].nids, nid[p]) \in Nids
      BY <1>0, <3>2, RenamedType DEF FileTypes
    <3>4. nid' \in [Stubs(file) -> Nids]
      BY <1>0, <3>1, <3>3 DEF FileTypes
    <3> QED
      BY <1>0, <1>11, <3>4 DEF MapNid, FileTypes
  <2>2. LoopTypes'
    <3>1. p + 1 \in Nat /\ count - 1 \in Nat
      BY <1>0, <1>11 DEF MapNid, LoopTypes
    <3> QED
      BY <1>0, <1>11, <3>1 DEF MapNid, LoopTypes
  <2>3. RunTypes'
    BY <1>0, <1>11 DEF MapNid, RunTypes
  <2> QED
    BY <1>11, <2>1, <2>2, <2>3, <1>a, <1>c DEF MapNid
<1>12. CASE CloseRecord
  <2>1. InSection
    BY <1>12 DEF CloseRecord, RecordOpen
  <2>2. r + StructWords \in 0 .. file.at[file.nrec]
    BY <1>0, <1>e, <2>1 DEF InSection, LoopTypes, StructWords
  <2>3. LoopTypes'
    BY <1>0, <1>12, <2>2 DEF CloseRecord, LoopTypes
  <2>4. RunTypes'
    BY <1>0, <1>12 DEF CloseRecord, RunTypes
  <2> QED
    BY <1>12, <2>3, <2>4, <1>a, <1>b, <1>c DEF CloseRecord
<1>13. CASE WriteOver
  <2>1. WellFormedFile(file')
    BY <1>13, FixedWellFormed DEF WriteOver
  <2>2. /\ file'.n = file.n /\ file'.nrec = file.nrec /\ file'.at = file.at
        /\ Stubs(file') = Stubs(file) /\ Recs(file') = Recs(file)
    BY <1>13, FixedFacts DEF WriteOver
  <2>3. FileTypes'
    BY <1>0, <1>13, <2>1, <2>2 DEF WriteOver, FileTypes, elfVars
  <2>4. LoopTypes'
    BY <1>0, <1>13, <2>2 DEF WriteOver, LoopTypes, loopVars
  <2>5. RunTypes'
    BY <1>0, <1>13 DEF WriteOver, RunTypes, Stages
  <2> QED
    BY <1>13, <2>3, <2>4, <2>5, <1>a, <1>c DEF WriteOver
<1>14. CASE Terminated \/ UNCHANGED vars
  <2>1. UNCHANGED vars
    BY <1>14 DEF Terminated
  <2>2. RunTypes'
    BY <1>0, <2>1 DEF vars, RunTypes
  <2> QED
    BY <2>1, <2>2, <1>a, <1>b, <1>c, <1>d DEF vars
<1> QED
  BY <1>1, <1>2, <1>3, <1>4, <1>5, <1>6, <1>7, <1>8, <1>9, <1>10, <1>11, <1>12, <1>13, <1>14 DEF Next

LEMMA StepRecordOpen ==
  ASSUME TypeOK, RecordOpen, [Next]_vars
  PROVE  RecordOpen'
<1>1. CASE count' = -1
  BY <1>1 DEF RecordOpen
<1>2. CASE OpenRecord
  <2>1. CASE \E k \in Recs(file) : Mapped(k) /\ nids[k] # None
    BY <1>2, <2>1 DEF OpenRecord, RecordOpen, InSection, Mapped, StartsAt, FirstMap, mapVars, elfVars
  <2>2. CASE ~\E k \in Recs(file) : Mapped(k) /\ nids[k] # None
    BY <1>2, <2>2 DEF OpenRecord, RecordOpen
  <2> QED
    BY <2>1, <2>2
<1>3. CASE MapNid
  <2>1. count # -1
    BY <1>3 DEF MapNid, TypeOK
  <2> QED
    BY <1>3, <2>1 DEF MapNid, RecordOpen, InSection, Mapped, StartsAt, FirstMap, mapVars
<1>4. CASE UNCHANGED <<pc, file, r, g_map, nids, count>>
  BY <1>4 DEF RecordOpen, InSection, Mapped, StartsAt, FirstMap
<1>5. CASE pc # "nidmap" /\ count' = count
  BY <1>1, <1>5 DEF RecordOpen
<1>6. \/ count' = -1 \/ OpenRecord \/ MapNid \/ UNCHANGED <<pc, file, r, g_map, nids, count>>
      \/ pc # "nidmap" /\ count' = count
  <2>1. CASE StartRun \/ CloseRecord
    BY <2>1 DEF StartRun, CloseRecord
  <2>2. CASE RecordsDone
    BY <2>2 DEF RecordsDone, loopVars
  <2>3. CASE MapLibrary \/ MapNoName \/ MapComment \/ MapEntry \/ LoadElf
    BY <2>3 DEF MapLibrary, MapNoName, MapComment, MapEntry, InMapFile, LoadElf, loopVars
  <2>4. CASE FixStub \/ SkipJump \/ RejectStub \/ StubsDone
    BY <2>4 DEF FixStub, SkipJump, RejectStub, StubsDone, InStubs, loopVars
  <2>5. CASE WriteOver \/ KeepInput
    BY <2>5 DEF WriteOver, KeepInput, loopVars
  <2>6. CASE Terminated \/ UNCHANGED vars
    BY <2>6 DEF Terminated, vars, mapVars, elfVars, loopVars
  <2> QED
    BY <2>1, <2>2, <2>3, <2>4, <2>5, <2>6 DEF Next
<1> QED
  BY <1>1, <1>2, <1>3, <1>4, <1>5, <1>6

(***************************************************************************)
(* The variables of psp-fixup-imports keep their types, for files of any   *)
(* size, map files of any length and any number of runs over the output.   *)
(***************************************************************************)
THEOREM TypeCorrect == Spec => []TypeOK
<1>1. Init => TypeOK /\ RecordOpen
  BY InitTypes
<1>2. TypeOK /\ RecordOpen /\ [Next]_vars => TypeOK' /\ RecordOpen'
  BY StepTypes, StepRecordOpen
<1> QED
  BY <1>1, <1>2, PTL DEF Spec

(***************************************************************************)
(* What the steps outside fixup_functions leave alone.                     *)
(***************************************************************************)
LEMMA StepKinds ==
  ASSUME [Next]_vars
  PROVE  \/ StartRun \/ LoadElf \/ FixStub \/ SkipJump \/ StubsDone
         \/ /\ pc' = pc \/ (pc = "nidmap" /\ pc' = "write")
            /\ UNCHANGED <<file, imp, cnt, nids, funcs, s, pLastImport, written>>
         \/ ~Loaded' /\ pc' # "map" /\ UNCHANGED <<file, written>>
         \/ WriteOver
<1>1. CASE MapLibrary \/ MapNoName \/ MapComment \/ MapEntry
  BY <1>1 DEF MapLibrary, MapNoName, MapComment, MapEntry, InMapFile, Loaded, elfVars, loopVars
<1>2. CASE OpenRecord \/ MapNid \/ CloseRecord \/ RecordsDone
  BY <1>2 DEF OpenRecord, MapNid, CloseRecord, RecordsDone, elfVars, loopVars
<1>3. CASE RejectStub \/ KeepInput
  BY <1>3 DEF RejectStub, KeepInput, Loaded
<1>4. CASE Terminated \/ UNCHANGED vars
  BY <1>4 DEF Terminated, vars, elfVars, loopVars
<1> QED
  BY <1>1, <1>2, <1>3, <1>4 DEF Next

(***************************************************************************)
(* Stubs that are passed are jumps, the others are those of the file.      *)
(***************************************************************************)
LEMMA StepStubsPassed ==
  ASSUME TypeOK, StubsPassed, [Next]_vars
  PROVE  StubsPassed'
<1>0. file.n \in Nat /\ s \in 0 .. file.n
  BY FileFacts DEF TypeOK
<1>1. CASE StartRun
  BY <1>1 DEF StartRun, StubsPassed, Loaded
<1>2. CASE LoadElf
  <2>1. /\ s' = 0 /\ pLastImport' = None /\ imp' = file.imp /\ file' = file
        /\ pc' \in {"done", "write", "functions", "nidmap"}
    BY <1>2 DEF LoadElf, StubsPassed, loopVars
  <2>2. pc' \in {"write", "nidmap"} => file.n = 0
    BY <1>2 DEF LoadElf, TypeOK, WellFormedFile
  <2>3. \A t \in Stubs(file) : ~(t < 0)
    BY <1>0 DEF Stubs
  <2>4. Stubs(file') = Stubs(file)
    BY <2>1 DEF Stubs
  <2> QED
    BY <2>1, <2>2, <2>3, <2>4 DEF StubsPassed, Loaded
<1>3. CASE FixStub \/ SkipJump
  <2>1. /\ pc = "functions" /\ pc' = "functions" /\ file' = file /\ s' = s + 1 /\ s \in Stubs(file)
        /\ imp' = [imp EXCEPT ![s] = None]
        /\ pLastImport' = IF imp[s] = None THEN -1 ELSE imp[s]
    <3>1. s \in Stubs(file)
      BY <1>0, <1>3 DEF FixStub, SkipJump, InStubs, Stubs
    <3>2. CASE FixStub
      BY <3>1, <3>2 DEF FixStub, InStubs
    <3>3. CASE SkipJump
      <4>1. imp[s] = None /\ imp' = imp /\ imp \in [Stubs(file) -> (-1 .. file.nrec) \cup {None}]
        BY <3>3 DEF SkipJump, elfVars, TypeOK
      <4>2. imp' = [imp EXCEPT ![s] = None]
        BY <4>1, <3>1
      <4> QED
        BY <3>1, <3>3, <4>1, <4>2 DEF SkipJump, InStubs
    <3> QED
      BY <1>3, <3>2, <3>3
  <2>2. \A t \in Stubs(file) : imp[t] = IF t < s THEN None ELSE file.imp[t]
    BY <2>1 DEF StubsPassed, Loaded
  <2>3. ASSUME NEW t \in Stubs(file) PROVE imp'[t] = IF t < s + 1 THEN None ELSE file.imp[t]
    <3>1. t < s + 1 <=> t < s \/ t = s
      BY <1>0 DEF Stubs
    <3> QED
      BY <2>1, <2>2, <3>1 DEF TypeOK
  <2>4. imp[s] = file.imp[s] /\ s + 1 # 0 /\ (s + 1) - 1 = s
    BY <1>0, <2>1, <2>2
  <2>5. Stubs(file') = Stubs(file)
    BY <2>1 DEF Stubs
  <2> QED
    BY <2>1, <2>3, <2>4, <2>5 DEF StubsPassed, Loaded
<1>4. CASE StubsDone
  BY <1>4 DEF StubsDone, StubsPassed, Loaded, Stubs, elfVars, loopVars
<1>5. CASE /\ \/ pc' = pc
              \/ pc = "nidmap" /\ pc' = "write"
           /\ UNCHANGED <<file, imp, cnt, nids, funcs, s, pLastImport, written>>
  BY <1>5 DEF StubsPassed, Loaded, Stubs
<1>6. CASE (~Loaded' /\ pc' # "map") \/ WriteOver
  BY <1>6 DEF StubsPassed, Loaded, WriteOver
<1> QED
  BY <1>1, <1>2, <1>3, <1>4, <1>5, <1>6, StepKinds

(***************************************************************************)
(* A record's stubs are consecutive.                                       *)
(***************************************************************************)
LEMMA ContiguousStep ==
  ASSUME TypeOK, StubsPassed, RecordsInvariant, ~StartsInCompleted(file),
         FixStub, NEW k \in Recs(file)
  PROVE  Contiguous(k)'
<1>0. /\ pc = "functions" /\ pc' = "functions" /\ file' = file /\ s' = s + 1
      /\ s \in Stubs(file) /\ s \in Nat /\ imp[s] = file.imp[s] /\ imp[s] \in 0 .. file.nrec
      /\ pLastImport' = imp[s] /\ file.nrec \in Nat /\ file.n \in Nat
  <2>1. s \in Stubs(file) /\ s \in Nat /\ file.nrec \in Nat /\ file.n \in Nat
    BY FileFacts DEF FixStub, InStubs, Stubs, TypeOK
  <2>2. imp[s] = file.imp[s]
    BY <2>1 DEF StubsPassed, Loaded, FixStub, InStubs
  <2> QED
    BY <2>1, <2>2 DEF FixStub, InStubs, Rejected, InvalidAddress
<1>1. Contiguous(k) /\ ~Rejected(s)
  BY <1>0 DEF RecordsInvariant, Loaded, FixStub
<1>2. PICK j \in 0 .. file.nrec : j = imp[s]
  BY <1>0
<1>3. /\ nids' = IF cnt[j] = 0 THEN [nids EXCEPT ![j] = s] ELSE nids
      /\ funcs' = IF cnt[j] = 0 THEN [funcs EXCEPT ![j] = s] ELSE funcs
      /\ cnt' = [cnt EXCEPT ![j] = cnt[j] + 1]
  BY <1>2 DEF FixStub
<1>4. k \in 0 .. file.nrec /\ k \in Int /\ cnt[k] \in Nat /\ file.cnt[k] \in Nat
  <2>1. k \in 0 .. file.nrec
    BY <1>0 DEF Recs
  <2>2. cnt[k] \in Nat
    BY <2>1 DEF TypeOK
  <2>3. file.cnt[k] \in Nat
    BY <2>1 DEF TypeOK, WellFormedFile
  <2> QED
    BY <2>1, <2>2, <2>3
<1>5. Passed(k)' = IF j = k THEN Passed(k) \cup {s} ELSE Passed(k)
  <2>1. Stubs(file)' = Stubs(file)
    BY <1>0 DEF Stubs
  <2>2. \A t \in Stubs(file) : t < s + 1 <=> t < s \/ t = s
    BY <1>0 DEF Stubs
  <2>3. file.imp[s] = j
    BY <1>0, <1>2
  <2> QED
    BY <1>0, <2>1, <2>2, <2>3 DEF Passed
<1>6. CASE j # k
  <2>1. Passed(k)' = Passed(k)
    BY <1>5, <1>6
  <2>2. cnt'[k] = cnt[k] /\ funcs'[k] = funcs[k] /\ nids'[k] = nids[k]
    BY <1>3, <1>4, <1>6 DEF TypeOK
  <2>3. pLastImport' # k
    BY <1>0, <1>2, <1>6
  <2> QED
    BY <1>0, <1>1, <2>1, <2>2, <2>3 DEF Contiguous
<1>7. CASE j = k
  <2>1. Passed(k)' = Passed(k) \cup {s} /\ pLastImport' = k
    BY <1>0, <1>2, <1>5, <1>7
  <2>2. cnt[k] # 0 => pLastImport = None \/ pLastImport = k
    BY <1>0, <1>1, <1>2, <1>7 DEF Rejected, OutOfOrder, InvalidAddress
  <2>3. s # 0 => (pLastImport = k <=> file.imp[s - 1] = k) /\ pLastImport # None /\ s - 1 \in Stubs(file)
    <3> SUFFICES ASSUME s # 0
                 PROVE (pLastImport = k <=> file.imp[s - 1] = k) /\ pLastImport # None /\ s - 1 \in Stubs(file)
      OBVIOUS
    <3>1. s - 1 \in Stubs(file)
      BY <1>0 DEF Stubs
    <3>2. file.imp[s - 1] \in Int \cup {None}
      BY <3>1, <1>0 DEF TypeOK, WellFormedFile
    <3>3. pLastImport = IF file.imp[s - 1] = None THEN -1 ELSE file.imp[s - 1]
      BY <1>0 DEF StubsPassed, Loaded
    <3>4. k >= 0 /\ None \notin Int
      BY <1>0, <1>4, FixupConstants
    <3> QED
      BY <3>1, <3>2, <3>3, <3>4, <1>4
  <2>4. CASE Passed(k) = {}
    <3>1. cnt[k] = file.cnt[k]
      BY <1>1, <2>4 DEF Contiguous
    <3>2. cnt[k] = 0
      <4>1. CASE s = 0
        <5>1. file.n > 0 /\ file.imp[0] = k
          BY <4>1, <1>0, <1>2, <1>7 DEF Stubs
        <5> QED
          BY <5>1, <3>1 DEF StartsInCompleted
      <4>2. CASE s # 0
        <5>1. file.imp[s - 1] # k
          BY <4>2, <2>3, <2>4, <1>0 DEF Passed
        <5> QED
          BY <4>2, <5>1, <2>2, <2>3
      <4> QED
        BY <4>1, <4>2
    <3>3. cnt'[k] = 1 /\ funcs'[k] = s /\ nids'[k] = s
      BY <1>3, <1>4, <1>7, <3>2 DEF TypeOK
    <3>4. Passed(k)' = s .. s + 1 - 1
      BY <1>0, <2>1, <2>4
    <3>5. Passed(k)' # {}
      BY <2>1
    <3> QED
      BY <1>0, <3>1, <3>2, <3>3, <3>4, <3>5 DEF Contiguous
  <2>5. CASE Passed(k) # {}
    <3>1. /\ file.cnt[k] = 0 /\ cnt[k] > 0 /\ nids[k] = funcs[k] /\ funcs[k] \in Nat
          /\ Passed(k) = funcs[k] .. funcs[k] + cnt[k] - 1
          /\ pLastImport = k => funcs[k] + cnt[k] = s
      BY <1>1, <2>5 DEF Contiguous
    <3>2. s # 0
      BY <1>0, <2>5 DEF Passed, Stubs
    <3>3. funcs[k] + cnt[k] = s
      BY <1>4, <2>2, <2>3, <3>1, <3>2
    <3>4. cnt'[k] = cnt[k] + 1 /\ funcs'[k] = funcs[k] /\ nids'[k] = nids[k]
      BY <1>3, <1>4, <1>7, <3>1 DEF TypeOK
    <3>5. Passed(k)' = funcs[k] .. funcs[k] + (cnt[k] + 1) - 1
      BY <1>0, <1>4, <2>1, <3>1, <3>3
    <3>6. Passed(k)' # {} /\ cnt[k] + 1 > 0 /\ funcs[k] + (cnt[k] + 1) = s + 1
      BY <1>4, <2>1, <3>1, <3>3
    <3> QED
      BY <1>0, <3>1, <3>4, <3>5, <3>6 DEF Contiguous
  <2> QED
    BY <2>4, <2>5
<1> QED
  BY <1>6, <1>7

LEMMA StepRecords ==
  ASSUME TypeOK, StubsPassed, RecordsInvariant, [Next]_vars
  PROVE  RecordsInvariant'
<1> SUFFICES ASSUME Loaded', ~StartsInCompleted(file'), NEW k \in Recs(file')
             PROVE  Contiguous(k)'
  BY DEF RecordsInvariant
<1>0. file.n \in Nat /\ s \in 0 .. file.n
  BY FileFacts DEF TypeOK
<1>1. CASE StartRun \/ WriteOver
  BY <1>1 DEF StartRun, WriteOver, Loaded
<1>2. CASE LoadElf
  <2>1. s' = 0 /\ file' = file /\ cnt' = file.cnt /\ funcs' = file.funcs /\ nids' = file.nids
    BY <1>2 DEF LoadElf, StubsPassed, loopVars
  <2>2. Passed(k)' = {}
    BY <2>1, <1>0 DEF Passed, Stubs
  <2> QED
    BY <2>1, <2>2 DEF Contiguous
<1>3. CASE FixStub
  <2>1. file' = file
    BY <1>3 DEF FixStub
  <2> QED
    BY <1>3, <2>1, ContiguousStep
<1>4. CASE SkipJump
  <2>1. /\ pc = "functions" /\ file' = file /\ s' = s + 1 /\ imp[s] = None
        /\ UNCHANGED <<cnt, nids, funcs>> /\ pLastImport' = -1 /\ s \in Stubs(file)
    BY <1>0, <1>4 DEF SkipJump, InStubs, Stubs, elfVars
  <2>2. Contiguous(k) /\ k # -1 /\ k # None
    <3>1. k \in Nat
      BY <2>1, FileFacts DEF Recs, TypeOK
    <3> QED
      BY <2>1, <3>1, FixupConstants DEF RecordsInvariant, Loaded
  <2>3. Passed(k)' = Passed(k)
    <3>1. file.imp[s] = None
      BY <1>0, <2>1 DEF StubsPassed, Loaded
    <3>2. \A t \in Stubs(file) : t < s + 1 <=> t < s \/ t = s
      BY <1>0 DEF Stubs
    <3>3. Stubs(file)' = Stubs(file)
      BY <2>1 DEF Stubs
    <3> QED
      BY <2>1, <2>2, <3>1, <3>2, <3>3 DEF Passed
  <2> QED
    BY <2>1, <2>2, <2>3 DEF Contiguous
<1>5. CASE \/ StubsDone
           \/ /\ pc' = pc \/ (pc = "nidmap" /\ pc' = "write")
              /\ UNCHANGED <<file, imp, cnt, nids, funcs, s, pLastImport, written>>
  <2>1. Loaded /\ UNCHANGED <<file, cnt, nids, funcs, s, pLastImport>>
    BY <1>5 DEF StubsDone, Loaded, elfVars, loopVars
  <2>2. Contiguous(k)
    BY <2>1 DEF RecordsInvariant
  <2> QED
    BY <2>1, <2>2 DEF Contiguous, Passed, Stubs
<1> QED
  BY <1>1, <1>2, <1>3, <1>4, <1>5, StepKinds

(***************************************************************************)
(* The map list is empty: no record is opened and no NID changes.          *)
(***************************************************************************)
LEMMA NoMapStep ==
  ASSUME TypeOK, RecordOpen, NidsKept, [Next]_vars
  PROVE  NidsKept'
<1> SUFFICES ASSUME Loaded', g_map' = <<>> PROVE nid' = file'.nid /\ count' = -1
  BY DEF NidsKept
<1>1. CASE LoadElf
  <2>1. count = -1
    BY <1>1 DEF LoadElf, RecordOpen
  <2> QED
    BY <1>1, <2>1 DEF LoadElf, loopVars
<1>2. CASE StartRun \/ WriteOver \/ KeepInput \/ RejectStub
  BY <1>2 DEF StartRun, WriteOver, KeepInput, RejectStub, Loaded
<1>3. CASE MapLibrary \/ MapNoName \/ MapComment \/ MapEntry
  BY <1>3 DEF MapLibrary, MapNoName, MapComment, MapEntry, InMapFile, Loaded
<1>4. CASE FixStub \/ SkipJump \/ StubsDone \/ RecordsDone \/ Terminated \/ UNCHANGED vars
  <2>1. UNCHANGED <<g_map, nid, file, count>> /\ Loaded
    BY <1>4 DEF FixStub, SkipJump, StubsDone, RecordsDone, InStubs, Loaded, Terminated,
       vars, mapVars, elfVars, loopVars
  <2> QED
    BY <2>1 DEF NidsKept
<1>5. CASE OpenRecord \/ MapNid \/ CloseRecord
  <2>1. g_map = <<>> /\ Loaded /\ file' = file
    BY <1>5 DEF OpenRecord, MapNid, CloseRecord, Loaded, mapVars
  <2>2. nid = file.nid /\ count = -1
    BY <2>1 DEF NidsKept
  <2>3. OpenRecord
    BY <1>5, <2>2 DEF MapNid, CloseRecord
  <2>4. \A k \in Recs(file) : ~Mapped(k)
    BY <2>1, EmptySeq DEF Mapped, FirstMap
  <2> QED
    BY <2>1, <2>2, <2>3, <2>4 DEF OpenRecord, elfVars
<1> QED
  BY <1>1, <1>2, <1>3, <1>4, <1>5 DEF Next

(***************************************************************************)
(* What the tool writes has no stub left to complete, and a run over it    *)
(* completes none.                                                         *)
(***************************************************************************)
LEMMA WriteStep ==
  ASSUME TypeOK, StubsPassed, WriteOver
  PROVE  NothingLeft'
<1>1. /\ file'.same = [t \in Stubs(file) |-> imp[t] = None \/ file.same[t]] /\ file'.imp = imp
      /\ Stubs(file') = Stubs(file)
  BY FixedFacts DEF WriteOver
<1>2. \A t \in Stubs(file) : imp[t] = None
  <2>1. pc = "write" /\ s = file.n
    BY DEF WriteOver, StubsPassed, Loaded
  <2>2. \A t \in Stubs(file) : t < s
    BY <2>1, FileFacts DEF Stubs, TypeOK
  <2> QED
    BY <2>1, <2>2 DEF StubsPassed, Loaded
<1>3. \A t \in Stubs(file') : file'.imp[t] = None /\ file'.same[t]
  BY <1>1, <1>2
<1>4. file' = [valid |-> file'.valid, libstub |-> file'.libstub, stubtext |-> file'.stubtext,
               n |-> file'.n, nrec |-> file'.nrec, at |-> file'.at, name |-> file'.name, vars |-> file'.vars,
               same |-> file'.same, imp |-> file'.imp, nid |-> file'.nid,
               cnt |-> file'.cnt, nids |-> file'.nids, funcs |-> file'.funcs]
  BY DEF WriteOver, Fixed, FileOf
<1>5. ~Loaded'
  BY DEF WriteOver, Loaded
<1> QED
  BY <1>3, <1>4, <1>5 DEF NothingLeft

LEMMA StepNothingLeft ==
  ASSUME TypeOK, StubsPassed, NothingLeft, [Next]_vars
  PROVE  NothingLeft'
<1>1. CASE WriteOver
  BY <1>1, WriteStep
<1>2. CASE file' = file /\ written' = written /\ (Loaded' => UNCHANGED <<cnt, nids, funcs>> /\ Loaded)
  BY <1>2 DEF NothingLeft, Stubs
<1>3. CASE LoadElf
  BY <1>3 DEF LoadElf, NothingLeft, Stubs
<1>4. CASE FixStub
  <2>1. ~written
    <3>1. s \in Stubs(file)
      BY <1>4, FileFacts DEF FixStub, InStubs, Stubs, TypeOK
    <3>2. imp[s] = file.imp[s]
      <4>1. s \in Int
        BY FileFacts DEF TypeOK
      <4> QED
        BY <1>4, <3>1, <4>1 DEF FixStub, InStubs, StubsPassed, Loaded
    <3> QED
      BY <1>4, <3>1, <3>2 DEF FixStub, NothingLeft
  <2> QED
    BY <1>4, <2>1 DEF FixStub, NothingLeft
<1>5. CASE StartRun \/ SkipJump \/ StubsDone
  BY <1>2, <1>5 DEF StartRun, SkipJump, StubsDone, InStubs, Loaded, elfVars
<1>6. CASE /\ pc' = pc \/ (pc = "nidmap" /\ pc' = "write")
           /\ UNCHANGED <<file, imp, cnt, nids, funcs, s, pLastImport, written>>
  BY <1>2, <1>6 DEF Loaded
<1>7. CASE ~Loaded' /\ pc' # "map" /\ UNCHANGED <<file, written>>
  BY <1>2, <1>7
<1> QED
  BY <1>1, <1>3, <1>4, <1>5, <1>6, <1>7, StepKinds

LEMMA InvariantHolds == Spec => [](TypeOK /\ FixupInvariant)
<1>1. Init => TypeOK /\ FixupInvariant
  <2>1. Init => pc = "start" /\ written = FALSE
    BY DEF Init
  <2> QED
    BY <2>1, InitTypes DEF FixupInvariant, StubsPassed, RecordsInvariant, NidsKept, NothingLeft, Loaded
<1>2. TypeOK /\ FixupInvariant /\ [Next]_vars => (TypeOK /\ FixupInvariant)'
  BY StepTypes, StepStubsPassed, StepRecords, StepRecordOpen, NoMapStep, StepNothingLeft DEF FixupInvariant
<1> QED
  BY <1>1, <1>2, PTL DEF Spec

(***************************************************************************)
(* When fixup_functions succeeds every record describes its stubs, in      *)
(* tables of any length with any mixture of stubs and jumps, unless the    *)
(* table starts with a new stub of a record completed before.              *)
(***************************************************************************)
THEOREM RecordsAlwaysDescribe == Spec => []RecordsDescribeTheirStubs
<1>1. TypeOK /\ FixupInvariant => RecordsDescribeTheirStubs
  <2> SUFFICES ASSUME TypeOK, FixupInvariant, ~StartsInCompleted(file), pc \in {"nidmap", "write"},
                      NEW k \in Recs(file)
               PROVE  Describes(k)
    BY DEF RecordsDescribeTheirStubs, RecordsDescribeStubs
  <2>1. s = file.n /\ Contiguous(k)
    BY DEF FixupInvariant, StubsPassed, RecordsInvariant, Loaded
  <2>2. StubsOf(k) = Passed(k)
    <3>1. \A t \in Stubs(file) : t < s
      BY <2>1, FileFacts DEF Stubs, TypeOK
    <3> QED
      BY <3>1 DEF StubsOf, Passed
  <2> QED
    BY <2>1, <2>2 DEF Contiguous, Describes
<1> QED
  BY <1>1, InvariantHolds, PTL

(***************************************************************************)
(* Run over a file it has written, without a map, the tool writes the same *)
(* file again, however often.                                              *)
(***************************************************************************)
THEOREM RunningTwiceIsRunningOnce == Spec => []RerunChangesNothing
<1>1. TypeOK /\ FixupInvariant => RerunChangesNothing
  <2> SUFFICES ASSUME TypeOK, FixupInvariant, pc = "write", written, g_map = <<>>
               PROVE  Fixed = file
    BY DEF RerunChangesNothing
  <2>1. nid = file.nid /\ cnt = file.cnt /\ nids = file.nids /\ funcs = file.funcs
    BY DEF FixupInvariant, NidsKept, NothingLeft, Loaded
  <2>2. \A t \in Stubs(file) : file.imp[t] = None /\ file.same[t]
    BY DEF FixupInvariant, NothingLeft
  <2>3. \A t \in Stubs(file) : imp[t] = file.imp[t]
    BY <2>2 DEF FixupInvariant, StubsPassed, Loaded
  <2>4. imp = file.imp
    BY <2>3 DEF TypeOK, WellFormedFile
  <2>5. [t \in Stubs(file) |-> imp[t] = None \/ file.same[t]] = file.same
    <3>1. file.same \in [Stubs(file) -> BOOLEAN]
      BY DEF TypeOK, WellFormedFile
    <3>2. \A t \in Stubs(file) : (imp[t] = None \/ file.same[t]) = file.same[t]
      BY <2>2, <2>3, <3>1
    <3> QED
      BY <3>1, <3>2
  <2>6. file = [valid |-> file.valid, libstub |-> file.libstub, stubtext |-> file.stubtext,
               n |-> file.n, nrec |-> file.nrec, at |-> file.at, name |-> file.name, vars |-> file.vars,
               same |-> file.same, imp |-> file.imp, nid |-> file.nid,
               cnt |-> file.cnt, nids |-> file.nids, funcs |-> file.funcs]
    BY DEF FixupInvariant, NothingLeft
  <2> QED
    BY <2>1, <2>4, <2>5, <2>6 DEF Fixed, FileOf
<1> QED
  BY <1>1, InvariantHolds, PTL

(***************************************************************************)
(* Lines of the map file.                                                  *)
(***************************************************************************)
LEMMA LinesType ==
  ASSUME TypeOK
  PROVE  /\ g_mapfile \in Seq(Lines) /\ Len(g_mapfile) \in Nat
         /\ line \in Nat /\ line <= Len(g_mapfile)
<1>1. MapFiles[built] \subseteq Seq(Lines) /\ <<>> \in Seq(Lines)
  BY FixupConstants DEF TypeOK
<1>2. g_mapfile \in Seq(Lines)
  BY <1>1 DEF TypeOK
<1> QED
  BY <1>2 DEF TypeOK

LEMMA LineKind ==
  ASSUME TypeOK, InMapFile
  PROVE  /\ Current = g_mapfile[line + 1] /\ Kind(line + 1) = Current.kind
         /\ Current.kind \in {"lib", "entry", "assign", "noname", "invalid", "comment"}
         /\ Current.kind = "lib" => Current.name \in Libs
         /\ Current.kind = "entry" => Current.old \in Nids /\ Current.new \in Nids
<1>1. Current \in Lines
  BY LineType
<1> QED
  BY <1>1 DEF Current, Kind, Lines, LibLine, EntryLine, AssignLine, OtherLine

(* The lines read are those before the first that ends the reading.        *)
LEMMA ReadUpTo ==
  ASSUME TypeOK, Going, line = Len(g_mapfile) \/ (line < Len(g_mapfile) /\ Ends(line + 1))
  PROVE  Read = 1 .. line
<1>1. line \in Nat /\ Len(g_mapfile) \in Nat /\ line <= Len(g_mapfile)
  BY LinesType
<1>2. ASSUME NEW n \in 1 .. line PROVE n \in Read
  <2>1. n \in Positions /\ \A m \in 1 .. n : m \in 1 .. line
    BY <1>1 DEF Positions
  <2> QED
    BY <2>1 DEF Read, Going
<1>3. ASSUME NEW n \in Read PROVE n \in 1 .. line
  <2>1. n \in 1 .. Len(g_mapfile) /\ \A m \in 1 .. n : ~Ends(m)
    BY DEF Read, Positions
  <2>2. CASE line = Len(g_mapfile)
    BY <2>1, <2>2
  <2>3. CASE Ends(line + 1)
    <3>1. ~(line + 1 \in 1 .. n)
      BY <2>1, <2>3
    <3> QED
      BY <1>1, <2>1, <3>1
  <2> QED
    BY <2>2, <2>3
<1> QED
  BY <1>2, <1>3

(***************************************************************************)
(* What a line adds to the lines above, below a library's, and in force.   *)
(***************************************************************************)
LEMMA AboveNext ==
  ASSUME NEW n \in Nat, n > 0
  PROVE  Above(n + 1) = IF Kind(n) = "lib" THEN Above(n) \cup {n} ELSE Above(n)
<1>1. ASSUME NEW m PROVE m \in 1 .. (n + 1) - 1 <=> m \in 1 .. n - 1 \/ m = n
  OBVIOUS
<1> QED
  BY <1>1 DEF Above

LEMMA BelowNext ==
  ASSUME NEW n \in Nat, NEW h \in Nat, h < n
  PROVE  /\ n \notin Below(h, n)
         /\ Below(h, n + 1) = IF Kind(n) = "entry" THEN Below(h, n) \cup {n} ELSE Below(h, n)
<1>1. ASSUME NEW m PROVE m \in h + 1 .. (n + 1) - 1 <=> m \in h + 1 .. n - 1 \/ m = n
  OBVIOUS
<1>2. n \notin h + 1 .. n - 1
  OBVIOUS
<1> QED
  BY <1>1, <1>2 DEF Below

LEMMA BelowItself ==
  ASSUME NEW n \in Nat
  PROVE  Below(n, n + 1) = {}
<1>1. \A m : m \notin n + 1 .. (n + 1) - 1
  OBVIOUS
<1> QED
  BY <1>1 DEF Below

LEMMA BelowFinite ==
  ASSUME NEW n \in Nat, NEW h \in Nat
  PROVE  IsFiniteSet(Below(h, n)) /\ Cardinality(Below(h, n)) \in Nat
<1>1. IsFiniteSet(h + 1 .. n - 1)
  BY FS_Interval
<1>2. Below(h, n) \in SUBSET (h + 1 .. n - 1)
  BY DEF Below
<1> QED
  BY <1>1, <1>2, FS_Subset, FS_CardinalityType

LEMMA HeadsNext ==
  ASSUME NEW n \in Nat, n > 0, NEW lib
  PROVE  HeadOf(1 .. n, lib) = IF Kind(n) = "lib" /\ g_mapfile[n].name = lib
                               THEN HeadOf(1 .. n - 1, lib) \cup {n} ELSE HeadOf(1 .. n - 1, lib)
<1>1. ASSUME NEW m PROVE m \in 1 .. n <=> m \in 1 .. n - 1 \/ m = n
  OBVIOUS
<1> QED
  BY <1>1 DEF HeadOf

LEMMA InForceNext ==
  ASSUME NEW n \in Nat, n > 0, NEW lib
  PROVE  InForce(1 .. n, lib) =
           IF Kind(n) = "lib" /\ g_mapfile[n].name = lib THEN {}
           ELSE IF Kind(n) = "entry" /\ \E h \in Above(n) : IsBlock(h, n) /\ g_mapfile[h].name = lib
           THEN InForce(1 .. n - 1, lib) \cup {n}
           ELSE InForce(1 .. n - 1, lib)
<1>0. \A m : m \in 1 .. n <=> m \in 1 .. n - 1 \/ m = n
  OBVIOUS
<1>1. CASE Kind(n) = "lib" /\ g_mapfile[n].name = lib
  <2>1. ASSUME NEW q \in InForce(1 .. n, lib) PROVE FALSE
    <3>1. PICK h \in HeadOf(1 .. n, lib) : (\A m \in HeadOf(1 .. n, lib) : m <= h) /\ h < q
      BY DEF InForce
    <3>2. n \in HeadOf(1 .. n, lib) /\ h \in 1 .. n /\ q \in 1 .. n
      BY <1>1 DEF HeadOf, InForce
    <3> QED
      BY <3>1, <3>2
  <2> QED
    BY <1>1, <2>1
<1>2. CASE ~(Kind(n) = "lib" /\ g_mapfile[n].name = lib)
  <2>1. HeadOf(1 .. n, lib) = HeadOf(1 .. n - 1, lib)
    BY <1>2, HeadsNext
  <2>2. ASSUME NEW q \in 1 .. n - 1 PROVE q \in InForce(1 .. n, lib) <=> q \in InForce(1 .. n - 1, lib)
    BY <1>0, <2>1 DEF InForce
  <2>3. n \notin InForce(1 .. n - 1, lib)
    <3>1. n \notin 1 .. n - 1
      OBVIOUS
    <3> QED
      BY <3>1 DEF InForce
  <2>4. n \in InForce(1 .. n, lib)
        <=> Kind(n) = "entry" /\ \E h \in Above(n) : IsBlock(h, n) /\ g_mapfile[h].name = lib
    <3>1. CASE Kind(n) # "entry"
      BY <3>1 DEF InForce
    <3>2. CASE Kind(n) = "entry"
      <4>1. ASSUME NEW h \in Above(n), IsBlock(h, n), g_mapfile[h].name = lib
            PROVE  n \in InForce(1 .. n, lib)
        <5>1. h \in 1 .. n - 1 /\ h \in HeadOf(1 .. n, lib) /\ h < n
          BY <4>1, <1>0 DEF Above, HeadOf
        <5>2. ASSUME NEW m \in HeadOf(1 .. n, lib) PROVE m <= h
          <6>1. m \in Above(n)
            BY <3>2, <1>0 DEF HeadOf, Above
          <6> QED
            BY <4>1, <6>1 DEF IsBlock
        <5>3. ASSUME NEW m \in h + 1 .. n, Kind(m) = "lib" PROVE FALSE
          <6>1. m # n /\ m \in Int /\ h + 1 <= m /\ m <= n
            BY <3>2, <5>1, <5>3
          <6>2. m \in 1 .. n - 1
            BY <5>1, <6>1
          <6>3. m <= h
            BY <4>1, <5>3, <6>2 DEF Above, IsBlock
          <6> QED
            BY <5>1, <6>1, <6>3
        <5>4. n \in 1 .. n
          OBVIOUS
        <5> QED
          BY <3>2, <5>1, <5>2, <5>3, <5>4 DEF InForce
      <4>2. ASSUME n \in InForce(1 .. n, lib)
            PROVE  \E h \in Above(n) : IsBlock(h, n) /\ g_mapfile[h].name = lib
        <5>1. PICK h \in HeadOf(1 .. n, lib) : h < n /\ \A m \in h + 1 .. n : Kind(m) # "lib"
          BY <4>2 DEF InForce
        <5>2. h \in 1 .. n /\ Kind(h) = "lib" /\ g_mapfile[h].name = lib
          BY DEF HeadOf
        <5>3. h \in Above(n)
          BY <5>1, <5>2 DEF Above
        <5>4. ASSUME NEW m \in Above(n) PROVE m <= h
          <6>1. m \in 1 .. n - 1 /\ Kind(m) = "lib"
            BY DEF Above
          <6>2. ~(m \in h + 1 .. n)
            BY <5>1, <6>1
          <6> QED
            BY <5>2, <6>1, <6>2
        <5> QED
          BY <5>2, <5>3, <5>4 DEF IsBlock
      <4> QED
        BY <3>2, <4>1, <4>2
    <3> QED
      BY <3>1, <3>2
  <2>5. ASSUME NEW q PROVE q \in InForce(1 .. n, lib) => q \in 1 .. n - 1 \/ q = n
    BY <1>0 DEF InForce
  <2>6. ASSUME NEW q PROVE q \in InForce(1 .. n - 1, lib) => q \in 1 .. n - 1
    BY DEF InForce
  <2> DEFINE old == InForce(1 .. n - 1, lib)
             new == InForce(1 .. n, lib)
             adds == Kind(n) = "entry" /\ \E h \in Above(n) : IsBlock(h, n) /\ g_mapfile[h].name = lib
  <2>7. \A q : q \in new <=> q \in old \/ (q = n /\ adds)
    BY <2>2, <2>3, <2>4, <2>5, <2>6
  <2>8. new = IF adds THEN old \cup {n} ELSE old
    <3> HIDE DEF old, new, adds
    <3> QED
      BY <2>7
  <2> QED
    BY <1>2, <2>8
<1> QED
  BY <1>1, <1>2
(***************************************************************************)
(* A list of maps agrees with the lines read.                              *)
(***************************************************************************)
LEMMA InForceIsRead ==
  ASSUME NEW R, NEW lib
  PROVE  InForce(R, lib) \subseteq R
BY DEF InForce

LEMMA AgreeNext ==
  ASSUME NEW es \in Seq(Entry), NEW S, NEW n \in Nat, NEW e \in Entry, Agree(es, S),
         \A q \in S : q \in Nat /\ q < n,
         e.old = g_mapfile[n].old, e.new = g_mapfile[n].new
  PROVE  Agree(Append(es, e), S \cup {n})
<1> DEFINE es2 == Append(es, e)
           m == Len(es) + 1
<1>1. /\ m \in Nat /\ m \in DOMAIN es2 /\ es2[m] = e
      /\ \A k \in DOMAIN es : k \in DOMAIN es2 /\ es2[k] = es[k] /\ k \in Nat /\ k < m
      /\ \A k \in DOMAIN es2 : k \in DOMAIN es \/ k = m
      /\ \A k \in 1 .. m - 1 : k \in DOMAIN es
      /\ \A k \in DOMAIN es : \A l \in 1 .. k - 1 : l \in DOMAIN es
  BY AppendProperties, LenProperties
<1>2. Old(e) = Old(g_mapfile[n]) /\ New(e) = New(g_mapfile[n])
  BY DEF Old, New
<1> HIDE DEF es2, m
<1> SUFFICES ASSUME NEW x \in Nids
             PROVE  \/ /\ \A k \in DOMAIN es2 : Old(es2[k]) # x
                       /\ \A k \in S \cup {n} : ~Renames(k, x)
                    \/ \E k \in DOMAIN es2, q \in S \cup {n} :
                         /\ Old(es2[k]) = x /\ \A l \in 1 .. k - 1 : Old(es2[l]) # x
                         /\ Renames(q, x) /\ \A l \in S \cup {n} : Renames(l, x) => q <= l
                         /\ New(es2[k]) = New(g_mapfile[q])
  BY DEF Agree, es2
<1>3. CASE (\A k \in DOMAIN es : Old(es[k]) # x) /\ (\A k \in S : ~Renames(k, x))
  <2>1. CASE Old(e) # x
    BY <1>1, <1>2, <1>3, <2>1 DEF Renames
  <2>2. CASE Old(e) = x
    <3>1. Old(es2[m]) = x /\ \A l \in 1 .. m - 1 : Old(es2[l]) # x
      BY <1>1, <1>3, <2>2
    <3>2. Renames(n, x) /\ \A l \in S \cup {n} : Renames(l, x) => n <= l
      BY <1>2, <1>3, <2>2 DEF Renames
    <3> QED
      BY <1>1, <1>2, <3>1, <3>2
  <2> QED
    BY <2>1, <2>2
<1>4. CASE \E k \in DOMAIN es, q \in S :
             /\ Old(es[k]) = x /\ \A l \in 1 .. k - 1 : Old(es[l]) # x
             /\ Renames(q, x) /\ \A l \in S : Renames(l, x) => q <= l
             /\ New(es[k]) = New(g_mapfile[q])
  <2>1. PICK k \in DOMAIN es, q \in S :
             /\ Old(es[k]) = x /\ \A l \in 1 .. k - 1 : Old(es[l]) # x
             /\ Renames(q, x) /\ \A l \in S : Renames(l, x) => q <= l
             /\ New(es[k]) = New(g_mapfile[q])
    BY <1>4
  <2>2. k \in DOMAIN es2 /\ Old(es2[k]) = x /\ New(es2[k]) = New(g_mapfile[q])
    BY <1>1, <2>1
  <2>3. \A l \in 1 .. k - 1 : Old(es2[l]) # x
    BY <1>1, <2>1
  <2>4. \A l \in S \cup {n} : Renames(l, x) => q <= l
    BY <2>1
  <2> QED
    BY <2>1, <2>2, <2>3, <2>4
<1> QED
  BY <1>3, <1>4 DEF Agree

(* The list with a map before it.                                          *)
LEMMA PutBefore ==
  ASSUME NEW maps \in Seq(Map), NEW a \in Map, NEW maps2, maps2 = <<a>> \o maps
  PROVE  /\ maps2 \in Seq(Map) /\ maps2 # <<>>
         /\ 1 \in DOMAIN maps2 /\ maps2[1] = a
         /\ \A m \in DOMAIN maps : m \in Nat /\ m > 0 /\ m + 1 \in DOMAIN maps2 /\ maps2[m + 1] = maps[m]
         /\ \A m \in DOMAIN maps2 : m = 1 \/ (m \in Nat /\ m > 1 /\ m - 1 \in DOMAIN maps)
<1>1. <<a>> \in Seq(Map) /\ Len(<<a>>) = 1 /\ <<a>>[1] = a
  OBVIOUS
<1>2. /\ maps2 \in Seq(Map) /\ Len(maps2) = 1 + Len(maps)
      /\ \A i \in 1 .. 1 + Len(maps) : maps2[i] = IF i <= 1 THEN <<a>>[i] ELSE maps[i - 1]
  BY <1>1, ConcatProperties
<1>3. Len(maps) \in Nat /\ DOMAIN maps = 1 .. Len(maps) /\ DOMAIN maps2 = 1 .. 1 + Len(maps)
  BY <1>2, LenProperties
<1> QED
  BY <1>1, <1>2, <1>3

BlockPut(maps, name, maps2) == maps2 = <<[name |-> name, nids |-> <<>>]>> \o maps
Opened(R, name, R2) ==
  \A lib \in Libs \ {None} : InForce(R2, lib) = IF lib = name THEN {} ELSE InForce(R, lib)

LEMMA MapsNewBlock ==
  ASSUME NEW maps \in Seq(Map), NEW R, NEW R2, NEW name \in Libs \cup {None}, NEW maps2,
         BlockPut(maps, name, maps2), MapsAsLines(maps, R), Opened(R, name, R2)
  PROVE  MapsAsLines(maps2, R2)
<1> DEFINE a == [name |-> name, nids |-> <<>>]
<1>0. a \in Map
  <2>1. <<>> \in Seq(Entry)
    OBVIOUS
  <2> QED
    BY <2>1 DEF Map
<1>1. /\ 1 \in DOMAIN maps2 /\ maps2[1] = a
      /\ \A m \in DOMAIN maps : m \in Nat /\ m > 0 /\ m + 1 \in DOMAIN maps2 /\ maps2[m + 1] = maps[m]
      /\ \A m \in DOMAIN maps2 : m = 1 \/ (m \in Nat /\ m > 1 /\ m - 1 \in DOMAIN maps)
  BY <1>0, PutBefore DEF BlockPut
<1>2. \A m \in DOMAIN maps2 : m # 1 => maps2[m] = maps[m - 1]
  <2>1. ASSUME NEW m \in DOMAIN maps2, m # 1 PROVE maps2[m] = maps[m - 1]
    <3>1. m \in Nat /\ m - 1 \in DOMAIN maps /\ (m - 1) + 1 = m
      BY <1>1, <2>1
    <3> QED
      BY <1>1, <3>1
  <2> QED
    BY <2>1
<1>3. \A m \in DOMAIN maps : \A l \in 1 .. (m + 1) - 1 : l \in DOMAIN maps2
  BY <1>0, PutBefore, LenProperties DEF BlockPut
<1> SUFFICES ASSUME NEW lib \in Libs \ {None}
             PROVE  \/ (\A m \in DOMAIN maps2 : maps2[m].name # lib) /\ InForce(R2, lib) = {}
                    \/ \E m \in DOMAIN maps2 : IsFirst(maps2, m, lib) /\ Agree(maps2[m].nids, InForce(R2, lib))
  BY DEF MapsAsLines
<1>4. CASE lib = name
  <2>1. IsFirst(maps2, 1, lib)
    BY <1>1, <1>4 DEF IsFirst
  <2>2. maps2[1].nids = <<>> /\ InForce(R2, lib) = {}
    BY <1>1, <1>4 DEF Opened
  <2>3. Agree(<<>>, {})
    <3>1. DOMAIN <<>> = {}
      OBVIOUS
    <3> QED
      BY <3>1 DEF Agree
  <2> QED
    BY <1>1, <2>1, <2>2, <2>3
<1>5. CASE lib # name
  <2>1. InForce(R2, lib) = InForce(R, lib)
    BY <1>5 DEF Opened
  <2>2. CASE (\A m \in DOMAIN maps : maps[m].name # lib) /\ InForce(R, lib) = {}
    BY <1>1, <1>2, <1>5, <2>1, <2>2
  <2>3. CASE \E m \in DOMAIN maps : IsFirst(maps, m, lib) /\ Agree(maps[m].nids, InForce(R, lib))
    <3>1. PICK m \in DOMAIN maps : IsFirst(maps, m, lib) /\ Agree(maps[m].nids, InForce(R, lib))
      BY <2>3
    <3>2. m + 1 \in DOMAIN maps2 /\ maps2[m + 1] = maps[m] /\ m \in Nat
      BY <1>1
    <3>3. ASSUME NEW l \in 1 .. (m + 1) - 1 PROVE maps2[l].name # lib
      <4>1. CASE l = 1
        BY <1>1, <1>5, <4>1
      <4>2. CASE l # 1
        <5>1. l - 1 \in 1 .. m - 1 /\ l \in DOMAIN maps2
          BY <1>3, <3>2, <4>2
        <5> QED
          BY <1>2, <3>1, <4>2, <5>1 DEF IsFirst
      <4> QED
        BY <4>1, <4>2
    <3>4. IsFirst(maps2, m + 1, lib)
      BY <3>1, <3>2, <3>3 DEF IsFirst
    <3> QED
      BY <2>1, <3>1, <3>2, <3>4
  <2> QED
    BY <2>2, <2>3 DEF MapsAsLines
<1> QED
  BY <1>4, <1>5

(* The list with one entry more in its first map.                          *)
EntryPut(maps, e, maps2) ==
  /\ DOMAIN maps2 = DOMAIN maps /\ 1 \in DOMAIN maps /\ maps[1].nids \in Seq(Entry)
  /\ maps2[1].name = maps[1].name /\ maps2[1].nids = Append(maps[1].nids, e)
  /\ Len(maps2[1].nids) = Len(maps[1].nids) + 1
  /\ \A m \in DOMAIN maps : m # 1 => maps2[m] = maps[m]
  /\ \A m \in DOMAIN maps : maps2[m].name = maps[m].name /\ \A l \in 1 .. m - 1 : l \in DOMAIN maps

LEMMA PutEntry ==
  ASSUME NEW maps \in Seq(Map), maps # <<>>, NEW e \in Entry, NEW maps2,
         maps2 = <<[name |-> maps[1].name, nids |-> Append(maps[1].nids, e)]>> \o Tail(maps)
  PROVE  EntryPut(maps, e, maps2)
<1> DEFINE a == [name |-> maps[1].name, nids |-> Append(maps[1].nids, e)]
<1>1. 1 \in DOMAIN maps /\ Len(maps) \in Nat \ {0} /\ DOMAIN maps = 1 .. Len(maps)
  BY EmptySeq, LenProperties
<1>2. maps[1].nids \in Seq(Entry) /\ maps[1].name \in Libs \cup {None}
  BY <1>1, EntryType DEF Map
<1>3. Append(maps[1].nids, e) \in Seq(Entry) /\ Len(Append(maps[1].nids, e)) = Len(maps[1].nids) + 1
  BY <1>2, AppendProperties
<1>4. a \in Map
  BY <1>2, <1>3 DEF Map
<1>5. Tail(maps) \in Seq(Map) /\ Len(Tail(maps)) = Len(maps) - 1
      /\ \A i \in 1 .. Len(Tail(maps)) : Tail(maps)[i] = maps[i + 1]
  BY HeadTailProperties
<1>6. /\ maps2 \in Seq(Map) /\ 1 \in DOMAIN maps2 /\ maps2[1] = a
      /\ \A m \in DOMAIN Tail(maps) : m \in Nat /\ m > 0 /\ m + 1 \in DOMAIN maps2 /\ maps2[m + 1] = Tail(maps)[m]
      /\ \A m \in DOMAIN maps2 : m = 1 \/ (m \in Nat /\ m > 1 /\ m - 1 \in DOMAIN Tail(maps))
  BY <1>4, <1>5, PutBefore
<1>7. DOMAIN Tail(maps) = 1 .. Len(maps) - 1
  BY <1>5, LenProperties
<1>8. ASSUME NEW m \in DOMAIN maps, m # 1 PROVE m \in DOMAIN maps2 /\ maps2[m] = maps[m]
  <2>1. m - 1 \in DOMAIN Tail(maps) /\ (m - 1) + 1 = m
    BY <1>1, <1>7, <1>8
  <2>2. m \in DOMAIN maps2 /\ maps2[m] = Tail(maps)[m - 1]
    BY <1>6, <2>1
  <2>3. Tail(maps)[m - 1] = maps[m]
    BY <1>5, <1>7, <2>1
  <2> QED
    BY <2>2, <2>3
<1>9. ASSUME NEW m \in DOMAIN maps2 PROVE m \in DOMAIN maps
  BY <1>1, <1>6, <1>7
<1>10. DOMAIN maps2 = DOMAIN maps
  BY <1>1, <1>6, <1>8, <1>9
<1>11. maps2[1].name = maps[1].name /\ maps2[1].nids = Append(maps[1].nids, e)
  BY <1>6
<1>12. \A m \in DOMAIN maps : maps2[m].name = maps[m].name /\ \A l \in 1 .. m - 1 : l \in DOMAIN maps
  BY <1>1, <1>8, <1>11
<1> QED
  BY <1>1, <1>2, <1>3, <1>8, <1>10, <1>11, <1>12 DEF EntryPut

Added(R, name, n, R2) ==
  /\ \A q \in R : q \in Nat /\ q < n
  /\ \A lib \in Libs \ {None} :
       InForce(R2, lib) = IF lib = name THEN InForce(R, lib) \cup {n} ELSE InForce(R, lib)

LEMMA MapsNewEntry ==
  ASSUME NEW maps \in Seq(Map), maps # <<>>, NEW R, NEW R2, NEW e \in Entry, NEW n \in Nat, NEW maps2,
         EntryPut(maps, e, maps2),
         MapsAsLines(maps, R), e.old = g_mapfile[n].old, e.new = g_mapfile[n].new,
         Added(R, maps[1].name, n, R2)
  PROVE  MapsAsLines(maps2, R2)
<1>1. /\ DOMAIN maps2 = DOMAIN maps /\ 1 \in DOMAIN maps /\ maps[1].nids \in Seq(Entry)
      /\ maps2[1].name = maps[1].name /\ maps2[1].nids = Append(maps[1].nids, e)
      /\ \A m \in DOMAIN maps : m # 1 => maps2[m] = maps[m]
      /\ \A m \in DOMAIN maps : maps2[m].name = maps[m].name /\ \A l \in 1 .. m - 1 : l \in DOMAIN maps
  BY DEF EntryPut
<1> SUFFICES ASSUME NEW lib \in Libs \ {None}
             PROVE  \/ (\A m \in DOMAIN maps2 : maps2[m].name # lib) /\ InForce(R2, lib) = {}
                    \/ \E m \in DOMAIN maps2 : IsFirst(maps2, m, lib) /\ Agree(maps2[m].nids, InForce(R2, lib))
  BY DEF MapsAsLines
<1>2. CASE lib = maps[1].name
  <2>1. IsFirst(maps2, 1, lib)
    BY <1>1, <1>2 DEF IsFirst
  <2>2. PICK m \in DOMAIN maps : IsFirst(maps, m, lib) /\ Agree(maps[m].nids, InForce(R, lib))
    BY <1>1, <1>2 DEF MapsAsLines
  <2>3. m = 1
    <3>1. m \in Nat /\ m > 0
      BY LenProperties
    <3> QED
      BY <1>2, <2>2, <3>1 DEF IsFirst
  <2>4. \A q \in InForce(R, lib) : q \in Nat /\ q < n
    BY InForceIsRead DEF Added
  <2>5. Agree(Append(maps[1].nids, e), InForce(R, lib) \cup {n})
    BY <1>1, <2>2, <2>3, <2>4, AgreeNext
  <2>6. InForce(R2, lib) = InForce(R, lib) \cup {n}
    BY <1>2 DEF Added
  <2>7. Agree(maps2[1].nids, InForce(R2, lib)) /\ 1 \in DOMAIN maps2
    BY <1>1, <2>5, <2>6
  <2> QED
    BY <2>1, <2>7
<1>3. CASE lib # maps[1].name
  <2>1. InForce(R2, lib) = InForce(R, lib)
    BY <1>3 DEF Added
  <2>2. CASE (\A m \in DOMAIN maps : maps[m].name # lib) /\ InForce(R, lib) = {}
    BY <1>1, <2>1, <2>2
  <2>3. CASE \E m \in DOMAIN maps : IsFirst(maps, m, lib) /\ Agree(maps[m].nids, InForce(R, lib))
    <3>1. PICK m \in DOMAIN maps : IsFirst(maps, m, lib) /\ Agree(maps[m].nids, InForce(R, lib))
      BY <2>3
    <3>2. m # 1
      BY <1>3, <3>1 DEF IsFirst
    <3>3. IsFirst(maps2, m, lib) /\ maps2[m] = maps[m]
      BY <1>1, <3>1, <3>2 DEF IsFirst
    <3> QED
      BY <1>1, <2>1, <3>1, <3>3
  <2> QED
    BY <2>2, <2>3 DEF MapsAsLines
<1> QED
  BY <1>2, <1>3
(***************************************************************************)
(* Reading a line keeps the invariant of the map file.                     *)
(***************************************************************************)
LEMMA KeptUnderPrime ==
  ASSUME g_mapfile' = g_mapfile, g_reversemap' = g_reversemap
  PROVE  /\ \A n : Ends(n)' = Ends(n)
         /\ \A maps, n : CurrentMap(maps, n)' = CurrentMap(maps, n)
         /\ \A maps, R : MapsAsLines(maps, R)' = MapsAsLines(maps, R)
         /\ Read' = Read
<1>1. \A n : Kind(n)' = Kind(n) /\ Above(n)' = Above(n) /\ \A h : Below(h, n)' = Below(h, n)
  BY DEF Kind, Above, Below
<1>2. \A n : Ends(n)' = Ends(n)
  BY <1>1 DEF Ends, OneTooMany, IsBlock
<1>3. \A maps, n : CurrentMap(maps, n)' = CurrentMap(maps, n)
  BY <1>1 DEF CurrentMap, IsBlock
<1>4. \A R, lib : InForce(R, lib)' = InForce(R, lib)
  BY DEF InForce, HeadOf, Kind
<1>5. \A es, S : Agree(es, S)' = Agree(es, S)
  BY DEF Agree, Renames, Old, New
<1>6. \A maps, R : MapsAsLines(maps, R)' = MapsAsLines(maps, R)
  BY <1>4, <1>5 DEF MapsAsLines, IsFirst
<1>7. Read' = Read
  BY <1>2 DEF Read, Positions
<1> QED
  BY <1>2, <1>3, <1>6, <1>7

(* What has to be shown of a step over a line.                             *)
LEMMA StepOver ==
  ASSUME TypeOK, InMapFile, Going, NEW n \in Nat, n = line + 1, NEW maps2, g_map' = maps2,
         UNCHANGED argVars, line' = n,
         ~Ends(n), CurrentMap(maps2, n + 1), MapsAsLines(maps2, 1 .. n), ~Loaded'
  PROVE  ReadingInvariant'
<1>1. line \in Nat
  BY LinesType
<1>2. g_mapfile' = g_mapfile /\ g_reversemap' = g_reversemap
  BY DEF argVars
<1>3. \A m \in 1 .. n : ~Ends(m)
  <2>1. \A m \in 1 .. n : m \in 1 .. line \/ m = n
    BY <1>1
  <2> QED
    BY <2>1 DEF Going
<1>4. \A m \in 1 .. n : ~Ends(m)'
  BY <1>2, <1>3, KeptUnderPrime
<1>5. Going'
  BY <1>4 DEF Going
<1>6. CurrentMap(maps2, n + 1)' /\ MapsAsLines(maps2, 1 .. n)'
  BY <1>2, KeptUnderPrime
<1> QED
  BY <1>5, <1>6 DEF ReadingInvariant

(* And of one that ends the reading.                                       *)
LEMMA StepToEnd ==
  ASSUME TypeOK, InMapFile, Going, NEW maps2, g_map' = maps2, UNCHANGED argVars, SkipRest,
         Ends(line + 1), MapsAsLines(maps2, 1 .. line), ~Loaded'
  PROVE  ReadingInvariant'
<1>1. line \in Nat /\ Len(g_mapfile) \in Nat /\ line < Len(g_mapfile)
  BY LinesType DEF InMapFile
<1>2. g_mapfile' = g_mapfile /\ g_reversemap' = g_reversemap /\ line' = Len(g_mapfile)
  BY DEF argVars, SkipRest
<1>3. Read = 1 .. line
  BY <1>1, ReadUpTo
<1>4. ~Going'
  <2>1. line + 1 \in 1 .. Len(g_mapfile)
    BY <1>1
  <2>2. PICK n : n = line + 1
    OBVIOUS
  <2>3. Ends(n)'
    BY <1>2, <2>2, KeptUnderPrime
  <2> QED
    BY <1>2, <2>1, <2>2, <2>3 DEF Going
<1>5. PICK R : R = 1 .. line
  OBVIOUS
<1>6. MapsAsLines(maps2, R)' /\ Read' = R
  BY <1>2, <1>3, <1>5, KeptUnderPrime
<1> QED
  BY <1>2, <1>4, <1>6 DEF ReadingInvariant

LEMMA BlockIsOne ==
  ASSUME NEW n, NEW h, NEW l, IsBlock(h, n), IsBlock(l, n)
  PROVE  h = l
<1>1. h \in Int /\ l \in Int /\ h <= l /\ l <= h
  BY DEF IsBlock, Above
<1> QED
  BY <1>1

(* A line with an entry, or one taken for one: it is one too many when the *)
(* current map is full.                                                    *)
LEMMA EndsWhenFull ==
  ASSUME NEW n \in Nat, NEW maps, CurrentMap(maps, n), maps # <<>>,
         Kind(n) \in {"entry", "assign", "invalid"}
  PROVE  Ends(n) <=> Len(maps[1].nids) = MaxMapNids
<1>1. PICK h \in Above(n) : /\ IsBlock(h, n) /\ Len(maps[1].nids) = Cardinality(Below(h, n))
                            /\ Len(maps[1].nids) <= MaxMapNids
  BY DEF CurrentMap
<1>2. h \in Nat
  BY DEF Above
<1>3. Cardinality(Below(h, n)) \in Nat /\ MaxMapNids \in Nat
  BY <1>2, BelowFinite, FixupConstants
<1>4. Cardinality(Below(h, n)) >= MaxMapNids <=> Len(maps[1].nids) = MaxMapNids
  BY <1>1, <1>3
<1>5. \A l \in Above(n) : IsBlock(l, n) => l = h
  BY <1>1, BlockIsOne
<1> QED
  BY <1>1, <1>4, <1>5 DEF Ends, OneTooMany

LEMMA StepMapLibrary ==
  ASSUME TypeOK, ReadingInvariant, MapLibrary
  PROVE  ReadingInvariant'
<1>0. PICK n \in Nat : n = line + 1
  BY LinesType
<1>1. Going /\ CurrentMap(g_map, n) /\ MapsAsLines(g_map, 1 .. n - 1) /\ n > 0 /\ n - 1 = line
  BY <1>0, LinesType DEF MapLibrary, InMapFile, ReadingInvariant
<1>2. Kind(n) = "lib" /\ Current.name = g_mapfile[n].name /\ Current.name \in Libs
  BY <1>0, LineKind DEF MapLibrary
<1>a. PICK name \in Libs \cup {None} : name = Current.name
  BY <1>2
<1>b. PICK maps \in Seq(Map) : maps = g_map
  BY DEF TypeOK
<1>3. PICK maps2 : BlockPut(maps, name, maps2)
  BY DEF BlockPut
<1>4. g_map' = maps2 /\ line' = n /\ ~Loaded' /\ UNCHANGED argVars /\ InMapFile
  BY <1>0, <1>a, <1>b, <1>3 DEF MapLibrary, InMapFile, Loaded, BlockPut
<1>5. ~Ends(n)
  BY <1>2 DEF Ends, OneTooMany
<1>6. Opened(1 .. n - 1, name, 1 .. n)
  BY <1>1, <1>2, <1>a, InForceNext DEF Opened
<1>7. MapsAsLines(maps2, 1 .. n)
  BY <1>1, <1>b, <1>3, <1>6, MapsNewBlock
<1>8. CurrentMap(maps2, n + 1)
  <2>1. Above(n + 1) = Above(n) \cup {n}
    BY <1>1, <1>2, AboveNext
  <2>2. IsBlock(n, n + 1)
    BY <2>1 DEF IsBlock, Above
  <2>3. maps2 # <<>> /\ maps2[1] = [name |-> name, nids |-> <<>>]
    <3>1. [name |-> name, nids |-> <<>>] \in Map
      <4>1. <<>> \in Seq(Entry)
        OBVIOUS
      <4> QED
        BY <4>1 DEF Map
    <3> QED
      BY <1>3, <3>1, PutBefore DEF BlockPut
  <2>4. Cardinality(Below(n, n + 1)) = 0
    BY BelowItself, FS_EmptySet
  <2>5. Len(maps2[1].nids) = 0 /\ 0 <= MaxMapNids
    BY <2>3, FixupConstants
  <2>6. n \in Above(n + 1) /\ maps2[1].name = g_mapfile[n].name
    BY <1>2, <1>a, <2>1, <2>3
  <2> QED
    BY <2>2, <2>3, <2>4, <2>5, <2>6 DEF CurrentMap
<1> QED
  BY <1>0, <1>1, <1>4, <1>5, <1>7, <1>8, StepOver

LEMMA StepMapNoName ==
  ASSUME TypeOK, ReadingInvariant, MapNoName
  PROVE  ReadingInvariant'
<1>1. Going /\ MapsAsLines(g_map, 1 .. line)
  BY LinesType DEF MapNoName, InMapFile, ReadingInvariant
<1>2. Ends(line + 1)
  BY LineKind DEF MapNoName, Ends
<1>a. PICK name \in Libs \cup {None} : name = None
  OBVIOUS
<1>b. PICK maps \in Seq(Map) : maps = g_map
  BY DEF TypeOK
<1>3. PICK maps2 : BlockPut(maps, name, maps2)
  BY DEF BlockPut
<1>4. g_map' = maps2 /\ SkipRest /\ ~Loaded' /\ UNCHANGED argVars /\ InMapFile
  BY <1>a, <1>b, <1>3 DEF MapNoName, InMapFile, Loaded, BlockPut
<1>5. MapsAsLines(maps2, 1 .. line)
  <2>1. Opened(1 .. line, name, 1 .. line)
    BY <1>a DEF Opened
  <2> QED
    BY <1>1, <1>b, <1>3, <2>1, MapsNewBlock
<1> QED
  BY <1>1, <1>2, <1>4, <1>5, StepToEnd

(* A line that adds nothing.                                               *)
LEMMA StepIdleLine ==
  ASSUME TypeOK, ReadingInvariant, InMapFile, UNCHANGED <<g_map, argVars>>, line' = line + 1, ~Loaded',
         Current.kind \in {"comment", "assign", "invalid"}, ~Ends(line + 1)
  PROVE  ReadingInvariant'
<1>0. PICK n \in Nat : n = line + 1
  BY LinesType
<1>1. Going /\ CurrentMap(g_map, n) /\ MapsAsLines(g_map, 1 .. n - 1) /\ n > 0 /\ n - 1 = line
  BY <1>0, LinesType DEF InMapFile, ReadingInvariant
<1>2. Kind(n) \notin {"lib", "entry"}
  BY <1>0, LineKind
<1>3. \A lib : InForce(1 .. n, lib) = InForce(1 .. n - 1, lib)
  BY <1>1, <1>2, InForceNext
<1>4. PICK maps2 : maps2 = g_map
  OBVIOUS
<1>5. MapsAsLines(maps2, 1 .. n)
  BY <1>1, <1>3, <1>4 DEF MapsAsLines
<1>6. Above(n + 1) = Above(n)
  BY <1>1, <1>2, AboveNext
<1>7. CurrentMap(maps2, n + 1)
  <2>1. \A h \in Above(n) : Below(h, n + 1) = Below(h, n)
    <3>1. \A h \in Above(n) : h \in Nat /\ h < n
      BY DEF Above
    <3> QED
      BY <1>2, <3>1, BelowNext
  <2> QED
    BY <1>1, <1>4, <1>6, <2>1 DEF CurrentMap, IsBlock
<1> QED
  BY <1>0, <1>1, <1>4, <1>5, <1>7, StepOver

LEMMA StepEntry ==
  ASSUME TypeOK, ReadingInvariant, InMapFile, UNCHANGED argVars, line' = line + 1, ~Loaded',
         Current.kind = "entry", ~Ends(line + 1), g_map # <<>>,
         g_map' = <<[name |-> g_map[1].name,
                     nids |-> Append(g_map[1].nids, [old |-> Current.old, new |-> Current.new])]>>
                  \o Tail(g_map)
  PROVE  ReadingInvariant'
<1>0. PICK n \in Nat : n = line + 1
  BY LinesType
<1>1. Going /\ CurrentMap(g_map, n) /\ MapsAsLines(g_map, 1 .. n - 1) /\ n > 0 /\ n - 1 = line
  BY <1>0, LinesType DEF InMapFile, ReadingInvariant
<1>2. Kind(n) = "entry" /\ Current = g_mapfile[n] /\ Current.old \in Nids /\ Current.new \in Nids
  BY <1>0, LineKind
<1>3. PICK e \in Entry : e = [old |-> Current.old, new |-> Current.new]
  BY <1>2 DEF Entry
<1>4. PICK maps \in Seq(Map) : maps = g_map
  BY DEF TypeOK
<1>a. PICK maps2 : maps2 = <<[name |-> maps[1].name, nids |-> Append(maps[1].nids, e)]>> \o Tail(maps)
  OBVIOUS
<1>5. g_map' = maps2 /\ maps # <<>>
  BY <1>3, <1>4, <1>a
<1>6. EntryPut(maps, e, maps2)
  BY <1>a, <1>5, PutEntry
<1>7. PICK h \in Above(n) : /\ IsBlock(h, n) /\ maps[1].name = g_mapfile[h].name
                            /\ Len(maps[1].nids) = Cardinality(Below(h, n)) /\ Len(maps[1].nids) <= MaxMapNids
  BY <1>1, <1>4, <1>5 DEF CurrentMap
<1>8. \A l \in Above(n) : IsBlock(l, n) => l = h
  BY <1>7, BlockIsOne
<1>9. MapsAsLines(maps2, 1 .. n)
  <2>1. \A q \in 1 .. n - 1 : q \in Nat /\ q < n
    OBVIOUS
  <2>2. Added(1 .. n - 1, maps[1].name, n, 1 .. n)
    BY <1>1, <1>2, <1>7, <1>8, <2>1, InForceNext DEF Added
  <2>3. e.old = g_mapfile[n].old /\ e.new = g_mapfile[n].new
    BY <1>2, <1>3
  <2> QED
    BY <1>1, <1>4, <1>5, <1>6, <2>2, <2>3, MapsNewEntry
<1>10. Above(n + 1) = Above(n)
  BY <1>1, <1>2, AboveNext
<1>11. CurrentMap(maps2, n + 1)
  <2>1. h \in Nat /\ h < n
    BY DEF Above
  <2>2. Cardinality(Below(h, n + 1)) = Cardinality(Below(h, n)) + 1
    BY <1>2, <2>1, BelowNext, BelowFinite, FS_AddElement
  <2>3. Len(maps2[1].nids) = Len(maps[1].nids) + 1 /\ maps2[1].name = maps[1].name
    BY <1>6 DEF EntryPut
  <2>4. Len(maps2[1].nids) <= MaxMapNids
    <3>1. Len(maps[1].nids) # MaxMapNids
      BY <1>0, <1>1, <1>2, <1>4, <1>5, EndsWhenFull
    <3>2. Len(maps[1].nids) \in Nat /\ MaxMapNids \in Nat
      BY <1>7, <2>1, BelowFinite, FixupConstants
    <3> QED
      BY <1>7, <2>3, <3>1, <3>2
  <2>5. maps2 # <<>>
    BY <1>6, EmptySeq DEF EntryPut
  <2>6. IsBlock(h, n + 1) /\ h \in Above(n + 1)
    BY <1>7, <1>10 DEF IsBlock
  <2> QED
    BY <1>7, <2>2, <2>3, <2>4, <2>5, <2>6 DEF CurrentMap
<1> QED
  BY <1>0, <1>1, <1>5, <1>9, <1>11, StepOver

LEMMA StepMapEntry ==
  ASSUME TypeOK, ReadingInvariant, MapEntry
  PROVE  ReadingInvariant'
<1>1. Going /\ CurrentMap(g_map, line + 1) /\ MapsAsLines(g_map, 1 .. line) /\ line \in Nat
  BY LinesType DEF MapEntry, InMapFile, ReadingInvariant
<1>2. Kind(line + 1) = Current.kind /\ InMapFile /\ UNCHANGED argVars
  BY LineKind DEF MapEntry
<1>3. CASE g_map = <<>>
  BY <1>3 DEF MapEntry, ReadingInvariant, Loaded
<1>4. CASE g_map # <<>> /\ Len(g_map[1].nids) = MaxMapNids
  <2>1. SkipRest /\ ~Loaded'
    BY <1>4 DEF MapEntry, InMapFile, Loaded
  <2>2. Ends(line + 1)
    BY <1>1, <1>2, <1>4, EndsWhenFull DEF MapEntry
  <2>3. PICK maps2 : maps2 = g_map
    OBVIOUS
  <2>4. g_map' = maps2
    BY <1>4, <2>3 DEF MapEntry
  <2> QED
    BY <1>1, <1>2, <2>1, <2>2, <2>3, <2>4, StepToEnd
<1>5. CASE g_map # <<>> /\ Len(g_map[1].nids) # MaxMapNids
  <2>1. line' = line + 1 /\ ~Loaded'
    BY <1>5 DEF MapEntry, InMapFile, Loaded
  <2>2. ~Ends(line + 1)
    BY <1>1, <1>2, <1>5, EndsWhenFull DEF MapEntry
  <2>3. CASE Current.kind # "entry"
    <3>1. g_map' = g_map /\ Current.kind \in {"comment", "assign", "invalid"}
      BY <1>5, <2>3 DEF MapEntry
    <3> QED
      BY <1>2, <2>1, <2>2, <3>1, StepIdleLine
  <2>4. CASE Current.kind = "entry"
    <3>1. g_map' = <<[name |-> g_map[1].name,
                     nids |-> Append(g_map[1].nids, [old |-> Current.old, new |-> Current.new])]>>
                  \o Tail(g_map)
      BY <1>5, <2>4 DEF MapEntry
    <3> QED
      BY <1>2, <1>5, <2>1, <2>2, <2>4, <3>1, StepEntry
  <2> QED
    BY <2>3, <2>4
<1> QED
  BY <1>3, <1>4, <1>5

LEMMA StepReading ==
  ASSUME TypeOK, ReadingInvariant, [Next]_vars
  PROVE  ReadingInvariant'
<1>1. CASE StartRun
  <2>1. g_map' = <<>> /\ line' = 0 /\ ~Loaded'
    BY <1>1 DEF StartRun, Loaded
  <2>2. \A n : n \notin 1 .. 0 /\ n \notin 1 .. 1 - 1
    OBVIOUS
  <2>3. Going'
    BY <2>1, <2>2 DEF Going
  <2>4. CurrentMap(<<>>, 1)'
    BY <2>2 DEF CurrentMap, Above
  <2>5. MapsAsLines(<<>>, 1 .. 0)'
    BY <2>2 DEF MapsAsLines, InForce
  <2> QED
    BY <2>1, <2>3, <2>4, <2>5 DEF ReadingInvariant
<1>2. CASE MapLibrary
  BY <1>2, StepMapLibrary
<1>3. CASE MapNoName
  BY <1>3, StepMapNoName
<1>4. CASE MapComment
  <2>1. InMapFile /\ ~Ends(line + 1)
    BY <1>4, LineKind DEF MapComment, Ends, OneTooMany
  <2>2. UNCHANGED <<g_map, argVars>> /\ line' = line + 1 /\ ~Loaded' /\ Current.kind = "comment"
    BY <1>4 DEF MapComment, InMapFile, Loaded
  <2> QED
    BY <2>1, <2>2, StepIdleLine
<1>5. CASE MapEntry
  BY <1>5, StepMapEntry
<1>6. CASE UNCHANGED <<argVars, mapVars>> /\ (pc' = "map" \/ Loaded' => pc = "map" \/ Loaded)
           /\ (Loaded' => Loaded \/ line = Len(g_mapfile))
  <2> SUFFICES ASSUME pc' = "map" \/ Loaded'
               PROVE  ReadingInvariant'
    BY DEF ReadingInvariant
  <2>1. g_mapfile' = g_mapfile /\ g_reversemap' = g_reversemap /\ line' = line /\ g_map' = g_map
    BY <1>6 DEF argVars, mapVars
  <2>2. Going' = Going /\ Read' = Read
    BY <2>1, KeptUnderPrime DEF Going
  <2>3. PICK maps2, n, R : maps2 = g_map /\ n = line + 1 /\ R = 1 .. line
    OBVIOUS
  <2>4. CurrentMap(maps2, n)' = CurrentMap(maps2, n) /\ MapsAsLines(maps2, R)' = MapsAsLines(maps2, R)
        /\ \A S : MapsAsLines(maps2, S)' = MapsAsLines(maps2, S)
    BY <2>1, KeptUnderPrime
  <2>5. g_map' = maps2 /\ line' + 1 = n /\ 1 .. line' = R
    BY <2>1, <2>3
  <2>6. Loaded' => line' = Len(g_mapfile')
    BY <1>6, <2>1 DEF ReadingInvariant
  <2>7. CASE Going
    <3>1. CurrentMap(maps2, n) /\ MapsAsLines(maps2, R)
      BY <1>6, <2>3, <2>7 DEF ReadingInvariant
    <3>2. CurrentMap(maps2, n)' /\ MapsAsLines(maps2, R)'
      BY <2>4, <3>1
    <3> QED
      BY <2>2, <2>5, <2>6, <2>7, <3>2 DEF ReadingInvariant
  <2>8. CASE ~Going
    <3>1. line = Len(g_mapfile) /\ MapsAsLines(maps2, Read)
      BY <1>6, <2>3, <2>8 DEF ReadingInvariant
    <3>2. PICK S : S = Read
      OBVIOUS
    <3>3. MapsAsLines(maps2, S)' /\ Read' = S
      BY <2>2, <2>4, <3>1, <3>2
    <3> QED
      BY <2>1, <2>2, <2>5, <2>6, <2>8, <3>1, <3>3 DEF ReadingInvariant
  <2> QED
    BY <2>7, <2>8
<1>7. CASE LoadElf \/ FixStub \/ SkipJump \/ RejectStub \/ StubsDone
  BY <1>6, <1>7 DEF LoadElf, FixStub, SkipJump, RejectStub, StubsDone, InStubs, Loaded
<1>8. CASE OpenRecord \/ MapNid \/ CloseRecord \/ RecordsDone \/ WriteOver \/ KeepInput
  BY <1>6, <1>8 DEF OpenRecord, MapNid, CloseRecord, RecordsDone, WriteOver, KeepInput, Loaded
<1>9. CASE Terminated \/ UNCHANGED vars
  BY <1>6, <1>9 DEF Terminated, vars, Loaded
<1> QED
  BY <1>1, <1>2, <1>3, <1>4, <1>5, <1>7, <1>8, <1>9 DEF Next
(***************************************************************************)
(* A NID looked up in the maps is renamed as the lines in force say.       *)
(***************************************************************************)
LEMMA FoundIn ==
  ASSUME NEW es \in Seq(Entry), NEW S, NEW x \in Nids, NEW lib, S = InForce(Read, lib), Agree(es, S)
  PROVE  RenamedBy(es, x) = Renamed(lib, x)
<1> DEFINE found == {n \in S : Renames(n, x)}
<1>0. \A q \in S : q \in Nat
  <2>1. \A q \in Read : q \in Nat
    BY DEF Read, Positions
  <2> QED
    BY <2>1 DEF InForce
<1>1. Renamed(lib, x) = IF found = {} THEN x
                        ELSE New(g_mapfile[CHOOSE n \in found : \A m \in found : n <= m])
  BY DEF Renamed
<1>2. CASE (\A n \in DOMAIN es : Old(es[n]) # x) /\ (\A n \in S : ~Renames(n, x))
  <2>1. FirstEntry(es, x) = {} /\ found = {}
    BY <1>2 DEF FirstEntry
  <2> QED
    BY <1>1, <2>1 DEF RenamedBy
<1>3. CASE \E n \in DOMAIN es, q \in S :
             /\ Old(es[n]) = x /\ \A l \in 1 .. n - 1 : Old(es[l]) # x
             /\ Renames(q, x) /\ \A l \in S : Renames(l, x) => q <= l
             /\ New(es[n]) = New(g_mapfile[q])
  <2>1. PICK n \in DOMAIN es, q \in S :
             /\ Old(es[n]) = x /\ \A l \in 1 .. n - 1 : Old(es[l]) # x
             /\ Renames(q, x) /\ \A l \in S : Renames(l, x) => q <= l
             /\ New(es[n]) = New(g_mapfile[q])
    BY <1>3
  <2>2. FirstEntry(es, x) = {n}
    <3>1. n \in FirstEntry(es, x)
      BY <2>1 DEF FirstEntry
    <3>2. ASSUME NEW m \in FirstEntry(es, x) PROVE m = n
      <4>1. m \in Nat /\ n \in Nat /\ m > 0 /\ n > 0
        BY LenProperties DEF FirstEntry
      <4>2. ~(m \in 1 .. n - 1) /\ ~(n \in 1 .. m - 1)
        BY <2>1 DEF FirstEntry
      <4> QED
        BY <4>1, <4>2
    <3> QED
      BY <3>1, <3>2
  <2>3. RenamedBy(es, x) = New(es[n])
    <3>1. (CHOOSE e \in {n} : TRUE) = n
      OBVIOUS
    <3> QED
      BY <2>2, <3>1 DEF RenamedBy
  <2>4. (CHOOSE k \in found : \A m \in found : k <= m) = q
    <3>1. q \in found /\ \A m \in found : q <= m
      BY <2>1
    <3>2. ASSUME NEW k \in found, \A m \in found : k <= m PROVE k = q
      BY <1>0, <3>1, <3>2
    <3> HIDE DEF found
    <3> QED
      BY <3>1, <3>2
  <2>5. found # {}
    BY <2>1
  <2> QED
    BY <1>1, <2>1, <2>3, <2>4, <2>5
<1> QED
  BY <1>2, <1>3 DEF Agree

LEMMA LookedUp ==
  ASSUME TypeOK, ReadingInvariant, Loaded, NEW lib \in Libs, lib # None, NEW x \in Nids
  PROVE  /\ FirstMap(lib) = {} => Renamed(lib, x) = x
         /\ \A m \in FirstMap(lib) : RenamedBy(g_map[m].nids, x) = Renamed(lib, x)
<1>1. MapsAsLines(g_map, Read)
  <2>1. CASE Going
    <3>1. line = Len(g_mapfile)
      BY DEF ReadingInvariant
    <3>2. Read = 1 .. line
      BY <2>1, <3>1, ReadUpTo
    <3> QED
      BY <2>1, <3>2 DEF ReadingInvariant
  <2>2. CASE ~Going
    BY <2>2 DEF ReadingInvariant
  <2> QED
    BY <2>1, <2>2
<1>2. CASE (\A m \in DOMAIN g_map : g_map[m].name # lib) /\ InForce(Read, lib) = {}
  <2>1. FirstMap(lib) = {}
    BY <1>2 DEF FirstMap
  <2>2. Renamed(lib, x) = x
    BY <1>2 DEF Renamed
  <2> QED
    BY <2>1, <2>2
<1>3. CASE \E m \in DOMAIN g_map : IsFirst(g_map, m, lib) /\ Agree(g_map[m].nids, InForce(Read, lib))
  <2>1. PICK m \in DOMAIN g_map : IsFirst(g_map, m, lib) /\ Agree(g_map[m].nids, InForce(Read, lib))
    BY <1>3
  <2>2. FirstMap(lib) = {m}
    <3>1. m \in FirstMap(lib)
      BY <2>1 DEF FirstMap, IsFirst
    <3>2. ASSUME NEW l \in FirstMap(lib) PROVE l = m
      <4>1. m \in Nat /\ l \in Nat /\ m > 0 /\ l > 0 /\ l \in DOMAIN g_map
        BY LenProperties DEF FirstMap, TypeOK
      <4>2. ~(m \in 1 .. l - 1) /\ ~(l \in 1 .. m - 1)
        BY <2>1 DEF FirstMap, IsFirst
      <4> QED
        BY <4>1, <4>2
    <3> QED
      BY <3>1, <3>2
  <2>3. g_map[m].nids \in Seq(Entry)
    BY EntryType DEF TypeOK
  <2>4. RenamedBy(g_map[m].nids, x) = Renamed(lib, x)
    BY <2>1, <2>3, FoundIn
  <2> QED
    BY <2>2, <2>4
<1> QED
  BY <1>1, <1>2, <1>3 DEF MapsAsLines

(***************************************************************************)
(* No NID is of two records.                                               *)
(***************************************************************************)
LEMMA OwnedHow ==
  ASSUME TypeOK, StubsPassed, RecordsInvariant, pc \in {"nidmap", "write"}, Regular,
         NEW k \in Recs(file), NEW t \in Stubs(file), Owns(k, t)
  PROVE  file.imp[t] = k \/ t \in JumpsOf(k)
<1>1. Contiguous(k)
  BY DEF RecordsInvariant, Loaded, Regular
<1>2. CASE Passed(k) = {}
  BY <1>1, <1>2 DEF Contiguous, Owns, JumpsOf
<1>3. CASE Passed(k) # {}
  BY <1>1, <1>3 DEF Contiguous, Owns, Passed
<1> QED
  BY <1>2, <1>3

LEMMA OwnedOnce ==
  ASSUME TypeOK, StubsPassed, RecordsInvariant, pc \in {"nidmap", "write"}, Regular,
         NEW k \in Recs(file), NEW l \in Recs(file), NEW t \in Stubs(file), Owns(k, t), Owns(l, t)
  PROVE  k = l
<1>1. (file.imp[t] = k \/ t \in JumpsOf(k)) /\ (file.imp[t] = l \/ t \in JumpsOf(l))
  BY OwnedHow
<1>2. t \in JumpsOf(k) \/ t \in JumpsOf(l) => file.imp[t] = None
  BY DEF Regular, JumpsApart
<1>3. k # None /\ l # None
  BY FixupConstants, FileFacts DEF Recs, TypeOK
<1>4. CASE t \in JumpsOf(k) /\ t \in JumpsOf(l)
  BY <1>4 DEF Regular, JumpsApart
<1> QED
  BY <1>1, <1>2, <1>3, <1>4

(***************************************************************************)
(* The walk of fixup_nidmap.                                               *)
(***************************************************************************)
Walking == pc \in {"nidmap", "write"} /\ file.libstub /\ Regular

WalkFacts ==
  /\ \E k \in 0 .. file.nrec : file.at[k] = r
  /\ pc = "write" => ~InSection /\ count = -1
  /\ \A k \in Recs(file) : StartsAt(k) /\ count # -1 =>
       /\ nids[k] # None /\ file.name[k] # None
       /\ nids[k] <= p /\ p + count = nids[k] + cnt[k]
  /\ \A t \in Stubs(file) :
       /\ \A k \in Recs(file) : Owns(k, t) /\ Walked(k, t) => nid[t] = NewNid(k, t)
       /\ (\A k \in Recs(file) : Owns(k, t) => ~Walked(k, t)) => nid[t] = file.nid[t]

LEMMA WalkFromFacts ==
  ASSUME pc \in {"nidmap", "write"}, Walking => WalkFacts
  PROVE  WalkInvariant
BY DEF WalkInvariant, Walking, WalkFacts

LEMMA AtFacts ==
  ASSUME TypeOK
  PROVE  /\ r \in Nat /\ p \in Nat /\ count \in Nat \cup {-1} /\ file.nrec \in Nat
         /\ \A k \in Recs(file) :
              /\ k \in 0 .. file.nrec /\ k + 1 \in 0 .. file.nrec /\ file.at[k] \in Nat /\ file.at[k + 1] \in Nat
              /\ cnt[k] \in Nat /\ nids[k] \in Nat \cup {None} /\ file.vars[k] \in Nat
              /\ file.name[k] \in Libs \cup {None}
         /\ file.at[file.nrec] \in Nat /\ file.nrec \in 0 .. file.nrec
         /\ \A k \in 0 .. file.nrec : k \in Recs(file) \/ k = file.nrec
         /\ \A t \in Stubs(file) : t \in Nat /\ nid[t] \in Nids /\ file.nid[t] \in Nids
<1>1. /\ file.nrec \in Nat /\ file.n \in Nat /\ file.at[file.nrec] \in Nat
      /\ \A k \in 0 .. file.nrec : file.at[k] \in Nat
  BY FileFacts DEF TypeOK
<1>2. \A k \in Recs(file) : k \in 0 .. file.nrec /\ k + 1 \in 0 .. file.nrec
  BY <1>1 DEF Recs
<1>3. \A k \in Recs(file) : cnt[k] \in Nat /\ nids[k] \in Nat \cup {None}
  BY <1>2 DEF TypeOK
<1>4. \A k \in Recs(file) : file.vars[k] \in Nat /\ file.name[k] \in Libs \cup {None}
  BY DEF TypeOK, WellFormedFile
<1>5. \A t \in Stubs(file) : t \in Nat /\ nid[t] \in Nids /\ file.nid[t] \in Nids
  <2>1. \A t \in Stubs(file) : t \in Nat
    BY <1>1 DEF Stubs
  <2>2. nid \in [Stubs(file) -> Nids]
    BY DEF TypeOK
  <2>3. file.nid \in [Stubs(file) -> Nids]
    BY DEF TypeOK, WellFormedFile
  <2> QED
    BY <2>1, <2>2, <2>3
<1>6. r \in Nat /\ p \in Nat /\ count \in Nat \cup {-1}
  BY <1>1 DEF TypeOK
<1>7. \A k \in 0 .. file.nrec : k \in Recs(file) \/ k = file.nrec
  BY <1>1 DEF Recs
<1> QED
  BY <1>1, <1>2, <1>3, <1>4, <1>5, <1>6, <1>7

(* No two records start at the same place.                                 *)
LEMMA StartsOnce ==
  ASSUME TypeOK, NEW k \in Recs(file), NEW l \in Recs(file), StartsAt(k), StartsAt(l)
  PROVE  k = l
BY FileFacts DEF TypeOK, StartsAt

(* The record at r while there is room for one.                            *)
LEMMA RecordAtR ==
  ASSUME TypeOK, WalkFacts, Regular, InSection
  PROVE  \E k \in Recs(file) : StartsAt(k) /\ file.at[k + 1] = r + StructWords
<1>1. PICK k \in 0 .. file.nrec : file.at[k] = r
  BY DEF WalkFacts
<1>2. k # file.nrec
  BY <1>1, AtFacts DEF InSection, StructWords
<1>3. k \in Recs(file)
  BY <1>2, AtFacts
<1> QED
  BY <1>1, <1>3 DEF Regular, StartsAt

(* A step that leaves the file and the records alone.                      *)
LEMMA SameRecords ==
  ASSUME UNCHANGED <<file, argVars, nids, cnt>>
  PROVE  /\ Regular' = Regular /\ Stubs(file)' = Stubs(file) /\ Recs(file)' = Recs(file)
         /\ \A k, t : Owns(k, t)' = Owns(k, t) /\ NewNid(k, t)' = NewNid(k, t)
<1>1. \A lib, x : Renamed(lib, x)' = Renamed(lib, x)
  <2>1. g_mapfile' = g_mapfile /\ g_reversemap' = g_reversemap
    BY DEF argVars
  <2>2. Read' = Read
    BY <2>1, KeptUnderPrime
  <2>3. \A R, lib : InForce(R, lib)' = InForce(R, lib)
    BY <2>1 DEF InForce, HeadOf, Kind
  <2>4. \A lib : InForce(Read, lib)' = InForce(Read, lib)
    BY <2>2, <2>3
  <2>5. \A n, x : Renames(n, x)' = Renames(n, x)
    BY <2>1 DEF Renames, Old
  <2> SUFFICES ASSUME NEW lib, NEW x PROVE Renamed(lib, x)' = Renamed(lib, x)
    OBVIOUS
  <2> DEFINE found == {n \in InForce(Read, lib) : Renames(n, x)}
  <2>6. found' = found
    BY <2>4, <2>5
  <2>7. Renamed(lib, x) = IF found = {} THEN x
                          ELSE New(g_mapfile[CHOOSE n \in found : \A m \in found : n <= m])
    BY DEF Renamed
  <2>8. Renamed(lib, x)' = IF found' = {} THEN x
                           ELSE New(g_mapfile[CHOOSE n \in found : \A m \in found : n <= m])'
    BY DEF Renamed
  <2> HIDE DEF found
  <2> QED
    BY <2>1, <2>6, <2>7, <2>8 DEF New
<1>2. \A k, t : NewNid(k, t)' = NewNid(k, t)
  BY <1>1 DEF NewNid
<1>3. Regular' = Regular
  BY DEF Regular, JumpsApart, JumpsOf, StartsInCompleted, Recs, Stubs
<1> QED
  BY <1>2, <1>3 DEF Stubs, Recs, Owns

LEMMA StepOpen ==
  ASSUME TypeOK, FixupInvariant, ReadingInvariant, WalkFacts, Regular, OpenRecord
  PROVE  WalkFacts'
<1>1. PICK k \in Recs(file) : StartsAt(k) /\ file.at[k + 1] = r + StructWords
  BY RecordAtR DEF OpenRecord
<1>2. /\ UNCHANGED <<file, argVars, nids, cnt, nid>> /\ pc = "nidmap" /\ pc' = pc /\ count = -1
  BY DEF OpenRecord, elfVars
<1>3. /\ Stubs(file)' = Stubs(file) /\ Recs(file)' = Recs(file)
      /\ \A l, t : Owns(l, t)' = Owns(l, t) /\ NewNid(l, t)' = NewNid(l, t)
  BY <1>2, SameRecords
<1>4. \A l \in Recs(file) : StartsAt(l) <=> l = k
  BY <1>1, StartsOnce
<1>5. RecordHere = k
  BY <1>1, RecordIsHere DEF TypeOK
<1>6. k \in 0 .. file.nrec /\ k + 1 \in 0 .. file.nrec
  BY AtFacts
<1>7. CASE Mapped(k) /\ nids[k] # None
  <2>1. r' = r /\ p' = nids[k] /\ count' = cnt[k] /\ nids[k] \in Nat /\ cnt[k] \in Nat
    <3>1. cnt[k] + file.vars[k] = cnt[k]
      BY AtFacts DEF Regular
    <3> QED
      BY <1>5, <1>7, <3>1, AtFacts DEF OpenRecord
  <2>2. \A l : StartsAt(l)' <=> StartsAt(l)
    BY <1>2, <2>1 DEF StartsAt
  <2>3. ASSUME NEW l \in Recs(file), NEW t \in Stubs(file), Owns(l, t)
        PROVE  Walked(l, t)' <=> Walked(l, t)
    <3>1. StartsAt(l) => ~(t < nids[k])
      <4>1. SUFFICES ASSUME l = k PROVE ~(t < nids[k])
        BY <1>4
      <4> QED
        BY <2>1, <2>3, <4>1, AtFacts DEF Owns
    <3> QED
      BY <1>2, <2>1, <2>2, <3>1 DEF Walked
  <2>4. \A l \in Recs(file) : StartsAt(l)' /\ count' # -1 =>
            /\ nids'[l] # None /\ file'.name[l] # None
            /\ nids'[l] <= p' /\ p' + count' = nids'[l] + cnt'[l]
    BY <1>2, <1>4, <1>7, <2>1, <2>2 DEF Mapped
  <2>5. \E l \in 0 .. file'.nrec : file'.at[l] = r'
    BY <1>1, <1>2, <1>6, <2>1 DEF StartsAt
  <2>6. ASSUME NEW t \in Stubs(file)
        PROVE  /\ \A l \in Recs(file) : Owns(l, t)' /\ Walked(l, t)' => nid'[t] = NewNid(l, t)'
               /\ (\A l \in Recs(file) : Owns(l, t)' => ~Walked(l, t)') => nid'[t] = file'.nid[t]
    BY <1>2, <1>3, <2>3 DEF WalkFacts
  <2> QED
    BY <1>2, <1>3, <2>4, <2>5, <2>6 DEF WalkFacts
<1>8. CASE ~(Mapped(k) /\ nids[k] # None)
  <2>1. r' = r + StructWords /\ count' = -1
    <3>1. ~\E l \in Recs(file) : Mapped(l) /\ nids[l] # None
      BY <1>4, <1>8 DEF Mapped
    <3> QED
      BY <3>1 DEF OpenRecord
  <2>2. ASSUME NEW l \in Recs(file), NEW t PROVE Walked(l, t)' <=> Walked(l, t) \/ l = k
    <3>1. Walked(l, t)' <=> file.at[l] < r + StructWords
      BY <1>2, <2>1 DEF Walked
    <3>2. Walked(l, t) <=> file.at[l] < r
      BY <1>2 DEF Walked
    <3>3. file.at[l] < r + StructWords <=> file.at[l] < r \/ l = k
      <4>1. CASE l = k
        BY <1>1, <4>1, AtFacts DEF StartsAt, StructWords
      <4>2. CASE l < k
        <5>1. file.at[l] < file.at[k]
          BY <4>2, <1>6, AtFacts DEF TypeOK, WellFormedFile
        <5> QED
          BY <1>1, <4>2, <5>1, AtFacts DEF StartsAt, StructWords
      <4>3. CASE l > k
        <5>1. k + 1 = l \/ k + 1 < l
          BY <4>3, <1>6, AtFacts
        <5>2. file.at[k + 1] <= file.at[l]
          <6>1. CASE k + 1 = l
            BY <6>1, AtFacts
          <6>2. CASE k + 1 < l
            <7>1. file.at[k + 1] < file.at[l]
              BY <6>2, <1>6, AtFacts DEF TypeOK, WellFormedFile
            <7> QED
              BY <7>1, AtFacts
          <6> QED
            BY <5>1, <6>1, <6>2
        <5> QED
          BY <1>1, <4>3, <5>2, AtFacts DEF StructWords
      <4>4. k \in Int /\ l \in Int
        BY AtFacts
      <4> QED
        BY <4>1, <4>2, <4>3, <4>4
    <3> QED
      BY <3>1, <3>2, <3>3
  <2>3. \E l \in 0 .. file'.nrec : file'.at[l] = r'
    BY <1>1, <1>2, <1>6, <2>1
  <2>4. ASSUME NEW t \in Stubs(file), Owns(k, t) PROVE nid[t] = NewNid(k, t)
    <3>1. \A l \in Recs(file) : Owns(l, t) => ~Walked(l, t)
      <4>1. \A l \in Recs(file) : Owns(l, t) => l = k
        BY <1>2, <2>4, OwnedOnce DEF FixupInvariant
      <4>2. ~Walked(k, t)
        BY <1>1, <1>2, AtFacts DEF Walked, StartsAt
      <4> QED
        BY <4>1, <4>2
    <3>2. nid[t] = file.nid[t]
      BY <3>1 DEF WalkFacts
    <3>3. nids[k] # None
      BY <2>4 DEF Owns
    <3>4. NewNid(k, t) = file.nid[t]
      <4>1. CASE file.name[k] = None
        BY <4>1 DEF NewNid
      <4>2. CASE file.name[k] # None
        <5>1. FirstMap(file.name[k]) = {}
          BY <1>1, <1>8, <3>3, <4>2 DEF Mapped
        <5>2. file.name[k] \in Libs /\ file.nid[t] \in Nids /\ Loaded
          BY <1>2, <4>2, AtFacts DEF Loaded
        <5>3. Renamed(file.name[k], file.nid[t]) = file.nid[t]
          BY <4>2, <5>1, <5>2, LookedUp
        <5> QED
          BY <4>2, <5>3 DEF NewNid
      <4> QED
        BY <4>1, <4>2
    <3> QED
      BY <3>2, <3>4
  <2>5. ASSUME NEW t \in Stubs(file)
        PROVE  /\ \A l \in Recs(file) : Owns(l, t)' /\ Walked(l, t)' => nid'[t] = NewNid(l, t)'
               /\ (\A l \in Recs(file) : Owns(l, t)' => ~Walked(l, t)') => nid'[t] = file'.nid[t]
    BY <1>2, <1>3, <2>2, <2>4 DEF WalkFacts
  <2> QED
    BY <1>2, <1>3, <2>1, <2>3, <2>5 DEF WalkFacts
<1> QED
  BY <1>7, <1>8

LEMMA StepMapNid ==
  ASSUME TypeOK, FixupInvariant, ReadingInvariant, WalkFacts, Regular, MapNid
  PROVE  WalkFacts'
<1>0. /\ UNCHANGED <<file, argVars, nids, cnt, r>> /\ pc = "nidmap" /\ pc' = pc
      /\ count > 0 /\ p' = p + 1 /\ count' = count - 1
  BY DEF MapNid
<1>1. /\ Stubs(file)' = Stubs(file) /\ Recs(file)' = Recs(file)
      /\ \A l, t : Owns(l, t)' = Owns(l, t) /\ NewNid(l, t)' = NewNid(l, t)
      /\ \A l : StartsAt(l)' <=> StartsAt(l)
  BY <1>0, SameRecords DEF StartsAt
<1>2. count # -1 /\ count' # -1 /\ p \in Nat /\ count \in Nat
  BY <1>0, AtFacts
<1>3. PICK k \in Recs(file) : Mapped(k)
  BY <1>2 DEF FixupInvariant, RecordOpen
<1>4. StartsAt(k) /\ RecordHere = k /\ file.name[k] # None
  BY <1>3, RecordIsHere DEF Mapped, TypeOK
<1>5. \A l \in Recs(file) : StartsAt(l) <=> l = k
  BY <1>4, StartsOnce
<1>6. nids[k] \in Nat /\ nids[k] <= p /\ p + count = nids[k] + cnt[k] /\ cnt[k] \in Nat
  BY <1>2, <1>4, AtFacts DEF WalkFacts
<1>7. PICK m \in FirstMap(file.name[k]) :
        nid' = IF p \in DOMAIN nid THEN [nid EXCEPT ![p] = RenamedBy(g_map[m].nids, nid[p])] ELSE nid
  BY <1>4 DEF MapNid
<1>8. DOMAIN nid = Stubs(file) /\ \A t \in Stubs(file) : t # p => nid'[t] = nid[t]
  BY <1>7 DEF TypeOK
<1>9. ASSUME p \in Stubs(file)
      PROVE  Owns(k, p) /\ nid'[p] = NewNid(k, p)
  <2>1. Owns(k, p)
    BY <1>0, <1>2, <1>6, FixupConstants DEF Owns
  <2>2. \A l \in Recs(file) : Owns(l, p) => ~Walked(l, p)
    <3>1. \A l \in Recs(file) : Owns(l, p) => l = k
      BY <1>0, <1>9, <2>1, OwnedOnce DEF FixupInvariant
    <3>2. ~Walked(k, p)
      BY <1>2, <1>4, AtFacts DEF Walked, StartsAt
    <3> QED
      BY <3>1, <3>2
  <2>3. nid[p] = file.nid[p]
    BY <1>9, <2>2 DEF WalkFacts
  <2>4. nid'[p] = RenamedBy(g_map[m].nids, file.nid[p])
    BY <1>7, <1>8, <1>9, <2>3
  <2>5. file.name[k] \in Libs /\ file.nid[p] \in Nids /\ Loaded
    BY <1>0, <1>4, <1>9, AtFacts DEF Loaded
  <2>6. RenamedBy(g_map[m].nids, file.nid[p]) = Renamed(file.name[k], file.nid[p])
    BY <1>4, <2>5, LookedUp
  <2> QED
    BY <1>4, <2>1, <2>4, <2>6 DEF NewNid
<1>10. ASSUME NEW l \in Recs(file), NEW t \in Stubs(file)
       PROVE  Walked(l, t)' <=> Walked(l, t) \/ (l = k /\ t = p)
  <2>1. t < p + 1 <=> t < p \/ t = p
    BY <1>2, AtFacts
  <2>2. file.at[l] < r \/ (StartsAt(l) /\ t < p + 1) <=> Walked(l, t) \/ (l = k /\ t = p)
    BY <1>2, <1>5, <2>1 DEF Walked
  <2> QED
    BY <1>0, <1>1, <1>2, <2>2 DEF Walked
<1>11. ASSUME NEW t \in Stubs(file)
       PROVE  /\ \A l \in Recs(file) : Owns(l, t)' /\ Walked(l, t)' => nid'[t] = NewNid(l, t)'
              /\ (\A l \in Recs(file) : Owns(l, t)' => ~Walked(l, t)') => nid'[t] = file'.nid[t]
  <2>1. CASE t # p
    BY <1>0, <1>1, <1>8, <1>10, <2>1 DEF WalkFacts
  <2>2. CASE t = p
    <3>1. Owns(k, t) /\ nid'[t] = NewNid(k, t)
      BY <1>9, <2>2
    <3>2. \A l \in Recs(file) : Owns(l, t) => l = k
      BY <1>0, <3>1, OwnedOnce DEF FixupInvariant
    <3>3. Walked(k, t)'
      BY <1>10, <2>2
    <3> QED
      BY <1>1, <3>1, <3>2, <3>3
  <2> QED
    BY <2>1, <2>2
<1>12. \A l \in Recs(file) : StartsAt(l)' /\ count' # -1 =>
            /\ nids'[l] # None /\ file'.name[l] # None
            /\ nids'[l] <= p' /\ p' + count' = nids'[l] + cnt'[l]
  <2>1. nids[k] # None /\ nids[k] <= p + 1 /\ (p + 1) + (count - 1) = nids[k] + cnt[k]
    BY <1>2, <1>6, FixupConstants
  <2> QED
    BY <1>0, <1>1, <1>4, <1>5, <2>1
<1>13. (\E l \in 0 .. file'.nrec : file'.at[l] = r') /\ pc' # "write"
  BY <1>0 DEF WalkFacts
<1> QED
  BY <1>1, <1>11, <1>12, <1>13 DEF WalkFacts

LEMMA StepClose ==
  ASSUME TypeOK, FixupInvariant, WalkFacts, Regular, CloseRecord
  PROVE  WalkFacts'
<1>0. /\ UNCHANGED <<file, argVars, nids, cnt, nid, p>> /\ pc = "nidmap" /\ pc' = pc
      /\ count = 0 /\ r' = r + StructWords /\ count' = -1
  BY DEF CloseRecord, elfVars
<1>1. /\ Stubs(file)' = Stubs(file) /\ Recs(file)' = Recs(file)
      /\ \A l, t : Owns(l, t)' = Owns(l, t) /\ NewNid(l, t)' = NewNid(l, t)
  BY <1>0, SameRecords
<1>2. InSection
  BY <1>0 DEF FixupInvariant, RecordOpen
<1>3. PICK k \in Recs(file) : StartsAt(k) /\ file.at[k + 1] = r + StructWords
  BY <1>2, RecordAtR
<1>4. \A l \in Recs(file) : StartsAt(l) <=> l = k
  BY <1>3, StartsOnce
<1>5. nids[k] \in Nat /\ p = nids[k] + cnt[k] /\ cnt[k] \in Nat
  BY <1>0, <1>3, AtFacts DEF WalkFacts
<1>6. k \in 0 .. file.nrec /\ k + 1 \in 0 .. file.nrec
  BY AtFacts
<1>7. ASSUME NEW l \in Recs(file), NEW t \in Stubs(file), Owns(l, t)
      PROVE  Walked(l, t)' <=> Walked(l, t)
  <2>1. Walked(l, t)' <=> file.at[l] < r + StructWords
    BY <1>0 DEF Walked
  <2>2. CASE l = k
    <3>1. t < p
      BY <1>5, <1>7, <2>2, AtFacts DEF Owns
    <3>2. Walked(l, t)
      BY <1>0, <1>3, <2>2, <3>1 DEF Walked
    <3>3. file.at[l] < r + StructWords
      BY <1>3, <2>2, AtFacts DEF StartsAt, StructWords
    <3> QED
      BY <2>1, <3>2, <3>3
  <2>3. CASE l < k
    <3>1. file.at[l] < file.at[k]
      BY <2>3, <1>6, AtFacts DEF TypeOK, WellFormedFile
    <3>2. file.at[l] < r /\ file.at[l] < r + StructWords
      BY <1>3, <3>1, AtFacts DEF StartsAt, StructWords
    <3> QED
      BY <2>1, <3>2 DEF Walked
  <2>4. CASE l > k
    <3>1. k + 1 = l \/ k + 1 < l
      BY <2>4, <1>6, AtFacts
    <3>2. file.at[k + 1] <= file.at[l]
      <4>1. CASE k + 1 = l
        BY <4>1, AtFacts
      <4>2. CASE k + 1 < l
        <5>1. file.at[k + 1] < file.at[l]
          BY <4>2, <1>6, AtFacts DEF TypeOK, WellFormedFile
        <5> QED
          BY <5>1, AtFacts
      <4> QED
        BY <3>1, <4>1, <4>2
    <3>3. ~(file.at[l] < r + StructWords) /\ ~(file.at[l] < r)
      BY <1>3, <3>2, AtFacts DEF StructWords
    <3>4. ~StartsAt(l)
      BY <1>3, <3>2, AtFacts DEF StartsAt, StructWords
    <3> QED
      BY <2>1, <3>3, <3>4 DEF Walked
  <2>5. k \in Int /\ l \in Int
    BY AtFacts
  <2> QED
    BY <2>2, <2>3, <2>4, <2>5
<1>8. ASSUME NEW t \in Stubs(file)
      PROVE  /\ \A l \in Recs(file) : Owns(l, t)' /\ Walked(l, t)' => nid'[t] = NewNid(l, t)'
             /\ (\A l \in Recs(file) : Owns(l, t)' => ~Walked(l, t)') => nid'[t] = file'.nid[t]
  BY <1>0, <1>1, <1>7 DEF WalkFacts
<1>9. \E l \in 0 .. file'.nrec : file'.at[l] = r'
  BY <1>0, <1>3, <1>6
<1> QED
  BY <1>0, <1>1, <1>8, <1>9 DEF WalkFacts

(* The walk begins with no record behind it.                               *)
LEMMA StepWalkBegins ==
  ASSUME TypeOK, pc' \in {"nidmap", "write"}, UNCHANGED <<file, r, count>>, r = 0, count = -1,
         nid' = file.nid, pc' = "write" => ~file.libstub, Regular
  PROVE  Walking' => WalkFacts'
<1> SUFFICES ASSUME Walking' PROVE WalkFacts'
  OBVIOUS
<1>1. pc' # "write"
  BY DEF Walking
<1>2. \A k \in Recs(file) : \A t : ~Walked(k, t)'
  BY AtFacts DEF Walked
<1>3. \E k \in 0 .. file.nrec : file.at[k] = 0
  <2>1. file.at[0] = 0 /\ 0 \in 0 .. file.nrec
    BY FileFacts DEF TypeOK, WellFormedFile
  <2> QED
    BY <2>1
<1>4. Recs(file)' = Recs(file)
  BY DEF Recs
<1> QED
  BY <1>1, <1>2, <1>3, <1>4 DEF WalkFacts

LEMMA StepWalk ==
  ASSUME TypeOK, FixupInvariant, ReadingInvariant, WalkInvariant, [Next]_vars
  PROVE  WalkInvariant'
<1>1. CASE StartRun
  BY <1>1 DEF StartRun, WalkInvariant
<1>2. CASE MapLibrary \/ MapNoName \/ MapComment \/ MapEntry
  BY <1>2 DEF MapLibrary, MapNoName, MapComment, MapEntry, InMapFile, WalkInvariant, loopVars
<1>3. CASE LoadElf
  <2>1. r = 0 /\ count = -1 /\ UNCHANGED <<file, r, count>> /\ nid' = file.nid
        /\ pc' \in {"done", "write", "functions", "nidmap"} /\ (pc' = "write" => ~file.libstub)
    BY <1>3 DEF LoadElf, WalkInvariant, loopVars
  <2>2. CASE pc' \in {"nidmap", "write"}
    <3>1. Walking' => Regular
      BY <2>1 DEF Walking, Regular, JumpsApart, JumpsOf, StartsInCompleted, Recs, Stubs
    <3>2. Walking' => WalkFacts'
      BY <2>1, <2>2, <3>1, StepWalkBegins
    <3> QED
      BY <2>2, <3>2 DEF WalkInvariant, Walking, WalkFacts
  <2>3. CASE pc' \notin {"nidmap", "write"}
    BY <2>1, <2>3 DEF WalkInvariant
  <2> QED
    BY <2>2, <2>3
<1>4. CASE FixStub \/ SkipJump
  <2>1. pc = "functions" /\ pc' = "functions" /\ UNCHANGED <<file, r, count, nid>>
    BY <1>4 DEF FixStub, SkipJump, InStubs, elfVars
  <2> QED
    BY <2>1 DEF WalkInvariant
<1>5. CASE RejectStub \/ WriteOver \/ KeepInput
  BY <1>5 DEF RejectStub, WriteOver, KeepInput, WalkInvariant
<1>6. CASE StubsDone
  <2>1. r = 0 /\ count = -1 /\ UNCHANGED <<file, r, count>> /\ nid' = file.nid /\ pc' = "nidmap"
    BY <1>6 DEF StubsDone, WalkInvariant, loopVars, elfVars
  <2>2. Walking' => Regular
    BY <2>1 DEF Walking, Regular, JumpsApart, JumpsOf, StartsInCompleted, Recs, Stubs
  <2>3. Walking' => WalkFacts'
    BY <2>1, <2>2, StepWalkBegins
  <2> QED
    BY <2>1, <2>3 DEF WalkInvariant, Walking, WalkFacts
<1>7. CASE OpenRecord \/ MapNid \/ CloseRecord \/ RecordsDone
  <2>1. /\ UNCHANGED <<file, argVars, nids, cnt>> /\ pc = "nidmap" /\ pc' \in {"nidmap", "write"}
    BY <1>7 DEF OpenRecord, MapNid, CloseRecord, RecordsDone, elfVars
  <2>2. Walking' = Walking
    BY <2>1, SameRecords DEF Walking
  <2>3. Walking => WalkFacts /\ Regular
    BY <2>1 DEF WalkInvariant, Walking, WalkFacts
  <2>4. ASSUME Walking, RecordsDone PROVE WalkFacts'
    <3>1. ~InSection /\ count = -1 /\ UNCHANGED <<file, argVars, nids, cnt, r, p, count, nid>>
      BY <2>4 DEF RecordsDone, elfVars, loopVars
    <3>2. /\ Stubs(file)' = Stubs(file) /\ Recs(file)' = Recs(file)
          /\ \A l, t : Owns(l, t)' = Owns(l, t) /\ NewNid(l, t)' = NewNid(l, t)
      BY <3>1, SameRecords
    <3>3. (\A l, t : Walked(l, t)' = Walked(l, t)) /\ InSection' = InSection
      BY <3>1 DEF Walked, StartsAt, InSection
    <3> QED
      BY <2>3, <2>4, <3>1, <3>2, <3>3 DEF WalkFacts
  <2>5. Walking => WalkFacts'
    BY <1>7, <2>3, <2>4, StepOpen, StepMapNid, StepClose
  <2> QED
    BY <2>1, <2>2, <2>5 DEF WalkInvariant, Walking, WalkFacts
<1>8. CASE Terminated \/ UNCHANGED vars
  <2>1. UNCHANGED vars
    BY <1>8 DEF Terminated
  <2>2. UNCHANGED <<file, pc, argVars, nids, cnt, r, p, count, nid>>
    BY <2>1 DEF vars, elfVars, loopVars
  <2>3. /\ Stubs(file)' = Stubs(file) /\ Recs(file)' = Recs(file) /\ Regular' = Regular
        /\ \A l, t : Owns(l, t)' = Owns(l, t) /\ NewNid(l, t)' = NewNid(l, t)
    BY <2>2, SameRecords
  <2>4. (\A l, t : Walked(l, t)' = Walked(l, t)) /\ InSection' = InSection /\ (\A l : StartsAt(l)' = StartsAt(l))
    BY <2>2 DEF Walked, StartsAt, InSection
  <2> QED
    BY <2>2, <2>3, <2>4 DEF WalkInvariant
<1> QED
  BY <1>1, <1>2, <1>3, <1>4, <1>5, <1>6, <1>7, <1>8 DEF Next

LEMMA WalkHolds == Spec => [](ReadingInvariant /\ WalkInvariant)
<1>1. Init => ReadingInvariant /\ WalkInvariant
  BY DEF Init, ReadingInvariant, WalkInvariant, Loaded
<1>2. TypeOK /\ FixupInvariant /\ ReadingInvariant /\ WalkInvariant /\ [Next]_vars
      => (ReadingInvariant /\ WalkInvariant)'
  BY StepReading, StepWalk
<1> QED
  BY <1>1, <1>2, InvariantHolds, PTL DEF Spec

(***************************************************************************)
(* A NID of a library is renamed once, by the first entry old:new for it   *)
(* in the last block of the map file for that library, and no other NID:   *)
(* for files of any size whose records have six words and no variables,    *)
(* and for any map file without lines old=new.                             *)
(***************************************************************************)
THEOREM NidsAreRenamed == Spec => []NidsRenamedByTheirLibrary
<1>1. TypeOK /\ FixupInvariant /\ WalkInvariant => NidsRenamedByTheirLibrary
  <2> SUFFICES ASSUME TypeOK, FixupInvariant, WalkInvariant, Regular, pc = "write", file.libstub,
                      NEW t \in Stubs(file)
               PROVE  \/ (\A k \in Recs(file) : ~Owns(k, t)) /\ nid[t] = file.nid[t]
                      \/ \E k \in Recs(file) : Owns(k, t) /\ nid[t] = NewNid(k, t)
    BY DEF NidsRenamedByTheirLibrary, NidsRenamed
  <2>1. WalkFacts
    BY DEF WalkInvariant, WalkFacts
  <2>2. r = file.at[file.nrec]
    <3>1. PICK k \in 0 .. file.nrec : file.at[k] = r
      BY <2>1 DEF WalkFacts
    <3>2. ~(k \in Recs(file))
      <4> SUFFICES ASSUME k \in Recs(file) PROVE FALSE
        OBVIOUS
      <4>1. file.at[k + 1] = r + StructWords
        BY <3>1 DEF Regular
      <4>2. k + 1 = file.nrec \/ k + 1 < file.nrec
        BY AtFacts DEF Recs
      <4>3. file.at[k + 1] <= file.at[file.nrec]
        <5>1. CASE k + 1 = file.nrec
          BY <5>1, AtFacts
        <5>2. CASE k + 1 < file.nrec
          <6>1. file.at[k + 1] < file.at[file.nrec]
            BY <5>2, AtFacts DEF TypeOK, WellFormedFile
          <6> QED
            BY <6>1, AtFacts
        <5> QED
          BY <4>2, <5>1, <5>2
      <4> QED
        BY <2>1, <4>1, <4>3 DEF WalkFacts, InSection
    <3> QED
      BY <3>1, <3>2, AtFacts
  <2>3. ASSUME NEW k \in Recs(file) PROVE Walked(k, t)
    <3>1. k < file.nrec
      BY AtFacts DEF Recs
    <3>2. file.at[k] < file.at[file.nrec]
      BY <3>1, AtFacts DEF TypeOK, WellFormedFile
    <3> QED
      BY <2>2, <3>2 DEF Walked
  <2> QED
    BY <2>1, <2>3 DEF WalkFacts
<1> QED
  BY <1>1, InvariantHolds, WalkHolds, PTL
=============================================================================
