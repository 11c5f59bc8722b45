---------------------------- MODULE PrxGenProofs ----------------------------
(***************************************************************************)
(* Theorems about PrxGen, for every set of input files and both programs.  *)
(***************************************************************************)
EXTENDS PrxGen, TLAPS

LEMMA ElfFacts ==
  ASSUME elf \in ElfFiles
  PROVE  /\ Shnum \in Nat
         /\ elf.sec \in [Indices -> Section]
         /\ Shnum > 0 => elf.sec[0].type = "NULL" /\ elf.sec[0].alloc = FALSE
         /\ \A s \in Indices : elf.sec[s].type \in RelTypes => elf.sec[s].info < Shnum
BY PrxConstants DEF WellFormed, Shnum, Indices

LEMMA SectionFacts ==
  ASSUME elf \in ElfFiles, NEW s \in Indices
  PROVE  /\ elf.sec[s].alloc \in BOOLEAN
         /\ elf.sec[s].addr \in Nat
         /\ elf.sec[s].size \in Nat
         /\ elf.sec[s].info \in Nat
         /\ elf.sec[s].link \in Nat
         /\ elf.sec[s].rels \in Seq(Reloc)
         /\ elf.sec[s].name \in Names
         /\ NameLen[elf.sec[s].name] \in Nat
         /\ s \in Nat /\ s < Shnum
<1>1. elf.sec[s] \in Section
  BY ElfFacts
<1>2. NameLen[elf.sec[s].name] \in Nat
  BY <1>1, PrxConstants DEF Section
<1>3. s \in Nat /\ s < Shnum
  BY ElfFacts DEF Indices
<1> QED BY <1>1, <1>2, <1>3 DEF Section

LEMMA NullFacts ==
  ASSUME elf \in ElfFiles, Shnum > 0
  PROVE  ~IsRel(0) /\ ~elf.sec[0].alloc /\ 0 \in Indices
<1>1. elf.sec[0].type = "NULL" /\ elf.sec[0].alloc = FALSE
  BY ElfFacts
<1>2. "NULL" \notin RelTypes
  BY DEF RelTypes
<1>3. 0 \in Indices
  BY ElfFacts DEF Indices
<1> QED BY <1>1, <1>2, <1>3 DEF IsRel

LEMMA RoundUpFacts ==
  ASSUME NEW n \in Nat
  PROVE  /\ RoundUp(n, 4) \in Nat
         /\ n <= RoundUp(n, 4)
BY DEF RoundUp

LEMMA BasesFacts ==
  ASSUME NEW t \in Totals
  PROVE  /\ AllocBase \in Nat
         /\ EhdrSize + (IF KernelTool THEN 2 ELSE 1) * PhdrSize <= AllocBase
         /\ RoundTotals(t) \in Totals
         /\ BasesOf(t) \in [ph : Nat, alloc : Nat, sh : Nat, reloc : Nat,
                            shstr : Nat, size : Nat]
<1>1. /\ AllocBase \in Nat
      /\ EhdrSize + (IF KernelTool THEN 2 ELSE 1) * PhdrSize <= AllocBase
  BY PrxConstants DEF AllocBase, RoundUp, EhdrSize, PhdrSize, ShdrSize
<1>2. RoundTotals(t) \in Totals
  BY RoundUpFacts DEF RoundTotals, Totals, ShstrtabLen
<1>3. BasesOf(t) \in [ph : Nat, alloc : Nat, sh : Nat, reloc : Nat,
                      shstr : Nat, size : Nat]
  BY <1>1 DEF BasesOf, Totals, EhdrSize, ShdrSize
<1> QED BY <1>1, <1>2, <1>3

LEMMA AddSectionType ==
  ASSUME TypeOK, NEW t \in Totals, NEW s \in Indices
  PROVE  AddSection(t, s) \in Totals
<1>1. iSize[s] \in Nat
  BY DEF TypeOK
<1>2. elf.sec[s].addr \in Nat /\ NameLen[elf.sec[s].name] \in Nat
  BY SectionFacts DEF TypeOK
<1> QED BY <1>1, <1>2 DEF AddSection, Totals, Max2

THEOREM TypeCorrect == Spec => []TypeOK
<1>1. Init => TypeOK
  <2> SUFFICES ASSUME Init PROVE TypeOK
    OBVIOUS
  <2>1. /\ iSize \in [Indices -> Nat] /\ rels \in [Indices -> Seq(Reloc)]
        /\ pRef \in [Indices -> Nat \cup {None}]
        /\ blOutput \in [Indices -> BOOLEAN] /\ iIndex \in [Indices -> Nat]
    BY DEF Init
  <2>2. tot \in Totals /\ base \in [ph : Nat, alloc : Nat, sh : Nat, reloc : Nat,
                                    shstr : Nat, size : Nat]
    BY DEF Init, Totals, ZeroTotals, ZeroBases
  <2>3. kept \in Seq(Reloc)
    BY DEF Init, FirstIndex
  <2>4. pc \in Stages
    BY DEF Init, FirstIndex, Stages
  <2>5. /\ i \in Nat /\ j \in Nat /\ sect \in Nat /\ shdr \in Nat
        /\ reloc_ofs \in Nat /\ str_ofs \in Nat /\ pReloc \in Nat /\ pData \in Nat
    BY DEF Init, FirstIndex
  <2>6. /\ g_modinfo \in Indices \cup {None} /\ found_rel \in BOOLEAN
        /\ load_addr \in Nat \cup {None} /\ elf \in ElfFiles
        /\ outfile \in {"untouched", "short", "whole"}
    BY DEF Init, FirstIndex
  <2> QED
    BY <2>1, <2>2, <2>3, <2>4, <2>5, <2>6 DEF TypeOK
<1>2. TypeOK /\ [Next]_vars => TypeOK'
  <2> SUFFICES ASSUME TypeOK, [Next]_vars PROVE TypeOK'
    OBVIOUS
  <2> USE DEF sectionVars, loadVars, relocVars, indexVars, sizeVars, cursorVars,
              bufferVars, outputVars
  <2>0. elf' = elf /\ Indices' = Indices
    <3>1. elf' = elf
      BY DEF Next, Finished, vars, ValidateHeader, LoadHeader, LinkSection, CheckLoaded,
             SkipSection, FilterReloc, ReplaceRelocs, Reindex, SizeSection,
             FinishSizing, OutputHeaders, OutputAlloc, StartHeaders, OutputShdr,
             OutputShstrShdr, OutputRelocs, StartStrings, OutputString,
             OutputShstrtabName, WriteFile, NextLoop
    <3> QED BY <3>1 DEF Indices, Shnum
  <2>1. CASE ValidateHeader
    BY <2>0, <2>1 DEF ValidateHeader, TypeOK, Stages
  <2>2. CASE LoadHeader
    <3>1. i \in Indices
      BY <2>0, <2>2, ElfFacts DEF LoadHeader, InLoop, TypeOK, Indices
    <3>2. /\ elf.sec[i].alloc \in BOOLEAN /\ elf.sec[i].addr \in Nat
          /\ elf.sec[i].size \in Nat /\ elf.sec[i].info \in Nat
          /\ elf.sec[i].rels \in Seq(Reloc)
      BY <3>1, SectionFacts DEF TypeOK
    <3>3. iSize' \in [Indices -> Nat] /\ rels' \in [Indices -> Seq(Reloc)]
      BY <2>2, <3>1, <3>2 DEF LoadHeader, TypeOK
    <3>4. pRef' \in [Indices -> Nat \cup {None}] /\ iIndex' \in [Indices -> Nat]
      BY <2>2, <3>1, <3>2 DEF LoadHeader, TypeOK
    <3>5. blOutput' \in [Indices -> BOOLEAN] /\ found_rel' \in BOOLEAN
      BY <2>2, <3>1, <3>2, PrxConstants DEF LoadHeader, Links, IsRel, AllocAsSeen, TypeOK
    <3>6. load_addr' \in Nat \cup {None}
      BY <2>2, <3>2 DEF LoadHeader, TypeOK
    <3>7. i' \in Nat
      BY <2>2 DEF LoadHeader, TypeOK
    <3> QED
      BY <2>0, <2>2, <3>3, <3>4, <3>5, <3>6, <3>7 DEF LoadHeader, TypeOK
  <2>3. CASE LinkSection
    <3>1. i \in Indices
      BY <2>0, <2>3, ElfFacts DEF LinkSection, InLoop, TypeOK, Indices
    <3>2. elf.sec[i].info \in Nat
      BY <3>1, SectionFacts DEF TypeOK
    <3>3. pRef' \in [Indices -> Nat \cup {None}]
      BY <2>3, <3>1, <3>2 DEF LinkSection, TypeOK
    <3>4. blOutput' \in [Indices -> BOOLEAN] /\ found_rel' \in BOOLEAN
      BY <2>3, <3>1, PrxConstants DEF LinkSection, Links, IsRel, AllocAsSeen, TypeOK
    <3>5. g_modinfo' \in Indices \cup {None} /\ i' \in Nat
      BY <2>3, <3>1 DEF LinkSection, TypeOK
    <3> QED
      BY <2>0, <2>3, <3>3, <3>4, <3>5 DEF LinkSection, TypeOK
  <2>4. CASE CheckLoaded
    BY <2>0, <2>4 DEF CheckLoaded, TypeOK, Stages
  <2>5. CASE SkipSection
    BY <2>0, <2>5 DEF SkipSection, TypeOK
  <2>6. CASE FilterReloc
    <3>1. i \in Indices
      BY <2>0, <2>6, ElfFacts DEF FilterReloc, InLoop, TypeOK, Indices
    <3>2. rels[i][j + 1] \in Reloc
      BY <2>0, <2>6, <3>1 DEF FilterReloc, TypeOK
    <3>3. kept' \in Seq(Reloc)
      BY <2>0, <2>6, <3>2 DEF FilterReloc, TypeOK
    <3>4. /\ j' = j + 1
          /\ UNCHANGED <<elf, pc, i, iSize, rels, pRef, blOutput, iIndex, g_modinfo, found_rel,
                         load_addr, sect, tot, base, shdr, reloc_ofs, str_ofs, pReloc, pData,
                         outfile>>
      BY <2>6 DEF FilterReloc, sectionVars, loadVars, indexVars, sizeVars, outputVars, cursorVars
    <3> QED
      BY <2>0, <3>3, <3>4 DEF TypeOK, Indices, Shnum
  <2>7. CASE ReplaceRelocs
    <3>1. iSize' \in [Indices -> Nat] /\ blOutput' \in [Indices -> BOOLEAN]
      <4>1. RelSize * Len(kept) \in Nat
        BY DEF TypeOK, RelSize
      <4>2. \/ iSize' = iSize
            \/ iSize' = [iSize EXCEPT ![i] = RelSize * Len(kept)]
        BY <2>7 DEF ReplaceRelocs
      <4>3. \/ blOutput' = blOutput
            \/ blOutput' = [blOutput EXCEPT ![i] = (kept # <<>>)]
        BY <2>7 DEF ReplaceRelocs
      <4>4. iSize \in [Indices -> Nat] /\ blOutput \in [Indices -> BOOLEAN]
        BY DEF TypeOK
      <4>5. iSize' \in [Indices -> Nat]
        BY <4>1, <4>2, <4>4
      <4>6. blOutput' \in [Indices -> BOOLEAN]
        BY <4>3, <4>4
      <4> QED BY <4>5, <4>6
    <3>2. rels' \in [Indices -> Seq(Reloc)]
      BY <2>7 DEF ReplaceRelocs, TypeOK
    <3>3. kept' \in Seq(Reloc) /\ j' \in Nat /\ i' \in Nat
      BY <2>7 DEF ReplaceRelocs, TypeOK
    <3> QED
      BY <2>0, <2>7, <3>1, <3>2, <3>3 DEF ReplaceRelocs, TypeOK
  <2>8. CASE Reindex
    <3>1. iIndex' \in [Indices -> Nat] /\ sect' \in Nat /\ i' \in Nat
      <4>1. /\ \/ iIndex' = iIndex
               \/ iIndex' = [iIndex EXCEPT ![i] = sect]
            /\ sect' = sect + 1 \/ sect' = sect
            /\ i' = i + 1
        BY <2>8 DEF Reindex
      <4>2. iIndex \in [Indices -> Nat] /\ sect \in Nat /\ i \in Nat
        BY DEF TypeOK
      <4> QED BY <4>1, <4>2
    <3> QED
      BY <2>0, <2>8, <3>1 DEF Reindex, TypeOK
  <2>10. CASE SizeSection
    <3>1. i \in Indices
      BY <2>0, <2>10, ElfFacts DEF SizeSection, InLoop, TypeOK, Indices
    <3>2. tot' \in Totals
      BY <2>0, <2>10, <3>1, AddSectionType DEF SizeSection, TypeOK
    <3> QED
      BY <2>0, <2>10, <3>2 DEF SizeSection, TypeOK
  <2>11. CASE FinishSizing
    <3>1. tot' \in Totals /\ base' \in [ph : Nat, alloc : Nat, sh : Nat, reloc : Nat,
                                       shstr : Nat, size : Nat]
      BY <2>0, <2>11, BasesFacts DEF FinishSizing, TypeOK
    <3> QED
      BY <2>0, <2>11, <3>1 DEF FinishSizing, LeaveLoop, TypeOK, Stages
  <2>12. CASE OutputHeaders
    BY <2>0, <2>12 DEF OutputHeaders, TypeOK, Stages
  <2>13. CASE OutputAlloc
    <3>0. i' = i + 1
      BY <2>13 DEF OutputAlloc
    <3>1. i' \in Nat
      BY <3>0 DEF TypeOK
    <3> QED
      BY <2>0, <2>13, <3>1 DEF OutputAlloc, TypeOK
  <2>14. CASE StartHeaders
    BY <2>0, <2>14 DEF StartHeaders, LeaveLoop, TypeOK, Stages
  <2>15. CASE OutputShdr
    <3>1. i \in Indices
      BY <2>0, <2>15, ElfFacts DEF OutputShdr, InLoop, TypeOK, Indices
    <3>2. iSize[i] \in Nat /\ NameLen[elf.sec[i].name] \in Nat
      BY <3>1, SectionFacts DEF TypeOK
    <3>3. shdr' \in Nat /\ str_ofs' \in Nat /\ reloc_ofs' \in Nat /\ i' \in Nat
      <4>1. /\ shdr' = shdr + 1 \/ shdr' = shdr
            /\ str_ofs' = str_ofs + NameLen[elf.sec[i].name] + 1 \/ str_ofs' = str_ofs
            /\ reloc_ofs' = reloc_ofs + iSize[i] \/ reloc_ofs' = reloc_ofs
            /\ i' = i + 1
        BY <2>15 DEF OutputShdr
      <4>2. shdr \in Nat /\ str_ofs \in Nat /\ reloc_ofs \in Nat /\ i \in Nat
        BY DEF TypeOK
      <4> QED BY <3>2, <4>1, <4>2
    <3> QED
      BY <2>0, <2>15, <3>3 DEF OutputShdr, TypeOK
  <2>16. CASE OutputShstrShdr
    BY <2>0, <2>16 DEF OutputShstrShdr, LeaveLoop, TypeOK, Stages
  <2>17. CASE OutputRelocs
    <3>1. i \in Indices
      BY <2>0, <2>17, ElfFacts DEF OutputRelocs, InLoop, TypeOK, Indices
    <3>2. pReloc' \in Nat /\ i' \in Nat
      <4>1. (pReloc' = pReloc + iSize[i] \/ pReloc' = pReloc) /\ i' = i + 1
        BY <2>17 DEF OutputRelocs
      <4>2. pReloc \in Nat /\ iSize[i] \in Nat /\ i \in Nat
        BY <3>1 DEF TypeOK
      <4> QED BY <4>1, <4>2
    <3> QED
      BY <2>0, <2>17, <3>2 DEF OutputRelocs, TypeOK
  <2>18. CASE OutputString
    <3>1. i \in Indices
      BY <2>0, <2>18, ElfFacts DEF OutputString, InLoop, TypeOK, Indices
    <3>2. NameLen[elf.sec[i].name] \in Nat
      BY <3>1, SectionFacts DEF TypeOK
    <3>3. pData' \in Nat /\ i' \in Nat
      <4>1. /\ pData' = pData + NameLen[elf.sec[i].name] + 1 \/ pData' = pData
            /\ i' = i + 1
        BY <2>18 DEF OutputString
      <4>2. pData \in Nat /\ i \in Nat
        BY DEF TypeOK
      <4> QED BY <3>2, <4>1, <4>2
    <3> QED
      BY <2>0, <2>18, <3>3 DEF OutputString, TypeOK
  <2>19. CASE OutputShstrtabName
    BY <2>0, <2>19 DEF OutputShstrtabName, LeaveLoop, TypeOK, Stages, ShstrtabLen
  <2>20. CASE WriteFile
    BY <2>0, <2>20 DEF WriteFile, TypeOK, Stages
  <2>21. CASE NextLoop
    BY <2>0, <2>21 DEF NextLoop, LeaveLoop, TypeOK, Stages
  <2>22. CASE StartStrings
    BY <2>0, <2>22 DEF StartStrings, LeaveLoop, TypeOK, Stages
  <2>23. CASE UNCHANGED vars
    BY <2>0, <2>23 DEF vars, TypeOK
  <2> QED
    BY <2>1, <2>2, <2>3, <2>4, <2>5, <2>6, <2>7, <2>8, <2>10, <2>11,
       <2>12, <2>13, <2>14, <2>15, <2>16, <2>17, <2>18, <2>19, <2>20, <2>21,
       <2>22, <2>23, SMTT(30) DEF Next, Finished
<1> QED BY <1>1, <1>2, PTL DEF Spec

(***************************************************************************)
(* The invariant PassesAgree.                                              *)
(***************************************************************************)

(* Steps before the numbering pass: only the bounds of the loop and the    *)
(* null section have to be looked at.                                      *)
LEMMA EarlyStep ==
  ASSUME TypeOK, PassesAgree, Early, Early', elf' = elf,
         UNCHANGED <<sect, rank, before, tot>>, LoopBounds', NullIsDropped'
  PROVE  PassesAgree'
<1>1. Ranks'
  BY DEF PassesAgree, Ranks, Ranked, Early, Sized
<1>2. Sums'
  <2>1. Summed(1)' /\ tot' = before'[1]
    BY DEF PassesAgree, Sums, Summed
  <2> QED BY <2>1 DEF Sums, Early, Sized
<1>3. RankIsCount' /\ Cursors'
  BY DEF RankIsCount, Cursors, Early, Sized
<1> QED BY <1>1, <1>2, <1>3 DEF PassesAgree

(* Where a pass starts depends on the totals and on the tool only.         *)
LEMMA BasesKept ==
  ASSUME elf' = elf
  PROVE  \A t : BasesOf(t)' = BasesOf(t)
BY DEF BasesOf, AllocBase, KernelTool

(* Steps of the output passes: only the loop and its cursor move.          *)
LEMMA OutputStep ==
  ASSUME TypeOK, PassesAgree, Sized, Sized',
         UNCHANGED <<elf, iSize, blOutput, iIndex, sect, rank, before, tot, base>>,
         LoopBounds', Cursors'
  PROVE  PassesAgree'
<1>1. Shnum' = Shnum
  BY DEF Shnum
<1>2. NullIsDropped'
  BY <1>1 DEF PassesAgree, NullIsDropped
<1>3. Ranks'
  BY <1>1 DEF PassesAgree, Ranks, Ranked, Early, Sized
<1>4. Sums'
  <2>1. Summed(Shnum) /\ tot = RoundTotals(before[Shnum]) /\ base = BasesOf(tot)
    BY DEF PassesAgree, Sums
  <2>2. Summed(Shnum)'
    BY <1>1, <2>1 DEF Summed, AddSection, IsProgbits, IsRel
  <2>3. tot' = RoundTotals(before'[Shnum']) /\ base' = BasesOf(tot')
    BY <1>1, <2>1
  <2> QED BY <2>2, <2>3, BasesKept DEF Sums, Early, Sized
<1>5. RankIsCount'
  BY <1>1 DEF PassesAgree, RankIsCount, Sized
<1> QED BY <1>2, <1>3, <1>4, <1>5 DEF PassesAgree

LEMMA AddSectionGrows ==
  ASSUME TypeOK, NEW t \in Totals, NEW s \in Indices
  PROVE  /\ AddSection(t, s).sects = t.sects + 1
         /\ t.reloc <= AddSection(t, s).reloc
         /\ t.str <= AddSection(t, s).str
         /\ t.alloc <= AddSection(t, s).alloc
         /\ IsProgbits(s) => elf.sec[s].addr + iSize[s] <= AddSection(t, s).alloc
<1>1. iSize[s] \in Nat /\ elf.sec[s].addr \in Nat /\ NameLen[elf.sec[s].name] \in Nat
  BY SectionFacts DEF TypeOK
<1>2. t.sects \in Nat /\ t.reloc \in Nat /\ t.str \in Nat /\ t.alloc \in Nat
  BY DEF Totals
<1> QED BY <1>1, <1>2 DEF AddSection, Max2

(* One section of the numbering pass.                                      *)
LEMMA ReindexStep ==
  ASSUME TypeOK, PassesAgree, Reindex
  PROVE  PassesAgree'
<1> USE DEF sectionVars, loadVars, relocVars, sizeVars, cursorVars, bufferVars, outputVars
<1>1. /\ pc = "reindex" /\ pc' = "reindex" /\ i' = i + 1 /\ i < Shnum /\ i \in Nat
      /\ UNCHANGED <<elf, iSize, blOutput, before, tot>>
      /\ Shnum' = Shnum /\ Shnum \in Nat /\ sect \in Nat
  BY ElfFacts DEF Reindex, InLoop, TypeOK, Shnum
<1>2. LoopBounds' /\ NullIsDropped'
  BY <1>1 DEF PassesAgree, LoopBounds, NullIsDropped
<1>3. Ranked(i)
  BY <1>1 DEF PassesAgree, Ranks
<1>4. Ranked(i)'
  <2>1. rank' = [s \in 0 .. i + 1 |-> IF s = i + 1 THEN sect' ELSE rank[s]]
    BY DEF Reindex
  <2>2. sect' = (IF blOutput[i] THEN sect + 1 ELSE sect) /\ sect' \in Nat
    BY <1>1 DEF Reindex
  <2>3. rank' \in [0 .. i + 1 -> Nat] /\ rank'[0] = 1 /\ sect' = rank'[i + 1]
    BY <1>1, <1>3, <2>1, <2>2 DEF Ranked
  <2>4. ASSUME NEW s \in 0 .. i
        PROVE  /\ rank'[s + 1] = IF blOutput[s] THEN rank'[s] + 1 ELSE rank'[s]
               /\ blOutput[s] => iIndex'[s] = rank'[s]
    <3>1. CASE s = i
      <4>1. rank'[s] = rank[i] /\ rank'[s + 1] = sect' /\ rank[i] = sect
        BY <1>1, <1>3, <2>1, <3>1 DEF Ranked
      <4>2. blOutput[i] => iIndex'[i] = sect
        BY <1>1, ElfFacts DEF Reindex, TypeOK, Indices
      <4> QED BY <2>2, <3>1, <4>1, <4>2
    <3>2. CASE s # i
      <4>1. s \in 0 .. i - 1 /\ rank'[s] = rank[s] /\ rank'[s + 1] = rank[s + 1]
        BY <1>1, <2>1, <3>2
      <4>2. iIndex'[s] = iIndex[s]
        <5>1. iIndex' = iIndex \/ iIndex' = [iIndex EXCEPT ![i] = sect]
          BY DEF Reindex
        <5>2. s \in Indices /\ iIndex \in [Indices -> Nat]
          BY <1>1 DEF TypeOK, Indices
        <5> QED BY <3>2, <5>1, <5>2
      <4> QED BY <1>3, <4>1, <4>2 DEF Ranked
    <3> QED BY <3>1, <3>2
  <2> QED BY <1>1, <2>3, <2>4 DEF Ranked
<1>5. Ranks'
  BY <1>1, <1>4 DEF Ranks, Early, Sized
<1>6. Sums'
  <2>1. Summed(1)' /\ tot' = before'[1]
    BY <1>1 DEF PassesAgree, Sums, Summed
  <2> QED BY <1>1, <2>1 DEF Sums, Early, Sized
<1>7. RankIsCount' /\ Cursors'
  BY <1>1 DEF RankIsCount, Cursors, Sized
<1> QED BY <1>2, <1>5, <1>6, <1>7 DEF PassesAgree

(* One section of the sizing pass.                                         *)
LEMMA SizeStep ==
  ASSUME TypeOK, PassesAgree, SizeSection
  PROVE  PassesAgree'
<1> USE DEF sectionVars, loadVars, relocVars, indexVars, cursorVars, bufferVars, outputVars
<1>1. /\ pc = "size" /\ pc' = "size" /\ i' = i + 1 /\ i < Shnum /\ 1 <= i /\ i \in Nat
      /\ UNCHANGED <<elf, iSize, blOutput, iIndex, rank, sect>>
      /\ Shnum' = Shnum /\ Shnum \in Nat /\ i \in Indices
  BY ElfFacts DEF SizeSection, InLoop, TypeOK, PassesAgree, LoopBounds, Shnum, Indices
<1>2. LoopBounds' /\ NullIsDropped'
  BY <1>1 DEF PassesAgree, LoopBounds, NullIsDropped
<1>3. Ranked(Shnum)
  BY <1>1 DEF PassesAgree, Ranks
<1>4. Ranks'
  BY <1>1, <1>3 DEF Ranks, Ranked, Early, Sized
<1>5. Summed(i) /\ tot = before[i] /\ before[i] \in Totals
  BY <1>1 DEF PassesAgree, Sums, Summed
<1>6. tot' = (IF blOutput[i] THEN AddSection(before[i], i) ELSE before[i])
  BY <1>5 DEF SizeSection
<1>7. before' = [s \in 1 .. i + 1 |-> IF s = i + 1 THEN tot' ELSE before[s]]
  BY DEF SizeSection
<1>8. /\ before'[i + 1] = tot'
      /\ \A s \in 1 .. i : before'[s] = before[s]
  BY <1>1, <1>7
<1>9. /\ tot' \in Totals
      /\ before[i].sects <= tot'.sects /\ before[i].reloc <= tot'.reloc
      /\ before[i].str <= tot'.str /\ before[i].alloc <= tot'.alloc
      /\ blOutput[i] /\ IsProgbits(i) => elf.sec[i].addr + iSize[i] <= tot'.alloc
  <2>1. CASE blOutput[i]
    <3>1. before[i].sects \in Nat
      BY <1>5 DEF Totals
    <3> QED BY <1>1, <1>5, <1>6, <2>1, <3>1, AddSectionType, AddSectionGrows
  <2>2. CASE ~blOutput[i]
    <3>1. tot' = before[i]
      BY <1>6, <2>2
    <3>2. /\ before[i].sects \in Nat /\ before[i].reloc \in Nat
          /\ before[i].str \in Nat /\ before[i].alloc \in Nat
      BY <1>5 DEF Totals
    <3> QED BY <1>5, <2>2, <3>1, <3>2
  <2> QED BY <2>1, <2>2
<1>10. Summed(i)'
  <2>1. before' \in [1 .. i + 1 -> Totals]
    <3>1. \A s \in 1 .. i : before[s] \in Totals
      BY <1>5 DEF Summed
    <3> QED BY <1>1, <1>7, <1>9, <3>1
  <2>2. before'[1] = ZeroTotals
    BY <1>1, <1>5, <1>8 DEF Summed
  <2>3. ASSUME NEW s \in 1 .. i
        PROVE  /\ before'[s + 1] = IF blOutput[s] THEN AddSection(before'[s], s) ELSE before'[s]
               /\ blOutput[s] /\ IsProgbits(s) =>
                    elf.sec[s].addr + iSize[s] <= before'[i + 1].alloc
    <3>1. CASE s = i
      BY <1>1, <1>6, <1>8, <1>9, <3>1
    <3>2. CASE s # i
      <4>1. s \in 1 .. i - 1 /\ s + 1 \in 1 .. i /\ s \in Indices
        BY <1>1, <3>2 DEF Indices
      <4>2. before'[s] = before[s] /\ before'[s + 1] = before[s + 1]
        BY <1>8, <4>1
      <4>3. iSize[s] \in Nat /\ elf.sec[s].addr \in Nat
        BY <4>1, SectionFacts DEF TypeOK
      <4>4. before[i].alloc \in Nat /\ tot'.alloc \in Nat
        BY <1>5, <1>9 DEF Totals
      <4> QED BY <1>5, <1>8, <1>9, <4>1, <4>2, <4>3, <4>4 DEF Summed
    <3> QED BY <3>1, <3>2
  <2>4. ASSUME NEW s \in 1 .. i + 1
        PROVE  /\ before'[s].sects <= before'[i + 1].sects
               /\ before'[s].reloc <= before'[i + 1].reloc
               /\ before'[s].str <= before'[i + 1].str
    <3>1. tot'.sects \in Nat /\ tot'.reloc \in Nat /\ tot'.str \in Nat
      BY <1>9 DEF Totals
    <3>2. CASE s = i + 1
      BY <1>8, <3>1, <3>2
    <3>3. CASE s # i + 1
      <4>1. s \in 1 .. i /\ before'[s] = before[s] /\ before[s] \in Totals
        BY <1>1, <1>5, <1>8, <3>3 DEF Summed
      <4>2. /\ before[s].sects \in Nat /\ before[s].reloc \in Nat /\ before[s].str \in Nat
            /\ before[i].sects \in Nat /\ before[i].reloc \in Nat /\ before[i].str \in Nat
        BY <1>5, <4>1 DEF Totals
      <4>3. /\ before[s].sects <= before[i].sects
            /\ before[s].reloc <= before[i].reloc
            /\ before[s].str <= before[i].str
        BY <1>5, <4>1 DEF Summed
      <4> QED BY <1>8, <1>9, <3>1, <4>1, <4>2, <4>3
    <3> QED BY <3>2, <3>3
  <2>5. \A s : AddSection(before[s], s)' = AddSection(before'[s], s)
    BY <1>1 DEF AddSection, IsProgbits, IsRel
  <2>6. \A s : IsProgbits(s)' = IsProgbits(s)
    BY <1>1 DEF IsProgbits
  <2>7. \A s \in 1 .. i + 1 - 1 :
          /\ before'[s + 1] = IF blOutput'[s] THEN AddSection(before[s], s)' ELSE before'[s]
          /\ blOutput'[s] /\ IsProgbits(s)' =>
               elf'.sec[s].addr + iSize'[s] <= before'[i + 1].alloc
    BY <1>1, <2>3, <2>5, <2>6
  <2> QED
    BY <1>1, <2>1, <2>2, <2>4, <2>7 DEF Summed
<1>11. Sums'
  BY <1>1, <1>8, <1>10 DEF Sums, Early, Sized
<1>12. RankIsCount'
  <2>1. ASSUME NEW s \in 1 .. i + 1
        PROVE  before'[s].sects = rank[s] + 1
    <3>1. \A q \in 1 .. i : before[q].sects = rank[q] + 1
      BY <1>1 DEF PassesAgree, RankIsCount
    <3>2. CASE s = i + 1
      <4>1. rank[i + 1] = (IF blOutput[i] THEN rank[i] + 1 ELSE rank[i]) /\ rank[i] \in Nat
        BY <1>1, <1>3 DEF Ranked
      <4>2. before[i].sects = rank[i] + 1
        BY <1>1, <3>1
      <4>3. before'[s] = tot'
        BY <1>8, <3>2
      <4>4. CASE blOutput[i]
        BY <1>1, <1>5, <1>6, <3>2, <4>1, <4>2, <4>3, <4>4, AddSectionGrows
      <4>5. CASE ~blOutput[i]
        BY <1>6, <3>2, <4>1, <4>2, <4>3, <4>5
      <4> QED BY <4>4, <4>5
    <3>3. CASE s # i + 1
      BY <1>1, <1>8, <3>1, <3>3
    <3> QED BY <3>2, <3>3
  <2> QED BY <1>1, <2>1 DEF RankIsCount, Sized
<1>13. Cursors'
  BY <1>1 DEF Cursors
<1> QED BY <1>2, <1>4, <1>11, <1>12, <1>13 DEF PassesAgree

(***************************************************************************)
(* The passes agree in every reachable state: the inductive invariant that *)
(* PassesStayInRegion and HeaderAtItsIndex follow from.                    *)
(***************************************************************************)
THEOREM PassesAgreeAlways == Spec => []PassesAgree
<1>1. Init => PassesAgree
  <2> SUFFICES ASSUME Init PROVE PassesAgree
    OBVIOUS
  <2>1. LoopBounds /\ NullIsDropped
    BY ElfFacts DEF Init, LoopBounds, NullIsDropped, Indices
  <2>2. Ranks
    BY DEF Init, FirstIndex, Ranks, Ranked, Early, Sized
  <2>3. ZeroTotals \in Totals /\ ZeroTotals.sects \in Nat /\ ZeroTotals.reloc \in Nat
        /\ ZeroTotals.str \in Nat
    BY DEF ZeroTotals, Totals
  <2>4. Summed(1) /\ tot = before[1]
    BY <2>3 DEF Init, Summed
  <2>5. Sums
    BY <2>4 DEF Init, Sums, Early, Sized
  <2>6. RankIsCount /\ Cursors
    BY DEF Init, RankIsCount, Cursors, Sized
  <2> QED BY <2>1, <2>2, <2>5, <2>6 DEF PassesAgree
<1>2. TypeOK /\ PassesAgree /\ [Next]_vars => PassesAgree'
  <2> SUFFICES ASSUME TypeOK, PassesAgree, [Next]_vars PROVE PassesAgree'
    OBVIOUS
  <2> USE DEF sectionVars, loadVars, relocVars, indexVars, sizeVars, cursorVars,
              bufferVars, outputVars
  <2>0. elf' = elf /\ Shnum' = Shnum /\ Shnum \in Nat /\ i \in Nat
        /\ elf \in ElfFiles /\ Indices' = Indices
    <3>1. elf' = elf
      BY DEF Next, Finished, vars, ValidateHeader, LoadHeader, LinkSection, CheckLoaded,
             SkipSection, FilterReloc, ReplaceRelocs, Reindex, SizeSection,
             FinishSizing, OutputHeaders, OutputAlloc, StartHeaders, OutputShdr,
             OutputShstrShdr, OutputRelocs, StartStrings, OutputString,
             OutputShstrtabName, WriteFile, NextLoop
    <3> QED BY <3>1, ElfFacts DEF Shnum, Indices, TypeOK
  <2>1. CASE ValidateHeader
    <3>1. Early /\ Early' /\ UNCHANGED <<sect, rank, before, tot>>
      BY <2>1 DEF ValidateHeader, InLoop, Early
    <3>2. LoopBounds' /\ NullIsDropped'
      BY <2>1, <2>0, ElfFacts DEF ValidateHeader, InLoop, PassesAgree, LoopBounds, NullIsDropped
    <3> QED BY <2>0, <3>1, <3>2, EarlyStep
  <2>2. CASE LoadHeader
    <3>1. Early /\ Early' /\ UNCHANGED <<sect, rank, before, tot>>
      BY <2>2 DEF LoadHeader, InLoop, Early
    <3>2. LoopBounds'
      BY <2>2, <2>0 DEF LoadHeader, InLoop, PassesAgree, LoopBounds
    <3>3. NullIsDropped'
      <4>1. blOutput' = [blOutput EXCEPT ![i] = elf.sec[i].alloc \/ (KernelTool /\ Links(i))]
        BY <2>2 DEF LoadHeader
      <4>2. Shnum > 0 => ~elf.sec[0].alloc /\ ~Links(0) /\ 0 \in Indices
        BY <2>0, NullFacts DEF Links
      <4>3. blOutput \in [Indices -> BOOLEAN]
        BY DEF TypeOK
      <4> QED BY <2>0, <4>1, <4>2, <4>3 DEF PassesAgree, NullIsDropped
    <3> QED BY <2>0, <3>1, <3>2, <3>3, EarlyStep
  <2>3. CASE LinkSection
    <3>1. Early /\ Early' /\ UNCHANGED <<sect, rank, before, tot>>
      BY <2>3 DEF LinkSection, InLoop, Early
    <3>2. LoopBounds'
      BY <2>3, <2>0 DEF LinkSection, InLoop, PassesAgree, LoopBounds
    <3>3. NullIsDropped'
      <4>1. blOutput' = [blOutput EXCEPT ![i] = (blOutput[i] \/ (~KernelTool /\ Links(i)))
                                               /\ elf.sec[i].name # RemoveRelName]
        BY <2>3 DEF LinkSection
      <4>2. Shnum > 0 => ~Links(0) /\ 0 \in Indices
        BY <2>0, NullFacts DEF Links
      <4>3. blOutput \in [Indices -> BOOLEAN]
        BY DEF TypeOK
      <4> QED BY <2>0, <4>1, <4>2, <4>3 DEF PassesAgree, NullIsDropped
    <3> QED BY <2>0, <3>1, <3>2, <3>3, EarlyStep
  <2>4. CASE CheckLoaded
    <3>1. Early /\ Early' /\ UNCHANGED <<sect, rank, before, tot>>
      BY <2>4 DEF CheckLoaded, Early, PassesAgree
    <3>2. LoopBounds' /\ NullIsDropped'
      BY <2>4, <2>0, ElfFacts DEF CheckLoaded, InLoop, PassesAgree, LoopBounds, NullIsDropped
    <3> QED BY <2>0, <3>1, <3>2, EarlyStep
  <2>5. CASE SkipSection
    <3>1. Early /\ Early' /\ UNCHANGED <<sect, rank, before, tot>>
      BY <2>5 DEF SkipSection, InLoop, Early
    <3>2. LoopBounds' /\ NullIsDropped'
      BY <2>5, <2>0, ElfFacts DEF SkipSection, InLoop, PassesAgree, LoopBounds, NullIsDropped
    <3> QED BY <2>0, <3>1, <3>2, EarlyStep
  <2>6. CASE FilterReloc
    <3>1. Early /\ Early' /\ UNCHANGED <<sect, rank, before, tot>>
      BY <2>6 DEF FilterReloc, InLoop, Early
    <3>2. LoopBounds' /\ NullIsDropped'
      BY <2>6, <2>0, ElfFacts DEF FilterReloc, InLoop, PassesAgree, LoopBounds, NullIsDropped
    <3> QED BY <2>0, <3>1, <3>2, EarlyStep
  <2>7. CASE ReplaceRelocs
    <3>1. Early /\ Early' /\ UNCHANGED <<sect, rank, before, tot>>
      BY <2>7 DEF ReplaceRelocs, InLoop, Early
    <3>2. LoopBounds'
      BY <2>7, <2>0 DEF ReplaceRelocs, InLoop, PassesAgree, LoopBounds
    <3>3. NullIsDropped'
      <4>1. Filtered(i)
        BY <2>7 DEF ReplaceRelocs
      <4>2. Shnum > 0 => i # 0
        BY <4>1 DEF Filtered, PassesAgree, NullIsDropped
      <4>3. \/ blOutput' = blOutput
            \/ blOutput' = [blOutput EXCEPT ![i] = (kept # <<>>)]
        BY <2>7 DEF ReplaceRelocs
      <4>4. blOutput \in [Indices -> BOOLEAN] /\ (Shnum > 0 => 0 \in Indices)
        BY <2>0 DEF TypeOK, Indices
      <4> QED BY <2>0, <4>2, <4>3, <4>4 DEF PassesAgree, NullIsDropped
    <3> QED BY <2>0, <3>1, <3>2, <3>3, EarlyStep
  <2>8. CASE Reindex
    BY <2>8, ReindexStep
  <2>9. CASE SizeSection
    BY <2>9, SizeStep
  <2>10. CASE FinishSizing
    <3>1. /\ pc = "size" /\ pc' = "ehdr" /\ i' = 0 /\ i >= Shnum
          /\ tot' = RoundTotals(tot) /\ base' = BasesOf(RoundTotals(tot))
          /\ UNCHANGED <<iSize, blOutput, iIndex, sect, rank, before>>
      BY <2>10 DEF FinishSizing, LeaveLoop
    <3>2. i = Shnum /\ Shnum > 0
      BY <2>0, <3>1 DEF PassesAgree, LoopBounds
    <3>3. LoopBounds' /\ NullIsDropped'
      BY <2>0, <3>1, <3>2 DEF PassesAgree, LoopBounds, NullIsDropped
    <3>4. Ranks'
      BY <2>0, <3>1, <3>2 DEF PassesAgree, Ranks, Ranked, Early, Sized
    <3>5. Sums'
      <4>1. Summed(Shnum) /\ tot = before[Shnum]
        BY <3>1, <3>2 DEF PassesAgree, Sums
      <4>2. Summed(Shnum)'
        BY <2>0, <3>1, <4>1 DEF Summed, AddSection, IsProgbits, IsRel
      <4>3. tot' = RoundTotals(before'[Shnum']) /\ base' = BasesOf(tot')
        BY <2>0, <3>1, <4>1
      <4> QED BY <2>0, <3>1, <4>2, <4>3, BasesKept DEF Sums, Early, Sized
    <3>6. RankIsCount' /\ Cursors'
      BY <2>0, <3>1, <3>2 DEF PassesAgree, RankIsCount, Cursors, Sized
    <3> QED BY <3>3, <3>4, <3>5, <3>6 DEF PassesAgree
  <2>11. CASE OutputHeaders
    <3>1. Sized /\ Sized'
      BY <2>11 DEF OutputHeaders, Sized
    <3>2. LoopBounds'
      BY <2>11, <2>0, ElfFacts DEF OutputHeaders, TypeOK, PassesAgree, LoopBounds
    <3>3. Cursors'
      BY <2>11, <2>0 DEF OutputHeaders, PassesAgree, Cursors
    <3>4. UNCHANGED <<iSize, blOutput, iIndex, sect, rank, before, tot, base>>
      BY <2>11 DEF OutputHeaders
    <3> QED BY <2>0, <3>1, <3>2, <3>3, <3>4, OutputStep
  <2>12. CASE OutputAlloc
    <3>1. Sized /\ Sized'
      BY <2>12 DEF OutputAlloc, InLoop, Sized
    <3>2. LoopBounds'
      BY <2>12, <2>0, ElfFacts, SMTT(30) DEF OutputAlloc, InLoop, TypeOK, PassesAgree, LoopBounds
    <3>3. Cursors'
      BY <2>12, <2>0 DEF OutputAlloc, InLoop, PassesAgree, Cursors
    <3>4. UNCHANGED <<iSize, blOutput, iIndex, sect, rank, before, tot, base>>
      BY <2>12 DEF OutputAlloc
    <3> QED BY <2>0, <3>1, <3>2, <3>3, <3>4, OutputStep
  <2>13. CASE StartHeaders
    <3>1. Sized /\ Sized'
      BY <2>13 DEF StartHeaders, LeaveLoop, Sized
    <3>2. LoopBounds'
      BY <2>13, <2>0 DEF StartHeaders, LeaveLoop, PassesAgree, LoopBounds
    <3>3. UNCHANGED <<iSize, blOutput, iIndex, sect, rank, before, tot, base>>
      BY <2>13 DEF StartHeaders
    <3>4. Cursors'
      <4>1. /\ pc' = "sh" /\ i' = 1 /\ shdr' = 1 /\ reloc_ofs' = base.reloc /\ str_ofs' = 1
            /\ pc = "alloc"
        BY <2>13 DEF StartHeaders, LeaveLoop
      <4>2. Shnum > 0 /\ ~blOutput[0] /\ Ranked(Shnum) /\ Summed(Shnum)
        BY <3>1, <4>1 DEF PassesAgree, LoopBounds, NullIsDropped, Ranks, Sums, Sized
      <4>3. rank[1] = 1
        BY <2>0, <4>2 DEF Ranked
      <4>4. before[1].str = 1 /\ before[1].reloc = 0
        BY <4>2 DEF Summed, ZeroTotals
      <4>5. base.reloc \in Nat
        BY DEF TypeOK
      <4> QED BY <3>3, <4>1, <4>3, <4>4, <4>5 DEF Cursors
    <3> QED BY <2>0, <3>1, <3>2, <3>3, <3>4, OutputStep
  <2>14. CASE OutputShdr
    <3>1. /\ pc = "sh" /\ pc' = "sh" /\ i' = i + 1 /\ i < Shnum
          /\ UNCHANGED <<iSize, blOutput, iIndex, sect, rank, before, tot, base>>
      BY <2>14 DEF OutputShdr, InLoop
    <3>2. Sized /\ Sized' /\ LoopBounds' /\ 1 <= i
      BY <2>0, <3>1 DEF Sized, PassesAgree, LoopBounds
    <3>3. i \in Indices /\ i \in 1 .. Shnum - 1 /\ i \in 0 .. Shnum - 1
      BY <2>0, <3>1, <3>2 DEF Indices
    <3>4. Ranked(Shnum) /\ Summed(Shnum)
      BY <3>2 DEF PassesAgree, Ranks, Sums
    <3>5. /\ rank[i + 1] = IF blOutput[i] THEN rank[i] + 1 ELSE rank[i]
          /\ before[i + 1] = IF blOutput[i] THEN AddSection(before[i], i) ELSE before[i]
          /\ before[i] \in Totals
      <4>1. rank[i + 1] = IF blOutput[i] THEN rank[i] + 1 ELSE rank[i]
        BY <3>3, <3>4 DEF Ranked
      <4>2. before[i + 1] = IF blOutput[i] THEN AddSection(before[i], i) ELSE before[i]
        BY <3>3, <3>4 DEF Summed
      <4>3. before[i] \in Totals
        BY <2>0, <3>3, <3>4 DEF Summed
      <4> QED BY <4>1, <4>2, <4>3
    <3>6. shdr = rank[i] /\ str_ofs = before[i].str /\ reloc_ofs = base.reloc + before[i].reloc
      BY <3>1 DEF PassesAgree, Cursors
    <3>7. iSize[i] \in Nat /\ NameLen[elf.sec[i].name] \in Nat /\ base.reloc \in Nat
      BY <2>0, <3>3, SectionFacts DEF TypeOK
    <3>8. before[i].reloc \in Nat /\ before[i].str \in Nat
      BY <3>5 DEF Totals
    <3>9. Cursors'
      <4>1. CASE blOutput[i]
        <5>1. /\ shdr' = shdr + 1
              /\ str_ofs' = str_ofs + NameLen[elf.sec[i].name] + 1
              /\ reloc_ofs' = IF IsRel(i) THEN reloc_ofs + iSize[i] ELSE reloc_ofs
          BY <2>14, <4>1 DEF OutputShdr
        <5>2. /\ before[i + 1].str = before[i].str + NameLen[elf.sec[i].name] + 1
              /\ before[i + 1].reloc =
                   IF IsRel(i) THEN before[i].reloc + iSize[i] ELSE before[i].reloc
          BY <3>5, <4>1 DEF AddSection
        <5> QED BY <3>1, <3>5, <3>6, <3>7, <3>8, <4>1, <5>1, <5>2 DEF Cursors
      <4>2. CASE ~blOutput[i]
        <5>1. UNCHANGED <<shdr, str_ofs, reloc_ofs>>
          BY <2>14, <4>2 DEF OutputShdr
        <5> QED BY <3>1, <3>5, <3>6, <4>2, <5>1 DEF Cursors
      <4> QED BY <4>1, <4>2
    <3> QED BY <2>0, <3>1, <3>2, <3>9, OutputStep
  <2>15. CASE OutputShstrShdr
    <3>1. /\ pc = "sh" /\ pc' = "relocs" /\ i' = 0 /\ pReloc' = base.reloc
          /\ UNCHANGED <<iSize, blOutput, iIndex, sect, rank, before, tot, base>>
      BY <2>15 DEF OutputShstrShdr, LeaveLoop
    <3>2. Sized /\ Sized' /\ LoopBounds'
      BY <2>0, <3>1 DEF Sized, PassesAgree, LoopBounds
    <3>3. base.reloc \in Nat
      BY DEF TypeOK
    <3>4. Cursors'
      BY <3>1, <3>3 DEF Cursors
    <3> QED BY <2>0, <3>1, <3>2, <3>4, OutputStep
  <2>16. CASE OutputRelocs
    <3>1. /\ pc = "relocs" /\ pc' = "relocs" /\ i' = i + 1 /\ i < Shnum
          /\ UNCHANGED <<iSize, blOutput, iIndex, sect, rank, before, tot, base>>
      BY <2>16 DEF OutputRelocs, InLoop
    <3>2. Sized /\ Sized' /\ LoopBounds' /\ i \in Indices
      BY <2>0, <3>1 DEF Sized, PassesAgree, LoopBounds, Indices
    <3>3. Summed(Shnum) /\ ~blOutput[0] /\ Shnum > 0
      BY <3>1, <3>2 DEF PassesAgree, Sums, NullIsDropped, LoopBounds
    <3>4. pReloc = base.reloc + (IF i = 0 THEN 0 ELSE before[i].reloc)
      BY <3>1 DEF PassesAgree, Cursors
    <3>5. iSize[i] \in Nat /\ base.reloc \in Nat
      BY <3>2 DEF TypeOK
    <3>6. pReloc' = base.reloc + before[i + 1].reloc
      <4>1. CASE i = 0
        <5>1. pReloc' = pReloc /\ before[1].reloc = 0
          BY <2>16, <3>3, <4>1 DEF OutputRelocs, Summed, ZeroTotals
        <5> QED BY <3>4, <4>1, <5>1
      <4>2. CASE i # 0
        <5>1. /\ before[i + 1] = IF blOutput[i] THEN AddSection(before[i], i) ELSE before[i]
              /\ before[i] \in Totals
          BY <2>0, <3>1, <3>3, <4>2 DEF Summed
        <5>2. before[i].reloc \in Nat
          BY <5>1 DEF Totals
        <5>3. CASE blOutput[i] /\ IsRel(i)
          <6>1. pReloc' = pReloc + iSize[i]
            BY <2>16, <5>3 DEF OutputRelocs
          <6>2. before[i + 1].reloc = before[i].reloc + iSize[i]
            BY <5>1, <5>3 DEF AddSection
          <6> QED BY <3>4, <3>5, <4>2, <5>2, <6>1, <6>2
        <5>4. CASE ~(blOutput[i] /\ IsRel(i))
          <6>1. pReloc' = pReloc
            BY <2>16, <5>4 DEF OutputRelocs
          <6>2. before[i + 1].reloc = before[i].reloc
            BY <5>1, <5>4 DEF AddSection
          <6> QED BY <3>4, <4>2, <6>1, <6>2
        <5> QED BY <5>3, <5>4
      <4> QED BY <4>1, <4>2
    <3>7. Cursors'
      BY <2>0, <3>1, <3>6 DEF Cursors
    <3> QED BY <2>0, <3>1, <3>2, <3>7, OutputStep
  <2>17. CASE StartStrings
    <3>1. /\ pc = "relocs" /\ pc' = "strtab" /\ i' = 1 /\ pData' = 1
          /\ UNCHANGED <<iSize, blOutput, iIndex, sect, rank, before, tot, base>>
      BY <2>17 DEF StartStrings, LeaveLoop
    <3>2. Sized /\ Sized' /\ LoopBounds'
      BY <2>0, <3>1 DEF Sized, PassesAgree, LoopBounds
    <3>3. before[1].str = 1
      BY <3>2 DEF PassesAgree, Sums, Summed, ZeroTotals
    <3>4. Cursors'
      BY <3>1, <3>3 DEF Cursors
    <3> QED BY <2>0, <3>1, <3>2, <3>4, OutputStep
  <2>18. CASE OutputString
    <3>1. /\ pc = "strtab" /\ pc' = "strtab" /\ i' = i + 1 /\ i < Shnum
          /\ UNCHANGED <<iSize, blOutput, iIndex, sect, rank, before, tot, base>>
      BY <2>18 DEF OutputString, InLoop
    <3>2. Sized /\ Sized' /\ LoopBounds' /\ i \in 1 .. Shnum - 1 /\ i \in Indices
      BY <2>0, <3>1 DEF Sized, PassesAgree, LoopBounds, Indices
    <3>3. /\ before[i + 1] = IF blOutput[i] THEN AddSection(before[i], i) ELSE before[i]
          /\ pData = before[i].str
      BY <3>1, <3>2 DEF PassesAgree, Sums, Summed, Cursors
    <3>4. pData' = before[i + 1].str
      <4>1. CASE blOutput[i]
        BY <2>18, <3>3, <4>1 DEF OutputString, AddSection
      <4>2. CASE ~blOutput[i]
        BY <2>18, <3>3, <4>2 DEF OutputString
      <4> QED BY <4>1, <4>2
    <3>5. Cursors'
      BY <3>1, <3>4 DEF Cursors
    <3> QED BY <2>0, <3>1, <3>2, <3>5, OutputStep
  <2>19. CASE OutputShstrtabName
    <3>1. Sized /\ Sized'
      BY <2>19 DEF OutputShstrtabName, LeaveLoop, Sized
    <3>2. LoopBounds'
      BY <2>19, <2>0, ElfFacts DEF OutputShstrtabName, LeaveLoop, TypeOK, PassesAgree, LoopBounds
    <3>3. Cursors'
      BY <2>19, <2>0 DEF OutputShstrtabName, LeaveLoop, PassesAgree, Cursors
    <3>4. UNCHANGED <<iSize, blOutput, iIndex, sect, rank, before, tot, base>>
      BY <2>19 DEF OutputShstrtabName
    <3> QED BY <2>0, <3>1, <3>2, <3>3, <3>4, OutputStep
  <2>20. CASE WriteFile
    <3>1. Sized /\ Sized'
      BY <2>20 DEF WriteFile, Sized
    <3>2. LoopBounds'
      BY <2>20, <2>0, ElfFacts DEF WriteFile, TypeOK, PassesAgree, LoopBounds
    <3>3. Cursors'
      BY <2>20, <2>0 DEF WriteFile, PassesAgree, Cursors
    <3>4. UNCHANGED <<iSize, blOutput, iIndex, sect, rank, before, tot, base>>
      BY <2>20 DEF WriteFile
    <3> QED BY <2>0, <3>1, <3>2, <3>3, <3>4, OutputStep
  <2>21. CASE NextLoop
    <3>1. UNCHANGED <<iSize, blOutput, iIndex, sect, rank, before, tot, base>>
      BY <2>21 DEF NextLoop
    <3>2. CASE Early /\ Early'
      <4>1. LoopBounds' /\ NullIsDropped'
        BY <2>0, <2>21, <3>1, <3>2 DEF NextLoop, LeaveLoop, Early, PassesAgree, LoopBounds,
                                   NullIsDropped
      <4> QED BY <2>0, <3>1, <3>2, <4>1, EarlyStep
    <3>3. CASE pc = "process" /\ pc' = "reindex" /\ i' = 0
      <4>1. LoopBounds' /\ NullIsDropped'
        BY <2>0, <3>1, <3>3 DEF PassesAgree, LoopBounds, NullIsDropped
      <4>2. Ranks'
        BY <2>0, <3>1, <3>3 DEF PassesAgree, Ranks, Ranked, Early, Sized
      <4>3. Summed(1) /\ tot = before[1]
        BY <3>3 DEF PassesAgree, Sums, Early
      <4>4. Sums'
        BY <3>1, <3>3, <4>3 DEF Sums, Summed, Early, Sized
      <4>5. RankIsCount' /\ Cursors'
        BY <3>3 DEF RankIsCount, Cursors, Sized
      <4> QED BY <4>1, <4>2, <4>4, <4>5 DEF PassesAgree
    <3>4. CASE pc = "reindex" /\ pc' = "size" /\ i' = 1 /\ i >= Shnum
      <4>0. i = Shnum /\ Shnum > 0
        BY <2>0, <3>4 DEF PassesAgree, LoopBounds
      <4>1. LoopBounds' /\ NullIsDropped'
        BY <2>0, <3>1, <3>4, <4>0 DEF PassesAgree, LoopBounds, NullIsDropped
      <4>2. Ranks'
        BY <2>0, <3>1, <3>4, <4>0 DEF PassesAgree, Ranks, Ranked, Early, Sized
      <4>3. Summed(1) /\ tot = before[1]
        BY <3>4 DEF PassesAgree, Sums, Early
      <4>4. Sums'
        BY <3>1, <3>4, <4>3 DEF Sums, Summed, Early, Sized
      <4>5. RankIsCount'
        <5>1. Ranked(Shnum) /\ ~blOutput[0]
          BY <3>4, <4>0 DEF PassesAgree, Ranks, NullIsDropped
        <5>2. rank[1] = 1
          BY <2>0, <4>0, <5>1 DEF Ranked
        <5>3. before[1].sects = 2
          BY <4>3 DEF Summed, ZeroTotals
        <5> QED BY <3>1, <3>4, <5>2, <5>3 DEF RankIsCount, Sized
      <4>6. Cursors'
        BY <3>4 DEF Cursors
      <4> QED BY <4>1, <4>2, <4>4, <4>5, <4>6 DEF PassesAgree
    <3> QED BY <2>21, <3>2, <3>3, <3>4 DEF NextLoop, LeaveLoop, Early
  <2>22. CASE UNCHANGED vars
    <3>1. UNCHANGED <<pc, i, iSize, blOutput, iIndex, sect, rank, before, tot, base,
                      shdr, str_ofs, reloc_ofs, pReloc, pData>>
      BY <2>22 DEF vars
    <3>2. LoopBounds' /\ NullIsDropped'
      BY <2>0, <3>1 DEF PassesAgree, LoopBounds, NullIsDropped
    <3>3. Ranks'
      BY <2>0, <3>1 DEF PassesAgree, Ranks, Ranked, Early, Sized
    <3>4. Sums'
      <4>1. \A n : Summed(n)' = Summed(n)
        BY <2>0, <3>1 DEF Summed, AddSection, IsProgbits, IsRel
      <4> QED BY <2>0, <3>1, <4>1, BasesKept DEF PassesAgree, Sums, Early, Sized
    <3>5. RankIsCount' /\ Cursors'
      BY <2>0, <3>1 DEF PassesAgree, RankIsCount, Cursors, Sized
    <3> QED BY <3>2, <3>3, <3>4, <3>5 DEF PassesAgree
  <2> QED
    BY <2>1, <2>2, <2>3, <2>4, <2>5, <2>6, <2>7, <2>8, <2>9, <2>10, <2>11,
       <2>12, <2>13, <2>14, <2>15, <2>16, <2>17, <2>18, <2>19, <2>20, <2>21,
       <2>22 DEF Next, Finished
<1> QED BY <1>1, <1>2, TypeCorrect, PTL DEF Spec

(***************************************************************************)
(* No output pass writes outside the part of the buffer sized for it.      *)
(***************************************************************************)
LEMMA AgreeingPassesStay ==
  ASSUME TypeOK, PassesAgree
  PROVE  PassesStayInRegion
<1>1. ASSUME Sized
      PROVE  /\ Shnum > 0 /\ Shnum \in Nat
             /\ Ranked(Shnum) /\ Summed(Shnum) /\ before[Shnum] \in Totals
             /\ tot = RoundTotals(before[Shnum]) /\ base = BasesOf(tot)
             /\ before[Shnum].sects = rank[Shnum] + 1
             /\ EhdrSize + (IF KernelTool THEN 2 ELSE 1) * PhdrSize <= base.alloc
  <2>1. Shnum > 0 /\ Shnum \in Nat
    BY <1>1, ElfFacts DEF PassesAgree, LoopBounds, Sized, TypeOK
  <2>2. Ranked(Shnum) /\ Summed(Shnum)
    BY <1>1 DEF PassesAgree, Ranks, Sums
  <2>3. before[Shnum] \in Totals
    BY <2>1, <2>2 DEF Summed
  <2>4. tot = RoundTotals(before[Shnum]) /\ base = BasesOf(tot)
    BY <1>1 DEF PassesAgree, Sums
  <2>5. before[Shnum].sects = rank[Shnum] + 1
    BY <1>1, <2>1 DEF PassesAgree, RankIsCount
  <2>6. base.alloc = AllocBase
    BY <2>4 DEF BasesOf
  <2> QED BY <2>1, <2>2, <2>3, <2>4, <2>5, <2>6, BasesFacts
<1>2. ASSUME Sized
      PROVE  /\ base.alloc \in Nat /\ base.sh \in Nat /\ base.reloc \in Nat
             /\ base.sh = base.alloc + tot.alloc
             /\ base.reloc = base.sh + tot.sects * ShdrSize
             /\ base.shstr = base.reloc + tot.reloc
             /\ base.size = base.shstr + tot.str
  BY <1>1, <1>2 DEF BasesOf, TypeOK
<1>3. ASSUME Sized
      PROVE  /\ tot.sects = rank[Shnum] + 1 /\ tot.reloc = before[Shnum].reloc
             /\ before[Shnum].alloc <= tot.alloc
             /\ before[Shnum].str + ShstrtabLen + 1 <= tot.str
             /\ tot.sects \in Nat /\ tot.reloc \in Nat /\ tot.alloc \in Nat
             /\ tot.str \in Nat
  <2>1. /\ before[Shnum].alloc \in Nat /\ before[Shnum].str \in Nat
        /\ tot \in Totals
    BY <1>1, <1>3 DEF Totals, TypeOK
  <2>2. /\ tot.sects = before[Shnum].sects /\ tot.reloc = before[Shnum].reloc
        /\ tot.alloc = RoundUp(before[Shnum].alloc, 4)
        /\ tot.str = RoundUp(before[Shnum].str, 4) + ShstrtabLen + 1
    BY <1>1, <1>3 DEF RoundTotals
  <2>3. tot.sects \in Nat /\ tot.reloc \in Nat /\ tot.alloc \in Nat /\ tot.str \in Nat
    BY <2>1 DEF Totals
  <2> QED BY <1>1, <1>3, <2>1, <2>2, <2>3, RoundUpFacts DEF ShstrtabLen
<1>4. ASSUME Sized, NEW s \in 1 .. Shnum - 1, blOutput[s]
      PROVE  /\ rank[s] \in Nat /\ rank[s] + 1 <= rank[Shnum]
             /\ before[s] \in Totals /\ before[s + 1] = AddSection(before[s], s)
             /\ before[s + 1].reloc <= before[Shnum].reloc
             /\ before[s + 1].str <= before[Shnum].str
             /\ s \in Indices
  <2>1. s \in Indices /\ s \in 1 .. Shnum /\ s + 1 \in 1 .. Shnum /\ s \in 0 .. Shnum - 1
    BY <1>1, <1>4 DEF Indices
  <2>2. before[s] \in Totals /\ before[s + 1] = AddSection(before[s], s)
    BY <1>1, <1>4, <2>1 DEF Summed
  <2>3. /\ before[s + 1].sects <= before[Shnum].sects
        /\ before[s + 1].reloc <= before[Shnum].reloc
        /\ before[s + 1].str <= before[Shnum].str
    BY <1>1, <1>4, <2>1 DEF Summed
  <2>4. /\ before[s + 1].sects = rank[s + 1] + 1
        /\ before[Shnum].sects = rank[Shnum] + 1
    BY <1>4, <1>1, <2>1 DEF PassesAgree, RankIsCount
  <2>5. rank[s + 1] = rank[s] + 1 /\ rank[s] \in Nat /\ rank[Shnum] \in Nat
    BY <1>1, <1>4, <2>1 DEF Ranked
  <2> QED BY <2>1, <2>2, <2>3, <2>4, <2>5
<1>5. pc \in {"ehdr", "alloc", "sh", "relocs", "strtab"} =>
        EhdrSize + (IF KernelTool THEN 2 ELSE 1) * PhdrSize <= base.alloc
  BY <1>1 DEF Sized
<1>6. ASSUME pc = "alloc", i < Shnum, blOutput[i], IsProgbits(i)
      PROVE  base.alloc + elf.sec[i].addr + iSize[i] <= base.sh
  <2>1. Sized
    BY <1>6 DEF Sized
  <2>2. i \in 1 .. Shnum - 1 /\ i \in Indices
    BY <1>1, <1>6, <2>1 DEF PassesAgree, LoopBounds, NullIsDropped, TypeOK, Indices
  <2>3. elf.sec[i].addr + iSize[i] <= before[Shnum].alloc
    BY <1>1, <1>6, <2>1, <2>2 DEF Summed
  <2>4. elf.sec[i].addr \in Nat /\ iSize[i] \in Nat /\ before[Shnum].alloc \in Nat
    BY <1>1, <2>1, <2>2, SectionFacts DEF TypeOK, Totals
  <2> QED BY <1>2, <1>3, <2>1, <2>3, <2>4
<1>7. ASSUME pc = "sh", i < Shnum => blOutput[i]
      PROVE  base.sh + (shdr + 1) * ShdrSize <= base.reloc
  <2>1. Sized /\ i \in Nat /\ 1 <= i /\ i <= Shnum /\ shdr = rank[i] /\ shdr \in Nat
    BY <1>7 DEF Sized, PassesAgree, LoopBounds, Cursors, TypeOK
  <2>2. shdr + 1 <= tot.sects
    <3>1. CASE i < Shnum
      <4>1. i \in 1 .. Shnum - 1
        BY <1>1, <2>1, <3>1
      <4>2. rank[i] + 1 <= rank[Shnum] /\ rank[i] \in Nat
        BY <1>4, <1>7, <2>1, <3>1, <4>1
      <4>3. tot.sects = rank[Shnum] + 1 /\ rank[Shnum] \in Nat
        BY <1>1, <1>3, <2>1 DEF Ranked
      <4> QED BY <2>1, <4>2, <4>3
    <3>2. CASE i = Shnum
      BY <1>3, <2>1, <3>2
    <3> QED BY <1>1, <2>1, <3>1, <3>2
  <2> QED BY <1>2, <1>3, <2>1, <2>2 DEF ShdrSize
<1>8. ASSUME pc = "relocs", i < Shnum, blOutput[i], IsRel(i)
      PROVE  pReloc + iSize[i] <= base.shstr
  <2>1. Sized
    BY <1>8 DEF Sized
  <2>2. i \in 1 .. Shnum - 1
    BY <1>1, <1>8, <2>1 DEF PassesAgree, LoopBounds, NullIsDropped, TypeOK
  <2>3. pReloc = base.reloc + before[i].reloc
    BY <1>8, <2>2 DEF PassesAgree, Cursors
  <2>4. before[i + 1].reloc = before[i].reloc + iSize[i]
    <3>1. before[i + 1] = AddSection(before[i], i)
      BY <1>4, <1>8, <2>1, <2>2
    <3> QED BY <1>8, <3>1 DEF AddSection
  <2>5. before[i].reloc \in Nat /\ iSize[i] \in Nat
    BY <1>4, <1>8, <2>1, <2>2 DEF Totals, TypeOK
  <2>6. before[i + 1].reloc <= tot.reloc
    BY <1>3, <1>4, <1>8, <2>1, <2>2
  <2> QED BY <1>2, <1>3, <2>1, <2>3, <2>4, <2>5, <2>6
<1>9. ASSUME pc = "strtab", i < Shnum, blOutput[i]
      PROVE  base.shstr + pData + NameLen[elf.sec[i].name] + 1 <= base.size
  <2>1. Sized /\ pData = before[i].str /\ i \in 1 .. Shnum - 1
    BY <1>1, <1>9 DEF Sized, PassesAgree, LoopBounds, Cursors, TypeOK
  <2>2. before[i + 1].str = before[i].str + NameLen[elf.sec[i].name] + 1
    <3>1. before[i + 1] = AddSection(before[i], i)
      BY <1>4, <1>9, <2>1
    <3> QED BY <3>1 DEF AddSection
  <2>3. before[i + 1].str <= before[Shnum].str
    BY <1>4, <1>9, <2>1
  <2>4. before[i].str \in Nat /\ NameLen[elf.sec[i].name] \in Nat /\ before[Shnum].str \in Nat
    BY <1>1, <1>4, <1>9, <2>1, SectionFacts DEF Totals, TypeOK
  <2>5. base.shstr \in Nat
    BY DEF TypeOK
  <2> QED BY <1>2, <1>3, <2>1, <2>2, <2>3, <2>4, <2>5 DEF ShstrtabLen
<1>10. ASSUME pc = "strtab", i >= Shnum
       PROVE  base.shstr + pData + ShstrtabLen + 1 <= base.size
  <2>1. Sized /\ i = Shnum /\ pData = before[Shnum].str
    BY <1>1, <1>10 DEF Sized, PassesAgree, LoopBounds, Cursors, TypeOK
  <2>2. base.shstr \in Nat /\ pData \in Nat
    BY DEF TypeOK
  <2> QED BY <1>2, <1>3, <2>1, <2>2 DEF ShstrtabLen
<1> QED BY <1>5, <1>6, <1>7, <1>8, <1>9, <1>10 DEF PassesStayInRegion

THEOREM NoWriteOutsideRegion == Spec => []PassesStayInRegion
BY TypeCorrect, PassesAgreeAlways, AgreeingPassesStay, PTL

(***************************************************************************)
(* The header of every section is written at the index that the numbering  *)
(* pass gave the section, and the one of .shstrtab at e_shstrndx: sh_info  *)
(* and e_shstrndx name the headers they are meant to name.                 *)
(***************************************************************************)
LEMMA AgreeingPassesIndex ==
  ASSUME TypeOK, PassesAgree
  PROVE  HeaderAtItsIndex
<1>1. ASSUME pc = "sh", i < Shnum, blOutput[i]
      PROVE  iIndex[i] = shdr
  <2>1. Ranked(Shnum) /\ shdr = rank[i]
    BY <1>1 DEF PassesAgree, Ranks, Cursors, Sized
  <2>2. i \in 0 .. Shnum - 1
    BY <1>1, ElfFacts DEF TypeOK
  <2> QED BY <1>1, <2>1, <2>2 DEF Ranked
<1>2. ASSUME pc = "sh", i >= Shnum
      PROVE  shdr = tot.sects - 1
  <2>1. i = Shnum /\ Shnum > 0 /\ Shnum \in Nat
    BY <1>2, ElfFacts DEF PassesAgree, LoopBounds, TypeOK
  <2>2. tot.sects = before[Shnum].sects /\ before[Shnum].sects = rank[Shnum] + 1
    BY <1>2, <2>1 DEF PassesAgree, Sums, RankIsCount, Sized, RoundTotals
  <2>3. shdr = rank[Shnum] /\ shdr \in Nat
    BY <1>2, <2>1 DEF PassesAgree, Cursors, TypeOK
  <2> QED BY <2>2, <2>3
<1> QED BY <1>1, <1>2 DEF HeaderAtItsIndex

THEOREM HeadersWhereNumbered == Spec => []HeaderAtItsIndex
BY TypeCorrect, PassesAgreeAlways, AgreeingPassesIndex, PTL
=============================================================================
