------------------------------- MODULE PrxGen -------------------------------
(***************************************************************************)
(* psp-prxgen and psp-kprxgen: strip a relocatable ELF into a PRX.         *)
(*                                                                         *)
(* The tool reads the section headers, marks the sections to output, drops *)
(* the weak relocations, renumbers the sections, sizes the output file in  *)
(* one pass over the sections and then writes it in four further passes,   *)
(* each advancing its own cursor.  Nothing in the code compares a cursor   *)
(* with the size the first pass computed: the passes must agree.           *)
(*                                                                         *)
(* One step of the model is one iteration of one of the loops.  The two    *)
(* programs are copies of each other; KernelTool tells which one runs:     *)
(* psp-kprxgen.c or psp-prxgen.c.                                          *)
(***************************************************************************)
EXTENDS PrxElf

VARIABLES
  elf,        (* the input file: section headers and contents              *)
  pc,         (* the loop or the step being executed                       *)
  i,          (* the loop counter of that loop                             *)
  iSize,      (* g_elfsections[].iSize                                     *)
  rels,       (* g_elfsections[].pData, of a relocation section            *)
  pRef,       (* g_elfsections[].pRef, as an index                         *)
  blOutput,   (* g_elfsections[].blOutput                                  *)
  iIndex,     (* g_elfsections[].iIndex                                    *)
  g_modinfo,  (* index of the module info section, or None                 *)
  found_rel,  (* some relocation section has an allocated target           *)
  load_addr,  (* least address of an allocated section (None: 0xFFFFFFFF)  *)
  kept,       (* the relocations remove_weak_relocs has copied             *)
  j,          (* relocations remove_weak_relocs has looked at              *)
  sect,       (* the next index reindex_sections gives                     *)
  tot,        (* totals of calculate_outsize                               *)
  base,       (* base offsets of calculate_outsize                         *)
  shdr, reloc_ofs, str_ofs,            (* cursors of output_sh             *)
  pReloc,                              (* cursor of output_relocs          *)
  pData,                               (* cursor of output_shstrtab        *)
  ehdr, phdrs, image, shdrs, relocs, strs,   (* the output buffer, by part *)
  outfile,    (* the output file: untouched, short or whole                *)
  rank,       (* history: rank[s], value of sect when section s is reached *)
  before      (* history: before[s], totals when section s is reached      *)

sectionVars == <<iSize, rels, pRef, blOutput, iIndex>>
loadVars    == <<g_modinfo, found_rel, load_addr>>
relocVars   == <<kept, j>>
indexVars   == <<sect, rank>>
sizeVars    == <<tot, base, before>>
cursorVars  == <<shdr, reloc_ofs, str_ofs, pReloc, pData>>
bufferVars  == <<ehdr, phdrs, image, shdrs, relocs, strs>>
outputVars  == <<cursorVars, bufferVars, outfile>>

vars == <<elf, pc, i, sectionVars, loadVars, relocVars, indexVars, sizeVars,
          outputVars>>

KernelTool == elf.tool = "kprxgen"
Shnum   == elf.shnum
Indices == 0 .. Shnum - 1

Max2(a, b)    == IF a > b THEN a ELSE b
RoundUp(n, a) == ((n + a - 1) \div a) * a

IsRel(s)      == elf.sec[s].type \in RelTypes
IsProgbits(s) == elf.sec[s].type = "PROGBITS"

(***************************************************************************)
(* The index reindex_sections gives the first section kept: 0 is the null  *)
(* header of the output.                                                   *)
(***************************************************************************)
FirstIndexNoNull == 0   (* mutant: the null header forgotten *)
FirstIndex == 1

(***************************************************************************)
(* g_elfsections after the memset, the globals at program start, and an    *)
(* empty (zeroed) output.                                                  *)
(***************************************************************************)
ZeroTotals == [sects |-> 2, alloc |-> 0, mem |-> 0, reloc |-> 0, str |-> 1]
ZeroBases  == [ph |-> 0, alloc |-> 0, sh |-> 0, reloc |-> 0, shstr |-> 0,
               size |-> 0]

Init ==
  /\ elf \in ElfFiles
  /\ pc = "validate"
  /\ i = 0
  /\ iSize    = [s \in Indices |-> 0]
  /\ rels     = [s \in Indices |-> <<>>]
  /\ pRef     = [s \in Indices |-> None]
  /\ blOutput = [s \in Indices |-> FALSE]
  /\ iIndex   = [s \in Indices |-> 0]
  /\ g_modinfo = None /\ found_rel = FALSE /\ load_addr = None
  /\ kept = <<>> /\ j = 0
  /\ sect = FirstIndex
  /\ tot = ZeroTotals
  /\ base = ZeroBases
  /\ shdr = 1 /\ reloc_ofs = 0 /\ str_ofs = 1 /\ pReloc = 0 /\ pData = 1
  /\ ehdr = None /\ phdrs = <<>> /\ image = <<>> /\ shdrs = <<>>
  /\ relocs = <<>> /\ strs = {}
  /\ outfile = "untouched"
  /\ rank = [s \in 0 .. 0 |-> 1]
  /\ before = [s \in 1 .. 1 |-> ZeroTotals]

(***************************************************************************)
(* Leaving a loop: the counter has reached the number of sections.         *)
(***************************************************************************)
InLoop(stage) == pc = stage /\ i < Shnum
LeaveLoop(stage, next, first) ==
  /\ pc = stage
  /\ i >= Shnum
  /\ pc' = next
  /\ i' = first

(***************************************************************************)
(* load_file and validate_header, then the test on the number of sections. *)
(***************************************************************************)
ValidateHeader ==
  /\ pc = "validate"
  /\ pc' = IF elf.valid /\ Shnum > 0 THEN "headers" ELSE "failed"
  /\ UNCHANGED <<elf, i, sectionVars, loadVars, relocVars, indexVars, sizeVars, outputVars>>

(***************************************************************************)
(* load_sections.  The two programs differ in the loop that links a        *)
(* relocation section to its target: psp-kprxgen does it while it is still *)
(* reading headers, when the flags of a later section are still zero.      *)
(***************************************************************************)
AllocAsSeen(t) == elf.sec[t].alloc /\ (pc = "headers" => t <= i)
Links(s) == IsRel(s) /\ AllocAsSeen(elf.sec[s].info)

LoadHeader ==
  /\ InLoop("headers")
  /\ LET s   == elf.sec[i]
         ref == KernelTool /\ Links(i)
     IN  /\ iSize'    = [iSize EXCEPT ![i] = s.size]
         /\ rels'     = [rels EXCEPT ![i] = s.rels]
         /\ pRef'     = [pRef EXCEPT ![i] = IF ref THEN s.info ELSE @]
         /\ blOutput' = [blOutput EXCEPT ![i] = s.alloc \/ ref]
         /\ iIndex'   = [iIndex EXCEPT ![i] = i]
         /\ load_addr' = IF s.alloc /\ (load_addr = None \/ s.addr < load_addr)
                         THEN s.addr ELSE load_addr
         /\ found_rel' = (found_rel \/ ref)
  /\ i' = i + 1
  /\ UNCHANGED <<elf, pc, g_modinfo, relocVars, indexVars, sizeVars, outputVars>>

LinkSection ==
  /\ InLoop("links")
  /\ LET name == elf.sec[i].name
         ref  == ~KernelTool /\ Links(i)
     IN  /\ pRef' = [pRef EXCEPT ![i] = IF ref THEN elf.sec[i].info ELSE @]
         /\ blOutput' = [blOutput EXCEPT ![i] = (@ \/ ref) /\ name # RemoveRelName]
         /\ found_rel' = (found_rel \/ ref)
         /\ g_modinfo' = IF name = ModuleInfoName THEN i ELSE g_modinfo
  /\ i' = i + 1
  /\ UNCHANGED <<elf, pc, iSize, rels, iIndex, load_addr, relocVars, indexVars, sizeVars, outputVars>>

CheckLoaded ==
  /\ pc = "check"
  /\ pc' = IF g_modinfo # None /\ found_rel /\ load_addr = 0
           THEN "process" ELSE "failed"
  /\ i' = 0
  /\ UNCHANGED <<elf, sectionVars, loadVars, relocVars, indexVars, sizeVars, outputVars>>

(***************************************************************************)
(* process_relocs and remove_weak_relocs: only SHT_REL sections linked to  *)
(* a symbol table are filtered, one relocation per step.                   *)
(***************************************************************************)
Filtered(s) ==
  /\ blOutput[s]
  /\ elf.sec[s].type = "REL"
  /\ elf.sec[s].link < Shnum
  /\ elf.sec[elf.sec[s].link].type = "SYMTAB"

Weak(r, syms) ==
  \/ r.sym >= Len(syms)
  \/ ~syms[r.sym + 1]
  \/ r.kind = "PC16"
  \/ r.kind = "GPREL16" /\ ~KernelTool

SkipSection ==
  /\ InLoop("process")
  /\ ~Filtered(i)
  /\ i' = i + 1
  /\ UNCHANGED <<elf, pc, sectionVars, loadVars, relocVars, indexVars, sizeVars, outputVars>>

FilterReloc ==
  /\ InLoop("process")
  /\ Filtered(i)
  /\ j < Len(rels[i])
  /\ LET r == rels[i][j + 1]
     IN  kept' = IF Weak(r, elf.sec[elf.sec[i].link].syms)
                 THEN kept ELSE Append(kept, r)
  /\ j' = j + 1
  /\ UNCHANGED <<elf, pc, i, sectionVars, loadVars, indexVars, sizeVars, outputVars>>

ReplaceRelocsLast ==   (* mutant: the size of the last index, not of the count *)
  /\ InLoop("process")
  /\ Filtered(i)
  /\ j = Len(rels[i])
  /\ IF Len(kept) < j
     THEN /\ iSize' = [iSize EXCEPT ![i] = RelSize * (Len(kept) - 1)]
          /\ rels' = IF kept = <<>> THEN rels ELSE [rels EXCEPT ![i] = kept]
          /\ blOutput' = [blOutput EXCEPT ![i] = (kept # <<>>)]
     ELSE UNCHANGED <<iSize, rels, blOutput>>
  /\ kept' = <<>>
  /\ j' = 0
  /\ i' = i + 1
  /\ UNCHANGED <<elf, pc, pRef, iIndex, loadVars, indexVars, sizeVars, outputVars>>

ReplaceRelocs ==
  /\ InLoop("process")
  /\ Filtered(i)
  /\ j = Len(rels[i])
  /\ IF Len(kept) < j
     THEN /\ iSize' = [iSize EXCEPT ![i] = RelSize * Len(kept)]
          /\ rels' = IF kept = <<>> THEN rels ELSE [rels EXCEPT ![i] = kept]
          /\ blOutput' = [blOutput EXCEPT ![i] = (kept # <<>>)]
     ELSE UNCHANGED <<iSize, rels, blOutput>>
  /\ kept' = <<>>
  /\ j' = 0
  /\ i' = i + 1
  /\ UNCHANGED <<elf, pc, pRef, iIndex, loadVars, indexVars, sizeVars, outputVars>>

(***************************************************************************)
(* reindex_sections                                                        *)
(***************************************************************************)
Reindex ==
  /\ InLoop("reindex")
  /\ iIndex' = IF blOutput[i] THEN [iIndex EXCEPT ![i] = sect] ELSE iIndex
  /\ sect' = IF blOutput[i] THEN sect + 1 ELSE sect
  /\ rank' = [s \in 0 .. i + 1 |-> IF s = i + 1 THEN sect' ELSE rank[s]]
  /\ i' = i + 1
  /\ UNCHANGED <<elf, pc, iSize, rels, pRef, blOutput, loadVars, relocVars, sizeVars, outputVars>>

(***************************************************************************)
(* calculate_outsize: one section, then the rounding and the base offsets. *)
(***************************************************************************)
AddSectionNoNul(t, s) ==   (* mutant: strlen without the NUL *)
  LET top == elf.sec[s].addr + iSize[s]
  IN  [sects |-> t.sects + 1,
       alloc |-> IF IsProgbits(s) THEN Max2(top, t.alloc) ELSE t.alloc,
       mem   |-> IF IsRel(s) THEN t.mem ELSE Max2(top, t.mem),
       reloc |-> IF IsRel(s) THEN t.reloc + iSize[s] ELSE t.reloc,
       str   |-> t.str + NameLen[elf.sec[s].name]]

AddSection(t, s) ==
  LET top == elf.sec[s].addr + iSize[s]
  IN  [sects |-> t.sects + 1,
       alloc |-> IF IsProgbits(s) THEN Max2(top, t.alloc) ELSE t.alloc,
       mem   |-> IF IsRel(s) THEN t.mem ELSE Max2(top, t.mem),
       reloc |-> IF IsRel(s) THEN t.reloc + iSize[s] ELSE t.reloc,
       str   |-> t.str + NameLen[elf.sec[s].name] + 1]

RoundTotals(t) ==
  [sects |-> t.sects, alloc |-> RoundUp(t.alloc, 4), mem |-> RoundUp(t.mem, 4),
   reloc |-> t.reloc, str |-> RoundUp(t.str, 4) + ShstrtabLen + 1]

(* psp-prxgen leaves room for an Elf32_Shdr where its program header goes. *)
AllocBase == IF KernelTool THEN RoundUp(EhdrSize + 2 * PhdrSize, 64)
                           ELSE RoundUp(EhdrSize + ShdrSize, 16)

BasesOf(t) ==
  LET sh    == AllocBase + t.alloc
      reloc == sh + t.sects * ShdrSize
      shstr == reloc + t.reloc
  IN  [ph |-> EhdrSize, alloc |-> AllocBase, sh |-> sh, reloc |-> reloc,
       shstr |-> shstr, size |-> shstr + t.str]

SizeSection ==
  /\ InLoop("size")
  /\ tot' = IF blOutput[i] THEN AddSection(tot, i) ELSE tot
  /\ before' = [s \in 1 .. i + 1 |-> IF s = i + 1 THEN tot' ELSE before[s]]
  /\ i' = i + 1
  /\ UNCHANGED <<elf, pc, sectionVars, loadVars, relocVars, indexVars, base, outputVars>>

FinishSizing ==
  /\ LeaveLoop("size", "ehdr", 0)
  /\ tot' = RoundTotals(tot)
  /\ base' = BasesOf(RoundTotals(tot))
  /\ UNCHANGED <<elf, sectionVars, loadVars, relocVars, indexVars, before, outputVars>>

(***************************************************************************)
(* output_header and output_ph, in the zeroed buffer.  Bit 31 of p_paddr   *)
(* is the field kernel.                                                    *)
(***************************************************************************)
LoadPhdr == [type |-> "LOAD", offset |-> base.alloc,
             kernel |-> elf.kernel,
             paddr |-> elf.sec[g_modinfo].addr + base.alloc,
             filesz |-> tot.alloc, memsz |-> tot.mem]
RelocPhdrAtSh == [type |-> "PRXRELOC", offset |-> base.sh,   (* mutant *)
                  kernel |-> FALSE, paddr |-> 0,
                  filesz |-> tot.reloc, memsz |-> 0]
RelocPhdr == [type |-> "PRXRELOC", offset |-> base.reloc,
              kernel |-> FALSE, paddr |-> 0,
              filesz |-> tot.reloc, memsz |-> 0]

OutputHeaders ==
  /\ pc = "ehdr"
  /\ ehdr'  = [phoff |-> base.ph, phnum |-> IF KernelTool THEN 2 ELSE 1,
               shoff |-> base.sh, shnum |-> tot.sects, shstrndx |-> tot.sects - 1]
  /\ phdrs' = IF KernelTool THEN <<LoadPhdr, RelocPhdr>> ELSE <<LoadPhdr>>
  /\ image' = [a \in 0 .. tot.alloc - 1 |-> None]
  /\ pc' = "alloc"
  /\ i' = 0
  /\ UNCHANGED <<elf, sectionVars, loadVars, relocVars, indexVars, sizeVars,
                 cursorVars, shdrs, relocs, strs, outfile>>

(***************************************************************************)
(* output_alloc                                                            *)
(***************************************************************************)
OutputAlloc ==
  /\ InLoop("alloc")
  /\ image' = IF blOutput[i] /\ IsProgbits(i)
              THEN [a \in DOMAIN image |->
                      LET k == a - elf.sec[i].addr
                      IN  IF k \in 0 .. iSize[i] - 1 THEN <<i, k>> ELSE image[a]]
              ELSE image
  /\ i' = i + 1
  /\ UNCHANGED <<elf, pc, sectionVars, loadVars, relocVars, indexVars, sizeVars,
                 cursorVars, ehdr, phdrs, shdrs, relocs, strs, outfile>>

(***************************************************************************)
(* output_sh: a header per section kept, then the one of .shstrtab.        *)
(***************************************************************************)
StartHeaders ==
  /\ LeaveLoop("alloc", "sh", 1)
  /\ shdr' = 1
  /\ reloc_ofs' = base.reloc
  /\ str_ofs' = 1
  /\ UNCHANGED <<elf, sectionVars, loadVars, relocVars, indexVars, sizeVars,
                 pReloc, pData, bufferVars, outfile>>

ShdrOf(s) ==
  [name |-> str_ofs, size |-> iSize[s], alloc |-> elf.sec[s].alloc,
   addr |-> elf.sec[s].addr,
   type |-> IF IsRel(s) THEN "PRXRELOC" ELSE elf.sec[s].type,
   info |-> IF IsRel(s) /\ pRef[s] # None THEN iIndex[pRef[s]] ELSE 0,
   offset |-> IF IsRel(s) THEN reloc_ofs
              ELSE IF IsProgbits(s) THEN base.alloc + elf.sec[s].addr
              ELSE base.alloc + tot.alloc]

OutputShdr ==
  /\ InLoop("sh")
  /\ IF blOutput[i]
     THEN /\ shdrs' = Append(shdrs, ShdrOf(i))
          /\ shdr' = shdr + 1
          /\ str_ofs' = str_ofs + NameLen[elf.sec[i].name] + 1
          /\ reloc_ofs' = IF IsRel(i) THEN reloc_ofs + iSize[i] ELSE reloc_ofs
     ELSE UNCHANGED <<shdrs, shdr, str_ofs, reloc_ofs>>
  /\ i' = i + 1
  /\ UNCHANGED <<elf, pc, sectionVars, loadVars, relocVars, indexVars, sizeVars,
                 pReloc, pData, ehdr, phdrs, image, relocs, strs, outfile>>

OutputShstrShdr ==
  /\ LeaveLoop("sh", "relocs", 0)
  /\ shdrs' = Append(shdrs,
       [name |-> str_ofs, size |-> tot.str, alloc |-> FALSE, addr |-> 0,
        type |-> "STRTAB", info |-> 0, offset |-> base.shstr])
  /\ pReloc' = base.reloc
  /\ UNCHANGED <<elf, sectionVars, loadVars, relocVars, indexVars, sizeVars,
                 shdr, reloc_ofs, str_ofs, pData,
                 ehdr, phdrs, image, relocs, strs, outfile>>

(***************************************************************************)
(* output_relocs: the relocations of the section, their symbols cleared.   *)
(***************************************************************************)
ClearSym(rs) == [k \in 1 .. Len(rs) |-> [at |-> rs[k].at, sym |-> 0, kind |-> rs[k].kind]]

OutputOnlyRel ==   (* mutant: SHT_PRXRELOC sections forgotten *)
  /\ InLoop("relocs")
  /\ IF blOutput[i] /\ elf.sec[i].type = "REL"
     THEN /\ relocs' = relocs \o ClearSym(rels[i])
          /\ pReloc' = pReloc + iSize[i]
     ELSE UNCHANGED <<relocs, pReloc>>
  /\ i' = i + 1
  /\ UNCHANGED <<elf, pc, sectionVars, loadVars, relocVars, indexVars, sizeVars,
                 shdr, reloc_ofs, str_ofs, pData,
                 ehdr, phdrs, image, shdrs, strs, outfile>>

OutputRelocs ==
  /\ InLoop("relocs")
  /\ IF blOutput[i] /\ IsRel(i)
     THEN /\ relocs' = relocs \o ClearSym(rels[i])
          /\ pReloc' = pReloc + iSize[i]
     ELSE UNCHANGED <<relocs, pReloc>>
  /\ i' = i + 1
  /\ UNCHANGED <<elf, pc, sectionVars, loadVars, relocVars, indexVars, sizeVars,
                 shdr, reloc_ofs, str_ofs, pData,
                 ehdr, phdrs, image, shdrs, strs, outfile>>

(***************************************************************************)
(* output_shstrtab: the names, then ".shstrtab" (the name None).           *)
(***************************************************************************)
StartStrings ==
  /\ LeaveLoop("relocs", "strtab", 1)
  /\ pData' = 1
  /\ UNCHANGED <<elf, sectionVars, loadVars, relocVars, indexVars, sizeVars,
                 shdr, reloc_ofs, str_ofs, pReloc, bufferVars, outfile>>

OutputString ==
  /\ InLoop("strtab")
  /\ IF blOutput[i]
     THEN /\ strs' = strs \cup {<<pData, elf.sec[i].name>>}
          /\ pData' = pData + NameLen[elf.sec[i].name] + 1
     ELSE UNCHANGED <<strs, pData>>
  /\ i' = i + 1
  /\ UNCHANGED <<elf, pc, sectionVars, loadVars, relocVars, indexVars, sizeVars,
                 shdr, reloc_ofs, str_ofs, pReloc,
                 ehdr, phdrs, image, shdrs, relocs, outfile>>

OutputShstrtabName ==
  /\ LeaveLoop("strtab", "write", 0)
  /\ strs' = strs \cup {<<pData, None>>}
  /\ UNCHANGED <<elf, sectionVars, loadVars, relocVars, indexVars, sizeVars,
                 cursorVars, ehdr, phdrs, image, shdrs, relocs, outfile>>

(***************************************************************************)
(* The end of output_prx.  The results of fopen, fwrite and fclose do not  *)
(* reach the exit status: the program returns 0 whatever happened here.    *)
(***************************************************************************)
WriteFile ==
  /\ pc = "write"
  /\ outfile' \in {"untouched", "short", "whole"}
  /\ pc' = "done"
  /\ UNCHANGED <<elf, i, sectionVars, loadVars, relocVars, indexVars, sizeVars,
                 cursorVars, bufferVars>>

(***************************************************************************)
(* The loops without an epilogue.                                          *)
(***************************************************************************)
NextLoop ==
  /\ \/ LeaveLoop("headers", "links", 0)
     \/ LeaveLoop("links", "check", 0)
     \/ LeaveLoop("process", "reindex", 0)
     \/ LeaveLoop("reindex", "size", 1)
  /\ UNCHANGED <<elf, sectionVars, loadVars, relocVars, indexVars, sizeVars, outputVars>>

Finished == pc \in {"done", "failed"} /\ UNCHANGED vars

Next ==
  \/ ValidateHeader \/ LoadHeader \/ LinkSection \/ CheckLoaded
  \/ SkipSection \/ FilterReloc \/ ReplaceRelocs
  \/ Reindex \/ SizeSection \/ FinishSizing
  \/ OutputHeaders \/ OutputAlloc \/ StartHeaders \/ OutputShdr
  \/ OutputShstrShdr \/ OutputRelocs \/ StartStrings \/ OutputString
  \/ OutputShstrtabName \/ WriteFile \/ NextLoop \/ Finished

Spec == Init /\ [][Next]_vars

(* The program is sequential and runs until it returns from main.          *)
FairSpec == Spec /\ WF_vars(Next)

(***************************************************************************)
(* Type invariant.                                                         *)
(***************************************************************************)
Stages == {"validate", "headers", "links", "check", "process", "reindex",
           "size", "ehdr", "alloc", "sh", "relocs", "strtab", "write",
           "done", "failed"}
Totals == [sects : Nat, alloc : Nat, mem : Nat, reloc : Nat, str : Nat]

TypeOK ==
  /\ elf \in ElfFiles
  /\ pc \in Stages
  /\ i \in Nat
  /\ iSize    \in [Indices -> Nat]
  /\ rels     \in [Indices -> Seq(Reloc)]
  /\ pRef     \in [Indices -> Nat \cup {None}]
  /\ blOutput \in [Indices -> BOOLEAN]
  /\ iIndex   \in [Indices -> Nat]
  /\ g_modinfo \in Indices \cup {None}
  /\ found_rel \in BOOLEAN
  /\ load_addr \in Nat \cup {None}
  /\ kept \in Seq(Reloc)
  /\ j \in Nat
  /\ sect \in Nat
  /\ tot \in Totals
  /\ base \in [ph : Nat, alloc : Nat, sh : Nat, reloc : Nat, shstr : Nat, size : Nat]
  /\ shdr \in Nat /\ reloc_ofs \in Nat /\ str_ofs \in Nat
  /\ pReloc \in Nat /\ pData \in Nat
  /\ outfile \in {"untouched", "short", "whole"}

(***************************************************************************)
(* No pass writes outside the part of the buffer that calculate_outsize    *)
(* reserved for it: the write the next iteration performs at its cursor    *)
(* ends inside that part.  The code has no check of its own (memcpy and    *)
(* strcpy at a running pointer).                                           *)
(***************************************************************************)
PassesStayInRegion ==
  /\ pc \in {"ehdr", "alloc", "sh", "relocs", "strtab"} =>
       EhdrSize + (IF KernelTool THEN 2 ELSE 1) * PhdrSize <= base.alloc
  /\ pc = "alloc" /\ i < Shnum /\ blOutput[i] /\ IsProgbits(i) =>
       base.alloc + elf.sec[i].addr + iSize[i] <= base.sh
  /\ pc = "sh" /\ (i < Shnum => blOutput[i]) =>
       base.sh + (shdr + 1) * ShdrSize <= base.reloc
  /\ pc = "relocs" /\ i < Shnum /\ blOutput[i] /\ IsRel(i) =>
       pReloc + iSize[i] <= base.shstr
  /\ pc = "strtab" /\ i < Shnum /\ blOutput[i] =>
       base.shstr + pData + NameLen[elf.sec[i].name] + 1 <= base.size
  /\ pc = "strtab" /\ i >= Shnum =>
       base.shstr + pData + ShstrtabLen + 1 <= base.size

(***************************************************************************)
(* The header of a section is written at the index reindex_sections gave   *)
(* it, so the sh_info of a relocation section, which is that index, names  *)
(* the header of its target.  The two passes number the sections           *)
(* independently, one from section 0 and the other from section 1; the     *)
(* header of .shstrtab comes last, at e_shstrndx.                          *)
(***************************************************************************)
HeaderAtItsIndex ==
  /\ pc = "sh" /\ i < Shnum /\ blOutput[i] => iIndex[i] = shdr
  /\ pc = "sh" /\ i >= Shnum => shdr = tot.sects - 1

(***************************************************************************)
(* Why the passes agree.  The numbering pass and the sizing pass leave in  *)
(* rank and before what they had counted when they reached each section;   *)
(* the cursors of the output passes are those counts again, so each pass   *)
(* ends where the sizing pass did.                                         *)
(***************************************************************************)
Sized == pc \in {"ehdr", "alloc", "sh", "relocs", "strtab", "write", "done"}
Early == pc \in {"validate", "headers", "links", "check", "process", "failed"}

LoopBounds ==
  /\ pc \notin {"validate", "failed"} => Shnum > 0
  /\ pc \in {"reindex", "alloc", "relocs"} => i <= Shnum
  /\ pc \in {"size", "sh", "strtab"} => 1 <= i /\ i <= Shnum

NullIsDropped == Shnum > 0 => ~blOutput[0]

Ranked(n) ==
  /\ rank \in [0 .. n -> Nat]
  /\ rank[0] = 1
  /\ sect = rank[n]
  /\ \A s \in 0 .. n - 1 :
       /\ rank[s + 1] = IF blOutput[s] THEN rank[s] + 1 ELSE rank[s]
       /\ blOutput[s] => iIndex[s] = rank[s]

Ranks ==
  /\ Early => Ranked(0)
  /\ pc = "reindex" => Ranked(i)
  /\ pc = "size" \/ Sized => Ranked(Shnum)

Summed(n) ==
  /\ before \in [1 .. n -> Totals]
  /\ before[1] = ZeroTotals
  /\ \A s \in 1 .. n - 1 :
       /\ before[s + 1] = IF blOutput[s] THEN AddSection(before[s], s) ELSE before[s]
       /\ blOutput[s] /\ IsProgbits(s) => elf.sec[s].addr + iSize[s] <= before[n].alloc
  /\ \A s \in 1 .. n :
       /\ before[s].sects <= before[n].sects
       /\ before[s].reloc <= before[n].reloc
       /\ before[s].str <= before[n].str

Sums ==
  /\ Early \/ pc = "reindex" => Summed(1) /\ tot = before[1]
  /\ pc = "size" => Summed(i) /\ tot = before[i]
  /\ Sized => Summed(Shnum) /\ tot = RoundTotals(before[Shnum]) /\ base = BasesOf(tot)

RankIsCount ==
  /\ pc = "size" => \A s \in 1 .. i : before[s].sects = rank[s] + 1
  /\ Sized => \A s \in 1 .. Shnum : before[s].sects = rank[s] + 1

Cursors ==
  /\ pc = "sh" => /\ shdr = rank[i]
                  /\ str_ofs = before[i].str
                  /\ reloc_ofs = base.reloc + before[i].reloc
  /\ pc = "relocs" => pReloc = base.reloc + (IF i = 0 THEN 0 ELSE before[i].reloc)
  /\ pc = "strtab" => pData = before[i].str

PassesAgree ==
  LoopBounds /\ NullIsDropped /\ Ranks /\ Sums /\ RankIsCount /\ Cursors

(***************************************************************************)
(* README.md says psp-kprxgen is "equivalent to `prxgen`": like psp-prxgen *)
(* it should link every relocation section whose target is allocated.      *)
(***************************************************************************)
LinksEveryReloc ==
  pc = "check" => \A s \in Indices :
    IsRel(s) /\ elf.sec[elf.sec[s].info].alloc => pRef[s] = elf.sec[s].info
=============================================================================
