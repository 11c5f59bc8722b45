--------------------------- MODULE PrxRefinement ---------------------------
(***************************************************************************)
(* psp-prxgen implements PrxContract.  The output buffer is read back the  *)
(* way a loader reads it: from the ELF header to the section headers, from *)
(* each header to its name, its target and its bytes.                      *)
(***************************************************************************)
EXTENDS PrxGen

(* The name at an offset of the string table; None when there is none.     *)
NameAt(offset) ==
  LET found == {n \in Names : <<offset, n>> \in strs}
  IN  IF found = {} THEN None ELSE CHOOSE n \in found : TRUE

(* The headers follow the null header: shdrs[k] has index k.               *)
ReadTarget(h) ==
  IF h.info \in DOMAIN shdrs THEN NameAt(shdrs[h.info].name) ELSE None

(* psp-kprxgen: the relocations are loaded through their segment.          *)
InRelocSegment(offset, size) ==
  KernelTool =>
    /\ phdrs[2].offset <= offset
    /\ offset + size <= phdrs[2].offset + phdrs[2].filesz

ReadRelocs(offset, size) ==
  LET first == (offset - base.reloc) \div RelSize
  IN  IF ~InRelocSegment(offset, size) THEN <<>> ELSE
      [k \in 1 .. size \div RelSize |->
         [at |-> relocs[first + k].at, kind |-> relocs[first + k].kind]]

ReadData(h) ==
  CASE h.type = "PROGBITS" ->
         [k \in 1 .. h.size |-> image[h.offset - base.alloc + k - 1]]
    [] h.type = "PRXRELOC" -> ReadRelocs(h.offset, h.size)
    [] OTHER -> <<>>

ReadSection(h) ==
  [name |-> NameAt(h.name), type |-> h.type, alloc |-> h.alloc,
   addr |-> h.addr, target |-> ReadTarget(h), data |-> ReadData(h)]

ReadPrx ==
  [secs   |-> [k \in 1 .. ehdr.shstrndx - 1 |-> ReadSection(shdrs[k])],
   module |-> image[phdrs[1].paddr - phdrs[1].offset],
   kernel |-> phdrs[1].kernel]

Verdict == CASE pc = "failed" -> "rejected"
             [] pc \in {"write", "done"} -> "stripped"
             [] OTHER -> "pending"

Contract == INSTANCE PrxContract WITH
  verdict <- Verdict,
  content <- IF Verdict = "stripped" THEN ReadPrx ELSE None

(***************************************************************************)
(* The PRX built by the passes reads back as the promised one: every       *)
(* section that is not stripped, in order, under its name, with its own    *)
(* bytes or its strong relocations and the target it had; the module info  *)
(* at p_paddr; in psp-kprxgen the relocations lie in their segment.        *)
(* And every input is eventually stripped or rejected.                     *)
(***************************************************************************)
ImplementsContract == Contract!Spec
=============================================================================
