------------------------------- MODULE PrxElf -------------------------------
(***************************************************************************)
(* The input of psp-prxgen and psp-kprxgen: an ELF file, abstracted to the *)
(* fields the tools read.  Contents are identities: byte k of section s is *)
(* <<s, k>>, a relocation is a record, a name is an element of Names with  *)
(* a length.                                                               *)
(***************************************************************************)
EXTENDS Integers, Sequences

CONSTANTS
  Names,            (* the section names                                    *)
  NameLen,          (* strlen of each name                                  *)
  ModuleInfoName,   (* PSP_MODULE_INFO_NAME                                 *)
  RemoveRelName,    (* PSP_MODULE_REMOVE_REL                                *)
  ElfFiles,         (* the input files                                      *)
  None              (* the NULL pointer                                     *)

(***************************************************************************)
(* Sizes of the structures of elftypes.h, and the section types told apart *)
(* by the code ("OTHER" stands for NOBITS and every other type).           *)
(***************************************************************************)
EhdrSize == 52
PhdrSize == 32
ShdrSize == 40
RelSize  == 8
ShstrtabLen == 9

SecTypes == {"NULL", "PROGBITS", "REL", "PRXRELOC", "SYMTAB", "OTHER"}
RelTypes == {"REL", "PRXRELOC"}
RelKinds == {"ABS", "PC16", "GPREL16"}

Reloc   == [at : Nat, sym : Nat, kind : RelKinds]
Section == [type : SecTypes, alloc : BOOLEAN, addr : Nat, size : Nat,
            info : Nat, link : Nat, name : Names,
            rels : Seq(Reloc), syms : Seq(BOOLEAN)]

(***************************************************************************)
(* A file: its section headers, whether it can be read and its ELF header  *)
(* is accepted (valid), whether sceModuleInfo asks for kernel mode, and    *)
(* the tool it is given to.                                                *)
(*                                                                         *)
(* What the tools assume without checking: section 0 is the null section,  *)
(* a relocation section applies to a section of the file and holds whole   *)
(* Elf32_Rel entries, and no address overflows 32 bits.                    *)
(***************************************************************************)
WellFormed(e) ==
  /\ e.valid \in BOOLEAN
  /\ e.kernel \in BOOLEAN
  /\ e.tool \in {"prxgen", "kprxgen"}
  /\ e.shnum \in Nat
  /\ e.sec \in [0 .. e.shnum - 1 -> Section]
  /\ e.shnum > 0 => e.sec[0].type = "NULL" /\ e.sec[0].alloc = FALSE
  /\ \A s \in 0 .. e.shnum - 1 :
       e.sec[s].type \in RelTypes =>
         /\ e.sec[s].info < e.shnum
         /\ e.sec[s].size = RelSize * Len(e.sec[s].rels)

ASSUME PrxConstants ==
  /\ NameLen \in [Names -> Nat]
  /\ {ModuleInfoName, RemoveRelName} \subseteq Names
  /\ \A e \in ElfFiles : WellFormed(e)
  /\ None \notin Nat
=============================================================================
