------------------------------ MODULE MCPrxGen ------------------------------
(***************************************************************************)
(* Inputs for PrxRefinement: one ELF whose sections come in every order,   *)
(* with every kind of relocation, and the inputs the tools reject.         *)
(***************************************************************************)
EXTENDS PrxRefinement

MCNames == {"", "text", "modinfo", "bss", "rel.text", "rel.stub", "symtab"}
MCNameLen == [n \in MCNames |->
  CASE n = "" -> 0 [] n = "text" -> 5 [] n = "modinfo" -> 7 [] n = "bss" -> 4
    [] n = "rel.text" -> 9 [] n = "rel.stub" -> 6 [] n = "symtab" -> 7]

NullSection == [type |-> "NULL", alloc |-> FALSE, addr |-> 0, size |-> 0,
                info |-> 0, link |-> 0, name |-> "", rels |-> <<>>, syms |-> <<>>]
Text    == [NullSection EXCEPT !.type = "PROGBITS", !.alloc = TRUE, !.size = 5, !.name = "text"]
Modinfo == [NullSection EXCEPT !.type = "PROGBITS", !.alloc = TRUE, !.addr = 8, !.size = 3, !.name = "modinfo"]
Bss     == [NullSection EXCEPT !.type = "OTHER", !.alloc = TRUE, !.addr = 12, !.size = 6, !.name = "bss"]
Symtab  == [NullSection EXCEPT !.type = "SYMTAB", !.size = 32, !.name = "symtab", !.syms = <<FALSE, TRUE>>]

(* sym 1 is defined, sym 0 undefined, sym 2 beyond the symbol table.       *)
Rel(at, sym, kind) == [at |-> at, sym |-> sym, kind |-> kind]
RelLists == {
  <<>>, <<Rel(0, 0, "ABS")>>, <<Rel(0, 0, "ABS"), Rel(1, 1, "ABS")>>,
  <<Rel(0, 1, "ABS"), Rel(1, 1, "PC16"), Rel(2, 1, "ABS")>>,
  <<Rel(0, 1, "GPREL16"), Rel(1, 2, "ABS")>> }

RelSection(type, name, info, link, rs) ==
  [NullSection EXCEPT !.type = type, !.name = name, !.info = info,
                      !.link = link, !.rels = rs, !.size = 8 * Len(rs)]

(* text, modinfo, symbol table and two relocation sections, bss last.      *)
(* at[k] is the index of the k-th of them: every order of the four that    *)
(* refer to each other, modinfo in the middle.                             *)
Orders == {f \in [1 .. 5 -> 1 .. 5] :
             f[2] = 3 /\ \A a, b \in 1 .. 5 : a # b => f[a] # f[b]}

Elf(at, tool, kernel, type2, name2, target2, rs, rs2) ==
  [valid |-> TRUE, kernel |-> kernel, tool |-> tool, shnum |-> 7,
   sec |-> [s \in 0 .. 6 |->
     CASE s = 0 -> NullSection
       [] s = at[1] -> Text
       [] s = at[2] -> Modinfo
       [] s = at[3] -> Symtab
       [] s = at[4] -> RelSection("REL", "rel.text", at[1], at[3], rs)
       [] s = at[5] -> RelSection(type2, name2, at[target2], at[3], rs2)
       [] s = 6 -> Bss]]

Second == << <<"REL", "rel.stub", 2>>, <<"PRXRELOC", "bss", 2>>, <<"REL", "bss", 3>> >>
TwoRelocs == <<Rel(3, 0, "ABS"), Rel(4, 1, "ABS")>>

GoodElfs ==
  {Elf(at, tool, at[1] < at[2], x[1], x[2], x[3], rs, TwoRelocs) :
     at \in Orders, tool \in {"prxgen", "kprxgen"}, x \in {Second[k] : k \in 1 .. 3}, rs \in RelLists}

InOrder == <<1, 3, 2, 4, 5>>
GoodElf == Elf(InOrder, "prxgen", FALSE, "REL", "rel.stub", 2, TwoRelocs, TwoRelocs)
BadElfs ==
  { [GoodElf EXCEPT !.valid = FALSE],
    [GoodElf EXCEPT !.shnum = 0, !.sec = [s \in {} |-> NullSection]],
    [GoodElf EXCEPT !.sec[3].name = "bss"],
    [GoodElf EXCEPT !.sec[1].addr = 4],
    [GoodElf EXCEPT !.sec[4].info = 2, !.sec[5].info = 0],
    [GoodElf EXCEPT !.sec[4].link = 9] }

MCElfFiles == GoodElfs \cup BadElfs

(* The inputs of the run on psp-kprxgen's order of loading.                *)
ReorderedElfs == {Elf(at, "kprxgen", FALSE, "REL", "rel.stub", 2, TwoRelocs, TwoRelocs) : at \in Orders}
=============================================================================
