---------------------------- MODULE PrxContract ----------------------------
(***************************************************************************)
(* What psp-prxgen and psp-kprxgen promise, in one step: an ELF is either  *)
(* rejected or stripped to the PRX that StrippedPrx describes without      *)
(* offsets, indices or cursors.  PrxRefinement shows PrxGen implements it. *)
(***************************************************************************)
EXTENDS PrxElf

VARIABLES elf, verdict, content

contractVars == <<elf, verdict, content>>

SectionsOf(e) == 0 .. e.shnum - 1

(***************************************************************************)
(* A relocation section is linked to its target when the target is         *)
(* allocated; psp-kprxgen sees only the targets that are not after it.     *)
(***************************************************************************)
Linked(e, s) ==
  /\ e.sec[s].type \in RelTypes
  /\ e.sec[e.sec[s].info].alloc
  /\ e.tool = "kprxgen" => e.sec[s].info <= s

Survives(e, s, r) ==
  LET syms == e.sec[e.sec[s].link].syms
  IN  /\ r.sym + 1 \in DOMAIN syms
      /\ syms[r.sym + 1]
      /\ r.kind \in IF e.tool = "kprxgen" THEN {"ABS", "GPREL16"} ELSE {"ABS"}

HasSymbols(e, s) ==
  /\ e.sec[s].type = "REL"
  /\ e.sec[s].link < e.shnum
  /\ e.sec[e.sec[s].link].type = "SYMTAB"

StrongRelocs(e, s) ==
  IF HasSymbols(e, s) THEN SelectSeq(e.sec[s].rels, LAMBDA r : Survives(e, s, r))
                      ELSE e.sec[s].rels

Stripped(e, s) ==
  \/ e.sec[s].name = RemoveRelName
  \/ ~e.sec[s].alloc /\ ~Linked(e, s)
  \/ HasSymbols(e, s) /\ e.sec[s].rels # <<>> /\ StrongRelocs(e, s) = <<>>

ContentOf(e, s) ==
  CASE e.sec[s].type = "PROGBITS" -> [k \in 1 .. e.sec[s].size |-> <<s, k - 1>>]
    [] e.sec[s].type \in RelTypes ->
         [k \in DOMAIN StrongRelocs(e, s) |->
            [at |-> StrongRelocs(e, s)[k].at, kind |-> StrongRelocs(e, s)[k].kind]]
    [] OTHER -> <<>>

LogicalSection(e, s) ==
  [name   |-> e.sec[s].name,
   type   |-> IF e.sec[s].type \in RelTypes THEN "PRXRELOC" ELSE e.sec[s].type,
   alloc  |-> e.sec[s].alloc,
   addr   |-> e.sec[s].addr,
   target |-> IF Linked(e, s) THEN e.sec[e.sec[s].info].name ELSE None,
   data   |-> ContentOf(e, s)]

Accepted(e) ==
  /\ e.valid
  /\ \E s \in SectionsOf(e) : e.sec[s].name = ModuleInfoName
  /\ \E s \in SectionsOf(e) : Linked(e, s)
  /\ \E s \in SectionsOf(e) : e.sec[s].alloc /\ e.sec[s].addr = 0

ModuleInfoOf(e) == CHOOSE s \in SectionsOf(e) : e.sec[s].name = ModuleInfoName

StrippedPrx(e) ==
  LET order == SelectSeq([k \in 1 .. e.shnum - 1 |-> k], LAMBDA s : ~Stripped(e, s))
  IN  [secs   |-> [k \in DOMAIN order |-> LogicalSection(e, order[k])],
       module |-> <<ModuleInfoOf(e), 0>>,
       kernel |-> e.kernel]

Init == elf \in ElfFiles /\ verdict = "pending" /\ content = None

Decide ==
  /\ verdict = "pending"
  /\ IF Accepted(elf)
     THEN verdict' = "stripped" /\ content' = StrippedPrx(elf)
     ELSE verdict' = "rejected" /\ content' = None
  /\ UNCHANGED elf

Spec == Init /\ [][Decide]_contractVars /\ WF_contractVars(Decide)
=============================================================================
