-------------------------- MODULE ExportsRefinement -------------------------
(***************************************************************************)
(* BuildExports against ExportsContract.  What is printed is read back the *)
(* way its readers do.                                                     *)
(***************************************************************************)
EXTENDS BuildExports

(* The module manager takes table k for entry k: NIDs, and n cells further *)
(* the addresses.                                                          *)
ReadCells(k, j) ==
  [nid  |-> tables[k].cells[j],
   name |-> tables[k].cells[entries[k].funcs + entries[k].vars + j]]
ReadExports(k) ==
  [name  |-> entries[k].name,
   funcs |-> [j \in 1 .. entries[k].funcs |-> ReadCells(k, j)],
   vars  |-> [j \in 1 .. entries[k].vars |-> ReadCells(k, entries[k].funcs + j)]]

(* A list of CMake: what follows an item without a separator is not a new  *)
(* item.                                                                   *)
ReadList(items) ==
  IF \A k \in 1 .. Len(items) - 1 : items[k].sep
  THEN [k \in DOMAIN items |-> items[k].item] ELSE <<>>

ReadStubs(f) == IF f.count = Len(f.funcs) THEN f.funcs ELSE <<>>

Printed ==
  CASE mode = "exports" -> [k \in 1 .. declared |-> ReadExports(k)]
    [] mode \in {"stubs", "stubs_new"} -> [l \in DOMAIN stubs |-> ReadStubs(stubs[l])]
    [] mode = "cmake" -> [k \in DOMAIN ReadList(names) |->
                            [name |-> ReadList(names)[k], count |-> ReadList(counts)[k]]]

Verdict == CASE pc = "failed" -> "rejected" [] pc = "done" -> "built" [] OTHER -> "pending"

Contract == INSTANCE ExportsContract WITH
  verdict <- Verdict,
  content <- IF Verdict = "built" THEN Printed ELSE None

(***************************************************************************)
(* An .exp file is rejected if a line is out of place, and what is printed *)
(* of any other are its blocks, whatever order, number and repetition of   *)
(* lines it has.                                                           *)
(***************************************************************************)
ImplementsContract == Contract!Spec

(* Every .exp file is rejected or printed.                                 *)
FilesAreDecided == Contract!Decides

(***************************************************************************)
(* What the proof of ImplementsContract needs beside TypeOK and            *)
(* CountsMatch.  While the file is read, upto being its lines read: the    *)
(* open block is the last start without an end, and the library read is    *)
(* what its lines so far say; the list is the other blocks in order.       *)
(***************************************************************************)
OpenAt(upto) == {m \in 1 .. upto : Contract!Kind(m) = "start"
                                     /\ \A l \in m + 1 .. upto : Contract!Kind(l) # "end"}
IsBlock(upto, m) ==
  /\ m = Contract!BlockOf(upto + 1)
  /\ IF OpenAt(upto) = {} THEN m = 0 ELSE m \in OpenAt(upto) /\ \A l \in OpenAt(upto) : l <= m

Closed(upto, m) == {n \in 1 .. upto : Contract!Kind(n) = "start" /\ n # m}

ExportsAt(S) == [k \in 1 .. Cardinality(S) |-> lines[InOrder(S)[k]].export]
AliasesAt(S) == [k \in 1 .. Cardinality(S) |-> lines[InOrder(S)[k]].alias]

Describes(upto, m, lib) ==
  /\ lib.name = lines[m].lib
  /\ lib.funcs = ExportsAt(Contract!Members(m, "func", upto))
  /\ lib.vars = ExportsAt(Contract!Members(m, "var", upto))
  /\ lib.aliases = AliasesAt(Contract!Members(m, "alias", upto))

Sorted(S) ==
  /\ \A k \in 1 .. Cardinality(S) : InOrder(S)[k] \in S
  /\ \A n \in S : \E k \in 1 .. Cardinality(S) : InOrder(S)[k] = n
  /\ \A j, k \in 1 .. Cardinality(S) : j < k => InOrder(S)[j] < InOrder(S)[k]

ListIs(upto, S, list) ==
  /\ Sorted(S)
  /\ Len(list) = Cardinality(S)
  /\ \A k \in 1 .. Cardinality(S) : Describes(upto, InOrder(S)[k], list[k])

Reading(upto, m, lib, list) ==
  /\ \A n \in 1 .. upto : ~Contract!OutOfPlace(n)
  /\ IsBlock(upto, m)
  /\ m = 0 <=> lib.name = None
  /\ m # 0 => Describes(upto, m, lib)
  /\ ListIs(upto, Closed(upto, m), list)

Loaded == Contract!Accepted /\ ListIs(Len(lines), Contract!Starts, g_libhead)

(***************************************************************************)
(* While a list is printed, the libraries before pLib are.                 *)
(***************************************************************************)
PublicBefore(p) == {InOrder(Contract!Starts)[k] : k \in {j \in 1 .. p - 1 : g_libhead[j].name # SyslibName}}

TablesTo(p) == Len(tables) = p - 1 /\ \A k \in 1 .. p - 1 : tables[k].cells = Cells(g_libhead[k])
EntryOf(l) == [name |-> IF l.name = SyslibName THEN None ELSE l.name,
               vars |-> l.varCount, funcs |-> l.funcCount]
EntriesTo(p) ==
  /\ entries \in Seq([name : LibNames \cup {None}, vars : Nat, funcs : Nat])
  /\ Len(entries) = p - 1 /\ \A k \in 1 .. p - 1 : entries[k] = EntryOf(g_libhead[k])

StubsTo(p) ==
  /\ DOMAIN stubs = {g_libhead[k].name : k \in 1 .. p - 1} \ (refused \cup {SyslibName})
  /\ \A l \in DOMAIN stubs : \E k \in 1 .. p - 1 :
       /\ g_libhead[k].name = l /\ stubs[l] = StubsOf(g_libhead[k])
       /\ \A j \in k + 1 .. p - 1 : g_libhead[j].name # l

ItemsTo(items, p, f) ==
  /\ items = [k \in 1 .. Len(items) |-> items[k]]
  /\ Sorted(PublicBefore(p))
  /\ Len(items) = Cardinality(PublicBefore(p))
  /\ \A k \in 1 .. Len(items) :
       /\ items[k].item = f[InOrder(PublicBefore(p))[k]]
       /\ (k < Len(items) \/ p <= Len(g_libhead)) => items[k].sep
NameAt == [m \in Contract!Starts |-> lines[m].lib]
CountAt == [m \in Contract!Starts |->
              Len(Contract!LinesOf(m, "func")) + Len(Contract!LinesOf(m, "var"))]

All == Len(g_libhead) + 1
PrintingInvariant ==
  /\ pc = "tables" => mode = "exports" /\ TablesTo(pLib) /\ entries = <<>>
  /\ pc = "entries" => mode = "exports" /\ TablesTo(All) /\ EntriesTo(pLib)
  /\ pc = "stubs" => mode \in {"stubs", "stubs_new"} /\ StubsTo(pLib)
  /\ pc = "names" => mode = "cmake" /\ ItemsTo(names, pLib, NameAt) /\ counts = <<>>
  /\ pc = "counts" => mode = "cmake" /\ ItemsTo(names, All, NameAt) /\ ItemsTo(counts, pLib, CountAt)

HasRead == Reading(line, Contract!BlockOf(line + 1), Library, g_libhead)
NothingPrinted ==
  pLib = 1 /\ tables = <<>> /\ entries = <<>> /\ DOMAIN stubs = {} /\ names = <<>> /\ counts = <<>>

ExportsInvariant ==
  /\ pc \in {"open", "load"} => HasRead /\ NothingPrinted
  /\ pc = "open" => line = 0
  /\ pc \notin {"open", "load", "failed"} => Loaded
  /\ PrintingInvariant
=============================================================================
