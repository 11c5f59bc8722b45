------------------------- MODULE BuildExportsProofs -------------------------
(***************************************************************************)
(* The type invariant of BuildExports, that every bound it prints is the   *)
(* size of what it prints, and that it implements ExportsContract, for     *)
(* .exp files of any length.                                               *)
(***************************************************************************)
EXTENDS ExportsRefinement, SequenceTheorems, FiniteSetTheorems, WellFoundedInduction, TLAPS

(***************************************************************************)
(* A line of an input file has the fields its kind says.                   *)
(***************************************************************************)
LEMMA LineFacts ==
  ASSUME lines \in ExpFiles, line \in 0 .. Len(lines), line < Len(lines)
  PROVE  /\ lines[line + 1].kind = "start" => lines[line + 1].lib \in LibNames
         /\ lines[line + 1].kind \in {"func", "var"} => lines[line + 1].export \in Export
         /\ lines[line + 1].kind = "alias" => lines[line + 1].alias \in Alias
         /\ line + 1 \in 0 .. Len(lines)
<1>1. lines \in Seq(Lines)
  BY ExpConstants
<1>2. lines[line + 1] \in Lines /\ line + 1 \in 0 .. Len(lines)
  BY <1>1
<1> QED
  BY <1>2 DEF Lines, StartLine, ExportLine, AliasLine, PlainLine

LEMMA LibraryType ==
  ASSUME TypeOK, g_currlib # None
  PROVE  Library \in LibRecord
<1>1. /\ g_currlib \in LibNames
      /\ funcs \in Seq(Export) /\ vars \in Seq(Export) /\ aliases \in Seq(Alias)
      /\ funcCount \in Nat /\ varCount \in Nat
  BY ExpConstants DEF TypeOK
<1> QED
  BY <1>1 DEF Library, LibRecord

(***************************************************************************)
(* The array printed for a library has a NID and an address for each       *)
(* function and each variable.                                             *)
(***************************************************************************)
LEMMA FunctionIsSeq ==
  ASSUME NEW S, NEW n \in Nat, NEW f \in [1 .. n -> S]
  PROVE  f \in Seq(S) /\ Len(f) = n
<1>1. f \in Seq(S)
  BY SeqDef
<1>2. Len(f) \in Nat /\ DOMAIN f = 1 .. Len(f) /\ DOMAIN f = 1 .. n
  BY <1>1, LenProperties
<1> QED
  BY <1>1, <1>2

LEMMA FourSequences ==
  ASSUME NEW S, NEW a \in Seq(S), NEW b \in Seq(S), NEW c \in Seq(S), NEW d \in Seq(S)
  PROVE  /\ a \o b \o c \o d \in Seq(S)
         /\ Len(a \o b \o c \o d) = Len(a) + Len(b) + Len(c) + Len(d)
<1>1. a \o b \in Seq(S) /\ Len(a \o b) = Len(a) + Len(b)
  BY ConcatProperties
<1>2. a \o b \o c \in Seq(S) /\ Len(a \o b \o c) = Len(a \o b) + Len(c)
  BY <1>1, ConcatProperties
<1>3. a \o b \o c \o d \in Seq(S) /\ Len(a \o b \o c \o d) = Len(a \o b \o c) + Len(d)
  BY <1>2, ConcatProperties
<1> QED
  BY <1>1, <1>2, <1>3

LEMMA ColumnsOfExports ==
  ASSUME NEW es \in Seq(Export)
  PROVE  /\ NidsOf(es) \in Seq(Nids) /\ Len(NidsOf(es)) = Len(es)
         /\ NamesOf(es) \in Seq(Names) /\ Len(NamesOf(es)) = Len(es)
<1>1. DOMAIN es = 1 .. Len(es) /\ Len(es) \in Nat
  OBVIOUS
<1>2. ASSUME NEW k \in 1 .. Len(es) PROVE es[k].nid \in Nids /\ es[k].name \in Names
  <2>1. es[k] \in Export
    BY ElementOfSeq
  <2> QED
    BY <2>1 DEF Export
<1>3. NidsOf(es) \in [1 .. Len(es) -> Nids]
  BY <1>1, <1>2 DEF NidsOf
<1>4. NamesOf(es) \in [1 .. Len(es) -> Names]
  BY <1>1, <1>2 DEF NamesOf
<1>5. NidsOf(es) \in Seq(Nids) /\ Len(NidsOf(es)) = Len(es)
  BY <1>1, <1>3, FunctionIsSeq
<1>6. NamesOf(es) \in Seq(Names) /\ Len(NamesOf(es)) = Len(es)
  BY <1>1, <1>4, FunctionIsSeq
<1> QED
  BY <1>5, <1>6

LEMMA CellsOfLibrary ==
  ASSUME NEW l \in LibRecord
  PROVE  /\ Cells(l) \in Seq(Nids \cup Names)
         /\ Len(Cells(l)) = (Len(l.funcs) + Len(l.vars)) * 2
<1>1. l.funcs \in Seq(Export) /\ l.vars \in Seq(Export)
  BY DEF LibRecord
<1>2. Len(l.funcs) \in Nat /\ Len(l.vars) \in Nat
  BY <1>1, LenProperties
<1>3. /\ Len(NidsOf(l.funcs)) = Len(l.funcs) /\ Len(NidsOf(l.vars)) = Len(l.vars)
      /\ Len(NamesOf(l.funcs)) = Len(l.funcs) /\ Len(NamesOf(l.vars)) = Len(l.vars)
  BY <1>1, ColumnsOfExports
<1>4. NidsOf(l.funcs) \in Seq(Nids) /\ NidsOf(l.vars) \in Seq(Nids)
  BY <1>1, ColumnsOfExports
<1>5. NamesOf(l.funcs) \in Seq(Names) /\ NamesOf(l.vars) \in Seq(Names)
  BY <1>1, ColumnsOfExports
<1>6. NidsOf(l.funcs) \in Seq(Nids \cup Names) /\ NidsOf(l.vars) \in Seq(Nids \cup Names)
  BY <1>4, SeqMonotonic
<1>7. NamesOf(l.funcs) \in Seq(Nids \cup Names) /\ NamesOf(l.vars) \in Seq(Nids \cup Names)
  BY <1>5, SeqMonotonic
<1>8. /\ Cells(l) \in Seq(Nids \cup Names)
      /\ Len(Cells(l)) = Len(NidsOf(l.funcs)) + Len(NidsOf(l.vars))
                           + Len(NamesOf(l.funcs)) + Len(NamesOf(l.vars))
  BY <1>6, <1>7, FourSequences DEF Cells
<1>9. \A x, y \in Nat : x + y + x + y = (x + y) * 2
  OBVIOUS
<1> QED
  BY <1>2, <1>3, <1>8, <1>9, Zenon

(***************************************************************************)
(* Every variable keeps its type: in particular no library is given more   *)
(* functions or variables than MAX_LIB_FUNCS and MAX_LIB_VARS.             *)
(***************************************************************************)
THEOREM TypeCorrect == Spec => []TypeOK
<1>1. Init => TypeOK
  BY ExpConstants DEF Init, TypeOK, Stages
<1>2. TypeOK /\ [Next]_allVars => TypeOK'
  <2> SUFFICES ASSUME TypeOK, [Next]_allVars PROVE TypeOK'
    OBVIOUS
  <2> USE DEF Stages, inputs, currVars, listVars, printVars, NextLine, Reads, Reject
  <2>0. MaxFuncs \in Nat /\ MaxVars \in Nat
    BY ExpConstants
  <2>1. CASE OpenInput
    BY <2>1 DEF OpenInput, TypeOK
  <2>2. CASE OtherLine
    BY <2>2, LineFacts DEF OtherLine, TypeOK
  <2>3. CASE BadLine
    BY <2>3 DEF BadLine, TypeOK
  <2>4. CASE ExportStart
    <3>1. g_currlib' \in LibNames /\ line' \in 0 .. Len(lines)
      BY <2>4, LineFacts DEF ExportStart, TypeOK
    <3> QED
      BY <2>0, <2>4, <3>1 DEF ExportStart, TypeOK
  <2>5. CASE NestedStart
    BY <2>5 DEF NestedStart, TypeOK
  <2>6. CASE ExportEnd
    <3>1. g_libhead \in Seq(LibRecord) /\ Library \in LibRecord
      BY <2>6, LibraryType DEF ExportEnd, TypeOK
    <3>2. g_libhead' \in Seq(LibRecord) /\ Len(g_libhead') = Len(g_libhead) + 1
      BY <3>1, <2>6 DEF ExportEnd
    <3>3. pLib' \in 1 .. Len(g_libhead') + 1
      BY <3>1, <3>2, <2>6 DEF ExportEnd, TypeOK
    <3>4. line' \in 0 .. Len(lines)
      BY <2>6, LineFacts DEF ExportEnd, TypeOK
    <3> QED
      BY <2>6, <3>2, <3>3, <3>4 DEF ExportEnd, TypeOK
  <2>7. CASE StrayEnd
    BY <2>7, LineFacts DEF StrayEnd, TypeOK
  <2>8. CASE ExportFunc
    <3>1. lines[line + 1].export \in Export /\ line' \in 0 .. Len(lines)
      BY <2>8, LineFacts DEF ExportFunc, TypeOK
    <3>2. funcs' \in Seq(Export) /\ funcCount' \in 0 .. MaxFuncs
      BY <2>0, <2>8, <3>1 DEF ExportFunc, TypeOK
    <3> QED
      BY <2>8, <3>1, <3>2 DEF ExportFunc, TypeOK
  <2>9. CASE ExportVar
    <3>1. lines[line + 1].export \in Export /\ line' \in 0 .. Len(lines)
      BY <2>9, LineFacts DEF ExportVar, TypeOK
    <3>2. vars' \in Seq(Export) /\ varCount' \in 0 .. MaxVars
      BY <2>0, <2>9, <3>1 DEF ExportVar, TypeOK
    <3> QED
      BY <2>9, <3>1, <3>2 DEF ExportVar, TypeOK
  <2>10. CASE ExportAlias
    <3>1. lines[line + 1].alias \in Alias /\ line' \in 0 .. Len(lines)
      BY <2>10, LineFacts DEF ExportAlias, TypeOK
    <3>2. aliases' \in Seq(Alias)
      BY <2>10, <3>1 DEF ExportAlias, TypeOK
    <3> QED
      BY <2>10, <3>1, <3>2 DEF ExportAlias, TypeOK
  <2>11. CASE RejectExport
    BY <2>11 DEF RejectExport, TypeOK
  <2>12. CASE EndOfFile
    BY <2>12 DEF EndOfFile, TypeOK
  <2>13. CASE PrintTable
    <3>1. Lib \in LibRecord
      BY <2>13 DEF PrintTable, Printing, TypeOK, Lib
    <3>2. Lib.funcCount \in Nat /\ Lib.varCount \in Nat /\ Cells(Lib) \in Seq(Nids \cup Names)
      BY <3>1, CellsOfLibrary DEF LibRecord
    <3>3. (Lib.funcCount + Lib.varCount) * 2 \in Nat
      BY <3>2
    <3>4. tables' \in Seq([size : Nat, cells : Seq(Nids \cup Names)])
      BY <2>13, <3>2, <3>3 DEF PrintTable, TypeOK
    <3> QED
      BY <2>13, <3>4 DEF PrintTable, Printing, TypeOK
  <2>14. CASE TablesDone
    BY <2>14 DEF TablesDone, EndLoop, TypeOK
  <2>15. CASE PrintEntry
    BY <2>15 DEF PrintEntry, Printing, TypeOK
  <2>16. CASE WriteStubs
    BY <2>16 DEF WriteStubs, Printing, TypeOK
  <2>17. CASE PrintName
    BY <2>17 DEF PrintName, Printing, TypeOK
  <2>18. CASE PrintCount
    BY <2>18 DEF PrintCount, Printing, TypeOK
  <2>19. CASE LoopDone
    BY <2>19 DEF LoopDone, EndLoop, TypeOK
  <2>20. CASE UNCHANGED allVars
    BY <2>20 DEF allVars, TypeOK
  <2> QED
    BY <2>1, <2>2, <2>3, <2>4, <2>5, <2>6, <2>7, <2>8, <2>9, <2>10, <2>11, <2>12, <2>13,
       <2>14, <2>15, <2>16, <2>17, <2>18, <2>19, <2>20, SMTT(30) DEF Next, Finished
<1> QED BY <1>1, <1>2, PTL DEF Spec

(***************************************************************************)
(* The counts are the lengths of the lists and the bounds printed those of *)
(* what is printed.  g_libcount runs one ahead of the list while a library *)
(* is being read; the file is rejected if it still does at its end, so     *)
(* nothing is printed with the wrong bound.                                *)
(***************************************************************************)
THEOREM CountsAlwaysMatch == Spec => []CountsMatch
<1>1. Init => CountsMatch
  BY DEF Init, CountsMatch
<1>2. TypeOK /\ CountsMatch /\ [Next]_allVars => CountsMatch'
  <2> SUFFICES ASSUME TypeOK, CountsMatch, [Next]_allVars PROVE CountsMatch'
    OBVIOUS
  <2> USE DEF inputs, currVars, listVars, printVars, NextLine, Reads, Reject
  <2>0. g_libhead \in Seq(LibRecord) /\ funcs \in Seq(Export) /\ vars \in Seq(Export)
    BY DEF TypeOK
  <2>1. CASE OpenInput
    BY <2>1 DEF OpenInput, CountsMatch
  <2>2. CASE OtherLine \/ StrayEnd \/ ExportAlias
    BY <2>2 DEF OtherLine, StrayEnd, ExportAlias, CountsMatch
  <2>3. CASE BadLine \/ NestedStart \/ RejectExport
    BY <2>3 DEF BadLine, NestedStart, RejectExport, CountsMatch
  <2>4. CASE ExportStart
    <3>1. g_currlib' # None /\ pc = "load" /\ pc' = pc
      BY <2>4, LineFacts, ExpConstants DEF ExportStart, TypeOK
    <3> QED
      BY <2>4, <3>1 DEF ExportStart, CountsMatch, TypeOK
  <2>5. CASE ExportEnd
    <3> DEFINE n == Len(g_libhead)
    <3>1. Library \in LibRecord
      BY <2>5, LibraryType DEF ExportEnd
    <3>2. /\ n \in Nat /\ Len(g_libhead') = n + 1 /\ DOMAIN g_libhead' = 1 .. n + 1
          /\ g_libhead'[n + 1] = Library
          /\ \A k \in 1 .. n : g_libhead'[k] = g_libhead[k]
      BY <2>0, <2>5, <3>1 DEF ExportEnd
    <3>3. Library.funcCount = Len(Library.funcs) /\ Library.varCount = Len(Library.vars)
      BY DEF Library, CountsMatch
    <3>4. \A k \in DOMAIN g_libhead' :
            /\ g_libhead'[k].funcCount = Len(g_libhead'[k].funcs)
            /\ g_libhead'[k].varCount = Len(g_libhead'[k].vars)
      <4> SUFFICES ASSUME NEW k \in 1 .. n + 1
                   PROVE  /\ g_libhead'[k].funcCount = Len(g_libhead'[k].funcs)
                          /\ g_libhead'[k].varCount = Len(g_libhead'[k].vars)
        BY <3>2
      <4>1. CASE k = n + 1
        BY <4>1, <3>2, <3>3
      <4>2. CASE k \in 1 .. n
        BY <4>2, <3>2, <2>0 DEF CountsMatch
      <4> QED
        BY <3>2, <4>1, <4>2
    <3>5. /\ g_libcount = n + 1 /\ g_libcount' = g_libcount /\ g_currlib' = None
          /\ pc = "load" /\ pc' = pc /\ tables' = tables
          /\ UNCHANGED <<funcs, vars, funcCount, varCount>>
      BY <2>5 DEF ExportEnd, CountsMatch
    <3> QED
      BY <3>2, <3>4, <3>5 DEF CountsMatch
  <2>6. CASE ExportFunc \/ ExportVar
    <3>1. funcCount' = Len(funcs') /\ varCount' = Len(vars')
      BY <2>0, <2>6 DEF ExportFunc, ExportVar, CountsMatch
    <3> QED
      BY <2>6, <3>1 DEF ExportFunc, ExportVar, CountsMatch
  <2>7. CASE EndOfFile
    BY <2>7 DEF EndOfFile, CountsMatch
  <2>8. CASE PrintTable
    <3> DEFINE t == [size |-> (Lib.funcCount + Lib.varCount) * 2, cells |-> Cells(Lib)]
    <3>1. pLib \in DOMAIN g_libhead /\ Lib \in LibRecord
      BY <2>0, <2>8 DEF PrintTable, Printing, TypeOK, Lib
    <3>2. Lib.funcCount = Len(Lib.funcs) /\ Lib.varCount = Len(Lib.vars)
      BY <3>1 DEF CountsMatch, Lib
    <3>3. t.size = Len(t.cells)
      BY <3>1, <3>2, CellsOfLibrary
    <3>4. tables' = Append(tables, t)
      BY <2>8 DEF PrintTable
    <3>5. /\ Len(tables) \in Nat /\ DOMAIN tables = 1 .. Len(tables)
          /\ DOMAIN tables' = 1 .. Len(tables) + 1 /\ tables'[Len(tables) + 1] = t
          /\ \A k \in 1 .. Len(tables) : tables'[k] = tables[k]
      <4> HIDE DEF t
      <4>1. tables \in Seq([size : Nat, cells : Seq(Nids \cup Names)])
        BY DEF TypeOK
      <4>2. Len(tables) \in Nat /\ DOMAIN tables = 1 .. Len(tables)
        BY <4>1, LenProperties
      <4> QED BY <3>4, <4>1, <4>2, AppendProperties
    <3>6. \A k \in DOMAIN tables' : tables'[k].size = Len(tables'[k].cells)
      <4> HIDE DEF t
      <4> QED BY <3>3, <3>5 DEF CountsMatch
    <3> QED
      BY <2>8, <3>6 DEF PrintTable, CountsMatch
  <2>9. CASE TablesDone
    BY <2>9 DEF TablesDone, EndLoop, CountsMatch
  <2>10. CASE PrintEntry \/ WriteStubs \/ PrintName \/ PrintCount
    BY <2>10 DEF PrintEntry, WriteStubs, PrintName, PrintCount, CountsMatch
  <2>11. CASE LoopDone
    BY <2>11 DEF LoopDone, EndLoop, CountsMatch
  <2>12. CASE UNCHANGED allVars
    BY <2>12 DEF allVars, CountsMatch
  <2> QED
    BY <2>1, <2>2, <2>3, <2>4, <2>5, <2>6, <2>7, <2>8, <2>9, <2>10, <2>11, <2>12 DEF Next, Finished
<1> QED BY TypeCorrect, <1>1, <1>2, PTL DEF Spec

-----------------------------------------------------------------------------
(***************************************************************************)
(* Positions in order: a new last position comes at the end, and the       *)
(* sequence has each position once.                                        *)
(***************************************************************************)
Below(S, n) == {m \in S : m < n}

LEMMA InOrderIs ==
  ASSUME NEW S
  PROVE  /\ DOMAIN InOrder(S) = 1 .. Cardinality(S)
         /\ \A k \in 1 .. Cardinality(S) :
              InOrder(S)[k] = Only({n \in S : Cardinality(Below(S, n)) = k - 1})
  BY DEF InOrder, Below

LEMMA OnlyOne ==
  ASSUME NEW x PROVE Only({x}) = x
  BY DEF Only

LEMMA OneMore ==
  ASSUME NEW S, IsFiniteSet(S), S \subseteq Int, NEW x \in Int, \A n \in S : n < x
  PROVE  LET T == S \cup {x}
         IN  /\ IsFiniteSet(T) /\ Cardinality(S) \in Nat /\ Cardinality(T) = Cardinality(S) + 1
             /\ \A k \in 1 .. Cardinality(S) : InOrder(T)[k] = InOrder(S)[k]
             /\ InOrder(T)[Cardinality(S) + 1] = x
  <1> DEFINE T == S \cup {x}
  <1>1. x \notin S
    OBVIOUS
  <1>2. /\ IsFiniteSet(T) /\ Cardinality(S) \in Nat /\ Cardinality(T) = Cardinality(S) + 1
    BY <1>1, FS_AddElement, FS_CardinalityType
  <1>3. ASSUME NEW n \in S PROVE Below(T, n) = Below(S, n)
    <2>1. n \in Int /\ n < x /\ ~(x < n)
      BY <1>3
    <2> QED
      BY <2>1, Zenon DEF Below
  <1>4. Below(T, x) = S
    <2>1. \A n \in S : n \in Int /\ n < x
      OBVIOUS
    <2>2. ~(x < x)
      OBVIOUS
    <2> QED
      BY <2>1, <2>2, Zenon DEF Below
  <1>5. ASSUME NEW n \in S PROVE Cardinality(Below(S, n)) # Cardinality(S)
    <2>1. Below(S, n) \subseteq S /\ n \notin Below(S, n)
      BY DEF Below
    <2> QED
      BY <2>1, FS_Subset
  <1>6. ASSUME NEW k \in 1 .. Cardinality(S)
        PROVE  InOrder(T)[k] = InOrder(S)[k]
    <2> DEFINE A == {n \in T : Cardinality(Below(T, n)) = k - 1}
               B == {n \in S : Cardinality(Below(S, n)) = k - 1}
    <2>1. x \notin A
      BY <1>2, <1>4
    <2>2. A = B
      BY <1>3, <2>1
    <2>3. k \in 1 .. Cardinality(T)
      BY <1>2
    <2>4. InOrder(T)[k] = Only(A) /\ InOrder(S)[k] = Only(B)
      BY <2>3, InOrderIs
    <2> QED
      BY <2>2, <2>4, Zenon
  <1>7. InOrder(T)[Cardinality(S) + 1] = x
    <2> DEFINE k == Cardinality(S) + 1
               A == {n \in T : Cardinality(Below(T, n)) = k - 1}
    <2>1. k - 1 = Cardinality(S) /\ k \in 1 .. Cardinality(T)
      BY <1>2
    <2>2. A = {x}
      BY <1>3, <1>4, <1>5, <2>1
    <2>3. InOrder(T)[k] = Only(A)
      BY <2>1, InOrderIs
    <2> QED
      BY <2>2, <2>3, OnlyOne, Zenon
  <1> QED
    BY <1>2, <1>6, <1>7

LEMMA NoneInOrder ==
  /\ IsFiniteSet({}) /\ Cardinality({}) = 0 /\ DOMAIN InOrder({}) = 1 .. 0
  BY FS_EmptySet, InOrderIs

LEMMA FiniteUpTo ==
  ASSUME NEW l \in Nat, NEW S \in SUBSET (1 .. l)
  PROVE  IsFiniteSet(S) /\ Cardinality(S) \in Nat
  <1>1. IsFiniteSet(1 .. l) /\ S \subseteq 1 .. l
    BY FS_Interval
  <1>2. IsFiniteSet(S)
    BY <1>1, FS_Subset, Zenon
  <1> QED
    BY <1>2, FS_CardinalityType

LEMMA LeastNat ==
  ASSUME NEW T, T \subseteq Nat, T # {}
  PROVE  \E x \in T : \A y \in T : x <= y
  <1> DEFINE Less == {ss \in Nat \X Nat : ss[1] < ss[2]}
  <1>1. IsWellFoundedOn(Less, Nat)
    BY NatLessThanWellFounded DEF OpToRel
  <1> HIDE DEF Less
  <1>2. PICK x \in T : \A y \in T : ~(<<y, x>> \in Less)
    BY <1>1, WFMin
  <1>3. ASSUME NEW y \in T PROVE x <= y
    <2>1. <<y, x>> \notin Less /\ y \in Nat /\ x \in Nat
      BY <1>2
    <2> QED
      BY <2>1 DEF Less
  <1> QED
    BY <1>3

LEMMA SortedNone == Sorted({})
  BY FS_EmptySet DEF Sorted

LEMMA SortedMore ==
  ASSUME NEW S, IsFiniteSet(S), S \subseteq Int, NEW x \in Int, \A n \in S : n < x, Sorted(S)
  PROVE  Sorted(S \cup {x})
  <1> DEFINE T == S \cup {x}
             c == Cardinality(S)
  <1>1. /\ c \in Nat /\ Cardinality(T) = c + 1
        /\ \A k \in 1 .. c : InOrder(T)[k] = InOrder(S)[k]
        /\ InOrder(T)[c + 1] = x
    BY OneMore
  <1>2. /\ \A k \in 1 .. c : InOrder(S)[k] \in S
        /\ \A n \in S : \E k \in 1 .. c : InOrder(S)[k] = n
        /\ \A j, k \in 1 .. c : j < k => InOrder(S)[j] < InOrder(S)[k]
    BY DEF Sorted
  <1> HIDE DEF c
  <1>3. ASSUME NEW k \in 1 .. c + 1 PROVE InOrder(T)[k] \in T
    BY <1>1, <1>2
  <1>4. ASSUME NEW n \in T PROVE \E k \in 1 .. c + 1 : InOrder(T)[k] = n
    <2>1. CASE n = x
      BY <1>1, <2>1
    <2>2. CASE n \in S
      <3>1. PICK k \in 1 .. c : InOrder(S)[k] = n
        BY <1>2, <2>2
      <3>2. k \in 1 .. c + 1 /\ InOrder(T)[k] = n
        BY <1>1, <3>1
      <3> QED
        BY <3>2
    <2> QED
      BY <2>1, <2>2
  <1>5. ASSUME NEW j \in 1 .. c + 1, NEW k \in 1 .. c + 1, j < k
        PROVE  InOrder(T)[j] < InOrder(T)[k]
    <2>1. j \in 1 .. c
      BY <1>1, <1>5
    <2>2. CASE k = c + 1
      BY <1>1, <1>2, <2>1, <2>2
    <2>3. CASE k \in 1 .. c
      BY <1>1, <1>2, <1>5, <2>1, <2>3
    <2> QED
      BY <1>1, <2>2, <2>3
  <1> QED
    BY <1>1, <1>3, <1>4, <1>5 DEF Sorted

LEMMA SameCount == ASSUME NEW S PROVE Contract!Cardinality(S) = Cardinality(S)
  BY DEF Contract!Cardinality, Cardinality

LEMMA SameOrder == ASSUME NEW S PROVE Contract!InOrder(S) = InOrder(S)
  <1>1. \A T : Contract!Cardinality(T) = Cardinality(T)
    BY SameCount
  <1>2. \A T : Contract!Only(T) = Only(T)
    BY DEF Only, Contract!Only
  <1>3. ASSUME NEW k
        PROVE  {n \in S : Contract!Cardinality({m \in S : m < n}) = k - 1}
                 = {n \in S : Cardinality({m \in S : m < n}) = k - 1}
    BY <1>1, Zenon
  <1> QED
    BY <1>1, <1>2, <1>3, Zenon DEF InOrder, Contract!InOrder

-----------------------------------------------------------------------------
(***************************************************************************)
(* The block of the next line, from the block and the kind of this one.    *)
(***************************************************************************)
LEMMA NoBlockAtFirst == IsBlock(0, 0)
  <1>1. OpenAt(0) = {}
    BY DEF OpenAt
  <1>2. Contract!BlockOf(1) = 0
    BY DEF Contract!BlockOf
  <1> QED
    BY <1>1, <1>2 DEF IsBlock

LEMMA BlockIs ==
  ASSUME NEW u \in Nat
  PROVE  Contract!BlockOf(u + 1) = IF OpenAt(u) = {} THEN 0
                                   ELSE CHOOSE m \in OpenAt(u) : \A l \in OpenAt(u) : l <= m
  <1>1. u + 1 - 1 = u
    OBVIOUS
  <1> QED
    BY <1>1 DEF Contract!BlockOf, OpenAt

LEMMA BlockNext ==
  ASSUME NEW u \in Nat, NEW m, IsBlock(u, m)
  PROVE  /\ Contract!Kind(u + 1) = "start" => IsBlock(u + 1, u + 1)
         /\ Contract!Kind(u + 1) = "end" => IsBlock(u + 1, 0)
         /\ Contract!Kind(u + 1) \notin {"start", "end"} => IsBlock(u + 1, m)
  <1> DEFINE K(n) == Contract!Kind(n)
             O == OpenAt(u)
             P == OpenAt(u + 1)
  <1>1. O = {n \in 1 .. u : K(n) = "start" /\ \A l \in n + 1 .. u : K(l) # "end"}
    BY DEF OpenAt
  <1>2. P = {n \in 1 .. u + 1 : K(n) = "start" /\ \A l \in n + 1 .. u + 1 : K(l) # "end"}
    BY DEF OpenAt
  <1>3. Contract!BlockOf(u + 1 + 1) = IF P = {} THEN 0 ELSE CHOOSE n \in P : \A l \in P : l <= n
    BY BlockIs
  <1>4. m = IF O = {} THEN 0 ELSE CHOOSE n \in O : \A l \in O : l <= n
    BY BlockIs DEF IsBlock
  <1>5. IF O = {} THEN m = 0 ELSE m \in O /\ \A l \in O : l <= m
    BY DEF IsBlock
  <1>6. P \subseteq 1 .. u + 1
    BY <1>2
  <1> HIDE DEF K, O, P
  <1>7. CASE K(u + 1) = "start"
    <2>1. u + 1 \in P
      BY <1>2, <1>7
    <2>2. \A l \in P : l <= u + 1
      BY <1>6
    <2>3. (CHOOSE n \in P : \A l \in P : l <= n) = u + 1
      <3> DEFINE c == CHOOSE n \in P : \A l \in P : l <= n
      <3>1. c \in P /\ \A l \in P : l <= c
        BY <2>1, <2>2
      <3> HIDE DEF c
      <3>2. u + 1 <= c /\ c <= u + 1 /\ c \in Int
        BY <2>1, <2>2, <3>1, <1>6
      <3>3. c = u + 1
        BY <3>2
      <3> QED
        BY <3>3 DEF c
    <2>4. IsBlock(u + 1, u + 1)
      BY <1>3, <2>1, <2>2, <2>3 DEF IsBlock, P
    <2> QED
      BY <1>7, <2>4 DEF K
  <1>8. CASE K(u + 1) = "end"
    <2>1. ASSUME NEW n \in P PROVE FALSE
      <3>1. n \in 1 .. u + 1 /\ K(n) = "start" /\ \A l \in n + 1 .. u + 1 : K(l) # "end"
        BY <1>2, <2>1
      <3>2. n # u + 1
        BY <1>8, <3>1
      <3>3. u + 1 \in n + 1 .. u + 1
        BY <3>1, <3>2
      <3> QED
        BY <1>8, <3>1, <3>3
    <2>2. P = {}
      BY <2>1
    <2>3. IsBlock(u + 1, 0)
      BY <1>3, <2>2 DEF IsBlock, P
    <2> QED
      BY <1>8, <2>3 DEF K
  <1>9. CASE K(u + 1) \notin {"start", "end"}
    <2>1. ASSUME NEW n \in P PROVE n \in O
      <3>1. n \in 1 .. u + 1 /\ K(n) = "start" /\ \A l \in n + 1 .. u + 1 : K(l) # "end"
        BY <1>2, <2>1
      <3>2. n # u + 1
        BY <1>9, <3>1
      <3>3. n \in 1 .. u /\ n + 1 .. u \subseteq n + 1 .. u + 1
        BY <3>1, <3>2
      <3> QED
        BY <1>1, <3>1, <3>3
    <2>2. ASSUME NEW n \in O PROVE n \in P
      <3>1. n \in 1 .. u /\ K(n) = "start" /\ \A l \in n + 1 .. u : K(l) # "end"
        BY <1>1, <2>2
      <3>2. ASSUME NEW l \in n + 1 .. u + 1 PROVE K(l) # "end"
        <4>1. l = u + 1 \/ l \in n + 1 .. u
          BY <3>1
        <4> QED
          BY <1>9, <3>1, <4>1
      <3> QED
        BY <1>2, <3>1, <3>2
    <2>3. P = O
      BY <2>1, <2>2
    <2>4. IsBlock(u + 1, m)
      BY <1>3, <1>4, <1>5, <2>3 DEF IsBlock, P
    <2> QED
      BY <1>9, <2>4 DEF K
  <1> QED
    BY <1>7, <1>8, <1>9 DEF K

(* No block starts after the open one.                                     *)
LEMMA LastStart ==
  ASSUME NEW u \in Nat, NEW m, IsBlock(u, m), m # 0
  PROVE  /\ m \in 1 .. u /\ Contract!Kind(m) = "start"
         /\ \A n \in 1 .. u : Contract!Kind(n) = "start" => n <= m
  <1> DEFINE K(n) == Contract!Kind(n)
  <1>1. m \in OpenAt(u) /\ \A l \in OpenAt(u) : l <= m
    BY DEF IsBlock
  <1>2. m \in 1 .. u /\ K(m) = "start" /\ \A l \in m + 1 .. u : K(l) # "end"
    BY <1>1 DEF OpenAt
  <1> HIDE DEF K
  <1>3. ASSUME NEW n \in 1 .. u, K(n) = "start", ~(n <= m) PROVE FALSE
    <2>1. n + 1 .. u \subseteq m + 1 .. u
      BY <1>2, <1>3
    <2>2. n \in OpenAt(u)
      BY <1>2, <1>3, <2>1 DEF OpenAt, K
    <2> QED
      BY <1>1, <1>3, <2>2
  <1> QED
    BY <1>2, <1>3 DEF K

-----------------------------------------------------------------------------
(***************************************************************************)
(* What the lines say of a block, a line more.                             *)
(***************************************************************************)
LEMMA MembersType ==
  ASSUME NEW u \in Nat, NEW m \in Nat, NEW kind
  PROVE  LET S == Contract!Members(m, kind, u)
         IN  /\ S \subseteq 1 .. u /\ S \subseteq Int /\ IsFiniteSet(S) /\ Cardinality(S) \in Nat
             /\ \A n \in S : n < u + 1
  <1> DEFINE S == Contract!Members(m, kind, u)
  <1>1. S \subseteq 1 .. u
    BY DEF Contract!Members
  <1> HIDE DEF S
  <1>2. \A n \in S : n < u + 1 /\ n \in Int
    BY <1>1
  <1>3. IsFiniteSet(S) /\ Cardinality(S) \in Nat
    BY <1>1, FiniteUpTo
  <1> QED
    BY <1>1, <1>2, <1>3 DEF S

LEMMA MembersNext ==
  ASSUME NEW u \in Nat, NEW m \in Nat, m <= u, NEW kind
  PROVE  Contract!Members(m, kind, u + 1) =
           IF Contract!Kind(u + 1) = kind /\ Contract!BlockOf(u + 1) = m
           THEN Contract!Members(m, kind, u) \cup {u + 1}
           ELSE Contract!Members(m, kind, u)
  <1> DEFINE In(n) == Contract!Kind(n) = kind /\ Contract!BlockOf(n) = m
             S == Contract!Members(m, kind, u)
             T == Contract!Members(m, kind, u + 1)
  <1>1. S = {n \in m + 1 .. u : In(n)} /\ T = {n \in m + 1 .. u + 1 : In(n)}
    BY DEF Contract!Members
  <1>2. m + 1 .. u + 1 = (m + 1 .. u) \cup {u + 1}
    OBVIOUS
  <1> HIDE DEF In, S, T
  <1>3. T = IF In(u + 1) THEN S \cup {u + 1} ELSE S
    BY <1>1, <1>2
  <1> QED
    BY <1>3 DEF In, S, T

LEMMA NoMembersYet ==
  ASSUME NEW u \in Nat, NEW kind
  PROVE  Contract!Members(u, kind, u) = {}
  <1>1. u + 1 .. u = {}
    OBVIOUS
  <1> QED
    BY <1>1 DEF Contract!Members

LEMMA AppendIs ==
  ASSUME NEW c \in Nat, NEW f, f = [k \in 1 .. c |-> f[k]], NEW e
  PROVE  /\ Len(f) = c
         /\ Append(f, e) = [k \in 1 .. c + 1 |-> IF k = c + 1 THEN e ELSE f[k]]
  <1> DEFINE T == {f[k] : k \in 1 .. c} \cup {e}
             g == [k \in 1 .. c + 1 |-> IF k = c + 1 THEN e ELSE f[k]]
  <1>1. f \in [1 .. c -> T] /\ e \in T
    OBVIOUS
  <1> HIDE DEF T
  <1>2. f \in Seq(T) /\ Len(f) = c
    BY <1>1, FunctionIsSeq
  <1>3. /\ Append(f, e) \in Seq(T) /\ Len(Append(f, e)) = c + 1
        /\ Append(f, e)[c + 1] = e /\ \A k \in 1 .. c : Append(f, e)[k] = f[k]
    BY <1>1, <1>2, AppendProperties
  <1>4. g \in [1 .. c + 1 -> T] /\ c + 1 \in Nat
    BY <1>1
  <1>5. g \in Seq(T) /\ Len(g) = c + 1
    <2> HIDE DEF g
    <2> QED
      BY <1>4, FunctionIsSeq
  <1>6. ASSUME NEW k \in 1 .. c + 1 PROVE Append(f, e)[k] = g[k]
    BY <1>3
  <1> HIDE DEF g
  <1>7. Append(f, e) = g
    BY <1>3, <1>5, <1>6, SeqEqual
  <1> QED
    BY <1>2, <1>7 DEF g

LEMMA ColumnMore ==
  ASSUME NEW S, IsFiniteSet(S), S \subseteq Int, NEW x \in Int, \A n \in S : n < x
  PROVE  /\ ExportsAt(S \cup {x}) = Append(ExportsAt(S), lines[x].export)
         /\ AliasesAt(S \cup {x}) = Append(AliasesAt(S), lines[x].alias)
  <1> DEFINE T == S \cup {x}
             c == Cardinality(S)
  <1>1. /\ c \in Nat /\ Cardinality(T) = c + 1
        /\ \A k \in 1 .. c : InOrder(T)[k] = InOrder(S)[k]
        /\ InOrder(T)[c + 1] = x
    BY OneMore
  <1> HIDE DEF T, c
  <1>2. ExportsAt(T) = Append(ExportsAt(S), lines[x].export)
    <2> DEFINE f == ExportsAt(S)
               e == lines[x].export
    <2>1. f = [k \in 1 .. c |-> lines[InOrder(S)[k]].export]
      BY DEF ExportsAt, c
    <2>2. f = [k \in 1 .. c |-> f[k]]
      BY <2>1
    <2>3. Append(f, e) = [k \in 1 .. c + 1 |-> IF k = c + 1 THEN e ELSE f[k]]
      <3> HIDE DEF f, e
      <3> QED
        BY <1>1, <2>2, AppendIs
    <2>4. ExportsAt(T) = [k \in 1 .. c + 1 |-> lines[InOrder(T)[k]].export]
      BY <1>1 DEF ExportsAt
    <2> HIDE DEF f
    <2>5. ASSUME NEW k \in 1 .. c + 1
          PROVE  lines[InOrder(T)[k]].export = IF k = c + 1 THEN e ELSE f[k]
      <3>1. CASE k = c + 1
        BY <1>1, <3>1
      <3>2. CASE k \in 1 .. c /\ k # c + 1
        BY <1>1, <2>1, <3>2
      <3> QED
        BY <1>1, <3>1, <3>2
    <2> QED
      BY <2>3, <2>4, <2>5, Zenon DEF f
  <1>3. AliasesAt(T) = Append(AliasesAt(S), lines[x].alias)
    <2> DEFINE f == AliasesAt(S)
               e == lines[x].alias
    <2>1. f = [k \in 1 .. c |-> lines[InOrder(S)[k]].alias]
      BY DEF AliasesAt, c
    <2>2. f = [k \in 1 .. c |-> f[k]]
      BY <2>1
    <2>3. Append(f, e) = [k \in 1 .. c + 1 |-> IF k = c + 1 THEN e ELSE f[k]]
      <3> HIDE DEF f, e
      <3> QED
        BY <1>1, <2>2, AppendIs
    <2>4. AliasesAt(T) = [k \in 1 .. c + 1 |-> lines[InOrder(T)[k]].alias]
      BY <1>1 DEF AliasesAt
    <2> HIDE DEF f
    <2>5. ASSUME NEW k \in 1 .. c + 1
          PROVE  lines[InOrder(T)[k]].alias = IF k = c + 1 THEN e ELSE f[k]
      <3>1. CASE k = c + 1
        BY <1>1, <3>1
      <3>2. CASE k \in 1 .. c /\ k # c + 1
        BY <1>1, <2>1, <3>2
      <3> QED
        BY <1>1, <3>1, <3>2
    <2> QED
      BY <2>3, <2>4, <2>5, Zenon DEF f
  <1> QED
    BY <1>2, <1>3 DEF T

LEMMA NoColumn == ExportsAt({}) = <<>> /\ AliasesAt({}) = <<>>
  <1>1. Cardinality({}) = 0
    BY FS_EmptySet
  <1> QED
    BY <1>1 DEF ExportsAt, AliasesAt

LEMMA ColumnLength ==
  ASSUME NEW S, Cardinality(S) \in Nat
  PROVE  Len(ExportsAt(S)) = Cardinality(S)
  <1> DEFINE f == ExportsAt(S)
  <1>1. f = [k \in 1 .. Cardinality(S) |-> f[k]]
    BY DEF ExportsAt
  <1> QED
    BY <1>1, AppendIs

(* A line that adds nothing to block m.                                    *)
LEMMA DescribesNext ==
  ASSUME NEW u \in Nat, NEW m \in 1 .. u, NEW lib, Describes(u, m, lib),
         ~(Contract!Kind(u + 1) \in {"func", "var", "alias"} /\ Contract!BlockOf(u + 1) = m)
  PROVE  Describes(u + 1, m, lib)
  <1>1. m \in Nat /\ m <= u
    OBVIOUS
  <1>2. \A kind \in {"func", "var", "alias"} :
          Contract!Members(m, kind, u + 1) = Contract!Members(m, kind, u)
    BY <1>1, MembersNext
  <1>3. /\ Contract!Members(m, "func", u + 1) = Contract!Members(m, "func", u)
        /\ Contract!Members(m, "var", u + 1) = Contract!Members(m, "var", u)
        /\ Contract!Members(m, "alias", u + 1) = Contract!Members(m, "alias", u)
    BY <1>2
  <1> QED
    BY <1>3, Zenon DEF Describes

(* A new block is empty.                                                   *)
LEMMA DescribesNew ==
  ASSUME NEW u \in Nat, NEW lib, lib.name = lines[u].lib,
         lib.funcs = <<>>, lib.vars = <<>>, lib.aliases = <<>>
  PROVE  Describes(u, u, lib)
  BY NoMembersYet, NoColumn DEF Describes

(* A line of the open block adds one export or alias.                      *)
LEMMA DescribesMore ==
  ASSUME NEW u \in Nat, NEW m \in 1 .. u, NEW lib, Describes(u, m, lib),
         Contract!BlockOf(u + 1) = m, NEW new, new.name = lib.name
  PROVE  /\ Contract!Kind(u + 1) = "func"
              /\ new.funcs = Append(lib.funcs, lines[u + 1].export)
              /\ new.vars = lib.vars /\ new.aliases = lib.aliases
            => Describes(u + 1, m, new)
         /\ Contract!Kind(u + 1) = "var"
              /\ new.vars = Append(lib.vars, lines[u + 1].export)
              /\ new.funcs = lib.funcs /\ new.aliases = lib.aliases
            => Describes(u + 1, m, new)
         /\ Contract!Kind(u + 1) = "alias"
              /\ new.aliases = Append(lib.aliases, lines[u + 1].alias)
              /\ new.funcs = lib.funcs /\ new.vars = lib.vars
            => Describes(u + 1, m, new)
  <1> DEFINE M(kind) == Contract!Members(m, kind, u)
             N(kind) == Contract!Members(m, kind, u + 1)
             K == Contract!Kind(u + 1)
             Add(kind) == M(kind) \cup {u + 1}
  <1>1. m \in Nat /\ m <= u /\ u + 1 \in Int
    OBVIOUS
  <1>2. \A kind : N(kind) = IF K = kind THEN Add(kind) ELSE M(kind)
    BY <1>1, MembersNext
  <1>3. ASSUME NEW kind
        PROVE  /\ ExportsAt(Add(kind)) = Append(ExportsAt(M(kind)), lines[u + 1].export)
               /\ AliasesAt(Add(kind)) = Append(AliasesAt(M(kind)), lines[u + 1].alias)
    <2>1. /\ M(kind) \subseteq Int /\ IsFiniteSet(M(kind)) /\ \A n \in M(kind) : n < u + 1
      BY <1>1, MembersType
    <2> HIDE DEF M
    <2> QED
      BY <1>1, <2>1, ColumnMore
  <1>4. /\ lib.name = lines[m].lib /\ lib.funcs = ExportsAt(M("func"))
        /\ lib.vars = ExportsAt(M("var")) /\ lib.aliases = AliasesAt(M("alias"))
    BY DEF Describes
  <1>5. Describes(u + 1, m, new) <=>
          /\ new.name = lines[m].lib /\ new.funcs = ExportsAt(N("func"))
          /\ new.vars = ExportsAt(N("var")) /\ new.aliases = AliasesAt(N("alias"))
    BY DEF Describes
  <1> HIDE DEF M, N, K, Add
  <1>6. CASE K = "func"
    <2>1. N("func") = Add("func") /\ N("var") = M("var") /\ N("alias") = M("alias")
      BY <1>2, <1>6
    <2> QED
      BY <1>3, <1>4, <1>5, <1>6, <2>1 DEF K
  <1>7. CASE K = "var"
    <2>1. N("func") = M("func") /\ N("var") = Add("var") /\ N("alias") = M("alias")
      BY <1>2, <1>7
    <2> QED
      BY <1>3, <1>4, <1>5, <1>7, <2>1 DEF K
  <1>8. CASE K = "alias"
    <2>1. N("func") = M("func") /\ N("var") = M("var") /\ N("alias") = Add("alias")
      BY <1>2, <1>8
    <2> QED
      BY <1>3, <1>4, <1>5, <1>8, <2>1 DEF K
  <1> QED
    BY <1>6, <1>7, <1>8 DEF K

(* One line too many for the arrays of a library.                          *)
LEMMA TooManyIs ==
  ASSUME NEW u \in Nat, NEW m \in 1 .. u, NEW lib, Describes(u, m, lib),
         Contract!BlockOf(u + 1) = m, NEW max \in Nat
  PROVE  /\ Contract!TooMany(u + 1, "func", max)
              <=> Contract!Kind(u + 1) = "func" /\ Len(lib.funcs) >= max
         /\ Contract!TooMany(u + 1, "var", max)
              <=> Contract!Kind(u + 1) = "var" /\ Len(lib.vars) >= max
  <1>1. m \in Nat /\ m <= u /\ u + 1 \in Int
    OBVIOUS
  <1>2. ASSUME NEW kind, Contract!Kind(u + 1) = kind
        PROVE  /\ Contract!TooMany(u + 1, kind, max)
                    <=> Cardinality(Contract!Members(m, kind, u)) + 1 > max
               /\ Len(ExportsAt(Contract!Members(m, kind, u)))
                    = Cardinality(Contract!Members(m, kind, u))
               /\ Cardinality(Contract!Members(m, kind, u)) \in Nat
    <2> DEFINE M == Contract!Members(m, kind, u)
    <2>1. Contract!Members(m, kind, u + 1) = M \cup {u + 1}
      BY <1>1, <1>2, MembersNext
    <2>2. /\ M \subseteq Int /\ IsFiniteSet(M) /\ Cardinality(M) \in Nat
          /\ \A n \in M : n < u + 1
      BY <1>1, MembersType
    <2>3. Cardinality(M \cup {u + 1}) = Cardinality(M) + 1
      <3> HIDE DEF M
      <3> QED BY <1>1, <2>2, OneMore
    <2>4. Contract!TooMany(u + 1, kind, max) <=> Cardinality(M \cup {u + 1}) > max
      BY <1>2, <2>1, SameCount DEF Contract!TooMany
    <2> HIDE DEF M
    <2> QED
      BY <2>2, <2>3, <2>4, ColumnLength DEF M
  <1>3. \A x \in Nat : x + 1 > max <=> x >= max
    OBVIOUS
  <1>4. /\ lib.funcs = ExportsAt(Contract!Members(m, "func", u))
        /\ lib.vars = ExportsAt(Contract!Members(m, "var", u))
    BY DEF Describes
  <1>5. /\ Contract!TooMany(u + 1, "func", max) => Contract!Kind(u + 1) = "func"
        /\ Contract!TooMany(u + 1, "var", max) => Contract!Kind(u + 1) = "var"
    BY DEF Contract!TooMany
  <1> QED
    BY <1>2, <1>3, <1>4, <1>5
-----------------------------------------------------------------------------
(***************************************************************************)
(* The list of libraries and the blocks it describes, a line more.         *)
(***************************************************************************)
LEMMA ClosedType ==
  ASSUME NEW u \in Nat, NEW m
  PROVE  LET S == Closed(u, m) IN S \subseteq 1 .. u /\ S \subseteq Int /\ IsFiniteSet(S)
  <1> DEFINE S == Closed(u, m)
  <1>1. S \subseteq 1 .. u
    BY DEF Closed
  <1> HIDE DEF S
  <1>2. S \subseteq Int
    BY <1>1
  <1>3. IsFiniteSet(S)
    BY <1>1, FiniteUpTo
  <1> QED
    BY <1>1, <1>2, <1>3 DEF S

LEMMA ClosedNext ==
  ASSUME NEW u \in Nat, NEW m, IsBlock(u, m)
  PROVE  /\ Contract!Kind(u + 1) = "start" /\ m = 0 => Closed(u + 1, u + 1) = Closed(u, m)
         /\ Contract!Kind(u + 1) = "end" /\ m # 0 => Closed(u + 1, 0) = Closed(u, m) \cup {m}
         /\ Contract!Kind(u + 1) # "start" => Closed(u + 1, m) = Closed(u, m)
         /\ m # 0 => \A n \in Closed(u, m) : n < m
  <1> DEFINE K(n) == Contract!Kind(n)
  <1>1. \A p : Closed(u, p) = {n \in 1 .. u : K(n) = "start" /\ n # p}
    BY DEF Closed
  <1>2. \A p : Closed(u + 1, p) = {n \in 1 .. u + 1 : K(n) = "start" /\ n # p}
    BY DEF Closed
  <1>3. 1 .. u + 1 = (1 .. u) \cup {u + 1} /\ u + 1 \notin 1 .. u /\ 0 \notin 1 .. u + 1
    OBVIOUS
  <1>4. m # 0 => m \in 1 .. u /\ K(m) = "start" /\ \A n \in 1 .. u : K(n) = "start" => n <= m
    BY LastStart
  <1> HIDE DEF K
  <1>5. ASSUME K(u + 1) = "start", m = 0 PROVE Closed(u + 1, u + 1) = Closed(u, m)
    <2>1. \A n : n \in Closed(u + 1, u + 1) <=> n \in 1 .. u /\ K(n) = "start"
      BY <1>2, <1>3
    <2>2. \A n : n \in Closed(u, m) <=> n \in 1 .. u /\ K(n) = "start"
      BY <1>1, <1>3, <1>5
    <2> QED
      BY <2>1, <2>2
  <1>6. ASSUME K(u + 1) = "end", m # 0 PROVE Closed(u + 1, 0) = Closed(u, m) \cup {m}
    <2>1. \A n : n \in Closed(u + 1, 0) <=> n \in 1 .. u /\ K(n) = "start"
      BY <1>2, <1>3, <1>6
    <2>2. \A n : n \in Closed(u, m) \cup {m} <=> n \in 1 .. u /\ K(n) = "start"
      BY <1>1, <1>4, <1>6
    <2> QED
      BY <2>1, <2>2
  <1>7. ASSUME K(u + 1) # "start" PROVE Closed(u + 1, m) = Closed(u, m)
    <2>1. \A n : n \in Closed(u + 1, m) <=> n \in 1 .. u /\ K(n) = "start" /\ n # m
      BY <1>2, <1>3, <1>7
    <2>2. \A n : n \in Closed(u, m) <=> n \in 1 .. u /\ K(n) = "start" /\ n # m
      BY <1>1
    <2> QED
      BY <2>1, <2>2
  <1>8. ASSUME m # 0, NEW n \in Closed(u, m) PROVE n < m
    <2>1. n \in 1 .. u /\ K(n) = "start" /\ n # m
      BY <1>1, <1>8
    <2> QED
      BY <1>4, <1>8, <2>1
  <1> QED
    BY <1>5, <1>6, <1>7, <1>8 DEF K

(* A line that is not in the blocks of S.                                  *)
LEMMA ListNext ==
  ASSUME NEW u \in Nat, NEW m, IsBlock(u, m),
         NEW S, S \subseteq 1 .. u, m \notin S, NEW list, ListIs(u, S, list)
  PROVE  ListIs(u + 1, S, list)
  <1>1. Contract!BlockOf(u + 1) = m
    BY DEF IsBlock
  <1>2. ASSUME NEW k \in 1 .. Cardinality(S)
        PROVE  Describes(u + 1, InOrder(S)[k], list[k])
    <2>1. InOrder(S)[k] \in S /\ Describes(u, InOrder(S)[k], list[k])
      BY DEF ListIs, Sorted
    <2>2. InOrder(S)[k] \in 1 .. u /\ Contract!BlockOf(u + 1) # InOrder(S)[k]
      BY <1>1, <2>1
    <2> QED
      BY <2>1, <2>2, DescribesNext
  <1> QED
    BY <1>2 DEF ListIs

LEMMA ListMore ==
  ASSUME NEW u \in Nat, NEW S, S \subseteq Int, IsFiniteSet(S),
         NEW list \in Seq(LibRecord), ListIs(u, S, list),
         NEW x \in Int, \A n \in S : n < x, NEW lib \in LibRecord, Describes(u, x, lib)
  PROVE  ListIs(u, S \cup {x}, Append(list, lib))
  <1> DEFINE T == S \cup {x}
             c == Cardinality(S)
             new == Append(list, lib)
  <1>1. Sorted(S) /\ Len(list) = c /\ \A k \in 1 .. c : Describes(u, InOrder(S)[k], list[k])
    BY DEF ListIs
  <1>2. Sorted(T)
    BY <1>1, SortedMore
  <1>3. /\ c \in Nat /\ Cardinality(T) = c + 1
        /\ \A k \in 1 .. c : InOrder(T)[k] = InOrder(S)[k]
        /\ InOrder(T)[c + 1] = x
    BY OneMore
  <1>4. Len(new) = c + 1 /\ new[c + 1] = lib /\ \A k \in 1 .. c : new[k] = list[k]
    BY <1>1, AppendProperties
  <1> HIDE DEF T, c, new
  <1>5. ASSUME NEW k \in 1 .. c + 1 PROVE Describes(u, InOrder(T)[k], new[k])
    <2>1. CASE k = c + 1
      BY <1>3, <1>4, <2>1
    <2>2. CASE k \in 1 .. c
      BY <1>1, <1>3, <1>4, <2>2
    <2> QED
      BY <1>3, <2>1, <2>2
  <1> QED
    BY <1>2, <1>3, <1>4, <1>5 DEF ListIs, T, new

(***************************************************************************)
(* Reading, a line more: one lemma for each kind of line.                  *)
(***************************************************************************)
LEMMA OneMoreInPlace ==
  ASSUME NEW u \in Nat, \A n \in 1 .. u : ~Contract!OutOfPlace(n), ~Contract!OutOfPlace(u + 1)
  PROVE  \A n \in 1 .. u + 1 : ~Contract!OutOfPlace(n)
  <1>1. 1 .. u + 1 = (1 .. u) \cup {u + 1}
    OBVIOUS
  <1> QED
    BY <1>1

LEMMA NothingTooMany ==
  ASSUME NEW n, Contract!Kind(n) \notin {"func", "var"}, NEW max
  PROVE  ~Contract!TooMany(n, "func", max) /\ ~Contract!TooMany(n, "var", max)
  BY DEF Contract!TooMany

LEMMA ReadNothing ==
  ASSUME NEW u \in Nat, NEW m, NEW lib, NEW list, Reading(u, m, lib, list),
         Contract!Kind(u + 1) = "other" \/ (Contract!Kind(u + 1) = "end" /\ m = 0)
  PROVE  Reading(u + 1, m, lib, list)
  <1> DEFINE K == Contract!Kind(u + 1)
  <1>1. IsBlock(u, m) /\ Contract!BlockOf(u + 1) = m
    BY DEF Reading, IsBlock
  <1>2. ~Contract!OutOfPlace(u + 1)
    <2>1. K \notin {"func", "var", "alias", "start", "bad"}
      OBVIOUS
    <2>2. ~Contract!TooMany(u + 1, "func", MaxFuncs) /\ ~Contract!TooMany(u + 1, "var", MaxVars)
      BY <2>1, NothingTooMany
    <2> QED
      BY <2>1, <2>2 DEF Contract!OutOfPlace
  <1>3. IsBlock(u + 1, m) /\ Closed(u + 1, m) = Closed(u, m)
    BY <1>1, BlockNext, ClosedNext
  <1>4. Closed(u, m) \subseteq 1 .. u /\ m \notin Closed(u, m)
    BY ClosedType DEF Closed
  <1>5. ListIs(u + 1, Closed(u, m), list)
    BY <1>1, <1>4, ListNext DEF Reading
  <1>6. ASSUME m # 0 PROVE Describes(u + 1, m, lib)
    <2>1. m \in 1 .. u /\ Describes(u, m, lib)
      BY <1>1, <1>6, LastStart DEF Reading
    <2> QED
      BY <2>1, DescribesNext
  <1> QED
    BY <1>2, <1>3, <1>5, <1>6, OneMoreInPlace DEF Reading

LEMMA ReadStart ==
  ASSUME NEW u \in Nat, NEW lib, NEW list, Reading(u, 0, lib, list),
         Contract!Kind(u + 1) = "start",
         NEW new, new.name = lines[u + 1].lib, new.name # None,
         new.funcs = <<>>, new.vars = <<>>, new.aliases = <<>>
  PROVE  Reading(u + 1, u + 1, new, list)
  <1> DEFINE S == Closed(u, 0)
  <1>1. IsBlock(u, 0) /\ Contract!BlockOf(u + 1) = 0
    BY DEF Reading, IsBlock
  <1>2. ~Contract!OutOfPlace(u + 1)
    BY <1>1, NothingTooMany DEF Contract!OutOfPlace
  <1>3. IsBlock(u + 1, u + 1) /\ Closed(u + 1, u + 1) = S
    BY <1>1, BlockNext, ClosedNext
  <1>4. S \subseteq 1 .. u /\ 0 \notin S
    BY ClosedType DEF Closed
  <1>5. ListIs(u + 1, S, list)
    BY <1>1, <1>4, ListNext DEF Reading
  <1>6. Describes(u + 1, u + 1, new)
    BY DescribesNew
  <1>7. \A n \in 1 .. u + 1 : ~Contract!OutOfPlace(n)
    BY <1>2, OneMoreInPlace DEF Reading
  <1>8. u + 1 # 0
    OBVIOUS
  <1> HIDE DEF S
  <1> QED
    BY <1>3, <1>5, <1>6, <1>7, <1>8 DEF Reading

LEMMA ReadEnd ==
  ASSUME NEW u \in Nat, NEW m, m # 0, NEW lib \in LibRecord, NEW list \in Seq(LibRecord),
         Reading(u, m, lib, list),
         Contract!Kind(u + 1) = "end", NEW new, new.name = None
  PROVE  Reading(u + 1, 0, new, Append(list, lib))
  <1> DEFINE S == Closed(u, m)
  <1>1. IsBlock(u, m) /\ Contract!BlockOf(u + 1) = m
    BY DEF Reading, IsBlock
  <1>2. ~Contract!OutOfPlace(u + 1)
    BY <1>1, NothingTooMany DEF Contract!OutOfPlace
  <1>3. IsBlock(u + 1, 0) /\ Closed(u + 1, 0) = S \cup {m} /\ \A n \in S : n < m
    BY <1>1, BlockNext, ClosedNext
  <1>4. S \subseteq 1 .. u /\ S \subseteq Int /\ IsFiniteSet(S) /\ m \notin S
    BY ClosedType DEF Closed
  <1>5. m \in 1 .. u /\ m \in Int /\ u + 1 \in Nat
    BY <1>1, LastStart
  <1> HIDE DEF S
  <1>6. ListIs(u + 1, S, list)
    BY <1>1, <1>4, ListNext DEF Reading, S
  <1>7. Describes(u, m, lib)
    BY DEF Reading
  <1>8. Describes(u + 1, m, lib)
    BY <1>5, <1>7, DescribesNext
  <1>9. ListIs(u + 1, S \cup {m}, Append(list, lib))
    BY <1>3, <1>4, <1>5, <1>6, <1>8, ListMore
  <1>10. \A n \in 1 .. u + 1 : ~Contract!OutOfPlace(n)
    BY <1>2, OneMoreInPlace DEF Reading
  <1> QED
    BY <1>3, <1>9, <1>10 DEF Reading

LEMMA ReadMember ==
  ASSUME NEW u \in Nat, NEW m, m # 0, NEW lib, NEW list, Reading(u, m, lib, list),
         NEW new, new.name = lib.name, Contract!Kind(u + 1) \in {"func", "var", "alias"},
         Describes(u + 1, m, new), ~Contract!OutOfPlace(u + 1)
  PROVE  Reading(u + 1, m, new, list)
  <1> DEFINE S == Closed(u, m)
  <1>1. IsBlock(u, m) /\ Contract!BlockOf(u + 1) = m
    BY DEF Reading, IsBlock
  <1>2. IsBlock(u + 1, m) /\ Closed(u + 1, m) = S
    BY <1>1, BlockNext, ClosedNext
  <1>3. S \subseteq 1 .. u /\ m \notin S
    BY ClosedType DEF Closed
  <1>4. ListIs(u + 1, S, list)
    BY <1>1, <1>3, ListNext DEF Reading
  <1>5. \A n \in 1 .. u + 1 : ~Contract!OutOfPlace(n)
    BY OneMoreInPlace DEF Reading
  <1> HIDE DEF S
  <1> QED
    BY <1>2, <1>4, <1>5 DEF Reading

(***************************************************************************)
(* A line of the open block is in its place if there is room for it.       *)
(***************************************************************************)
LEMMA MemberInPlace ==
  ASSUME NEW u \in Nat, NEW m, NEW lib, NEW list, Reading(u, m, lib, list),
         Contract!Kind(u + 1) \in {"func", "var", "alias"}
  PROVE  Contract!OutOfPlace(u + 1) <=>
           \/ m = 0
           \/ Contract!Kind(u + 1) = "func" /\ Len(lib.funcs) >= MaxFuncs
           \/ Contract!Kind(u + 1) = "var" /\ Len(lib.vars) >= MaxVars
  <1>1. IsBlock(u, m) /\ Contract!BlockOf(u + 1) = m
    BY DEF Reading, IsBlock
  <1>2. CASE m = 0
    BY <1>1, <1>2 DEF Contract!OutOfPlace
  <1>3. CASE m # 0
    <2>1. m \in 1 .. u /\ Describes(u, m, lib)
      BY <1>1, <1>3, LastStart DEF Reading
    <2>2. /\ Contract!TooMany(u + 1, "func", MaxFuncs)
               <=> Contract!Kind(u + 1) = "func" /\ Len(lib.funcs) >= MaxFuncs
          /\ Contract!TooMany(u + 1, "var", MaxVars)
               <=> Contract!Kind(u + 1) = "var" /\ Len(lib.vars) >= MaxVars
      BY <1>1, <2>1, TooManyIs, ExpConstants
    <2> QED
      BY <1>1, <1>3, <2>2 DEF Contract!OutOfPlace
  <1> QED
    BY <1>2, <1>3

-----------------------------------------------------------------------------
(***************************************************************************)
(* The file is not changed, and so neither is what it says.                *)
(***************************************************************************)
LEMMA SameBlocks ==
  ASSUME lines' = lines
  PROVE  /\ \A n : Contract!Kind(n)' = Contract!Kind(n)
         /\ \A n : Contract!BlockOf(n)' = Contract!BlockOf(n)
         /\ \A m, kind, u : Contract!Members(m, kind, u)' = Contract!Members(m, kind, u)
         /\ \A m, kind : Contract!LinesOf(m, kind)' = Contract!LinesOf(m, kind)
         /\ Contract!Starts' = Contract!Starts
  <1>1. \A n : Contract!Kind(n)' = Contract!Kind(n)
    BY DEF Contract!Kind
  <1>2. ASSUME NEW n PROVE Contract!BlockOf(n)' = Contract!BlockOf(n)
    <2> DEFINE O == {m \in 1 .. n - 1 : Contract!Kind(m) = "start"
                                         /\ \A l \in m + 1 .. n - 1 : Contract!Kind(l) # "end"}
    <2>1. O' = O
      BY <1>1
    <2> DEFINE Last(Q) == IF Q = {} THEN 0 ELSE CHOOSE m \in Q : \A l \in Q : l <= m
    <2>2. PICK P : P = O
      OBVIOUS
    <2>3. Contract!BlockOf(n) = Last(O)
      BY DEF Contract!BlockOf
    <2>4. Contract!BlockOf(n)' = Last(O')
      BY DEF Contract!BlockOf
    <2>5. O' = P
      BY <2>1, <2>2
    <2> HIDE DEF O, Last
    <2>6. Contract!BlockOf(n) = Last(P) /\ Contract!BlockOf(n)' = Last(P)
      BY <2>2, <2>3, <2>4, <2>5
    <2> QED
      BY <2>6
  <1>3. ASSUME NEW m, NEW kind, NEW u
        PROVE  Contract!Members(m, kind, u)' = Contract!Members(m, kind, u)
    BY <1>1, <1>2 DEF Contract!Members
  <1>4. ASSUME NEW m, NEW kind PROVE Contract!LinesOf(m, kind)' = Contract!LinesOf(m, kind)
    BY <1>3 DEF Contract!LinesOf
  <1>5. Contract!Starts' = Contract!Starts
    BY <1>1 DEF Contract!Starts
  <1> QED
    BY <1>1, <1>2, <1>3, <1>4, <1>5

LEMMA SamePlaces ==
  ASSUME lines' = lines
  PROVE  /\ \A n : Contract!OutOfPlace(n)' <=> Contract!OutOfPlace(n)
         /\ Contract!Accepted' <=> Contract!Accepted
  <1>1. ASSUME NEW n PROVE Contract!OutOfPlace(n)' <=> Contract!OutOfPlace(n)
    <2>1. \A kind, max : Contract!TooMany(n, kind, max)' <=> Contract!TooMany(n, kind, max)
      BY SameBlocks DEF Contract!TooMany
    <2> QED
      BY <2>1, SameBlocks DEF Contract!OutOfPlace
  <1> QED
    BY <1>1, SameBlocks DEF Contract!Accepted

LEMMA SameReading ==
  ASSUME lines' = lines
  PROVE  /\ \A u, m, lib : Describes(u, m, lib)' <=> Describes(u, m, lib)
         /\ \A u, S, list : ListIs(u, S, list)' <=> ListIs(u, S, list)
         /\ \A u, m, lib, list : Reading(u, m, lib, list)' <=> Reading(u, m, lib, list)
  <1>1. ASSUME NEW u, NEW m, NEW lib PROVE Describes(u, m, lib)' <=> Describes(u, m, lib)
    <2>1. \A S : ExportsAt(S)' = ExportsAt(S) /\ AliasesAt(S)' = AliasesAt(S)
      BY DEF ExportsAt, AliasesAt
    <2> QED
      BY <2>1, SameBlocks DEF Describes
  <1>2. ASSUME NEW u, NEW S, NEW list PROVE ListIs(u, S, list)' <=> ListIs(u, S, list)
    BY <1>1 DEF ListIs
  <1>3. ASSUME NEW u, NEW m, NEW lib, NEW list
        PROVE  Reading(u, m, lib, list)' <=> Reading(u, m, lib, list)
    <2>1. OpenAt(u)' = OpenAt(u)
      BY SameBlocks DEF OpenAt
    <2>2. IsBlock(u, m)' <=> IsBlock(u, m)
      BY <2>1, SameBlocks DEF IsBlock
    <2>3. Closed(u, m)' = Closed(u, m)
      BY SameBlocks DEF Closed
    <2>4. (\A n \in 1 .. u : ~Contract!OutOfPlace(n))' <=> \A n \in 1 .. u : ~Contract!OutOfPlace(n)
      BY SamePlaces
    <2> QED
      BY <1>1, <1>2, <2>2, <2>3, <2>4 DEF Reading
  <1> QED
    BY <1>1, <1>2, <1>3

LEMMA SameList ==
  ASSUME lines' = lines, g_libhead' = g_libhead
  PROVE  /\ Loaded' <=> Loaded
         /\ \A p : PublicBefore(p)' = PublicBefore(p)
         /\ NameAt' = NameAt /\ CountAt' = CountAt
         /\ \A items, p, f : ItemsTo(items, p, f)' <=> ItemsTo(items, p, f)
  <1>1. Loaded' <=> Loaded
    BY SamePlaces, SameReading, SameBlocks DEF Loaded
  <1>2. ASSUME NEW p PROVE PublicBefore(p)' = PublicBefore(p)
    BY SameBlocks DEF PublicBefore
  <1>3. NameAt' = NameAt
    BY SameBlocks DEF NameAt
  <1>4. CountAt' = CountAt
    BY SameBlocks, Zenon DEF CountAt
  <1>5. ASSUME NEW items, NEW p, NEW f PROVE ItemsTo(items, p, f)' <=> ItemsTo(items, p, f)
    BY <1>2 DEF ItemsTo
  <1> QED
    BY <1>1, <1>2, <1>3, <1>4, <1>5

-----------------------------------------------------------------------------
(***************************************************************************)
(* What is read, at the beginning and after each line.                     *)
(***************************************************************************)
LEMMA ReadsNothingFirst ==
  ASSUME NEW lib, lib.name = None
  PROVE  Reading(0, 0, lib, <<>>)
  <1>1. IsBlock(0, 0)
    BY NoBlockAtFirst
  <1>2. Closed(0, 0) = {}
    BY DEF Closed
  <1>3. ListIs(0, {}, <<>>)
    BY SortedNone, FS_EmptySet DEF ListIs
  <1>4. 1 .. 0 = {}
    OBVIOUS
  <1> QED
    BY <1>1, <1>2, <1>3, <1>4 DEF Reading

LEMMA HasReadNext ==
  ASSUME lines' = lines, NEW u, line' = u, NEW m, NEW lib, Library' = lib,
         NEW list, g_libhead' = list, Reading(u, m, lib, list)
  PROVE  HasRead'
  <1>1. IsBlock(u, m)
    BY DEF Reading
  <1>2. Contract!BlockOf(u + 1) = m
    BY <1>1 DEF IsBlock
  <1>3. Contract!BlockOf(line + 1)' = m
    <2>1. Contract!BlockOf(line + 1)' = Contract!BlockOf(u + 1)'
      BY DEF Contract!BlockOf
    <2> QED
      BY <1>2, <2>1, SameBlocks
  <1>4. Reading(u, m, lib, list)'
    BY SameReading
  <1> QED
    BY <1>3, <1>4, Zenon DEF HasRead

LEMMA LibraryFields ==
  /\ Library.name = g_currlib /\ Library.funcs = funcs /\ Library.vars = vars
  /\ Library.aliases = aliases
  BY DEF Library

(* The line read and the block it is in, as the handlers see them.         *)
LEMMA LineRead ==
  ASSUME TypeOK, CountsMatch, HasRead
  PROVE  \E u, m, lib, list :
           /\ u \in Nat /\ u = line /\ lib = Library /\ list = g_libhead
           /\ Reading(u, m, lib, list)
           /\ m = 0 <=> g_currlib = None
           /\ lib.name = g_currlib /\ lib.funcs = funcs /\ lib.vars = vars
           /\ lib.aliases = aliases
           /\ Len(lib.funcs) = funcCount /\ Len(lib.vars) = varCount
  <1>1. line \in Nat
    BY DEF TypeOK
  <1>2. Reading(line, Contract!BlockOf(line + 1), Library, g_libhead)
    BY DEF HasRead
  <1>3. Contract!BlockOf(line + 1) = 0 <=> Library.name = None
    BY <1>2 DEF Reading
  <1>4. funcCount = Len(funcs) /\ varCount = Len(vars)
    BY DEF CountsMatch
  <1> QED
    BY <1>1, <1>2, <1>3, <1>4, LibraryFields


LEMMA ReadStep ==
  ASSUME TypeOK, CountsMatch, HasRead,
         \/ OtherLine \/ StrayEnd \/ ExportStart \/ ExportEnd
         \/ ExportFunc \/ ExportVar \/ ExportAlias
  PROVE  HasRead'
  <1> USE DEF NextLine, Reads, inputs, currVars, listVars
  <1>1. PICK u, m, lib, list :
          /\ u \in Nat /\ u = line /\ lib = Library /\ list = g_libhead
          /\ Reading(u, m, lib, list)
          /\ m = 0 <=> g_currlib = None
          /\ lib.name = g_currlib /\ lib.funcs = funcs /\ lib.vars = vars
          /\ lib.aliases = aliases
          /\ Len(lib.funcs) = funcCount /\ Len(lib.vars) = varCount
    BY LineRead
  <1>2. PICK new : new = Library'
    OBVIOUS
  <1>3. /\ new.name = g_currlib' /\ new.funcs = funcs' /\ new.vars = vars'
        /\ new.aliases = aliases'
    BY <1>2 DEF Library
  <1>4. PICK K : K = Contract!Kind(u + 1)
    OBVIOUS
  <1>5. K = lines[line + 1].kind
    BY <1>1, <1>4 DEF Contract!Kind
  <1>6. lines' = lines /\ line' = u + 1
    BY <1>1 DEF OtherLine, StrayEnd, ExportStart, ExportEnd, ExportFunc, ExportVar, ExportAlias
  <1>7. list \in Seq(LibRecord)
    BY <1>1 DEF TypeOK
  <1>8. ASSUME NEW p, NEW to, to = g_libhead', Reading(u + 1, p, new, to)
        PROVE  HasRead'
    <2>1. PICK v : v = u + 1
      OBVIOUS
    <2>2. line' = v /\ Library' = new /\ g_libhead' = to /\ Reading(v, p, new, to)
      BY <1>2, <1>6, <1>8, <2>1
    <2> QED
      BY <1>6, <2>2, HasReadNext
  <1>9. CASE OtherLine \/ StrayEnd
    <2>1. new = lib /\ g_libhead' = list
      BY <1>1, <1>2, <1>9 DEF OtherLine, StrayEnd, Library
    <2>2. K = "other" \/ (K = "end" /\ m = 0)
      BY <1>1, <1>5, <1>9 DEF OtherLine, StrayEnd
    <2>3. Reading(u + 1, m, new, list)
      BY <1>1, <1>4, <2>1, <2>2, ReadNothing
    <2> QED
      BY <1>8, <2>1, <2>3
  <1>10. CASE ExportStart
    <2>1. m = 0 /\ K = "start" /\ g_libhead' = list
      BY <1>1, <1>5, <1>10 DEF ExportStart
    <2>2. /\ new.name = lines[u + 1].lib /\ new.funcs = <<>> /\ new.vars = <<>>
          /\ new.aliases = <<>>
      BY <1>1, <1>3, <1>10 DEF ExportStart
    <2>3. new.name # None
      BY <1>1, <1>10, <2>2, LineFacts, ExpConstants DEF ExportStart, TypeOK
    <2>4. Reading(u + 1, u + 1, new, list)
      BY <1>1, <1>4, <2>1, <2>2, <2>3, ReadStart
    <2> QED
      BY <1>8, <2>1, <2>4
  <1>11. CASE ExportEnd
    <2>1. m # 0 /\ K = "end" /\ g_libhead' = Append(list, lib) /\ new.name = None
      BY <1>1, <1>3, <1>5, <1>11 DEF ExportEnd
    <2>2. lib \in LibRecord
      BY <1>1, <1>11, LibraryType DEF ExportEnd
    <2>3. Reading(u + 1, 0, new, Append(list, lib))
      BY <1>1, <1>4, <1>7, <2>1, <2>2, ReadEnd
    <2> QED
      BY <1>8, <2>1, <2>3
  <1>12. CASE ExportFunc \/ ExportVar \/ ExportAlias
    <2>1. /\ m # 0 /\ K \in {"func", "var", "alias"} /\ g_libhead' = list
          /\ K = "func" => Len(lib.funcs) < MaxFuncs
          /\ K = "var" => Len(lib.vars) < MaxVars
      BY <1>1, <1>5, <1>12 DEF ExportFunc, ExportVar, ExportAlias
    <2>2. MaxFuncs \in Nat /\ MaxVars \in Nat /\ funcCount \in Nat /\ varCount \in Nat
      BY ExpConstants DEF TypeOK
    <2>3. ~Contract!OutOfPlace(u + 1)
      BY <1>1, <1>4, <2>1, <2>2, MemberInPlace
    <2>4. IsBlock(u, m) /\ Contract!BlockOf(u + 1) = m
      BY <1>1 DEF Reading, IsBlock
    <2>5. m \in 1 .. u /\ Describes(u, m, lib)
      BY <1>1, <2>1, <2>4, LastStart DEF Reading
    <2>6. new.name = lib.name
      BY <1>1, <1>3, <1>12 DEF ExportFunc, ExportVar, ExportAlias
    <2>7. \/ /\ K = "func" /\ new.funcs = Append(lib.funcs, lines[u + 1].export)
             /\ new.vars = lib.vars /\ new.aliases = lib.aliases
          \/ /\ K = "var" /\ new.vars = Append(lib.vars, lines[u + 1].export)
             /\ new.funcs = lib.funcs /\ new.aliases = lib.aliases
          \/ /\ K = "alias" /\ new.aliases = Append(lib.aliases, lines[u + 1].alias)
             /\ new.funcs = lib.funcs /\ new.vars = lib.vars
      BY <1>1, <1>3, <1>5, <1>12 DEF ExportFunc, ExportVar, ExportAlias
    <2>8. Describes(u + 1, m, new)
      BY <1>1, <1>4, <2>4, <2>5, <2>6, <2>7, DescribesMore
    <2>9. Reading(u + 1, m, new, list)
      BY <1>1, <1>4, <2>1, <2>3, <2>6, <2>8, ReadMember
    <2> QED
      BY <1>8, <2>1, <2>9
  <1> QED
    BY <1>9, <1>10, <1>11, <1>12

(***************************************************************************)
(* A line the program rejects is out of place, and so is a block without   *)
(* an end; a file read to its end with none is one the contract accepts.   *)
(***************************************************************************)
LEMMA RejectedLine ==
  ASSUME TypeOK, CountsMatch, HasRead, BadLine \/ NestedStart \/ RejectExport
  PROVE  ~Contract!Accepted
  <1> USE DEF Reads
  <1>1. PICK u, m, lib, list :
          /\ u \in Nat /\ u = line /\ lib = Library /\ list = g_libhead
          /\ Reading(u, m, lib, list)
          /\ m = 0 <=> g_currlib = None
          /\ lib.name = g_currlib /\ lib.funcs = funcs /\ lib.vars = vars
          /\ lib.aliases = aliases
          /\ Len(lib.funcs) = funcCount /\ Len(lib.vars) = varCount
    BY LineRead
  <1>2. PICK K : K = Contract!Kind(u + 1)
    OBVIOUS
  <1>3. K = lines[line + 1].kind
    BY <1>1, <1>2 DEF Contract!Kind
  <1>4. u + 1 \in 1 .. Len(lines)
    <2>1. line < Len(lines) /\ lines \in Seq(Lines)
      BY ExpConstants DEF BadLine, NestedStart, RejectExport, TypeOK
    <2>2. Len(lines) \in Nat
      BY <2>1, LenProperties
    <2> QED
      BY <1>1, <2>1, <2>2
  <1>5. Contract!BlockOf(u + 1) = m
    BY <1>1 DEF Reading, IsBlock
  <1>6. Contract!OutOfPlace(u + 1)
    <2>1. CASE BadLine
      BY <1>2, <1>3, <2>1 DEF BadLine, Contract!OutOfPlace
    <2>2. CASE NestedStart
      BY <1>1, <1>2, <1>3, <1>5, <2>2 DEF NestedStart, Contract!OutOfPlace
    <2>3. CASE RejectExport
      <3>1. K \in {"func", "var", "alias"}
        BY <1>3, <2>3 DEF RejectExport
      <3>2. \/ m = 0
            \/ K = "func" /\ Len(lib.funcs) >= MaxFuncs
            \/ K = "var" /\ Len(lib.vars) >= MaxVars
        BY <1>1, <1>3, <2>3 DEF RejectExport
      <3> QED
        BY <1>1, <1>2, <3>1, <3>2, MemberInPlace
    <2> QED
      BY <2>1, <2>2, <2>3
  <1> QED
    BY <1>4, <1>6 DEF Contract!Accepted

LEMMA LinesType ==
  ASSUME TypeOK
  PROVE  lines \in Seq(Lines) /\ Len(lines) \in Nat
  <1>1. lines \in Seq(Lines)
    BY ExpConstants DEF TypeOK
  <1> QED
    BY <1>1, LenProperties

LEMMA FileIsRead ==
  ASSUME TypeOK, CountsMatch, HasRead, line = Len(lines)
  PROVE  /\ g_currlib # None => ~Contract!Accepted
         /\ g_currlib = None => Loaded
  <1>1. PICK u, m, lib, list :
          /\ u \in Nat /\ u = line /\ lib = Library /\ list = g_libhead
          /\ Reading(u, m, lib, list)
          /\ m = 0 <=> g_currlib = None
          /\ lib.name = g_currlib /\ lib.funcs = funcs /\ lib.vars = vars
          /\ lib.aliases = aliases
          /\ Len(lib.funcs) = funcCount /\ Len(lib.vars) = varCount
    BY LineRead
  <1>2. Contract!BlockOf(Len(lines) + 1) = m
    BY <1>1 DEF Reading, IsBlock
  <1>3. ASSUME g_currlib # None PROVE ~Contract!Accepted
    BY <1>1, <1>2, <1>3 DEF Contract!Accepted
  <1>4. ASSUME g_currlib = None PROVE Loaded
    <2>1. m = 0
      BY <1>1, <1>4
    <2>2. Contract!Accepted
      BY <1>1, <1>2, <2>1 DEF Contract!Accepted, Reading
    <2>3. Closed(u, 0) = Contract!Starts
      <3>1. \A n \in 1 .. u : n # 0
        OBVIOUS
      <3> QED
        BY <1>1, <3>1 DEF Closed, Contract!Starts
    <2>4. ListIs(u, Closed(u, 0), list)
      BY <1>1, <2>1 DEF Reading
    <2> QED
      BY <1>1, <2>2, <2>3, <2>4 DEF Loaded
  <1> QED
    BY <1>3, <1>4

-----------------------------------------------------------------------------
(***************************************************************************)
(* The loops that print: a library more.                                   *)
(***************************************************************************)
LEMMA BlocksAre ==
  ASSUME TypeOK, Loaded
  PROVE  LET S == Contract!Starts
         IN  /\ S \subseteq Int /\ IsFiniteSet(S) /\ Sorted(S)
             /\ Len(g_libhead) = Cardinality(S) /\ Len(g_libhead) \in Nat
             /\ DOMAIN Contract!Blocks = 1 .. Len(g_libhead)
             /\ \A k \in 1 .. Len(g_libhead) :
                  /\ Contract!Blocks[k] = InOrder(S)[k]
                  /\ InOrder(S)[k] \in S
                  /\ g_libhead[k] \in LibRecord
                  /\ Describes(Len(lines), InOrder(S)[k], g_libhead[k])
  <1> DEFINE S == Contract!Starts
  <1>1. S \subseteq 1 .. Len(lines) /\ Len(lines) \in Nat
    BY LinesType DEF Contract!Starts
  <1>2. ListIs(Len(lines), S, g_libhead)
    BY DEF Loaded
  <1>3. g_libhead \in Seq(LibRecord)
    BY DEF TypeOK
  <1>4. Contract!Blocks = InOrder(S)
    BY SameOrder DEF Contract!Blocks
  <1> HIDE DEF S
  <1>5. S \subseteq Int
    BY <1>1
  <1>6. IsFiniteSet(S)
    BY <1>1, FiniteUpTo
  <1>7. Sorted(S) /\ Len(g_libhead) = Cardinality(S) /\ Len(g_libhead) \in Nat
    BY <1>2, <1>3, LenProperties DEF ListIs
  <1>8. DOMAIN Contract!Blocks = 1 .. Len(g_libhead)
    BY <1>4, <1>7, InOrderIs
  <1>9. ASSUME NEW k \in 1 .. Len(g_libhead)
        PROVE  /\ Contract!Blocks[k] = InOrder(S)[k] /\ InOrder(S)[k] \in S
               /\ g_libhead[k] \in LibRecord
               /\ Describes(Len(lines), InOrder(S)[k], g_libhead[k])
    BY <1>2, <1>3, <1>4, <1>7 DEF ListIs, Sorted
  <1> QED
    BY <1>5, <1>6, <1>7, <1>8, <1>9 DEF S

LEMMA PublicFirst == PublicBefore(1) = {}
  <1>1. 1 .. 1 - 1 = {}
    OBVIOUS
  <1> QED
    BY <1>1 DEF PublicBefore

LEMMA PublicNext ==
  ASSUME TypeOK, Loaded, NEW p \in 1 .. Len(g_libhead)
  PROVE  LET S == PublicBefore(p)
             x == InOrder(Contract!Starts)[p]
         IN  /\ S \subseteq Int /\ IsFiniteSet(S) /\ x \in Int /\ \A n \in S : n < x
             /\ PublicBefore(p + 1) = IF g_libhead[p].name # SyslibName THEN S \cup {x} ELSE S
  <1> DEFINE B(k) == InOrder(Contract!Starts)[k]
             Pub(k) == g_libhead[k].name # SyslibName
             S == PublicBefore(p)
             T == PublicBefore(p + 1)
  <1>1. /\ Contract!Starts \subseteq Int /\ IsFiniteSet(Contract!Starts)
        /\ Len(g_libhead) = Cardinality(Contract!Starts) /\ Len(g_libhead) \in Nat
        /\ \A k \in 1 .. Len(g_libhead) : B(k) \in Contract!Starts
    BY BlocksAre
  <1>2. \A j, k \in 1 .. Len(g_libhead) : j < k => B(j) < B(k)
    BY <1>1, BlocksAre DEF Sorted
  <1>3. /\ S = {B(k) : k \in {j \in 1 .. p - 1 : Pub(j)}}
        /\ T = {B(k) : k \in {j \in 1 .. p + 1 - 1 : Pub(j)}}
    BY DEF PublicBefore
  <1> HIDE DEF B, Pub, S, T
  <1>4. \A n : n \in S <=> \E k \in 1 .. p - 1 : Pub(k) /\ n = B(k)
    BY <1>3
  <1>5. \A n : n \in T <=> \E k \in 1 .. p : Pub(k) /\ n = B(k)
    <2>1. p + 1 - 1 = p
      OBVIOUS
    <2> QED
      BY <1>3, <2>1
  <1>6. ASSUME NEW n \in S PROVE n \in Contract!Starts /\ n < B(p)
    <2>1. PICK k \in 1 .. p - 1 : n = B(k)
      BY <1>4
    <2>2. k \in 1 .. Len(g_libhead) /\ k < p
      BY <1>1
    <2> QED
      BY <1>1, <1>2, <2>1, <2>2
  <1>7. S \subseteq Contract!Starts
    BY <1>6
  <1>8. S \subseteq Int /\ IsFiniteSet(S) /\ B(p) \in Int
    BY <1>1, <1>7, FS_Subset
  <1>9. 1 .. p = (1 .. p - 1) \cup {p} /\ p \notin 1 .. p - 1
    BY <1>1
  <1>10. \A n : n \in T <=> n \in S \/ (Pub(p) /\ n = B(p))
    BY <1>4, <1>5, <1>9
  <1>11. T = IF Pub(p) THEN S \cup {B(p)} ELSE S
    BY <1>10
  <1> QED
    BY <1>6, <1>8, <1>11 DEF B, Pub, S, T

LEMMA ItemsFirst ==
  ASSUME NEW f PROVE ItemsTo(<<>>, 1, f)
  <1>1. Cardinality(PublicBefore(1)) = 0 /\ Sorted(PublicBefore(1))
    BY PublicFirst, SortedNone, FS_EmptySet
  <1>2. Len(<<>>) = 0 /\ 1 .. 0 = {}
    OBVIOUS
  <1>3. <<>> = [k \in 1 .. Len(<<>>) |-> <<>>[k]]
    BY <1>2
  <1> QED
    BY <1>1, <1>2, <1>3 DEF ItemsTo

LEMMA ItemsSkip ==
  ASSUME TypeOK, Loaded, NEW p \in 1 .. Len(g_libhead), NEW items, NEW f,
         ItemsTo(items, p, f), g_libhead[p].name = SyslibName
  PROVE  ItemsTo(items, p + 1, f)
  <1>1. PublicBefore(p + 1) = PublicBefore(p)
    BY PublicNext
  <1>2. p + 1 <= Len(g_libhead) => p <= Len(g_libhead)
    BY BlocksAre
  <1> QED
    BY <1>1, <1>2 DEF ItemsTo

LEMMA ItemsMore ==
  ASSUME TypeOK, Loaded, NEW p \in 1 .. Len(g_libhead), NEW items, NEW f,
         ItemsTo(items, p, f), g_libhead[p].name # SyslibName,
         NEW x, x = f[InOrder(Contract!Starts)[p]],
         NEW item, item = [item |-> x, sep |-> p < Len(g_libhead)]
  PROVE  ItemsTo(Append(items, item), p + 1, f)
  <1> DEFINE S == PublicBefore(p)
             b == InOrder(Contract!Starts)[p]
             T == PublicBefore(p + 1)
             c == Cardinality(S)
             new == Append(items, item)
  <1>1. /\ S \subseteq Int /\ IsFiniteSet(S) /\ b \in Int /\ \A n \in S : n < b
        /\ T = S \cup {b}
    BY PublicNext
  <1>2. /\ items = [k \in 1 .. Len(items) |-> items[k]] /\ Sorted(S) /\ Len(items) = c
        /\ \A k \in 1 .. Len(items) :
             /\ items[k].item = f[InOrder(S)[k]]
             /\ (k < Len(items) \/ p <= Len(g_libhead)) => items[k].sep
    BY DEF ItemsTo
  <1> HIDE DEF S, T, b
  <1>3. Sorted(T)
    BY <1>1, <1>2, SortedMore
  <1>4. /\ c \in Nat /\ Cardinality(T) = c + 1
        /\ \A k \in 1 .. c : InOrder(T)[k] = InOrder(S)[k]
        /\ InOrder(T)[c + 1] = b
    BY <1>1, OneMore
  <1> HIDE DEF c
  <1>5. new = [k \in 1 .. c + 1 |-> IF k = c + 1 THEN item ELSE items[k]]
    BY <1>2, <1>4, AppendIs
  <1> HIDE DEF new
  <1>6. /\ new[c + 1] = item /\ \A k \in 1 .. c : new[k] = items[k]
        /\ new = [k \in 1 .. c + 1 |-> new[k]]
    BY <1>4, <1>5
  <1>7. Len(new) = c + 1
    <2>1. c + 1 \in Nat
      BY <1>4
    <2> QED
      BY <1>6, <2>1, AppendIs
  <1>8. ASSUME NEW k \in 1 .. c + 1
        PROVE  /\ new[k].item = f[InOrder(T)[k]]
               /\ (k < c + 1 \/ p + 1 <= Len(g_libhead)) => new[k].sep
    <2>1. CASE k = c + 1
      <3>1. Len(g_libhead) \in Nat /\ (p + 1 <= Len(g_libhead) => p < Len(g_libhead))
        BY BlocksAre
      <3>2. new[k].item = f[InOrder(T)[k]]
        BY <1>4, <1>6, <2>1 DEF b
      <3>3. new[k].sep = (p < Len(g_libhead))
        BY <1>6, <2>1
      <3>4. k < c + 1 \/ p + 1 <= Len(g_libhead) => p < Len(g_libhead)
        BY <1>4, <2>1, <3>1
      <3> QED
        BY <3>2, <3>3, <3>4
    <2>2. CASE k \in 1 .. c
      <3>1. new[k] = items[k] /\ InOrder(T)[k] = InOrder(S)[k] /\ k \in 1 .. Len(items)
        BY <1>2, <1>4, <1>6, <2>2
      <3>2. p <= Len(g_libhead)
        BY BlocksAre
      <3> QED
        BY <1>2, <3>1, <3>2
    <2> QED
      BY <1>4, <2>1, <2>2
  <1>9. new = [k \in 1 .. Len(new) |-> new[k]]
    BY <1>6, <1>7
  <1>10. ItemsTo(new, p + 1, f) <=>
           /\ new = [k \in 1 .. Len(new) |-> new[k]]
           /\ Sorted(T)
           /\ Len(new) = Cardinality(T)
           /\ \A k \in 1 .. Len(new) :
                /\ new[k].item = f[InOrder(T)[k]]
                /\ (k < Len(new) \/ p + 1 <= Len(g_libhead)) => new[k].sep
    BY DEF ItemsTo, T
  <1> QED
    BY <1>3, <1>4, <1>7, <1>8, <1>9, <1>10 DEF new

(* What is printed of a library is what its block says.                    *)
LEMMA LinesOfBlock ==
  ASSUME TypeOK, NEW m \in Nat, NEW kind
  PROVE  /\ Contract!LinesOf(m, kind) = InOrder(Contract!Members(m, kind, Len(lines)))
         /\ DOMAIN Contract!LinesOf(m, kind)
              = 1 .. Cardinality(Contract!Members(m, kind, Len(lines)))
         /\ Len(Contract!LinesOf(m, kind))
              = Len(ExportsAt(Contract!Members(m, kind, Len(lines))))
         /\ Contract!ExportsOf(m, kind) = ExportsAt(Contract!Members(m, kind, Len(lines)))
  <1> DEFINE S == Contract!Members(m, kind, Len(lines))
             at == Contract!LinesOf(m, kind)
             c == Cardinality(S)
  <1>1. Len(lines) \in Nat
    BY LinesType
  <1>2. c \in Nat
    BY <1>1, MembersType
  <1>3. at = InOrder(S)
    BY SameOrder DEF Contract!LinesOf
  <1>4. Contract!ExportsOf(m, kind) = [k \in DOMAIN at |-> lines[at[k]].export]
    BY DEF Contract!ExportsOf
  <1> HIDE DEF S, at
  <1>5. DOMAIN at = 1 .. c
    BY <1>3, InOrderIs
  <1>6. at = [k \in 1 .. c |-> at[k]]
    BY <1>3 DEF InOrder
  <1> HIDE DEF c
  <1>7. Len(at) = c
    BY <1>2, <1>6, AppendIs
  <1>8. Len(ExportsAt(S)) = c
    BY <1>2, ColumnLength DEF c
  <1>9. Contract!ExportsOf(m, kind) = ExportsAt(S)
    BY <1>3, <1>4, <1>5, Zenon DEF ExportsAt, c
  <1> QED
    BY <1>3, <1>5, <1>7, <1>8, <1>9 DEF at, S, c

LEMMA LibraryIsBlock ==
  ASSUME TypeOK, CountsMatch, Loaded, NEW p \in 1 .. Len(g_libhead)
  PROVE  LET m == InOrder(Contract!Starts)[p]
             l == g_libhead[p]
         IN  /\ m \in Contract!Starts /\ m \in Nat /\ m = Contract!Blocks[p]
             /\ l.name = lines[m].lib
             /\ l.funcs = Contract!ExportsOf(m, "func") /\ l.vars = Contract!ExportsOf(m, "var")
             /\ l.funcCount = Len(Contract!LinesOf(m, "func"))
             /\ l.varCount = Len(Contract!LinesOf(m, "var"))
             /\ NameAt[m] = l.name /\ CountAt[m] = l.funcCount + l.varCount
  <1> DEFINE m == InOrder(Contract!Starts)[p]
             l == g_libhead[p]
  <1>1. /\ m = Contract!Blocks[p] /\ m \in Contract!Starts /\ l \in LibRecord
        /\ Describes(Len(lines), m, l)
    BY BlocksAre
  <1>2. m \in Nat
    BY <1>1, LinesType DEF Contract!Starts
  <1>3. p \in DOMAIN g_libhead
    BY DEF TypeOK
  <1>4. l.funcCount = Len(l.funcs) /\ l.varCount = Len(l.vars)
    BY <1>3 DEF CountsMatch
  <1> HIDE DEF m, l
  <1>5. /\ l.name = lines[m].lib
        /\ l.funcs = ExportsAt(Contract!Members(m, "func", Len(lines)))
        /\ l.vars = ExportsAt(Contract!Members(m, "var", Len(lines)))
    BY <1>1 DEF Describes
  <1>6. /\ l.funcs = Contract!ExportsOf(m, "func") /\ l.vars = Contract!ExportsOf(m, "var")
        /\ l.funcCount = Len(Contract!LinesOf(m, "func"))
        /\ l.varCount = Len(Contract!LinesOf(m, "var"))
    BY <1>2, <1>4, <1>5, LinesOfBlock
  <1>7. NameAt[m] = l.name /\ CountAt[m] = l.funcCount + l.varCount
    BY <1>1, <1>5, <1>6 DEF NameAt, CountAt
  <1> QED
    BY <1>1, <1>2, <1>5, <1>6, <1>7 DEF m, l


LEMMA NamesNext ==
  ASSUME TypeOK, CountsMatch, Loaded, PrintName, ItemsTo(names, pLib, NameAt)
  PROVE  ItemsTo(names, pLib, NameAt)'
  <1>1. PICK p, list, f : p = pLib /\ list = names /\ f = NameAt
    OBVIOUS
  <1>2. PICK new : new = names'
    OBVIOUS
  <1>3. /\ lines' = lines /\ g_libhead' = g_libhead /\ pLib' = p + 1
        /\ p \in 1 .. Len(g_libhead)
    BY <1>1 DEF PrintName, Printing, inputs, listVars, TypeOK
  <1>4. NameAt' = f
    BY <1>1, <1>3, SameList
  <1>5. ItemsTo(new, p + 1, f)
    <2>1. CASE IsSyslib
      <3>1. new = list /\ g_libhead[p].name = SyslibName
        BY <1>1, <1>2, <2>1 DEF PrintName, IsSyslib, Lib
      <3> QED
        BY <1>1, <1>3, <3>1, ItemsSkip
    <2>2. CASE ~IsSyslib
      <3>1. PICK x, item : x = Lib.name /\ item = Item(x)
        OBVIOUS
      <3>2. new = Append(list, item) /\ g_libhead[p].name # SyslibName
        BY <1>1, <1>2, <2>2, <3>1 DEF PrintName, IsSyslib, Lib
      <3>3. x = f[InOrder(Contract!Starts)[p]]
        BY <1>1, <1>3, <3>1, LibraryIsBlock DEF Lib
      <3>4. item = [item |-> x, sep |-> p < Len(g_libhead)]
        BY <1>1, <3>1 DEF Item
      <3> QED
        BY <1>1, <1>3, <3>2, <3>3, <3>4, ItemsMore
    <2> QED
      BY <2>1, <2>2
  <1>6. PICK q : q = p + 1
    OBVIOUS
  <1>7. ItemsTo(new, q, f)'
    BY <1>3, <1>5, <1>6, SameList
  <1>8. names' = new /\ pLib' = q /\ NameAt' = f
    BY <1>2, <1>3, <1>4, <1>6
  <1> QED
    BY <1>7, <1>8, Zenon

LEMMA CountsNext ==
  ASSUME TypeOK, CountsMatch, Loaded, PrintCount, ItemsTo(counts, pLib, CountAt)
  PROVE  ItemsTo(counts, pLib, CountAt)'
  <1>1. PICK p, list, f : p = pLib /\ list = counts /\ f = CountAt
    OBVIOUS
  <1>2. PICK new : new = counts'
    OBVIOUS
  <1>3. /\ lines' = lines /\ g_libhead' = g_libhead /\ pLib' = p + 1
        /\ p \in 1 .. Len(g_libhead)
    BY <1>1 DEF PrintCount, Printing, inputs, listVars, TypeOK
  <1>4. CountAt' = f
    BY <1>1, <1>3, SameList
  <1>5. ItemsTo(new, p + 1, f)
    <2>1. CASE IsSyslib
      <3>1. new = list /\ g_libhead[p].name = SyslibName
        BY <1>1, <1>2, <2>1 DEF PrintCount, IsSyslib, Lib
      <3> QED
        BY <1>1, <1>3, <3>1, ItemsSkip
    <2>2. CASE ~IsSyslib
      <3>1. PICK x, item : x = Lib.funcCount + Lib.varCount /\ item = Item(x)
        OBVIOUS
      <3>2. new = Append(list, item) /\ g_libhead[p].name # SyslibName
        BY <1>1, <1>2, <2>2, <3>1 DEF PrintCount, IsSyslib, Lib
      <3>3. x = f[InOrder(Contract!Starts)[p]]
        BY <1>1, <1>3, <3>1, LibraryIsBlock DEF Lib
      <3>4. item = [item |-> x, sep |-> p < Len(g_libhead)]
        BY <1>1, <3>1 DEF Item
      <3> QED
        BY <1>1, <1>3, <3>2, <3>3, <3>4, ItemsMore
    <2> QED
      BY <2>1, <2>2
  <1>6. PICK q : q = p + 1
    OBVIOUS
  <1>7. ItemsTo(new, q, f)'
    BY <1>3, <1>5, <1>6, SameList
  <1>8. counts' = new /\ pLib' = q /\ CountAt' = f
    BY <1>2, <1>3, <1>4, <1>6
  <1> QED
    BY <1>7, <1>8, Zenon

LEMMA TablesNext ==
  ASSUME TypeOK, PrintTable, TablesTo(pLib)
  PROVE  TablesTo(pLib)'
  <1>1. PICK p, t : p = pLib /\ t = [size  |-> (Lib.funcCount + Lib.varCount) * 2,
                                     cells |-> Cells(Lib)]
    OBVIOUS
  <1>2. /\ tables' = Append(tables, t) /\ pLib' = p + 1 /\ g_libhead' = g_libhead
        /\ p \in Nat
    BY <1>1 DEF PrintTable, listVars, TypeOK
  <1>3. Len(tables) = p - 1 /\ \A k \in 1 .. p - 1 : tables[k].cells = Cells(g_libhead[k])
    BY <1>1 DEF TablesTo
  <1>4. /\ Len(tables') = p /\ tables'[p] = t
        /\ \A k \in 1 .. p - 1 : tables'[k] = tables[k]
    <2>1. tables \in Seq([size : Nat, cells : Seq(Nids \cup Names)])
      BY DEF TypeOK
    <2>2. p - 1 + 1 = p
      BY <1>2
    <2> QED
      BY <1>2, <1>3, <2>1, <2>2, AppendProperties
  <1>5. t.cells = Cells(g_libhead[p])
    BY <1>1 DEF Lib
  <1>6. ASSUME NEW k \in 1 .. p PROVE tables'[k].cells = Cells(g_libhead[k])
    <2>1. k = p \/ k \in 1 .. p - 1
      BY <1>2
    <2> QED
      BY <1>3, <1>4, <1>5, <2>1
  <1>7. TablesTo(pLib)' <=>
          /\ Len(tables') = pLib' - 1
          /\ \A k \in 1 .. pLib' - 1 : tables'[k].cells = Cells(g_libhead'[k])
    BY DEF TablesTo
  <1>8. pLib' - 1 = p
    BY <1>2
  <1> QED
    BY <1>2, <1>4, <1>6, <1>7, <1>8

LEMMA EntriesNext ==
  ASSUME TypeOK, PrintEntry, EntriesTo(pLib)
  PROVE  EntriesTo(pLib)'
  <1> DEFINE Entry == [name : LibNames \cup {None}, vars : Nat, funcs : Nat]
  <1>1. PICK p, e : p = pLib /\ e = EntryOf(Lib)
    OBVIOUS
  <1>2. /\ entries' = Append(entries, e) /\ pLib' = p + 1 /\ g_libhead' = g_libhead
        /\ p \in Nat
    BY <1>1 DEF PrintEntry, listVars, TypeOK, EntryOf, IsSyslib
  <1>3. /\ entries \in Seq(Entry) /\ Len(entries) = p - 1
        /\ \A k \in 1 .. p - 1 : entries[k] = EntryOf(g_libhead[k])
    BY <1>1 DEF EntriesTo
  <1>4. Lib \in LibRecord
    BY DEF PrintEntry, Printing, TypeOK, Lib
  <1>5. e \in Entry
    BY <1>1, <1>4 DEF EntryOf, LibRecord
  <1>6. /\ entries' \in Seq(Entry) /\ Len(entries') = p /\ entries'[p] = e
        /\ \A k \in 1 .. p - 1 : entries'[k] = entries[k]
    <2> HIDE DEF Entry
    <2>1. p - 1 + 1 = p
      BY <1>2
    <2> QED
      BY <1>2, <1>3, <1>5, <2>1, AppendProperties
  <1>7. ASSUME NEW k \in 1 .. p PROVE entries'[k] = EntryOf(g_libhead[k])
    <2>1. k = p \/ k \in 1 .. p - 1
      BY <1>2
    <2> QED
      BY <1>1, <1>3, <1>6, <2>1 DEF Lib
  <1>8. EntriesTo(pLib)' <=>
          /\ entries' \in Seq(Entry)
          /\ Len(entries') = pLib' - 1
          /\ \A k \in 1 .. pLib' - 1 : entries'[k] = EntryOf(g_libhead'[k])
    BY DEF EntriesTo
  <1>9. pLib' - 1 = p
    BY <1>2
  <1> QED
    BY <1>2, <1>6, <1>7, <1>8, <1>9

LEMMA StubsNext ==
  ASSUME TypeOK, WriteStubs, StubsTo(pLib)
  PROVE  StubsTo(pLib)'
  <1> DEFINE N(k) == g_libhead[k].name
             St(k) == StubsOf(g_libhead[k])
             X == refused \cup {SyslibName}
  <1>1. PICK p : p = pLib
    OBVIOUS
  <1>2. /\ pLib' = p + 1 /\ g_libhead' = g_libhead /\ refused' = refused /\ mode' = mode
        /\ p \in Nat \ {0}
    BY <1>1 DEF WriteStubs, listVars, inputs, TypeOK
  <1>3. stubs' = IF N(p) \in X THEN stubs
                 ELSE [n \in DOMAIN stubs \cup {N(p)} |-> IF n = N(p) THEN St(p) ELSE stubs[n]]
    BY <1>1 DEF WriteStubs, IsSyslib, Lib
  <1>4. /\ DOMAIN stubs = {N(k) : k \in 1 .. p - 1} \ X
        /\ \A l \in DOMAIN stubs : \E k \in 1 .. p - 1 :
             N(k) = l /\ stubs[l] = St(k) /\ \A j \in k + 1 .. p - 1 : N(j) # l
    BY <1>1 DEF StubsTo
  <1>5. StubsTo(pLib)' <=>
          /\ DOMAIN stubs' = {N(k) : k \in 1 .. p} \ X
          /\ \A l \in DOMAIN stubs' : \E k \in 1 .. p :
               N(k) = l /\ stubs'[l] = St(k) /\ \A j \in k + 1 .. p : N(j) # l
    <2>1. p + 1 - 1 = p
      BY <1>2
    <2>2. \A l : StubsOf(l)' = StubsOf(l)
      BY <1>2 DEF StubsOf, AliasOf
    <2>3. StubsTo(pLib)' <=>
            /\ DOMAIN stubs' = {g_libhead'[k].name : k \in 1 .. pLib' - 1} \ (refused' \cup {SyslibName})
            /\ \A l \in DOMAIN stubs' : \E k \in 1 .. pLib' - 1 :
                 /\ g_libhead'[k].name = l /\ stubs'[l] = StubsOf(g_libhead[k])'
                 /\ \A j \in k + 1 .. pLib' - 1 : g_libhead'[j].name # l
      BY DEF StubsTo
    <2>4. \A k : StubsOf(g_libhead[k])' = StubsOf(g_libhead[k])
      BY <1>2 DEF StubsOf, AliasOf
    <2> QED
      BY <1>2, <2>1, <2>3, <2>4
  <1> HIDE DEF N, St, X
  <1>6. 1 .. p = (1 .. p - 1) \cup {p} /\ p + 1 .. p = {}
    BY <1>2
  <1>7. ASSUME NEW k \in 1 .. p - 1 PROVE k + 1 .. p = (k + 1 .. p - 1) \cup {p}
    BY <1>2
  <1>8. CASE N(p) \in X
    <2>1. stubs' = stubs
      BY <1>3, <1>8
    <2>2. {N(k) : k \in 1 .. p} \ X = {N(k) : k \in 1 .. p - 1} \ X
      BY <1>6, <1>8
    <2>3. ASSUME NEW l \in DOMAIN stubs
          PROVE  \E k \in 1 .. p : N(k) = l /\ stubs[l] = St(k) /\ \A j \in k + 1 .. p : N(j) # l
      <3>1. PICK k \in 1 .. p - 1 :
              N(k) = l /\ stubs[l] = St(k) /\ \A j \in k + 1 .. p - 1 : N(j) # l
        BY <1>4
      <3>2. N(p) # l
        BY <1>4, <1>8
      <3>3. \A j \in k + 1 .. p : N(j) # l
        BY <1>7, <3>1, <3>2
      <3>4. k \in 1 .. p
        BY <1>6
      <3> QED
        BY <3>1, <3>3, <3>4
    <2> QED
      BY <1>4, <1>5, <2>1, <2>2, <2>3
  <1>9. CASE N(p) \notin X
    <2>1. /\ DOMAIN stubs' = DOMAIN stubs \cup {N(p)}
          /\ stubs'[N(p)] = St(p)
          /\ \A l \in DOMAIN stubs : l # N(p) => stubs'[l] = stubs[l]
      BY <1>3, <1>9
    <2>2. DOMAIN stubs' = {N(k) : k \in 1 .. p} \ X
      BY <1>4, <1>6, <1>9, <2>1
    <2>3. ASSUME NEW l \in DOMAIN stubs'
          PROVE  \E k \in 1 .. p : N(k) = l /\ stubs'[l] = St(k) /\ \A j \in k + 1 .. p : N(j) # l
      <3>1. CASE l = N(p)
        <4>1. p \in 1 .. p /\ \A j \in p + 1 .. p : N(j) # l
          BY <1>6
        <4> QED
          BY <2>1, <3>1, <4>1
      <3>2. CASE l # N(p)
        <4>1. l \in DOMAIN stubs /\ stubs'[l] = stubs[l]
          BY <2>1, <3>2
        <4>2. PICK k \in 1 .. p - 1 :
                N(k) = l /\ stubs[l] = St(k) /\ \A j \in k + 1 .. p - 1 : N(j) # l
          BY <1>4, <4>1
        <4>3. \A j \in k + 1 .. p : N(j) # l
          BY <1>7, <3>2, <4>2
        <4>4. k \in 1 .. p
          BY <1>6
        <4> QED
          BY <4>1, <4>2, <4>3, <4>4
      <3> QED
        BY <3>1, <3>2
    <2> QED
      BY <1>5, <2>2, <2>3
  <1> QED
    BY <1>8, <1>9

(***************************************************************************)
(* What has been read and printed says what the lines say, and the list of *)
(* libraries is the blocks of the file, from the first line to the last    *)
(* thing printed.                                                          *)
(***************************************************************************)
LEMMA HasReadSame ==
  ASSUME HasRead, UNCHANGED <<inputs, line, currVars, listVars>>
  PROVE  HasRead'
  <1>1. PICK u, m, lib, list : /\ u = line /\ m = Contract!BlockOf(line + 1)
                               /\ lib = Library /\ list = g_libhead
    OBVIOUS
  <1>2. Reading(u, m, lib, list)
    BY <1>1 DEF HasRead
  <1>3. lines' = lines /\ line' = u /\ Library' = lib /\ g_libhead' = list
    BY <1>1 DEF inputs, currVars, listVars, Library
  <1> QED
    BY <1>2, <1>3, HasReadNext

LEMMA StaysLoaded ==
  ASSUME Loaded, UNCHANGED <<inputs, listVars>>
  PROVE  Loaded'
  BY SameList DEF inputs, listVars

LEMMA StartsToPrint ==
  ASSUME TypeOK, CountsMatch, ExportsInvariant, EndOfFile, g_currlib = None
  PROVE  ExportsInvariant'
  <1>1. HasRead /\ NothingPrinted /\ line = Len(lines)
    BY DEF EndOfFile, ExportsInvariant
  <1>2. Loaded
    BY <1>1, FileIsRead
  <1>3. Loaded'
    BY <1>2, StaysLoaded DEF EndOfFile
  <1>4. pc' = IF mode = "exports" THEN "tables" ELSE IF mode = "cmake" THEN "names" ELSE "stubs"
    BY DEF EndOfFile
  <1>5. mode \in OutputModes
    BY ExpConstants DEF TypeOK
  <1>6. UNCHANGED <<mode, lines, refused, pLib, tables, entries, stubs, names, counts, g_libhead>>
    BY DEF EndOfFile, inputs, printVars, listVars
  <1>7. TablesTo(pLib)' /\ entries' = <<>>
    <2>1. Len(tables') = 0 /\ pLib' = 1 /\ 1 - 1 = 0 /\ entries' = <<>>
      BY <1>1, <1>6 DEF NothingPrinted
    <2> QED
      BY <2>1 DEF TablesTo
  <1>8. StubsTo(pLib)'
    <2>1. DOMAIN stubs' = {} /\ pLib' = 1 /\ 1 .. 1 - 1 = {}
      BY <1>1, <1>6 DEF NothingPrinted
    <2> QED
      BY <2>1 DEF StubsTo
  <1>9. ItemsTo(names, pLib, NameAt)' /\ counts' = <<>>
    <2>1. PICK f : f = NameAt
      OBVIOUS
    <2>2. NameAt' = f /\ names' = <<>> /\ pLib' = 1 /\ counts' = <<>>
      BY <1>1, <1>6, <2>1, SameList DEF NothingPrinted
    <2>3. ItemsTo(<<>>, 1, f)'
      BY <1>6, ItemsFirst, SameList
    <2> QED
      BY <2>2, <2>3, Zenon
  <1> QED
    BY <1>3, <1>4, <1>5, <1>6, <1>7, <1>8, <1>9 DEF ExportsInvariant, PrintingInvariant, OutputModes

(***************************************************************************)
(* At every step the open block is the last start without an end, the      *)
(* library being read is what its lines so far say and the list is the     *)
(* other blocks of the file in order; and what is printed so far is that   *)
(* of the libraries before pLib.                                           *)
(***************************************************************************)
THEOREM ExportsInvariantHolds == Spec => []ExportsInvariant
<1>1. Init => ExportsInvariant
  <2> SUFFICES ASSUME Init PROVE ExportsInvariant
    OBVIOUS
  <2>1. PICK lib : lib = Library
    OBVIOUS
  <2>2. lib.name = None
    BY <2>1 DEF Init, Library
  <2>3. Reading(0, 0, lib, <<>>)
    BY <2>2, ReadsNothingFirst
  <2>4. Contract!BlockOf(0 + 1) = 0
    BY NoBlockAtFirst DEF IsBlock
  <2>5. HasRead
    BY <2>1, <2>3, <2>4 DEF HasRead, Init
  <2> QED
    BY <2>5 DEF Init, NothingPrinted, ExportsInvariant, PrintingInvariant
<1>2. TypeOK /\ CountsMatch /\ ExportsInvariant /\ [Next]_allVars => ExportsInvariant'
  <2> SUFFICES ASSUME TypeOK, CountsMatch, ExportsInvariant, [Next]_allVars
               PROVE  ExportsInvariant'
    OBVIOUS
  <2>1. ASSUME pc' = "failed" PROVE ExportsInvariant'
    BY <2>1 DEF ExportsInvariant, PrintingInvariant
  <2>2. ASSUME pc' = "load", HasRead', NothingPrinted' PROVE ExportsInvariant'
    BY <2>2 DEF ExportsInvariant, PrintingInvariant
  <2>3. ASSUME NothingPrinted, UNCHANGED printVars PROVE NothingPrinted'
    BY <2>3 DEF NothingPrinted, printVars
  <2>4. CASE OpenInput
    <3>1. HasRead' /\ NothingPrinted'
      BY <2>3, <2>4, HasReadSame DEF OpenInput, ExportsInvariant
    <3> QED
      BY <2>1, <2>2, <2>4, <3>1 DEF OpenInput
  <2>5. CASE \/ OtherLine \/ StrayEnd \/ ExportStart \/ ExportEnd
             \/ ExportFunc \/ ExportVar \/ ExportAlias
    <3>1. pc = "load" /\ pc' = "load" /\ UNCHANGED printVars
      BY <2>5 DEF OtherLine, StrayEnd, ExportStart, ExportEnd, ExportFunc, ExportVar,
                  ExportAlias, Reads, NextLine
    <3>2. HasRead /\ NothingPrinted
      BY <3>1 DEF ExportsInvariant
    <3> QED
      BY <2>2, <2>3, <2>5, <3>1, <3>2, ReadStep
  <2>6. CASE BadLine \/ NestedStart \/ RejectExport
    BY <2>1, <2>6 DEF BadLine, NestedStart, RejectExport, Reject
  <2>7. CASE EndOfFile
    <3>1. CASE g_currlib = None
      BY <2>7, <3>1, StartsToPrint
    <3>2. CASE g_currlib # None
      BY <2>1, <2>7, <3>2 DEF EndOfFile
    <3> QED
      BY <3>1, <3>2
  <2>8. ASSUME pc \notin {"open", "load", "failed"}, UNCHANGED <<inputs, listVars>>
        PROVE  /\ Loaded /\ Loaded' /\ All' = All
               /\ lines' = lines /\ mode' = mode /\ g_libhead' = g_libhead
    BY <2>8, StaysLoaded DEF ExportsInvariant, inputs, listVars, All
  <2>9. CASE PrintTable
    <3>1. pc = "tables" /\ pc' = "tables" /\ Loaded' /\ mode' = mode /\ entries' = entries
      BY <2>8, <2>9 DEF PrintTable, Printing
    <3>2. mode = "exports" /\ TablesTo(pLib) /\ entries = <<>>
      BY <3>1 DEF ExportsInvariant, PrintingInvariant
    <3>3. TablesTo(pLib)'
      BY <2>9, <3>2, TablesNext
    <3> QED
      BY <3>1, <3>2, <3>3 DEF ExportsInvariant, PrintingInvariant
  <2>10. CASE TablesDone
    <3>1. /\ pc = "tables" /\ pc' = "entries" /\ Loaded' /\ mode' = mode /\ All' = All
          /\ UNCHANGED <<tables, entries, g_libhead>> /\ pLib' = 1
      BY <2>8, <2>10 DEF TablesDone, EndLoop, listVars
    <3>2. mode = "exports" /\ TablesTo(pLib) /\ entries = <<>>
      BY <3>1 DEF ExportsInvariant, PrintingInvariant
    <3>3. pLib = All
      BY <2>10 DEF TablesDone, EndLoop, TypeOK, All
    <3>4. TablesTo(All)'
      <4>1. PICK a : a = All
        OBVIOUS
      <4>2. TablesTo(a)
        BY <3>2, <3>3, <4>1
      <4>3. TablesTo(a)'
        BY <3>1, <4>2 DEF TablesTo
      <4> QED
        BY <3>1, <4>1, <4>3, Zenon
    <3>5. EntriesTo(pLib)'
      <4>1. Len(<<>>) = 0 /\ 1 - 1 = 0
            /\ <<>> \in Seq([name : LibNames \cup {None}, vars : Nat, funcs : Nat])
        OBVIOUS
      <4> QED
        BY <3>1, <3>2, <4>1 DEF EntriesTo
    <3> QED
      BY <3>1, <3>2, <3>4, <3>5 DEF ExportsInvariant, PrintingInvariant
  <2>11. CASE PrintEntry
    <3>1. /\ pc = "entries" /\ pc' = "entries" /\ Loaded' /\ mode' = mode /\ All' = All
          /\ UNCHANGED <<tables, g_libhead>>
      BY <2>8, <2>11 DEF PrintEntry, Printing, listVars
    <3>2. mode = "exports" /\ TablesTo(All) /\ EntriesTo(pLib)
      BY <3>1 DEF ExportsInvariant, PrintingInvariant
    <3>3. EntriesTo(pLib)'
      BY <2>11, <3>2, EntriesNext
    <3>4. TablesTo(All)'
      <4>1. PICK a : a = All
        OBVIOUS
      <4>2. TablesTo(a)'
        BY <3>1, <3>2, <4>1 DEF TablesTo
      <4> QED
        BY <3>1, <4>1, <4>2, Zenon
    <3> QED
      BY <3>1, <3>2, <3>3, <3>4 DEF ExportsInvariant, PrintingInvariant
  <2>12. CASE WriteStubs
    <3>1. pc = "stubs" /\ pc' = "stubs" /\ Loaded' /\ mode' = mode
      BY <2>8, <2>12 DEF WriteStubs, Printing
    <3>2. mode \in {"stubs", "stubs_new"} /\ StubsTo(pLib)
      BY <3>1 DEF ExportsInvariant, PrintingInvariant
    <3>3. StubsTo(pLib)'
      BY <2>12, <3>2, StubsNext
    <3> QED
      BY <3>1, <3>2, <3>3 DEF ExportsInvariant, PrintingInvariant
  <2>13. CASE PrintName
    <3>1. /\ pc = "names" /\ pc' = "names" /\ Loaded /\ Loaded' /\ mode' = mode
          /\ counts' = counts
      BY <2>8, <2>13 DEF PrintName, Printing
    <3>2. mode = "cmake" /\ ItemsTo(names, pLib, NameAt) /\ counts = <<>>
      BY <3>1 DEF ExportsInvariant, PrintingInvariant
    <3>3. ItemsTo(names, pLib, NameAt)'
      BY <2>13, <3>1, <3>2, NamesNext
    <3> QED
      BY <3>1, <3>2, <3>3 DEF ExportsInvariant, PrintingInvariant
  <2>14. ASSUME ItemsTo(names, All, NameAt), UNCHANGED <<inputs, listVars, names>>
         PROVE  ItemsTo(names, All, NameAt)'
    <3>1. PICK list, a, f : list = names /\ a = All /\ f = NameAt
      OBVIOUS
    <3>2. lines' = lines /\ g_libhead' = g_libhead /\ names' = list
      BY <2>14, <3>1 DEF inputs, listVars
    <3>3. All' = a /\ NameAt' = f
      BY <3>1, <3>2, SameList DEF All
    <3>4. ItemsTo(list, a, f)'
      BY <2>14, <3>1, <3>2, SameList
    <3> QED
      BY <3>2, <3>3, <3>4, Zenon
  <2>15. CASE PrintCount
    <3>1. pc = "counts" /\ pc' = "counts" /\ Loaded /\ Loaded' /\ mode' = mode
      BY <2>8, <2>15 DEF PrintCount, Printing
    <3>2. mode = "cmake" /\ ItemsTo(names, All, NameAt) /\ ItemsTo(counts, pLib, CountAt)
      BY <3>1 DEF ExportsInvariant, PrintingInvariant
    <3>3. ItemsTo(counts, pLib, CountAt)'
      BY <2>15, <3>1, <3>2, CountsNext
    <3>4. ItemsTo(names, All, NameAt)'
      BY <2>14, <2>15, <3>2 DEF PrintCount
    <3> QED
      BY <3>1, <3>2, <3>3, <3>4 DEF ExportsInvariant, PrintingInvariant
  <2>16. CASE LoopDone
    <3>1. /\ pc \in {"entries", "stubs", "names", "counts"} /\ Loaded' /\ mode' = mode
          /\ pc' = IF pc = "names" THEN "counts" ELSE "done"
      BY <2>8, <2>16 DEF LoopDone, EndLoop
    <3>2. CASE pc = "names"
      <4>1. mode = "cmake" /\ ItemsTo(names, pLib, NameAt) /\ counts = <<>>
        BY <3>2 DEF ExportsInvariant, PrintingInvariant
      <4>2. pLib = All /\ pLib' = 1 /\ counts' = <<>>
        BY <2>16, <4>1 DEF LoopDone, EndLoop, TypeOK, All
      <4>3. ItemsTo(names, All, NameAt)
        BY <4>1, <4>2, Zenon
      <4>4. ItemsTo(names, All, NameAt)'
        BY <2>14, <2>16, <4>3 DEF LoopDone
      <4>5. ItemsTo(counts, pLib, CountAt)'
        <5>1. PICK f : f = CountAt
          OBVIOUS
        <5>2. lines' = lines /\ g_libhead' = g_libhead
          BY <2>16 DEF LoopDone, inputs, listVars
        <5>3. CountAt' = f
          BY <5>1, <5>2, SameList
        <5>4. ItemsTo(<<>>, 1, f)'
          BY <5>2, ItemsFirst, SameList
        <5> QED
          BY <4>2, <5>3, <5>4, Zenon
      <4> QED
        BY <3>1, <3>2, <4>1, <4>4, <4>5 DEF ExportsInvariant, PrintingInvariant
    <3>3. CASE pc # "names"
      BY <3>1, <3>3 DEF ExportsInvariant, PrintingInvariant
    <3> QED
      BY <3>2, <3>3
  <2>17. CASE UNCHANGED allVars
    <3>1. UNCHANGED <<inputs, pc, line, currVars, listVars, printVars>>
      BY <2>17 DEF allVars
    <3>2. CASE pc \in {"open", "load"}
      <4>1. HasRead' /\ NothingPrinted'
        BY <2>3, <3>1, <3>2, HasReadSame DEF ExportsInvariant
      <4> QED
        BY <3>1, <3>2, <4>1 DEF ExportsInvariant, PrintingInvariant
    <3>3. CASE pc = "failed"
      BY <2>1, <3>1, <3>3
    <3>4. CASE pc \notin {"open", "load", "failed"}
      <4>1. Loaded' /\ lines' = lines /\ mode' = mode /\ g_libhead' = g_libhead
            /\ pc' = pc /\ pLib' = pLib /\ UNCHANGED <<tables, entries, stubs, names, counts>>
            /\ refused' = refused
        BY <2>8, <3>1, <3>4 DEF printVars, inputs
      <4>2. ASSUME TablesTo(pLib) PROVE TablesTo(pLib)'
        BY <4>1, <4>2 DEF TablesTo
      <4>3. ASSUME TablesTo(All) PROVE TablesTo(All)'
        BY <4>1, <4>3 DEF TablesTo, All
      <4>4. ASSUME EntriesTo(pLib) PROVE EntriesTo(pLib)'
        BY <4>1, <4>4 DEF EntriesTo
      <4>5. ASSUME StubsTo(pLib) PROVE StubsTo(pLib)'
        <5>1. \A k : StubsOf(g_libhead[k])' = StubsOf(g_libhead[k])
          BY <4>1 DEF StubsOf, AliasOf
        <5>2. StubsTo(pLib)' <=>
                /\ DOMAIN stubs' = {g_libhead'[k].name : k \in 1 .. pLib' - 1}
                                     \ (refused' \cup {SyslibName})
                /\ \A l \in DOMAIN stubs' : \E k \in 1 .. pLib' - 1 :
                     /\ g_libhead'[k].name = l /\ stubs'[l] = StubsOf(g_libhead[k])'
                     /\ \A j \in k + 1 .. pLib' - 1 : g_libhead'[j].name # l
          BY DEF StubsTo
        <5> QED
          BY <4>1, <4>5, <5>1, <5>2 DEF StubsTo
      <4>6. ASSUME ItemsTo(names, pLib, NameAt) PROVE ItemsTo(names, pLib, NameAt)'
        <5>1. PICK list, a, f : list = names /\ a = pLib /\ f = NameAt
          OBVIOUS
        <5>2. names' = list /\ pLib' = a /\ NameAt' = f
          BY <4>1, <5>1, SameList
        <5>3. ItemsTo(list, a, f)'
          BY <4>1, <4>6, <5>1, SameList
        <5> QED
          BY <5>2, <5>3, Zenon
      <4>7. ASSUME ItemsTo(counts, pLib, CountAt) PROVE ItemsTo(counts, pLib, CountAt)'
        <5>1. PICK list, a, f : list = counts /\ a = pLib /\ f = CountAt
          OBVIOUS
        <5>2. counts' = list /\ pLib' = a /\ CountAt' = f
          BY <4>1, <5>1, SameList
        <5>3. ItemsTo(list, a, f)'
          BY <4>1, <4>7, <5>1, SameList
        <5> QED
          BY <5>2, <5>3, Zenon
      <4>8. PrintingInvariant
        BY DEF ExportsInvariant
      <4>9. PrintingInvariant'
        BY <2>14, <3>1, <4>1, <4>2, <4>3, <4>4, <4>5, <4>6, <4>7, <4>8 DEF PrintingInvariant
      <4> QED
        BY <3>4, <4>1, <4>9 DEF ExportsInvariant
    <3> QED
      BY <3>2, <3>3, <3>4
  <2> QED
    BY <2>4, <2>5, <2>6, <2>7, <2>9, <2>10, <2>11, <2>12, <2>13, <2>15, <2>16, <2>17
    DEF Next, Finished
<1> QED BY TypeCorrect, CountsAlwaysMatch, <1>1, <1>2, PTL DEF Spec

-----------------------------------------------------------------------------
(***************************************************************************)
(* -b: what the module manager reads of a table is what the library        *)
(* exports.                                                                *)
(***************************************************************************)
LEMMA PartsOfTwo ==
  ASSUME NEW S, NEW a \in Seq(S), NEW b \in Seq(S)
  PROVE  /\ a \o b \in Seq(S) /\ Len(a \o b) = Len(a) + Len(b)
         /\ \A k \in 1 .. Len(a) : (a \o b)[k] = a[k]
         /\ \A k \in 1 .. Len(b) : (a \o b)[Len(a) + k] = b[k]
  <1>1. PICK n, m : n = Len(a) /\ m = Len(b)
    OBVIOUS
  <1>2. n \in Nat /\ m \in Nat
    BY <1>1, LenProperties
  <1>3. \A i \in 1 .. n + m : (a \o b)[i] = IF i <= n THEN a[i] ELSE b[i - n]
    BY <1>1, ConcatProperties
  <1>4. ASSUME NEW k \in 1 .. n PROVE k \in 1 .. n + m /\ k <= n
    BY <1>2
  <1>5. ASSUME NEW k \in 1 .. m PROVE n + k \in 1 .. n + m /\ ~(n + k <= n) /\ n + k - n = k
    BY <1>2
  <1>6. a \o b \in Seq(S) /\ Len(a \o b) = Len(a) + Len(b)
    BY ConcatProperties
  <1> QED
    BY <1>1, <1>3, <1>4, <1>5, <1>6

LEMMA PartsOfCells ==
  ASSUME NEW S, NEW a \in Seq(S), NEW b \in Seq(S), NEW c \in Seq(S), NEW d \in Seq(S),
         NEW t, t = a \o b \o c \o d
  PROVE  /\ \A k \in 1 .. Len(a) : t[k] = a[k]
         /\ \A k \in 1 .. Len(b) : t[Len(a) + k] = b[k]
         /\ \A k \in 1 .. Len(c) : t[Len(a) + Len(b) + k] = c[k]
         /\ \A k \in 1 .. Len(d) : t[Len(a) + Len(b) + Len(c) + k] = d[k]
  <1>0. Len(a) \in Nat /\ Len(b) \in Nat /\ Len(c) \in Nat /\ Len(d) \in Nat
    BY LenProperties
  <1>1. PICK ab : ab = a \o b
    OBVIOUS
  <1>2. PICK abc : abc = ab \o c
    OBVIOUS
  <1>3. t = abc \o d
    BY <1>1, <1>2
  <1>4. /\ ab \in Seq(S) /\ Len(ab) = Len(a) + Len(b)
        /\ \A k \in 1 .. Len(a) : ab[k] = a[k]
        /\ \A k \in 1 .. Len(b) : ab[Len(a) + k] = b[k]
    BY <1>1, PartsOfTwo
  <1>5. /\ abc \in Seq(S) /\ Len(abc) = Len(ab) + Len(c)
        /\ \A k \in 1 .. Len(ab) : abc[k] = ab[k]
        /\ \A k \in 1 .. Len(c) : abc[Len(ab) + k] = c[k]
    <2>1. ab \in Seq(S)
      BY <1>4
    <2> QED
      BY <1>2, <2>1, PartsOfTwo
  <1>6. /\ \A k \in 1 .. Len(abc) : t[k] = abc[k]
        /\ \A k \in 1 .. Len(d) : t[Len(abc) + k] = d[k]
    <2>1. abc \in Seq(S)
      BY <1>5
    <2> QED
      BY <1>3, <2>1, PartsOfTwo
  <1>7. ASSUME NEW k \in 1 .. Len(a) PROVE t[k] = a[k]
    <2>1. k \in 1 .. Len(ab) /\ k \in 1 .. Len(abc)
      BY <1>0, <1>4, <1>5
    <2> QED
      BY <1>4, <1>5, <1>6, <2>1
  <1>8. ASSUME NEW k \in 1 .. Len(b) PROVE t[Len(a) + k] = b[k]
    <2>1. Len(a) + k \in 1 .. Len(ab) /\ Len(a) + k \in 1 .. Len(abc)
      BY <1>0, <1>4, <1>5
    <2> QED
      BY <1>4, <1>5, <1>6, <2>1
  <1>9. ASSUME NEW k \in 1 .. Len(c) PROVE t[Len(a) + Len(b) + k] = c[k]
    <2>1. Len(ab) + k \in 1 .. Len(abc) /\ Len(ab) = Len(a) + Len(b)
      BY <1>0, <1>4, <1>5
    <2> QED
      BY <1>5, <1>6, <2>1
  <1>10. ASSUME NEW k \in 1 .. Len(d) PROVE t[Len(a) + Len(b) + Len(c) + k] = d[k]
    BY <1>4, <1>5, <1>6
  <1> QED
    BY <1>7, <1>8, <1>9, <1>10

LEMMA CellsRead ==
  ASSUME NEW l \in LibRecord
  PROVE  LET t == Cells(l)
             f == Len(l.funcs)
             v == Len(l.vars)
         IN  /\ \A k \in 1 .. f : [nid |-> t[k], name |-> t[f + v + k]] = l.funcs[k]
             /\ \A k \in 1 .. v : [nid |-> t[f + k], name |-> t[f + v + (f + k)]] = l.vars[k]
  <1>1. l.funcs \in Seq(Export) /\ l.vars \in Seq(Export)
    BY DEF LibRecord
  <1>2. PICK t, f, v : t = Cells(l) /\ f = Len(l.funcs) /\ v = Len(l.vars)
    OBVIOUS
  <1>3. f \in Nat /\ v \in Nat
    BY <1>1, <1>2, LenProperties
  <1>4. PICK a, b, c, d : /\ a = NidsOf(l.funcs) /\ b = NidsOf(l.vars)
                          /\ c = NamesOf(l.funcs) /\ d = NamesOf(l.vars)
    OBVIOUS
  <1>5. /\ Len(a) = f /\ Len(b) = v /\ Len(c) = f /\ Len(d) = v
        /\ a \in Seq(Nids) /\ b \in Seq(Nids) /\ c \in Seq(Names) /\ d \in Seq(Names)
    BY <1>1, <1>2, <1>4, ColumnsOfExports
  <1>6. PICK S : S = Nids \cup Names
    OBVIOUS
  <1>6a. a \in Seq(S) /\ b \in Seq(S) /\ c \in Seq(S) /\ d \in Seq(S)
    BY <1>5, <1>6, SeqMonotonic
  <1>7. t = a \o b \o c \o d
    BY <1>2, <1>4 DEF Cells
  <1>8. /\ \A k \in 1 .. f : t[k] = a[k]
        /\ \A k \in 1 .. v : t[f + k] = b[k]
        /\ \A k \in 1 .. f : t[f + v + k] = c[k]
        /\ \A k \in 1 .. v : t[f + v + f + k] = d[k]
    <2>1. /\ \A k \in 1 .. Len(a) : t[k] = a[k]
          /\ \A k \in 1 .. Len(b) : t[Len(a) + k] = b[k]
          /\ \A k \in 1 .. Len(c) : t[Len(a) + Len(b) + k] = c[k]
          /\ \A k \in 1 .. Len(d) : t[Len(a) + Len(b) + Len(c) + k] = d[k]
      BY <1>6a, <1>7, PartsOfCells
    <2> QED
      BY <1>5, <2>1
  <1>9. /\ \A k \in 1 .. f : a[k] = l.funcs[k].nid /\ c[k] = l.funcs[k].name
        /\ \A k \in 1 .. v : b[k] = l.vars[k].nid /\ d[k] = l.vars[k].name
    BY <1>1, <1>2, <1>4 DEF NidsOf, NamesOf
  <1>10. ASSUME NEW k \in 1 .. f
         PROVE  [nid |-> t[k], name |-> t[f + v + k]] = l.funcs[k]
    <2>1. l.funcs[k] \in Export
      BY <1>1, <1>2, ElementOfSeq
    <2>2. PICK e : e = l.funcs[k]
      OBVIOUS
    <2>3. e \in Export /\ t[k] = e.nid /\ t[f + v + k] = e.name
      BY <1>8, <1>9, <2>1, <2>2
    <2>4. [nid |-> e.nid, name |-> e.name] = e
      BY <2>3 DEF Export
    <2> QED
      BY <2>2, <2>3, <2>4
  <1>11. ASSUME NEW k \in 1 .. v
         PROVE  [nid |-> t[f + k], name |-> t[f + v + (f + k)]] = l.vars[k]
    <2>1. l.vars[k] \in Export
      BY <1>1, <1>2, ElementOfSeq
    <2>2. PICK e : e = l.vars[k]
      OBVIOUS
    <2>3. f + v + (f + k) = f + v + f + k
      BY <1>3
    <2>4. e \in Export /\ t[f + k] = e.nid /\ t[f + v + (f + k)] = e.name
      BY <1>8, <1>9, <2>1, <2>2, <2>3
    <2>5. [nid |-> e.nid, name |-> e.name] = e
      BY <2>4 DEF Export
    <2> QED
      BY <2>2, <2>4, <2>5
  <1> QED
    BY <1>2, <1>10, <1>11

LEMMA ExportsPrinted ==
  ASSUME TypeOK, CountsMatch, Loaded, TablesTo(All), EntriesTo(All), declared = Len(g_libhead)
  PROVE  [k \in 1 .. declared |-> ReadExports(k)] = Contract!ExportedLibraries
  <1>1. /\ Len(g_libhead) \in Nat /\ All - 1 = Len(g_libhead)
        /\ DOMAIN Contract!Blocks = 1 .. Len(g_libhead)
    BY BlocksAre DEF All
  <1>2. ASSUME NEW p \in 1 .. Len(g_libhead)
        PROVE  ReadExports(p)
                 = [name  |-> IF lines[Contract!Blocks[p]].lib = SyslibName THEN None
                              ELSE lines[Contract!Blocks[p]].lib,
                    funcs |-> Contract!ExportsOf(Contract!Blocks[p], "func"),
                    vars  |-> Contract!ExportsOf(Contract!Blocks[p], "var")]
    <2>1. PICK m, l : m = Contract!Blocks[p] /\ l = g_libhead[p]
      OBVIOUS
    <2>2. /\ l.name = lines[m].lib
          /\ l.funcs = Contract!ExportsOf(m, "func") /\ l.vars = Contract!ExportsOf(m, "var")
      BY <2>1, LibraryIsBlock
    <2>3. l \in LibRecord
      BY <2>1, BlocksAre
    <2>4. tables[p].cells = Cells(l) /\ entries[p] = EntryOf(l)
      BY <1>1, <2>1 DEF TablesTo, EntriesTo
    <2>5. l.funcCount = Len(l.funcs) /\ l.varCount = Len(l.vars)
      BY <2>1 DEF CountsMatch, TypeOK
    <2>6. PICK t, f, v : t = Cells(l) /\ f = Len(l.funcs) /\ v = Len(l.vars)
      OBVIOUS
    <2>7. l.funcs \in Seq(Export) /\ l.vars \in Seq(Export)
      BY <2>3 DEF LibRecord
    <2>8. f \in Nat /\ v \in Nat
      BY <2>6, <2>7, LenProperties
    <2>9. /\ entries[p].funcs = f /\ entries[p].vars = v
          /\ entries[p].name = IF l.name = SyslibName THEN None ELSE l.name
      BY <2>4, <2>5, <2>6 DEF EntryOf
    <2>10. l.funcs = [j \in 1 .. f |-> l.funcs[j]] /\ l.vars = [j \in 1 .. v |-> l.vars[j]]
      BY <2>6, <2>7
    <2>11. /\ \A k \in 1 .. f : [nid |-> t[k], name |-> t[f + v + k]] = l.funcs[k]
           /\ \A k \in 1 .. v : [nid |-> t[f + k], name |-> t[f + v + (f + k)]] = l.vars[k]
      BY <2>3, <2>6, CellsRead
    <2>12. [j \in 1 .. f |-> [nid |-> t[j], name |-> t[f + v + j]]] = l.funcs
      BY <2>10, <2>11, Zenon
    <2>13. [j \in 1 .. v |-> [nid |-> t[f + j], name |-> t[f + v + (f + j)]]] = l.vars
      BY <2>10, <2>11, Zenon
    <2>14. \A j : ReadCells(p, j) = [nid |-> t[j], name |-> t[f + v + j]]
      BY <2>4, <2>6, <2>9 DEF ReadCells
    <2>15. ReadExports(p)
             = [name  |-> IF l.name = SyslibName THEN None ELSE l.name,
                funcs |-> [j \in 1 .. f |-> [nid |-> t[j], name |-> t[f + v + j]]],
                vars  |-> [j \in 1 .. v |-> [nid |-> t[f + j], name |-> t[f + v + (f + j)]]]]
      BY <2>9, <2>14, Zenon DEF ReadExports
    <2> QED
      BY <2>1, <2>2, <2>12, <2>13, <2>15
  <1>3. Contract!ExportedLibraries
          = [p \in 1 .. Len(g_libhead) |->
               [name  |-> IF lines[Contract!Blocks[p]].lib = SyslibName THEN None
                          ELSE lines[Contract!Blocks[p]].lib,
                funcs |-> Contract!ExportsOf(Contract!Blocks[p], "func"),
                vars  |-> Contract!ExportsOf(Contract!Blocks[p], "var")]]
    BY <1>1 DEF Contract!ExportedLibraries
  <1> QED
    BY <1>2, <1>3, Zenon


(***************************************************************************)
(* -s and -k: a stub has the first alias of its block.                     *)
(***************************************************************************)
LEMMA AliasIsFirst ==
  ASSUME TypeOK, Loaded, NEW p \in 1 .. Len(g_libhead), NEW name
  PROVE  AliasOf(g_libhead[p], name) = Contract!AliasIn(Contract!Blocks[p], name)
  <1>1. PICK m, l : m = Contract!Blocks[p] /\ l = g_libhead[p]
    OBVIOUS
  <1>2. Describes(Len(lines), m, l) /\ m \in Contract!Starts
    BY <1>1, BlocksAre
  <1>3. m \in Nat
    BY <1>2, LinesType DEF Contract!Starts
  <1>4. PICK at, c : /\ at = Contract!LinesOf(m, "alias")
                     /\ c = Cardinality(Contract!Members(m, "alias", Len(lines)))
    OBVIOUS
  <1>5. /\ DOMAIN at = 1 .. c
        /\ l.aliases = [k \in 1 .. c |-> lines[at[k]].alias]
    <2>1. at = InOrder(Contract!Members(m, "alias", Len(lines))) /\ DOMAIN at = 1 .. c
      BY <1>3, <1>4, LinesOfBlock
    <2>2. l.aliases = AliasesAt(Contract!Members(m, "alias", Len(lines)))
      BY <1>2 DEF Describes
    <2> QED
      BY <1>4, <2>1, <2>2 DEF AliasesAt
  <1>6. PICK found : found = {k \in DOMAIN at : lines[at[k]].alias.name = name}
    OBVIOUS
  <1>7. DOMAIN l.aliases = DOMAIN at /\ \A k \in DOMAIN at : l.aliases[k] = lines[at[k]].alias
    BY <1>5
  <1>8. found = {k \in DOMAIN l.aliases : l.aliases[k].name = name}
    BY <1>6, <1>7
  <1>9. AliasOf(l, name) = IF found = {} THEN None ELSE l.aliases[Least(found)].alias
    BY <1>8 DEF AliasOf
  <1>10. Contract!AliasIn(m, name)
           = IF found = {} THEN None ELSE lines[at[Contract!Least(found)]].alias.alias
    BY <1>4, <1>6 DEF Contract!AliasIn
  <1>11. Contract!Least(found) = Least(found)
    BY DEF Least, Contract!Least
  <1>12. ASSUME found # {} PROVE Least(found) \in DOMAIN at
    <2>1. found \subseteq Nat /\ found \subseteq DOMAIN at
      BY <1>5, <1>6
    <2>2. \E n \in found : \A k \in found : n <= k
      BY <1>12, <2>1, LeastNat
    <2>3. Least(found) \in found
      BY <2>2 DEF Least
    <2> QED
      BY <2>1, <2>3
  <1>13. AliasOf(l, name) = Contract!AliasIn(m, name)
    BY <1>7, <1>9, <1>10, <1>11, <1>12, Zenon
  <1> QED
    BY <1>1, <1>13

LEMMA LastIs ==
  ASSUME TypeOK, CountsMatch, Loaded, NEW k \in 1 .. Len(g_libhead),
         g_libhead[k].name # SyslibName,
         \A j \in k + 1 .. Len(g_libhead) : g_libhead[j].name # g_libhead[k].name
  PROVE  Contract!LastOf(g_libhead[k].name) = Contract!Blocks[k]
  <1> DEFINE B(j) == InOrder(Contract!Starts)[j]
             N(j) == g_libhead[j].name
  <1>1. PICK n, l : n = Len(g_libhead) /\ l = N(k)
    OBVIOUS
  <1>2. n \in Nat /\ k \in 1 .. n
    BY <1>1, BlocksAre
  <1>3. \A j \in 1 .. n : /\ B(j) = Contract!Blocks[j] /\ B(j) \in Contract!Starts
                          /\ lines[B(j)].lib = N(j) /\ B(j) \in Int
    BY <1>1, LibraryIsBlock
  <1>4. /\ \A i, j \in 1 .. n : i < j => B(i) < B(j)
        /\ \A m \in Contract!Starts : \E j \in 1 .. n : B(j) = m
    BY <1>1, BlocksAre DEF Sorted
  <1>5. \A j \in k + 1 .. n : N(j) # l
    BY <1>1
  <1>6. l # SyslibName
    BY <1>1
  <1> HIDE DEF B, N
  <1>7. B(k) \in Contract!Public /\ lines[B(k)].lib = l
    BY <1>1, <1>2, <1>3, <1>6 DEF Contract!Public
  <1>8. ASSUME NEW m \in Contract!Public, lines[m].lib = l PROVE m <= B(k) /\ m \in Int
    <2>1. m \in Contract!Starts
      BY DEF Contract!Public
    <2>2. PICK j \in 1 .. n : B(j) = m
      BY <1>4, <2>1
    <2>3. N(j) = l
      BY <1>3, <1>8, <2>2
    <2>4. j \notin k + 1 .. n
      BY <1>5, <2>3
    <2>5. j < k \/ j = k
      BY <1>2, <2>4
    <2>6. B(j) < B(k) \/ B(j) = B(k)
      BY <1>2, <1>4, <2>5
    <2> QED
      BY <1>2, <1>3, <2>2, <2>6
  <1>9. ASSUME NEW m \in Contract!Public, lines[m].lib = l,
               \A i \in Contract!Public : lines[i].lib = l => i <= m
        PROVE  m = B(k)
    <2>1. m <= B(k) /\ m \in Int /\ B(k) <= m
      BY <1>7, <1>8, <1>9
    <2> QED
      BY <1>2, <1>3, <2>1
  <1>10. Contract!LastOf(l) = B(k)
    BY <1>7, <1>8, <1>9 DEF Contract!LastOf
  <1> QED
    BY <1>1, <1>2, <1>3, <1>10 DEF N

LEMMA PublicIs ==
  ASSUME TypeOK, CountsMatch, Loaded
  PROVE  /\ \A m : m \in Contract!Public <=>
               \E k \in 1 .. Len(g_libhead) : m = InOrder(Contract!Starts)[k] /\ g_libhead[k].name # SyslibName
         /\ PublicBefore(All) = Contract!Public
         /\ {lines[m].lib : m \in Contract!Public}
              = {g_libhead[k].name : k \in 1 .. Len(g_libhead)} \ {SyslibName}
  <1> DEFINE B(j) == InOrder(Contract!Starts)[j]
             N(j) == g_libhead[j].name
  <1>1. PICK n : n = Len(g_libhead)
    OBVIOUS
  <1>2. n \in Nat /\ All - 1 = n
    BY <1>1, BlocksAre DEF All
  <1>3. \A j \in 1 .. n : B(j) \in Contract!Starts /\ lines[B(j)].lib = N(j)
    BY <1>1, LibraryIsBlock
  <1>4. \A m \in Contract!Starts : \E j \in 1 .. n : B(j) = m
    BY <1>1, BlocksAre DEF Sorted
  <1>5. PublicBefore(All) = {B(k) : k \in {j \in 1 .. n : N(j) # SyslibName}}
    BY <1>2 DEF PublicBefore
  <1> HIDE DEF B, N
  <1>6. ASSUME NEW m
        PROVE  m \in Contract!Public <=> \E k \in 1 .. n : m = B(k) /\ N(k) # SyslibName
    <2>1. ASSUME m \in Contract!Public PROVE \E k \in 1 .. n : m = B(k) /\ N(k) # SyslibName
      <3>1. m \in Contract!Starts /\ lines[m].lib # SyslibName
        BY <2>1 DEF Contract!Public
      <3>2. PICK j \in 1 .. n : B(j) = m
        BY <1>4, <3>1
      <3> QED
        BY <1>3, <3>1, <3>2
    <2>2. ASSUME NEW k \in 1 .. n, m = B(k), N(k) # SyslibName PROVE m \in Contract!Public
      BY <1>3, <2>2 DEF Contract!Public
    <2> QED
      BY <2>1, <2>2
  <1>7. PublicBefore(All) = Contract!Public
    BY <1>5, <1>6
  <1>8. ASSUME NEW l
        PROVE  l \in {lines[m].lib : m \in Contract!Public}
                 <=> l \in {N(k) : k \in 1 .. n} \ {SyslibName}
    <2>1. ASSUME NEW m \in Contract!Public, l = lines[m].lib
          PROVE  l \in {N(k) : k \in 1 .. n} \ {SyslibName}
      <3>1. PICK k \in 1 .. n : m = B(k) /\ N(k) # SyslibName
        BY <1>6
      <3> QED
        BY <1>3, <2>1, <3>1
    <2>2. ASSUME NEW k \in 1 .. n, l = N(k), l # SyslibName
          PROVE  \E m \in Contract!Public : l = lines[m].lib
      <3>1. B(k) \in Contract!Public /\ lines[B(k)].lib = l
        BY <1>3, <1>6, <2>2
      <3> QED
        BY <3>1
    <2> QED
      BY <2>1, <2>2
  <1>9. {lines[m].lib : m \in Contract!Public} = {N(k) : k \in 1 .. n} \ {SyslibName}
    BY <1>8
  <1> QED
    BY <1>1, <1>6, <1>7, <1>9 DEF B, N

LEMMA StubsPrinted ==
  ASSUME TypeOK, CountsMatch, Loaded, StubsTo(All), mode \in {"stubs", "stubs_new"}
  PROVE  [l \in DOMAIN stubs |-> ReadStubs(stubs[l])] = Contract!StubFiles
  <1>1. PICK n : n = Len(g_libhead)
    OBVIOUS
  <1>2. n \in Nat /\ All - 1 = n
    BY <1>1, BlocksAre DEF All
  <1>3. DOMAIN stubs = Contract!StubLibs
    <2>1. DOMAIN stubs = {g_libhead[k].name : k \in 1 .. n} \ (refused \cup {SyslibName})
      BY <1>2 DEF StubsTo
    <2>2. Contract!StubLibs = ({g_libhead[k].name : k \in 1 .. n} \ {SyslibName}) \ refused
      BY <1>1, PublicIs DEF Contract!StubLibs
    <2> QED
      BY <2>1, <2>2
  <1>4. ASSUME NEW l \in DOMAIN stubs
        PROVE  ReadStubs(stubs[l])
                 = LET fs == Contract!ExportsOf(Contract!LastOf(l), "func")
                   IN  [k \in DOMAIN fs |->
                          <<fs[k], Contract!AliasIn(Contract!LastOf(l), fs[k].name)>>]
    <2>1. PICK k \in 1 .. n :
            /\ g_libhead[k].name = l /\ stubs[l] = StubsOf(g_libhead[k])
            /\ \A j \in k + 1 .. n : g_libhead[j].name # l
      BY <1>2 DEF StubsTo
    <2>2. l # SyslibName
      BY <1>2 DEF StubsTo
    <2>3. PICK m, L : m = Contract!Blocks[k] /\ L = g_libhead[k]
      OBVIOUS
    <2>4. Contract!LastOf(l) = m
      BY <1>1, <2>1, <2>2, <2>3, LastIs
    <2>5. L.funcs = Contract!ExportsOf(m, "func")
      BY <1>1, <2>3, LibraryIsBlock
    <2>6. L \in LibRecord
      BY <1>1, <2>3, BlocksAre
    <2>7. L.funcs \in Seq(Export)
      BY <2>6 DEF LibRecord
    <2>8. L.funcCount = Len(L.funcs)
      <3>1. g_libhead \in Seq(LibRecord)
        BY DEF TypeOK
      <3>2. k \in DOMAIN g_libhead
        BY <1>1, <3>1
      <3> QED
        BY <2>3, <3>2 DEF CountsMatch
    <2>9. \A name : AliasOf(L, name) = Contract!AliasIn(m, name)
      BY <1>1, <2>3, AliasIsFirst
    <2>10. PICK fs, g : /\ fs = L.funcs
                        /\ g = [j \in DOMAIN fs |-> <<fs[j], AliasOf(L, fs[j].name)>>]
      OBVIOUS
    <2>11. stubs[l] = [count |-> Len(fs), funcs |-> g]
      BY <2>1, <2>3, <2>8, <2>10 DEF StubsOf
    <2>12. Len(g) = Len(fs)
      <3>1. DOMAIN fs = 1 .. Len(fs) /\ Len(fs) \in Nat
        BY <2>7, <2>10, LenProperties
      <3>2. g = [j \in 1 .. Len(fs) |-> g[j]]
        BY <2>10, <3>1
      <3> QED
        BY <3>1, <3>2, AppendIs
    <2>13. ReadStubs(stubs[l]) = g
      BY <2>11, <2>12 DEF ReadStubs
    <2>14. g = [j \in DOMAIN fs |-> <<fs[j], Contract!AliasIn(m, fs[j].name)>>]
      BY <2>9, <2>10, Zenon
    <2> QED
      BY <2>4, <2>5, <2>10, <2>13, <2>14
  <1> QED
    BY <1>3, <1>4, Zenon DEF Contract!StubFiles

(***************************************************************************)
(* -c: the two lists have an item for each public library.                 *)
(***************************************************************************)
LEMMA ItemsRead ==
  ASSUME TypeOK, CountsMatch, Loaded, NEW items, NEW f, ItemsTo(items, All, f)
  PROVE  LET m == InOrder(Contract!Public)
         IN  ReadList(items) = [k \in DOMAIN m |-> f[m[k]]]
  <1> DEFINE S == Contract!Public
  <1>1. S = PublicBefore(All)
    BY PublicIs
  <1> HIDE DEF S
  <1>2. /\ items = [k \in 1 .. Len(items) |-> items[k]] /\ Sorted(S)
        /\ Len(items) = Cardinality(S)
        /\ \A k \in 1 .. Len(items) :
             /\ items[k].item = f[InOrder(S)[k]]
             /\ k < Len(items) => items[k].sep
    BY <1>1 DEF ItemsTo
  <1>3. S \subseteq Contract!Starts
    BY DEF S, Contract!Public
  <1>4. Len(items) \in Nat
    <2>1. IsFiniteSet(S)
      BY <1>3, BlocksAre, FS_Subset
    <2> QED
      BY <1>2, <2>1, FS_CardinalityType
  <1>5. \A k \in 1 .. Len(items) - 1 : items[k].sep
    <2>1. \A k \in 1 .. Len(items) - 1 : k \in 1 .. Len(items) /\ k < Len(items)
      BY <1>4
    <2> QED
      BY <1>2, <2>1
  <1>6. ReadList(items) = [k \in DOMAIN items |-> items[k].item]
    BY <1>5 DEF ReadList
  <1>7. DOMAIN items = 1 .. Len(items) /\ DOMAIN InOrder(S) = 1 .. Len(items)
    BY <1>2, InOrderIs
  <1>8. ReadList(items) = [k \in DOMAIN InOrder(S) |-> f[InOrder(S)[k]]]
    BY <1>2, <1>6, <1>7, Zenon
  <1> QED
    BY <1>8 DEF S

LEMMA ListsPrinted ==
  ASSUME TypeOK, CountsMatch, Loaded,
         ItemsTo(names, All, NameAt), ItemsTo(counts, All, CountAt)
  PROVE  [k \in DOMAIN ReadList(names) |->
            [name |-> ReadList(names)[k], count |-> ReadList(counts)[k]]] = Contract!StubList
  <1>1. PICK m : m = InOrder(Contract!Public)
    OBVIOUS
  <1>2. ReadList(names) = [k \in DOMAIN m |-> NameAt[m[k]]]
    BY <1>1, ItemsRead
  <1>3. ReadList(counts) = [k \in DOMAIN m |-> CountAt[m[k]]]
    BY <1>1, ItemsRead
  <1>4. ASSUME NEW k \in DOMAIN m PROVE m[k] \in Contract!Starts
    <2>1. Sorted(Contract!Public)
      BY PublicIs DEF ItemsTo
    <2>2. m[k] \in Contract!Public
      BY <1>1, <2>1, InOrderIs DEF Sorted
    <2> QED
      BY <2>2 DEF Contract!Public
  <1>5. ASSUME NEW k \in DOMAIN m
        PROVE  /\ NameAt[m[k]] = lines[m[k]].lib
               /\ CountAt[m[k]] = Len(Contract!LinesOf(m[k], "func"))
                                    + Len(Contract!LinesOf(m[k], "var"))
    BY <1>4 DEF NameAt, CountAt
  <1>6. Contract!StubList = [k \in DOMAIN m |->
          [name  |-> lines[m[k]].lib,
           count |-> Len(Contract!LinesOf(m[k], "func")) + Len(Contract!LinesOf(m[k], "var"))]]
    BY <1>1, SameOrder DEF Contract!StubList
  <1> QED
    BY <1>2, <1>3, <1>5, <1>6

-----------------------------------------------------------------------------
(***************************************************************************)
(* A step that decides is the one of the contract, and any other is not    *)
(* seen.                                                                   *)
(***************************************************************************)
LEMMA VerdictIs ==
  /\ pc = "failed" => Verdict = "rejected"
  /\ pc = "done" => Verdict = "built"
  /\ pc \notin {"failed", "done"} => Verdict = "pending"
  BY DEF Verdict

LEMMA VerdictNext ==
  /\ pc' = "failed" => Verdict' = "rejected"
  /\ pc' = "done" => Verdict' = "built"
  /\ pc' \notin {"failed", "done"} => Verdict' = "pending"
  BY DEF Verdict

LEMMA InputsKept ==
  ASSUME [Next]_allVars
  PROVE  lines' = lines /\ mode' = mode /\ refused' = refused
  BY DEF Next, allVars, inputs, OpenInput, OtherLine, BadLine, ExportStart, NestedStart,
         ExportEnd, StrayEnd, ExportFunc, ExportVar, ExportAlias, RejectExport, EndOfFile,
         PrintTable, TablesDone, PrintEntry, WriteStubs, PrintName, PrintCount, LoopDone,
         Finished, NextLine, Reject

LEMMA RejectIsDecide ==
  ASSUME [Next]_allVars, pc \notin {"failed", "done"}, pc' = "failed", ~Contract!Accepted
  PROVE  Contract!Decide
  <1>1. Verdict = "pending" /\ Verdict' = "rejected"
    BY VerdictIs, VerdictNext
  <1>2. (IF Verdict = "built" THEN Printed ELSE None)' = None
    BY <1>1
  <1> QED
    BY <1>1, <1>2, InputsKept DEF Contract!Decide

LEMMA NoInputIsSeen ==
  ASSUME [Next]_allVars, pc = "open", pc' = "failed"
  PROVE  Contract!NoInput
  <1>1. Verdict = "pending" /\ Verdict' = "rejected"
    BY VerdictIs, VerdictNext
  <1>2. (IF Verdict = "built" THEN Printed ELSE None)' = (IF Verdict = "built" THEN Printed ELSE None)
    BY <1>1
  <1> QED
    BY <1>1, <1>2, InputsKept DEF Contract!NoInput

LEMMA PendingIsNotSeen ==
  ASSUME [Next]_allVars, pc \notin {"failed", "done"}, pc' \notin {"failed", "done"}
  PROVE  UNCHANGED Contract!contractVars
  <1>1. Verdict = "pending" /\ Verdict' = "pending"
    BY VerdictIs, VerdictNext
  <1>2. (IF Verdict = "built" THEN Printed ELSE None)' = (IF Verdict = "built" THEN Printed ELSE None)
    BY <1>1
  <1> QED
    BY <1>1, <1>2, InputsKept DEF Contract!contractVars

LEMMA PrintedKept ==
  ASSUME mode' = mode, UNCHANGED <<tables, declared, entries, stubs, names, counts>>
  PROVE  Printed' = Printed
  <1>1. \A k : ReadExports(k)' = ReadExports(k)
    BY DEF ReadExports, ReadCells
  <1>2. [k \in 1 .. declared |-> ReadExports(k)]' = [k \in 1 .. declared |-> ReadExports(k)]
    BY <1>1
  <1>3. [l \in DOMAIN stubs |-> ReadStubs(stubs[l])]' = [l \in DOMAIN stubs |-> ReadStubs(stubs[l])]
    BY DEF ReadStubs
  <1>4. ReadList(names)' = ReadList(names) /\ ReadList(counts)' = ReadList(counts)
    BY DEF ReadList
  <1>5. [k \in DOMAIN ReadList(names) |-> [name |-> ReadList(names)[k], count |-> ReadList(counts)[k]]]'
          = [k \in DOMAIN ReadList(names) |->
               [name |-> ReadList(names)[k], count |-> ReadList(counts)[k]]]
    BY <1>4
  <1> QED
    BY <1>2, <1>3, <1>5 DEF Printed

LEMMA PrintedIsOutput ==
  ASSUME TypeOK, CountsMatch, ExportsInvariant, LoopDone, pc' = "done"
  PROVE  Printed = Contract!Output /\ Contract!Accepted
  <1>1. pc \in {"entries", "stubs", "counts"} /\ pLib > Len(g_libhead)
    BY DEF LoopDone, EndLoop
  <1>2. Loaded
    BY <1>1 DEF ExportsInvariant
  <1>3. pLib = All
    BY <1>1 DEF TypeOK, All
  <1>4. Contract!Accepted
    BY <1>2 DEF Loaded
  <1>5. PrintingInvariant
    BY DEF ExportsInvariant
  <1>6. CASE pc = "entries"
    <2>1. mode = "exports" /\ TablesTo(All) /\ EntriesTo(All)
      BY <1>3, <1>5, <1>6 DEF PrintingInvariant
    <2>2. declared = Len(g_libhead)
      BY <1>6 DEF CountsMatch
    <2>3. Printed = [k \in 1 .. declared |-> ReadExports(k)]
      BY <2>1 DEF Printed
    <2>4. Contract!Output = Contract!ExportedLibraries
      BY <2>1 DEF Contract!Output
    <2> QED
      BY <1>2, <1>4, <2>1, <2>2, <2>3, <2>4, ExportsPrinted
  <1>7. CASE pc = "stubs"
    <2>1. mode \in {"stubs", "stubs_new"} /\ StubsTo(All)
      BY <1>3, <1>5, <1>7 DEF PrintingInvariant
    <2>2. Printed = [l \in DOMAIN stubs |-> ReadStubs(stubs[l])]
      BY <2>1 DEF Printed
    <2>3. Contract!Output = Contract!StubFiles
      BY <2>1 DEF Contract!Output
    <2> QED
      BY <1>2, <1>4, <2>1, <2>2, <2>3, StubsPrinted
  <1>8. CASE pc = "counts"
    <2>1. mode = "cmake" /\ ItemsTo(names, All, NameAt) /\ ItemsTo(counts, All, CountAt)
      BY <1>3, <1>5, <1>8 DEF PrintingInvariant
    <2>2. Printed = [k \in DOMAIN ReadList(names) |->
                       [name |-> ReadList(names)[k], count |-> ReadList(counts)[k]]]
      BY <2>1 DEF Printed
    <2>3. Contract!Output = Contract!StubList
      BY <2>1 DEF Contract!Output
    <2> QED
      BY <1>2, <1>4, <2>1, <2>2, <2>3, ListsPrinted
  <1> QED
    BY <1>1, <1>6, <1>7, <1>8

LEMMA DoneIsDecide ==
  ASSUME TypeOK, CountsMatch, ExportsInvariant, [Next]_allVars, LoopDone, pc' = "done"
  PROVE  Contract!Decide
  <1>1. pc \notin {"failed", "done"}
    BY DEF LoopDone, EndLoop
  <1>2. Verdict = "pending" /\ Verdict' = "built"
    BY <1>1, VerdictIs, VerdictNext
  <1>3. Printed' = Printed
    BY InputsKept, PrintedKept DEF LoopDone
  <1>4. (IF Verdict = "built" THEN Printed ELSE None)' = Contract!Output /\ Contract!Accepted
    BY <1>2, <1>3, PrintedIsOutput
  <1> QED
    BY <1>2, <1>4, InputsKept DEF Contract!Decide

(***************************************************************************)
(* The export builder implements its contract: it rejects a file if a line *)
(* is out of place or a block has no end, and what it prints of any other  *)
(* is what the blocks of the file say, in each mode.                       *)
(***************************************************************************)
THEOREM BuilderImplementsContract == Spec => ImplementsContract
<1>1. Init => Contract!Init
  <2> SUFFICES ASSUME Init PROVE Contract!Init
    OBVIOUS
  <2>1. Verdict = "pending"
    BY VerdictIs DEF Init
  <2> QED
    BY <2>1 DEF Init, Contract!Init
<1>2. ASSUME TypeOK, CountsMatch, ExportsInvariant, [Next]_allVars
      PROVE  [Contract!Decide \/ Contract!NoInput]_(Contract!contractVars)
  <2>1. CASE OpenInput
    <3>1. pc = "open" /\ pc' \in {"load", "failed"}
      BY <2>1 DEF OpenInput
    <3> QED
      BY <1>2, <3>1, NoInputIsSeen, PendingIsNotSeen
  <2>2. CASE \/ OtherLine \/ StrayEnd \/ ExportStart \/ ExportEnd
             \/ ExportFunc \/ ExportVar \/ ExportAlias
    <3>1. pc = "load" /\ pc' = "load"
      BY <2>2 DEF OtherLine, StrayEnd, ExportStart, ExportEnd, ExportFunc, ExportVar,
                  ExportAlias, Reads, NextLine
    <3> QED
      BY <1>2, <3>1, PendingIsNotSeen
  <2>3. CASE BadLine \/ NestedStart \/ RejectExport
    <3>1. pc = "load" /\ pc' = "failed"
      BY <2>3 DEF BadLine, NestedStart, RejectExport, Reject, Reads
    <3>2. HasRead
      BY <1>2, <3>1 DEF ExportsInvariant
    <3>3. ~Contract!Accepted
      BY <1>2, <2>3, <3>2, RejectedLine
    <3> QED
      BY <1>2, <3>1, <3>3, RejectIsDecide
  <2>4. CASE EndOfFile
    <3>1. pc = "load" /\ line = Len(lines)
      BY <2>4 DEF EndOfFile
    <3>2. HasRead
      BY <1>2, <3>1 DEF ExportsInvariant
    <3>3. CASE g_currlib # None
      <4>1. pc' = "failed" /\ ~Contract!Accepted
        BY <1>2, <2>4, <3>1, <3>2, <3>3, FileIsRead DEF EndOfFile
      <4> QED
        BY <1>2, <3>1, <4>1, RejectIsDecide
    <3>4. CASE g_currlib = None
      <4>1. pc' \notin {"failed", "done"}
        BY <2>4, <3>4 DEF EndOfFile
      <4> QED
        BY <1>2, <3>1, <4>1, PendingIsNotSeen
    <3> QED
      BY <3>3, <3>4
  <2>5. CASE PrintTable \/ TablesDone \/ PrintEntry \/ WriteStubs \/ PrintName \/ PrintCount
    <3>1. pc \notin {"failed", "done"} /\ pc' \notin {"failed", "done"}
      BY <2>5 DEF PrintTable, TablesDone, PrintEntry, WriteStubs, PrintName, PrintCount,
                  Printing, EndLoop
    <3> QED
      BY <1>2, <3>1, PendingIsNotSeen
  <2>6. CASE LoopDone
    <3>1. pc \notin {"failed", "done"} /\ pc' \in {"done", "counts"}
      BY <2>6 DEF LoopDone, EndLoop
    <3> QED
      BY <1>2, <2>6, <3>1, DoneIsDecide, PendingIsNotSeen
  <2>7. CASE UNCHANGED allVars
    <3>1. pc' = pc /\ UNCHANGED <<tables, declared, entries, stubs, names, counts>>
      BY <2>7 DEF allVars, printVars
    <3>2. Verdict' = Verdict
      BY <3>1 DEF Verdict
    <3>3. lines' = lines /\ mode' = mode /\ refused' = refused
      BY <1>2, InputsKept
    <3>4. Printed' = Printed
      BY <3>1, <3>3, PrintedKept
    <3>5. (IF Verdict = "built" THEN Printed ELSE None)'
            = (IF Verdict = "built" THEN Printed ELSE None)
      BY <3>2, <3>4
    <3> QED
      BY <3>2, <3>3, <3>5 DEF Contract!contractVars
  <2> QED
    BY <1>2, <2>1, <2>2, <2>3, <2>4, <2>5, <2>6, <2>7 DEF Next, Finished
<1> QED
  BY <1>1, <1>2, TypeCorrect, CountsAlwaysMatch, ExportsInvariantHolds, PTL
  DEF Spec, ImplementsContract, Contract!Spec
====
