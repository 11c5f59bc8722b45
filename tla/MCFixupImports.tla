--------------------------- MODULE MCFixupImports ---------------------------
(***************************************************************************)
(* Files and map files for FixupImports.                                   *)
(***************************************************************************)
EXTENDS FixupImports

MCLibs == {"A", "B"}
MCNids == {"x", "y", "z"}

(* The stub table of a file: to[t] is the record of stub t, jump[t] tells  *)
(* whether it is a jump already.  The records with jumps are complete.     *)
Jumps(to, jump, k) == {t \in DOMAIN to : to[t] = k /\ jump[t]}
First(S) == CHOOSE t \in S : \A u \in S : t <= u
Size(S)  == IF S = {} THEN 0 ELSE 1 + (CHOOSE t \in S : \A u \in S : u <= t) - First(S)
Place(S) == IF S = {} THEN None ELSE First(S) - 1

Table(to, jump, nrec, named) ==
  [valid |-> TRUE, libstub |-> TRUE, stubtext |-> TRUE,
   n |-> Len(to), nrec |-> nrec,
   imp   |-> [t \in 0 .. Len(to) - 1 |-> IF jump[t + 1] THEN None ELSE to[t + 1]],
   same  |-> [t \in 0 .. Len(to) - 1 |-> TRUE],
   nid   |-> [t \in 0 .. Len(to) - 1 |-> named[t + 1]],
   name  |-> [k \in 0 .. nrec - 1 |-> IF k = 0 THEN "A" ELSE IF k = 1 THEN "B" ELSE None],
   vars  |-> [k \in 0 .. nrec - 1 |-> 0],
   at    |-> [k \in 0 .. nrec |-> 6 * k],
   cnt   |-> [k \in 0 .. nrec |-> Size(Jumps(to, jump, k))],
   nids  |-> [k \in 0 .. nrec |-> Place(Jumps(to, jump, k))],
   funcs |-> [k \in 0 .. nrec |-> Place(Jumps(to, jump, k))]]

(* The jumps of a record are consecutive, as an earlier run left them.     *)
Consecutive(to, jump, nrec) == \A k \in 0 .. nrec - 1 :
  LET S == Jumps(to, jump, k)
  IN  S = {} \/ S = First(S) .. First(S) + Size(S) - 1

NidsXYZ == <<"x", "y", "z", "x">>
Tables(n, nrec) ==
  {Table(x[1], x[2], nrec, NidsXYZ) :
     x \in {y \in [1 .. n -> 0 .. nrec - 1] \X [1 .. n -> BOOLEAN] :
              Consecutive(y[1], y[2], nrec)}}

AllTables == UNION {Tables(n, 2) : n \in 0 .. 4} \cup Tables(3, 3)
SoundTables == {f \in AllTables : ~StartsInCompleted(f)}

New4 == Table(<<0, 0, 1, 1>>, <<FALSE, FALSE, FALSE, FALSE>>, 2, <<"x", "y", "x", "y">>)
BadFiles ==
  { [New4 EXCEPT !.valid = FALSE],
    [New4 EXCEPT !.vars[0] = 3],
    [Table(<<0, 1, 2, 2>>, <<FALSE, FALSE, FALSE, FALSE>>, 3, NidsXYZ)
       EXCEPT !.at = [k \in 0 .. 3 |-> <<0, 5, 11, 16>>[k + 1]]],
    [New4 EXCEPT !.same[2] = FALSE],
    [New4 EXCEPT !.imp[1] = -1],
    [Table(<<>>, <<>>, 2, <<>>) EXCEPT !.libstub = FALSE, !.stubtext = FALSE],
    [Table(<<>>, <<>>, 2, <<>>) EXCEPT !.stubtext = FALSE] }

Lib(l)      == [kind |-> "lib", name |-> l]
E(old, new) == [kind |-> "entry", old |-> old, new |-> new]
Other(k)    == [kind |-> k]
Assign      == [kind |-> "assign", old |-> "x", new |-> "z"]

TableMapFiles == {<<>>, <<Lib("A"), E("x", "y"), Lib("B"), E("y", "z")>>}

NidFiles == {New4,
             Table(<<0, 0, 2, 1>>, <<FALSE, FALSE, FALSE, FALSE>>, 3, <<"x", "x", "z", "x">>),
             Table(<<1, 1, 0, 0>>, <<TRUE, TRUE, FALSE, FALSE>>, 2, <<"x", "y", "x", "y">>)}

(* Map files with every kind of line; up to five lines of these kinds.     *)
MapLines == {Lib("A"), Lib("B"), E("x", "y"), E("y", "z"), Other("invalid"), Other("noname"),
             Other("comment"), Assign}
ManyMapFiles == UNION {[1 .. n -> MapLines] : n \in 0 .. 2}
  \cup {<<Lib("A"), a, b, c, d>> : a, b \in {E("x", "y"), E("y", "z"), Lib("A"), Lib("B")},
                                   c \in {E("x", "z"), Other("noname"), Other("invalid"), Lib("B")},
                                   d \in {E("y", "x"), Lib("A")}}

TableFiles == SoundTables \cup BadFiles
MCFiles    == TableFiles \cup NidFiles
MCMapFiles == [f \in MCFiles |-> IF f \in NidFiles THEN ManyMapFiles ELSE TableMapFiles]

(* The inputs of the runs that show what the tool lets through.            *)
ToTheEnd      == {[New4 EXCEPT !.imp[3] = 2]}
FiveWords     == {[New4 EXCEPT !.at = [k \in 0 .. 2 |-> 5 * k]]}
TwoLibraries  == [f \in FiveWords |-> {<<Lib("A"), E("x", "y"), Lib("B"), E("y", "z")>>}]
NoMapFile     == [f \in AllTables \cup ToTheEnd |-> {<<>>}]
=============================================================================
