---------------------------- MODULE MCIsoReader -----------------------------
(***************************************************************************)
(* IsoReader against IsoContract.  Scaled down by 1024: sectors of 2       *)
(* units, a buffer of 8 and an index window of 3 entries, so that the      *)
(* windows have the proportions of the code's and every sector is near an  *)
(* edge of one of them.                                                    *)
(***************************************************************************)
EXTENDS IsoRefinement

(* How a sector is stored: raw, or compressed to a stream of len units     *)
(* padded to gap units (the alignment of the index).                       *)
Stored(raw, len, gap) == [raw |-> raw, len |-> len, gap |-> gap]
R == Stored(TRUE, 2, 2)
Z == Stored(FALSE, 1, 1)
P == Stored(FALSE, 1, 3)
F == Stored(FALSE, 2, 2)

OffsetsFrom(start, st) ==
  LET off[k \in 0 .. Len(st)] == IF k = 0 THEN start ELSE off[k - 1] + st[k].gap
  IN  off

Ciso(start, st) ==
  [header |-> TRUE, iso9660 |-> TRUE, ciso |-> TRUE, sectors |-> Len(st),
   off |-> OffsetsFrom(start, st),
   raw |-> [k \in 0 .. Len(st) - 1 |-> st[k + 1].raw],
   len |-> [k \in 0 .. Len(st) - 1 |-> st[k + 1].len]]

Plain == [Ciso(0, <<R, R, R, R>>) EXCEPT !.ciso = FALSE]

RoomyImages ==
  {Ciso(5, st) : st \in {<<Z, Z, Z, Z, Z, Z, Z, Z>>, <<Z, R, P, Z, F, Z, Z>>, <<P, P, P, F, R, Z>>,
                         <<R, Z, R, Z, R, Z, Z>>}}
SmallImages == {Ciso(1, <<Z, Z, P, Z, Z>>), Ciso(2, <<R, F, Z, Z, F>>)}
BadImages == {[Plain EXCEPT !.header = FALSE], [Plain EXCEPT !.iso9660 = FALSE],
              [Ciso(5, <<Z, R, P, Z>>) EXCEPT !.iso9660 = FALSE]}

MCImages == {Plain} \cup RoomyImages \cup SmallImages \cup BadImages

(* Whole sectors, parts of one, parts of two and three in a row.           *)
MCRequests == {<<p, n>> : p \in {0, 2, 3, 6, 9, 12, 14}, n \in {0, 1, 2, 4}}
=============================================================================
