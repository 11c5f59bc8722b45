------------------------------ MODULE NpCells -------------------------------
(***************************************************************************)
(* The contents of the files sign_np makes.  A cell is the exclusive or of *)
(* atoms, as a block is in Kirk.  A MAC, a signature and a keystream cell  *)
(* are atoms named by all they depend on: that a MAC depends on no more    *)
(* than its message and a keystream cell on no more than its position is   *)
(* what Amctrl shows.                                                      *)
(***************************************************************************)
EXTENDS Kirk

CONSTANT Unit   (* 16 bytes: an AES block, and what sizes are rounded to   *)

ASSUME UnitSize == Unit \in Nat \ {0}

Align(n, a) == ((n + a - 1) \div a) * a
Ceil(n, a)  == (n + a - 1) \div a

Num(n)     == Atom("num", n, Zero)
IsNum(c)   == Cardinality(c) = 1 /\ \A a \in c : a[1] = "num"
NumIn(c)   == (CHOOSE a \in c : TRUE)[2]
Random(k)  == Atom("random", k, Zero)

(* The n cells from cell `from' of f on.                                   *)
Part(f, from, n) == [b \in 0 .. n - 1 |-> f[from + b]]

(* Word w of the MAC of a type over cells, made with a version key.        *)
MacWord(w, type, key, cells) == Atom("mac", w, <<type, key, cells>>)
Mac(type, key, cells) == MacWord(0, type, key, cells)
MacKeyIn(mac) == Under(mac)[2]

(***************************************************************************)
(* sceDrmBBCipherInit in mode 2, Update, Final: cell b of the data is      *)
(* xored with the cell of the keystream its position and the seed decide.  *)
(* Encrypting again decrypts.                                              *)
(***************************************************************************)
Counter(seed, b) == seed + b \div Unit + 1
KeyCell(header, version, seed, b) ==
  Atom("key", b % Unit, <<header, version, Counter(seed, b)>>)

Cipher(cells, header, version, seed) ==
  [b \in DOMAIN cells |-> Xor(cells[b], KeyCell(header, version, seed, b))]
=============================================================================
