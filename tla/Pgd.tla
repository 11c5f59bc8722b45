-------------------------------- MODULE Pgd ---------------------------------
(***************************************************************************)
(* pgd.c: a file encrypted under two random keys behind a header with      *)
(* three MACs, each over all that comes before it.  The parts of the       *)
(* header are a cell each, and so is a MAC of the table.                   *)
(*                                                                         *)
(* The tools make PGDs with key_index 1, drm_type 1 and flag 2: MACs and   *)
(* ciphers are of type 1 and the fixed key is dnas_key1A90.                *)
(***************************************************************************)
EXTENDS NpCells

CONSTANTS
  PgdBlock,   (* block_size, 2048                                          *)
  NoKey       (* an empty version key                                      *)

ASSUME PgdBlocks == PgdBlock \in Nat \ {0} /\ \E q \in 1 .. PgdBlock : PgdBlock = q * Unit

HeaderKeyAt == 1   (* 0x10 *)
DataKeyAt   == 2   (* 0x30 *)
ParamsAt    == 3   (* 0x44 *)
TableMacAt  == 4   (* 0x60 *)
KeyMacAt    == 5   (* 0x70 *)
DnasMacAt   == 6   (* 0x80 *)
PgdData     == 7   (* 0x90 *)

dnas_key1A90 == Atom("dnas_key1A90", 0, Zero)
PgdMagic     == Atom("PGD", 1, Zero)
ParamsAligned(size) ==   (* mutant: the size of the data with its padding *)
  Atom("params", Align(size, Unit), <<PgdBlock, PgdData>>)
Params(size) == Atom("params", size, <<PgdBlock, PgdData>>)

block_nr(align_size) == Ceil(align_size, PgdBlock)

(* The MAC of block i of the data, of which there are align_size cells.    *)
BlockMac(f, i, align_size, key) ==
  LET rest == align_size - i * PgdBlock
  IN  Mac(1, key, Part(f, i * PgdBlock, IF rest > PgdBlock THEN PgdBlock ELSE rest))

(***************************************************************************)
(* encrypt_pgd.  What has been built of the header is a function, longer   *)
(* by a cell with each MAC.                                                *)
(***************************************************************************)
PgdSize(size) == PgdData + Align(size, Unit) + block_nr(Align(size, Unit))

PgdPlain(data, size) ==
  [b \in 0 .. Align(size, Unit) - 1 |-> IF b < size THEN data[b] ELSE Zero]
PgdBody(data, size, key) == Cipher(PgdPlain(data, size), Random(2), key, 0)
PgdTable(body, align_size, key) ==
  [n \in 0 .. block_nr(align_size) - 1 |-> BlockMac(body, n, align_size, key)]

PgdCrypted(size, key) ==
  Cipher([b \in 0 .. 1 |-> IF b = 0 THEN Random(2) ELSE Params(size)], Random(1), key, 0)
UpTo60(size, key) ==
  [b \in 0 .. TableMacAt - 1 |-> IF b = 0 THEN PgdMagic
                                ELSE IF b = HeaderKeyAt THEN Random(1)
                                ELSE PgdCrypted(size, key)[b - DataKeyAt]]
UpTo70(size, key, table) ==
  [b \in 0 .. KeyMacAt - 1 |-> IF b < TableMacAt THEN UpTo60(size, key)[b]
                              ELSE Mac(1, key, table)]
UpTo80(size, key, table) ==
  [b \in 0 .. DnasMacAt - 1 |-> IF b < KeyMacAt THEN UpTo70(size, key, table)[b]
                               ELSE Mac(1, key, UpTo70(size, key, table))]

EncryptPgd(data, size, key) ==
  LET align_size == Align(size, Unit)
      body  == PgdBody(data, size, key)
      table == PgdTable(body, align_size, key)
  IN  [b \in 0 .. PgdSize(size) - 1 |->
         IF b < DnasMacAt THEN UpTo80(size, key, table)[b]
         ELSE IF b = DnasMacAt THEN Mac(1, dnas_key1A90, UpTo80(size, key, table))
         ELSE IF b < PgdData + align_size THEN body[b - PgdData]
         ELSE table[b - PgdData - align_size]]

(***************************************************************************)
(* decrypt_pgd: the data cells if every check passes, else <<>>.  With an  *)
(* empty key it takes the one the MAC at 0x70 was made with.  The MACs of  *)
(* the blocks are not looked at, only the one over their table.            *)
(***************************************************************************)
ParamsOf(c) == (CHOOSE a \in c : TRUE)[2]

DecryptPgd(f, pgd_size, key) ==
  LET vkey   == IF key = NoKey THEN MacKeyIn(f[KeyMacAt]) ELSE key
      header == Cipher(Part(f, DataKeyAt, 2), f[HeaderKeyAt], vkey, 0)
      size   == ParamsOf(header[1])
      align_size == Align(size, Unit)
      table  == Part(f, PgdData + align_size, block_nr(align_size))
  IN  IF /\ f[DnasMacAt] = Mac(1, dnas_key1A90, Part(f, 0, DnasMacAt))
         /\ f[KeyMacAt] = Mac(1, vkey, Part(f, 0, KeyMacAt))
         /\ Cardinality(header[1]) = 1
         /\ align_size + block_nr(align_size) <= pgd_size
         /\ f[TableMacAt] = Mac(1, vkey, table)
      THEN [b \in 0 .. size - 1 |->
              Cipher(Part(f, PgdData, align_size), header[0], vkey, 0)[b]]
      ELSE <<>>
=============================================================================
