------------------------------ MODULE IsoImage ------------------------------
(***************************************************************************)
(* The image files isoreader.c reads: an ISO, or a CISO, which stores each *)
(* sector raw or compressed at the offset an index gives.  The byte at     *)
(* position p of a sector s is <<s, p>>; a file position is a number.      *)
(***************************************************************************)
EXTENDS Integers, Sequences

CONSTANTS
  SectorSize,    (* SECTOR_SIZE, 0x800                                     *)
  DecBufSize,    (* CISO_DEC_BUFFER_SIZE, 0x2000                           *)
  IdxEntries,    (* NELEMS(g_CISO_idx_cache), 128                          *)
  VolSector,     (* the sector of the volume descriptor, 16                *)
  Images,        (* the image files                                        *)
  None           (* memory nothing was written to                          *)

(***************************************************************************)
(* header: a CISOHeader can be read; iso9660: the descriptor is there;     *)
(* ciso: the magic and the block size are those of a CISO; sectors: how    *)
(* many; off[k]: offset of sector k (off[sectors]: the end of the file);   *)
(* raw[k]: bit 31 of the index entry; len[k]: length of the stream.        *)
(***************************************************************************)
WellFormedImage(m) ==
  /\ m.header \in BOOLEAN /\ m.iso9660 \in BOOLEAN /\ m.ciso \in BOOLEAN
  /\ m.sectors \in Nat
  /\ VolSector < m.sectors
  /\ m.off \in [0 .. m.sectors -> Nat]
  /\ m.raw \in [0 .. m.sectors - 1 -> BOOLEAN]
  /\ m.len \in [0 .. m.sectors - 1 -> 1 .. SectorSize]
  /\ \A k \in 0 .. m.sectors - 1 : m.off[k] + m.len[k] <= m.off[m.sectors]
  /\ \A k, l \in 0 .. m.sectors : k < l => m.off[k] < m.off[l]

(* A byte of the disc, or of memory nothing was written to.                *)
DiscBytes == (Nat \X Nat) \cup {None}

ASSUME IsoConstants ==
  /\ SectorSize \in Nat \ {0}
  /\ DecBufSize \in Nat
  /\ SectorSize <= DecBufSize
  /\ IdxEntries \in Nat \ {0}
  /\ VolSector \in Nat
  /\ None \notin Nat /\ None \notin Seq(DiscBytes)
  /\ \A m \in Images : WellFormedImage(m)

(***************************************************************************)
(* An image of which every compressed sector is far enough in the file for *)
(* the test on the decompression buffer to refill a buffer never filled    *)
(* (g_ciso_dec_buf_offset is then -1, one less than an offset).  Any ISO,  *)
(* and a CISO of at least 1529 sectors, whose index takes 6 KiB.           *)
(***************************************************************************)
Roomy(m) ==
  m.ciso => \A k \in 0 .. m.sectors - 1 :
              ~m.raw[k] => m.off[k] + SectorSize >= DecBufSize - 1

(* The byte at position p of the disc.                                     *)
DiscByte(p) == <<p \div SectorSize, p % SectorSize>>
=============================================================================
