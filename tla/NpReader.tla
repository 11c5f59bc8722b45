------------------------------ MODULE NpReader ------------------------------
(***************************************************************************)
(* What a reader of the PBP relies on, as operators over its cells alone:  *)
(* it goes from the offsets in the header to the sections, the image, its  *)
(* table and the blocks, checks every signature and MAC it passes, and     *)
(* decrypts.                                                               *)
(***************************************************************************)
EXTENDS NpPbp

Finished == pc = "done" /\ ~spoilt

SectionAt(s)   == NumIn(out[2 + s])
SectionSize(s) == SectionAt(s + 1) - SectionAt(s)
Section(s)     == Part(out, SectionAt(s), SectionSize(s))

(* The image: the header at DATA.PSAR, the table after it, the blocks.     *)
ImageAt    == SectionAt(7)
HeaderCell(b) == out[ImageAt + b]
KeyOfImage == IF HeaderCell(0) = ImageId(2) THEN in.key ELSE Atom("fixed key", 3, Zero)
TableCell(b) == out[ImageAt + Page + b]
EntryOf(j) == encrypt_table([w \in 0 .. EntrySize - 1 |-> TableCell(j * EntrySize + w)])
OffsetIn(entry) == NumIn(entry[4])
SizeIn(entry)   == NumIn(entry[5])
BlockCells(entry) == Part(out, ImageAt + OffsetIn(entry), SizeIn(entry))

(***************************************************************************)
(* Type invariant.                                                         *)
(***************************************************************************)
Steps == {"start", "extra", "pgd", "startdat", "load", "table", "block", "done", "exited", "crashed"}

TypeOK ==
  /\ in \in Inputs /\ pc \in Steps
  /\ startdat_name \in 1 .. 2 \cup {None} /\ opnssmp_name \in 1 .. 2 \cup {None}
  /\ n \in 1 .. Len(Names) + 1
  /\ DOMAIN startdat \subseteq Nat /\ DOMAIN pgd \subseteq Nat
  /\ DOMAIN bufs = 1 .. Len(Names)
  /\ len \in Nat /\ DOMAIN out = 0 .. len - 1
  /\ table_offset \in 0 .. len
  /\ iso_offset \in Nat /\ i \in 0 .. iso_blocks /\ iso_at \in 0 .. iso_size
  /\ DOMAIN table = (IF pc \in {"block", "done"} THEN 0 .. table_size - 1 ELSE DOMAIN table)
  /\ DOMAIN streams = 0 .. i - 1
  /\ spoilt \in BOOLEAN

(***************************************************************************)
(* Every file of Names that the ISO's PSP_GAME directory has is found and  *)
(* no other is taken for it, whatever records, of whatever length, come    *)
(* before and however they fall into sectors.  Directories with a record   *)
(* isoreader.c takes for a corrupt one are excepted.                       *)
(***************************************************************************)
ReadableDisc == AcceptablePath(in.disc, "PSP_GAME")
OnDisc(k) == LookupPath(in.disc, "PSP_GAME", Names[k])

LookupsMatchDirectory ==
  ReadableDisc /\ ~in.same /\ ~spoilt =>
    \A k \in 1 .. Len(Names) : (pc = "load" /\ k < n) \/ pc \in {"table", "block", "done"} =>
      bufs[k] = IF OnDisc(k).ret < 0 THEN None ELSE Content(Names[k], OnDisc(k).size)

(***************************************************************************)
(* The offsets in the header of the PBP lead to the files the ISO had,     *)
(* each whole, an absent one empty, PARAM.SFO with its two keys put, and   *)
(* DATA.PSAR begins on a page, after the other sections.                   *)
(***************************************************************************)
SectionsDescribed ==
  Finished =>
    /\ SectionAt(0) = PbpHeaderSize
    /\ Section(0) = PutSfo(bufs[1])
    /\ \A k \in 2 .. Len(Names) : Section(k - 1) = IF bufs[k] = None THEN Empty ELSE bufs[k]
    /\ ImageAt % Page = 0 /\ ImageAt >= SectionAt(6)

(***************************************************************************)
(* DATA.PSP: its signature is of the PARAM.SFO that is in the PBP and of   *)
(* the content id beside it; the PGD lies at the place it says and there   *)
(* decrypt_pgd gives the optional module back, with the version key or     *)
(* without; STARTDAT lies after the gap, both inside the section.          *)
(*                                                                         *)
(* That is so for modules of whole units (16 bytes).  The PGD of another   *)
(* is copied past the end of pgd_buf (sign_np.c:818, pgd.c:121): it is     *)
(* whole by chance, or decrypt_pgd refuses it; it never gives another      *)
(* content.                                                                *)
(***************************************************************************)
PspNum(what) == NumIn(Section(6)[what])
OpnssmpBack(key) ==
  DecryptPgd(Part(Section(6), PspNum(PgdOffsetAt), PspNum(PgdSizeAt)), PspNum(PgdSizeAt), key)

DataPspReadsBack ==
  Finished =>
    LET psp == Section(6)
        picture == ExtraSize(startdat_name)
        module == ExtraSize(opnssmp_name)
    IN  /\ psp[0] = Atom("data signature", 0, <<Section(0), psp[ContentIdAt]>>)
        /\ opnssmp_name = None => psp[PgdOffsetAt] = Zero /\ psp[PgdSizeAt] = Zero
        /\ opnssmp_name # None =>
             /\ PspNum(PgdOffsetAt) + PspNum(PgdSizeAt) <= SectionSize(6)
             /\ \A key \in {version_key, NoKey} :
                  \/ OpnssmpBack(key) = Content("opnssmp", module)
                  \/ module % Unit # 0 /\ OpnssmpBack(key) = <<>>
        /\ startdat_name # None =>
             /\ startdat_offset + picture < SectionSize(6)
             /\ psp[startdat_offset] = StartdatHeader(picture)
             /\ \A b \in 0 .. picture - 1 : psp[startdat_offset + 1 + b] = Atom("png", b, Zero)

(***************************************************************************)
(* "Copy back the generated PGD file." (pgd.c:120): the PGD in DATA.PSP is *)
(* the one encrypt_pgd generated, of modules of any size, and gives the    *)
(* module back.  The run of this property refutes it.                      *)
(***************************************************************************)
GeneratedPgdCopied ==
  Finished /\ opnssmp_name # None => \A key \in {version_key, NoKey} :
    OpnssmpBack(key) = Content("opnssmp", ExtraSize(opnssmp_name))

(***************************************************************************)
(* The header of the image is what was signed and what its MAC was made    *)
(* of, its data key is the MAC of the table as it lies in the file, and    *)
(* its body decrypts with the header key in it.                            *)
(***************************************************************************)
HeaderVerifies ==
  Finished =>
    LET Upto(m) == [b \in 0 .. m - 1 |-> HeaderCell(b)]
        body == [b \in 0 .. BodySize - 1 |-> HeaderCell(b + 1)]
    IN  /\ HeaderCell(SignatureIn) = Signature(Upto(SignatureIn))
        /\ HeaderCell(HashIn) = Mac(3, KeyOfImage, Upto(HashIn))
        /\ HeaderCell(DataKeyIn) =
             Mac(3, KeyOfImage, [b \in 0 .. table_size - 1 |-> TableCell(b)])
        /\ Cipher(body, HeaderCell(HeaderKeyIn), KeyOfImage, 0) = Body(iso_blocks)

(***************************************************************************)
(* Every block of the ISO is found through its entry of the table: the     *)
(* entry's MAC is that of the cells it points to, and decrypted with the   *)
(* header key from the counter its offset gives they are the block, or its *)
(* compressed form padded to whole units.                                  *)
(***************************************************************************)
PlainBlock(j) ==
  LET rest == iso_size - j * BlockSize
  IN  [b \in 0 .. (IF rest < BlockSize THEN rest ELSE BlockSize) - 1 |-> Iso(j * BlockSize + b)]
LzBlock(j, size) ==
  [b \in 0 .. Align(size, Unit) - 1 |-> IF b < size THEN Atom("lzrc", b, {j}) ELSE Zero]

ImageReadsBack ==
  Finished => \A j \in 0 .. iso_blocks - 1 :
    LET entry == EntryOf(j)
        cells == BlockCells(entry)
        plain == Cipher(cells, HeaderCell(HeaderKeyIn), KeyOfImage, OffsetIn(entry) \div Unit)
    IN  /\ \A w \in 0 .. 3 : entry[w] = MacWord(w, 3, KeyOfImage, cells)
        /\ \/ plain = PlainBlock(j)
           \/ in.compress /\ \E size \in LzSizes :
                plain = LzBlock(j, size) /\ SizeIn(entry) < BlockSize

(***************************************************************************)
(* No counter of the keystream of a header key and a version key serves    *)
(* twice: not for two blocks, and not for a block and the body of the      *)
(* header, which is encrypted from counter 1 on with the same keys.        *)
(***************************************************************************)
CountersOf(j) == streams[j].seed + 1 .. streams[j].seed + streams[j].blocks
BodyCounters  == 1 .. Ceil(BodySize, Unit)

KeystreamNeverReused ==
  \A j \in DOMAIN streams :
    /\ CountersOf(j) \cap BodyCounters = {}
    /\ \A k \in DOMAIN streams : j # k => CountersOf(j) \cap CountersOf(k) = {}

(***************************************************************************)
(* Once the PBP is written a step changes only the pages of the image's    *)
(* header and table in it: seeking back does not damage what was written,  *)
(* neither the sections nor the blocks.                                    *)
(***************************************************************************)
WrittenBackInPlace ==
  [][len > 0 /\ table_offset > 0 =>
       \A b \in DOMAIN out :
         out'[b] = out[b] \/ b \in ImageAt .. ImageAt + Page + table_size - 1]_vars
=============================================================================
