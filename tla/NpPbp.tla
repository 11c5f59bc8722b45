------------------------------- MODULE NpPbp --------------------------------
(***************************************************************************)
(* sign_np -pbp: an ISO made into a PBP whose last section, DATA.PSAR, is  *)
(* the ISO in encrypted blocks behind a header and a table.                *)
(*                                                                         *)
(* A cell is a word of the table and of the data.  Of the PBP, DATA.PSP    *)
(* and the headers the parts that matter are a cell each, at positions     *)
(* that keep their order and their alignment.                              *)
(***************************************************************************)
EXTENDS Pgd, IsoDir, Sequences

CONSTANTS
  Inputs,       (* arguments and files the tool is started with            *)
  BlockSize,    (* block_size, 0x8000                                      *)
  Page,         (* 0x100: what DATA.PSAR is aligned to, and its header     *)
  BodySize,     (* the encrypted part of that header                       *)
  RatioLimit,   (* RATIO_LIMIT                                             *)
  LzSizes,      (* what lzrc_compress returns for a block                  *)
  None

EntrySize == 8

(* The files of write_pbp, in the order of their sections.                 *)
Names == <<"PARAM.SFO", "ICON0.PNG", "ICON1.PMF", "PIC0.PNG", "PIC1.PNG", "SND0.AT3">>

(***************************************************************************)
(* isoOpens, pbpOpens: fopen succeeds; same: the output is the input;      *)
(* disc: the directories; sfo: of PARAM.SFO, whether it has the magic and  *)
(* which of the two keys to put it has; key: the version key, or NoKey for *)
(* the fixed one; extra: the optional files.                               *)
(***************************************************************************)
IsInput(x) ==
  /\ x.isoOpens \in BOOLEAN /\ x.pbpOpens \in BOOLEAN /\ x.same \in BOOLEAN
  /\ x.iso_size \in Nat \ {0} /\ x.compress \in BOOLEAN
  /\ IsDisc(x.disc)
  /\ x.sfo.magic \in BOOLEAN
  /\ Len(x.extra) \in 0 .. 2
  /\ \A k \in 1 .. Len(x.extra) :
       x.extra[k].kind \in {"png", "psp", "other", "short", "missing"} /\ x.extra[k].size \in Nat

ASSUME NpConstants ==
  /\ BlockSize \in Nat \ {0} /\ Page \in Nat \ {0} /\ BodySize \in Nat \ {0}
  /\ \E q \in 1 .. BlockSize : BlockSize = q * Unit
  /\ \E q \in 1 .. Page : Page = q * Unit
  /\ \E q \in 1 .. EntrySize : EntrySize = q * Unit
  /\ BodySize + 6 <= Page
  /\ LzSizes \subseteq Nat \ {0} /\ RatioLimit \in Nat
  /\ \A z \in LzSizes : (z * 100) \div BlockSize < RatioLimit => Align(z, Unit) < BlockSize
  /\ \A x \in Inputs : IsInput(x)

VARIABLES
  in, pc,
  startdat_name, opnssmp_name,   (* the optional files, once looked at     *)
  n,                             (* which of them, or of Names, is next    *)
  startdat, pgd,                 (* startdat_buf and pgd_buf: their cells  *)
  bufs,                          (* what load_file_from_ISO returned       *)
  out, len,                      (* the output                             *)
  table_offset,                  (* as write_pbp returned it               *)
  table, iso_offset, i,
  iso_at,                        (* ftello64(iso)                          *)
  streams,                       (* history: seed and length of the cipher *)
                                 (* of each block                          *)
  spoilt                         (* history: something failed and main     *)
                                 (* went on                                *)

argVars   == <<in, startdat_name, opnssmp_name>>
extraVars == <<startdat, pgd>>
outVars   == <<out, len>>
blockVars == <<table, iso_offset, i, iso_at, streams>>
vars == <<argVars, pc, n, extraVars, bufs, outVars, table_offset, blockVars, spoilt>>

Empty == [b \in {} |-> Zero]
Size(cells) == Cardinality(DOMAIN cells)

version_key == IF in.key = NoKey THEN Atom("fixed key", 3, Zero) ELSE in.key
np_flags    == IF in.key = NoKey THEN 16777219 ELSE 2
header_key  == Random(3)
iso_size    == IF in.same THEN 0 ELSE in.iso_size
iso_blocks  == Ceil(iso_size, BlockSize)
table_size  == iso_blocks * EntrySize

Init ==
  /\ in \in Inputs /\ pc = "start"
  /\ startdat_name = None /\ opnssmp_name = None /\ n = 1
  /\ startdat = Empty /\ pgd = Empty
  /\ bufs = [k \in 1 .. Len(Names) |-> None]
  /\ out = Empty /\ len = 0
  /\ table_offset = 0
  /\ table = Empty /\ iso_offset = 0 /\ i = 0 /\ iso_at = 0 /\ streams = [j \in {} |-> None]
  /\ spoilt = FALSE

(***************************************************************************)
(* The files are opened, which truncates the output.  If one cannot be,    *)
(* both are closed, and fclose is given a null pointer.                    *)
(***************************************************************************)
OpenFiles ==
  /\ pc = "start"
  /\ pc' = IF in.isoOpens /\ in.pbpOpens THEN "extra" ELSE "crashed"
  /\ UNCHANGED <<argVars, n, extraVars, bufs, outVars, table_offset, blockVars, spoilt>>

(***************************************************************************)
(* An optional file is known by its first four bytes; one that cannot be   *)
(* opened is closed all the same.                                          *)
(***************************************************************************)
LookAtExtra ==
  /\ pc = "extra"
  /\ n <= Len(in.extra)
  /\ LET kind == in.extra[n].kind
     IN  /\ startdat_name' = IF kind = "png" /\ startdat_name = None THEN n ELSE startdat_name
         /\ opnssmp_name' = IF kind = "psp" /\ opnssmp_name = None THEN n ELSE opnssmp_name
         /\ pc' = CASE kind = "missing" -> "crashed"
                    [] kind \in {"short", "other"} -> "exited"
                    [] OTHER -> "extra"
  /\ n' = n + 1
  /\ UNCHANGED <<in, extraVars, bufs, outVars, table_offset, blockVars, spoilt>>

ExtrasSeen ==
  /\ pc = "extra"
  /\ n > Len(in.extra)
  /\ pc' = "pgd"
  /\ n' = 1
  /\ UNCHANGED <<argVars, extraVars, bufs, outVars, table_offset, blockVars, spoilt>>

Content(what, size) == [b \in 0 .. size - 1 |-> Atom(what, b, Zero)]
ExtraSize(name) == in.extra[name].size

(***************************************************************************)
(* main allocates pgd_buf for the module as long as it is, encrypt_pgd     *)
(* copies to it a PGD of the module padded to whole units; a MAC of the    *)
(* table takes a unit of either.  So of a module that is not whole units   *)
(* the end of the last MAC lies in memory of the heap's own: it is there   *)
(* later or is not, and the heap may find itself damaged (HeapCrashes).    *)
(***************************************************************************)
PgdBufRoundedDown(size) ==   (* mutant: a block that is not full is not counted *)
  PgdData + size + (size \div PgdBlock) * Unit
PgdBufSize(size) == PgdData + size + Ceil(size, PgdBlock) * Unit
PgdCopied(size)  == PgdData + Align(size, Unit) + block_nr(Align(size, Unit)) * Unit
Overruns(size)   == PgdCopied(size) > PgdBufSize(size)

LastMacLost(size, cells) == [cells EXCEPT ![PgdSize(size) - 1] = Atom("heap", 0, Zero)]
PgdOf(size) == EncryptPgd(Content("opnssmp", size), size, version_key)
PgdsLeft(size) ==
  {PgdOf(size)} \cup (IF Overruns(size) THEN {LastMacLost(size, PgdOf(size))} ELSE {})

MakePgd ==
  /\ pc = "pgd"
  /\ pgd' \in IF opnssmp_name = None THEN {Empty} ELSE PgdsLeft(ExtraSize(opnssmp_name))
  /\ pc' = "startdat"
  /\ UNCHANGED <<argVars, n, startdat, bufs, outVars, table_offset, blockVars, spoilt>>

OpnssmpUnread ==
  /\ pc = "pgd"
  /\ opnssmp_name # None
  /\ pc' = "exited"
  /\ UNCHANGED <<argVars, n, extraVars, bufs, outVars, table_offset, blockVars, spoilt>>

(* A later malloc or free stops the program.                               *)
HeapCrashes ==
  /\ pc \in {"startdat", "load", "table", "block"}
  /\ opnssmp_name # None
  /\ Overruns(ExtraSize(opnssmp_name))
  /\ pc' = "crashed"
  /\ UNCHANGED <<argVars, n, extraVars, bufs, outVars, table_offset, blockVars, spoilt>>

(***************************************************************************)
(* STARTDAT is a header and the picture.  A picture that cannot be read is *)
(* left out with a warning.                                                *)
(***************************************************************************)
StartdatHeader(size) == Atom("STARTDAT", size, Zero)

MakeStartdat ==
  /\ pc = "startdat"
  /\ startdat' = IF startdat_name = None THEN Empty
                 ELSE [b \in 0 .. ExtraSize(startdat_name) |->
                         IF b = 0 THEN StartdatHeader(ExtraSize(startdat_name))
                         ELSE Atom("png", b - 1, Zero)]
  /\ pc' = "load"
  /\ UNCHANGED <<argVars, n, pgd, bufs, outVars, table_offset, blockVars, spoilt>>

StartdatUnread ==
  /\ pc = "startdat"
  /\ startdat_name # None
  /\ spoilt' = TRUE
  /\ pc' = "load"
  /\ UNCHANGED <<argVars, n, extraVars, bufs, outVars, table_offset, blockVars>>

(***************************************************************************)
(* write_pbp: load_file_from_ISO for each of Names.  It returns NULL, and  *)
(* a size of 0, if the file is not there or the image cannot be read.      *)
(***************************************************************************)
LoadFile ==
  /\ pc = "load"
  /\ n <= Len(Names)
  /\ LET r == isoGetFileInfo(in.disc, "PSP_GAME", Names[n])
     IN  bufs' = [bufs EXCEPT ![n] = IF in.same \/ r.ret < 0 THEN None
                                     ELSE Content(Names[n], r.size)]
  /\ n' = n + 1
  /\ UNCHANGED <<argVars, pc, extraVars, outVars, table_offset, blockVars, spoilt>>

LoadFails ==
  /\ pc = "load"
  /\ n <= Len(Names)
  /\ spoilt' = TRUE
  /\ n' = n + 1
  /\ UNCHANGED <<argVars, pc, extraVars, bufs, outVars, table_offset, blockVars>>

(***************************************************************************)
(* DATA.PSP: a signature of PARAM.SFO and the content id, then the place   *)
(* of the PGD in it, the content id and np_flags; STARTDAT, after a gap,   *)
(* and the PGD.                                                            *)
(***************************************************************************)
PgdOffsetAt == 1   (* 0x30 *)
PgdSizeAt   == 2   (* 0x34 *)
ContentIdAt == 3   (* 0x560 *)
FlagsAt     == 4   (* 0x590 *)
DataPspEnd  == 5   (* 0x594 *)
Gap         == 1   (* 0xC *)

content_id == Atom("cid", 0, Zero)
DataSignature(sfo) == Atom("data signature", 0, <<sfo, content_id>>)

startdat_offset == DataPspEnd + Gap
PgdPlace == IF Size(startdat) > 0 THEN startdat_offset + Size(startdat) ELSE DataPspEnd

DataPsp(sfo) ==
  LET start == PgdPlace
      size  == DataPspEnd + (IF Size(startdat) > 0 THEN Size(startdat) + Gap ELSE 0) + Size(pgd)
      In(b, from, cells) == b >= from /\ b < from + Size(cells)
  IN  [b \in 0 .. size - 1 |->
         IF b = 0 THEN DataSignature(sfo)
         ELSE IF b = PgdOffsetAt THEN (IF Size(pgd) > 0 THEN Num(start) ELSE Zero)
         ELSE IF b = PgdSizeAt THEN (IF Size(pgd) > 0 THEN Num(Size(pgd)) ELSE Zero)
         ELSE IF b = ContentIdAt THEN content_id
         ELSE IF b = FlagsAt THEN Num(np_flags)
         ELSE IF In(b, start, pgd) THEN pgd[b - start]
         ELSE IF In(b, startdat_offset, startdat) THEN startdat[b - startdat_offset]
         ELSE Zero]

(***************************************************************************)
(* sfo_put_key writes over a key that is there.  A cell of PARAM.SFO says  *)
(* whether the disc id and the category are the new ones.                  *)
(***************************************************************************)
PutSfo(cells) ==
  [b \in DOMAIN cells |-> Atom("sfo", b, <<in.sfo.magic /\ in.sfo.disc_id,
                                           in.sfo.magic /\ in.sfo.category>>)]

(***************************************************************************)
(* The PBP: a header with the offset of each section, the sections, and an *)
(* empty page for DATA.PSAR.                                               *)
(***************************************************************************)
PbpHeaderSize == 10
Sections(sfo) ==
  [s \in 0 .. 6 |-> IF s = 0 THEN sfo
                    ELSE IF s = 6 THEN DataPsp(sfo)
                    ELSE IF bufs[s + 1] = None THEN Empty ELSE bufs[s + 1]]

OffsetsUnaligned(secs) ==   (* mutant: DATA.PSAR follows DATA.PSP *)
  LET off[s \in 0 .. 7] == IF s = 0 THEN PbpHeaderSize ELSE off[s - 1] + Size(secs[s - 1])
  IN  off

OffsetsOf(secs) ==
  LET off[s \in 0 .. 7] == IF s = 0 THEN PbpHeaderSize ELSE off[s - 1] + Size(secs[s - 1])
  IN  [s \in 0 .. 7 |-> IF s = 7 THEN Align(off[7], Page) ELSE off[s]]

InSection(secs, off, s, b) == b >= off[s] /\ b < off[s] + Size(secs[s])

PbpCell(secs, off, b) ==
  IF b < 2 THEN Atom("PBP", b, Zero)
  ELSE IF b < PbpHeaderSize THEN Num(off[b - 2])
  ELSE IF \E s \in 0 .. 6 : InSection(secs, off, s, b)
       THEN LET s == CHOOSE s \in 0 .. 6 : InSection(secs, off, s, b) IN secs[s][b - off[s]]
  ELSE Zero

Pbp(secs) ==
  LET off == OffsetsOf(secs)
  IN  [b \in 0 .. off[7] + Page - 1 |-> PbpCell(secs, off, b)]

WritePbp ==
  /\ pc = "load"
  /\ n > Len(Names)
  /\ bufs[1] # None
  /\ LET pbp == Pbp(Sections(PutSfo(bufs[1])))
     IN  out' = pbp /\ len' = Size(pbp) /\ table_offset' = Size(pbp)
  /\ pc' = "table"
  /\ UNCHANGED <<argVars, n, extraVars, bufs, blockVars, spoilt>>

(* Without PARAM.SFO a null pointer is read.                               *)
NoParamSfo ==
  /\ pc = "load"
  /\ n > Len(Names)
  /\ bufs[1] = None
  /\ pc' = "crashed"
  /\ UNCHANGED <<argVars, n, extraVars, bufs, outVars, table_offset, blockVars, spoilt>>

(* If signing fails write_pbp writes nothing and returns 0; main goes on.  *)
SigningFails ==
  /\ pc = "load"
  /\ n > Len(Names)
  /\ bufs[1] # None
  /\ table_offset' = 0
  /\ spoilt' = TRUE
  /\ pc' = "table"
  /\ UNCHANGED <<argVars, n, extraVars, bufs, outVars, blockVars>>

(***************************************************************************)
(* fwrite of cells at a position of the output; what is there is           *)
(* overwritten.                                                            *)
(***************************************************************************)
WriteAt(f, at, cells) ==
  [b \in DOMAIN f \cup {at + k : k \in DOMAIN cells} |->
     IF b - at \in DOMAIN cells THEN cells[b - at] ELSE f[b]]
FWrite(at, cells) == out' = WriteAt(out, at, cells) /\ len' = Size(out')

(* An empty table holds the place of the real one.                         *)
WriteEmptyTable ==
  /\ pc = "table"
  /\ table' = [b \in 0 .. table_size - 1 |-> Zero]
  /\ FWrite(len, table')
  /\ iso_offset' = Page + table_size
  /\ pc' = "block"
  /\ UNCHANGED <<argVars, n, extraVars, bufs, table_offset, i, iso_at, streams, spoilt>>

(***************************************************************************)
(* One block of the ISO: read, compressed if that is asked for and worth   *)
(* it, encrypted, and entered in the table with its MAC.                   *)
(***************************************************************************)
Iso(b) == Atom("iso", b, Zero)
RestWhole == BlockSize   (* mutant: every block is read whole *)
RestOfIso == IF iso_at + BlockSize > iso_size THEN iso_size - iso_at ELSE BlockSize

Lz(size) == [b \in 0 .. Align(size, Unit) - 1 |-> IF b < size THEN Atom("lzrc", b, {i}) ELSE Zero]

encrypt_table(p) ==
  [w \in 0 .. EntrySize - 1 |->
     CASE w < 4 -> p[w]
       [] w = 4 -> Xor(p[4], Xor(p[2], p[3]))
       [] w = 5 -> Xor(p[5], Xor(p[1], p[2]))
       [] w = 6 -> Xor(p[6], Xor(p[0], p[3]))
       [] w = 7 -> Xor(p[7], Xor(p[0], p[1]))]

Entry(place, wsize, cells) ==
  [w \in 0 .. EntrySize - 1 |-> IF w < 4 THEN MacWord(w, 3, version_key, cells)
                                ELSE IF w = 4 THEN Num(place)
                                ELSE IF w = 5 THEN Num(wsize)
                                ELSE Zero]

Advanced(wsize) == iso_offset + Align(wsize, Unit)

SeedByBlock == i   (* mutant: the number of the block for its seed *)
Seed == iso_offset \div Unit

(* wbuf, of which wsize cells count.                                       *)
PutBlock(wbuf, wsize) ==
  LET crypted == Cipher(Part(wbuf, 0, wsize), header_key, version_key, Seed)
      padded  == [b \in 0 .. Align(wsize, Unit) - 1 |->
                    IF b < wsize THEN crypted[b] ELSE Zero]
  IN  /\ table' = WriteAt(table, i * EntrySize, encrypt_table(Entry(iso_offset, wsize, crypted)))
      /\ FWrite(len, padded)
      /\ streams' = [j \in 0 .. i |-> IF j = i THEN [seed |-> Seed, blocks |-> Ceil(wsize, Unit)]
                                      ELSE streams[j]]
      /\ iso_offset' = Advanced(wsize)
      /\ i' = i + 1

Worth(size) == (size * 100) \div BlockSize < RatioLimit

PutPlainOrLz(plain) ==
  \/ /\ \/ ~in.compress
        \/ \E size \in LzSizes : ~Worth(size)
     /\ PutBlock(plain, RestOfIso)
  \/ /\ in.compress
     /\ \E size \in LzSizes : Worth(size) /\ PutBlock(Lz(size), Align(size, Unit))

WriteBlock ==
  /\ pc = "block"
  /\ i < iso_blocks
  /\ PutPlainOrLz([b \in 0 .. RestOfIso - 1 |-> Iso(iso_at + b)])
  /\ iso_at' = iso_at + RestOfIso
  /\ UNCHANGED <<argVars, pc, n, extraVars, bufs, table_offset, spoilt>>

(* After a warning the block is what the buffer was cleared to.            *)
WriteUnreadBlock ==
  /\ pc = "block"
  /\ i < iso_blocks
  /\ PutPlainOrLz([b \in 0 .. RestOfIso - 1 |-> Zero])
  /\ spoilt' = TRUE
  /\ UNCHANGED <<argVars, pc, n, extraVars, bufs, table_offset, iso_at>>

(***************************************************************************)
(* forge_npumdimg: the header of the image.  Its body is encrypted, then   *)
(* a MAC is made of all before it and a signature of all before that.      *)
(***************************************************************************)
HeaderKeyIn == BodySize + 1   (* 0xA0 *)
DataKeyIn   == BodySize + 2   (* 0xB0 *)
HashIn      == BodySize + 3   (* 0xC0 *)
PaddingIn   == BodySize + 4   (* 0xD0 *)
SignatureIn == BodySize + 5   (* 0xD8 *)

ImageId(flags) == Atom("image id", flags, content_id)
Body(blocks)   == [b \in 0 .. BodySize - 1 |-> Atom("body", b, {blocks})]
Signature(cells) == Atom("signature", 0, cells)

NpBody == Cipher(Body(iso_blocks), header_key, version_key, 0)
UpToC0(data_key) ==
  [b \in 0 .. HashIn - 1 |-> IF b = 0 THEN ImageId(np_flags)
                             ELSE IF b = HeaderKeyIn THEN header_key
                             ELSE IF b = DataKeyIn THEN data_key
                             ELSE NpBody[b - 1]]
UpToD8(data_key) ==
  [b \in 0 .. SignatureIn - 1 |-> IF b < HashIn THEN UpToC0(data_key)[b]
                                  ELSE IF b = HashIn THEN Mac(3, version_key, UpToC0(data_key))
                                  ELSE Random(4)]

NpHeader(data_key) ==
  [b \in 0 .. Page - 1 |-> IF b < SignatureIn THEN UpToD8(data_key)[b]
                           ELSE IF b = SignatureIn THEN Signature(UpToD8(data_key)) ELSE Zero]

(***************************************************************************)
(* The header and the table are written in their places.  A seek to before *)
(* the start, which is where a PBP that was not written has its image,     *)
(* fails and leaves the position at the end.                               *)
(***************************************************************************)
DataKey == Mac(3, version_key, table)

np_offsetHere == table_offset   (* mutant: the header is put where the table goes *)
np_offset == table_offset - Page

WriteBack ==
  /\ pc = "block"
  /\ i = iso_blocks
  /\ LET forged == WriteAt(out, IF np_offset >= 0 THEN np_offset ELSE len, NpHeader(DataKey))
     IN  out' = WriteAt(forged, table_offset, table) /\ len' = Size(out')
  /\ pc' = "done"
  /\ UNCHANGED <<argVars, n, extraVars, bufs, table_offset, blockVars, spoilt>>

(* forge_npumdimg fails to sign: NULL is written.                          *)
ForgeFails ==
  /\ pc = "block"
  /\ i = iso_blocks
  /\ pc' = "crashed"
  /\ UNCHANGED <<argVars, n, extraVars, bufs, outVars, table_offset, blockVars, spoilt>>

Exited == pc \in {"done", "exited", "crashed"} /\ UNCHANGED vars

Next ==
  \/ OpenFiles \/ LookAtExtra \/ ExtrasSeen \/ MakePgd \/ OpnssmpUnread \/ HeapCrashes
  \/ MakeStartdat \/ StartdatUnread \/ LoadFile \/ LoadFails
  \/ WritePbp \/ NoParamSfo \/ SigningFails
  \/ WriteEmptyTable \/ WriteBlock \/ WriteUnreadBlock \/ WriteBack \/ ForgeFails
  \/ Exited

Spec == Init /\ [][Next]_vars
=============================================================================
