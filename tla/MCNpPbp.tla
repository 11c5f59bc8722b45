------------------------------ MODULE MCNpPbp -------------------------------
(***************************************************************************)
(* sign_np -pbp on ISOs of one to three blocks.  Units of four words, as   *)
(* in the code; blocks of two units, pages of three, directory sectors of  *)
(* 128 bytes, so that PSP_GAME takes up to five.                           *)
(*                                                                         *)
(* And the compressor it calls for a block, by itself: NpPbp says only     *)
(* that a block gets smaller.  Matches of up to seven bytes in a window of *)
(* five places, short ones up to three places away.                        *)
(***************************************************************************)
EXTENDS NpReader, Lzrc

(* A record as UMDs have it, with 14 bytes after the name; a plain one.    *)
Even(size) == size + (size % 2)
Rec(base, len_fi, is_dir, lba, size) ==
  [len_dr |-> Even(33 + len_fi) + 14, len_fi |-> len_fi, name |-> [base |-> base, version |-> ~is_dir],
   dir |-> is_dir, lba |-> lba, size |-> size]
PlainRec(rec) == [rec EXCEPT !.len_dr = Even(33 + rec.len_fi)]

(* Records one after another, none across the end of a sector.             *)
Laid(recs) ==
  LET at[k \in 1 .. Len(recs) + 1] ==
        IF k = 1 THEN 0
        ELSE LET end == at[k - 1] + recs[k - 1].len_dr
             IN  IF k <= Len(recs) /\ (end % SectorSize) + recs[k].len_dr > SectorSize
                 THEN end + isoPos2RestSize(end) ELSE end
      places == {at[k] : k \in 1 .. Len(recs)}
      end == at[Len(recs) + 1]
  IN  [recs |-> [p \in places |-> recs[CHOOSE k \in 1 .. Len(recs) : at[k] = p]],
       size |-> ((end + SectorSize - 1) \div SectorSize) * SectorSize]

Dots == <<Rec(Self, 1, TRUE, 1, 128), Rec(Parent, 1, TRUE, 1, 128)>>
Root(is_dir) ==
  Laid(Dots \o <<Rec("UMD_DATA.BIN", 14, FALSE, 9, 2), Rec("PSP_GAME", 8, is_dir, 2, 640)>>)

Sfo   == Rec("PARAM.SFO", 11, FALSE, 10, 3)
Icon0 == Rec("ICON0.PNG", 11, FALSE, 11, 2)
Icon1 == Rec("ICON1.PMF", 11, FALSE, 12, 1)
Pic0  == Rec("PIC0.PNG", 10, FALSE, 13, 4)
Pic1  == Rec("PIC1.PNG", 10, FALSE, 14, 0)
Snd0  == Rec("SND0.AT3", 10, FALSE, 15, 1)
Long  == Rec("LONG", 33, FALSE, 16, 1)
Boot  == Rec("SYSDIR", 6, TRUE, 17, 128)

Games ==
  {Laid(Dots \o recs) : recs \in
     {<<Icon0, Icon1, Sfo, Pic0, Pic1, Snd0, Boot>>, <<Boot, Sfo, Icon0, Pic1>>, <<Pic0, Sfo>>,
      <<Icon0, Boot>>, <<Icon0, Long, Sfo>>, <<Snd0, PlainRec(Sfo)>>}}

Disc(is_dir, game) == [root |-> Root(is_dir), at |-> [lba \in {2} |-> game]]
Plain == Laid(Dots \o <<Boot, Sfo, Icon0, Pic1>>)

SfoOf(magic, disc_id, category) == [magic |-> magic, disc_id |-> disc_id, category |-> category]
Extra(kind, size) == [kind |-> kind, size |-> size]

Base ==
  [isoOpens |-> TRUE, pbpOpens |-> TRUE, same |-> FALSE, disc |-> Disc(TRUE, Plain),
   sfo |-> SfoOf(TRUE, TRUE, TRUE), iso_size |-> 5, compress |-> FALSE,
   key |-> NoKey, extra |-> <<>>]

Keys == {NoKey, Atom("user key", 0, Zero)}

Refused ==
  {[Base EXCEPT !.isoOpens = FALSE], [Base EXCEPT !.pbpOpens = FALSE], [Base EXCEPT !.same = TRUE]}
Discs ==
  {[Base EXCEPT !.disc = Disc(is_dir, game)] : is_dir \in BOOLEAN, game \in Games}
    \cup {[Base EXCEPT !.sfo = SfoOf(m, d, c)] : m, d, c \in BOOLEAN}
Isos ==
  {[Base EXCEPT !.iso_size = size, !.compress = compress, !.key = key] :
     size \in {5, 8, 13, 16, 19}, compress \in BOOLEAN, key \in Keys}
Kinds == {Extra("png", 3), Extra("psp", 5), Extra("psp", 8), Extra("psp", 20),
          Extra("other", 4), Extra("short", 2), Extra("missing", 0)}
Extras ==
  {[Base EXCEPT !.extra = extra, !.key = key] :
     extra \in {<<x>> : x \in Kinds} \cup {<<x, y>> : x, y \in Kinds}, key \in Keys}

MCInputs == Refused \cup Discs \cup Isos \cup Extras

(* For the run about pgd_buf: a module that is not whole units.            *)
OddModule == {[Base EXCEPT !.extra = <<Extra("psp", 5)>>]}

(***************************************************************************)
(* Blocks of two bytes in all orders, long ones that repeat after a while, *)
(* and one that nothing is done to while an image is made.                 *)
(***************************************************************************)
MCBytes == {7, 40}
Block(length, marks) == [b \in 0 .. length - 1 |-> IF b \in marks THEN 40 ELSE 7]
Untouched == Block(1, {})
NoBlocks  == {Untouched}
MCBlocks ==
  UNION {[0 .. l - 1 -> MCBytes] : l \in {1, 2, 3, 7}}
    \cup {Block(l, {b \in 0 .. l - 1 : b % m = m - 1}) : l \in {12, 13, 20}, m \in 2 .. 6}
    \cup {Block(18, marks) : marks \in SUBSET {1, 4, 9, 12, 14}}

Signing == data = Untouched /\ UNCHANGED lzVars
Compressing == data # Untouched /\ UNCHANGED vars

MCInit ==
  /\ Init /\ LzInit
  /\ (data = Untouched /\ stale = 7) \/ (data # Untouched /\ in = Base)

Compressed == phase = "done" /\ UNCHANGED lzVars

MCNext ==
  \/ (OpenFiles /\ Signing)
  \/ (LookAtExtra /\ Signing)
  \/ (ExtrasSeen /\ Signing)
  \/ (MakePgd /\ Signing)
  \/ (OpnssmpUnread /\ Signing)
  \/ (HeapCrashes /\ Signing)
  \/ (MakeStartdat /\ Signing)
  \/ (StartdatUnread /\ Signing)
  \/ (LoadFile /\ Signing)
  \/ (LoadFails /\ Signing)
  \/ (WritePbp /\ Signing)
  \/ (NoParamSfo /\ Signing)
  \/ (SigningFails /\ Signing)
  \/ (WriteEmptyTable /\ Signing)
  \/ (WriteBlock /\ Signing)
  \/ (WriteUnreadBlock /\ Signing)
  \/ (WriteBack /\ Signing)
  \/ (ForgeFails /\ Signing)
  \/ (Exited /\ Signing)
  \/ (InsertNode /\ Compressing)
  \/ (LastByte /\ Compressing)
  \/ (NoByte /\ Compressing)
  \/ (Compare /\ Compressing)
  \/ (Compared /\ Compressing)
  \/ (MakeRoom /\ Compressing)
  \/ (Slide /\ Compressing)
  \/ (Slid /\ Compressing)
  \/ (CodeByte /\ Compressing)
  \/ (CodeMatch /\ Compressing)
  \/ (CodeEnd /\ Compressing)
  \/ (DecodeByte /\ Compressing)
  \/ (DecodeMatch /\ Compressing)
  \/ (DecodeEnd /\ Compressing)
  \/ (Compressed /\ Compressing)

(* A compression that was started goes on.                                 *)
MCSpec == MCInit /\ [][MCNext]_<<vars, lzVars>> /\ WF_lzVars(Compressing /\ LzNext)

(* The compression of every block ends: no list that insert_node searches, *)
(* after any number of positions were linked and removed, leads back into  *)
(* itself.                                                                 *)
CompressionEnds == data # Untouched => <>(phase = "done")
=============================================================================
