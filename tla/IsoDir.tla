------------------------------- MODULE IsoDir -------------------------------
(***************************************************************************)
(* isoGetFileInfo: the directories of an ISO searched for a path.          *)
(*                                                                         *)
(* A directory is its size and its records by their position: at any other *)
(* position the length byte is 0.  A record has its length (len_dr), the   *)
(* length of its name (len_fi), the name with or without ";1", and the     *)
(* place and size of a file or a directory.  The sectors are the ones      *)
(* IsoReader reads; none of the paths the tool asks for has "." or "..",   *)
(* a long component or more than two.                                      *)
(***************************************************************************)
EXTENDS Integers, FiniteSets

CONSTANTS
  SectorSize,   (* SECTOR_SIZE                                             *)
  SizeofRecord, (* sizeof(Iso9660DirectoryRecord): one more than the 33    *)
                (* bytes before the name, as it has its first one          *)
  NameMax       (* the longest len_fi                                      *)

ASSUME IsoDirConstants ==
  /\ SectorSize \in Nat \ {0} /\ SizeofRecord \in Nat \ {0} /\ NameMax \in Nat

Self   == "self"     (* the name that is one byte 0 *)
Parent == "parent"   (* the name that is one byte 1 *)

Found(rec) == [ret |-> 0, lba |-> rec.lba, size |-> rec.size]
Error(ret) == [ret |-> ret, lba |-> 0, size |-> 0]
isoPos2RestSize(p) == SectorSize - (p % SectorSize)

(* normalizeName cuts the name at ";1".                                    *)
normalizeName(rec) == rec.name.base

Corrupt(rec) == rec.len_dr < rec.len_fi + SizeofRecord
Matches(rec, file) == rec.name.base \notin {Self, Parent} /\ normalizeName(rec) = file

(***************************************************************************)
(* findFile: on from position p.                                           *)
(***************************************************************************)
findFileStops(dir, file, is_dir) ==   (* mutant: the rest of a sector taken for the end *)
  LET from[p \in 0 .. dir.size + SectorSize] ==
        IF p >= dir.size \/ p \notin DOMAIN dir.recs THEN Error(-18)
        ELSE LET rec == dir.recs[p]
             IN  CASE Corrupt(rec) -> Error(-12)
                   [] ~Corrupt(rec) /\ rec.len_fi > NameMax -> Error(-11)
                   [] ~Corrupt(rec) /\ rec.len_fi <= NameMax /\ Matches(rec, file) ->
                        IF is_dir /\ ~rec.dir THEN Error(-14) ELSE Found(rec)
                   [] OTHER -> from[p + rec.len_dr]
  IN  from[0]

findFile(dir, file, is_dir) ==
  LET from[p \in 0 .. dir.size + SectorSize] ==
        IF p >= dir.size THEN Error(-18)
        ELSE IF p \notin DOMAIN dir.recs THEN from[p + isoPos2RestSize(p)]
        ELSE LET rec == dir.recs[p]
             IN  CASE Corrupt(rec) -> Error(-12)
                   [] ~Corrupt(rec) /\ rec.len_fi > NameMax -> Error(-11)
                   [] ~Corrupt(rec) /\ rec.len_fi <= NameMax /\ Matches(rec, file) ->
                        IF is_dir /\ ~rec.dir THEN Error(-14) ELSE Found(rec)
                   [] OTHER -> from[p + rec.len_dr]
  IN  from[0]

(***************************************************************************)
(* findPath for /folder/file: disc.root is the root directory and          *)
(* disc.at[lba] the directory at a sector.                                 *)
(***************************************************************************)
isoGetFileInfo(disc, folder, file) ==
  LET r == findFile(disc.root, folder, TRUE)
  IN  IF r.ret < 0 THEN r ELSE findFile(disc.at[r.lba], file, FALSE)

(***************************************************************************)
(* The directories of ISO 9660.  A record lies in one sector; it starts    *)
(* the sector or follows another one.  A file and a directory do not have  *)
(* the same name.                                                          *)
(***************************************************************************)
IsRecord(rec) == rec.len_dr \in Nat \ {0} /\ rec.len_fi \in Nat /\ rec.size \in Nat /\ rec.dir \in BOOLEAN

IsDirectory(dir) ==
  LET End(p) == p + dir.recs[p].len_dr
  IN  /\ dir.size \in Nat
      /\ \A p \in DOMAIN dir.recs :
           /\ p \in Nat /\ IsRecord(dir.recs[p])
           /\ (p % SectorSize) + dir.recs[p].len_dr <= SectorSize /\ End(p) <= dir.size
           /\ p % SectorSize = 0 \/ \E q \in DOMAIN dir.recs : End(q) = p
           /\ \A q \in DOMAIN dir.recs :
                /\ p < q => End(p) <= q
                /\ dir.recs[p].name.base = dir.recs[q].name.base => dir.recs[p].dir = dir.recs[q].dir

(* A disc whose directories are there.                                     *)
IsDisc(disc) ==
  /\ IsDirectory(disc.root)
  /\ \A lba \in DOMAIN disc.at : IsDirectory(disc.at[lba])
  /\ \A p \in DOMAIN disc.root.recs :
       LET rec == disc.root.recs[p]
       IN  rec.dir /\ rec.name.base \notin {Self, Parent} => rec.lba \in DOMAIN disc.at

(* Records with room for what isoreader.c takes to be part of every record.*)
Acceptable(dir) ==
  \A p \in DOMAIN dir.recs : ~Corrupt(dir.recs[p]) /\ dir.recs[p].len_fi <= NameMax

(* What a lookup should find: the first record of that name in the folder. *)
Lookup(dir, Wanted(_)) ==
  LET at == {p \in DOMAIN dir.recs : Wanted(dir.recs[p])}
  IN  IF at = {} THEN Error(-18) ELSE Found(dir.recs[CHOOSE p \in at : \A q \in at : p <= q])

LookupPath(disc, folder, file) ==
  LET r == Lookup(disc.root, LAMBDA rec : rec.name.base = folder /\ rec.dir)
  IN  IF r.ret < 0 THEN r ELSE Lookup(disc.at[r.lba], LAMBDA rec : rec.name.base = file)

AcceptablePath(disc, folder) ==
  LET r == Lookup(disc.root, LAMBDA rec : rec.name.base = folder /\ rec.dir)
  IN  Acceptable(disc.root) /\ (r.ret = 0 => Acceptable(disc.at[r.lba]))
=============================================================================
