------------------------------- MODULE PackPbp -------------------------------
(***************************************************************************)
(* pack-pbp: pack up to N files behind a header that says where each       *)
(* starts.                                                                 *)
(*                                                                         *)
(* A first pass asks the size of every file, and the header is computed    *)
(* from the sizes; a second one opens the files again and copies as many   *)
(* bytes.  The files are other programs' output and may change in between. *)
(* Whatever fails, main removes the output.                                *)
(*                                                                         *)
(* A file is a version and a size; a byte is known by the file and version *)
(* it is from and its position there.                                      *)
(***************************************************************************)
EXTENDS Integers

CONSTANTS
  N,            (* PBP_MAX_FILES                                           *)
  HeaderSize,   (* sizeof(ScePBPHeader)                                    *)
  Chunk,        (* READBUFSZ                                               *)
  Word,         (* 2^32: int and u32 have this many values                 *)
  Paths,        (* file names, none of them empty                          *)
  Disks,        (* the disks the tool is started on                        *)
  Arguments,    (* the arguments it is started with                        *)
  NewSizes,     (* sizes of the files that other programs write            *)
  MaxChanges,   (* bound: how often they write one                         *)
  Null          (* NULL, no file                                           *)

Index == 0 .. N - 1
File  == [ver : Nat, size : Nat]
EmptyName == "EmptyName"   (* "" *)

(* usage: -h or an option that does not exist.                             *)
IsArguments(a) ==
  /\ a.usage \in BOOLEAN
  /\ a.output \in Paths \cup {EmptyName}
  /\ a.path \in [Index -> Paths \cup {Null, EmptyName}]

ASSUME PackConstants ==
  /\ N \in Nat \ {0} /\ HeaderSize \in Nat \ {0} /\ Chunk \in Nat \ {0}
  /\ Word \in Nat /\ HeaderSize < Word
  /\ Null \notin Paths /\ EmptyName \notin Paths /\ Null # EmptyName /\ Null \notin File
  /\ Disks \subseteq [Paths -> File \cup {Null}]
  /\ \A a \in Arguments : IsArguments(a)
  /\ NewSizes \subseteq Nat /\ MaxChanges \in Nat

Codes == {"OK", "FAIL", "IO_OPEN", "IO_CLOSE", "IO_READ", "IO_WRITE", "IO_GETFILESIZE", "MALLOC"}

VARIABLES
  disk, changes,           (* the files, and how often others wrote one    *)
  args, st, ret,           (* arguments; what main is doing; the status    *)
  i, filesize,
  file_offset,             (* hdr.file_offset                              *)
  fits,                    (* history: no size or offset was cut           *)
  len, out,                (* what is written to fout: how much, the bytes *)
  srcPath, src, at         (* fp: the name it was opened by, the file, the *)
                           (* position                                     *)

loopVars == <<i, filesize, file_offset, fits>>
outVars  == <<len, out>>
srcVars  == <<srcPath, src, at>>
envVars  == <<disk, changes>>
packVars == <<envVars, args, st, ret, loopVars, outVars, srcVars>>

(* A path that is given but empty is ignored.                              *)
Path(j) == IF args.path[j] = EmptyName THEN Null ELSE args.path[j]
Output  == args.output

PackInit ==
  /\ disk \in Disks /\ changes = 0
  /\ args \in Arguments
  /\ st = "start" /\ ret = "OK"
  /\ i = 0 /\ filesize = [j \in Index |-> 0] /\ file_offset = [j \in Index |-> 0]
  /\ fits = TRUE
  /\ len = 0 /\ out = [b \in {} |-> Null]
  /\ srcPath = Null /\ src = Null /\ at = 0

(***************************************************************************)
(* main, before the output is touched.                                     *)
(***************************************************************************)
Usable == Output # EmptyName /\ Path(0) # Null

NothingToDo ==
  /\ st = "start"
  /\ args.usage \/ ~Usable
  /\ ret' = IF args.usage THEN "OK" ELSE "FAIL"
  /\ st' = "exited"
  /\ UNCHANGED <<envVars, args, loopVars, outVars, srcVars>>

(***************************************************************************)
(* fopen truncates the output, which may be one of the inputs.  If the     *)
(* output cannot be opened there is nothing to close, but main removes it. *)
(***************************************************************************)
OpenOutput ==
  /\ st = "start"
  /\ ~args.usage
  /\ Usable
  /\ disk' = [disk EXCEPT ![Output] = [ver |-> 0, size |-> 0]]
  /\ st' = "alloc"
  /\ UNCHANGED <<changes, args, ret, loopVars, outVars, srcVars>>

OpenOutputFails ==
  /\ st = "start"
  /\ ~args.usage
  /\ Usable
  /\ ret' = "IO_OPEN" /\ st' = "remove"
  /\ UNCHANGED <<envVars, args, loopVars, outVars, srcVars>>

AllocBuffer ==
  /\ st = "alloc"
  /\ st' = "stat"
  /\ UNCHANGED <<envVars, args, ret, loopVars, outVars, srcVars>>

(***************************************************************************)
(* The first pass, a file per step.  getfilesize casts to int, which is    *)
(* added to an offset of 32 bits.                                          *)
(***************************************************************************)
ToInt(n) == IF 2 * (n % Word) >= Word THEN (n % Word) - Word ELSE n % Word

SizeInChunks ==   (* mutant: the part after the last whole chunk is forgotten *)
  IF Path(i) = Null THEN 0 ELSE (disk[Path(i)].size \div Chunk) * Chunk
SizeOnDisk == IF Path(i) = Null THEN 0 ELSE disk[Path(i)].size
OffsetHere == IF i = 0 THEN HeaderSize ELSE file_offset[i - 1] + filesize[i - 1]

StatFile ==
  /\ st = "stat"
  /\ i < N
  /\ Path(i) # Null => disk[Path(i)] # Null
  /\ filesize' = [filesize EXCEPT ![i] = ToInt(SizeOnDisk)]
  /\ file_offset' = [file_offset EXCEPT ![i] = OffsetHere % Word]
  /\ fits' = (fits /\ ToInt(SizeOnDisk) = SizeOnDisk /\ OffsetHere < Word)
  /\ i' = i + 1
  /\ UNCHANGED <<envVars, args, st, ret, outVars, srcVars>>

(***************************************************************************)
(* fwrite: n bytes, the b-th of them Byte(b), follow those written.        *)
(***************************************************************************)
FWrite(n, Byte(_)) ==
  /\ len' = len + n
  /\ out' = [b \in 0 .. len + n - 1 |-> IF b < len THEN out[b] ELSE Byte(b - len)]

HeaderByte(b) == [path |-> Null, ver |-> 0, at |-> b]

WriteHeader ==
  /\ st = "stat"
  /\ i = N
  /\ FWrite(HeaderSize, HeaderByte)
  /\ i' = 0
  /\ st' = "copy"
  /\ UNCHANGED <<envVars, args, ret, filesize, file_offset, fits, srcVars>>

(***************************************************************************)
(* The second pass.                                                        *)
(***************************************************************************)
NextInput == st = "copy" /\ i < N /\ srcPath = Null
Copying   == st = "copy" /\ srcPath # Null

SkipInput ==
  /\ NextInput
  /\ Path(i) = Null
  /\ i' = i + 1
  /\ UNCHANGED <<envVars, args, st, ret, filesize, file_offset, fits, outVars, srcVars>>

OpenFile ==
  /\ NextInput
  /\ Path(i) # Null
  /\ disk[Path(i)] # Null
  /\ srcPath' = Path(i) /\ src' = disk[Path(i)] /\ at' = 0
  /\ UNCHANGED <<envVars, args, st, ret, loopVars, outVars>>

readsize == IF filesize[i] >= Chunk THEN Chunk ELSE filesize[i]
SourceByte(b) == [path |-> srcPath, ver |-> src.ver, at |-> at + b]

CopyShortChunk ==   (* mutant: what could be read is taken for enough *)
  /\ Copying
  /\ filesize[i] > 0
  /\ LET n == IF at + readsize <= src.size THEN readsize
              ELSE IF at <= src.size THEN src.size - at ELSE 0
     IN  FWrite(n, SourceByte) /\ at' = at + n
  /\ filesize' = [filesize EXCEPT ![i] = filesize[i] - readsize]
  /\ UNCHANGED <<envVars, args, st, ret, i, file_offset, fits, srcPath, src>>

CopyChunk ==
  /\ Copying
  /\ filesize[i] > 0
  /\ at + readsize <= src.size
  /\ FWrite(readsize, SourceByte)
  /\ at' = at + readsize
  /\ filesize' = [filesize EXCEPT ![i] = filesize[i] - readsize]
  /\ UNCHANGED <<envVars, args, st, ret, i, file_offset, fits, srcPath, src>>

CloseInputOnly ==   (* mutant: fp is not set to NULL *)
  /\ Copying
  /\ filesize[i] <= 0
  /\ i' = i + 1
  /\ UNCHANGED <<envVars, args, st, ret, filesize, file_offset, fits, outVars, srcVars>>

CloseInput ==
  /\ Copying
  /\ filesize[i] <= 0
  /\ i' = i + 1
  /\ srcPath' = Null /\ src' = Null /\ at' = 0
  /\ UNCHANGED <<envVars, args, st, ret, filesize, file_offset, fits, outVars>>

Packed ==
  /\ st = "copy"
  /\ i = N
  /\ ret' = "OK" /\ st' = "end"
  /\ UNCHANGED <<envVars, args, loopVars, outVars, srcVars>>

(***************************************************************************)
(* ENDERR: any call may fail, stat and fopen of a file that is gone and    *)
(* fread of one that is too short must.                                    *)
(***************************************************************************)
Fails(code) ==
  \/ st = "alloc" /\ code = "MALLOC"
  \/ st = "stat" /\ i < N /\ Path(i) # Null /\ code = "IO_GETFILESIZE"
  \/ st = "stat" /\ i = N /\ code = "IO_WRITE"
  \/ NextInput /\ Path(i) # Null /\ code = "IO_OPEN"
  \/ Copying /\ filesize[i] > 0 /\ code = "IO_READ"
  \/ Copying /\ filesize[i] > 0 /\ at + readsize <= src.size /\ code = "IO_WRITE"

CallFails ==
  /\ \E code \in Codes : Fails(code) /\ ret' = code
  /\ st' = "end"
  /\ UNCHANGED <<envVars, args, loopVars, outVars, srcVars>>

(***************************************************************************)
(* fclose flushes what is written, or fails and leaves a part of it.  Its  *)
(* failure counts only if nothing else failed.  main then removes, which   *)
(* is taken to succeed.                                                    *)
(***************************************************************************)
Flushed(n) == disk' = [disk EXCEPT ![Output] = [ver |-> 0, size |-> n]]

CloseUnchecked ==   (* mutant: the result of fclose is not looked at *)
  /\ st = "end"
  /\ \E n \in 0 .. len : Flushed(n)
  /\ st' = IF ret = "OK" THEN "exited" ELSE "remove"
  /\ srcPath' = Null /\ src' = Null /\ at' = 0
  /\ UNCHANGED <<changes, args, ret, loopVars, outVars>>

CloseOutput ==
  /\ st = "end"
  /\ Flushed(len)
  /\ st' = IF ret = "OK" THEN "exited" ELSE "remove"
  /\ srcPath' = Null /\ src' = Null /\ at' = 0
  /\ UNCHANGED <<changes, args, ret, loopVars, outVars>>

CloseOutputFails ==
  /\ st = "end"
  /\ \E n \in 0 .. len : Flushed(n)
  /\ ret' = IF ret = "OK" THEN "IO_CLOSE" ELSE ret
  /\ st' = "remove"
  /\ srcPath' = Null /\ src' = Null /\ at' = 0
  /\ UNCHANGED <<changes, args, loopVars, outVars>>

Remove ==
  /\ st = "remove"
  /\ disk' = [disk EXCEPT ![Output] = Null]
  /\ st' = "exited"
  /\ UNCHANGED <<changes, args, ret, loopVars, outVars, srcVars>>

(***************************************************************************)
(* Another program deletes a file, puts a new one in its place (fp still   *)
(* reads the old one) or writes the file anew (fp reads what is there).    *)
(* It leaves the output alone.                                             *)
(***************************************************************************)
NewFile(size) == [ver |-> changes + 1, size |-> size]

OthersWrite(p) ==
  /\ st \in {"start", "alloc", "stat", "copy"}
  /\ changes < MaxChanges
  /\ p # Output
  /\ changes' = changes + 1
  /\ \/ /\ disk' = [disk EXCEPT ![p] = Null]
        /\ UNCHANGED src
     \/ \E n \in NewSizes :
          /\ disk' = [disk EXCEPT ![p] = NewFile(n)]
          /\ \/ UNCHANGED src
             \/ srcPath = p /\ disk[p] = src /\ src' = NewFile(n)
  /\ UNCHANGED <<args, st, ret, loopVars, outVars, srcPath, at>>

Exited == st = "exited" /\ UNCHANGED packVars

PackNext ==
  \/ NothingToDo \/ OpenOutput \/ OpenOutputFails \/ AllocBuffer
  \/ StatFile \/ WriteHeader \/ SkipInput \/ OpenFile \/ CopyChunk \/ CloseInput
  \/ Packed \/ CallFails \/ CloseOutput \/ CloseOutputFails \/ Remove
  \/ \E p \in Paths : OthersWrite(p)
  \/ Exited

PackSpec == PackInit /\ [][PackNext]_packVars

(***************************************************************************)
(* Type invariant.                                                         *)
(***************************************************************************)
Phases == {"start", "alloc", "stat", "copy", "end", "remove", "exited"}
Bytes  == [path : Paths \cup {Null}, ver : Nat, at : Nat]

PackTypeOK ==
  /\ disk \in [Paths -> File \cup {Null}] /\ changes \in 0 .. MaxChanges
  /\ args \in Arguments
  /\ st \in Phases /\ ret \in Codes
  /\ i \in 0 .. N
  /\ filesize \in [Index -> Int]
  /\ file_offset \in [Index -> 0 .. Word - 1]
  /\ fits \in BOOLEAN
  /\ len \in Nat /\ out \in [0 .. len - 1 -> Bytes]
  /\ srcPath \in Paths \cup {Null} /\ src \in File \cup {Null} /\ at \in Nat
  /\ srcPath # Null => src # Null /\ i < N /\ st \in {"copy", "end"}

(***************************************************************************)
(* The sections of the output, found the way pbp.h says.                   *)
(***************************************************************************)
Success == st = "exited" /\ ret = "OK" /\ ~args.usage

SectionEnd(j)  == IF j = N - 1 THEN len ELSE file_offset[j + 1]
SectionSize(j) == SectionEnd(j) - file_offset[j]

(***************************************************************************)
(* "size = file_offset[index + 1] - file_offset[index]" (pbp.h:38): in a   *)
(* PBP packed with success the sections found so lie one after the other   *)
(* behind the header, each holds the bytes of its own file from the first  *)
(* on, and "a size of zero means there is no file data".                   *)
(***************************************************************************)
SectionsWhereHeaderSays ==
  Success =>
    /\ file_offset[0] = HeaderSize
    /\ \A j \in Index :
         /\ SectionSize(j) >= 0
         /\ SectionEnd(j) <= len
         /\ Path(j) = Null => SectionSize(j) = 0
         /\ \A b \in 0 .. SectionSize(j) - 1 :
              /\ out[file_offset[j] + b].path = Path(j)
              /\ out[file_offset[j] + b].at = b

(***************************************************************************)
(* The same, whatever happens to the files between the two passes, as long *)
(* as no size exceeds an int and no offset 32 bits.                        *)
(***************************************************************************)
HeaderDescribesSections == fits => SectionsWhereHeaderSays

(***************************************************************************)
(* If nobody changes the files meanwhile every file is in the PBP whole    *)
(* and as it is on the disk, unless it is the output itself.               *)
(***************************************************************************)
UnchangedFilesAreWhole ==
  Success /\ changes = 0 /\ fits => \A j \in Index :
    Path(j) \notin {Null, Output} =>
      /\ SectionSize(j) = disk[Path(j)].size
      /\ \A b \in 0 .. SectionSize(j) - 1 :
           out[file_offset[j] + b] = [path |-> Path(j), ver |-> disk[Path(j)].ver, at |-> b]

(***************************************************************************)
(* Once the output has been touched it is complete on the disk or not      *)
(* there, and the exit status says which: make sees no half a PBP.         *)
(***************************************************************************)
WholeOrAbsent ==
  st = "exited" /\ ~args.usage /\ Usable =>
    disk[Output] = IF ret = "OK" THEN [ver |-> 0, size |-> len] ELSE Null

(***************************************************************************)
(* The inductive invariant behind the three.  Each(j, n, to): n bytes of   *)
(* section j are at its offset, in front of position to.                   *)
(***************************************************************************)
Same(j) == changes = 0 /\ Path(j) # Output

Each(j, n, to) ==
  /\ file_offset[j] + n <= to
  /\ \A b \in 0 .. n - 1 :
       LET x == out[file_offset[j] + b]
       IN  /\ x.path = Path(j) /\ x.at = b
           /\ Same(j) => x.ver = disk[Path(j)].ver

(* What section j still lacks when n bytes of it are copied.               *)
Lacks(j, n) ==
  /\ filesize[j] \in Nat
  /\ j + 1 < N => file_offset[j + 1] = file_offset[j] + n + filesize[j]
  /\ Path(j) = Null => filesize[j] = 0
  /\ Path(j) # Null /\ Same(j) => disk[Path(j)] # Null /\ disk[Path(j)].size = n + filesize[j]

Complete(j) ==
  /\ SectionSize(j) \in Nat
  /\ Each(j, SectionSize(j), len)
  /\ Path(j) = Null => SectionSize(j) = 0
  /\ Path(j) # Null /\ Same(j) => disk[Path(j)] # Null /\ disk[Path(j)].size = SectionSize(j)

Sized ==
  /\ len = 0 /\ at = 0
  /\ i > 0 => file_offset[0] = HeaderSize
  /\ \A j \in 0 .. i - 1 :
       /\ filesize[j] \in Nat
       /\ j + 1 < i => file_offset[j + 1] = file_offset[j] + filesize[j]
       /\ Path(j) = Null => filesize[j] = 0
       /\ Path(j) # Null /\ Same(j) => disk[Path(j)] # Null /\ disk[Path(j)].size = filesize[j]

Copied ==
  /\ file_offset[0] = HeaderSize
  /\ \A j \in Index : j < i => Complete(j)
  /\ \A j \in Index : j > i => Lacks(j, 0)
  /\ i < N => Lacks(i, at) /\ Each(i, at, len) /\ len = file_offset[i] + at
  /\ srcPath # Null => /\ srcPath = Path(i)
                       /\ Same(i) => src = disk[Path(i)]
  /\ srcPath = Null => at = 0

Whole == file_offset[0] = HeaderSize /\ \A j \in Index : Complete(j)

PackInvariant ==
  /\ st \in {"start", "alloc"} => i = 0
  /\ st \in {"start", "alloc", "stat"} => len = 0 /\ at = 0
  /\ st = "start" /\ ~args.usage => ret = "OK"
  /\ st = "remove" => ret # "OK"
  /\ st \in {"alloc", "stat", "copy", "end", "remove"} => ~args.usage
  /\ st = "stat" /\ fits => Sized
  /\ st = "copy" /\ fits => Copied
  /\ st \in {"end", "exited"} /\ ret = "OK" /\ fits /\ ~args.usage => Whole
=============================================================================
