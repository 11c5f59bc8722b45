---------------------------- MODULE PackPbpProofs ----------------------------
(***************************************************************************)
(* The type invariant of PackPbp and its three properties, for any number  *)
(* of sections, any sizes and any interference of other programs.          *)
(***************************************************************************)
EXTENDS PackPbp, TLAPS

LEMMA ModuloFacts ==
  ASSUME NEW x \in Int, NEW w \in Nat \ {0}
  PROVE  /\ x % w \in 0 .. w - 1
         /\ x \in 0 .. w - 1 => x % w = x
<1>1. x % w \in 0 .. w - 1
  BY SMT
<1>2. x \in 0 .. w - 1 => x % w = x
  BY SMT
<1> QED
  BY <1>1, <1>2

LEMMA ToIntType ==
  ASSUME NEW n \in Nat
  PROVE  ToInt(n) \in Int
<1>1. Word \in Nat \ {0}
  BY PackConstants
<1>2. n % Word \in 0 .. Word - 1
  BY <1>1, ModuloFacts
<1> QED
  BY <1>1, <1>2 DEF ToInt

(***************************************************************************)
(* fwrite: what was written stays, the new bytes follow it.                *)
(***************************************************************************)
LEMMA WrittenFacts ==
  ASSUME NEW l \in Nat, NEW n \in Nat, NEW T, NEW f \in [0 .. l - 1 -> T],
         NEW g, \A b \in 0 .. n - 1 : g[b] \in T,
         NEW h, h = [b \in 0 .. l + n - 1 |-> IF b < l THEN f[b] ELSE g[b - l]]
  PROVE  /\ h \in [0 .. l + n - 1 -> T]
         /\ \A b \in 0 .. l - 1 : h[b] = f[b]
         /\ \A b \in 0 .. n - 1 : h[l + b] = g[b]
  OBVIOUS

(***************************************************************************)
(* The file opened is one of the section being copied.                     *)
(***************************************************************************)
LEMMA PathType ==
  ASSUME PackTypeOK, NEW j \in Index
  PROVE  Path(j) \in Paths \cup {Null}
<1>1. args.path \in [Index -> Paths \cup {Null, EmptyName}]
  BY PackConstants DEF PackTypeOK, IsArguments
<1> QED
  BY <1>1 DEF Path

LEMMA ChunkFacts ==
  ASSUME PackTypeOK, Copying, filesize[i] > 0, at + readsize <= src.size
  PROVE  /\ i \in Index /\ filesize[i] \in Nat \ {0}
         /\ readsize \in Nat \ {0} /\ readsize <= filesize[i]
         /\ src \in File /\ srcPath \in Paths
         /\ \A b \in 0 .. readsize - 1 : SourceByte(b) \in Bytes
<1>1. i \in Index /\ filesize[i] \in Int /\ src # Null /\ src \in File \cup {Null}
  BY PackConstants DEF PackTypeOK, Copying, Index
<1>2. filesize[i] \in Nat \ {0} /\ Chunk \in Nat \ {0}
  BY <1>1, PackConstants
<1>3. readsize \in Nat \ {0} /\ readsize <= filesize[i]
  BY <1>2 DEF readsize
<1>4. src \in File /\ srcPath \in Paths /\ at \in Nat
  BY <1>1 DEF PackTypeOK, Copying
<1>5. src.ver \in Nat
  BY <1>4 DEF File
<1>6. ASSUME NEW b \in 0 .. readsize - 1 PROVE SourceByte(b) \in Bytes
  <2>1. at + b \in Nat
    BY <1>3, <1>4
  <2> QED
    BY <2>1, <1>4, <1>5 DEF SourceByte, Bytes
<1> QED
  BY <1>1, <1>2, <1>3, <1>4, <1>6

(***************************************************************************)
(* Every step keeps the types.                                             *)
(***************************************************************************)
LEMMA InitType == PackInit => PackTypeOK
<1> SUFFICES ASSUME PackInit PROVE PackTypeOK
  OBVIOUS
<1>1. [b \in {} |-> Null] \in [0 .. 0 - 1 -> Bytes]
  OBVIOUS
<1>2. 0 \in 0 .. Word - 1 /\ N \in Nat /\ MaxChanges \in Nat /\ Word \in Nat
  BY PackConstants
<1> QED
  BY <1>1, <1>2, PackConstants DEF PackInit, PackTypeOK, Phases, Codes

LEMMA WriteType ==
  ASSUME PackTypeOK, NEW n \in Nat, NEW g, \A b \in 0 .. n - 1 : g[b] \in Bytes,
         len' = len + n,
         out' = [b \in 0 .. len + n - 1 |-> IF b < len THEN out[b] ELSE g[b - len]]
  PROVE  len' \in Nat /\ out' \in [0 .. len' - 1 -> Bytes]
<1>1. len \in Nat /\ out \in [0 .. len - 1 -> Bytes]
  BY DEF PackTypeOK
<1>2. out' \in [0 .. len + n - 1 -> Bytes]
  BY <1>1, WrittenFacts
<1> QED
  BY <1>1, <1>2

LEMMA StepType ==
  ASSUME PackTypeOK, [PackNext]_packVars
  PROVE  PackTypeOK'
<1> USE DEF PackTypeOK
<1>1. CASE NothingToDo
  BY <1>1 DEF NothingToDo, Phases, Codes, envVars, loopVars, outVars, srcVars
<1>3. CASE OpenOutput
  <2>1. [ver |-> 0, size |-> 0] \in File
    BY DEF File
  <2>2. disk' \in [Paths -> File \cup {Null}]
    BY <1>3, <2>1 DEF OpenOutput
  <2> QED
    BY <1>3, <2>2 DEF OpenOutput, Phases, loopVars, outVars, srcVars
<1>4. CASE OpenOutputFails
  BY <1>4 DEF OpenOutputFails, Phases, Codes, envVars, loopVars, outVars, srcVars
<1>5. CASE AllocBuffer
  BY <1>5 DEF AllocBuffer, Phases, envVars, loopVars, outVars, srcVars
<1>6. CASE StatFile
  <2>1. i \in Index /\ N \in Nat
    BY <1>6, PackConstants DEF StatFile, Index
  <2>2. SizeOnDisk \in Nat
    <3>1. Path(i) \in Paths \cup {Null}
      BY <2>1, PathType
    <3>2. Path(i) # Null => disk[Path(i)] \in File
      BY <1>6, <3>1 DEF StatFile
    <3> QED
      BY <3>2 DEF SizeOnDisk, File
  <2>3. ToInt(SizeOnDisk) \in Int
    BY <2>2, ToIntType
  <2>4. filesize' \in [Index -> Int]
    BY <1>6, <2>1, <2>3 DEF StatFile
  <2>5. OffsetHere \in Int
    <3>1. i # 0 => i - 1 \in Index
      BY <2>1 DEF Index
    <3>2. i # 0 => file_offset[i - 1] \in Int /\ filesize[i - 1] \in Int
      BY <3>1, PackConstants
    <3>3. HeaderSize \in Int
      BY PackConstants
    <3> QED
      BY <3>2, <3>3 DEF OffsetHere
  <2>6. OffsetHere % Word \in 0 .. Word - 1
    BY <2>5, PackConstants, ModuloFacts
  <2>7. file_offset' \in [Index -> 0 .. Word - 1]
    BY <1>6, <2>6 DEF StatFile
  <2>8. i' \in 0 .. N /\ fits' \in BOOLEAN
    BY <1>6, <2>1 DEF StatFile, Index
  <2>9. srcPath' = Null
    BY <1>6 DEF StatFile, srcVars
  <2> QED
    BY <1>6, <2>4, <2>7, <2>8, <2>9 DEF StatFile, envVars, outVars, srcVars
<1>8. CASE WriteHeader
  <2> DEFINE g == [b \in 0 .. HeaderSize - 1 |-> HeaderByte(b)]
  <2>1. \A b \in 0 .. HeaderSize - 1 : g[b] \in Bytes
    BY PackConstants DEF HeaderByte, Bytes
  <2>2. /\ len' = len + HeaderSize
        /\ out' = [b \in 0 .. len + HeaderSize - 1 |-> IF b < len THEN out[b] ELSE g[b - len]]
    BY <1>8, PackConstants DEF WriteHeader, FWrite
  <2>3. len' \in Nat /\ out' \in [0 .. len' - 1 -> Bytes]
    <3> HIDE DEF g
    <3> QED
      BY <2>1, <2>2, PackConstants, WriteType
  <2>4. 0 \in 0 .. N /\ srcPath = Null
    BY <1>8, PackConstants DEF WriteHeader
  <2> HIDE DEF g
  <2> QED
    BY <1>8, <2>3, <2>4 DEF WriteHeader, Phases, envVars, srcVars
<1>10. CASE SkipInput
  BY <1>10, PackConstants DEF SkipInput, NextInput, envVars, outVars, srcVars
<1>11. CASE OpenFile
  <2>1. i \in Index
    BY <1>11, PackConstants DEF OpenFile, NextInput, Index
  <2>2. Path(i) \in Paths
    BY <1>11, <2>1, PathType DEF OpenFile
  <2>3. disk[Path(i)] \in File \cup {Null}
    BY <2>2
  <2> QED
    BY <1>11, <2>2, <2>3 DEF OpenFile, NextInput, envVars, loopVars, outVars
<1>13. CASE CopyChunk
  <2>1. Copying /\ filesize[i] > 0 /\ at + readsize <= src.size
    BY <1>13 DEF CopyChunk
  <2>2. /\ i \in Index /\ filesize[i] \in Nat
        /\ readsize \in Nat /\ \A b \in 0 .. readsize - 1 : SourceByte(b) \in Bytes
    BY <2>1, ChunkFacts
  <2> DEFINE g == [b \in 0 .. readsize - 1 |-> SourceByte(b)]
  <2>3. \A b \in 0 .. readsize - 1 : g[b] \in Bytes
    BY <2>2
  <2>4. /\ len' = len + readsize
        /\ out' = [b \in 0 .. len + readsize - 1 |-> IF b < len THEN out[b] ELSE g[b - len]]
    BY <1>13, <2>2 DEF CopyChunk, FWrite
  <2>5. len' \in Nat /\ out' \in [0 .. len' - 1 -> Bytes]
    <3> HIDE DEF g
    <3> QED
      BY <2>2, <2>3, <2>4, WriteType
  <2>6. at' \in Nat /\ filesize' \in [Index -> Int]
    BY <1>13, <2>2 DEF CopyChunk
  <2> QED
    BY <1>13, <2>5, <2>6 DEF CopyChunk, envVars
<1>14. CASE CallFails
  <2>1. st' \in Phases /\ ret' \in Codes /\ st' = "end"
    BY <1>14 DEF CallFails, Phases
  <2> QED
    BY <1>14, <2>1 DEF CallFails, envVars, loopVars, outVars, srcVars
<1>15. CASE CloseInput
  BY <1>15, PackConstants DEF CloseInput, Copying, envVars, outVars
<1>16. CASE Packed
  BY <1>16 DEF Packed, Phases, Codes, envVars, loopVars, outVars, srcVars
<1>17. ASSUME NEW n \in Nat, Flushed(n) PROVE disk' \in [Paths -> File \cup {Null}]
  <2>1. [ver |-> 0, size |-> n] \in File
    BY DEF File
  <2> QED
    BY <1>17, <2>1 DEF Flushed
<1>18. CASE CloseOutput
  <2>1. disk' \in [Paths -> File \cup {Null}]
    BY <1>17, <1>18 DEF CloseOutput
  <2> QED
    BY <1>18, <2>1 DEF CloseOutput, Phases, loopVars, outVars
<1>19. CASE CloseOutputFails
  <2>1. PICK n \in 0 .. len : Flushed(n)
    BY <1>19 DEF CloseOutputFails
  <2>2. disk' \in [Paths -> File \cup {Null}]
    BY <2>1, <1>17
  <2> QED
    BY <1>19, <2>2 DEF CloseOutputFails, Phases, Codes, loopVars, outVars
<1>20. CASE Remove
  <2>1. disk' \in [Paths -> File \cup {Null}]
    BY <1>20 DEF Remove
  <2> QED
    BY <1>20, <2>1 DEF Remove, Phases, loopVars, outVars, srcVars
<1>21. ASSUME NEW p \in Paths, OthersWrite(p) PROVE PackTypeOK'
  <2>1. \A n \in NewSizes : NewFile(n) \in File
    BY PackConstants DEF NewFile, File
  <2>2. disk' \in [Paths -> File \cup {Null}]
    BY <1>21, <2>1 DEF OthersWrite
  <2>3. src' = src \/ \E n \in NewSizes : srcPath = p /\ src' = NewFile(n)
    BY <1>21 DEF OthersWrite
  <2>4. src' \in File \cup {Null} /\ (src # Null => src' # Null)
    BY <2>1, <2>3, PackConstants
  <2>5. changes' \in 0 .. MaxChanges
    BY <1>21, PackConstants DEF OthersWrite
  <2> QED
    BY <1>21, <2>2, <2>4, <2>5 DEF OthersWrite, loopVars, outVars
<1>22. CASE Exited
  BY <1>22 DEF Exited, packVars, envVars, loopVars, outVars, srcVars
<1>23. CASE UNCHANGED packVars
  BY <1>23 DEF packVars, envVars, loopVars, outVars, srcVars
<1> QED
  BY <1>1, <1>3, <1>4, <1>5, <1>6, <1>8, <1>10, <1>11, <1>13, <1>14, <1>15, <1>16, <1>18, <1>19, <1>20, <1>21, <1>22, <1>23 DEF PackNext

(***************************************************************************)
(* The variables of pack-pbp keep their types, however other programs      *)
(* write the files: offsets are those of 32 bits, and a file is open only  *)
(* while its section is copied.                                            *)
(***************************************************************************)
THEOREM TypeCorrect == PackSpec => []PackTypeOK
<1>1. PackInit => PackTypeOK
  BY InitType
<1>2. PackTypeOK /\ [PackNext]_packVars => PackTypeOK'
  BY StepType
<1> QED
  BY <1>1, <1>2, PTL DEF PackSpec

(***************************************************************************)
(* Sections that are complete stay so while nothing is written: a change   *)
(* by another program ends the claim about the disk, not the others.       *)
(***************************************************************************)
DiskKept == changes' = 0 => changes = 0 /\ \A p \in Paths : p # Output => disk'[p] = disk[p]

LEMMA SameKept ==
  ASSUME PackTypeOK, DiskKept, args' = args, NEW j \in Index
  PROVE  /\ Path(j)' = Path(j)
         /\ Path(j) # Null /\ Same(j)' => Same(j) /\ disk'[Path(j)] = disk[Path(j)]
<1>1. Path(j)' = Path(j) /\ Output' = Output
  BY DEF Path, Output
<1>2. Path(j) \in Paths \cup {Null}
  BY PathType
<1> QED
  BY <1>1, <1>2 DEF Same, DiskKept

LEMMA EachKept ==
  ASSUME PackTypeOK, DiskKept, args' = args, NEW j \in Index, NEW n \in Nat, NEW to \in Nat, NEW upto \in Nat,
         to <= len, to <= upto, file_offset'[j] = file_offset[j],
         \A b \in 0 .. len - 1 : out'[b] = out[b],
         Path(j) # Null \/ n = 0,
         Each(j, n, to)
  PROVE  Each(j, n, upto)'
<1>1. file_offset[j] \in Nat /\ len \in Nat
  BY PackConstants DEF PackTypeOK
<1>2. file_offset'[j] + n <= upto
  BY <1>1 DEF Each
<1>3. ASSUME NEW b \in 0 .. n - 1
      PROVE  /\ out'[file_offset[j] + b] = out[file_offset[j] + b]
             /\ out[file_offset[j] + b].path = Path(j)
             /\ out[file_offset[j] + b].at = b
             /\ Same(j) => out[file_offset[j] + b].ver = disk[Path(j)].ver
  <2>1. file_offset[j] + b \in 0 .. len - 1
    BY <1>1 DEF Each
  <2> QED
    BY <2>1 DEF Each
<1>4. /\ Path(j)' = Path(j)
      /\ Path(j) # Null /\ Same(j)' => Same(j) /\ disk'[Path(j)] = disk[Path(j)]
  BY SameKept
<1> QED
  BY <1>2, <1>3, <1>4 DEF Each

LEMMA CompleteKept ==
  ASSUME PackTypeOK, DiskKept, UNCHANGED <<args, file_offset>>, NEW j \in Index,
         \/ len' = len
         \/ j + 1 < N /\ len <= len',
         len' \in Nat,
         \A b \in 0 .. len - 1 : out'[b] = out[b],
         Complete(j)
  PROVE  Complete(j)'
<1>1. SectionSize(j)' = SectionSize(j)
  BY PackConstants DEF SectionSize, SectionEnd, Index
<1>2. SectionSize(j) \in Nat /\ (Path(j) = Null => SectionSize(j) = 0)
  BY DEF Complete
<1>3. PICK n \in Nat, l \in Nat, upto \in Nat : n = SectionSize(j) /\ l = len /\ upto = len'
  BY <1>2 DEF PackTypeOK
<1>4. Each(j, SectionSize(j), len)'
  <2>1. Each(j, n, l)
    BY <1>3 DEF Complete
  <2>2. l <= upto /\ file_offset'[j] = file_offset[j] /\ (Path(j) # Null \/ n = 0)
    BY <1>2, <1>3
  <2>3. Each(j, n, upto)'
    BY <2>1, <2>2, <1>3, EachKept
  <2> QED
    BY <2>3, <1>1, <1>3 DEF Each
<1>5. /\ Path(j)' = Path(j)
      /\ Path(j) # Null /\ Same(j)' => Same(j) /\ disk'[Path(j)] = disk[Path(j)]
  BY SameKept
<1> QED
  BY <1>1, <1>4, <1>5 DEF Complete

LEMMA LacksKept ==
  ASSUME PackTypeOK, DiskKept, UNCHANGED <<args, file_offset>>, NEW j \in Index, NEW n \in Nat,
         filesize'[j] = filesize[j],
         Lacks(j, n)
  PROVE  Lacks(j, n)'
<1>1. /\ Path(j)' = Path(j)
      /\ Path(j) # Null /\ Same(j)' => Same(j) /\ disk'[Path(j)] = disk[Path(j)]
  BY SameKept
<1> QED
  BY <1>1 DEF Lacks

(***************************************************************************)
(* The first pass.                                                         *)
(***************************************************************************)
LEMMA StatStep ==
  ASSUME PackTypeOK, Sized, StatFile, fits'
  PROVE  Sized'
<1>1. i \in Index /\ N \in Nat /\ i' = i + 1 /\ len' = len /\ at' = at
  BY PackConstants DEF StatFile, PackTypeOK, Index, outVars, srcVars
<1>2. /\ ToInt(SizeOnDisk) = SizeOnDisk /\ OffsetHere < Word /\ filesize'[i] = SizeOnDisk
      /\ file_offset'[i] = OffsetHere % Word
      /\ \A j \in Index : j # i => filesize'[j] = filesize[j] /\ file_offset'[j] = file_offset[j]
  BY <1>1 DEF StatFile, PackTypeOK
<1>3. DiskKept /\ args' = args
  BY DEF StatFile, DiskKept, envVars
<1>4. Path(i) \in Paths \cup {Null} /\ (Path(i) # Null => disk[Path(i)] \in File)
  <2>1. Path(i) \in Paths \cup {Null}
    BY <1>1, PathType
  <2> QED
    BY <2>1 DEF StatFile, PackTypeOK
<1>5. SizeOnDisk \in Nat /\ (Path(i) = Null => SizeOnDisk = 0)
                        /\ (Path(i) # Null => disk[Path(i)] # Null /\ disk[Path(i)].size = SizeOnDisk)
  BY <1>4, PackConstants DEF SizeOnDisk, File
<1>6. file_offset'[i] = OffsetHere
  <2>1. OffsetHere \in Nat
    <3>1. CASE i = 0
      BY <3>1, PackConstants DEF OffsetHere
    <3>2. CASE i # 0
      <4>1. i - 1 \in 0 .. i - 1 /\ i - 1 \in Index
        BY <3>2, <1>1 DEF Index
      <4>2. filesize[i - 1] \in Nat /\ file_offset[i - 1] \in Nat
        BY <4>1, PackConstants DEF Sized, PackTypeOK
      <4> QED
        BY <4>2, <3>2 DEF OffsetHere
    <3> QED
      BY <3>1, <3>2
  <2>2. OffsetHere \in 0 .. Word - 1 /\ Word \in Nat \ {0}
    BY <2>1, <1>2, PackConstants
  <2>3. OffsetHere % Word = OffsetHere
    BY <2>1, <2>2, ModuloFacts
  <2> QED
    BY <2>3, <1>2
<1>7. file_offset'[0] = HeaderSize
  <2>1. CASE i = 0
    BY <2>1, <1>6 DEF OffsetHere
  <2>2. CASE i # 0
    BY <2>2, <1>1, <1>2 DEF Sized, Index
  <2> QED
    BY <2>1, <2>2
<1>8. ASSUME NEW j \in 0 .. i
      PROVE  /\ filesize'[j] \in Nat
             /\ j < i => file_offset'[j + 1] = file_offset'[j] + filesize'[j]
             /\ Path(j)' = Path(j) /\ Path(j) \in Paths \cup {Null}
             /\ Path(j) = Null => filesize'[j] = 0
             /\ Path(j) # Null /\ Same(j)' => disk'[Path(j)] # Null /\ disk'[Path(j)].size = filesize'[j]
  <2>1. j \in Index
    BY <1>1 DEF Index
  <2>2. /\ Path(j)' = Path(j) /\ Path(j) \in Paths \cup {Null}
        /\ Path(j) # Null /\ Same(j)' => Same(j) /\ disk'[Path(j)] = disk[Path(j)]
    BY <2>1, <1>3, SameKept, PathType
  <2>3. CASE j = i
    BY <2>2, <2>3, <1>1, <1>2, <1>5
  <2>4. CASE j # i
    <3>1. j \in 0 .. i - 1 /\ j < i
      BY <2>4, <1>1 DEF Index
    <3>2. /\ filesize[j] \in Nat
          /\ j + 1 < i => file_offset[j + 1] = file_offset[j] + filesize[j]
          /\ Path(j) = Null => filesize[j] = 0
          /\ Path(j) # Null /\ Same(j) => disk[Path(j)] # Null /\ disk[Path(j)].size = filesize[j]
      BY <3>1 DEF Sized
    <3>3. filesize'[j] = filesize[j] /\ file_offset'[j] = file_offset[j]
      BY <2>1, <2>4, <1>2
    <3>4. CASE j + 1 = i
      <4>1. j = i - 1 /\ i # 0
        BY <3>4, <3>1, <1>1 DEF Index
      <4>2. file_offset'[j + 1] = file_offset[j] + filesize[j]
        BY <4>1, <3>4, <1>6 DEF OffsetHere
      <4> QED
        BY <4>2, <3>2, <3>3, <2>2
    <3>5. CASE j + 1 # i
      <4>1. j + 1 < i /\ j + 1 \in Index
        BY <3>5, <3>1, <1>1 DEF Index
      <4>2. file_offset'[j + 1] = file_offset[j + 1]
        BY <4>1, <3>5, <1>2
      <4> QED
        BY <4>1, <4>2, <3>2, <3>3, <2>2
    <3> QED
      BY <3>4, <3>5
  <2> QED
    BY <2>3, <2>4
<1>9. \A j \in 0 .. i' - 1 : j \in 0 .. i /\ (j + 1 < i' => j < i)
  BY <1>1 DEF Index
<1> QED
  BY <1>1, <1>7, <1>8, <1>9 DEF Sized

(***************************************************************************)
(* The header: N offsets, the first behind it.                             *)
(***************************************************************************)
LEMMA HeaderStep ==
  ASSUME PackTypeOK, PackTypeOK', Sized, WriteHeader
  PROVE  Copied'
<1>1. /\ i = N /\ i' = 0 /\ N \in Nat \ {0} /\ at' = 0 /\ srcPath' = Null
      /\ UNCHANGED <<args, filesize, file_offset, disk, changes>>
      /\ len' = len + HeaderSize
  <2>1. srcPath = Null /\ at = 0
    BY PackConstants DEF WriteHeader, PackTypeOK, Sized
  <2>2. /\ i = N /\ i' = 0 /\ UNCHANGED <<args, filesize, file_offset, srcPath, at, disk, changes>>
    BY DEF WriteHeader, srcVars, envVars
  <2>3. len' = len + HeaderSize
    BY DEF WriteHeader, FWrite
  <2> QED
    BY <2>1, <2>2, <2>3, PackConstants
<1>2. /\ file_offset[0] = HeaderSize /\ len = 0
      /\ \A j \in 0 .. N - 1 :
           /\ filesize[j] \in Nat
           /\ j + 1 < N => file_offset[j + 1] = file_offset[j] + filesize[j]
           /\ Path(j) = Null => filesize[j] = 0
           /\ Path(j) # Null /\ Same(j) => disk[Path(j)] # Null /\ disk[Path(j)].size = filesize[j]
  BY <1>1 DEF Sized
<1>3. DiskKept
  BY <1>1 DEF DiskKept
<1>4. \A j \in Index : file_offset[j] \in Int
  BY PackConstants DEF PackTypeOK
<1>5. ASSUME NEW j \in Index PROVE Lacks(j, 0)'
  <2>1. Lacks(j, 0)
    <3>1. j + 1 < N => file_offset[j + 1] = file_offset[j] + 0 + filesize[j]
      BY <1>2, <1>4 DEF Index
    <3>2. filesize[j] \in Nat
      BY <1>2 DEF Index
    <3> QED
      BY <1>2, <3>1, <3>2 DEF Lacks, Index
  <2> QED
    BY <2>1, <1>1, <1>3, LacksKept
<1>6. 0 \in Index /\ HeaderSize \in Nat
  BY <1>1, PackConstants DEF Index
<1>7. Lacks(i, at)'
  BY <1>5, <1>6, <1>1 DEF Lacks
<1>8. Each(i, at, len)'
  BY <1>1, <1>2, <1>6 DEF Each
<1>9. ~(\E j \in Index : j < i')
  BY <1>1 DEF Index
<1>10. len' = file_offset'[i'] + at'
  BY <1>1, <1>2, <1>6
<1> QED
  BY <1>1, <1>2, <1>5, <1>7, <1>8, <1>9, <1>10 DEF Copied

(***************************************************************************)
(* The second pass.  What is behind and what is before the section being   *)
(* copied stays as it is.                                                  *)
(***************************************************************************)
LEMMA AroundKept ==
  ASSUME PackTypeOK, PackTypeOK', Copied, DiskKept, UNCHANGED <<args, file_offset>>,
         len <= len', \A b \in 0 .. len - 1 : out'[b] = out[b],
         i < N,
         \A j \in Index : j > i => filesize'[j] = filesize[j]
  PROVE  /\ \A j \in Index : j < i => Complete(j)'
         /\ \A j \in Index : j > i => Lacks(j, 0)'
<1>1. ASSUME NEW j \in Index, j < i PROVE Complete(j)'
  <2>1. Complete(j) /\ j + 1 < N
    BY <1>1, PackConstants DEF Copied, PackTypeOK, Index
  <2>2. len' \in Nat
    BY DEF PackTypeOK
  <2> QED
    BY <2>1, <2>2, CompleteKept
<1>2. ASSUME NEW j \in Index, j > i PROVE Lacks(j, 0)'
  BY <1>2, LacksKept DEF Copied
<1> QED
  BY <1>1, <1>2

(* A section of which nothing is left to copy is complete.                 *)
LEMMA NowComplete ==
  ASSUME PackTypeOK, Copied, i \in Index, filesize[i] <= 0,
         DiskKept, UNCHANGED <<args, file_offset, filesize, len, out>>
  PROVE  /\ Complete(i)
         /\ i + 1 < N => len = file_offset[i + 1]
<1>1. /\ Lacks(i, at) /\ Each(i, at, len) /\ len = file_offset[i] + at
      /\ at \in Nat /\ file_offset[i] \in Nat /\ len \in Nat /\ N \in Nat
  BY PackConstants DEF Copied, PackTypeOK, Index
<1>2. filesize[i] = 0
  BY <1>1 DEF Lacks
<1>3. i + 1 < N => file_offset[i + 1] = len
  BY <1>1, <1>2 DEF Lacks
<1>4. SectionSize(i) = at
  <2>1. SectionEnd(i) = len
    BY <1>1, <1>3 DEF SectionEnd, Index
  <2> QED
    BY <2>1, <1>1 DEF SectionSize
<1>5. Path(i) = Null => at = 0
  BY DEF Copied, PackTypeOK
<1>6. Path(i) # Null /\ Same(i) => disk[Path(i)] # Null /\ disk[Path(i)].size = at
  BY <1>1, <1>2 DEF Lacks
<1>7. Complete(i)
  BY <1>1, <1>4, <1>5, <1>6 DEF Complete
<1> QED
  BY <1>3, <1>7

LEMMA NextSection ==
  ASSUME PackTypeOK, PackTypeOK', Copied, i \in Index, filesize[i] <= 0,
         DiskKept, UNCHANGED <<args, file_offset, filesize, len, out>>,
         i' = i + 1, at' = 0, srcPath' = Null
  PROVE  Copied'
<1>1. i < N /\ N \in Nat /\ len \in Nat /\ file_offset[0] = HeaderSize /\ file_offset'[0] = HeaderSize
  BY PackConstants DEF PackTypeOK, Index, Copied
<1>2. /\ \A j \in Index : j < i => Complete(j)'
      /\ \A j \in Index : j > i => Lacks(j, 0)'
  BY <1>1, AroundKept
<1>3. /\ Complete(i)
      /\ i + 1 < N => len = file_offset[i + 1]
  BY NowComplete
<1>4. PICK k \in Index : k = i
  OBVIOUS
<1>5. Complete(k)'
  BY <1>1, <1>3, <1>4, CompleteKept
<1>6. \A j \in Index : j < i' => Complete(j)'
  BY <1>2, <1>4, <1>5 DEF Index
<1>7. \A j \in Index : j > i' => Lacks(j, 0)'
  BY <1>2, <1>4 DEF Index
<1>8. i' < N => Lacks(i, at)' /\ Each(i, at, len)' /\ len' = file_offset'[i'] + at'
  <2> SUFFICES ASSUME i' < N PROVE Lacks(i, at)' /\ Each(i, at, len)' /\ len' = file_offset'[i'] + at'
    OBVIOUS
  <2>1. PICK l \in Index : l = k + 1
    BY <1>1, <1>4 DEF Index
  <2>2. l > i /\ i' = l /\ len' = file_offset[l]
    BY <2>1, <1>3, <1>4
  <2>3. Lacks(l, 0)'
    BY <2>2, <1>2
  <2>4. Each(l, 0, len)'
    BY <2>2, <1>1 DEF Each
  <2> QED
    BY <2>2, <2>3, <2>4, <1>1 DEF Lacks, Each
<1> QED
  BY <1>1, <1>6, <1>7, <1>8 DEF Copied

(* While a section is copied, its bytes are those of the file that is open.*)
LEMMA CopyStep ==
  ASSUME PackTypeOK, PackTypeOK', Copied, CopyChunk
  PROVE  Copied'
<1>1. Copying /\ filesize[i] > 0 /\ at + readsize <= src.size
  BY DEF CopyChunk
<1>2. /\ i \in Index /\ i < N /\ filesize[i] \in Nat \ {0}
      /\ readsize \in Nat \ {0} /\ readsize <= filesize[i]
      /\ src \in File /\ srcPath \in Paths
  <2>1. N \in Nat
    BY PackConstants
  <2> QED
    BY <2>1, <1>1, ChunkFacts DEF Index
<1>3. PICK k \in Index, n \in Nat, a \in Nat, l \in Nat, c \in Nat :
        k = i /\ n = readsize /\ a = at /\ l = len /\ c = at + readsize
  BY <1>2 DEF PackTypeOK
<1>4. /\ UNCHANGED <<args, file_offset, disk, changes, i, srcPath, src>>
      /\ at' = c /\ len' = l + n
      /\ filesize' = [filesize EXCEPT ![k] = filesize[k] - n]
  BY <1>3 DEF CopyChunk, FWrite, envVars
<1>5. out' = [b \in 0 .. l + n - 1 |-> IF b < l THEN out[b] ELSE SourceByte(b - l)]
  BY <1>3 DEF CopyChunk, FWrite
<1>6. /\ \A b \in 0 .. len - 1 : out'[b] = out[b]
      /\ \A b \in 0 .. n - 1 : out'[l + b] = SourceByte(b)
  BY <1>3, <1>5
<1>7. DiskKept /\ len <= len'
  BY <1>3, <1>4 DEF DiskKept
<1>8. /\ \A j \in Index : j < i => Complete(j)'
      /\ \A j \in Index : j > i => Lacks(j, 0)'
  <2>1. \A j \in Index : j > i => filesize'[j] = filesize[j]
    BY <1>3, <1>4 DEF PackTypeOK, Index
  <2> QED
    BY <2>1, <1>2, <1>4, <1>6, <1>7, AroundKept
<1>9. /\ Lacks(k, a) /\ Each(k, a, l) /\ l = file_offset[k] + a
      /\ srcPath = Path(k) /\ (Same(k) => src = disk[Path(k)]) /\ file_offset[k] \in Nat
  BY <1>1, <1>2, <1>3, PackConstants DEF Copied, Copying, PackTypeOK
<1>10. Path(k)' = Path(k) /\ (Path(k) # Null /\ Same(k)' => Same(k) /\ disk'[Path(k)] = disk[Path(k)])
  BY <1>4, <1>7, SameKept
<1>11. Lacks(k, c)'
  <2>1. filesize'[k] = filesize[k] - n /\ filesize'[k] \in Nat /\ c = a + n
    BY <1>2, <1>3, <1>4 DEF PackTypeOK
  <2>2. /\ k + 1 < N => file_offset[k + 1] = file_offset[k] + a + filesize[k]
        /\ Path(k) # Null
        /\ Same(k) => disk[Path(k)] # Null /\ disk[Path(k)].size = a + filesize[k]
    BY <1>2, <1>9, PackConstants DEF Lacks
  <2>3. a + filesize[k] = c + filesize'[k] /\ file_offset[k] + a + filesize[k] = file_offset[k] + c + filesize'[k]
    BY <2>1, <1>2, <1>3, <1>9
  <2> QED
    BY <2>1, <2>2, <2>3, <1>4, <1>10 DEF Lacks
<1>12. Each(k, c, len)'
  <2>1. file_offset'[k] + c <= len'
    BY <1>3, <1>4, <1>9
  <2>2. ASSUME NEW b \in 0 .. c - 1
        PROVE  /\ out'[file_offset[k] + b].path = Path(k)
               /\ out'[file_offset[k] + b].at = b
               /\ Same(k) => out'[file_offset[k] + b].ver = disk[Path(k)].ver
    <3>1. CASE b < a
      <4>1. b \in 0 .. a - 1 /\ file_offset[k] + b \in 0 .. len - 1
        BY <3>1, <1>3, <1>9
      <4>2. out'[file_offset[k] + b] = out[file_offset[k] + b]
        BY <4>1, <1>6
      <4> QED
        BY <4>1, <4>2, <1>9 DEF Each
    <3>2. CASE ~(b < a)
      <4>1. b - a \in 0 .. n - 1 /\ file_offset[k] + b = l + (b - a)
        BY <3>2, <1>3, <1>9
      <4>2. out'[file_offset[k] + b] = SourceByte(b - a)
        BY <4>1, <1>6
      <4>3. a + (b - a) = b
        BY <1>3
      <4> QED
        BY <4>2, <4>3, <1>3, <1>9 DEF SourceByte
    <3> QED
      BY <3>1, <3>2
  <2>3. Path(k) # Null
    BY <1>2, <1>9, PackConstants
  <2> QED
    BY <2>1, <2>2, <2>3, <1>4, <1>10 DEF Each
<1>13. Lacks(i, at)' /\ Each(i, at, len)'
  BY <1>11, <1>12, <1>3, <1>4 DEF Lacks, Each
<1>14. len' = file_offset'[i'] + at'
  BY <1>3, <1>4, <1>9
<1>15. srcPath' # Null /\ srcPath' = Path(i)' /\ (Same(i)' => src' = disk'[Path(i)'])
  <2>1. srcPath' = Path(k)' /\ (Same(k)' => src' = disk'[Path(k)'])
    BY <1>2, <1>4, <1>9, <1>10, PackConstants
  <2> QED
    BY <2>1, <1>2, <1>3, <1>4, PackConstants DEF Path, Same
<1>16. file_offset'[0] = HeaderSize
  BY <1>4 DEF Copied
<1> QED
  BY <1>4, <1>8, <1>13, <1>14, <1>15, <1>16 DEF Copied

LEMMA OpenStep ==
  ASSUME PackTypeOK, PackTypeOK', Copied, OpenFile
  PROVE  Copied'
<1>1. /\ UNCHANGED <<args, file_offset, filesize, len, out, disk, changes, i>>
      /\ at' = 0 /\ at = 0 /\ srcPath' = Path(i) /\ src' = disk[Path(i)] /\ i < N
  BY DEF OpenFile, NextInput, Copied, envVars, loopVars, outVars
<1>2. DiskKept /\ len <= len'
  BY <1>1 DEF DiskKept, PackTypeOK
<1>3. /\ \A j \in Index : j < i => Complete(j)'
      /\ \A j \in Index : j > i => Lacks(j, 0)'
  BY <1>1, <1>2, AroundKept
<1>4. Lacks(i, at)' /\ Each(i, at, len)' /\ len' = file_offset'[i'] + at'
  BY <1>1 DEF Copied, Lacks, Each, Path, Same, Output
<1>5. srcPath' = Path(i)' /\ src' = disk'[Path(i)']
  BY <1>1 DEF Path
<1>6. file_offset'[0] = HeaderSize
  BY <1>1 DEF Copied
<1> QED
  BY <1>1, <1>3, <1>4, <1>5, <1>6 DEF Copied

(***************************************************************************)
(* Another program's write.                                                *)
(***************************************************************************)
LEMMA OthersStep ==
  ASSUME PackTypeOK, PackTypeOK', NEW p \in Paths, OthersWrite(p)
  PROVE  /\ Sized => Sized'
         /\ Copied => Copied'
<1>1. /\ UNCHANGED <<args, file_offset, filesize, len, out, i, srcPath, at>>
      /\ changes' = changes + 1
  BY DEF OthersWrite, loopVars, outVars
<1>2. changes' # 0
  BY <1>1 DEF PackTypeOK
<1>3. \A j : Path(j)' = Path(j) /\ ~Same(j)'
  BY <1>1, <1>2 DEF Path, Same
<1>4. Sized => Sized'
  BY <1>1, <1>3 DEF Sized
<1>5. ASSUME Copied PROVE Copied'
  <2>1. \A j, n : Lacks(j, n) => Lacks(j, n)'
    BY <1>1, <1>3 DEF Lacks
  <2>2. \A j, n, to : Each(j, n, to) => Each(j, n, to)'
    BY <1>1, <1>3 DEF Each
  <2>3. \A j : SectionSize(j)' = SectionSize(j)
    BY <1>1 DEF SectionSize, SectionEnd
  <2>4. ASSUME NEW j \in Index, Complete(j) PROVE Complete(j)'
    <3>1. Each(j, SectionSize(j), len)'
      BY <2>2, <2>3, <2>4, <1>1 DEF Complete, Each
    <3> QED
      BY <3>1, <2>3, <2>4, <1>3 DEF Complete
  <2>5. i < N => Lacks(i, at)' /\ Each(i, at, len)'
    BY <2>1, <2>2, <1>1, <1>5 DEF Copied, Lacks, Each
  <2>6. srcPath' # Null => srcPath' = Path(i)' /\ ~Same(i)'
    BY <1>1, <1>2, <1>5 DEF Copied, Path, Same
  <2> QED
    BY <1>1, <1>5, <2>1, <2>4, <2>5, <2>6 DEF Copied
<1> QED
  BY <1>4, <1>5

LEMMA WholeKept ==
  ASSUME PackTypeOK, PackTypeOK', Whole, UNCHANGED <<args, file_offset, len, out, changes>>,
         \A p \in Paths : p # Output => disk'[p] = disk[p]
  PROVE  Whole'
<1>1. DiskKept /\ len' \in Nat
  BY DEF DiskKept, PackTypeOK
<1>2. ASSUME NEW j \in Index PROVE Complete(j)'
  BY <1>1, CompleteKept DEF Whole
<1> QED
  BY <1>2 DEF Whole

LEMMA InitInvariant == PackInit => PackInvariant
<1>1. PackInit => st = "start" /\ i = 0 /\ len = 0 /\ at = 0 /\ ret = "OK"
  BY DEF PackInit
<1> QED
  BY <1>1 DEF PackInvariant

LEMMA StepInvariant ==
  ASSUME PackTypeOK, PackTypeOK', PackInvariant, [PackNext]_packVars
  PROVE  PackInvariant'
<1>1. CASE NothingToDo
  <2>1. st' = "exited" /\ (args'.usage \/ ret' = "FAIL")
    BY <1>1 DEF NothingToDo
  <2> QED
    BY <2>1 DEF PackInvariant
<1>3. CASE OpenOutput
  BY <1>3 DEF OpenOutput, PackInvariant, loopVars, outVars, srcVars
<1>4. CASE OpenOutputFails
  BY <1>4 DEF OpenOutputFails, PackInvariant, loopVars, outVars, srcVars
<1>5. CASE AllocBuffer
  BY <1>5 DEF AllocBuffer, PackInvariant, Sized, loopVars, outVars, srcVars
<1>6. CASE StatFile
  <2>1. fits' => Sized'
    BY <1>6, StatStep DEF StatFile, PackInvariant
  <2> QED
    BY <1>6, <2>1 DEF StatFile, PackInvariant, outVars, srcVars
<1>8. CASE WriteHeader
  <2>1. fits' => Copied'
    BY <1>8, HeaderStep DEF WriteHeader, PackInvariant
  <2> QED
    BY <1>8, <2>1 DEF WriteHeader, PackInvariant
<1>10. CASE SkipInput
  <2>1. ASSUME fits PROVE Copied'
    <3>1. Copied /\ i < N
      BY <1>10, <2>1 DEF SkipInput, NextInput, PackInvariant
    <3>2. filesize[i] <= 0 /\ i \in Index
      BY <1>10, <3>1, PackConstants DEF SkipInput, Copied, Lacks, PackTypeOK, Index
    <3>3. /\ UNCHANGED <<args, file_offset, filesize, len, out, disk, changes>>
          /\ i' = i + 1 /\ at' = 0 /\ srcPath' = Null
      BY <1>10, <3>1 DEF SkipInput, NextInput, Copied, envVars, outVars, srcVars
    <3> QED
      BY <3>1, <3>2, <3>3, NextSection DEF DiskKept
  <2> QED
    BY <1>10, <2>1 DEF SkipInput, NextInput, PackInvariant
<1>11. CASE OpenFile
  <2>1. fits => Copied'
    BY <1>11, OpenStep DEF OpenFile, NextInput, PackInvariant
  <2> QED
    BY <1>11, <2>1 DEF OpenFile, NextInput, PackInvariant, loopVars
<1>13. CASE CopyChunk
  <2>1. fits => Copied'
    BY <1>13, CopyStep DEF CopyChunk, Copying, PackInvariant
  <2> QED
    BY <1>13, <2>1 DEF CopyChunk, Copying, PackInvariant
<1>14. CASE CallFails
  <2>1. st' = "end" /\ ret' # "OK" /\ args' = args /\ st \in {"alloc", "stat", "copy"}
    BY <1>14 DEF CallFails, Fails, NextInput, Copying
  <2> QED
    BY <2>1 DEF PackInvariant
<1>15. CASE CloseInput
  <2>1. ASSUME fits PROVE Copied'
    <3>1. Copied /\ i \in Index /\ filesize[i] <= 0
      BY <1>15, <2>1, PackConstants DEF CloseInput, Copying, PackInvariant, PackTypeOK, Index
    <3>2. /\ UNCHANGED <<args, file_offset, filesize, len, out, disk, changes>>
          /\ i' = i + 1 /\ at' = 0 /\ srcPath' = Null
      BY <1>15 DEF CloseInput, envVars, outVars
    <3> QED
      BY <3>1, <3>2, NextSection DEF DiskKept
  <2> QED
    BY <1>15, <2>1 DEF CloseInput, Copying, PackInvariant
<1>16. CASE Packed
  <2>1. fits => Whole
    <3>1. \A j \in Index : j < N
      BY PackConstants DEF Index
    <3> QED
      BY <3>1, <1>16 DEF Packed, PackInvariant, Copied, Whole
  <2>2. Whole => Whole'
    <3>1. UNCHANGED <<args, file_offset, len, out, changes, disk>>
      BY <1>16 DEF Packed, envVars, loopVars, outVars
    <3> QED
      BY <3>1, WholeKept
  <2> QED
    BY <1>16, <2>1, <2>2 DEF Packed, PackInvariant, loopVars
<1>17. CASE CloseOutput
  <2>1. Whole => Whole'
    <3>1. UNCHANGED <<args, file_offset, len, out, changes>>
      BY <1>17 DEF CloseOutput, loopVars, outVars
    <3>2. \A p \in Paths : p # Output => disk'[p] = disk[p]
      BY <1>17 DEF CloseOutput, Flushed, PackTypeOK
    <3> QED
      BY <3>1, <3>2, WholeKept
  <2> QED
    BY <1>17, <2>1 DEF CloseOutput, PackInvariant, loopVars
<1>18. CASE CloseOutputFails
  BY <1>18 DEF CloseOutputFails, PackInvariant
<1>19. CASE Remove
  BY <1>19 DEF Remove, PackInvariant
<1>20. ASSUME NEW p \in Paths, OthersWrite(p) PROVE PackInvariant'
  BY <1>20, OthersStep DEF OthersWrite, PackInvariant, loopVars, outVars, srcVars
<1>21. CASE Exited \/ UNCHANGED packVars
  <2>1. UNCHANGED packVars
    BY <1>21 DEF Exited
  <2>2. UNCHANGED <<st, ret, args, i, len, fits, at>>
    BY <2>1 DEF packVars, loopVars, outVars, srcVars
  <2>3. (Sized' <=> Sized) /\ (Copied' <=> Copied) /\ (Whole' <=> Whole)
    BY <2>1 DEF Sized, Copied, Whole, Complete, Lacks, Each, SectionSize, SectionEnd, Path, Same, Output,
       packVars, envVars, loopVars, outVars, srcVars
  <2> QED
    BY <2>2, <2>3 DEF PackInvariant
<1> QED
  BY <1>1, <1>3, <1>4, <1>5, <1>6, <1>8, <1>10, <1>11, <1>13, <1>14, <1>15, <1>16, <1>17, <1>18, <1>19, <1>20, <1>21 DEF PackNext

(***************************************************************************)
(* What of a section the offsets describe is there, and is the file's.     *)
(***************************************************************************)
LEMMA InvariantIsEnough ==
  ASSUME PackTypeOK, PackInvariant
  PROVE  HeaderDescribesSections /\ UnchangedFilesAreWhole
<1>1. ASSUME fits, Success PROVE SectionsWhereHeaderSays
  <2>1. Whole
    BY <1>1 DEF Success, PackInvariant
  <2>2. ASSUME NEW j \in Index
        PROVE  /\ SectionSize(j) >= 0 /\ SectionEnd(j) <= len
               /\ Path(j) = Null => SectionSize(j) = 0
               /\ \A b \in 0 .. SectionSize(j) - 1 :
                    out[file_offset[j] + b].path = Path(j) /\ out[file_offset[j] + b].at = b
    <3>1. Complete(j)
      BY <2>1 DEF Whole
    <3>2. SectionEnd(j) = file_offset[j] + SectionSize(j)
      <4>1. file_offset[j] \in Int /\ SectionEnd(j) \in Int
        BY PackConstants DEF SectionEnd, PackTypeOK, Index
      <4> QED
        BY <4>1 DEF SectionSize
    <3> QED
      BY <3>1, <3>2 DEF Complete, Each
  <2> QED
    BY <2>1, <2>2 DEF SectionsWhereHeaderSays, Whole
<1>2. ASSUME fits, Success, changes = 0, NEW j \in Index, Path(j) \notin {Null, Output}
      PROVE  /\ SectionSize(j) = disk[Path(j)].size
             /\ \A b \in 0 .. SectionSize(j) - 1 :
                  out[file_offset[j] + b] = [path |-> Path(j), ver |-> disk[Path(j)].ver, at |-> b]
  <2>1. Complete(j) /\ Same(j)
    BY <1>2 DEF Success, PackInvariant, Whole, Same
  <2>2. ASSUME NEW b \in 0 .. SectionSize(j) - 1
        PROVE  out[file_offset[j] + b] = [path |-> Path(j), ver |-> disk[Path(j)].ver, at |-> b]
    <3>1. file_offset[j] + b \in 0 .. len - 1
      <4>1. file_offset[j] \in Nat /\ len \in Nat /\ SectionSize(j) \in Nat /\ file_offset[j] + SectionSize(j) <= len
        BY <2>1, PackConstants DEF Complete, Each, PackTypeOK
      <4> QED
        BY <4>1
    <3>2. out[file_offset[j] + b] \in Bytes
      BY <3>1 DEF PackTypeOK
    <3>3. /\ out[file_offset[j] + b].path = Path(j) /\ out[file_offset[j] + b].at = b
          /\ out[file_offset[j] + b].ver = disk[Path(j)].ver
      BY <2>1 DEF Complete, Each
    <3> QED
      BY <3>2, <3>3 DEF Bytes
  <2> QED
    BY <1>2, <2>1, <2>2 DEF Complete
<1> QED
  BY <1>1, <1>2 DEF HeaderDescribesSections, SectionsWhereHeaderSays, UnchangedFilesAreWhole

LEMMA InvariantHolds == PackSpec => [](PackTypeOK /\ PackInvariant)
<1>1. PackInit => PackTypeOK /\ PackInvariant
  BY InitType, InitInvariant
<1>2. PackTypeOK /\ PackInvariant /\ [PackNext]_packVars => (PackTypeOK /\ PackInvariant)'
  BY StepType, StepInvariant
<1> QED
  BY <1>1, <1>2, PTL DEF PackSpec

(***************************************************************************)
(* A PBP packed with success is what its header says, whatever other       *)
(* programs do to the files meanwhile, if no size exceeds an int and no    *)
(* offset 32 bits.                                                         *)
(***************************************************************************)
THEOREM HeaderIsRight == PackSpec => []HeaderDescribesSections
<1>1. PackTypeOK /\ PackInvariant => HeaderDescribesSections
  BY InvariantIsEnough
<1> QED
  BY <1>1, InvariantHolds, PTL

(***************************************************************************)
(* If nobody touches the files, they are in the PBP whole.                 *)
(***************************************************************************)
THEOREM FilesAreWhole == PackSpec => []UnchangedFilesAreWhole
<1>1. PackTypeOK /\ PackInvariant => UnchangedFilesAreWhole
  BY InvariantIsEnough
<1> QED
  BY <1>1, InvariantHolds, PTL

(***************************************************************************)
(* The last steps of main decide what is on the disk.                      *)
(***************************************************************************)
LEMMA ExitStep ==
  ASSUME PackTypeOK, PackInvariant, WholeOrAbsent, [PackNext]_packVars
  PROVE  WholeOrAbsent'
<1>1. CASE UNCHANGED packVars
  BY <1>1 DEF packVars, envVars, loopVars, outVars, srcVars, WholeOrAbsent, Usable, Path, Output
<1>2. CASE st' # "exited"
  BY <1>2 DEF WholeOrAbsent
<1>3. CASE NothingToDo
  BY <1>3 DEF NothingToDo, WholeOrAbsent, Usable, Path, Output
<1>5. ASSUME st' = "exited", CloseOutput \/ Remove PROVE WholeOrAbsent'
  <2>1. args' = args /\ ret' = ret /\ len' = len /\ Output' = Output
    BY <1>5 DEF CloseOutput, Remove, Output, loopVars, outVars
  <2>2. Usable' => Output \in Paths
    <3>1. IsArguments(args)
      BY PackConstants DEF PackTypeOK
    <3> QED
      BY <2>1, <3>1 DEF Usable, IsArguments, Output
  <2>3. CASE CloseOutput
    <3>1. ret = "OK" /\ disk' = [disk EXCEPT ![Output] = [ver |-> 0, size |-> len]]
      BY <1>5, <2>3 DEF CloseOutput, Flushed
    <3>2. Usable' => disk'[Output] = [ver |-> 0, size |-> len]
      BY <2>2, <3>1 DEF PackTypeOK
    <3> QED
      BY <2>1, <3>1, <3>2 DEF WholeOrAbsent
  <2>4. CASE Remove
    <3>1. ret # "OK" /\ disk' = [disk EXCEPT ![Output] = Null]
      BY <2>4 DEF Remove, PackInvariant
    <3>2. Usable' => disk'[Output] = Null
      BY <2>2, <3>1 DEF PackTypeOK
    <3> QED
      BY <2>1, <3>1, <3>2 DEF WholeOrAbsent
  <2> QED
    BY <1>5, <2>3, <2>4
<1>6. \/ UNCHANGED packVars \/ st' # "exited" \/ NothingToDo
      \/ CloseOutput \/ Remove
  <2>1. CASE \E p \in Paths : OthersWrite(p)
    BY <2>1 DEF OthersWrite
  <2>2. CASE OpenOutput \/ OpenOutputFails \/ AllocBuffer \/ CallFails
    BY <2>2 DEF OpenOutput, OpenOutputFails, AllocBuffer, CallFails
  <2>3. CASE StatFile \/ WriteHeader \/ SkipInput \/ OpenFile
    BY <2>3 DEF StatFile, WriteHeader, SkipInput, OpenFile, NextInput
  <2>5. CASE CopyChunk \/ CloseInput \/ Packed
    BY <2>5 DEF CopyChunk, CloseInput, Copying, Packed
  <2>6. CASE CloseOutputFails
    BY <2>6 DEF CloseOutputFails
  <2> QED
    BY <2>1, <2>2, <2>3, <2>5, <2>6 DEF PackNext, Exited
<1> QED
  BY <1>1, <1>2, <1>3, <1>5, <1>6

(***************************************************************************)
(* Once pack-pbp has touched its output, the output is complete or absent  *)
(* when it exits, and the status says which.                               *)
(***************************************************************************)
THEOREM OutputWholeOrAbsent == PackSpec => []WholeOrAbsent
<1>1. PackInit => WholeOrAbsent
  BY DEF PackInit, WholeOrAbsent
<1>2. PackTypeOK /\ PackInvariant /\ WholeOrAbsent /\ [PackNext]_packVars => WholeOrAbsent'
  BY ExitStep
<1> QED
  BY <1>1, <1>2, InvariantHolds, PTL DEF PackSpec
=============================================================================
