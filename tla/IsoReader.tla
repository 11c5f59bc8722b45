----------------------------- MODULE IsoReader ------------------------------
(***************************************************************************)
(* isoreader.c: reading the sectors of an ISO or CISO image.  A CISO is    *)
(* read through two caches, g_CISO_idx_cache, a window of the index, and   *)
(* g_ciso_dec_buf, a window of the file.  Both have an origin and a test   *)
(* for being out of the window; the sector read is the one asked for only  *)
(* if the origins tell the truth.                                          *)
(*                                                                         *)
(* fread is taken to fail at the end of the file only, and requests to lie *)
(* inside the disc: what the callers ask for comes from its directories.   *)
(***************************************************************************)
EXTENDS IsoImage

CONSTANT Requests   (* the calls of isoRead: <<position, size>>            *)

ASSUME IsoRequests ==
  Requests \subseteq Nat \X Nat

VARIABLES
  img,      (* the image isoOpen was given                                 *)
  pc,       (* the step being executed                                     *)
  caller,   (* who called readSector: isoOpen or isoRead                   *)
  cur,      (* g_CISO_cur_idx                                              *)
  idx,      (* g_CISO_idx_cache, each entry as its number in the index     *)
  bufAt,    (* g_ciso_dec_buf_offset                                       *)
  buf,      (* g_ciso_dec_buf, each byte as its position in the file       *)
  held,     (* g_sector_buffer, as the sector it holds                     *)
  lba,      (* sector, in readSectorCompressed                             *)
  offset,   (* offset, in readSectorCompressed                             *)
  size,     (* size, in readSectorCompressed                               *)
  pos, remaining, copied,   (* of isoRead: pos, remaining, the buffer      *)
  req       (* history: the call of isoRead                                *)

indexVars == <<cur, idx>>
bufVars   == <<bufAt, buf>>
readVars  == <<pos, remaining, copied, req>>
vars == <<img, pc, caller, indexVars, bufVars, held, lba, offset, size, readVars>>

Entries   == 0 .. IdxEntries - 1
BufBytes  == 0 .. DecBufSize - 1
EmptyBuf  == [b \in BufBytes |-> None]
ZeroIndex == [n \in Entries |-> None]

Init ==
  /\ img \in Images
  /\ pc = "closed"
  /\ caller = "isoOpen"
  /\ cur = -1 /\ idx = ZeroIndex
  /\ bufAt = -1 /\ buf = EmptyBuf
  /\ held = None
  /\ lba = 0 /\ offset = 0 /\ size = 0
  /\ pos = 0 /\ remaining = 0 /\ copied = <<>>
  /\ req = <<0, 0>>

(***************************************************************************)
(* isoOpen, up to the read of the volume descriptor; a file left open is   *)
(* closed first.  The decompression buffer is allocated anew: isoClose has *)
(* freed it.                                                               *)
(***************************************************************************)
IsoOpenKeepsOrigin ==   (* mutant: a new buffer under the old origin *)
  /\ pc \in {"closed", "open"}
  /\ img' \in Images
  /\ pc' = IF img'.header THEN "sector" ELSE "closed"
  /\ caller' = "isoOpen"
  /\ lba' = VolSector
  /\ IF img'.header /\ img'.ciso
     THEN cur' = -1 /\ idx' = ZeroIndex /\ buf' = EmptyBuf /\ UNCHANGED bufAt
     ELSE UNCHANGED <<indexVars, bufVars>>
  /\ UNCHANGED <<held, offset, size, readVars>>

IsoOpen ==
  /\ pc \in {"closed", "open"}
  /\ img' \in Images
  /\ pc' = IF img'.header THEN "sector" ELSE "closed"
  /\ caller' = "isoOpen"
  /\ lba' = VolSector
  /\ IF img'.header /\ img'.ciso
     THEN cur' = -1 /\ idx' = ZeroIndex /\ bufAt' = -1 /\ buf' = EmptyBuf
     ELSE UNCHANGED <<indexVars, bufVars>>
  /\ UNCHANGED <<held, offset, size, readVars>>

(***************************************************************************)
(* readSector of an ISO.                                                   *)
(***************************************************************************)
ReadPlain ==
  /\ pc = "sector"
  /\ ~img.ciso
  /\ held' = lba
  /\ pc' = "got"
  /\ UNCHANGED <<img, caller, indexVars, bufVars, lba, offset, size, readVars>>

(***************************************************************************)
(* readSectorCompressed.  What a read of the index leaves past the end of  *)
(* the index is no index entry (None).                                     *)
(***************************************************************************)
IndexFrom(s) == [n \in Entries |-> IF s + n <= img.sectors THEN s + n ELSE None]
Outside(s) == cur = -1 \/ s - cur < 0 \/ s - cur >= IdxEntries
OffsetOf(e) == IF e \in 0 .. img.sectors THEN img.off[e] ELSE 0
RawEntry(e) == e \in 0 .. img.sectors - 1 /\ img.raw[e]

LoadIndex(s) ==
  IF Outside(s) THEN cur' = s /\ idx' = IndexFrom(s)
                ELSE UNCHANGED indexVars

SectorEntry ==
  /\ pc = "sector"
  /\ img.ciso
  /\ LoadIndex(lba)
  /\ LET e == idx'[lba - cur']
     IN  /\ offset' = OffsetOf(e)
         /\ IF RawEntry(e) THEN held' = e /\ pc' = "got"
                           ELSE pc' = "next" /\ UNCHANGED held
  /\ UNCHANGED <<img, caller, bufVars, lba, size, readVars>>

NextEntry ==
  /\ pc = "next"
  /\ LoadIndex(lba + 1)
  /\ LET gap == OffsetOf(idx'[lba + 1 - cur']) - offset
     IN  size' = IF gap <= SectorSize THEN SectorSize ELSE gap
  /\ pc' = "fill"
  /\ UNCHANGED <<img, caller, bufVars, held, lba, offset, readVars>>

(* A short read at the end of the file leaves the rest of the buffer.      *)
FileFrom(o) == [b \in BufBytes |->
                  IF o + b < img.off[img.sectors] THEN o + b ELSE buf[b]]

StartNotBuffered ==   (* mutant: the size of the stream forgotten *)
  offset < bufAt \/ offset >= bufAt + DecBufSize
NotBuffered == offset < bufAt \/ size + offset >= bufAt + DecBufSize

FillBufferOnly ==   (* mutant: the origin is not moved *)
  /\ pc = "fill"
  /\ IF NotBuffered THEN buf' = FileFrom(offset) /\ UNCHANGED bufAt
                    ELSE UNCHANGED bufVars
  /\ pc' = "inflate"
  /\ UNCHANGED <<img, caller, indexVars, held, lba, offset, size, readVars>>

FillBuffer ==
  /\ pc = "fill"
  /\ IF NotBuffered THEN bufAt' = offset /\ buf' = FileFrom(offset)
                    ELSE UNCHANGED bufVars
  /\ pc' = "inflate"
  /\ UNCHANGED <<img, caller, indexVars, held, lba, offset, size, readVars>>

(* The sectors of which a whole stream starts at byte b of the buffer.     *)
StreamsAt(b) ==
  {s \in 0 .. img.sectors - 1 : \A n \in 0 .. img.len[s] - 1 :
     b + n \in BufBytes /\ buf[b + n] = img.off[s] + n}

(* inflate of anything else fails, or happens to give something.           *)
Inflate ==
  /\ pc = "inflate"
  /\ LET found == StreamsAt(offset - bufAt)
     IN  \/ held' \in found /\ pc' = "got"
         \/ found = {} /\ held' = None /\ pc' \in {"got", "error"}
  /\ UNCHANGED <<img, caller, indexVars, bufVars, lba, offset, size, readVars>>

(***************************************************************************)
(* The end of isoOpen: on an error the file is closed.  Bytes nobody wrote *)
(* may pass for a descriptor.                                              *)
(***************************************************************************)
CheckVolume ==
  /\ pc \in {"got", "error"}
  /\ caller = "isoOpen"
  /\ \/ pc = "got" /\ held = VolSector /\ img.iso9660 /\ pc' = "open"
     \/ pc = "got" /\ held = None /\ pc' \in {"open", "closed"}
     \/ pc = "got" /\ held = VolSector /\ ~img.iso9660 /\ pc' = "closed"
     \/ pc = "error" /\ pc' = "closed"
  /\ UNCHANGED <<img, caller, indexVars, bufVars, held, lba, offset, size, readVars>>

(***************************************************************************)
(* isoRead.  A sector that cannot be read ends the loop: what was copied   *)
(* so far is the result.                                                   *)
(***************************************************************************)
IsoRead ==
  /\ pc = "open"
  /\ req' \in Requests
  /\ req'[1] + req'[2] <= img.sectors * SectorSize
  /\ pos' = req'[1] /\ remaining' = req'[2] /\ copied' = <<>>
  /\ caller' = "isoRead"
  /\ pc' = "loop"
  /\ UNCHANGED <<img, indexVars, bufVars, held, lba, offset, size>>

NextOrNoSector ==   (* mutant: one turn more when nothing remains *)
  /\ pc = "loop"
  /\ remaining >= 0
  /\ lba' = pos \div SectorSize
  /\ pc' = "sector"
  /\ UNCHANGED <<img, caller, indexVars, bufVars, held, offset, size, readVars>>

NextSector ==
  /\ pc = "loop"
  /\ remaining > 0
  /\ lba' = pos \div SectorSize
  /\ pc' = "sector"
  /\ UNCHANGED <<img, caller, indexVars, bufVars, held, offset, size, readVars>>

HeldByte(p) == IF held = None THEN None ELSE <<held, p>>

CopyRest ==   (* mutant: the rest of the sector, however little remains *)
  /\ pc = "got"
  /\ caller = "isoRead"
  /\ LET start == pos % SectorSize
         re    == SectorSize - start
     IN  /\ copied' = copied \o [k \in 1 .. re |-> HeldByte(start + k - 1)]
         /\ remaining' = remaining - re
         /\ pos' = pos + re
  /\ pc' = "loop"
  /\ UNCHANGED <<img, caller, indexVars, bufVars, held, lba, offset, size, req>>

CopySector ==
  /\ pc = "got"
  /\ caller = "isoRead"
  /\ LET start == pos % SectorSize
         rest  == SectorSize - start
         re    == IF rest < remaining THEN rest ELSE remaining
     IN  /\ copied' = copied \o [k \in 1 .. re |-> HeldByte(start + k - 1)]
         /\ remaining' = remaining - re
         /\ pos' = pos + re
  /\ pc' = "loop"
  /\ UNCHANGED <<img, caller, indexVars, bufVars, held, lba, offset, size, req>>

ReadDone ==
  /\ \/ pc = "loop" /\ remaining = 0
     \/ pc = "error" /\ caller = "isoRead"
  /\ pc' = "open"
  /\ UNCHANGED <<img, caller, indexVars, bufVars, held, lba, offset, size, readVars>>

IsoClose ==
  /\ pc = "open"
  /\ pc' = "closed"
  /\ UNCHANGED <<img, caller, indexVars, bufVars, held, lba, offset, size, readVars>>

Work == \/ ReadPlain \/ SectorEntry \/ NextEntry \/ FillBuffer \/ Inflate
        \/ CheckVolume \/ NextSector \/ CopySector \/ ReadDone
Next == IsoOpen \/ IsoRead \/ IsoClose \/ Work

Spec == Init /\ [][Next]_vars

(* A call runs until it returns; nothing obliges the caller to call.       *)
FairSpec == Spec /\ WF_vars(Work)

(***************************************************************************)
(* Type invariant.                                                         *)
(***************************************************************************)
Steps == {"closed", "open", "sector", "next", "fill", "inflate", "got",
          "error", "loop"}

TypeOK ==
  /\ img \in Images
  /\ pc \in Steps
  /\ caller \in {"isoOpen", "isoRead"}
  /\ cur \in Nat \cup {-1}
  /\ idx \in [Entries -> Nat \cup {None}]
  /\ bufAt \in Nat \cup {-1}
  /\ buf \in [BufBytes -> Nat \cup {None}]
  /\ held \in Nat \cup {None}
  /\ lba \in Nat /\ offset \in Nat /\ size \in Nat
  /\ pos \in Nat /\ remaining \in Nat

(***************************************************************************)
(* The caches of an open CISO tell the truth about the file: what follows  *)
(* the origin of each is what follows it in the file.  readSectorCompressed*)
(* moves the two origins and refills the two windows separately, the index *)
(* possibly twice for one sector; isoOpen starts again with another file.  *)
(***************************************************************************)
IndexIsTrue ==
  cur # -1 => \A n \in Entries : cur + n <= img.sectors => idx[n] = cur + n
BufferIsTrue ==
  bufAt # -1 => \A b \in BufBytes : bufAt + b < img.off[img.sectors] => buf[b] = bufAt + b

CachesTellTheTruth ==
  pc # "closed" /\ img.ciso => IndexIsTrue /\ BufferIsTrue

(***************************************************************************)
(* In a roomy image readSector returns the sector asked for, and never     *)
(* another one or bytes nobody wrote: the stream lies wholly in the buffer *)
(* whenever the test did not refill it.                                    *)
(***************************************************************************)
RightSector ==
  Roomy(img) => pc # "error" /\ (pc = "got" => held = lba)

(***************************************************************************)
(* The strengthening the proof of RightSector needs: the locals of         *)
(* readSectorCompressed describe the sector, and the buffer holds its      *)
(* stream when inflate is called.                                          *)
(***************************************************************************)
Reading == pc \in {"sector", "next", "fill", "inflate", "got"}

SectorInRange ==
  /\ Reading => lba < img.sectors
  /\ pc = "loop" => caller = "isoRead"
  /\ caller = "isoRead" /\ pc # "closed" => pos + remaining <= img.sectors * SectorSize

LocalsAreRight ==
  /\ pc \in {"next", "fill", "inflate"} => img.ciso /\ ~img.raw[lba] /\ offset = img.off[lba]
  /\ pc \in {"fill", "inflate"} => size >= SectorSize

StreamBuffered ==
  pc = "inflate" /\ Roomy(img) =>
    \A n \in 0 .. img.len[lba] - 1 :
      offset - bufAt + n \in BufBytes /\ buf[offset - bufAt + n] = offset + n

ReaderInvariant ==
  CachesTellTheTruth /\ SectorInRange /\ LocalsAreRight /\ StreamBuffered /\ RightSector
=============================================================================
