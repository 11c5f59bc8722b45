---------------------------- MODULE IsoRefinement ----------------------------
(***************************************************************************)
(* IsoReader against IsoContract: a call that has not returned is one the  *)
(* contract has not answered, and the caches are not seen.                 *)
(***************************************************************************)
EXTENDS IsoReader

File == CASE pc = "closed" -> "closed"
          [] pc # "closed" /\ caller = "isoOpen" /\ pc # "open" -> "opening"
          [] OTHER -> "open"
Answered == ~(caller = "isoRead" /\ pc \notin {"open", "closed"})

Contract == INSTANCE IsoContract WITH
  file   <- File,
  answer <- IF Answered THEN copied ELSE None

(***************************************************************************)
(* Whatever calls came before, with whatever windows they left, isoOpen    *)
(* opens an image that is one and isoRead returns the bytes of the disc.   *)
(***************************************************************************)
ImplementsContract == Contract!Spec

(* Every call of isoOpen and isoRead returns.                              *)
CallsReturn == Contract!Returns

(***************************************************************************)
(* What the proof of ImplementsContract needs beside ReaderInvariant.  A   *)
(* buffer without an origin holds nothing, so of a small image a sector is *)
(* the right one or nothing; and in the loop what was copied is the        *)
(* beginning of the request.                                               *)
(***************************************************************************)
BufferEmpty == bufAt = -1 => buf = EmptyBuf

SectorOrNothing == pc = "got" => held = lba \/ (held = None /\ ~Roomy(img))

InRead == caller = "isoRead" /\ pc \notin {"open", "closed"}
RightByte(k) == copied[k] = DiscByte(req[1] + k - 1) \/ (copied[k] = None /\ ~Roomy(img))

CopiedSoFar ==
  /\ copied \in Seq(DiscBytes)
  /\ req \in Nat \X Nat
  /\ InRead =>
       /\ pos = req[1] + Len(copied) /\ Len(copied) + remaining = req[2]
       /\ \A k \in 1 .. Len(copied) : RightByte(k)
       /\ Reading => remaining > 0 /\ lba = pos \div SectorSize

ContractInvariant == BufferEmpty /\ SectorOrNothing /\ CopiedSoFar
=============================================================================
