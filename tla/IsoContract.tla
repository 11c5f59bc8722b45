---------------------------- MODULE IsoContract -----------------------------
(***************************************************************************)
(* What isoreader.c promises its callers, without caches: an image is      *)
(* opened if it has a volume descriptor, and a read of an image returns    *)
(* the bytes of the disc.  Of an image that is not roomy it promises less: *)
(* opening it may fail, a read may end early and hold bytes nobody wrote,  *)
(* but never the bytes of another place of the disc.                       *)
(***************************************************************************)
EXTENDS IsoImage

CONSTANT Requests

VARIABLES
  img,      (* the image                                                   *)
  file,     (* closed, opening or open                                     *)
  req,      (* the last read                                               *)
  answer    (* what it returned; None while it is not answered             *)

contractVars == <<img, file, req, answer>>

Init == img \in Images /\ file = "closed" /\ req = <<0, 0>> /\ answer = <<>>

Open ==
  /\ file \in {"closed", "open"}
  /\ answer # None
  /\ img' \in Images
  /\ file' = IF img'.header THEN "opening" ELSE "closed"
  /\ UNCHANGED <<req, answer>>

Opened ==
  /\ file = "opening"
  /\ \/ file' = "open" /\ img.iso9660
     \/ file' = "closed" /\ ~img.iso9660
     \/ file' \in {"open", "closed"} /\ ~Roomy(img)
  /\ UNCHANGED <<img, req, answer>>

Ask ==
  /\ file = "open"
  /\ answer # None
  /\ req' \in Requests
  /\ answer' = None
  /\ UNCHANGED <<img, file>>

Answer ==
  /\ answer = None
  /\ answer' # None
  /\ Roomy(img) => Len(answer') = req[2]
  /\ Len(answer') <= req[2]
  /\ \A k \in 1 .. Len(answer') :
       \/ answer'[k] = DiscByte(req[1] + k - 1)
       \/ answer'[k] = None /\ ~Roomy(img)
  /\ UNCHANGED <<img, file, req>>

Close == file = "open" /\ answer # None /\ file' = "closed" /\ UNCHANGED <<img, req, answer>>

Next == Open \/ Opened \/ Ask \/ Answer \/ Close

Spec == Init /\ [][Next]_contractVars

(* Every call returns.                                                     *)
Returns == (answer = None ~> answer # None) /\ (file = "opening" ~> file # "opening")
=============================================================================
