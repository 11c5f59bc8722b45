------------------------------ MODULE MCAmctrl ------------------------------
(***************************************************************************)
(* Amctrl with blocks of two bytes and a buffer of two blocks.  The MAC    *)
(* and the cipher share nothing but kirk_buf, which each fills before it   *)
(* reads it: a cipher is open only while there is no MAC.                  *)
(***************************************************************************)
EXTENDS Amctrl

MCVersionKeys == {Atom("key", 1, Zero)}

OneAtATime == ckey # None => ~live /\ made = NoMac
=============================================================================
