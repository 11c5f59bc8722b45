-------------------------------- MODULE Kirk --------------------------------
(***************************************************************************)
(* kirk_engine.c as its callers see it: which commands are there, and AES  *)
(* on one block under the keys of the vault.  AES is taken as an arbitrary *)
(* permutation for each key.  A block is the exclusive or of a set of      *)
(* atoms <<what, index, of>>, each a value nobody knows anything about;    *)
(* the zero block is the empty set.                                        *)
(***************************************************************************)
EXTENDS Integers, FiniteSets

Zero == {}
Xor(x, y) == (x \ y) \cup (y \ x)

(* The block that is a single atom, and whether x is one.                  *)
Atom(what, index, of) == {<<what, index, of>>}
IsAtom(x, what, index) == Cardinality(x) = 1 /\ \A a \in x : a[1] = what /\ a[2] = index
Under(x) == (CHOOSE a \in x : TRUE)[3]

(* kirk_CMD4 and kirk_CMD7 on one block, with the key of that number.      *)
Encrypt(k, x) == IF IsAtom(x, "D", k) THEN Under(x) ELSE Atom("E", k, x)
Decrypt(k, x) == IF IsAtom(x, "E", k) THEN Under(x) ELSE Atom("D", k, x)

(* The keys of kirk_4_7_get_key that libkirk asks for.                     *)
Key38 == 56
Key39 == 57
Key3A == 58
Key63 == 99

(* sceUtilsBufferCopyWithRange has these commands; of any other, among     *)
(* them 5 and 8, which use the fuse id, it returns -1.                     *)
Commands == {1, 4, 7, 10, 11, 12, 13, 14, 16, 17}
Succeeds(cmd) == cmd \in Commands
=============================================================================
