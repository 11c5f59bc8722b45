------------------------------- MODULE Amctrl -------------------------------
(***************************************************************************)
(* amctrl.c: a MAC and a stream cipher that take their data in pieces of   *)
(* any length, through one static buffer of Chunk bytes.                   *)
(*                                                                         *)
(* A byte of the message is its position in the data given since the last  *)
(* sceDrmBBMacInit.  MAC_KEY.key is the end of a CBC chain, known by the   *)
(* bytes it was made from.  A byte of cipher data is known by the keystream*)
(* byte it was xored with.                                                 *)
(***************************************************************************)
EXTENDS Kirk

CONSTANTS
  Block,       (* 16                                                       *)
  Chunk,       (* the part of kirk_buf data is put in, 0x800               *)
  MacTypes,    (* types given to sceDrmBBMacInit                           *)
  VersionKeys, (* version keys: blocks of atoms of their own               *)
  HeaderKeys,  (* header keys of ciphers                                   *)
  Seeds,       (* seeds given to sceDrmBBCipherInit                        *)
  Pieces,      (* lengths of the pieces                                    *)
  MaxLength,   (* bound: length of a message                               *)
  NoKey,       (* NULL for a version key                                   *)
  None         (* memory nothing of the message was written to             *)

ASSUME AmctrlConstants ==
  /\ Block \in Nat \ {0} /\ Chunk \in Nat \ {0}
  /\ \E q \in 0 .. Chunk : Chunk = q * Block
  /\ MacTypes \subseteq 1 .. 3
  /\ Seeds \subseteq Nat /\ Pieces \subseteq Nat /\ MaxLength \in Nat
  /\ NoKey \notin VersionKeys
  /\ \A vkey \in VersionKeys : \A a \in vkey : a[1] = "key"
  /\ None \notin Int

(* The bytes after the message in its last block.                          *)
Mark  == -1   (* 0x80 *)
Blank == -2   (* 0    *)

VARIABLES
  pc,                       (* idle, or the loop of an Update              *)
  kbuf,                     (* kirk_buf + 0x14, what an Update put there   *)
  live,                     (* MAC_KEY was initialised and not spoilt      *)
  mtype, fed, fedLen,       (* MAC_KEY.type; MAC_KEY.key as a chain of     *)
                            (* fedLen bytes                                *)
  pad, pad_size,            (* MAC_KEY.pad, MAC_KEY.pad_size               *)
  size, buf, p,             (* of sceDrmBBMacUpdate                        *)
  given,                    (* history: bytes given since Init             *)
  swallowed,                (* history: whole blocks were followed by a    *)
                            (* piece of at most one                        *)
  made,                     (* history: the last MAC made, and of what     *)
  checked,                  (* history: the last check of it               *)
  ctype, seed, ckey,        (* CIPHER_KEY                                  *)
  csize, at,                (* size and p of sceDrmBBCipherUpdate          *)
  stream,                   (* history: the keystream used since Init      *)
  start, even               (* history: its seed; pieces so far are whole  *)
                            (* blocks                                      *)

objectVars == <<live, mtype, fed, fedLen, pad, pad_size>>
updateVars == <<size, buf, p>>
givenVars  == <<given, swallowed>>
macVars    == <<objectVars, updateVars, givenVars, made, checked>>
cipherVars == <<ctype, seed, ckey, csize, at, stream, start, even>>
vars == <<pc, kbuf, macVars, cipherVars>>

KBytes   == 0 .. Chunk - 1
PadBytes == 0 .. Block - 1
NoKbuf   == [b \in KBytes |-> None]
NoPad    == [b \in PadBytes |-> Blank]
NoBytes  == [b \in {} |-> None]
NoMac    == [mac |-> Zero, type |-> 0, length |-> 0, key |-> NoKey, good |-> FALSE]
NoCheck  == [what |-> "none", type |-> 0, length |-> 0, key |-> NoKey, good |-> FALSE,
             verdict |-> FALSE, found |-> NoKey]

Init ==
  /\ pc = "idle" /\ kbuf = NoKbuf
  /\ live = FALSE /\ mtype = 0 /\ fed = NoBytes /\ fedLen = 0
  /\ pad = NoPad /\ pad_size = 0
  /\ size = 0 /\ buf = 0 /\ p = 0
  /\ given = 0 /\ swallowed = FALSE
  /\ made = NoMac /\ checked = NoCheck
  /\ ctype = 0 /\ seed = 0 /\ ckey = None
  /\ csize = 0 /\ at = 0 /\ stream = NoBytes /\ start = 0 /\ even = TRUE

(* n is a number of whole blocks.                                          *)
WholeBlocks(n) == \E q \in 0 .. n : n = q * Block

(***************************************************************************)
(* sceDrmBBMacInit.                                                        *)
(***************************************************************************)
BBMacInit(t) ==
  /\ pc = "idle"
  /\ live' = TRUE /\ mtype' = t
  /\ fed' = NoBytes /\ fedLen' = 0 /\ pad' = NoPad /\ pad_size' = 0
  /\ given' = 0 /\ swallowed' = FALSE
  /\ checked' = NoCheck
  /\ UNCHANGED <<pc, kbuf, updateVars, made, cipherVars>>

(***************************************************************************)
(* sceDrmBBMacUpdate with a piece of n bytes.  One that fits in the pad    *)
(* waits there.  Otherwise the pad is put in front, and the last block, or *)
(* what there is of it, becomes the new pad.                               *)
(***************************************************************************)
Giving(n) ==
  /\ given + n <= MaxLength
  /\ given' = given + n
  /\ swallowed' = (swallowed \/ (given > 0 /\ WholeBlocks(given) /\ n \in 1 .. Block))

UpdatePadLate(n) ==   (* mutant: the bytes that wait in the pad are not counted *)
  /\ pc = "idle"
  /\ live
  /\ n <= Block
  /\ Giving(n)
  /\ pad' = [b \in PadBytes |-> IF b \in pad_size .. pad_size + n - 1
                                THEN given + b - pad_size ELSE pad[b]]
  /\ pad_size' = pad_size + n
  /\ UNCHANGED <<pc, kbuf, live, mtype, fed, fedLen, updateVars, made, checked, cipherVars>>

UpdatePad(n) ==
  /\ pc = "idle"
  /\ live
  /\ pad_size + n <= Block
  /\ Giving(n)
  /\ pad' = [b \in PadBytes |-> IF b \in pad_size .. pad_size + n - 1
                                THEN given + b - pad_size ELSE pad[b]]
  /\ pad_size' = pad_size + n
  /\ UNCHANGED <<pc, kbuf, live, mtype, fed, fedLen, updateVars, made, checked, cipherVars>>

RestCut(n) == n % Block   (* mutant: a last block that is whole is not kept back *)
Rest(n) == IF n % Block = 0 THEN Block ELSE n % Block

UpdateBlocks(n) ==
  /\ pc = "idle"
  /\ live
  /\ pad_size + n > Block
  /\ Giving(n)
  /\ kbuf' = [b \in KBytes |-> IF b < pad_size THEN pad[b] ELSE None]
  /\ p' = pad_size
  /\ LET rest == Rest(pad_size + n)
     IN  /\ pad_size' = rest
         /\ size' = n - rest
         /\ pad' = [b \in PadBytes |-> IF b < rest THEN given + n - rest + b ELSE pad[b]]
  /\ buf' = given
  /\ pc' = "mac"
  /\ UNCHANGED <<live, mtype, fed, fedLen, made, checked, cipherVars>>

(***************************************************************************)
(* while (size): encrypt_buf continues the chain over ksize bytes and      *)
(* leaves the ciphertext in the buffer.                                    *)
(***************************************************************************)
ksize == IF size + p >= Chunk THEN Chunk ELSE size + p
Filled(b) == IF b < p THEN kbuf[b] ELSE buf + b - p

UpdateChunkPad ==   (* mutant: p is not reset after the first chunk *)
  /\ pc = "mac"
  /\ size > 0
  /\ fedLen' = fedLen + ksize
  /\ fed' = [b \in 0 .. fedLen + ksize - 1 |-> IF b < fedLen THEN fed[b] ELSE Filled(b - fedLen)]
  /\ kbuf' = NoKbuf
  /\ size' = size - (ksize - p)
  /\ buf' = buf + (ksize - p)
  /\ UNCHANGED <<pc, live, mtype, pad, pad_size, p, givenVars, made, checked, cipherVars>>

UpdateChunk ==
  /\ pc = "mac"
  /\ size > 0
  /\ fedLen' = fedLen + ksize
  /\ fed' = [b \in 0 .. fedLen + ksize - 1 |-> IF b < fedLen THEN fed[b] ELSE Filled(b - fedLen)]
  /\ kbuf' = NoKbuf
  /\ size' = size - (ksize - p)
  /\ buf' = buf + (ksize - p)
  /\ p' = 0
  /\ UNCHANGED <<pc, live, mtype, pad, pad_size, givenVars, made, checked, cipherVars>>

UpdateDone ==
  /\ pc = "mac"
  /\ size = 0
  /\ pc' = "idle"
  /\ kbuf' = NoKbuf /\ buf' = 0 /\ p' = 0
  /\ UNCHANGED <<size, objectVars, givenVars, made, checked, cipherVars>>

(***************************************************************************)
(* The value sceDrmBBMacFinal computes from the chain and the last block,  *)
(* with the first of its subkeys if that block is whole and the second if  *)
(* it is padded.  With a version key there is one more encryption.         *)
(***************************************************************************)
CodeOf(t) == IF t = 2 THEN Key3A ELSE Key38
AmctrlKey1 == Atom("amctrl_key1", 0, Zero)
SubKey(whole, code) == Atom("subkey", IF whole THEN 1 ELSE 2, {<<"code", code, Zero>>})

CoreOf(t, chain, whole, last) ==
  Xor(Encrypt(CodeOf(t), Xor(Xor(chain, SubKey(whole, CodeOf(t))), last)), AmctrlKey1)

WithKey(t, core, vkey) == IF vkey = NoKey THEN core ELSE Encrypt(CodeOf(t), Xor(core, vkey))

ChainOf(bytes, n) == IF n = 0 THEN Zero ELSE Atom("chain", n, bytes)
LastOf(block) == Atom("last", 0, block)

MacOf(t, bytes, n, block, whole, vkey) ==
  WithKey(t, CoreOf(t, ChainOf(bytes, n), whole, LastOf(block)), vkey)

Padded ==
  [b \in PadBytes |-> IF b < pad_size THEN pad[b] ELSE IF b = pad_size THEN Mark ELSE Blank]

Result(vkey) == MacOf(mtype, fed, fedLen, Padded, pad_size = Block, vkey)

(* Type 2 asks for kirk command 5.                                         *)
FinalWorks == mtype = 2 => Succeeds(5)

(* At the end the MAC_KEY is cleared, which makes it one of type 0.        *)
Cleared ==
  /\ mtype' = 0 /\ fed' = NoBytes /\ fedLen' = 0 /\ pad' = NoPad /\ pad_size' = 0
  /\ given' = 0 /\ swallowed' = FALSE

(* bbmac_build_final2, and the way back in Final2 and getkey.              *)
BuildFinal2(t, mac) == IF t = 3 THEN Encrypt(Key63, mac) ELSE mac
StoredPlain(t, mac) == mac   (* mutant: the MAC compared as it is stored *)
Stored(t, mac) == IF t = 3 THEN Decrypt(Key63, mac) ELSE mac

(***************************************************************************)
(* sceDrmBBMacFinal and bbmac_build_final2, as the tools call them.        *)
(***************************************************************************)
BBMacFinal(vkey) ==
  /\ pc = "idle"
  /\ live
  /\ FinalWorks
  /\ made' = [mac |-> BuildFinal2(mtype, Result(vkey)), type |-> mtype, length |-> given,
              key |-> vkey, good |-> ~swallowed]
  /\ checked' = NoCheck
  /\ Cleared
  /\ UNCHANGED <<pc, kbuf, live, updateVars, cipherVars>>

(* The command fails after the pad was overwritten; nothing is cleared.    *)
BBMacFails ==
  /\ pc = "idle"
  /\ live
  /\ ~FinalWorks
  /\ live' = FALSE
  /\ UNCHANGED <<pc, kbuf, mtype, fed, fedLen, pad, pad_size, updateVars, givenVars, made,
                 checked, cipherVars>>

(***************************************************************************)
(* sceDrmBBMacFinal2 compares with a MAC made before; bbmac_getkey finds   *)
(* the version key it was made with.                                       *)
(***************************************************************************)
Check(what, vkey, verdict, found) ==
  checked' = [what |-> what, type |-> mtype, length |-> given, key |-> vkey,
              good |-> ~swallowed, verdict |-> verdict, found |-> found]

BBMacFinal2(vkey) ==
  /\ pc = "idle"
  /\ live
  /\ FinalWorks
  /\ Check("mac", vkey, Result(vkey) = Stored(mtype, made.mac), NoKey)
  /\ Cleared
  /\ UNCHANGED <<pc, kbuf, live, updateVars, made, cipherVars>>

BBMacGetkey ==
  /\ pc = "idle"
  /\ live
  /\ FinalWorks
  /\ Check("key", NoKey, FALSE,
           Xor(Result(NoKey), Decrypt(CodeOf(mtype), Stored(mtype, made.mac))))
  /\ Cleared
  /\ UNCHANGED <<pc, kbuf, live, updateVars, made, cipherVars>>

(***************************************************************************)
(* sceDrmBBCipherInit: mode 2 takes the header key and a seed, mode 1      *)
(* makes a header key and starts at seed 1.  (Type 2 in mode 1 uses kirk   *)
(* command 5 and fails before the key is set.)                             *)
(***************************************************************************)
CipherReset(t, s, header, vkey) ==
  /\ pc = "idle"
  /\ ctype' = t /\ seed' = s + 1 /\ ckey' = [header |-> header, version |-> vkey]
  /\ stream' = NoBytes /\ start' = s /\ even' = TRUE
  /\ UNCHANGED <<pc, kbuf, macVars, csize, at>>

BBCipherInit(t, header, vkey, s) == CipherReset(t, s, header, vkey)

BBCipherInitNew(header, vkey) == CipherReset(1, 0, header, vkey)

(***************************************************************************)
(* sceDrmBBCipherUpdate.  cipher_buf makes the keystream of dsize bytes    *)
(* from counters, decrypted in CBC mode: a keystream block depends on its  *)
(* counter and on the one before, which the first block has from tmp1.     *)
(***************************************************************************)
BBCipherUpdate(n) ==
  /\ pc = "idle"
  /\ ckey # None
  /\ Cardinality(DOMAIN stream) + n <= MaxLength
  /\ csize' = n /\ at' = Cardinality(DOMAIN stream)
  /\ even' = (even /\ WholeBlocks(Cardinality(DOMAIN stream)))
  /\ pc' = "cipher"
  /\ UNCHANGED <<kbuf, macVars, ctype, seed, ckey, stream, start>>

(* Type 2 asks for kirk command 8; the data are left as they are.          *)
CipherWorks == ctype = 2 => Succeeds(8)

NoCounter == 0
tmp1 == IF seed = 1 THEN NoCounter ELSE seed - 1

KeyByteAlone(b) ==   (* mutant: every chunk starts its chain anew *)
  [key |-> ckey, counter |-> seed + b \div Block,
   before |-> IF b < Block THEN NoCounter ELSE seed + b \div Block - 1, byte |-> b % Block]

KeyByte(b) ==
  [key |-> ckey, counter |-> seed + b \div Block,
   before |-> IF b < Block THEN tmp1 ELSE seed + b \div Block - 1, byte |-> b % Block]

dsize == IF csize >= Chunk THEN Chunk ELSE csize

CipherChunk ==
  /\ pc = "cipher"
  /\ csize > 0
  /\ CipherWorks
  /\ stream' = [b \in 0 .. at + dsize - 1 |-> IF b < at THEN stream[b] ELSE KeyByte(b - at)]
  /\ seed' = seed + (dsize + Block - 1) \div Block
  /\ csize' = csize - dsize
  /\ at' = at + dsize
  /\ kbuf' = NoKbuf
  /\ UNCHANGED <<pc, macVars, ctype, ckey, start, even>>

CipherDone ==
  /\ pc = "cipher"
  /\ csize = 0 \/ ~CipherWorks
  /\ pc' = "idle"
  /\ csize' = 0 /\ at' = 0
  /\ UNCHANGED <<kbuf, macVars, ctype, seed, ckey, stream, start, even>>

BBCipherFinal ==
  /\ pc = "idle"
  /\ ckey # None
  /\ ctype' = 0 /\ seed' = 0 /\ ckey' = None
  /\ stream' = NoBytes /\ start' = 0 /\ even' = TRUE
  /\ UNCHANGED <<pc, kbuf, macVars, csize, at>>

MacNext ==
  \/ \E t \in MacTypes : BBMacInit(t)
  \/ \E n \in Pieces : UpdatePad(n) \/ UpdateBlocks(n)
  \/ UpdateChunk \/ UpdateDone
  \/ \E vkey \in VersionKeys \cup {NoKey} : BBMacFinal(vkey) \/ BBMacFinal2(vkey)
  \/ BBMacFails \/ BBMacGetkey

CipherNext ==
  \/ \E t \in {1, 2}, header \in HeaderKeys, vkey \in VersionKeys \cup {NoKey}, s \in Seeds :
       BBCipherInit(t, header, vkey, s)
  \/ \E header \in HeaderKeys, vkey \in VersionKeys \cup {NoKey} : BBCipherInitNew(header, vkey)
  \/ \E n \in Pieces : BBCipherUpdate(n)
  \/ CipherChunk \/ CipherDone \/ BBCipherFinal

Next == MacNext \/ CipherNext

Spec == Init /\ [][Next]_vars

(***************************************************************************)
(* Type invariant.                                                         *)
(***************************************************************************)
TypeOK ==
  /\ pc \in {"idle", "mac", "cipher"}
  /\ kbuf \in [KBytes -> Nat \cup {None}]
  /\ live \in BOOLEAN /\ mtype \in 0 .. 3
  /\ fedLen \in Nat /\ fed \in [0 .. fedLen - 1 -> Nat \cup {None, Blank}]
  /\ pad \in [PadBytes -> Nat \cup {Blank}] /\ pad_size \in 0 .. Block
  /\ size \in Nat /\ buf \in Nat /\ p \in 0 .. Block
  /\ given \in Nat /\ swallowed \in BOOLEAN
  /\ ctype \in 0 .. 2 /\ seed \in Nat
  /\ csize \in Nat /\ at \in Nat

(***************************************************************************)
(* A MAC depends on the message only, not on how it was cut into pieces:   *)
(* it is the chain over all blocks but the last, finished with the last,   *)
(* padded if it is not whole.  Pieces of at most a block that follow whole *)
(* blocks are excepted: sceDrmBBMacUpdate then forgets the pad.            *)
(***************************************************************************)
LastBlock(s, n) ==
  [b \in PadBytes |-> IF s + b < n THEN s + b ELSE IF s + b = n THEN Mark ELSE Blank]

EndsAt(s, n) == WholeBlocks(s) /\ (n - s \in 1 .. Block \/ n = 0)

MacOfMessage(t, n, vkey, mac) ==
  \E s \in 0 .. n : EndsAt(s, n) /\
    mac = BuildFinal2(t, MacOf(t, [b \in 0 .. s - 1 |-> b], s, LastBlock(s, n), n - s = Block, vkey))

MacIgnoresPieces ==
  made.good => MacOfMessage(made.type, made.length, made.key, made.mac)

(***************************************************************************)
(* A check accepts exactly the MAC of the same message under the same key  *)
(* and getkey finds that key, however the message was cut when the MAC was *)
(* made and is cut when it is checked.  (A MAC_KEY that was not            *)
(* initialised again has type 0, which makes the MACs of type 1.)          *)
(***************************************************************************)
Family(t) == IF t = 3 THEN 3 ELSE 1
SameMessage == checked.length = made.length /\ Family(checked.type) = Family(made.type)

ChecksMatchMacs ==
  made.good /\ checked.good =>
    /\ checked.what = "mac" => (checked.verdict <=> SameMessage /\ checked.key = made.key)
    /\ checked.what = "key" /\ SameMessage /\ made.key # NoKey => checked.found = made.key

(***************************************************************************)
(* A byte of a stream is xored with a keystream byte that its position and *)
(* the seed decide, so that an image can be decrypted from any block on:   *)
(* the counter of a block is its number in the whole stream plus one.      *)
(* Pieces before the last are whole blocks.                                *)
(***************************************************************************)
KeystreamByPosition ==
  even => \A b \in DOMAIN stream :
    LET j == start * Block + b
    IN  stream[b] = [key |-> ckey, counter |-> j \div Block + 1, before |-> j \div Block,
                     byte |-> j % Block]

(***************************************************************************)
(* The inductive invariant behind MacIgnoresPieces.  Between two calls     *)
(* the chain and the pad are the message given; in the loop there are the  *)
(* p bytes of the buffer and the size bytes at buf in between.  What is    *)
(* left for the chain is always whole blocks.                              *)
(***************************************************************************)
Positions(f, n, from) == \A b \in 0 .. n - 1 : f[b] = from + b

BetweenCalls ==
  /\ given = fedLen + pad_size
  /\ pad_size = 0 => given = 0
  /\ Positions(pad, pad_size, fedLen)

InLoop ==
  /\ given = fedLen + p + size + pad_size
  /\ WholeBlocks(p + size) /\ (p + size > 0 => size > 0)
  /\ pad_size > 0
  /\ Positions(kbuf, p, fedLen)
  /\ buf = fedLen + p
  /\ Positions(pad, pad_size, fedLen + p + size)

MacInvariant ==
  live /\ ~swallowed =>
    /\ WholeBlocks(fedLen) /\ Positions(fed, fedLen, 0)
    /\ pc # "mac" => BetweenCalls
    /\ pc = "mac" => InLoop
=============================================================================
