---------------------------- MODULE AmctrlProofs ----------------------------
(***************************************************************************)
(* Proofs about Amctrl, for every size of block and buffer, messages of    *)
(* every length and any pieces: the types, that a MAC depends on the       *)
(* message and not on how it was cut, that a keystream byte depends on its *)
(* position, and that a check accepts the MACs it should and no other.     *)
(***************************************************************************)
EXTENDS Amctrl, FiniteSetTheorems, TLAPS

LEMMA Sizes == Block \in Nat /\ Block > 0 /\ Chunk \in Nat /\ Chunk > 0
  BY AmctrlConstants

(***************************************************************************)
(* Whole blocks: sums and differences of them, and what Rest leaves.       *)
(***************************************************************************)
LEMMA WholeOf ==
  ASSUME NEW n \in Nat, NEW q \in Nat, n = q * Block
  PROVE  WholeBlocks(n)
  <1>1. q * Block >= q
    <2>1. q * (Block - 1) >= 0
      BY Sizes
    <2> QED
      BY <2>1, Sizes
  <1> QED
    BY <1>1 DEF WholeBlocks

LEMMA WholeSum ==
  ASSUME NEW a \in Nat, NEW b \in Nat, WholeBlocks(a), WholeBlocks(b)
  PROVE  WholeBlocks(a + b)
  <1>1. PICK q \in Nat : a = q * Block
    BY DEF WholeBlocks
  <1>2. PICK r \in Nat : b = r * Block
    BY DEF WholeBlocks
  <1>3. a + b = (q + r) * Block /\ q + r \in Nat
    BY <1>1, <1>2, Sizes
  <1> QED
    BY <1>3, WholeOf

LEMMA WholeDifference ==
  ASSUME NEW a \in Nat, NEW b \in Nat, b <= a, WholeBlocks(a), WholeBlocks(b)
  PROVE  WholeBlocks(a - b)
  <1>1. PICK q \in Nat : a = q * Block
    BY DEF WholeBlocks
  <1>2. PICK r \in Nat : b = r * Block
    BY DEF WholeBlocks
  <1>3. r <= q
    <2> SUFFICES ASSUME r >= q + 1 PROVE FALSE
      OBVIOUS
    <2>1. (r - q - 1) * Block >= 0
      BY Sizes
    <2> QED
      BY <1>1, <1>2, <2>1, Sizes
  <1>4. a - b = (q - r) * Block /\ q - r \in Nat
    BY <1>1, <1>2, <1>3, Sizes
  <1> QED
    BY <1>4, WholeOf

LEMMA SmallWhole ==
  ASSUME NEW n \in 1 .. Block, WholeBlocks(n)
  PROVE  n = Block
  <1>1. PICK q \in Nat : n = q * Block
    BY DEF WholeBlocks
  <1>2. q >= 1
    BY <1>1, Sizes
  <1>3. (q - 1) * Block >= 0
    BY <1>2, Sizes
  <1> QED
    BY <1>1, <1>3, Sizes

LEMMA DivMod ==
  ASSUME NEW n \in Nat, NEW w \in Nat, w > 0
  PROVE  /\ n \div w \in Nat /\ n % w \in 0 .. w - 1
         /\ n = (n \div w) * w + (n % w)
  OBVIOUS

LEMMA RestOfMany ==
  ASSUME NEW n \in Nat, n > Block
  PROVE  /\ Rest(n) \in 1 .. Block
         /\ n - Rest(n) \in Nat /\ WholeBlocks(n - Rest(n))
  <1> DEFINE q == n \div Block
             r == n % Block
  <1>1. q \in Nat /\ r \in 0 .. Block - 1 /\ n = q * Block + r
    BY DivMod, Sizes
  <1> HIDE DEF q, r
  <1>2. Rest(n) = IF r = 0 THEN Block ELSE r
    BY DEF Rest, r
  <1>3. CASE r = 0
    <2>1. q >= 1
      BY <1>1, <1>3, Sizes
    <2>2. n - Rest(n) = (q - 1) * Block /\ q - 1 \in Nat
      BY <1>1, <1>2, <1>3, <2>1, Sizes
    <2> QED
      BY <1>2, <1>3, <2>2, WholeOf, Sizes
  <1>4. CASE r # 0
    <2>1. n - Rest(n) = q * Block
      BY <1>1, <1>2, <1>4, Sizes
    <2> QED
      BY <1>1, <1>2, <1>4, <2>1, WholeOf, Sizes
  <1> QED
    BY <1>3, <1>4

LEMMA ChunkIsWhole == WholeBlocks(Chunk) /\ Block <= Chunk
  <1>1. PICK q \in Nat : Chunk = q * Block
    BY AmctrlConstants
  <1>2. q >= 1
    BY <1>1, Sizes
  <1>3. (q - 1) * Block >= 0
    BY <1>2, Sizes
  <1> QED
    BY <1>1, <1>3, WholeOf, Sizes

LEMMA WholePositive ==
  ASSUME NEW n \in Nat, WholeBlocks(n), n > 0
  PROVE  n >= Block
  <1>1. PICK q \in Nat : n = q * Block
    BY DEF WholeBlocks
  <1>2. q >= 1
    BY <1>1, Sizes
  <1>3. (q - 1) * Block >= 0
    BY <1>2, Sizes
  <1> QED
    BY <1>1, <1>3, Sizes

(* What UpdateBlocks sets aside.                                           *)
LEMMA RestOfPiece ==
  ASSUME NEW q \in 0 .. Block, NEW n \in Nat, q + n > Block
  PROVE  /\ Rest(q + n) \in 1 .. Block /\ n - Rest(q + n) \in Nat
         /\ WholeBlocks(q + (n - Rest(q + n)))
  <1> DEFINE r == Rest(q + n)
  <1>1. q + n \in Nat
    BY Sizes
  <1>2. r \in 1 .. Block /\ q + n - r \in Nat /\ WholeBlocks(q + n - r)
    BY <1>1, RestOfMany
  <1> HIDE DEF r
  <1>3. q + n - r >= Block
    BY <1>1, <1>2, WholePositive, Sizes
  <1>4. n - r \in Nat /\ q + n - r = q + (n - r)
    BY <1>2, <1>3, Sizes
  <1> QED
    BY <1>2, <1>4 DEF r

(* What UpdateChunk takes.                                                 *)
LEMMA ChunkSize ==
  ASSUME size \in Nat, p \in 0 .. Block
  PROVE  /\ ksize \in Nat /\ ksize - p \in Nat /\ size - (ksize - p) \in Nat
         /\ ksize <= Chunk
         /\ ksize = Chunk \/ size - (ksize - p) = 0
  BY ChunkIsWhole, Sizes DEF ksize

(***************************************************************************)
(* Type invariant.  A pad has a byte of the message wherever it is filled, *)
(* so what goes from it to the buffer is one; a stream has a length.       *)
(***************************************************************************)
PadFilled == \A b \in 0 .. pad_size - 1 : pad[b] \in Nat
StreamLength == \E l \in Nat : DOMAIN stream = 0 .. l - 1
TypeInv == TypeOK /\ PadFilled /\ StreamLength

LEMMA StreamEnd ==
  ASSUME StreamLength
  PROVE  Cardinality(DOMAIN stream) \in Nat
  <1>1. PICK l \in Nat : DOMAIN stream = 0 .. l - 1
    BY DEF StreamLength
  <1>2. IsFiniteSet(0 .. l - 1)
    BY FS_Interval
  <1> QED
    BY <1>1, <1>2, FS_CardinalityType

LEMMA InitTypes == Init => TypeInv
  <1> SUFFICES ASSUME Init PROVE TypeInv
    OBVIOUS
  <1> USE DEF Init
  <1>1. kbuf \in [KBytes -> Nat \cup {None}]
    BY DEF NoKbuf, KBytes
  <1>2. pad \in [PadBytes -> Nat \cup {Blank}]
    BY DEF NoPad, PadBytes
  <1>3. fed \in [0 .. fedLen - 1 -> Nat \cup {None, Blank}]
    BY DEF NoBytes
  <1>4. PadFilled
    BY DEF PadFilled
  <1>5. StreamLength
    BY DEF StreamLength, NoBytes
  <1>6. /\ mtype \in 0 .. 3 /\ fedLen \in Nat /\ pad_size \in 0 .. Block
        /\ size \in Nat /\ buf \in Nat /\ p \in 0 .. Block /\ given \in Nat
        /\ ctype \in 0 .. 2 /\ seed \in Nat /\ csize \in Nat /\ at \in Nat
    BY Sizes
  <1>7. live \in BOOLEAN /\ swallowed \in BOOLEAN
    OBVIOUS
  <1>8. pc \in {"idle", "mac", "cipher"}
    OBVIOUS
  <1> QED
    BY ONLY <1>1, <1>2, <1>3, <1>4, <1>5, <1>6, <1>7, <1>8 DEF TypeInv, TypeOK

LEMMA MacStepTypes ==
  ASSUME TypeInv, MacNext PROVE TypeInv'
  <1> USE DEF TypeInv
  <1>0. StreamLength'
    BY DEF StreamLength, MacNext, BBMacInit, UpdatePad, UpdateBlocks, UpdateChunk, UpdateDone,
           BBMacFinal, BBMacFinal2, BBMacFails, BBMacGetkey, cipherVars
  <1>1. ASSUME NEW t \in MacTypes, BBMacInit(t) PROVE TypeInv'
    <2>1. pad' \in [PadBytes -> Nat \cup {Blank}]
      BY <1>1 DEF BBMacInit, NoPad, PadBytes
    <2>2. fed' \in [0 .. fedLen' - 1 -> Nat \cup {None, Blank}]
      BY <1>1 DEF BBMacInit, NoBytes
    <2>3. t \in 0 .. 3
      BY AmctrlConstants
    <2>4. PadFilled'
      BY <1>1 DEF BBMacInit, PadFilled
    <2>5. fedLen' \in Nat /\ pad_size' \in 0 .. Block /\ given' \in Nat
      BY <1>1, Sizes DEF BBMacInit
    <2>6. live' \in BOOLEAN /\ swallowed' \in BOOLEAN /\ mtype' = t
      BY <1>1 DEF BBMacInit
    <2>7. UNCHANGED <<pc, kbuf, updateVars, cipherVars>>
      BY <1>1 DEF BBMacInit
    <2> QED
      BY <1>0, <2>1, <2>2, <2>3, <2>4, <2>5, <2>6, <2>7 DEF TypeOK, cipherVars, updateVars
  <1>2. ASSUME NEW n \in Pieces, UpdatePad(n) PROVE TypeInv'
    <2>1. n \in Nat
      BY AmctrlConstants
    <2>2. given' \in Nat /\ swallowed' \in BOOLEAN
      BY <1>2, <2>1 DEF UpdatePad, Giving, TypeOK
    <2>3. pad_size' \in 0 .. Block
      BY <1>2, <2>1, Sizes DEF UpdatePad, TypeOK
    <2>4. ASSUME NEW b \in PadBytes
          PROVE  /\ pad'[b] \in Nat \cup {Blank}
                 /\ b < pad_size' => pad'[b] \in Nat
      <3>1. b \in pad_size .. pad_size + n - 1 => given + b - pad_size \in Nat
        BY <2>1 DEF TypeOK, PadBytes
      <3>2. pad[b] \in Nat \cup {Blank} /\ (b < pad_size => pad[b] \in Nat)
        BY DEF TypeOK, PadBytes, PadFilled
      <3>3. pad'[b] = IF b \in pad_size .. pad_size + n - 1 THEN given + b - pad_size ELSE pad[b]
        BY <1>2 DEF UpdatePad
      <3>4. b < pad_size' => b < pad_size \/ b \in pad_size .. pad_size + n - 1
        BY <1>2, <2>1 DEF UpdatePad, TypeOK, PadBytes
      <3> QED
        BY <3>1, <3>2, <3>3, <3>4
    <2>5. pad' \in [PadBytes -> Nat \cup {Blank}]
      BY <1>2, <2>4 DEF UpdatePad
    <2>6. PadFilled'
      <3>1. PICK k \in 0 .. Block : k = pad_size'
        BY <2>3
      <3> SUFFICES ASSUME NEW b \in 0 .. k - 1 PROVE pad'[b] \in Nat
        BY <3>1 DEF PadFilled
      <3>2. b \in PadBytes /\ b < k
        BY Sizes DEF PadBytes
      <3> QED
        BY <2>4, <3>1, <3>2
    <2> QED
      BY <1>0, <1>2, <2>2, <2>3, <2>5, <2>6 DEF TypeOK, UpdatePad, cipherVars, updateVars
  <1>3. ASSUME NEW n \in Pieces, UpdateBlocks(n) PROVE TypeInv'
    <2> DEFINE rest == Rest(pad_size + n)
    <2>1. n \in Nat
      BY AmctrlConstants
    <2>2. given' \in Nat /\ swallowed' \in BOOLEAN /\ given' = given + n
      BY <1>3, <2>1 DEF UpdateBlocks, Giving, TypeOK
    <2>3. rest \in 1 .. Block /\ n - rest \in Nat
      BY <1>3, <2>1, RestOfPiece DEF UpdateBlocks, TypeOK
    <2>4. pad_size' = rest /\ size' = n - rest /\ p' = pad_size /\ buf' = given
          /\ pad' = [b \in PadBytes |-> IF b < rest THEN given + n - rest + b ELSE pad[b]]
          /\ kbuf' = [b \in KBytes |-> IF b < pad_size THEN pad[b] ELSE None]
      BY <1>3 DEF UpdateBlocks
    <2> HIDE DEF rest
    <2>5. ASSUME NEW b \in PadBytes
          PROVE  /\ pad'[b] \in Nat \cup {Blank}
                 /\ b < rest => pad'[b] \in Nat
      <3>1. given + n - rest + b \in Nat
        BY <2>1, <2>3 DEF TypeOK, PadBytes
      <3>2. pad[b] \in Nat \cup {Blank}
        BY DEF TypeOK
      <3>3. pad'[b] = IF b < rest THEN given + n - rest + b ELSE pad[b]
        BY <2>4
      <3> QED
        BY <3>1, <3>2, <3>3
    <2>6. pad' \in [PadBytes -> Nat \cup {Blank}]
      BY <2>4, <2>5
    <2>7. PadFilled'
      BY <2>3, <2>4, <2>5, Sizes DEF PadFilled, PadBytes
    <2>8. ASSUME NEW b \in KBytes PROVE kbuf'[b] \in Nat \cup {None}
      <3>1. b < pad_size => pad[b] \in Nat
        BY DEF PadFilled, TypeOK, KBytes
      <3>2. kbuf'[b] = IF b < pad_size THEN pad[b] ELSE None
        BY <2>4
      <3> QED
        BY <3>1, <3>2
    <2>9. kbuf' \in [KBytes -> Nat \cup {None}]
      BY <2>4, <2>8
    <2> QED
      BY <1>0, <1>3, <2>2, <2>3, <2>4, <2>6, <2>7, <2>9, Sizes DEF TypeOK, UpdateBlocks, cipherVars
  <1>4. ASSUME UpdateChunk PROVE TypeInv'
    <2>1. ksize \in Nat /\ ksize - p \in Nat /\ size - (ksize - p) \in Nat /\ ksize <= Chunk
      BY ChunkSize DEF TypeOK
    <2>2. PICK k \in Nat : k = fedLen + ksize
      BY <2>1 DEF TypeOK
    <2>8. /\ fedLen' = k
          /\ fed' = [b \in 0 .. k - 1 |-> IF b < fedLen THEN fed[b] ELSE Filled(b - fedLen)]
      <3>1. fed' = [b \in 0 .. fedLen + ksize - 1 |->
                      IF b < fedLen THEN fed[b] ELSE Filled(b - fedLen)]
        BY <1>4 DEF UpdateChunk
      <3>2. fed' = [b \in 0 .. k - 1 |-> IF b < fedLen THEN fed[b] ELSE Filled(b - fedLen)]
        <4>1. 0 .. fedLen + ksize - 1 = 0 .. k - 1
          BY <2>1, <2>2 DEF TypeOK
        <4> QED
          BY <3>1, <4>1, Zenon
      <3>3. fedLen' = k
        BY <1>4, <2>2 DEF UpdateChunk
      <3> QED
        BY <3>2, <3>3
    <2>3. ASSUME NEW b \in 0 .. k - 1
          PROVE  fed'[b] \in Nat \cup {None, Blank}
      <3>1. fed'[b] = IF b < fedLen THEN fed[b] ELSE Filled(b - fedLen)
        BY <2>8
      <3>2. CASE b < fedLen
        BY <3>1, <3>2 DEF TypeOK
      <3>3. CASE b >= fedLen
        <4>1. b - fedLen \in Nat /\ b - fedLen < ksize
          BY <2>1, <2>2, <3>3 DEF TypeOK
        <4>2. b - fedLen < p => kbuf[b - fedLen] \in Nat \cup {None}
          BY <2>1, <4>1, Sizes DEF TypeOK, KBytes
        <4>3. b - fedLen >= p => buf + (b - fedLen) - p \in Nat
          BY <4>1 DEF TypeOK
        <4>4. p \in Nat
          BY Sizes DEF TypeOK
        <4>5. fed'[b] = Filled(b - fedLen)
          BY <3>1, <3>3, <2>1 DEF TypeOK
        <4> QED
          BY <4>1, <4>2, <4>3, <4>4, <4>5 DEF Filled
      <3> QED
        BY <3>2, <3>3, <2>1 DEF TypeOK
    <2>4. fed' \in [0 .. fedLen' - 1 -> Nat \cup {None, Blank}]
      <3>1. fed' \in [0 .. k - 1 -> Nat \cup {None, Blank}]
        BY <2>3, <2>8
      <3> QED
        BY <2>8, <3>1
    <2>5. kbuf' \in [KBytes -> Nat \cup {None}]
      BY <1>4 DEF UpdateChunk, NoKbuf, KBytes
    <2>6. PadFilled'
      BY <1>4 DEF UpdateChunk, PadFilled
    <2>7. size' \in Nat /\ buf' \in Nat /\ p' \in 0 .. Block
      BY <1>4, <2>1, Sizes DEF UpdateChunk, TypeOK
    <2> QED
      BY <1>0, <1>4, <2>8, <2>4, <2>5, <2>6, <2>7 DEF TypeOK, UpdateChunk, cipherVars, givenVars
  <1>5. ASSUME UpdateDone PROVE TypeInv'
    <2>1. kbuf' \in [KBytes -> Nat \cup {None}]
      BY <1>5 DEF UpdateDone, NoKbuf, KBytes
    <2>2. PadFilled'
      BY <1>5 DEF UpdateDone, PadFilled, objectVars
    <2> QED
      BY <1>0, <1>5, <2>1, <2>2, Sizes
      DEF TypeOK, UpdateDone, cipherVars, givenVars, objectVars
  <1>6. ASSUME Cleared,
               UNCHANGED <<pc, kbuf, live, updateVars, cipherVars>>
        PROVE  TypeInv'
    <2>1. pad' \in [PadBytes -> Nat \cup {Blank}]
      BY <1>6 DEF Cleared, NoPad, PadBytes
    <2>2. fed' \in [0 .. fedLen' - 1 -> Nat \cup {None, Blank}]
      BY <1>6 DEF Cleared, NoBytes
    <2>3. PadFilled'
      BY <1>6 DEF Cleared, PadFilled
    <2>4. fedLen' \in Nat /\ pad_size' \in 0 .. Block /\ mtype' \in 0 .. 3 /\ given' \in Nat
      BY <1>6, Sizes DEF Cleared
    <2>5. swallowed' \in BOOLEAN
      BY <1>6 DEF Cleared
    <2> QED
      BY <1>0, <1>6, <2>1, <2>2, <2>3, <2>4, <2>5 DEF TypeOK, cipherVars, updateVars
  <1>7. ASSUME NEW vkey \in VersionKeys \cup {NoKey}, BBMacFinal(vkey) \/ BBMacFinal2(vkey)
        PROVE  TypeInv'
    BY <1>6, <1>7 DEF BBMacFinal, BBMacFinal2
  <1>8. ASSUME BBMacGetkey PROVE TypeInv'
    BY <1>6, <1>8 DEF BBMacGetkey
  <1>9. ASSUME BBMacFails PROVE TypeInv'
    <2>1. PadFilled'
      BY <1>9 DEF BBMacFails, PadFilled
    <2> QED
      BY <1>0, <1>9, <2>1 DEF TypeOK, BBMacFails, cipherVars, updateVars, givenVars
  <1> QED
    BY <1>1, <1>2, <1>3, <1>4, <1>5, <1>7, <1>8, <1>9 DEF MacNext

LEMMA CipherStepTypes ==
  ASSUME TypeInv, CipherNext PROVE TypeInv'
  <1> USE DEF TypeInv
  <1> USE DEF macVars, objectVars, updateVars, givenVars
  <1>0. UNCHANGED macVars
    BY DEF CipherNext, BBCipherInit, BBCipherInitNew, CipherReset, BBCipherUpdate, CipherChunk,
           CipherDone, BBCipherFinal
  <1>1. PadFilled'
    BY <1>0 DEF PadFilled
  <1>2. ASSUME NEW t \in {1, 2}, NEW s \in Nat, NEW header, NEW vkey,
               CipherReset(t, s, header, vkey)
        PROVE  TypeInv'
    <2>1. StreamLength'
      BY <1>2 DEF CipherReset, StreamLength, NoBytes
    <2> QED
      BY <1>1, <1>2, <2>1 DEF TypeOK, CipherReset
  <1>3. ASSUME NEW n \in Pieces, BBCipherUpdate(n) PROVE TypeInv'
    <2>1. Cardinality(DOMAIN stream) \in Nat /\ n \in Nat
      BY StreamEnd, AmctrlConstants
    <2>2. StreamLength'
      BY <1>3 DEF BBCipherUpdate, StreamLength
    <2> QED
      BY <1>1, <1>3, <2>1, <2>2 DEF TypeOK, BBCipherUpdate
  <1>4. ASSUME CipherChunk PROVE TypeInv'
    <2>1. dsize \in Nat /\ dsize <= csize
      BY Sizes DEF dsize, TypeOK
    <2>2. (dsize + Block - 1) \div Block \in Nat
      BY <2>1, DivMod, Sizes
    <2>3. at + dsize \in Nat /\ DOMAIN stream' = 0 .. (at + dsize) - 1
      BY <1>4, <2>1 DEF CipherChunk, TypeOK
    <2>4. StreamLength'
      BY <2>3 DEF StreamLength
    <2>5. kbuf' \in [KBytes -> Nat \cup {None}]
      BY <1>4 DEF CipherChunk, NoKbuf, KBytes
    <2>6. seed' \in Nat /\ csize' \in Nat /\ at' \in Nat
      BY <1>4, <2>1, <2>2 DEF CipherChunk, TypeOK
    <2> QED
      BY <1>1, <1>4, <2>4, <2>5, <2>6 DEF TypeOK, CipherChunk
  <1>5. ASSUME CipherDone PROVE TypeInv'
    <2>1. StreamLength'
      BY <1>5 DEF CipherDone, StreamLength
    <2> QED
      BY <1>1, <1>5, <2>1 DEF TypeOK, CipherDone
  <1>6. ASSUME BBCipherFinal PROVE TypeInv'
    <2>1. StreamLength'
      BY <1>6 DEF BBCipherFinal, StreamLength, NoBytes
    <2> QED
      BY <1>1, <1>6, <2>1 DEF TypeOK, BBCipherFinal
  <1>7. 0 \in Nat /\ Seeds \subseteq Nat
    BY AmctrlConstants
  <1> QED
    BY <1>2, <1>3, <1>4, <1>5, <1>6, <1>7 DEF CipherNext, BBCipherInit, BBCipherInitNew

LEMMA StutterTypes ==
  ASSUME TypeInv, UNCHANGED vars PROVE TypeInv'
  BY DEF TypeInv, TypeOK, PadFilled, StreamLength, vars, macVars, cipherVars, objectVars,
         updateVars, givenVars

(***************************************************************************)
(* The sizes the loops of amctrl.c keep never go below zero, and the pad   *)
(* has at most a block.                                                    *)
(***************************************************************************)
THEOREM TypeCorrect == Spec => []TypeOK
  <1>1. TypeInv /\ [Next]_vars => TypeInv'
    BY MacStepTypes, CipherStepTypes, StutterTypes DEF Next
  <1>2. TypeInv => TypeOK
    BY DEF TypeInv
  <1> QED
    BY InitTypes, <1>1, <1>2, PTL DEF Spec

(***************************************************************************)
(* A MAC depends on the message only.  MacInvariant says where each byte   *)
(* given is; every action keeps it.                                        *)
(***************************************************************************)
LEMMA WholeNone == WholeBlocks(0) /\ WholeBlocks(Block)
  <1>1. 0 = 0 * Block /\ Block = 1 * Block
    BY Sizes
  <1> QED
    BY <1>1, WholeOf, Sizes

(* A MAC_KEY without data.                                                 *)
LEMMA Emptied ==
  ASSUME fedLen' = 0, pad_size' = 0, given' = 0, pc' = "idle"
  PROVE  MacInvariant'
  <1>1. Positions(fed', 0, 0) /\ Positions(pad', 0, 0)
    BY DEF Positions
  <1>2. BetweenCalls'
    BY <1>1 DEF BetweenCalls
  <1>3. WholeBlocks(fedLen') /\ Positions(fed', fedLen', 0)
    BY <1>1, WholeNone
  <1> QED
    BY <1>2, <1>3 DEF MacInvariant

LEMMA PadInvariant ==
  ASSUME TypeInv, MacInvariant, NEW n \in Nat, UpdatePad(n)
  PROVE  MacInvariant'
  <1> SUFFICES ASSUME live', ~swallowed' PROVE MacInvariant'
    BY DEF MacInvariant
  <1>1. live /\ ~swallowed /\ pc = "idle" /\ pc' = "idle"
    BY DEF UpdatePad, Giving
  <1>2. WholeBlocks(fedLen) /\ Positions(fed, fedLen, 0) /\ BetweenCalls
    BY <1>1 DEF MacInvariant
  <1>3. fed' = fed /\ fedLen' = fedLen /\ given' = given + n /\ pad_size' = pad_size + n
    BY DEF UpdatePad, Giving
  <1>4. given' = fedLen' + pad_size' /\ (pad_size' = 0 => given' = 0)
    BY <1>2, <1>3, Sizes DEF BetweenCalls, TypeInv, TypeOK
  <1>5. ASSUME NEW b \in 0 .. pad_size + n - 1 PROVE pad'[b] = fedLen + b
    <2>1. b \in PadBytes
      BY Sizes DEF UpdatePad, PadBytes, TypeInv, TypeOK
    <2>2. pad'[b] = IF b \in pad_size .. pad_size + n - 1 THEN given + b - pad_size ELSE pad[b]
      BY <2>1 DEF UpdatePad
    <2>3. b < pad_size => pad[b] = fedLen + b
      BY <1>2, Sizes DEF BetweenCalls, Positions, TypeInv, TypeOK
    <2> QED
      BY <1>2, <2>2, <2>3, Sizes DEF BetweenCalls, TypeInv, TypeOK
  <1>6. Positions(pad', pad_size', fedLen')
    <2>1. PICK k \in Nat : k = pad_size + n
      BY Sizes DEF TypeInv, TypeOK
    <2>2. 0 .. pad_size + n - 1 = 0 .. k - 1
      BY <2>1, Sizes DEF TypeInv, TypeOK
    <2>3. Positions(pad', k, fedLen)
      BY <1>5, <2>2, Zenon DEF Positions
    <2> QED
      BY <1>3, <2>1, <2>3
  <1> QED
    BY <1>1, <1>2, <1>3, <1>4, <1>6 DEF MacInvariant, BetweenCalls

LEMMA BlocksInvariant ==
  ASSUME TypeInv, MacInvariant, NEW n \in Nat, UpdateBlocks(n)
  PROVE  MacInvariant'
  <1> SUFFICES ASSUME live', ~swallowed' PROVE MacInvariant'
    BY DEF MacInvariant
  <1> DEFINE r == Rest(pad_size + n)
  <1>1. live /\ ~swallowed /\ pc = "idle" /\ pc' = "mac"
    BY DEF UpdateBlocks, Giving
  <1>2. WholeBlocks(fedLen) /\ Positions(fed, fedLen, 0) /\ BetweenCalls
    BY <1>1 DEF MacInvariant
  <1>3. r \in 1 .. Block /\ n - r \in Nat /\ WholeBlocks(pad_size + (n - r))
    BY RestOfPiece DEF UpdateBlocks, TypeInv, TypeOK
  <1>4. /\ fed' = fed /\ fedLen' = fedLen /\ given' = given + n
        /\ p' = pad_size /\ size' = n - r /\ pad_size' = r /\ buf' = given
        /\ pad' = [b \in PadBytes |-> IF b < r THEN given + n - r + b ELSE pad[b]]
        /\ kbuf' = [b \in KBytes |-> IF b < pad_size THEN pad[b] ELSE None]
    BY DEF UpdateBlocks, Giving
  <1> HIDE DEF r
  <1>5. pad_size \in 0 .. Block /\ pad_size \in Nat /\ fedLen \in Nat /\ given = fedLen + pad_size
    BY <1>2, Sizes DEF BetweenCalls, TypeInv, TypeOK
  <1>6. given' = fedLen' + p' + size' + pad_size' /\ pad_size' > 0
    BY <1>3, <1>4, <1>5, Sizes
  <1>7. pad_size > 0 => n - r > 0
    <2> SUFFICES ASSUME pad_size > 0, n - r = 0 PROVE FALSE
      BY <1>3
    <2>1. pad_size = Block
      BY <1>3, <1>5, SmallWhole
    <2>2. WholeBlocks(given) /\ given > 0
      BY <1>2, <1>5, <2>1, WholeSum, WholeNone, Sizes
    <2>3. n \in 1 .. Block
      BY <1>3
    <2> QED
      BY <2>2, <2>3 DEF UpdateBlocks, Giving
  <1>8. WholeBlocks(p' + size') /\ (p' + size' > 0 => size' > 0)
    BY <1>3, <1>4, <1>5, <1>7
  <1>9. Positions(kbuf', p', fedLen')
    <2> SUFFICES ASSUME NEW b \in 0 .. pad_size - 1 PROVE kbuf'[b] = fedLen + b
      BY <1>4 DEF Positions
    <2>1. b \in KBytes
      BY <1>5, ChunkIsWhole, Sizes DEF KBytes
    <2>2. pad[b] = fedLen + b
      BY <1>2 DEF BetweenCalls, Positions
    <2>3. b < pad_size
      BY <1>5
    <2> QED
      BY <1>4, <2>1, <2>2, <2>3
  <1>10. buf' = fedLen' + p'
    BY <1>4, <1>5
  <1>11. Positions(pad', pad_size', fedLen' + p' + size')
    <2>1. fedLen' + p' + size' = fedLen + pad_size + (n - r)
      BY <1>4
    <2> SUFFICES ASSUME NEW b \in 0 .. r - 1 PROVE pad'[b] = fedLen + pad_size + (n - r) + b
      BY <1>4, <2>1 DEF Positions
    <2>2. b \in PadBytes /\ b < r
      BY <1>3, Sizes DEF PadBytes
    <2>3. pad'[b] = given + n - r + b
      BY <1>4, <2>2
    <2> QED
      BY <1>3, <1>5, <2>3, Sizes
  <1>12. InLoop'
    BY <1>6, <1>8, <1>9, <1>10, <1>11 DEF InLoop
  <1> QED
    BY <1>1, <1>2, <1>4, <1>12 DEF MacInvariant

LEMMA ChunkInvariant ==
  ASSUME TypeInv, MacInvariant, UpdateChunk
  PROVE  MacInvariant'
  <1> SUFFICES ASSUME live', ~swallowed' PROVE MacInvariant'
    BY DEF MacInvariant
  <1>1. live /\ ~swallowed /\ pc = "mac" /\ pc' = "mac"
    BY DEF UpdateChunk, givenVars
  <1>2. WholeBlocks(fedLen) /\ Positions(fed, fedLen, 0) /\ InLoop
    BY <1>1 DEF MacInvariant
  <1>3. /\ fedLen \in Nat /\ p \in 0 .. Block /\ p \in Nat /\ size \in Nat /\ buf \in Nat
        /\ pad_size \in Nat /\ given \in Nat
    BY Sizes DEF TypeInv, TypeOK
  <1>4. ksize \in Nat /\ ksize - p \in Nat /\ size - (ksize - p) \in Nat
    BY <1>3, ChunkSize
  <1>5. WholeBlocks(ksize) /\ ksize <= p + size
    <2>1. WholeBlocks(size + p)
      <3>1. p + size = size + p
        BY <1>3
      <3> QED
        BY <1>2, <3>1 DEF InLoop
    <2>2. ksize = Chunk \/ ksize = size + p
      BY DEF ksize
    <2> QED
      BY <1>3, <1>4, <2>1, <2>2, ChunkIsWhole
  <1>6. /\ fedLen' = fedLen + ksize /\ size' = size - (ksize - p) /\ buf' = buf + (ksize - p)
        /\ p' = 0 /\ pad' = pad /\ pad_size' = pad_size /\ given' = given
    BY DEF UpdateChunk, givenVars
  <1>7. WholeBlocks(fedLen')
    BY <1>2, <1>3, <1>4, <1>5, <1>6, WholeSum
  <1>8. Positions(fed', fedLen', 0)
    <2>0. PICK k \in Nat : k = fedLen + ksize
      BY <1>3, <1>4
    <2> SUFFICES Positions(fed', k, 0)
      BY <1>6, <2>0
    <2> SUFFICES ASSUME NEW b \in 0 .. k - 1 PROVE fed'[b] = 0 + b
      BY DEF Positions
    <2>1. fed'[b] = IF b < fedLen THEN fed[b] ELSE Filled(b - fedLen)
      <3>1. b \in 0 .. fedLen + ksize - 1
        BY <1>3, <1>4, <2>0
      <3> QED
        BY <3>1 DEF UpdateChunk
    <2>2. CASE b < fedLen
      <3>1. fed[b] = 0 + b
        BY <1>2, <1>3, <2>2 DEF Positions
      <3> QED
        BY <2>1, <2>2, <3>1
    <2>3. CASE b >= fedLen
      <3>1. b - fedLen \in Nat
        BY <1>3, <2>3
      <3>2. b - fedLen < p => kbuf[b - fedLen] = fedLen + (b - fedLen)
        BY <1>2, <1>3, <3>1 DEF InLoop, Positions
      <3>3. buf = fedLen + p
        BY <1>2 DEF InLoop
      <3>4. fed'[b] = Filled(b - fedLen)
        BY <1>3, <2>1, <2>3
      <3>5. Filled(b - fedLen) = IF b - fedLen < p THEN kbuf[b - fedLen] ELSE buf + (b - fedLen) - p
        BY DEF Filled
      <3> QED
        BY <1>3, <1>4, <3>1, <3>2, <3>3, <3>4, <3>5
    <2> QED
      BY <1>3, <2>2, <2>3
  <1>9. given' = fedLen' + p' + size' + pad_size' /\ pad_size' > 0
    BY <1>2, <1>3, <1>4, <1>6 DEF InLoop
  <1>10. p' + size' = p + size - ksize /\ p' + size' = size'
    BY <1>3, <1>4, <1>6
  <1>11. WholeBlocks(p' + size')
    <2>1. WholeBlocks(p + size)
      BY <1>2 DEF InLoop
    <2>2. WholeBlocks(p + size - ksize)
      BY <1>3, <1>4, <1>5, <2>1, WholeDifference
    <2> QED
      BY <1>10, <2>2
  <1>12. Positions(kbuf', p', fedLen')
    BY <1>6 DEF Positions
  <1>13. buf' = fedLen' + p'
    BY <1>2, <1>3, <1>4, <1>6 DEF InLoop
  <1>14. Positions(pad', pad_size', fedLen' + p' + size')
    <2>1. fedLen' + p' + size' = fedLen + p + size
      BY <1>3, <1>4, <1>6
    <2> QED
      BY <1>2, <1>6, <2>1 DEF InLoop
  <1>15. InLoop'
    BY <1>9, <1>10, <1>11, <1>12, <1>13, <1>14 DEF InLoop
  <1> QED
    BY <1>1, <1>7, <1>8, <1>15 DEF MacInvariant

LEMMA DoneInvariant ==
  ASSUME TypeInv, MacInvariant, UpdateDone
  PROVE  MacInvariant'
  <1> SUFFICES ASSUME live', ~swallowed' PROVE MacInvariant'
    BY DEF MacInvariant
  <1>1. /\ live /\ ~swallowed /\ pc = "mac" /\ pc' = "idle"
        /\ UNCHANGED <<fed, fedLen, pad, pad_size, given>>
    BY DEF UpdateDone, objectVars, givenVars
  <1>2. WholeBlocks(fedLen) /\ Positions(fed, fedLen, 0) /\ InLoop
    BY <1>1 DEF MacInvariant
  <1>3. size = 0 /\ p \in Nat /\ fedLen \in Nat /\ pad_size \in Nat
    BY Sizes DEF UpdateDone, TypeInv, TypeOK
  <1>4. p = 0
    BY <1>2, <1>3 DEF InLoop
  <1>5. given = fedLen + pad_size /\ pad_size # 0 /\ fedLen + p + size = fedLen
    BY <1>2, <1>3, <1>4 DEF InLoop
  <1>6. Positions(pad, pad_size, fedLen)
    BY <1>2, <1>5 DEF InLoop
  <1>7. BetweenCalls'
    BY <1>1, <1>5, <1>6 DEF BetweenCalls
  <1> QED
    BY <1>1, <1>2, <1>7 DEF MacInvariant

(* The MAC of the first n bytes whose last block begins at s.              *)
MessageMac(t, s, n, vkey) ==
  MacOf(t, [b \in 0 .. s - 1 |-> b], s, LastBlock(s, n), n - s = Block, vkey)

(* What sceDrmBBMacFinal computes is the MAC of the message.               *)
LEMMA ResultOfMessage ==
  ASSUME TypeInv, MacInvariant, live, ~swallowed, pc = "idle"
  PROVE  \E s \in 0 .. given : /\ EndsAt(s, given)
                               /\ \A vkey : Result(vkey) = MessageMac(mtype, s, given, vkey)
  <1>1. WholeBlocks(fedLen) /\ Positions(fed, fedLen, 0) /\ BetweenCalls
    BY DEF MacInvariant
  <1>2. fedLen \in Nat /\ pad_size \in 0 .. Block /\ pad_size \in Nat /\ given = fedLen + pad_size
    BY <1>1, Sizes DEF BetweenCalls, TypeInv, TypeOK
  <1>3. EndsAt(fedLen, given)
    BY <1>1, <1>2, Sizes DEF EndsAt, BetweenCalls
  <1>4. fed = [b \in 0 .. fedLen - 1 |-> b]
    <2>1. fed \in [0 .. fedLen - 1 -> Nat \cup {None, Blank}]
      BY DEF TypeInv, TypeOK
    <2>2. ASSUME NEW b \in 0 .. fedLen - 1 PROVE fed[b] = b
      <3>1. fed[b] = 0 + b
        BY <1>1 DEF Positions
      <3> QED
        BY <3>1
    <2> QED
      BY <2>1, <2>2
  <1>5. Padded = LastBlock(fedLen, given)
    <2>1. ASSUME NEW b \in PadBytes
          PROVE  (IF b < pad_size THEN pad[b] ELSE IF b = pad_size THEN Mark ELSE Blank)
                   = (IF fedLen + b < given THEN fedLen + b
                      ELSE IF fedLen + b = given THEN Mark ELSE Blank)
      <3>1. b \in Nat
        BY DEF PadBytes
      <3>2. b < pad_size => pad[b] = fedLen + b
        BY <1>1, <1>2, <3>1 DEF BetweenCalls, Positions
      <3>3. (fedLen + b < given <=> b < pad_size) /\ (fedLen + b = given <=> b = pad_size)
        BY <1>2, <3>1
      <3> QED
        BY <3>2, <3>3
    <2> QED
      BY <2>1 DEF Padded, LastBlock
  <1>6. pad_size = Block <=> given - fedLen = Block
    BY <1>2, Sizes
  <1>7. ASSUME NEW vkey PROVE Result(vkey) = MessageMac(mtype, fedLen, given, vkey)
    <2>1. (pad_size = Block) = (given - fedLen = Block)
      BY <1>6, Zenon
    <2> QED
      BY <1>4, <1>5, <2>1, Zenon DEF Result, MessageMac
  <1>8. fedLen \in 0 .. given
    BY <1>2
  <1> QED
    BY <1>3, <1>7, <1>8

(* What BBMacFinal makes is the MAC of the message.                        *)
LEMMA FinalMac ==
  ASSUME TypeInv, MacInvariant, live, ~swallowed, pc = "idle", NEW vkey
  PROVE  MacOfMessage(mtype, given, vkey, BuildFinal2(mtype, Result(vkey)))
  BY ResultOfMessage, Zenon DEF MacOfMessage, MessageMac

MacInductive == TypeInv /\ MacInvariant /\ MacIgnoresPieces

LEMMA InitMac == Init => MacInductive
  <1> SUFFICES ASSUME Init PROVE MacInductive
    OBVIOUS
  <1>1. TypeInv
    BY InitTypes
  <1>2. MacInvariant
    BY DEF Init, MacInvariant
  <1>3. MacIgnoresPieces
    BY DEF Init, NoMac, MacIgnoresPieces
  <1> QED
    BY <1>1, <1>2, <1>3 DEF MacInductive

LEMMA SameMade ==
  ASSUME MacIgnoresPieces, made' = made PROVE MacIgnoresPieces'
  BY Zenon DEF MacIgnoresPieces

LEMMA MacStep ==
  ASSUME MacInductive, MacNext
  PROVE  MacInvariant' /\ MacIgnoresPieces'
  <1> USE DEF MacInductive
  <1>1. ASSUME NEW t \in MacTypes, BBMacInit(t) PROVE MacInvariant' /\ MacIgnoresPieces'
    BY <1>1, Emptied, SameMade DEF BBMacInit
  <1>2. ASSUME NEW n \in Pieces, UpdatePad(n) PROVE MacInvariant' /\ MacIgnoresPieces'
    <2>1. n \in Nat /\ made' = made
      BY <1>2, AmctrlConstants DEF UpdatePad
    <2> QED
      BY <1>2, <2>1, PadInvariant, SameMade
  <1>3. ASSUME NEW n \in Pieces, UpdateBlocks(n) PROVE MacInvariant' /\ MacIgnoresPieces'
    <2>1. n \in Nat /\ made' = made
      BY <1>3, AmctrlConstants DEF UpdateBlocks
    <2> QED
      BY <1>3, <2>1, BlocksInvariant, SameMade
  <1>4. ASSUME UpdateChunk PROVE MacInvariant' /\ MacIgnoresPieces'
    <2>1. made' = made
      BY <1>4 DEF UpdateChunk
    <2> QED
      BY <1>4, <2>1, ChunkInvariant, SameMade
  <1>5. ASSUME UpdateDone PROVE MacInvariant' /\ MacIgnoresPieces'
    <2>1. made' = made
      BY <1>5 DEF UpdateDone
    <2> QED
      BY <1>5, <2>1, DoneInvariant, SameMade
  <1>6. ASSUME NEW vkey, BBMacFinal(vkey) PROVE MacInvariant' /\ MacIgnoresPieces'
    <2>1. MacInvariant'
      BY <1>6, Emptied DEF BBMacFinal, Cleared
    <2>2. live /\ pc = "idle" /\ made' = [mac |-> BuildFinal2(mtype, Result(vkey)),
            type |-> mtype, length |-> given, key |-> vkey, good |-> ~swallowed]
      BY <1>6 DEF BBMacFinal
    <2>3. ~swallowed => MacOfMessage(mtype, given, vkey, BuildFinal2(mtype, Result(vkey)))
      BY <2>2, FinalMac
    <2>4. /\ made'.mac = BuildFinal2(mtype, Result(vkey)) /\ made'.type = mtype
          /\ made'.length = given /\ made'.key = vkey /\ made'.good = ~swallowed
      BY <2>2
    <2>5. made'.good => MacOfMessage(made'.type, made'.length, made'.key, made'.mac)
      BY <2>3, <2>4, Zenon
    <2> QED
      BY <2>1, <2>5, Zenon DEF MacIgnoresPieces
  <1>7. ASSUME NEW vkey, BBMacFinal2(vkey) PROVE MacInvariant' /\ MacIgnoresPieces'
    BY <1>7, Emptied, SameMade DEF BBMacFinal2, Cleared
  <1>8. ASSUME BBMacGetkey PROVE MacInvariant' /\ MacIgnoresPieces'
    BY <1>8, Emptied, SameMade DEF BBMacGetkey, Cleared
  <1>9. ASSUME BBMacFails PROVE MacInvariant' /\ MacIgnoresPieces'
    <2>1. made' = made /\ ~live'
      BY <1>9 DEF BBMacFails
    <2> QED
      BY <2>1, SameMade DEF MacInvariant
  <1> QED
    BY <1>1, <1>2, <1>3, <1>4, <1>5, <1>6, <1>7, <1>8, <1>9 DEF MacNext

(* The cipher leaves a MAC alone, and fills the buffer only outside its    *)
(* loop.                                                                   *)
LEMMA OtherStep ==
  ASSUME MacInductive, UNCHANGED macVars, (pc' = pc /\ kbuf' = kbuf) \/ (pc # "mac" /\ pc' # "mac")
  PROVE  MacInvariant' /\ MacIgnoresPieces'
  <1> USE DEF macVars, objectVars, updateVars, givenVars
  <1>1. MacIgnoresPieces'
    BY SameMade DEF MacInductive
  <1>2. UNCHANGED <<live, fed, fedLen, pad, pad_size, size, buf, p, given, swallowed>>
    OBVIOUS
  <1>3. BetweenCalls' <=> BetweenCalls
    BY <1>2 DEF BetweenCalls
  <1>4. CASE pc' = pc /\ kbuf' = kbuf
    <2>1. InLoop' <=> InLoop
      BY <1>2, <1>4 DEF InLoop
    <2> QED
      BY <1>1, <1>2, <1>3, <1>4, <2>1 DEF MacInvariant, MacInductive
  <1>5. CASE pc # "mac" /\ pc' # "mac"
    BY <1>1, <1>2, <1>3, <1>5 DEF MacInvariant, MacInductive
  <1> QED
    BY <1>4, <1>5

LEMMA CipherStep ==
  ASSUME CipherNext PROVE UNCHANGED macVars /\ pc # "mac" /\ pc' # "mac"
  BY DEF CipherNext, BBCipherInit, BBCipherInitNew, CipherReset, BBCipherUpdate, CipherChunk,
         CipherDone, BBCipherFinal

LEMMA MacInduction == MacInductive /\ [Next]_vars => MacInductive'
  <1> SUFFICES ASSUME MacInductive, [Next]_vars PROVE MacInductive'
    OBVIOUS
  <1>1. TypeInv'
    BY MacStepTypes, CipherStepTypes, StutterTypes DEF Next, MacInductive
  <1>2. MacInvariant' /\ MacIgnoresPieces'
    <2>1. CASE MacNext
      BY <2>1, MacStep
    <2>2. CASE CipherNext
      BY <2>2, CipherStep, OtherStep
    <2>3. CASE UNCHANGED vars
      <3>1. UNCHANGED macVars
        BY <2>3 DEF vars
      <3>2. pc' = pc
        BY <2>3 DEF vars
      <3>3. kbuf' = kbuf
        BY <2>3 DEF vars
      <3>4. (pc' = pc /\ kbuf' = kbuf) \/ (pc # "mac" /\ pc' # "mac")
        BY <3>2, <3>3
      <3> QED
        BY <3>1, <3>4, OtherStep
    <2> QED
      BY <2>1, <2>2, <2>3 DEF Next
  <1> QED
    BY <1>1, <1>2 DEF MacInductive

(***************************************************************************)
(* sceDrmBBMacUpdate always has each byte given to it in exactly one of    *)
(* the chain, the buffer and the pad, in its place.                        *)
(***************************************************************************)
THEOREM EveryByteHasItsPlace == Spec => []MacInvariant
  <1>1. MacInductive => MacInvariant
    BY DEF MacInductive
  <1> QED
    BY InitMac, MacInduction, <1>1, PTL DEF Spec

(***************************************************************************)
(* A MAC that sceDrmBBMacFinal makes is the MAC of the message, however it *)
(* was given in pieces, unless one of them was swallowed: given after      *)
(* whole blocks and no longer than one, with the pad before it forgotten.  *)
(***************************************************************************)
THEOREM MacOfThePieces == Spec => []MacIgnoresPieces
  <1>1. MacInductive => MacIgnoresPieces
    BY DEF MacInductive
  <1> QED
    BY InitMac, MacInduction, <1>1, PTL DEF Spec

(***************************************************************************)
(* The cipher.  While only whole blocks were given, the counter is the     *)
(* number of blocks so far, after the seed; a chunk that is not whole is   *)
(* the last of its piece.                                                  *)
(***************************************************************************)
Counter(l) == \E m \in Nat : l = m * Block /\ seed = start + m + 1

StreamAt(l) ==
  /\ DOMAIN stream = 0 .. l - 1
  /\ pc = "cipher" => at = l
  /\ pc = "cipher" /\ even /\ csize > 0 => WholeBlocks(l)
  /\ even /\ WholeBlocks(l) => Counter(l)

CipherInvariant ==
  /\ start \in Nat
  /\ pc = "cipher" => ckey # None
  /\ ckey # None => \E l \in Nat : StreamAt(l)

CipherInductive == TypeInv /\ CipherInvariant /\ KeystreamByPosition

LEMMA DivUnique ==
  ASSUME NEW q \in Nat, NEW r \in 0 .. Block - 1, NEW n \in Nat, n = q * Block + r
  PROVE  n \div Block = q /\ n % Block = r
  <1> DEFINE d == n \div Block
             e == n % Block
  <1>1. d \in Nat /\ e \in 0 .. Block - 1 /\ n = d * Block + e
    BY DivMod, Sizes
  <1> HIDE DEF d, e
  <1>2. d <= q
    <2> SUFFICES ASSUME d >= q + 1 PROVE FALSE
      BY <1>1
    <2>1. (d - q - 1) * Block >= 0
      BY <1>1, Sizes
    <2> QED
      BY <1>1, <2>1, Sizes
  <1>3. q <= d
    <2> SUFFICES ASSUME q >= d + 1 PROVE FALSE
      BY <1>1
    <2>1. (q - d - 1) * Block >= 0
      BY <1>1, Sizes
    <2> QED
      BY <1>1, <2>1, Sizes
  <1>4. d = q /\ e = r
    BY <1>1, <1>2, <1>3, Sizes
  <1> QED
    BY <1>4 DEF d, e

(* The keystream byte of a chunk that starts at block m of the stream.     *)
LEMMA ByteOfChunk ==
  ASSUME NEW m \in Nat, NEW b \in Nat, start \in Nat, seed \in Nat, seed = start + m + 1
  PROVE  LET j == start * Block + (m * Block + b)
         IN  KeyByte(b) = [key |-> ckey, counter |-> j \div Block + 1, before |-> j \div Block,
                           byte |-> j % Block]
  <1> DEFINE q == b \div Block
             r == b % Block
             j == start * Block + (m * Block + b)
  <1>1. q \in Nat /\ r \in 0 .. Block - 1 /\ b = q * Block + r
    BY DivMod, Sizes
  <1>2. b < Block => q = 0
    <2> HAVE b < Block
    <2>1. b = 0 * Block + b /\ b \in 0 .. Block - 1
      BY Sizes
    <2> QED
      BY <2>1, DivUnique
  <1> HIDE DEF q, r
  <1>3. j \in Nat /\ start + m + q \in Nat /\ j = (start + m + q) * Block + r
    BY <1>1, Sizes
  <1>4. j \div Block = start + m + q /\ j % Block = r
    BY <1>1, <1>3, DivUnique
  <1> HIDE DEF j
  <1>5. tmp1 = seed - 1
    BY DEF tmp1, NoCounter
  <1>6. (IF b < Block THEN tmp1 ELSE seed + q - 1) = j \div Block
    BY <1>1, <1>2, <1>4, <1>5
  <1>7. seed + q = j \div Block + 1
    BY <1>1, <1>4
  <1>8. KeyByte(b) = [key |-> ckey, counter |-> seed + q,
                      before |-> IF b < Block THEN tmp1 ELSE seed + q - 1, byte |-> r]
    BY Zenon DEF KeyByte, q, r
  <1>9. KeyByte(b) = [key |-> ckey, counter |-> j \div Block + 1, before |-> j \div Block,
                      byte |-> j % Block]
    BY <1>4, <1>6, <1>7, <1>8
  <1> QED
    BY <1>9 DEF j

LEMMA StreamLengthIs ==
  ASSUME NEW l \in Nat, DOMAIN stream = 0 .. l - 1
  PROVE  Cardinality(DOMAIN stream) = l
  <1>1. Cardinality(0 .. l - 1) = IF 0 > l - 1 THEN 0 ELSE l - 1 - 0 + 1
    BY FS_Interval
  <1> QED
    BY <1>1

LEMMA ChunkOfStream ==
  ASSUME CipherInductive, CipherChunk
  PROVE  CipherInvariant' /\ KeystreamByPosition'
  <1>1. /\ pc = "cipher" /\ pc' = pc /\ ckey' = ckey /\ start' = start /\ even' = even
        /\ csize > 0 /\ csize' = csize - dsize /\ at' = at + dsize
        /\ seed' = seed + (dsize + Block - 1) \div Block
        /\ stream' = [b \in 0 .. at + dsize - 1 |-> IF b < at THEN stream[b] ELSE KeyByte(b - at)]
    BY DEF CipherChunk
  <1>2. /\ start \in Nat /\ seed \in Nat /\ csize \in Nat /\ at \in Nat /\ ckey # None
        /\ dsize \in Nat /\ dsize <= csize /\ (dsize = Chunk \/ dsize = csize)
    BY <1>1, Sizes DEF CipherInductive, CipherInvariant, TypeInv, TypeOK, dsize
  <1>3. PICK l \in Nat : StreamAt(l)
    BY <1>2 DEF CipherInductive, CipherInvariant
  <1>4. l = at /\ DOMAIN stream = 0 .. at - 1
    BY <1>1, <1>3 DEF StreamAt
  <1>5. ASSUME even
        PROVE  \E m \in Nat : at = m * Block /\ seed = start + m + 1
    BY <1>1, <1>2, <1>3, <1>4, <1>5 DEF StreamAt, Counter
  <1>6. PICK t \in Nat : t = at + dsize
    BY <1>2
  <1>7. 0 .. at + dsize - 1 = 0 .. t - 1
    BY <1>2, <1>6
  <1>8. stream' = [b \in 0 .. t - 1 |-> IF b < at THEN stream[b] ELSE KeyByte(b - at)]
    BY <1>1, <1>7, Zenon
  <1>9. KeystreamByPosition'
    <2> SUFFICES ASSUME even, NEW b \in 0 .. t - 1
                 PROVE  LET j == start * Block + b
                        IN  stream'[b] = [key |-> ckey, counter |-> j \div Block + 1,
                                          before |-> j \div Block, byte |-> j % Block]
      BY <1>1, <1>8 DEF KeystreamByPosition
    <2>1. stream'[b] = IF b < at THEN stream[b] ELSE KeyByte(b - at)
      BY <1>8
    <2>2. CASE b < at
      <3>1. b \in DOMAIN stream
        BY <1>2, <1>4, <2>2
      <3> QED
        BY <2>1, <2>2, <3>1 DEF CipherInductive, KeystreamByPosition
    <2>3. CASE b >= at
      <3>1. PICK m \in Nat : at = m * Block /\ seed = start + m + 1
        BY <1>5
      <3>2. PICK c \in Nat : c = b - at
        BY <1>2, <2>3
      <3>3. stream'[b] = KeyByte(c)
        BY <1>2, <2>1, <2>3, <3>2
      <3>4. start * Block + (m * Block + c) = start * Block + b
        <4>1. m * Block + c = b
          BY <1>2, <3>1, <3>2
        <4> QED
          BY <4>1
      <3> QED
        BY <1>2, <3>1, <3>3, <3>4, ByteOfChunk
    <2> QED
      BY <1>2, <2>2, <2>3
  <1>10. DOMAIN stream' = 0 .. t - 1
    BY <1>8
  <1>11. ASSUME even, csize' > 0 PROVE WholeBlocks(t)
    <2>1. dsize = Chunk
      BY <1>1, <1>2, <1>11
    <2>2. WholeBlocks(at)
      BY <1>1, <1>3, <1>4, <1>11 DEF StreamAt
    <2> QED
      BY <1>2, <1>6, <2>1, <2>2, ChunkIsWhole, WholeSum
  <1>12. ASSUME even, WholeBlocks(t)
         PROVE  \E m \in Nat : t = m * Block /\ seed' = start + m + 1
    <2>1. PICK m \in Nat : at = m * Block /\ seed = start + m + 1
      BY <1>5, <1>12
    <2>2. WholeBlocks(at)
      BY <1>1, <1>3, <1>4, <1>12 DEF StreamAt
    <2>3. WholeBlocks(t - at)
      BY <1>2, <1>6, <1>12, <2>2, WholeDifference
    <2>4. t - at = dsize
      BY <1>2, <1>6
    <2>5. PICK k \in Nat : dsize = k * Block
      BY <2>3, <2>4 DEF WholeBlocks
    <2>6. (dsize + Block - 1) \div Block = k
      <3>1. dsize + Block - 1 = k * Block + (Block - 1)
        BY <1>2, <2>5, Sizes
      <3>2. Block - 1 \in 0 .. Block - 1 /\ dsize + Block - 1 \in Nat
        BY <1>2, Sizes
      <3> QED
        BY <3>1, <3>2, DivUnique
    <2>7. t = (m + k) * Block
      BY <1>2, <1>6, <2>1, <2>5, Sizes
    <2>8. seed' = start + (m + k) + 1 /\ m + k \in Nat
      BY <1>1, <1>2, <2>1, <2>6
    <2> QED
      BY <2>7, <2>8
  <1>13. StreamAt(t)'
    BY <1>1, <1>6, <1>10, <1>11, <1>12 DEF StreamAt, Counter
  <1>14. CipherInvariant'
    BY <1>1, <1>2, <1>13 DEF CipherInvariant
  <1> QED
    BY <1>9, <1>14

LEMMA ResetStream ==
  ASSUME NEW t, NEW s \in Nat, NEW header, NEW vkey, CipherReset(t, s, header, vkey)
  PROVE  CipherInvariant' /\ KeystreamByPosition'
  <1>1. /\ pc' = "idle" /\ start' = s /\ seed' = s + 1 /\ stream' = NoBytes
    BY DEF CipherReset
  <1>2. DOMAIN stream' = 0 .. 0 - 1
    BY <1>1 DEF NoBytes
  <1>3. seed' = start' + 0 + 1 /\ 0 = 0 * Block
    BY <1>1, Sizes
  <1>4. StreamAt(0)'
    BY <1>1, <1>2, <1>3 DEF StreamAt, Counter
  <1>5. CipherInvariant'
    BY <1>1, <1>4 DEF CipherInvariant
  <1>6. KeystreamByPosition'
    BY <1>1 DEF KeystreamByPosition, NoBytes
  <1> QED
    BY <1>5, <1>6

LEMMA KeepStream ==
  ASSUME CipherInductive, UNCHANGED <<seed, ckey, stream, start, even>>, pc' # "cipher"
  PROVE  CipherInvariant' /\ KeystreamByPosition'
  <1>1. KeystreamByPosition'
    BY DEF CipherInductive, KeystreamByPosition
  <1>2. ASSUME NEW l \in Nat, StreamAt(l) PROVE StreamAt(l)'
    BY <1>2 DEF StreamAt, Counter
  <1>3. CipherInvariant'
    BY <1>2 DEF CipherInductive, CipherInvariant
  <1> QED
    BY <1>1, <1>3

LEMMA PieceOfStream ==
  ASSUME CipherInductive, NEW n \in Nat, BBCipherUpdate(n)
  PROVE  CipherInvariant' /\ KeystreamByPosition'
  <1>1. /\ pc = "idle" /\ ckey # None /\ pc' = "cipher" /\ csize' = n
        /\ at' = Cardinality(DOMAIN stream)
        /\ even' = (even /\ WholeBlocks(Cardinality(DOMAIN stream)))
        /\ UNCHANGED <<seed, ckey, stream, start>>
    BY DEF BBCipherUpdate
  <1>2. PICK l \in Nat : StreamAt(l)
    BY <1>1 DEF CipherInductive, CipherInvariant
  <1>3. Cardinality(DOMAIN stream) = l
    BY <1>2, StreamLengthIs DEF StreamAt
  <1>4. StreamAt(l)'
    BY <1>1, <1>2, <1>3 DEF StreamAt, Counter
  <1>5. CipherInvariant'
    BY <1>1, <1>4 DEF CipherInductive, CipherInvariant
  <1>6. KeystreamByPosition'
    BY <1>1 DEF CipherInductive, KeystreamByPosition
  <1> QED
    BY <1>5, <1>6

LEMMA CipherInduction == CipherInductive /\ [Next]_vars => CipherInductive'
  <1> SUFFICES ASSUME CipherInductive, [Next]_vars PROVE CipherInductive'
    OBVIOUS
  <1>1. TypeInv'
    BY MacStepTypes, CipherStepTypes, StutterTypes DEF Next, CipherInductive
  <1>2. CipherInvariant' /\ KeystreamByPosition'
    <2>1. ASSUME MacNext PROVE CipherInvariant' /\ KeystreamByPosition'
      <3>1. UNCHANGED cipherVars /\ pc' # "cipher"
        BY <2>1 DEF MacNext, BBMacInit, UpdatePad, UpdateBlocks, UpdateChunk, UpdateDone,
                    BBMacFinal, BBMacFinal2, BBMacFails, BBMacGetkey
      <3> QED
        BY <3>1, KeepStream DEF cipherVars
    <2>2. ASSUME NEW t, NEW s \in Nat, NEW header, NEW vkey, CipherReset(t, s, header, vkey)
          PROVE  CipherInvariant' /\ KeystreamByPosition'
      BY <2>2, ResetStream
    <2>3. ASSUME NEW n \in Pieces, BBCipherUpdate(n)
          PROVE  CipherInvariant' /\ KeystreamByPosition'
      BY <2>3, PieceOfStream, AmctrlConstants
    <2>4. ASSUME CipherDone PROVE CipherInvariant' /\ KeystreamByPosition'
      <3>1. UNCHANGED <<seed, ckey, stream, start, even>> /\ pc' # "cipher"
        BY <2>4 DEF CipherDone
      <3> QED
        BY <3>1, KeepStream
    <2>5. ASSUME BBCipherFinal PROVE CipherInvariant' /\ KeystreamByPosition'
      <3>1. pc' = "idle" /\ ckey' = None /\ stream' = NoBytes /\ start' = 0
        BY <2>5 DEF BBCipherFinal
      <3> QED
        BY <3>1 DEF CipherInvariant, KeystreamByPosition, NoBytes
    <2>6. ASSUME UNCHANGED vars PROVE CipherInvariant' /\ KeystreamByPosition'
      <3>1. UNCHANGED <<pc, csize, at, seed, ckey, stream, start, even>>
        BY <2>6 DEF vars, cipherVars
      <3>2. KeystreamByPosition'
        BY <3>1 DEF CipherInductive, KeystreamByPosition
      <3>3. ASSUME NEW l \in Nat, StreamAt(l) PROVE StreamAt(l)'
        BY <3>1, <3>3 DEF StreamAt, Counter
      <3>4. CipherInvariant'
        BY <3>1, <3>3 DEF CipherInductive, CipherInvariant
      <3> QED
        BY <3>2, <3>4
    <2>7. 0 \in Nat /\ Seeds \subseteq Nat
      BY AmctrlConstants
    <2> QED
      BY <2>1, <2>2, <2>3, <2>4, <2>5, <2>6, <2>7, ChunkOfStream
      DEF Next, CipherNext, BBCipherInit, BBCipherInitNew
  <1> QED
    BY <1>1, <1>2 DEF CipherInductive

(***************************************************************************)
(* sceDrmBBCipherUpdate: the keystream byte of a position depends on the   *)
(* position, the seed and the keys only.                                   *)
(***************************************************************************)
THEOREM StreamOfPositions == Spec => []KeystreamByPosition
  <1>1. Init => CipherInductive
    <2> SUFFICES ASSUME Init PROVE CipherInductive
      OBVIOUS
    <2>1. TypeInv
      BY InitTypes
    <2>2. CipherInvariant
      BY DEF Init, CipherInvariant
    <2>3. KeystreamByPosition
      BY DEF Init, KeystreamByPosition, NoBytes
    <2> QED
      BY <2>1, <2>2, <2>3 DEF CipherInductive
  <1>2. CipherInductive => KeystreamByPosition
    BY DEF CipherInductive
  <1> QED
    BY <1>1, <1>2, CipherInduction, PTL DEF Spec

(***************************************************************************)
(* The MACs of two messages.  The last encryption but that of the version  *)
(* key is of a block that has the last block of the message as an atom,    *)
(* and the chain before it; the key is an atom beside them.                *)
(***************************************************************************)
Keys == VersionKeys \cup {NoKey}
WorkingTypes == {0, 1, 3}

(* The block that is encrypted, the value without a version key, the MAC   *)
(* before bbmac_build_final2.                                              *)
Content(s, n) ==
  Xor(Xor(ChainOf([b \in 0 .. s - 1 |-> b], s), SubKey(n - s = Block, Key38)),
      LastOf(LastBlock(s, n)))
Core(s, n) == {<<"E", Key38, Content(s, n)>>, <<"amctrl_key1", 0, Zero>>}
Keyed(s, n, vkey) ==
  IF vkey = NoKey THEN Core(s, n) ELSE {<<"E", Key38, Xor(Core(s, n), vkey)>>}

LEMMA XorMembers ==
  ASSUME NEW x, NEW y, NEW a
  PROVE  a \in Xor(x, y) <=> ((a \in x) # (a \in y))
  BY DEF Xor

LEMMA XorTwice ==
  ASSUME NEW x, NEW y
  PROVE  Xor(x, Xor(x, y)) = y
  BY DEF Xor

(* Blocks that are one atom, and blocks that are not one of AES.           *)
LEMMA DecryptsEncrypted ==
  ASSUME NEW k, NEW x
  PROVE  Decrypt(k, Atom("E", k, x)) = x
  <1> DEFINE e == <<"E", k, x>>
  <1>1. Cardinality({e}) = 1
    BY FS_Singleton
  <1>2. IsAtom({e}, "E", k)
    BY <1>1 DEF IsAtom
  <1>3. (CHOOSE a \in {e} : TRUE) = e
    OBVIOUS
  <1>4. Under({e}) = x
    BY <1>3 DEF Under
  <1> QED
    BY <1>2, <1>4 DEF Decrypt, Atom

LEMMA EncryptsFresh ==
  ASSUME NEW k, NEW x, NEW a \in x, a[1] # "D"
  PROVE  Encrypt(k, x) = {<<"E", k, x>>}
  BY DEF Encrypt, IsAtom, Atom

LEMMA DecryptsForeign ==
  ASSUME NEW k, NEW x, NEW a \in x, a[1] # "E" \/ a[2] # k
  PROVE  Decrypt(k, x) = {<<"D", k, x>>}
  BY DEF Decrypt, IsAtom, Atom

LEMMA ContentMembers ==
  ASSUME NEW s \in Nat, NEW n \in Nat
  PROVE  /\ \A l : <<"last", 0, l>> \in Content(s, n) <=> l = LastBlock(s, n)
         /\ \A i, c : <<"chain", i, c>> \in Content(s, n) =>
              s # 0 /\ i = s
         /\ s # 0 => <<"chain", s, [b \in 0 .. s - 1 |-> b]>> \in Content(s, n)
  <1> DEFINE chain == ChainOf([b \in 0 .. s - 1 |-> b], s)
             sub == SubKey(n - s = Block, Key38)
             last == LastOf(LastBlock(s, n))
  <1>1. \A a : a \in Content(s, n) <=> (((a \in chain) # (a \in sub)) # (a \in last))
    BY XorMembers DEF Content
  <1>2. \A a : a \in chain <=> s # 0 /\ a = <<"chain", s, [b \in 0 .. s - 1 |-> b]>>
    BY DEF ChainOf, Atom, Zero
  <1>3. \A a \in sub : a[1] = "subkey"
    BY DEF SubKey, Atom
  <1>4. \A a : a \in last <=> a = <<"last", 0, LastBlock(s, n)>>
    BY DEF LastOf, Atom
  <1> HIDE DEF chain, sub, last
  <1>5. ASSUME NEW l PROVE <<"last", 0, l>> \in Content(s, n) <=> l = LastBlock(s, n)
    <2> DEFINE a == <<"last", 0, l>>
    <2>1. a \notin chain /\ a \notin sub
      BY <1>2, <1>3
    <2>2. a \in last <=> l = LastBlock(s, n)
      BY <1>4
    <2> QED
      BY <1>1, <2>1, <2>2
  <1>6. ASSUME NEW i, NEW c PROVE <<"chain", i, c>> \in Content(s, n) <=> <<"chain", i, c>> \in chain
    <2> DEFINE a == <<"chain", i, c>>
    <2>1. a \notin last /\ a \notin sub
      BY <1>3, <1>4
    <2> QED
      BY <1>1, <2>1
  <1> QED
    BY <1>2, <1>5, <1>6

LEMMA CoreIs ==
  ASSUME NEW t \in WorkingTypes, NEW s \in Nat, NEW n \in Nat
  PROVE  MessageMac(t, s, n, NoKey) = Core(s, n)
  <1>1. CodeOf(t) = Key38
    BY DEF CodeOf, WorkingTypes
  <1>2. <<"last", 0, LastBlock(s, n)>> \in Content(s, n)
    BY ContentMembers
  <1>3. Encrypt(Key38, Content(s, n)) = {<<"E", Key38, Content(s, n)>>}
    BY <1>2, EncryptsFresh
  <1>4. CoreOf(t, ChainOf([b \in 0 .. s - 1 |-> b], s), n - s = Block, LastOf(LastBlock(s, n)))
          = Xor({<<"E", Key38, Content(s, n)>>}, {<<"amctrl_key1", 0, Zero>>})
    BY <1>1, <1>3 DEF CoreOf, Content, AmctrlKey1, Atom
  <1>5. Xor({<<"E", Key38, Content(s, n)>>}, {<<"amctrl_key1", 0, Zero>>}) = Core(s, n)
    BY DEF Xor, Core
  <1> QED
    BY <1>4, <1>5 DEF MessageMac, MacOf, WithKey

LEMMA MacIs ==
  ASSUME NEW t \in WorkingTypes, NEW s \in Nat, NEW n \in Nat, NEW vkey \in Keys
  PROVE  MessageMac(t, s, n, vkey) = Keyed(s, n, vkey)
  <1>1. CASE vkey = NoKey
    BY <1>1, CoreIs DEF Keyed
  <1>2. CASE vkey # NoKey
    <2>1. MessageMac(t, s, n, vkey) = Encrypt(Key38, Xor(MessageMac(t, s, n, NoKey), vkey))
      BY <1>2 DEF MessageMac, MacOf, WithKey, CodeOf, WorkingTypes
    <2>2. MessageMac(t, s, n, vkey) = Encrypt(Key38, Xor(Core(s, n), vkey))
      BY <2>1, CoreIs
    <2>3. \A a \in vkey : a[1] = "key"
      BY <1>2, AmctrlConstants DEF Keys
    <2>4. <<"amctrl_key1", 0, Zero>> \in Xor(Core(s, n), vkey)
      BY <2>3, XorMembers DEF Core
    <2>5. Encrypt(Key38, Xor(Core(s, n), vkey)) = {<<"E", Key38, Xor(Core(s, n), vkey)>>}
      BY <2>4, EncryptsFresh
    <2> QED
      BY <1>2, <2>2, <2>5 DEF Keyed
  <1> QED
    BY <1>1, <1>2

(* The last block of a message tells where it begins and ends.             *)
LEMMA EndIsUnique ==
  ASSUME NEW s \in Nat, NEW t \in Nat, NEW n \in Nat, s <= n, t <= n, EndsAt(s, n), EndsAt(t, n)
  PROVE  s = t
  <1>1. CASE n = 0
    BY <1>1
  <1>2. ASSUME NEW a \in Nat, NEW b \in Nat, a < b, WholeBlocks(a), WholeBlocks(b)
        PROVE  b - a >= Block
    BY <1>2, WholeDifference, WholePositive
  <1>3. CASE n # 0
    <2>1. /\ WholeBlocks(s) /\ n - s \in 1 .. Block
          /\ WholeBlocks(t) /\ n - t \in 1 .. Block
      BY <1>3 DEF EndsAt
    <2>2. ~(s < t) /\ ~(t < s)
      BY <1>2, <2>1, Sizes
    <2> QED
      BY <2>2
  <1> QED
    BY <1>1, <1>3

LEMMA MarkIsEnd ==
  ASSUME NEW s \in Nat, NEW n \in Nat, NEW m \in Nat, s <= n, n - s < Block,
         LastBlock(s, n) = LastBlock(s, m)
  PROVE  n = m
  <1>1. PICK e \in Nat : e = n - s
    OBVIOUS
  <1>2. e \in PadBytes
    BY <1>1, Sizes DEF PadBytes
  <1>3. LastBlock(s, n)[e] = Mark
    BY <1>1, <1>2 DEF LastBlock
  <1>4. LastBlock(s, m)[e] = IF s + e < m THEN s + e ELSE IF s + e = m THEN Mark ELSE Blank
    BY <1>2 DEF LastBlock
  <1>5. s + e = n
    BY <1>1
  <1> QED
    BY <1>3, <1>4, <1>5 DEF Mark, Blank

LEMMA ContentTells ==
  ASSUME NEW s \in Nat, NEW n \in Nat, NEW t \in Nat, NEW m \in Nat, s <= n, t <= m,
         EndsAt(s, n), EndsAt(t, m), Content(s, n) = Content(t, m)
  PROVE  n = m
  <1>1. LastBlock(s, n) = LastBlock(t, m)
    BY ContentMembers
  <1>2. s = t
    <2>1. ASSUME NEW i, NEW c, <<"chain", i, c>> \in Content(s, n) PROVE s # 0 /\ i = s
      BY <2>1, ContentMembers
    <2>2. ASSUME NEW i, NEW c, <<"chain", i, c>> \in Content(t, m) PROVE t # 0 /\ i = t
      BY <2>2, ContentMembers
    <2>3. ASSUME s # 0 PROVE t # 0 /\ s = t
      <3>1. <<"chain", s, [b \in 0 .. s - 1 |-> b]>> \in Content(t, m)
        BY <2>3, ContentMembers
      <3> QED
        BY <2>2, <3>1
    <2>4. ASSUME t # 0 PROVE s # 0
      <3>1. <<"chain", t, [b \in 0 .. t - 1 |-> b]>> \in Content(s, n)
        BY <2>4, ContentMembers
      <3> QED
        BY <2>1, <3>1
    <2> QED
      BY <2>3, <2>4
  <1>3. LastBlock(s, n) = LastBlock(s, m)
    BY <1>1, <1>2
  <1>4. CASE n - s < Block
    BY <1>3, <1>4, MarkIsEnd
  <1>5. CASE m - s < Block
    BY <1>2, <1>3, <1>5, MarkIsEnd
  <1>6. CASE n - s >= Block /\ m - s >= Block
    <2>1. n - s \in 0 .. Block /\ m - s \in 0 .. Block
      BY <1>2, Sizes DEF EndsAt
    <2> QED
      BY <1>6, <2>1, Sizes
  <1> QED
    BY <1>4, <1>5, <1>6, Sizes

LEMMA KeyedTells ==
  ASSUME NEW s \in Nat, NEW n \in Nat, NEW t \in Nat, NEW m \in Nat, s <= n, t <= m,
         EndsAt(s, n), EndsAt(t, m), NEW k \in Keys, NEW l \in Keys
  PROVE  Keyed(s, n, k) = Keyed(t, m, l) <=> n = m /\ k = l
  <1>1. ASSUME n = m, k = l PROVE Keyed(s, n, k) = Keyed(t, m, l)
    <2>1. s = t
      BY <1>1, EndIsUnique
    <2> QED
      BY <1>1, <2>1
  <1>2. ASSUME Keyed(s, n, k) = Keyed(t, m, l) PROVE n = m /\ k = l
    <2> DEFINE amctrl == <<"amctrl_key1", 0, Zero>>
    <2>1. k = NoKey <=> l = NoKey
      <3>1. (amctrl \in Keyed(s, n, k) <=> k = NoKey) /\ (amctrl \in Keyed(t, m, l) <=> l = NoKey)
        BY DEF Keyed, Core
      <3> QED
        BY <1>2, <3>1
    <2>2. CASE k = NoKey
      <3>1. Core(s, n) = Core(t, m)
        BY <1>2, <2>1, <2>2 DEF Keyed
      <3>2. <<"E", Key38, Content(s, n)>> \in Core(t, m)
        BY <3>1 DEF Core
      <3>3. Content(s, n) = Content(t, m)
        BY <3>2 DEF Core
      <3> QED
        BY <2>1, <2>2, <3>3, ContentTells
    <2>3. CASE k # NoKey
      <3>1. Xor(Core(s, n), k) = Xor(Core(t, m), l)
        <4>1. PICK x, y : x = Xor(Core(s, n), k) /\ y = Xor(Core(t, m), l)
          OBVIOUS
        <4>2. {<<"E", Key38, x>>} = {<<"E", Key38, y>>}
          BY <1>2, <2>1, <2>3, <4>1 DEF Keyed
        <4>3. <<"E", Key38, x>> = <<"E", Key38, y>>
          BY <4>2
        <4>4. x = y
          BY <4>3
        <4> QED
          BY <4>1, <4>4
      <3>2. (\A a \in k : a[1] = "key") /\ (\A a \in l : a[1] = "key")
        BY <2>1, <2>3, AmctrlConstants DEF Keys
      <3>3. (\A a \in Core(s, n) : a[1] # "key") /\ (\A a \in Core(t, m) : a[1] # "key")
        BY DEF Core
      <3>4. ASSUME NEW a PROVE (a \in k <=> a \in l) /\ (a \in Core(s, n) <=> a \in Core(t, m))
        <4>1. a \in Xor(Core(s, n), k) <=> ((a \in Core(s, n)) # (a \in k))
          BY XorMembers
        <4>2. a \in Xor(Core(t, m), l) <=> ((a \in Core(t, m)) # (a \in l))
          BY XorMembers
        <4>3. a \in Xor(Core(s, n), k) <=> a \in Xor(Core(t, m), l)
          BY <3>1
        <4> QED
          BY <3>2, <3>3, <4>1, <4>2, <4>3
      <3>5. k = l
        BY <3>4
      <3>6. <<"E", Key38, Content(s, n)>> \in Core(t, m)
        BY <3>4 DEF Core
      <3>7. Content(s, n) = Content(t, m)
        BY <3>6 DEF Core
      <3> QED
        BY <3>5, <3>7, ContentTells
    <2> QED
      BY <2>2, <2>3
  <1> QED
    BY <1>1, <1>2

(* No MAC is one that bbmac_build_final2 has encrypted or Final2 decrypted *)
(* with the key of type 3.                                                 *)
LEMMA StoredIs ==
  ASSUME NEW t \in WorkingTypes, NEW u \in WorkingTypes, NEW s \in Nat, NEW n \in Nat,
         NEW k \in Keys, NEW q \in Nat, NEW m \in Nat, NEW l \in Keys
  PROVE  LET mac == BuildFinal2(t, Keyed(s, n, k))
         IN  /\ Family(t) = Family(u) => Stored(u, mac) = Keyed(s, n, k)
             /\ Family(t) # Family(u) => Stored(u, mac) # Keyed(q, m, l)
  <1> DEFINE mac == BuildFinal2(t, Keyed(s, n, k))
             y == Keyed(s, n, k)
             z == Keyed(q, m, l)
  <1>1. PICK a \in y : a[1] = "E" /\ a[2] = Key38
    BY DEF Keyed, Core
  <1>2. PICK b \in z : b[1] = "E" /\ b[2] = Key38
    BY DEF Keyed, Core
  <1>3. Encrypt(Key63, y) = Atom("E", Key63, y) /\ Atom("E", Key63, y) = {<<"E", Key63, y>>}
    BY <1>1, EncryptsFresh DEF Atom
  <1>4. Decrypt(Key63, y) = {<<"D", Key63, y>>}
    BY <1>1, DecryptsForeign DEF Key38, Key63
  <1>5. Decrypt(Key63, Atom("E", Key63, y)) = y
    BY DecryptsEncrypted
  <1> HIDE DEF y, z
  <1>6. mac = IF t = 3 THEN Atom("E", Key63, y) ELSE y
    BY <1>3 DEF BuildFinal2, y
  <1> HIDE DEF mac
  <1>7. CASE t = 3
    <2>1. CASE u = 3
      BY <1>5, <1>6, <1>7, <2>1 DEF Stored, Family, y, mac
    <2>2. CASE u # 3
      <3>1. Stored(u, mac) = {<<"E", Key63, y>>}
        BY <1>3, <1>6, <1>7, <2>2 DEF Stored
      <3>2. Stored(u, mac) # z
        BY <1>2, <3>1 DEF Key38, Key63
      <3> QED
        BY <1>7, <2>2, <3>2 DEF Family, z, mac
    <2> QED
      BY <2>1, <2>2
  <1>8. CASE t # 3
    <2>1. CASE u = 3
      <3>1. Stored(u, mac) = {<<"D", Key63, y>>}
        BY <1>4, <1>6, <1>8, <2>1 DEF Stored
      <3>2. Stored(u, mac) # z
        BY <1>2, <3>1
      <3> QED
        BY <1>8, <2>1, <3>2 DEF Family, z, mac
    <2>2. CASE u # 3
      BY <1>6, <1>8, <2>2 DEF Stored, Family, y, mac
    <2> QED
      BY <2>1, <2>2
  <1> QED
    BY <1>7, <1>8

LEMMA KeyIsFound ==
  ASSUME NEW t \in WorkingTypes, NEW s \in Nat, NEW n \in Nat, NEW k \in VersionKeys
  PROVE  Xor(Core(s, n), Decrypt(CodeOf(t), Keyed(s, n, k))) = k
  <1>1. CodeOf(t) = Key38 /\ k # NoKey
    BY AmctrlConstants DEF CodeOf, WorkingTypes
  <1>2. Keyed(s, n, k) = Atom("E", Key38, Xor(Core(s, n), k))
    BY <1>1 DEF Keyed, Atom
  <1> QED
    BY <1>1, <1>2, DecryptsEncrypted, XorTwice

(***************************************************************************)
(* A check was of a whole message, with the MAC last made.                 *)
(***************************************************************************)
MadeTypes ==
  made.good => made.type \in WorkingTypes /\ made.length \in Nat /\ made.key \in Keys

CheckAt(s) ==
  LET stored == Stored(checked.type, made.mac)
  IN  /\ EndsAt(s, checked.length)
      /\ checked.what = "mac" =>
           (checked.verdict <=> MessageMac(checked.type, s, checked.length, checked.key) = stored)
      /\ checked.what = "key" =>
           checked.found = Xor(MessageMac(checked.type, s, checked.length, NoKey),
                               Decrypt(CodeOf(checked.type), stored))

CheckTypes ==
  checked.type \in WorkingTypes /\ checked.length \in Nat /\ checked.key \in Keys

CheckOfMessage == checked.good => CheckTypes /\ \E s \in 0 .. checked.length : CheckAt(s)

ChecksInvariant == MadeTypes /\ CheckOfMessage
ChecksInductive == MacInductive /\ ChecksInvariant

LEMMA ChecksMatch ==
  ASSUME ChecksInductive PROVE ChecksMatchMacs
  <1> SUFFICES ASSUME made.good, checked.good
               PROVE  /\ checked.what = "mac" =>
                           (checked.verdict <=> SameMessage /\ checked.key = made.key)
                      /\ checked.what = "key" /\ SameMessage /\ made.key # NoKey =>
                           checked.found = made.key
    BY DEF ChecksMatchMacs
  <1>1. PICK t \in WorkingTypes : t = made.type
    BY DEF ChecksInductive, ChecksInvariant, MadeTypes
  <1>2. PICK n \in Nat : n = made.length
    BY DEF ChecksInductive, ChecksInvariant, MadeTypes
  <1>3. PICK k \in Keys : k = made.key
    BY DEF ChecksInductive, ChecksInvariant, MadeTypes
  <1>4. MacOfMessage(t, n, k, made.mac)
    BY <1>1, <1>2, <1>3 DEF ChecksInductive, MacInductive, MacIgnoresPieces
  <1>5. PICK s \in 0 .. n : EndsAt(s, n) /\ made.mac = BuildFinal2(t, MessageMac(t, s, n, k))
    BY <1>4 DEF MacOfMessage, MessageMac
  <1>6. PICK u \in WorkingTypes : u = checked.type
    BY DEF ChecksInductive, ChecksInvariant, CheckOfMessage, CheckTypes
  <1>7. PICK m \in Nat : m = checked.length
    BY DEF ChecksInductive, ChecksInvariant, CheckOfMessage, CheckTypes
  <1>8. PICK l \in Keys : l = checked.key
    BY DEF ChecksInductive, ChecksInvariant, CheckOfMessage, CheckTypes
  <1>9. PICK q \in 0 .. m : CheckAt(q)
    BY <1>7 DEF ChecksInductive, ChecksInvariant, CheckOfMessage
  <1>10. s \in Nat /\ s <= n /\ q \in Nat /\ q <= m
    OBVIOUS
  <1>11. made.mac = BuildFinal2(t, Keyed(s, n, k))
    BY <1>5, <1>10, MacIs
  <1>12. PICK stored : stored = Stored(u, made.mac)
    OBVIOUS
  <1>13. /\ Family(t) = Family(u) => stored = Keyed(s, n, k)
         /\ Family(t) # Family(u) => stored # Keyed(q, m, l)
    <2>1. stored = Stored(u, BuildFinal2(t, Keyed(s, n, k)))
      BY <1>11, <1>12
    <2> QED
      BY <1>10, <2>1, StoredIs
  <1>14. EndsAt(q, m)
    BY <1>7, <1>9 DEF CheckAt
  <1>15. SameMessage <=> m = n /\ Family(t) = Family(u)
    BY <1>1, <1>2, <1>6, <1>7 DEF SameMessage
  <1>16. ASSUME checked.what = "mac"
         PROVE  checked.verdict <=> SameMessage /\ checked.key = made.key
    <2>1. checked.verdict <=> MessageMac(u, q, m, l) = stored
      BY <1>6, <1>7, <1>8, <1>9, <1>12, <1>16, Zenon DEF CheckAt
    <2>2. checked.verdict <=> Keyed(q, m, l) = stored
      BY <2>1, <1>10, MacIs
    <2>3. Keyed(q, m, l) = Keyed(s, n, k) <=> m = n /\ l = k
      BY <1>5, <1>10, <1>14, KeyedTells
    <2> QED
      BY <1>3, <1>8, <1>13, <1>15, <2>2, <2>3, Zenon
  <1>17. ASSUME checked.what = "key", SameMessage, made.key # NoKey
         PROVE  checked.found = made.key
    <2>1. checked.found = Xor(MessageMac(u, q, m, NoKey), Decrypt(CodeOf(u), stored))
      BY <1>6, <1>7, <1>9, <1>12, <1>17 DEF CheckAt
    <2>2. m = n /\ stored = Keyed(s, n, k)
      BY <1>13, <1>15, <1>17
    <2>3. s = q
      BY <1>5, <1>10, <1>14, <2>2, EndIsUnique
    <2>4. checked.found = Xor(Core(s, n), Decrypt(CodeOf(u), Keyed(s, n, k)))
      BY <1>10, <2>1, <2>2, <2>3, CoreIs
    <2>5. k \in VersionKeys
      BY <1>3, <1>17 DEF Keys
    <2> QED
      BY <1>3, <1>10, <2>4, <2>5, KeyIsFound
  <1> QED
    BY <1>16, <1>17

LEMMA KeepChecks ==
  ASSUME ChecksInvariant, UNCHANGED <<made, checked>> PROVE ChecksInvariant'
  <1>1. MadeTypes'
    BY DEF ChecksInvariant, MadeTypes
  <1>2. CheckTypes' <=> CheckTypes
    BY DEF CheckTypes
  <1>3. ASSUME NEW s, CheckAt(s) PROVE CheckAt(s)'
    BY <1>3, Zenon DEF CheckAt
  <1> QED
    BY <1>1, <1>2, <1>3, Zenon DEF ChecksInvariant, CheckOfMessage

LEMMA NothingChecked ==
  ASSUME MadeTypes', checked' = NoCheck PROVE ChecksInvariant'
  BY DEF ChecksInvariant, CheckOfMessage, NoCheck

(* A MAC is made only of a type that works.                                *)
LEMMA TypeThatWorks ==
  ASSUME TypeInv, FinalWorks PROVE mtype \in WorkingTypes
  BY DEF TypeInv, TypeOK, FinalWorks, Succeeds, Commands, WorkingTypes

LEMMA ChecksStep ==
  ASSUME ChecksInductive, MacNext PROVE ChecksInvariant'
  <1>1. ASSUME NEW t, BBMacInit(t) PROVE ChecksInvariant'
    <2>1. MadeTypes'
      BY <1>1 DEF BBMacInit, ChecksInductive, ChecksInvariant, MadeTypes
    <2> QED
      BY <1>1, <2>1, NothingChecked DEF BBMacInit
  <1>2. ASSUME UNCHANGED <<made, checked>> PROVE ChecksInvariant'
    BY <1>2, KeepChecks DEF ChecksInductive
  <1>3. ASSUME NEW vkey \in Keys, BBMacFinal(vkey) PROVE ChecksInvariant'
    <2>1. made' = [mac |-> BuildFinal2(mtype, Result(vkey)), type |-> mtype, length |-> given,
                   key |-> vkey, good |-> ~swallowed]
      BY <1>3 DEF BBMacFinal
    <2>2. mtype \in WorkingTypes /\ given \in Nat
      BY <1>3, TypeThatWorks DEF BBMacFinal, ChecksInductive, MacInductive, TypeInv, TypeOK
    <2>3. made'.type = mtype /\ made'.length = given /\ made'.key = vkey
      BY <2>1
    <2>4. MadeTypes'
      BY <2>2, <2>3 DEF MadeTypes
    <2> QED
      BY <1>3, <2>4, NothingChecked DEF BBMacFinal
  <1>4. ASSUME NEW what, NEW vkey \in Keys, NEW verdict, NEW found,
               pc = "idle", live, FinalWorks, made' = made,
               Check(what, vkey, verdict, found),
               what = "mac" => (verdict <=> Result(vkey) = Stored(mtype, made.mac)),
               what = "key" => found = Xor(Result(NoKey),
                                           Decrypt(CodeOf(mtype), Stored(mtype, made.mac)))
        PROVE  ChecksInvariant'
    <2>1. mtype \in WorkingTypes /\ given \in Nat
      BY <1>4, TypeThatWorks DEF ChecksInductive, MacInductive, TypeInv, TypeOK
    <2>2. /\ checked'.what = what /\ checked'.type = mtype /\ checked'.length = given
          /\ checked'.key = vkey /\ checked'.good = ~swallowed /\ checked'.found = found
      BY <1>4 DEF Check
    <2>3. checked'.verdict = verdict
      BY <1>4 DEF Check
    <2>4. MadeTypes'
      BY <1>4 DEF ChecksInductive, ChecksInvariant, MadeTypes
    <2>5. CheckTypes'
      BY <2>1, <2>2 DEF CheckTypes
    <2>6. ASSUME ~swallowed
          PROVE  \E s \in 0 .. given : CheckAt(s)'
      <3>1. PICK s \in 0 .. given : /\ EndsAt(s, given)
                                    /\ \A k : Result(k) = MessageMac(mtype, s, given, k)
        BY <1>4, <2>6, ResultOfMessage DEF ChecksInductive, MacInductive
      <3>2. EndsAt(s, checked'.length)
        BY <2>2, <3>1
      <3>3. what = "mac" =>
              (verdict <=> MessageMac(mtype, s, given, vkey) = Stored(mtype, made.mac))
        BY <1>4, <3>1, Zenon
      <3>4. what = "key" =>
              found = Xor(MessageMac(mtype, s, given, NoKey),
                          Decrypt(CodeOf(mtype), Stored(mtype, made.mac)))
        BY <1>4, <3>1, Zenon
      <3>5. checked'.what = "mac" =>
              (checked'.verdict <=> MessageMac(checked'.type, s, checked'.length, checked'.key)
                                      = Stored(checked'.type, made'.mac))
        BY <1>4, <2>2, <2>3, <3>3, Zenon
      <3>6. checked'.what = "key" =>
              checked'.found = Xor(MessageMac(checked'.type, s, checked'.length, NoKey),
                                   Decrypt(CodeOf(checked'.type), Stored(checked'.type, made'.mac)))
        BY <1>4, <2>2, <3>4, Zenon
      <3>7. CheckAt(s)'
        BY <3>2, <3>5, <3>6, Zenon DEF CheckAt
      <3> QED
        BY <3>7
    <2>7. CheckOfMessage'
      BY <2>2, <2>5, <2>6 DEF CheckOfMessage
    <2> QED
      BY <2>4, <2>7 DEF ChecksInvariant
  <1>5. ASSUME NEW vkey \in Keys, BBMacFinal2(vkey) PROVE ChecksInvariant'
    <2> DEFINE verdict == Result(vkey) = Stored(mtype, made.mac)
    <2>1. pc = "idle" /\ live /\ FinalWorks /\ made' = made /\ Check("mac", vkey, verdict, NoKey)
      BY <1>5, Zenon DEF BBMacFinal2
    <2>2. verdict <=> Result(vkey) = Stored(mtype, made.mac)
      BY Zenon
    <2> HIDE DEF verdict
    <2> QED
      BY <1>4, <2>1, <2>2
  <1>6. ASSUME BBMacGetkey PROVE ChecksInvariant'
    <2> DEFINE found == Xor(Result(NoKey), Decrypt(CodeOf(mtype), Stored(mtype, made.mac)))
    <2>1. pc = "idle" /\ live /\ FinalWorks /\ made' = made /\ Check("key", NoKey, FALSE, found)
      BY <1>6, Zenon DEF BBMacGetkey
    <2>2. NoKey \in Keys /\ found = Xor(Result(NoKey), Decrypt(CodeOf(mtype), Stored(mtype, made.mac)))
      BY DEF Keys
    <2> HIDE DEF found
    <2>3. "key" # "mac"
      OBVIOUS
    <2> QED
      BY <1>4, <2>1, <2>2, <2>3, Zenon
  <1>7. UNCHANGED <<made, checked>> \/ (\E t : BBMacInit(t)) \/ BBMacGetkey
          \/ (\E vkey \in Keys : BBMacFinal(vkey) \/ BBMacFinal2(vkey))
    BY DEF MacNext, Keys, UpdatePad, UpdateBlocks, UpdateChunk, UpdateDone, BBMacFails
  <1> QED
    BY <1>1, <1>2, <1>3, <1>5, <1>6, <1>7

LEMMA ChecksInduction == ChecksInductive /\ [Next]_vars => ChecksInductive'
  <1> SUFFICES ASSUME ChecksInductive, [Next]_vars PROVE ChecksInductive'
    OBVIOUS
  <1>1. MacInductive'
    BY MacInduction DEF ChecksInductive
  <1>2. ASSUME UNCHANGED macVars PROVE ChecksInvariant'
    BY <1>2, KeepChecks DEF macVars, ChecksInductive
  <1>3. UNCHANGED vars => UNCHANGED macVars
    BY DEF vars
  <1>4. ChecksInvariant'
    BY <1>2, <1>3, ChecksStep, CipherStep DEF Next
  <1> QED
    BY <1>1, <1>4 DEF ChecksInductive

(***************************************************************************)
(* sceDrmBBMacFinal2 accepts exactly the MAC of the same message under the *)
(* same version key, and bbmac_getkey finds that key, for messages of any  *)
(* length and however they are cut, as long as neither the maker nor the   *)
(* checker had a piece swallowed.                                          *)
(***************************************************************************)
THEOREM ChecksOfThePieces == Spec => []ChecksMatchMacs
  <1>1. Init => ChecksInductive
    <2> SUFFICES ASSUME Init PROVE ChecksInductive
      OBVIOUS
    <2>1. made = NoMac /\ checked = NoCheck
      BY DEF Init
    <2>2. ChecksInvariant
      BY <2>1 DEF ChecksInvariant, MadeTypes, CheckOfMessage, NoMac, NoCheck
    <2> QED
      BY <2>2, InitMac DEF ChecksInductive
  <1>2. ChecksInductive => ChecksMatchMacs
    BY ChecksMatch
  <1> QED
    BY <1>1, <1>2, ChecksInduction, PTL DEF Spec
=============================================================================
