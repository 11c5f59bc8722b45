----------------------------- MODULE NpPbpProofs -----------------------------
(***************************************************************************)
(* Proofs about NpPbp and what NpReader relies on, for every ISO with any  *)
(* directories, every set of optional files, every size of unit, block,    *)
(* page and header body, and whatever the compressor returns:              *)
(*   - the types, and that no counter of the keystream serves twice;       *)
(*   - that the files loaded are those of the directory;                   *)
(*   - that seeking back damages nothing, and so that at the end the       *)
(*     sections, DATA.PSP, the header of the image and every block of it   *)
(*     are read back from the file.                                        *)
(***************************************************************************)
EXTENDS NpReader, FiniteSetTheorems, TLAPS

LEMMA Sizes ==
  /\ Unit \in Nat /\ Unit > 0
  /\ BlockSize \in Nat /\ BlockSize > 0
  /\ Page \in Nat /\ BodySize \in Nat /\ BodySize <= Page
  /\ LzSizes \subseteq Nat
  BY UnitSize, NpConstants

LEMMA PageUnits == \E q \in Nat : Page = q * Unit
  BY NpConstants

LEMMA EntryUnits == \E q \in Nat : EntrySize = q * Unit
  BY NpConstants DEF EntrySize

(***************************************************************************)
(* Dividing a number of whole units by the unit gives that number.         *)
(***************************************************************************)
LEMMA DivOfUnits ==
  ASSUME NEW u \in Nat, NEW a \in Nat, a > 0
  PROVE  (u * a) \div a = u
  <1> DEFINE q == (u * a) \div a
  <1>1. q \in Int /\ q * a <= u * a /\ u * a < q * a + a
    OBVIOUS
  <1>2. ~(q >= u + 1)
    <2> SUFFICES ASSUME q >= u + 1 PROVE FALSE
      OBVIOUS
    <2>1. (q - u - 1) * a >= 0
      BY <1>1
    <2> QED
      BY <2>1, <1>1
  <1>3. ~(q <= u - 1)
    <2> SUFFICES ASSUME q <= u - 1 PROVE FALSE
      OBVIOUS
    <2>1. (u - 1 - q) * a >= 0
      BY <1>1
    <2> QED
      BY <2>1, <1>1
  <1> QED
    BY <1>1, <1>2, <1>3

(***************************************************************************)
(* Rounding up: Ceil of a natural is a natural, and of a number below some *)
(* whole units no more than their number.                                  *)
(***************************************************************************)
LEMMA CeilNat ==
  ASSUME NEW m \in Nat, NEW a \in Nat, a > 0
  PROVE  Ceil(m, a) \in Nat /\ Align(m, a) = Ceil(m, a) * a
  <1>1. (m + a - 1) \div a \in Nat
    OBVIOUS
  <1> QED
    BY <1>1 DEF Ceil, Align

LEMMA CeilBelow ==
  ASSUME NEW m \in Nat, NEW u \in Nat, NEW a \in Nat, a > 0, m <= u * a
  PROVE  Ceil(m, a) <= u
  <1> DEFINE q == (m + a - 1) \div a
  <1>1. q \in Int /\ q * a <= m + a - 1
    OBVIOUS
  <1>2. ~(q >= u + 1)
    <2> SUFFICES ASSUME q >= u + 1 PROVE FALSE
      OBVIOUS
    <2>1. (q - u - 1) * a >= 0
      BY <1>1
    <2> QED
      BY <2>1, <1>1
  <1> QED
    BY <1>1, <1>2 DEF Ceil

(***************************************************************************)
(* The inductive invariant: the blocks written so far have taken counters  *)
(* in their order, all above the page of the header and none above the     *)
(* offset of the next block, which is a number of whole units.             *)
(***************************************************************************)
Placed ==
  /\ \E u \in Nat : iso_offset = u * Unit
  /\ iso_offset >= Page

StreamsInOrder ==
  /\ i \in Nat
  /\ DOMAIN streams = 0 .. i - 1
  /\ \A j \in 0 .. i - 1 :
       /\ streams[j].seed \in Nat /\ streams[j].blocks \in Nat
       /\ Page <= streams[j].seed * Unit
       /\ streams[j].seed + streams[j].blocks <= iso_offset \div Unit
  /\ \A j, k \in 0 .. i - 1 : j < k => streams[j].seed + streams[j].blocks <= streams[k].seed

Before == {"start", "extra", "pgd", "startdat", "load", "table"}

StreamInvariant ==
  /\ in \in Inputs /\ iso_at \in 0 .. iso_size /\ iso_offset \in Nat
  /\ pc = "block" => Placed
  /\ pc \in Before => i = 0
  /\ StreamsInOrder

LEMMA IsoSizes ==
  ASSUME in \in Inputs
  PROVE  iso_size \in Nat /\ iso_blocks \in Nat
  <1>1. iso_size \in Nat
    BY NpConstants DEF IsInput, iso_size
  <1> QED
    BY <1>1, Sizes, CeilNat DEF iso_blocks

LEMMA Rest ==
  ASSUME in \in Inputs, iso_at \in 0 .. iso_size
  PROVE  RestOfIso \in Nat /\ iso_at + RestOfIso \in 0 .. iso_size
  BY IsoSizes, Sizes DEF RestOfIso

(***************************************************************************)
(* A block of any length keeps the order.                                  *)
(***************************************************************************)
LEMMA PutBlockStep ==
  ASSUME Placed, StreamsInOrder, iso_offset \in Nat,
         NEW wbuf, NEW wsize \in Nat, PutBlock(wbuf, wsize)
  PROVE  Placed' /\ StreamsInOrder' /\ iso_offset' \in Nat
  <1> DEFINE c == Ceil(wsize, Unit)
  <1>1. PICK u \in Nat : iso_offset = u * Unit
    BY DEF Placed
  <1>2. iso_offset \div Unit = u /\ Seed = u
    BY <1>1, Sizes, DivOfUnits DEF Seed
  <1>3. c \in Nat /\ Align(wsize, Unit) = c * Unit
    BY Sizes, CeilNat
  <1>4. iso_offset' = iso_offset + Align(wsize, Unit) /\ i' = i + 1
    BY DEF PutBlock, Advanced
  <1>5. streams' = [j \in 0 .. i |-> IF j = i THEN [seed |-> Seed, blocks |-> c] ELSE streams[j]]
    BY DEF PutBlock
  <1> HIDE DEF c
  <1>6. iso_offset' = (u + c) * Unit /\ u + c \in Nat
    BY <1>1, <1>3, <1>4, Sizes
  <1>7. iso_offset' \div Unit = u + c
    BY <1>6, Sizes, DivOfUnits
  <1>8. iso_offset' \in Nat /\ iso_offset' >= Page
    <2>1. c * Unit \in Nat
      BY <1>3, Sizes
    <2> QED
      BY <1>3, <1>4, <2>1, Sizes DEF Placed
  <1>9. Placed'
    BY <1>6, <1>8 DEF Placed
  <1>10. StreamsInOrder'
    <2>1. i \in Nat /\ i' \in Nat /\ DOMAIN streams' = 0 .. i' - 1
      BY <1>4, <1>5 DEF StreamsInOrder
    <2>2. streams'[i].seed = u /\ streams'[i].blocks = c
      BY <1>2, <1>5, <2>1
    <2>3. \A j \in 0 .. i - 1 : streams'[j] = streams[j]
      BY <1>5, <2>1
    <2>4. Page <= u * Unit
      BY <1>1 DEF Placed
    <2>5. ASSUME NEW j \in 0 .. i' - 1
          PROVE  /\ streams'[j].seed \in Nat /\ streams'[j].blocks \in Nat
                 /\ Page <= streams'[j].seed * Unit
                 /\ streams'[j].seed + streams'[j].blocks <= iso_offset' \div Unit
      <3>1. CASE j = i
        BY <1>3, <1>7, <2>2, <2>4, <3>1
      <3>2. CASE j # i
        <4>1. j \in 0 .. i - 1
          BY <1>4, <2>1, <3>2
        <4>2. /\ streams[j].seed \in Nat /\ streams[j].blocks \in Nat
              /\ Page <= streams[j].seed * Unit
              /\ streams[j].seed + streams[j].blocks <= iso_offset \div Unit
          BY <4>1 DEF StreamsInOrder
        <4> QED
          BY <1>2, <1>3, <1>7, <2>3, <4>1, <4>2
      <3> QED
        BY <3>1, <3>2
    <2>6. ASSUME NEW j \in 0 .. i' - 1, NEW k \in 0 .. i' - 1, j < k
          PROVE  streams'[j].seed + streams'[j].blocks <= streams'[k].seed
      <3>1. j \in 0 .. i - 1
        BY <1>4, <2>1, <2>6
      <3>2. CASE k = i
        BY <1>2, <2>2, <2>3, <3>1, <3>2 DEF StreamsInOrder
      <3>3. CASE k # i
        <4>1. k \in 0 .. i - 1
          BY <1>4, <2>1, <3>3
        <4> QED
          BY <2>3, <2>6, <3>1, <4>1 DEF StreamsInOrder
      <3> QED
        BY <3>2, <3>3
    <2> QED
      BY <2>1, <2>5, <2>6 DEF StreamsInOrder
  <1> QED
    BY <1>8, <1>9, <1>10

LEMMA PlainOrLzStep ==
  ASSUME in \in Inputs, iso_at \in 0 .. iso_size, Placed, StreamsInOrder, iso_offset \in Nat,
         NEW plain, PutPlainOrLz(plain)
  PROVE  Placed' /\ StreamsInOrder' /\ iso_offset' \in Nat
  <1>1. CASE PutBlock(plain, RestOfIso)
    BY <1>1, Rest, PutBlockStep
  <1>2. ASSUME NEW size \in LzSizes, PutBlock(Lz(size), Align(size, Unit))
        PROVE  Placed' /\ StreamsInOrder' /\ iso_offset' \in Nat
    <2>1. Align(size, Unit) \in Nat
      BY Sizes, CeilNat
    <2> QED
      BY <1>2, <2>1, PutBlockStep
  <1> QED
    BY <1>1, <1>2 DEF PutPlainOrLz

LEMMA StreamInit == Init => StreamInvariant
  <1> SUFFICES ASSUME Init PROVE StreamInvariant
    OBVIOUS
  <1>1. in \in Inputs /\ iso_at = 0 /\ iso_offset = 0 /\ i = 0 /\ pc = "start"
    BY DEF Init
  <1>2. iso_at \in 0 .. iso_size
    BY <1>1, IsoSizes
  <1>3. DOMAIN streams = 0 .. i - 1
    BY DEF Init
  <1>4. StreamsInOrder
    BY <1>1, <1>3 DEF StreamsInOrder
  <1> QED
    BY <1>1, <1>2, <1>4 DEF StreamInvariant, Before

LEMMA StreamStep == StreamInvariant /\ [Next]_vars => StreamInvariant'
  <1> SUFFICES ASSUME StreamInvariant, [Next]_vars PROVE StreamInvariant'
    OBVIOUS
  <1> USE DEF argVars, extraVars, outVars, blockVars, Before
  <1>0. ASSUME UNCHANGED <<in, blockVars>>, pc' # "block" \/ pc = "block", pc' \in Before => pc \in Before
        PROVE  StreamInvariant'
    <2>1. /\ in' = in /\ iso_at' = iso_at /\ iso_offset' = iso_offset /\ i' = i
          /\ streams' = streams
      BY <1>0
    <2>2. iso_size' = iso_size
      BY <2>1 DEF iso_size
    <2>3. Placed' <=> Placed
      BY <2>1 DEF Placed
    <2>4. StreamsInOrder' <=> StreamsInOrder
      BY <2>1 DEF StreamsInOrder
    <2> HIDE DEF Before, blockVars
    <2> QED
      BY <1>0, <2>1, <2>2, <2>3, <2>4 DEF StreamInvariant
  <1>1. CASE OpenFiles
    BY <1>0, <1>1 DEF OpenFiles
  <1>2. CASE LookAtExtra
    BY <1>0, <1>2 DEF LookAtExtra
  <1>3. CASE ExtrasSeen
    BY <1>0, <1>3 DEF ExtrasSeen
  <1>4. CASE MakePgd
    BY <1>0, <1>4 DEF MakePgd
  <1>5. CASE OpnssmpUnread
    BY <1>0, <1>5 DEF OpnssmpUnread
  <1>5a. CASE HeapCrashes
    BY <1>0, <1>5a DEF HeapCrashes
  <1>6. CASE MakeStartdat
    BY <1>0, <1>6 DEF MakeStartdat
  <1>7. CASE StartdatUnread
    BY <1>0, <1>7 DEF StartdatUnread
  <1>8. CASE LoadFile
    BY <1>0, <1>8 DEF LoadFile
  <1>9. CASE LoadFails
    BY <1>0, <1>9 DEF LoadFails
  <1>10. CASE WritePbp
    BY <1>0, <1>10 DEF WritePbp
  <1>11. CASE NoParamSfo
    BY <1>0, <1>11 DEF NoParamSfo
  <1>12. CASE SigningFails
    BY <1>0, <1>12 DEF SigningFails
  <1>13. CASE WriteEmptyTable
    <2>1. pc = "table" /\ pc' = "block" /\ i = 0 /\ UNCHANGED <<in, i, iso_at, streams>>
      BY <1>13 DEF WriteEmptyTable, StreamInvariant
    <2>2. iso_offset' = Page + iso_blocks * EntrySize
      BY <1>13 DEF WriteEmptyTable, table_size
    <2>3. in \in Inputs /\ iso_blocks \in Nat
      BY IsoSizes DEF StreamInvariant
    <2>4. PICK q \in Nat : Page = q * Unit
      BY PageUnits
    <2>5. PICK e \in Nat : EntrySize = e * Unit
      BY EntryUnits
    <2> DEFINE t == iso_blocks * e
    <2>6. t \in Nat /\ iso_blocks * EntrySize = t * Unit
      BY <2>3, <2>5, Sizes
    <2> HIDE DEF t
    <2>7. q + t \in Nat /\ iso_offset' = (q + t) * Unit /\ t * Unit \in Nat
      BY <2>2, <2>4, <2>6, Sizes
    <2>8. iso_offset' \in Nat /\ iso_offset' >= Page
      BY <2>2, <2>6, <2>7, Sizes
    <2>9. Placed'
      BY <2>7, <2>8 DEF Placed
    <2> QED
      BY <2>1, <2>8, <2>9 DEF StreamInvariant, StreamsInOrder, iso_size
  <1>14. CASE WriteBlock
    <2>1. Placed' /\ StreamsInOrder' /\ iso_offset' \in Nat
      BY <1>14, PlainOrLzStep DEF WriteBlock, StreamInvariant
    <2>2. iso_at' \in 0 .. iso_size
      BY <1>14, Rest DEF WriteBlock, StreamInvariant
    <2> QED
      BY <1>14, <2>1, <2>2 DEF WriteBlock, StreamInvariant, iso_size
  <1>15. CASE WriteUnreadBlock
    <2>1. Placed' /\ StreamsInOrder' /\ iso_offset' \in Nat
      BY <1>15, PlainOrLzStep DEF WriteUnreadBlock, StreamInvariant
    <2> QED
      BY <1>15, <2>1 DEF WriteUnreadBlock, StreamInvariant, iso_size
  <1>16. CASE WriteBack
    BY <1>0, <1>16 DEF WriteBack
  <1>17. CASE ForgeFails
    BY <1>0, <1>17 DEF ForgeFails
  <1>18. CASE UNCHANGED vars
    BY <1>0, <1>18 DEF vars
  <1> QED
    BY <1>1, <1>2, <1>3, <1>4, <1>5, <1>5a, <1>6, <1>7, <1>8, <1>9, <1>10, <1>11, <1>12, <1>13, <1>14,
       <1>15, <1>16, <1>17, <1>18 DEF Next, Exited

(***************************************************************************)
(* Counters in order are disjoint, and those of the header's body, which   *)
(* fits in a page, come before them all.                                   *)
(***************************************************************************)
LEMMA OrderedStreamsDisjoint ==
  ASSUME StreamsInOrder
  PROVE  KeystreamNeverReused
  <1> DEFINE c == Ceil(BodySize, Unit)
  <1>1. c \in Nat
    BY Sizes, CeilNat
  <1>2. ASSUME NEW j \in DOMAIN streams
        PROVE  CountersOf(j) \cap BodyCounters = {}
    <2>1. streams[j].seed \in Nat /\ streams[j].blocks \in Nat /\ Page <= streams[j].seed * Unit
      BY DEF StreamsInOrder
    <2>2. BodySize <= streams[j].seed * Unit
      BY <2>1, Sizes
    <2>3. c <= streams[j].seed
      BY <2>1, <2>2, Sizes, CeilBelow
    <2> HIDE DEF c
    <2> QED
      BY <1>1, <2>1, <2>3 DEF CountersOf, BodyCounters, c
  <1>3. ASSUME NEW j \in DOMAIN streams, NEW k \in DOMAIN streams, j # k
        PROVE  CountersOf(j) \cap CountersOf(k) = {}
    <2>1. /\ streams[j].seed \in Nat /\ streams[j].blocks \in Nat
          /\ streams[k].seed \in Nat /\ streams[k].blocks \in Nat
      BY DEF StreamsInOrder
    <2>2. j \in Int /\ k \in Int /\ j \in 0 .. i - 1 /\ k \in 0 .. i - 1
      BY DEF StreamsInOrder
    <2>3. \/ streams[j].seed + streams[j].blocks <= streams[k].seed
          \/ streams[k].seed + streams[k].blocks <= streams[j].seed
      BY <1>3, <2>2 DEF StreamsInOrder
    <2> QED
      BY <2>1, <2>3 DEF CountersOf
  <1> QED
    BY <1>2, <1>3 DEF KeystreamNeverReused

(***************************************************************************)
(* No counter of the keystream serves twice in an image, whatever the size *)
(* of the ISO, and whichever blocks are compressed and to what: sign_np    *)
(* takes the seed of a block from its offset, which grows by at least the  *)
(* counters used.                                                          *)
(***************************************************************************)
THEOREM ImageKeystream == Spec => []KeystreamNeverReused
  <1>1. StreamInvariant => KeystreamNeverReused
    BY OrderedStreamsDisjoint DEF StreamInvariant
  <1> QED
    BY <1>1, StreamInit, StreamStep, PTL DEF Spec

-----------------------------------------------------------------------------
(***************************************************************************)
(* A set of naturals has a least member: what stands for induction below.  *)
(***************************************************************************)
LEMMA LeastNat ==
  ASSUME NEW T, T \subseteq Nat, T # {}
  PROVE  \E x \in T : \A y \in T : x <= y
  <1> DEFINE Less == {ss \in Nat \X Nat : ss[1] < ss[2]}
  <1>1. IsWellFoundedOn(Less, Nat)
    BY NatLessThanWellFounded DEF OpToRel
  <1> HIDE DEF Less
  <1>2. PICK x \in T : \A y \in T : ~(<<y, x>> \in Less)
    BY <1>1, WFMin
  <1>3. ASSUME NEW y \in T PROVE x <= y
    <2>1. <<y, x>> \notin Less /\ y \in Nat /\ x \in Nat
      BY <1>2
    <2> QED
      BY <2>1 DEF Less
  <1> QED
    BY <1>3

(***************************************************************************)
(* findFile goes on to a later position only, so that it is a function of  *)
(* the position it starts from.                                            *)
(***************************************************************************)
ScanFrom(dir, file, is_dir, from, p) ==
  IF p >= dir.size THEN Error(-18)
  ELSE IF p \notin DOMAIN dir.recs THEN from[p + isoPos2RestSize(p)]
  ELSE LET rec == dir.recs[p]
       IN  CASE Corrupt(rec) -> Error(-12)
             [] ~Corrupt(rec) /\ rec.len_fi > NameMax -> Error(-11)
             [] ~Corrupt(rec) /\ rec.len_fi <= NameMax /\ Matches(rec, file) ->
                  IF is_dir /\ ~rec.dir THEN Error(-14) ELSE Found(rec)
             [] OTHER -> from[p + rec.len_dr]

IsScan(dir, file, is_dir, from) ==
  from = [p \in 0 .. dir.size + SectorSize |-> ScanFrom(dir, file, is_dir, from, p)]

LEMMA RestFacts ==
  ASSUME NEW p \in Nat
  PROVE  isoPos2RestSize(p) \in 1 .. SectorSize /\ (p + isoPos2RestSize(p)) % SectorSize = 0
  <1> DEFINE q == p \div SectorSize
             r == p % SectorSize
  <1>1. SectorSize \in Nat /\ SectorSize > 0
    BY IsoDirConstants
  <1>2. q \in Int /\ r \in 0 .. SectorSize - 1 /\ p = q * SectorSize + r
    BY <1>1
  <1>3. p + isoPos2RestSize(p) = (q + 1) * SectorSize
    BY <1>1, <1>2 DEF isoPos2RestSize
  <1>4. ((q + 1) * SectorSize) % SectorSize = 0
    BY <1>1, <1>2
  <1> QED
    BY <1>1, <1>2, <1>3, <1>4 DEF isoPos2RestSize

LEMMA ScanSame ==
  ASSUME NEW dir, IsDirectory(dir), NEW file, NEW is_dir, NEW f, NEW g, NEW p \in Nat,
         \A q \in p + 1 .. dir.size + SectorSize : f[q] = g[q]
  PROVE  ScanFrom(dir, file, is_dir, f, p) = ScanFrom(dir, file, is_dir, g, p)
  <1>1. SectorSize \in Nat /\ dir.size \in Nat
    BY IsoDirConstants DEF IsDirectory
  <1>2. CASE p >= dir.size
    BY <1>2 DEF ScanFrom
  <1>3. CASE p < dir.size /\ p \notin DOMAIN dir.recs
    <2> DEFINE r == isoPos2RestSize(p)
    <2>0. r \in 1 .. SectorSize
      BY RestFacts
    <2> HIDE DEF r
    <2>1. p + r \in p + 1 .. dir.size + SectorSize
      BY <1>1, <1>3, <2>0
    <2> QED
      BY <1>3, <2>1 DEF ScanFrom, r
  <1>4. CASE p < dir.size /\ p \in DOMAIN dir.recs
    <2>1. p + dir.recs[p].len_dr \in p + 1 .. dir.size + SectorSize
      BY <1>1, <1>4 DEF IsDirectory, IsRecord
    <2> QED
      BY <1>1, <1>4, <2>1 DEF ScanFrom
  <1> QED
    BY <1>1, <1>2, <1>3, <1>4

LEMMA ScanExists ==
  ASSUME NEW dir, IsDirectory(dir), NEW file, NEW is_dir
  PROVE  \E f : IsScan(dir, file, is_dir, f)
  <1> DEFINE N == dir.size + SectorSize
             Step(f, p) == ScanFrom(dir, file, is_dir, f, p)
             Upto(d, f) == f = [p \in 0 .. N |-> f[p]] /\ \A p \in N - d + 1 .. N : p \in Nat => f[p] = Step(f, p)
             T == {d \in 0 .. N + 1 : ~ \E f : Upto(d, f)}
  <1>1. N \in Nat
    BY IsoDirConstants DEF IsDirectory
  <1>2. T = {}
    <2> SUFFICES ASSUME T # {} PROVE FALSE
      OBVIOUS
    <2> HIDE DEF Upto
    <2>0. T \subseteq Nat
      BY <1>1
    <2>1. PICK d \in T : \A e \in T : d <= e
      <3> HIDE DEF T
      <3> QED
        BY <2>0, LeastNat
    <2>2. d \in Nat /\ d <= N + 1 /\ ~ \E f : Upto(d, f)
      BY <1>1
    <2>3. d # 0
      <3> SUFFICES ASSUME d = 0 PROVE FALSE
        OBVIOUS
      <3> DEFINE h == [p \in 0 .. N |-> p]
      <3>1. Upto(0, h)
        BY <1>1 DEF Upto
      <3> QED
        BY <2>2, <3>1
    <2>4. d - 1 \in 0 .. N + 1 /\ d - 1 \notin T
      BY <1>1, <2>1, <2>2, <2>3
    <2>5. PICK f : Upto(d - 1, f)
      BY <2>4
    <2> DEFINE z == N - d + 1
               g == [p \in 0 .. N |-> IF p = z THEN Step(f, z) ELSE f[p]]
    <2>6. z \in 0 .. N
      BY <1>1, <2>2, <2>3
    <2>7. /\ g = [p \in 0 .. N |-> g[p]] /\ g[z] = Step(f, z)
          /\ \A p \in 0 .. N : p # z => g[p] = f[p]
      BY <2>6
    <2> HIDE DEF g
    <2>8. ASSUME NEW p \in z .. N PROVE g[p] = Step(g, p)
      <3>0. p \in Nat
        BY <1>1, <2>6
      <3>1. ASSUME NEW q \in p + 1 .. N PROVE f[q] = g[q]
        <4>1. q \in 0 .. N /\ q # z
          BY <1>1, <2>6, <3>0
        <4> QED
          BY <2>7, <4>1
      <3>2. Step(g, p) = Step(f, p)
        BY <3>0, <3>1, ScanSame
      <3>3. CASE p = z
        BY <2>7, <3>2, <3>3
      <3>4. CASE p # z
        <4>1. p \in 0 .. N /\ p \in N - (d - 1) + 1 .. N
          BY <1>1, <2>2, <2>6, <3>4
        <4>2. f[p] = Step(f, p)
          BY <2>5, <3>0, <4>1 DEF Upto
        <4> QED
          BY <2>7, <3>2, <3>4, <4>1, <4>2
      <3> QED
        BY <3>3, <3>4
    <2>9. Upto(d, g)
      BY <2>7, <2>8 DEF Upto
    <2> QED
      BY <2>2, <2>9
  <1>3. N + 1 \notin T /\ N + 1 \in 0 .. N + 1
    BY <1>1, <1>2
  <1>4. PICK f : Upto(N + 1, f)
    BY <1>3
  <1>5. \A p \in 0 .. N : f[p] = Step(f, p)
    <2>1. N - (N + 1) + 1 = 0
      BY <1>1
    <2> QED
      BY <1>4, <2>1
  <1>6. f = [p \in 0 .. N |-> f[p]]
    BY <1>4
  <1>7. IsScan(dir, file, is_dir, f)
    <2> HIDE DEF Step, N
    <2>1. f = [p \in 0 .. N |-> Step(f, p)]
      BY <1>5, <1>6
    <2> QED
      BY <2>1 DEF IsScan, N, Step
  <1> QED
    BY <1>7

LEMMA FindFileScans ==
  ASSUME NEW dir, IsDirectory(dir), NEW file, NEW is_dir
  PROVE  \E f : IsScan(dir, file, is_dir, f) /\ findFile(dir, file, is_dir) = f[0]
  <1> DEFINE f == CHOOSE g : IsScan(dir, file, is_dir, g)
  <1>1. IsScan(dir, file, is_dir, f)
    BY ScanExists
  <1>2. findFile(dir, file, is_dir) = f[0]
    BY DEF findFile, IsScan, ScanFrom
  <1> QED
    BY <1>1, <1>2

(***************************************************************************)
(* What findFile returns is an error or a record of that name.             *)
(***************************************************************************)
FoundOrNot(dir, file, is_dir, r) ==
  \/ \E e \in {-18, -12, -11, -14} : r = Error(e)
  \/ \E q \in DOMAIN dir.recs :
       Matches(dir.recs[q], file) /\ (is_dir => dir.recs[q].dir) /\ r = Found(dir.recs[q])

LEMMA FindFileFinds ==
  ASSUME NEW dir, IsDirectory(dir), NEW file, NEW is_dir \in BOOLEAN
  PROVE  FoundOrNot(dir, file, is_dir, findFile(dir, file, is_dir))
  <1> DEFINE N == dir.size + SectorSize
  <1>1. N \in Nat /\ dir.size \in Nat /\ SectorSize \in Nat
    BY IsoDirConstants DEF IsDirectory
  <1>2. PICK f : IsScan(dir, file, is_dir, f) /\ findFile(dir, file, is_dir) = f[0]
    BY FindFileScans
  <1>3. \A p \in 0 .. N : f[p] = ScanFrom(dir, file, is_dir, f, p)
    BY <1>2 DEF IsScan
  <1> DEFINE Good(p) == FoundOrNot(dir, file, is_dir, f[p])
             T == {d \in 0 .. N : ~Good(N - d)}
  <1>4. T = {}
    <2> SUFFICES ASSUME T # {} PROVE FALSE
      OBVIOUS
    <2> HIDE DEF Good
    <2>0. T \subseteq Nat
      BY <1>1
    <2>1. PICK d \in T : \A e \in T : d <= e
      <3> HIDE DEF T
      <3> QED
        BY <2>0, LeastNat
    <2> DEFINE p == N - d
    <2>2. p \in 0 .. N /\ ~Good(p)
      BY <1>1
    <2>3. \A q \in p + 1 .. N : Good(q)
      <3> TAKE q \in p + 1 .. N
      <3>1. N - q \in 0 .. N /\ ~(d <= N - q) /\ N - (N - q) = q
        BY <1>1
      <3> QED
        BY <2>1, <3>1
    <2>4. f[p] = ScanFrom(dir, file, is_dir, f, p)
      BY <1>3, <2>2
    <2> HIDE DEF p
    <2>5. CASE p >= dir.size
      BY <2>2, <2>4, <2>5 DEF ScanFrom, Good, FoundOrNot
    <2>6. CASE p < dir.size /\ p \notin DOMAIN dir.recs
      <3> DEFINE r == isoPos2RestSize(p)
      <3>1. r \in 1 .. SectorSize
        BY <2>2, RestFacts
      <3> HIDE DEF r
      <3>2. p + r \in p + 1 .. N
        BY <1>1, <2>2, <2>6, <3>1
      <3>3. f[p] = f[p + r]
        BY <1>1, <2>2, <2>4, <2>6 DEF ScanFrom, r
      <3> QED
        BY <2>2, <2>3, <3>2, <3>3 DEF Good
    <2>7. CASE p < dir.size /\ p \in DOMAIN dir.recs
      <3> DEFINE rec == dir.recs[p]
      <3>0. rec.len_dr \in Nat \ {0} /\ p + rec.len_dr <= dir.size /\ rec.len_fi \in Nat
        BY <2>7 DEF IsDirectory, IsRecord
      <3> HIDE DEF rec
      <3>1. p + rec.len_dr \in p + 1 .. N
        BY <1>1, <2>2, <3>0
      <3>2. \/ \E e \in {-18, -12, -11, -14} : f[p] = Error(e)
            \/ Matches(rec, file) /\ (is_dir => rec.dir) /\ f[p] = Found(rec)
            \/ f[p] = f[p + rec.len_dr]
        BY <1>1, <2>2, <2>4, <2>7 DEF ScanFrom, rec
      <3>3. CASE f[p] = f[p + rec.len_dr]
        BY <2>2, <2>3, <3>1, <3>3 DEF Good
      <3>4. CASE Matches(rec, file) /\ (is_dir => rec.dir) /\ f[p] = Found(rec)
        BY <2>2, <2>7, <3>4 DEF Good, FoundOrNot, rec
      <3>5. CASE \E e \in {-18, -12, -11, -14} : f[p] = Error(e)
        BY <2>2, <3>5 DEF Good, FoundOrNot
      <3> QED
        BY <3>2, <3>3, <3>4, <3>5
    <2> QED
      BY <1>1, <2>2, <2>5, <2>6, <2>7
  <1>5. Good(0)
    <2> HIDE DEF Good
    <2>1. N \in 0 .. N /\ N - N = 0
      BY <1>1
    <2> QED
      BY <1>4, <2>1
  <1> QED
    BY <1>2, <1>5

(***************************************************************************)
(* A record does not cross the start of a sector, and between a position   *)
(* and the end of its sector no other sector starts.                       *)
(***************************************************************************)
LEMMA MultipleOrder ==
  ASSUME NEW s \in Nat, s > 0, NEW a \in Int, NEW c \in Int, a * s < c * s
  PROVE  (a + 1) * s <= c * s
  <1>1. ~(c <= a)
    <2> SUFFICES ASSUME c <= a PROVE FALSE
      OBVIOUS
    <2>1. (a - c) * s >= 0
      OBVIOUS
    <2> QED
      BY <2>1
  <1>2. (c - a - 1) * s >= 0
    BY <1>1
  <1> QED
    BY <1>2

LEMMA NoCross ==
  ASSUME NEW q \in Nat, NEW p \in Nat, NEW l \in Nat, q < p, p % SectorSize = 0,
         (q % SectorSize) + l <= SectorSize
  PROVE  q + l <= p
  <1> DEFINE a == q \div SectorSize
             b == q % SectorSize
             c == p \div SectorSize
  <1>1. SectorSize \in Nat /\ SectorSize > 0
    BY IsoDirConstants
  <1>2. a \in Int /\ b \in Nat /\ q = a * SectorSize + b /\ b + l <= SectorSize
    BY <1>1
  <1>3. c \in Int /\ p = c * SectorSize
    BY <1>1
  <1> HIDE DEF a, b, c
  <1>4. a * SectorSize < c * SectorSize
    BY <1>1, <1>2, <1>3
  <1>5. (a + 1) * SectorSize <= c * SectorSize
    BY <1>1, <1>2, <1>3, <1>4, MultipleOrder
  <1> QED
    BY <1>1, <1>2, <1>3, <1>5

LEMMA RestOfSector ==
  ASSUME NEW p \in Nat, NEW r \in Nat, p < r, r < p + isoPos2RestSize(p)
  PROVE  r % SectorSize # 0
  <1> SUFFICES ASSUME r % SectorSize = 0 PROVE FALSE
    OBVIOUS
  <1> DEFINE a == p \div SectorSize
             b == p % SectorSize
             c == r \div SectorSize
  <1>1. SectorSize \in Nat /\ SectorSize > 0
    BY IsoDirConstants
  <1>2. a \in Int /\ b \in Nat /\ p = a * SectorSize + b /\ p + isoPos2RestSize(p) = (a + 1) * SectorSize
    BY <1>1 DEF isoPos2RestSize
  <1>3. c \in Int /\ r = c * SectorSize
    BY <1>1
  <1> HIDE DEF a, b, c
  <1>4. a * SectorSize < c * SectorSize
    BY <1>1, <1>2, <1>3
  <1>5. (a + 1) * SectorSize <= c * SectorSize
    BY <1>1, <1>2, <1>3, <1>4, MultipleOrder
  <1> QED
    BY <1>1, <1>2, <1>3, <1>5

(***************************************************************************)
(* The positions findFile can be at, and that no record lies in what it    *)
(* skips when there is none.                                               *)
(***************************************************************************)
Aligned(dir, p) == p % SectorSize = 0 \/ \E q \in DOMAIN dir.recs : q + dir.recs[q].len_dr = p

LEMMA RecordFacts ==
  ASSUME NEW dir, IsDirectory(dir), NEW q \in DOMAIN dir.recs
  PROVE  /\ q \in Nat /\ dir.recs[q].len_dr \in Nat \ {0} /\ dir.recs[q].len_fi \in Nat
         /\ (q % SectorSize) + dir.recs[q].len_dr <= SectorSize
         /\ q + dir.recs[q].len_dr <= dir.size
         /\ Aligned(dir, q)
         /\ \A p \in DOMAIN dir.recs : q < p => q + dir.recs[q].len_dr <= p
  BY DEF IsDirectory, IsRecord, Aligned

LEMMA NothingSkipped ==
  ASSUME NEW dir, IsDirectory(dir), NEW p \in Nat, Aligned(dir, p), p \notin DOMAIN dir.recs,
         NEW x \in DOMAIN dir.recs, p <= x
  PROVE  p + isoPos2RestSize(p) <= x
  <1> SUFFICES ASSUME ~(p + isoPos2RestSize(p) <= x) PROVE FALSE
    OBVIOUS
  <1> DEFINE e == p + isoPos2RestSize(p)
             S == {q \in DOMAIN dir.recs : p < q /\ q < e}
             End(q) == q + dir.recs[q].len_dr
  <1>1. e \in Nat
    <2>1. isoPos2RestSize(p) \in 1 .. SectorSize
      BY RestFacts
    <2> QED
      BY <2>1, IsoDirConstants
  <1>2. x \in S
    BY <1>1, RecordFacts
  <1>3. S \subseteq Nat
    BY RecordFacts
  <1>4. PICK r \in S : \A y \in S : r <= y
    <2> HIDE DEF S
    <2> QED
      BY <1>2, <1>3, LeastNat
  <1>5. r \in Nat /\ p < r /\ r < e /\ r \in DOMAIN dir.recs
    BY <1>3
  <1>6. r % SectorSize # 0
    BY <1>5, RestOfSector
  <1>7. PICK q \in DOMAIN dir.recs : End(q) = r
    BY <1>5, <1>6, RecordFacts DEF Aligned
  <1>8. q \in Nat /\ q < r
    BY <1>5, <1>7, RecordFacts
  <1>9. q < p
    <2>1. q # p /\ ~(p < q)
      <3>1. q \notin S
        BY <1>3, <1>4, <1>5, <1>8
      <3>2. q < e
        BY <1>1, <1>5, <1>8
      <3> QED
        BY <1>7, <3>1, <3>2
    <2> QED
      BY <1>8, <2>1
  <1>10. CASE p % SectorSize = 0
    <2>1. q + dir.recs[q].len_dr <= p
      BY <1>8, <1>9, <1>10, NoCross, RecordFacts
    <2> QED
      BY <1>5, <1>7, <2>1
  <1>11. ASSUME NEW z \in DOMAIN dir.recs, End(z) = p PROVE FALSE
    <2>1. z \in Nat /\ z < p
      BY <1>11, RecordFacts
    <2>2. CASE q = z
      BY <1>5, <1>7, <1>11, <2>2
    <2>3. CASE q < z
      <3>1. End(q) <= z
        BY <2>3, RecordFacts
      <3> QED
        BY <1>5, <1>7, <2>1, <3>1
    <2>4. CASE z < q
      <3>1. End(z) <= q
        BY <2>4, RecordFacts
      <3> QED
        BY <1>8, <1>9, <1>11, <3>1
    <2> QED
      BY <1>8, <2>1, <2>2, <2>3, <2>4
  <1> QED
    BY <1>10, <1>11 DEF Aligned

(***************************************************************************)
(* In a directory without a record taken for a corrupt one findFile        *)
(* returns the first record of that name, wherever the sectors end.        *)
(***************************************************************************)
IsFirst(dir, file, is_dir, p, r) ==
  LET Named(q) == q >= p /\ dir.recs[q].name.base = file
  IN  \/ (\A q \in DOMAIN dir.recs : ~Named(q)) /\ r = Error(-18)
      \/ \E q \in DOMAIN dir.recs :
           /\ Named(q) /\ \A x \in DOMAIN dir.recs : Named(x) => q <= x
           /\ r = IF is_dir /\ ~dir.recs[q].dir THEN Error(-14) ELSE Found(dir.recs[q])

LEMMA FirstLater ==
  ASSUME NEW dir, IsDirectory(dir), NEW file, NEW is_dir, NEW p \in Nat, NEW e \in Nat, NEW r,
         p <= e, \A x \in DOMAIN dir.recs : x >= p => x >= e \/ dir.recs[x].name.base # file,
         IsFirst(dir, file, is_dir, e, r)
  PROVE  IsFirst(dir, file, is_dir, p, r)
  <1>1. DOMAIN dir.recs \subseteq Nat
    BY RecordFacts
  <1>2. ASSUME NEW x \in DOMAIN dir.recs
        PROVE  (x >= p /\ dir.recs[x].name.base = file) <=> (x >= e /\ dir.recs[x].name.base = file)
    BY <1>1
  <1> QED
    BY <1>2 DEF IsFirst

LEMMA FindFileFirst ==
  ASSUME NEW dir, IsDirectory(dir), Acceptable(dir), NEW file, file \notin {Self, Parent},
         NEW is_dir \in BOOLEAN
  PROVE  IsFirst(dir, file, is_dir, 0, findFile(dir, file, is_dir))
  <1> DEFINE N == dir.size + SectorSize
  <1>1. N \in Nat /\ dir.size \in Nat /\ SectorSize \in Nat
    BY IsoDirConstants DEF IsDirectory
  <1>2. PICK f : IsScan(dir, file, is_dir, f) /\ findFile(dir, file, is_dir) = f[0]
    BY FindFileScans
  <1>3. \A p \in 0 .. N : f[p] = ScanFrom(dir, file, is_dir, f, p)
    BY <1>2 DEF IsScan
  <1> DEFINE Good(p) == Aligned(dir, p) => IsFirst(dir, file, is_dir, p, f[p])
             T == {d \in 0 .. N : ~Good(N - d)}
  <1>4. T = {}
    <2> SUFFICES ASSUME T # {} PROVE FALSE
      OBVIOUS
    <2> HIDE DEF Good
    <2>0. T \subseteq Nat
      BY <1>1
    <2>1. PICK d \in T : \A e \in T : d <= e
      <3> HIDE DEF T
      <3> QED
        BY <2>0, LeastNat
    <2> DEFINE p == N - d
    <2>2. p \in 0 .. N /\ ~Good(p)
      BY <1>1
    <2>3. \A q \in p + 1 .. N : Good(q)
      <3> TAKE q \in p + 1 .. N
      <3>1. N - q \in 0 .. N /\ ~(d <= N - q) /\ N - (N - q) = q
        BY <1>1
      <3> QED
        BY <2>1, <3>1
    <2>4. f[p] = ScanFrom(dir, file, is_dir, f, p)
      BY <1>3, <2>2
    <2> HIDE DEF p
    <2>a. p \in Nat /\ Aligned(dir, p) /\ ~IsFirst(dir, file, is_dir, p, f[p])
      BY <2>2 DEF Good
    <2>5. CASE p >= dir.size
      <3>1. f[p] = Error(-18)
        BY <2>4, <2>5 DEF ScanFrom
      <3>2. ASSUME NEW q \in DOMAIN dir.recs PROVE ~(q >= p)
        BY <1>1, <2>a, <2>5, RecordFacts
      <3> QED
        BY <2>a, <3>1, <3>2 DEF IsFirst
    <2>6. CASE p < dir.size /\ p \notin DOMAIN dir.recs
      <3> DEFINE r == isoPos2RestSize(p)
      <3>1. r \in 1 .. SectorSize /\ (p + r) % SectorSize = 0
        BY <2>2, RestFacts
      <3>2. \A x \in DOMAIN dir.recs : x >= p => x >= p + r
        <4> TAKE x \in DOMAIN dir.recs
        <4>1. x \in Nat
          BY RecordFacts
        <4>2. p <= x => p + r <= x
          BY <2>a, <2>6, NothingSkipped
        <4> HIDE DEF r
        <4> QED
          BY <2>a, <3>1, <4>1, <4>2
      <3>3. f[p] = f[p + r]
        BY <1>1, <2>2, <2>4, <2>6 DEF ScanFrom
      <3> HIDE DEF r
      <3>4. p + r \in p + 1 .. N /\ p + r \in Nat /\ p <= p + r
        BY <1>1, <2>2, <2>6, <3>1
      <3>5. IsFirst(dir, file, is_dir, p + r, f[p])
        BY <2>3, <3>1, <3>3, <3>4 DEF Good, Aligned
      <3> QED
        BY <2>a, <3>2, <3>4, <3>5, FirstLater
    <2>7. CASE p < dir.size /\ p \in DOMAIN dir.recs
      <3> DEFINE rec == dir.recs[p]
      <3>0. rec.len_dr \in Nat \ {0} /\ p + rec.len_dr <= dir.size
        BY <2>7, RecordFacts
      <3>1. ~Corrupt(rec) /\ rec.len_fi <= NameMax
        BY <2>7 DEF Acceptable
      <3>2. CASE rec.name.base = file
        <4>1. Matches(rec, file)
          BY <3>2 DEF Matches, normalizeName
        <4>2. f[p] = IF is_dir /\ ~rec.dir THEN Error(-14) ELSE Found(rec)
          BY <1>1, <2>2, <2>4, <2>7, <3>1, <4>1 DEF ScanFrom
        <4>3. \A x \in DOMAIN dir.recs : x >= p => p <= x
          BY <2>a, RecordFacts
        <4>4. p >= p
          BY <2>a
        <4> QED
          BY <2>a, <2>7, <3>2, <4>2, <4>3, <4>4 DEF IsFirst
      <3>3. CASE rec.name.base # file
        <4>1. ~Matches(rec, file)
          BY <3>3 DEF Matches, normalizeName
        <4>2. f[p] = f[p + rec.len_dr]
          <5>1. /\ dir.recs[p] = rec /\ ~(p >= dir.size) /\ p \in DOMAIN dir.recs
                /\ ~(~Corrupt(rec) /\ rec.len_fi > NameMax)
            BY <1>1, <2>2, <2>7, <3>1, IsoDirConstants, RecordFacts
          <5> HIDE DEF rec
          <5>2. ScanFrom(dir, file, is_dir, f, p) = f[p + rec.len_dr]
            BY <3>1, <4>1, <5>1 DEF ScanFrom
          <5> QED
            BY <2>4, <5>2
        <4>3. Aligned(dir, p + rec.len_dr)
          BY <2>7 DEF Aligned
        <4>4. \A x \in DOMAIN dir.recs : x >= p => x >= p + rec.len_dr \/ dir.recs[x].name.base # file
          <5> TAKE x \in DOMAIN dir.recs
          <5>1. CASE x = p
            BY <3>3, <5>1
          <5>2. CASE x > p
            BY <2>a, <2>7, <3>0, <5>2, RecordFacts
          <5> QED
            BY <2>a, <5>1, <5>2, RecordFacts
        <4> HIDE DEF rec
        <4>5. p + rec.len_dr \in p + 1 .. N /\ p + rec.len_dr \in Nat /\ p <= p + rec.len_dr
          BY <1>1, <2>2, <3>0
        <4>6. IsFirst(dir, file, is_dir, p + rec.len_dr, f[p])
          BY <2>3, <4>2, <4>3, <4>5 DEF Good
        <4> QED
          BY <2>a, <4>4, <4>5, <4>6, FirstLater
      <3> QED
        BY <3>2, <3>3
    <2> QED
      BY <1>1, <2>2, <2>5, <2>6, <2>7
  <1>5. Good(0)
    <2> HIDE DEF Good
    <2>1. N \in 0 .. N /\ N - N = 0
      BY <1>1
    <2> QED
      BY <1>4, <2>1
  <1>6. Aligned(dir, 0)
    BY IsoDirConstants DEF Aligned
  <1> QED
    BY <1>2, <1>5, <1>6

(***************************************************************************)
(* What isoGetFileInfo returns: a natural size; and, of a disc without     *)
(* corrupt records, what its directories say of the path.                  *)
(***************************************************************************)
LEMMA FileInfoSize ==
  ASSUME NEW disc, IsDisc(disc), NEW folder, NEW file
  PROVE  isoGetFileInfo(disc, folder, file).size \in Nat
  <1> DEFINE r == findFile(disc.root, folder, TRUE)
  <1>1. IsDirectory(disc.root)
    BY DEF IsDisc
  <1>2. FoundOrNot(disc.root, folder, TRUE, r)
    BY <1>1, FindFileFinds
  <1>0. isoGetFileInfo(disc, folder, file) = IF r.ret < 0 THEN r ELSE findFile(disc.at[r.lba], file, FALSE)
    BY DEF isoGetFileInfo
  <1> HIDE DEF r
  <1>3. CASE \E e \in {-18, -12, -11, -14} : r = Error(e)
    <2>1. r.ret < 0 /\ r.size = 0
      BY <1>3 DEF Error
    <2> QED
      BY <1>0, <2>1
  <1>4. ASSUME NEW q \in DOMAIN disc.root.recs, Matches(disc.root.recs[q], folder),
               disc.root.recs[q].dir, r = Found(disc.root.recs[q])
        PROVE  isoGetFileInfo(disc, folder, file).size \in Nat
    <2>1. r.ret = 0 /\ r.lba \in DOMAIN disc.at
      <3>1. disc.root.recs[q].lba \in DOMAIN disc.at
        BY <1>4 DEF Matches, IsDisc
      <3>2. r.ret = 0 /\ r.lba = disc.root.recs[q].lba
        BY <1>4 DEF Found
      <3> QED
        BY <3>1, <3>2
    <2> DEFINE dir == disc.at[r.lba]
               s == findFile(dir, file, FALSE)
    <2>2. IsDirectory(dir)
      BY <2>1 DEF IsDisc
    <2>3. FoundOrNot(dir, file, FALSE, s)
      BY <2>2, FindFileFinds
    <2>4. isoGetFileInfo(disc, folder, file) = s
      BY <1>0, <2>1
    <2> HIDE DEF s, dir
    <2>5. s.size \in Nat
      BY <2>2, <2>3 DEF FoundOrNot, Error, Found, IsDirectory, IsRecord
    <2> QED
      BY <2>4, <2>5
  <1> QED
    BY <1>2, <1>3, <1>4 DEF FoundOrNot

LEMMA LeastIsChosen ==
  ASSUME NEW S, S \subseteq Nat, NEW q \in S, \A x \in S : q <= x
  PROVE  (CHOOSE p \in S : \A x \in S : p <= x) = q
  <1>1. ASSUME NEW p \in S, \A x \in S : p <= x PROVE p = q
    <2>1. p <= q /\ q <= p /\ p \in Nat /\ q \in Nat
      BY <1>1
    <2> QED
      BY <2>1
  <1> QED
    BY <1>1

FileAt(dir, file) == Lookup(dir, LAMBDA rec : rec.name.base = file)

LEMMA FirstIsLookup ==
  ASSUME NEW dir, IsDirectory(dir), NEW file, NEW r, IsFirst(dir, file, FALSE, 0, r)
  PROVE  r = FileAt(dir, file)
  <1> DEFINE at == {p \in DOMAIN dir.recs : dir.recs[p].name.base = file}
  <1>1. at \subseteq Nat
    BY RecordFacts
  <1>2. FileAt(dir, file) =
          IF at = {} THEN Error(-18) ELSE Found(dir.recs[CHOOSE p \in at : \A q \in at : p <= q])
    BY DEF FileAt, Lookup
  <1>3. CASE (\A q \in DOMAIN dir.recs : q >= 0 => dir.recs[q].name.base # file) /\ r = Error(-18)
    <2>1. at = {}
      BY <1>1, <1>3
    <2> QED
      BY <1>2, <1>3, <2>1
  <1>4. ASSUME NEW q \in DOMAIN dir.recs, dir.recs[q].name.base = file,
               \A x \in DOMAIN dir.recs : x >= 0 /\ dir.recs[x].name.base = file => q <= x,
               r = Found(dir.recs[q])
        PROVE  r = FileAt(dir, file)
    <2>1. q \in at /\ \A x \in at : q <= x
      BY <1>1, <1>4
    <2> HIDE DEF at
    <2>2. (CHOOSE p \in at : \A x \in at : p <= x) = q
      BY <1>1, <2>1, LeastIsChosen
    <2> QED
      BY <1>2, <1>4, <2>1, <2>2
  <1> QED
    BY <1>3, <1>4 DEF IsFirst

LEMMA FileInfoRight ==
  ASSUME NEW disc, IsDisc(disc), NEW folder, NEW file,
         folder \notin {Self, Parent}, file \notin {Self, Parent}, AcceptablePath(disc, folder)
  PROVE  LET r == isoGetFileInfo(disc, folder, file)
             o == LookupPath(disc, folder, file)
         IN  (r.ret < 0 <=> o.ret < 0) /\ (~(r.ret < 0) => r.size = o.size)
  <1> DEFINE root == disc.root
             r1 == findFile(root, folder, TRUE)
             at == {p \in DOMAIN root.recs : root.recs[p].name.base = folder /\ root.recs[p].dir}
             o1 == IF at = {} THEN Error(-18)
                   ELSE Found(root.recs[CHOOSE p \in at : \A q \in at : p <= q])
  <1>1. IsDirectory(root) /\ Acceptable(root) /\ (o1.ret = 0 => Acceptable(disc.at[o1.lba]))
    BY DEF IsDisc, AcceptablePath, Lookup
  <1> DEFINE got == isoGetFileInfo(disc, folder, file)
             l   == LookupPath(disc, folder, file)
  <1>2. got = IF r1.ret < 0 THEN r1 ELSE findFile(disc.at[r1.lba], file, FALSE)
    BY DEF isoGetFileInfo
  <1>3. l = IF o1.ret < 0 THEN o1 ELSE FileAt(disc.at[o1.lba], file)
    BY DEF LookupPath, Lookup, FileAt
  <1>a. IsFirst(root, folder, TRUE, 0, r1)
    BY <1>1, FindFileFirst
  <1>b. DOMAIN root.recs \subseteq Nat /\ at \subseteq Nat
    BY <1>1, RecordFacts
  <1>c. at = {} => o1 = Error(-18)
    OBVIOUS
  <1>d. ASSUME NEW q \in at, \A x \in at : q <= x PROVE o1 = Found(root.recs[q])
    <2> HIDE DEF at
    <2>1. (CHOOSE p \in at : \A x \in at : p <= x) = q
      BY <1>b, <1>d, LeastIsChosen
    <2> QED
      BY <2>1
  <1> DEFINE Same == (got.ret < 0 <=> l.ret < 0) /\ (~(got.ret < 0) => got.size = l.size)
  <1> HIDE DEF r1, o1, got, l
  <1>4. ASSUME \A q \in DOMAIN root.recs : q >= 0 => root.recs[q].name.base # folder, r1 = Error(-18)
        PROVE  Same
    <2>1. at = {}
      BY <1>b, <1>4
    <2>2. r1.ret < 0 /\ o1 = r1
      BY <1>4, <1>c, <2>1 DEF Error
    <2> QED
      BY <1>2, <1>3, <2>2
  <1>5. ASSUME NEW q \in DOMAIN root.recs, root.recs[q].name.base = folder,
               \A x \in DOMAIN root.recs : x >= 0 /\ root.recs[x].name.base = folder => q <= x,
               r1 = IF ~root.recs[q].dir THEN Error(-14) ELSE Found(root.recs[q])
        PROVE  Same
    <2>1. CASE ~root.recs[q].dir
      <3>1. at = {}
        <4>1. \A x \in DOMAIN root.recs : root.recs[x].name.base = folder => root.recs[x].dir = root.recs[q].dir
          BY <1>1, <1>5 DEF IsDirectory
        <4> QED
          BY <2>1, <4>1
      <3>2. r1.ret < 0 /\ o1.ret < 0
        BY <1>5, <1>c, <2>1, <3>1 DEF Error
      <3> QED
        BY <1>2, <1>3, <3>2
    <2>2. CASE root.recs[q].dir
      <3>1. q \in at /\ \A x \in at : q <= x
        BY <1>b, <1>5, <2>2
      <3>2. o1 = Found(root.recs[q])
        BY <1>d, <3>1
      <3>3. r1 = o1
        BY <1>5, <2>2, <3>2
      <3>4. o1.ret = 0 /\ o1.lba = root.recs[q].lba
        BY <3>2 DEF Found
      <3>5. o1.lba \in DOMAIN disc.at
        <4>1. root.recs[q].lba \in DOMAIN disc.at
          BY <1>5, <2>2 DEF IsDisc
        <4> QED
          BY <3>4, <4>1
      <3> DEFINE dir == disc.at[o1.lba]
      <3>6. IsDirectory(dir) /\ Acceptable(dir)
        BY <1>1, <3>4, <3>5 DEF IsDisc
      <3>7. got = findFile(dir, file, FALSE) /\ l = FileAt(dir, file)
        BY <1>2, <1>3, <3>3, <3>4
      <3> HIDE DEF dir
      <3>8. IsFirst(dir, file, FALSE, 0, findFile(dir, file, FALSE))
        BY <3>6, FindFileFirst
      <3>9. findFile(dir, file, FALSE) = FileAt(dir, file)
        BY <3>6, <3>8, FirstIsLookup
      <3> QED
        BY <3>7, <3>9
    <2> QED
      BY <2>1, <2>2
  <1>6. Same
    <2> HIDE DEF Same, root
    <2>1. CASE (\A q \in DOMAIN root.recs : q >= 0 => root.recs[q].name.base # folder) /\ r1 = Error(-18)
      BY <1>4, <2>1
    <2>2. CASE \E q \in DOMAIN root.recs :
                 /\ root.recs[q].name.base = folder
                 /\ \A x \in DOMAIN root.recs : x >= 0 /\ root.recs[x].name.base = folder => q <= x
                 /\ r1 = IF ~root.recs[q].dir THEN Error(-14) ELSE Found(root.recs[q])
      BY <1>5, <2>2
    <2> QED
      BY <1>a, <2>1, <2>2 DEF IsFirst
  <1> QED
    BY <1>6 DEF got, l

-----------------------------------------------------------------------------
(***************************************************************************)
(* Cells in memory: a function from 0 on, as long as its size.             *)
(***************************************************************************)
IsCells(f) == Size(f) \in Nat /\ f = [b \in 0 .. Size(f) - 1 |-> f[b]]

LEMMA SizeOfInterval ==
  ASSUME NEW m \in Nat, NEW f, DOMAIN f = 0 .. m - 1
  PROVE  Size(f) = m
  <1>1. Cardinality(0 .. m - 1) = IF 0 > m - 1 THEN 0 ELSE m - 1 - 0 + 1
    BY FS_Interval
  <1> QED
    BY <1>1 DEF Size

LEMMA CellsFacts ==
  ASSUME NEW m \in Nat, NEW f, f = [b \in 0 .. m - 1 |-> f[b]]
  PROVE  IsCells(f) /\ Size(f) = m
  <1>1. DOMAIN f = 0 .. m - 1
    OBVIOUS
  <1>2. Size(f) = m
    BY <1>1, SizeOfInterval
  <1> QED
    BY <1>2 DEF IsCells

LEMMA ContentCells ==
  ASSUME NEW what, NEW m \in Nat
  PROVE  IsCells(Content(what, m)) /\ Size(Content(what, m)) = m
  <1> DEFINE f == Content(what, m)
  <1>1. f = [b \in 0 .. m - 1 |-> f[b]]
    BY DEF Content
  <1> HIDE DEF f
  <1>2. IsCells(f) /\ Size(f) = m
    BY <1>1, CellsFacts
  <1> QED
    BY <1>2 DEF f

LEMMA EmptyCells == IsCells(Empty) /\ Size(Empty) = 0
  <1>1. 0 .. 0 - 1 = {}
    OBVIOUS
  <1>2. Empty = [b \in 0 .. 0 - 1 |-> Empty[b]]
    BY <1>1 DEF Empty
  <1> QED
    BY <1>2, CellsFacts

LEMMA SfoCells ==
  ASSUME NEW cells, IsCells(cells)
  PROVE  IsCells(PutSfo(cells)) /\ Size(PutSfo(cells)) = Size(cells)
  <1> DEFINE m == Size(cells)
             f == PutSfo(cells)
  <1>1. m \in Nat /\ DOMAIN cells = 0 .. m - 1
    BY DEF IsCells
  <1>2. f = [b \in 0 .. m - 1 |-> f[b]]
    BY <1>1 DEF PutSfo
  <1> HIDE DEF f, m
  <1>3. IsCells(f) /\ Size(f) = m
    BY <1>1, <1>2, CellsFacts
  <1> QED
    BY <1>3 DEF f, m

LEMMA PgdCells ==
  ASSUME NEW data, NEW size \in Nat, NEW key
  PROVE  /\ IsCells(EncryptPgd(data, size, key))
         /\ PgdSize(size) \in Nat /\ Size(EncryptPgd(data, size, key)) = PgdSize(size)
  <1> DEFINE f == EncryptPgd(data, size, key)
             m == PgdSize(size)
  <1>1. m \in Nat
    <2>1. Align(size, Unit) \in Nat
      BY Sizes, CeilNat
    <2>2. block_nr(Align(size, Unit)) \in Nat
      BY <2>1, PgdBlocks, CeilNat DEF block_nr
    <2> QED
      BY <2>1, <2>2 DEF PgdSize, PgdData
  <1>2. f = [b \in 0 .. m - 1 |-> f[b]]
    BY DEF EncryptPgd
  <1> HIDE DEF f, m
  <1>3. IsCells(f) /\ Size(f) = m
    BY <1>1, <1>2, CellsFacts
  <1> QED
    BY <1>1, <1>3 DEF f, m

LEMMA PgdsLeftCells ==
  ASSUME NEW size \in Nat, NEW left \in PgdsLeft(size)
  PROVE  IsCells(left) /\ Size(left) = PgdSize(size)
  <1>1. PICK made : made = PgdOf(size)
    OBVIOUS
  <1>2. IsCells(made) /\ Size(made) = PgdSize(size)
    BY <1>1, PgdCells DEF PgdOf
  <1>3. left = made \/ left = LastMacLost(size, made)
    BY <1>1 DEF PgdsLeft
  <1>4. DOMAIN left = DOMAIN made
    BY <1>3 DEF LastMacLost
  <1>5. left = [b \in DOMAIN left |-> left[b]]
    BY <1>2, <1>3 DEF LastMacLost, IsCells
  <1> QED
    BY <1>2, <1>4, <1>5 DEF IsCells, Size

LEMMA DataPspCells ==
  ASSUME IsCells(startdat), IsCells(pgd), NEW sfo
  PROVE  IsCells(DataPsp(sfo))
  <1> DEFINE f == DataPsp(sfo)
             m == DataPspEnd + (IF Size(startdat) > 0 THEN Size(startdat) + Gap ELSE 0) + Size(pgd)
  <1>1. m \in Nat
    BY DEF IsCells, DataPspEnd, Gap
  <1>2. f = [b \in 0 .. m - 1 |-> f[b]]
    BY DEF DataPsp
  <1> HIDE DEF f, m
  <1>3. IsCells(f)
    BY <1>1, <1>2, CellsFacts
  <1> QED
    BY <1>3 DEF f

(***************************************************************************)
(* What is written at a place, and what is left around it.                 *)
(***************************************************************************)
LEMMA WriteFacts ==
  ASSUME NEW l \in Nat, NEW m \in Nat, NEW at \in 0 .. l, NEW f, NEW cells,
         DOMAIN f = 0 .. l - 1, DOMAIN cells = 0 .. m - 1
  PROVE  LET g == WriteAt(f, at, cells)
             e == IF at + m > l THEN at + m ELSE l
         IN  e \in Nat /\ DOMAIN g = 0 .. e - 1 /\ Size(g) = e
  <1> DEFINE g == WriteAt(f, at, cells)
             e == IF at + m > l THEN at + m ELSE l
             D == DOMAIN f \cup {at + k : k \in DOMAIN cells}
  <1>1. g = [b \in D |-> IF b - at \in DOMAIN cells THEN cells[b - at] ELSE f[b]]
    BY DEF WriteAt
  <1>2. e \in Nat
    OBVIOUS
  <1>3. D = 0 .. e - 1
    <2>1. ASSUME NEW b \in 0 .. e - 1 PROVE b \in D
      <3>1. CASE b < l
        BY <3>1
      <3>2. CASE b >= l
        <4>1. b - at \in 0 .. m - 1 /\ at + (b - at) = b
          BY <3>2
        <4> QED
          BY <4>1
      <3> QED
        BY <3>1, <3>2
    <2>2. ASSUME NEW b \in D PROVE b \in 0 .. e - 1
      OBVIOUS
    <2> HIDE DEF D, e
    <2> QED
      BY <2>1, <2>2
  <1> HIDE DEF D, e, g
  <1>4. DOMAIN g = 0 .. e - 1
    BY <1>1, <1>3
  <1>5. Size(g) = e
    BY <1>2, <1>4, SizeOfInterval
  <1> QED
    BY <1>2, <1>4, <1>5 DEF g, e

LEMMA WriteInside ==
  ASSUME NEW l \in Nat, NEW m \in Nat, NEW at \in 0 .. l, NEW f, NEW cells, at + m <= l,
         DOMAIN f = 0 .. l - 1, DOMAIN cells = 0 .. m - 1,
         NEW g, g = WriteAt(f, at, cells)
  PROVE  DOMAIN g = 0 .. l - 1
  <1> DEFINE e == IF at + m > l THEN at + m ELSE l
  <1>1. e = l
    OBVIOUS
  <1>2. DOMAIN WriteAt(f, at, cells) = 0 .. e - 1
    BY WriteFacts, SMTT(30)
  <1> QED
    BY <1>1, <1>2

LEMMA WriteCells ==
  ASSUME NEW l \in Nat, NEW m \in Nat, NEW at \in 0 .. l, NEW f, NEW cells,
         DOMAIN f = 0 .. l - 1, DOMAIN cells = 0 .. m - 1,
         NEW g, g = WriteAt(f, at, cells)
  PROVE  /\ \A b \in 0 .. m - 1 : g[at + b] = cells[b]
         /\ \A b \in 0 .. l - 1 : b \notin at .. at + m - 1 => g[b] = f[b]
  <1> DEFINE D == DOMAIN f \cup {at + k : k \in DOMAIN cells}
  <1>1. g = [b \in D |-> IF b - at \in DOMAIN cells THEN cells[b - at] ELSE f[b]]
    BY DEF WriteAt
  <1>2. ASSUME NEW b \in 0 .. m - 1 PROVE g[at + b] = cells[b]
    <2>1. at + b \in D
      BY <1>2
    <2>2. (at + b) - at = b
      OBVIOUS
    <2> HIDE DEF D
    <2> QED
      BY <1>1, <2>1, <2>2
  <1>3. ASSUME NEW b \in 0 .. l - 1, b \notin at .. at + m - 1 PROVE g[b] = f[b]
    <2>1. b \in D /\ b - at \notin 0 .. m - 1
      BY <1>3
    <2> HIDE DEF D
    <2> QED
      BY <1>1, <2>1
  <1> QED
    BY <1>2, <1>3

(***************************************************************************)
(* The offsets of the sections of a PBP: each where the one before ends,   *)
(* DATA.PSAR on the next page.                                             *)
(***************************************************************************)
LEMMA AlignFacts ==
  ASSUME NEW m \in Nat, NEW a \in Nat, a > 0
  PROVE  Align(m, a) \in Nat /\ m <= Align(m, a) /\ Align(m, a) < m + a /\ Align(m, a) % a = 0
  <1> DEFINE q == (m + a - 1) \div a
  <1>1. q \in Int /\ q * a <= m + a - 1 /\ m + a - 1 < q * a + a
    OBVIOUS
  <1>2. q \in Nat
    OBVIOUS
  <1>3. q * a \in Nat /\ (q * a) % a = 0
    BY <1>2
  <1>4. Align(m, a) = q * a
    BY DEF Align
  <1> HIDE DEF q
  <1> QED
    BY <1>1, <1>3, <1>4

IsOffsets(secs, off) ==
  off = [s \in 0 .. 7 |-> IF s = 0 THEN PbpHeaderSize ELSE off[s - 1] + Size(secs[s - 1])]

Sized(secs) == \A s \in 0 .. 6 : Size(secs[s]) \in Nat

LEMMA OffsetsExist ==
  ASSUME NEW secs
  PROVE  \E off : IsOffsets(secs, off)
  <1> DEFINE o1 == PbpHeaderSize + Size(secs[0])
             o2 == o1 + Size(secs[1])
             o3 == o2 + Size(secs[2])
             o4 == o3 + Size(secs[3])
             o5 == o4 + Size(secs[4])
             o6 == o5 + Size(secs[5])
             o7 == o6 + Size(secs[6])
             w == [s \in 0 .. 7 |-> IF s = 0 THEN PbpHeaderSize ELSE IF s = 1 THEN o1
                                    ELSE IF s = 2 THEN o2 ELSE IF s = 3 THEN o3
                                    ELSE IF s = 4 THEN o4 ELSE IF s = 5 THEN o5
                                    ELSE IF s = 6 THEN o6 ELSE o7]
  <1>1. ASSUME NEW s \in 0 .. 7
        PROVE  w[s] = IF s = 0 THEN PbpHeaderSize ELSE w[s - 1] + Size(secs[s - 1])
    <2>1. s \in {0, 1, 2, 3, 4, 5, 6, 7}
      OBVIOUS
    <2> QED
      BY <2>1
  <1>2. w = [s \in 0 .. 7 |-> w[s]]
    OBVIOUS
  <1> HIDE DEF w
  <1>3. IsOffsets(secs, w)
    BY <1>1, <1>2 DEF IsOffsets
  <1> QED
    BY <1>3

LEMMA OffsetsFacts ==
  ASSUME NEW secs, Sized(secs)
  PROVE  LET off == OffsetsOf(secs)
         IN  /\ \A s \in 0 .. 7 : off[s] \in Nat
             /\ off[0] = PbpHeaderSize
             /\ \A s \in 0 .. 5 : off[s + 1] = off[s] + Size(secs[s])
             /\ off[6] + Size(secs[6]) <= off[7] /\ off[7] % Page = 0
  <1> DEFINE o == CHOOSE f : IsOffsets(secs, f)
             off == OffsetsOf(secs)
  <1>1. IsOffsets(secs, o)
    BY OffsetsExist
  <1>2. off = [s \in 0 .. 7 |-> IF s = 7 THEN Align(o[7], Page) ELSE o[s]]
    BY DEF OffsetsOf, IsOffsets
  <1> HIDE DEF o, off
  <1>3. \A s \in 0 .. 7 : o[s] = IF s = 0 THEN PbpHeaderSize ELSE o[s - 1] + Size(secs[s - 1])
    BY <1>1 DEF IsOffsets
  <1>4. o[0] = PbpHeaderSize /\ \A s \in 0 .. 6 : o[s + 1] = o[s] + Size(secs[s])
    <2>1. ASSUME NEW s \in 0 .. 6 PROVE o[s + 1] = o[s] + Size(secs[s])
      <3>1. s + 1 \in 0 .. 7 /\ s + 1 # 0 /\ (s + 1) - 1 = s
        OBVIOUS
      <3> QED
        BY <1>3, <3>1
    <2> QED
      BY <1>3, <2>1
  <1>5. o[0] \in Nat
    BY <1>4 DEF PbpHeaderSize
  <1>6. o[1] \in Nat
    BY <1>4, <1>5 DEF Sized
  <1>7. o[2] \in Nat
    BY <1>4, <1>6 DEF Sized
  <1>8. o[3] \in Nat
    BY <1>4, <1>7 DEF Sized
  <1>9. o[4] \in Nat
    BY <1>4, <1>8 DEF Sized
  <1>10. o[5] \in Nat
    BY <1>4, <1>9 DEF Sized
  <1>11. o[6] \in Nat
    BY <1>4, <1>10 DEF Sized
  <1>12. o[7] \in Nat /\ o[7] = o[6] + Size(secs[6])
    BY <1>4, <1>11 DEF Sized
  <1>13. /\ off[7] \in Nat /\ o[7] <= off[7] /\ off[7] % Page = 0
    <2>1. off[7] = Align(o[7], Page)
      BY <1>2
    <2>2. Page \in Nat /\ Page > 0
      BY NpConstants
    <2> QED
      BY <1>12, <2>1, <2>2, AlignFacts
  <1>14. \A s \in 0 .. 6 : off[s] = o[s]
    BY <1>2
  <1>15. \A s \in 0 .. 7 : off[s] \in Nat
    <2> TAKE s \in 0 .. 7
    <2>1. s \in {0, 1, 2, 3, 4, 5, 6, 7}
      OBVIOUS
    <2> QED
      BY <1>5, <1>6, <1>7, <1>8, <1>9, <1>10, <1>11, <1>13, <1>14, <2>1
  <1>16. \A s \in 0 .. 5 : off[s + 1] = off[s] + Size(secs[s])
    <2> TAKE s \in 0 .. 5
    <2>1. s \in 0 .. 6 /\ s + 1 \in 0 .. 6
      OBVIOUS
    <2> QED
      BY <1>4, <1>14, <2>1
  <1> QED
    BY <1>4, <1>12, <1>13, <1>14, <1>15, <1>16 DEF off

LEMMA PbpCells ==
  ASSUME NEW secs, Sized(secs)
  PROVE  /\ IsCells(Pbp(secs)) /\ Size(Pbp(secs)) = OffsetsOf(secs)[7] + Page
         /\ OffsetsOf(secs)[7] \in Nat
  <1> DEFINE f == Pbp(secs)
             m == OffsetsOf(secs)[7] + Page
  <1>1. OffsetsOf(secs)[7] \in Nat
    BY OffsetsFacts
  <1>2. m \in Nat
    BY <1>1, Sizes
  <1>3. f = [b \in 0 .. m - 1 |-> PbpCell(secs, OffsetsOf(secs), b)]
    BY <1>1, Sizes DEF Pbp
  <1> HIDE DEF f, m
  <1>4. f = [b \in 0 .. m - 1 |-> f[b]]
    BY <1>3
  <1>5. IsCells(f) /\ Size(f) = m
    BY <1>2, <1>4, CellsFacts
  <1> QED
    BY <1>1, <1>5 DEF f, m

(***************************************************************************)
(* Type correctness, and how long what is in memory and in the output is   *)
(* at each step: the output is empty until the PBP is written, then ends   *)
(* where the image's table goes, and then with the last block.             *)
(***************************************************************************)
CellsInvariant ==
  /\ IsCells(startdat) /\ IsCells(pgd)
  /\ DOMAIN bufs = 1 .. Len(Names)
  /\ \A k \in 1 .. Len(Names) : bufs[k] = None \/ IsCells(bufs[k])

ArgsInvariant ==
  /\ pc \in Steps /\ spoilt \in BOOLEAN
  /\ startdat_name \in 1 .. Len(in.extra) \cup {None}
  /\ opnssmp_name \in 1 .. Len(in.extra) \cup {None}
  /\ n \in 1 .. Len(Names) + 1
  /\ pc \in {"start", "extra"} => n <= Len(in.extra) + 1

OutInvariant ==
  /\ len \in Nat /\ DOMAIN out = 0 .. len - 1
  /\ table_offset \in 0 .. len
  /\ pc \in Before \ {"table"} => len = 0 /\ table_offset = 0
  /\ pc = "table" => len = table_offset
  /\ pc = "block" => /\ iso_offset >= Page + table_size
                     /\ len = table_offset + iso_offset - Page
  /\ pc \in {"block", "done"} => DOMAIN table = 0 .. table_size - 1
  /\ i <= iso_blocks

TypeInvariant == StreamInvariant /\ CellsInvariant /\ ArgsInvariant /\ OutInvariant

LEMMA NamesLength == Len(Names) = 6
  BY DEF Names

LEMMA TypeInvariantGives == TypeInvariant => TypeOK
  <1> SUFFICES ASSUME TypeInvariant PROVE TypeOK
    OBVIOUS
  <1>1. Len(in.extra) \in 0 .. 2
    BY NpConstants DEF TypeInvariant, StreamInvariant, IsInput
  <1>2. startdat_name \in 1 .. 2 \cup {None} /\ opnssmp_name \in 1 .. 2 \cup {None}
    <2>1. 1 .. Len(in.extra) \subseteq 1 .. 2
      BY <1>1
    <2> QED
      BY <2>1 DEF TypeInvariant, ArgsInvariant
  <1>3. DOMAIN startdat \subseteq Nat /\ DOMAIN pgd \subseteq Nat
    BY DEF TypeInvariant, CellsInvariant, IsCells
  <1>4. i \in 0 .. iso_blocks /\ DOMAIN streams = 0 .. i - 1
    <2>1. iso_blocks \in Nat
      BY IsoSizes DEF TypeInvariant, StreamInvariant
    <2> QED
      BY <2>1 DEF TypeInvariant, StreamInvariant, StreamsInOrder, OutInvariant
  <1>5. DOMAIN table = (IF pc \in {"block", "done"} THEN 0 .. table_size - 1 ELSE DOMAIN table)
    BY DEF TypeInvariant, OutInvariant
  <1>6. in \in Inputs /\ iso_offset \in Nat /\ iso_at \in 0 .. iso_size
    BY DEF TypeInvariant, StreamInvariant
  <1>7. DOMAIN bufs = 1 .. Len(Names)
    BY DEF TypeInvariant, CellsInvariant
  <1>8. pc \in Steps /\ spoilt \in BOOLEAN /\ n \in 1 .. Len(Names) + 1
    BY DEF TypeInvariant, ArgsInvariant
  <1>9. len \in Nat /\ DOMAIN out = 0 .. len - 1 /\ table_offset \in 0 .. len
    BY DEF TypeInvariant, OutInvariant
  <1> QED
    BY <1>2, <1>3, <1>4, <1>5, <1>6, <1>7, <1>8, <1>9 DEF TypeOK

LEMMA TypeInit == Init => TypeInvariant
  <1> SUFFICES ASSUME Init PROVE TypeInvariant
    OBVIOUS
  <1>1. StreamInvariant
    BY StreamInit
  <1>2. CellsInvariant
    BY EmptyCells DEF Init, CellsInvariant
  <1>3. Len(in.extra) \in 0 .. 2 /\ iso_blocks \in Nat
    BY NpConstants, IsoSizes DEF Init, IsInput
  <1>4. ArgsInvariant
    <2>1. pc \in Steps /\ spoilt \in BOOLEAN
      BY DEF Init, Steps
    <2>2. /\ startdat_name \in 1 .. Len(in.extra) \cup {None}
          /\ opnssmp_name \in 1 .. Len(in.extra) \cup {None}
      BY DEF Init
    <2>3. n = 1
      BY DEF Init
    <2> QED
      BY <1>3, <2>1, <2>2, <2>3, NamesLength DEF ArgsInvariant
  <1>5. DOMAIN out = 0 .. len - 1
    BY DEF Init, Empty
  <1>6. OutInvariant
    BY <1>3, <1>5 DEF Init, OutInvariant, Before
  <1> QED
    BY <1>1, <1>2, <1>4, <1>6 DEF TypeInvariant

LEMMA TableFits ==
  ASSUME in \in Inputs
  PROVE  table_size \in Nat /\ iso_blocks \in Nat
  BY IsoSizes DEF table_size, EntrySize

LEMMA SectionsSized ==
  ASSUME CellsInvariant, NEW sfo, IsCells(sfo)
  PROVE  Sized(Sections(sfo)) /\ \A s \in 0 .. 6 : IsCells(Sections(sfo)[s])
  <1> DEFINE secs == Sections(sfo)
  <1>1. IsCells(DataPsp(sfo))
    BY DataPspCells DEF CellsInvariant
  <1>2. ASSUME NEW s \in 0 .. 6 PROVE IsCells(secs[s])
    <2>1. CASE s = 0
      BY <2>1 DEF Sections
    <2>2. CASE s = 6
      BY <1>1, <2>2 DEF Sections
    <2>3. CASE s # 0 /\ s # 6
      <3>1. s + 1 \in 1 .. Len(Names)
        BY <2>3, NamesLength
      <3>2. secs[s] = IF bufs[s + 1] = None THEN Empty ELSE bufs[s + 1]
        BY <2>3 DEF Sections
      <3> QED
        BY <3>1, <3>2, EmptyCells DEF CellsInvariant
    <2> QED
      BY <2>1, <2>2, <2>3
  <1> QED
    BY <1>2 DEF IsCells, Sized

(***************************************************************************)
(* A block of the image at the end of the output.                          *)
(***************************************************************************)
LEMMA EntryCells ==
  ASSUME NEW p
  PROVE  DOMAIN encrypt_table(p) = 0 .. EntrySize - 1
  BY DEF encrypt_table

LEMMA PutBlockCells ==
  ASSUME TypeInvariant, pc = "block", i < iso_blocks,
         NEW wbuf, NEW wsize \in Nat, PutBlock(wbuf, wsize)
  PROVE  /\ Align(wsize, Unit) \in Nat /\ wsize <= Align(wsize, Unit)
         /\ len' = len + Align(wsize, Unit) /\ len' \in Nat /\ DOMAIN out' = 0 .. len' - 1
         /\ iso_offset' = iso_offset + Align(wsize, Unit)
         /\ DOMAIN table' = 0 .. table_size - 1
         /\ i' = i + 1 /\ i' <= iso_blocks
  <1> DEFINE crypted == Cipher(Part(wbuf, 0, wsize), header_key, version_key, Seed)
             padded  == [b \in 0 .. Align(wsize, Unit) - 1 |-> IF b < wsize THEN crypted[b] ELSE Zero]
             entry   == encrypt_table(Entry(iso_offset, wsize, crypted))
  <1>1. Align(wsize, Unit) \in Nat /\ wsize <= Align(wsize, Unit)
    BY Sizes, AlignFacts
  <1>2. DOMAIN padded = 0 .. Align(wsize, Unit) - 1
    OBVIOUS
  <1>4. /\ table' = WriteAt(table, i * EntrySize, entry)
        /\ out' = WriteAt(out, len, padded) /\ len' = Size(out')
        /\ iso_offset' = iso_offset + Align(wsize, Unit) /\ i' = i + 1
    BY DEF PutBlock, FWrite, Advanced
  <1> HIDE DEF crypted, padded
  <1>3. DOMAIN entry = 0 .. EntrySize - 1
    BY EntryCells
  <1> HIDE DEF entry
  <1>5. len \in Nat /\ DOMAIN out = 0 .. len - 1 /\ len \in 0 .. len
    BY DEF TypeInvariant, OutInvariant
  <1>6. len' = len + Align(wsize, Unit) /\ len' \in Nat /\ DOMAIN out' = 0 .. len' - 1
    <2> DEFINE m == Align(wsize, Unit)
    <2> HIDE DEF m
    <2>1. LET e == IF len + m > len THEN len + m ELSE len
          IN  e \in Nat /\ DOMAIN out' = 0 .. e - 1 /\ Size(out') = e
      BY <1>1, <1>2, <1>4, <1>5, WriteFacts, SMTT(30) DEF m
    <2>2. m \in Nat
      BY <1>1 DEF m
    <2> QED
      BY <1>4, <1>5, <2>1, <2>2 DEF m
  <1>7. i \in Nat /\ iso_blocks \in Nat /\ table_size = iso_blocks * 8 /\ EntrySize = 8
    BY TableFits DEF TypeInvariant, StreamInvariant, StreamsInOrder, table_size, EntrySize
  <1>8. DOMAIN table' = 0 .. table_size - 1
    <2>1. DOMAIN table = 0 .. table_size - 1
      BY DEF TypeInvariant, OutInvariant
    <2>2. i * EntrySize \in 0 .. table_size /\ table_size \in Nat /\ i * EntrySize + EntrySize <= table_size
      BY <1>7
    <2> DEFINE at == i * EntrySize
    <2>3. at \in 0 .. table_size /\ EntrySize \in Nat /\ at + EntrySize <= table_size
      BY <1>7, <2>2
    <2>4. table' = WriteAt(table, at, entry)
      BY <1>4
    <2>5. table_size \in Nat
      BY <2>2
    <2> HIDE DEF at
    <2>6. LET e == IF at + EntrySize > table_size THEN at + EntrySize ELSE table_size
          IN  DOMAIN table' = 0 .. e - 1
      <3>1. /\ table_size \in Nat /\ EntrySize \in Nat /\ at \in 0 .. table_size
            /\ DOMAIN table = 0 .. table_size - 1 /\ DOMAIN entry = 0 .. EntrySize - 1
            /\ table' = WriteAt(table, at, entry)
        BY <1>3, <2>1, <2>3, <2>4, <2>5
      <3> QED
        BY ONLY <3>1, WriteFacts, SMTT(30)
    <2> QED
      BY <2>3, <2>5, <2>6
  <1>9. i' = i + 1 /\ i' <= iso_blocks
    BY <1>4, <1>7
  <1> QED
    BY <1>1, <1>4, <1>6, <1>8, <1>9

LEMMA ExtraSizes ==
  ASSUME in \in Inputs, NEW name \in 1 .. Len(in.extra)
  PROVE  ExtraSize(name) \in Nat
  BY NpConstants DEF IsInput, ExtraSize

LEMMA PlainOrLzCells ==
  ASSUME TypeInvariant, pc = "block", i < iso_blocks, NEW plain, PutPlainOrLz(plain)
  PROVE  \E m \in Nat :
           /\ len' = len + m /\ DOMAIN out' = 0 .. len' - 1
           /\ iso_offset' = iso_offset + m
           /\ DOMAIN table' = 0 .. table_size - 1
           /\ i' = i + 1 /\ i' <= iso_blocks
  <1>1. CASE PutBlock(plain, RestOfIso)
    <2>1. RestOfIso \in Nat
      BY Rest DEF TypeInvariant, StreamInvariant
    <2> QED
      BY <1>1, <2>1, PutBlockCells
  <1>2. ASSUME NEW size \in LzSizes, PutBlock(Lz(size), Align(size, Unit))
        PROVE  \E m \in Nat :
                 /\ len' = len + m /\ DOMAIN out' = 0 .. len' - 1
                 /\ iso_offset' = iso_offset + m
                 /\ DOMAIN table' = 0 .. table_size - 1
                 /\ i' = i + 1 /\ i' <= iso_blocks
    <2>1. Align(size, Unit) \in Nat
      BY Sizes, AlignFacts
    <2> QED
      BY <1>2, <2>1, PutBlockCells
  <1> QED
    BY <1>1, <1>2 DEF PutPlainOrLz

LEMMA TypeBlock ==
  ASSUME TypeInvariant, pc = "block", i < iso_blocks, NEW plain, PutPlainOrLz(plain),
         pc' = pc, table_offset' = table_offset, in' = in
  PROVE  OutInvariant'
  <1>1. PICK m \in Nat :
           /\ len' = len + m /\ DOMAIN out' = 0 .. len' - 1
           /\ iso_offset' = iso_offset + m
           /\ DOMAIN table' = 0 .. table_size - 1
           /\ i' = i + 1 /\ i' <= iso_blocks
    BY PlainOrLzCells
  <1>2. iso_size' = iso_size
    BY DEF iso_size
  <1>3. iso_blocks' = iso_blocks /\ table_size' = table_size
    BY <1>2 DEF iso_blocks, table_size
  <1>4. in \in Inputs /\ iso_offset \in Nat
    BY DEF TypeInvariant, StreamInvariant
  <1>5. table_size \in Nat /\ Page \in Nat
    BY <1>4, TableFits, Sizes
  <1>6. /\ len \in Nat /\ table_offset \in 0 .. len
        /\ iso_offset >= Page + table_size /\ len = table_offset + iso_offset - Page
    BY DEF TypeInvariant, OutInvariant
  <1>7. len' \in Nat /\ table_offset' \in 0 .. len'
    BY <1>1, <1>6
  <1>8. iso_offset' >= Page + table_size /\ len' = table_offset + iso_offset' - Page
    BY <1>1, <1>4, <1>5, <1>6
  <1> QED
    BY <1>1, <1>3, <1>7, <1>8 DEF OutInvariant, Before

LEMMA TypeStep == TypeInvariant /\ [Next]_vars => TypeInvariant'
  <1> SUFFICES ASSUME TypeInvariant, [Next]_vars PROVE TypeInvariant'
    OBVIOUS
  <1> USE DEF argVars, extraVars, outVars, blockVars
  <1>0. StreamInvariant' /\ in \in Inputs
    BY StreamStep DEF TypeInvariant, StreamInvariant
  <1>a. Len(in.extra) \in 0 .. 2 /\ Len(Names) = 6
    BY <1>0, NpConstants, NamesLength DEF IsInput
  <1>b. ASSUME in' = in PROVE iso_blocks' = iso_blocks /\ table_size' = table_size
    BY <1>b DEF iso_blocks, table_size, iso_size
  <1>c. ASSUME UNCHANGED <<extraVars, bufs>> PROVE CellsInvariant'
    BY <1>c DEF TypeInvariant, CellsInvariant
  <1>d. ASSUME UNCHANGED <<argVars, n>>, pc' \in Steps, spoilt' \in BOOLEAN,
               pc' \in {"start", "extra"} => pc \in {"start", "extra"}
        PROVE  ArgsInvariant'
    BY <1>d DEF TypeInvariant, ArgsInvariant
  <1>e. ASSUME UNCHANGED <<in, outVars, table_offset, table, iso_offset, i>>,
               pc' \in Before \ {"table"} => pc \in Before \ {"table"},
               pc' = "table" => pc \in Before,
               pc' # "block",
               pc' = "done" => pc \in {"block", "done"}
        PROVE  OutInvariant'
    <2>1. iso_blocks' = iso_blocks /\ table_size' = table_size
      BY <1>b, <1>e
    <2> QED
      BY <1>e, <2>1 DEF TypeInvariant, OutInvariant, Before
  <1>f. spoilt \in BOOLEAN
    BY DEF TypeInvariant, ArgsInvariant
  <1>1. CASE OpenFiles
    <2>1. CellsInvariant'
      BY <1>1, <1>c DEF OpenFiles
    <2>2. ArgsInvariant'
      BY <1>1, <1>d, <1>f DEF OpenFiles, Steps
    <2>3. OutInvariant'
      BY <1>1, <1>e DEF OpenFiles, Before
    <2> QED
      BY <1>0, <2>1, <2>2, <2>3 DEF TypeInvariant
  <1>2. CASE LookAtExtra
    <2>1. CellsInvariant'
      BY <1>2, <1>c DEF LookAtExtra
    <2>2. ArgsInvariant'
      <3>0. in' = in /\ pc = "extra" /\ n <= Len(in.extra) /\ n' = n + 1 /\ spoilt' = spoilt
        BY <1>2 DEF LookAtExtra
      <3>1. n \in 1 .. Len(in.extra) /\ n' \in 1 .. Len(Names) + 1 /\ n' <= Len(in.extra) + 1
        <4> DEFINE e == Len(in.extra)
        <4>1. n \in 1 .. 6 + 1 /\ n <= e /\ n' = n + 1 /\ e \in 0 .. 2
          BY <1>a, <3>0 DEF TypeInvariant, ArgsInvariant
        <4> HIDE DEF e
        <4>2. n \in 1 .. e /\ n' \in 1 .. 6 + 1 /\ n' <= e + 1
          BY <4>1
        <4> QED
          BY <1>a, <4>2 DEF e
      <3>2. startdat_name' \in {n, startdat_name} /\ opnssmp_name' \in {n, opnssmp_name}
        <4> DEFINE kind == in.extra[n].kind
        <4>1. /\ startdat_name' = IF kind = "png" /\ startdat_name = None THEN n ELSE startdat_name
              /\ opnssmp_name' = IF kind = "psp" /\ opnssmp_name = None THEN n ELSE opnssmp_name
          BY <1>2 DEF LookAtExtra
        <4> HIDE DEF kind
        <4> QED
          BY <4>1
      <3>3. /\ startdat_name' \in 1 .. Len(in.extra) \cup {None}
            /\ opnssmp_name' \in 1 .. Len(in.extra) \cup {None}
        BY <3>1, <3>2 DEF TypeInvariant, ArgsInvariant
      <3>4. pc' \in {"crashed", "exited", "extra"}
        BY <1>2 DEF LookAtExtra
      <3> QED
        BY <1>f, <3>0, <3>1, <3>3, <3>4 DEF ArgsInvariant, Steps
    <2>3. OutInvariant'
      <3>1. pc' \in {"crashed", "exited", "extra"} /\ pc = "extra"
        BY <1>2 DEF LookAtExtra
      <3>2. UNCHANGED <<in, outVars, table_offset, table, iso_offset, i>>
        BY <1>2 DEF LookAtExtra
      <3> QED
        BY <1>e, <3>1, <3>2 DEF Before
    <2> QED
      BY <1>0, <2>1, <2>2, <2>3 DEF TypeInvariant
  <1>3. CASE ExtrasSeen
    <2>1. CellsInvariant'
      BY <1>3, <1>c DEF ExtrasSeen
    <2>2. ArgsInvariant'
      <3>1. UNCHANGED argVars /\ n' = 1 /\ pc' = "pgd" /\ spoilt' = spoilt
        BY <1>3 DEF ExtrasSeen
      <3> QED
        BY <1>a, <3>1 DEF TypeInvariant, ArgsInvariant, Steps
    <2>3. OutInvariant'
      BY <1>3, <1>e DEF ExtrasSeen, Before
    <2> QED
      BY <1>0, <2>1, <2>2, <2>3 DEF TypeInvariant
  <1>4. CASE MakePgd
    <2>1. CellsInvariant'
      <3>1. IsCells(pgd')
        <4>1. CASE opnssmp_name = None
          BY <1>4, <4>1, EmptyCells DEF MakePgd
        <4>2. CASE opnssmp_name # None
          <5>1. opnssmp_name \in 1 .. Len(in.extra)
            BY <4>2 DEF TypeInvariant, ArgsInvariant
          <5>2. ExtraSize(opnssmp_name) \in Nat
            BY <1>0, <5>1, ExtraSizes
          <5>3. pgd' \in PgdsLeft(ExtraSize(opnssmp_name))
            BY <1>4, <4>2 DEF MakePgd
          <5> QED
            BY <5>2, <5>3, PgdsLeftCells
        <4> QED
          BY <4>1, <4>2
      <3>2. startdat' = startdat /\ bufs' = bufs
        BY <1>4 DEF MakePgd
      <3> QED
        BY <3>1, <3>2 DEF TypeInvariant, CellsInvariant
    <2>2. ArgsInvariant'
      BY <1>4, <1>d, <1>f DEF MakePgd, Steps
    <2>3. OutInvariant'
      BY <1>4, <1>e DEF MakePgd, Before
    <2> QED
      BY <1>0, <2>1, <2>2, <2>3 DEF TypeInvariant
  <1>5. CASE OpnssmpUnread
    <2>1. CellsInvariant'
      BY <1>5, <1>c DEF OpnssmpUnread
    <2>2. ArgsInvariant'
      BY <1>5, <1>d, <1>f DEF OpnssmpUnread, Steps
    <2>3. OutInvariant'
      BY <1>5, <1>e DEF OpnssmpUnread, Before
    <2> QED
      BY <1>0, <2>1, <2>2, <2>3 DEF TypeInvariant
  <1>5a. CASE HeapCrashes
    <2>1. CellsInvariant'
      BY <1>5a, <1>c DEF HeapCrashes
    <2>2. ArgsInvariant'
      BY <1>5a, <1>d, <1>f DEF HeapCrashes, Steps
    <2>3. OutInvariant'
      BY <1>5a, <1>e DEF HeapCrashes, Before
    <2> QED
      BY <1>0, <2>1, <2>2, <2>3 DEF TypeInvariant
  <1>6. CASE MakeStartdat
    <2>1. CellsInvariant'
      <3>1. IsCells(startdat')
        <4>1. CASE startdat_name = None
          BY <1>6, <4>1, EmptyCells DEF MakeStartdat
        <4>2. CASE startdat_name # None
          <5>1. startdat_name \in 1 .. Len(in.extra)
            BY <4>2 DEF TypeInvariant, ArgsInvariant
          <5>2. ExtraSize(startdat_name) \in Nat
            BY <1>0, <5>1, ExtraSizes
          <5> DEFINE m == ExtraSize(startdat_name)
          <5>3. startdat' = [b \in 0 .. m |-> IF b = 0 THEN StartdatHeader(m) ELSE Atom("png", b - 1, Zero)]
            BY <1>6, <4>2 DEF MakeStartdat
          <5> HIDE DEF m
          <5>4. m \in Nat
            BY <5>2 DEF m
          <5>5. m + 1 \in Nat /\ 0 .. m = 0 .. (m + 1) - 1
            BY <5>4
          <5>6. startdat' = [b \in 0 .. (m + 1) - 1 |-> startdat'[b]]
            BY <5>3, <5>5
          <5> QED
            BY <5>5, <5>6, CellsFacts
        <4> QED
          BY <4>1, <4>2
      <3>2. pgd' = pgd /\ bufs' = bufs
        BY <1>6 DEF MakeStartdat
      <3> QED
        BY <3>1, <3>2 DEF TypeInvariant, CellsInvariant
    <2>2. ArgsInvariant'
      BY <1>6, <1>d, <1>f DEF MakeStartdat, Steps
    <2>3. OutInvariant'
      BY <1>6, <1>e DEF MakeStartdat, Before
    <2> QED
      BY <1>0, <2>1, <2>2, <2>3 DEF TypeInvariant
  <1>7. CASE StartdatUnread
    <2>1. CellsInvariant'
      BY <1>7, <1>c DEF StartdatUnread
    <2>2. ArgsInvariant'
      BY <1>7, <1>d DEF StartdatUnread, Steps
    <2>3. OutInvariant'
      BY <1>7, <1>e DEF StartdatUnread, Before
    <2> QED
      BY <1>0, <2>1, <2>2, <2>3 DEF TypeInvariant
  <1>8. CASE LoadFile
    <2>1. CellsInvariant'
      <3> DEFINE r == isoGetFileInfo(in.disc, "PSP_GAME", Names[n])
      <3>1. r.ret < 0 \/ r.size \in Nat
        BY <1>0, NpConstants, FileInfoSize DEF IsInput
      <3>2. bufs' = [bufs EXCEPT ![n] = IF in.same \/ r.ret < 0 THEN None
                                        ELSE Content(Names[n], r.size)]
        BY <1>8 DEF LoadFile
      <3>3. startdat' = startdat /\ pgd' = pgd
        BY <1>8 DEF LoadFile
      <3> HIDE DEF r
      <3>4. ~(r.ret < 0) => IsCells(Content(Names[n], r.size))
        BY <3>1, ContentCells
      <3>5. DOMAIN bufs' = DOMAIN bufs
        BY <3>2
      <3>6. ASSUME NEW k \in 1 .. Len(Names) PROVE bufs'[k] = None \/ IsCells(bufs'[k])
        <4>1. bufs'[k] = bufs[k] \/ bufs'[k] = None \/ (~(r.ret < 0) /\ bufs'[k] = Content(Names[n], r.size))
          BY <3>2 DEF TypeInvariant, CellsInvariant
        <4> QED
          BY <3>4, <4>1 DEF TypeInvariant, CellsInvariant
      <3> QED
        BY <3>3, <3>5, <3>6 DEF TypeInvariant, CellsInvariant
    <2>2. ArgsInvariant'
      <3>1. UNCHANGED <<argVars, spoilt, pc>> /\ pc = "load" /\ n <= Len(Names) /\ n' = n + 1
        BY <1>8 DEF LoadFile
      <3>2. n' \in 1 .. Len(Names) + 1
        BY <1>a, <3>1 DEF TypeInvariant, ArgsInvariant
      <3> QED
        BY <3>1, <3>2 DEF TypeInvariant, ArgsInvariant
    <2>3. OutInvariant'
      BY <1>8, <1>e DEF LoadFile, Before
    <2> QED
      BY <1>0, <2>1, <2>2, <2>3 DEF TypeInvariant
  <1>9. CASE LoadFails
    <2>1. CellsInvariant'
      BY <1>9, <1>c DEF LoadFails
    <2>2. ArgsInvariant'
      <3>1. UNCHANGED <<argVars, pc>> /\ pc = "load" /\ n <= Len(Names) /\ n' = n + 1 /\ spoilt' = TRUE
        BY <1>9 DEF LoadFails
      <3>2. n' \in 1 .. Len(Names) + 1
        BY <1>a, <3>1 DEF TypeInvariant, ArgsInvariant
      <3> QED
        BY <3>1, <3>2 DEF TypeInvariant, ArgsInvariant
    <2>3. OutInvariant'
      BY <1>9, <1>e DEF LoadFails, Before
    <2> QED
      BY <1>0, <2>1, <2>2, <2>3 DEF TypeInvariant
  <1>10. CASE WritePbp
    <2>1. CellsInvariant'
      BY <1>10, <1>c DEF WritePbp
    <2>2. ArgsInvariant'
      BY <1>10, <1>d, <1>f DEF WritePbp, Steps
    <2>3. OutInvariant'
      <3> DEFINE secs == Sections(PutSfo(bufs[1]))
      <3>1. /\ pc' = "table" /\ UNCHANGED <<in, blockVars>> /\ bufs[1] # None
            /\ out' = Pbp(secs) /\ len' = Size(Pbp(secs)) /\ table_offset' = Size(Pbp(secs))
        BY <1>10 DEF WritePbp
      <3>2. IsCells(bufs[1])
        BY <1>a, <3>1 DEF TypeInvariant, CellsInvariant
      <3>3. Sized(secs)
        BY <3>2, SfoCells, SectionsSized DEF TypeInvariant
      <3> HIDE DEF secs
      <3>4. IsCells(Pbp(secs))
        BY <3>3, PbpCells
      <3>5. len' \in Nat /\ DOMAIN out' = 0 .. len' - 1 /\ table_offset' = len'
        BY <3>1, <3>4 DEF IsCells
      <3>6. i' <= iso_blocks'
        BY <1>b, <3>1 DEF TypeInvariant, OutInvariant
      <3> QED
        BY <3>1, <3>5, <3>6 DEF OutInvariant, Before
    <2> QED
      BY <1>0, <2>1, <2>2, <2>3 DEF TypeInvariant
  <1>11. CASE NoParamSfo
    <2>1. CellsInvariant'
      BY <1>11, <1>c DEF NoParamSfo
    <2>2. ArgsInvariant'
      BY <1>11, <1>d, <1>f DEF NoParamSfo, Steps
    <2>3. OutInvariant'
      BY <1>11, <1>e DEF NoParamSfo, Before
    <2> QED
      BY <1>0, <2>1, <2>2, <2>3 DEF TypeInvariant
  <1>12. CASE SigningFails
    <2>1. CellsInvariant'
      BY <1>12, <1>c DEF SigningFails
    <2>2. ArgsInvariant'
      BY <1>12, <1>d DEF SigningFails, Steps
    <2>3. OutInvariant'
      <3>1. /\ pc = "load" /\ pc' = "table" /\ UNCHANGED <<in, outVars, blockVars>>
            /\ table_offset' = 0
        BY <1>12 DEF SigningFails
      <3>2. i' <= iso_blocks'
        BY <1>b, <3>1 DEF TypeInvariant, OutInvariant
      <3> QED
        BY <3>1, <3>2 DEF TypeInvariant, OutInvariant, Before
    <2> QED
      BY <1>0, <2>1, <2>2, <2>3 DEF TypeInvariant
  <1>13. CASE WriteEmptyTable
    <2>1. CellsInvariant'
      BY <1>13, <1>c DEF WriteEmptyTable
    <2>2. ArgsInvariant'
      BY <1>13, <1>d, <1>f DEF WriteEmptyTable, Steps
    <2>3. OutInvariant'
      <3>1. /\ pc = "table" /\ pc' = "block" /\ in' = in /\ table_offset' = table_offset /\ i' = i
            /\ table' = [b \in 0 .. table_size - 1 |-> Zero]
            /\ out' = WriteAt(out, len, table') /\ len' = Size(out')
            /\ iso_offset' = Page + table_size
        BY <1>13 DEF WriteEmptyTable, FWrite
      <3>2. iso_blocks' = iso_blocks /\ table_size' = table_size
        BY <1>b, <3>1
      <3>3. table_size \in Nat /\ Page \in Nat
        BY <1>0, TableFits, Sizes
      <3>4. len \in Nat /\ DOMAIN out = 0 .. len - 1 /\ len = table_offset
        BY <3>1 DEF TypeInvariant, OutInvariant
      <3>5. DOMAIN table' = 0 .. table_size - 1 /\ len \in 0 .. len
        BY <3>1, <3>4
      <3> DEFINE new == table'
      <3>6. out' = WriteAt(out, len, new) /\ DOMAIN new = 0 .. table_size - 1
        BY <3>1, <3>5
      <3> HIDE DEF new
      <3>7. LET e == IF len + table_size > len THEN len + table_size ELSE len
            IN  DOMAIN out' = 0 .. e - 1 /\ Size(out') = e
        <4>1. /\ len \in Nat /\ table_size \in Nat /\ len \in 0 .. len
              /\ DOMAIN out = 0 .. len - 1 /\ DOMAIN new = 0 .. table_size - 1
              /\ out' = WriteAt(out, len, new)
          BY <3>3, <3>4, <3>5, <3>6
        <4> QED
          BY ONLY <4>1, WriteFacts, SMTT(30)
      <3>8. len' = len + table_size /\ DOMAIN out' = 0 .. len' - 1
        BY <3>1, <3>3, <3>4, <3>7
      <3>9. i' <= iso_blocks'
        BY <3>1, <3>2 DEF TypeInvariant, OutInvariant
      <3>10. len' \in Nat /\ table_offset' \in 0 .. len' /\ len' = table_offset' + iso_offset' - Page
        BY <3>1, <3>3, <3>4, <3>8
      <3>11. iso_offset' >= Page + table_size'
        BY <3>1, <3>2, <3>3
      <3> QED
        BY <3>1, <3>2, <3>5, <3>8, <3>9, <3>10, <3>11 DEF OutInvariant, Before
    <2> QED
      BY <1>0, <2>1, <2>2, <2>3 DEF TypeInvariant
  <1>14. CASE WriteBlock
    <2>1. CellsInvariant'
      BY <1>14, <1>c DEF WriteBlock
    <2>2. ArgsInvariant'
      BY <1>14, <1>d, <1>f DEF WriteBlock, Steps
    <2>3. OutInvariant'
      BY <1>14, TypeBlock DEF WriteBlock
    <2> QED
      BY <1>0, <2>1, <2>2, <2>3 DEF TypeInvariant
  <1>15. CASE WriteUnreadBlock
    <2>1. CellsInvariant'
      BY <1>15, <1>c DEF WriteUnreadBlock
    <2>2. ArgsInvariant'
      BY <1>15, <1>d DEF WriteUnreadBlock, Steps
    <2>3. OutInvariant'
      BY <1>15, TypeBlock DEF WriteUnreadBlock
    <2> QED
      BY <1>0, <2>1, <2>2, <2>3 DEF TypeInvariant
  <1>16. CASE WriteBack
    <2>1. CellsInvariant'
      BY <1>16, <1>c DEF WriteBack
    <2>2. ArgsInvariant'
      BY <1>16, <1>d, <1>f DEF WriteBack, Steps
    <2>3. OutInvariant'
      <3> DEFINE header == NpHeader(DataKey)
                 at     == IF np_offset >= 0 THEN np_offset ELSE len
                 forged == WriteAt(out, at, header)
      <3>1. /\ pc = "block" /\ pc' = "done" /\ in' = in /\ table_offset' = table_offset
            /\ i' = i /\ table' = table
            /\ out' = WriteAt(forged, table_offset, table) /\ len' = Size(out')
        BY <1>16 DEF WriteBack
      <3>2. DOMAIN header = 0 .. Page - 1
        BY DEF NpHeader
      <3>3. Page \in Nat /\ table_size \in Nat
        BY <1>0, TableFits, Sizes
      <3>4. len \in Nat /\ DOMAIN out = 0 .. len - 1 /\ table_offset \in 0 .. len
            /\ DOMAIN table = 0 .. table_size - 1 /\ i <= iso_blocks
        BY <3>1 DEF TypeInvariant, OutInvariant
      <3>5. at \in 0 .. len
        BY <3>3, <3>4 DEF np_offset
      <3> HIDE DEF header, at, forged
      <3>6. PICK e \in Nat : DOMAIN forged = 0 .. e - 1 /\ len <= e
        <4> DEFINE e == IF at + Page > len THEN at + Page ELSE len
        <4>1. e \in Nat /\ DOMAIN forged = 0 .. e - 1
          <5>1. /\ len \in Nat /\ Page \in Nat /\ at \in 0 .. len
                /\ DOMAIN out = 0 .. len - 1 /\ DOMAIN header = 0 .. Page - 1
            BY <3>2, <3>3, <3>4, <3>5
          <5> QED
            BY ONLY <5>1, WriteFacts, SMTT(30) DEF forged
        <4>2. len <= e
          BY <3>3, <3>4, <3>5
        <4> QED
          BY <4>1, <4>2
      <3>7. table_offset \in 0 .. e
        BY <3>4, <3>6
      <3>8. PICK d \in Nat : DOMAIN out' = 0 .. d - 1 /\ Size(out') = d /\ e <= d
        <4> DEFINE d == IF table_offset + table_size > e THEN table_offset + table_size ELSE e
        <4>1. d \in Nat /\ DOMAIN out' = 0 .. d - 1 /\ Size(out') = d
          <5>1. /\ e \in Nat /\ table_size \in Nat /\ table_offset \in 0 .. e
                /\ DOMAIN forged = 0 .. e - 1 /\ DOMAIN table = 0 .. table_size - 1
                /\ out' = WriteAt(forged, table_offset, table)
            BY <3>1, <3>3, <3>4, <3>6, <3>7
          <5> QED
            BY ONLY <5>1, WriteFacts, SMTT(30)
        <4>2. e <= d
          BY <3>3, <3>4, <3>6, <3>7
        <4> QED
          BY <4>1, <4>2
      <3>9. iso_blocks' = iso_blocks /\ table_size' = table_size
        BY <1>b, <3>1
      <3>10. table_offset' \in 0 .. len'
        BY <3>1, <3>7, <3>8
      <3> QED
        BY <3>1, <3>4, <3>8, <3>9, <3>10 DEF OutInvariant, Before
    <2> QED
      BY <1>0, <2>1, <2>2, <2>3 DEF TypeInvariant
  <1>17. CASE ForgeFails
    <2>1. CellsInvariant'
      BY <1>17, <1>c DEF ForgeFails
    <2>2. ArgsInvariant'
      BY <1>17, <1>d, <1>f DEF ForgeFails, Steps
    <2>3. OutInvariant'
      BY <1>17, <1>e DEF ForgeFails, Before
    <2> QED
      BY <1>0, <2>1, <2>2, <2>3 DEF TypeInvariant
  <1>18. CASE UNCHANGED vars
    BY <1>18, <1>0, <1>b, <1>c, <1>f
       DEF vars, TypeInvariant, ArgsInvariant, OutInvariant
  <1> QED
    BY <1>1, <1>2, <1>3, <1>4, <1>5, <1>5a, <1>6, <1>7, <1>8, <1>9, <1>10, <1>11, <1>12, <1>13, <1>14,
       <1>15, <1>16, <1>17, <1>18 DEF Next, Exited

(***************************************************************************)
(* sign_np's state is what its declarations say, whatever the inputs.      *)
(***************************************************************************)
THEOREM SignerTypes == Spec => []TypeOK
  BY TypeInit, TypeStep, TypeInvariantGives, PTL DEF Spec

-----------------------------------------------------------------------------
(***************************************************************************)
(* The inductive invariant of the files: what has been loaded so far is    *)
(* what the directory has.                                                 *)
(***************************************************************************)
LookupInvariant ==
  /\ LookupsMatchDirectory
  /\ pc \in {"pgd", "startdat"} => n = 1

LEMMA NamesAreFiles ==
  ASSUME NEW k \in 1 .. Len(Names)
  PROVE  Names[k] \notin {Self, Parent} /\ "PSP_GAME" \notin {Self, Parent}
  <1>1. k \in {1, 2, 3, 4, 5, 6}
    BY NamesLength
  <1> QED
    BY <1>1 DEF Names, Self, Parent

LEMMA LookupInit == Init => LookupInvariant
  BY DEF Init, LookupInvariant, LookupsMatchDirectory

LEMMA LookupStep == TypeInvariant /\ LookupInvariant /\ [Next]_vars => LookupInvariant'
  <1> SUFFICES ASSUME TypeInvariant, LookupInvariant, [Next]_vars PROVE LookupInvariant'
    OBVIOUS
  <1> USE DEF argVars, extraVars, outVars, blockVars
  <1>a. ASSUME in' = in PROVE (ReadableDisc' <=> ReadableDisc) /\ \A k : OnDisc(k)' = OnDisc(k)
    BY <1>a DEF ReadableDisc, OnDisc
  <1>b. ASSUME UNCHANGED <<in, bufs>>, spoilt => spoilt',
               pc' = "load" => pc = "load" /\ n' = n,
               pc' \in {"table", "block", "done"} =>
                 pc \in {"table", "block", "done"} \/ (pc = "load" /\ n > Len(Names)),
               pc' \in {"pgd", "startdat"} => n' = 1
        PROVE  LookupInvariant'
    <2> SUFFICES ASSUME ReadableDisc', ~in'.same, ~spoilt', NEW k \in 1 .. Len(Names),
                        (pc' = "load" /\ k < n') \/ pc' \in {"table", "block", "done"}
                 PROVE  bufs'[k] = IF OnDisc(k)'.ret < 0 THEN None ELSE Content(Names[k], OnDisc(k)'.size)
      BY <1>b DEF LookupInvariant, LookupsMatchDirectory
    <2>1. ReadableDisc /\ ~in.same /\ ~spoilt
      BY <1>a, <1>b
    <2>2. (pc = "load" /\ k < n) \/ pc \in {"table", "block", "done"}
      <3>1. n \in Int
        BY DEF TypeInvariant, ArgsInvariant
      <3> QED
        BY <1>b, <3>1, NamesLength
    <2>3. bufs[k] = IF OnDisc(k).ret < 0 THEN None ELSE Content(Names[k], OnDisc(k).size)
      BY <2>1, <2>2 DEF LookupInvariant, LookupsMatchDirectory
    <2> QED
      BY <1>a, <1>b, <2>3
  <1>c. n \in 1 .. 7 /\ Len(Names) = 6
    BY NamesLength DEF TypeInvariant, ArgsInvariant
  <1>1. CASE OpenFiles
    BY <1>1, <1>b DEF OpenFiles
  <1>2. CASE LookAtExtra
    <2>1. pc' \in {"crashed", "exited", "extra"} /\ UNCHANGED <<in, bufs, spoilt>>
      BY <1>2 DEF LookAtExtra
    <2> QED
      BY <1>b, <2>1
  <1>3. CASE ExtrasSeen
    BY <1>3, <1>b DEF ExtrasSeen
  <1>4. CASE MakePgd
    <2>1. pc = "pgd" /\ pc' = "startdat" /\ UNCHANGED <<in, bufs, n, spoilt>>
      BY <1>4 DEF MakePgd
    <2> QED
      BY <1>b, <2>1 DEF LookupInvariant
  <1>5. CASE OpnssmpUnread
    BY <1>5, <1>b DEF OpnssmpUnread
  <1>5a. CASE HeapCrashes
    BY <1>5a, <1>b DEF HeapCrashes
  <1>6. ASSUME pc = "startdat", pc' = "load", n' = n PROVE LookupInvariant'
    <2>1. n' = 1
      BY <1>6 DEF LookupInvariant
    <2>2. \A k \in 1 .. Len(Names) : ~(k < n')
      BY <1>c, <2>1
    <2> QED
      BY <1>6, <2>2 DEF LookupInvariant, LookupsMatchDirectory
  <1>7. CASE MakeStartdat
    BY <1>6, <1>7 DEF MakeStartdat
  <1>8. CASE StartdatUnread
    BY <1>6, <1>8 DEF StartdatUnread
  <1>9. CASE LoadFile
    <2> DEFINE r == isoGetFileInfo(in.disc, "PSP_GAME", Names[n])
    <2>1. /\ pc = "load" /\ pc' = "load" /\ n <= Len(Names) /\ n' = n + 1
          /\ in' = in /\ spoilt' = spoilt
          /\ bufs' = [bufs EXCEPT ![n] = IF in.same \/ r.ret < 0 THEN None ELSE Content(Names[n], r.size)]
      BY <1>9 DEF LoadFile
    <2> SUFFICES ASSUME ReadableDisc, ~in.same, ~spoilt, NEW k \in 1 .. Len(Names), k < n'
                 PROVE  bufs'[k] = IF OnDisc(k).ret < 0 THEN None ELSE Content(Names[k], OnDisc(k).size)
      BY <1>a, <2>1 DEF LookupInvariant, LookupsMatchDirectory
    <2>2. DOMAIN bufs = 1 .. Len(Names)
      BY DEF TypeInvariant, CellsInvariant
    <2>3. CASE k = n
      <3>1. IsDisc(in.disc)
        BY NpConstants DEF TypeInvariant, StreamInvariant, IsInput
      <3>2. (r.ret < 0 <=> OnDisc(k).ret < 0) /\ (~(r.ret < 0) => r.size = OnDisc(k).size)
        BY <2>3, <3>1, NamesAreFiles, FileInfoRight DEF ReadableDisc, OnDisc
      <3>3. bufs'[k] = IF in.same \/ r.ret < 0 THEN None ELSE Content(Names[k], r.size)
        BY <2>1, <2>2, <2>3
      <3> HIDE DEF r
      <3> QED
        BY <3>2, <3>3
    <2>4. CASE k # n
      <3> HIDE DEF r
      <3>1. k < n /\ bufs'[k] = bufs[k]
        BY <1>c, <2>1, <2>2, <2>4
      <3> QED
        BY <2>1, <3>1 DEF LookupInvariant, LookupsMatchDirectory
    <2> QED
      BY <2>3, <2>4
  <1>10. CASE LoadFails
    BY <1>10 DEF LoadFails, LookupInvariant, LookupsMatchDirectory
  <1>11. CASE WritePbp
    BY <1>11, <1>b DEF WritePbp
  <1>12. CASE NoParamSfo
    BY <1>12, <1>b DEF NoParamSfo
  <1>13. CASE SigningFails
    BY <1>13, <1>b DEF SigningFails
  <1>14. CASE WriteEmptyTable
    BY <1>14, <1>b DEF WriteEmptyTable
  <1>15. CASE WriteBlock
    BY <1>15, <1>b DEF WriteBlock
  <1>16. CASE WriteUnreadBlock
    BY <1>16, <1>b DEF WriteUnreadBlock
  <1>17. CASE WriteBack
    BY <1>17, <1>b DEF WriteBack
  <1>18. CASE ForgeFails
    BY <1>18, <1>b DEF ForgeFails
  <1>19. CASE UNCHANGED vars
    <2>1. UNCHANGED <<in, bufs, pc, n, spoilt>>
      BY <1>19 DEF vars
    <2> QED
      BY <1>b, <2>1 DEF LookupInvariant
  <1> QED
    BY <1>1, <1>2, <1>3, <1>4, <1>5, <1>5a, <1>7, <1>8, <1>9, <1>10, <1>11, <1>12, <1>13, <1>14,
       <1>15, <1>16, <1>17, <1>18, <1>19 DEF Next, Exited

(***************************************************************************)
(* Each file of the PBP that the PSP_GAME directory of the ISO has is      *)
(* found, whole, and no other is taken for it: for every layout of records *)
(* in sectors, of every size of sector.  Discs with a record that          *)
(* findFile refuses as corrupt (ReadableDisc) are excepted.                *)
(***************************************************************************)
THEOREM FilesAreThoseOfTheDirectory == Spec => []LookupsMatchDirectory
  <1>1. LookupInvariant => LookupsMatchDirectory
    BY DEF LookupInvariant
  <1> QED
    BY <1>1, TypeInit, TypeStep, LookupInit, LookupStep, PTL DEF Spec

-----------------------------------------------------------------------------
(***************************************************************************)
(* A number read back from its cell, and what is encrypted twice.          *)
(***************************************************************************)
LEMMA NumOf ==
  ASSUME NEW m
  PROVE  NumIn(Num(m)) = m
  <1> DEFINE c == {<<"num", m, Zero>>}
  <1>1. (CHOOSE a \in c : TRUE) = <<"num", m, Zero>>
    OBVIOUS
  <1> QED
    BY <1>1 DEF NumIn, Num, Atom

LEMMA XorTwice ==
  ASSUME NEW x, NEW k
  PROVE  Xor(Xor(x, k), k) = x
  BY DEF Xor

LEMMA CipherTwice ==
  ASSUME NEW m \in Nat, NEW f, f = [b \in 0 .. m - 1 |-> f[b]],
         NEW header, NEW version, NEW seed
  PROVE  Cipher(Cipher(f, header, version, seed), header, version, seed) = f
  <1> DEFINE D == 0 .. m - 1
             K(b) == KeyCell(header, version, seed, b)
             g == Cipher(f, header, version, seed)
             h == Cipher(g, header, version, seed)
  <1>1. DOMAIN f = D
    OBVIOUS
  <1> HIDE DEF D
  <1>2. g = [b \in D |-> Xor(f[b], K(b))]
    BY <1>1 DEF Cipher
  <1> HIDE DEF g
  <1>3. DOMAIN g = D
    BY <1>2
  <1>4. h = [b \in D |-> Xor(g[b], K(b))]
    BY <1>3 DEF Cipher
  <1> HIDE DEF h, K
  <1>5. ASSUME NEW b \in D PROVE h[b] = f[b]
    <2>1. h[b] = Xor(Xor(f[b], K(b)), K(b))
      BY <1>2, <1>4
    <2> QED
      BY <2>1, XorTwice
  <1>6. f = [b \in D |-> f[b]]
    BY DEF D
  <1>7. h = f
    BY <1>4, <1>5, <1>6
  <1> QED
    BY <1>7 DEF g, h

LEMMA EntryTwice ==
  ASSUME NEW p, NEW q, \A w \in 0 .. EntrySize - 1 : q[w] = encrypt_table(p)[w]
  PROVE  \A w \in 0 .. EntrySize - 1 : encrypt_table(q)[w] = p[w]
  <1>0. EntrySize = 8
    BY DEF EntrySize
  <1>1. ASSUME NEW f, NEW w \in 0 .. 7
        PROVE  /\ w < 4 => encrypt_table(f)[w] = f[w]
               /\ w = 4 => encrypt_table(f)[w] = Xor(f[4], Xor(f[2], f[3]))
               /\ w = 5 => encrypt_table(f)[w] = Xor(f[5], Xor(f[1], f[2]))
               /\ w = 6 => encrypt_table(f)[w] = Xor(f[6], Xor(f[0], f[3]))
               /\ w = 7 => encrypt_table(f)[w] = Xor(f[7], Xor(f[0], f[1]))
    BY <1>0 DEF encrypt_table
  <1>2. q[0] = p[0] /\ q[1] = p[1] /\ q[2] = p[2] /\ q[3] = p[3]
    BY <1>0, <1>1
  <1>3. /\ q[4] = Xor(p[4], Xor(p[2], p[3])) /\ q[5] = Xor(p[5], Xor(p[1], p[2]))
        /\ q[6] = Xor(p[6], Xor(p[0], p[3])) /\ q[7] = Xor(p[7], Xor(p[0], p[1]))
    BY <1>0, <1>1
  <1>4. ASSUME NEW w \in 0 .. 7 PROVE encrypt_table(q)[w] = p[w]
    <2>1. w \in {0, 1, 2, 3, 4, 5, 6, 7}
      OBVIOUS
    <2>2. CASE w < 4
      BY <1>1, <1>2, <2>1, <2>2
    <2>3. CASE w = 4
      BY <1>1, <1>2, <1>3, <2>3, XorTwice
    <2>4. CASE w = 5
      BY <1>1, <1>2, <1>3, <2>4, XorTwice
    <2>5. CASE w = 6
      BY <1>1, <1>2, <1>3, <2>5, XorTwice
    <2>6. CASE w = 7
      BY <1>1, <1>2, <1>3, <2>6, XorTwice
    <2> QED
      BY <2>1, <2>2, <2>3, <2>4, <2>5, <2>6
  <1> QED
    BY <1>0, <1>4

(***************************************************************************)
(* Of the cells of a PBP, those of the header are the offsets and those    *)
(* after an offset the section's: the sections do not overlap.             *)
(***************************************************************************)
LEMMA SectionsInOrder ==
  ASSUME NEW secs, Sized(secs), NEW s \in 0 .. 6, NEW t \in 1 .. 7, s < t
  PROVE  OffsetsOf(secs)[s] + Size(secs[s]) <= OffsetsOf(secs)[t]
  <1> DEFINE off == OffsetsOf(secs)
             z(x) == Size(secs[x])
  <1>1. /\ \A x \in 0 .. 7 : off[x] \in Nat
        /\ \A x \in 0 .. 5 : off[x + 1] = off[x] + z(x)
        /\ off[6] + z(6) <= off[7]
    BY OffsetsFacts
  <1>2. \A x \in 0 .. 6 : z(x) \in Nat
    BY DEF Sized
  <1> HIDE DEF off, z
  <1>3. /\ off[1] = off[0] + z(0) /\ off[2] = off[1] + z(1) /\ off[3] = off[2] + z(2)
        /\ off[4] = off[3] + z(3) /\ off[5] = off[4] + z(4) /\ off[6] = off[5] + z(5)
    BY <1>1
  <1>4. s \in {0, 1, 2, 3, 4, 5, 6} /\ t \in {1, 2, 3, 4, 5, 6, 7}
    OBVIOUS
  <1>5. off[s] + z(s) <= off[t]
    <2>1. /\ z(0) \in Nat /\ z(1) \in Nat /\ z(2) \in Nat /\ z(3) \in Nat
          /\ z(4) \in Nat /\ z(5) \in Nat /\ z(6) \in Nat /\ off[0] \in Nat /\ off[7] \in Nat
      BY <1>1, <1>2
    <2> QED
      BY <1>1, <1>3, <1>4, <2>1
  <1> QED
    BY <1>5 DEF off, z

LEMMA PbpHeaderCells ==
  ASSUME NEW secs, Sized(secs), NEW s \in 0 .. 7
  PROVE  PbpCell(secs, OffsetsOf(secs), 2 + s) = Num(OffsetsOf(secs)[s])
  <1> DEFINE off == OffsetsOf(secs)
  <1>1. 2 + s >= 2 /\ 2 + s < PbpHeaderSize /\ (2 + s) - 2 = s
    BY DEF PbpHeaderSize
  <1> HIDE DEF off
  <1>2. PbpCell(secs, off, 2 + s) = Num(off[s])
    BY <1>1 DEF PbpCell
  <1> QED
    BY <1>2 DEF off

LEMMA PbpSectionCells ==
  ASSUME NEW secs, Sized(secs), NEW s \in 0 .. 6, NEW b \in 0 .. Size(secs[s]) - 1
  PROVE  /\ OffsetsOf(secs)[s] + b \in 0 .. OffsetsOf(secs)[7] - 1
         /\ PbpCell(secs, OffsetsOf(secs), OffsetsOf(secs)[s] + b) = secs[s][b]
  <1> DEFINE off == OffsetsOf(secs)
             z(x) == Size(secs[x])
             x == off[s] + b
             In(t) == InSection(secs, off, t, x)
  <1>1. off[s] \in Nat /\ z(s) \in Nat /\ off[7] \in Nat
    BY OffsetsFacts DEF Sized
  <1>2. off[s] + z(s) <= off[7]
    BY SectionsInOrder
  <1>3. off[s] >= PbpHeaderSize
    <2>1. CASE s = 0
      BY <2>1, OffsetsFacts DEF PbpHeaderSize
    <2>2. CASE s # 0
      <3>1. 0 \in 0 .. 6 /\ s \in 1 .. 7 /\ 0 < s
        BY <2>2
      <3>2. off[0] + z(0) <= off[s]
        BY <3>1, SectionsInOrder
      <3>3. off[0] = PbpHeaderSize /\ z(0) \in Nat
        BY OffsetsFacts DEF Sized
      <3> QED
        BY <1>1, <3>2, <3>3 DEF PbpHeaderSize
    <2> QED
      BY <2>1, <2>2
  <1>4. ASSUME NEW t \in 0 .. 6, In(t) PROVE t = s
    <2>0. off[t] \in Nat /\ z(t) \in Nat /\ off[t] <= x /\ x < off[t] + z(t)
      BY <1>4, OffsetsFacts DEF Sized, InSection
    <2>1. CASE t < s
      <3>1. off[t] + z(t) <= off[s]
        BY <2>1, SectionsInOrder
      <3> QED
        BY <1>1, <2>0, <3>1
    <2>2. CASE s < t
      <3>1. off[s] + z(s) <= off[t]
        BY <2>2, SectionsInOrder
      <3> QED
        BY <1>1, <2>0, <3>1
    <2> QED
      BY <2>1, <2>2
  <1>5. In(s)
    BY <1>1 DEF InSection
  <1>6. x \in Nat /\ x < off[7] /\ x >= PbpHeaderSize /\ x - off[s] = b
    BY <1>1, <1>2, <1>3 DEF PbpHeaderSize
  <1>7. PbpCell(secs, off, x) = LET t == CHOOSE t \in 0 .. 6 : In(t) IN secs[t][x - off[t]]
    BY <1>5, <1>6 DEF PbpCell, PbpHeaderSize
  <1> HIDE DEF In, x
  <1>8. (CHOOSE t \in 0 .. 6 : In(t)) = s
    BY <1>4, <1>5
  <1> DEFINE chosen == CHOOSE t \in 0 .. 6 : In(t)
  <1>9. PbpCell(secs, off, x) = secs[chosen][x - off[chosen]] /\ chosen = s
    BY <1>7, <1>8
  <1> HIDE DEF chosen, off
  <1>10. PbpCell(secs, off, x) = secs[s][b]
    BY <1>6, <1>9
  <1>11. x \in 0 .. off[7] - 1
    BY <1>1, <1>6
  <1> QED
    BY <1>10, <1>11 DEF x, off

-----------------------------------------------------------------------------
(***************************************************************************)
(* The inductive invariant of the output: the sections as they were        *)
(* written, below the image; each block so far where its entry says; and   *)
(* at the end the image's header and table in their places.                *)
(***************************************************************************)
Secs == Sections(PutSfo(bufs[1]))
Off  == OffsetsOf(Secs)

PbpWritten ==
  /\ bufs[1] # None
  /\ table_offset = Off[7] + Page
  /\ \A b \in 0 .. Off[7] - 1 : out[b] = PbpCell(Secs, Off, b)

PbpInvariant ==
  /\ table_offset > 0 => PbpWritten
  /\ pc \in {"table", "block", "done"} /\ ~spoilt => table_offset > 0

IsBlock(plain, j, wsize) ==
  \/ plain = PlainBlock(j)
  \/ in.compress /\ \E size \in LzSizes : plain = LzBlock(j, size) /\ wsize < BlockSize

BlockAt(j, seed, wsize) ==
  LET place == seed * Unit
      cells == Part(out, np_offset + place, wsize)
  IN  /\ Page + table_size <= place /\ np_offset + place + wsize <= len
      /\ \A w \in 0 .. EntrySize - 1 :
           table[j * EntrySize + w] = encrypt_table(Entry(place, wsize, cells))[w]
      /\ IsBlock(Cipher(cells, header_key, version_key, seed), j, wsize)

BlockWritten(j) == \E seed, wsize \in Nat : BlockAt(j, seed, wsize)

BlocksInvariant ==
  /\ pc \in Before => iso_at = 0
  /\ pc = "block" /\ ~spoilt =>
       iso_at = IF i * BlockSize < iso_size THEN i * BlockSize ELSE iso_size
  /\ pc \in {"block", "done"} /\ ~spoilt => \A j \in 0 .. i - 1 : BlockWritten(j)

WrittenBack ==
  /\ i = iso_blocks
  /\ \A b \in 0 .. Page - 1 : out[np_offset + b] = NpHeader(DataKey)[b]
  /\ \A b \in 0 .. table_size - 1 : out[table_offset + b] = table[b]

TableInvariant == pc \in {"block", "done"} => table = [b \in DOMAIN table |-> table[b]]

ImageInvariant ==
  /\ PbpInvariant /\ BlocksInvariant /\ TableInvariant
  /\ pc = "done" /\ ~spoilt => WrittenBack

(***************************************************************************)
(* What each step leaves alone of the output.                              *)
(***************************************************************************)
LEMMA WrittenFacts ==
  ASSUME TypeInvariant, PbpWritten
  PROVE  Sized(Secs) /\ Off[7] \in Nat /\ Off[7] >= PbpHeaderSize /\ np_offset = Off[7]
         /\ IsCells(bufs[1])
  <1>1. IsCells(bufs[1])
    BY NamesLength DEF TypeInvariant, CellsInvariant, PbpWritten
  <1>2. Sized(Secs)
    BY <1>1, SfoCells, SectionsSized DEF TypeInvariant, Secs
  <1>3. Off[7] \in Nat
    BY <1>2, OffsetsFacts DEF Off
  <1>4. Off[7] >= PbpHeaderSize
    <2>1. Off[0] + Size(Secs[0]) <= Off[7] /\ Off[0] = PbpHeaderSize /\ Size(Secs[0]) \in Nat
      BY <1>2, OffsetsFacts, SectionsInOrder DEF Sized, Off
    <2> QED
      BY <1>3, <2>1 DEF PbpHeaderSize
  <1>5. np_offset = Off[7]
    BY <1>3, Sizes DEF PbpWritten, np_offset
  <1> QED
    BY <1>1, <1>2, <1>3, <1>4, <1>5

LEMMA TableWrites ==
  ASSUME TypeInvariant, WriteEmptyTable
  PROVE  \A b \in 0 .. len - 1 : out'[b] = out[b]
  <1>1. table' = [b \in 0 .. table_size - 1 |-> Zero] /\ out' = WriteAt(out, len, table')
    BY DEF WriteEmptyTable, FWrite
  <1>2. len \in Nat /\ DOMAIN out = 0 .. len - 1 /\ len \in 0 .. len
    BY DEF TypeInvariant, OutInvariant
  <1>3. table_size \in Nat
    BY TableFits DEF TypeInvariant, StreamInvariant
  <1> DEFINE new == table'
  <1>4. out' = WriteAt(out, len, new) /\ DOMAIN new = 0 .. table_size - 1
    BY <1>1
  <1> HIDE DEF new
  <1>5. \A b \in 0 .. len - 1 : b \notin len .. len + table_size - 1 => out'[b] = out[b]
    <2>1. /\ len \in Nat /\ table_size \in Nat /\ len \in 0 .. len
          /\ DOMAIN out = 0 .. len - 1 /\ DOMAIN new = 0 .. table_size - 1
          /\ out' = WriteAt(out, len, new)
      BY <1>2, <1>3, <1>4
    <2> QED
      BY ONLY <2>1, WriteCells, SMTT(30)
  <1> QED
    BY <1>2, <1>3, <1>5

LEMMA PutBlockWrites ==
  ASSUME TypeInvariant, pc = "block", i < iso_blocks,
         NEW wbuf, NEW wsize \in Nat, PutBlock(wbuf, wsize)
  PROVE  LET crypted == Cipher(Part(wbuf, 0, wsize), header_key, version_key, Seed)
             entry   == encrypt_table(Entry(iso_offset, wsize, crypted))
         IN  /\ \A b \in 0 .. len - 1 : out'[b] = out[b]
             /\ \A b \in 0 .. wsize - 1 : out'[len + b] = crypted[b]
             /\ \A w \in 0 .. EntrySize - 1 : table'[i * EntrySize + w] = entry[w]
             /\ \A b \in 0 .. table_size - 1 :
                  b \notin i * EntrySize .. i * EntrySize + EntrySize - 1 => table'[b] = table[b]
  <1> DEFINE crypted == Cipher(Part(wbuf, 0, wsize), header_key, version_key, Seed)
             padded  == [b \in 0 .. Align(wsize, Unit) - 1 |-> IF b < wsize THEN crypted[b] ELSE Zero]
             entry   == encrypt_table(Entry(iso_offset, wsize, crypted))
  <1>1. Align(wsize, Unit) \in Nat /\ wsize <= Align(wsize, Unit)
    BY Sizes, AlignFacts
  <1>2. table' = WriteAt(table, i * EntrySize, entry) /\ out' = WriteAt(out, len, padded)
    BY DEF PutBlock, FWrite
  <1> HIDE DEF crypted
  <1>3. DOMAIN entry = 0 .. EntrySize - 1
    BY EntryCells
  <1> DEFINE m == Align(wsize, Unit)
  <1> HIDE DEF entry, m
  <1>4. DOMAIN padded = 0 .. m - 1 /\ \A b \in 0 .. wsize - 1 : padded[b] = crypted[b]
    BY <1>1 DEF m
  <1> HIDE DEF padded
  <1>5. len \in Nat /\ DOMAIN out = 0 .. len - 1 /\ len \in 0 .. len
    BY DEF TypeInvariant, OutInvariant
  <1>6. m \in Nat /\ wsize <= m
    BY <1>1 DEF m
  <1>7. /\ \A b \in 0 .. m - 1 : out'[len + b] = padded[b]
        /\ \A b \in 0 .. len - 1 : b \notin len .. len + m - 1 => out'[b] = out[b]
    <2>1. /\ len \in Nat /\ m \in Nat /\ len \in 0 .. len
          /\ DOMAIN out = 0 .. len - 1 /\ DOMAIN padded = 0 .. m - 1
          /\ out' = WriteAt(out, len, padded)
      BY <1>2, <1>4, <1>5, <1>6
    <2> QED
      BY ONLY <2>1, WriteCells, SMTT(30)
  <1>8. \A b \in 0 .. len - 1 : out'[b] = out[b]
    BY <1>5, <1>6, <1>7
  <1>9. \A b \in 0 .. wsize - 1 : out'[len + b] = crypted[b]
    BY <1>4, <1>6, <1>7
  <1>10. i \in Nat /\ iso_blocks \in Nat /\ table_size = iso_blocks * 8 /\ EntrySize = 8
    BY TableFits DEF TypeInvariant, StreamInvariant, StreamsInOrder, table_size, EntrySize
  <1> DEFINE at == i * EntrySize
  <1>11. at \in 0 .. table_size /\ table_size \in Nat /\ EntrySize \in Nat
    BY <1>10
  <1>12. DOMAIN table = 0 .. table_size - 1
    BY DEF TypeInvariant, OutInvariant
  <1>13. table' = WriteAt(table, at, entry)
    BY <1>2
  <1> HIDE DEF at
  <1>14. /\ \A w \in 0 .. EntrySize - 1 : table'[at + w] = entry[w]
         /\ \A b \in 0 .. table_size - 1 :
              b \notin at .. at + EntrySize - 1 => table'[b] = table[b]
    <2>1. /\ table_size \in Nat /\ EntrySize \in Nat /\ at \in 0 .. table_size
          /\ DOMAIN table = 0 .. table_size - 1 /\ DOMAIN entry = 0 .. EntrySize - 1
          /\ table' = WriteAt(table, at, entry)
      BY <1>3, <1>11, <1>12, <1>13
    <2>2. PICK room, size, pos, cells, old, new :
            /\ room \in Nat /\ size \in Nat /\ pos \in 0 .. room
            /\ room = table_size /\ size = EntrySize /\ pos = at
            /\ cells = entry /\ old = table /\ new = table'
      BY <2>1
    <2>3. /\ room \in Nat /\ size \in Nat /\ pos \in 0 .. room
          /\ DOMAIN old = 0 .. room - 1 /\ DOMAIN cells = 0 .. size - 1
          /\ new = WriteAt(old, pos, cells)
      BY ONLY <2>1, <2>2
    <2>4. /\ \A w \in 0 .. size - 1 : new[pos + w] = cells[w]
          /\ \A b \in 0 .. room - 1 : b \notin pos .. pos + size - 1 => new[b] = old[b]
      BY ONLY <2>3, WriteCells, SMTT(30)
    <2> QED
      BY ONLY <2>2, <2>4
  <1> QED
    BY <1>8, <1>9, <1>14 DEF at, entry, crypted

LEMMA BackWrites ==
  ASSUME TypeInvariant, WriteBack, np_offset \in Nat
  PROVE  /\ \A b \in 0 .. len - 1 :
              b \notin np_offset .. table_offset + table_size - 1 => out'[b] = out[b]
         /\ \A b \in 0 .. Page - 1 : out'[np_offset + b] = NpHeader(DataKey)[b]
         /\ \A b \in 0 .. table_size - 1 : out'[table_offset + b] = table[b]
         /\ len <= len'
  <1> DEFINE header == NpHeader(DataKey)
             forged == WriteAt(out, np_offset, header)
  <1>1. pc = "block" /\ out' = WriteAt(forged, table_offset, table) /\ len' = Size(out')
    BY DEF WriteBack
  <1>2. DOMAIN header = 0 .. Page - 1
    BY DEF NpHeader
  <1>3. Page \in Nat /\ Page > 0 /\ table_size \in Nat
    BY NpConstants, TableFits DEF TypeInvariant, StreamInvariant
  <1>4. len \in Nat /\ DOMAIN out = 0 .. len - 1 /\ table_offset \in 0 .. len
        /\ DOMAIN table = 0 .. table_size - 1
    BY <1>1 DEF TypeInvariant, OutInvariant
  <1>5. np_offset = table_offset - Page
    BY DEF np_offset
  <1>6. np_offset \in 0 .. len /\ np_offset + Page = table_offset
    BY <1>3, <1>4, <1>5
  <1> HIDE DEF header, forged
  <1>7. /\ DOMAIN forged = 0 .. len - 1
        /\ \A b \in 0 .. Page - 1 : forged[np_offset + b] = header[b]
        /\ \A b \in 0 .. len - 1 : b \notin np_offset .. np_offset + Page - 1 => forged[b] = out[b]
    <2>1. len \in Nat /\ Page \in Nat /\ np_offset \in 0 .. len /\ np_offset + Page <= len
      BY <1>3, <1>4, <1>6
    <2>2. forged = WriteAt(out, np_offset, header) /\ DOMAIN out = 0 .. len - 1
      BY <1>4 DEF forged
    <2>3. DOMAIN forged = 0 .. len - 1
      BY <1>2, <2>1, <2>2, WriteInside
    <2>4. /\ \A b \in 0 .. Page - 1 : forged[np_offset + b] = header[b]
          /\ \A b \in 0 .. len - 1 : b \notin np_offset .. np_offset + Page - 1 => forged[b] = out[b]
      <3>1. /\ len \in Nat /\ Page \in Nat /\ np_offset \in 0 .. len
            /\ DOMAIN out = 0 .. len - 1 /\ DOMAIN header = 0 .. Page - 1
            /\ forged = WriteAt(out, np_offset, header)
        BY <1>2, <2>1, <2>2
      <3> QED
        BY ONLY <3>1, WriteCells, SMTT(30)
    <2> QED
      BY <2>3, <2>4
  <1>8. /\ \A b \in 0 .. table_size - 1 : out'[table_offset + b] = table[b]
        /\ \A b \in 0 .. len - 1 :
             b \notin table_offset .. table_offset + table_size - 1 => out'[b] = forged[b]
    <2>1. len \in Nat /\ table_size \in Nat /\ table_offset \in 0 .. len
      BY <1>3, <1>4
    <2>2. DOMAIN forged = 0 .. len - 1 /\ DOMAIN table = 0 .. table_size - 1
      BY <1>4, <1>7
    <2>3. out' = WriteAt(forged, table_offset, table)
      BY <1>1
    <2> QED
      BY ONLY <2>1, <2>2, <2>3, WriteCells, SMTT(30)
  <1>9. len <= len'
    <2>1. LET e == IF table_offset + table_size > len THEN table_offset + table_size ELSE len
          IN  Size(out') = e
      <3>1. /\ len \in Nat /\ table_size \in Nat /\ table_offset \in 0 .. len
            /\ DOMAIN forged = 0 .. len - 1 /\ DOMAIN table = 0 .. table_size - 1
            /\ out' = WriteAt(forged, table_offset, table)
        BY <1>1, <1>3, <1>4, <1>7
      <3> QED
        BY ONLY <3>1, WriteFacts, SMTT(30)
    <2> QED
      BY <1>1, <1>3, <1>4, <2>1
  <1>10. ASSUME NEW b \in 0 .. Page - 1 PROVE out'[np_offset + b] = header[b]
    <2>1. np_offset + b \in 0 .. len - 1 /\ np_offset + b \notin table_offset .. table_offset + table_size - 1
      BY <1>3, <1>4, <1>6
    <2> QED
      BY <1>7, <1>8, <2>1
  <1>11. ASSUME NEW b \in 0 .. len - 1, b \notin np_offset .. table_offset + table_size - 1
         PROVE  out'[b] = out[b]
    <2>1. b \notin np_offset .. np_offset + Page - 1 /\ b \notin table_offset .. table_offset + table_size - 1
      BY <1>3, <1>4, <1>6, <1>11
    <2> QED
      BY <1>7, <1>8, <2>1
  <1> QED
    BY <1>8, <1>9, <1>10, <1>11 DEF header

LEMMA PlainOrLzWrites ==
  ASSUME TypeInvariant, pc = "block", i < iso_blocks, NEW plain, PutPlainOrLz(plain)
  PROVE  \A b \in 0 .. len - 1 : out'[b] = out[b]
  <1>1. CASE PutBlock(plain, RestOfIso)
    <2>1. RestOfIso \in Nat
      BY Rest DEF TypeInvariant, StreamInvariant
    <2> QED
      BY <1>1, <2>1, PutBlockWrites
  <1>2. ASSUME NEW size \in LzSizes, PutBlock(Lz(size), Align(size, Unit))
        PROVE  \A b \in 0 .. len - 1 : out'[b] = out[b]
    <2>1. Align(size, Unit) \in Nat
      BY Sizes, AlignFacts
    <2> QED
      BY <1>2, <2>1, PutBlockWrites
  <1> QED
    BY <1>1, <1>2 DEF PutPlainOrLz

LEMMA StepKeeps ==
  ASSUME TypeInvariant, PbpInvariant, [Next]_vars, table_offset > 0
  PROVE  /\ UNCHANGED <<in, extraVars, bufs, table_offset>>
         /\ \A b \in 0 .. len - 1 :
              out'[b] = out[b] \/ b \in np_offset .. table_offset + table_size - 1
  <1> USE DEF argVars, extraVars, outVars, blockVars
  <1>1. pc \notin Before \ {"table"}
    BY DEF TypeInvariant, OutInvariant
  <1>2. np_offset \in Nat
    BY WrittenFacts DEF PbpInvariant
  <1>3. CASE OpenFiles \/ LookAtExtra \/ ExtrasSeen \/ MakePgd \/ OpnssmpUnread \/ HeapCrashes
    BY <1>1, <1>3 DEF OpenFiles, LookAtExtra, ExtrasSeen, MakePgd, OpnssmpUnread, HeapCrashes, Before
  <1>4. CASE MakeStartdat \/ StartdatUnread \/ LoadFile \/ LoadFails
    BY <1>1, <1>4 DEF MakeStartdat, StartdatUnread, LoadFile, LoadFails, Before
  <1>5. CASE WritePbp \/ NoParamSfo \/ SigningFails
    BY <1>1, <1>5 DEF WritePbp, NoParamSfo, SigningFails, Before
  <1>6. CASE WriteEmptyTable
    BY <1>6, TableWrites DEF WriteEmptyTable
  <1>7. CASE WriteBlock
    BY <1>7, PlainOrLzWrites DEF WriteBlock
  <1>8. CASE WriteUnreadBlock
    BY <1>8, PlainOrLzWrites DEF WriteUnreadBlock
  <1>9. CASE WriteBack
    BY <1>2, <1>9, BackWrites DEF WriteBack
  <1>10. CASE ForgeFails
    BY <1>10 DEF ForgeFails
  <1>11. CASE UNCHANGED vars
    BY <1>11 DEF vars
  <1> QED
    BY <1>3, <1>4, <1>5, <1>6, <1>7, <1>8, <1>9, <1>10, <1>11 DEF Next, Exited

LEMMA SecsSame ==
  ASSUME UNCHANGED <<in, extraVars, bufs>>
  PROVE  Secs' = Secs /\ Off' = Off
  <1>1. in' = in /\ startdat' = startdat /\ pgd' = pgd /\ bufs' = bufs
    BY DEF extraVars
  <1>2. \A sfo : DataPsp(sfo)' = DataPsp(sfo)
    BY <1>1 DEF DataPsp, PgdPlace, startdat_offset, np_flags
  <1>3. PutSfo(bufs[1])' = PutSfo(bufs[1])
    BY <1>1 DEF PutSfo
  <1>4. Secs' = Secs
    BY <1>1, <1>2, <1>3 DEF Secs, Sections
  <1> QED
    BY <1>4 DEF Off

LEMMA PbpStep == TypeInvariant /\ PbpInvariant /\ [Next]_vars => PbpInvariant'
  <1> SUFFICES ASSUME TypeInvariant, PbpInvariant, [Next]_vars PROVE PbpInvariant'
    OBVIOUS
  <1>1. CASE table_offset > 0
    <2>1. /\ UNCHANGED <<in, extraVars, bufs, table_offset>>
          /\ \A b \in 0 .. len - 1 :
               out'[b] = out[b] \/ b \in np_offset .. table_offset + table_size - 1
      BY <1>1, StepKeeps
    <2>2. Secs' = Secs /\ Off' = Off
      BY <2>1, SecsSame
    <2>3. PbpWritten
      BY <1>1 DEF PbpInvariant
    <2>4. Off[7] \in Nat /\ np_offset = Off[7] /\ Page \in Nat
      BY <2>3, WrittenFacts, Sizes
    <2>5. table_offset \in 0 .. len /\ len \in Nat
      BY DEF TypeInvariant, OutInvariant
    <2>6. ASSUME NEW b \in 0 .. Off[7] - 1 PROVE out'[b] = PbpCell(Secs, Off, b)
      <3>1. b \in 0 .. len - 1 /\ b \notin np_offset .. table_offset + table_size - 1
        BY <2>3, <2>4, <2>5 DEF PbpWritten
      <3> QED
        BY <2>1, <2>3, <3>1 DEF PbpWritten
    <2>7. PbpWritten'
      BY <2>1, <2>2, <2>3, <2>6 DEF PbpWritten
    <2> QED
      BY <1>1, <2>1, <2>7 DEF PbpInvariant
  <1>2. CASE ~(table_offset > 0)
    <2> USE DEF argVars, extraVars, outVars, blockVars
    <2>1. CASE WritePbp
      <3>1. /\ bufs[1] # None /\ UNCHANGED <<in, extraVars, bufs>>
            /\ out' = Pbp(Secs) /\ table_offset' = Size(Pbp(Secs))
        BY <2>1 DEF WritePbp, Secs
      <3>2. IsCells(bufs[1])
        BY <3>1, NamesLength DEF TypeInvariant, CellsInvariant
      <3>3. Sized(Secs)
        BY <3>2, SfoCells, SectionsSized DEF TypeInvariant, Secs
      <3>4. Secs' = Secs /\ Off' = Off /\ bufs' = bufs
        BY <3>1, SecsSame
      <3>5. Off[7] \in Nat /\ Size(Pbp(Secs)) = Off[7] + Page /\ Page \in Nat /\ Page > 0
        BY <3>3, PbpCells, NpConstants DEF Off
      <3>6. out' = [b \in 0 .. Off[7] + Page - 1 |-> PbpCell(Secs, Off, b)]
        BY <3>1, <3>5 DEF Pbp, Off
      <3>7. \A b \in 0 .. Off[7] - 1 : out'[b] = PbpCell(Secs, Off, b)
        BY <3>5, <3>6
      <3>8. PbpWritten'
        BY <3>1, <3>4, <3>5, <3>7 DEF PbpWritten
      <3>9. table_offset' > 0
        BY <3>1, <3>5
      <3> QED
        BY <3>8, <3>9 DEF PbpInvariant
    <2>2. CASE SigningFails
      BY <2>2 DEF SigningFails, PbpInvariant
    <2>3. ASSUME table_offset' = table_offset,
                 pc' \in {"table", "block", "done"} => pc \in {"table", "block", "done"},
                 spoilt => spoilt'
          PROVE  PbpInvariant'
      BY <1>2, <2>3 DEF PbpInvariant
    <2>4. CASE OpenFiles
      BY <2>3, <2>4 DEF OpenFiles
    <2>5. CASE LookAtExtra
      <3>1. pc' \in {"crashed", "exited", "extra"} /\ UNCHANGED <<table_offset, spoilt>>
        BY <2>5 DEF LookAtExtra
      <3> QED
        BY <2>3, <3>1
    <2>6. CASE ExtrasSeen
      BY <2>3, <2>6 DEF ExtrasSeen
    <2>7. CASE MakePgd
      BY <2>3, <2>7 DEF MakePgd
    <2>8. CASE OpnssmpUnread
      BY <2>3, <2>8 DEF OpnssmpUnread
    <2>8a. CASE HeapCrashes
      BY <2>3, <2>8a DEF HeapCrashes
    <2>9. CASE MakeStartdat
      BY <2>3, <2>9 DEF MakeStartdat
    <2>10. CASE StartdatUnread
      BY <2>3, <2>10 DEF StartdatUnread
    <2>11. CASE LoadFile
      BY <2>3, <2>11 DEF LoadFile
    <2>12. CASE LoadFails
      BY <2>3, <2>12 DEF LoadFails
    <2>13. CASE NoParamSfo
      BY <2>3, <2>13 DEF NoParamSfo
    <2>14. CASE WriteEmptyTable
      BY <2>3, <2>14 DEF WriteEmptyTable
    <2>15. CASE WriteBlock
      BY <2>3, <2>15 DEF WriteBlock
    <2>16. CASE WriteUnreadBlock
      BY <2>3, <2>16 DEF WriteUnreadBlock
    <2>17. CASE WriteBack
      BY <2>3, <2>17 DEF WriteBack
    <2>18. CASE ForgeFails
      BY <2>3, <2>18 DEF ForgeFails
    <2>19. CASE UNCHANGED vars
      BY <2>3, <2>19 DEF vars
    <2> QED
      BY <2>1, <2>2, <2>4, <2>5, <2>6, <2>7, <2>8, <2>8a, <2>9, <2>10, <2>11, <2>12, <2>13, <2>14,
         <2>15, <2>16, <2>17, <2>18, <2>19 DEF Next, Exited
  <1> QED
    BY <1>1, <1>2

LEMMA PbpInit == Init => PbpInvariant
  BY DEF Init, PbpInvariant

(***************************************************************************)
(* The offset in the header of the PBP is where the image's header goes.   *)
(***************************************************************************)
LEMMA OffsetsInFile ==
  ASSUME TypeInvariant, PbpWritten, NEW s \in 0 .. 7
  PROVE  SectionAt(s) = Off[s]
  <1>1. Sized(Secs) /\ Off[7] \in Nat /\ Off[7] >= 10
    BY WrittenFacts DEF PbpHeaderSize
  <1>2. out[2 + s] = Num(Off[s])
    <2>1. 2 + s \in 0 .. Off[7] - 1
      BY <1>1
    <2>2. PbpCell(Secs, Off, 2 + s) = Num(Off[s])
      BY <1>1, PbpHeaderCells DEF Off
    <2> QED
      BY <2>1, <2>2 DEF PbpWritten
  <1> QED
    BY <1>2, NumOf DEF SectionAt

LEMMA InPlaceStep ==
  ASSUME TypeInvariant, PbpInvariant, [Next]_vars, len > 0, table_offset > 0
  PROVE  \A b \in DOMAIN out :
           out'[b] = out[b] \/ b \in ImageAt .. ImageAt + Page + table_size - 1
  <1>1. PbpWritten
    BY DEF PbpInvariant
  <1>2. ImageAt = np_offset /\ Off[7] \in Nat /\ np_offset = Off[7] /\ table_offset = Off[7] + Page
    <2>1. SectionAt(7) = Off[7]
      BY <1>1, OffsetsInFile
    <2> QED
      BY <1>1, <2>1, WrittenFacts DEF ImageAt, PbpWritten
  <1>3. DOMAIN out = 0 .. len - 1
    BY DEF TypeInvariant, OutInvariant
  <1>4. ImageAt + Page + table_size - 1 = table_offset + table_size - 1
    BY <1>2, Sizes
  <1> QED
    BY <1>2, <1>3, <1>4, StepKeeps

(***************************************************************************)
(* Once the PBP is written a step changes only the pages of the image's    *)
(* header and table in it: neither appending a block nor seeking back to   *)
(* the header and the table damages what was written.                      *)
(***************************************************************************)
THEOREM SeekingBackDamagesNothing == Spec => WrittenBackInPlace
  <1>1. Spec => [](TypeInvariant /\ PbpInvariant)
    BY TypeInit, TypeStep, PbpInit, PbpStep, PTL DEF Spec
  <1>2. TypeInvariant /\ PbpInvariant /\ [Next]_vars =>
          [len > 0 /\ table_offset > 0 =>
             \A b \in DOMAIN out :
               out'[b] = out[b] \/ b \in ImageAt .. ImageAt + Page + table_size - 1]_vars
    BY InPlaceStep
  <1> QED
    BY <1>1, <1>2, PTL DEF Spec, WrittenBackInPlace

-----------------------------------------------------------------------------
(***************************************************************************)
(* A block written earlier stays where its entry says, as long as nothing  *)
(* after the table changes.                                                *)
(***************************************************************************)
LEMMA BlockStays ==
  ASSUME NEW j \in Nat, BlockWritten(j), np_offset \in Nat, table_offset \in Nat, in \in Inputs,
         UNCHANGED <<in, table_offset>>, len \in Nat, len' \in Nat, len <= len',
         \A b \in 0 .. len - 1 : b >= table_offset + table_size => out'[b] = out[b],
         \A w \in 0 .. EntrySize - 1 : table'[j * EntrySize + w] = table[j * EntrySize + w]
  PROVE  BlockWritten(j)'
  <1>1. PICK seed \in Nat, wsize \in Nat : BlockAt(j, seed, wsize)
    BY DEF BlockWritten
  <1>a. PICK place : place = seed * Unit
    OBVIOUS
  <1>b. PICK cells : cells = Part(out, np_offset + place, wsize)
    OBVIOUS
  <1>2. /\ Page + table_size <= place /\ np_offset + place + wsize <= len
        /\ \A w \in 0 .. EntrySize - 1 :
             table[j * EntrySize + w] = encrypt_table(Entry(place, wsize, cells))[w]
        /\ IsBlock(Cipher(cells, header_key, version_key, seed), j, wsize)
    BY <1>1, <1>a, <1>b DEF BlockAt
  <1>3. place \in Nat /\ table_size \in Nat /\ Page \in Nat
    BY <1>a, Sizes, TableFits
  <1>4. np_offset' = np_offset /\ table_size' = table_size /\ version_key' = version_key
    BY DEF np_offset, table_size, iso_blocks, iso_size, version_key
  <1>5. table_offset = np_offset + Page
    BY <1>3 DEF np_offset
  <1>6. ASSUME NEW b \in 0 .. wsize - 1
        PROVE  out'[np_offset + place + b] = out[np_offset + place + b]
    <2>1. np_offset + place + b \in 0 .. len - 1 /\ np_offset + place + b >= table_offset + table_size
      BY <1>2, <1>3, <1>5
    <2> QED
      BY <2>1
  <1>7. Part(out', np_offset' + place, wsize) = cells
    BY <1>4, <1>6, <1>b DEF Part
  <1>8. Entry(place, wsize, cells)' = Entry(place, wsize, cells)
    BY <1>4 DEF Entry
  <1>9. \A plain : IsBlock(plain, j, wsize)' <=> IsBlock(plain, j, wsize)
    BY DEF IsBlock, PlainBlock, iso_size
  <1>10. BlockAt(j, seed, wsize)'
    <2>1. Page + table_size' <= place /\ np_offset' + place + wsize <= len'
      BY <1>2, <1>3, <1>4
    <2>2. \A w \in 0 .. EntrySize - 1 :
            table'[j * EntrySize + w] = encrypt_table(Entry(place, wsize, cells)')[w]
      BY <1>2, <1>8
    <2>3. IsBlock(Cipher(cells, header_key, version_key, seed), j, wsize)'
      <3>1. PICK plain : plain = Cipher(cells, header_key, version_key, seed)
        OBVIOUS
      <3>2. IsBlock(plain, j, wsize)'
        BY <1>2, <1>9, <3>1
      <3> QED
        BY <1>4, <3>1, <3>2
    <2> QED
      BY <1>7, <1>a, <2>1, <2>2, <2>3 DEF BlockAt
  <1> QED
    BY <1>10 DEF BlockWritten

(***************************************************************************)
(* A block that is put is where its entry says, and decrypts to what it    *)
(* was.                                                                    *)
(***************************************************************************)
LEMMA PartOfAll ==
  ASSUME NEW m \in Nat, NEW f, f = [b \in 0 .. m - 1 |-> f[b]]
  PROVE  Part(f, 0, m) = f
  <1>1. \A b \in 0 .. m - 1 : f[0 + b] = f[b]
    OBVIOUS
  <1>2. Part(f, 0, m) = [b \in 0 .. m - 1 |-> f[b]]
    BY <1>1 DEF Part
  <1> QED
    BY <1>2

LEMMA NewBlock ==
  ASSUME TypeInvariant, np_offset \in Nat, pc = "block", i < iso_blocks,
         NEW wbuf, NEW wsize \in Nat, wbuf = [b \in 0 .. wsize - 1 |-> wbuf[b]],
         IsBlock(wbuf, i, wsize), PutBlock(wbuf, wsize), UNCHANGED <<in, table_offset>>,
         NEW j, j = i
  PROVE  BlockWritten(j)'
  <1>1. PICK u \in Nat : iso_offset = u * Unit
    BY DEF TypeInvariant, StreamInvariant, Placed
  <1>2. Seed = u
    BY <1>1, Sizes, DivOfUnits DEF Seed
  <1>3. PICK place : place = u * Unit
    OBVIOUS
  <1>4. PICK cells : cells = Cipher(wbuf, header_key, version_key, u)
    OBVIOUS
  <1>5. /\ \A b \in 0 .. wsize - 1 : out'[len + b] = cells[b]
        /\ \A w \in 0 .. EntrySize - 1 :
             table'[j * EntrySize + w] = encrypt_table(Entry(place, wsize, cells))[w]
    <2>1. Part(wbuf, 0, wsize) = wbuf
      BY PartOfAll
    <2>2. cells = Cipher(Part(wbuf, 0, wsize), header_key, version_key, Seed) /\ place = iso_offset
      BY <1>1, <1>2, <1>3, <1>4, <2>1
    <2> QED
      BY <2>2, PutBlockWrites
  <1>6. /\ place \in Nat /\ place >= Page + table_size
        /\ len = table_offset + place - Page /\ len \in Nat /\ table_offset \in Nat
    BY <1>1, <1>3 DEF TypeInvariant, OutInvariant, StreamInvariant
  <1>7. table_size \in Nat /\ Page \in Nat
    BY TableFits, Sizes DEF TypeInvariant, StreamInvariant
  <1>8. np_offset' = np_offset /\ table_size' = table_size /\ version_key' = version_key
    BY DEF np_offset, table_size, iso_blocks, iso_size, version_key
  <1>9. np_offset + place = len
    BY <1>6, <1>7 DEF np_offset
  <1>10. len' >= len + wsize
    <2>1. len' = len + Align(wsize, Unit) /\ Align(wsize, Unit) \in Nat /\ wsize <= Align(wsize, Unit)
      BY PutBlockCells
    <2> QED
      BY <1>6, <2>1
  <1>11. DOMAIN wbuf = 0 .. wsize - 1
    OBVIOUS
  <1>12. cells = [b \in 0 .. wsize - 1 |-> cells[b]]
    <2>1. cells = [b \in 0 .. wsize - 1 |-> Xor(wbuf[b], KeyCell(header_key, version_key, u, b))]
      BY <1>4, <1>11 DEF Cipher
    <2> QED
      BY <2>1
  <1>13. Part(out', np_offset' + place, wsize) = cells
    <2>1. Part(out', len, wsize) = [b \in 0 .. wsize - 1 |-> cells[b]]
      BY <1>5 DEF Part
    <2> QED
      BY <1>8, <1>9, <1>12, <2>1
  <1>14. Cipher(cells, header_key, version_key, u) = wbuf
    BY <1>4, CipherTwice
  <1>15. IsBlock(Cipher(cells, header_key, version_key, u), j, wsize)'
    <2>1. IsBlock(wbuf, j, wsize)'
      BY DEF IsBlock, PlainBlock, iso_size
    <2> QED
      BY <1>8, <1>14, <2>1
  <1>16. Entry(place, wsize, cells)' = Entry(place, wsize, cells)
    BY <1>8 DEF Entry
  <1>17. \A w \in 0 .. EntrySize - 1 :
           table'[j * EntrySize + w] = encrypt_table(Entry(place, wsize, cells)')[w]
    BY <1>5, <1>16
  <1>18. Page + table_size' <= place /\ np_offset' + place + wsize <= len'
    BY <1>6, <1>7, <1>8, <1>9, <1>10
  <1>19. BlockAt(j, u, wsize)'
    BY <1>3, <1>13, <1>15, <1>17, <1>18 DEF BlockAt
  <1> QED
    BY <1>19 DEF BlockWritten

(***************************************************************************)
(* With a new block all blocks so far are where their entries say.         *)
(***************************************************************************)
LEMMA BlocksWithNew ==
  ASSUME TypeInvariant, np_offset \in Nat, pc = "block", i < iso_blocks,
         NEW wbuf, NEW wsize \in Nat, wbuf = [b \in 0 .. wsize - 1 |-> wbuf[b]],
         IsBlock(wbuf, i, wsize), PutBlock(wbuf, wsize), UNCHANGED <<in, table_offset>>,
         \A j \in 0 .. i - 1 : BlockWritten(j)
  PROVE  \A j \in 0 .. i' - 1 : BlockWritten(j)'
  <1>1. i' = i + 1 /\ i \in Nat
    BY PutBlockCells DEF TypeInvariant, StreamInvariant, StreamsInOrder
  <1> TAKE j \in 0 .. i' - 1
  <1>2. CASE j = i
    BY <1>2, NewBlock
  <1>3. CASE j # i
    <2>1. j \in 0 .. i - 1 /\ j \in Nat
      BY <1>1, <1>3
    <2>2. BlockWritten(j)
      BY <2>1
    <2>3. len \in Nat /\ len' \in Nat /\ len <= len' /\ table_offset \in Nat /\ in \in Inputs
      <3>1. len' = len + Align(wsize, Unit) /\ Align(wsize, Unit) \in Nat
        BY PutBlockCells
      <3> QED
        BY <3>1 DEF TypeInvariant, OutInvariant, StreamInvariant
    <2>4. /\ \A b \in 0 .. len - 1 : out'[b] = out[b]
          /\ \A b \in 0 .. table_size - 1 :
               b \notin i * EntrySize .. i * EntrySize + EntrySize - 1 => table'[b] = table[b]
      BY PutBlockWrites
    <2>5. ASSUME NEW w \in 0 .. EntrySize - 1
          PROVE  table'[j * EntrySize + w] = table[j * EntrySize + w]
      <3>1. j * 8 + w \in 0 .. iso_blocks * 8 - 1 /\ j * 8 + w < i * 8 /\ EntrySize = 8 /\ j * 8 + w \in Int /\ i * 8 \in Int
        <4>1. iso_blocks \in Nat
          BY <2>3, TableFits
        <4>2. w \in 0 .. 7 /\ EntrySize = 8
          BY DEF EntrySize
        <4>3. j \in Int /\ 0 <= j /\ j < i /\ i \in Int /\ i < iso_blocks
          BY <1>1, <2>1
        <4>4. w \in Int /\ 0 <= w /\ w <= 7
          BY <4>2
        <4>5. j * 8 \in Int /\ i * 8 \in Int /\ iso_blocks * 8 \in Int
          BY <4>1, <4>3
        <4>6. 0 <= j * 8 /\ j * 8 + 8 <= i * 8 /\ i * 8 <= iso_blocks * 8
          BY <4>1, <4>3
        <4> QED
          BY <4>2, <4>4, <4>5, <4>6
      <3>2. j * EntrySize + w \in 0 .. table_size - 1
        BY <3>1 DEF table_size
      <3>3. j * EntrySize + w \notin i * EntrySize .. i * EntrySize + EntrySize - 1
        BY <3>1
      <3> QED
        BY <2>4, <3>2, <3>3
    <2> QED
      BY <2>1, <2>2, <2>3, <2>4, <2>5, BlockStays
  <1> QED
    BY <1>2, <1>3

(***************************************************************************)
(* The position in the ISO is that of the next block.                      *)
(***************************************************************************)
LEMMA NextOfIso ==
  ASSUME TypeInvariant, i < iso_blocks,
         iso_at = IF i * BlockSize < iso_size THEN i * BlockSize ELSE iso_size
  PROVE  /\ RestOfIso \in Nat
         /\ [b \in 0 .. RestOfIso - 1 |-> Iso(iso_at + b)] = PlainBlock(i)
         /\ iso_at + RestOfIso =
              IF (i + 1) * BlockSize < iso_size THEN (i + 1) * BlockSize ELSE iso_size
  <1>1. i \in Nat /\ iso_size \in Nat /\ BlockSize \in Nat /\ BlockSize > 0
    BY IsoSizes, Sizes DEF TypeInvariant, StreamInvariant, StreamsInOrder
  <1> DEFINE p == i * BlockSize
  <1>2. p \in Nat /\ (i + 1) * BlockSize = p + BlockSize
    BY <1>1
  <1>3. p < iso_size
    <2> SUFFICES ASSUME iso_size <= p PROVE FALSE
      BY <1>1, <1>2
    <2>1. iso_blocks <= i
      BY <1>1, CeilBelow DEF iso_blocks
    <2>2. iso_blocks \in Nat
      BY IsoSizes DEF TypeInvariant, StreamInvariant
    <2> QED
      BY <1>1, <2>1, <2>2
  <1>4. iso_at = p
    BY <1>3
  <1>5. PlainBlock(i) = [b \in 0 .. (IF iso_size - p < BlockSize THEN iso_size - p ELSE BlockSize) - 1
                           |-> Iso(p + b)]
    BY DEF PlainBlock
  <1> HIDE DEF p
  <1>6. RestOfIso = IF iso_size - p < BlockSize THEN iso_size - p ELSE BlockSize
    BY <1>1, <1>2, <1>4 DEF RestOfIso
  <1>7. RestOfIso \in Nat
    BY <1>1, <1>2, <1>3, <1>6
  <1>8. iso_at + RestOfIso = IF p + BlockSize < iso_size THEN p + BlockSize ELSE iso_size
    BY <1>1, <1>2, <1>4, <1>6
  <1> QED
    BY <1>2, <1>4, <1>5, <1>6, <1>7, <1>8

LEMMA BlocksOfWrite ==
  ASSUME TypeInvariant, PbpInvariant, BlocksInvariant, WriteBlock, ~spoilt
  PROVE  /\ \A j \in 0 .. i' - 1 : BlockWritten(j)'
         /\ iso_at' = IF i' * BlockSize < iso_size THEN i' * BlockSize ELSE iso_size
  <1> DEFINE plain == [b \in 0 .. RestOfIso - 1 |-> Iso(iso_at + b)]
  <1>1. /\ pc = "block" /\ i < iso_blocks /\ PutPlainOrLz(plain) /\ iso_at' = iso_at + RestOfIso
        /\ UNCHANGED <<in, table_offset>>
    BY DEF WriteBlock, argVars
  <1>2. /\ iso_at = IF i * BlockSize < iso_size THEN i * BlockSize ELSE iso_size
        /\ \A j \in 0 .. i - 1 : BlockWritten(j)
    BY <1>1 DEF BlocksInvariant
  <1>3. RestOfIso \in Nat /\ plain = PlainBlock(i)
    BY <1>1, <1>2, NextOfIso
  <1>4. iso_at' = IF (i + 1) * BlockSize < iso_size THEN (i + 1) * BlockSize ELSE iso_size
    BY <1>1, <1>2, NextOfIso
  <1>5. np_offset \in Nat
    BY <1>1, WrittenFacts DEF PbpInvariant
  <1>6. plain = [b \in 0 .. RestOfIso - 1 |-> plain[b]]
    OBVIOUS
  <1> HIDE DEF plain
  <1>7. CASE PutBlock(plain, RestOfIso)
    <2>1. IsBlock(plain, i, RestOfIso)
      BY <1>3 DEF IsBlock
    <2>2. \A j \in 0 .. i' - 1 : BlockWritten(j)'
      BY <1>1, <1>2, <1>3, <1>5, <1>6, <1>7, <2>1, BlocksWithNew
    <2>3. i' = i + 1
      BY <1>7 DEF PutBlock
    <2> QED
      BY <1>4, <2>2, <2>3
  <1>8. ASSUME in.compress, NEW size \in LzSizes, Worth(size), PutBlock(Lz(size), Align(size, Unit))
        PROVE  (\A j \in 0 .. i' - 1 : BlockWritten(j)') /\ i' = i + 1
    <2> DEFINE m == Align(size, Unit)
               z == Lz(size)
    <2>1. m \in Nat
      BY Sizes, AlignFacts
    <2>2. m < BlockSize
      BY <1>8, NpConstants DEF Worth
    <2>3. z = LzBlock(i, size)
      BY DEF Lz, LzBlock
    <2>4. z = [b \in 0 .. m - 1 |-> z[b]]
      BY DEF Lz
    <2> HIDE DEF m, z
    <2>5. IsBlock(z, i, m)
      BY <1>8, <2>2, <2>3 DEF IsBlock
    <2>6. PutBlock(z, m)
      BY <1>8 DEF z, m
    <2>7. \A j \in 0 .. i' - 1 : BlockWritten(j)'
      BY <1>1, <1>2, <1>5, <2>1, <2>4, <2>5, <2>6, BlocksWithNew
    <2>8. i' = i + 1
      BY <1>8 DEF PutBlock
    <2> QED
      BY <2>7, <2>8
  <1> QED
    BY <1>1, <1>4, <1>7, <1>8 DEF PutPlainOrLz

LEMMA ImageInit == Init => ImageInvariant
  BY PbpInit DEF Init, ImageInvariant, BlocksInvariant, TableInvariant

LEMMA WriteIsFunction ==
  ASSUME NEW f, NEW at, NEW cells, NEW g, g = WriteAt(f, at, cells)
  PROVE  g = [b \in DOMAIN g |-> g[b]]
  BY DEF WriteAt

LEMMA TableStep == TableInvariant /\ [Next]_vars => TableInvariant'
  <1> SUFFICES ASSUME TableInvariant, [Next]_vars, pc' \in {"block", "done"}
               PROVE  table' = [b \in DOMAIN table' |-> table'[b]]
    BY DEF TableInvariant
  <1> USE DEF argVars, extraVars, outVars, blockVars
  <1>1. ASSUME NEW wbuf, NEW wsize, PutBlock(wbuf, wsize)
        PROVE  table' = [b \in DOMAIN table' |-> table'[b]]
    <2>1. PICK entry : table' = WriteAt(table, i * EntrySize, entry)
      BY <1>1 DEF PutBlock
    <2> DEFINE at == i * EntrySize
    <2>2. table' = WriteAt(table, at, entry)
      BY <2>1
    <2> HIDE DEF at
    <2> QED
      BY <2>2, WriteIsFunction
  <1>2. ASSUME NEW plain, PutPlainOrLz(plain)
        PROVE  table' = [b \in DOMAIN table' |-> table'[b]]
    BY <1>1, <1>2 DEF PutPlainOrLz
  <1>3. CASE WriteEmptyTable
    <2>1. table' = [b \in 0 .. table_size - 1 |-> Zero]
      BY <1>3 DEF WriteEmptyTable
    <2> QED
      BY <2>1
  <1>4. CASE WriteBlock
    BY <1>2, <1>4 DEF WriteBlock
  <1>5. CASE WriteUnreadBlock
    BY <1>2, <1>5 DEF WriteUnreadBlock
  <1>6. CASE WriteBack
    BY <1>6 DEF WriteBack, TableInvariant
  <1>7. CASE UNCHANGED vars
    BY <1>7 DEF vars, TableInvariant
  <1>8. CASE LookAtExtra
    <2>1. pc' \in {"crashed", "exited", "extra"}
      BY <1>8 DEF LookAtExtra
    <2> QED
      BY <2>1
  <1>9. CASE OpenFiles \/ ExtrasSeen \/ MakePgd \/ OpnssmpUnread \/ HeapCrashes
    BY <1>9 DEF OpenFiles, ExtrasSeen, MakePgd, OpnssmpUnread, HeapCrashes
  <1>10. CASE MakeStartdat \/ StartdatUnread \/ LoadFile \/ LoadFails
    BY <1>10 DEF MakeStartdat, StartdatUnread, LoadFile, LoadFails
  <1>11. CASE WritePbp \/ NoParamSfo \/ SigningFails \/ ForgeFails
    BY <1>11 DEF WritePbp, NoParamSfo, SigningFails, ForgeFails
  <1> QED
    BY <1>3, <1>4, <1>5, <1>6, <1>7, <1>8, <1>9, <1>10, <1>11 DEF Next, Exited

LEMMA ImageStep == TypeInvariant /\ ImageInvariant /\ [Next]_vars => ImageInvariant'
  <1> SUFFICES ASSUME TypeInvariant, ImageInvariant, [Next]_vars PROVE ImageInvariant'
    OBVIOUS
  <1> USE DEF argVars, extraVars, outVars, blockVars
  <1>0. PbpInvariant' /\ PbpInvariant /\ BlocksInvariant /\ TableInvariant'
    BY PbpStep, TableStep DEF ImageInvariant
  <1>a. ASSUME UNCHANGED <<in, i, iso_at>>, pc' \in Before => pc \in Before,
               pc' # "block", pc' # "done"
        PROVE  ImageInvariant'
    BY <1>0, <1>a DEF ImageInvariant, BlocksInvariant
  <1>b. ASSUME UNCHANGED vars PROVE ImageInvariant'
    <2>1. UNCHANGED <<in, pc, table, i, iso_at, out, len, table_offset, spoilt>>
      BY <1>b DEF vars
    <2>2. iso_size' = iso_size /\ iso_blocks' = iso_blocks /\ table_size' = table_size
          /\ np_offset' = np_offset /\ version_key' = version_key
      BY <2>1 DEF iso_size, iso_blocks, table_size, np_offset, version_key
    <2>3. \A j : BlockWritten(j)' <=> BlockWritten(j)
      BY <2>1, <2>2 DEF BlockWritten, BlockAt, Entry, IsBlock, PlainBlock
    <2>4. BlocksInvariant'
      BY <1>0, <2>1, <2>2, <2>3 DEF BlocksInvariant
    <2>5. NpHeader(DataKey)' = NpHeader(DataKey)
      BY <2>1, <2>2 DEF NpHeader, DataKey, UpToD8, UpToC0, NpBody, np_flags
    <2>6. WrittenBack' <=> WrittenBack
      BY <2>1, <2>2, <2>5 DEF WrittenBack
    <2> QED
      BY <1>0, <2>1, <2>4, <2>6 DEF ImageInvariant
  <1>1. CASE OpenFiles
    BY <1>a, <1>1 DEF OpenFiles, Before
  <1>2. CASE LookAtExtra
    <2>1. pc' \in {"crashed", "exited", "extra"} /\ pc = "extra" /\ UNCHANGED <<in, i, iso_at>>
      BY <1>2 DEF LookAtExtra
    <2> QED
      BY <1>a, <2>1 DEF Before
  <1>3. CASE ExtrasSeen
    BY <1>a, <1>3 DEF ExtrasSeen, Before
  <1>4. CASE MakePgd
    BY <1>a, <1>4 DEF MakePgd, Before
  <1>5. CASE OpnssmpUnread
    BY <1>a, <1>5 DEF OpnssmpUnread, Before
  <1>5a. CASE HeapCrashes
    BY <1>a, <1>5a DEF HeapCrashes, Before
  <1>6. CASE MakeStartdat
    BY <1>a, <1>6 DEF MakeStartdat, Before
  <1>7. CASE StartdatUnread
    BY <1>a, <1>7 DEF StartdatUnread, Before
  <1>8. CASE LoadFile
    BY <1>a, <1>8 DEF LoadFile
  <1>9. CASE LoadFails
    BY <1>a, <1>9 DEF LoadFails
  <1>10. CASE WritePbp
    BY <1>a, <1>10 DEF WritePbp, Before
  <1>11. CASE NoParamSfo
    BY <1>a, <1>11 DEF NoParamSfo, Before
  <1>12. CASE SigningFails
    BY <1>a, <1>12 DEF SigningFails, Before
  <1>13. CASE WriteEmptyTable
    <2>1. pc = "table" /\ pc' = "block" /\ UNCHANGED <<in, i, iso_at, spoilt>>
      BY <1>13 DEF WriteEmptyTable
    <2>2. i = 0 /\ iso_at = 0
      BY <1>0, <2>1 DEF TypeInvariant, StreamInvariant, BlocksInvariant, Before
    <2>3. iso_at' = IF i' * BlockSize < iso_size' THEN i' * BlockSize ELSE iso_size'
      <3>1. iso_size \in Nat /\ BlockSize \in Nat
        BY IsoSizes, Sizes DEF TypeInvariant, StreamInvariant
      <3>2. iso_size' = iso_size /\ i' * BlockSize = 0
        BY <2>1, <2>2, <3>1 DEF iso_size
      <3> QED
        BY <2>1, <2>2, <3>1, <3>2
    <2>4. \A j \in 0 .. i' - 1 : FALSE
      BY <2>1, <2>2
    <2> QED
      BY <1>0, <2>1, <2>3, <2>4 DEF ImageInvariant, BlocksInvariant, Before
  <1>14. CASE WriteBlock
    <2>1. pc = "block" /\ pc' = "block" /\ in' = in /\ spoilt' = spoilt
      BY <1>14 DEF WriteBlock
    <2>2. iso_size' = iso_size
      BY <2>1 DEF iso_size
    <2>3. ~spoilt => /\ \A j \in 0 .. i' - 1 : BlockWritten(j)'
                     /\ iso_at' = IF i' * BlockSize < iso_size THEN i' * BlockSize ELSE iso_size
      BY <1>0, <1>14, BlocksOfWrite
    <2> QED
      BY <1>0, <2>1, <2>2, <2>3 DEF ImageInvariant, BlocksInvariant, Before
  <1>15. CASE WriteUnreadBlock
    <2>1. pc' = "block" /\ spoilt'
      BY <1>15 DEF WriteUnreadBlock
    <2> QED
      BY <1>0, <2>1 DEF ImageInvariant, BlocksInvariant, Before
  <1>16. CASE WriteBack
    <2>1. /\ pc = "block" /\ pc' = "done" /\ i = iso_blocks
          /\ UNCHANGED <<in, table_offset, table, i, spoilt>>
      BY <1>16 DEF WriteBack
    <2>2. CASE spoilt
      BY <1>0, <2>1, <2>2 DEF ImageInvariant, BlocksInvariant, Before
    <2>3. CASE ~spoilt
      <3>1. PbpWritten /\ np_offset \in Nat
        BY <1>0, <2>1, <2>3, WrittenFacts DEF PbpInvariant
      <3>2. /\ \A b \in 0 .. len - 1 :
                 b \notin np_offset .. table_offset + table_size - 1 => out'[b] = out[b]
            /\ \A b \in 0 .. Page - 1 : out'[np_offset + b] = NpHeader(DataKey)[b]
            /\ \A b \in 0 .. table_size - 1 : out'[table_offset + b] = table[b]
            /\ len <= len'
        BY <1>16, <3>1, BackWrites
      <3>3. /\ iso_blocks' = iso_blocks /\ table_size' = table_size /\ np_offset' = np_offset
            /\ NpHeader(DataKey)' = NpHeader(DataKey)
        <4>1. iso_blocks' = iso_blocks /\ version_key' = version_key
          BY <2>1 DEF iso_blocks, iso_size, version_key
        <4> QED
          BY <2>1, <4>1
             DEF table_size, np_offset, NpHeader, DataKey, UpToD8, UpToC0, NpBody, np_flags
      <3>4. WrittenBack'
        BY <2>1, <3>2, <3>3 DEF WrittenBack
      <3>5. ASSUME NEW j \in 0 .. i - 1 PROVE BlockWritten(j)'
        <4>1. BlockWritten(j)
          BY <1>0, <2>1, <2>3 DEF BlocksInvariant
        <4>2. j \in Nat /\ in \in Inputs /\ len \in Nat /\ table_offset \in Nat
          BY DEF TypeInvariant, StreamInvariant, StreamsInOrder, OutInvariant
        <4>3. len' \in Nat
          BY TypeStep DEF TypeInvariant, OutInvariant
        <4>4. table_size \in Nat
          BY <4>2, TableFits
        <4>5. ASSUME NEW b \in 0 .. len - 1, b >= table_offset + table_size PROVE out'[b] = out[b]
          <5>1. b \notin np_offset .. table_offset + table_size - 1
            BY <4>2, <4>4, <4>5
          <5> QED
            BY <3>2, <5>1
        <4> QED
          BY <2>1, <3>1, <3>2, <4>1, <4>2, <4>3, <4>5, BlockStays
      <3>6. BlocksInvariant'
        BY <2>1, <3>5 DEF BlocksInvariant, Before
      <3> QED
        BY <1>0, <3>4, <3>6 DEF ImageInvariant
    <2> QED
      BY <2>2, <2>3
  <1>17. CASE ForgeFails
    BY <1>a, <1>17 DEF ForgeFails, Before
  <1> QED
    BY <1>b, <1>1, <1>2, <1>3, <1>4, <1>5, <1>5a, <1>6, <1>7, <1>8, <1>9, <1>10, <1>11, <1>12, <1>13, <1>14,
       <1>15, <1>16, <1>17 DEF Next, Exited

-----------------------------------------------------------------------------
(***************************************************************************)
(* What the reader finds at the end.                                       *)
(***************************************************************************)
LEMMA HeaderPlaces ==
  /\ BodySize \in Nat /\ BodySize > 0
  /\ HeaderKeyIn = BodySize + 1 /\ DataKeyIn = BodySize + 2 /\ HashIn = BodySize + 3
  /\ SignatureIn = BodySize + 5 /\ BodySize + 6 <= Page /\ Page \in Nat
  BY NpConstants DEF HeaderKeyIn, DataKeyIn, HashIn, SignatureIn

LEMMA NpHeaderCells ==
  ASSUME NEW key
  PROVE  /\ \A b \in 0 .. SignatureIn - 1 : NpHeader(key)[b] = UpToD8(key)[b]
         /\ \A b \in 0 .. HashIn - 1 : UpToD8(key)[b] = UpToC0(key)[b]
         /\ NpHeader(key)[SignatureIn] = Signature(UpToD8(key))
         /\ UpToD8(key)[HashIn] = Mac(3, version_key, UpToC0(key))
         /\ UpToC0(key)[0] = ImageId(np_flags)
         /\ UpToC0(key)[HeaderKeyIn] = header_key
         /\ UpToC0(key)[DataKeyIn] = key
         /\ \A b \in 0 .. BodySize - 1 : UpToC0(key)[b + 1] = NpBody[b]
  <1>1. \A b \in 0 .. SignatureIn - 1 : NpHeader(key)[b] = UpToD8(key)[b]
    BY HeaderPlaces DEF NpHeader
  <1>2. \A b \in 0 .. HashIn - 1 : UpToD8(key)[b] = UpToC0(key)[b]
    BY HeaderPlaces DEF UpToD8
  <1>3. NpHeader(key)[SignatureIn] = Signature(UpToD8(key))
    BY HeaderPlaces DEF NpHeader
  <1>4. UpToD8(key)[HashIn] = Mac(3, version_key, UpToC0(key))
    BY HeaderPlaces DEF UpToD8
  <1>5. UpToC0(key)[0] = ImageId(np_flags)
    BY HeaderPlaces DEF UpToC0
  <1>6. UpToC0(key)[HeaderKeyIn] = header_key
    BY HeaderPlaces DEF UpToC0
  <1>7. UpToC0(key)[DataKeyIn] = key
    BY HeaderPlaces DEF UpToC0
  <1>8. ASSUME NEW b \in 0 .. BodySize - 1 PROVE UpToC0(key)[b + 1] = NpBody[b]
    <2>1. b + 1 \in 1 .. BodySize /\ (b + 1) - 1 = b
      BY HeaderPlaces
    <2>2. b + 1 \in 0 .. HashIn - 1 /\ b + 1 # 0 /\ b + 1 # HeaderKeyIn /\ b + 1 # DataKeyIn
      BY <2>1, HeaderPlaces
    <2> QED
      BY <2>1, <2>2 DEF UpToC0
  <1> QED
    BY <1>1, <1>2, <1>3, <1>4, <1>5, <1>6, <1>7, <1>8

LEMMA ImageIdsDiffer ==
  ASSUME NEW a, NEW b, a # b
  PROVE  ImageId(a) # ImageId(b)
  <1> DEFINE t(x) == <<"image id", x, content_id>>
  <1>1. t(a) # t(b)
    OBVIOUS
  <1> HIDE DEF t
  <1>2. {t(a)} # {t(b)}
    BY <1>1
  <1> QED
    BY <1>2 DEF t, ImageId, Atom

LEMMA FinishedFacts ==
  ASSUME TypeInvariant, ImageInvariant, Finished
  PROVE  /\ PbpWritten /\ ImageAt = np_offset /\ np_offset \in Nat
         /\ table_offset = ImageAt + Page
         /\ \A b \in 0 .. Page - 1 : HeaderCell(b) = NpHeader(DataKey)[b]
         /\ \A b \in 0 .. table_size - 1 : TableCell(b) = table[b]
         /\ KeyOfImage = version_key
  <1>1. PbpWritten /\ WrittenBack
    BY DEF ImageInvariant, PbpInvariant, Finished
  <1>2. Off[7] \in Nat /\ np_offset = Off[7] /\ ImageAt = Off[7]
    BY <1>1, WrittenFacts, OffsetsInFile DEF ImageAt
  <1>3. table_offset = ImageAt + Page
    BY <1>1, <1>2 DEF PbpWritten
  <1>4. \A b \in 0 .. Page - 1 : HeaderCell(b) = NpHeader(DataKey)[b]
    BY <1>1, <1>2 DEF HeaderCell, WrittenBack
  <1>5. \A b \in 0 .. table_size - 1 : TableCell(b) = table[b]
    BY <1>1, <1>3 DEF TableCell, WrittenBack
  <1>6. HeaderCell(0) = ImageId(np_flags)
    <2>1. 0 \in 0 .. Page - 1 /\ 0 \in 0 .. SignatureIn - 1 /\ 0 \in 0 .. HashIn - 1
      BY HeaderPlaces
    <2> QED
      BY <1>4, <2>1, NpHeaderCells
  <1>7. KeyOfImage = version_key
    <2>1. CASE in.key = NoKey
      <3>1. np_flags # 2
        BY <2>1, SMT DEF np_flags
      <3>2. ImageId(np_flags) # ImageId(2)
        BY <3>1, ImageIdsDiffer
      <3> QED
        BY <1>6, <2>1, <3>2 DEF KeyOfImage, version_key
    <2>2. CASE in.key # NoKey
      <3>1. np_flags = 2
        BY <2>2, SMT DEF np_flags
      <3> QED
        BY <1>6, <2>2, <3>1 DEF KeyOfImage, version_key
    <2> QED
      BY <2>1, <2>2
  <1> QED
    BY <1>1, <1>2, <1>3, <1>4, <1>5, <1>7

LEMMA HeaderRight ==
  ASSUME TypeInvariant, ImageInvariant
  PROVE  HeaderVerifies
  <1> DEFINE Upto(m) == [b \in 0 .. m - 1 |-> HeaderCell(b)]
             body == [b \in 0 .. BodySize - 1 |-> HeaderCell(b + 1)]
             key == DataKey
  <1> SUFFICES ASSUME Finished
               PROVE  /\ HeaderCell(SignatureIn) = Signature(Upto(SignatureIn))
                      /\ HeaderCell(HashIn) = Mac(3, KeyOfImage, Upto(HashIn))
                      /\ HeaderCell(DataKeyIn) =
                           Mac(3, KeyOfImage, [b \in 0 .. table_size - 1 |-> TableCell(b)])
                      /\ Cipher(body, HeaderCell(HeaderKeyIn), KeyOfImage, 0) = Body(iso_blocks)
    BY DEF HeaderVerifies
  <1>1. /\ \A b \in 0 .. Page - 1 : HeaderCell(b) = NpHeader(key)[b]
        /\ \A b \in 0 .. table_size - 1 : TableCell(b) = table[b]
        /\ KeyOfImage = version_key
    BY FinishedFacts
  <1> HIDE DEF key
  <1>2. \A b \in 0 .. SignatureIn - 1 : HeaderCell(b) = UpToD8(key)[b]
    <2> TAKE b \in 0 .. SignatureIn - 1
    <2>1. b \in 0 .. Page - 1
      BY HeaderPlaces
    <2> QED
      BY <1>1, <2>1, NpHeaderCells
  <1>3. \A b \in 0 .. HashIn - 1 : HeaderCell(b) = UpToC0(key)[b]
    <2> TAKE b \in 0 .. HashIn - 1
    <2>1. b \in 0 .. SignatureIn - 1
      BY HeaderPlaces
    <2> QED
      BY <1>2, <2>1, NpHeaderCells
  <1>4. Upto(SignatureIn) = UpToD8(key)
    <2>1. UpToD8(key) = [b \in 0 .. SignatureIn - 1 |-> UpToD8(key)[b]]
      BY DEF UpToD8
    <2> QED
      BY <1>2, <2>1
  <1>5. Upto(HashIn) = UpToC0(key)
    <2>1. UpToC0(key) = [b \in 0 .. HashIn - 1 |-> UpToC0(key)[b]]
      BY DEF UpToC0
    <2> QED
      BY <1>3, <2>1
  <1>6. HeaderCell(SignatureIn) = Signature(Upto(SignatureIn))
    <2>1. SignatureIn \in 0 .. Page - 1
      BY HeaderPlaces
    <2> QED
      BY <1>1, <1>4, <2>1, NpHeaderCells
  <1>7. HeaderCell(HashIn) = Mac(3, KeyOfImage, Upto(HashIn))
    <2>1. HashIn \in 0 .. SignatureIn - 1
      BY HeaderPlaces
    <2> QED
      BY <1>1, <1>2, <1>5, <2>1, NpHeaderCells
  <1>8. HeaderCell(DataKeyIn) = Mac(3, KeyOfImage, [b \in 0 .. table_size - 1 |-> TableCell(b)])
    <2>1. DataKeyIn \in 0 .. HashIn - 1
      BY HeaderPlaces
    <2>2. HeaderCell(DataKeyIn) = key
      BY <1>3, <2>1, NpHeaderCells
    <2>3. table = [b \in 0 .. table_size - 1 |-> table[b]]
      BY DEF ImageInvariant, TableInvariant, TypeInvariant, OutInvariant, Finished
    <2>4. [b \in 0 .. table_size - 1 |-> TableCell(b)] = table
      BY <1>1, <2>3
    <2> QED
      BY <1>1, <2>2, <2>4 DEF key, DataKey
  <1>9. Cipher(body, HeaderCell(HeaderKeyIn), KeyOfImage, 0) = Body(iso_blocks)
    <2>1. HeaderKeyIn \in 0 .. HashIn - 1
      BY HeaderPlaces
    <2>2. HeaderCell(HeaderKeyIn) = header_key
      BY <1>3, <2>1, NpHeaderCells
    <2>3. \A b \in 0 .. BodySize - 1 : HeaderCell(b + 1) = NpBody[b]
      <3> TAKE b \in 0 .. BodySize - 1
      <3>1. b + 1 \in 0 .. HashIn - 1
        BY HeaderPlaces
      <3> QED
        BY <1>3, <3>1, NpHeaderCells
    <2> DEFINE plain == Body(iso_blocks)
    <2>4. plain = [b \in 0 .. BodySize - 1 |-> plain[b]]
      BY DEF Body
    <2> HIDE DEF plain
    <2>5. NpBody = Cipher(plain, header_key, version_key, 0)
      BY DEF NpBody, plain
    <2>6. DOMAIN plain = 0 .. BodySize - 1
      BY <2>4
    <2>7. NpBody = [b \in 0 .. BodySize - 1 |-> NpBody[b]]
      <3>1. NpBody = [b \in 0 .. BodySize - 1 |-> Xor(plain[b], KeyCell(header_key, version_key, 0, b))]
        BY <2>5, <2>6 DEF Cipher
      <3> QED
        BY <3>1
    <2>8. body = NpBody
      BY <2>3, <2>7
    <2>9. Cipher(NpBody, header_key, version_key, 0) = plain
      BY <2>4, <2>5, HeaderPlaces, CipherTwice
    <2> QED
      BY <1>1, <2>2, <2>8, <2>9 DEF plain
  <1> QED
    BY <1>6, <1>7, <1>8, <1>9

(***************************************************************************)
(* HeaderVerifies: the header of the image is what was signed and what its *)
(* MAC was made of, its data key is the MAC of the table in the file, and  *)
(* its body decrypts (forge_npumdimg, and main's writing of it in place).  *)
(***************************************************************************)
THEOREM HeaderOfTheImageVerifies == Spec => []HeaderVerifies
  BY TypeInit, TypeStep, ImageInit, ImageStep, HeaderRight, PTL DEF Spec

(***************************************************************************)
(* Every entry leads to its block.                                         *)
(***************************************************************************)
LEMMA EntryFound ==
  ASSUME TypeInvariant, ImageInvariant, Finished,
         NEW j \in 0 .. iso_blocks - 1, NEW seed \in Nat, NEW wsize \in Nat, NEW cells,
         \A w \in 0 .. EntrySize - 1 :
           table[j * EntrySize + w] = encrypt_table(Entry(seed * Unit, wsize, cells))[w]
  PROVE  /\ OffsetIn(EntryOf(j)) = seed * Unit /\ SizeIn(EntryOf(j)) = wsize
         /\ \A w \in 0 .. 3 : EntryOf(j)[w] = MacWord(w, 3, version_key, cells)
  <1> DEFINE p == Entry(seed * Unit, wsize, cells)
             q == [w \in 0 .. EntrySize - 1 |-> TableCell(j * EntrySize + w)]
  <1>0. EntrySize = 8
    BY DEF EntrySize
  <1>1. \A b \in 0 .. table_size - 1 : TableCell(b) = table[b]
    BY FinishedFacts
  <1>2. iso_blocks \in Nat /\ table_size = iso_blocks * 8
    BY <1>0, IsoSizes DEF TypeInvariant, StreamInvariant, table_size
  <1>3. ASSUME NEW w \in 0 .. EntrySize - 1 PROVE q[w] = encrypt_table(p)[w]
    <2>1. j * EntrySize + w \in 0 .. table_size - 1
      BY <1>0, <1>2
    <2> QED
      BY <1>1, <2>1
  <1> HIDE DEF q
  <1>4. \A w \in 0 .. EntrySize - 1 : encrypt_table(q)[w] = p[w]
    BY <1>3, EntryTwice
  <1>5. EntryOf(j) = encrypt_table(q)
    BY DEF EntryOf, q
  <1>6. \A w \in 0 .. 7 : EntryOf(j)[w] = p[w]
    BY <1>0, <1>4, <1>5
  <1>7. /\ \A w \in 0 .. 3 : p[w] = MacWord(w, 3, version_key, cells)
        /\ p[4] = Num(seed * Unit) /\ p[5] = Num(wsize)
    BY <1>0 DEF Entry
  <1> HIDE DEF p
  <1>8. EntryOf(j)[4] = Num(seed * Unit) /\ EntryOf(j)[5] = Num(wsize)
    BY <1>6, <1>7
  <1> QED
    BY <1>6, <1>7, <1>8, NumOf DEF OffsetIn, SizeIn

LEMMA ImageRight ==
  ASSUME TypeInvariant, ImageInvariant
  PROVE  ImageReadsBack
  <1> SUFFICES ASSUME Finished, NEW j \in 0 .. iso_blocks - 1
               PROVE  LET entry == EntryOf(j)
                          cells == BlockCells(entry)
                          plain == Cipher(cells, HeaderCell(HeaderKeyIn), KeyOfImage,
                                          OffsetIn(entry) \div Unit)
                      IN  /\ \A w \in 0 .. 3 : entry[w] = MacWord(w, 3, KeyOfImage, cells)
                          /\ \/ plain = PlainBlock(j)
                             \/ in.compress /\ \E size \in LzSizes :
                                  plain = LzBlock(j, size) /\ SizeIn(entry) < BlockSize
    BY DEF ImageReadsBack
  <1>1. ImageAt = np_offset /\ KeyOfImage = version_key
    BY FinishedFacts
  <1>2. HeaderCell(HeaderKeyIn) = header_key
    <2>1. /\ HeaderKeyIn \in 0 .. Page - 1
          /\ HeaderKeyIn \in 0 .. SignatureIn - 1 /\ HeaderKeyIn \in 0 .. HashIn - 1
      BY HeaderPlaces
    <2> QED
      BY <2>1, FinishedFacts, NpHeaderCells
  <1>3. i = iso_blocks
    BY DEF ImageInvariant, WrittenBack, Finished
  <1>4. PICK seed \in Nat, wsize \in Nat : BlockAt(j, seed, wsize)
    BY <1>3 DEF ImageInvariant, BlocksInvariant, BlockWritten, Finished
  <1>5. PICK cells : cells = Part(out, np_offset + seed * Unit, wsize)
    OBVIOUS
  <1>6. /\ \A w \in 0 .. EntrySize - 1 :
             table[j * EntrySize + w] = encrypt_table(Entry(seed * Unit, wsize, cells))[w]
        /\ IsBlock(Cipher(cells, header_key, version_key, seed), j, wsize)
    BY <1>4, <1>5 DEF BlockAt
  <1>7. PICK entry : entry = EntryOf(j)
    OBVIOUS
  <1>8. /\ OffsetIn(entry) = seed * Unit /\ SizeIn(entry) = wsize
        /\ \A w \in 0 .. 3 : entry[w] = MacWord(w, 3, version_key, cells)
    BY <1>6, <1>7, EntryFound
  <1>9. BlockCells(entry) = cells
    BY <1>1, <1>5, <1>8 DEF BlockCells
  <1>10. OffsetIn(entry) \div Unit = seed
    BY <1>8, Sizes, DivOfUnits
  <1> QED
    BY <1>1, <1>2, <1>6, <1>7, <1>8, <1>9, <1>10 DEF IsBlock

(***************************************************************************)
(* ImageReadsBack: through its entry of the table, decrypted and checked,  *)
(* every block of the ISO is found again, plain or compressed (main's loop *)
(* over the blocks, encrypt_table, and the order of the writes).           *)
(***************************************************************************)
THEOREM BlocksReadBack == Spec => []ImageReadsBack
  BY TypeInit, TypeStep, ImageInit, ImageStep, ImageRight, PTL DEF Spec

LEMMA SectionRight ==
  ASSUME TypeInvariant, PbpWritten, NEW s \in 0 .. 5
  PROVE  Section(s) = Secs[s]
  <1>1. Sized(Secs) /\ IsCells(bufs[1])
    BY WrittenFacts
  <1>2. IsCells(Secs[s])
    <2>1. IsCells(PutSfo(bufs[1])) /\ CellsInvariant /\ s \in 0 .. 6
      BY <1>1, SfoCells DEF TypeInvariant
    <2>2. \A r \in 0 .. 6 : IsCells(Sections(PutSfo(bufs[1]))[r])
      BY <2>1, SectionsSized
    <2> QED
      BY <2>1, <2>2 DEF Secs
  <1>3. /\ SectionAt(s) = Off[s] /\ SectionAt(s + 1) = Off[s + 1]
        /\ Off[s] \in Nat /\ Off[s + 1] = Off[s] + Size(Secs[s])
    <2>1. s \in 0 .. 7 /\ s + 1 \in 0 .. 7
      OBVIOUS
    <2>2. Off[s] \in Nat /\ Off[s + 1] = Off[s] + Size(Secs[s])
      BY <1>1, <2>1, OffsetsFacts DEF Off
    <2>3. SectionAt(s) = Off[s] /\ SectionAt(s + 1) = Off[s + 1]
      BY <2>1, OffsetsInFile
    <2> QED
      BY <2>2, <2>3
  <1>4. PICK m \in Nat : m = Size(Secs[s])
    BY <1>1 DEF Sized
  <1>5. SectionSize(s) = m
    BY <1>3, <1>4 DEF SectionSize
  <1>6. ASSUME NEW b \in 0 .. m - 1 PROVE out[Off[s] + b] = Secs[s][b]
    BY <1>1, <1>4, PbpSectionCells DEF PbpWritten, Off
  <1>7. Section(s) = [b \in 0 .. m - 1 |-> out[Off[s] + b]]
    BY <1>3, <1>5 DEF Section, Part
  <1>8. Secs[s] = [b \in 0 .. m - 1 |-> Secs[s][b]]
    BY <1>2, <1>4 DEF IsCells
  <1> QED
    BY <1>6, <1>7, <1>8

LEMMA SectionsRight ==
  ASSUME TypeInvariant, ImageInvariant
  PROVE  SectionsDescribed
  <1> SUFFICES ASSUME Finished
               PROVE  /\ SectionAt(0) = PbpHeaderSize
                      /\ Section(0) = PutSfo(bufs[1])
                      /\ \A k \in 2 .. Len(Names) :
                           Section(k - 1) = IF bufs[k] = None THEN Empty ELSE bufs[k]
                      /\ ImageAt % Page = 0 /\ ImageAt >= SectionAt(6)
    BY DEF SectionsDescribed
  <1>1. PbpWritten
    BY FinishedFacts
  <1>2. Sized(Secs)
    BY <1>1, WrittenFacts
  <1>3. SectionAt(0) = PbpHeaderSize
    BY <1>1, <1>2, OffsetsInFile, OffsetsFacts DEF Off
  <1>4. Section(0) = PutSfo(bufs[1])
    <2>1. Secs[0] = PutSfo(bufs[1])
      BY DEF Secs, Sections
    <2> QED
      BY <1>1, <2>1, SectionRight
  <1>5. ASSUME NEW k \in 2 .. Len(Names)
        PROVE  Section(k - 1) = IF bufs[k] = None THEN Empty ELSE bufs[k]
    <2>1. k - 1 \in 0 .. 5 /\ k - 1 \in 0 .. 6 /\ k - 1 # 0 /\ k - 1 # 6 /\ (k - 1) + 1 = k
      BY NamesLength
    <2>2. Secs[k - 1] = IF bufs[k] = None THEN Empty ELSE bufs[k]
      BY <2>1 DEF Secs, Sections
    <2> QED
      BY <1>1, <2>1, <2>2, SectionRight
  <1>6. ImageAt % Page = 0 /\ ImageAt >= SectionAt(6)
    <2>1. ImageAt = Off[7] /\ SectionAt(6) = Off[6]
      BY <1>1, OffsetsInFile DEF ImageAt
    <2>2. /\ Off[6] \in Nat /\ Off[7] \in Nat /\ Off[6] + Size(Secs[6]) <= Off[7]
          /\ Size(Secs[6]) \in Nat /\ Off[7] % Page = 0
      BY <1>2, OffsetsFacts DEF Off, Sized
    <2> QED
      BY <2>1, <2>2
  <1> QED
    BY <1>3, <1>4, <1>5, <1>6

(***************************************************************************)
(* SectionsDescribed: the offsets written by write_pbp lead to the files,  *)
(* each whole, and to DATA.PSAR on a page.                                 *)
(***************************************************************************)
THEOREM SectionsAreDescribed == Spec => []SectionsDescribed
  BY TypeInit, TypeStep, ImageInit, ImageStep, SectionsRight, PTL DEF Spec

-----------------------------------------------------------------------------
(***************************************************************************)
(* What encrypt_pgd makes decrypt_pgd reads, whatever the key and even     *)
(* when the reader is not given it; of a PGD whose last MAC is another it  *)
(* gives nothing.                                                          *)
(***************************************************************************)
LEMMA PgdSizes ==
  ASSUME NEW size \in Nat
  PROVE  /\ Align(size, Unit) \in Nat /\ size <= Align(size, Unit)
         /\ block_nr(Align(size, Unit)) \in Nat
         /\ PgdSize(size) = 7 + Align(size, Unit) + block_nr(Align(size, Unit))
  <1>1. Align(size, Unit) \in Nat
    BY Sizes, CeilNat
  <1>2. size <= Align(size, Unit)
    <2> DEFINE c == (size + Unit - 1) \div Unit
    <2>1. c \in Nat
      BY Sizes
    <2>2. size + Unit - 1 < c * Unit + Unit
      BY Sizes
    <2>3. c * Unit \in Nat
      BY <2>1, Sizes
    <2>4. Align(size, Unit) = c * Unit
      BY DEF Align
    <2> HIDE DEF c
    <2> QED
      BY <2>2, <2>3, <2>4, Sizes
  <1>3. block_nr(Align(size, Unit)) \in Nat
    BY <1>1, PgdBlocks, CeilNat DEF block_nr
  <1> QED
    BY <1>1, <1>2, <1>3 DEF PgdSize, PgdData

LEMMA PgdHeaderCells ==
  ASSUME NEW size, NEW key, NEW table_
  PROVE  /\ \A b \in 0 .. 4 : UpTo80(size, key, table_)[b] = UpTo70(size, key, table_)[b]
         /\ UpTo80(size, key, table_)[5] = Mac(1, key, UpTo70(size, key, table_))
         /\ UpTo70(size, key, table_)[4] = Mac(1, key, table_)
         /\ UpTo70(size, key, table_)[1] = Random(1)
         /\ UpTo70(size, key, table_)[2] = PgdCrypted(size, key)[0]
         /\ UpTo70(size, key, table_)[3] = PgdCrypted(size, key)[1]
  <1>1. \A b \in 0 .. 4 : UpTo80(size, key, table_)[b] = UpTo70(size, key, table_)[b]
    BY DEF UpTo80, DnasMacAt, KeyMacAt
  <1>2. UpTo80(size, key, table_)[5] = Mac(1, key, UpTo70(size, key, table_))
    BY DEF UpTo80, DnasMacAt, KeyMacAt
  <1>3. UpTo70(size, key, table_)[4] = Mac(1, key, table_)
    BY DEF UpTo70, TableMacAt, KeyMacAt
  <1>4. \A b \in 0 .. 3 : UpTo70(size, key, table_)[b] = UpTo60(size, key)[b]
    BY DEF UpTo70, TableMacAt, KeyMacAt
  <1>5. /\ UpTo60(size, key)[1] = Random(1)
        /\ UpTo60(size, key)[2] = PgdCrypted(size, key)[0]
        /\ UpTo60(size, key)[3] = PgdCrypted(size, key)[1]
    BY DEF UpTo60, TableMacAt, HeaderKeyAt, DataKeyAt
  <1> QED
    BY <1>1, <1>2, <1>3, <1>4, <1>5

LEMMA OneOf ==
  ASSUME NEW what, NEW index, NEW of
  PROVE  /\ ParamsOf(Atom(what, index, of)) = index
         /\ Under(Atom(what, index, of)) = of
         /\ Cardinality(Atom(what, index, of)) = 1
  <1> DEFINE t == <<what, index, of>>
  <1>1. t[2] = index /\ t[3] = of
    OBVIOUS
  <1> HIDE DEF t
  <1>2. (CHOOSE a \in {t} : TRUE) = t
    OBVIOUS
  <1>3. Cardinality({t}) = 1
    BY FS_Singleton
  <1>4. Atom(what, index, of) = {t}
    BY DEF Atom, t
  <1> QED
    BY <1>1, <1>2, <1>3, <1>4 DEF ParamsOf, Under

PgdTableOf(data, size, key) ==
  PgdTable(PgdBody(data, size, key), Align(size, Unit), key)
TableIn(f, size) == Part(f, PgdData + Align(size, Unit), block_nr(Align(size, Unit)))

LEMMA PgdReads ==
  ASSUME NEW size \in Nat, NEW data, data = [b \in 0 .. size - 1 |-> data[b]],
         NEW key, NEW given \in {key, NoKey},
         NEW f, \A b \in 0 .. 6 + Align(size, Unit) : f[b] = EncryptPgd(data, size, key)[b]
  PROVE  DecryptPgd(f, PgdSize(size), given) =
           IF Mac(1, key, PgdTableOf(data, size, key)) = Mac(1, key, TableIn(f, size))
           THEN data ELSE <<>>
  <1>1. PICK e : e = EncryptPgd(data, size, key)
    OBVIOUS
  <1>2. PICK align : align = Align(size, Unit)
    OBVIOUS
  <1>3. PICK nr : nr = block_nr(align)
    OBVIOUS
  <1>4. PICK body : body = PgdBody(data, size, key)
    OBVIOUS
  <1>5. PICK tbl : tbl = PgdTable(body, align, key)
    OBVIOUS
  <1>6. PICK h80 : h80 = UpTo80(size, key, tbl)
    OBVIOUS
  <1>7. PICK h70 : h70 = UpTo70(size, key, tbl)
    OBVIOUS
  <1>8. PICK plain : plain = PgdPlain(data, size)
    OBVIOUS
  <1>9. align \in Nat /\ nr \in Nat /\ size <= align /\ PgdSize(size) = 7 + align + nr
    BY <1>2, <1>3, PgdSizes
  <1>10. /\ \A b \in 0 .. 5 : f[b] = h80[b]
         /\ f[6] = Mac(1, dnas_key1A90, h80)
         /\ \A b \in 0 .. align - 1 : f[7 + b] = body[b]
    <2> DEFINE cell(b) == IF b < 6 THEN UpTo80(size, key, tbl)[b]
                          ELSE IF b = 6 THEN Mac(1, dnas_key1A90, UpTo80(size, key, tbl))
                          ELSE IF b < 7 + align THEN body[b - 7]
                          ELSE tbl[b - 7 - align]
    <2>1. e = [b \in 0 .. 7 + align + nr - 1 |-> cell(b)]
      BY <1>1, <1>2, <1>3, <1>4, <1>5, <1>9 DEF EncryptPgd, DnasMacAt, PgdData
    <2>2. \A b \in 0 .. 6 + align : f[b] = cell(b)
      <3>1. \A b \in 0 .. 6 + align : b \in 0 .. 7 + align + nr - 1
        BY <1>9
      <3>2. \A b \in 0 .. 7 + align + nr - 1 : e[b] = cell(b)
        BY <2>1
      <3> HIDE DEF cell
      <3>3. \A b \in 0 .. 6 + align : f[b] = e[b]
        BY <1>1, <1>2
      <3> QED
        BY <3>1, <3>2, <3>3
    <2> HIDE DEF cell
    <2>3. ASSUME NEW b \in 0 .. 5 PROVE f[b] = UpTo80(size, key, tbl)[b]
      <3>1. b \in 0 .. 6 + align /\ b < 6
        BY <1>9
      <3> QED
        BY <2>2, <3>1 DEF cell
    <2>4. f[6] = Mac(1, dnas_key1A90, UpTo80(size, key, tbl))
      <3>1. 6 \in 0 .. 6 + align /\ ~(6 < 6)
        BY <1>9
      <3> QED
        BY <2>2, <3>1 DEF cell
    <2>5. ASSUME NEW b \in 0 .. align - 1 PROVE f[7 + b] = body[b]
      <3>1. 7 + b \in 0 .. 6 + align /\ ~(7 + b < 6) /\ 7 + b # 6
            /\ 7 + b < 7 + align /\ (7 + b) - 7 = b
        BY <1>9
      <3> QED
        BY <2>2, <3>1 DEF cell
    <2> QED
      BY <1>6, <2>3, <2>4, <2>5
  <1>11. /\ \A b \in 0 .. 4 : h80[b] = h70[b]
         /\ h80[5] = Mac(1, key, h70) /\ h70[4] = Mac(1, key, tbl) /\ h70[1] = Random(1)
         /\ h70[2] = PgdCrypted(size, key)[0] /\ h70[3] = PgdCrypted(size, key)[1]
    BY <1>6, <1>7, PgdHeaderCells
  <1>12. /\ f[1] = Random(1) /\ f[4] = Mac(1, key, tbl) /\ f[5] = Mac(1, key, h70)
         /\ f[2] = PgdCrypted(size, key)[0] /\ f[3] = PgdCrypted(size, key)[1]
    BY <1>10, <1>11
  <1>13. Part(f, 0, 6) = h80
    <2>1. h80 = [b \in 0 .. 5 |-> h80[b]]
      BY <1>6 DEF UpTo80, DnasMacAt
    <2>2. \A b \in 0 .. 5 : f[0 + b] = h80[b]
      BY <1>10
    <2> QED
      BY <2>1, <2>2 DEF Part
  <1>14. Part(f, 0, 5) = h70
    <2>1. h70 = [b \in 0 .. 4 |-> h70[b]]
      BY <1>7 DEF UpTo70, KeyMacAt
    <2>2. \A b \in 0 .. 4 : f[0 + b] = h70[b]
      BY <1>10, <1>11
    <2> QED
      BY <2>1, <2>2 DEF Part
  <1>15. PICK there : there = Part(f, 7 + align, nr)
    OBVIOUS
  <1>16. PICK vkey : vkey = IF given = NoKey THEN MacKeyIn(f[5]) ELSE given
    OBVIOUS
  <1>17. vkey = key
    <2>1. MacKeyIn(f[5]) = key
      BY <1>12, OneOf DEF MacKeyIn, Mac, MacWord
    <2> QED
      BY <1>16, <2>1
  <1>18. PICK two : two = [b \in 0 .. 1 |-> IF b = 0 THEN Random(2) ELSE Params(size)]
    OBVIOUS
  <1>19. Cipher(Part(f, 2, 2), f[1], key, 0) = two
    <2>1. PgdCrypted(size, key) = Cipher(two, Random(1), key, 0)
      BY <1>18 DEF PgdCrypted
    <2>2. two = [b \in 0 .. 2 - 1 |-> two[b]]
      BY <1>18
    <2>3. PICK c : c = PgdCrypted(size, key)
      OBVIOUS
    <2>4. DOMAIN two = 0 .. 1
      BY <1>18
    <2>5. c = [b \in 0 .. 1 |-> c[b]]
      <3>1. c = [b \in 0 .. 1 |-> Xor(two[b], KeyCell(Random(1), key, 0, b))]
        BY <2>1, <2>3, <2>4 DEF Cipher
      <3> QED
        BY <3>1
    <2>6. f[2 + 0] = c[0] /\ f[2 + 1] = c[1]
      BY <1>12, <2>3
    <2>7. Part(f, 2, 2) = [b \in 0 .. 1 |-> f[2 + b]]
      BY DEF Part
    <2>8. \A b \in 0 .. 1 : f[2 + b] = c[b]
      <3> TAKE b \in 0 .. 1
      <3>1. b = 0 \/ b = 1
        OBVIOUS
      <3> QED
        BY <2>6, <3>1
    <2>9. Part(f, 2, 2) = c
      BY <2>5, <2>7, <2>8
    <2>10. Cipher(Cipher(two, Random(1), key, 0), Random(1), key, 0) = two
      <3>1. PICK m \in Nat : m = 2
        OBVIOUS
      <3>2. two = [b \in 0 .. m - 1 |-> two[b]]
        BY <2>2, <3>1
      <3> QED
        BY <3>2, CipherTwice
    <2> QED
      BY <1>12, <2>1, <2>3, <2>9, <2>10
  <1>20. two[0] = Random(2) /\ two[1] = Params(size)
    BY <1>18
  <1>21. ParamsOf(two[1]) = size /\ Cardinality(two[1]) = 1
    BY <1>20, OneOf DEF Params
  <1>22. [b \in 0 .. size - 1 |-> Cipher(Part(f, 7, align), two[0], key, 0)[b]] = data
    <2>1. plain = [b \in 0 .. align - 1 |-> plain[b]] /\ DOMAIN plain = 0 .. align - 1
          /\ \A b \in 0 .. size - 1 : plain[b] = data[b]
      <3>1. plain = [b \in 0 .. align - 1 |-> IF b < size THEN data[b] ELSE Zero]
        BY <1>2, <1>8 DEF PgdPlain
      <3>2. \A b \in 0 .. size - 1 : b \in 0 .. align - 1 /\ b < size
        BY <1>9
      <3> QED
        BY <3>1, <3>2
    <2>2. body = Cipher(plain, Random(2), key, 0)
      BY <1>4, <1>8 DEF PgdBody
    <2>3. body = [b \in 0 .. align - 1 |-> body[b]]
      <3>1. body = [b \in 0 .. align - 1 |-> Xor(plain[b], KeyCell(Random(2), key, 0, b))]
        BY <2>1, <2>2 DEF Cipher
      <3> QED
        BY <3>1
    <2>4. Part(f, 7, align) = body
      BY <1>10, <2>3 DEF Part
    <2>5. Cipher(body, Random(2), key, 0) = plain
      BY <1>9, <2>1, <2>2, CipherTwice
    <2>6. \A b \in 0 .. size - 1 : Cipher(Part(f, 7, align), two[0], key, 0)[b] = data[b]
      BY <1>20, <2>1, <2>4, <2>5
    <2> QED
      BY <2>6
  <1>23. align + nr <= PgdSize(size)
    BY <1>9
  <1>24. DecryptPgd(f, PgdSize(size), given) =
           LET header == Cipher(Part(f, 2, 2), f[1], vkey, 0)
               sz     == ParamsOf(header[1])
               al     == Align(sz, Unit)
               tb     == Part(f, 7 + al, block_nr(al))
           IN  IF /\ f[6] = Mac(1, dnas_key1A90, Part(f, 0, 6))
                  /\ f[5] = Mac(1, vkey, Part(f, 0, 5))
                  /\ Cardinality(header[1]) = 1
                  /\ al + block_nr(al) <= PgdSize(size)
                  /\ f[4] = Mac(1, vkey, tb)
               THEN [b \in 0 .. sz - 1 |-> Cipher(Part(f, 7, al), header[0], vkey, 0)[b]]
               ELSE <<>>
    BY <1>16 DEF DecryptPgd, PgdData, DnasMacAt, KeyMacAt, TableMacAt, HeaderKeyAt, DataKeyAt
  <1>25. DecryptPgd(f, PgdSize(size), given) =
           IF Mac(1, key, tbl) = Mac(1, key, there) THEN data ELSE <<>>
    <2>1. Cipher(Part(f, 2, 2), f[1], vkey, 0) = two
      BY <1>17, <1>19
    <2> QED
      BY <2>1, <1>2, <1>3, <1>10, <1>12, <1>13, <1>14, <1>15, <1>17, <1>21, <1>22, <1>23, <1>24
  <1>26. there = TableIn(f, size) /\ tbl = PgdTableOf(data, size, key)
    BY <1>2, <1>3, <1>4, <1>5, <1>15 DEF TableIn, PgdTableOf, PgdData
  <1> QED
    BY <1>25, <1>26

LEMMA PgdTableInPlace ==
  ASSUME NEW size \in Nat, NEW data, NEW key
  PROVE  TableIn(EncryptPgd(data, size, key), size) = PgdTableOf(data, size, key)
  <1>1. PICK f : f = EncryptPgd(data, size, key)
    OBVIOUS
  <1>2. PICK align : align = Align(size, Unit)
    OBVIOUS
  <1>3. PICK nr : nr = block_nr(align)
    OBVIOUS
  <1>4. PICK tbl : tbl = PgdTableOf(data, size, key)
    OBVIOUS
  <1>5. align \in Nat /\ nr \in Nat /\ PgdSize(size) = 7 + align + nr
    BY <1>2, <1>3, PgdSizes
  <1>6. ASSUME NEW b \in 0 .. nr - 1 PROVE f[7 + align + b] = tbl[b]
    <2> DEFINE x == 7 + align + b
    <2>1. x \in 0 .. 7 + align + nr - 1 /\ ~(x < 6) /\ x # 6 /\ ~(x < 7 + align)
          /\ x - 7 - align = b
      <3>1. align \in Nat /\ nr \in Nat /\ b \in Nat /\ b <= nr - 1
        BY <1>5
      <3>2. x \in 0 .. 7 + align + nr - 1
        BY ONLY <3>1
      <3>3. ~(x < 6) /\ x # 6 /\ ~(x < 7 + align) /\ x - 7 - align = b
        BY ONLY <3>1
      <3> QED
        BY <3>2, <3>3
    <2> HIDE DEF x
    <2>2. f[x] = tbl[x - 7 - align]
      BY <1>1, <1>2, <1>3, <1>4, <1>5, <2>1 DEF EncryptPgd, PgdTableOf, DnasMacAt, PgdData
    <2> QED
      BY <2>1, <2>2 DEF x
  <1>7. tbl = [b \in 0 .. nr - 1 |-> tbl[b]]
    BY <1>2, <1>3, <1>4 DEF PgdTableOf, PgdTable
  <1> QED
    BY <1>1, <1>2, <1>3, <1>4, <1>6, <1>7 DEF TableIn, Part, PgdData

LEMMA PgdReadsBack ==
  ASSUME NEW size \in Nat, NEW data, data = [b \in 0 .. size - 1 |-> data[b]],
         NEW key, NEW given \in {key, NoKey}
  PROVE  DecryptPgd(EncryptPgd(data, size, key), PgdSize(size), given) = data
  <1>1. PICK f : f = EncryptPgd(data, size, key)
    OBVIOUS
  <1>2. DecryptPgd(f, PgdSize(size), given) =
          IF Mac(1, key, PgdTableOf(data, size, key)) = Mac(1, key, TableIn(f, size))
          THEN data ELSE <<>>
    BY <1>1, PgdReads
  <1> QED
    BY <1>1, <1>2, PgdTableInPlace

LEMMA OtherTableOtherMac ==
  ASSUME NEW key, NEW one, NEW other, Mac(1, key, one) = Mac(1, key, other)
  PROVE  one = other
  <1>1. Under(Mac(1, key, one)) = <<1, key, one>> /\ Under(Mac(1, key, other)) = <<1, key, other>>
    BY OneOf DEF Mac, MacWord
  <1> QED
    BY <1>1

LEMMA LostMacRefused ==
  ASSUME NEW size \in Nat, block_nr(Align(size, Unit)) > 0,
         NEW data, data = [b \in 0 .. size - 1 |-> data[b]],
         NEW key, NEW given \in {key, NoKey}
  PROVE  DecryptPgd(LastMacLost(size, EncryptPgd(data, size, key)), PgdSize(size), given) = <<>>
  <1>1. PICK e : e = EncryptPgd(data, size, key)
    OBVIOUS
  <1>2. PICK align : align = Align(size, Unit)
    OBVIOUS
  <1>3. PICK nr : nr = block_nr(align)
    OBVIOUS
  <1>4. PICK tbl : tbl = PgdTableOf(data, size, key)
    OBVIOUS
  <1>5. PICK f : f = LastMacLost(size, e)
    OBVIOUS
  <1>6. PICK last : last = PgdSize(size) - 1
    OBVIOUS
  <1>7. align \in Nat /\ nr \in Nat /\ nr > 0 /\ last = 7 + align + (nr - 1)
    BY <1>2, <1>3, <1>6, PgdSizes
  <1>8. DOMAIN e = 0 .. last
    BY <1>1, <1>6 DEF EncryptPgd
  <1>9. f = [e EXCEPT ![last] = Atom("heap", 0, Zero)]
    BY <1>5, <1>6 DEF LastMacLost
  <1>10. \A b \in 0 .. 6 + align : f[b] = e[b]
    <2>1. \A b \in 0 .. 6 + align : b \in 0 .. last /\ b # last
      BY <1>7
    <2> QED
      BY <1>8, <1>9, <2>1
  <1>11. f[last] = Atom("heap", 0, Zero)
    <2>1. last \in 0 .. last
      BY <1>7
    <2> QED
      BY <1>8, <1>9, <2>1
  <1>12. TableIn(f, size)[nr - 1] = Atom("heap", 0, Zero)
    <2>1. nr - 1 \in 0 .. nr - 1
      BY <1>7
    <2>2. TableIn(f, size) = [b \in 0 .. nr - 1 |-> f[7 + align + b]]
      BY <1>2, <1>3 DEF TableIn, Part, PgdData
    <2> QED
      BY <1>7, <1>11, <2>1, <2>2
  <1>13. \E cells : tbl[nr - 1] = Mac(1, key, cells)
    <2>1. nr - 1 \in 0 .. nr - 1
      BY <1>7
    <2>2. tbl[nr - 1] = BlockMac(PgdBody(data, size, key), nr - 1, align, key)
      BY <1>2, <1>3, <1>4, <2>1 DEF PgdTableOf, PgdTable
    <2> QED
      BY <2>2 DEF BlockMac
  <1>14. ASSUME NEW cells PROVE Mac(1, key, cells) # Atom("heap", 0, Zero)
    <2>1. PICK mac : mac = <<"mac", 0, <<1, key, cells>>>>
      OBVIOUS
    <2>2. PICK lost : lost = <<"heap", 0, Zero>>
      OBVIOUS
    <2>3. mac[1] = "mac" /\ lost[1] = "heap"
      BY <2>1, <2>2
    <2>4. mac # lost
      BY <2>3
    <2>5. Mac(1, key, cells) = {mac} /\ Atom("heap", 0, Zero) = {lost}
      BY <2>1, <2>2 DEF Mac, MacWord, Atom
    <2> QED
      BY <2>4, <2>5
  <1>15. tbl # TableIn(f, size)
    BY <1>12, <1>13, <1>14
  <1>16. Mac(1, key, tbl) # Mac(1, key, TableIn(f, size))
    BY <1>15, OtherTableOtherMac
  <1>17. DecryptPgd(f, PgdSize(size), given) =
           IF Mac(1, key, tbl) = Mac(1, key, TableIn(f, size)) THEN data ELSE <<>>
    BY <1>1, <1>2, <1>4, <1>10, PgdReads
  <1> QED
    BY <1>1, <1>5, <1>16, <1>17

(***************************************************************************)
(* pgd_buf is long enough for a module of whole units.                     *)
(***************************************************************************)
LEMMA WholeUnitsFit ==
  ASSUME NEW size \in Nat
  PROVE  /\ size % Unit = 0 => ~Overruns(size)
         /\ size > 0 => block_nr(Align(size, Unit)) > 0
  <1>1. ASSUME size % Unit = 0 PROVE Align(size, Unit) = size
    <2>1. PICK k \in Nat : size = k * Unit
      BY <1>1, Sizes
    <2>2. PICK q \in Int : q = (size + Unit - 1) \div Unit
      BY Sizes
    <2>3. q * Unit <= size + Unit - 1 /\ size + Unit - 1 < q * Unit + Unit
      BY <2>2, Sizes
    <2>4. q = k
      <3>1. (k - q) * Unit < Unit /\ (q - k) * Unit < Unit
        BY <2>1, <2>3, Sizes
      <3>2. ~(k - q >= 1) /\ ~(q - k >= 1)
        BY <3>1, Sizes
      <3> QED
        BY <3>2
    <2> QED
      BY <2>1, <2>2, <2>4 DEF Align
  <1>2. ASSUME size % Unit = 0 PROVE ~Overruns(size)
    <2>1. PgdCopied(size) = PgdBufSize(size)
      BY <1>1, <1>2 DEF PgdCopied, PgdBufSize, block_nr
    <2>2. PgdBufSize(size) \in Int
      <3>1. Ceil(size, PgdBlock) \in Nat
        BY PgdBlocks, CeilNat
      <3> QED
        BY <3>1, Sizes DEF PgdBufSize, PgdData
    <2> QED
      BY <2>1, <2>2 DEF Overruns
  <1>3. ASSUME size > 0 PROVE block_nr(Align(size, Unit)) > 0
    <2>1. Align(size, Unit) \in Nat /\ Align(size, Unit) >= 1
      BY <1>3, PgdSizes
    <2>2. PICK a \in Nat : a = Align(size, Unit) /\ a >= 1
      BY <2>1
    <2>3. PICK p \in Nat : p = PgdBlock /\ p >= 1
      BY PgdBlocks
    <2>4. (a + p - 1) \div p >= 1
      BY <2>2, <2>3
    <2> QED
      BY <2>2, <2>3, <2>4 DEF block_nr, Ceil
  <1> QED
    BY <1>2, <1>3

-----------------------------------------------------------------------------
(***************************************************************************)
(* The inductive invariant of the optional files: what was made of them    *)
(* stays as it was made until DATA.PSP is put together and after.          *)
(***************************************************************************)
PgdsMade == IF opnssmp_name = None THEN {Empty} ELSE PgdsLeft(ExtraSize(opnssmp_name))
StartdatMade ==
  IF startdat_name = None THEN Empty
  ELSE [b \in 0 .. ExtraSize(startdat_name) |->
          IF b = 0 THEN StartdatHeader(ExtraSize(startdat_name)) ELSE Atom("png", b - 1, Zero)]

Written == {"load", "table", "block", "done"}

ExtrasInvariant ==
  /\ pc \in Written \cup {"startdat"} => pgd \in PgdsMade
  /\ pc \in Written /\ ~spoilt => startdat = StartdatMade

LEMMA ExtrasInit == Init => ExtrasInvariant
  BY DEF Init, ExtrasInvariant, Written

LEMMA ExtrasStep == ExtrasInvariant /\ [Next]_vars => ExtrasInvariant'
  <1> SUFFICES ASSUME ExtrasInvariant, [Next]_vars PROVE ExtrasInvariant'
    OBVIOUS
  <1> USE DEF argVars, extraVars, outVars, blockVars
  <1>a. ASSUME UNCHANGED argVars
        PROVE  PgdsMade' = PgdsMade /\ StartdatMade' = StartdatMade
    <2>1. version_key' = version_key
      BY <1>a DEF version_key
    <2> QED
      BY <1>a, <2>1 DEF PgdsMade, PgdsLeft, PgdOf, StartdatMade, ExtraSize
  <1>b. ASSUME UNCHANGED <<argVars, extraVars>>,
               pc' \in Written => pc \in Written,
               pc' # "startdat" \/ pc = "startdat", ~spoilt' => ~spoilt
        PROVE  ExtrasInvariant'
    BY <1>a, <1>b DEF ExtrasInvariant
  <1>c. ASSUME pc' \notin Written \cup {"startdat"} PROVE ExtrasInvariant'
    BY <1>c DEF ExtrasInvariant
  <1> USE DEF Written
  <1>1. CASE OpenFiles
    BY <1>1, <1>c DEF OpenFiles
  <1>2. CASE LookAtExtra
    <2>1. pc' \in {"crashed", "exited", "extra"}
      BY <1>2 DEF LookAtExtra
    <2> QED
      BY <1>c, <2>1
  <1>3. CASE ExtrasSeen
    BY <1>3, <1>c DEF ExtrasSeen
  <1>4. CASE MakePgd
    <2>1. pgd' \in PgdsMade /\ pc' = "startdat" /\ UNCHANGED argVars
      BY <1>4 DEF MakePgd, PgdsMade
    <2> QED
      BY <1>a, <2>1 DEF ExtrasInvariant
  <1>5. CASE OpnssmpUnread
    BY <1>5, <1>c DEF OpnssmpUnread
  <1>5a. CASE HeapCrashes
    BY <1>5a, <1>c DEF HeapCrashes
  <1>6. CASE MakeStartdat
    <2>1. startdat' = StartdatMade
      BY <1>6 DEF MakeStartdat, StartdatMade
    <2>2. pgd' = pgd /\ pc = "startdat" /\ pc' = "load" /\ UNCHANGED argVars
      BY <1>6 DEF MakeStartdat
    <2> QED
      BY <1>a, <2>1, <2>2 DEF ExtrasInvariant
  <1>7. CASE StartdatUnread
    <2>1. pgd' = pgd /\ pc = "startdat" /\ pc' = "load" /\ UNCHANGED argVars /\ spoilt'
      BY <1>7 DEF StartdatUnread
    <2> QED
      BY <1>a, <2>1 DEF ExtrasInvariant
  <1>8. CASE LoadFile
    BY <1>8, <1>b DEF LoadFile
  <1>9. CASE LoadFails
    BY <1>9, <1>b DEF LoadFails
  <1>10. CASE WritePbp
    BY <1>10, <1>b DEF WritePbp
  <1>11. CASE NoParamSfo
    BY <1>11, <1>c DEF NoParamSfo
  <1>12. CASE SigningFails
    BY <1>12, <1>b DEF SigningFails
  <1>13. CASE WriteEmptyTable
    BY <1>13, <1>b DEF WriteEmptyTable
  <1>14. CASE WriteBlock
    <2>1. UNCHANGED <<argVars, extraVars, pc, spoilt>>
      BY <1>14 DEF WriteBlock
    <2> QED
      BY <1>b, <2>1
  <1>15. CASE WriteUnreadBlock
    <2>1. UNCHANGED <<argVars, extraVars, pc>> /\ spoilt'
      BY <1>15 DEF WriteUnreadBlock
    <2> QED
      BY <1>b, <2>1
  <1>16. CASE WriteBack
    <2>1. UNCHANGED <<argVars, extraVars, spoilt>> /\ pc = "block" /\ pc' = "done"
      BY <1>16 DEF WriteBack
    <2> QED
      BY <1>b, <2>1
  <1>17. CASE ForgeFails
    BY <1>17, <1>c DEF ForgeFails
  <1>18. CASE UNCHANGED vars
    BY <1>18, <1>b DEF vars
  <1> QED
    BY <1>1, <1>2, <1>3, <1>4, <1>5, <1>5a, <1>6, <1>7, <1>8, <1>9, <1>10, <1>11, <1>12, <1>13, <1>14,
       <1>15, <1>16, <1>17, <1>18 DEF Next, Exited

(***************************************************************************)
(* The parts of DATA.PSP do not overlap.                                   *)
(***************************************************************************)
PspLaidOut(psp, sfo, z, y, at, size) ==
  /\ Size(psp) = size /\ at + y = size
  /\ psp[0] = DataSignature(sfo) /\ psp[ContentIdAt] = content_id
  /\ psp[PgdOffsetAt] = IF y > 0 THEN Num(at) ELSE Zero
  /\ psp[PgdSizeAt] = IF y > 0 THEN Num(y) ELSE Zero
  /\ \A b \in 0 .. y - 1 : psp[at + b] = pgd[b]
  /\ \A b \in 0 .. z - 1 : psp[6 + b] = startdat[b]

LEMMA PspCells ==
  ASSUME NEW sfo, NEW z \in Nat, z = Size(startdat), NEW y \in Nat, y = Size(pgd),
         DOMAIN startdat = 0 .. z - 1, DOMAIN pgd = 0 .. y - 1,
         NEW at, at = (IF z > 0 THEN 6 + z ELSE 5),
         NEW size, size = 5 + (IF z > 0 THEN z + 1 ELSE 0) + y
  PROVE  PspLaidOut(DataPsp(sfo), sfo, z, y, at, size)
  <1>1. PICK psp : psp = DataPsp(sfo)
    OBVIOUS
  <1>2. PgdPlace = at
    BY DEF PgdPlace, startdat_offset, DataPspEnd, Gap
  <1>3. size \in Nat /\ at \in Nat /\ at >= 5 /\ at + y = size /\ size >= 5
    OBVIOUS
  <1> DEFINE cell(b) == IF b = 0 THEN DataSignature(sfo)
                        ELSE IF b = 1 THEN (IF y > 0 THEN Num(at) ELSE Zero)
                        ELSE IF b = 2 THEN (IF y > 0 THEN Num(y) ELSE Zero)
                        ELSE IF b = 3 THEN content_id
                        ELSE IF b = 4 THEN Num(np_flags)
                        ELSE IF b >= at /\ b < at + y THEN pgd[b - at]
                        ELSE IF b >= 6 /\ b < 6 + z THEN startdat[b - 6]
                        ELSE Zero
  <1>4. psp = [b \in 0 .. size - 1 |-> cell(b)]
    BY <1>1, <1>2 DEF DataPsp, DataPspEnd, Gap, PgdOffsetAt, PgdSizeAt, ContentIdAt, FlagsAt,
                      startdat_offset
  <1> HIDE DEF cell
  <1>5. Size(psp) = size
    <2>1. DOMAIN psp = 0 .. size - 1
      BY <1>4
    <2> QED
      BY <1>3, <2>1, SizeOfInterval
  <1>6. \A b \in 0 .. size - 1 : psp[b] = cell(b)
    BY <1>4
  <1>7. psp[0] = cell(0) /\ psp[1] = cell(1) /\ psp[2] = cell(2) /\ psp[3] = cell(3)
    <2>1. 0 \in 0 .. size - 1 /\ 1 \in 0 .. size - 1 /\ 2 \in 0 .. size - 1 /\ 3 \in 0 .. size - 1
      BY <1>3
    <2> QED
      BY <1>6, <2>1
  <1>8. /\ psp[0] = DataSignature(sfo) /\ psp[3] = content_id
        /\ psp[1] = IF y > 0 THEN Num(at) ELSE Zero
        /\ psp[2] = IF y > 0 THEN Num(y) ELSE Zero
    BY <1>7 DEF cell
  <1>9. ASSUME NEW b \in 0 .. y - 1 PROVE psp[at + b] = pgd[b]
    <2> DEFINE x == at + b
    <2>0. at \in Nat /\ at >= 5 /\ size \in Nat /\ at + y = size /\ y \in Nat
          /\ b \in Nat /\ b <= y - 1
      BY <1>3
    <2>1. x \in 0 .. size - 1 /\ x >= at /\ x < at + y /\ x - at = b /\ x >= 5
      BY ONLY <2>0
    <2> HIDE DEF x
    <2>2. x # 0 /\ x # 1 /\ x # 2 /\ x # 3 /\ x # 4
      BY ONLY <2>1
    <2>3. psp[x] = cell(x)
      BY <1>6, <2>1
    <2>4. cell(x) = pgd[b]
      BY ONLY <2>1, <2>2 DEF cell
    <2> QED
      BY <2>3, <2>4 DEF x
  <1>10. ASSUME NEW b \in 0 .. z - 1 PROVE psp[6 + b] = startdat[b]
    <2> DEFINE x == 6 + b
    <2>0. at = 6 + z /\ size \in Nat /\ at + y = size /\ y \in Nat /\ z \in Nat
          /\ b \in Nat /\ b <= z - 1
      BY <1>3
    <2>1. x \in 0 .. size - 1 /\ ~(x >= at) /\ x >= 6 /\ x < 6 + z /\ x - 6 = b
      BY ONLY <2>0
    <2> HIDE DEF x
    <2>2. x # 0 /\ x # 1 /\ x # 2 /\ x # 3 /\ x # 4
      BY ONLY <2>1
    <2>3. psp[x] = cell(x)
      BY <1>6, <2>1
    <2>4. cell(x) = startdat[b]
      BY ONLY <2>1, <2>2 DEF cell
    <2> QED
      BY <2>3, <2>4 DEF x
  <1> QED
    BY <1>1, <1>3, <1>5, <1>8, <1>9, <1>10 DEF PspLaidOut, PgdOffsetAt, PgdSizeAt, ContentIdAt

LEMMA PspSection ==
  ASSUME TypeInvariant, PbpWritten, NEW psp, psp = DataPsp(PutSfo(bufs[1]))
  PROVE  /\ SectionSize(6) \in Nat /\ Size(psp) \in Nat /\ Size(psp) <= SectionSize(6)
         /\ \A b \in 0 .. Size(psp) - 1 : Section(6)[b] = psp[b]
  <1>1. Secs[6] = psp
    BY DEF Secs, Sections
  <1>2. Sized(Secs)
    BY WrittenFacts
  <1>3. Off[6] \in Nat /\ Off[7] \in Nat /\ Off[6] + Size(psp) <= Off[7] /\ Size(psp) \in Nat
    BY <1>1, <1>2, OffsetsFacts DEF Off, Sized
  <1>4. SectionAt(6) = Off[6] /\ SectionAt(6 + 1) = Off[7]
    BY OffsetsInFile
  <1>5. SectionSize(6) = Off[7] - Off[6]
    BY <1>4 DEF SectionSize
  <1>6. PICK m \in Nat : m = SectionSize(6)
    BY <1>3, <1>5
  <1>7. Size(psp) <= m
    BY <1>3, <1>5, <1>6
  <1>8. ASSUME NEW b \in 0 .. Size(psp) - 1 PROVE Section(6)[b] = psp[b]
    <2>1. b \in 0 .. m - 1
      BY <1>3, <1>7
    <2>2. Section(6) = [c \in 0 .. m - 1 |-> out[Off[6] + c]]
      BY <1>4, <1>6 DEF Section, Part
    <2>3. Section(6)[b] = out[Off[6] + b]
      BY <2>1, <2>2
    <2>4. b \in 0 .. Size(Secs[6]) - 1
      BY <1>1
    <2>5. /\ Off[6] + b \in 0 .. Off[7] - 1
          /\ PbpCell(Secs, Off, Off[6] + b) = Secs[6][b]
      BY <1>2, <2>4, PbpSectionCells DEF Off
    <2> QED
      BY <1>1, <2>3, <2>5 DEF PbpWritten
  <1> QED
    BY <1>3, <1>6, <1>7, <1>8

(***************************************************************************)
(* The optional files as they lie in DATA.PSP.                             *)
(***************************************************************************)
LEMMA ExtrasInSection ==
  ASSUME TypeInvariant, ImageInvariant, Finished,
         NEW z \in Nat, z = Size(startdat), NEW y \in Nat, y = Size(pgd),
         NEW at, at = (IF z > 0 THEN 6 + z ELSE 5)
  PROVE  LET psp == Section(6)
         IN  /\ at + y <= SectionSize(6) /\ SectionSize(6) \in Nat /\ at \in Nat
             /\ psp[0] = DataSignature(Section(0)) /\ psp[ContentIdAt] = content_id
             /\ psp[PgdOffsetAt] = IF y > 0 THEN Num(at) ELSE Zero
             /\ psp[PgdSizeAt] = IF y > 0 THEN Num(y) ELSE Zero
             /\ Part(psp, at, y) = pgd
             /\ \A b \in 0 .. z - 1 : psp[6 + b] = startdat[b]
  <1>0. PbpWritten /\ Section(0) = PutSfo(bufs[1])
    BY FinishedFacts, SectionsRight DEF SectionsDescribed
  <1>1. PICK made : made = DataPsp(PutSfo(bufs[1]))
    OBVIOUS
  <1>2. PICK psp : psp = Section(6)
    OBVIOUS
  <1>3. PICK size : size = 5 + (IF z > 0 THEN z + 1 ELSE 0) + y
    OBVIOUS
  <1>4. size \in Nat /\ at \in Nat /\ size >= 5 /\ at >= 5
    BY <1>3
  <1>5. /\ DOMAIN startdat = 0 .. z - 1 /\ DOMAIN pgd = 0 .. y - 1
        /\ pgd = [b \in 0 .. y - 1 |-> pgd[b]]
    BY DEF TypeInvariant, CellsInvariant, IsCells
  <1>6. /\ Size(made) = size /\ at + y = size
        /\ made[0] = DataSignature(PutSfo(bufs[1])) /\ made[ContentIdAt] = content_id
        /\ made[PgdOffsetAt] = IF y > 0 THEN Num(at) ELSE Zero
        /\ made[PgdSizeAt] = IF y > 0 THEN Num(y) ELSE Zero
        /\ \A b \in 0 .. y - 1 : made[at + b] = pgd[b]
        /\ \A b \in 0 .. z - 1 : made[6 + b] = startdat[b]
    <2>1. PICK sfo : sfo = PutSfo(bufs[1])
      OBVIOUS
    <2>2. /\ z \in Nat /\ z = Size(startdat) /\ y \in Nat /\ y = Size(pgd)
          /\ DOMAIN startdat = 0 .. z - 1 /\ DOMAIN pgd = 0 .. y - 1
          /\ at = (IF z > 0 THEN 6 + z ELSE 5)
      BY <1>5
    <2>3. made = DataPsp(sfo)
      BY <1>1, <2>1
    <2>4. PspLaidOut(made, sfo, z, y, at, size)
      BY ONLY <1>3, <2>2, <2>3, PspCells
    <2> QED
      BY <2>1, <2>4 DEF PspLaidOut
  <1>7. /\ SectionSize(6) \in Nat /\ size <= SectionSize(6)
        /\ \A b \in 0 .. size - 1 : psp[b] = made[b]
    BY <1>0, <1>1, <1>2, <1>6, PspSection
  <1>8. /\ psp[0] = made[0] /\ psp[ContentIdAt] = made[ContentIdAt]
        /\ psp[PgdOffsetAt] = made[PgdOffsetAt] /\ psp[PgdSizeAt] = made[PgdSizeAt]
    BY <1>4, <1>7 DEF ContentIdAt, PgdOffsetAt, PgdSizeAt
  <1>9. ASSUME NEW b \in 0 .. y - 1 PROVE psp[at + b] = pgd[b]
    <2>1. at + b \in 0 .. size - 1
      BY <1>4, <1>6
    <2> QED
      BY <1>6, <1>7, <2>1
  <1>10. ASSUME NEW b \in 0 .. z - 1 PROVE psp[6 + b] = startdat[b]
    <2>1. 6 + b \in 0 .. size - 1
      <3>1. z > 0 /\ size = 5 + (z + 1) + y /\ z \in Nat /\ y \in Nat /\ b \in Nat /\ b <= z - 1
        BY <1>3
      <3> QED
        BY ONLY <3>1
    <2> QED
      BY <1>6, <1>7, <2>1
  <1>11. Part(psp, at, y) = pgd
    BY <1>5, <1>9 DEF Part
  <1> QED
    BY <1>0, <1>2, <1>4, <1>6, <1>7, <1>8, <1>10, <1>11

LEMMA DataPspRight ==
  ASSUME TypeInvariant, ImageInvariant, ExtrasInvariant
  PROVE  DataPspReadsBack
  <1> DEFINE psp == Section(6)
             picture == ExtraSize(startdat_name)
             module == ExtraSize(opnssmp_name)
  <1> SUFFICES ASSUME Finished
        PROVE  /\ psp[0] = Atom("data signature", 0, <<Section(0), psp[ContentIdAt]>>)
               /\ opnssmp_name = None => psp[PgdOffsetAt] = Zero /\ psp[PgdSizeAt] = Zero
               /\ opnssmp_name # None =>
                    /\ PspNum(PgdOffsetAt) + PspNum(PgdSizeAt) <= SectionSize(6)
                    /\ \A key \in {version_key, NoKey} :
                         \/ OpnssmpBack(key) = Content("opnssmp", module)
                         \/ module % Unit # 0 /\ OpnssmpBack(key) = <<>>
               /\ startdat_name # None =>
                    /\ startdat_offset + picture < SectionSize(6)
                    /\ psp[startdat_offset] = StartdatHeader(picture)
                    /\ \A b \in 0 .. picture - 1 :
                         psp[startdat_offset + 1 + b] = Atom("png", b, Zero)
    BY DEF DataPspReadsBack
  <1>0. pgd \in PgdsMade /\ startdat = StartdatMade
    BY DEF ExtrasInvariant, Written, Finished
  <1>1. PICK z \in Nat : z = Size(startdat)
    BY DEF TypeInvariant, CellsInvariant, IsCells
  <1>2. PICK y \in Nat : y = Size(pgd)
    BY DEF TypeInvariant, CellsInvariant, IsCells
  <1>3. PICK at : at = IF z > 0 THEN 6 + z ELSE 5
    OBVIOUS
  <1>4. /\ at + y <= SectionSize(6) /\ SectionSize(6) \in Nat /\ at \in Nat
        /\ psp[0] = DataSignature(Section(0)) /\ psp[ContentIdAt] = content_id
        /\ psp[PgdOffsetAt] = IF y > 0 THEN Num(at) ELSE Zero
        /\ psp[PgdSizeAt] = IF y > 0 THEN Num(y) ELSE Zero
        /\ Part(psp, at, y) = pgd
        /\ \A b \in 0 .. z - 1 : psp[6 + b] = startdat[b]
    <2>1. PICK sect : sect = psp
      OBVIOUS
    <2> HIDE DEF psp
    <2>2. /\ at + y <= SectionSize(6) /\ SectionSize(6) \in Nat /\ at \in Nat
          /\ sect[0] = DataSignature(Section(0)) /\ sect[ContentIdAt] = content_id
          /\ sect[PgdOffsetAt] = IF y > 0 THEN Num(at) ELSE Zero
          /\ sect[PgdSizeAt] = IF y > 0 THEN Num(y) ELSE Zero
          /\ Part(sect, at, y) = pgd
          /\ \A b \in 0 .. z - 1 : sect[6 + b] = startdat[b]
      BY <1>1, <1>2, <1>3, <2>1, ExtrasInSection DEF psp
    <2> QED
      BY <2>1, <2>2
  <1> HIDE DEF psp
  <1>5. psp[0] = Atom("data signature", 0, <<Section(0), psp[ContentIdAt]>>)
    BY <1>4 DEF DataSignature
  <1>6. ASSUME opnssmp_name = None PROVE psp[PgdOffsetAt] = Zero /\ psp[PgdSizeAt] = Zero
    <2>1. y = 0
      BY <1>0, <1>2, <1>6, EmptyCells DEF PgdsMade
    <2> QED
      BY <1>4, <2>1
  <1>7. ASSUME opnssmp_name # None
        PROVE  /\ PspNum(PgdOffsetAt) + PspNum(PgdSizeAt) <= SectionSize(6)
               /\ \A key \in {version_key, NoKey} :
                    \/ OpnssmpBack(key) = Content("opnssmp", module)
                    \/ module % Unit # 0 /\ OpnssmpBack(key) = <<>>
    <2>1. PICK m : m = module
      OBVIOUS
    <2>2. m \in Nat
      <3>1. opnssmp_name \in 1 .. Len(in.extra) /\ in \in Inputs
        BY <1>7 DEF TypeInvariant, ArgsInvariant, StreamInvariant
      <3> QED
        BY <2>1, <3>1, ExtraSizes
    <2>3. PICK data : data = Content("opnssmp", m)
      OBVIOUS
    <2>4. PICK made : made = EncryptPgd(data, m, version_key)
      OBVIOUS
    <2>5. pgd \in PgdsLeft(m) /\ PgdOf(m) = made
      BY <1>0, <1>7, <2>1, <2>3, <2>4 DEF PgdsMade, PgdOf
    <2>6. y = PgdSize(m) /\ y > 0
      <3>1. y = PgdSize(m)
        BY <1>2, <2>2, <2>5, PgdsLeftCells
      <3> QED
        BY <2>2, <3>1, PgdSizes
    <2>7. PspNum(PgdOffsetAt) = at /\ PspNum(PgdSizeAt) = y
      BY <1>4, <2>6, NumOf DEF PspNum, psp
    <2>8. \A key : OpnssmpBack(key) = DecryptPgd(pgd, y, key)
      BY <1>4, <2>7 DEF OpnssmpBack, psp
    <2>9. data = [b \in 0 .. m - 1 |-> data[b]]
      BY <2>3 DEF Content
    <2>10. ASSUME NEW key \in {version_key, NoKey}
           PROVE  \/ OpnssmpBack(key) = data
                  \/ m % Unit # 0 /\ OpnssmpBack(key) = <<>>
      <3>1. CASE pgd = made
        BY <2>2, <2>4, <2>6, <2>8, <2>9, <3>1, PgdReadsBack
      <3>2. CASE pgd # made
        <4>1. Overruns(m) /\ pgd = LastMacLost(m, made)
          BY <2>5, <3>2 DEF PgdsLeft
        <4>2. m % Unit # 0
          BY <2>2, <4>1, WholeUnitsFit
        <4>3. m > 0
          BY <2>2, <4>2, Sizes
        <4>4. DecryptPgd(LastMacLost(m, made), PgdSize(m), key) = <<>>
          BY <2>2, <2>4, <2>9, <4>3, WholeUnitsFit, LostMacRefused
        <4> QED
          BY <2>6, <2>8, <4>1, <4>2, <4>4
      <3> QED
        BY <3>1, <3>2
    <2> QED
      BY <1>4, <2>1, <2>3, <2>7, <2>10
  <1>8. ASSUME startdat_name # None
        PROVE  /\ startdat_offset + picture < SectionSize(6)
               /\ psp[startdat_offset] = StartdatHeader(picture)
               /\ \A b \in 0 .. picture - 1 : psp[startdat_offset + 1 + b] = Atom("png", b, Zero)
    <2>1. PICK m : m = picture
      OBVIOUS
    <2>2. m \in Nat
      <3>1. startdat_name \in 1 .. Len(in.extra) /\ in \in Inputs
        BY <1>8 DEF TypeInvariant, ArgsInvariant, StreamInvariant
      <3> QED
        BY <2>1, <3>1, ExtraSizes
    <2>3. startdat = [b \in 0 .. m |-> IF b = 0 THEN StartdatHeader(m) ELSE Atom("png", b - 1, Zero)]
      BY <1>0, <1>8, <2>1 DEF StartdatMade
    <2>4. z = m + 1
      <3>1. DOMAIN startdat = 0 .. (m + 1) - 1 /\ m + 1 \in Nat
        BY <2>2, <2>3
      <3> QED
        BY <1>1, <3>1, SizeOfInterval
    <2>5. startdat_offset = 6
      BY DEF startdat_offset, DataPspEnd, Gap
    <2>6. 6 + m < SectionSize(6)
      <3>1. at = 6 + (m + 1) /\ z \in Nat
        BY <1>3, <2>2, <2>4
      <3>2. at + y <= SectionSize(6) /\ SectionSize(6) \in Nat /\ y \in Nat
        BY <1>4
      <3> QED
        BY ONLY <2>2, <3>1, <3>2
    <2>7. psp[6] = StartdatHeader(m)
      <3>1. 0 \in 0 .. z - 1 /\ 0 \in 0 .. m
        BY <2>2, <2>4
      <3>2. psp[6 + 0] = startdat[0]
        BY <1>4, <3>1
      <3> QED
        BY <2>3, <3>1, <3>2
    <2>8. ASSUME NEW b \in 0 .. m - 1 PROVE psp[6 + 1 + b] = Atom("png", b, Zero)
      <3>1. b + 1 \in 0 .. z - 1 /\ b + 1 \in 0 .. m /\ b + 1 # 0 /\ (b + 1) - 1 = b
            /\ 6 + 1 + b = 6 + (b + 1)
        BY <2>2, <2>4
      <3>2. psp[6 + (b + 1)] = startdat[b + 1]
        BY <1>4, <3>1
      <3>3. startdat[b + 1] = Atom("png", b, Zero)
        BY <2>3, <3>1
      <3> QED
        BY <3>1, <3>2, <3>3
    <2> QED
      BY <2>1, <2>5, <2>6, <2>7, <2>8
  <1> QED
    BY <1>5, <1>6, <1>7, <1>8

(***************************************************************************)
(* DataPspReadsBack: DATA.PSP, as write_pbp puts it together, is signed    *)
(* over the PARAM.SFO beside it, and its PGD and STARTDAT are found where  *)
(* it says and give the optional files back.  A module that is not whole   *)
(* units, whose PGD is longer than pgd_buf, is given back or refused.      *)
(***************************************************************************)
THEOREM OptionalFilesReadBack == Spec => []DataPspReadsBack
  BY TypeInit, TypeStep, ImageInit, ImageStep, ExtrasInit, ExtrasStep, DataPspRight, PTL DEF Spec
=============================================================================
