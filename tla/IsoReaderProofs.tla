-------------------------- MODULE IsoReaderProofs ---------------------------
(***************************************************************************)
(* Proofs about IsoReader, for every size of sector, buffer and index      *)
(* window and for every image: of roomy images the sector readSector       *)
(* returns is the one asked for, and of all images a read gives what       *)
(* IsoContract promises.                                                   *)
(***************************************************************************)
EXTENDS IsoRefinement, SequenceTheorems, TLAPS

(***************************************************************************)
(* What IsoConstants says of the image being read.                         *)
(***************************************************************************)
LEMMA ImageFacts ==
  ASSUME NEW m \in Images
  PROVE  /\ m.header \in BOOLEAN /\ m.iso9660 \in BOOLEAN /\ m.ciso \in BOOLEAN
         /\ m.sectors \in Nat
         /\ VolSector < m.sectors
         /\ m.off \in [0 .. m.sectors -> Nat]
         /\ m.raw \in [0 .. m.sectors - 1 -> BOOLEAN]
         /\ m.len \in [0 .. m.sectors - 1 -> 1 .. SectorSize]
         /\ \A k \in 0 .. m.sectors - 1 : m.off[k] + m.len[k] <= m.off[m.sectors]
         /\ \A k, l \in 0 .. m.sectors : k < l => m.off[k] < m.off[l]
  BY IsoConstants DEF WellFormedImage

LEMMA StreamFacts ==
  ASSUME NEW m \in Images, NEW k \in 0 .. m.sectors - 1
  PROVE  /\ m.len[k] \in 1 .. SectorSize
         /\ m.off[k] + m.len[k] <= m.off[m.sectors]
  <1>1. m.len \in [0 .. m.sectors - 1 -> 1 .. SectorSize]
    BY ImageFacts
  <1>2. m.off[k] + m.len[k] <= m.off[m.sectors]
    BY ImageFacts
  <1> QED
    BY <1>1, <1>2

LEMMA EndFacts ==
  ASSUME NEW m \in Images
  PROVE  m.off[m.sectors] \in Nat
  <1>1. m.off \in [0 .. m.sectors -> Nat] /\ m.sectors \in Nat
    BY ImageFacts
  <1> QED
    BY <1>1

LEMMA SizeFacts ==
  /\ SectorSize \in Nat /\ SectorSize > 0
  /\ DecBufSize \in Nat /\ SectorSize <= DecBufSize
  /\ IdxEntries \in Nat /\ IdxEntries > 0
  /\ VolSector \in Nat
  /\ None \notin Nat
  BY IsoConstants

(***************************************************************************)
(* A position below the end of the disc lies in one of its sectors.        *)
(***************************************************************************)
LEMMA DivBelow ==
  ASSUME NEW p \in Nat, NEW n \in Nat, NEW s \in Nat, s > 0, p < n * s
  PROVE  p \div s \in Nat /\ p \div s < n
  <1> DEFINE q == p \div s
  <1>1. q \in Int /\ q * s <= p /\ q >= 0
    OBVIOUS
  <1>2. ~(q >= n)
    <2> SUFFICES ASSUME q >= n PROVE FALSE
      OBVIOUS
    <2>1. (q - n) * s >= 0
      BY <1>1
    <2>2. q * s >= n * s
      BY <2>1, <1>1
    <2> QED
      BY <2>2, <1>1
  <1> QED
    BY <1>1, <1>2

(***************************************************************************)
(* After LoadIndex(s) the entry of s is in the window, and a window that   *)
(* told the truth still does.                                              *)
(***************************************************************************)
LEMMA WindowHolds ==
  ASSUME TypeOK, NEW s \in Nat, LoadIndex(s)
  PROVE  /\ cur' \in Nat
         /\ idx' \in [Entries -> Nat \cup {None}]
         /\ s - cur' \in Entries
  <1>1. CASE Outside(s)
    <2>1. cur' = s /\ idx' = IndexFrom(s)
      BY <1>1 DEF LoadIndex
    <2>2. IndexFrom(s) \in [Entries -> Nat \cup {None}]
      BY ImageFacts DEF IndexFrom, TypeOK, Entries
    <2>3. s - s \in Entries
      BY SizeFacts DEF Entries
    <2> QED
      BY <2>1, <2>2, <2>3
  <1>2. CASE ~Outside(s)
    <2>1. cur' = cur /\ idx' = idx
      BY <1>2 DEF LoadIndex, indexVars
    <2>2. cur \in Nat /\ s - cur \in Entries
      BY <1>2, SizeFacts DEF Outside, TypeOK, Entries
    <2> QED
      BY <2>1, <2>2 DEF TypeOK
  <1> QED
    BY <1>1, <1>2

LEMMA WindowTrue ==
  ASSUME TypeOK, NEW s \in Nat, LoadIndex(s), IndexIsTrue, UNCHANGED img
  PROVE  /\ IndexIsTrue'
         /\ s <= img.sectors => idx'[s - cur'] = s
  <1>0. img.sectors \in Nat
    BY ImageFacts DEF TypeOK
  <1>1. IndexIsTrue'
    <2>1. CASE Outside(s)
      BY <2>1 DEF LoadIndex, IndexFrom, IndexIsTrue
    <2>2. CASE ~Outside(s)
      BY <2>2 DEF LoadIndex, indexVars, IndexIsTrue
    <2> QED
      BY <2>1, <2>2
  <1>2. cur' \in Nat /\ s - cur' \in Entries
    BY WindowHolds
  <1>3. ASSUME NEW c \in Nat PROVE c # -1 /\ c + (s - c) = s
    OBVIOUS
  <1>4. ASSUME s <= img.sectors PROVE idx'[s - cur'] = s
    <2>1. cur' # -1 /\ cur' + (s - cur') = s
      BY <1>2, <1>3
    <2>2. cur' + (s - cur') <= img'.sectors
      BY <1>4, <2>1
    <2>3. idx'[s - cur'] = cur' + (s - cur')
      BY <1>1, <1>2, <2>1, <2>2 DEF IndexIsTrue
    <2> QED
      BY <2>1, <2>3
  <1> QED
    BY <1>1, <1>4

(***************************************************************************)
(* The steps keep the types.                                               *)
(***************************************************************************)
LEMMA TypeStep == TypeOK /\ [Next]_vars => TypeOK'
  <1> SUFFICES ASSUME TypeOK, [Next]_vars PROVE TypeOK'
    OBVIOUS
  <1> USE SizeFacts
  <1>0. /\ img.sectors \in Nat
        /\ img.off \in [0 .. img.sectors -> Nat]
    BY ImageFacts DEF TypeOK
  <1>1. CASE IsoOpen
    <2>1. EmptyBuf \in [BufBytes -> Nat \cup {None}] /\ ZeroIndex \in [Entries -> Nat \cup {None}]
      BY DEF EmptyBuf, ZeroIndex
    <2>2. /\ cur' \in Nat \cup {-1} /\ idx' \in [Entries -> Nat \cup {None}]
          /\ bufAt' \in Nat \cup {-1} /\ buf' \in [BufBytes -> Nat \cup {None}]
      BY <1>1, <2>1 DEF IsoOpen, TypeOK, indexVars, bufVars
    <2> QED
      BY <1>1, <2>2 DEF IsoOpen, TypeOK, Steps, readVars
  <1>2. CASE ReadPlain
    BY <1>2 DEF ReadPlain, TypeOK, Steps, indexVars, bufVars, readVars
  <1>3. CASE SectorEntry
    <2>1. cur' \in Nat /\ idx' \in [Entries -> Nat \cup {None}] /\ lba - cur' \in Entries
      BY <1>3, WindowHolds DEF SectorEntry, TypeOK
    <2> DEFINE e == idx'[lba - cur']
    <2>2. e \in Nat \cup {None}
      BY <2>1
    <2>3. offset' = OffsetOf(e)
      BY <1>3 DEF SectorEntry
    <2>4. offset' \in Nat
      BY <1>0, <2>3 DEF OffsetOf
    <2>5. \/ held' = e /\ pc' = "got"
          \/ held' = held /\ pc' = "next"
      BY <1>3 DEF SectorEntry
    <2> HIDE DEF e
    <2> QED
      BY <1>3, <2>1, <2>2, <2>4, <2>5 DEF SectorEntry, TypeOK, Steps, bufVars, readVars
  <1>4. CASE NextEntry
    <2>1. cur' \in Nat /\ idx' \in [Entries -> Nat \cup {None}]
      BY <1>4, WindowHolds DEF NextEntry, TypeOK
    <2> DEFINE o == OffsetOf(idx'[lba + 1 - cur'])
    <2>2. o \in Nat
      BY <1>0 DEF OffsetOf
    <2>3. size' = IF o - offset <= SectorSize THEN SectorSize ELSE o - offset
      BY <1>4 DEF NextEntry
    <2> HIDE DEF o
    <2>4. size' \in Nat
      BY <2>2, <2>3 DEF TypeOK
    <2> QED
      BY <1>4, <2>1, <2>4 DEF NextEntry, TypeOK, Steps, bufVars, readVars
  <1>5. CASE FillBuffer
    <2>1. FileFrom(offset) \in [BufBytes -> Nat \cup {None}]
      BY DEF FileFrom, TypeOK, BufBytes
    <2>2. bufAt' \in Nat \cup {-1} /\ buf' \in [BufBytes -> Nat \cup {None}]
      BY <1>5, <2>1 DEF FillBuffer, TypeOK, bufVars
    <2> QED
      BY <1>5, <2>2 DEF FillBuffer, TypeOK, Steps, indexVars, readVars
  <1>6. CASE Inflate
    <2>1. held' \in Nat \cup {None} /\ pc' \in {"got", "error"}
      BY <1>0, <1>6 DEF Inflate, StreamsAt
    <2> QED
      BY <1>6, <2>1 DEF Inflate, TypeOK, Steps, indexVars, bufVars, readVars
  <1>7. CASE CheckVolume
    BY <1>7 DEF CheckVolume, TypeOK, Steps, indexVars, bufVars, readVars
  <1>8. CASE IsoRead
    BY <1>8, IsoRequests DEF IsoRead, TypeOK, Steps, indexVars, bufVars
  <1>9. CASE NextSector
    <2>1. pos \div SectorSize \in Nat
      BY DEF TypeOK
    <2> QED
      BY <1>9, <2>1 DEF NextSector, TypeOK, Steps, indexVars, bufVars, readVars
  <1>10. CASE CopySector
    <2> DEFINE start == pos % SectorSize
               rest  == SectorSize - start
               re    == IF rest < remaining THEN rest ELSE remaining
    <2>1. start \in 0 .. SectorSize - 1
      BY DEF TypeOK
    <2>2. remaining' = remaining - re /\ pos' = pos + re
      BY <1>10 DEF CopySector
    <2>3. re \in Nat /\ re <= remaining
      BY <2>1 DEF TypeOK
    <2> HIDE DEF re
    <2>4. remaining' \in Nat /\ pos' \in Nat
      BY <2>2, <2>3 DEF TypeOK
    <2> QED
      BY <1>10, <2>4 DEF CopySector, TypeOK, Steps, indexVars, bufVars
  <1>11. CASE ReadDone
    BY <1>11 DEF ReadDone, TypeOK, Steps, indexVars, bufVars, readVars
  <1>12. CASE IsoClose
    BY <1>12 DEF IsoClose, TypeOK, Steps, indexVars, bufVars, readVars
  <1>13. CASE UNCHANGED vars
    BY <1>13 DEF vars, TypeOK, indexVars, bufVars, readVars
  <1> QED
    BY <1>1, <1>2, <1>3, <1>4, <1>5, <1>6, <1>7, <1>8, <1>9, <1>10, <1>11, <1>12, <1>13
    DEF Next, Work

(***************************************************************************)
(* The reader's state has its type: no cached entry, origin or length is   *)
(* anything but a number, whatever the image and the calls.                *)
(***************************************************************************)
THEOREM ReaderTypes == Spec => []TypeOK
  <1>1. Init => TypeOK
    <2>1. EmptyBuf \in [BufBytes -> Nat \cup {None}] /\ ZeroIndex \in [Entries -> Nat \cup {None}]
      BY DEF EmptyBuf, ZeroIndex
    <2> QED
      BY <2>1 DEF Init, TypeOK, Steps
  <1> QED
    BY <1>1, TypeStep, PTL DEF Spec

(***************************************************************************)
(* FillBuffer leaves the whole stream of the sector in the buffer.  If it  *)
(* does not refill, the window already covers the stream: it has an origin *)
(* because the image is roomy, and it ends after the stream because the    *)
(* code takes every stream for a sector long at least.                     *)
(***************************************************************************)
LEMMA FilledBuffer ==
  ASSUME TypeOK, ReaderInvariant, FillBuffer
  PROVE  BufferIsTrue' /\ StreamBuffered'
  <1> USE SizeFacts
  <1> DEFINE end == img.off[img.sectors]
  <1>1. /\ img \in Images /\ img.ciso /\ ~img.raw[lba] /\ lba \in 0 .. img.sectors - 1
        /\ offset = img.off[lba] /\ size >= SectorSize
        /\ offset \in Nat /\ size \in Nat /\ bufAt \in Nat \cup {-1}
        /\ BufferIsTrue
    BY ImageFacts DEF FillBuffer, ReaderInvariant, LocalsAreRight, SectorInRange,
       Reading, TypeOK, CachesTellTheTruth
  <1>2. /\ img.len[lba] \in 1 .. SectorSize
        /\ end \in Nat
        /\ offset + img.len[lba] <= end
    BY <1>1, StreamFacts, EndFacts
  <1>3. img' = img /\ lba' = lba /\ offset' = offset
    BY DEF FillBuffer
  <1>4. CASE NotBuffered
    <2>1. bufAt' = offset /\ buf' = FileFrom(offset)
      BY <1>4 DEF FillBuffer
    <2>2. BufferIsTrue'
      BY <2>1, <1>3 DEF BufferIsTrue, FileFrom
    <2>3. ASSUME NEW n \in 0 .. img.len[lba] - 1
          PROVE  n \in BufBytes /\ offset + n < end
      BY <1>1, <1>2, <2>3 DEF BufBytes
    <2>4. ASSUME NEW n \in 0 .. img.len[lba] - 1
          PROVE  offset - offset + n = n
      BY <1>1
    <2>5. StreamBuffered'
      BY <2>1, <2>3, <2>4, <1>3 DEF StreamBuffered, FileFrom
    <2> QED
      BY <2>2, <2>5
  <1>5. CASE ~NotBuffered
    <2>1. bufAt' = bufAt /\ buf' = buf
      BY <1>5 DEF FillBuffer, bufVars
    <2>2. BufferIsTrue'
      BY <1>1, <1>3, <2>1 DEF BufferIsTrue
    <2>3. ASSUME Roomy(img), NEW n \in 0 .. img.len[lba] - 1
          PROVE  /\ offset - bufAt + n \in BufBytes
                 /\ buf[offset - bufAt + n] = offset + n
      <3>1. offset + SectorSize >= DecBufSize - 1
        BY <1>1, <2>3 DEF Roomy
      <3>2. offset >= bufAt /\ size + offset < bufAt + DecBufSize
        BY <1>1, <1>5 DEF NotBuffered
      <3>3. bufAt # -1 /\ bufAt \in Nat
        BY <1>1, <3>1, <3>2
      <3>4. n < size
        BY <1>1, <1>2, <2>3
      <3>5. offset - bufAt + n \in BufBytes
        BY <1>1, <3>2, <3>3, <3>4 DEF BufBytes
      <3>6. bufAt + (offset - bufAt + n) = offset + n /\ offset + n < end
        BY <1>1, <1>2, <3>3
      <3> QED
        BY <1>1, <3>3, <3>5, <3>6 DEF BufferIsTrue
    <2>4. StreamBuffered'
      BY <1>3, <2>1, <2>3 DEF StreamBuffered
    <2> QED
      BY <2>2, <2>4
  <1> QED
    BY <1>4, <1>5

(***************************************************************************)
(* The only stream inflate can find at the right place is the sector's.    *)
(***************************************************************************)
LEMMA OneStream ==
  ASSUME TypeOK, ReaderInvariant, pc = "inflate", Roomy(img)
  PROVE  StreamsAt(offset - bufAt) = {lba}
  <1>1. /\ img \in Images /\ lba \in 0 .. img.sectors - 1 /\ offset = img.off[lba]
        /\ \A n \in 0 .. img.len[lba] - 1 :
             offset - bufAt + n \in BufBytes /\ buf[offset - bufAt + n] = offset + n
        /\ offset \in Nat /\ bufAt \in Int
    BY ImageFacts DEF ReaderInvariant, LocalsAreRight, SectorInRange, Reading, TypeOK,
       StreamBuffered
  <1>2. lba \in StreamsAt(offset - bufAt)
    BY <1>1 DEF StreamsAt
  <1>3. ASSUME NEW s \in StreamsAt(offset - bufAt) PROVE s = lba
    <2>1. s \in 0 .. img.sectors - 1 /\ 0 \in 0 .. img.len[s] - 1 /\ 0 \in 0 .. img.len[lba] - 1
      <3>1. s \in 0 .. img.sectors - 1
        BY <1>3 DEF StreamsAt
      <3>2. img.len \in [0 .. img.sectors - 1 -> 1 .. SectorSize]
        BY <1>1, ImageFacts
      <3>3. img.len[s] \in 1 .. SectorSize /\ img.len[lba] \in 1 .. SectorSize
        BY <1>1, <3>1, <3>2
      <3> QED
        BY <3>1, <3>3, SizeFacts
    <2>2. buf[offset - bufAt + 0] = img.off[s] + 0
      BY <2>1 DEF StreamsAt
    <2>3. buf[offset - bufAt + 0] = img.off[lba] + 0
      BY <1>1, <2>1
    <2>4. img.off[s] \in Nat /\ img.off[lba] \in Nat
      <3>1. img.off \in [0 .. img.sectors -> Nat] /\ img.sectors \in Nat
        BY <1>1, ImageFacts
      <3>2. s \in 0 .. img.sectors /\ lba \in 0 .. img.sectors
        BY <1>1, <2>1, <3>1
      <3> QED
        BY <3>1, <3>2
    <2>5. img.off[s] = img.off[lba]
      BY <2>2, <2>3, <2>4
    <2>6. s \in 0 .. img.sectors /\ lba \in 0 .. img.sectors /\ s \in Int /\ lba \in Int
      BY <1>1, <2>1, ImageFacts
    <2>7. \A k, l \in 0 .. img.sectors : k < l => img.off[k] < img.off[l]
      BY <1>1, ImageFacts
    <2>8. ~(s < lba) /\ ~(lba < s)
      BY <2>4, <2>5, <2>6, <2>7
    <2> QED
      BY <2>6, <2>8
  <1> QED
    BY <1>2, <1>3

(***************************************************************************)
(* The steps of readSectorCompressed keep the invariant.                   *)
(***************************************************************************)
LEMMA EntryStep ==
  ASSUME TypeOK, ReaderInvariant, SectorEntry \/ NextEntry
  PROVE  ReaderInvariant'
  <1> USE SizeFacts
  <1>1. /\ img \in Images /\ img.ciso /\ lba \in 0 .. img.sectors - 1 /\ lba \in Nat
        /\ img.sectors \in Nat /\ IndexIsTrue /\ BufferIsTrue
    BY ImageFacts DEF SectorEntry, NextEntry, ReaderInvariant, LocalsAreRight,
       SectorInRange, Reading, TypeOK, CachesTellTheTruth
  <1>2. /\ img' = img /\ lba' = lba /\ bufAt' = bufAt /\ buf' = buf /\ caller' = caller
        /\ pos' = pos /\ remaining' = remaining
    BY DEF SectorEntry, NextEntry, bufVars, readVars
  <1>3. IndexIsTrue' /\ BufferIsTrue'
    <2>1. BufferIsTrue'
      BY <1>1, <1>2 DEF BufferIsTrue
    <2>2. LoadIndex(lba) \/ LoadIndex(lba + 1)
      BY DEF SectorEntry, NextEntry
    <2>3. lba \in Nat /\ lba + 1 \in Nat
      BY <1>1
    <2> QED
      BY <1>1, <1>2, <2>1, <2>2, <2>3, WindowTrue
  <1>4. CASE SectorEntry
    <2>1. idx'[lba - cur'] = lba
      BY <1>1, <1>2, <1>4, WindowTrue DEF SectorEntry
    <2>2. RawEntry(lba) <=> img.raw[lba]
      BY <1>1 DEF RawEntry
    <2>3. OffsetOf(lba) = img.off[lba]
      BY <1>1 DEF OffsetOf
    <2>4. /\ offset' = img.off[lba]
          /\ \/ img.raw[lba] /\ held' = lba /\ pc' = "got"
             \/ ~img.raw[lba] /\ pc' = "next"
      BY <1>4, <2>1, <2>2, <2>3 DEF SectorEntry
    <2> QED
      BY <1>1, <1>2, <1>3, <1>4, <2>4
      DEF SectorEntry, ReaderInvariant, CachesTellTheTruth, SectorInRange, Reading,
          LocalsAreRight, StreamBuffered, RightSector
  <1>5. CASE NextEntry
    <2>1. /\ pc = "next" /\ pc' = "fill" /\ offset' = offset
          /\ ~img.raw[lba] /\ offset = img.off[lba]
      BY <1>5 DEF NextEntry, ReaderInvariant, LocalsAreRight
    <2> DEFINE gap == OffsetOf(idx'[lba + 1 - cur']) - offset
    <2>2. gap \in Int
      <3>1. img.off \in [0 .. img.sectors -> Nat]
        BY <1>1, ImageFacts
      <3>2. OffsetOf(idx'[lba + 1 - cur']) \in Nat
        BY <3>1 DEF OffsetOf
      <3> QED
        BY <3>2 DEF TypeOK
    <2>3. size' = IF gap <= SectorSize THEN SectorSize ELSE gap
      BY <1>5 DEF NextEntry
    <2> HIDE DEF gap
    <2>4. size' >= SectorSize
      BY <2>2, <2>3
    <2> QED
      BY <1>1, <1>2, <1>3, <2>1, <2>4
      DEF ReaderInvariant, CachesTellTheTruth, SectorInRange, Reading,
          LocalsAreRight, StreamBuffered, RightSector
  <1> QED
    BY <1>4, <1>5

LEMMA BufferStep ==
  ASSUME TypeOK, ReaderInvariant, FillBuffer \/ Inflate
  PROVE  ReaderInvariant'
  <1> USE DEF ReaderInvariant, CachesTellTheTruth, SectorInRange, Reading, LocalsAreRight
  <1>1. CASE FillBuffer
    <2>1. BufferIsTrue' /\ StreamBuffered'
      BY <1>1, FilledBuffer
    <2>2. IndexIsTrue'
      BY <1>1 DEF FillBuffer, IndexIsTrue, indexVars
    <2> QED
      BY <1>1, <2>1, <2>2 DEF FillBuffer, RightSector, readVars
  <1>2. CASE Inflate
    <2>1. IndexIsTrue' /\ BufferIsTrue'
      BY <1>2 DEF Inflate, IndexIsTrue, BufferIsTrue, indexVars, bufVars
    <2>2. ASSUME Roomy(img) PROVE pc' = "got" /\ held' = lba
      <3>1. StreamsAt(offset - bufAt) = {lba}
        BY <1>2, <2>2, OneStream DEF Inflate
      <3> QED
        BY <1>2, <3>1 DEF Inflate
    <2>3. RightSector' /\ StreamBuffered'
      BY <1>2, <2>2 DEF Inflate, RightSector, StreamBuffered
    <2> QED
      BY <1>2, <2>1, <2>3 DEF Inflate, readVars
  <1> QED
    BY <1>1, <1>2

(***************************************************************************)
(* So do isoOpen and isoRead around them.                                  *)
(***************************************************************************)
LEMMA CallStep ==
  ASSUME TypeOK, ReaderInvariant, Next \/ UNCHANGED vars,
         ~(SectorEntry \/ NextEntry), ~(FillBuffer \/ Inflate)
  PROVE  ReaderInvariant'
  <1> USE SizeFacts
      DEF ReaderInvariant, CachesTellTheTruth, IndexIsTrue, BufferIsTrue, SectorInRange,
          Reading, LocalsAreRight, StreamBuffered, RightSector, indexVars, bufVars, readVars
  <1>1. CASE IsoOpen
    BY <1>1, ImageFacts DEF IsoOpen, TypeOK
  <1>2. CASE ReadPlain
    BY <1>2 DEF ReadPlain
  <1>3. CASE CheckVolume
    BY <1>3 DEF CheckVolume
  <1>4. CASE IsoRead
    BY <1>4 DEF IsoRead
  <1>5. CASE NextSector
    <2>1. img.sectors \in Nat
      BY ImageFacts DEF TypeOK
    <2>2. caller = "isoRead" => pos < img.sectors * SectorSize
      BY <1>5, <2>1 DEF NextSector, TypeOK
    <2>3. caller = "isoRead"
      BY <1>5 DEF NextSector
    <2>4. pos \div SectorSize < img.sectors
      BY <2>1, <2>2, <2>3, DivBelow DEF TypeOK
    <2> QED
      BY <1>5, <2>4 DEF NextSector
  <1>6. CASE CopySector
    <2> DEFINE start == pos % SectorSize
               rest  == SectorSize - start
               re    == IF rest < remaining THEN rest ELSE remaining
    <2>1. remaining' = remaining - re /\ pos' = pos + re
      BY <1>6 DEF CopySector
    <2>2. re \in Int
      BY DEF TypeOK
    <2> HIDE DEF re
    <2>3. pos' + remaining' = pos + remaining
      BY <2>1, <2>2 DEF TypeOK
    <2> QED
      BY <1>6, <2>3 DEF CopySector
  <1>7. CASE ReadDone
    BY <1>7 DEF ReadDone
  <1>8. CASE IsoClose
    BY <1>8 DEF IsoClose
  <1>9. CASE UNCHANGED vars
    BY <1>9 DEF vars
  <1> QED
    BY <1>1, <1>2, <1>3, <1>4, <1>5, <1>6, <1>7, <1>8, <1>9 DEF Next, Work

(***************************************************************************)
(* The invariant that carries RightSector, and RightSector.                *)
(***************************************************************************)
THEOREM ReaderInvariantHolds == Spec => []ReaderInvariant
  <1>1. Init => ReaderInvariant
    BY DEF Init, ReaderInvariant, CachesTellTheTruth, SectorInRange, Reading,
       LocalsAreRight, StreamBuffered, RightSector
  <1>2. TypeOK /\ ReaderInvariant /\ [Next]_vars => ReaderInvariant'
    BY EntryStep, BufferStep, CallStep
  <1> QED
    BY <1>1, <1>2, ReaderTypes, PTL DEF Spec

(***************************************************************************)
(* Of a roomy image every sector read is the sector asked for.  Of other   *)
(* images, whose first sectors pass for those of a buffer never filled,    *)
(* this says nothing: they are the business of ReaderImplementsContract.   *)
(***************************************************************************)
THEOREM SectorsAreRight == Spec => []RightSector
  <1>1. ReaderInvariant => RightSector
    BY DEF ReaderInvariant
  <1> QED
    BY <1>1, ReaderInvariantHolds, PTL

-----------------------------------------------------------------------------
(***************************************************************************)
(* The refinement.  A byte below the end of its sector is a byte of the    *)
(* disc at the position the sector and its place give.                     *)
(***************************************************************************)
LEMMA PlaceInSector ==
  ASSUME NEW p \in Nat, NEW k \in Nat, (p % SectorSize) + k < SectorSize
  PROVE  DiscByte(p + k) = <<p \div SectorSize, (p % SectorSize) + k>>
  <1> DEFINE q == p \div SectorSize
             d == p % SectorSize
             e == (p + k) \div SectorSize
             f == (p + k) % SectorSize
  <1>1. q \in Int /\ d \in Int /\ p = q * SectorSize + d /\ 0 <= d /\ d < SectorSize
    BY SizeFacts
  <1>2. e \in Int /\ f \in Int /\ p + k = e * SectorSize + f /\ 0 <= f /\ f < SectorSize
    BY SizeFacts
  <1>3. (e - q) * SectorSize = d + k - f
    BY <1>1, <1>2, SizeFacts
  <1>4. ~(e - q >= 1)
    <2> SUFFICES ASSUME e - q >= 1 PROVE FALSE
      OBVIOUS
    <2>1. (e - q - 1) * SectorSize >= 0
      BY <1>1, <1>2, SizeFacts
    <2> QED
      BY <2>1, <1>1, <1>2, <1>3, SizeFacts
  <1>5. ~(e - q <= -1)
    <2> SUFFICES ASSUME e - q <= -1 PROVE FALSE
      OBVIOUS
    <2>1. (q - e - 1) * SectorSize >= 0
      BY <1>1, <1>2, SizeFacts
    <2> QED
      BY <2>1, <1>1, <1>2, <1>3, SizeFacts
  <1>6. e = q
    BY <1>1, <1>2, <1>4, <1>5
  <1>7. f = d + k
    BY <1>1, <1>2, <1>3, <1>6, SizeFacts
  <1> QED
    BY <1>6, <1>7 DEF DiscByte

LEMMA RefinementInit == Init => ContractInvariant
  BY DEF Init, ContractInvariant, BufferEmpty, SectorOrNothing, CopiedSoFar, InRead

LEMMA EmptyStep ==
  ASSUME TypeOK, BufferEmpty, [Next]_vars
  PROVE  BufferEmpty'
  <1> USE DEF bufVars, BufferEmpty, EmptyBuf
  <1>1. CASE IsoOpen
    BY <1>1 DEF IsoOpen
  <1>2. CASE IsoRead \/ IsoClose
    BY <1>2 DEF IsoRead, IsoClose
  <1>3. CASE ReadPlain \/ SectorEntry \/ NextEntry
    BY <1>3 DEF ReadPlain, SectorEntry, NextEntry
  <1>4. CASE FillBuffer
    <2>1. offset # -1
      BY DEF TypeOK
    <2> QED
      BY <1>4, <2>1 DEF FillBuffer
  <1>5. CASE Inflate \/ CheckVolume \/ NextSector \/ CopySector \/ ReadDone
    BY <1>5 DEF Inflate, CheckVolume, NextSector, CopySector, ReadDone
  <1>6. CASE UNCHANGED vars
    BY <1>6 DEF vars
  <1> QED
    BY <1>1, <1>2, <1>3, <1>4, <1>5, <1>6 DEF Next, Work

(***************************************************************************)
(* The only stream that can start at the offset of a sector is its own.    *)
(***************************************************************************)
LEMMA OwnStream ==
  ASSUME TypeOK, ReaderInvariant, BufferEmpty, pc = "inflate",
         NEW s \in StreamsAt(offset - bufAt)
  PROVE  s = lba
  <1>1. /\ img \in Images /\ img.ciso /\ offset = img.off[lba] /\ lba < img.sectors
        /\ lba \in Nat /\ offset \in Nat /\ bufAt \in Nat \cup {-1}
    BY DEF TypeOK, ReaderInvariant, LocalsAreRight, SectorInRange, Reading
  <1>2. img.sectors \in Nat /\ s \in 0 .. img.sectors - 1 /\ img.len[s] \in 1 .. SectorSize
    BY <1>1, ImageFacts, StreamFacts DEF StreamsAt
  <1>off. img.off \in [0 .. img.sectors -> Nat]
    BY <1>1, ImageFacts
  <1>mono. \A k, l \in 0 .. img.sectors : k < l => img.off[k] < img.off[l]
    BY <1>1, ImageFacts
  <1>in. s \in 0 .. img.sectors /\ lba \in 0 .. img.sectors /\ img.sectors \in 0 .. img.sectors
    BY <1>1, <1>2
  <1>3. offset - bufAt \in BufBytes /\ buf[offset - bufAt] = img.off[s]
    <2>1. \A n \in 0 .. img.len[s] - 1 :
            offset - bufAt + n \in BufBytes /\ buf[offset - bufAt + n] = img.off[s] + n
      BY DEF StreamsAt
    <2>2. 0 \in 0 .. img.len[s] - 1
      BY <1>2, SizeFacts
    <2>3. img.off[s] \in Nat
      BY <1>off, <1>in
    <2> QED
      BY <1>1, <2>1, <2>2, <2>3
  <1>4. img.off[s] \in Nat
    BY <1>off, <1>in
  <1>5. bufAt # -1
    BY <1>3, <1>4, SizeFacts DEF BufferEmpty, EmptyBuf
  <1>6. BufferIsTrue
    BY <1>1 DEF ReaderInvariant, CachesTellTheTruth
  <1>7. offset < img.off[img.sectors]
    BY <1>1, <1>mono, <1>in
  <1>8. buf[offset - bufAt] = offset
    BY <1>1, <1>3, <1>5, <1>6, <1>7 DEF BufferIsTrue
  <1>9. img.off[s] = img.off[lba]
    BY <1>1, <1>3, <1>8
  <1> QED
    BY <1>2, <1>9, <1>off, <1>mono, <1>in, <1>1

LEMMA SectorStep ==
  ASSUME TypeOK, ReaderInvariant, ReaderInvariant', TypeOK', BufferEmpty, SectorOrNothing, [Next]_vars
  PROVE  SectorOrNothing'
  <1> USE DEF SectorOrNothing
  <1>1. CASE IsoOpen \/ IsoRead \/ IsoClose
    BY <1>1 DEF IsoOpen, IsoRead, IsoClose
  <1>2. CASE ReadPlain
    BY <1>2 DEF ReadPlain
  <1>3. CASE SectorEntry
    <2>1. lba \in Nat /\ img \in Images /\ lba < img.sectors /\ IndexIsTrue
      BY <1>3 DEF SectorEntry, TypeOK, ReaderInvariant, SectorInRange, Reading, CachesTellTheTruth
    <2>2. img.sectors \in Nat
      BY <2>1, ImageFacts
    <2>3. idx'[lba - cur'] = lba
      BY <1>3, <2>1, <2>2, WindowTrue DEF SectorEntry
    <2> QED
      BY <1>3, <2>3 DEF SectorEntry
  <1>4. CASE NextEntry \/ FillBuffer
    BY <1>4 DEF NextEntry, FillBuffer
  <1>5. CASE Inflate
    <2>1. CASE held' \in StreamsAt(offset - bufAt)
      BY <1>5, <2>1, OwnStream DEF Inflate
    <2>2. CASE held' = None
      <3>1. lba' \in Nat
        BY DEF TypeOK
      <3>2. Roomy(img') /\ pc' = "got" => held' = lba'
        BY DEF ReaderInvariant, RightSector
      <3> QED
        BY <1>5, <2>2, <3>1, <3>2, SizeFacts DEF Inflate
    <2> QED
      BY <1>5, <2>1, <2>2 DEF Inflate
  <1>6. CASE CheckVolume \/ NextSector \/ CopySector \/ ReadDone
    BY <1>6 DEF CheckVolume, NextSector, CopySector, ReadDone
  <1>7. CASE UNCHANGED vars
    BY <1>7 DEF vars
  <1> QED
    BY <1>1, <1>2, <1>3, <1>4, <1>5, <1>6, <1>7 DEF Next, Work

(***************************************************************************)
(* The bytes isoRead copies are those that follow the ones it copied.      *)
(***************************************************************************)
LEMMA CopyStep ==
  ASSUME TypeOK, SectorOrNothing, CopiedSoFar, CopySector
  PROVE  CopiedSoFar'
  <1> DEFINE start == pos % SectorSize
             rest  == SectorSize - start
             re    == IF rest < remaining THEN rest ELSE remaining
  <1>1. /\ pc = "got" /\ pc' = "loop" /\ caller = "isoRead" /\ caller' = caller
        /\ img' = img /\ req' = req
        /\ copied' = copied \o [k \in 1 .. re |-> HeldByte(start + k - 1)]
        /\ remaining' = remaining - re /\ pos' = pos + re
    BY DEF CopySector
  <1>2. /\ copied \in Seq(DiscBytes) /\ req \in Nat \X Nat
        /\ pos = req[1] + Len(copied) /\ Len(copied) + remaining = req[2]
        /\ \A k \in 1 .. Len(copied) : RightByte(k)
        /\ remaining > 0 /\ lba = pos \div SectorSize
        /\ held = lba \/ (held = None /\ ~Roomy(img))
    BY <1>1 DEF CopiedSoFar, InRead, Reading, SectorOrNothing
  <1>3. /\ pos \in Nat /\ remaining \in Nat /\ held \in Nat \cup {None} /\ lba \in Nat
        /\ req[1] \in Nat /\ req[2] \in Nat /\ Len(copied) \in Nat
    BY <1>2 DEF TypeOK
  <1>4. start \in Nat /\ start < SectorSize
    BY <1>3, SizeFacts
  <1>5. re \in Nat /\ re <= remaining /\ start + re <= SectorSize
    BY <1>3, <1>4, SizeFacts
  <1> HIDE DEF re, rest, start
  <1>6. /\ copied' \in Seq(DiscBytes)
        /\ Len(copied') = Len(copied) + re
        /\ \A k \in 1 .. Len(copied) : copied'[k] = copied[k]
        /\ \A k \in Len(copied) + 1 .. Len(copied) + re :
             copied'[k] = HeldByte(start + (k - Len(copied) - 1))
    <2> DEFINE piece == [k \in 1 .. re |-> HeldByte(start + k - 1)]
    <2>1. ASSUME NEW k \in 1 .. re PROVE HeldByte(start + k - 1) \in DiscBytes
      <3>1. start + k - 1 \in Nat
        BY <1>4, <1>5
      <3> QED
        BY <1>3, <3>1 DEF HeldByte, DiscBytes
    <2>2. piece \in Seq(DiscBytes) /\ Len(piece) = re
      BY <1>5, <2>1
    <2>3. \A k \in 1 .. re : piece[k] = HeldByte(start + k - 1)
      OBVIOUS
    <2>4. copied' = copied \o piece
      BY <1>1
    <2> HIDE DEF piece
    <2>5. /\ copied' \in Seq(DiscBytes)
          /\ Len(copied') = Len(copied) + re
          /\ \A k \in 1 .. Len(copied) + re :
               copied'[k] = IF k <= Len(copied) THEN copied[k] ELSE piece[k - Len(copied)]
      BY <1>2, <2>2, <2>4, ConcatProperties
    <2>6. ASSUME NEW k \in Len(copied) + 1 .. Len(copied) + re
          PROVE  copied'[k] = HeldByte(start + (k - Len(copied) - 1))
      <3>1. copied'[k] = piece[k - Len(copied)]
        BY <1>3, <1>5, <2>5
      <3>2. /\ k - Len(copied) \in 1 .. re
            /\ start + (k - Len(copied)) - 1 = start + (k - Len(copied) - 1)
        BY <1>3, <1>4, <1>5
      <3> QED
        BY <2>3, <3>1, <3>2
    <2>7. \A k \in 1 .. Len(copied) : copied'[k] = copied[k]
      BY <1>3, <1>5, <2>5
    <2> QED
      BY <2>5, <2>6, <2>7
  <1>7. ASSUME NEW k \in 1 .. Len(copied') PROVE RightByte(k)'
    <2>1. CASE k <= Len(copied)
      <3>1. RightByte(k) /\ copied'[k] = copied[k]
        BY <1>2, <1>3, <1>6, <2>1
      <3> QED
        BY <1>1, <3>1 DEF RightByte
    <2>2. CASE k > Len(copied)
      <3> DEFINE j == k - Len(copied) - 1
      <3>1. k \in Len(copied) + 1 .. Len(copied) + re
        BY <1>3, <1>5, <1>6, <2>2
      <3>a. k \in Int /\ Len(copied) \in Int /\ j \in Nat /\ j + Len(copied) + 1 = k
            /\ j < re
        BY <1>3, <1>5, <3>1
      <3>b. pos = req[1] + Len(copied) /\ req[1] \in Int
        BY <1>2, <1>3
      <3> HIDE DEF j
      <3>2. j \in Nat /\ start + j < SectorSize /\ req[1] + k - 1 = pos + j
        <4>1. j \in Nat /\ start + j < SectorSize
          BY <1>4, <1>5, <3>a, SizeFacts
        <4>2. req[1] + k - 1 = pos + j
          BY <3>a, <3>b
        <4> QED
          BY <4>1, <4>2
      <3>3. copied'[k] = HeldByte(start + j)
        BY <1>6, <3>1 DEF j
      <3>4. DiscByte(pos + j) = <<lba, start + j>>
        BY <1>2, <1>3, <3>2, PlaceInSector DEF start
      <3>5. held # None => copied'[k] = DiscByte(req[1] + k - 1)
        BY <1>2, <3>2, <3>3, <3>4 DEF HeldByte
      <3>6. held = None => copied'[k] = None /\ ~Roomy(img)
        BY <1>2, <1>3, <3>3, SizeFacts DEF HeldByte
      <3> QED
        BY <1>1, <3>5, <3>6 DEF RightByte
    <2> QED
      BY <1>3, <1>5, <1>6, <2>1, <2>2
  <1>8. pos' = req'[1] + Len(copied') /\ Len(copied') + remaining' = req'[2]
    BY <1>1, <1>2, <1>3, <1>5, <1>6
  <1> QED
    BY <1>1, <1>2, <1>6, <1>7, <1>8 DEF CopiedSoFar, InRead, Reading

LEMMA CopiedStep ==
  ASSUME TypeOK, SectorOrNothing, CopiedSoFar, [Next]_vars, ReaderInvariant
  PROVE  CopiedSoFar'
  <1> USE DEF CopiedSoFar, InRead, RightByte, Reading, readVars
  <1>1. CASE IsoOpen \/ IsoClose
    BY <1>1 DEF IsoOpen, IsoClose
  <1>2. CASE IsoRead
    <2>1. req' \in Nat \X Nat /\ copied' = <<>> /\ pos' = req'[1] /\ remaining' = req'[2]
          /\ pc' = "loop"
      BY <1>2, IsoRequests DEF IsoRead
    <2> QED
      BY <2>1
  <1>3. CASE ReadPlain \/ SectorEntry \/ NextEntry \/ FillBuffer \/ Inflate
    BY <1>3 DEF ReadPlain, SectorEntry, NextEntry, FillBuffer, Inflate
  <1>4. CASE CheckVolume \/ ReadDone
    BY <1>4 DEF CheckVolume, ReadDone
  <1>5. CASE NextSector
    BY <1>5 DEF NextSector
  <1>6. CASE CopySector
    BY <1>6, CopyStep
  <1>7. CASE UNCHANGED vars
    BY <1>7 DEF vars
  <1> QED
    BY <1>1, <1>2, <1>3, <1>4, <1>5, <1>6, <1>7 DEF Next, Work

(***************************************************************************)
(* The invariant the refinement rests on: what was copied is the beginning *)
(* of the request, and a sector is the right one or nothing.               *)
(***************************************************************************)
THEOREM ContractInvariantHolds == Spec => []ContractInvariant
  <1>1. ASSUME TypeOK, TypeOK', ReaderInvariant, ReaderInvariant', ContractInvariant, [Next]_vars
        PROVE  ContractInvariant'
    <2>1. BufferEmpty'
      BY <1>1, EmptyStep DEF ContractInvariant
    <2>2. SectorOrNothing'
      BY <1>1, SectorStep DEF ContractInvariant
    <2>3. CopiedSoFar'
      BY <1>1, CopiedStep DEF ContractInvariant
    <2> QED
      BY <2>1, <2>2, <2>3 DEF ContractInvariant
  <1> QED
    BY <1>1, RefinementInit, ReaderTypes, ReaderInvariantHolds, PTL DEF Spec

(***************************************************************************)
(* Every step of the reader is a step of the contract or is not seen.      *)
(***************************************************************************)
LEMMA AnswerFacts ==
  ASSUME CopiedSoFar
  PROVE  copied # None
  <1>1. copied \in Seq(DiscBytes) /\ None \notin Seq(DiscBytes)
    BY IsoConstants DEF CopiedSoFar
  <1> QED
    BY <1>1

LEMMA OpenStep ==
  ASSUME TypeOK, ReaderInvariant, ContractInvariant, IsoOpen \/ CheckVolume \/ IsoClose
  PROVE  [Contract!Next]_(Contract!contractVars)
  <1> USE AnswerFacts DEF File, Answered, ContractInvariant, readVars
  <1>1. CASE IsoOpen
    <2>1. Contract!Open
      BY <1>1 DEF IsoOpen, Contract!Open
    <2> QED
      BY <2>1 DEF Contract!Next
  <1>2. CASE CheckVolume
    <2>1. /\ File = "opening" /\ File' = pc' /\ Answered /\ Answered'
          /\ UNCHANGED <<img, req, copied>>
      BY <1>2 DEF CheckVolume
    <2>2. pc = "got" /\ held = None => ~Roomy(img)
      BY SizeFacts DEF SectorOrNothing, TypeOK
    <2>3. pc = "error" => ~Roomy(img)
      BY DEF ReaderInvariant, RightSector
    <2>4. \/ pc' = "open" /\ img.iso9660
          \/ pc' = "closed" /\ ~img.iso9660
          \/ pc' \in {"open", "closed"} /\ ~Roomy(img)
      BY <1>2, <2>2, <2>3 DEF CheckVolume
    <2>5. Contract!Opened
      BY <2>1, <2>4 DEF Contract!Opened, Roomy, Contract!Roomy
    <2> QED
      BY <2>5 DEF Contract!Next
  <1>3. CASE IsoClose
    <2>1. Contract!Close
      BY <1>3 DEF IsoClose, Contract!Close
    <2> QED
      BY <2>1 DEF Contract!Next
  <1> QED
    BY <1>1, <1>2, <1>3

LEMMA ReadStep ==
  ASSUME TypeOK, TypeOK', ReaderInvariant, ContractInvariant, ContractInvariant',
         IsoRead \/ ReadDone
  PROVE  [Contract!Next]_(Contract!contractVars)
  <1> USE AnswerFacts DEF File, Answered, readVars
  <1>1. CASE IsoRead
    <2>1. copied # None
      BY DEF ContractInvariant
    <2>2. File = "open" /\ File' = "open" /\ Answered /\ ~Answered'
      BY <1>1 DEF IsoRead
    <2>3. Contract!Ask
      BY <1>1, <2>1, <2>2 DEF IsoRead, Contract!Ask
    <2> QED
      BY <2>3 DEF Contract!Next
  <1>2. CASE ReadDone
    <2>1. /\ File = "open" /\ File' = "open" /\ ~Answered /\ Answered'
          /\ UNCHANGED <<img, req, copied>> /\ InRead /\ copied # None
      BY <1>2 DEF ReadDone, ContractInvariant, ReaderInvariant, SectorInRange, InRead
    <2>2. /\ Len(copied) + remaining = req[2] /\ \A k \in 1 .. Len(copied) : RightByte(k)
          /\ req[1] \in Nat /\ Len(copied) \in Nat /\ remaining \in Nat
      BY <2>1 DEF ContractInvariant, CopiedSoFar, TypeOK
    <2>3. Roomy(img) => remaining = 0
      BY <1>2 DEF ReadDone, ReaderInvariant, RightSector
    <2>4. (Roomy(img) => Len(copied) = req[2]) /\ Len(copied) <= req[2]
      BY <2>2, <2>3
    <2>5. \A k \in 1 .. Len(copied) :
            \/ copied[k] = DiscByte(req[1] + k - 1)
            \/ copied[k] = None /\ ~Roomy(img)
      BY <2>2 DEF RightByte
    <2>6. (IF Answered THEN copied ELSE None) = None
          /\ (IF Answered THEN copied ELSE None)' = copied
      BY <2>1
    <2>7. Contract!Answer
      BY <2>1, <2>4, <2>5, <2>6
      DEF Contract!Answer, Roomy, Contract!Roomy, DiscByte, Contract!DiscByte
    <2> QED
      BY <2>7 DEF Contract!Next
  <1> QED
    BY <1>1, <1>2

LEMMA HiddenStep ==
  ASSUME TypeOK, ReaderInvariant, ContractInvariant, [Next]_vars,
         ~(IsoOpen \/ CheckVolume \/ IsoClose), ~(IsoRead \/ ReadDone)
  PROVE  UNCHANGED Contract!contractVars
  <1> USE DEF File, Answered, Contract!contractVars, readVars
  <1>1. CASE ReadPlain \/ SectorEntry \/ NextEntry \/ FillBuffer \/ Inflate
    BY <1>1 DEF ReadPlain, SectorEntry, NextEntry, FillBuffer, Inflate
  <1>2. CASE NextSector \/ CopySector
    BY <1>2 DEF NextSector, CopySector, ReaderInvariant, SectorInRange
  <1>3. CASE UNCHANGED vars
    BY <1>3 DEF vars
  <1> QED
    BY <1>1, <1>2, <1>3 DEF Next, Work

(***************************************************************************)
(* readSector and isoRead, with their caches and whatever the calls before *)
(* left in them, implement the contract of an image without caches.        *)
(***************************************************************************)
THEOREM ReaderImplementsContract == Spec => ImplementsContract
  <1>1. Init => Contract!Init
    BY DEF Init, Contract!Init, File, Answered
  <1>2. ASSUME TypeOK, TypeOK', ReaderInvariant, ContractInvariant, ContractInvariant', [Next]_vars
        PROVE  [Contract!Next]_(Contract!contractVars)
    BY <1>2, OpenStep, ReadStep, HiddenStep
  <1> QED
    BY <1>1, <1>2, ReaderTypes, ReaderInvariantHolds, ContractInvariantHolds, PTL
    DEF Spec, ImplementsContract, Contract!Spec
=============================================================================
