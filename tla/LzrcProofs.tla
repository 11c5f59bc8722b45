----------------------------- MODULE LzrcProofs -----------------------------
(***************************************************************************)
(* Proofs about Lzrc, for blocks of any length, any window the code could  *)
(* have and any longest match: that the lists are the window, that the     *)
(* match coded is the best there is, and that the decompressor asks for    *)
(* each bit as it was coded and gets the data back.                        *)
(***************************************************************************)
EXTENDS Lzrc, FiniteSetTheorems, FunctionTheorems, SequenceTheorems, WellFoundedInduction, TLAPS

-----------------------------------------------------------------------------
(***************************************************************************)
(* The inductive invariant.  Types, and where the window is.               *)
(***************************************************************************)
ListTypes ==
  /\ root \in [Bytes \X Bytes -> Places \cup {Nil}]
  /\ next \in [Places -> Places \cup {Nil}]
  /\ prev \in [Places -> Places \cup {Nil, First}]

InBlock ==
  /\ data \in Blocks /\ stale \in Bytes
  /\ phase \in {"insert", "compare", "slide", "code", "decode", "done"}
  /\ in_ptr \in 0 .. in_len
  /\ ListTypes
  /\ node \in Places \cup {Nil}
  /\ t_len \in 0 .. EndMark /\ t_pos \in 0 .. in_len /\ slid \in 0 .. MaxMatch

(* The window starts at the block's start until it is full; then it is     *)
(* full but for the moment between MakeRoom and Slide.                     *)
WindowInvariant ==
  /\ t_start \in Nat /\ t_end \in t_start .. in_len
  /\ win_size <= MaxWindow
  /\ \/ t_start = 0 \/ win_size = MaxWindow
     \/ phase = "slide" /\ slid < t_len /\ win_size = MaxWindow - 1
  /\ phase # "slide" => slid = 0
  /\ phase \in {"insert", "decode", "done"} => t_end = in_ptr
  /\ phase = "compare" =>
       t_end = in_ptr /\ in_ptr < in_len - 1 /\ t_len \in 1 .. Lesser(MaxMatch, in_len - in_ptr)
  /\ phase = "slide" =>
       /\ t_len \in 1 .. Lesser(MaxMatch, in_len - in_ptr)
       /\ slid <= t_len /\ t_end = in_ptr + slid
  /\ phase = "code" =>
       \/ t_len = EndMark /\ in_ptr = in_len /\ t_end = in_ptr
       \/ t_len \in 1 .. Lesser(MaxMatch, in_len - in_ptr) /\ t_end = in_ptr + t_len
  /\ phase \in {"slide", "code"} => t_len = 1 \/ ~Far(t_len, t_pos)

(* x is the last, or the first, position of S; none if there is none.      *)
IsLatest(x, S, none) == (S = {} /\ x = none) \/ (x \in S /\ \A c \in S : c <= x)
IsEarliest(x, S, none) == (S = {} /\ x = none) \/ (x \in S /\ \A c \in S : x <= c)

Pairs == [b \in Places |-> Pair(b)]
Mates(L, pair, t) == {c \in L : pair[c] = t}
MatesBefore(L, pair, b) == {c \in L : pair[c] = pair[b] /\ c < b}
MatesAfter(L, pair, b) == {c \in L : pair[c] = pair[b] /\ c > b}

(* The positions in L are linked, in one list for each pair.               *)
Chains(L, pair, rt, pv, nx) ==
  /\ \A t \in Bytes \X Bytes : IsLatest(rt[t], Mates(L, pair, t), Nil)
  /\ \A b \in L : /\ IsLatest(nx[b], MatesBefore(L, pair, b), Nil)
                  /\ IsEarliest(pv[b], MatesAfter(L, pair, b), First)

Chained == Chains(Linked, Pairs, root, prev, next)

Likeness(b, c) == \A k \in 0 .. MaxMatch - 1 : Text(b + k) = Text(c + k)

(* A position of the window is in its list or a later one like it is.      *)
Kept(b) == b \in Linked \/ b = in_len - 1 \/ \E c \in Linked : b < c /\ Likeness(b, c)

ListsInvariant ==
  /\ Linked \subseteq t_start .. t_end
  /\ Chained
  /\ t_end \in Linked => phase = "compare" \/ (phase = "slide" /\ slid = 0)
  /\ phase = "compare" => t_end \in Linked
  /\ phase = "slide" /\ slid = 0 => t_end \in Linked \/ t_end = in_len - 1
  /\ \A b \in t_start .. t_end - 1 : Kept(b)

(***************************************************************************)
(* The search: every position of the window later than the node to be      *)
(* looked at has been beaten, and what has been kept is one of them.       *)
(***************************************************************************)
Beaten(b) ==
  Same(b, t_end) < t_len \/ (Same(b, t_end) = t_len /\ t_end - b >= t_pos)

SearchInvariant ==
  phase = "compare" =>
    /\ \/ t_len = 1 /\ t_pos = 0
       \/ t_len > 1 /\ t_pos \in 1 .. win_size /\ t_len = Same(t_end - t_pos, t_end)
    /\ \A b \in t_start .. t_end - 1 : b > node => Beaten(b)
    /\ node # Nil =>
         /\ node \in Linked /\ node < t_end /\ Pair(node) = Pair(t_end)
         /\ \A b \in t_start .. t_end - 1 :
              b \in Linked \/ \E c \in Linked : b < c /\ c < t_end /\ Likeness(b, c)

LzInvariant == InBlock /\ WindowInvariant /\ ListsInvariant /\ SearchInvariant /\ FoundIsBest
-----------------------------------------------------------------------------
(***************************************************************************)
(* Numbers.  A set of naturals has a least one.                            *)
(***************************************************************************)
LEMMA LeastNat ==
  ASSUME NEW T, T \subseteq Nat, T # {}
  PROVE  \E x \in T : \A y \in T : x <= y
  <1> DEFINE Less == {ss \in Nat \X Nat : ss[1] < ss[2]}
  <1>1. IsWellFoundedOn(Less, Nat)
    BY NatLessThanWellFounded DEF OpToRel
  <1> HIDE DEF Less
  <1>2. PICK x \in T : \A y \in T : ~(<<y, x>> \in Less)
    BY <1>1, WFMin
  <1>3. ASSUME NEW y \in T PROVE x <= y
    <2>1. <<y, x>> \notin Less /\ y \in Nat /\ x \in Nat
      BY <1>2
    <2> QED
      BY <2>1 DEF Less
  <1> QED
    BY <1>3

(* Powers of two, counted as the subsets of a set, and quotients by them.  *)
LEMMA SubsetsDouble ==
  ASSUME NEW S, IsFiniteSet(S), NEW x, x \notin S
  PROVE  Cardinality(SUBSET (S \cup {x})) = Cardinality(SUBSET S) + Cardinality(SUBSET S)
  <1> DEFINE With == {A \cup {x} : A \in SUBSET S}
             f == [A \in SUBSET S |-> A \cup {x}]
  <1>1. SUBSET (S \cup {x}) = (SUBSET S) \cup With
    <2>1. ASSUME NEW B \in SUBSET (S \cup {x}) PROVE B \in (SUBSET S) \cup With
      <3>1. CASE x \in B
        <4>1. B = (B \ {x}) \cup {x} /\ B \ {x} \in SUBSET S
          BY <3>1
        <4> QED
          BY <4>1
      <3> QED
        BY <3>1
    <2> QED
      BY <2>1
  <1>2. (SUBSET S) \cap With = {}
    OBVIOUS
  <1>3. f \in Bijection(SUBSET S, With)
    <2>1. f \in [SUBSET S -> With]
      OBVIOUS
    <2>2. ASSUME NEW A \in SUBSET S, NEW B \in SUBSET S, f[A] = f[B] PROVE A = B
      BY <2>2
    <2>3. f \in Injection(SUBSET S, With)
      BY <2>1, <2>2, Fun_IsInj, Zenon
    <2>4. f \in Surjection(SUBSET S, With)
      BY <2>1, Zenon DEF Surjection
    <2> QED
      BY <2>3, <2>4 DEF Bijection
  <1>4. IsFiniteSet(SUBSET S) /\ IsFiniteSet(With) /\ Cardinality(With) = Cardinality(SUBSET S)
    <2>1. IsFiniteSet(SUBSET S)
      BY FS_SUBSET
    <2>2. ExistsBijection(SUBSET S, With)
      BY <1>3, Zenon DEF ExistsBijection
    <2> QED
      BY <2>1, <2>2, FS_Bijection, Zenon
  <1> HIDE DEF With
  <1>5. Cardinality((SUBSET S) \cup With)
          = Cardinality(SUBSET S) + Cardinality(With) - Cardinality((SUBSET S) \cap With)
    BY <1>4, FS_Union
  <1>6. Cardinality((SUBSET S) \cap With) = 0
    BY <1>2, FS_EmptySet
  <1>7. Cardinality(SUBSET S) \in Nat
    BY <1>4, FS_CardinalityType
  <1>8. Cardinality((SUBSET S) \cup With) = Cardinality(SUBSET S) + Cardinality(SUBSET S)
    BY <1>4, <1>5, <1>6, <1>7
  <1> QED
    BY <1>1, <1>8, Zenon

LEMMA TwoPower ==
  ASSUME NEW n \in Nat
  PROVE  2 ^ n \in Nat \ {0} /\ 2 ^ (n + 1) = 2 * 2 ^ n
  <1>1. ASSUME NEW m \in Nat
        PROVE  IsFiniteSet(1 .. m) /\ Cardinality(1 .. m) = m /\ Cardinality(SUBSET (1 .. m)) = 2 ^ m
               /\ 2 ^ m \in Nat
    <2>1. IsFiniteSet(1 .. m) /\ Cardinality(1 .. m) = m
      BY FS_Interval
    <2>2. IsFiniteSet(SUBSET (1 .. m)) /\ Cardinality(SUBSET (1 .. m)) = 2 ^ m
      BY <2>1, FS_SUBSET
    <2> QED
      BY <2>1, <2>2, FS_CardinalityType
  <1>2. 1 .. n + 1 = (1 .. n) \cup {n + 1} /\ n + 1 \notin 1 .. n
    OBVIOUS
  <1>3. Cardinality(SUBSET (1 .. n + 1)) = Cardinality(SUBSET (1 .. n)) + Cardinality(SUBSET (1 .. n))
    BY <1>1, <1>2, SubsetsDouble
  <1>4. 2 ^ (n + 1) = 2 ^ n + 2 ^ n /\ 2 ^ n \in Nat
    <2>1. Cardinality(SUBSET (1 .. n)) = 2 ^ n /\ 2 ^ n \in Nat
      BY <1>1
    <2>2. n + 1 \in Nat
      OBVIOUS
    <2>3. Cardinality(SUBSET (1 .. n + 1)) = 2 ^ (n + 1)
      BY <1>1, <2>2, Zenon
    <2> QED
      BY <1>3, <2>1, <2>3, Zenon
  <1>5. 2 ^ n # 0
    <2>1. {} \in SUBSET (1 .. n) /\ IsFiniteSet(SUBSET (1 .. n))
      BY <1>1, FS_SUBSET
    <2>2. Cardinality(SUBSET (1 .. n)) # 0
      BY <2>1, FS_EmptySet
    <2> QED
      BY <1>1, <2>2
  <1> QED
    BY <1>4, <1>5

LEMMA PowersGrow ==
  ASSUME NEW j \in Nat, NEW k \in Nat, j <= k
  PROVE  2 ^ j <= 2 ^ k
  <1> DEFINE Bad == {m \in Nat : j <= m /\ ~(2 ^ j <= 2 ^ m)}
  <1>1. CASE Bad = {}
    BY <1>1
  <1>2. CASE Bad # {}
    <2>1. PICK m \in Bad : \A n \in Bad : m <= n
      BY <1>2, LeastNat
    <2>2. m # j /\ m \in Nat /\ j <= m
      BY <2>1, TwoPower
    <2>3. m - 1 \in Nat /\ m - 1 \notin Bad /\ j <= m - 1
      BY <2>1, <2>2
    <2>4. 2 ^ j <= 2 ^ (m - 1)
      BY <2>3
    <2>5. 2 ^ (m - 1) \in Nat /\ 2 ^ ((m - 1) + 1) = 2 * 2 ^ (m - 1) /\ 2 ^ j \in Nat
      BY <2>3, TwoPower
    <2>6. (m - 1) + 1 = m
      BY <2>2
    <2>7. 2 ^ m = 2 * 2 ^ (m - 1)
      BY <2>5, <2>6
    <2>8. ~(2 ^ j <= 2 ^ m)
      BY <2>1
    <2> HIDE DEF Bad
    <2> QED
      BY <2>4, <2>5, <2>7, <2>8
  <1> QED
    BY <1>1, <1>2

LEMMA NumberBelowPower ==
  ASSUME NEW n \in Nat
  PROVE  n < 2 ^ n
  <1> DEFINE Bad == {m \in Nat : ~(m < 2 ^ m)}
  <1>1. CASE Bad = {}
    BY <1>1
  <1>2. CASE Bad # {}
    <2>1. PICK m \in Bad : \A k \in Bad : m <= k
      BY <1>2, LeastNat
    <2>2. 2 ^ 0 = 1 /\ m \in Nat
      BY <2>1
    <2>3. m # 0
      <3>1. 0 < 2 ^ 0 /\ ~(m < 2 ^ m)
        BY <2>1, <2>2
      <3> HIDE DEF Bad
      <3> QED
        BY <3>1
    <2>4. m - 1 \in Nat /\ m - 1 \notin Bad /\ (m - 1) + 1 = m
      BY <2>1, <2>2, <2>3
    <2>5. m - 1 < 2 ^ (m - 1)
      BY <2>4
    <2>6. 2 ^ (m - 1) \in Nat /\ 2 ^ m = 2 * 2 ^ (m - 1)
      BY <2>4, TwoPower
    <2>7. ~(m < 2 ^ m)
      BY <2>1
    <2> HIDE DEF Bad
    <2> QED
      BY <2>2, <2>4, <2>5, <2>6, <2>7
  <1> QED
    BY <1>1, <1>2

LEMMA Quotient ==
  ASSUME NEW a \in Nat, NEW b \in Nat \ {0}
  PROVE  /\ a \div b \in Nat /\ a % b \in 0 .. b - 1
         /\ a = b * (a \div b) + (a % b)
         /\ \A q, r \in Nat : a = b * q + r /\ r < b => q = a \div b /\ r = a % b
  <1>1. a \div b \in Nat /\ a % b \in 0 .. b - 1 /\ a = b * (a \div b) + (a % b)
    OBVIOUS
  <1>2. ASSUME NEW q \in Nat, NEW r \in Nat, NEW p \in Nat, NEW s \in Nat,
               b * q + r = b * p + s, r < b, s < b
        PROVE  q = p /\ r = s
    <2>1. ASSUME NEW u \in Nat, NEW v \in Nat, u < v PROVE b * u + b <= b * v
      <3>1. v - u - 1 \in Nat
        BY <2>1
      <3>2. b * v = b * u + b + b * (v - u - 1)
        BY <2>1
      <3>3. b * (v - u - 1) \in Nat
        BY <3>1
      <3> QED
        BY <3>2, <3>3
    <2>2. ~(q < p)
      BY <1>2, <2>1
    <2>3. ~(p < q)
      BY <1>2, <2>1
    <2>4. q = p
      BY <2>2, <2>3
    <2> QED
      BY <1>2, <2>4
  <1>3. ASSUME NEW q \in Nat, NEW r \in Nat, a = b * q + r /\ r < b
        PROVE  q = a \div b /\ r = a % b
    BY <1>1, <1>2, <1>3
  <1> QED
    BY <1>1, <1>3

LEMMA NextBit ==
  ASSUME NEW a \in Nat, NEW b \in Nat \ {0}
  PROVE  a \div b = 2 * (a \div (2 * b)) + ((a \div b) % 2)
  <1> DEFINE c == 2 * b
             q == a \div c
             r == a % c
             p == a \div b
  <1>1. c \in Nat \ {0}
    OBVIOUS
  <1>2. q \in Nat /\ r \in 0 .. c - 1 /\ a = c * q + r
    BY <1>1, Quotient
  <1>3. p \in Nat
    BY Quotient
  <1>4. p = 2 * q \/ p = 2 * q + 1
    <2> HIDE DEF q, r
    <2>1. CASE r < b
      <3>1. a = b * (2 * q) + r /\ 2 * q \in Nat /\ r \in Nat
        BY <1>2
      <3> QED
        BY <2>1, <3>1, Quotient
    <2>2. CASE b <= r
      <3>1. a = b * (2 * q + 1) + (r - b) /\ 2 * q + 1 \in Nat /\ r - b \in Nat /\ r - b < b
        BY <1>2, <2>2
      <3> QED
        BY <3>1, Quotient
    <2> QED
      BY <1>2, <2>1, <2>2
  <1>5. p = 2 * q + (p % 2)
    <2> HIDE DEF p, q
    <2> QED
      BY <1>2, <1>3, <1>4
  <1> QED
    BY <1>5

-----------------------------------------------------------------------------
LEMMA Sizes ==
  /\ MaxMatch \in Nat /\ MaxMatch >= 3
  /\ EndMark \in Nat /\ EndMark = MaxMatch + 1
  /\ MaxWindow \in Nat /\ MaxWindow >= 1
  <1>1. PICK n \in Nat : n + 1 = LenFlags
    <2>1. LenFlags - 1 \in Nat /\ (LenFlags - 1) + 1 = LenFlags
      BY LzrcConstants
    <2> QED
      BY <2>1
  <1>2. 2 ^ n \in Nat \ {0} /\ 2 ^ (n + 1) = 2 * 2 ^ n /\ 2 ^ ((n + 1) + 1) = 2 * 2 ^ (n + 1)
    BY TwoPower
  <1>3. 2 ^ (LenFlags + 1) = 2 * 2 ^ (n + 1)
    BY <1>1, <1>2
  <1>4. PICK power : power = 2 ^ (LenFlags + 1) /\ power \in Nat /\ power >= 4
    BY <1>2, <1>3
  <1>5. MaxMatch = power - 1
    BY <1>4 DEF MaxMatch
  <1> QED
    BY <1>4, <1>5, LzrcConstants DEF EndMark

LEMMA NoPosition == Nil \in Int /\ First \in Int /\ Nil < 0 /\ First < 0 /\ Nil # First
  BY DEF Nil, First

LEMMA BlockType ==
  ASSUME data \in Blocks, stale \in Bytes
  PROVE  /\ in_len \in Nat
         /\ data \in [0 .. in_len - 1 -> Bytes]
         /\ \A b \in Nat : Text(b) \in Bytes /\ Pair(b) \in Bytes \X Bytes
  <1>1. in_len \in Nat /\ data \in [0 .. in_len - 1 -> Bytes]
    BY LzrcConstants DEF in_len
  <1>2. \A b \in Nat : Text(b) \in Bytes
    BY <1>1 DEF Text
  <1>3. ASSUME NEW b \in Nat PROVE Pair(b) \in Bytes \X Bytes
    <2>1. b + 1 \in Nat
      OBVIOUS
    <2> QED
      BY <1>2, <2>1 DEF Pair
  <1> QED
    BY <1>1, <1>2, <1>3

-----------------------------------------------------------------------------
(***************************************************************************)
(* The lists.  A position behind all others that is linked, and any one    *)
(* that is unlinked, leave chains of the others.                           *)
(***************************************************************************)
(* b, after all of L, linked before q.                                     *)
LinksLast(P, L, M, b, q, pair, rt, pv, nx, rt2, pv2, nx2) ==
  /\ b \in P /\ Nil \notin P /\ pair[b] \in Bytes \X Bytes
  /\ \A c \in L : c \in P /\ c \in Int /\ c < b
  /\ \A c : c \in M <=> c \in L \/ c = b
  /\ Chains(L, pair, rt, pv, nx) /\ q = rt[pair[b]]
  /\ rt2[pair[b]] = b /\ \A t \in Bytes \X Bytes : t # pair[b] => rt2[t] = rt[t]
  /\ nx2[b] = q /\ \A c \in P : c # b => nx2[c] = nx[c]
  /\ pv2[b] = First
  /\ \A c \in P : c # b /\ c = q => pv2[c] = b
  /\ \A c \in P : c # b /\ c # q => pv2[c] = pv[c]

LEMMA LinkLast ==
  ASSUME NEW P, NEW L, NEW M, NEW b \in Int, NEW q, NEW pair, NEW rt, NEW pv, NEW nx,
         NEW rt2, NEW pv2, NEW nx2,
         LinksLast(P, L, M, b, q, pair, rt, pv, nx, rt2, pv2, nx2)
  PROVE  Chains(M, pair, rt2, pv2, nx2)
  <1> USE DEF LinksLast
  <1>0. \A c \in L : c # b
    OBVIOUS
  <1>1. IsLatest(q, Mates(L, pair, pair[b]), Nil)
    BY DEF Chains
  <1>2. ASSUME NEW t \in Bytes \X Bytes PROVE IsLatest(rt2[t], Mates(M, pair, t), Nil)
    <2>1. IsLatest(rt[t], Mates(L, pair, t), Nil)
      BY DEF Chains
    <2>2. CASE t = pair[b]
      <3>1. rt2[t] = b
        BY <2>2
      <3> QED
        BY <2>2, <3>1 DEF IsLatest, Mates
    <2>3. CASE t # pair[b]
      <3>1. rt2[t] = rt[t] /\ Mates(M, pair, t) = Mates(L, pair, t)
        BY <2>3 DEF Mates
      <3> QED
        BY <2>1, <3>1
    <2> QED
      BY <2>2, <2>3
  <1>3. ASSUME NEW x \in M PROVE IsLatest(nx2[x], MatesBefore(M, pair, x), Nil)
    <2>1. CASE x = b
      <3>1. nx2[x] = q
        BY <2>1
      <3>2. MatesBefore(M, pair, x) = Mates(L, pair, pair[b])
        BY <2>1 DEF MatesBefore, Mates
      <3> QED
        BY <1>1, <3>1, <3>2
    <2>2. CASE x # b
      <3>1. x \in L /\ x < b /\ x \in P /\ x \in Int
        BY <2>2
      <3>2. nx2[x] = nx[x]
        BY <2>2, <3>1
      <3>3. MatesBefore(M, pair, x) = MatesBefore(L, pair, x)
        BY <3>1 DEF MatesBefore
      <3>4. IsLatest(nx[x], MatesBefore(L, pair, x), Nil)
        BY <3>1 DEF Chains
      <3> QED
        BY ONLY <1>0, <3>2, <3>3, <3>4 DEF MatesBefore, MatesAfter
    <2> QED
      BY <2>1, <2>2
  <1>4. ASSUME NEW x \in M PROVE IsEarliest(pv2[x], MatesAfter(M, pair, x), First)
    <2>1. CASE x = b
      <3>1. pv2[x] = First
        BY <2>1
      <3>2. MatesAfter(M, pair, x) = {}
        BY <2>1 DEF MatesAfter
      <3> QED
        BY <3>1, <3>2 DEF IsEarliest
    <2>2. CASE x # b
      <3>1. x \in L /\ x < b /\ x \in P /\ x \in Int
        BY <2>2
      <3>2. IsEarliest(pv[x], MatesAfter(L, pair, x), First)
        BY <3>1 DEF Chains
      <3>3. CASE x = q
        <4>1. pair[x] = pair[b] /\ \A c \in L : pair[c] = pair[b] => c <= x
          BY <1>1, <3>1, <3>3 DEF IsLatest, Mates
        <4>2. pv2[x] = b
          BY <2>2, <3>1, <3>3
        <4>3. b \in MatesAfter(M, pair, x) /\ \A c \in MatesAfter(M, pair, x) : c = b
          BY <3>1, <4>1 DEF MatesAfter
        <4>4. b <= b
          OBVIOUS
        <4>5. IsEarliest(b, MatesAfter(M, pair, x), First)
          BY <4>3, <4>4 DEF IsEarliest
        <4> QED
          BY <4>2, <4>5
      <3>4. CASE x # q /\ pair[x] = pair[b]
        <4>0. x \in Mates(L, pair, pair[b])
          BY <3>1, <3>4 DEF Mates
        <4>1. q \in L /\ pair[q] = pair[b] /\ x < q
          <5>1. q \in Mates(L, pair, pair[b]) /\ x <= q
            BY <1>1, <4>0 DEF IsLatest
          <5>2. q \in L /\ pair[q] = pair[b] /\ q \in Int /\ x \in Int
            BY <3>1, <5>1 DEF Mates
          <5> QED
            BY <3>4, <5>1, <5>2
        <4>2. pv2[x] = pv[x]
          BY <2>2, <3>1, <3>4
        <4>3. q \in MatesAfter(L, pair, x)
          BY <3>4, <4>1 DEF MatesAfter
        <4>4. pv[x] \in MatesAfter(L, pair, x) /\ \A c \in MatesAfter(L, pair, x) : pv[x] <= c
          BY <3>2, <4>3 DEF IsEarliest
        <4>5. pv[x] < b
          BY <4>4 DEF MatesAfter
        <4>6. pv[x] \in MatesAfter(M, pair, x)
          BY <4>4 DEF MatesAfter
        <4>7. ASSUME NEW c \in MatesAfter(M, pair, x) PROVE pv[x] <= c
          <5>1. c = b \/ c \in MatesAfter(L, pair, x)
            BY <4>7 DEF MatesAfter
          <5>2. pv[x] \in Int /\ b \in Int
            BY <4>4 DEF MatesAfter
          <5> QED
            BY <4>4, <4>5, <5>1, <5>2
        <4> QED
          BY <4>2, <4>6, <4>7 DEF IsEarliest
      <3>5. CASE x # q /\ pair[x] # pair[b]
        <4>1. pv2[x] = pv[x]
          BY <2>2, <3>1, <3>5
        <4>2. MatesAfter(M, pair, x) = MatesAfter(L, pair, x)
          BY <3>5 DEF MatesAfter
        <4> QED
          BY <3>2, <4>1, <4>2
      <3> QED
        BY <3>3, <3>4, <3>5
    <2> QED
      BY <2>1, <2>2
  <1> QED
    BY <1>2, <1>3, <1>4 DEF Chains

WithoutIt(L, M, b, pair, rt, pv, nx, rt2, pv2, nx2) ==
  /\ \A c : c \in M <=> c \in L /\ c # b
  /\ rt2[pair[b]] = IF pv[b] = First THEN nx[b] ELSE rt[pair[b]]
  /\ \A t \in Bytes \X Bytes : t # pair[b] => rt2[t] = rt[t]
  /\ \A c \in L : c # b => /\ nx2[c] = IF c = pv[b] THEN nx[b] ELSE nx[c]
                          /\ pv2[c] = IF c = nx[b] THEN pv[b] ELSE pv[c]

LEMMA UnlinkOne ==
  ASSUME NEW L, NEW M, NEW b, NEW pair, b \in L, pair[b] \in Bytes \X Bytes,
         Nil \notin L, First \notin L, \A c \in L : c \in Int,
         NEW rt, NEW pv, NEW nx, Chains(L, pair, rt, pv, nx),
         NEW rt2, NEW pv2, NEW nx2, WithoutIt(L, M, b, pair, rt, pv, nx, rt2, pv2, nx2)
  PROVE  Chains(M, pair, rt2, pv2, nx2)
  <1> USE DEF WithoutIt
  <1> DEFINE p == pv[b]
             q == nx[b]
  <1>0. b \in Int /\ \A c \in L : c \in Int
    OBVIOUS
  <1>1. IsLatest(q, MatesBefore(L, pair, b), Nil) /\ IsEarliest(p, MatesAfter(L, pair, b), First)
    BY DEF Chains
  <1>2. ASSUME NEW t \in Bytes \X Bytes PROVE IsLatest(rt2[t], Mates(M, pair, t), Nil)
    <2>1. IsLatest(rt[t], Mates(L, pair, t), Nil)
      BY DEF Chains
    <2>2. CASE t = pair[b] /\ p = First
      <3>1. rt2[t] = q
        BY <2>2
      <3>2. MatesAfter(L, pair, b) = {}
        BY <2>2, <1>1 DEF IsEarliest, MatesAfter
      <3>3. Mates(M, pair, t) = MatesBefore(L, pair, b)
        <4>1. \A c \in L : pair[c] = pair[b] => ~(c > b)
          BY <3>2 DEF MatesAfter
        <4>2. \A c \in L : c \in Int
          OBVIOUS
        <4>3. \A c \in L : (c # b /\ pair[c] = pair[b]) <=> (pair[c] = pair[b] /\ c < b)
          BY <4>1, <4>2
        <4>4. ASSUME NEW c PROVE c \in Mates(M, pair, t) <=> c \in MatesBefore(L, pair, b)
          BY <2>2, <4>3 DEF Mates, MatesBefore
        <4> QED
          BY <4>4
      <3> QED
        BY <1>1, <3>1, <3>3
    <2>3. CASE t # pair[b]
      <3>1. rt2[t] = rt[t] /\ Mates(M, pair, t) = Mates(L, pair, t)
        BY <2>3 DEF Mates
      <3> QED
        BY <2>1, <3>1
    <2>4. CASE t = pair[b] /\ p # First
      <3>1. rt2[t] = rt[t]
        BY <2>4
      <3>2. p \in L /\ pair[p] = t /\ p > b
        BY <1>1, <2>4 DEF IsEarliest, MatesAfter
      <3>3. rt[t] \in L /\ pair[rt[t]] = t /\ \A c \in L : pair[c] = t => c <= rt[t]
        BY <2>1, <3>2 DEF IsLatest, Mates
      <3>4. rt[t] # b
        BY ONLY <1>0, <3>2, <3>3
      <3> QED
        BY <3>1, <3>3, <3>4 DEF IsLatest, Mates
    <2> QED
      BY <2>2, <2>3, <2>4
  <1>3. ASSUME NEW x \in M PROVE IsLatest(nx2[x], MatesBefore(M, pair, x), Nil)
    <2>0. x \in L /\ x # b /\ x \in Int
      OBVIOUS
    <2>1. IsLatest(nx[x], MatesBefore(L, pair, x), Nil)
      BY <2>0 DEF Chains
    <2>2. CASE x = p
      <3>1. nx2[x] = q
        BY <2>0, <2>2
      <3>2. pair[x] = pair[b] /\ x > b /\ \A c \in L : pair[c] = pair[b] /\ c > b => x <= c
        BY <1>1, <2>0, <2>2 DEF IsEarliest, MatesAfter
      <3>3. MatesBefore(M, pair, x) = MatesBefore(L, pair, b)
        <4>0. ASSUME NEW c \in L, pair[c] = pair[b] PROVE c # b /\ c < x <=> c < b
          <5>1. c \in Int /\ (c > b => x <= c)
            BY <3>2, <4>0
          <5> QED
            BY <5>1, <3>2, <2>0
        <4>1. ASSUME NEW c PROVE c \in MatesBefore(M, pair, x) <=> c \in MatesBefore(L, pair, b)
          BY <3>2, <4>0 DEF MatesBefore
        <4> QED
          BY <4>1
      <3> QED
        BY <1>1, <3>1, <3>3
    <2>3. CASE x # p /\ pair[x] = pair[b] /\ x > b
      <3>1. nx2[x] = nx[x]
        BY <2>0, <2>3
      <3>2. p \in L /\ pair[p] = pair[b] /\ p > b /\ p < x
        <4>1. x \in MatesAfter(L, pair, b)
          BY <2>0, <2>3 DEF MatesAfter
        <4>2. p \in MatesAfter(L, pair, b) /\ p <= x
          BY <1>1, <4>1 DEF IsEarliest
        <4>3. p \in L /\ pair[p] = pair[b] /\ p > b /\ p \in Int
          BY <4>2 DEF MatesAfter
        <4> QED
          BY <2>0, <2>3, <4>2, <4>3
      <3>3. p \in MatesBefore(L, pair, x)
        BY <3>2, <2>3 DEF MatesBefore
      <3>4. nx[x] \in MatesBefore(L, pair, x) /\ \A c \in MatesBefore(L, pair, x) : c <= nx[x]
        BY <2>1, <3>3 DEF IsLatest
      <3>5. nx[x] # b
        BY ONLY <1>0, <3>2, <3>3, <3>4 DEF MatesBefore, MatesAfter
      <3>6. nx[x] \in MatesBefore(M, pair, x) /\ \A c \in MatesBefore(M, pair, x) : c <= nx[x]
        BY <3>4, <3>5 DEF MatesBefore
      <3> QED
        BY <3>1, <3>6 DEF IsLatest
    <2>4. CASE x # p /\ (pair[x] # pair[b] \/ x < b)
      <3>1. nx2[x] = nx[x]
        BY <2>0, <2>4
      <3>2. MatesBefore(M, pair, x) = MatesBefore(L, pair, x)
        BY <2>4, <2>0 DEF MatesBefore
      <3> QED
        BY <2>1, <3>1, <3>2
    <2>5. x < b \/ x > b
      BY ONLY <1>0, <2>0
    <2> QED
      BY ONLY <2>2, <2>3, <2>4, <2>5
  <1>4. ASSUME NEW x \in M PROVE IsEarliest(pv2[x], MatesAfter(M, pair, x), First)
    <2>0. x \in L /\ x # b /\ x \in Int
      OBVIOUS
    <2>1. IsEarliest(pv[x], MatesAfter(L, pair, x), First)
      BY <2>0 DEF Chains
    <2>2. CASE x = q
      <3>1. pv2[x] = p
        BY <2>0, <2>2
      <3>2. pair[x] = pair[b] /\ x < b /\ \A c \in L : pair[c] = pair[b] /\ c < b => c <= x
        BY <1>1, <2>0, <2>2 DEF IsLatest, MatesBefore
      <3>3. MatesAfter(M, pair, x) = MatesAfter(L, pair, b)
        <4>0. ASSUME NEW c \in L, pair[c] = pair[b] PROVE c # b /\ c > x <=> c > b
          <5>1. c \in Int /\ (c < b => c <= x)
            BY <3>2, <4>0
          <5> QED
            BY <5>1, <3>2, <2>0
        <4>1. ASSUME NEW c PROVE c \in MatesAfter(M, pair, x) <=> c \in MatesAfter(L, pair, b)
          BY <3>2, <4>0 DEF MatesAfter
        <4> QED
          BY <4>1
      <3> QED
        BY <1>1, <3>1, <3>3
    <2>3. CASE x # q /\ pair[x] = pair[b] /\ x < b
      <3>1. pv2[x] = pv[x]
        BY <2>0, <2>3
      <3>2. q \in L /\ pair[q] = pair[b] /\ q < b /\ x < q
        <4>1. x \in MatesBefore(L, pair, b)
          BY <2>0, <2>3 DEF MatesBefore
        <4>2. q \in MatesBefore(L, pair, b) /\ x <= q
          BY <1>1, <4>1 DEF IsLatest
        <4>3. q \in L /\ pair[q] = pair[b] /\ q < b /\ q \in Int
          BY <4>2 DEF MatesBefore
        <4> QED
          BY <2>0, <2>3, <4>2, <4>3
      <3>3. q \in MatesAfter(L, pair, x)
        BY <3>2, <2>3 DEF MatesAfter
      <3>4. pv[x] \in MatesAfter(L, pair, x) /\ \A c \in MatesAfter(L, pair, x) : pv[x] <= c
        BY <2>1, <3>3 DEF IsEarliest
      <3>5. pv[x] # b
        BY ONLY <1>0, <3>2, <3>3, <3>4 DEF MatesBefore, MatesAfter
      <3>6. pv[x] \in MatesAfter(M, pair, x) /\ \A c \in MatesAfter(M, pair, x) : pv[x] <= c
        BY <3>4, <3>5 DEF MatesAfter
      <3> QED
        BY <3>1, <3>6 DEF IsEarliest
    <2>4. CASE x # q /\ (pair[x] # pair[b] \/ x > b)
      <3>1. pv2[x] = pv[x]
        BY <2>0, <2>4
      <3>2. MatesAfter(M, pair, x) = MatesAfter(L, pair, x)
        BY <2>4, <2>0 DEF MatesAfter
      <3> QED
        BY <2>1, <3>1, <3>2
    <2>5. x < b \/ x > b
      BY ONLY <1>0, <2>0
    <2> QED
      BY ONLY <2>2, <2>3, <2>4, <2>5
  <1> QED
    BY <1>2, <1>3, <1>4 DEF Chains

-----------------------------------------------------------------------------
(***************************************************************************)
(* insert_node and remove_node do just that to the lists.                  *)
(***************************************************************************)
LEMMA PlaceFacts ==
  ASSUME data \in Blocks, stale \in Bytes
  PROVE  /\ in_len \in Nat /\ Places = 0 .. in_len
         /\ Nil \notin Places /\ First \notin Places /\ First # Nil
         /\ \A b \in Places : b \in Int /\ Pairs[b] = Pair(b) /\ Pair(b) \in Bytes \X Bytes
         /\ Linked \subseteq Places
  <1>1. in_len \in Nat /\ \A b \in Nat : Pair(b) \in Bytes \X Bytes
    BY BlockType
  <1>2. Places = 0 .. in_len
    BY DEF Places
  <1>3. \A b \in Places : b \in Nat
    BY <1>1, <1>2
  <1>4. Nil \notin Places /\ First \notin Places /\ First # Nil
    BY <1>3, NoPosition
  <1> QED
    BY <1>1, <1>2, <1>3, <1>4 DEF Pairs, Linked

LEMMA LinkKeeps ==
  ASSUME data \in Blocks, stale \in Bytes, ListTypes, Chained,
         NEW b \in Places, \A c \in Linked : c < b, Link(b), UNCHANGED <<data, stale>>
  PROVE  ListTypes' /\ Chained' /\ Linked' = Linked \cup {b}
  <1>1. /\ Nil \notin Places /\ First \notin Places /\ First # Nil
        /\ \A c \in Places : c \in Int /\ Pairs[c] = Pair(c) /\ Pair(c) \in Bytes \X Bytes
        /\ Linked \subseteq Places
    BY PlaceFacts
  <1>2. Places' = Places /\ Pairs' = Pairs
    BY DEF Places, in_len, Pairs, Pair, Text
  <1>3. PICK q : q = root[Pair(b)]
    OBVIOUS
  <1>4. q \in Places \cup {Nil}
    BY <1>1, <1>3 DEF ListTypes
  <1>5. /\ root' = [root EXCEPT ![Pair(b)] = b] /\ next' = [next EXCEPT ![b] = q]
        /\ prev' = [c \in Places |-> IF c = b THEN First ELSE IF c = q THEN b ELSE prev[c]]
    BY <1>3 DEF Link
  <1>6. ListTypes'
    BY <1>1, <1>2, <1>4, <1>5 DEF ListTypes
  <1>7. IsLatest(q, Mates(Linked, Pairs, Pair(b)), Nil)
    BY <1>1, <1>3 DEF Chained, Chains
  <1>8. q = Nil \/ q \in Linked
    BY <1>7 DEF IsLatest, Mates
  <1>9. ASSUME NEW c PROVE c \in Linked' <=> c \in Linked \/ c = b
    <2>1. c \in Linked' <=> c \in Places /\ prev'[c] # Nil
      BY <1>2 DEF Linked
    <2>2. c \in Linked <=> c \in Places /\ prev[c] # Nil
      BY DEF Linked
    <2>3. b # Nil
      BY <1>1
    <2> QED
      BY <1>1, <1>5, <1>8, <2>1, <2>2, <2>3
  <1>10. Chains(Linked', Pairs, root', prev', next')
    <2> DEFINE rt == root' pv == prev' nx == next' M == Linked' pair == Pairs
    <2>1. /\ Chains(Linked, pair, root, prev, next) /\ q = root[pair[b]]
          /\ pair[b] \in Bytes \X Bytes /\ b \in Int
      BY <1>1, <1>3 DEF Chained
    <2>2. \A c \in Linked : c \in Places /\ c \in Int /\ c < b
      BY <1>1
    <2>3. /\ rt[pair[b]] = b /\ \A t \in Bytes \X Bytes : t # pair[b] => rt[t] = root[t]
          /\ nx[b] = q /\ \A c \in Places : c # b => nx[c] = next[c]
      BY <1>1, <1>5 DEF ListTypes
    <2>4. /\ pv[b] = First
          /\ \A c \in Places : c # b /\ c = q => pv[c] = b
          /\ \A c \in Places : c # b /\ c # q => pv[c] = prev[c]
      BY <1>5
    <2>5. \A c : c \in M <=> c \in Linked \/ c = b
      BY <1>9
    <2> HIDE DEF rt, pv, nx, M, pair
    <2>6. LinksLast(Places, Linked, M, b, q, pair, root, prev, next, rt, pv, nx)
      BY <1>1, <2>1, <2>2, <2>3, <2>4, <2>5 DEF LinksLast
    <2>7. Chains(M, pair, rt, pv, nx)
      BY <2>1, <2>6, LinkLast
    <2> QED
      BY <2>7 DEF rt, pv, nx, M, pair
  <1> QED
    BY <1>2, <1>6, <1>9, <1>10 DEF Chained

LEMMA UnlinkKeeps ==
  ASSUME data \in Blocks, stale \in Bytes, ListTypes, Chained,
         NEW b \in Places, Unlink(b), UNCHANGED <<data, stale>>
  PROVE  ListTypes' /\ Chained' /\ Linked' = Linked \ {b}
  <1>1. /\ Nil \notin Places /\ First \notin Places /\ First # Nil
        /\ \A c \in Places : c \in Int /\ Pairs[c] = Pair(c) /\ Pair(c) \in Bytes \X Bytes
        /\ Linked \subseteq Places
    BY PlaceFacts
  <1>2. Places' = Places /\ Pairs' = Pairs
    BY DEF Places, in_len, Pairs, Pair, Text
  <1>3. CASE prev[b] = Nil
    <2>1. UNCHANGED <<root, prev, next>>
      BY <1>3 DEF Unlink, listVars
    <2>2. Linked' = Linked /\ b \notin Linked
      BY <1>2, <1>3, <2>1 DEF Linked
    <2> QED
      BY <1>2, <2>1, <2>2 DEF ListTypes, Chained
  <1>4. CASE prev[b] # Nil
    <2>0. b \in Linked
      BY <1>4 DEF Linked
    <2>1. PICK q : q = next[b]
      OBVIOUS
    <2>2. PICK p : p = prev[b]
      OBVIOUS
    <2>3. /\ prev' = [c \in Places |-> IF c = b THEN Nil ELSE IF c = q THEN p ELSE prev[c]]
          /\ root' = IF p = First THEN [root EXCEPT ![Pair(b)] = q] ELSE root
          /\ next' = [c \in Places |-> IF c = b THEN Nil ELSE IF c = p THEN q ELSE next[c]]
      BY <1>4, <2>1, <2>2 DEF Unlink
    <2>4. q \in Places \cup {Nil} /\ p \in Places \cup {First}
      BY <1>4, <2>1, <2>2 DEF ListTypes
    <2>5. ListTypes'
      BY <1>1, <1>2, <2>3, <2>4 DEF ListTypes
    <2>6. IsLatest(q, MatesBefore(Linked, Pairs, b), Nil)
      BY <2>0, <2>1 DEF Chained, Chains
    <2>7. q = Nil \/ q \in Linked
      BY <2>6 DEF IsLatest, MatesBefore
    <2>8. ASSUME NEW c PROVE c \in Linked' <=> c \in Linked /\ c # b
      <3>1. c \in Linked' <=> c \in Places /\ prev'[c] # Nil
        BY <1>2 DEF Linked
      <3>2. c \in Linked <=> c \in Places /\ prev[c] # Nil
        BY DEF Linked
      <3>3. p # Nil
        BY <1>4, <2>2
      <3> QED
        BY <1>1, <2>3, <2>7, <3>1, <3>2, <3>3
    <2>9. Chains(Linked', Pairs, root', prev', next')
      <3> DEFINE rt == root' pv == prev' nx == next' M == Linked' pair == Pairs
      <3>1. /\ Chains(Linked, pair, root, prev, next)
            /\ pair[b] \in Bytes \X Bytes /\ b \in Linked
        BY <1>1, <2>0 DEF Chained
      <3>2. Nil \notin Linked /\ First \notin Linked /\ \A c \in Linked : c \in Int
        BY <1>1
      <3>3. /\ rt[pair[b]] = IF prev[b] = First THEN next[b] ELSE root[pair[b]]
            /\ \A t \in Bytes \X Bytes : t # pair[b] => rt[t] = root[t]
        BY <1>1, <2>1, <2>2, <2>3 DEF ListTypes
      <3>4. /\ \A c \in Linked : c # b => nx[c] = IF c = prev[b] THEN next[b] ELSE next[c]
            /\ \A c \in Linked : c # b => pv[c] = IF c = next[b] THEN prev[b] ELSE prev[c]
        BY <1>1, <2>1, <2>2, <2>3
      <3>5. \A c : c \in M <=> c \in Linked /\ c # b
        BY <2>8
      <3> HIDE DEF rt, pv, nx, M, pair
      <3>6. WithoutIt(Linked, M, b, pair, root, prev, next, rt, pv, nx)
        BY <3>3, <3>4, <3>5 DEF WithoutIt
      <3>7. Chains(M, pair, rt, pv, nx)
        BY ONLY <3>1, <3>2, <3>6, UnlinkOne
      <3> QED
        BY <3>7 DEF rt, pv, nx, M, pair
    <2> QED
      BY <1>2, <2>5, <2>8, <2>9 DEF Chained
  <1> QED
    BY <1>3, <1>4

-----------------------------------------------------------------------------
(***************************************************************************)
(* The bytes that are the same.                                            *)
(***************************************************************************)
(* l places without a difference of D, and then one or the end.            *)
Fits(l, most, D) == l \in 0 .. most /\ (\A k \in 0 .. l - 1 : k \notin D) /\ (l < most => l \in D)

LEMMA FitExists ==
  ASSUME NEW most \in Nat, NEW D
  PROVE  \E l \in 0 .. most : Fits(l, most, D)
  <1> DEFINE T == {l \in 0 .. most : l = most \/ l \in D}
  <1>1. T \subseteq Nat /\ most \in T
    OBVIOUS
  <1>2. PICK l \in T : \A y \in T : l <= y
    <2> HIDE DEF T
    <2> QED
      BY <1>1, LeastNat
  <1>3. l \in 0 .. most /\ (l < most => l \in D)
    BY <1>2
  <1>4. ASSUME NEW k \in 0 .. l - 1 PROVE k \notin D
    <2>1. k \in 0 .. most /\ ~(l <= k)
      BY <1>3
    <2> QED
      BY <1>2, <2>1
  <1> QED
    BY <1>3, <1>4 DEF Fits

LEMMA FitUnique ==
  ASSUME NEW most \in Nat, NEW D, NEW l, NEW m, Fits(l, most, D), Fits(m, most, D)
  PROVE  l = m
  <1>1. /\ l \in 0 .. most /\ m \in 0 .. most
        /\ \A k \in 0 .. l - 1 : k \notin D
        /\ \A k \in 0 .. m - 1 : k \notin D
        /\ l < most => l \in D
        /\ m < most => m \in D
    BY DEF Fits
  <1>2. ~(l < m)
    <2> SUFFICES ASSUME l < m PROVE FALSE
      OBVIOUS
    <2>1. l \in 0 .. m - 1 /\ l < most
      BY <1>1
    <2> QED
      BY <1>1, <2>1
  <1>3. ~(m < l)
    <2> SUFFICES ASSUME m < l PROVE FALSE
      OBVIOUS
    <2>1. m \in 0 .. l - 1 /\ m < most
      BY <1>1
    <2> QED
      BY <1>1, <2>1
  <1> QED
    BY <1>1, <1>2, <1>3

(* Where the texts at p and b differ.                                      *)
Differs(p, b) == {k \in Nat : Text(b + k) # Text(p + k)}
Most == Lesser(MaxMatch, content_size)

LEMMA MostIsNat ==
  ASSUME in_len \in Nat, t_end \in 0 .. in_len
  PROVE  /\ content_size \in Nat /\ Most \in Nat /\ Most <= MaxMatch /\ Most <= content_size
         /\ Most = MaxMatch \/ Most = content_size
  <1>1. content_size \in Nat
    BY DEF content_size
  <1> QED
    BY <1>1, Sizes DEF Most, Lesser

LEMMA SameFits ==
  ASSUME in_len \in Nat, t_end \in 0 .. in_len, NEW p, NEW b
  PROVE  Fits(Same(p, b), Most, Differs(p, b))
  <1> DEFINE F(l) == /\ \A k \in 0 .. l - 1 : Text(b + k) = Text(p + k)
                     /\ l < Most => Text(b + l) # Text(p + l)
  <1>1. Most \in Nat
    BY MostIsNat
  <1>2. Same(p, b) = CHOOSE l \in 0 .. Most : F(l)
    BY DEF Same, Most
  <1> HIDE DEF Most
  <1>3. ASSUME NEW l \in 0 .. Most PROVE F(l) <=> Fits(l, Most, Differs(p, b))
    <2>1. l \in Nat /\ \A k \in 0 .. l - 1 : k \in Nat
      BY <1>1
    <2>2. \A k \in Nat : k \in Differs(p, b) <=> Text(b + k) # Text(p + k)
      BY DEF Differs
    <2> QED
      BY <2>1, <2>2 DEF Fits
  <1>4. PICK l \in 0 .. Most : Fits(l, Most, Differs(p, b))
    BY <1>1, FitExists
  <1>5. F(l)
    BY <1>3, <1>4
  <1>6. Same(p, b) \in 0 .. Most /\ F(Same(p, b))
    <2> HIDE DEF F
    <2> QED
      BY <1>2, <1>5
  <1> QED
    BY <1>3, <1>6

(***************************************************************************)
(* Positions alike for a longest match are alike to any other.             *)
(***************************************************************************)
LEMMA LikeSame ==
  ASSUME in_len \in Nat, t_end \in 0 .. in_len, NEW b, NEW c, NEW e, Likeness(b, c)
  PROVE  Same(b, e) = Same(c, e)
  <1>1. Most \in Nat /\ Most <= MaxMatch /\ MaxMatch \in Nat
    BY MostIsNat, Sizes
  <1>2. Fits(Same(b, e), Most, Differs(b, e)) /\ Fits(Same(c, e), Most, Differs(c, e))
    BY SameFits
  <1> HIDE DEF Most
  <1>3. ASSUME NEW k \in Nat, k < Most PROVE k \in Differs(b, e) <=> k \in Differs(c, e)
    <2>1. k \in 0 .. MaxMatch - 1
      BY <1>1, <1>3
    <2>2. Text(b + k) = Text(c + k)
      BY <2>1 DEF Likeness
    <2> QED
      BY <2>2 DEF Differs
  <1>4. Fits(Same(b, e), Most, Differs(c, e))
    <2>1. \A k \in 0 .. Same(b, e) - 1 : k \in Nat /\ k < Most
      BY <1>1, <1>2 DEF Fits
    <2>2. Same(b, e) \in Nat
      BY <1>1, <1>2 DEF Fits
    <2> QED
      BY <1>2, <1>3, <2>1, <2>2 DEF Fits
  <1> QED
    BY <1>1, <1>2, <1>4, FitUnique

LEMMA PairSame ==
  ASSUME in_len \in Nat, t_end \in 0 .. in_len, Most >= 2, NEW p \in Nat, NEW e \in Nat
  PROVE  /\ Same(p, e) \in 0 .. Most
         /\ Pair(p) = Pair(e) => Same(p, e) >= 2
         /\ Pair(p) # Pair(e) => Same(p, e) <= 1
  <1> DEFINE l == Same(p, e)
  <1>1. Most \in Nat
    BY MostIsNat
  <1>2. Fits(l, Most, Differs(p, e))
    BY SameFits
  <1> HIDE DEF l, Most
  <1>3. l \in 0 .. Most /\ (\A k \in 0 .. l - 1 : k \notin Differs(p, e)) /\ (l < Most => l \in Differs(p, e))
    BY <1>2 DEF Fits
  <1>4. Pair(p) = Pair(e) <=> Text(p) = Text(e) /\ Text(p + 1) = Text(e + 1)
    BY DEF Pair
  <1>5. /\ 0 \in Differs(p, e) <=> Text(e) # Text(p)
        /\ 1 \in Differs(p, e) <=> Text(e + 1) # Text(p + 1)
    <2>1. e + 0 = e /\ p + 0 = p
      OBVIOUS
    <2> QED
      BY <2>1 DEF Differs
  <1>6. ASSUME Pair(p) = Pair(e) PROVE l >= 2
    <2>1. 0 \notin Differs(p, e) /\ 1 \notin Differs(p, e)
      BY <1>4, <1>5, <1>6
    <2>2. l # 0 /\ l # 1
      BY <1>1, <1>3, <2>1
    <2> QED
      BY <1>1, <1>3, <2>2
  <1>7. ASSUME l >= 2 PROVE Pair(p) = Pair(e)
    <2>1. 0 \in 0 .. l - 1 /\ 1 \in 0 .. l - 1
      BY <1>1, <1>3, <1>7
    <2> QED
      BY <1>3, <1>4, <1>5, <2>1
  <1>8. Pair(p) # Pair(e) => l <= 1
    BY <1>1, <1>3, <1>7
  <1> QED
    BY <1>3, <1>6, <1>8 DEF l

(* The whole block compared, as re_find_match does.                        *)
LEMMA AlikeSame ==
  ASSUME in_len \in Nat, in_ptr \in 0 .. in_len, NEW d \in 1 .. in_ptr,
         t_end = in_ptr
  PROVE  Alike(d) = Same(in_ptr - d, in_ptr)
  <1> DEFINE l == Same(in_ptr - d, in_ptr)
             m == Alike(d)
             F(x) == /\ \A k \in 0 .. x - 1 : data[in_ptr + k] = data[in_ptr + k - d]
                     /\ x = Most \/ data[in_ptr + x] # data[in_ptr + x - d]
  <1>1. Most \in Nat /\ Most <= in_len - in_ptr
    BY MostIsNat DEF content_size
  <1>2. Fits(l, Most, Differs(in_ptr - d, in_ptr))
    BY SameFits
  <1>3. m = CHOOSE x \in 0 .. Most : F(x)
    BY DEF Alike, Most, content_size
  <1> HIDE DEF l, m, Most
  <1>4. ASSUME NEW k \in Nat, k < Most
        PROVE  k \in Differs(in_ptr - d, in_ptr) <=> data[in_ptr + k] # data[in_ptr + k - d]
    <2>1. in_ptr + k < in_len /\ in_ptr - d + k < in_len /\ in_ptr - d + k = in_ptr + k - d
      BY <1>1, <1>4
    <2>2. Text(in_ptr + k) = data[in_ptr + k] /\ Text(in_ptr - d + k) = data[in_ptr + k - d]
      BY <2>1 DEF Text
    <2> QED
      BY <2>2 DEF Differs
  <1>5. ASSUME NEW x \in 0 .. Most
        PROVE  F(x) <=> Fits(x, Most, Differs(in_ptr - d, in_ptr))
    <2>1. x \in Nat /\ (x = Most <=> ~(x < Most)) /\ \A k \in 0 .. x - 1 : k \in Nat /\ k < Most
      BY <1>1
    <2>2. (\A k \in 0 .. x - 1 : data[in_ptr + k] = data[in_ptr + k - d])
            <=> (\A k \in 0 .. x - 1 : k \notin Differs(in_ptr - d, in_ptr))
      BY <1>4, <2>1
    <2>3. (x = Most \/ data[in_ptr + x] # data[in_ptr + x - d])
            <=> (x < Most => x \in Differs(in_ptr - d, in_ptr))
      BY <1>4, <2>1
    <2> QED
      BY <2>2, <2>3 DEF Fits
  <1>6. l \in 0 .. Most
    BY <1>2 DEF Fits
  <1>7. F(l)
    BY <1>2, <1>5, <1>6
  <1>8. m \in 0 .. Most /\ F(m)
    <2> HIDE DEF F
    <2> QED
      BY <1>3, <1>6, <1>7
  <1>9. Fits(m, Most, Differs(in_ptr - d, in_ptr))
    BY <1>5, <1>8
  <1>10. m = l
    BY <1>1, <1>2, <1>9, FitUnique
  <1> QED
    BY <1>10 DEF m, l

-----------------------------------------------------------------------------
(***************************************************************************)
(* The steps.                                                              *)
(***************************************************************************)
LEMMA SameBlock ==
  ASSUME UNCHANGED <<data, stale>>
  PROVE  /\ in_len' = in_len /\ Places' = Places /\ Pairs' = Pairs
         /\ \A b : Text(b)' = Text(b) /\ Pair(b)' = Pair(b)
         /\ \A b, c : Likeness(b, c)' <=> Likeness(b, c)
  BY DEF in_len, Places, Pairs, Pair, Text, Likeness

LEMMA LesserFacts ==
  ASSUME NEW a \in Int, NEW b \in Int
  PROVE  /\ Lesser(a, b) \in Int /\ Lesser(a, b) <= a /\ Lesser(a, b) <= b
         /\ Lesser(a, b) = a \/ Lesser(a, b) = b
  BY DEF Lesser

LEMMA InWindow ==
  ASSUME InBlock, WindowInvariant, ListsInvariant
  PROVE  /\ in_len \in Nat /\ Places = 0 .. in_len
         /\ t_start \in Nat /\ t_end \in Nat /\ t_end \in Places /\ t_start <= t_end /\ t_end <= in_len
         /\ in_ptr \in Nat /\ in_ptr <= in_len
         /\ Linked \subseteq Places
         /\ \A c \in Linked : c \in Nat /\ t_start <= c /\ c <= t_end
  <1>1. in_len \in Nat /\ Places = 0 .. in_len /\ Linked \subseteq Places
    BY PlaceFacts DEF InBlock
  <1>2. t_start \in Nat /\ t_end \in Nat /\ t_start <= t_end /\ t_end <= in_len
    BY <1>1 DEF WindowInvariant
  <1>3. in_ptr \in Nat /\ in_ptr <= in_len
    BY <1>1 DEF InBlock
  <1>4. \A c \in Linked : c \in Nat /\ t_start <= c /\ c <= t_end
    BY <1>2 DEF ListsInvariant
  <1> QED
    BY <1>1, <1>2, <1>3, <1>4

LEMMA InsertNodeKeeps ==
  ASSUME InBlock, WindowInvariant, ListsInvariant, InsertNode
  PROVE  /\ InBlock' /\ WindowInvariant' /\ ListsInvariant'
         /\ Linked' = Linked \cup {t_end} /\ t_end \notin Linked
  <1>1. /\ in_len \in Nat /\ Places = 0 .. in_len
        /\ t_start \in Nat /\ t_end \in Nat /\ t_end \in Places /\ t_start <= t_end
        /\ in_ptr \in Nat /\ in_ptr <= in_len
        /\ Linked \subseteq Places
        /\ \A c \in Linked : c \in Nat /\ t_start <= c /\ c <= t_end
    BY InWindow
  <1>2. /\ phase = "insert" /\ in_ptr < in_len - 1 /\ Link(t_end) /\ t_len' = 1 /\ t_pos' = 0
        /\ node' = root[Pair(t_end)] /\ phase' = "compare"
        /\ UNCHANGED <<data, stale, t_start, t_end, slid, in_ptr>>
    BY DEF InsertNode, Keep, windowVars, coderVars
  <1>3. t_end \notin Linked /\ t_end = in_ptr /\ slid = 0
    BY <1>2 DEF ListsInvariant, WindowInvariant
  <1>4. \A c \in Linked : c < t_end
    BY <1>1, <1>3
  <1>5. PICK e \in Places : e = t_end
    BY <1>1
  <1>6. ListTypes' /\ Chained' /\ Linked' = Linked \cup {e}
    <2>1. /\ data \in Blocks /\ stale \in Bytes /\ ListTypes /\ Chained
          /\ \A c \in Linked : c < e
          /\ Link(e) /\ UNCHANGED <<data, stale>>
      BY <1>2, <1>4, <1>5 DEF InBlock, ListsInvariant
    <2> QED
      BY <2>1, LinkKeeps
  <1>7. in_len' = in_len /\ Places' = Places /\ \A b, c : Likeness(b, c)' <=> Likeness(b, c)
    BY <1>2, SameBlock
  <1>8. node' \in Places \cup {Nil}
    <2>1. Pair(t_end) \in Bytes \X Bytes
      BY <1>1, PlaceFacts DEF InBlock
    <2> QED
      BY <1>2, <2>1 DEF InBlock, ListTypes
  <1>9. InBlock'
    BY <1>1, <1>2, <1>6, <1>7, <1>8, Sizes DEF InBlock
  <1>10. WindowInvariant'
    <2>1. 1 \in 1 .. Lesser(MaxMatch, in_len - in_ptr)
      BY <1>1, <1>2, Sizes DEF Lesser
    <2>2. t_start = 0 \/ win_size = MaxWindow
      BY <1>2 DEF WindowInvariant
    <2>3. win_size' = win_size
      BY <1>2 DEF win_size
    <2>4. (Lesser(MaxMatch, in_len - in_ptr))' = Lesser(MaxMatch, in_len - in_ptr)
      BY <1>2, <1>7 DEF Lesser, MaxMatch
    <2> QED
      BY <1>1, <1>2, <1>3, <1>7, <2>1, <2>2, <2>3, <2>4 DEF WindowInvariant
  <1>11. \A b \in t_start .. t_end - 1 : Kept(b)'
    <2> TAKE b \in t_start .. t_end - 1
    <2>1. Kept(b)
      BY DEF ListsInvariant
    <2> QED
      BY <1>6, <1>7, <2>1 DEF Kept
  <1>12. ListsInvariant'
    <2>1. Linked' \subseteq t_start .. t_end
      BY <1>1, <1>5, <1>6
    <2> QED
      BY <1>2, <1>5, <1>6, <1>11, <2>1 DEF ListsInvariant
  <1> QED
    BY <1>3, <1>5, <1>6, <1>9, <1>10, <1>12

(***************************************************************************)
(* A node that has the longest match is like the position it is compared   *)
(* with, which stands for it from then on.                                 *)
(***************************************************************************)
LEMMA WholeMatchIsLike ==
  ASSUME in_len \in Nat, t_end \in 0 .. in_len, NEW p, Same(p, t_end) = MaxMatch
  PROVE  Likeness(p, t_end)
  <1>1. Most \in Nat /\ MaxMatch \in Nat
    BY MostIsNat, Sizes
  <1>2. Fits(MaxMatch, Most, Differs(p, t_end))
    BY SameFits
  <1>3. ASSUME NEW k \in 0 .. MaxMatch - 1 PROVE Text(p + k) = Text(t_end + k)
    <2>1. k \notin Differs(p, t_end) /\ k \in Nat
      BY <1>1, <1>2, <1>3 DEF Fits
    <2> QED
      BY <2>1 DEF Differs
  <1> QED
    BY <1>3 DEF Likeness

LEMMA LikeIsTransitive ==
  ASSUME NEW a, NEW b, NEW c, Likeness(a, b), Likeness(b, c)
  PROVE  Likeness(a, c)
  BY DEF Likeness

LEMMA CompareKeeps ==
  ASSUME InBlock, WindowInvariant, ListsInvariant, SearchInvariant, Compare
  PROVE  /\ InBlock' /\ WindowInvariant' /\ ListsInvariant'
         /\ Linked' = IF Same(node, t_end) = MaxMatch THEN Linked \ {node} ELSE Linked
  <1>1. /\ in_len \in Nat /\ Places = 0 .. in_len
        /\ t_start \in Nat /\ t_end \in Nat /\ t_end \in Places /\ t_start <= t_end /\ t_end <= in_len
        /\ in_ptr \in Nat /\ in_ptr <= in_len
        /\ Linked \subseteq Places
        /\ \A c \in Linked : c \in Nat /\ t_start <= c /\ c <= t_end
    BY InWindow
  <1>2. /\ phase = "compare" /\ node # Nil
        /\ UNCHANGED <<data, stale, phase, t_start, t_end, slid, in_ptr>>
    BY DEF Compare, windowVars, coderVars
  <1>3. /\ t_end = in_ptr /\ in_ptr < in_len - 1 /\ slid = 0
        /\ t_len \in 1 .. Lesser(MaxMatch, in_len - in_ptr)
        /\ t_end \in Linked
    BY <1>2 DEF WindowInvariant, ListsInvariant
  <1>4. node \in Linked /\ node < t_end
    BY <1>2 DEF SearchInvariant
  <1>5. PICK p \in Places : p = node
    BY <1>1, <1>4
  <1>6. PICK i : i = Same(p, t_end)
    OBVIOUS
  <1>7. i \in 0 .. Lesser(MaxMatch, in_len - in_ptr)
    <2>1. Fits(i, Most, Differs(p, t_end))
      BY <1>1, <1>6, SameFits
    <2> QED
      BY <1>3, <2>1 DEF Fits, Most, content_size
  <1>8. /\ IF Better(i, t_end - p) THEN Keep(i, t_end - p) ELSE Keep(t_len, t_pos)
        /\ IF i = MaxMatch THEN Unlink(p) /\ node' = Nil ELSE UNCHANGED listVars /\ node' = next[p]
    BY <1>5, <1>6 DEF Compare
  <1>9. in_len' = in_len /\ Places' = Places /\ \A b, c : Likeness(b, c)' <=> Likeness(b, c)
    BY <1>2, SameBlock
  <1>10. data \in Blocks /\ stale \in Bytes /\ ListTypes /\ Chained
    BY DEF InBlock, ListsInvariant
  <1>11. ListTypes' /\ Chained' /\ Linked' = IF i = MaxMatch THEN Linked \ {p} ELSE Linked
    <2>1. CASE i = MaxMatch
      <3>1. Unlink(p) /\ UNCHANGED <<data, stale>>
        BY <1>2, <1>8, <2>1
      <3> QED
        BY <1>10, <2>1, <3>1, UnlinkKeeps
    <2>2. CASE i # MaxMatch
      <3>1. UNCHANGED <<root, prev, next>> /\ Pairs' = Pairs
        BY <1>2, <1>8, <2>2, SameBlock DEF listVars
      <3> QED
        BY <1>9, <1>10, <2>2, <3>1 DEF ListTypes, Chained, Linked
    <2> QED
      BY <2>1, <2>2
  <1>12. t_len' \in 1 .. Lesser(MaxMatch, in_len - in_ptr) /\ t_pos' \in 0 .. in_len
    <2>1. CASE Better(i, t_end - p)
      <3>1. t_len' = i /\ t_pos' = t_end - p /\ i >= t_len
        BY <1>3, <1>7, <1>8, <2>1 DEF Keep, Better
      <3> QED
        BY <1>1, <1>3, <1>4, <1>5, <1>7, <3>1
    <2>2. CASE ~Better(i, t_end - p)
      <3>1. t_len' = t_len /\ t_pos' = t_pos
        BY <1>8, <2>2 DEF Keep
      <3> QED
        BY <1>3, <3>1 DEF InBlock
    <2> QED
      BY <2>1, <2>2
  <1>13. node' \in Places \cup {Nil}
    BY <1>8, <1>10 DEF ListTypes
  <1>14. InBlock'
    <2>0. LET l == Lesser(MaxMatch, in_len - in_ptr) IN l \in Int /\ l <= MaxMatch
      <3>1. MaxMatch \in Int /\ in_len - in_ptr \in Int
        BY <1>1, Sizes
      <3> QED
        BY <3>1, LesserFacts
    <2>1. t_len' \in 0 .. EndMark
      BY <1>12, <2>0, Sizes
    <2> QED
      BY <1>1, <1>2, <1>9, <1>11, <1>12, <1>13, <2>1 DEF InBlock
  <1>15. WindowInvariant'
    <2>1. (t_start = 0 \/ win_size = MaxWindow) /\ win_size <= MaxWindow
      BY <1>2 DEF WindowInvariant
    <2>2. win_size' = win_size
      BY <1>2 DEF win_size
    <2>3. (Lesser(MaxMatch, in_len - in_ptr))' = Lesser(MaxMatch, in_len - in_ptr)
      BY <1>2, <1>9 DEF Lesser, MaxMatch
    <2> QED
      BY <1>1, <1>2, <1>3, <1>9, <1>12, <2>1, <2>2, <2>3 DEF WindowInvariant
  <1>16. \A b \in t_start .. t_end - 1 : Kept(b)'
    <2> TAKE b \in t_start .. t_end - 1
    <2>1. Kept(b)
      BY DEF ListsInvariant
    <2>2. CASE i # MaxMatch
      BY <1>9, <1>11, <2>1, <2>2 DEF Kept
    <2>3. CASE i = MaxMatch
      <3>1. Likeness(p, t_end)
        BY <1>1, <1>6, <2>3, WholeMatchIsLike
      <3>2. t_end \in Linked' /\ Linked' = Linked \ {p} /\ p < t_end /\ b < t_end
        BY <1>1, <1>3, <1>4, <1>5, <1>11, <2>3
      <3>3. CASE b \in Linked /\ b # p
        BY <3>2, <3>3 DEF Kept
      <3>4. CASE b = p
        BY <1>9, <3>1, <3>2, <3>4 DEF Kept
      <3>5. CASE b = in_len - 1
        BY <1>9, <3>5 DEF Kept
      <3>6. ASSUME NEW c \in Linked, b < c, Likeness(b, c) PROVE Kept(b)'
        <4>1. CASE c = p
          <5>1. Likeness(b, t_end)
            BY <3>1, <3>6, <4>1, LikeIsTransitive
          <5> QED
            BY <1>9, <3>2, <5>1 DEF Kept
        <4>2. CASE c # p
          BY <1>9, <3>2, <3>6, <4>2 DEF Kept
        <4> QED
          BY <4>1, <4>2
      <3> QED
        BY <2>1, <3>3, <3>4, <3>5, <3>6 DEF Kept
    <2> QED
      BY <2>2, <2>3
  <1>17. ListsInvariant'
    <2>1. Linked' \subseteq t_start .. t_end /\ t_end \in Linked'
      BY <1>1, <1>3, <1>4, <1>5, <1>11
    <2> QED
      BY <1>2, <1>11, <1>16, <2>1 DEF ListsInvariant
  <1> QED
    BY <1>5, <1>6, <1>11, <1>14, <1>15, <1>17

LEMMA MakeRoomKeeps ==
  ASSUME InBlock, WindowInvariant, ListsInvariant, MakeRoom
  PROVE  InBlock' /\ WindowInvariant' /\ ListsInvariant'
  <1>1. /\ in_len \in Nat /\ Places = 0 .. in_len
        /\ t_start \in Nat /\ t_end \in Nat /\ t_end \in Places /\ t_start <= t_end /\ t_end <= in_len
        /\ in_ptr \in Nat /\ in_ptr <= in_len
        /\ Linked \subseteq Places
        /\ \A c \in Linked : c \in Nat /\ t_start <= c /\ c <= t_end
    BY InWindow
  <1>2. /\ phase = "slide" /\ slid < t_len /\ win_size = MaxWindow
        /\ Unlink(t_start) /\ t_start' = t_start + 1
        /\ UNCHANGED <<data, stale, phase, t_end, node, t_len, t_pos, slid, in_ptr>>
    BY DEF MakeRoom, matchVars, coderVars
  <1>3. t_end - t_start = MaxWindow /\ MaxWindow \in Nat /\ MaxWindow >= 1
    BY <1>2, Sizes DEF win_size
  <1>4. PICK e \in Places : e = t_start
    BY <1>1
  <1>5. ListTypes' /\ Chained' /\ Linked' = Linked \ {e}
    <2>1. /\ data \in Blocks /\ stale \in Bytes /\ ListTypes /\ Chained
          /\ Unlink(e) /\ UNCHANGED <<data, stale>>
      BY <1>2, <1>4 DEF InBlock, ListsInvariant
    <2> QED
      BY <2>1, UnlinkKeeps
  <1>6. in_len' = in_len /\ Places' = Places /\ \A b, c : Likeness(b, c)' <=> Likeness(b, c)
    BY <1>2, SameBlock
  <1>7. InBlock'
    BY <1>2, <1>5, <1>6 DEF InBlock
  <1>8. WindowInvariant'
    <2>1. win_size' = MaxWindow - 1
      BY <1>1, <1>2, <1>3 DEF win_size
    <2>2. t_start' \in Nat /\ t_end \in t_start' .. in_len
      BY <1>1, <1>2, <1>3
    <2>3. (Lesser(MaxMatch, in_len - in_ptr))' = Lesser(MaxMatch, in_len - in_ptr)
      BY <1>2, <1>6 DEF Lesser, MaxMatch
    <2>4. /\ t_len \in 1 .. Lesser(MaxMatch, in_len - in_ptr)
          /\ slid <= t_len /\ t_end = in_ptr + slid
      BY <1>2 DEF WindowInvariant
    <2>5. (Far(t_len, t_pos))' <=> Far(t_len, t_pos)
      BY <1>2 DEF Far, Near
    <2> QED
      BY <1>2, <1>3, <1>6, <2>1, <2>2, <2>3, <2>4, <2>5 DEF WindowInvariant
  <1>9. \A b \in t_start' .. t_end' - 1 : Kept(b)'
    <2> TAKE b \in t_start' .. t_end' - 1
    <2>1. b \in t_start .. t_end - 1 /\ e < b /\ b \in Int /\ e \in Int
      BY <1>1, <1>2, <1>4
    <2>2. Kept(b)
      BY <2>1 DEF ListsInvariant
    <2>3. ASSUME NEW c \in Linked, b < c PROVE c \in Linked'
      BY <1>1, <1>5, <2>1, <2>3
    <2> QED
      BY <1>5, <1>6, <2>1, <2>2, <2>3 DEF Kept
  <1>10. ListsInvariant'
    <2>1. Linked' \subseteq t_start' .. t_end'
      BY <1>1, <1>2, <1>4, <1>5
    <2>2. t_end \in Linked' <=> t_end \in Linked
      BY <1>1, <1>3, <1>4, <1>5
    <2> QED
      BY <1>2, <1>5, <1>6, <1>9, <2>1, <2>2 DEF ListsInvariant
  <1> QED
    BY <1>7, <1>8, <1>10

LEMMA SlideKeeps ==
  ASSUME InBlock, WindowInvariant, ListsInvariant, Slide
  PROVE  InBlock' /\ WindowInvariant' /\ ListsInvariant'
  <1>1. /\ in_len \in Nat /\ Places = 0 .. in_len
        /\ t_start \in Nat /\ t_end \in Nat /\ t_end \in Places /\ t_start <= t_end /\ t_end <= in_len
        /\ in_ptr \in Nat /\ in_ptr <= in_len
        /\ Linked \subseteq Places
        /\ \A c \in Linked : c \in Nat /\ t_start <= c /\ c <= t_end
    BY InWindow
  <1>2. /\ phase = "slide" /\ slid < t_len /\ win_size < MaxWindow
        /\ IF slid > 0 THEN Link(t_end) ELSE UNCHANGED listVars
        /\ t_end' = t_end + 1 /\ slid' = slid + 1
        /\ UNCHANGED <<data, stale, phase, t_start, node, t_len, t_pos, in_ptr>>
    BY DEF Slide, coderVars
  <1>3. /\ t_len \in 1 .. Lesser(MaxMatch, in_len - in_ptr)
        /\ slid \in Nat /\ t_end = in_ptr + slid
        /\ MaxMatch \in Nat /\ MaxWindow \in Nat
    BY <1>2, Sizes DEF WindowInvariant, InBlock
  <1>4. t_len \in Nat /\ t_len <= MaxMatch /\ t_len <= in_len - in_ptr
    <2>1. MaxMatch \in Int /\ in_len - in_ptr \in Int
      BY <1>1, <1>3
    <2> DEFINE l == Lesser(MaxMatch, in_len - in_ptr)
    <2>2. l \in Int /\ l <= MaxMatch /\ l <= in_len - in_ptr
      BY <2>1, LesserFacts
    <2>3. t_len \in 1 .. l
      BY <1>3
    <2> HIDE DEF l
    <2> QED
      BY <1>1, <1>3, <2>2, <2>3
  <1>5. PICK e \in Places : e = t_end
    BY <1>1
  <1>6. in_len' = in_len /\ Places' = Places /\ \A b, c : Likeness(b, c)' <=> Likeness(b, c)
    BY <1>2, SameBlock
  <1>7. /\ ListTypes' /\ Chained'
        /\ Linked' = IF slid > 0 THEN Linked \cup {e} ELSE Linked
        /\ slid > 0 => e \notin Linked
    <2>1. data \in Blocks /\ stale \in Bytes /\ ListTypes /\ Chained /\ UNCHANGED <<data, stale>>
      BY <1>2 DEF InBlock, ListsInvariant
    <2>2. CASE slid > 0
      <3>1. Link(e) /\ e \notin Linked
        BY <1>2, <1>3, <1>5, <2>2 DEF ListsInvariant
      <3>2. \A c \in Linked : c < e
        BY <1>1, <1>5, <3>1
      <3> QED
        BY <2>1, <2>2, <3>1, <3>2, LinkKeeps
    <2>3. CASE ~(slid > 0)
      <3>1. UNCHANGED <<root, prev, next>> /\ Pairs' = Pairs
        BY <1>2, <2>3, SameBlock DEF listVars
      <3> QED
        BY <1>6, <2>1, <2>3, <3>1 DEF ListTypes, Chained, Linked
    <2> QED
      BY <2>2, <2>3
  <1>8. InBlock'
    <2>1. slid' \in 0 .. MaxMatch
      BY <1>2, <1>3, <1>4
    <2> QED
      BY <1>2, <1>6, <1>7, <2>1 DEF InBlock
  <1>9. WindowInvariant'
    <2>1. win_size' = win_size + 1 /\ win_size \in Int
      BY <1>1, <1>2 DEF win_size
    <2>2. t_end' \in t_start .. in_len /\ slid' <= t_len /\ t_end' = in_ptr + slid'
      BY <1>1, <1>2, <1>3, <1>4
    <2>3. (Lesser(MaxMatch, in_len - in_ptr))' = Lesser(MaxMatch, in_len - in_ptr)
      BY <1>2, <1>6 DEF Lesser, MaxMatch
    <2>4. t_start = 0 \/ win_size = MaxWindow \/ win_size = MaxWindow - 1
      BY DEF WindowInvariant
    <2>5. t_start = 0 \/ win_size' = MaxWindow
      BY <1>2, <1>3, <2>1, <2>4
    <2>6. win_size' <= MaxWindow
      BY <1>2, <1>3, <2>1
    <2>7. (Far(t_len, t_pos))' <=> Far(t_len, t_pos)
      BY <1>2 DEF Far, Near
    <2> QED
      BY <1>1, <1>2, <1>3, <1>6, <2>2, <2>3, <2>5, <2>6, <2>7 DEF WindowInvariant
  <1>10. \A b \in t_start .. t_end' - 1 : Kept(b)'
    <2> TAKE b \in t_start .. t_end' - 1
    <2>1. b \in t_start .. t_end - 1 \/ b = e
      BY <1>1, <1>2, <1>5
    <2>2. CASE b \in t_start .. t_end - 1
      <3>1. Kept(b)
        BY <2>2 DEF ListsInvariant
      <3>2. \A c \in Linked : c \in Linked'
        BY <1>7
      <3> QED
        BY <1>6, <3>1, <3>2 DEF Kept
    <2>3. CASE b = e
      <3>1. e \in Linked' \/ e = in_len - 1
        <4>1. CASE slid > 0
          BY <1>7, <4>1
        <4>2. CASE ~(slid > 0)
          <5>1. slid = 0
            BY <1>3, <4>2
          <5>2. e \in Linked \/ e = in_len - 1
            BY <1>2, <1>5, <5>1 DEF ListsInvariant
          <5> QED
            BY <1>7, <4>2, <5>2
        <4> QED
          BY <4>1, <4>2
      <3> QED
        BY <1>6, <2>3, <3>1 DEF Kept
    <2> QED
      BY <2>1, <2>2, <2>3
  <1>11. ListsInvariant'
    <2>1. \A c \in Linked' : c \in Nat /\ t_start <= c /\ c <= t_end
      BY <1>1, <1>5, <1>7
    <2>2. Linked' \subseteq t_start .. t_end' /\ t_end' \notin Linked'
      BY <1>1, <1>2, <2>1
    <2>3. slid' # 0
      BY <1>2, <1>3
    <2> QED
      BY <1>2, <1>6, <1>7, <1>10, <2>2, <2>3 DEF ListsInvariant
  <1> QED
    BY <1>8, <1>9, <1>11

(***************************************************************************)
(* The other steps leave the lists and the window alone.                   *)
(***************************************************************************)
LEMMA QuietLists ==
  ASSUME InBlock, WindowInvariant, ListsInvariant,
         UNCHANGED <<data, stale, listVars, windowVars>>
  PROVE  /\ in_len' = in_len /\ Places' = Places /\ win_size' = win_size
         /\ ListTypes' /\ Chained' /\ Linked' = Linked
         /\ t_end \notin Linked /\ phase' # "compare" /\ (phase' = "slide" /\ slid' = 0 => t_end = in_len - 1)
              => ListsInvariant'
  <1>1. /\ in_len' = in_len /\ Places' = Places /\ Pairs' = Pairs
        /\ \A b, c : Likeness(b, c)' <=> Likeness(b, c)
    BY SameBlock
  <1>2. UNCHANGED <<root, prev, next, t_start, t_end>>
    BY DEF listVars, windowVars
  <1>3. ListTypes' /\ Chained' /\ Linked' = Linked
    BY <1>1, <1>2 DEF ListsInvariant, InBlock, ListTypes, Chained, Linked
  <1>4. win_size' = win_size
    BY <1>2 DEF win_size
  <1>5. ASSUME NEW b, Kept(b) PROVE Kept(b)'
    BY <1>1, <1>3, <1>5 DEF Kept
  <1>6. ASSUME t_end \notin Linked, phase' # "compare",
               phase' = "slide" /\ slid' = 0 => t_end = in_len - 1
        PROVE  ListsInvariant'
    BY <1>1, <1>2, <1>3, <1>5, <1>6 DEF ListsInvariant
  <1> QED
    BY <1>1, <1>3, <1>4, <1>6

LEMMA LastByteKeeps ==
  ASSUME InBlock, WindowInvariant, ListsInvariant, LastByte
  PROVE  InBlock' /\ WindowInvariant' /\ ListsInvariant'
  <1>1. /\ phase = "insert" /\ in_ptr = in_len - 1 /\ t_len' = 1 /\ t_pos' = 0 /\ phase' = "slide"
        /\ UNCHANGED <<data, stale, listVars, windowVars, node, slid, in_ptr, t_start, t_end>>
    BY DEF LastByte, Keep, coderVars, windowVars
  <1>2. t_end = in_ptr /\ slid = 0 /\ t_end \notin Linked
    BY <1>1 DEF WindowInvariant, ListsInvariant
  <1>3. in_len' = in_len /\ Places' = Places /\ win_size' = win_size /\ ListTypes' /\ ListsInvariant'
    BY <1>1, <1>2, QuietLists
  <1>4. in_len \in Nat /\ in_ptr \in Nat /\ t_start \in Nat
    BY InWindow
  <1>5. InBlock'
    BY <1>1, <1>3, <1>4, Sizes DEF InBlock
  <1>6. 1 \in 1 .. (Lesser(MaxMatch, in_len - in_ptr))'
    BY <1>1, <1>3, <1>4, Sizes DEF Lesser, MaxMatch
  <1>7. t_start = 0 \/ win_size = MaxWindow
    BY <1>1 DEF WindowInvariant
  <1>8. WindowInvariant'
    BY <1>1, <1>2, <1>3, <1>4, <1>6, <1>7 DEF WindowInvariant
  <1> QED
    BY <1>3, <1>5, <1>8

LEMMA NoByteKeeps ==
  ASSUME InBlock, WindowInvariant, ListsInvariant, NoByte
  PROVE  InBlock' /\ WindowInvariant' /\ ListsInvariant'
  <1>1. /\ phase = "insert" /\ in_ptr = in_len /\ t_len' = EndMark /\ t_pos' = 0 /\ phase' = "code"
        /\ UNCHANGED <<data, stale, listVars, windowVars, node, slid, in_ptr, t_start, t_end>>
    BY DEF NoByte, Keep, coderVars, windowVars
  <1>2. t_end = in_ptr /\ slid = 0 /\ t_end \notin Linked
    BY <1>1 DEF WindowInvariant, ListsInvariant
  <1>3. in_len' = in_len /\ Places' = Places /\ win_size' = win_size /\ ListTypes' /\ ListsInvariant'
    BY <1>1, <1>2, QuietLists
  <1>4. in_len \in Nat /\ in_ptr \in Nat /\ t_start \in Nat
    BY InWindow
  <1>5. InBlock'
    BY <1>1, <1>3, <1>4, Sizes DEF InBlock
  <1>6. t_start = 0 \/ win_size = MaxWindow
    BY <1>1 DEF WindowInvariant
  <1>7. ~(Far(t_len, t_pos))'
    BY <1>1, Sizes DEF Far, Short
  <1>8. WindowInvariant'
    BY <1>1, <1>2, <1>3, <1>4, <1>6, <1>7 DEF WindowInvariant
  <1> QED
    BY <1>3, <1>5, <1>8

LEMMA ComparedKeeps ==
  ASSUME InBlock, WindowInvariant, ListsInvariant, Compared
  PROVE  InBlock' /\ WindowInvariant' /\ ListsInvariant'
  <1>1. /\ phase = "compare" /\ node = Nil /\ t_len' = Accept(t_len, t_pos) /\ t_pos' = t_pos
        /\ phase' = "slide"
        /\ UNCHANGED <<data, stale, listVars, windowVars, node, slid, in_ptr, t_start, t_end>>
    BY DEF Compared, Keep, coderVars, windowVars
  <1>2. t_end = in_ptr /\ slid = 0 /\ t_end \in Linked /\ t_len \in 1 .. Lesser(MaxMatch, in_len - in_ptr)
    BY <1>1 DEF WindowInvariant, ListsInvariant
  <1>3. /\ in_len' = in_len /\ Places' = Places /\ win_size' = win_size
        /\ ListTypes' /\ Chained' /\ Linked' = Linked
        /\ \A b, c : Likeness(b, c)' <=> Likeness(b, c)
    BY <1>1, QuietLists, SameBlock
  <1>4. in_len \in Nat /\ in_ptr \in Nat /\ t_start \in Nat
    BY InWindow
  <1>5. t_len' = t_len \/ t_len' = 1
    BY <1>1 DEF Accept
  <1>6. t_len' \in 1 .. (Lesser(MaxMatch, in_len - in_ptr))' /\ t_len' \in 0 .. EndMark
    <2>1. (Lesser(MaxMatch, in_len - in_ptr))' = Lesser(MaxMatch, in_len - in_ptr)
      BY <1>1, <1>3 DEF Lesser, MaxMatch
    <2>2. Lesser(MaxMatch, in_len - in_ptr) \in Int /\ t_len \in 0 .. EndMark
      <3>1. MaxMatch \in Int /\ in_len - in_ptr \in Int
        BY <1>4, Sizes
      <3> QED
        BY <3>1, LesserFacts DEF InBlock
    <2>3. PICK l \in Int : l = Lesser(MaxMatch, in_len - in_ptr)
      BY <2>2
    <2>4. t_len \in 1 .. l
      BY <1>2, <2>3
    <2>5. t_len' \in 1 .. l /\ t_len' \in 0 .. EndMark
      BY <1>5, <2>2, <2>4, Sizes
    <2> QED
      BY <2>1, <2>3, <2>5
  <1>7. InBlock'
    BY <1>1, <1>3, <1>6 DEF InBlock
  <1>8. t_start = 0 \/ win_size = MaxWindow
    BY <1>1 DEF WindowInvariant
  <1>9. (t_len = 1 \/ ~Far(t_len, t_pos))'
    <2>1. CASE Far(t_len, t_pos)
      BY <1>1, <2>1 DEF Accept
    <2>2. CASE ~Far(t_len, t_pos)
      <3>1. t_len' = t_len
        BY <1>1, <2>2 DEF Accept
      <3> QED
        BY <1>1, <2>2, <3>1 DEF Far, Near
    <2> QED
      BY <2>1, <2>2
  <1>10. WindowInvariant'
    BY <1>1, <1>2, <1>3, <1>4, <1>6, <1>8, <1>9 DEF WindowInvariant
  <1>11. ListsInvariant'
    <2>1. ASSUME NEW b \in t_start .. t_end - 1 PROVE Kept(b)'
      BY <1>3, <2>1 DEF ListsInvariant, Kept
    <2> QED
      BY <1>1, <1>2, <1>3, <2>1 DEF ListsInvariant
  <1> QED
    BY <1>7, <1>10, <1>11

LEMMA SlidKeeps ==
  ASSUME InBlock, WindowInvariant, ListsInvariant, Slid
  PROVE  InBlock' /\ WindowInvariant' /\ ListsInvariant'
  <1>1. /\ phase = "slide" /\ slid = t_len /\ slid' = 0 /\ phase' = "code"
        /\ UNCHANGED <<data, stale, listVars, windowVars, node, t_len, t_pos, in_ptr, t_start, t_end>>
    BY DEF Slid, coderVars, windowVars
  <1>2. t_len \in 1 .. Lesser(MaxMatch, in_len - in_ptr) /\ t_end = in_ptr + t_len
    BY <1>1 DEF WindowInvariant
  <1>3. t_end \notin Linked
    <2>1. slid # 0
      BY <1>1, <1>2
    <2> QED
      BY <1>1, <2>1 DEF ListsInvariant
  <1>4. in_len' = in_len /\ Places' = Places /\ win_size' = win_size /\ ListTypes' /\ ListsInvariant'
    BY <1>1, <1>3, QuietLists
  <1>5. in_len \in Nat /\ in_ptr \in Nat /\ t_start \in Nat
    BY InWindow
  <1>6. InBlock'
    BY <1>1, <1>4, Sizes DEF InBlock
  <1>7. t_start = 0 \/ win_size = MaxWindow
    BY <1>1 DEF WindowInvariant
  <1>8. (Lesser(MaxMatch, in_len - in_ptr))' = Lesser(MaxMatch, in_len - in_ptr)
    BY <1>1, <1>4 DEF Lesser, MaxMatch
  <1>9. ((Far(t_len, t_pos))' <=> Far(t_len, t_pos)) /\ (t_len = 1 \/ ~Far(t_len, t_pos))
    BY <1>1 DEF Far, Near, WindowInvariant
  <1>10. WindowInvariant'
    BY <1>1, <1>2, <1>4, <1>5, <1>7, <1>8, <1>9 DEF WindowInvariant
  <1> QED
    BY <1>4, <1>6, <1>10

LEMMA CodeKeeps ==
  ASSUME InBlock, WindowInvariant, ListsInvariant, CodeByte \/ CodeMatch \/ CodeEnd
  PROVE  InBlock' /\ WindowInvariant' /\ ListsInvariant'
  <1>1. /\ phase = "code" /\ phase' = "decode"
        /\ UNCHANGED <<data, stale, listVars, windowVars, node, t_len, t_pos, slid, t_start, t_end>>
    BY DEF CodeByte, CodeMatch, CodeEnd, matchVars, windowVars
  <1>2. in_len \in Nat /\ in_ptr \in Nat /\ t_start \in Nat /\ t_end \in Nat /\ t_end <= in_len
    BY InWindow
  <1>3. /\ \/ t_len = EndMark /\ in_ptr = in_len /\ t_end = in_ptr
           \/ t_len \in 1 .. Lesser(MaxMatch, in_len - in_ptr) /\ t_end = in_ptr + t_len
        /\ t_len = 1 \/ ~Far(t_len, t_pos)
        /\ slid = 0
    BY <1>1 DEF WindowInvariant
  <1>4. in_ptr' = t_end
    <2>1. CASE CodeByte
      <3>1. t_len = 1 /\ in_ptr' = in_ptr + 1
        BY <1>3, <2>1 DEF CodeByte
      <3>2. t_len # EndMark
        BY <3>1, Sizes
      <3> QED
        BY <1>3, <3>1, <3>2
    <2>2. CASE CodeMatch
      <3>1. t_len # EndMark /\ in_ptr' = in_ptr + t_len
        BY <2>2 DEF CodeMatch
      <3> QED
        BY <1>3, <3>1
    <2>3. CASE CodeEnd
      <3>1. t_len = EndMark /\ in_ptr' = in_ptr
        BY <2>3 DEF CodeEnd
      <3>2. t_len \notin 1 .. Lesser(MaxMatch, in_len - in_ptr)
        <4>1. MaxMatch \in Int /\ in_len - in_ptr \in Int
          BY <1>2, Sizes
        <4>2. Lesser(MaxMatch, in_len - in_ptr) \in Int /\ Lesser(MaxMatch, in_len - in_ptr) <= MaxMatch
          BY <4>1, LesserFacts
        <4> QED
          BY <3>1, <4>2, Sizes
      <3> QED
        BY <1>3, <3>1, <3>2
    <2> QED
      BY <2>1, <2>2, <2>3
  <1>5. t_end \notin Linked
    BY <1>1 DEF ListsInvariant
  <1>6. in_len' = in_len /\ Places' = Places /\ win_size' = win_size /\ ListTypes' /\ ListsInvariant'
    BY <1>1, <1>5, QuietLists
  <1>7. InBlock'
    BY <1>1, <1>2, <1>4, <1>6 DEF InBlock
  <1>8. t_start = 0 \/ win_size = MaxWindow
    BY <1>1 DEF WindowInvariant
  <1>9. WindowInvariant'
    BY <1>1, <1>2, <1>3, <1>4, <1>6, <1>8 DEF WindowInvariant
  <1> QED
    BY <1>6, <1>7, <1>9

LEMMA DecodeKeeps ==
  ASSUME InBlock, WindowInvariant, ListsInvariant, DecodeByte \/ DecodeMatch \/ DecodeEnd
  PROVE  InBlock' /\ WindowInvariant' /\ ListsInvariant'
  <1>1. /\ phase = "decode" /\ phase' \in {"insert", "done"}
        /\ UNCHANGED <<data, stale, listVars, windowVars, node, t_len, t_pos, slid, in_ptr,
                       t_start, t_end>>
    BY DEF DecodeByte, DecodeMatch, DecodeEnd, matchVars, windowVars, coderVars
  <1>2. t_end \notin Linked /\ t_end = in_ptr /\ slid = 0 /\ (t_start = 0 \/ win_size = MaxWindow)
    BY <1>1 DEF ListsInvariant, WindowInvariant
  <1>3. in_len' = in_len /\ Places' = Places /\ win_size' = win_size /\ ListTypes' /\ ListsInvariant'
    BY <1>1, <1>2, QuietLists
  <1>4. InBlock'
    BY <1>1, <1>3 DEF InBlock
  <1>5. WindowInvariant'
    BY <1>1, <1>2, <1>3 DEF WindowInvariant
  <1> QED
    BY <1>3, <1>4, <1>5

-----------------------------------------------------------------------------
(***************************************************************************)
(* The search.                                                             *)
(***************************************************************************)
LEMMA SameUnprimed ==
  ASSUME UNCHANGED <<data, stale, t_end>>
  PROVE  \A p : Same(p, t_end)' = Same(p, t_end)
  BY DEF Same, content_size, in_len, Text, Lesser, MaxMatch

LEMMA InsertNodeSearches ==
  ASSUME InBlock, WindowInvariant, ListsInvariant, InsertNode
  PROVE  SearchInvariant'
  <1>1. /\ in_len \in Nat /\ Places = 0 .. in_len
        /\ t_start \in Nat /\ t_end \in Nat /\ t_end \in Places /\ t_start <= t_end /\ t_end <= in_len
        /\ in_ptr \in Nat /\ in_ptr <= in_len
        /\ Linked \subseteq Places
        /\ \A c \in Linked : c \in Nat /\ t_start <= c /\ c <= t_end
    BY InWindow
  <1>2. /\ phase = "insert" /\ in_ptr < in_len - 1 /\ t_len' = 1 /\ t_pos' = 0
        /\ node' = root[Pair(t_end)] /\ phase' = "compare"
        /\ UNCHANGED <<data, stale, t_start, t_end>>
    BY DEF InsertNode, Keep, windowVars
  <1>3. t_end = in_ptr /\ t_end \notin Linked /\ Linked' = Linked \cup {t_end}
    BY <1>2, InsertNodeKeeps DEF WindowInvariant
  <1>4. /\ in_len' = in_len /\ \A b : Text(b)' = Text(b) /\ Pair(b)' = Pair(b)
        /\ \A b, c : Likeness(b, c)' <=> Likeness(b, c)
        /\ \A p : Same(p, t_end)' = Same(p, t_end)
    BY <1>2, SameBlock, SameUnprimed
  <1>5. Most >= 2
    <2>1. content_size >= 2 /\ content_size \in Nat
      BY <1>1, <1>2, <1>3 DEF content_size
    <2> QED
      BY <1>1, <2>1, MostIsNat, Sizes
  <1>6. PICK x : x = root[Pair(t_end)]
    OBVIOUS
  <1>7. IsLatest(x, Mates(Linked, Pairs, Pair(t_end)), Nil)
    <2>1. Pair(t_end) \in Bytes \X Bytes
      BY <1>1, PlaceFacts DEF InBlock
    <2> QED
      BY <1>6, <2>1 DEF ListsInvariant, Chained, Chains
  <1>8. \A c \in Linked : Pairs[c] = Pair(c)
    BY <1>1, PlaceFacts DEF InBlock
  <1>9. x = Nil \/ (x \in Linked /\ Pair(x) = Pair(t_end))
    BY <1>7, <1>8 DEF IsLatest, Mates
  <1>10. ASSUME NEW c \in Linked, c > x PROVE Pair(c) # Pair(t_end)
    <2> SUFFICES ASSUME Pair(c) = Pair(t_end) PROVE FALSE
      OBVIOUS
    <2>1. c \in Mates(Linked, Pairs, Pair(t_end))
      BY <1>8 DEF Mates
    <2>2. c <= x /\ x \in Linked
      BY <1>7, <2>1 DEF IsLatest, Mates
    <2> QED
      BY <1>1, <1>10, <2>2
  <1>11. ASSUME NEW c \in Linked, c > x PROVE Same(c, t_end) \in Int /\ Same(c, t_end) <= 1
    <2>1. Same(c, t_end) \in 0 .. Most /\ Same(c, t_end) <= 1
      <3>1. c \in Nat /\ t_end \in 0 .. in_len
        BY <1>1
      <3> QED
        BY <1>1, <1>5, <1>10, <1>11, <3>1, PairSame
    <2> QED
      BY <1>1, <2>1, MostIsNat
  <1>12. ASSUME NEW b \in t_start .. t_end - 1
         PROVE  b \in Linked \/ \E c \in Linked : b < c /\ c < t_end /\ Likeness(b, c)
    <2>1. Kept(b) /\ b # in_len - 1
      BY <1>1, <1>2, <1>3 DEF ListsInvariant
    <2>2. \A c \in Linked : c < t_end
      BY <1>1, <1>3
    <2> QED
      BY <2>1, <2>2 DEF Kept
  <1>13. ASSUME NEW b \in t_start .. t_end - 1, b > x
         PROVE  Same(b, t_end) \in Int /\ Same(b, t_end) <= 1
    <2>1. CASE b \in Linked
      BY <1>11, <1>13, <2>1
    <2>2. ASSUME NEW c \in Linked, b < c, Likeness(b, c) PROVE Same(b, t_end) \in Int /\ Same(b, t_end) <= 1
      <3>1. x \in Int /\ c \in Int /\ b \in Int
        <4>1. x \in Int
          <5>1. \A d \in Linked : d \in Int
            BY <1>1
          <5>2. Nil \in Int
            BY NoPosition
          <5> QED
            BY ONLY <1>9, <5>1, <5>2
        <4> QED
          BY <1>1, <4>1
      <3>2. c > x
        BY <1>13, <2>2, <3>1
      <3>3. Same(b, t_end) = Same(c, t_end)
        <4>1. t_end \in 0 .. in_len
          BY <1>1
        <4> QED
          BY <1>1, <2>2, <4>1, LikeSame
      <3> QED
        BY <1>11, <3>2, <3>3
    <2> QED
      BY <1>12, <2>1, <2>2
  <1>14. ASSUME NEW b \in t_start .. t_end - 1, b > x PROVE Beaten(b)'
    <2>1. Same(b, t_end) \in Int /\ Same(b, t_end) <= 1
      BY <1>13, <1>14
    <2>2. t_end - b >= 0
      BY <1>1
    <2>3. Same(b, t_end)' = Same(b, t_end)
      BY <1>4
    <2>4. Same(b, t_end) < 1 \/ (Same(b, t_end) = 1 /\ t_end - b >= 0)
      BY <2>1, <2>2
    <2> QED
      BY <1>2, <2>3, <2>4 DEF Beaten
  <1>15. ASSUME x # Nil
         PROVE  /\ x \in Linked' /\ x < t_end /\ Pair(x)' = Pair(t_end)'
                /\ \A b \in t_start .. t_end - 1 :
                     b \in Linked' \/ \E c \in Linked' : b < c /\ c < t_end /\ Likeness(b, c)'
    <2>1. x \in Linked /\ Pair(x) = Pair(t_end)
      BY <1>9, <1>15
    <2>2. x < t_end
      BY <1>1, <1>3, <2>1
    <2>3. Pair(t_end)' = Pair(t_end) /\ Pair(x)' = Pair(x)
      BY <1>2, <1>4 DEF Pair, Text
    <2>4. \A b \in t_start .. t_end - 1 :
            b \in Linked' \/ \E c \in Linked' : b < c /\ c < t_end /\ Likeness(b, c)'
      BY <1>3, <1>4, <1>12
    <2> QED
      BY <1>3, <2>1, <2>2, <2>3, <2>4
  <1> QED
    BY <1>2, <1>6, <1>14, <1>15 DEF SearchInvariant

(***************************************************************************)
(* What is kept of two matches beats both.                                 *)
(***************************************************************************)
Beats(l, d, i, e) == i < l \/ (i = l /\ e >= d)

LEMMA BetterBeats ==
  ASSUME NEW l \in Int, NEW d \in Int, NEW i \in Int, NEW e \in Int, NEW l2, NEW d2, NEW better,
         better <=> (i > l \/ (i = l /\ e < d)),
         better => l2 = i /\ d2 = e, ~better => l2 = l /\ d2 = d
  PROVE  /\ l2 \in Int /\ d2 \in Int /\ Beats(l2, d2, i, e) /\ l2 >= i
         /\ \A j, f \in Int : Beats(l, d, j, f) => Beats(l2, d2, j, f)
  <1>1. CASE better
    <2>1. l2 = i /\ d2 = e
      BY <1>1
    <2>2. i > l \/ (i = l /\ e < d)
      BY <1>1
    <2>3. \A j, f \in Int : Beats(l, d, j, f) => Beats(i, e, j, f)
      BY <2>2 DEF Beats
    <2>4. Beats(i, e, i, e)
      BY DEF Beats
    <2> QED
      BY <2>1, <2>3, <2>4
  <1>2. CASE ~better
    <2>1. l2 = l /\ d2 = d
      BY <1>2
    <2>2. Beats(l, d, i, e) /\ l >= i
      BY <1>2 DEF Beats
    <2> QED
      BY <2>1, <2>2
  <1> QED
    BY <1>1, <1>2

LEMMA CompareSearches ==
  ASSUME InBlock, WindowInvariant, ListsInvariant, SearchInvariant, Compare
  PROVE  SearchInvariant'
  <1>1. /\ in_len \in Nat /\ Places = 0 .. in_len
        /\ t_start \in Nat /\ t_end \in Nat /\ t_end \in Places /\ t_start <= t_end /\ t_end <= in_len
        /\ in_ptr \in Nat /\ in_ptr <= in_len
        /\ Linked \subseteq Places
        /\ \A c \in Linked : c \in Nat /\ t_start <= c /\ c <= t_end
    BY InWindow
  <1>2. /\ phase = "compare" /\ phase' = "compare" /\ node # Nil
        /\ UNCHANGED <<data, stale, t_start, t_end>>
    BY DEF Compare, windowVars
  <1>3. t_end = in_ptr /\ in_ptr < in_len - 1 /\ t_len \in Int /\ t_pos \in Int
    BY <1>1, <1>2, Sizes DEF WindowInvariant, InBlock
  <1>4. /\ node \in Linked /\ node < t_end /\ Pair(node) = Pair(t_end)
        /\ \/ t_len = 1 /\ t_pos = 0
           \/ t_len > 1 /\ t_pos \in 1 .. win_size /\ t_len = Same(t_end - t_pos, t_end)
        /\ \A b \in t_start .. t_end - 1 : b > node => Beaten(b)
        /\ \A b \in t_start .. t_end - 1 :
             b \in Linked \/ \E c \in Linked : b < c /\ c < t_end /\ Likeness(b, c)
    BY <1>2 DEF SearchInvariant
  <1>5. PICK p \in Nat : p = node
    BY <1>1, <1>4
  <1>6. PICK e \in Nat : e = t_end
    BY <1>1
  <1>7. PICK i : i = Same(p, e)
    OBVIOUS
  <1>8. Most >= 2 /\ Most \in Nat /\ Most <= MaxMatch
    <2>1. content_size >= 2 /\ content_size \in Nat
      BY <1>1, <1>3 DEF content_size
    <2> QED
      BY <1>1, <2>1, MostIsNat, Sizes
  <1>9. \A b \in Nat : Same(b, e) \in 0 .. Most /\ (Pair(b) # Pair(e) => Same(b, e) <= 1)
    <2>1. t_end \in 0 .. in_len
      BY <1>1
    <2> QED
      BY <1>1, <1>8, <2>1, PairSame
  <1>10. i \in Int /\ i >= 2
    <2>1. t_end \in 0 .. in_len /\ Pair(p) = Pair(e)
      BY <1>1, <1>4, <1>5, <1>6
    <2> QED
      BY <1>1, <1>7, <1>8, <2>1, PairSame
  <1>11. /\ IF Better(i, e - p) THEN Keep(i, e - p) ELSE Keep(t_len, t_pos)
         /\ IF i = MaxMatch THEN node' = Nil ELSE UNCHANGED listVars /\ node' = next[p]
    BY <1>5, <1>6, <1>7 DEF Compare
  <1>12. PICK l2 : l2 = t_len'
    OBVIOUS
  <1>13. PICK d2 : d2 = t_pos'
    OBVIOUS
  <1>14. /\ l2 \in Int /\ d2 \in Int /\ Beats(l2, d2, i, e - p) /\ l2 >= i
         /\ \A j, f \in Int : Beats(t_len, t_pos, j, f) => Beats(l2, d2, j, f)
    <2> DEFINE better == Better(i, e - p)
    <2>1. better <=> (i > t_len \/ (i = t_len /\ e - p < t_pos))
      BY DEF Better
    <2>2. better => l2 = i /\ d2 = e - p
      BY <1>11, <1>12, <1>13 DEF Keep
    <2>3. ~better => l2 = t_len /\ d2 = t_pos
      BY <1>11, <1>12, <1>13 DEF Keep
    <2>4. e - p \in Int
      BY <1>5, <1>6
    <2> HIDE DEF better
    <2> QED
      BY <1>3, <1>10, <2>1, <2>2, <2>3, <2>4, BetterBeats
  <1>15. \A b : Beaten(b) <=> Beats(t_len, t_pos, Same(b, e), e - b)
    BY <1>6 DEF Beaten, Beats
  <1>16. \A b : Beaten(b)' <=> Beats(l2, d2, Same(b, e), e - b)
    <2>1. \A b : Same(b, t_end)' = Same(b, e)
      BY <1>2, <1>6, SameUnprimed
    <2> QED
      BY <1>2, <1>6, <1>12, <1>13, <2>1 DEF Beaten, Beats
  <1>17. l2 > 1 /\ d2 \in 1 .. win_size' /\ l2 = Same(e - d2, e)
    <2>1. win_size' = e - t_start
      BY <1>2, <1>6 DEF win_size
    <2>2. CASE Better(i, e - p)
      <3>1. l2 = i /\ d2 = e - p
        BY <1>11, <1>12, <1>13, <2>2 DEF Keep
      <3>2. e - d2 = p /\ d2 \in 1 .. e - t_start
        BY <1>1, <1>4, <1>5, <1>6, <3>1
      <3> QED
        BY <1>7, <1>10, <2>1, <3>1, <3>2
    <2>3. CASE ~Better(i, e - p)
      <3>1. l2 = t_len /\ d2 = t_pos
        BY <1>11, <1>12, <1>13, <2>3 DEF Keep
      <3>2. t_len > 1
        BY <1>3, <1>10, <1>14, <3>1
      <3>3. t_pos \in 1 .. win_size /\ t_len = Same(t_end - t_pos, t_end)
        BY <1>4, <3>2
      <3>4. win_size = e - t_start
        BY <1>6 DEF win_size
      <3> QED
        BY <1>6, <2>1, <3>1, <3>2, <3>3, <3>4
    <2> QED
      BY <2>2, <2>3
  <1>18. ASSUME NEW b \in t_start .. t_end - 1, b > p PROVE Beats(l2, d2, Same(b, e), e - b)
    <2>1. Beats(t_len, t_pos, Same(b, e), e - b)
      BY <1>4, <1>5, <1>15, <1>18
    <2>2. Same(b, e) \in Int /\ e - b \in Int
      BY <1>1, <1>6, <1>8, <1>9
    <2> QED
      BY <1>14, <2>1, <2>2
  <1>19. Beats(l2, d2, Same(p, e), e - p)
    BY <1>7, <1>14
  <1>20. CASE i = MaxMatch
    <2>1. node' = Nil
      BY <1>11, <1>20
    <2>2. ASSUME NEW b \in t_start .. t_end - 1, b < p PROVE Beats(l2, d2, Same(b, e), e - b)
      <3>1. Same(b, e) \in Int /\ Same(b, e) <= i /\ b \in Int /\ e - b > e - p
        <4>1. b \in Nat /\ e - b > e - p
          BY <1>1, <1>5, <1>6, <2>2
        <4>2. Same(b, e) \in 0 .. Most
          BY <1>9, <4>1
        <4>3. Same(b, e) \in Int /\ Same(b, e) <= MaxMatch
          BY ONLY <4>2, <1>8, Sizes
        <4> QED
          BY <1>20, <4>1, <4>3
      <3>2. i < l2 \/ (i = l2 /\ e - p >= d2)
        BY <1>14 DEF Beats
      <3> QED
        BY <1>10, <1>14, <3>1, <3>2 DEF Beats
    <2>3. ASSUME NEW b \in t_start .. t_end - 1 PROVE Beaten(b)'
      <3>1. b > p \/ b = p \/ b < p
        BY <1>1
      <3> QED
        BY <1>16, <1>18, <1>19, <2>2, <3>1
    <2> QED
      BY <1>2, <1>6, <1>12, <1>13, <1>16, <1>17, <2>1, <2>3, SameUnprimed DEF SearchInvariant
  <1>21. CASE i # MaxMatch
    <2>1. node' = next[p] /\ UNCHANGED <<root, prev, next>>
      BY <1>11, <1>21 DEF listVars
    <2>2. PICK x : x = next[p]
      OBVIOUS
    <2>3. IsLatest(x, MatesBefore(Linked, Pairs, p), Nil)
      BY <1>4, <1>5, <2>2 DEF ListsInvariant, Chained, Chains
    <2>4. \A c \in Linked : Pairs[c] = Pair(c)
      BY <1>1, PlaceFacts DEF InBlock
    <2>5. x = Nil \/ (x \in Linked /\ Pair(x) = Pair(e) /\ x < p)
      BY <1>4, <1>5, <1>6, <2>3, <2>4 DEF IsLatest, MatesBefore
    <2>6. ASSUME NEW c \in Linked, c > x, c < p PROVE Pair(c) # Pair(e)
      <3> SUFFICES ASSUME Pair(c) = Pair(e) PROVE FALSE
        OBVIOUS
      <3>1. c \in MatesBefore(Linked, Pairs, p)
        BY <1>4, <1>5, <1>6, <2>4, <2>6 DEF MatesBefore
      <3>2. c <= x /\ x \in Linked
        BY <2>3, <3>1 DEF IsLatest, MatesBefore
      <3> QED
        BY <1>1, <2>6, <3>2
    <2>7. ASSUME NEW c \in Linked, c > x, c < e PROVE Beats(l2, d2, Same(c, e), e - c)
      <3>1. c \in Nat /\ c \in t_start .. t_end - 1
        BY <1>1, <1>6, <2>7
      <3>2. CASE c > p
        BY <1>18, <3>1, <3>2
      <3>3. CASE c = p
        BY <1>19, <3>3
      <3>4. CASE c < p
        <4>1. Same(c, e) \in Int /\ Same(c, e) <= 1
          BY <1>8, <1>9, <2>6, <2>7, <3>1, <3>4
        <4> QED
          BY <1>14, <1>17, <4>1 DEF Beats
      <3> QED
        BY <3>1, <3>2, <3>3, <3>4
    <2>8. x \in Int
      <3>1. \A d \in Linked : d \in Int
        BY <1>1
      <3>2. Nil \in Int
        BY NoPosition
      <3> QED
        BY ONLY <2>5, <3>1, <3>2
    <2>9. ASSUME NEW b \in t_start .. t_end - 1, b > x PROVE Beaten(b)'
      <3>0. b \in Nat /\ b < e
        BY <1>1, <1>6
      <3>1. CASE b \in Linked
        BY <1>16, <2>7, <2>9, <3>0, <3>1
      <3>2. ASSUME NEW c \in Linked, b < c, c < t_end, Likeness(b, c) PROVE Beaten(b)'
        <4>1. c \in Nat /\ c > x /\ c < e /\ e - b >= e - c
          BY <1>1, <1>6, <2>8, <2>9, <3>0, <3>2
        <4>2. Same(b, e) = Same(c, e)
          <5>1. t_end \in 0 .. in_len
            BY <1>1
          <5> QED
            BY <1>1, <3>2, <5>1, LikeSame
        <4>3. Beats(l2, d2, Same(c, e), e - c)
          BY <2>7, <4>1
        <4>4. Beats(l2, d2, Same(b, e), e - b)
          BY <1>14, <3>0, <4>1, <4>2, <4>3 DEF Beats
        <4> QED
          BY <1>16, <4>4
      <3> QED
        BY <1>4, <3>1, <3>2
    <2>10. Linked' = Linked
      BY <1>5, <1>6, <1>7, <1>21, CompareKeeps
    <2>11. /\ \A b : Pair(b)' = Pair(b)
           /\ \A b, c : Likeness(b, c)' <=> Likeness(b, c)
      BY <1>2, SameBlock
    <2>12. x # Nil => /\ x \in Linked' /\ x < t_end /\ Pair(x) = Pair(e)
                      /\ \A b \in t_start .. t_end - 1 :
                           b \in Linked' \/ \E c \in Linked' : b < c /\ c < t_end /\ Likeness(b, c)'
      <3>1. x # Nil => x \in Linked /\ Pair(x) = Pair(e) /\ x < t_end
        BY <1>4, <1>5, <1>6, <2>5, <2>8
      <3> QED
        BY <1>4, <2>10, <2>11, <3>1
    <2>13. Pair(t_end)' = Pair(e)
      BY <1>2, <1>6 DEF Pair, Text, in_len
    <2> QED
      BY <1>2, <1>6, <1>12, <1>13, <1>17, <2>1, <2>2, <2>9, <2>11, <2>12, <2>13, SameUnprimed
         DEF SearchInvariant
  <1> QED
    BY <1>20, <1>21

-----------------------------------------------------------------------------
(***************************************************************************)
(* What has been found when the list is at its end is the best match.      *)
(***************************************************************************)
Best(d) == d \in Reach /\ \A e \in Reach : Alike(e) < Alike(d) \/ (Alike(e) = Alike(d) /\ d <= e)
Nearest ==
  CHOOSE d \in Reach : \A e \in Reach : Alike(e) < Alike(d) \/ (Alike(e) = Alike(d) /\ d <= e)

LEMMA BestUnprimed ==
  ASSUME UNCHANGED <<data, in_ptr>>
  PROVE  /\ in_len' = in_len /\ Reach' = Reach /\ Nearest' = Nearest
         /\ \A d : Alike(d)' = Alike(d)
  <1>1. in_len' = in_len /\ Reach' = Reach
    BY DEF in_len, Reach, Lesser
  <1>2. \A d : Alike(d)' = Alike(d)
    BY <1>1 DEF Alike, Lesser, MaxMatch
  <1>3. Nearest' = Nearest
    BY <1>1, <1>2 DEF Nearest
  <1> QED
    BY <1>1, <1>2, <1>3

(* l bytes at d as FoundIsBest wants them.                                 *)
FoundAs(l, d, best, length, some) ==
  IF some THEN l = Accept(length, best) /\ (l > 1 => d = best) ELSE l = 1

LEMMA FoundForm ==
  /\ FoundIsBest <=>
       (phase \in {"slide", "code"} /\ in_ptr < in_len =>
          FoundAs(t_len, t_pos, Nearest, Alike(Nearest), \E d \in Reach : Alike(d) > 1))
  /\ UNCHANGED <<data, in_ptr>> =>
       (FoundIsBest' <=>
         (phase' \in {"slide", "code"} /\ in_ptr < in_len =>
            FoundAs(t_len', t_pos', Nearest, Alike(Nearest), \E d \in Reach : Alike(d) > 1)))
  <1>1. FoundIsBest <=>
          (phase \in {"slide", "code"} /\ in_ptr < in_len =>
             FoundAs(t_len, t_pos, Nearest, Alike(Nearest), \E d \in Reach : Alike(d) > 1))
    BY DEF FoundIsBest, Nearest, FoundAs
  <1>2. FoundIsBest' <=>
          (phase' \in {"slide", "code"} /\ in_ptr' < in_len' =>
             FoundAs(t_len', t_pos', Nearest', Alike(Nearest)', (\E d \in Reach : Alike(d) > 1)'))
    BY DEF FoundIsBest, Nearest, FoundAs, Accept, Far, Near
  <1>3. ASSUME UNCHANGED <<data, in_ptr>>
        PROVE  /\ in_ptr' = in_ptr /\ in_len' = in_len /\ Nearest' = Nearest
               /\ Alike(Nearest)' = Alike(Nearest)
               /\ (\E d \in Reach : Alike(d) > 1)' <=> \E d \in Reach : Alike(d) > 1
    <2>1. /\ in_len' = in_len /\ Reach' = Reach /\ Nearest' = Nearest
          /\ \A d : Alike(d)' = Alike(d)
      BY <1>3, BestUnprimed
    <2>2. PICK n : n = Nearest
      OBVIOUS
    <2>3. Alike(Nearest)' = Alike(Nearest)
      <3>1. Alike(n)' = Alike(n)
        BY <2>1
      <3>2. n = Nearest'
        BY <2>1, <2>2
      <3> QED
        BY <1>3, <2>1, <2>2, <3>1, <3>2 DEF Alike
    <2>4. (\E d \in Reach : Alike(d) > 1)' <=> \E d \in Reach : Alike(d) > 1
      BY <2>1
    <2> QED
      BY <1>3, <2>1, <2>3, <2>4
  <1> QED
    BY <1>1, <1>2, <1>3

LEMMA FoundWhenBest ==
  ASSUME \A d \in Reach : Alike(d) \in Int /\ d \in Int,
         NEW l \in Int, NEW b \in Reach, l > 1, Alike(b) = l,
         \A d \in Reach : Alike(d) < l \/ (Alike(d) = l /\ d >= b)
  PROVE  /\ \E d \in Reach : Alike(d) > 1
         /\ Nearest = b
  <1>1. Best(b)
    BY DEF Best
  <1>2. ASSUME NEW d, Best(d) PROVE d = b
    <2>1. d \in Reach /\ d \in Int /\ b \in Int /\ Alike(d) \in Int
      BY <1>2 DEF Best
    <2>2. Alike(b) < Alike(d) \/ (Alike(b) = Alike(d) /\ d <= b)
      BY <1>2 DEF Best
    <2>3. Alike(d) < l \/ (Alike(d) = l /\ d >= b)
      BY <2>1
    <2> QED
      BY <2>1, <2>2, <2>3
  <1>3. Best(Nearest)
    BY <1>1 DEF Best, Nearest
  <1> QED
    BY <1>1, <1>2, <1>3 DEF Best

LEMMA ComparedFinds ==
  ASSUME InBlock, WindowInvariant, ListsInvariant, SearchInvariant, Compared
  PROVE  FoundIsBest'
  <1>1. /\ in_len \in Nat
        /\ t_start \in Nat /\ t_end \in Nat /\ t_start <= t_end /\ t_end <= in_len
        /\ in_ptr \in Nat /\ in_ptr <= in_len
    BY InWindow
  <1>2. /\ phase = "compare" /\ node = Nil /\ t_len' = Accept(t_len, t_pos) /\ t_pos' = t_pos
        /\ UNCHANGED <<data, in_ptr>>
    BY DEF Compared, Keep, coderVars
  <1>3. /\ t_end = in_ptr /\ t_len \in Int /\ t_pos \in Int /\ t_len >= 1
        /\ t_start = 0 \/ win_size = MaxWindow
        /\ win_size <= MaxWindow
    BY <1>1, <1>2, Sizes DEF WindowInvariant, InBlock
  <1>4. /\ \/ t_len = 1 /\ t_pos = 0
           \/ t_len > 1 /\ t_pos \in 1 .. win_size /\ t_len = Same(t_end - t_pos, t_end)
        /\ \A b \in t_start .. t_end - 1 : Beaten(b)
    <2>1. \A b \in t_start .. t_end - 1 : b > Nil
      BY <1>1, NoPosition
    <2> QED
      BY <1>2, <2>1 DEF SearchInvariant
  <1>5. Reach = 1 .. win_size /\ win_size = in_ptr - t_start
    <2>1. win_size = in_ptr - t_start
      BY <1>3 DEF win_size
    <2>2. Lesser(in_ptr, MaxWindow) = win_size
      BY <1>1, <1>3, <2>1, Sizes DEF Lesser
    <2> QED
      BY <2>1, <2>2 DEF Reach
  <1>6. ASSUME NEW d \in Reach
        PROVE  /\ d \in Int /\ in_ptr - d \in t_start .. t_end - 1
               /\ Alike(d) = Same(in_ptr - d, in_ptr) /\ Alike(d) \in Int
    <2>1. d \in 1 .. in_ptr /\ d \in Int /\ in_ptr - d \in t_start .. t_end - 1
      BY <1>1, <1>3, <1>5
    <2>2. in_ptr \in 0 .. in_len /\ t_end \in 0 .. in_len
      BY <1>1
    <2>3. Alike(d) = Same(in_ptr - d, in_ptr)
      BY <1>1, <1>3, <2>1, <2>2, AlikeSame
    <2>4. Fits(Same(in_ptr - d, in_ptr), Most, Differs(in_ptr - d, in_ptr)) /\ Most \in Nat
      BY <1>1, <2>2, SameFits, MostIsNat
    <2>5. Same(in_ptr - d, in_ptr) \in Int
      BY ONLY <2>4 DEF Fits
    <2> QED
      BY <2>1, <2>3, <2>5
  <1>7. ASSUME NEW d \in Reach
        PROVE  Alike(d) < t_len \/ (Alike(d) = t_len /\ d >= t_pos)
    <2>1. Beaten(in_ptr - d)
      BY <1>4, <1>6
    <2>2. t_end - (in_ptr - d) = d
      BY <1>1, <1>3, <1>6
    <2> QED
      BY <1>3, <1>6, <2>1, <2>2 DEF Beaten
  <1>8. FoundAs(t_len', t_pos', Nearest, Alike(Nearest), \E d \in Reach : Alike(d) > 1)
          => FoundIsBest'
    BY <1>2, FoundForm
  <1>9. CASE t_len = 1
    <2>1. ~ \E d \in Reach : Alike(d) > 1
      BY <1>6, <1>7, <1>9
    <2>2. t_len' = 1
      BY <1>2, <1>9 DEF Accept
    <2> QED
      BY <1>8, <2>1, <2>2 DEF FoundAs
  <1>10. CASE t_len > 1
    <2>1. t_pos \in Reach /\ t_len = Same(in_ptr - t_pos, in_ptr)
      BY <1>3, <1>4, <1>5, <1>10
    <2>2. Alike(t_pos) = t_len
      BY <1>6, <2>1
    <2>3. (\E d \in Reach : Alike(d) > 1) /\ Nearest = t_pos
      <3>1. PICK b \in Reach : b = t_pos
        BY <2>1
      <3>2. PICK l \in Int : l = t_len
        BY <1>3
      <3>3. /\ \A d \in Reach : Alike(d) \in Int /\ d \in Int
            /\ l > 1 /\ Alike(b) = l
            /\ \A d \in Reach : Alike(d) < l \/ (Alike(d) = l /\ d >= b)
        BY <1>6, <1>7, <1>10, <2>2, <3>1, <3>2
      <3> QED
        BY <3>1, <3>3, FoundWhenBest
    <2>4. t_len' = Accept(Alike(Nearest), Nearest) /\ t_pos' = Nearest
      BY <1>2, <2>2, <2>3
    <2> QED
      BY <1>8, <2>3, <2>4 DEF FoundAs
  <1> QED
    BY <1>3, <1>9, <1>10

(* The last byte has no match.                                             *)
LEMMA LastByteFinds ==
  ASSUME InBlock, WindowInvariant, ListsInvariant, LastByte
  PROVE  FoundIsBest'
  <1>1. /\ phase = "insert" /\ in_ptr = in_len - 1 /\ t_len' = 1 /\ UNCHANGED <<data, in_ptr>>
    BY DEF LastByte, Keep, coderVars
  <1>2. in_len \in Nat /\ in_ptr \in Nat /\ t_end = in_ptr /\ t_end \in 0 .. in_len
    BY <1>1, InWindow DEF WindowInvariant
  <1>3. ASSUME NEW d \in Reach PROVE ~(Alike(d) > 1)
    <2>1. d \in 1 .. in_ptr
      BY <1>2, <1>3, Sizes DEF Reach, Lesser
    <2>2. Alike(d) = Same(in_ptr - d, in_ptr)
      BY <1>2, <2>1, AlikeSame
    <2>3. Most \in Nat /\ Most <= 1
      BY <1>1, <1>2, MostIsNat DEF content_size
    <2>4. Fits(Alike(d), Most, Differs(in_ptr - d, in_ptr))
      BY <1>2, <2>2, SameFits
    <2> QED
      BY ONLY <2>3, <2>4 DEF Fits
  <1> QED
    BY <1>1, <1>3, FoundForm DEF FoundAs

-----------------------------------------------------------------------------
(***************************************************************************)
(* The invariant.                                                          *)
(***************************************************************************)
LEMMA LzInitially == LzInit => LzInvariant
  <1> SUFFICES ASSUME LzInit PROVE LzInvariant
    OBVIOUS
  <1> USE DEF LzInit
  <1>1. /\ in_len \in Nat /\ Places = 0 .. in_len
        /\ \A b \in Places : b \in Int /\ Pairs[b] = Pair(b) /\ Pair(b) \in Bytes \X Bytes
    BY PlaceFacts
  <1>2. Linked = {}
    BY DEF Linked
  <1>3. InBlock
    BY <1>1, Sizes DEF InBlock, ListTypes
  <1>4. WindowInvariant
    BY <1>1, Sizes DEF WindowInvariant, win_size
  <1>5. ListsInvariant
    <2>1. \A t \in Bytes \X Bytes : Mates(Linked, Pairs, t) = {} /\ root[t] = Nil
      BY <1>2 DEF Mates
    <2>2. Chained
      BY <1>2, <2>1 DEF Chained, Chains, IsLatest
    <2> QED
      BY <1>2, <2>2 DEF ListsInvariant
  <1>6. SearchInvariant
    BY DEF SearchInvariant
  <1>7. FoundIsBest
    BY DEF FoundIsBest
  <1> QED
    BY <1>3, <1>4, <1>5, <1>6, <1>7 DEF LzInvariant

LEMMA FoundStays ==
  ASSUME FoundIsBest, phase = "slide", UNCHANGED <<data, in_ptr, t_len, t_pos>>
  PROVE  FoundIsBest'
  BY FoundForm

LEMMA LzSteps == LzInvariant /\ [LzNext]_lzVars => LzInvariant'
  <1> SUFFICES ASSUME LzInvariant, [LzNext]_lzVars PROVE LzInvariant'
    OBVIOUS
  <1>0. InBlock /\ WindowInvariant /\ ListsInvariant /\ SearchInvariant /\ FoundIsBest
    BY DEF LzInvariant
  <1>1. CASE InsertNode
    <2>1. phase' = "compare"
      BY <1>1 DEF InsertNode
    <2>2. FoundIsBest'
      BY <2>1 DEF FoundIsBest
    <2> QED
      BY <1>0, <1>1, <2>2, InsertNodeKeeps, InsertNodeSearches DEF LzInvariant
  <1>2. CASE LastByte
    <2>1. SearchInvariant'
      BY <1>2 DEF LastByte, SearchInvariant
    <2> QED
      BY <1>0, <1>2, <2>1, LastByteKeeps, LastByteFinds DEF LzInvariant
  <1>3. CASE NoByte
    <2>1. SearchInvariant'
      BY <1>3 DEF NoByte, SearchInvariant
    <2>2. in_len' = in_len /\ in_ptr' = in_ptr /\ in_ptr = in_len /\ in_len \in Nat
      BY <1>0, <1>3, InWindow DEF NoByte, in_len, coderVars
    <2>3. FoundIsBest'
      BY <2>2 DEF FoundIsBest
    <2> QED
      BY <1>0, <1>3, <2>1, <2>3, NoByteKeeps DEF LzInvariant
  <1>4. CASE Compare
    <2>1. FoundIsBest'
      BY <1>4 DEF Compare, FoundIsBest
    <2> QED
      BY <1>0, <1>4, <2>1, CompareKeeps, CompareSearches DEF LzInvariant
  <1>5. CASE Compared
    <2>1. SearchInvariant'
      BY <1>5 DEF Compared, SearchInvariant
    <2> QED
      BY <1>0, <1>5, <2>1, ComparedKeeps, ComparedFinds DEF LzInvariant
  <1>6. CASE MakeRoom
    <2>1. phase = "slide" /\ phase' = "slide" /\ UNCHANGED <<data, in_ptr, t_len, t_pos>>
      BY <1>6 DEF MakeRoom, matchVars, coderVars
    <2>2. SearchInvariant'
      BY <2>1 DEF SearchInvariant
    <2> QED
      BY <1>0, <1>6, <2>1, <2>2, MakeRoomKeeps, FoundStays DEF LzInvariant
  <1>7. CASE Slide
    <2>1. phase = "slide" /\ phase' = "slide" /\ UNCHANGED <<data, in_ptr, t_len, t_pos>>
      BY <1>7 DEF Slide, coderVars
    <2>2. SearchInvariant'
      BY <2>1 DEF SearchInvariant
    <2> QED
      BY <1>0, <1>7, <2>1, <2>2, SlideKeeps, FoundStays DEF LzInvariant
  <1>8. CASE Slid
    <2>1. phase = "slide" /\ phase' = "code" /\ UNCHANGED <<data, in_ptr, t_len, t_pos>>
      BY <1>8 DEF Slid, coderVars
    <2>2. SearchInvariant'
      BY <2>1 DEF SearchInvariant
    <2> QED
      BY <1>0, <1>8, <2>1, <2>2, SlidKeeps, FoundStays DEF LzInvariant
  <1>9. CASE CodeByte \/ CodeMatch \/ CodeEnd
    <2>1. phase' = "decode"
      BY <1>9 DEF CodeByte, CodeMatch, CodeEnd
    <2>2. SearchInvariant' /\ FoundIsBest'
      BY <2>1 DEF SearchInvariant, FoundIsBest
    <2> QED
      BY <1>0, <1>9, <2>2, CodeKeeps DEF LzInvariant
  <1>10. CASE DecodeByte \/ DecodeMatch \/ DecodeEnd
    <2>1. phase' \in {"insert", "done"}
      BY <1>10 DEF DecodeByte, DecodeMatch, DecodeEnd
    <2>2. SearchInvariant' /\ FoundIsBest'
      BY <2>1 DEF SearchInvariant, FoundIsBest
    <2> QED
      BY <1>0, <1>10, <2>2, DecodeKeeps DEF LzInvariant
  <1>11. CASE UNCHANGED lzVars
    <2>1. /\ UNCHANGED <<data, stale, phase, listVars, windowVars, in_ptr, node, t_len, t_pos, slid>>
          /\ UNCHANGED <<root, prev, next, t_start, t_end>>
      BY <1>11 DEF lzVars, listVars, windowVars, matchVars, coderVars
    <2>2. /\ in_len' = in_len /\ Places' = Places
          /\ win_size' = win_size /\ ListTypes' /\ Chained' /\ Linked' = Linked
          /\ \A b, c : Likeness(b, c)' <=> Likeness(b, c)
          /\ \A p : Same(p, t_end)' = Same(p, t_end)
          /\ \A b : Pair(b)' = Pair(b)
      BY <1>0, <2>1, QuietLists, SameBlock, SameUnprimed
    <2>3. InBlock'
      BY <1>0, <2>1, <2>2 DEF InBlock
    <2>4. WindowInvariant'
      <3>1. /\ (Lesser(MaxMatch, in_len - in_ptr))' = Lesser(MaxMatch, in_len - in_ptr)
            /\ (Far(t_len, t_pos))' <=> Far(t_len, t_pos)
        BY <2>1, <2>2 DEF Lesser, MaxMatch, Far, Near
      <3> QED
        BY <1>0, <2>1, <2>2, <3>1 DEF WindowInvariant
    <2>5. ListsInvariant'
      BY <1>0, <2>1, <2>2 DEF ListsInvariant, Kept
    <2>6. SearchInvariant'
      BY <1>0, <2>1 DEF SearchInvariant, Beaten, Same, Linked, Likeness, Places, Pair, Text, in_len,
                        content_size, win_size, Lesser, MaxMatch
    <2>7. FoundIsBest'
      BY <1>0, <2>1, FoundForm
    <2> QED
      BY <2>3, <2>4, <2>5, <2>6, <2>7 DEF LzInvariant
  <1> QED
    BY <1>1, <1>2, <1>3, <1>4, <1>5, <1>6, <1>7, <1>8, <1>9, <1>10, <1>11 DEF LzNext

(***************************************************************************)
(* The types of the compressor, where its window is, the lists and the     *)
(* search: the invariant that insert_node, remove_node and update_tree     *)
(* keep together.                                                          *)
(***************************************************************************)
THEOREM LzInvariantHolds == LzSpec => []LzInvariant
  BY LzInitially, LzSteps, PTL DEF LzSpec

LEMMA LatestIs ==
  ASSUME NEW S, S \subseteq Int, NEW none, NEW x, IsLatest(x, S, none)
  PROVE  x = Latest(S, none)
  <1>1. CASE S = {}
    BY <1>1 DEF IsLatest, Latest
  <1>2. CASE S # {}
    <2>1. x \in S /\ \A c \in S : c <= x
      BY <1>2 DEF IsLatest
    <2>2. \A y \in S : (\A c \in S : c <= y) => y = x
      BY <2>1
    <2> QED
      BY <1>2, <2>1, <2>2 DEF Latest
  <1> QED
    BY <1>1, <1>2

LEMMA EarliestIs ==
  ASSUME NEW S, S \subseteq Int, NEW none, NEW x, IsEarliest(x, S, none)
  PROVE  x = Earliest(S, none)
  <1>1. CASE S = {}
    BY <1>1 DEF IsEarliest, Earliest
  <1>2. CASE S # {}
    <2>1. x \in S /\ \A c \in S : x <= c
      BY <1>2 DEF IsEarliest
    <2>2. \A y \in S : (\A c \in S : y <= c) => y = x
      BY <2>1
    <2> QED
      BY <1>2, <2>1, <2>2 DEF Earliest
  <1> QED
    BY <1>1, <1>2

LEMMA ChainsFromInvariant == LzInvariant => ChainsAreWindow
  <1> SUFFICES ASSUME LzInvariant, phase \in {"insert", "done"} PROVE ChainsAreWindow
    BY DEF ChainsAreWindow
  <1>0. InBlock /\ WindowInvariant /\ ListsInvariant
    BY DEF LzInvariant
  <1>1. /\ Linked \subseteq Places
        /\ \A c \in Linked : c \in Nat /\ t_start <= c /\ c <= t_end
        /\ t_start \in Nat /\ t_end \in Nat
    BY <1>0, InWindow
  <1>2. \A b \in Linked : Pairs[b] = Pair(b)
    BY <1>0, <1>1, PlaceFacts DEF InBlock
  <1>3. Chained /\ t_end \notin Linked
    BY <1>0 DEF ListsInvariant
  <1>4. Linked \subseteq t_start .. t_end - 1
    BY <1>1, <1>3
  <1>5. ASSUME NEW t \in Bytes \X Bytes
        PROVE  root[t] = Latest({b \in Linked : Pair(b) = t}, Nil)
    <2> DEFINE S == {b \in Linked : Pair(b) = t}
    <2>1. S \subseteq Int /\ S = Mates(Linked, Pairs, t)
      BY <1>1, <1>2 DEF Mates
    <2>2. IsLatest(root[t], S, Nil)
      BY <1>3, <2>1 DEF Chained, Chains
    <2> HIDE DEF S
    <2>3. root[t] = Latest(S, Nil)
      BY <2>1, <2>2, LatestIs
    <2> QED
      BY <2>3 DEF S
  <1>6. ASSUME NEW b \in Linked
        PROVE  LET alike == {c \in Linked : Pair(c) = Pair(b)}
               IN  /\ next[b] = Latest({c \in alike : c < b}, Nil)
                   /\ prev[b] = Earliest({c \in alike : c > b}, First)
    <2> DEFINE alike == {c \in Linked : Pair(c) = Pair(b)}
               S == {c \in alike : c < b}
               T == {c \in alike : c > b}
    <2>1. S \subseteq Int /\ T \subseteq Int
      BY <1>1
    <2>2. S = MatesBefore(Linked, Pairs, b) /\ T = MatesAfter(Linked, Pairs, b)
      BY <1>2 DEF MatesBefore, MatesAfter
    <2>3. IsLatest(next[b], S, Nil) /\ IsEarliest(prev[b], T, First)
      BY <1>3, <2>2 DEF Chained, Chains
    <2> HIDE DEF S, T
    <2>4. next[b] = Latest(S, Nil) /\ prev[b] = Earliest(T, First)
      BY <2>1, <2>3, LatestIs, EarliestIs
    <2> QED
      BY <2>4 DEF S, T
  <1>7. ASSUME NEW b \in (t_start .. t_end - 1) \ Linked
        PROVE  \/ b = in_len - 1
               \/ \E c \in Linked : b < c /\ \A k \in 0 .. MaxMatch - 1 : Text(b + k) = Text(c + k)
    BY <1>0, <1>7 DEF ListsInvariant, Kept, Likeness
  <1> QED
    BY <1>4, <1>5, <1>6, <1>7 DEF ChainsAreWindow

(***************************************************************************)
(* Between two steps the lists of insert_node and remove_node are the      *)
(* window, position by position, however often it has moved.               *)
(***************************************************************************)
THEOREM ListsAreTheWindow == LzSpec => []ChainsAreWindow
  BY LzInvariantHolds, ChainsFromInvariant, PTL

(***************************************************************************)
(* The match insert_node ends on is the longest in the window, and of      *)
(* those the nearest: positions that were removed are never missed.        *)
(***************************************************************************)
THEOREM BestMatchIsFound == LzSpec => []FoundIsBest
  <1>1. LzInvariant => FoundIsBest
    BY DEF LzInvariant
  <1> QED
    BY <1>1, LzInvariantHolds, PTL

-----------------------------------------------------------------------------
(***************************************************************************)
(* The bits of a number, as they are coded and as they are read.           *)
(***************************************************************************)
LEMMA BitsIs ==
  ASSUME NEW x \in Nat \ {0}
  PROVE  Bits(x) \in 0 .. x /\ 2 ^ Bits(x) <= x /\ x < 2 ^ (Bits(x) + 1)
  <1> DEFINE T == {k \in Nat : x < 2 ^ (k + 1)}
  <1>1. x \in T
    BY NumberBelowPower, TwoPower
  <1>2. PICK m \in T : \A k \in T : m <= k
    BY <1>1, LeastNat
  <1>3. m \in Nat /\ m <= x /\ x < 2 ^ (m + 1)
    BY <1>1, <1>2
  <1>4. 2 ^ m <= x
    <2>1. CASE m = 0
      <3>1. 2 ^ 0 <= x
        OBVIOUS
      <3> QED
        BY <2>1, <3>1
    <2>2. CASE m # 0
      <3>1. m - 1 \in Nat /\ m - 1 \notin T /\ (m - 1) + 1 = m
        BY <1>2, <1>3, <2>2
      <3>2. ~(x < 2 ^ m)
        BY <3>1
      <3> QED
        BY <1>3, <3>2, TwoPower
    <2> QED
      BY <2>1, <2>2
  <1>5. \E k \in 0 .. x : 2 ^ k <= x /\ x < 2 ^ (k + 1)
    BY <1>3, <1>4
  <1> QED
    BY <1>5, Zenon DEF Bits

LEMMA BitsBelow ==
  ASSUME NEW x \in Nat \ {0}, NEW k \in Nat, x < 2 ^ k
  PROVE  Bits(x) < k
  <1>1. Bits(x) \in Nat /\ 2 ^ Bits(x) <= x
    BY BitsIs
  <1> QED
    BY <1>1, PowersGrow, TwoPower

LEMMA BitsAre ==
  ASSUME NEW x \in Nat \ {0}, NEW k \in Nat, 2 ^ k <= x, x < 2 ^ (k + 1)
  PROVE  Bits(x) = k
  <1>1. Bits(x) \in Nat /\ x < 2 ^ (Bits(x) + 1) /\ Bits(x) + 1 \in Nat
    BY BitsIs
  <1>2. Bits(x) < k + 1
    BY BitsBelow
  <1>3. ~(Bits(x) + 1 <= k)
    BY <1>1, PowersGrow, TwoPower
  <1> QED
    BY <1>1, <1>2, <1>3

(* The leading bit is 1, and each further one is appended to those before. *)
LEMMA LeadingBit ==
  ASSUME NEW x \in Nat \ {0}
  PROVE  x \div 2 ^ Bits(x) = 1
  <1> DEFINE b == 2 ^ Bits(x)
  <1>1. b \in Nat \ {0} /\ b <= x /\ x < 2 * b
    BY BitsIs, TwoPower
  <1> HIDE DEF b
  <1>2. x = b * 1 + (x - b) /\ x - b \in Nat /\ x - b < b /\ 1 \in Nat /\ x \in Nat
    BY <1>1
  <1>3. x \div b = 1
    BY <1>1, <1>2, Quotient
  <1> QED
    BY <1>3 DEF b

LEMMA BitAppended ==
  ASSUME NEW x \in Nat, NEW k \in Nat
  PROVE  x \div 2 ^ k = 2 * (x \div 2 ^ (k + 1)) + BitOf(x, k)
  BY NextBit, TwoPower DEF BitOf

LEMMA WholeNumber ==
  ASSUME NEW x \in Nat
  PROVE  x \div 2 ^ 0 = x
  <1>1. 2 ^ 0 = 1 /\ x = 1 * x + 0 /\ 0 < 1
    OBVIOUS
  <1>2. 1 \in Nat \ {0} /\ 0 \in Nat
    OBVIOUS
  <1> QED
    BY <1>1, <1>2, Quotient

(***************************************************************************)
(* Number adds a bit at a time.                                            *)
(***************************************************************************)
Sums(f, n, at) ==
  f = [k \in 0 .. n |-> IF k = 0 THEN 1 ELSE 2 * f[k - 1] + Bit(at + k)]

LEMMA NumberDef ==
  ASSUME NEW at, NEW n
  PROVE  Number(at, n) = (CHOOSE f : Sums(f, n, at))[n]
  BY DEF Number, Sums

LEMMA SumsAgree ==
  ASSUME NEW at, NEW m \in Nat, NEW n \in Nat, m <= n,
         NEW f, NEW g, Sums(f, m, at), Sums(g, n, at)
  PROVE  f[m] = g[m]
  <1> DEFINE Bad == {k \in 0 .. m : f[k] # g[k]}
  <1>1. CASE Bad = {}
    BY <1>1
  <1>2. CASE Bad # {}
    <2>0. Bad \subseteq Nat
      OBVIOUS
    <2>1. PICK k \in Bad : \A j \in Bad : k <= j
      <3> HIDE DEF Bad
      <3> QED
        BY <1>2, <2>0, LeastNat
    <2>2. k \in 0 .. m /\ k \in 0 .. n /\ f[k] # g[k]
      BY <2>1
    <2>3. f[k] = (IF k = 0 THEN 1 ELSE 2 * f[k - 1] + Bit(at + k))
      BY <2>2 DEF Sums
    <2>4. g[k] = (IF k = 0 THEN 1 ELSE 2 * g[k - 1] + Bit(at + k))
      BY <2>2 DEF Sums
    <2>5. k # 0
      BY <2>2, <2>3, <2>4
    <2>6. k - 1 \in 0 .. m /\ k - 1 \notin Bad
      BY <2>1, <2>2, <2>5
    <2>7. f[k - 1] = g[k - 1]
      BY <2>6
    <2> QED
      BY <2>2, <2>3, <2>4, <2>5, <2>7, Zenon
  <1> QED
    BY <1>1, <1>2

LEMMA SumsExist ==
  ASSUME NEW at, NEW n \in Nat
  PROVE  \E f : Sums(f, n, at)
  <1> DEFINE Bad == {k \in Nat : ~\E f : Sums(f, k, at)}
  <1>1. CASE Bad = {}
    BY <1>1
  <1>2. CASE Bad # {}
    <2>1. PICK k \in Bad : \A j \in Bad : k <= j
      BY <1>2, LeastNat
    <2>2. k \in Nat /\ ~\E f : Sums(f, k, at)
      BY <2>1
    <2>3. k # 0
      <3> DEFINE f == [j \in 0 .. 0 |-> 1]
      <3>1. f = [j \in 0 .. 0 |-> IF j = 0 THEN 1 ELSE 2 * f[j - 1] + Bit(at + j)]
        OBVIOUS
      <3>2. Sums(f, 0, at)
        BY <3>1 DEF Sums
      <3> QED
        BY <2>2, <3>2, Zenon
    <2>4. k - 1 \in Nat /\ k - 1 \notin Bad
      BY <2>1, <2>2, <2>3
    <2>5. PICK f : Sums(f, k - 1, at)
      BY <2>4
    <2>6. f = [j \in 0 .. k - 1 |-> IF j = 0 THEN 1 ELSE 2 * f[j - 1] + Bit(at + j)]
      BY <2>5 DEF Sums
    <2> DEFINE g == [j \in 0 .. k |-> IF j = k THEN 2 * f[k - 1] + Bit(at + k) ELSE f[j]]
    <2>7. ASSUME NEW j \in 0 .. k
          PROVE  g[j] = (IF j = 0 THEN 1 ELSE 2 * g[j - 1] + Bit(at + j))
      <3>1. CASE j = k
        <4>1. k - 1 \in 0 .. k /\ k - 1 # k
          BY <2>2, <2>3
        <4>2. g[k - 1] = f[k - 1]
          BY <4>1
        <4>3. g[j] = 2 * f[k - 1] + Bit(at + k)
          BY <3>1
        <4> HIDE DEF g
        <4> QED
          BY <2>3, <3>1, <4>2, <4>3
      <3>2. CASE j # k /\ j = 0
        <4>1. 0 \in 0 .. k - 1 /\ g[j] = f[0]
          BY <2>2, <2>3, <3>2
        <4>2. f[0] = 1
          BY <2>6, <4>1
        <4> HIDE DEF g
        <4> QED
          BY <3>2, <4>1, <4>2
      <3>3. CASE j # k /\ j # 0
        <4>1. j \in 0 .. k - 1 /\ j - 1 \in 0 .. k /\ j - 1 # k
          BY <2>2, <3>3
        <4>2. g[j] = f[j] /\ g[j - 1] = f[j - 1]
          BY <3>3, <4>1
        <4>3. f[j] = 2 * f[j - 1] + Bit(at + j)
          BY <2>6, <3>3, <4>1
        <4> HIDE DEF g
        <4> QED
          BY <3>3, <4>2, <4>3
      <3> QED
        BY <3>1, <3>2, <3>3
    <2>8. g = [j \in 0 .. k |-> g[j]]
      OBVIOUS
    <2>9. Sums(g, k, at)
      <3> HIDE DEF g
      <3>1. g = [j \in 0 .. k |-> IF j = 0 THEN 1 ELSE 2 * g[j - 1] + Bit(at + j)]
        BY <2>7, <2>8
      <3> QED
        BY <3>1 DEF Sums
    <2> QED
      BY <2>2, <2>9, Zenon
  <1> QED
    BY <1>1, <1>2

LEMMA NumberIs ==
  ASSUME NEW at
  PROVE  /\ Number(at, 0) = 1
         /\ \A n \in Nat : Number(at, n + 1) = 2 * Number(at, n) + Bit(at + (n + 1))
  <1> DEFINE F(n) == CHOOSE f : Sums(f, n, at)
  <1>1. ASSUME NEW n \in Nat PROVE Sums(F(n), n, at) /\ Number(at, n) = F(n)[n]
    BY SumsExist, NumberDef, Zenon
  <1> HIDE DEF F
  <1>2. Number(at, 0) = 1
    <2>1. Sums(F(0), 0, at) /\ Number(at, 0) = F(0)[0]
      BY <1>1
    <2> QED
      BY <2>1 DEF Sums
  <1>3. ASSUME NEW n \in Nat PROVE Number(at, n + 1) = 2 * Number(at, n) + Bit(at + (n + 1))
    <2>1. n + 1 \in Nat /\ n + 1 \in 0 .. n + 1 /\ n + 1 # 0 /\ (n + 1) - 1 = n /\ n <= n + 1
      OBVIOUS
    <2>2. Sums(F(n + 1), n + 1, at) /\ Number(at, n + 1) = F(n + 1)[n + 1]
      BY <1>1, <2>1
    <2>3. F(n + 1)[n + 1] = 2 * F(n + 1)[n] + Bit(at + (n + 1))
      <3>1. ASSUME NEW f, Sums(f, n + 1, at) PROVE f[n + 1] = 2 * f[n] + Bit(at + (n + 1))
        BY <2>1, <3>1 DEF Sums
      <3> QED
        BY <2>2, <3>1, Zenon
    <2>4. Sums(F(n), n, at) /\ Number(at, n) = F(n)[n]
      BY <1>1
    <2>5. F(n)[n] = F(n + 1)[n]
      <3>1. \A f, g : Sums(f, n, at) /\ Sums(g, n + 1, at) => f[n] = g[n]
        BY <2>1, SumsAgree
      <3> QED
        BY <2>2, <2>4, <3>1, Zenon
    <2> QED
      BY <2>2, <2>3, <2>4, <2>5, Zenon
  <1> QED
    BY <1>2, <1>3

(* The bits of x from the first, at a place, are read as x.                *)
LEMMA NumberRead ==
  ASSUME NEW x \in Nat \ {0}, NEW at \in Nat,
         \A k \in 1 .. Bits(x) : Bit(at + k) = BitOf(x, Bits(x) - k)
  PROVE  /\ \A k \in 0 .. Bits(x) : Number(at, k) = x \div 2 ^ (Bits(x) - k)
         /\ Number(at, Bits(x)) = x
  <1> DEFINE n == Bits(x)
             Bad == {k \in 0 .. n : Number(at, k) # x \div 2 ^ (n - k)}
  <1>1. n \in Nat
    BY BitsIs
  <1>2. Bad = {}
    <2>1. SUFFICES ASSUME Bad # {} PROVE FALSE
      OBVIOUS
    <2>0. Bad \subseteq Nat
      BY <1>1
    <2>2. PICK k \in Bad : \A j \in Bad : k <= j
      <3> HIDE DEF Bad
      <3> QED
        BY <2>0, <2>1, LeastNat
    <2>3. k \in 0 .. n /\ Number(at, k) # x \div 2 ^ (n - k)
      BY <2>2
    <2>4. k # 0
      <3>1. n - 0 = n
        BY <1>1
      <3> QED
        BY <2>3, <3>1, NumberIs, LeadingBit
    <2>5. k - 1 \in Nat /\ k - 1 \in 0 .. n /\ k - 1 \notin Bad /\ (k - 1) + 1 = k /\ k \in 1 .. n
      BY <1>1, <2>2, <2>3, <2>4
    <2>6. Number(at, k - 1) = x \div 2 ^ (n - (k - 1))
      BY <2>5
    <2>7. Number(at, k) = 2 * Number(at, k - 1) + Bit(at + k)
      <3>1. Number(at, (k - 1) + 1) = 2 * Number(at, k - 1) + Bit(at + ((k - 1) + 1))
        BY <2>5, NumberIs
      <3> QED
        BY <2>5, <3>1
    <2>8. n - k \in Nat /\ (n - k) + 1 = n - (k - 1)
      BY <1>1, <2>5
    <2>9. x \div 2 ^ (n - k) = 2 * (x \div 2 ^ (n - (k - 1))) + BitOf(x, n - k)
      <3>1. x \div 2 ^ (n - k) = 2 * (x \div 2 ^ ((n - k) + 1)) + BitOf(x, n - k)
        BY <2>8, BitAppended
      <3> QED
        BY <2>8, <3>1
    <2>10. Bit(at + k) = BitOf(x, n - k)
      BY <2>5
    <2> HIDE DEF n
    <2> QED
      BY <2>3, <2>6, <2>7, <2>9, <2>10, Zenon
  <1>3. \A k \in 0 .. n : Number(at, k) = x \div 2 ^ (n - k)
    BY <1>2
  <1>4. n \in 0 .. n /\ n - n = 0
    BY <1>1
  <1>5. Number(at, n) = x
    BY <1>3, <1>4, WholeNumber
  <1> QED
    BY <1>3, <1>5

-----------------------------------------------------------------------------
(***************************************************************************)
(* The bits of one item, one sequence after the other.                     *)
(***************************************************************************)
IsList(f, n) == f = [k \in 1 .. n |-> f[k]]
Column(f) == [k \in DOMAIN f |-> f[k].prob]
Joins(h, f, g) == h = f \o g
Parts(h, f, m, g, n) == m \in Nat /\ n \in Nat /\ IsList(f, m) /\ IsList(g, n) /\ Joins(h, f, g)

LEMMA ListFacts ==
  ASSUME NEW f, NEW n \in Nat, IsList(f, n)
  PROVE  DOMAIN f = 1 .. n /\ Len(f) = n
  <1> DEFINE S == {f[k] : k \in 1 .. n}
  <1>1. DOMAIN f = 1 .. n
    BY DEF IsList
  <1>2. f \in [1 .. n -> S]
    BY DEF IsList
  <1> HIDE DEF S
  <1>3. f \in Seq(S)
    BY <1>2, SeqDef
  <1>4. Len(f) \in Nat /\ DOMAIN f = 1 .. Len(f)
    BY <1>3, LenProperties
  <1>5. Len(f) = n
    BY <1>1, <1>4
  <1> QED
    BY <1>1, <1>5

LEMMA JoinIs ==
  ASSUME NEW h, NEW f, NEW m, NEW g, NEW n, Parts(h, f, m, g, n)
  PROVE  /\ IsList(h, m + n)
         /\ \A k \in 1 .. m : h[k] = f[k]
         /\ \A k \in 1 .. n : h[m + k] = g[k]
  <1>1. m \in Nat /\ n \in Nat /\ IsList(f, m) /\ IsList(g, n) /\ Joins(h, f, g)
    BY DEF Parts
  <1> DEFINE S == {f[k] : k \in 1 .. m} \cup {g[k] : k \in 1 .. n}
  <1>2. Len(f) = m /\ Len(g) = n
    BY <1>1, ListFacts
  <1>3. f \in Seq(S) /\ g \in Seq(S)
    <2>1. f \in [1 .. m -> S] /\ g \in [1 .. n -> S]
      BY <1>1 DEF IsList
    <2> HIDE DEF S
    <2> QED
      BY <1>1, <2>1, SeqDef
  <1> HIDE DEF S
  <1>4. /\ h \in Seq(S) /\ Len(h) = m + n
        /\ \A k \in 1 .. m + n : h[k] = IF k <= m THEN f[k] ELSE g[k - m]
    BY <1>1, <1>2, <1>3, ConcatProperties DEF Joins
  <1>5. IsList(h, m + n)
    BY <1>4 DEF IsList
  <1>6. ASSUME NEW k \in 1 .. m PROVE h[k] = f[k]
    BY <1>1, <1>4
  <1>7. ASSUME NEW k \in 1 .. n PROVE h[m + k] = g[k]
    <2>1. m + k \in 1 .. m + n /\ ~(m + k <= m) /\ (m + k) - m = k
      BY <1>1
    <2> QED
      BY <1>4, <2>1
  <1> QED
    BY <1>5, <1>6, <1>7

LEMMA ColumnIs ==
  ASSUME NEW f, NEW n \in Nat, IsList(f, n)
  PROVE  IsList(Column(f), n) /\ \A k \in 1 .. n : Column(f)[k] = f[k].prob
  BY ListFacts DEF Column, IsList

LEMMA SameList ==
  ASSUME NEW f, NEW g, NEW n \in Nat, IsList(f, n), IsList(g, n), \A k \in 1 .. n : f[k] = g[k]
  PROVE  f = g
  BY DEF IsList

LEMMA ColumnJoin ==
  ASSUME NEW h, NEW f, NEW m, NEW g, NEW n, Parts(h, f, m, g, n)
  PROVE  Joins(Column(h), Column(f), Column(g))
  <1>1. m \in Nat /\ n \in Nat /\ m + n \in Nat /\ IsList(f, m) /\ IsList(g, n)
    BY DEF Parts
  <1>2. /\ IsList(h, m + n)
        /\ \A k \in 1 .. m : h[k] = f[k]
        /\ \A k \in 1 .. n : h[m + k] = g[k]
    BY JoinIs
  <1>3. IsList(Column(h), m + n) /\ \A k \in 1 .. m + n : Column(h)[k] = h[k].prob
    BY <1>1, <1>2, ColumnIs
  <1>4. PICK p, q, c : p = Column(f) /\ q = Column(g) /\ Joins(c, p, q)
    BY DEF Joins
  <1>5. IsList(p, m) /\ \A k \in 1 .. m : p[k] = f[k].prob
    BY <1>4, <1>1, ColumnIs
  <1>6. IsList(q, n) /\ \A k \in 1 .. n : q[k] = g[k].prob
    BY <1>4, <1>1, ColumnIs
  <1>7. Parts(c, p, m, q, n)
    BY <1>4, <1>1, <1>5, <1>6 DEF Parts
  <1>8. /\ IsList(c, m + n)
        /\ \A k \in 1 .. m : c[k] = p[k]
        /\ \A k \in 1 .. n : c[m + k] = q[k]
    BY <1>7, JoinIs
  <1>9. ASSUME NEW k \in 1 .. m + n PROVE Column(h)[k] = c[k]
    <2>1. CASE k <= m
      <3>1. k \in 1 .. m
        BY <1>1, <2>1
      <3> QED
        BY <1>2, <1>3, <1>5, <1>8, <3>1
    <2>2. CASE ~(k <= m)
      <3>1. PICK j \in 1 .. n : k = m + j
        <4>1. k - m \in 1 .. n /\ k = m + (k - m)
          BY <1>1, <2>2
        <4> QED
          BY <4>1
      <3> QED
        BY <1>2, <1>3, <1>6, <1>8, <3>1
    <2> QED
      BY <2>1, <2>2
  <1>10. Column(h) = c
    BY <1>1, <1>3, <1>8, <1>9, SameList
  <1> QED
    BY <1>4, <1>10 DEF Joins

(* What is read of a sequence of bits, and of one behind another.          *)
BitsAt(f, n, at) == \A k \in 1 .. n : Bit(at + k) = f[k].bit

LEMMA BitsOfParts ==
  ASSUME NEW h, NEW f, NEW m, NEW g, NEW n, Parts(h, f, m, g, n),
         NEW at \in Nat, BitsAt(h, m + n, at)
  PROVE  BitsAt(f, m, at) /\ BitsAt(g, n, at + m)
  <1>1. m \in Nat /\ n \in Nat
    BY DEF Parts
  <1>2. /\ \A k \in 1 .. m : h[k] = f[k]
        /\ \A k \in 1 .. n : h[m + k] = g[k]
    BY JoinIs
  <1>3. ASSUME NEW k \in 1 .. m PROVE Bit(at + k) = f[k].bit
    <2>1. k \in 1 .. m + n /\ h[k] = f[k]
      BY <1>1, <1>2
    <2> QED
      BY <2>1 DEF BitsAt
  <1>4. ASSUME NEW k \in 1 .. n PROVE Bit((at + m) + k) = g[k].bit
    <2>1. m + k \in 1 .. m + n /\ h[m + k] = g[k] /\ at + (m + k) = (at + m) + k
      BY <1>1, <1>2
    <2> QED
      BY <2>1 DEF BitsAt
  <1> QED
    BY <1>3, <1>4 DEF BitsAt

LEMMA AllBits ==
  ASSUME NEW n \in Nat, IsList(coded, n)
  PROVE  BitsAt(coded, n, 0)
  <1>1. Len(coded) = n
    BY ListFacts
  <1>2. ASSUME NEW k \in 1 .. n PROVE Bit(0 + k) = coded[k].bit
    BY <1>1 DEF Bit
  <1> QED
    BY <1>2 DEF BitsAt

(* re_bittree, re_number and what the decompressor makes of them.          *)
LEMMA NumberIsList ==
  ASSUME NEW probs, NEW n \in Nat, NEW number \in Nat
  PROVE  /\ IsList(re_number(probs, n, number), n)
         /\ \A k \in 1 .. n : re_number(probs, n, number)[k]
                                = Coded(<<probs, NumberProb(n, k)>>, BitOf(number, n - k))
         /\ Column(re_number(probs, n, number)) = rc_number(probs, n)
  <1>1. /\ IsList(re_number(probs, n, number), n)
        /\ \A k \in 1 .. n : re_number(probs, n, number)[k]
                               = Coded(<<probs, NumberProb(n, k)>>, BitOf(number, n - k))
    BY DEF re_number, IsList
  <1>2. /\ IsList(rc_number(probs, n), n)
        /\ \A k \in 1 .. n : rc_number(probs, n)[k] = <<probs, NumberProb(n, k)>>
    BY DEF rc_number, IsList
  <1> DEFINE f == re_number(probs, n, number)
             g == rc_number(probs, n)
  <1> HIDE DEF f, g
  <1>3. IsList(Column(f), n) /\ \A k \in 1 .. n : Column(f)[k] = f[k].prob
    BY <1>1, ColumnIs, Zenon DEF f
  <1>4. ASSUME NEW k \in 1 .. n PROVE Column(f)[k] = g[k]
    <2>1. f[k] = Coded(<<probs, NumberProb(n, k)>>, BitOf(number, n - k))
      BY <1>1 DEF f
    <2>2. f[k].prob = <<probs, NumberProb(n, k)>>
      BY <2>1 DEF Coded
    <2> QED
      BY <1>2, <1>3, <2>2 DEF g
  <1>5. Column(f) = g
    BY <1>2, <1>3, <1>4, SameList DEF g
  <1> QED
    BY <1>1, <1>5 DEF f, g

IsTree(f, n, probs, limit, number, w) ==
  /\ limit \in 2 .. 256 /\ number \in 0 .. limit - 1
  /\ w = number + limit /\ n = Bits(w)
  /\ f = re_bittree(probs, limit, number)

LEMMA TreeRead ==
  ASSUME NEW f, NEW n, NEW probs, NEW limit, NEW number, NEW w, NEW at \in Nat,
         IsTree(f, n, probs, limit, number, w), BitsAt(f, n, at)
  PROVE  /\ TreeBits(at, limit) = n /\ n \in 1 .. 8
         /\ Number(at, n) = w
         /\ rc_bittree(probs, limit, at) = Column(f)
  <1>1. /\ limit \in 2 .. 256 /\ number \in 0 .. limit - 1
        /\ w = number + limit /\ n = Bits(w)
        /\ f = re_bittree(probs, limit, number)
    BY DEF IsTree
  <1>2. w \in Nat \ {0} /\ limit \in Nat \ {0} /\ number \in Nat
    BY <1>1
  <1>3. n \in 1 .. 8
    <2>1. n \in Nat /\ w < 2 ^ (n + 1)
      BY <1>1, <1>2, BitsIs
    <2>2. 2 ^ 1 = 2 /\ 2 ^ 9 = 512
      OBVIOUS
    <2>3. w < 2 ^ 9 /\ 9 \in Nat
      BY <1>1, <2>2
    <2>4. n < 9
      BY <1>1, <1>2, <2>3, BitsBelow
    <2>5. n # 0
      <3>1. 2 ^ (0 + 1) = 2
        OBVIOUS
      <3>2. ~(w < 2)
        BY <1>1
      <3> QED
        BY <2>1, <3>1, <3>2
    <2> QED
      BY <2>1, <2>4, <2>5
  <1>4. IsList(f, n) /\ \A k \in 1 .. n : f[k] = Coded(<<probs, w \div 2 ^ (n - k + 1)>>, BitOf(w, n - k))
    <2>1. f = [k \in 1 .. n |-> Coded(<<probs, w \div 2 ^ (n - k + 1)>>, BitOf(w, n - k))]
      BY <1>1 DEF re_bittree
    <2> QED
      BY <2>1 DEF IsList
  <1>5. ASSUME NEW k \in 1 .. n
        PROVE  f[k].prob = <<probs, w \div 2 ^ (n - k + 1)>> /\ f[k].bit = BitOf(w, n - k)
               /\ Bit(at + k) = BitOf(w, n - k)
    <2>1. f[k] = Coded(<<probs, w \div 2 ^ (n - k + 1)>>, BitOf(w, n - k))
      BY <1>4
    <2>2. Bit(at + k) = f[k].bit
      BY DEF BitsAt
    <2> QED
      BY <2>1, <2>2 DEF Coded
  <1>6. (\A k \in 0 .. n : Number(at, k) = w \div 2 ^ (n - k)) /\ Number(at, n) = w
    BY <1>1, <1>2, <1>5, NumberRead
  <1>7. ASSUME NEW k \in 1 .. n - 1 PROVE Number(at, k) < limit
    <2>1. n - k \in Nat /\ 1 <= n - k /\ k \in 0 .. n
      BY <1>3
    <2>2. Number(at, k) = w \div 2 ^ (n - k)
      BY <1>6, <2>1
    <2> DEFINE b == 2 ^ (n - k)
    <2>3. b \in Nat \ {0} /\ 2 <= b
      <3>1. 2 ^ 1 <= b /\ b \in Nat \ {0}
        BY <2>1, PowersGrow, TwoPower
      <3>2. 2 ^ 1 = 2
        OBVIOUS
      <3> QED
        BY <3>1, <3>2
    <2> HIDE DEF b
    <2> DEFINE q == w \div b
    <2>4. q \in Nat /\ w % b \in 0 .. b - 1 /\ w = b * q + (w % b)
      BY <1>2, <2>3, Quotient
    <2>5. 2 * q <= w
      <3> HIDE DEF q
      <3>1. (b - 2) * q \in Nat
        BY <2>3, <2>4
      <3>2. b * q = 2 * q + (b - 2) * q
        BY <2>3, <2>4
      <3> QED
        BY <1>2, <2>3, <2>4, <3>1, <3>2
    <2>6. q < limit
      <3> HIDE DEF q
      <3> QED
        BY <1>1, <2>4, <2>5
    <2> QED
      BY <2>2, <2>6 DEF b
  <1>8. Number(at, n) >= limit
    BY <1>1, <1>6
  <1>9. TreeBits(at, limit) = n
    <2> DEFINE Ends(m) == Number(at, m) >= limit /\ \A k \in 1 .. m - 1 : Number(at, k) < limit
    <2>1. n \in 1 .. 9 /\ Ends(n)
      BY <1>3, <1>7, <1>8
    <2>2. ASSUME NEW m \in 1 .. 9, Ends(m) PROVE m = n
      <3>1. ~(m < n)
        <4>1. ASSUME m < n PROVE FALSE
          <5>1. Number(at, m) < limit /\ m \in 0 .. n
            BY <1>3, <1>7, <4>1
          <5>2. Number(at, m) \in Int
            <6>1. n - m \in Nat
              BY <1>3, <4>1
            <6>2. w \div 2 ^ (n - m) \in Nat
              BY <1>2, <6>1, TwoPower, Quotient
            <6> QED
              BY <1>6, <5>1, <6>2
          <5> QED
            BY <1>1, <2>2, <5>1, <5>2
        <4> QED
          BY <4>1
      <3>2. ~(n < m)
        <4>1. ASSUME n < m PROVE FALSE
          <5>1. n \in 1 .. m - 1
            BY <1>3, <4>1
          <5>2. Number(at, n) < limit
            BY <2>2, <5>1
          <5> HIDE DEF Ends
          <5> QED
            BY <1>1, <1>6, <1>8, <5>2
        <4> QED
          BY <4>1
      <3> HIDE DEF Ends
      <3> QED
        BY <1>3, <3>1, <3>2
    <2>3. TreeBits(at, limit) = CHOOSE m \in 1 .. 9 : Ends(m)
      BY DEF TreeBits
    <2> HIDE DEF Ends
    <2> QED
      BY <2>1, <2>2, <2>3
  <1>10. rc_bittree(probs, limit, at) = Column(f)
    <2> DEFINE g == rc_bittree(probs, limit, at)
    <2>1. g = [k \in 1 .. n |-> <<probs, Number(at, k - 1)>>]
      BY <1>9 DEF rc_bittree
    <2>2. IsList(g, n) /\ \A k \in 1 .. n : g[k] = <<probs, Number(at, k - 1)>>
      BY <2>1 DEF IsList
    <2>3. IsList(Column(f), n) /\ \A k \in 1 .. n : Column(f)[k] = f[k].prob
      BY <1>3, <1>4, ColumnIs
    <2> HIDE DEF g
    <2>4. ASSUME NEW k \in 1 .. n PROVE g[k] = Column(f)[k]
      <3>1. k - 1 \in 0 .. n /\ n - (k - 1) = n - k + 1
        BY <1>3
      <3>2. Number(at, k - 1) = w \div 2 ^ (n - k + 1)
        BY <1>6, <3>1
      <3>3. f[k].prob = <<probs, w \div 2 ^ (n - k + 1)>>
        BY <1>5
      <3> QED
        BY <2>2, <2>3, <3>2, <3>3
    <2> QED
      BY <1>3, <2>2, <2>3, <2>4, SameList DEF g
  <1> QED
    BY <1>3, <1>6, <1>9, <1>10

-----------------------------------------------------------------------------
(***************************************************************************)
(* The decompressor reads a byte, a length and a distance as they were     *)
(* coded, and asks for their bits with the same probabilities.             *)
(***************************************************************************)
LEMMA OneBit ==
  ASSUME NEW x
  PROVE  IsList(<<x>>, 1) /\ <<x>>[1] = x
  BY DEF IsList

LEMMA InStepIs == InStep <=> Asked = Column(coded)
  BY DEF InStep, Column

LEMMA TreeIsList ==
  ASSUME NEW tree, NEW n, NEW probs, NEW limit, NEW number, NEW w,
         IsTree(tree, n, probs, limit, number, w)
  PROVE  IsList(tree, n)
  <1>1. tree = [k \in 1 .. n |-> Coded(<<probs, w \div 2 ^ (n - k + 1)>>, BitOf(w, n - k))]
    BY DEF IsTree, re_bittree
  <1> QED
    BY <1>1 DEF IsList

(* A byte is the eight bits below the leading one of a number from 256 on. *)
LEMMA ByteSize ==
  ASSUME NEW w \in 256 .. 511, NEW k \in Nat, k = 8
  PROVE  Bits(w) = k
  <1>1. 2 ^ k = 256
    BY SMT
  <1>2. 2 ^ (k + 1) = 2 * 2 ^ k
    BY TwoPower
  <1>3. w \in Nat \ {0} /\ 2 ^ k <= w /\ w < 2 ^ (k + 1)
    BY <1>1, <1>2
  <1> QED
    BY <1>3, BitsAre

LEMMA LiteralDecodes ==
  ASSUME NEW b \in 0 .. 255, coded = Literal(b, rc_state, decoded_last)
  PROVE  InStep /\ Bit(1) = 0 /\ Number(1, 8) - 256 = b
  <1>1. PICK limit, n, w, probs, bit, head, tree :
          /\ limit = 256 /\ n = 8 /\ w = b + limit
          /\ probs = LiteralProbs(decoded_last)
          /\ bit = Coded(MatchProb(rc_state, 0), 0)
          /\ head = <<bit>>
          /\ tree = re_bittree(probs, limit, b)
    OBVIOUS
  <1>2. IsList(head, 1) /\ head[1] = bit
    BY <1>1, OneBit
  <1>3. n \in Nat /\ IsTree(tree, n, probs, limit, b, w)
    <2>1. w \in 256 .. 511 /\ n \in Nat /\ n = 8
      BY <1>1
    <2>2. Bits(w) = n
      BY <2>1, ByteSize
    <2>3. limit \in 2 .. 256 /\ b \in 0 .. limit - 1
      BY <1>1
    <2> QED
      BY <1>1, <2>1, <2>2, <2>3 DEF IsTree
  <1>4. IsList(tree, n)
    BY <1>3, TreeIsList
  <1>5. Parts(coded, head, 1, tree, n)
    <2>1. Joins(coded, head, tree)
      BY <1>1 DEF Joins, Literal
    <2> QED
      BY <1>2, <1>3, <1>4, <2>1 DEF Parts
  <1>6. IsList(coded, 1 + n) /\ 1 + n \in Nat
    <2>1. IsList(coded, 1 + n)
      BY <1>5, JoinIs
    <2> QED
      BY <1>3, <2>1
  <1>7. BitsAt(coded, 1 + n, 0)
    BY <1>6, AllBits
  <1>8. BitsAt(head, 1, 0) /\ BitsAt(tree, n, 0 + 1)
    BY <1>5, <1>7, BitsOfParts
  <1>9. Bit(1) = 0
    <2>1. Bit(0 + 1) = head[1].bit
      BY <1>8 DEF BitsAt
    <2>2. bit.bit = 0
      BY <1>1 DEF Coded
    <2> QED
      BY <1>2, <2>1, <2>2
  <1>10. Number(1, n) = b + limit /\ rc_bittree(probs, limit, 1) = Column(tree)
    <2> DEFINE at == 1
    <2>2. at \in Nat /\ BitsAt(tree, n, at)
      BY <1>8
    <2> HIDE DEF at
    <2>3. Number(at, n) = w /\ rc_bittree(probs, limit, at) = Column(tree)
      BY <1>3, <2>2, TreeRead
    <2> QED
      BY <1>1, <2>3 DEF at
  <1>11. Column(head) = <<MatchProb(rc_state, 0)>>
    <2>1. IsList(Column(head), 1) /\ Column(head)[1] = head[1].prob
      BY <1>2, ColumnIs
    <2>2. bit.prob = MatchProb(rc_state, 0)
      BY <1>1 DEF Coded
    <2> DEFINE one == <<MatchProb(rc_state, 0)>>
    <2>3. IsList(one, 1) /\ one[1] = MatchProb(rc_state, 0)
      BY OneBit
    <2> HIDE DEF one
    <2>4. Column(head) = one
      BY <1>2, <2>1, <2>2, <2>3, SameList
    <2> QED
      BY <2>4 DEF one
  <1>12. Asked = Column(coded)
    <2>1. Joins(Column(coded), Column(head), Column(tree))
      BY <1>5, ColumnJoin
    <2>2. Asked = <<MatchProb(rc_state, 0)>> \o rc_bittree(probs, limit, 1)
      BY <1>1, <1>9 DEF Asked, AskedByte
    <2> QED
      BY <1>10, <1>11, <2>1, <2>2 DEF Joins
  <1>13. Number(1, 8) - 256 = b
    BY <1>1, <1>10
  <1> QED
    BY <1>9, <1>12, <1>13, InStepIs

(* The length.                                                             *)
LEMMA LengthBits ==
  ASSUME NEW l \in 2 .. EndMark
  PROVE  /\ LenBits(l) = Bits(l - 1) /\ LenBits(l) \in 0 .. LenFlags
         /\ l - 1 \in Nat \ {0}
         /\ Lesser(LenBits(l) + 1, LenFlags) \in Nat
         /\ LenBits(l) < LenFlags => Lesser(LenBits(l) + 1, LenFlags) = LenBits(l) + 1
         /\ LenBits(l) = LenFlags => Lesser(LenBits(l) + 1, LenFlags) = LenFlags
  <1>1. LenFlags \in Nat /\ LenFlags + 1 \in Nat
    BY LzrcConstants
  <1>2. EndMark = 2 ^ (LenFlags + 1) /\ 2 ^ (LenFlags + 1) \in Nat
    BY <1>1, TwoPower DEF EndMark, MaxMatch
  <1>3. l - 1 \in Nat \ {0} /\ l - 1 < 2 ^ (LenFlags + 1)
    BY <1>2
  <1>4. Bits(l - 1) < LenFlags + 1 /\ Bits(l - 1) \in Nat
    BY <1>1, <1>3, BitsBelow, BitsIs
  <1>5. LenBits(l) = Bits(l - 1)
    BY <1>1, <1>4 DEF LenBits, Lesser
  <1> QED
    BY <1>1, <1>3, <1>4, <1>5 DEF Lesser

IsLength(flags, m, number, n, l, state, ptr) ==
  /\ n = LenBits(l) /\ m = Lesser(n + 1, LenFlags)
  /\ flags = LenFlag(l, state)
  /\ number = re_number(LenProbs(state, n, ptr), n, l - 1)

LEMMA LengthList ==
  ASSUME NEW l \in 2 .. EndMark, NEW state, NEW ptr, NEW n, NEW m, NEW flags, NEW number,
         IsLength(flags, m, number, n, l, state, ptr)
  PROVE  /\ n \in Nat /\ m \in Nat
         /\ IsList(flags, m)
         /\ \A k \in 1 .. m : flags[k].prob = MatchProb(state, k)
                              /\ flags[k].bit = IF k <= n THEN 1 ELSE 0
         /\ IsList(number, n)
         /\ \A k \in 1 .. n : number[k].bit = BitOf(l - 1, n - k)
         /\ Column(number) = rc_number(LenProbs(state, n, ptr), n)
         /\ CodedLen(l, state, ptr) = (<<Coded(MatchProb(state, 0), 1)>> \o flags) \o number
  <1>1. /\ n = LenBits(l) /\ m = Lesser(n + 1, LenFlags)
        /\ flags = LenFlag(l, state)
        /\ number = re_number(LenProbs(state, n, ptr), n, l - 1)
    BY DEF IsLength
  <1>2. n \in Nat /\ m \in Nat /\ l - 1 \in Nat
    BY <1>1, LengthBits
  <1>3. flags = [k \in 1 .. m |-> Coded(MatchProb(state, k), IF k <= n THEN 1 ELSE 0)]
    BY <1>1 DEF LenFlag
  <1>4. IsList(flags, m)
    BY <1>3 DEF IsList
  <1>5. ASSUME NEW k \in 1 .. m
        PROVE  flags[k].prob = MatchProb(state, k) /\ flags[k].bit = IF k <= n THEN 1 ELSE 0
    BY <1>3 DEF Coded
  <1>6. /\ IsList(number, n)
        /\ \A k \in 1 .. n : number[k] = Coded(<<LenProbs(state, n, ptr), NumberProb(n, k)>>,
                                              BitOf(l - 1, n - k))
        /\ Column(number) = rc_number(LenProbs(state, n, ptr), n)
    BY <1>1, <1>2, NumberIsList
  <1>7. ASSUME NEW k \in 1 .. n PROVE number[k].bit = BitOf(l - 1, n - k)
    <2>1. number[k] = Coded(<<LenProbs(state, n, ptr), NumberProb(n, k)>>, BitOf(l - 1, n - k))
      BY <1>6
    <2> QED
      BY <2>1 DEF Coded
  <1>8. CodedLen(l, state, ptr) = (<<Coded(MatchProb(state, 0), 1)>> \o flags) \o number
    BY <1>1 DEF CodedLen
  <1> QED
    BY <1>2, <1>4, <1>5, <1>6, <1>7, <1>8

(* The ones before the first zero are counted.                             *)
LEMMA FlagsCounted ==
  ASSUME NEW n \in 0 .. LenFlags, NEW m, m = Lesser(n + 1, LenFlags),
         \A k \in 1 .. m : Bit(1 + k) = IF k <= n THEN 1 ELSE 0
  PROVE  len_bits = n /\ lenAt = 1 + m
  <1>1. LenFlags \in Nat /\ n \in Nat
    BY LzrcConstants
  <1>2. {k \in 1 .. LenFlags : \A j \in 1 .. k : Bit(1 + j) = 1} = 1 .. n
    <2>1. CASE n < LenFlags
      <3>1. m = n + 1
        BY <1>1, <2>1 DEF Lesser
      <3>2. \A k \in 1 .. n : Bit(1 + k) = 1
        BY <1>1, <3>1
      <3>3. Bit(1 + (n + 1)) = 0
        BY <1>1, <3>1
      <3>4. ASSUME NEW k \in 1 .. LenFlags
            PROVE  (\A j \in 1 .. k : Bit(1 + j) = 1) <=> k \in 1 .. n
        <4>1. CASE k <= n
          BY <1>1, <3>2, <4>1
        <4>2. CASE ~(k <= n)
          <5>1. n + 1 \in 1 .. k
            BY <1>1, <4>2
          <5> QED
            BY <3>3, <4>2, <5>1
        <4> QED
          BY <4>1, <4>2
      <3>5. 1 .. n \subseteq 1 .. LenFlags
        BY <1>1
      <3> QED
        BY <3>4, <3>5
    <2>2. CASE n = LenFlags
      <3>1. m = n
        BY <1>1, <2>2 DEF Lesser
      <3>2. \A k \in 1 .. n : Bit(1 + k) = 1
        BY <1>1, <3>1
      <3>3. ASSUME NEW k \in 1 .. LenFlags PROVE \A j \in 1 .. k : Bit(1 + j) = 1
        BY <1>1, <2>2, <3>2
      <3> QED
        BY <2>2, <3>3
    <2> QED
      BY <1>1, <2>1, <2>2
  <1>3. Cardinality(1 .. n) = n
    <2>1. Cardinality(1 .. n) = IF 1 > n THEN 0 ELSE n - 1 + 1
      BY <1>1, FS_Interval
    <2> QED
      BY <1>1, <2>1
  <1>4. len_bits = n
    BY <1>2, <1>3 DEF len_bits
  <1> QED
    BY <1>4 DEF lenAt

LEMMA LenDecodes ==
  ASSUME NEW l \in 2 .. EndMark, NEW c, c = CodedLen(l, rc_state, out_ptr),
         NEW size, size = 1 + Lesser(LenBits(l) + 1, LenFlags) + LenBits(l)
  PROVE  /\ IsList(c, size) /\ size \in Nat
         /\ BitsAt(c, size, 0) =>
              /\ Bit(1) = 1
              /\ len_bits = LenBits(l) /\ match_len = l - 1 /\ distBitsAt = size
              /\ AskedLen = Column(c)
  <1>1. PICK n, m, probs, bit, head, flags, number, front :
          /\ n = LenBits(l) /\ m = Lesser(n + 1, LenFlags)
          /\ probs = LenProbs(rc_state, n, out_ptr)
          /\ bit = Coded(MatchProb(rc_state, 0), 1)
          /\ head = <<bit>>
          /\ flags = LenFlag(l, rc_state)
          /\ number = re_number(probs, n, l - 1)
          /\ Joins(front, head, flags)
    BY DEF Joins
  <1>2. Joins(front, head, flags)
    BY <1>1
  <1>3. /\ n \in 0 .. LenFlags /\ n \in Nat /\ m \in Nat /\ n = Bits(l - 1)
        /\ l - 1 \in Nat \ {0}
    <2>1. /\ LenBits(l) \in 0 .. LenFlags /\ Lesser(LenBits(l) + 1, LenFlags) \in Nat
          /\ LenBits(l) = Bits(l - 1) /\ l - 1 \in Nat \ {0}
      BY LengthBits
    <2> QED
      BY <1>1, <2>1, LzrcConstants
  <1>4. /\ IsList(flags, m)
        /\ \A k \in 1 .. m : flags[k].prob = MatchProb(rc_state, k)
                             /\ flags[k].bit = IF k <= n THEN 1 ELSE 0
        /\ IsList(number, n)
        /\ \A k \in 1 .. n : number[k].bit = BitOf(l - 1, n - k)
        /\ Column(number) = rc_number(probs, n)
        /\ c = (<<Coded(MatchProb(rc_state, 0), 1)>> \o flags) \o number
    <2>1. PICK state, ptr : state = rc_state /\ ptr = out_ptr
      OBVIOUS
    <2>2. IsLength(flags, m, number, n, l, state, ptr)
      BY <1>1, <2>1 DEF IsLength
    <2>3. /\ IsList(flags, m)
          /\ \A k \in 1 .. m : flags[k].prob = MatchProb(state, k)
                               /\ flags[k].bit = IF k <= n THEN 1 ELSE 0
          /\ IsList(number, n)
          /\ \A k \in 1 .. n : number[k].bit = BitOf(l - 1, n - k)
          /\ Column(number) = rc_number(LenProbs(state, n, ptr), n)
          /\ CodedLen(l, state, ptr) = (<<Coded(MatchProb(state, 0), 1)>> \o flags) \o number
      BY <2>2, LengthList
    <2> QED
      BY <1>1, <2>1, <2>3
  <1>5. IsList(head, 1) /\ head[1] = bit /\ 1 \in Nat
    BY <1>1, OneBit
  <1>6. Parts(front, head, 1, flags, m)
    BY <1>2, <1>3, <1>4, <1>5 DEF Parts
  <1>7. /\ IsList(front, 1 + m) /\ 1 + m \in Nat
        /\ \A k \in 1 .. 1 : front[k] = head[k]
        /\ \A k \in 1 .. m : front[1 + k] = flags[k]
    <2>1. /\ IsList(front, 1 + m)
          /\ \A k \in 1 .. 1 : front[k] = head[k]
          /\ \A k \in 1 .. m : front[1 + k] = flags[k]
      BY <1>6, JoinIs
    <2> QED
      BY <1>3, <2>1
  <1>8. Parts(c, front, 1 + m, number, n)
    <2>1. Joins(c, front, number)
      BY <1>1, <1>4 DEF Joins
    <2> QED
      BY <1>3, <1>4, <1>7, <2>1 DEF Parts
  <1>9. size = (1 + m) + n /\ size \in Nat /\ IsList(c, size)
    <2>1. size = (1 + m) + n /\ size \in Nat
      BY <1>1, <1>3
    <2>2. IsList(c, (1 + m) + n)
      BY <1>8, JoinIs
    <2> QED
      BY <2>1, <2>2
  <1>10. SUFFICES ASSUME BitsAt(c, size, 0)
                 PROVE  /\ Bit(1) = 1
                        /\ len_bits = LenBits(l) /\ match_len = l - 1 /\ distBitsAt = size
                        /\ AskedLen = Column(c)
    BY <1>9
  <1>11. BitsAt(front, 1 + m, 0) /\ BitsAt(number, n, 0 + (1 + m))
    <2>1. BitsAt(c, (1 + m) + n, 0) /\ 0 \in Nat
      BY <1>9, <1>10
    <2> QED
      BY <1>8, <2>1, BitsOfParts
  <1>12. BitsAt(head, 1, 0) /\ BitsAt(flags, m, 0 + 1)
    <2>1. 0 \in Nat
      OBVIOUS
    <2> QED
      BY <1>6, <1>11, <2>1, BitsOfParts
  <1>13. Bit(1) = 1
    <2>1. Bit(0 + 1) = head[1].bit
      BY <1>12 DEF BitsAt
    <2>2. bit.bit = 1
      BY <1>1 DEF Coded
    <2> QED
      BY <1>5, <2>1, <2>2
  <1>14. len_bits = n /\ lenAt = 1 + m
    <2>1. \A k \in 1 .. m : Bit(1 + k) = IF k <= n THEN 1 ELSE 0
      BY <1>4, <1>12 DEF BitsAt
    <2> QED
      BY <1>1, <1>3, <2>1, FlagsCounted
  <1>15. match_len = l - 1
    <2>1. PICK x, at : x = l - 1 /\ at = 1 + m
      OBVIOUS
    <2>2. x \in Nat \ {0} /\ at \in Nat /\ n = Bits(x)
      BY <1>3, <2>1
    <2>3. \A k \in 1 .. Bits(x) : Bit(at + k) = BitOf(x, Bits(x) - k)
      <3>1. BitsAt(number, n, at)
        BY <1>3, <1>11, <2>1
      <3>2. \A k \in 1 .. n : number[k].bit = BitOf(x, n - k)
        BY <1>4, <2>1
      <3> QED
        BY <2>2, <3>1, <3>2 DEF BitsAt
    <2>4. Number(at, n) = x
      BY <2>2, <2>3, NumberRead
    <2> QED
      BY <1>14, <2>1, <2>4 DEF match_len
  <1>16. Column(front) = [k \in 1 .. lenAt |-> MatchProb(rc_state, k - 1)]
    <2> DEFINE asked == [k \in 1 .. lenAt |-> MatchProb(rc_state, k - 1)]
    <2>1. IsList(asked, 1 + m) /\ \A k \in 1 .. 1 + m : asked[k] = MatchProb(rc_state, k - 1)
      BY <1>14 DEF IsList
    <2>2. IsList(Column(front), 1 + m) /\ \A k \in 1 .. 1 + m : Column(front)[k] = front[k].prob
      BY <1>7, ColumnIs
    <2> HIDE DEF asked
    <2>3. ASSUME NEW k \in 1 .. 1 + m PROVE Column(front)[k] = asked[k]
      <3>1. CASE k = 1
        <4>1. front[k] = bit
          BY <1>5, <1>7, <3>1
        <4>2. bit.prob = MatchProb(rc_state, k - 1)
          BY <1>1, <3>1 DEF Coded
        <4> QED
          BY <2>1, <2>2, <4>1, <4>2
      <3>2. CASE k # 1
        <4>1. PICK j \in 1 .. m : k = 1 + j
          <5>1. k - 1 \in 1 .. m /\ k = 1 + (k - 1)
            BY <1>3, <3>2
          <5> QED
            BY <5>1
        <4>2. front[k] = flags[j] /\ k - 1 = j
          BY <1>3, <1>7, <4>1
        <4>3. flags[j].prob = MatchProb(rc_state, k - 1)
          BY <1>4, <4>2
        <4> QED
          BY <2>1, <2>2, <4>2, <4>3
      <3> QED
        BY <3>1, <3>2
    <2>4. Column(front) = asked
      BY <1>7, <2>1, <2>2, <2>3, SameList
    <2> QED
      BY <2>4 DEF asked
  <1>17. AskedLen = Column(c)
    <2>1. Joins(Column(c), Column(front), Column(number))
      BY <1>8, ColumnJoin
    <2>2. AskedLen = Column(front) \o rc_number(probs, n)
      BY <1>1, <1>14, <1>16 DEF AskedLen
    <2> QED
      BY <1>4, <2>1, <2>2 DEF Joins
  <1> QED
    BY <1>1, <1>9, <1>13, <1>14, <1>15, <1>17 DEF distBitsAt

(* The number of bits of a distance is below its limit.                    *)
LEMMA DistanceBits ==
  ASSUME NEW l \in 2 .. MaxMatch, NEW d \in 1 .. MaxWindow, ~Far(l, d),
         NEW limit, limit = IF LongMatch(l) THEN FarLimit ELSE NearLimit,
         NEW nb, nb = Bits(d)
  PROVE  limit \in 2 .. 256 /\ nb \in 0 .. limit - 1
  <1>1. limit \in 2 .. 256
    BY LzrcConstants DEF FarLimit
  <1>2. d \in Nat \ {0} /\ d <= 16384
    BY LzrcConstants
  <1>3. nb \in Nat
    BY <1>2, BitsIs
  <1>4. CASE LongMatch(l)
    <2>1. PICK k \in Nat : k = 15
      OBVIOUS
    <2>2. 2 ^ k = 32768
      BY <2>1, SMT
    <2>3. nb < k
      BY <1>2, <2>2, BitsBelow
    <2> QED
      BY <1>1, <1>3, <1>4, <2>1, <2>3 DEF FarLimit
  <1>5. CASE ~LongMatch(l)
    <2>1. NearLimit \in Nat /\ limit = NearLimit
      BY <1>5, LzrcConstants
    <2>2. l < Short
      <3>1. LenFlags + 1 \in Nat /\ MaxMatch \in Int
        BY LzrcConstants, TwoPower DEF MaxMatch
      <3> QED
        BY <1>5, <3>1 DEF LongMatch, Short
    <2>3. 2 ^ NearLimit \in Nat
      BY <2>1, TwoPower
    <2>4. d < 2 ^ NearLimit
      BY <1>2, <2>2, <2>3 DEF Far, Near
    <2>5. nb < NearLimit
      BY <1>2, <2>1, <2>4, BitsBelow
    <2> QED
      BY <1>1, <1>3, <2>1, <2>5
  <1> QED
    BY <1>4, <1>5

LEMMA DistDecodes ==
  ASSUME NEW l \in 2 .. MaxMatch, NEW d \in 1 .. MaxWindow, ~Far(l, d),
         NEW c, c = CodedDist(l, d), NEW at \in Nat
  PROVE  \E size \in Nat :
           /\ IsList(c, size)
           /\ /\ len_bits = LenBits(l) /\ match_len = l - 1 /\ distBitsAt = at
              /\ BitsAt(c, size, at)
              => match_dist = d /\ AskedDist = Column(c)
  <1>1. PICK limit, nb, n, w, probs, tree, number :
          /\ limit = IF LongMatch(l) THEN FarLimit ELSE NearLimit
          /\ nb = Bits(d) /\ w = nb + limit /\ n = Bits(w)
          /\ probs = DistBitsProbs(LenBits(l), LongMatch(l))
          /\ tree = re_bittree(probs, limit, nb)
          /\ number = re_number(DistProbs(nb), nb, d)
    OBVIOUS
  <1>2. limit \in 2 .. 256 /\ nb \in 0 .. limit - 1 /\ nb \in Nat
    <2>1. limit \in 2 .. 256 /\ nb \in 0 .. limit - 1
      BY <1>1, DistanceBits
    <2> QED
      BY <2>1
  <1>3. IsTree(tree, n, probs, limit, nb, w)
    BY <1>1, <1>2 DEF IsTree
  <1>4. d \in Nat \ {0}
    BY LzrcConstants
  <1>5. n \in Nat
    <2>1. w \in Nat \ {0}
      BY <1>1, <1>2
    <2> QED
      BY <1>1, <2>1, BitsIs
  <1>6. IsList(tree, n)
    BY <1>3, TreeIsList
  <1>7. /\ IsList(number, nb)
        /\ \A k \in 1 .. nb : number[k].bit = BitOf(d, nb - k)
        /\ Column(number) = rc_number(DistProbs(nb), nb)
    <2>1. PICK p : p = DistProbs(nb)
      OBVIOUS
    <2>2. /\ IsList(re_number(p, nb, d), nb)
          /\ \A k \in 1 .. nb : re_number(p, nb, d)[k] = Coded(<<p, NumberProb(nb, k)>>, BitOf(d, nb - k))
          /\ Column(re_number(p, nb, d)) = rc_number(p, nb)
      BY <1>2, <1>4, NumberIsList
    <2>3. number = re_number(p, nb, d)
      BY <1>1, <2>1
    <2>4. ASSUME NEW k \in 1 .. nb PROVE number[k].bit = BitOf(d, nb - k)
      <3>1. number[k] = Coded(<<p, NumberProb(nb, k)>>, BitOf(d, nb - k))
        BY <2>2, <2>3
      <3> QED
        BY <3>1 DEF Coded
    <2> QED
      BY <2>1, <2>2, <2>3, <2>4
  <1>8. Parts(c, tree, n, number, nb)
    <2>1. Joins(c, tree, number)
      BY <1>1 DEF Joins, CodedDist
    <2> QED
      BY <1>2, <1>5, <1>6, <1>7, <2>1 DEF Parts
  <1>9. IsList(c, n + nb) /\ n + nb \in Nat
    <2>1. IsList(c, n + nb)
      BY <1>8, JoinIs
    <2> QED
      BY <1>2, <1>5, <2>1
  <1>10. ASSUME len_bits = LenBits(l), match_len = l - 1, distBitsAt = at, BitsAt(c, n + nb, at)
        PROVE  match_dist = d /\ AskedDist = Column(c)
    <2>1. BitsAt(tree, n, at) /\ BitsAt(number, nb, at + n)
      BY <1>8, <1>10, BitsOfParts
    <2>2. /\ TreeBits(at, limit) = n /\ Number(at, n) = w
          /\ rc_bittree(probs, limit, at) = Column(tree)
      BY <1>3, <1>4, <2>1, TreeRead
    <2>3. dist_limit = limit /\ (match_len > 2 <=> LongMatch(l))
      <3>1. l \in Int
        BY LzrcConstants, TwoPower DEF MaxMatch
      <3> QED
        BY <1>1, <1>10, <3>1 DEF dist_limit, LongMatch
    <2>4. dist_bits = nb
      <3>1. dist_bits = w - limit
        BY <1>1, <1>10, <2>2, <2>3 DEF dist_bits
      <3> QED
        BY <1>1, <1>2, <3>1
    <2>5. distAt = at + n
      BY <1>1, <1>10, <2>2, <2>3 DEF distAt
    <2>6. match_dist = d
      <3>1. PICK a : a = at + n
        OBVIOUS
      <3>2. a \in Nat /\ nb = Bits(d)
        BY <1>1, <1>4, <1>5, <3>1
      <3>3. \A k \in 1 .. Bits(d) : Bit(a + k) = BitOf(d, Bits(d) - k)
        <4>1. BitsAt(number, nb, a)
          BY <2>1, <3>1
        <4> QED
          BY <1>7, <3>2, <4>1 DEF BitsAt
      <3>4. Number(a, nb) = d
        BY <1>4, <3>2, <3>3, NumberRead
      <3> QED
        BY <2>4, <2>5, <3>1, <3>4 DEF match_dist
    <2>7. AskedDist = Column(c)
      <3>1. Joins(Column(c), Column(tree), Column(number))
        BY <1>8, ColumnJoin
      <3>2. DistBitsProbs(len_bits, match_len > 2) = probs
        BY <1>1, <1>10, <2>3 DEF DistBitsProbs
      <3>3. AskedDist = rc_bittree(probs, limit, at) \o rc_number(DistProbs(nb), nb)
        BY <1>1, <1>10, <2>3, <2>4, <3>2 DEF AskedDist
      <3> QED
        BY <1>7, <2>2, <3>1, <3>3 DEF Joins
    <2> QED
      BY <2>6, <2>7
  <1> QED
    BY <1>1, <1>9, <1>10

LEMMA MatchDecodes ==
  ASSUME NEW l \in 2 .. MaxMatch, NEW d \in 1 .. MaxWindow, ~Far(l, d),
         coded = CodedLen(l, rc_state, out_ptr) \o CodedDist(l, d)
  PROVE  /\ InStep /\ Bit(1) = 1
         /\ match_len = l - 1 /\ match_len # MaxMatch /\ match_dist = d
  <1>1. PICK c, e, m : /\ c = CodedLen(l, rc_state, out_ptr) /\ e = CodedDist(l, d)
                      /\ m = 1 + Lesser(LenBits(l) + 1, LenFlags) + LenBits(l)
    OBVIOUS
  <1>2. MaxMatch \in Int /\ l \in 2 .. EndMark
    <2>1. MaxMatch \in Int
      BY LzrcConstants, TwoPower DEF MaxMatch
    <2> QED
      BY <2>1 DEF EndMark
  <1>3. /\ IsList(c, m) /\ m \in Nat
        /\ BitsAt(c, m, 0) =>
             /\ Bit(1) = 1
             /\ len_bits = LenBits(l) /\ match_len = l - 1 /\ distBitsAt = m
             /\ AskedLen = Column(c)
    BY <1>1, <1>2, LenDecodes
  <1>4. PICK n \in Nat :
          /\ IsList(e, n)
          /\ /\ len_bits = LenBits(l) /\ match_len = l - 1 /\ distBitsAt = m
             /\ BitsAt(e, n, m)
             => match_dist = d /\ AskedDist = Column(e)
    BY <1>1, <1>3, DistDecodes
  <1>5. Parts(coded, c, m, e, n)
    <2>1. Joins(coded, c, e)
      BY <1>1 DEF Joins
    <2> QED
      BY <1>3, <1>4, <2>1 DEF Parts
  <1>6. BitsAt(coded, m + n, 0)
    <2>1. IsList(coded, m + n) /\ m + n \in Nat
      <3>1. IsList(coded, m + n)
        BY <1>5, JoinIs
      <3> QED
        BY <1>3, <3>1
    <2> QED
      BY <2>1, AllBits
  <1>7. BitsAt(c, m, 0) /\ BitsAt(e, n, m)
    <2>1. BitsAt(c, m, 0) /\ BitsAt(e, n, 0 + m)
      <3>1. 0 \in Nat
        OBVIOUS
      <3> QED
        BY <1>5, <1>6, <3>1, BitsOfParts
    <2>2. 0 + m = m
      BY <1>3
    <2> QED
      BY <2>1, <2>2
  <1>8. /\ Bit(1) = 1 /\ match_len = l - 1 /\ match_dist = d
        /\ AskedLen = Column(c) /\ AskedDist = Column(e)
    BY <1>3, <1>4, <1>7
  <1>9. match_len # MaxMatch
    BY <1>2, <1>8
  <1>10. Asked = Column(coded)
    <2>1. Joins(Column(coded), Column(c), Column(e))
      BY <1>5, ColumnJoin
    <2>2. Asked = AskedLen \o AskedDist
      BY <1>8, <1>9 DEF Asked
    <2> QED
      BY <1>8, <2>1, <2>2 DEF Joins
  <1> QED
    BY <1>8, <1>9, <1>10, InStepIs

LEMMA EndDecodes ==
  ASSUME coded = CodedLen(EndMark, rc_state, out_ptr)
  PROVE  InStep /\ Bit(1) = 1 /\ match_len = MaxMatch
  <1>1. PICK l, c, m : /\ l = EndMark /\ c = CodedLen(l, rc_state, out_ptr)
                      /\ m = 1 + Lesser(LenBits(l) + 1, LenFlags) + LenBits(l)
    OBVIOUS
  <1>2. MaxMatch \in Int /\ l \in 2 .. EndMark /\ l - 1 = MaxMatch
    <2>1. MaxMatch \in Int /\ 3 <= MaxMatch
      BY Sizes
    <2> QED
      BY <1>1, <2>1 DEF EndMark
  <1>3. /\ IsList(c, m) /\ m \in Nat
        /\ BitsAt(c, m, 0) =>
             /\ Bit(1) = 1
             /\ len_bits = LenBits(l) /\ match_len = l - 1 /\ distBitsAt = m
             /\ AskedLen = Column(c)
    BY <1>1, <1>2, LenDecodes
  <1>4. BitsAt(c, m, 0)
    BY <1>1, <1>3, AllBits
  <1>5. Asked = Column(coded)
    BY <1>1, <1>2, <1>3, <1>4 DEF Asked
  <1> QED
    BY <1>2, <1>3, <1>4, <1>5, InStepIs

-----------------------------------------------------------------------------
(***************************************************************************)
(* What the decompressor has written: the first n bytes of the block.      *)
(***************************************************************************)
Got(n) == output = [k \in 1 .. n |-> data[k - 1]]

LEMMA GotFacts ==
  ASSUME NEW n \in Nat, Got(n)
  PROVE  /\ IsList(output, n) /\ out_ptr = n
         /\ \A k \in 1 .. n : output[k] = data[k - 1]
         /\ n # 0 => decoded_last = data[n - 1]
         /\ n = 0 => decoded_last = 0
  <1>1. IsList(output, n) /\ \A k \in 1 .. n : output[k] = data[k - 1]
    BY DEF Got, IsList
  <1>2. out_ptr = n
    BY <1>1, ListFacts DEF out_ptr
  <1>3. ASSUME n # 0 PROVE decoded_last = data[n - 1]
    <2>1. n \in 1 .. n
      BY <1>3
    <2> QED
      BY <1>1, <1>2, <1>3, <2>1 DEF decoded_last
  <1>4. n = 0 => decoded_last = 0
    BY <1>2 DEF decoded_last
  <1> QED
    BY <1>1, <1>2, <1>3, <1>4

(* What follows the bytes it has, makes it more of them.                   *)
LEMMA GotMore ==
  ASSUME NEW n \in Nat, NEW l \in Nat, Got(n), NEW more, IsList(more, l),
         \A k \in 1 .. l : more[k] = data[n + k - 1],
         NEW all, Joins(all, output, more)
  PROVE  all = [k \in 1 .. n + l |-> data[k - 1]]
  <1>1. IsList(output, n) /\ \A k \in 1 .. n : output[k] = data[k - 1]
    BY GotFacts
  <1>2. Parts(all, output, n, more, l)
    BY <1>1 DEF Parts
  <1>3. /\ IsList(all, n + l)
        /\ \A k \in 1 .. n : all[k] = output[k]
        /\ \A k \in 1 .. l : all[n + k] = more[k]
    BY <1>2, JoinIs
  <1>4. ASSUME NEW k \in 1 .. n + l PROVE all[k] = data[k - 1]
    <2>1. CASE k <= n
      <3>1. k \in 1 .. n
        BY <2>1
      <3> QED
        BY <1>1, <1>3, <3>1
    <2>2. CASE ~(k <= n)
      <3>1. PICK j \in 1 .. l : k = n + j
        <4>1. k - n \in 1 .. l /\ k = n + (k - n)
          BY <2>2
        <4> QED
          BY <4>1
      <3> QED
        BY <1>3, <3>1
    <2> QED
      BY <2>1, <2>2
  <1> QED
    BY <1>3, <1>4 DEF IsList

(* A match copied from d bytes before, its own first ones among them.      *)
LEMMA Remainder ==
  ASSUME NEW k \in Nat, NEW d \in Nat \ {0}
  PROVE  /\ k % d \in 0 .. d - 1
         /\ k < d => k % d = k
         /\ k >= d => (k - d) % d = k % d
  <1>1. k % d \in 0 .. d - 1 /\ k \div d \in Nat /\ k = d * (k \div d) + (k % d)
    BY Quotient
  <1>2. ASSUME k < d PROVE k % d = k
    <2>1. k = d * 0 + k /\ 0 \in Nat
      OBVIOUS
    <2> QED
      BY <1>2, <2>1, Quotient
  <1>3. ASSUME k >= d PROVE (k - d) % d = k % d
    <2>1. PICK q \in Nat, r \in Nat : q = k \div d /\ r = k % d /\ k = d * q + r /\ r < d
      BY <1>1
    <2>2. q # 0
      BY <1>3, <2>1
    <2>3. PICK e \in Nat, s \in Nat : e = k - d /\ s = q - 1 /\ e = d * s + r
      <3>1. q - 1 \in Nat /\ k - d = d * (q - 1) + r /\ k - d \in Nat
        BY <1>3, <2>1, <2>2
      <3> QED
        BY <3>1
    <2>4. r = e % d
      <3>1. e = d * s + r /\ r < d
        BY <2>1, <2>3
      <3> QED
        BY <3>1, Quotient
    <2> QED
      BY <2>1, <2>3, <2>4
  <1> QED
    BY <1>1, <1>2, <1>3

-----------------------------------------------------------------------------
(***************************************************************************)
(* The two coders.  Between items they are in the same state; what has     *)
(* been coded last and is yet to be decoded is a byte, a match or the end, *)
(* coded from the state the decompressor is in.                            *)
(***************************************************************************)
Repeats(p, l, d) == \A k \in 0 .. l - 1 : data[p + k] = data[p + k - d]

(* The match found, until it is coded, is there in the data.               *)
FoundRepeats ==
  phase \in {"slide", "code"} /\ t_len \in 2 .. MaxMatch =>
    t_pos \in 1 .. MaxWindow /\ t_pos <= in_ptr /\ Repeats(in_ptr, t_len, t_pos)

ByteCoded ==
  /\ in_ptr > 0 /\ Got(in_ptr - 1)
  /\ coded = Literal(data[in_ptr - 1], rc_state, decoded_last)
  /\ re_state = AfterByte(rc_state) /\ last_byte = data[in_ptr - 1]

MatchIs(l, d) ==
  /\ ~Far(l, d) /\ l + d <= in_ptr /\ Got(in_ptr - l)
  /\ Repeats(in_ptr - l, l, d)
  /\ coded = CodedLen(l, rc_state, out_ptr) \o CodedDist(l, d)
  /\ re_state = AfterMatch(in_ptr) /\ last_byte = data[in_ptr - 1]
MatchCoded == \E l \in 2 .. MaxMatch, d \in 1 .. MaxWindow : MatchIs(l, d)

EndCoded ==
  /\ in_ptr = in_len /\ Got(in_ptr)
  /\ coded = CodedLen(EndMark, rc_state, out_ptr)

CodersAlike == Got(in_ptr) /\ rc_state = re_state /\ last_byte = decoded_last

DecodeInvariant ==
  /\ FoundRepeats
  /\ phase \notin {"decode", "done"} => CodersAlike
  /\ phase = "decode" => ByteCoded \/ MatchCoded \/ EndCoded
  /\ phase = "done" => in_ptr = in_len /\ out_ptr = in_len

LEMMA CopyRepeats ==
  ASSUME NEW p \in Nat, NEW l \in Nat, NEW d \in Nat \ {0}, d <= p, Repeats(p, l, d)
  PROVE  \A k \in 0 .. l - 1 : data[p + k] = data[p - d + (k % d)]
  <1>1. PICK f : f = data
    OBVIOUS
  <1> DEFINE Bad == {k \in 0 .. l - 1 : f[p + k] # f[p - d + (k % d)]}
  <1>2. Bad = {}
    <2> SUFFICES ASSUME Bad # {} PROVE FALSE
      OBVIOUS
    <2>1. Bad \subseteq Nat
      OBVIOUS
    <2>2. PICK k \in Bad : \A j \in Bad : k <= j
      <3> HIDE DEF Bad
      <3> QED
        BY <2>1, LeastNat
    <2>3. k \in 0 .. l - 1 /\ k \in Nat /\ f[p + k] # f[p - d + (k % d)]
      BY <2>2
    <2>4. f[p + k] = f[p + k - d]
      BY <1>1, <2>3 DEF Repeats
    <2>5. CASE k < d
      <3>1. k % d = k
        BY <2>3, <2>5, Remainder
      <3>2. p - d + k = p + k - d
        BY <2>3
      <3> QED
        BY <2>3, <2>4, <3>1, <3>2
    <2>6. CASE k >= d
      <3>1. k - d \in 0 .. l - 1 /\ k - d \notin Bad /\ p + (k - d) = p + k - d
        <4>1. k - d \in 0 .. l - 1 /\ ~(k <= k - d) /\ p + (k - d) = p + k - d
          BY <2>3, <2>6
        <4> HIDE DEF Bad
        <4> QED
          BY <2>2, <4>1
      <3>2. f[p + (k - d)] = f[p - d + ((k - d) % d)]
        BY <3>1
      <3>3. (k - d) % d = k % d
        BY <2>3, <2>6, Remainder
      <3> HIDE DEF Bad
      <3> QED
        BY <2>3, <2>4, <3>1, <3>2, <3>3
    <2> QED
      BY <2>3, <2>5, <2>6
  <1> QED
    BY <1>1, <1>2

LEMMA CodersSame ==
  ASSUME UNCHANGED <<data, in_ptr, re_state, last_byte, rc_state, output>>
  PROVE  CodersAlike' <=> CodersAlike
  BY DEF CodersAlike, Got, decoded_last, out_ptr

LEMMA RepeatsSame ==
  ASSUME UNCHANGED data
  PROVE  \A p, l, d : Repeats(p, l, d)' <=> Repeats(p, l, d)
  BY DEF Repeats

LEMMA FoundRepeatsStays ==
  ASSUME FoundRepeats, phase = "slide", UNCHANGED <<data, in_ptr, t_len, t_pos>>
  PROVE  FoundRepeats'
  <1>1. PICK l, d, p, m : l = t_len /\ d = t_pos /\ p = in_ptr /\ m = MaxMatch
    OBVIOUS
  <1>2. l \in 2 .. m => d \in 1 .. MaxWindow /\ d <= p /\ Repeats(p, l, d)
    BY <1>1 DEF FoundRepeats
  <1>3. l = t_len' /\ d = t_pos' /\ p = in_ptr' /\ m = MaxMatch'
    BY <1>1 DEF MaxMatch
  <1>4. Repeats(p, l, d)' <=> Repeats(p, l, d)
    BY RepeatsSame
  <1> QED
    BY <1>2, <1>3, <1>4 DEF FoundRepeats, Repeats

(* Until the next item is coded.                                           *)
LEMMA QuietCoders ==
  ASSUME DecodeInvariant, phase \notin {"decode", "done"}, phase' \notin {"decode", "done"},
         UNCHANGED <<data, in_ptr, re_state, last_byte, rc_state, output>>, FoundRepeats'
  PROVE  DecodeInvariant'
  BY CodersSame DEF DecodeInvariant

LEMMA ComparedRepeats ==
  ASSUME InBlock, WindowInvariant, ListsInvariant, SearchInvariant, Compared
  PROVE  FoundRepeats'
  <1>1. /\ in_len \in Nat
        /\ t_start \in Nat /\ t_end \in Nat /\ t_start <= t_end /\ t_end <= in_len
        /\ in_ptr \in Nat /\ in_ptr <= in_len
    BY InWindow
  <1>2. /\ phase = "compare" /\ t_len' = Accept(t_len, t_pos) /\ t_pos' = t_pos
        /\ UNCHANGED <<data, in_ptr>>
    BY DEF Compared, Keep, coderVars
  <1>3. t_end = in_ptr /\ win_size <= MaxWindow /\ win_size = in_ptr - t_start
    BY <1>2 DEF WindowInvariant, win_size
  <1>4. MaxMatch' = MaxMatch /\ MaxMatch \in Nat
    BY Sizes DEF MaxMatch
  <1>5. SUFFICES ASSUME t_len' \in 2 .. MaxMatch
                 PROVE  t_pos \in 1 .. MaxWindow /\ t_pos <= in_ptr /\ Repeats(in_ptr, t_len, t_pos)
                        /\ t_len' = t_len
    <2>1. PICK l, d, p : l = t_len /\ d = t_pos /\ p = in_ptr
      OBVIOUS
    <2>2. Repeats(p, l, d)' <=> Repeats(p, l, d)
      BY <1>2, RepeatsSame
    <2> QED
      BY <1>2, <1>4, <2>1, <2>2 DEF FoundRepeats, Repeats
  <1>6. t_len' = t_len /\ t_len \in 2 .. MaxMatch
    BY <1>2, <1>4, <1>5 DEF Accept
  <1>7. t_pos \in 1 .. win_size /\ t_len = Same(t_end - t_pos, t_end)
    BY <1>2, <1>6 DEF SearchInvariant
  <1>8. t_pos \in 1 .. MaxWindow /\ t_pos <= in_ptr /\ t_pos \in Nat
    BY <1>1, <1>3, <1>7, Sizes
  <1>9. PICK l, d, p, e, most : /\ l = t_len /\ d = t_pos /\ p = in_ptr /\ e = in_len
                               /\ most = Most
    OBVIOUS
  <1>10. /\ l \in Nat /\ d \in Nat /\ p \in Nat /\ e \in Nat /\ d <= p /\ 1 <= d
         /\ most \in Nat /\ most <= e - p
         /\ Fits(l, most, Differs(p - d, p))
    <2>1. t_end \in 0 .. in_len
      BY <1>1
    <2>2. Most \in Nat /\ Most <= in_len - in_ptr
      BY <1>1, <1>3, <2>1, MostIsNat DEF content_size
    <2>3. Fits(Same(p - d, p), Most, Differs(p - d, p))
      BY <1>1, <2>1, SameFits
    <2>4. l = Same(p - d, p)
      BY <1>3, <1>7, <1>9
    <2>5. l \in Nat /\ d \in Nat /\ p \in Nat /\ e \in Nat /\ d <= p /\ 1 <= d
      BY <1>1, <1>4, <1>6, <1>8, <1>9
    <2> QED
      BY <1>9, <2>2, <2>3, <2>4, <2>5
  <1>11. ASSUME NEW k \in 0 .. l - 1 PROVE data[p + k] = data[p + k - d]
    <2>1. k \in Nat /\ k < most /\ k \notin Differs(p - d, p)
      BY <1>10 DEF Fits
    <2>2. Text(p + k) = Text(p - d + k)
      BY <2>1 DEF Differs
    <2>3. p + k < e /\ p - d + k < e /\ p - d + k = p + k - d
      BY <1>10, <2>1
    <2>4. Text(p + k) = data[p + k] /\ Text(p - d + k) = data[p - d + k]
      BY <1>9, <2>3 DEF Text
    <2> QED
      BY <2>2, <2>3, <2>4
  <1> QED
    BY <1>6, <1>8, <1>9, <1>11 DEF Repeats

LEMMA ByteIsCoded ==
  ASSUME InBlock, WindowInvariant, ListsInvariant, CodersAlike, CodeByte
  PROVE  ByteCoded'
  <1>1. /\ phase = "code" /\ UNCHANGED <<data, rc_state, output>>
        /\ coded' = Literal(data[in_ptr], re_state, last_byte)
        /\ in_ptr' = in_ptr + 1 /\ re_state' = AfterByte(re_state) /\ last_byte' = data[in_ptr]
    BY DEF CodeByte, decoderVars
  <1>2. in_ptr \in Nat
    BY InWindow
  <1>3. in_ptr' - 1 = in_ptr /\ in_ptr' > 0
    BY <1>1, <1>2
  <1>4. Got(in_ptr) /\ rc_state = re_state /\ last_byte = decoded_last
    BY DEF CodersAlike
  <1>5. decoded_last' = decoded_last
    BY <1>1 DEF decoded_last, out_ptr
  <1>6. (Got(in_ptr - 1))'
    BY <1>1, <1>3, <1>4 DEF Got
  <1>7. coded' = (Literal(data[in_ptr - 1], rc_state, decoded_last))'
    <2>1. PICK b, s, t : b = data[in_ptr] /\ s = re_state /\ t = last_byte
      OBVIOUS
    <2>2. b = (data[in_ptr - 1])' /\ s = rc_state' /\ t = decoded_last'
      BY <1>1, <1>3, <1>4, <1>5, <2>1
    <2>3. coded' = Literal(b, s, t)
      BY <1>1, <2>1
    <2> QED
      BY <2>2, <2>3 DEF Literal, Coded, MatchProb, re_bittree, LiteralProbs
  <1>8. re_state' = (AfterByte(rc_state))' /\ last_byte' = (data[in_ptr - 1])'
    BY <1>1, <1>3, <1>4 DEF AfterByte
  <1> QED
    BY <1>3, <1>6, <1>7, <1>8 DEF ByteCoded

LEMMA MatchIsCoded ==
  ASSUME InBlock, WindowInvariant, ListsInvariant, CodersAlike, FoundRepeats, CodeMatch
  PROVE  MatchCoded'
  <1>1. /\ phase = "code" /\ UNCHANGED <<data, rc_state, output>>
        /\ t_len \notin {1, EndMark} /\ ~Far(t_len, t_pos)
        /\ coded' = CodedLen(t_len, re_state, in_ptr) \o CodedDist(t_len, t_pos)
        /\ in_ptr' = in_ptr + t_len
        /\ re_state' = AfterMatch(in_ptr') /\ last_byte' = data[in_ptr' - 1]
    BY DEF CodeMatch, decoderVars
  <1>2. in_ptr \in Nat /\ in_len \in Nat
    BY InWindow
  <1>3. t_len \in 2 .. MaxMatch /\ MaxMatch \in Nat
    <2>1. MaxMatch \in Int /\ in_len - in_ptr \in Int /\ MaxMatch \in Nat
      BY <1>2, Sizes
    <2>2. Lesser(MaxMatch, in_len - in_ptr) \in Int /\ Lesser(MaxMatch, in_len - in_ptr) <= MaxMatch
      BY <2>1, LesserFacts
    <2>3. t_len \in 1 .. Lesser(MaxMatch, in_len - in_ptr)
      BY <1>1 DEF WindowInvariant
    <2> QED
      BY <1>1, <2>1, <2>2, <2>3
  <1>4. t_pos \in 1 .. MaxWindow /\ t_pos <= in_ptr /\ Repeats(in_ptr, t_len, t_pos)
    BY <1>1, <1>3 DEF FoundRepeats
  <1>5. PICK l, d, p, s : l = t_len /\ d = t_pos /\ p = in_ptr /\ s = re_state
    OBVIOUS
  <1>6. l \in 2 .. MaxMatch /\ d \in 1 .. MaxWindow /\ d <= p /\ p \in Nat
    BY <1>2, <1>3, <1>4, <1>5
  <1>7. in_ptr' = p + l /\ in_ptr' - l = p /\ l + d <= in_ptr'
    <2>1. in_ptr' = p + l
      BY <1>1, <1>5
    <2>2. l \in Nat /\ d \in Nat
      BY <1>3, <1>6, Sizes
    <2> QED
      BY <1>6, <2>1, <2>2
  <1>8. ~(Far(l, d))'
    BY <1>1, <1>5 DEF Far, Near
  <1>9. Got(p) /\ rc_state = s
    BY <1>5 DEF CodersAlike
  <1>10. (Got(in_ptr - l))'
    BY <1>1, <1>7, <1>9 DEF Got
  <1>11. (Repeats(in_ptr - l, l, d))'
    BY <1>1, <1>4, <1>5, <1>7 DEF Repeats
  <1>12. out_ptr = p /\ out_ptr' = p
    BY <1>1, <1>6, <1>9, GotFacts DEF out_ptr
  <1>13. coded' = (CodedLen(l, rc_state, out_ptr) \o CodedDist(l, d))'
    <2>1. coded' = CodedLen(l, s, p) \o CodedDist(l, d)
      BY <1>1, <1>5
    <2>2. rc_state' = s
      BY <1>1, <1>9
    <2>3. (CodedLen(l, rc_state, out_ptr))' = CodedLen(l, rc_state', out_ptr')
      BY DEF CodedLen, Coded, MatchProb, LenFlag, LenBits, Bits, Lesser, re_number, NumberProb, BitOf,
             LenProbs
    <2>4. (CodedDist(l, d))' = CodedDist(l, d)
      BY DEF CodedDist, re_bittree, re_number, Coded, DistBitsProbs, LongMatch, LenBits, Bits, Lesser, BitOf,
             NumberProb, DistProbs
    <2>5. (CodedLen(l, rc_state, out_ptr) \o CodedDist(l, d))'
            = (CodedLen(l, rc_state, out_ptr))' \o (CodedDist(l, d))'
      OBVIOUS
    <2> QED
      BY <1>12, <2>1, <2>2, <2>3, <2>4, <2>5, Zenon
  <1>14. re_state' = (AfterMatch(in_ptr))' /\ last_byte' = (data[in_ptr - 1])'
    BY <1>1 DEF AfterMatch
  <1>15. (MatchIs(l, d))'
    BY <1>7, <1>8, <1>10, <1>11, <1>13, <1>14 DEF MatchIs
  <1>16. l \in (2 .. MaxMatch)' /\ d \in (1 .. MaxWindow)'
    BY <1>6 DEF MaxMatch
  <1> QED
    BY <1>15, <1>16 DEF MatchCoded

LEMMA EndIsCoded ==
  ASSUME InBlock, WindowInvariant, ListsInvariant, CodersAlike, CodeEnd
  PROVE  EndCoded'
  <1>1. /\ phase = "code" /\ UNCHANGED <<data, rc_state, output, in_ptr, re_state, last_byte>>
        /\ t_len = EndMark
        /\ coded' = CodedLen(EndMark, re_state, in_ptr)
    BY DEF CodeEnd, decoderVars
  <1>2. in_ptr \in Nat /\ in_len \in Nat /\ in_len' = in_len
    BY <1>1, InWindow DEF in_len
  <1>3. in_ptr = in_len
    <2>1. MaxMatch \in Int /\ in_len - in_ptr \in Int
      BY <1>2, Sizes
    <2>2. Lesser(MaxMatch, in_len - in_ptr) \in Int /\ Lesser(MaxMatch, in_len - in_ptr) <= MaxMatch
      BY <2>1, LesserFacts
    <2>3. t_len \notin 1 .. Lesser(MaxMatch, in_len - in_ptr)
      BY <1>1, <2>2, Sizes
    <2> QED
      BY <1>1, <2>3 DEF WindowInvariant
  <1>4. PICK p, s, l : p = in_ptr /\ s = re_state /\ l = EndMark
    OBVIOUS
  <1>5. Got(p) /\ rc_state = s /\ p \in Nat
    BY <1>2, <1>4 DEF CodersAlike
  <1>6. (Got(in_ptr))'
    BY <1>1, <1>4, <1>5 DEF Got
  <1>7. out_ptr = p /\ out_ptr' = p
    BY <1>1, <1>5, GotFacts DEF out_ptr
  <1>8. coded' = (CodedLen(EndMark, rc_state, out_ptr))'
    <2>1. coded' = CodedLen(l, s, p)
      BY <1>1, <1>4
    <2>2. rc_state' = s
      BY <1>1, <1>5
    <2>3. l = EndMark'
      BY <1>4 DEF EndMark, MaxMatch
    <2>4. (CodedLen(EndMark, rc_state, out_ptr))' = CodedLen(EndMark', rc_state', out_ptr')
      BY DEF CodedLen, Coded, MatchProb, LenFlag, LenBits, Bits, Lesser, re_number, NumberProb, BitOf,
             LenProbs
    <2> QED
      BY <1>7, <2>1, <2>2, <2>3, <2>4, Zenon
  <1> QED
    BY <1>1, <1>2, <1>3, <1>6, <1>8 DEF EndCoded

LEMMA ByteDecoded ==
  ASSUME InBlock, ByteCoded
  PROVE  InStep /\ Bit(1) = 0 /\ Number(1, 8) - 256 = data[in_ptr - 1]
  <1>1. in_len \in Nat /\ data \in [0 .. in_len - 1 -> Bytes] /\ in_ptr \in 0 .. in_len
    BY BlockType DEF InBlock
  <1>2. PICK b : b = data[in_ptr - 1]
    OBVIOUS
  <1>3. b \in 0 .. 255
    <2>1. in_ptr - 1 \in 0 .. in_len - 1
      BY <1>1 DEF ByteCoded
    <2> QED
      <3>1. Bytes \subseteq 0 .. 255
        BY LzrcConstants
      <3> HIDE DEF in_len
      <3>2. data[in_ptr - 1] \in Bytes
        BY <1>1, <2>1
      <3> QED
        BY <1>2, <3>1, <3>2
  <1>4. coded = Literal(b, rc_state, decoded_last)
    BY <1>2 DEF ByteCoded
  <1> QED
    BY <1>2, <1>3, <1>4, LiteralDecodes

LEMMA MatchDecoded ==
  ASSUME NEW l \in 2 .. MaxMatch, NEW d \in 1 .. MaxWindow, MatchIs(l, d)
  PROVE  /\ InStep /\ Bit(1) = 1
         /\ match_len = l - 1 /\ match_len # MaxMatch /\ match_dist = d
  BY MatchDecodes DEF MatchIs

LEMMA EndDecoded ==
  ASSUME EndCoded
  PROVE  InStep /\ Bit(1) = 1 /\ match_len = MaxMatch
  BY EndDecodes DEF EndCoded

LEMMA GotNext ==
  ASSUME NEW n \in Nat, Got(n)'
  PROVE  out_ptr' = n /\ (n # 0 => decoded_last' = data'[n - 1])
  <1>1. IsList(output', n) /\ \A k \in 1 .. n : output'[k] = data'[k - 1]
    BY DEF Got, IsList
  <1>2. Len(output') = n
    BY <1>1, ListFacts
  <1>3. ASSUME n # 0 PROVE decoded_last' = data'[n - 1]
    <2>1. n \in 1 .. n
      BY <1>3
    <2> QED
      BY <1>1, <1>2, <1>3, <2>1 DEF decoded_last, out_ptr
  <1> QED
    BY <1>2, <1>3 DEF out_ptr

LEMMA ByteMakesAlike ==
  ASSUME InBlock, ByteCoded, DecodeByte
  PROVE  CodersAlike'
  <1>1. /\ UNCHANGED <<data, in_ptr, re_state, last_byte>>
        /\ output' = Append(output, Number(1, 8) - 256)
        /\ rc_state' = AfterByte(rc_state)
    BY DEF DecodeByte, coderVars
  <1>2. in_ptr \in Nat
    BY BlockType DEF InBlock
  <1>3. PICK n, b : n = in_ptr - 1 /\ b = data[in_ptr - 1]
    OBVIOUS
  <1>4. n \in Nat /\ in_ptr = n + 1 /\ Got(n)
    BY <1>2, <1>3 DEF ByteCoded
  <1>5. output' = Append(output, b)
    BY <1>1, <1>3, ByteDecoded
  <1>6. IsList(output, n) /\ \A k \in 1 .. n : output[k] = data[k - 1]
    BY <1>4, GotFacts
  <1>7. output' = [k \in 1 .. n + 1 |-> data[k - 1]]
    <2>1. /\ IsList(output', n + 1)
          /\ \A k \in 1 .. n : output'[k] = output[k]
          /\ output'[n + 1] = b
      <3>1. PICK more : more = <<b>>
        OBVIOUS
      <3>2. IsList(more, 1) /\ more[1] = b
        BY <3>1, OneBit
      <3>3. Joins(output', output, more)
        <4>1. Append(output, b) = output \o <<b>>
          <5>1. PICK S : output \in Seq(S) /\ b \in S
            <6> DEFINE S == {output[k] : k \in 1 .. n} \cup {b}
            <6>1. output \in [1 .. n -> S]
              BY <1>6 DEF IsList
            <6> HIDE DEF S
            <6>2. output \in Seq(S)
              BY <1>4, <6>1, SeqDef
            <6> QED
              BY <6>2 DEF S
          <5> QED
            BY <5>1, AppendIsConcat
        <4> QED
          BY <1>5, <3>1, <4>1 DEF Joins
      <3>4. Parts(output', output, n, more, 1)
        BY <1>4, <1>6, <3>2, <3>3 DEF Parts
      <3>5. /\ IsList(output', n + 1)
            /\ \A k \in 1 .. n : output'[k] = output[k]
            /\ \A k \in 1 .. 1 : output'[n + k] = more[k]
        BY <3>4, JoinIs
      <3> QED
        BY <3>2, <3>5
    <2>2. ASSUME NEW k \in 1 .. n + 1 PROVE output'[k] = data[k - 1]
      <3>1. CASE k = n + 1
        BY <1>3, <1>4, <2>1, <3>1
      <3>2. CASE k # n + 1
        <4>1. k \in 1 .. n
          BY <1>4, <3>2
        <4> QED
          BY <1>6, <2>1, <4>1
      <3> QED
        BY <3>1, <3>2
    <2> QED
      BY <2>1, <2>2 DEF IsList
  <1>8. (Got(in_ptr))'
    BY <1>1, <1>4, <1>7 DEF Got
  <1>9. decoded_last' = b
    <2>1. PICK m \in Nat : m = n + 1
      BY <1>4
    <2>2. m # 0 /\ m - 1 = n /\ m = in_ptr'
      BY <1>1, <1>4, <2>1
    <2>3. (Got(m))'
      BY <1>8, <2>2 DEF Got
    <2>4. decoded_last' = data'[m - 1]
      BY <2>2, <2>3, GotNext
    <2> QED
      BY <1>1, <1>3, <2>2, <2>4
  <1>10. rc_state' = re_state' /\ last_byte' = b
    BY <1>1, <1>3 DEF ByteCoded
  <1> QED
    BY <1>8, <1>9, <1>10 DEF CodersAlike

LEMMA MatchMakesAlike ==
  ASSUME InBlock, NEW l \in 2 .. MaxMatch, NEW d \in 1 .. MaxWindow, MatchIs(l, d), DecodeMatch
  PROVE  CodersAlike'
  <1>1. /\ UNCHANGED <<data, in_ptr, re_state, last_byte>>
        /\ output' = output \o [k \in 1 .. match_len + 1 |-> Copied(k - 1)]
        /\ rc_state' = AfterMatch(Len(output'))
    BY DEF DecodeMatch, coderVars
  <1>2. match_len = l - 1 /\ match_dist = d
    BY MatchDecoded
  <1>3. l \in Nat /\ d \in Nat \ {0} /\ in_ptr \in Nat
    BY Sizes, BlockType DEF InBlock
  <1>4. PICK p, more : p = in_ptr - l /\ more = [k \in 1 .. match_len + 1 |-> Copied(k - 1)]
    OBVIOUS
  <1>5. p \in Nat /\ in_ptr = p + l /\ d <= p /\ Got(p) /\ Repeats(p, l, d)
    BY <1>3, <1>4 DEF MatchIs
  <1>6. IsList(output, p) /\ out_ptr = p /\ \A k \in 1 .. p : output[k] = data[k - 1]
    BY <1>5, GotFacts
  <1>7. match_len + 1 = l
    BY <1>2, <1>3
  <1>8. IsList(more, l) /\ \A k \in 1 .. l : more[k] = Copied(k - 1)
    BY <1>4, <1>7 DEF IsList
  <1>9. \A k \in 0 .. l - 1 : data[p + k] = data[p - d + (k % d)]
    BY <1>3, <1>5, CopyRepeats
  <1>10. ASSUME NEW k \in 1 .. l PROVE more[k] = data[p + k - 1]
    <2>1. PICK b \in 0 .. l - 1 : b = k - 1
      BY <1>3
    <2>2. PICK r \in 0 .. d - 1 : r = b % d
      <3>1. b \in Nat
        BY <1>3
      <3>2. b % d \in 0 .. d - 1
        BY <1>3, <3>1, Remainder
      <3> QED
        BY <3>2
    <2>3. more[k] = output[p - d + 1 + r]
      BY <1>2, <1>6, <1>8, <2>1, <2>2 DEF Copied
    <2>4. PICK j \in 1 .. p : j = p - d + 1 + r
      BY <1>3, <1>5
    <2>5. output[j] = data[j - 1] /\ j - 1 = p - d + r
      BY <1>3, <1>5, <1>6, <2>4
    <2>6. data[p + b] = data[p - d + r]
      BY <1>9, <2>2
    <2>7. p + b = p + k - 1
      BY <1>5, <2>1
    <2> QED
      BY <2>3, <2>4, <2>5, <2>6, <2>7
  <1>11. output' = [k \in 1 .. p + l |-> data[k - 1]]
    <2>1. Joins(output', output, more)
      BY <1>1, <1>4 DEF Joins
    <2> QED
      BY <1>3, <1>5, <1>8, <1>10, <2>1, GotMore
  <1>12. (Got(in_ptr))'
    BY <1>1, <1>5, <1>11 DEF Got
  <1>13. Len(output') = in_ptr /\ decoded_last' = data[in_ptr - 1]
    <2>1. PICK m \in Nat : m = in_ptr
      BY <1>3
    <2>2. m # 0 /\ m = in_ptr'
      BY <1>1, <1>3, <1>5, <2>1
    <2>3. (Got(m))'
      BY <1>12, <2>2 DEF Got
    <2>4. out_ptr' = m /\ decoded_last' = data'[m - 1]
      BY <2>2, <2>3, GotNext
    <2> QED
      BY <1>1, <2>1, <2>4 DEF out_ptr
  <1>14. rc_state' = re_state' /\ last_byte' = decoded_last'
    BY <1>1, <1>13 DEF MatchIs
  <1> QED
    BY <1>12, <1>14 DEF CodersAlike

LEMMA DecodersStart == LzInit => DecodeInvariant
  <1> SUFFICES ASSUME LzInit PROVE DecodeInvariant
    OBVIOUS
  <1>1. /\ phase = "insert" /\ in_ptr = 0 /\ re_state = 0 /\ rc_state = 0 /\ last_byte = 0
        /\ output = <<>>
    BY DEF LzInit
  <1>2. Got(0)
    <2>1. output = [k \in 1 .. 0 |-> data[k - 1]]
      BY <1>1
    <2> QED
      BY <2>1 DEF Got
  <1>3. CodersAlike
    <2>1. decoded_last = 0
      BY <1>1 DEF decoded_last, out_ptr
    <2> QED
      BY <1>1, <1>2, <2>1 DEF CodersAlike
  <1> QED
    BY <1>1, <1>3 DEF DecodeInvariant, FoundRepeats

LEMMA DecoderSteps ==
  LzInvariant /\ DecodeInvariant /\ [LzNext]_lzVars => DecodeInvariant'
  <1> SUFFICES ASSUME LzInvariant, DecodeInvariant, [LzNext]_lzVars PROVE DecodeInvariant'
    OBVIOUS
  <1>1. InBlock /\ WindowInvariant /\ ListsInvariant /\ SearchInvariant
    BY DEF LzInvariant
  <1>2. /\ FoundRepeats
        /\ phase \notin {"decode", "done"} => CodersAlike
        /\ phase = "decode" => ByteCoded \/ MatchCoded \/ EndCoded
    BY DEF DecodeInvariant
  <1>3. CASE InsertNode \/ LastByte \/ NoByte \/ Compare
    <2>1. /\ phase \in {"insert", "compare"} /\ phase' \notin {"decode", "done"}
          /\ UNCHANGED <<data, in_ptr, re_state, last_byte, rc_state, output>>
      BY <1>3 DEF InsertNode, LastByte, NoByte, Compare, coderVars, decoderVars
    <2>2. FoundRepeats'
      <3>1. phase' = "compare" \/ t_len' = 1 \/ t_len' = EndMark
        BY <1>3 DEF InsertNode, LastByte, NoByte, Compare, Keep
      <3>2. 1 \notin 2 .. MaxMatch /\ EndMark \notin 2 .. MaxMatch
        BY Sizes
      <3>3. MaxMatch' = MaxMatch
        BY DEF MaxMatch
      <3> QED
        BY <3>1, <3>2, <3>3 DEF FoundRepeats
    <2> QED
      BY <2>1, <2>2, QuietCoders
  <1>4. CASE Compared
    <2>1. /\ phase = "compare" /\ phase' = "slide"
          /\ UNCHANGED <<data, in_ptr, re_state, last_byte, rc_state, output>>
      BY <1>4 DEF Compared, coderVars, decoderVars
    <2>2. FoundRepeats'
      BY <1>1, <1>4, ComparedRepeats
    <2> QED
      BY <2>1, <2>2, QuietCoders
  <1>5. CASE MakeRoom \/ Slide \/ Slid
    <2>1. /\ phase = "slide" /\ phase' \in {"slide", "code"}
          /\ UNCHANGED <<data, in_ptr, t_len, t_pos, re_state, last_byte, rc_state, output>>
      BY <1>5 DEF MakeRoom, Slide, Slid, matchVars, coderVars, decoderVars
    <2>2. FoundRepeats'
      BY <1>2, <2>1, FoundRepeatsStays
    <2> QED
      BY <2>1, <2>2, QuietCoders
  <1>6. CASE CodeByte \/ CodeMatch \/ CodeEnd
    <2>1. phase = "code" /\ phase' = "decode"
      BY <1>6 DEF CodeByte, CodeMatch, CodeEnd
    <2>2. FoundRepeats'
      BY <2>1 DEF FoundRepeats
    <2>3. (ByteCoded \/ MatchCoded \/ EndCoded)'
      BY <1>1, <1>2, <1>6, <2>1, ByteIsCoded, MatchIsCoded, EndIsCoded
    <2> QED
      BY <2>1, <2>2, <2>3 DEF DecodeInvariant
  <1>7. CASE DecodeByte
    <2>1. phase = "decode" /\ phase' = "insert" /\ Bit(1) = 0
      BY <1>7 DEF DecodeByte
    <2>2. ByteCoded
      <3>1. ~MatchCoded
        BY <2>1, MatchDecoded DEF MatchCoded
      <3>2. ~EndCoded
        BY <2>1, EndDecoded
      <3> QED
        BY <1>2, <2>1, <3>1, <3>2
    <2>3. CodersAlike'
      BY <1>1, <1>7, <2>2, ByteMakesAlike
    <2> QED
      BY <2>1, <2>3 DEF DecodeInvariant, FoundRepeats
  <1>8. CASE DecodeMatch
    <2>1. phase = "decode" /\ phase' = "insert" /\ Bit(1) = 1 /\ match_len # MaxMatch
      BY <1>8 DEF DecodeMatch
    <2>2. MatchCoded
      <3>1. ~ByteCoded
        BY <1>1, <2>1, ByteDecoded
      <3>2. ~EndCoded
        BY <2>1, EndDecoded
      <3> QED
        BY <1>2, <2>1, <3>1, <3>2
    <2>3. CodersAlike'
      BY <1>1, <1>8, <2>2, MatchMakesAlike DEF MatchCoded
    <2> QED
      BY <2>1, <2>3 DEF DecodeInvariant, FoundRepeats
  <1>9. CASE DecodeEnd
    <2>1. /\ phase = "decode" /\ phase' = "done" /\ Bit(1) = 1 /\ match_len = MaxMatch
          /\ UNCHANGED <<data, in_ptr, output>>
      BY <1>9 DEF DecodeEnd, coderVars, decoderVars
    <2>2. EndCoded
      <3>1. ~ByteCoded
        BY <1>1, <2>1, ByteDecoded
      <3>2. ~MatchCoded
        BY <2>1, MatchDecoded DEF MatchCoded
      <3> QED
        BY <1>2, <2>1, <3>1, <3>2
    <2>3. in_ptr' = in_len' /\ out_ptr' = in_len'
      <3>1. in_ptr = in_len /\ Got(in_ptr) /\ in_ptr \in Nat
        BY <1>1, <2>2, BlockType DEF EndCoded, InBlock
      <3>2. out_ptr = in_ptr
        BY <3>1, GotFacts
      <3> QED
        BY <2>1, <3>1, <3>2 DEF in_len, out_ptr
    <2> QED
      BY <2>1, <2>3 DEF DecodeInvariant, FoundRepeats
  <1>10. CASE UNCHANGED lzVars
    <2>1. UNCHANGED <<data, phase, in_ptr, t_len, t_pos, re_state, last_byte, coded, rc_state, output>>
      BY <1>10 DEF lzVars, matchVars, coderVars, decoderVars
    <2>2. FoundRepeats' <=> FoundRepeats
      BY <2>1 DEF FoundRepeats, Repeats, MaxMatch
    <2>3. (CodersAlike' <=> CodersAlike) /\ out_ptr' = out_ptr /\ in_len' = in_len
          /\ decoded_last' = decoded_last
      BY <2>1, CodersSame DEF out_ptr, in_len, decoded_last
    <2>4. ByteCoded' <=> ByteCoded
      BY <2>1, <2>3 DEF ByteCoded, Got, Literal, Coded, MatchProb, re_bittree, LiteralProbs,
             AfterByte, BitOf, Bits
    <2>5. MatchCoded' <=> MatchCoded
      <3>1. ASSUME NEW l, NEW d PROVE MatchIs(l, d)' <=> MatchIs(l, d)
        BY <2>1, <2>3 DEF MatchIs, Far, Near, Got, Repeats, CodedLen, CodedDist, Coded, MatchProb,
             LenFlag, LenBits, Bits, Lesser, re_number, re_bittree, NumberProb, BitOf, LenProbs,
             DistBitsProbs, LongMatch, DistProbs, AfterMatch
      <3>2. MaxMatch' = MaxMatch
        BY DEF MaxMatch
      <3> QED
        BY <3>1, <3>2 DEF MatchCoded
    <2>6. EndCoded' <=> EndCoded
      BY <2>1, <2>3 DEF EndCoded, Got, EndMark, MaxMatch, CodedLen, Coded, MatchProb, LenFlag, LenBits,
           Bits, Lesser, re_number, NumberProb, BitOf,
             LenProbs
    <2> QED
      BY <2>1, <2>2, <2>3, <2>4, <2>5, <2>6 DEF DecodeInvariant
  <1> QED
    BY <1>3, <1>4, <1>5, <1>6, <1>7, <1>8, <1>9, <1>10 DEF LzNext

LEMMA FollowsFromInvariant == LzInvariant /\ DecodeInvariant => DecoderFollows
  <1> SUFFICES ASSUME LzInvariant, DecodeInvariant PROVE DecoderFollows
    OBVIOUS
  <1>1. InBlock
    BY DEF LzInvariant
  <1>2. ASSUME phase = "decode"
        PROVE  InStep /\ (Bit(1) = 1 /\ match_len # MaxMatch => match_dist <= out_ptr)
    <2>1. CASE ByteCoded
      BY <1>1, <2>1, ByteDecoded
    <2>2. CASE EndCoded
      BY <2>2, EndDecoded
    <2>3. CASE MatchCoded
      <3>1. PICK l \in 2 .. MaxMatch, d \in 1 .. MaxWindow : MatchIs(l, d)
        BY <2>3 DEF MatchCoded
      <3>2. InStep /\ match_dist = d
        BY <3>1, MatchDecoded
      <3>3. PICK n : n = in_ptr - l
        OBVIOUS
      <3>4. n \in Nat /\ Got(n) /\ d <= n
        <4>1. l \in Nat /\ d \in Nat /\ in_ptr \in Nat
          BY <1>1, Sizes, BlockType DEF InBlock
        <4> QED
          BY <3>1, <3>3, <4>1 DEF MatchIs
      <3>5. out_ptr = n
        BY <3>4, GotFacts
      <3> QED
        BY <3>2, <3>4, <3>5
    <2> QED
      BY <1>2, <2>1, <2>2, <2>3 DEF DecodeInvariant
  <1>3. phase = "insert" => rc_state = re_state /\ output = [k \in 1 .. in_ptr |-> data[k - 1]]
    BY DEF DecodeInvariant, CodersAlike, Got
  <1>4. phase = "done" => in_ptr = in_len /\ out_ptr = in_len
    BY DEF DecodeInvariant
  <1> QED
    BY <1>2, <1>3, <1>4 DEF DecoderFollows

(***************************************************************************)
(* lzrc_decompress asks for every bit of what lzrc_compress wrote with the *)
(* probability it was coded with, copies only bytes it has, and has the    *)
(* data when it meets the end.                                             *)
(***************************************************************************)
THEOREM DecoderKeepsInStep == LzSpec => []DecoderFollows
  <1>1. LzInit => LzInvariant /\ DecodeInvariant
    BY LzInitially, DecodersStart
  <1>2. LzInvariant /\ DecodeInvariant /\ [LzNext]_lzVars => (LzInvariant /\ DecodeInvariant)'
    BY LzSteps, DecoderSteps
  <1>3. LzInvariant /\ DecodeInvariant => DecoderFollows
    BY FollowsFromInvariant
  <1> QED
    BY <1>1, <1>2, <1>3, PTL DEF LzSpec
=============================================================================
