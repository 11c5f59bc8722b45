-------------------------------- MODULE Lzrc --------------------------------
(***************************************************************************)
(* tlzrc.c: the LZRC compressor, and the decompressor reading what it      *)
(* writes.  The positions of the window are linked, newest first, in one   *)
(* list for each pair of bytes that starts there.                          *)
(*                                                                         *)
(* The range coder codes bits, each with a probability out of its tables:  *)
(* the decompressor gets a bit back if it asks with the same probability   *)
(* at the same point, for it then has changed them as the compressor did.  *)
(* A block is shorter than the ring of text_buf, so a position in the ring *)
(* is one in the block, and fill_buffer fills it at once.                  *)
(***************************************************************************)
EXTENDS Integers, Sequences, FiniteSets

CONSTANTS
  Blocks,      (* the data compressed: functions from 0 .. length - 1      *)
  Bytes,       (* the bytes in them                                        *)
  MaxWindow,   (* 16384                                                    *)
  LenFlags,    (* 7                                                        *)
  NearLimit    (* 8 numbers of bits for the distance of a short match      *)

ASSUME LzrcConstants ==
  /\ Bytes \subseteq 0 .. 255
  /\ \A d \in Blocks : /\ Cardinality(DOMAIN d) \in Nat
                       /\ d \in [0 .. Cardinality(DOMAIN d) - 1 -> Bytes]
  /\ MaxWindow \in 1 .. 16384 /\ LenFlags \in Nat \ {0} /\ NearLimit \in {2, 4, 8}

MaxMatch == 2 ^ (LenFlags + 1) - 1   (* 255 *)
EndMark  == MaxMatch + 1             (* 256, the length that ends the data  *)
Short    == 4                        (* a match of fewer bytes must be near *)
Near     == 2 ^ NearLimit - 1        (* 255 *)
FarLimit == 44
lc       == 5
Nil      == -1
First    == -2                       (* prev of a list's first node         *)

VARIABLES
  data, stale,             (* the block; the byte text_buf has after it     *)
  phase,                   (* where lzrc_compress is                        *)
  in_ptr,
  root, prev, next,        (* the lists                                     *)
  t_start, t_end,          (* the window                                    *)
  node,                    (* p of insert_node                              *)
  t_len, t_pos,            (* the best match so far                         *)
  slid,                    (* i of update_tree                              *)
  re_state, last_byte,
  coded,                   (* the bits coded last, and their probabilities  *)
  rc_state, output         (* of lzrc_decompress                            *)

listVars   == <<root, prev, next>>
windowVars == <<t_start, t_end>>
matchVars  == <<node, t_len, t_pos, slid>>
coderVars  == <<in_ptr, re_state, last_byte, coded>>
decoderVars == <<rc_state, output>>
lzVars == <<data, stale, phase, listVars, windowVars, matchVars, coderVars, decoderVars>>

in_len  == Cardinality(DOMAIN data)
Text(b) == IF b < in_len THEN data[b] ELSE stale
Pair(b) == <<Text(b), Text(b + 1)>>
Places  == 0 .. in_len

LzInit ==
  /\ data \in Blocks /\ stale \in Bytes /\ phase = "insert"
  /\ in_ptr = 0
  /\ root = [t \in Bytes \X Bytes |-> Nil]
  /\ prev = [b \in Places |-> Nil] /\ next = [b \in Places |-> Nil]
  /\ t_start = 0 /\ t_end = 0
  /\ node = Nil /\ t_len = 0 /\ t_pos = 0 /\ slid = 0
  /\ re_state = 0 /\ last_byte = 0 /\ coded = <<>>
  /\ rc_state = 0 /\ output = <<>>

(***************************************************************************)
(* insert_node puts a position before the others of its pair.              *)
(***************************************************************************)
Link(b) ==
  LET q == root[Pair(b)]
  IN  /\ root' = [root EXCEPT ![Pair(b)] = b]
      /\ next' = [next EXCEPT ![b] = q]
      /\ prev' = [c \in Places |-> IF c = b THEN First ELSE IF c = q THEN b ELSE prev[c]]

(* Mutant: the node after it still points to the one removed.              *)
UnlinkForward(b) ==
  IF prev[b] = Nil THEN UNCHANGED listVars
  ELSE /\ prev' = [prev EXCEPT ![b] = Nil]
       /\ root' = IF prev[b] = First THEN [root EXCEPT ![Pair(b)] = next[b]] ELSE root
       /\ next' = [c \in Places |-> IF c = b THEN Nil ELSE IF c = prev[b] THEN next[b] ELSE next[c]]

(* remove_node; a position that is in no list stays out.                   *)
Unlink(b) ==
  IF prev[b] = Nil THEN UNCHANGED listVars
  ELSE LET q == next[b]
       IN  /\ prev' = [c \in Places |-> IF c = b THEN Nil ELSE IF c = q THEN prev[b] ELSE prev[c]]
           /\ root' = IF prev[b] = First THEN [root EXCEPT ![Pair(b)] = q] ELSE root
           /\ next' = [c \in Places |-> IF c = b THEN Nil ELSE IF c = prev[b] THEN q ELSE next[c]]

Keep(l, d) == t_len' = l /\ t_pos' = d

(***************************************************************************)
(* insert_node for the next byte to code: the end of the block, its last   *)
(* byte, a new pair, or a list to search.                                  *)
(***************************************************************************)
InsertNode ==
  /\ phase = "insert"
  /\ in_ptr < in_len - 1
  /\ Link(t_end)
  /\ Keep(1, 0)
  /\ node' = root[Pair(t_end)]
  /\ phase' = "compare"
  /\ UNCHANGED <<data, stale, windowVars, slid, coderVars, decoderVars>>

LastByte ==
  /\ phase = "insert"
  /\ in_ptr = in_len - 1
  /\ Keep(1, 0)
  /\ phase' = "slide"
  /\ UNCHANGED <<data, stale, listVars, windowVars, node, slid, coderVars, decoderVars>>

NoByte ==
  /\ phase = "insert"
  /\ in_ptr = in_len
  /\ Keep(EndMark, 0)
  /\ phase' = "code"
  /\ UNCHANGED <<data, stale, listVars, windowVars, node, slid, coderVars, decoderVars>>

(***************************************************************************)
(* One node of the list: i bytes are the same.  A node with the longest    *)
(* match there can be leaves its list, as the new one does for it.         *)
(***************************************************************************)
content_size == in_len - t_end
Lesser(a, b) == IF a < b THEN a ELSE b
Same(p, b) ==
  LET most == Lesser(MaxMatch, content_size)
  IN  CHOOSE l \in 0 .. most :
        /\ \A k \in 0 .. l - 1 : Text(b + k) = Text(p + k)
        /\ l < most => Text(b + l) # Text(p + l)

BetterIfLate(i, d) == i >= t_len   (* mutant: the farther of equals *)
Better(i, d) == i > t_len \/ (i = t_len /\ d < t_pos)

Compare ==
  /\ phase = "compare"
  /\ node # Nil
  /\ LET i == Same(node, t_end)
         d == t_end - node
     IN  /\ IF Better(i, d) THEN Keep(i, d) ELSE Keep(t_len, t_pos)
         /\ IF i = MaxMatch THEN Unlink(node) /\ node' = Nil
            ELSE UNCHANGED listVars /\ node' = next[node]
  /\ UNCHANGED <<data, stale, phase, windowVars, slid, coderVars, decoderVars>>

(* A short match far away is coded as a byte.                              *)
Far(l, d) == l < Short /\ d > Near
Accept(l, d) == IF Far(l, d) THEN 1 ELSE l

Compared ==
  /\ phase = "compare"
  /\ node = Nil
  /\ Keep(Accept(t_len, t_pos), t_pos)
  /\ phase' = "slide"
  /\ UNCHANGED <<data, stale, listVars, windowVars, node, slid, coderVars, decoderVars>>

(***************************************************************************)
(* update_tree: the window moves over the bytes to be coded; the first of  *)
(* them is in its list already.  First a place is made in a full window,   *)
(* then the byte enters.                                                   *)
(***************************************************************************)
win_size == t_end - t_start

MakeRoom ==
  /\ phase = "slide"
  /\ slid < t_len /\ win_size = MaxWindow
  /\ Unlink(t_start)
  /\ t_start' = t_start + 1
  /\ UNCHANGED <<data, stale, phase, t_end, matchVars, coderVars, decoderVars>>

SlideLinked ==   (* mutant: the first byte linked once more *)
  /\ phase = "slide"
  /\ slid < t_len /\ win_size < MaxWindow
  /\ Link(t_end)
  /\ t_end' = t_end + 1 /\ slid' = slid + 1
  /\ UNCHANGED <<data, stale, phase, t_start, node, t_len, t_pos, coderVars, decoderVars>>

Slide ==
  /\ phase = "slide"
  /\ slid < t_len /\ win_size < MaxWindow
  /\ IF slid > 0 THEN Link(t_end) ELSE UNCHANGED listVars
  /\ t_end' = t_end + 1 /\ slid' = slid + 1
  /\ UNCHANGED <<data, stale, phase, t_start, node, t_len, t_pos, coderVars, decoderVars>>

Slid ==
  /\ phase = "slide"
  /\ slid = t_len
  /\ slid' = 0
  /\ phase' = "code"
  /\ UNCHANGED <<data, stale, listVars, windowVars, node, t_len, t_pos, coderVars, decoderVars>>

(***************************************************************************)
(* Bits coded: b down to the last of a number's, with the probabilities    *)
(* re_bittree and re_number take, None for a bit that has none.            *)
(***************************************************************************)
Coded(prob, bit) == [prob |-> prob, bit |-> bit]
BitOf(number, b) == (number \div 2 ^ b) % 2
Bits(x) == CHOOSE k \in 0 .. x : 2 ^ k <= x /\ x < 2 ^ (k + 1)

re_bittree(probs, limit, number) ==
  LET whole == number + limit
      n == Bits(whole)
  IN  [k \in 1 .. n |-> Coded(<<probs, whole \div 2 ^ (n - k + 1)>>, BitOf(whole, n - k))]

(* The last three bits have one each, the two first of more share another. *)
NumberProb(n, k) ==
  LET low == Lesser(n, 3)
  IN  IF k > n - low THEN k - (n - low) - 1 ELSE IF k <= 2 THEN 3 ELSE Nil

re_number(probs, n, number) ==
  [k \in 1 .. n |-> Coded(<<probs, NumberProb(n, k)>>, BitOf(number, n - k))]

(***************************************************************************)
(* What lzrc_compress codes: a byte; or one flag for each doubling of the  *)
(* length and a last one, the length, the number of bits of the distance,  *)
(* and the distance.  The end of the data is the longest length and has    *)
(* no distance.                                                            *)
(***************************************************************************)
MatchProb(state, step) == <<"match", state, step>>
LiteralProbs(last) == <<"literal", (last \div 2 ^ lc) % 8>>
LenProbs(state, bits, ptr) == <<"len", state, 4 * (bits - 1) + ((ptr * 2 ^ (bits - 1)) % 4)>>
DistBitsProbs(bits, long) == <<"dist_bits", bits, IF long THEN 7 ELSE 0>>
DistProbs(bits) == <<"dist", bits>>

Literal(b, state, last) ==
  <<Coded(MatchProb(state, 0), 0)>> \o re_bittree(LiteralProbs(last), 256, b)

LenBits(l) == Lesser(Bits(l - 1), LenFlags)

LenFlag(l, state) ==
  [k \in 1 .. Lesser(LenBits(l) + 1, LenFlags) |->
     Coded(MatchProb(state, k), IF k <= LenBits(l) THEN 1 ELSE 0)]

CodedLen(l, state, ptr) ==
  <<Coded(MatchProb(state, 0), 1)>> \o LenFlag(l, state)
    \o re_number(LenProbs(state, LenBits(l), ptr), LenBits(l), l - 1)

LongFromThree(l) == l > 2      (* mutant: as the decompressor asks *)
LongMatch(l) == l > 3
CodedDist(l, d) ==
  re_bittree(DistBitsProbs(LenBits(l), LongMatch(l)),
             IF LongMatch(l) THEN FarLimit ELSE NearLimit, Bits(d))
    \o re_number(DistProbs(Bits(d)), Bits(d), d)

AfterByte(state) == IF state > 0 THEN state - 1 ELSE 0
AfterMatch(ptr) == 6 + ((ptr + 1) % 2)

CodeByte ==
  /\ phase = "code"
  /\ t_len = 1 \/ Far(t_len, t_pos)
  /\ coded' = Literal(data[in_ptr], re_state, last_byte)
  /\ in_ptr' = in_ptr + 1
  /\ re_state' = AfterByte(re_state)
  /\ last_byte' = data[in_ptr]
  /\ phase' = "decode"
  /\ UNCHANGED <<data, stale, listVars, windowVars, matchVars, decoderVars>>

CodeMatch ==
  /\ phase = "code"
  /\ t_len \notin {1, EndMark} /\ ~Far(t_len, t_pos)
  /\ coded' = CodedLen(t_len, re_state, in_ptr) \o CodedDist(t_len, t_pos)
  /\ in_ptr' = in_ptr + t_len
  /\ re_state' = AfterMatch(in_ptr')
  /\ last_byte' = data[in_ptr' - 1]
  /\ phase' = "decode"
  /\ UNCHANGED <<data, stale, listVars, windowVars, matchVars, decoderVars>>

CodeEnd ==
  /\ phase = "code"
  /\ t_len = EndMark
  /\ coded' = CodedLen(EndMark, re_state, in_ptr)
  /\ phase' = "decode"
  /\ UNCHANGED <<data, stale, listVars, windowVars, matchVars, in_ptr, re_state, last_byte,
                 decoderVars>>

(***************************************************************************)
(* lzrc_decompress: the numbers it makes of the bits, and the              *)
(* probabilities it asks with, each chosen from the bits it got before.    *)
(* After the last bit that was coded it gets anything, 0 here.             *)
(***************************************************************************)
Bit(k) == IF k <= Len(coded) THEN coded[k].bit ELSE 0

(* 1 and the n bits after the first at.                                    *)
Number(at, n) ==
  LET number[k \in 0 .. n] == IF k = 0 THEN 1 ELSE 2 * number[k - 1] + Bit(at + k) IN number[n]

TreeBits(at, limit) ==
  CHOOSE n \in 1 .. 9 : Number(at, n) >= limit /\ \A k \in 1 .. n - 1 : Number(at, k) < limit

rc_bittree(probs, limit, at) ==
  [k \in 1 .. TreeBits(at, limit) |-> <<probs, Number(at, k - 1)>>]
rc_number(probs, n) == [k \in 1 .. n |-> <<probs, NumberProb(n, k)>>]

out_ptr == Len(output)
decoded_last == IF out_ptr = 0 THEN 0 ELSE output[out_ptr]

len_bits == Cardinality({k \in 1 .. LenFlags : \A j \in 1 .. k : Bit(1 + j) = 1})
lenAt == 1 + Lesser(len_bits + 1, LenFlags)
match_len == Number(lenAt, len_bits)
dist_limit == IF match_len > 2 THEN FarLimit ELSE NearLimit
distBitsAt == lenAt + len_bits
distAt == distBitsAt + TreeBits(distBitsAt, dist_limit)
dist_bits == Number(distBitsAt, TreeBits(distBitsAt, dist_limit)) - dist_limit
match_dist == Number(distAt, dist_bits)

AskedByte ==
  <<MatchProb(rc_state, 0)>> \o rc_bittree(LiteralProbs(decoded_last), 256, 1)

AskedLen ==
  [k \in 1 .. lenAt |-> MatchProb(rc_state, k - 1)]
    \o rc_number(LenProbs(rc_state, len_bits, out_ptr), len_bits)

AskedDist ==
  rc_bittree(DistBitsProbs(len_bits, match_len > 2), dist_limit, distBitsAt)
    \o rc_number(DistProbs(dist_bits), dist_bits)

Asked ==
  IF Bit(1) = 0 THEN AskedByte
  ELSE IF match_len = MaxMatch THEN AskedLen ELSE AskedLen \o AskedDist

(* Asking for the bits as they were coded, it gets these; else anything.   *)
InStep == Asked = [k \in DOMAIN coded |-> coded[k].prob]

DecodeByte ==
  /\ phase = "decode"
  /\ InStep
  /\ Bit(1) = 0
  /\ output' = Append(output, Number(1, 8) - 256)
  /\ rc_state' = AfterByte(rc_state)
  /\ phase' = "insert"
  /\ UNCHANGED <<data, stale, listVars, windowVars, matchVars, coderVars>>

(* A match is copied byte by byte, its own first bytes among them.         *)
Copied(b) == output[out_ptr - match_dist + 1 + (b % match_dist)]

DecodeMatch ==
  /\ phase = "decode"
  /\ InStep
  /\ Bit(1) = 1 /\ match_len # MaxMatch
  /\ match_dist <= out_ptr
  /\ output' = output \o [k \in 1 .. match_len + 1 |-> Copied(k - 1)]
  /\ rc_state' = AfterMatch(Len(output'))
  /\ phase' = "insert"
  /\ UNCHANGED <<data, stale, listVars, windowVars, matchVars, coderVars>>

DecodeEnd ==
  /\ phase = "decode"
  /\ InStep
  /\ Bit(1) = 1 /\ match_len = MaxMatch
  /\ phase' = "done"
  /\ UNCHANGED <<data, stale, listVars, windowVars, matchVars, coderVars, decoderVars>>

LzNext ==
  \/ InsertNode \/ LastByte \/ NoByte \/ Compare \/ Compared
  \/ MakeRoom \/ Slide \/ Slid
  \/ CodeByte \/ CodeMatch \/ CodeEnd
  \/ DecodeByte \/ DecodeMatch \/ DecodeEnd

LzSpec == LzInit /\ [][LzNext]_lzVars
-----------------------------------------------------------------------------
(***************************************************************************)
(* Properties.                                                             *)
(***************************************************************************)
Linked == {b \in Places : prev[b] # Nil}
Latest(S, none) == IF S = {} THEN none ELSE CHOOSE b \in S : \A c \in S : c <= b
Earliest(S, none) == IF S = {} THEN none ELSE CHOOSE b \in S : \A c \in S : b <= c

(* Between two steps of the compressor the lists of init_tree, insert_node *)
(* and remove_node are the window: each position is linked to the nearest  *)
(* of its pair on both sides and the last is the root; one that is missing *)
(* has a later one after which as many bytes are the same as a match can   *)
(* have, or is the last byte, which starts no pair.                        *)
ChainsAreWindow ==
  phase \in {"insert", "done"} =>
    /\ Linked \subseteq t_start .. t_end - 1
    /\ \A t \in Bytes \X Bytes : root[t] = Latest({b \in Linked : Pair(b) = t}, Nil)
    /\ \A b \in Linked :
         LET alike == {c \in Linked : Pair(c) = Pair(b)}
         IN  /\ next[b] = Latest({c \in alike : c < b}, Nil)
             /\ prev[b] = Earliest({c \in alike : c > b}, First)
    /\ \A b \in (t_start .. t_end - 1) \ Linked :
         \/ b = in_len - 1
         \/ \E c \in Linked : b < c /\ \A k \in 0 .. MaxMatch - 1 : Text(b + k) = Text(c + k)

(* The search through the lists finds what re_find_match does by comparing *)
(* every place of the window: the longest match, and the nearest of those; *)
(* so a removed position is never missed, and the match that is coded is   *)
(* one of at least two bytes, at a distance the format has room for.       *)
Reach == 1 .. Lesser(in_ptr, MaxWindow)
Alike(d) ==
  CHOOSE l \in 0 .. Lesser(MaxMatch, in_len - in_ptr) :
    /\ \A k \in 0 .. l - 1 : data[in_ptr + k] = data[in_ptr + k - d]
    /\ l = Lesser(MaxMatch, in_len - in_ptr) \/ data[in_ptr + l] # data[in_ptr + l - d]
FoundIsBest ==
  phase \in {"slide", "code"} /\ in_ptr < in_len =>
    IF \E d \in Reach : Alike(d) > 1
    THEN LET best == CHOOSE d \in Reach :
                       \A e \in Reach : Alike(e) < Alike(d) \/ (Alike(e) = Alike(d) /\ d <= e)
         IN  t_len = Accept(Alike(best), best) /\ (t_len > 1 => t_pos = best)
    ELSE t_len = 1

(* The decompressor asks for each bit with the probability it was coded    *)
(* with, has the data up to where the compressor is before each item, and  *)
(* all of it when it meets the end.                                        *)
DecoderFollows ==
  /\ phase = "decode" => InStep /\ (Bit(1) = 1 /\ match_len # MaxMatch => match_dist <= out_ptr)
  /\ phase = "insert" =>
       rc_state = re_state /\ output = [k \in 1 .. in_ptr |-> data[k - 1]]
  /\ phase = "done" => in_ptr = in_len /\ out_ptr = in_len
=============================================================================
