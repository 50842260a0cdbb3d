------------------------------- MODULE Codecs -------------------------------
(***************************************************************************)
(* The codecs of posting lists in lab-5-irindex: bit packing (bitpack.go), *)
(* blocks with exceptions (p4delta.go), varint (varint_legacy.go), the     *)
(* choice between them (encode_stream.go) and the blocks of a posting list *)
(* (storage.go).  Indexes into byte sequences count from 1.                *)
(*                                                                         *)
(* A loop that appends is the concatenation of what it appends; a loop     *)
(* that reads until its data is used up is a recursive operator.           *)
(***************************************************************************)
EXTENDS Bytes, FiniteSets

CONSTANTS
  BlockSize,      \* p4BlockSize
  MaxExceptions   \* p4MaxExceptions

(* The length of a block, its width and its positions fit a byte. *)
ASSUME BlockAssumption ==
  /\ BlockSize \in 1..(ByteSize - 1) /\ WordBits < ByteSize
  /\ MaxExceptions \in 0..BlockSize

-----------------------------------------------------------------------------
(* Bit packing. *)
bitsNeeded(m) == CHOOSE n \in 0..WordBits : m < 2 ^ n /\ \A b \in 0..(n - 1) : m >= 2 ^ b

(* Bit n, from 0, of the values written with a width, the highest first. *)
WrittenBit(vals, width, n) ==
  IF n >= Len(vals) * width THEN 0
  ELSE (vals[n \div width + 1] \div 2 ^ (width - 1 - (n % width))) % 2

(* finish fills the last byte up with zeros. *)
packBits(vals, width) ==
  [m \in 1..CeilDiv(Len(vals) * width, ByteBits) |->
     FoldLeft(LAMBDA acc, n : 2 * acc + WrittenBit(vals, width, (m - 1) * ByteBits + n),
              0, [n \in 1..ByteBits |-> n - 1])]

ReadBit(data, n) == (data[n \div ByteBits + 1] \div 2 ^ (ByteBits - 1 - (n % ByteBits))) % 2

(* count calls of readBits; bits above a word are shifted out. *)
unpackBits(data, width, count) ==
  IF count * width > Len(data) * ByteBits THEN Failed
  ELSE Decoded([k \in 1..count |->
         FoldLeft(LAMBDA acc, n : (2 * acc + ReadBit(data, (k - 1) * width + n)) % WordSize,
                  0, [n \in 1..width |-> n - 1])])

Largest(vals) == FoldLeft(LAMBDA m, v : IF v > m THEN v ELSE m, 0, vals)

-----------------------------------------------------------------------------
(* P4Delta. *)
(* The indexes of the values that b bits do not hold. *)
Exceptions(vals, b) == SelectSeq([i \in 1..Len(vals) |-> i], LAMBDA i : vals[i] >= 2 ^ b)

SizeWith(vals, b) ==
  3 + CeilDiv(Len(vals) * b, ByteBits) + 5 * Len(Exceptions(vals, b))

(* chooseP4Params: the first width with the smallest size.  With all bits  *)
(* of a word nothing is an exception, so there always is one, and the      *)
(* fallback after the loop is never taken.                                 *)
ChosenWidth(vals) ==
  LET allowed == {b \in 0..WordBits : Len(Exceptions(vals, b)) <= MaxExceptions}
      smaller(b, c) == \/ SizeWith(vals, b) < SizeWith(vals, c)
                       \/ SizeWith(vals, b) = SizeWith(vals, c) /\ b <= c
  IN  CHOOSE b \in allowed : \A c \in allowed : smaller(b, c)

encodeP4Block(vals) ==
  LET b   == ChosenWidth(vals)
      exc == Exceptions(vals, b)
      low == [i \in 1..Len(vals) |-> IF i \in ToSet(exc) THEN 0 ELSE vals[i]]
  IN  <<Byte(Len(vals)), b, Byte(Len(exc))>> \o packBits(low, b)
        \o [i \in 1..Len(exc) |-> Byte(exc[i] - 1)]
        \o FlattenSeq([i \in 1..Len(exc) |-> U32(vals[exc[i]])])

encodePForDelta(vals) ==
  IF vals = <<>> THEN <<>>
  ELSE U32(Len(vals)) \o
       FlattenSeq([m \in 1..CeilDiv(Len(vals), BlockSize) |->
         encodeP4Block(SubSeq(vals, (m - 1) * BlockSize + 1,
                              IF m * BlockSize > Len(vals) THEN Len(vals) ELSE m * BlockSize))])

(* The value at position k, from 0, of a block: the last exception there   *)
(* is, or what was packed.                                                 *)
Patched(packed, excPos, excVals) ==
  [k \in 1..Len(packed) |->
     LET here == {j \in 1..Len(excPos) : excPos[j] = k - 1}
     IN  IF here = {} THEN packed[k]
         ELSE excVals[CHOOSE j \in here : \A other \in here : other <= j]]

RECURSIVE decodeBlocks(_, _, _, _)
decodeBlocks(data, at, n, out) ==
  IF Len(out) >= n THEN Decoded(out)
  ELSE IF EndsBefore(data, at, 3) THEN Failed
  ELSE LET blen    == data[at]
           bits    == data[at + 1]
           nExc    == data[at + 2]
           packLen == CeilDiv(blen * bits, ByteBits)
           body    == at + 3
           pos     == body + packLen
           packed  == unpackBits(Slice(data, body, packLen), bits, blen)
       IN  IF \/ blen = 0 \/ blen > BlockSize
              \/ EndsBefore(data, body, packLen + 5 * nExc)
           THEN Failed
           ELSE decodeBlocks(data, pos + 5 * nExc, n,
                  out \o Patched(packed.val, Slice(data, pos, nExc),
                           [j \in 1..nExc |-> GetU32(data, pos + nExc + 4 * (j - 1))]))

decodePForDelta(data, count) ==
  IF count = 0 THEN Decoded(<<>>)
  ELSE IF Len(data) < 4 THEN Failed
  ELSE IF GetU32(data, 1) # count THEN Failed
  ELSE decodeBlocks(data, 5, count, <<>>)

-----------------------------------------------------------------------------
(* Varint: groups of bits, the lowest first, with the top bit set in all   *)
(* bytes but the last.                                                     *)
HighBit == ByteSize \div 2

RECURSIVE putLate(_)
putLate(v) ==                      \* mutant: a number at the limit is written as one byte
  IF v <= HighBit THEN <<v>> ELSE <<HighBit + (v % HighBit)>> \o putLate(v \div HighBit)

RECURSIVE putUvarint(_)
putUvarint(v) ==
  IF v < HighBit THEN <<v>> ELSE <<HighBit + (v % HighBit)>> \o putUvarint(v \div HighBit)

encodeVarintStream(vals) == FlattenSeq([i \in 1..Len(vals) |-> putUvarint(vals[i])])

(* Does group i reach into a uint32? *)
InWord(i) == (ByteBits - 1) * (i - 1) < WordBits

(* The groups of a uint64, which is twice as wide as the numbers here, and *)
(* the values that are left for the last of them.  binary.Uvarint takes    *)
(* more for an overflow.                                                   *)
MaxVarintLen == CeilDiv(2 * WordBits, ByteBits - 1)
LastGroup == 2 ^ (2 * WordBits - (ByteBits - 1) * (MaxVarintLen - 1))

RECURSIVE decodeVarintStream(_, _, _)
decodeVarintStream(data, count, out) ==
  IF Len(out) = count THEN Decoded(out)
  ELSE LET ends == {n \in 1..Len(data) : data[n] < HighBit}
           n == CHOOSE m \in ends : \A other \in ends : m <= other
           v == FoldLeft(LAMBDA sum, i : (sum + (data[i] % HighBit) * HighBit ^ (i - 1)) % WordSize,
                         0, SelectSeq([i \in 1..n |-> i], InWord))
       IN  IF \/ ends = {} \/ n > MaxVarintLen
              \/ n = MaxVarintLen /\ data[n] >= LastGroup
           THEN Failed
           ELSE decodeVarintStream(SubSeq(data, n + 1, Len(data)), count, Append(out, v))

-----------------------------------------------------------------------------
(* Streams: a codec and its payload. *)
streamVarint == 0
streamBitpack == 1

bitpackPayload(vals) ==
  LET width == bitsNeeded(Largest(vals)) IN <<width>> \o packBits(vals, width)

encodeBitpackStream(vals) ==
  [codec |-> streamBitpack, payload |-> IF vals = <<>> THEN <<>> ELSE bitpackPayload(vals)]

encodeOptimalStream(vals) ==
  LET vi == encodeVarintStream(vals)
      bp == bitpackPayload(vals)
  IN  IF vals = <<>> \/ Len(vi) <= Len(bp)
      THEN [codec |-> streamVarint, payload |-> vi]
      ELSE [codec |-> streamBitpack, payload |-> bp]

decodeStream(codec, data, count) ==
  CASE count = 0 -> Decoded(<<>>)
    [] count > 0 /\ codec = streamVarint -> decodeVarintStream(data, count, <<>>)
    [] count > 0 /\ codec = streamBitpack ->
         IF data = <<>> THEN Failed ELSE unpackBits(Tail(data), data[1], count)
    [] OTHER -> Failed

-----------------------------------------------------------------------------
(* Posting lists: sequences of [doc, poss]. *)
(* Differences of 32 bits; the first number stays as it is. *)
Deltas(s) == [i \in 1..Len(s) |-> IF i = 1 THEN s[1] ELSE (s[i] - s[i - 1]) % WordSize]

Sums(s) ==
  [i \in 1..Len(s) |-> FoldLeft(LAMBDA sum, d : (sum + d) % WordSize, 0, SubSeq(s, 1, i))]

docsOf(ps)  == [i \in 1..Len(ps) |-> ps[i].doc]
tfVals(ps)  == [i \in 1..Len(ps) |-> Len(ps[i].poss)]
posVals(ps) == FlattenSeq([i \in 1..Len(ps) |-> Deltas(ps[i].poss)])

(* encodePostingsP4, with the other two streams as one codec made them. *)
EncodedWith(ps, tf, pos) ==
  U32(Len(ps)) \o
  (IF ps = <<>> THEN <<>>
   ELSE <<0, tf.codec, pos.codec, 0>> \o Chunk(encodePForDelta(Deltas(docsOf(ps))))
          \o Chunk(tf.payload) \o Chunk(pos.payload))

encodePostings(ps) ==
  EncodedWith(ps, encodeOptimalStream(tfVals(ps)), encodeOptimalStream(posVals(ps)))

encodePostingsP4Bitpack(ps) ==
  EncodedWith(ps, encodeBitpackStream(tfVals(ps)), encodeBitpackStream(posVals(ps)))

ChunkEnd(data, at) == at + 4 + GetU32(data, at)

(* Does the chunk at an index end before data does? *)
IsChunk(data, at) ==
  ~EndsBefore(data, at, 4) /\ Len(data) >= ChunkEnd(data, at) - 1

ChunkAt(data, at) == SubSeq(data, at + 4, ChunkEnd(data, at) - 1)

AssembledOnward(deltas, tfs, poss) ==     \* mutant: positions are summed up across postings
  LET docs  == Sums(deltas)
      first == Sums(<<1>> \o tfs)
      all   == Sums(poss)
  IN  [i \in 1..Len(tfs) |-> [doc |-> docs[i], poss |-> Slice(all, first[i], tfs[i])]]

(* The posting list that the three streams make. *)
Assembled(deltas, tfs, poss) ==
  LET docs  == Sums(deltas)
      first == Sums(<<1>> \o tfs)
  IN  [i \in 1..Len(tfs) |->
         [doc |-> docs[i], poss |-> Sums(Slice(poss, first[i], tfs[i]))]]

(* The code first reads the three chunks, then decodes them. *)
decodePostings(data) ==
  LET nPost == GetU32(data, 1)
      tfAt  == ChunkEnd(data, 9)
      posAt == ChunkEnd(data, tfAt)
      docs  == decodePForDelta(ChunkAt(data, 9), nPost)
      tfs   == decodeStream(data[6], ChunkAt(data, tfAt), nPost)
      nPos  == FoldLeft(+, 0, tfs.val)
      poss  == decodeStream(data[7], ChunkAt(data, posAt), nPos)
  IN  IF Len(data) < 4 THEN Failed
      ELSE IF nPost = 0 THEN Decoded(<<>>)
      ELSE IF Len(data) < 8 \/ data[5] # 0 THEN Failed
      ELSE IF ~IsChunk(data, 9) \/ ~IsChunk(data, tfAt) \/ ~IsChunk(data, posAt) THEN Failed
      ELSE IF docs.err \/ tfs.err \/ poss.err THEN Failed
      ELSE Decoded(Assembled(docs.val, tfs.val, poss.val))
=============================================================================
