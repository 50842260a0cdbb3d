-------------------------------- MODULE Bytes --------------------------------
(***************************************************************************)
(* Bytes, and the little-endian numbers that the file formats of the       *)
(* repository write with encoding/binary.  A byte has ByteBits bits        *)
(* instead of eight; a uint32 is four bytes and a uint16 two, as ever.     *)
(***************************************************************************)
EXTENDS Integers, SequencesExt

CONSTANT ByteBits   \* the bits of a byte

ASSUME ByteBitsAssumption == ByteBits \in Nat \ {0}

ByteSize == 2 ^ ByteBits
WordBits == 4 * ByteBits
HalfSize == ByteSize * ByteSize
WordSize == HalfSize * HalfSize

(* Said of powers in general, which the provers do not know. *)
ASSUME ByteSizeAssumption == ByteSize \in Nat \ {0}

Byte(n) == n % ByteSize

U16(n) == <<Byte(n), Byte(n \div ByteSize)>>
U32(n) == U16(n % HalfSize) \o U16(n \div HalfSize)

GetU16(data, at) == data[at] + ByteSize * data[at + 1]
GetU32(data, at) == GetU16(data, at) + HalfSize * GetU16(data, at + 2)

(* A payload behind its length. *)
Chunk(payload) == U32(Len(payload)) \o payload

(* The n bytes of data from index at on. *)
Slice(data, at, n) == SubSeq(data, at, at + n - 1)

(* Does data end before n bytes from index at on? *)
EndsBefore(data, at, n) == Len(data) < at + n - 1

(* What a decoder returns. *)
Failed == [err |-> TRUE, val |-> <<>>]
Decoded(v) == [err |-> FALSE, val |-> v]

CeilDiv(n, d) == (n + d - 1) \div d
=============================================================================
