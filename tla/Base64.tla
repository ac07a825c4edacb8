------------------------------- MODULE Base64 -------------------------------
(***************************************************************************)
(* The Base64 codec of KCNet, lib/base64/include/base64.hpp: to_base64 and *)
(* from_base64, one action per turn of their loops, so that a pointer that *)
(* leaves its buffer is a state.  A call encodes a byte string and decodes *)
(* what it got, or decodes a text that came from elsewhere.                *)
(*                                                                         *)
(* A character is its place in the alphabet "A".."Z" "a".."z" "0".."9" "+" *)
(* "/", or Padding, or Other for every further byte.  Shifts are products  *)
(* and quotients; | joins disjoint bits and is a sum.  The header has two  *)
(* sets of decoding tables, of which a build uses that of its byte order.  *)
(***************************************************************************)
EXTENDS Integers, Sequences, FiniteSets

CONSTANTS
    Inputs,      \* the byte strings given to to_base64
    Texts        \* the texts given to from_base64

Byte == 0 .. 255
Alphabet == 0 .. 63
Padding == 64
Other == 65
Char == Alphabet \cup {Padding, Other}

ASSUME InputsAssumption == Inputs \subseteq Seq(Byte)
ASSUME TextsAssumption == Texts \subseteq Seq(Char)

VARIABLES
    endian,     \* the byte order of the build: "little" or "big"
    pc,         \* the control point
    origin,     \* who made the text: "none" yet, "to_base64" or "elsewhere"
    data,       \* the byte string to encode
    text,       \* the encoded buffer, then the text to decode
    decoded,    \* the decoded buffer
    i,          \* the loop counter
    bytes,      \* how far the read pointer has come
    curr        \* how far currEncoding or currDecoding has come

vars == <<endian, pc, origin, data, text, decoded, i, bytes, curr>>

Init ==
    /\ endian \in {"little", "big"}
    /\ pc = "idle" /\ origin = "none"
    /\ data = <<>> /\ text = <<>> /\ decoded = <<>>
    /\ i = 0 /\ bytes = 0 /\ curr = 0

-----------------------------------------------------------------------------
(* The tables.                                                             *)

encode_table_0 == [t \in Byte |-> t \div 4]
\* Mutant: the entries from 64 on do not start again with "A".
encode_table_1Unmasked == [t \in Byte |-> t]
encode_table_1 == [t \in Byte |-> t % 64]

bad_char == 33554431                                        \* 0x01FFFFFF

\* Where each of the four characters of a group keeps its bits in the word: in
\* a little-endian build, so that its bytes are stored in the order of the data,
little_table_0 == [c \in Char |->
    IF c \in Alphabet THEN c * 4 ELSE bad_char]
little_table_1 == [c \in Char |->
    IF c \in Alphabet THEN (c \div 16) + (c % 16) * 4096 ELSE bad_char]
little_table_2 == [c \in Char |->
    IF c \in Alphabet THEN (c \div 4) * 256 + (c % 4) * 4194304 ELSE bad_char]
little_table_3 == [c \in Char |->
    IF c \in Alphabet THEN c * 65536 ELSE bad_char]

\* and in a big-endian build, where the highest of the four bytes is empty.
big_table_0 == [c \in Char |-> IF c \in Alphabet THEN c * 262144 ELSE bad_char]
big_table_1 == [c \in Char |-> IF c \in Alphabet THEN c * 4096 ELSE bad_char]
big_table_2 == [c \in Char |-> IF c \in Alphabet THEN c * 64 ELSE bad_char]
big_table_3 == [c \in Char |-> IF c \in Alphabet THEN c ELSE bad_char]

decode_table_0 == IF endian = "little" THEN little_table_0 ELSE big_table_0
decode_table_1 == IF endian = "little" THEN little_table_1 ELSE big_table_1
decode_table_2 == IF endian = "little" THEN little_table_2 ELSE big_table_2
decode_table_3 == IF endian = "little" THEN little_table_3 ELSE big_table_3

\* A buffer after s has been stored at the write pointer.
Stored(buffer, s) ==
    [k \in DOMAIN buffer |->
        IF k \in curr + 1 .. curr + Len(s) THEN s[k - curr] ELSE buffer[k]]

Filled(n, x) == [k \in 1 .. n |-> x]

-----------------------------------------------------------------------------
(* encode_into                                                             *)

encodedsize(binarytextsize) ==
    4 * (binarytextsize \div 3 + (IF binarytextsize % 3 > 0 THEN 1 ELSE 0))

to_base64 ==
    /\ pc = "idle"
    /\ data' \in Inputs
    /\ text' = Filled(encodedsize(Len(data')), Padding)
    /\ i' = Len(data') \div 3
    /\ pc' = "encode" /\ origin' = "to_base64"
    /\ UNCHANGED <<endian, decoded, bytes, curr>>

Encoded(s) ==
    /\ text' = Stored(text, s)
    /\ curr' = curr + Len(s)

EncodeGroup ==
    /\ pc = "encode" /\ i > 0
    /\ LET t1 == data[bytes + 1]
           t2 == data[bytes + 2]
           t3 == data[bytes + 3]
       IN Encoded(<<encode_table_0[t1],
                    encode_table_1[(t1 % 4) * 16 + t2 \div 16],
                    encode_table_1[(t2 % 16) * 4 + t3 \div 64],
                    encode_table_1[t3]>>)
    /\ bytes' = bytes + 3 /\ i' = i - 1
    /\ UNCHANGED <<endian, pc, origin, data, decoded>>

\* Mutant: the last character of a group of two bytes is not shifted.
EncodeTailUnshifted ==
    /\ pc = "encode" /\ i = 0
    /\ LET t1 == data[bytes + 1]
           t2 == data[bytes + 2]
       IN \/ Len(data) % 3 = 0 /\ Encoded(<<>>)
          \/ /\ Len(data) % 3 = 1
             /\ Encoded(<<encode_table_0[t1], encode_table_1[(t1 % 4) * 16]>>)
          \/ /\ Len(data) % 3 = 2
             /\ Encoded(<<encode_table_0[t1],
                          encode_table_1[(t1 % 4) * 16 + t2 \div 16],
                          encode_table_1[t2 % 16]>>)
    /\ pc' = "from_base64"
    /\ UNCHANGED <<endian, origin, data, decoded, i, bytes>>

\* The rest of one or two bytes; the padding is in the buffer already.
EncodeTail ==
    /\ pc = "encode" /\ i = 0
    /\ LET t1 == data[bytes + 1]
           t2 == data[bytes + 2]
       IN \/ Len(data) % 3 = 0 /\ Encoded(<<>>)
          \/ /\ Len(data) % 3 = 1
             /\ Encoded(<<encode_table_0[t1], encode_table_1[(t1 % 4) * 16]>>)
          \/ /\ Len(data) % 3 = 2
             /\ Encoded(<<encode_table_0[t1],
                          encode_table_1[(t1 % 4) * 16 + t2 \div 16],
                          encode_table_1[(t2 % 16) * 4]>>)
    /\ pc' = "from_base64"
    /\ UNCHANGED <<endian, origin, data, decoded, i, bytes>>

-----------------------------------------------------------------------------
(* decode_into                                                             *)

\* The number of '=' among the last four characters.
numPadding == Cardinality({k \in 0 .. 3 : text[Len(text) - k] = Padding})

\* A text that to_base64 has not made.
OtherText ==
    /\ pc = "idle"
    /\ text' \in Texts
    /\ pc' = "from_base64" /\ origin' = "elsewhere"
    /\ UNCHANGED <<endian, data, decoded, i, bytes, curr>>

Returns == pc' = "returned" /\ UNCHANGED <<endian, origin, data, text>>
Throws == pc' = "thrown"
          /\ UNCHANGED <<endian, origin, data, text, decoded, i, bytes, curr>>

DecodeEmpty ==
    /\ pc = "from_base64" /\ text = <<>>
    /\ decoded' = <<>>
    /\ Returns /\ UNCHANGED <<i, bytes, curr>>

WrongSize ==
    /\ pc = "from_base64" /\ Len(text) % 4 # 0
    /\ Throws

WrongPadding ==
    /\ pc = "from_base64" /\ text # <<>> /\ Len(text) % 4 = 0
    /\ numPadding > 2
    /\ Throws

\* The decoded buffer and the count of whole groups, for a padding of n.
Decode(size, groups) ==
    /\ pc = "from_base64" /\ text # <<>> /\ Len(text) % 4 = 0
    /\ numPadding <= 2
    /\ decoded' = Filled(size, 46)                          \* '.'
    /\ i' = groups
    /\ bytes' = 0 /\ curr' = 0
    /\ pc' = "decode"
    /\ UNCHANGED <<endian, origin, data, text>>

\* Mutant: the padding stays in the decoded size.
from_base64Size ==
    Decode((Len(text) * 3) \div 4,
           Len(text) \div 4 - (IF numPadding # 0 THEN 1 ELSE 0))
\* Mutant: a padded last group is decoded as a whole one.
from_base64Whole ==
    Decode((Len(text) * 3) \div 4 - numPadding, Len(text) \div 4)

from_base64 ==
    Decode((Len(text) * 3) \div 4 - numPadding,
           Len(text) \div 4 - (IF numPadding # 0 THEN 1 ELSE 0))

\* d1 | d2 | d3 | d4: bad_char sets every bit that a good entry may have.
Or(d1, d2, d3, d4) ==
    IF bad_char \in {d1, d2, d3, d4} THEN bad_char ELSE d1 + d2 + d3 + d4

\* The word of the next n characters.
Word(n) ==
    Or(decode_table_0[text[bytes + 1]],
       decode_table_1[text[bytes + 2]],
       IF n > 2 THEN decode_table_2[text[bytes + 3]] ELSE 0,
       IF n > 3 THEN decode_table_3[text[bytes + 4]] ELSE 0)

\* The word as it is in memory.
bit_cast(temp) ==
    LET b0 == temp % 256
        b1 == (temp \div 256) % 256
        b2 == (temp \div 65536) % 256
        b3 == (temp \div 16777216) % 256
    IN IF endian = "little" THEN <<b0, b1, b2, b3>> ELSE <<b3, b2, b1, b0>>

\* The place of decidx0, which decidx1 and decidx2 follow, in either build.
little_decidx == 1
big_decidx == 2

\* Mutant: the indices 0, 1, 2 in either build.
decidxSame == little_decidx
decidx == IF endian = "little" THEN little_decidx ELSE big_decidx

tempBytes(temp) == SubSeq(bit_cast(temp), decidx, decidx + 2)

\* Mutant: a bad character alone does not exceed bad_char.
InvalidAbove(temp) == temp > bad_char
Invalid(temp) == temp >= bad_char

\* The next n characters become n-1 bytes.
Decoded(n) ==
    /\ ~ Invalid(Word(n))
    /\ decoded' = Stored(decoded, SubSeq(tempBytes(Word(n)), 1, n - 1))
    /\ bytes' = bytes + n /\ curr' = curr + n - 1

DecodeGroup ==
    /\ pc = "decode" /\ i > 0
    /\ Decoded(4)
    /\ i' = i - 1
    /\ UNCHANGED <<endian, pc, origin, data, text>>

\* The last group: none without padding, else three or two characters.
DecodeTail ==
    /\ pc = "decode" /\ i = 0
    /\ IF numPadding = 0
       THEN UNCHANGED <<decoded, bytes, curr>>
       ELSE Decoded(4 - numPadding)
    /\ Returns /\ UNCHANGED i

InvalidCharacter ==
    /\ pc = "decode"
    /\ \/ i > 0 /\ Invalid(Word(4))
       \/ i = 0 /\ numPadding # 0 /\ Invalid(Word(4 - numPadding))
    /\ Throws

Next ==
    \/ to_base64 \/ EncodeGroup \/ EncodeTail
    \/ OtherText \/ DecodeEmpty \/ WrongSize \/ WrongPadding \/ from_base64
    \/ DecodeGroup \/ DecodeTail \/ InvalidCharacter

Spec == Init /\ [][Next]_vars

-----------------------------------------------------------------------------
(* Reference: the bits of a string of bytes and of a text, from the first. *)

ByteBits(t) ==
    <<t \div 128, (t \div 64) % 2, (t \div 32) % 2, (t \div 16) % 2,
      (t \div 8) % 2, (t \div 4) % 2, (t \div 2) % 2, t % 2>>
CharBits(c) ==
    <<c \div 32, (c \div 16) % 2, (c \div 8) % 2, (c \div 4) % 2, (c \div 2) % 2, c % 2>>

\* Bit k, counted from 0.
DataBit(s, k) == ByteBits(s[(k \div 8) + 1])[(k % 8) + 1]
TextBit(t, k) == CharBits(t[(k \div 6) + 1])[(k % 6) + 1]

\* Whole groups of the alphabet, the last n characters padding.
PaddedBy(t, n) ==
    /\ n <= Len(t)
    /\ \A k \in 1 .. Len(t) - n : t[k] \in Alphabet
    /\ \A k \in Len(t) - n + 1 .. Len(t) : t[k] = Padding

IsBase64(t) == Len(t) % 4 = 0 /\ \E n \in 0 .. 2 : PaddedBy(t, n)

-----------------------------------------------------------------------------
(* Properties                                                              *)

\* Every variable keeps its type; the loop counter, a size_t, does not wrap.
TypeOK ==
    /\ endian \in {"little", "big"}
    /\ pc \in {"idle", "encode", "from_base64", "decode", "returned", "thrown"}
    /\ origin \in {"none", "to_base64", "elsewhere"}
    /\ data \in Seq(Byte) /\ text \in Seq(Char) /\ decoded \in Seq(Byte)
    /\ i \in Nat /\ bytes \in Nat /\ curr \in Nat

\* No loop of encode_into or decode_into reads or writes past a buffer, and a
\* decoded buffer that is returned has been written to its last byte.
InBounds ==
    /\ pc = "encode" => bytes <= Len(data) /\ curr <= Len(text)
    /\ pc = "from_base64" => curr <= Len(text)
    /\ pc = "decode" => bytes <= Len(text) /\ curr <= Len(decoded)
    /\ pc = "returned" /\ text # <<>> =>
          /\ curr = Len(decoded)
          /\ bytes = Len(text) - numPadding

\* What encode_into returns has the bits of the data in their order and then
\* zeros, in as few characters as hold them, padded to a multiple of four.
EncodesTheBits ==
    pc = "from_base64" /\ origin = "to_base64" =>
        LET n == (8 * Len(data) + 5) \div 6
        IN /\ Len(text) % 4 = 0 /\ Len(text) - n \in 0 .. 2
           /\ PaddedBy(text, Len(text) - n)
           /\ \A k \in 0 .. 6 * n - 1 :
                 TextBit(text, k) = IF k < 8 * Len(data) THEN DataBit(data, k) ELSE 0

\* decode_into takes back what encode_into made: it never throws, and it
\* returns the data.
RoundTrip ==
    origin = "to_base64" =>
        /\ pc # "thrown"
        /\ pc = "returned" => decoded = data

\* decode_into returns for the texts made of whole groups of the alphabet with
\* at most two '=' at the very end, and throws for every other.
AcceptsBase64Only ==
    /\ pc = "returned" => IsBase64(text)
    /\ pc = "thrown" => ~ IsBase64(text)

\* What decode_into returns has the bits of the text in front of its padding, in
\* their order, as many as fill whole bytes: whatever is in the bits that
\* encode_into fills with zeros.
DecodesTheBits ==
    pc = "returned" =>
        \E n \in 0 .. 2 :
            /\ PaddedBy(text, n)
            /\ Len(decoded) = (6 * (Len(text) - n)) \div 8
            /\ \A k \in 0 .. 8 * Len(decoded) - 1 : DataBit(decoded, k) = TextBit(text, k)
=============================================================================
