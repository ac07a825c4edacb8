--------------------------- MODULE Base64_proofs ---------------------------
(* Theorems about the codec, for byte strings and texts of every length,   *)
(* and for either byte order: where its pointers are.                      *)
EXTENDS Base64, FiniteSetTheorems, SequenceTheorems, TLAPS

\* In front of encode_into's loop counter lies what is read and written already,
\* behind it the groups to come and the rest of one or two bytes.
EncodeInv ==
    /\ pc = "idle" => curr = 0 /\ bytes = 0
    /\ pc = "encode" =>
          /\ bytes + 3 * i + (Len(data) % 3) = Len(data)
          /\ curr + 4 * i + (IF Len(data) % 3 > 0 THEN 4 ELSE 0) = Len(text)
    /\ pc = "from_base64" => curr <= Len(text)

\* The same of decode_into, whose last group is a rest if it is padded.
DecodeInv ==
    /\ pc = "decode" =>
          /\ numPadding <= 2
          /\ bytes + 4 * i + (IF numPadding # 0 THEN 4 ELSE 0) = Len(text)
          /\ curr + 3 * i + (IF numPadding # 0 THEN 3 - numPadding ELSE 0) = Len(decoded)
    /\ pc = "returned" /\ text # <<>> =>
          curr = Len(decoded) /\ bytes = Len(text) - numPadding

CodecInv == TypeOK /\ EncodeInv /\ DecodeInv

-----------------------------------------------------------------------------
(* Buffers.                                                                *)

\* Storing within a buffer keeps its size and the type of what it holds.
LEMMA StoredFacts ==
  ASSUME NEW S, NEW buffer \in Seq(S), NEW s \in Seq(S), curr \in Nat
  PROVE  Stored(buffer, s) \in Seq(S) /\ Len(Stored(buffer, s)) = Len(buffer)
<1>1. DOMAIN buffer = 1 .. Len(buffer) /\ Len(buffer) \in Nat /\ Len(s) \in Nat
  OBVIOUS
<1>2. ASSUME NEW k \in DOMAIN buffer
      PROVE  (IF k \in curr + 1 .. curr + Len(s) THEN s[k - curr] ELSE buffer[k]) \in S
  <2>1. CASE k \in curr + 1 .. curr + Len(s)
    <3>1. k - curr \in 1 .. Len(s)
      BY <1>1, <2>1
    <3> QED
      BY <2>1, <3>1
  <2>2. CASE k \notin curr + 1 .. curr + Len(s)
    BY <2>2
  <2> QED
    BY <2>1, <2>2
<1>3. Stored(buffer, s) \in [1 .. Len(buffer) -> S]
  BY <1>1, <1>2 DEF Stored
<1> QED
  BY <1>1, <1>3, IsASeq, LenProperties

\* A filled buffer has the size that was asked for and holds one value.
LEMMA FilledFacts ==
  ASSUME NEW S, NEW x \in S, NEW n \in Nat
  PROVE  /\ Filled(n, x) \in Seq(S) /\ Len(Filled(n, x)) = n
         /\ \A k \in 1 .. n : Filled(n, x)[k] = x
<1>1. Filled(n, x) \in [1 .. n -> S] /\ \A k \in 1 .. n : Filled(n, x)[k] = x
  BY DEF Filled
<1>2. Filled(n, x) \in Seq(S) /\ Len(Filled(n, x)) = n
  BY <1>1, IsASeq, LenProperties
<1> QED
  BY <1>1, <1>2

\* There are at most four characters of padding.
LEMMA PaddingFacts == numPadding \in 0 .. 4
<1>1. IsFiniteSet(0 .. 3) /\ Cardinality(0 .. 3) = 4
  <2>1. \A a \in Int, b \in Int :
           IsFiniteSet(a .. b) /\ Cardinality(a .. b) = IF a > b THEN 0 ELSE b - a + 1
    BY FS_Interval, Zenon
  <2>2. 0 \in Int /\ 3 \in Int /\ (IF 0 > 3 THEN 0 ELSE 3 - 0 + 1) = 4
    OBVIOUS
  <2>3. IsFiniteSet(0 .. 3) /\ Cardinality(0 .. 3) = IF 0 > 3 THEN 0 ELSE 3 - 0 + 1
    BY <2>1, <2>2, Zenon
  <2> QED
    BY <2>2, <2>3
<1> DEFINE P == {k \in 0 .. 3 : text[Len(text) - k] = Padding}
<1>2. P \in SUBSET (0 .. 3)
  OBVIOUS
<1>3. IsFiniteSet(P) /\ Cardinality(P) <= 4
  BY <1>1, <1>2, FS_Subset
<1>4. Cardinality(P) \in Nat
  BY <1>3, FS_CardinalityType
<1> QED
  BY <1>3, <1>4 DEF numPadding

-----------------------------------------------------------------------------
(* The groups.                                                             *)

\* What is written for a group of bytes are characters of the alphabet.
LEMMA EncodedType ==
  ASSUME NEW t1 \in Byte, NEW t2 \in Byte, NEW t3 \in Byte
  PROVE  /\ encode_table_0[t1] \in Char
         /\ encode_table_1[(t1 % 4) * 16] \in Char
         /\ encode_table_1[(t1 % 4) * 16 + t2 \div 16] \in Char
         /\ encode_table_1[(t2 % 16) * 4] \in Char
         /\ encode_table_1[(t2 % 16) * 4 + t3 \div 64] \in Char
         /\ encode_table_1[t3] \in Char
<1>1. /\ (t1 % 4) * 16 \in Byte
      /\ (t1 % 4) * 16 + t2 \div 16 \in Byte
      /\ (t2 % 16) * 4 \in Byte
      /\ (t2 % 16) * 4 + t3 \div 64 \in Byte
  BY DEF Byte
<1>2. /\ \A t \in Byte : encode_table_0[t] \in Char
      /\ \A t \in Byte : encode_table_1[t] \in Char
  BY DEF encode_table_0, encode_table_1, Byte, Char, Alphabet
<1> QED
  BY <1>1, <1>2

\* The entries of the tables are numbers.
LEMMA TableType ==
  ASSUME NEW c \in Char
  PROVE  /\ decode_table_0[c] \in Nat /\ decode_table_1[c] \in Nat
         /\ decode_table_2[c] \in Nat /\ decode_table_3[c] \in Nat
<1>1. /\ little_table_0[c] \in Nat /\ little_table_1[c] \in Nat
      /\ little_table_2[c] \in Nat /\ little_table_3[c] \in Nat
  BY DEF little_table_0, little_table_1, little_table_2, little_table_3, bad_char,
         Alphabet
<1>2. /\ big_table_0[c] \in Nat /\ big_table_1[c] \in Nat
      /\ big_table_2[c] \in Nat /\ big_table_3[c] \in Nat
  BY DEF big_table_0, big_table_1, big_table_2, big_table_3, bad_char, Alphabet
<1> QED
  BY <1>1, <1>2 DEF decode_table_0, decode_table_1, decode_table_2, decode_table_3

\* The characters of a group that lies in the text give a number,
LEMMA WordType ==
  ASSUME TypeOK, NEW n \in {2, 3, 4}, bytes + n <= Len(text)
  PROVE  Word(n) \in Nat
<1>1. /\ text[bytes + 1] \in Char /\ text[bytes + 2] \in Char
      /\ n > 2 => text[bytes + 3] \in Char
      /\ n > 3 => text[bytes + 4] \in Char
  BY DEF TypeOK
<1> DEFINE w1 == decode_table_0[text[bytes + 1]]
           w2 == decode_table_1[text[bytes + 2]]
           w3 == IF n > 2 THEN decode_table_2[text[bytes + 3]] ELSE 0
           w4 == IF n > 3 THEN decode_table_3[text[bytes + 4]] ELSE 0
<1>2. w1 \in Nat /\ w2 \in Nat /\ w3 \in Nat /\ w4 \in Nat
  BY <1>1, TableType
<1>3. Word(n) = Or(w1, w2, w3, w4)
  BY DEF Word
<1> HIDE DEF w1, w2, w3, w4
<1> QED
  BY <1>2, <1>3 DEF Or, bad_char

\* a number is stored as bytes, of which three are used,
LEMMA BytesOfWord ==
  ASSUME NEW w \in Nat
  PROVE  tempBytes(w) \in Seq(Byte) /\ Len(tempBytes(w)) = 3
<1>1. bit_cast(w) \in Seq(Byte) /\ Len(bit_cast(w)) = 4
  <2> DEFINE b0 == w % 256
             b1 == (w \div 256) % 256
             b2 == (w \div 65536) % 256
             b3 == (w \div 16777216) % 256
  <2>1. \A m \in Nat : m % 256 \in Byte
    BY DEF Byte
  <2>2. w \div 256 \in Nat /\ w \div 65536 \in Nat /\ w \div 16777216 \in Nat
    OBVIOUS
  <2>3. b0 \in Byte /\ b1 \in Byte /\ b2 \in Byte /\ b3 \in Byte
    BY <2>1, <2>2
  <2>4. bit_cast(w) = IF endian = "little" THEN <<b0, b1, b2, b3>> ELSE <<b3, b2, b1, b0>>
    BY DEF bit_cast
  <2> HIDE DEF b0, b1, b2, b3
  <2> QED
    BY <2>3, <2>4
<1>2. tempBytes(w) \in Seq(Byte) /\ Len(tempBytes(w)) = 3
  <2>1. decidx \in {1, 2}
    BY DEF decidx, little_decidx, big_decidx
  <2> HIDE DEF decidx
  <2> DEFINE b == bit_cast(w)
             d == decidx
  <2>2. b \in Seq(Byte) /\ Len(b) = 4 /\ d \in {1, 2} /\ tempBytes(w) = SubSeq(b, d, d + 2)
    BY <1>1, <2>1 DEF tempBytes
  <2> HIDE DEF b, d
  <2>3. SubSeq(b, d, d + 2) \in Seq(Byte) /\ Len(SubSeq(b, d, d + 2)) = 3
    <3>0. d \in Int /\ d + 2 \in Int /\ \A k \in d .. d + 2 : k \in 1 .. 4
      BY <2>2
    <3>1. \A k \in d .. d + 2 : b[k] \in Byte
      BY <2>2, <3>0, ElementOfSeq
    <3>2. /\ SubSeq(b, d, d + 2) \in Seq(Byte)
          /\ Len(SubSeq(b, d, d + 2)) = IF d <= d + 2 THEN (d + 2) - d + 1 ELSE 0
      BY <3>0, <3>1, SubSeqProperties
    <3>3. d <= d + 2 /\ (d + 2) - d + 1 = 3
      BY <2>2
    <3> QED
      BY <3>2, <3>3
  <2> QED
    BY <2>2, <2>3
<1> QED
  BY <1>2

\* and a group is decoded to bytes, one fewer than it has characters.
LEMMA DecodedBytes ==
  ASSUME TypeOK, NEW n \in {2, 3, 4}, bytes + n <= Len(text)
  PROVE  LET s == SubSeq(tempBytes(Word(n)), 1, n - 1)
         IN  s \in Seq(Byte) /\ Len(s) = n - 1
<1> DEFINE b == tempBytes(Word(n))
<1>1. b \in Seq(Byte) /\ Len(b) = 3
  BY WordType, BytesOfWord
<1> HIDE DEF b
<1>2. n - 1 \in Int /\ 1 \in Int /\ \A k \in 1 .. n - 1 : k \in 1 .. 3
  OBVIOUS
<1>3. \A k \in 1 .. n - 1 : b[k] \in Byte
  BY <1>1, <1>2, ElementOfSeq
<1>4. /\ SubSeq(b, 1, n - 1) \in Seq(Byte)
      /\ Len(SubSeq(b, 1, n - 1)) = IF 1 <= n - 1 THEN (n - 1) - 1 + 1 ELSE 0
  BY <1>2, <1>3, SubSeqProperties
<1>5. 1 <= n - 1 /\ (n - 1) - 1 + 1 = n - 1
  OBVIOUS
<1> QED
  BY <1>4, <1>5 DEF b

\* So decoding it keeps the size of the buffer.
LEMMA DecodedFacts ==
  ASSUME TypeOK, NEW n \in {2, 3, 4}, bytes + n <= Len(text), Decoded(n)
  PROVE  /\ decoded' \in Seq(Byte) /\ Len(decoded') = Len(decoded)
         /\ bytes' = bytes + n /\ curr' = curr + n - 1
<1> DEFINE s == SubSeq(tempBytes(Word(n)), 1, n - 1)
<1>1. s \in Seq(Byte)
  BY DecodedBytes
<1>2. decoded' = Stored(decoded, s) /\ bytes' = bytes + n /\ curr' = curr + n - 1
  BY DEF Decoded
<1> HIDE DEF s
<1> QED
  BY <1>1, <1>2, StoredFacts DEF TypeOK

-----------------------------------------------------------------------------
(* The invariant.                                                          *)

\* It holds at first.
LEMMA InitCodec == Init => CodecInv
<1> SUFFICES ASSUME Init PROVE CodecInv
  OBVIOUS
<1>1. <<>> \in Seq(Byte) /\ <<>> \in Seq(Char) /\ Len(<<>>) = 0
  OBVIOUS
<1> QED
  BY <1>1 DEF Init, CodecInv, TypeOK, EncodeInv, DecodeInv

\* Every step keeps it.
LEMMA NextCodec == CodecInv /\ [Next]_vars => CodecInv'
<1> SUFFICES ASSUME CodecInv, [Next]_vars PROVE CodecInv'
  OBVIOUS
<1> USE DEF CodecInv
<1>0. /\ TypeOK /\ EncodeInv /\ DecodeInv
      /\ Len(data) \in Nat /\ Len(text) \in Nat /\ Len(decoded) \in Nat
  BY DEF TypeOK
<1>1. CASE to_base64
  <2>1. data' \in Seq(Byte) /\ Len(data') \in Nat
    BY <1>1, InputsAssumption DEF to_base64
  <2>2. encodedsize(Len(data')) \in Nat /\ Padding \in Char
    BY <2>1 DEF encodedsize, Char
  <2>3. text' \in Seq(Char) /\ Len(text') = encodedsize(Len(data'))
    BY <1>1, <2>2, FilledFacts DEF to_base64
  <2>4. /\ i' = Len(data') \div 3 /\ pc = "idle" /\ pc' = "encode"
        /\ origin' = "to_base64" /\ UNCHANGED <<endian, decoded, bytes, curr>>
    BY <1>1 DEF to_base64
  <2>5. TypeOK'
    BY <1>0, <2>1, <2>3, <2>4 DEF TypeOK
  <2>6. /\ 3 * (Len(data') \div 3) + (Len(data') % 3) = Len(data')
        /\ 4 * (Len(data') \div 3) + (IF Len(data') % 3 > 0 THEN 4 ELSE 0)
              = encodedsize(Len(data'))
    <3> DEFINE n == Len(data')
               q == n \div 3
    <3>1. n \in Nat /\ q \in Nat /\ n % 3 \in 0 .. 2 /\ n = 3 * q + (n % 3)
      BY <2>1
    <3>2. encodedsize(n) = 4 * (q + (IF n % 3 > 0 THEN 1 ELSE 0))
      BY DEF encodedsize
    <3> HIDE DEF n, q
    <3>3. 4 * (q + (IF n % 3 > 0 THEN 1 ELSE 0)) = 4 * q + (IF n % 3 > 0 THEN 4 ELSE 0)
      BY <3>1
    <3> QED
      BY <3>1, <3>2, <3>3 DEF n, q
  <2> QED
    BY <1>0, <2>3, <2>4, <2>5, <2>6 DEF EncodeInv, DecodeInv, TypeOK
<1>2. ASSUME NEW s \in Seq(Char), Encoded(s)
      PROVE  text' \in Seq(Char) /\ Len(text') = Len(text) /\ curr' = curr + Len(s)
  BY <1>0, <1>2, StoredFacts DEF Encoded, TypeOK
<1>3. CASE EncodeGroup
  <2> DEFINE t1 == data[bytes + 1]
             t2 == data[bytes + 2]
             t3 == data[bytes + 3]
             s == <<encode_table_0[t1], encode_table_1[(t1 % 4) * 16 + t2 \div 16],
                    encode_table_1[(t2 % 16) * 4 + t3 \div 64], encode_table_1[t3]>>
  <2>1. /\ Encoded(s) /\ pc = "encode" /\ i > 0 /\ bytes' = bytes + 3 /\ i' = i - 1
        /\ UNCHANGED <<endian, pc, origin, data, decoded>>
    BY <1>3 DEF EncodeGroup
  <2>2. t1 \in Byte /\ t2 \in Byte /\ t3 \in Byte
    BY <1>0, <2>1 DEF EncodeInv, TypeOK
  <2>3. s \in Seq(Char) /\ Len(s) = 4
    <3> HIDE DEF t1, t2, t3
    <3> QED
      BY <2>2, EncodedType
  <2> HIDE DEF s
  <2>4. text' \in Seq(Char) /\ Len(text') = Len(text) /\ curr' = curr + 4
    BY <1>2, <2>1, <2>3
  <2>5. TypeOK'
    BY <1>0, <2>1, <2>4 DEF TypeOK
  <2> QED
    BY <1>0, <2>1, <2>4, <2>5 DEF EncodeInv, DecodeInv, TypeOK
<1>4. CASE EncodeTail
  <2> DEFINE t1 == data[bytes + 1]
             t2 == data[bytes + 2]
  <2>1. /\ pc = "encode" /\ i = 0 /\ pc' = "from_base64"
        /\ UNCHANGED <<endian, origin, data, decoded, i, bytes>>
    BY <1>4 DEF EncodeTail
  <2>2. PICK s \in Seq(Char) :
           /\ text' = Stored(text, s) /\ curr' = curr + Len(s)
           /\ Len(s) <= 3 /\ (Len(data) % 3 = 0 => Len(s) = 0)
    <3>0. Len(data) % 3 \in {0, 1, 2}
      BY <1>0
    <3>1. CASE Len(data) % 3 = 0
      <4> DEFINE s == <<>>
      <4>1. text' = Stored(text, s) /\ curr' = curr + Len(s)
        BY <1>4, <3>1 DEF EncodeTail, Encoded
      <4>2. s \in Seq(Char) /\ Len(s) = 0
        OBVIOUS
      <4> HIDE DEF s
      <4>3. Len(s) <= 3
        BY <4>2
      <4> QED
        BY <4>1, <4>2, <4>3, Zenon
    <3>2. CASE Len(data) % 3 = 1
      <4> DEFINE c1 == encode_table_0[t1]
                 c2 == encode_table_1[(t1 % 4) * 16]
                 s == <<c1, c2>>
      <4>1. text' = Stored(text, s) /\ curr' = curr + Len(s)
        BY <1>4, <3>2 DEF EncodeTail, Encoded
      <4>2. t1 \in Byte
        BY <1>0, <2>1, <3>2 DEF EncodeInv, TypeOK
      <4>3. c1 \in Char /\ c2 \in Char
        BY <4>2, EncodedType
      <4> HIDE DEF t1, c1, c2
      <4>4. s \in Seq(Char) /\ Len(s) = 2
        BY <4>3
      <4> HIDE DEF s
      <4>5. Len(s) <= 3 /\ Len(data) % 3 # 0
        BY <3>2, <4>4
      <4> QED
        BY <4>1, <4>4, <4>5, Zenon
    <3>3. CASE Len(data) % 3 = 2
      <4> DEFINE c1 == encode_table_0[t1]
                 c2 == encode_table_1[(t1 % 4) * 16 + t2 \div 16]
                 c3 == encode_table_1[(t2 % 16) * 4]
                 s == <<c1, c2, c3>>
      <4>1. text' = Stored(text, s) /\ curr' = curr + Len(s)
        BY <1>4, <3>3 DEF EncodeTail, Encoded
      <4>2. t1 \in Byte /\ t2 \in Byte
        BY <1>0, <2>1, <3>3 DEF EncodeInv, TypeOK
      <4>3. c1 \in Char /\ c2 \in Char /\ c3 \in Char
        BY <4>2, EncodedType
      <4> HIDE DEF t1, t2, c1, c2, c3
      <4>4. s \in Seq(Char) /\ Len(s) = 3
        BY <4>3
      <4> HIDE DEF s
      <4>5. Len(s) <= 3 /\ Len(data) % 3 # 0
        BY <3>3, <4>4
      <4> QED
        BY <4>1, <4>4, <4>5, Zenon
    <3> QED
      BY <3>0, <3>1, <3>2, <3>3
  <2>3. text' \in Seq(Char) /\ Len(text') = Len(text) /\ curr' = curr + Len(s)
    BY <1>0, <2>2, StoredFacts DEF TypeOK
  <2>4. Len(s) \in Nat
    OBVIOUS
  <2>5. TypeOK'
    BY <1>0, <2>1, <2>3, <2>4 DEF TypeOK
  <2> QED
    BY <1>0, <2>1, <2>2, <2>3, <2>4, <2>5 DEF EncodeInv, DecodeInv, TypeOK
<1>5. CASE OtherText
  <2>1. text' \in Seq(Char) /\ Len(text') \in Nat
    BY <1>5, TextsAssumption DEF OtherText
  <2>2. /\ pc = "idle" /\ pc' = "from_base64" /\ origin' = "elsewhere"
        /\ UNCHANGED <<endian, data, decoded, i, bytes, curr>>
    BY <1>5 DEF OtherText
  <2> QED
    BY <1>0, <2>1, <2>2 DEF TypeOK, EncodeInv, DecodeInv
<1>6. CASE DecodeEmpty
  <2>1. <<>> \in Seq(Byte)
    OBVIOUS
  <2> QED
    BY <1>0, <1>6, <2>1 DEF DecodeEmpty, Returns, TypeOK, EncodeInv, DecodeInv
<1>7. CASE WrongSize \/ WrongPadding \/ InvalidCharacter
  <2>1. pc' = "thrown" /\ UNCHANGED <<endian, origin, data, text, decoded, i, bytes, curr>>
    BY <1>7 DEF WrongSize, WrongPadding, InvalidCharacter, Throws
  <2> QED
    BY <1>0, <2>1 DEF TypeOK, EncodeInv, DecodeInv
<1>8. CASE from_base64
  <2> DEFINE size == (Len(text) * 3) \div 4 - numPadding
             groups == Len(text) \div 4 - (IF numPadding # 0 THEN 1 ELSE 0)
  <2>1. /\ text # <<>> /\ Len(text) % 4 = 0 /\ numPadding <= 2
        /\ decoded' = Filled(size, 46) /\ i' = groups /\ bytes' = 0 /\ curr' = 0
        /\ pc' = "decode" /\ UNCHANGED <<endian, origin, data, text>>
    BY <1>8 DEF from_base64, Decode
  <2>2. numPadding \in 0 .. 2 /\ numPadding' = numPadding
    BY <2>1, PaddingFacts DEF numPadding
  <2>3. Len(text) >= 4
    <3>1. Len(text) # 0
      BY <1>0, <2>1, EmptySeq DEF TypeOK
    <3> QED
      BY <1>0, <2>1, <3>1
  <2>4. PICK q \in Nat : Len(text) = 4 * q /\ q >= 1 /\ Len(text) \div 4 = q
    <3>1. Len(text) = 4 * (Len(text) \div 4) /\ Len(text) \div 4 \in Nat
          /\ Len(text) \div 4 >= 1
      BY <1>0, <2>1, <2>3
    <3> QED
      BY <3>1
  <2>5. (Len(text) * 3) \div 4 = 3 * q
    BY <2>4
  <2>6. size = 3 * q - numPadding /\ size \in Nat /\ groups \in Nat
        /\ groups = q - (IF numPadding # 0 THEN 1 ELSE 0)
    BY <2>2, <2>4, <2>5
  <2>7. 46 \in Byte
    BY DEF Byte
  <2>8. decoded' \in Seq(Byte) /\ Len(decoded') = size
    BY <2>1, <2>6, <2>7, FilledFacts
  <2> HIDE DEF size, groups
  <2>9. TypeOK'
    BY <1>0, <2>1, <2>6, <2>8 DEF TypeOK
  <2> QED
    BY <1>0, <2>1, <2>2, <2>4, <2>6, <2>8, <2>9 DEF EncodeInv, DecodeInv
<1>9. CASE DecodeGroup
  <2>1. /\ pc = "decode" /\ i > 0 /\ Decoded(4) /\ i' = i - 1
        /\ UNCHANGED <<endian, pc, origin, data, text>>
    BY <1>9 DEF DecodeGroup
  <2>2. numPadding \in 0 .. 2 /\ numPadding' = numPadding
    <3>1. numPadding \in 0 .. 2
      BY <1>0, <2>1, PaddingFacts DEF DecodeInv
    <3>2. numPadding' = numPadding
      BY <2>1 DEF numPadding
    <3> QED
      BY <3>1, <3>2
  <2>3. bytes + 4 <= Len(text)
    BY <1>0, <2>1, <2>2 DEF DecodeInv, TypeOK
  <2>4. /\ decoded' \in Seq(Byte) /\ Len(decoded') = Len(decoded)
        /\ bytes' = bytes + 4 /\ curr' = curr + 3
    BY <1>0, <2>1, <2>3, DecodedFacts DEF TypeOK
  <2>5. TypeOK'
    BY <1>0, <2>1, <2>4 DEF TypeOK
  <2> QED
    BY <1>0, <2>1, <2>2, <2>4, <2>5 DEF EncodeInv, DecodeInv, TypeOK
<1>10. CASE DecodeTail
  <2>1. /\ pc = "decode" /\ i = 0 /\ pc' = "returned"
        /\ UNCHANGED <<endian, origin, data, text, i>>
    BY <1>10 DEF DecodeTail, Returns
  <2>2. numPadding \in 0 .. 2 /\ numPadding' = numPadding
    <3>1. numPadding \in 0 .. 2
      BY <1>0, <2>1, PaddingFacts DEF DecodeInv
    <3>2. numPadding' = numPadding
      BY <2>1 DEF numPadding
    <3> QED
      BY <3>1, <3>2
  <2>3. CASE numPadding = 0
    <3>1. UNCHANGED <<decoded, bytes, curr>>
      BY <1>10, <2>3 DEF DecodeTail
    <3> QED
      BY <1>0, <2>1, <2>2, <2>3, <3>1 DEF TypeOK, EncodeInv, DecodeInv
  <2>4. CASE numPadding # 0
    <3>1. Decoded(4 - numPadding) /\ 4 - numPadding \in {2, 3, 4}
      BY <1>10, <2>2, <2>4 DEF DecodeTail
    <3>2. bytes + (4 - numPadding) <= Len(text)
      BY <1>0, <2>1, <2>2, <2>4 DEF DecodeInv, TypeOK
    <3>3. /\ decoded' \in Seq(Byte) /\ Len(decoded') = Len(decoded)
          /\ bytes' = bytes + (4 - numPadding) /\ curr' = curr + (4 - numPadding) - 1
      BY <1>0, <3>1, <3>2, DecodedFacts
    <3>4. bytes' \in Nat /\ curr' \in Nat
      BY <1>0, <2>2, <3>3 DEF TypeOK
    <3>5. TypeOK'
      BY <1>0, <2>1, <3>3, <3>4 DEF TypeOK
    <3> QED
      BY <1>0, <2>1, <2>2, <2>4, <3>3, <3>5 DEF EncodeInv, DecodeInv, TypeOK
  <2> QED
    BY <2>3, <2>4
<1>11. CASE UNCHANGED vars
  <2>1. numPadding' = numPadding
    BY <1>11 DEF vars, numPadding
  <2> QED
    BY <1>0, <1>11, <2>1 DEF vars, TypeOK, EncodeInv, DecodeInv
<1> QED
  BY <1>1, <1>3, <1>4, <1>5, <1>6, <1>7, <1>8, <1>9, <1>10, <1>11 DEF Next

-----------------------------------------------------------------------------
(* The theorems.                                                           *)

\* The invariant holds always.
LEMMA CodecAlways == Spec => []CodecInv
BY InitCodec, NextCodec, PTL DEF Spec

\* Every character and byte of a buffer stays one, and no loop counter wraps.
THEOREM CodecTypes == Spec => []TypeOK
<1>1. CodecInv => TypeOK
  BY DEF CodecInv
<1> QED
  BY <1>1, CodecAlways, PTL

\* No pointer of the codec leaves its buffer, whatever the length of the input
\* and however it is padded, and a decoded buffer is written to its end.
THEOREM StaysInBounds == Spec => []InBounds
<1>1. CodecInv => InBounds
  <2> SUFFICES ASSUME CodecInv PROVE InBounds
    OBVIOUS
  <2>1. /\ TypeOK /\ EncodeInv /\ DecodeInv
        /\ Len(data) \in Nat /\ Len(text) \in Nat /\ Len(decoded) \in Nat
        /\ Len(data) % 3 \in 0 .. 2
    BY DEF CodecInv, TypeOK
  <2> QED
    BY <2>1, PaddingFacts DEF InBounds, TypeOK, EncodeInv, DecodeInv
<1> QED
  BY <1>1, CodecAlways, PTL
=============================================================================
