------------------------ MODULE Base64Accepts_proofs ------------------------
(* Which texts from_base64 takes: those that are Base64, and no other.     *)
EXTENDS Base64RoundTrip_proofs

-----------------------------------------------------------------------------
(* Padding.                                                                *)

\* Where numPadding looks: how far from the end there is padding.
PaddedAt == {k \in 0 .. 3 : text[Len(text) - k] = Padding}

\* A text that is padded at its end only has as much padding as is counted.
LEMMA PaddingCounted ==
  ASSUME TypeOK, Len(text) >= 4, NEW n \in 0 .. 2, PaddedBy(text, n)
  PROVE  numPadding = n
<1>0. Len(text) \in Nat /\ numPadding = Cardinality(PaddedAt)
  BY DEF TypeOK, numPadding, PaddedAt
<1>1. \A c \in Alphabet : c # Padding
  BY DEF Alphabet, Padding
<1>2. ASSUME NEW k \in 0 .. 3
      PROVE  k \in PaddedAt <=> k < n
  <2>1. CASE k < n
    <3>1. Len(text) - k \in Len(text) - n + 1 .. Len(text)
      BY <1>0, <2>1
    <3> QED
      BY <2>1, <3>1 DEF PaddedBy, PaddedAt
  <2>2. CASE ~ (k < n)
    <3>1. Len(text) - k \in 1 .. Len(text) - n
      BY <1>0, <2>2
    <3> QED
      BY <1>1, <2>2, <3>1 DEF PaddedBy, PaddedAt
  <2> QED
    BY <2>1, <2>2
<1>3. PaddedAt \subseteq 0 .. 3
  BY DEF PaddedAt
<1>4. CASE n = 0
  <2>1. PaddedAt = {}
    BY <1>2, <1>3, <1>4
  <2> QED
    BY <1>0, <1>4, <2>1, FS_EmptySet
<1>5. CASE n = 1
  <2>1. \A k \in 0 .. 3 : k \in PaddedAt <=> k = 0
    BY <1>2, <1>5
  <2>2. PaddedAt = {0}
    <3>1. 0 \in PaddedAt /\ \A k \in PaddedAt : k = 0
      BY <1>3, <2>1
    <3> QED
      BY <3>1
  <2>3. Cardinality({0}) = 1
    BY FS_Singleton
  <2> QED
    BY <1>0, <1>5, <2>2, <2>3, Zenon
<1>6. CASE n = 2
  <2>1. \A k \in 0 .. 3 : k \in PaddedAt <=> k = 0 \/ k = 1
    BY <1>2, <1>6
  <2>2. PaddedAt = {0} \cup {1}
    <3>1. 0 \in PaddedAt /\ 1 \in PaddedAt /\ \A k \in PaddedAt : k = 0 \/ k = 1
      BY <1>3, <2>1
    <3> QED
      BY <3>1
  <2>3. IsFiniteSet({0}) /\ Cardinality({0}) = 1
    BY FS_Singleton
  <2>4. Cardinality({0} \cup {1}) = Cardinality({0}) + 1
    <3>1. \A S, x : IsFiniteSet(S) /\ x \notin S =>
                       Cardinality(S \cup {x}) = Cardinality(S) + 1
      BY FS_AddElement
    <3>2. 1 \notin {0}
      OBVIOUS
    <3> QED
      BY <2>3, <3>1, <3>2
  <2>5. Cardinality({0} \cup {1}) = 2
    BY <2>3, <2>4
  <2> QED
    BY <1>0, <1>6, <2>2, <2>5, Zenon
<1> QED
  BY <1>4, <1>5, <1>6

\* If what is in front of the counted padding is in the alphabet, then the
\* padding is at the end.
LEMMA PaddingPlaced ==
  ASSUME TypeOK, Len(text) >= 4, numPadding <= 2,
         \A k \in 1 .. Len(text) - numPadding : text[k] \in Alphabet
  PROVE  PaddedBy(text, numPadding)
<1> DEFINE n == numPadding
           S == 0 .. n - 1
<1>0. Len(text) \in Nat /\ n = Cardinality(PaddedAt) /\ n \in 0 .. 2
  BY PaddingFacts DEF TypeOK, numPadding, PaddedAt
<1>1. \A c \in Alphabet : c # Padding
  BY DEF Alphabet, Padding
<1>2. \A k \in 1 .. Len(text) - n : text[k] \in Alphabet
  OBVIOUS
<1> HIDE DEF n
<1>3. PaddedAt \in SUBSET S
  <2> SUFFICES ASSUME NEW k \in PaddedAt PROVE k \in S
    OBVIOUS
  <2>1. k \in 0 .. 3 /\ text[Len(text) - k] = Padding
    BY DEF PaddedAt
  <2>2. Len(text) - k \notin 1 .. Len(text) - n
    BY <1>1, <1>2, <2>1
  <2> QED
    BY <1>0, <2>1, <2>2
<1>4. IsFiniteSet(S) /\ Cardinality(S) = n
  <2>1. \A a \in Int, b \in Int :
           IsFiniteSet(a .. b) /\ Cardinality(a .. b) = IF a > b THEN 0 ELSE b - a + 1
    BY FS_Interval, Zenon
  <2>2. 0 \in Int /\ n - 1 \in Int /\ (IF 0 > n - 1 THEN 0 ELSE (n - 1) - 0 + 1) = n
    BY <1>0
  <2>3. IsFiniteSet(0 .. n - 1)
        /\ Cardinality(0 .. n - 1) = IF 0 > n - 1 THEN 0 ELSE (n - 1) - 0 + 1
    BY <2>1, <2>2, Zenon
  <2> QED
    BY <2>2, <2>3
<1>5. PaddedAt = S
  BY <1>0, <1>3, <1>4, FS_Subset
<1>6. ASSUME NEW k \in Len(text) - n + 1 .. Len(text) PROVE text[k] = Padding
  <2>1. Len(text) - k \in S /\ Len(text) - (Len(text) - k) = k
    BY <1>0, <1>6
  <2> QED
    BY <1>5, <2>1 DEF PaddedAt
<1>7. n <= Len(text)
  BY <1>0
<1> QED
  BY <1>2, <1>6, <1>7 DEF PaddedBy, n

-----------------------------------------------------------------------------
(* Valid groups.                                                           *)

\* Each character of a valid group is in the alphabet,
LEMMA ValidIsAlphabet ==
  ASSUME TypeOK, NEW n \in {2, 3, 4}, bytes + n <= Len(text), ~ Invalid(Word(n))
  PROVE  \A k \in bytes + 1 .. bytes + n : text[k] \in Alphabet
<1>1. /\ text[bytes + 1] \in Char /\ text[bytes + 2] \in Char
      /\ n > 2 => text[bytes + 3] \in Char
      /\ n > 3 => text[bytes + 4] \in Char
  BY DEF TypeOK
<1>2. Word(n) # bad_char
  BY DEF Invalid, bad_char
<1>3. ASSUME NEW c \in Char, c \notin Alphabet
      PROVE  /\ decode_table_0[c] = bad_char /\ decode_table_1[c] = bad_char
             /\ decode_table_2[c] = bad_char /\ decode_table_3[c] = bad_char
  <2>1. /\ little_table_0[c] = bad_char /\ little_table_1[c] = bad_char
        /\ little_table_2[c] = bad_char /\ little_table_3[c] = bad_char
    BY <1>3 DEF little_table_0, little_table_1, little_table_2, little_table_3
  <2>2. /\ big_table_0[c] = bad_char /\ big_table_1[c] = bad_char
        /\ big_table_2[c] = bad_char /\ big_table_3[c] = bad_char
    BY <1>3 DEF big_table_0, big_table_1, big_table_2, big_table_3
  <2> QED
    BY <2>1, <2>2 DEF decode_table_0, decode_table_1, decode_table_2, decode_table_3
<1> DEFINE w1 == decode_table_0[text[bytes + 1]]
           w2 == decode_table_1[text[bytes + 2]]
           w3 == IF n > 2 THEN decode_table_2[text[bytes + 3]] ELSE 0
           w4 == IF n > 3 THEN decode_table_3[text[bytes + 4]] ELSE 0
<1>4. Word(n) = Or(w1, w2, w3, w4)
  BY DEF Word
<1>5. w1 # bad_char /\ w2 # bad_char /\ w3 # bad_char /\ w4 # bad_char
  <2> HIDE DEF w1, w2, w3, w4
  <2> QED
    BY <1>2, <1>4 DEF Or
<1>6. /\ text[bytes + 1] \in Alphabet /\ text[bytes + 2] \in Alphabet
      /\ n > 2 => text[bytes + 3] \in Alphabet
      /\ n > 3 => text[bytes + 4] \in Alphabet
  BY <1>1, <1>3, <1>5
<1>7. bytes \in Nat
  BY DEF TypeOK
<1>8. ASSUME NEW k \in bytes + 1 .. bytes + n PROVE text[k] \in Alphabet
  <2>1. \/ k = bytes + 1 \/ k = bytes + 2
        \/ n > 2 /\ k = bytes + 3
        \/ n > 3 /\ k = bytes + 4
    BY <1>7
  <2> QED
    BY <1>6, <2>1
<1> QED
  BY <1>8

\* any four characters of the alphabet are those of some bytes,
LEMMA AnyGroup ==
  ASSUME NEW c1 \in Alphabet, NEW c2 \in Alphabet, NEW c3 \in Alphabet, NEW c4 \in Alphabet
  PROVE  \E t1 \in Byte, t2 \in Byte, t3 \in Byte : Grouped(c1, c2, c3, c4, t1, t2, t3)
<1>1. /\ c1 \in 0 .. 63 /\ c4 \in 0 .. 63
      /\ c2 \div 16 \in 0 .. 3 /\ c2 % 16 \in 0 .. 15 /\ c2 = (c2 \div 16) * 16 + (c2 % 16)
      /\ c3 \div 4 \in 0 .. 15 /\ c3 % 4 \in 0 .. 3 /\ c3 = (c3 \div 4) * 4 + (c3 % 4)
  BY DEF Alphabet
<1> DEFINE t1 == c1 * 4 + (c2 \div 16)
           t2 == (c2 % 16) * 16 + (c3 \div 4)
           t3 == (c3 % 4) * 64 + c4
<1>2. \A a \in 0 .. 63, b \in 0 .. 3 :
         a * 4 + b \in Byte /\ (a * 4 + b) \div 4 = a /\ (a * 4 + b) % 4 = b
  BY DEF Byte
<1>3. \A a \in 0 .. 15, b \in 0 .. 15 :
         a * 16 + b \in Byte /\ (a * 16 + b) \div 16 = a /\ (a * 16 + b) % 16 = b
  BY DEF Byte
<1>4. \A a \in 0 .. 3, b \in 0 .. 63 :
         a * 64 + b \in Byte /\ (a * 64 + b) \div 64 = a /\ (a * 64 + b) % 64 = b
  BY DEF Byte
<1>5. t1 \in Byte /\ t1 \div 4 = c1 /\ t1 % 4 = c2 \div 16
  BY <1>1, <1>2
<1>6. t2 \in Byte /\ t2 \div 16 = c2 % 16 /\ t2 % 16 = c3 \div 4
  BY <1>1, <1>3
<1>7. t3 \in Byte /\ t3 \div 64 = c3 % 4 /\ t3 % 64 = c4
  BY <1>1, <1>4
<1> HIDE DEF t1, t2, t3
<1>8. Grouped(c1, c2, c3, c4, t1, t2, t3)
  BY <1>1, <1>5, <1>6, <1>7 DEF Grouped
<1> QED
  BY <1>5, <1>6, <1>7, <1>8

\* so a group of the alphabet is valid.
LEMMA AlphabetIsValid ==
  ASSUME TypeOK, NEW n \in {2, 3, 4}, bytes + n <= Len(text),
         \A k \in bytes + 1 .. bytes + n : text[k] \in Alphabet
  PROVE  ~ Invalid(Word(n))
<1> DEFINE c1 == text[bytes + 1]
           c2 == text[bytes + 2]
           c3 == IF n > 2 THEN text[bytes + 3] ELSE 0
           c4 == IF n > 3 THEN text[bytes + 4] ELSE 0
           w == Word(n)
<1>1. c1 \in Alphabet /\ c2 \in Alphabet /\ c3 \in Alphabet /\ c4 \in Alphabet
  <2>1. bytes \in Nat /\ 0 \in Alphabet
    BY DEF TypeOK, Alphabet
  <2> QED
    BY <2>1
<1>2. w = Or(decode_table_0[c1], decode_table_1[c2], decode_table_2[c3], decode_table_3[c4])
  <2>1. /\ decode_table_2[c3] = IF n > 2 THEN decode_table_2[text[bytes + 3]] ELSE 0
        /\ decode_table_3[c4] = IF n > 3 THEN decode_table_3[text[bytes + 4]] ELSE 0
    BY NoBits
  <2> QED
    BY <2>1 DEF Word
<1>3. endian \in {"little", "big"}
  BY DEF TypeOK
<1> HIDE DEF c1, c2, c3, c4, w
<1>4. PICK t1 \in Byte, t2 \in Byte, t3 \in Byte : Grouped(c1, c2, c3, c4, t1, t2, t3)
  BY <1>1, AnyGroup
<1>5. ~ Invalid(w)
  BY <1>2, <1>3, <1>4, GroupDecoded
<1> QED
  BY <1>5 DEF w

-----------------------------------------------------------------------------
(* The theorem.                                                            *)

\* The characters that decode_into has read are in the alphabet.
AcceptInv ==
    /\ pc = "decode" =>
          /\ Len(text) % 4 = 0
          /\ \A k \in 1 .. bytes : text[k] \in Alphabet
    /\ AcceptsBase64Only

\* A text in Base64 has at most two '=', which are counted right.
LEMMA CountedRight ==
  ASSUME TypeOK, IsBase64(text), text # <<>>
  PROVE  numPadding <= 2 /\ PaddedBy(text, numPadding)
<1>1. Len(text) \in Nat /\ Len(text) % 4 = 0 /\ Len(text) # 0
  BY EmptySeq DEF TypeOK, IsBase64
<1>2. Len(text) >= 4
  BY <1>1
<1>3. PICK n \in 0 .. 2 : PaddedBy(text, n)
  BY DEF IsBase64
<1>4. numPadding = n
  BY <1>2, <1>3, PaddingCounted
<1> QED
  BY <1>3, <1>4

\* Every step keeps the invariant.
LEMMA NextAccept == CodecInv /\ CodecInv' /\ AcceptInv /\ [Next]_vars => AcceptInv'
<1> SUFFICES ASSUME CodecInv, CodecInv', AcceptInv, [Next]_vars PROVE AcceptInv'
  OBVIOUS
<1>0. TypeOK /\ Len(text) \in Nat /\ text \in Seq(Char) /\ bytes \in Nat /\ i \in Nat
  BY DEF CodecInv, TypeOK
<1>1. CASE to_base64 \/ EncodeGroup \/ EncodeTail \/ OtherText
  <2>1. pc' \in {"encode", "from_base64"}
    BY <1>1 DEF to_base64, EncodeGroup, EncodeTail, OtherText
  <2> QED
    BY <2>1 DEF AcceptInv, AcceptsBase64Only
<1>2. CASE DecodeEmpty
  <2>1. pc' = "returned" /\ text' = text /\ text = <<>>
    BY <1>2 DEF DecodeEmpty, Returns
  <2>2. Len(text) = 0
    BY <2>1
  <2>3. PaddedBy(text, 0)
    BY <2>2 DEF PaddedBy
  <2>4. IsBase64(text)
    BY <2>2, <2>3 DEF IsBase64
  <2> QED
    BY <2>1, <2>4 DEF AcceptInv, AcceptsBase64Only
<1>3. CASE WrongSize \/ WrongPadding
  <2>1. pc' = "thrown" /\ text' = text
    BY <1>3 DEF WrongSize, WrongPadding, Throws
  <2>2. ~ IsBase64(text)
    <3>1. CASE WrongSize
      BY <3>1 DEF WrongSize, IsBase64
    <3>2. CASE WrongPadding
      BY <1>0, <3>2, CountedRight, PaddingFacts DEF WrongPadding
    <3> QED
      BY <1>3, <3>1, <3>2
  <2> QED
    BY <2>1, <2>2 DEF AcceptInv, AcceptsBase64Only
<1>4. CASE from_base64
  <2>1. pc' = "decode" /\ text' = text /\ Len(text) % 4 = 0 /\ bytes' = 0
    BY <1>4 DEF from_base64, Decode
  <2>2. ASSUME NEW k \in 1 .. bytes' PROVE FALSE
    BY <2>1, <2>2
  <2> QED
    BY <2>1, <2>2 DEF AcceptInv, AcceptsBase64Only
<1>5. ASSUME pc = "decode"
      PROVE  /\ numPadding \in 0 .. 2 /\ Len(text) % 4 = 0
             /\ bytes + 4 * i + (IF numPadding # 0 THEN 4 ELSE 0) = Len(text)
             /\ \A k \in 1 .. bytes : text[k] \in Alphabet
  BY <1>5, PaddingFacts DEF CodecInv, DecodeInv, AcceptInv
\* One more valid group.
<1>6. ASSUME NEW n \in {2, 3, 4}, pc = "decode", bytes + n <= Len(text), ~ Invalid(Word(n))
      PROVE  \A k \in 1 .. bytes + n : text[k] \in Alphabet
  <2>1. /\ \A k \in bytes + 1 .. bytes + n : text[k] \in Alphabet
        /\ \A k \in 1 .. bytes : text[k] \in Alphabet
    BY <1>0, <1>5, <1>6, ValidIsAlphabet
  <2>2. \A k \in 1 .. bytes + n : k \in 1 .. bytes \/ k \in bytes + 1 .. bytes + n
    BY <1>0
  <2> QED
    BY <2>1, <2>2
<1>7. CASE DecodeGroup
  <2>1. /\ pc = "decode" /\ i > 0 /\ Decoded(4) /\ pc' = pc /\ text' = text
    BY <1>7 DEF DecodeGroup
  <2>2. bytes + 4 <= Len(text)
    BY <1>0, <1>5, <2>1
  <2>3. ~ Invalid(Word(4)) /\ bytes' = bytes + 4
    BY <2>1 DEF Decoded
  <2>4. \A k \in 1 .. bytes' : text[k] \in Alphabet
    BY <1>6, <2>1, <2>2, <2>3
  <2> QED
    BY <1>5, <2>1, <2>4 DEF AcceptInv, AcceptsBase64Only
<1>8. CASE DecodeTail
  <2>1. pc = "decode" /\ i = 0 /\ pc' = "returned" /\ text' = text
    BY <1>8 DEF DecodeTail, Returns
  <2>2. numPadding \in 0 .. 2 /\ bytes + (IF numPadding # 0 THEN 4 ELSE 0) = Len(text)
    BY <1>0, <1>5, <2>1
  <2>3. IsBase64(text)
    <3>1. CASE numPadding = 0
      <4>1. PaddedBy(text, 0)
        BY <1>0, <1>5, <2>1, <2>2, <3>1 DEF PaddedBy
      <4> QED
        BY <1>5, <2>1, <4>1 DEF IsBase64
    <3>2. CASE numPadding # 0
      <4> DEFINE n == 4 - numPadding
      <4>1. n \in {2, 3, 4} /\ bytes + n = Len(text) - numPadding /\ bytes + n <= Len(text)
        BY <1>0, <2>2, <3>2
      <4>2. ~ Invalid(Word(n))
        BY <1>8, <3>2 DEF DecodeTail, Decoded
      <4> HIDE DEF n
      <4>3. \A k \in 1 .. Len(text) - numPadding : text[k] \in Alphabet
        BY <1>6, <2>1, <4>1, <4>2
      <4>4. Len(text) >= 4
        BY <1>0, <2>2, <3>2
      <4>5. PaddedBy(text, numPadding)
        BY <1>0, <2>2, <4>3, <4>4, PaddingPlaced
      <4> QED
        BY <1>5, <2>1, <2>2, <4>5 DEF IsBase64
    <3> QED
      BY <3>1, <3>2
  <2> QED
    BY <2>1, <2>3 DEF AcceptInv, AcceptsBase64Only
<1>9. CASE InvalidCharacter
  <2>1. /\ pc = "decode" /\ pc' = "thrown" /\ text' = text
        /\ \/ i > 0 /\ Invalid(Word(4))
           \/ i = 0 /\ numPadding # 0 /\ Invalid(Word(4 - numPadding))
    BY <1>9 DEF InvalidCharacter, Throws
  <2>2. ASSUME IsBase64(text) PROVE FALSE
    <3>1. Len(text) >= 4
      BY <1>0, <1>5, <2>1
    <3>2. text # <<>>
      BY <3>1
    <3>3. PaddedBy(text, numPadding)
      BY <1>0, <2>2, <3>2, CountedRight
    <3>4. PICK n \in {2, 3, 4} : Invalid(Word(n)) /\ bytes + n <= Len(text) - numPadding
      <4>1. CASE i > 0 /\ Invalid(Word(4))
        <5>1. bytes + 4 <= Len(text) - numPadding
          BY <1>0, <1>5, <2>1, <4>1
        <5> QED
          BY <4>1, <5>1
      <4>2. CASE i = 0 /\ numPadding # 0 /\ Invalid(Word(4 - numPadding))
        <5> DEFINE n == 4 - numPadding
        <5>1. n \in {2, 3, 4} /\ bytes + n <= Len(text) - numPadding
          BY <1>0, <1>5, <2>1, <4>2
        <5>2. Invalid(Word(n))
          BY <4>2
        <5> HIDE DEF n
        <5> QED
          BY <5>1, <5>2
      <4> QED
        BY <2>1, <4>1, <4>2
    <3>5. \A k \in bytes + 1 .. bytes + n : k \in 1 .. Len(text) - numPadding
      BY <1>0, <1>5, <2>1, <3>4
    <3>6. \A k \in bytes + 1 .. bytes + n : text[k] \in Alphabet
      BY <3>3, <3>5 DEF PaddedBy
    <3>7. bytes + n <= Len(text)
      BY <1>0, <1>5, <2>1, <3>4
    <3> QED
      BY <1>0, <3>4, <3>6, <3>7, AlphabetIsValid
  <2> QED
    BY <2>1, <2>2 DEF AcceptInv, AcceptsBase64Only
<1>10. CASE UNCHANGED vars
  BY <1>10 DEF vars, AcceptInv, AcceptsBase64Only
<1> QED
  BY <1>1, <1>2, <1>3, <1>4, <1>7, <1>8, <1>9, <1>10 DEF Next

\* from_base64 returns for the texts that are Base64, of whatever length, and
\* throws for every other: decode_into looks for padding in the last four
\* characters only, and it is enough.
THEOREM AcceptsExactlyBase64 == Spec => []AcceptsBase64Only
<1>1. Init => AcceptInv
  BY DEF Init, AcceptInv, AcceptsBase64Only
<1>2. AcceptInv => AcceptsBase64Only
  BY DEF AcceptInv
<1> QED
  BY <1>1, <1>2, NextAccept, CodecAlways, PTL DEF Spec

-----------------------------------------------------------------------------
(* What a text that is taken becomes.                                      *)

\* The bytes that decode_into has written have the bits of the characters that it
\* has read.
BitsInv ==
    /\ pc = "decode" => \E g \in Nat : bytes = 4 * g /\ curr = 3 * g
    /\ pc \in {"decode", "returned"} /\ text # <<>> =>
          \A k \in 0 .. 8 * curr - 1 : DataBit(decoded, k) = TextBit(text, k)
    /\ pc = "returned" =>
          IF text = <<>> THEN decoded = <<>> ELSE Len(decoded) = (6 * bytes) \div 8

\* The next group adds its bits.
LEMMA DecodedBits ==
  ASSUME TypeOK, NEW n \in {2, 3, 4}, bytes + n <= Len(text),
         curr + n - 1 <= Len(decoded), Decoded(n),
         NEW g \in Nat, bytes = 4 * g, curr = 3 * g,
         \A k \in 0 .. 8 * curr - 1 : DataBit(decoded, k) = TextBit(text, k)
  PROVE  \A k \in 0 .. 8 * curr' - 1 : DataBit(decoded', k) = TextBit(text, k)
<1> DEFINE c1 == text[bytes + 1]
           c2 == text[bytes + 2]
           c3 == IF n > 2 THEN text[bytes + 3] ELSE 0
           c4 == IF n > 3 THEN text[bytes + 4] ELSE 0
           w == Word(n)
           e == decoded'
<1>0. ~ Invalid(w) /\ bytes \in Nat /\ endian \in {"little", "big"}
  BY DEF Decoded, TypeOK
<1>1. c1 \in Alphabet /\ c2 \in Alphabet /\ c3 \in Alphabet /\ c4 \in Alphabet
  <2>1. \A k \in bytes + 1 .. bytes + n : text[k] \in Alphabet
    BY <1>0, ValidIsAlphabet
  <2>2. 0 \in Alphabet
    BY DEF Alphabet
  <2> QED
    BY <1>0, <2>1, <2>2
<1>2. w = Or(decode_table_0[c1], decode_table_1[c2], decode_table_2[c3], decode_table_3[c4])
  <2>1. /\ decode_table_2[c3] = IF n > 2 THEN decode_table_2[text[bytes + 3]] ELSE 0
        /\ decode_table_3[c4] = IF n > 3 THEN decode_table_3[text[bytes + 4]] ELSE 0
    BY NoBits
  <2> QED
    BY <2>1 DEF Word
<1>3. /\ curr' = curr + n - 1
      /\ \A k \in 1 .. curr : e[k] = decoded[k]
      /\ \A j \in 1 .. n - 1 : e[curr + j] = tempBytes(w)[j]
  BY DecodedAt
<1>4. \A q \in 1 .. 4 : q <= n => text[4 * g + q] = <<c1, c2, c3, c4>>[q]
  <2>1. \A q \in 1 .. 4 : q = 1 \/ q = 2 \/ q = 3 \/ q = 4
    OBVIOUS
  <2> QED
    BY <2>1
<1> HIDE DEF c1, c2, c3, c4, w, e
<1>5. PICK t1 \in Byte, t2 \in Byte, t3 \in Byte : Grouped(c1, c2, c3, c4, t1, t2, t3)
  BY <1>1, AnyGroup
<1>6. tempBytes(w)[1] = t1 /\ tempBytes(w)[2] = t2 /\ tempBytes(w)[3] = t3
  BY <1>0, <1>2, <1>5, GroupDecoded
<1>7. \A p \in 1 .. 3 : p <= n - 1 => e[3 * g + p] = <<t1, t2, t3>>[p]
  <2>1. \A p \in 1 .. 3 : p = 1 \/ p = 2 \/ p = 3
    OBVIOUS
  <2>2. \A p \in 1 .. 3 : tempBytes(w)[p] = <<t1, t2, t3>>[p]
    BY <1>6, <2>1
  <2>3. \A p \in 1 .. 3 : p <= n - 1 => p \in 1 .. n - 1
    OBVIOUS
  <2> QED
    BY <1>3, <2>2, <2>3
<1>8. ASSUME NEW k \in 0 .. 8 * curr - 1 PROVE DataBit(e, k) = TextBit(text, k)
  <2>1. (k \div 8) + 1 \in 1 .. curr
    OBVIOUS
  <2>2. DataBit(e, k) = DataBit(decoded, k)
    BY <1>3, <2>1 DEF DataBit
  <2> QED
    BY <2>2
<1>9. ASSUME NEW j \in 0 .. 8 * (n - 1) - 1 PROVE DataBit(e, 24 * g + j) = TextBit(text, 24 * g + j)
  <2> DEFINE q == (j \div 6) + 1
             p == (j \div 8) + 1
             a == (j % 6) + 1
             b == (j % 8) + 1
  <2>1. j \in 0 .. 23 /\ q \in 1 .. 4 /\ q <= n /\ p \in 1 .. 3 /\ p <= n - 1
    OBVIOUS
  <2>2. CharBits(<<c1, c2, c3, c4>>[q])[a] = ByteBits(<<t1, t2, t3>>[p])[b]
    <3>1. j \in 0 .. 23 /\ t1 \in Byte /\ t2 \in Byte /\ t3 \in Byte
      BY <1>5, <2>1
    <3> QED
      BY <1>5, <3>1, GroupBit, SMTT(30)
  <2>3. \A s : /\ TextBit(s, 24 * g + j) = CharBits(s[4 * g + q])[a]
               /\ DataBit(s, 24 * g + j) = ByteBits(s[3 * g + p])[b]
    BY <2>1, BitsAt
  <2>4. /\ TextBit(text, 24 * g + j) = CharBits(text[4 * g + q])[a]
        /\ DataBit(e, 24 * g + j) = ByteBits(e[3 * g + p])[b]
    BY <2>3, Zenon
  <2> HIDE DEF q, p, a, b
  <2>5. text[4 * g + q] = <<c1, c2, c3, c4>>[q]
    BY <1>4, <2>1
  <2>6. e[3 * g + p] = <<t1, t2, t3>>[p]
    BY <1>7, <2>1
  <2> QED
    BY <2>2, <2>4, <2>5, <2>6, Zenon
<1>10. ASSUME NEW k \in 0 .. 8 * (curr + n - 1) - 1 PROVE DataBit(e, k) = TextBit(text, k)
  <2>1. CASE k \in 0 .. 8 * curr - 1
    BY <1>8, <2>1
  <2>2. CASE k \notin 0 .. 8 * curr - 1
    <3> DEFINE j == k - 24 * g
    <3>1. j \in 0 .. 8 * (n - 1) - 1 /\ k = 24 * g + j
      BY <2>2
    <3> HIDE DEF j
    <3> QED
      BY <1>9, <3>1
  <2> QED
    BY <2>1, <2>2
<1> QED
  BY <1>3, <1>10 DEF e

\* Every step keeps it.
LEMMA NextBits == CodecInv /\ CodecInv' /\ BitsInv /\ [Next]_vars => BitsInv'
<1> SUFFICES ASSUME CodecInv, CodecInv', BitsInv, [Next]_vars PROVE BitsInv'
  OBVIOUS
<1>0. /\ TypeOK /\ Len(text) \in Nat /\ text \in Seq(Char)
      /\ bytes \in Nat /\ i \in Nat /\ curr \in Nat /\ Len(decoded) \in Nat
  BY DEF CodecInv, TypeOK
<1>1. CASE to_base64 \/ EncodeGroup \/ EncodeTail \/ OtherText
  <2>1. pc' \in {"encode", "from_base64"}
    BY <1>1 DEF to_base64, EncodeGroup, EncodeTail, OtherText
  <2> QED
    BY <2>1 DEF BitsInv
<1>2. CASE DecodeEmpty
  BY <1>2 DEF DecodeEmpty, Returns, BitsInv
<1>3. CASE WrongSize \/ WrongPadding \/ InvalidCharacter
  <2>1. pc' = "thrown"
    BY <1>3 DEF WrongSize, WrongPadding, InvalidCharacter, Throws
  <2> QED
    BY <2>1 DEF BitsInv
<1>4. CASE from_base64
  <2>1. pc' = "decode" /\ bytes' = 0 /\ curr' = 0
    BY <1>4 DEF from_base64, Decode
  <2>2. 0 \in Nat /\ bytes' = 4 * 0 /\ curr' = 3 * 0
    BY <2>1
  <2>3. ASSUME NEW k \in 0 .. 8 * curr' - 1 PROVE FALSE
    BY <2>1, <2>3
  <2> QED
    BY <2>1, <2>2, <2>3 DEF BitsInv
<1>5. ASSUME pc = "decode"
      PROVE  /\ numPadding \in 0 .. 2
             /\ bytes + 4 * i + (IF numPadding # 0 THEN 4 ELSE 0) = Len(text)
             /\ curr + 3 * i + (IF numPadding # 0 THEN 3 - numPadding ELSE 0) = Len(decoded)
  BY <1>5, PaddingFacts DEF CodecInv, DecodeInv
<1>6. CASE DecodeGroup
  <2>1. pc = "decode" /\ i > 0 /\ Decoded(4) /\ pc' = pc /\ text' = text
    BY <1>6 DEF DecodeGroup
  <2>2. PICK g \in Nat : bytes = 4 * g /\ curr = 3 * g
    BY <2>1 DEF BitsInv
  <2>3. bytes + 4 <= Len(text) /\ curr + 4 - 1 <= Len(decoded)
    BY <1>0, <1>5, <2>1
  <2>4. text # <<>>
    BY <1>0, <2>3
  <2>5. bytes' = bytes + 4 /\ curr' = curr + 4 - 1
    BY <2>1 DEF Decoded
  <2>6. g + 1 \in Nat /\ bytes' = 4 * (g + 1) /\ curr' = 3 * (g + 1)
    BY <2>2, <2>5
  <2>7. \A k \in 0 .. 8 * curr - 1 : DataBit(decoded, k) = TextBit(text, k)
    BY <2>1, <2>4 DEF BitsInv
  <2>8. \A k \in 0 .. 8 * curr' - 1 : DataBit(decoded', k) = TextBit(text, k)
    BY <1>0, <2>1, <2>2, <2>3, <2>7, DecodedBits
  <2> QED
    BY <2>1, <2>6, <2>8 DEF BitsInv
<1>7. CASE DecodeTail
  <2>1. pc = "decode" /\ i = 0 /\ pc' = "returned" /\ text' = text
    BY <1>7 DEF DecodeTail, Returns
  <2>2. PICK g \in Nat : bytes = 4 * g /\ curr = 3 * g
    BY <2>1 DEF BitsInv
  <2>3. /\ numPadding \in 0 .. 2
        /\ bytes + (IF numPadding # 0 THEN 4 ELSE 0) = Len(text)
        /\ curr + (IF numPadding # 0 THEN 3 - numPadding ELSE 0) = Len(decoded)
    BY <1>0, <1>5, <2>1
  <2>4. text # <<>> => \A k \in 0 .. 8 * curr - 1 : DataBit(decoded, k) = TextBit(text, k)
    BY <2>1 DEF BitsInv
  <2>5. CASE numPadding = 0
    <3>1. decoded' = decoded /\ bytes' = bytes /\ curr' = curr
      BY <1>7, <2>5 DEF DecodeTail
    <3>2. Len(decoded) = (6 * bytes) \div 8
      BY <2>2, <2>3, <2>5
    <3>3. text = <<>> => decoded = <<>>
      <4>1. ASSUME text = <<>> PROVE Len(decoded) = 0
        BY <2>2, <2>3, <2>5, <4>1
      <4> QED
        BY <4>1, EmptySeq DEF CodecInv, TypeOK
    <3> QED
      BY <2>1, <2>4, <3>1, <3>2, <3>3 DEF BitsInv
  <2>6. CASE numPadding # 0
    <3> DEFINE n == 4 - numPadding
    <3>1. Decoded(n)
      BY <1>7, <2>6 DEF DecodeTail
    <3>2. n \in {2, 3, 4} /\ n < 4 /\ bytes + n <= Len(text) /\ curr + n - 1 = Len(decoded)
      BY <1>0, <2>3, <2>6
    <3> HIDE DEF n
    <3>3. text # <<>>
      BY <1>0, <3>2
    <3>4. \A k \in 0 .. 8 * curr' - 1 : DataBit(decoded', k) = TextBit(text, k)
      BY <1>0, <2>2, <2>4, <3>1, <3>2, <3>3, DecodedBits
    <3>5. bytes' = bytes + n /\ Len(decoded') = Len(decoded)
      BY <1>0, <3>1, <3>2, DecodedFacts
    <3>6. Len(decoded') = (6 * bytes') \div 8
      <4>1. n = 2 \/ n = 3
        BY <3>2
      <4>2. Len(decoded') = 3 * g + n - 1 /\ bytes' = 4 * g + n
        BY <2>2, <3>2, <3>5
      <4> QED
        BY <4>1, <4>2
    <3> QED
      BY <2>1, <3>3, <3>4, <3>6 DEF BitsInv
  <2> QED
    BY <2>5, <2>6
<1>8. CASE UNCHANGED vars
  BY <1>8 DEF vars, BitsInv
<1> QED
  BY <1>1, <1>2, <1>3, <1>4, <1>6, <1>7, <1>8 DEF Next

\* What from_base64 returns for any text, its own or another's, has the bits of its
\* characters in front of the padding, as many as fill whole bytes.
THEOREM DecodesEveryBit == Spec => []DecodesTheBits
<1>1. ASSUME CodecInv, AcceptInv, BitsInv, pc = "returned"
      PROVE  \E n \in 0 .. 2 :
                /\ PaddedBy(text, n)
                /\ Len(decoded) = (6 * (Len(text) - n)) \div 8
                /\ \A k \in 0 .. 8 * Len(decoded) - 1 : DataBit(decoded, k) = TextBit(text, k)
  <2>0. TypeOK /\ IsBase64(text) /\ Len(text) \in Nat
    BY <1>1 DEF CodecInv, TypeOK, AcceptInv, AcceptsBase64Only
  <2>1. CASE text = <<>>
    <3>1. decoded = <<>> /\ Len(text) = 0 /\ Len(decoded) = 0
      BY <1>1, <2>1 DEF BitsInv
    <3>2. PaddedBy(text, 0)
      BY <3>1 DEF PaddedBy
    <3>3. Len(decoded) = (6 * (Len(text) - 0)) \div 8
      BY <3>1
    <3>4. ASSUME NEW k \in 0 .. 8 * Len(decoded) - 1 PROVE FALSE
      BY <3>1, <3>4
    <3> QED
      BY <3>2, <3>3, <3>4
  <2>2. CASE text # <<>>
    <3>1. numPadding \in 0 .. 2 /\ PaddedBy(text, numPadding)
      BY <2>0, <2>2, CountedRight, PaddingFacts
    <3>2. curr = Len(decoded) /\ bytes = Len(text) - numPadding
      BY <1>1, <2>2 DEF CodecInv, DecodeInv
    <3>3. Len(decoded) = (6 * (Len(text) - numPadding)) \div 8
      BY <1>1, <2>2, <3>2 DEF BitsInv
    <3>4. \A k \in 0 .. 8 * Len(decoded) - 1 : DataBit(decoded, k) = TextBit(text, k)
      BY <1>1, <2>2, <3>2 DEF BitsInv
    <3> QED
      BY <3>1, <3>3, <3>4
  <2> QED
    BY <2>1, <2>2
<1>2. Init => AcceptInv /\ BitsInv
  BY DEF Init, AcceptInv, AcceptsBase64Only, BitsInv
<1>3. CodecInv /\ AcceptInv /\ BitsInv => DecodesTheBits
  BY <1>1 DEF DecodesTheBits
<1> QED
  BY <1>2, <1>3, NextAccept, NextBits, CodecAlways, PTL DEF Spec
=============================================================================
