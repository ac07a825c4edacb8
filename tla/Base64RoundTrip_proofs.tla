----------------------- MODULE Base64RoundTrip_proofs -----------------------
(* The theorem of the codec: what to_base64 makes of any byte string,      *)
(* from_base64 takes back, in a build of either byte order.                *)
EXTENDS Base64_proofs

-----------------------------------------------------------------------------
(* Four characters and three bytes.                                        *)

\* The characters c1 .. c4 are those of the bytes t1 .. t3.
Grouped(c1, c2, c3, c4, t1, t2, t3) ==
    /\ c1 = t1 \div 4
    /\ c2 = (t1 % 4) * 16 + t2 \div 16
    /\ c3 = (t2 % 16) * 4 + t3 \div 64
    /\ c4 = t3 % 64

\* Bytes are cut into characters of the alphabet, whose bits are theirs.
LEMMA GroupedBits ==
  ASSUME NEW t1 \in Byte, NEW t2 \in Byte, NEW t3 \in Byte,
         NEW c1, NEW c2, NEW c3, NEW c4, Grouped(c1, c2, c3, c4, t1, t2, t3)
  PROVE  /\ c1 \in Alphabet /\ c2 \in Alphabet /\ c3 \in Alphabet /\ c4 \in Alphabet
         /\ t1 = 4 * c1 + (c2 \div 16)
         /\ t2 = 16 * (c2 % 16) + (c3 \div 4)
         /\ t3 = 64 * (c3 % 4) + c4
<1>1. /\ t1 \div 4 \in 0 .. 63 /\ t1 % 4 \in 0 .. 3 /\ t1 = 4 * (t1 \div 4) + (t1 % 4)
      /\ t2 \div 16 \in 0 .. 15 /\ t2 % 16 \in 0 .. 15 /\ t2 = 16 * (t2 \div 16) + (t2 % 16)
      /\ t3 \div 64 \in 0 .. 3 /\ t3 % 64 \in 0 .. 63 /\ t3 = 64 * (t3 \div 64) + (t3 % 64)
  BY DEF Byte
<1>2. \A a \in 0 .. 3, b \in 0 .. 15 :
         /\ a * 16 + b \in 0 .. 63
         /\ (a * 16 + b) \div 16 = a /\ (a * 16 + b) % 16 = b
  OBVIOUS
<1>3. \A a \in 0 .. 15, b \in 0 .. 3 :
         /\ a * 4 + b \in 0 .. 63
         /\ (a * 4 + b) \div 4 = a /\ (a * 4 + b) % 4 = b
  OBVIOUS
<1>4. /\ c2 = (t1 % 4) * 16 + t2 \div 16 /\ c3 = (t2 % 16) * 4 + t3 \div 64
      /\ c1 = t1 \div 4 /\ c4 = t3 % 64
  BY DEF Grouped
<1>5. c2 \in 0 .. 63 /\ c2 \div 16 = t1 % 4 /\ c2 % 16 = t2 \div 16
  <2> DEFINE a == t1 % 4
             b == t2 \div 16
  <2>1. a \in 0 .. 3 /\ b \in 0 .. 15 /\ c2 = a * 16 + b
    BY <1>1, <1>4
  <2> HIDE DEF a, b
  <2>2. c2 \in 0 .. 63 /\ c2 \div 16 = a /\ c2 % 16 = b
    BY <2>1, <1>2
  <2> QED
    BY <2>2 DEF a, b
<1>6. c3 \in 0 .. 63 /\ c3 \div 4 = t2 % 16 /\ c3 % 4 = t3 \div 64
  <2> DEFINE a == t2 % 16
             b == t3 \div 64
  <2>1. a \in 0 .. 15 /\ b \in 0 .. 3 /\ c3 = a * 4 + b
    BY <1>1, <1>4
  <2> HIDE DEF a, b
  <2>2. c3 \in 0 .. 63 /\ c3 \div 4 = a /\ c3 % 4 = b
    BY <2>1, <1>3
  <2> QED
    BY <2>2 DEF a, b
<1> QED
  BY <1>1, <1>4, <1>5, <1>6 DEF Alphabet

\* A number made of three bytes, taken apart.
LEMMA ThreeBytes ==
  ASSUME NEW x \in Byte, NEW y \in Byte, NEW z \in Byte,
         NEW w, w = x + 256 * y + 65536 * z
  PROVE  /\ w \in Nat /\ w < bad_char
         /\ w % 256 = x /\ (w \div 256) % 256 = y /\ (w \div 65536) % 256 = z
<1>1. w \in Nat /\ w <= 16777215
  BY DEF Byte
<1>2. w % 256 = x /\ w \div 256 = y + 256 * z
  BY DEF Byte
<1>3. (y + 256 * z) % 256 = y
  BY DEF Byte
<1>4. w \div 65536 = z /\ z % 256 = z
  BY DEF Byte
<1> QED
  BY <1>1, <1>2, <1>3, <1>4 DEF bad_char

\* Three entries of a tuple of four.
LEMMA SubSeqAt ==
  ASSUME NEW a1, NEW a2, NEW a3, NEW a4, NEW d \in {1, 2}
  PROVE  \A k \in 1 .. 3 :
            SubSeq(<<a1, a2, a3, a4>>, d, d + 2)[k] = <<a1, a2, a3, a4>>[d + k - 1]
<1> DEFINE a == <<a1, a2, a3, a4>>
           S == {a1, a2, a3, a4}
<1>1. a[1] \in S /\ a[2] \in S /\ a[3] \in S /\ a[4] \in S
  OBVIOUS
<1> HIDE DEF a, S
<1>2. d \in Int /\ d + 2 \in Int /\ \A k \in d .. d + 2 : k \in {1, 2, 3, 4}
  OBVIOUS
<1>3. \A k \in d .. d + 2 : a[k] \in S
  BY <1>1, <1>2
<1>4. \A k \in 1 .. (d + 2) - d + 1 : SubSeq(a, d, d + 2)[k] = a[d + k - 1]
  BY <1>2, <1>3, SubSeqProperties
<1>5. (d + 2) - d + 1 = 3
  OBVIOUS
<1> QED
  BY <1>4, <1>5 DEF a

\* The word of a group is valid and has the group's bytes where decode_into
\* takes them from.
LEMMA GroupDecoded ==
  ASSUME endian \in {"little", "big"},
         NEW t1 \in Byte, NEW t2 \in Byte, NEW t3 \in Byte,
         NEW c1, NEW c2, NEW c3, NEW c4, Grouped(c1, c2, c3, c4, t1, t2, t3),
         NEW w, w = Or(decode_table_0[c1], decode_table_1[c2],
                       decode_table_2[c3], decode_table_3[c4])
  PROVE  /\ ~ Invalid(w)
         /\ tempBytes(w)[1] = t1 /\ tempBytes(w)[2] = t2 /\ tempBytes(w)[3] = t3
<1> DEFINE d1 == decode_table_0[c1]
           d2 == decode_table_1[c2]
           d3 == decode_table_2[c3]
           d4 == decode_table_3[c4]
<1>1. /\ c1 \in Alphabet /\ c2 \in Alphabet /\ c3 \in Alphabet /\ c4 \in Alphabet
      /\ t1 = 4 * c1 + (c2 \div 16)
      /\ t2 = 16 * (c2 % 16) + (c3 \div 4)
      /\ t3 = 64 * (c3 % 4) + c4
  BY GroupedBits
<1>2. /\ c2 \div 16 \in 0 .. 3 /\ c2 % 16 \in 0 .. 15 /\ c2 = 16 * (c2 \div 16) + (c2 % 16)
      /\ c3 \div 4 \in 0 .. 15 /\ c3 % 4 \in 0 .. 3 /\ c3 = 4 * (c3 \div 4) + (c3 % 4)
  BY <1>1 DEF Alphabet
<1>3. c1 \in Char /\ c2 \in Char /\ c3 \in Char /\ c4 \in Char
  BY <1>1 DEF Char
<1>4. CASE endian = "little"
  <2>1. /\ d1 = c1 * 4
        /\ d2 = (c2 \div 16) + (c2 % 16) * 4096
        /\ d3 = (c3 \div 4) * 256 + (c3 % 4) * 4194304
        /\ d4 = c4 * 65536
    BY <1>1, <1>3, <1>4 DEF decode_table_0, decode_table_1, decode_table_2, decode_table_3,
       little_table_0, little_table_1, little_table_2, little_table_3
  <2> HIDE DEF d1, d2, d3, d4
  <2>2. d1 # bad_char /\ d2 # bad_char /\ d3 # bad_char /\ d4 # bad_char
    BY <1>1, <1>2, <2>1 DEF bad_char, Alphabet
  <2>3. w = d1 + d2 + d3 + d4
    BY <2>2 DEF Or, d1, d2, d3, d4
  <2>4. w = t1 + 256 * t2 + 65536 * t3
    BY <1>1, <1>2, <2>1, <2>3 DEF Alphabet
  <2>5. /\ w \in Nat /\ w < bad_char
        /\ w % 256 = t1 /\ (w \div 256) % 256 = t2 /\ (w \div 65536) % 256 = t3
    BY <2>4, ThreeBytes
  <2>6. ~ Invalid(w)
    BY <2>5 DEF Invalid, bad_char
  <2>7. bit_cast(w) = <<t1, t2, t3, (w \div 16777216) % 256>> /\ decidx = 1
    BY <1>4, <2>5 DEF bit_cast, decidx, little_decidx, big_decidx
  <2> QED
    BY <2>6, <2>7, SubSeqAt DEF tempBytes
<1>5. CASE endian = "big"
  <2>1. d1 = c1 * 262144 /\ d2 = c2 * 4096 /\ d3 = c3 * 64 /\ d4 = c4
    BY <1>1, <1>3, <1>5 DEF decode_table_0, decode_table_1, decode_table_2, decode_table_3,
       big_table_0, big_table_1, big_table_2, big_table_3
  <2> HIDE DEF d1, d2, d3, d4
  <2>2. d1 # bad_char /\ d2 # bad_char /\ d3 # bad_char /\ d4 # bad_char
    BY <1>1, <2>1 DEF bad_char, Alphabet
  <2>3. w = d1 + d2 + d3 + d4
    BY <2>2 DEF Or, d1, d2, d3, d4
  <2>4. w = t3 + 256 * t2 + 65536 * t1
    BY <1>1, <1>2, <2>1, <2>3 DEF Alphabet
  <2>5. /\ w \in Nat /\ w < bad_char
        /\ w % 256 = t3 /\ (w \div 256) % 256 = t2 /\ (w \div 65536) % 256 = t1
    BY <2>4, ThreeBytes
  <2>6. ~ Invalid(w)
    BY <2>5 DEF Invalid, bad_char
  <2>7. bit_cast(w) = <<(w \div 16777216) % 256, t1, t2, t3>> /\ decidx = 2
    BY <1>5, <2>5 DEF bit_cast, decidx, little_decidx, big_decidx
  <2> QED
    BY <2>6, <2>7, SubSeqAt DEF tempBytes
<1> QED
  BY <1>4, <1>5

-----------------------------------------------------------------------------
(* The invariant.                                                          *)

Groups == Len(data) \div 3
Rest == Len(data) % 3

\* The characters of the whole group g, counted from 0, are those of its bytes,
GroupAt(g) ==
    Grouped(text[4 * g + 1], text[4 * g + 2], text[4 * g + 3], text[4 * g + 4],
            data[3 * g + 1], data[3 * g + 2], data[3 * g + 3])

\* and those of the rest are padded.
RestAt(g) ==
    /\ Rest = 1 =>
          /\ Grouped(text[4 * g + 1], text[4 * g + 2], 0, 0, data[3 * g + 1], 0, 0)
          /\ text[4 * g + 3] = Padding /\ text[4 * g + 4] = Padding
    /\ Rest = 2 =>
          /\ Grouped(text[4 * g + 1], text[4 * g + 2], text[4 * g + 3], 0,
                     data[3 * g + 1], data[3 * g + 2], 0)
          /\ text[4 * g + 4] = Padding

TextSize == Len(text) = 4 * Groups + (IF Rest # 0 THEN 4 ELSE 0)

TextMade ==
    /\ TextSize
    /\ \A g \in 0 .. Groups - 1 : GroupAt(g)
    /\ RestAt(Groups)

\* The groups that encode_into has written are right and the others are still
\* padding; what decode_into has written is the data up to there.
RoundInv ==
    /\ pc = "idle" => origin = "none"
    /\ pc = "encode" =>
          /\ origin = "to_base64" /\ TextSize
          /\ \A g \in 0 .. Groups - i - 1 : GroupAt(g)
          /\ \A k \in curr + 1 .. Len(text) : text[k] = Padding
    /\ origin = "to_base64" =>
          /\ pc \in {"from_base64", "decode"} => TextMade
          /\ pc = "decode" =>
                /\ Len(decoded) = Len(data)
                /\ bytes = 4 * (Groups - i) /\ curr = 3 * (Groups - i)
                /\ \A k \in 1 .. curr : decoded[k] = data[k]
          /\ pc # "thrown"
          /\ pc = "returned" => decoded = data

\* A number is made of threes and a rest.
LEMMA Threes ==
  ASSUME NEW n \in Nat
  PROVE  n \div 3 \in Nat /\ n % 3 \in {0, 1, 2} /\ n = 3 * (n \div 3) + (n % 3)
OBVIOUS

\* Groups and rest make up the data.
LEMMA DataSize ==
  ASSUME TypeOK
  PROVE  /\ Len(data) \in Nat /\ Groups \in Nat /\ Rest \in {0, 1, 2}
         /\ Len(data) = 3 * Groups + Rest
<1>1. Len(data) \in Nat
  BY DEF TypeOK
<1> QED
  BY <1>1, Threes DEF Groups, Rest

\* What is stored is there, and the rest of the buffer is as it was.
LEMMA StoredAt ==
  ASSUME NEW S, NEW buffer \in Seq(S), NEW s \in Seq(S), curr \in Nat,
         curr + Len(s) <= Len(buffer), NEW k \in 1 .. Len(buffer)
  PROVE  /\ k <= curr => Stored(buffer, s)[k] = buffer[k]
         /\ k > curr + Len(s) => Stored(buffer, s)[k] = buffer[k]
         /\ \A j \in 1 .. Len(s) : k = curr + j => Stored(buffer, s)[k] = s[j]
<1>1. Len(s) \in Nat /\ Len(buffer) \in Nat /\ DOMAIN buffer = 1 .. Len(buffer)
  OBVIOUS
<1>2. Stored(buffer, s)[k] = IF k \in curr + 1 .. curr + Len(s) THEN s[k - curr] ELSE buffer[k]
  BY <1>1 DEF Stored
<1>3. k <= curr \/ k > curr + Len(s) => k \notin curr + 1 .. curr + Len(s)
  BY <1>1
<1>4. \A j \in 1 .. Len(s) : k = curr + j => k \in curr + 1 .. curr + Len(s) /\ k - curr = j
  BY <1>1
<1> QED
  BY <1>2, <1>3, <1>4

-----------------------------------------------------------------------------
(* Decoding what was encoded.                                              *)

\* A whole group is decoded to its bytes.
LEMMA GroupWord ==
  ASSUME TypeOK, NEW g \in Nat, 3 * g + 3 <= Len(data), GroupAt(g), bytes = 4 * g
  PROVE  /\ ~ Invalid(Word(4))
         /\ \A j \in 1 .. 3 : tempBytes(Word(4))[j] = data[3 * g + j]
<1> DEFINE t1 == data[3 * g + 1]
           t2 == data[3 * g + 2]
           t3 == data[3 * g + 3]
           c1 == text[4 * g + 1]
           c2 == text[4 * g + 2]
           c3 == text[4 * g + 3]
           c4 == text[4 * g + 4]
           w == Word(4)
<1>1. t1 \in Byte /\ t2 \in Byte /\ t3 \in Byte
  BY DEF TypeOK
<1>2. Grouped(c1, c2, c3, c4, t1, t2, t3)
  BY DEF GroupAt
<1>3. w = Or(decode_table_0[c1], decode_table_1[c2], decode_table_2[c3], decode_table_3[c4])
  BY DEF Word
<1>4. endian \in {"little", "big"}
  BY DEF TypeOK
<1> HIDE DEF t1, t2, t3, c1, c2, c3, c4, w
<1>5. ~ Invalid(w) /\ tempBytes(w)[1] = t1 /\ tempBytes(w)[2] = t2 /\ tempBytes(w)[3] = t3
  BY <1>1, <1>2, <1>3, <1>4, GroupDecoded
<1>6. ~ Invalid(Word(4))
  BY <1>5 DEF w
<1>7. ASSUME NEW j \in 1 .. 3 PROVE tempBytes(Word(4))[j] = data[3 * g + j]
  <2>1. j = 1 \/ j = 2 \/ j = 3
    OBVIOUS
  <2> QED
    BY <1>5, <2>1 DEF w, t1, t2, t3
<1> QED
  BY <1>6, <1>7

\* No character at all is the same as the alphabet's first.
LEMMA NoBits == decode_table_2[0] = 0 /\ decode_table_3[0] = 0
<1>1. 0 \in Char /\ 0 \in Alphabet
  BY DEF Char, Alphabet
<1>2. /\ little_table_2[0] = 0 /\ little_table_3[0] = 0
      /\ big_table_2[0] = 0 /\ big_table_3[0] = 0
  BY <1>1 DEF little_table_2, little_table_3, big_table_2, big_table_3
<1> QED
  BY <1>2 DEF decode_table_2, decode_table_3

\* So is the rest.
LEMMA RestWord ==
  ASSUME TypeOK, Rest # 0, RestAt(Groups), bytes = 4 * Groups
  PROVE  /\ ~ Invalid(Word(Rest + 1))
         /\ \A j \in 1 .. Rest : tempBytes(Word(Rest + 1))[j] = data[3 * Groups + j]
<1>0. /\ Len(data) \in Nat /\ Groups \in Nat /\ Rest \in {1, 2}
      /\ Len(data) = 3 * Groups + Rest
  BY DataSize
<1> DEFINE t1 == data[3 * Groups + 1]
           t2 == IF Rest = 2 THEN data[3 * Groups + 2] ELSE 0
           c1 == text[4 * Groups + 1]
           c2 == text[4 * Groups + 2]
           c3 == IF Rest = 2 THEN text[4 * Groups + 3] ELSE 0
           w == Word(Rest + 1)
<1>1. t1 \in Byte /\ t2 \in Byte /\ 0 \in Byte
  <2>1. 3 * Groups + 1 \in 1 .. Len(data) /\ (Rest = 2 => 3 * Groups + 2 \in 1 .. Len(data))
    BY <1>0
  <2>2. 0 \in Byte
    BY DEF Byte
  <2> QED
    BY <2>1, <2>2, ElementOfSeq DEF TypeOK
<1>2. Grouped(c1, c2, c3, 0, t1, t2, 0)
  BY <1>0 DEF RestAt
<1>3. w = Or(decode_table_0[c1], decode_table_1[c2], decode_table_2[c3], decode_table_3[0])
  <2>1. CASE Rest = 1
    <3>1. w = Or(decode_table_0[text[bytes + 1]], decode_table_1[text[bytes + 2]], 0, 0)
      BY <2>1 DEF Word
    <3> QED
      BY <2>1, <3>1, NoBits
  <2>2. CASE Rest = 2
    <3>1. w = Or(decode_table_0[text[bytes + 1]], decode_table_1[text[bytes + 2]],
                 decode_table_2[text[bytes + 3]], 0)
      BY <2>2 DEF Word
    <3> QED
      BY <2>2, <3>1, NoBits
  <2> QED
    BY <1>0, <2>1, <2>2
<1>4. endian \in {"little", "big"}
  BY DEF TypeOK
<1> HIDE DEF t1, t2, c1, c2, c3, w
<1>5. ~ Invalid(w) /\ tempBytes(w)[1] = t1 /\ tempBytes(w)[2] = t2
  BY <1>1, <1>2, <1>3, <1>4, GroupDecoded
<1>6. ~ Invalid(Word(Rest + 1))
  BY <1>5 DEF w
<1>7. ASSUME NEW j \in 1 .. Rest PROVE tempBytes(Word(Rest + 1))[j] = data[3 * Groups + j]
  <2>1. j = 1 \/ (j = 2 /\ Rest = 2)
    BY <1>0
  <2> QED
    BY <1>5, <2>1 DEF w, t1, t2
<1> QED
  BY <1>6, <1>7

\* The characters of a whole group and of the rest are not padding.
LEMMA NotPadding ==
  ASSUME TypeOK, TextMade
  PROVE  /\ \A g \in 0 .. Groups - 1 : \A j \in 1 .. 4 : text[4 * g + j] # Padding
         /\ Rest # 0 => \A j \in 1 .. Rest + 1 : text[4 * Groups + j] # Padding
<1>0. /\ Len(data) \in Nat /\ Groups \in Nat /\ Rest \in {0, 1, 2}
      /\ Len(data) = 3 * Groups + Rest
  BY DataSize
<1>1. \A c \in Alphabet : c # Padding
  BY DEF Alphabet, Padding
<1>2. ASSUME NEW g \in 0 .. Groups - 1, NEW j \in 1 .. 4
      PROVE  text[4 * g + j] # Padding
  <2>1. data[3 * g + 1] \in Byte /\ data[3 * g + 2] \in Byte /\ data[3 * g + 3] \in Byte
    BY <1>0 DEF TypeOK
  <2>2. GroupAt(g)
    BY DEF TextMade
  <2>3. /\ text[4 * g + 1] \in Alphabet /\ text[4 * g + 2] \in Alphabet
        /\ text[4 * g + 3] \in Alphabet /\ text[4 * g + 4] \in Alphabet
    BY <2>1, <2>2, GroupedBits DEF GroupAt
  <2>4. j \in {1, 2, 3, 4}
    OBVIOUS
  <2> QED
    BY <1>1, <2>3, <2>4
<1>3. ASSUME Rest # 0, NEW j \in 1 .. Rest + 1
      PROVE  text[4 * Groups + j] # Padding
  <2>0. RestAt(Groups) /\ 0 \in Byte
    BY DEF TextMade, Byte
  <2>1. CASE Rest = 1
    <3>1. data[3 * Groups + 1] \in Byte
      BY <1>0, <2>1 DEF TypeOK
    <3>2. Grouped(text[4 * Groups + 1], text[4 * Groups + 2], 0, 0, data[3 * Groups + 1], 0, 0)
      BY <2>0, <2>1 DEF RestAt
    <3>3. text[4 * Groups + 1] \in Alphabet /\ text[4 * Groups + 2] \in Alphabet
      BY <2>0, <3>1, <3>2, GroupedBits
    <3>4. j \in {1, 2}
      BY <2>1, <1>3
    <3> QED
      BY <1>1, <3>3, <3>4
  <2>2. CASE Rest = 2
    <3>1. data[3 * Groups + 1] \in Byte /\ data[3 * Groups + 2] \in Byte
      BY <1>0, <2>2 DEF TypeOK
    <3>2. Grouped(text[4 * Groups + 1], text[4 * Groups + 2], text[4 * Groups + 3], 0,
                  data[3 * Groups + 1], data[3 * Groups + 2], 0)
      BY <2>0, <2>2 DEF RestAt
    <3>3. /\ text[4 * Groups + 1] \in Alphabet /\ text[4 * Groups + 2] \in Alphabet
          /\ text[4 * Groups + 3] \in Alphabet
      BY <2>0, <3>1, <3>2, GroupedBits
    <3>4. j \in {1, 2, 3}
      BY <2>2, <1>3
    <3> QED
      BY <1>1, <3>3, <3>4
  <2> QED
    BY <1>0, <1>3, <2>1, <2>2
<1> QED
  BY <1>2, <1>3

\* The padding tells how many bytes the rest has.
LEMMA MadePadding ==
  ASSUME TypeOK, TextMade, Len(text) # 0
  PROVE  numPadding = IF Rest = 0 THEN 0 ELSE 3 - Rest
<1>0. /\ Groups \in Nat /\ Rest \in {0, 1, 2}
      /\ Len(text) = 4 * Groups + (IF Rest # 0 THEN 4 ELSE 0)
  BY DataSize DEF TextMade, TextSize
<1> DEFINE P == {k \in 0 .. 3 : text[Len(text) - k] = Padding}
<1>p. numPadding = Cardinality(P)
  BY DEF numPadding
<1>1. CASE Rest = 0
  <2> DEFINE g == Groups - 1
  <2>1. g \in 0 .. Groups - 1 /\ Len(text) = 4 * g + 4
    BY <1>0, <1>1
  <2>2. \A j \in 1 .. 4 : text[4 * g + j] # Padding
    BY <2>1, NotPadding
  <2>3. \A k \in 0 .. 3 : 4 - k \in 1 .. 4 /\ Len(text) - k = 4 * g + (4 - k)
    BY <1>0, <2>1
  <2> HIDE DEF g
  <2>4. P = {}
    BY <2>2, <2>3
  <2> HIDE DEF P
  <2>5. Cardinality(P) = 0
    BY <2>4, FS_EmptySet
  <2> QED
    BY <1>p, <1>1, <2>5
<1>2. CASE Rest = 1
  <2>1. /\ text[4 * Groups + 1] # Padding /\ text[4 * Groups + 2] # Padding
        /\ text[4 * Groups + 3] = Padding /\ text[4 * Groups + 4] = Padding
    BY <1>2, NotPadding DEF TextMade, RestAt
  <2>2. /\ Len(text) - 0 = 4 * Groups + 4 /\ Len(text) - 1 = 4 * Groups + 3
        /\ Len(text) - 2 = 4 * Groups + 2 /\ Len(text) - 3 = 4 * Groups + 1
    BY <1>0, <1>2
  <2>3. \A k \in 0 .. 3 : k = 0 \/ k = 1 \/ k = 2 \/ k = 3
    OBVIOUS
  <2>4. P = {0} \cup {1}
    BY <2>1, <2>2, <2>3
  <2> HIDE DEF P
  <2>5. IsFiniteSet({0}) /\ Cardinality({0}) = 1
    BY FS_Singleton
  <2>6. Cardinality({0} \cup {1}) = Cardinality({0}) + 1
    BY <2>5, FS_AddElement
  <2> QED
    BY <1>p, <1>2, <2>4, <2>5, <2>6
<1>3. CASE Rest = 2
  <2>1. /\ text[4 * Groups + 1] # Padding /\ text[4 * Groups + 2] # Padding
        /\ text[4 * Groups + 3] # Padding /\ text[4 * Groups + 4] = Padding
    BY <1>3, NotPadding DEF TextMade, RestAt
  <2>2. /\ Len(text) - 0 = 4 * Groups + 4 /\ Len(text) - 1 = 4 * Groups + 3
        /\ Len(text) - 2 = 4 * Groups + 2 /\ Len(text) - 3 = 4 * Groups + 1
    BY <1>0, <1>3
  <2>3. \A k \in 0 .. 3 : k = 0 \/ k = 1 \/ k = 2 \/ k = 3
    OBVIOUS
  <2>4. P = {0}
    BY <2>1, <2>2, <2>3
  <2> HIDE DEF P
  <2>5. Cardinality({0}) = 1
    BY FS_Singleton
  <2> QED
    BY <1>p, <1>3, <2>4, <2>5
<1> QED
  BY <1>0, <1>1, <1>2, <1>3

\* A group is decoded behind what is there.
LEMMA DecodedAt ==
  ASSUME TypeOK, NEW n \in {2, 3, 4}, bytes + n <= Len(text),
         curr + n - 1 <= Len(decoded), Decoded(n)
  PROVE  /\ curr' = curr + n - 1
         /\ \A k \in 1 .. curr : decoded'[k] = decoded[k]
         /\ \A j \in 1 .. n - 1 : decoded'[curr + j] = tempBytes(Word(n))[j]
<1> DEFINE tb == tempBytes(Word(n))
           s == SubSeq(tb, 1, n - 1)
<1>1. s \in Seq(Byte) /\ Len(s) = n - 1
  BY DecodedBytes
<1>2. decoded' = Stored(decoded, s) /\ curr' = curr + n - 1
  BY DEF Decoded
<1>3. \A j \in 1 .. n - 1 : s[j] = tb[j]
  <2>1. tb \in Seq(Byte) /\ Len(tb) = 3
    BY WordType, BytesOfWord
  <2> HIDE DEF tb
  <2>2. 1 \in Int /\ n - 1 \in Int /\ \A j \in 1 .. n - 1 : tb[j] \in Byte
    <3>1. 1 \in Int /\ n - 1 \in Int /\ \A j \in 1 .. n - 1 : j \in 1 .. 3
      OBVIOUS
    <3>2. \A j \in 1 .. 3 : tb[j] \in Byte
      BY <2>1, ElementOfSeq
    <3> QED
      BY <3>1, <3>2
  <2>3. \A j \in 1 .. (n - 1) - 1 + 1 : SubSeq(tb, 1, n - 1)[j] = tb[1 + j - 1]
    BY <2>2, SubSeqProperties
  <2>4. (n - 1) - 1 + 1 = n - 1 /\ \A j \in 1 .. n - 1 : 1 + j - 1 = j
    OBVIOUS
  <2> QED
    BY <2>3, <2>4
<1>4. curr \in Nat /\ decoded \in Seq(Byte) /\ Len(decoded) \in Nat
  BY DEF TypeOK
<1> HIDE DEF s, tb
<1>5. curr + Len(s) <= Len(decoded)
  BY <1>1, <1>4
<1>6. ASSUME NEW k \in 1 .. curr PROVE Stored(decoded, s)[k] = decoded[k]
  <2>1. k \in 1 .. Len(decoded) /\ k <= curr
    BY <1>4, <1>5, <1>1
  <2> QED
    BY <1>1, <1>4, <1>5, <2>1, StoredAt
<1>7. ASSUME NEW j \in 1 .. n - 1 PROVE Stored(decoded, s)[curr + j] = tb[j]
  <2>1. curr + j \in 1 .. Len(decoded) /\ j \in 1 .. Len(s)
    BY <1>1, <1>4, <1>5
  <2>2. Stored(decoded, s)[curr + j] = s[j]
    BY <1>1, <1>4, <1>5, <2>1, StoredAt
  <2> QED
    BY <1>3, <2>2
<1> QED
  BY <1>2, <1>6, <1>7 DEF tb

\* A group decoded behind data is data.
LEMMA DecodedData ==
  ASSUME TypeOK, NEW n \in {2, 3, 4}, bytes + n <= Len(text),
         curr + n - 1 <= Len(decoded), Decoded(n),
         \A k \in 1 .. curr : decoded[k] = data[k],
         \A j \in 1 .. n - 1 : tempBytes(Word(n))[j] = data[curr + j]
  PROVE  \A k \in 1 .. curr' : decoded'[k] = data[k]
<1>1. /\ curr' = curr + n - 1
      /\ \A k \in 1 .. curr : decoded'[k] = decoded[k]
      /\ \A j \in 1 .. n - 1 : decoded'[curr + j] = tempBytes(Word(n))[j]
  BY DecodedAt
<1>2. curr \in Nat
  BY DEF TypeOK
<1>3. ASSUME NEW k \in 1 .. curr + n - 1 PROVE decoded'[k] = data[k]
  <2>1. k \in 1 .. curr \/ (k - curr \in 1 .. n - 1 /\ curr + (k - curr) = k)
    BY <1>2
  <2>2. CASE k \in 1 .. curr
    BY <1>1, <2>2
  <2>3. CASE k - curr \in 1 .. n - 1 /\ curr + (k - curr) = k
    <3> DEFINE j == k - curr
    <3>1. j \in 1 .. n - 1 /\ curr + j = k
      BY <2>3
    <3> HIDE DEF j
    <3>2. decoded'[curr + j] = data[curr + j]
      BY <1>1, <3>1
    <3> QED
      BY <3>1, <3>2
  <2> QED
    BY <2>1, <2>2, <2>3
<1> QED
  BY <1>1, <1>3

-----------------------------------------------------------------------------
(* The steps of encode_into.                                               *)

\* A byte below 64 is its own character.
LEMMA EncodedGrouped ==
  ASSUME NEW t1 \in Byte, NEW t2 \in Byte, NEW t3 \in Byte
  PROVE  Grouped(encode_table_0[t1],
                 encode_table_1[(t1 % 4) * 16 + t2 \div 16],
                 encode_table_1[(t2 % 16) * 4 + t3 \div 64],
                 encode_table_1[t3], t1, t2, t3)
<1> DEFINE x2 == (t1 % 4) * 16 + t2 \div 16
           x3 == (t2 % 16) * 4 + t3 \div 64
<1>1. x2 \in 0 .. 63 /\ x3 \in 0 .. 63
  BY DEF Byte
<1> HIDE DEF x2, x3
<1>2. encode_table_0[t1] = t1 \div 4 /\ encode_table_1[t3] = t3 % 64
  BY DEF encode_table_0, encode_table_1
<1>3. \A x \in 0 .. 63 : x \in Byte /\ x % 64 = x
  BY DEF Byte
<1>4. encode_table_1[x2] = x2 /\ encode_table_1[x3] = x3
  BY <1>1, <1>3 DEF encode_table_1
<1> QED
  BY <1>2, <1>4 DEF Grouped, x2, x3

\* The groups in front of the write pointer stay as they are.
LEMMA GroupStays ==
  ASSUME TypeOK, NEW s \in Seq(Char), NEW g \in Nat, 4 * g + 4 <= curr,
         curr + Len(s) <= Len(text), text' = Stored(text, s), data' = data, GroupAt(g)
  PROVE  GroupAt(g)'
<1>1. curr \in Nat /\ text \in Seq(Char) /\ Len(text) \in Nat /\ Len(s) \in Nat
  BY DEF TypeOK
<1>2. \A j \in 1 .. 4 : 4 * g + j \in 1 .. Len(text) /\ 4 * g + j <= curr
  BY <1>1
<1>3. \A j \in 1 .. 4 : text'[4 * g + j] = text[4 * g + j]
  BY <1>1, <1>2, StoredAt
<1>4. /\ text'[4 * g + 1] = text[4 * g + 1] /\ text'[4 * g + 2] = text[4 * g + 2]
      /\ text'[4 * g + 3] = text[4 * g + 3] /\ text'[4 * g + 4] = text[4 * g + 4]
  BY <1>3
<1> QED
  BY <1>4 DEF GroupAt

\* Where the pointers of encode_into are.
LEMMA EncodeAt ==
  ASSUME CodecInv, RoundInv, pc = "encode"
  PROVE  /\ Groups - i \in 0 .. Groups
         /\ bytes = 3 * (Groups - i) /\ curr = 4 * (Groups - i)
         /\ origin = "to_base64" /\ TextSize
<1>1. /\ Groups \in Nat /\ Rest \in {0, 1, 2} /\ Len(data) = 3 * Groups + Rest
      /\ i \in Nat /\ bytes \in Nat /\ curr \in Nat /\ Len(text) \in Nat
  BY DataSize DEF CodecInv, TypeOK
<1>2. /\ bytes + 3 * i + Rest = Len(data)
      /\ curr + 4 * i + (IF Rest > 0 THEN 4 ELSE 0) = Len(text)
  BY DEF CodecInv, EncodeInv, Rest
<1>3. origin = "to_base64" /\ TextSize
  BY DEF RoundInv
<1>4. Len(text) = 4 * Groups + (IF Rest # 0 THEN 4 ELSE 0)
  BY <1>3 DEF TextSize
<1> QED
  BY <1>1, <1>2, <1>3, <1>4

\* to_base64 leaves a buffer of padding of the size that it needs.
LEMMA RoundBegins == CodecInv /\ CodecInv' /\ RoundInv /\ to_base64 => RoundInv'
<1> SUFFICES ASSUME CodecInv, CodecInv', RoundInv, to_base64 PROVE RoundInv'
  OBVIOUS
<1> DEFINE n == Len(data')
           G == n \div 3
           R == n % 3
           size == encodedsize(n)
<1>1. /\ pc' = "encode" /\ origin' = "to_base64" /\ i' = G
      /\ text' = Filled(size, Padding)
  BY DEF to_base64
<1>2. n \in Nat
  BY DEF CodecInv, TypeOK
<1>3. G \in Nat /\ R \in {0, 1, 2} /\ size = 4 * (G + (IF R > 0 THEN 1 ELSE 0))
  BY <1>2, Threes DEF encodedsize
<1>4. Groups' = G /\ Rest' = R
  BY DEF Groups, Rest
<1> HIDE DEF n, G, R, size
<1>5. size \in Nat /\ size = 4 * G + (IF R # 0 THEN 4 ELSE 0)
  BY <1>3
<1>6. Len(text') = size /\ \A k \in 1 .. size : text'[k] = Padding
  <2>1. Padding \in Char
    BY DEF Char
  <2>2. ASSUME NEW m \in Nat
        PROVE  /\ Len(Filled(m, Padding)) = m
               /\ \A k \in 1 .. m : Filled(m, Padding)[k] = Padding
    BY <2>1, FilledFacts
  <2> QED
    BY <1>1, <1>5, <2>2
<1>7. TextSize'
  BY <1>4, <1>5, <1>6 DEF TextSize
<1>8. ASSUME NEW g \in 0 .. Groups' - i' - 1 PROVE FALSE
  BY <1>1, <1>3, <1>4, <1>8
<1>9. ASSUME NEW k \in curr' + 1 .. Len(text') PROVE text'[k] = Padding
  <2>1. curr' + 1 = 1
    BY DEF to_base64, CodecInv, EncodeInv
  <2>2. k \in 1 .. size
    BY <1>6, <1>9, <2>1
  <2> QED
    BY <1>6, <2>2
<1> QED
  BY <1>1, <1>7, <1>8, <1>9 DEF RoundInv

\* A turn of the loop adds a group.
LEMMA RoundEncodes == CodecInv /\ CodecInv' /\ RoundInv /\ EncodeGroup => RoundInv'
<1> SUFFICES ASSUME CodecInv, CodecInv', RoundInv, EncodeGroup PROVE RoundInv'
  OBVIOUS
<1>0. /\ TypeOK /\ Len(data) \in Nat /\ Groups \in Nat /\ Rest \in {0, 1, 2}
      /\ Len(data) = 3 * Groups + Rest
      /\ i \in Nat /\ bytes \in Nat /\ curr \in Nat /\ Len(text) \in Nat
  BY DataSize DEF CodecInv, TypeOK
<1> DEFINE g0 == Groups - i
           t1 == data[bytes + 1]
           t2 == data[bytes + 2]
           t3 == data[bytes + 3]
           s == <<encode_table_0[t1], encode_table_1[(t1 % 4) * 16 + t2 \div 16],
                  encode_table_1[(t2 % 16) * 4 + t3 \div 64], encode_table_1[t3]>>
<1>1. /\ pc = "encode" /\ pc' = "encode" /\ i > 0 /\ i' = i - 1 /\ data' = data
      /\ origin' = origin /\ text' = Stored(text, s) /\ curr' = curr + Len(s)
  BY DEF EncodeGroup, Encoded
<1>2. /\ g0 \in 0 .. Groups - 1 /\ bytes = 3 * g0 /\ curr = 4 * g0
      /\ origin = "to_base64" /\ TextSize
  BY <1>0, <1>1, EncodeAt
<1>3. t1 \in Byte /\ t2 \in Byte /\ t3 \in Byte
  BY <1>0, <1>2 DEF TypeOK
<1>4. s \in Seq(Char) /\ Len(s) = 4
  <2> HIDE DEF t1, t2, t3
  <2> QED
    BY <1>3, EncodedType
<1>5. Grouped(s[1], s[2], s[3], s[4], t1, t2, t3)
  <2> HIDE DEF t1, t2, t3
  <2>1. /\ s[1] = encode_table_0[t1] /\ s[2] = encode_table_1[(t1 % 4) * 16 + t2 \div 16]
        /\ s[3] = encode_table_1[(t2 % 16) * 4 + t3 \div 64] /\ s[4] = encode_table_1[t3]
    OBVIOUS
  <2> HIDE DEF s
  <2> QED
    BY <1>3, <2>1, EncodedGrouped
<1> HIDE DEF s, g0
<1>6. text \in Seq(Char) /\ Len(text)' = Len(text) /\ curr + 4 <= Len(text)
  <2>1. Len(text) = 4 * Groups + (IF Rest # 0 THEN 4 ELSE 0)
    BY <1>2 DEF TextSize
  <2> QED
    BY <1>0, <1>1, <1>2, <1>4, <2>1, StoredFacts DEF TypeOK
<1>s. curr + Len(s) <= Len(text)
  BY <1>4, <1>6
<1>t. \A k \in 1 .. Len(text) :
         /\ k > curr + Len(s) => Stored(text, s)[k] = text[k]
         /\ \A j \in 1 .. Len(s) : k = curr + j => Stored(text, s)[k] = s[j]
  <2>1. curr \in Nat /\ s \in Seq(Char) /\ text \in Seq(Char)
    BY <1>0, <1>4, <1>6
  <2>2. ASSUME NEW k \in 1 .. Len(text)
        PROVE  /\ k > curr + Len(s) => Stored(text, s)[k] = text[k]
               /\ \A j \in 1 .. Len(s) : k = curr + j => Stored(text, s)[k] = s[j]
    BY <1>s, <2>1, StoredAt
  <2> QED
    BY <2>2
<1>7. ASSUME NEW g \in 0 .. g0 PROVE GroupAt(g)'
  <2>1. CASE g < g0
    <3>1. g \in Nat /\ 4 * g + 4 <= curr
      BY <1>2, <2>1
    <3>2. GroupAt(g)
      BY <1>1, <1>2, <2>1 DEF RoundInv, g0
    <3> QED
      BY <1>0, <1>1, <1>4, <1>6, <3>1, <3>2, GroupStays
  <2>2. CASE g = g0
    <3>1. \A j \in 1 .. 4 : 4 * g0 + j \in 1 .. Len(text) /\ 4 * g0 + j = curr + j
      BY <1>0, <1>2, <1>6
    <3>2. \A j \in 1 .. 4 : text'[4 * g0 + j] = s[j]
      BY <1>1, <1>4, <1>t, <3>1
    <3>3. /\ text'[4 * g0 + 1] = s[1] /\ text'[4 * g0 + 2] = s[2]
          /\ text'[4 * g0 + 3] = s[3] /\ text'[4 * g0 + 4] = s[4]
      BY <3>2
    <3>4. Grouped(text'[4 * g0 + 1], text'[4 * g0 + 2], text'[4 * g0 + 3], text'[4 * g0 + 4],
                  data'[3 * g0 + 1], data'[3 * g0 + 2], data'[3 * g0 + 3])
      BY <1>1, <1>2, <1>5, <3>3
    <3> QED
      BY <2>2, <3>4 DEF GroupAt
  <2> QED
    BY <1>2, <2>1, <2>2
<1>8. ASSUME NEW k \in curr' + 1 .. Len(text)' PROVE text'[k] = Padding
  <2>1. k \in 1 .. Len(text) /\ k > curr + Len(s) /\ k \in curr + 1 .. Len(text)
    BY <1>0, <1>1, <1>4, <1>6
  <2>2. text'[k] = text[k]
    BY <1>1, <1>t, <2>1
  <2>3. text[k] = Padding
    BY <1>1, <2>1 DEF RoundInv
  <2> QED
    BY <2>2, <2>3
<1>9. TextSize' /\ Groups' - i' - 1 = g0
  <2>1. Groups' = Groups /\ Rest' = Rest
    BY <1>1 DEF Groups, Rest
  <2>2. TextSize'
    BY <1>2, <1>6, <2>1 DEF TextSize
  <2>3. Groups' - i' - 1 = g0
    BY <1>0, <1>1, <2>1 DEF g0
  <2> QED
    BY <2>2, <2>3
<1> QED
  BY <1>1, <1>2, <1>7, <1>8, <1>9 DEF RoundInv

\* The rest is written and the padding behind it stays.
LEMMA RoundEncodesRest == CodecInv /\ CodecInv' /\ RoundInv /\ EncodeTail => RoundInv'
<1> SUFFICES ASSUME CodecInv, CodecInv', RoundInv, EncodeTail PROVE RoundInv'
  OBVIOUS
<1>0. /\ TypeOK /\ Len(data) \in Nat /\ Groups \in Nat /\ Rest \in {0, 1, 2}
      /\ Len(data) = 3 * Groups + Rest
      /\ curr \in Nat /\ Len(text) \in Nat /\ text \in Seq(Char)
  BY DataSize DEF CodecInv, TypeOK
<1> DEFINE t1 == data[bytes + 1]
           t2 == data[bytes + 2]
           c1 == encode_table_0[t1]
           c2 == encode_table_1[(t1 % 4) * 16 + t2 \div 16]
           c3 == encode_table_1[(t2 % 16) * 4]
           e2 == encode_table_1[(t1 % 4) * 16]
<1>1. /\ pc = "encode" /\ pc' = "from_base64" /\ i = 0 /\ data' = data /\ origin' = origin
      /\ \/ Rest = 0 /\ text' = Stored(text, <<>>)
         \/ Rest = 1 /\ text' = Stored(text, <<c1, e2>>)
         \/ Rest = 2 /\ text' = Stored(text, <<c1, c2, c3>>)
  BY DEF EncodeTail, Encoded, Rest
<1>2. /\ bytes = 3 * Groups /\ curr = 4 * Groups /\ origin = "to_base64" /\ TextSize
      /\ \A g \in 0 .. Groups - 1 : GroupAt(g)
      /\ \A k \in curr + 1 .. Len(text) : text[k] = Padding
  <2>1. /\ bytes = 3 * (Groups - i) /\ curr = 4 * (Groups - i)
        /\ origin = "to_base64" /\ TextSize
    BY <1>1, EncodeAt
  <2>2. Groups - i = Groups
    BY <1>0, <1>1
  <2>3. /\ \A g \in 0 .. Groups - i - 1 : GroupAt(g)
        /\ \A k \in curr + 1 .. Len(text) : text[k] = Padding
    BY <1>1 DEF RoundInv
  <2> QED
    BY <2>1, <2>2, <2>3
<1>3. Len(text) = 4 * Groups + (IF Rest # 0 THEN 4 ELSE 0)
  BY <1>2 DEF TextSize
\* Whatever is stored, if it fits.
<1>4. ASSUME NEW s \in Seq(Char), text' = Stored(text, s), curr + Len(s) <= Len(text)
      PROVE  /\ Len(text') = Len(text)
             /\ \A g \in 0 .. Groups - 1 : GroupAt(g)'
             /\ \A k \in curr + 1 .. Len(text) :
                   /\ k > curr + Len(s) => text'[k] = Padding
                   /\ \A j \in 1 .. Len(s) : k = curr + j => text'[k] = s[j]
  <2>1. Len(text') = Len(text)
    BY <1>0, <1>4, StoredFacts
  <2>2. ASSUME NEW g \in 0 .. Groups - 1 PROVE GroupAt(g)'
    <3>1. g \in Nat /\ 4 * g + 4 <= curr
      BY <1>0, <1>2
    <3>2. GroupAt(g)
      BY <1>2
    <3> QED
      BY <1>0, <1>1, <1>4, <3>1, <3>2, GroupStays
  <2>3. ASSUME NEW k \in curr + 1 .. Len(text)
        PROVE  /\ k > curr + Len(s) => text'[k] = Padding
               /\ \A j \in 1 .. Len(s) : k = curr + j => text'[k] = s[j]
    <3>1. k \in 1 .. Len(text)
      BY <1>0
    <3>2. /\ k > curr + Len(s) => Stored(text, s)[k] = text[k]
          /\ \A j \in 1 .. Len(s) : k = curr + j => Stored(text, s)[k] = s[j]
      BY <1>0, <1>4, <3>1, StoredAt
    <3> QED
      BY <1>2, <1>4, <3>2
  <2> QED
    BY <2>1, <2>2, <2>3
<1>5. 0 \in Byte /\ (0 % 16) * 4 + 0 \div 64 = 0 /\ 0 % 64 = 0
  BY DEF Byte
<1>6. TextMade'
  <2>0. Groups' = Groups /\ Rest' = Rest
    BY <1>1 DEF Groups, Rest
  <2>1. CASE Rest = 0
    <3>1. text' = Stored(text, <<>>) /\ <<>> \in Seq(Char) /\ Len(<<>>) = 0
      BY <1>1, <2>1
    <3>2. curr + 0 <= Len(text)
      BY <1>0, <1>2, <1>3, <2>1
    <3>3. Len(text') = Len(text) /\ \A g \in 0 .. Groups - 1 : GroupAt(g)'
      BY <1>4, <3>1, <3>2
    <3>4. RestAt(Groups)'
      BY <2>0, <2>1 DEF RestAt
    <3> QED
      BY <1>2, <2>0, <3>3, <3>4 DEF TextMade, TextSize
  <2>2. CASE Rest = 1
    <3> DEFINE s == <<c1, e2>>
    <3>1. t1 \in Byte
      BY <1>0, <1>2, <2>2 DEF TypeOK
    <3>2. c1 \in Char /\ e2 \in Char
      BY <3>1, EncodedType
    <3>3. Grouped(c1, e2, 0, 0, t1, 0, 0)
      <4> HIDE DEF t1
      <4>1. (t1 % 4) * 16 + 0 \div 16 = (t1 % 4) * 16
        BY <3>1 DEF Byte
      <4>2. Grouped(c1, encode_table_1[(t1 % 4) * 16 + 0 \div 16],
                    encode_table_1[(0 % 16) * 4 + 0 \div 64], encode_table_1[0], t1, 0, 0)
        BY <1>5, <3>1, EncodedGrouped
      <4> QED
        BY <1>5, <4>1, <4>2 DEF Grouped
    <3> HIDE DEF c1, e2
    <3>4. s \in Seq(Char) /\ Len(s) = 2 /\ s[1] = c1 /\ s[2] = e2
      BY <3>2
    <3>5. text' = Stored(text, s)
      BY <1>1, <2>2
    <3> HIDE DEF s
    <3>6. curr + Len(s) <= Len(text)
      BY <1>0, <1>2, <1>3, <2>2, <3>4
    <3>7. /\ Len(text') = Len(text) /\ \A g \in 0 .. Groups - 1 : GroupAt(g)'
          /\ \A k \in curr + 1 .. Len(text) :
                /\ k > curr + Len(s) => text'[k] = Padding
                /\ \A j \in 1 .. Len(s) : k = curr + j => text'[k] = s[j]
      BY <1>4, <3>4, <3>5, <3>6
    <3>8. /\ text'[4 * Groups + 1] = c1 /\ text'[4 * Groups + 2] = e2
          /\ text'[4 * Groups + 3] = Padding /\ text'[4 * Groups + 4] = Padding
      <4>1. /\ curr + 1 \in curr + 1 .. Len(text) /\ curr + 2 \in curr + 1 .. Len(text)
            /\ curr + 3 \in curr + 1 .. Len(text) /\ curr + 4 \in curr + 1 .. Len(text)
            /\ 1 \in 1 .. Len(s) /\ 2 \in 1 .. Len(s)
            /\ curr + 3 > curr + Len(s) /\ curr + 4 > curr + Len(s)
        BY <1>0, <1>2, <1>3, <2>2, <3>4
      <4>2. /\ text'[curr + 1] = s[1] /\ text'[curr + 2] = s[2]
            /\ text'[curr + 3] = Padding /\ text'[curr + 4] = Padding
        BY <3>7, <4>1
      <4> QED
        BY <1>2, <3>4, <4>2
    <3>9. RestAt(Groups)'
      <4>1. Grouped(text'[4 * Groups + 1], text'[4 * Groups + 2], 0, 0,
                    data'[3 * Groups + 1], 0, 0)
        BY <1>1, <1>2, <3>3, <3>8
      <4> QED
        BY <2>0, <2>2, <3>8, <4>1 DEF RestAt
    <3> QED
      BY <1>2, <2>0, <3>7, <3>9 DEF TextMade, TextSize
  <2>3. CASE Rest = 2
    <3> DEFINE s == <<c1, c2, c3>>
    <3>1. t1 \in Byte /\ t2 \in Byte
      BY <1>0, <1>2, <2>3 DEF TypeOK
    <3>2. c1 \in Char /\ c2 \in Char /\ c3 \in Char
      BY <3>1, EncodedType
    <3>3. Grouped(c1, c2, c3, 0, t1, t2, 0)
      <4> HIDE DEF t1, t2
      <4>1. (t2 % 16) * 4 + 0 \div 64 = (t2 % 16) * 4
        BY <3>1 DEF Byte
      <4>2. Grouped(c1, c2, encode_table_1[(t2 % 16) * 4 + 0 \div 64],
                    encode_table_1[0], t1, t2, 0)
        BY <1>5, <3>1, EncodedGrouped
      <4> QED
        BY <1>5, <4>1, <4>2 DEF Grouped
    <3> HIDE DEF c1, c2, c3
    <3>4. s \in Seq(Char) /\ Len(s) = 3 /\ s[1] = c1 /\ s[2] = c2 /\ s[3] = c3
      BY <3>2
    <3>5. text' = Stored(text, s)
      BY <1>1, <2>3
    <3> HIDE DEF s
    <3>6. curr + Len(s) <= Len(text)
      BY <1>0, <1>2, <1>3, <2>3, <3>4
    <3>7. /\ Len(text') = Len(text) /\ \A g \in 0 .. Groups - 1 : GroupAt(g)'
          /\ \A k \in curr + 1 .. Len(text) :
                /\ k > curr + Len(s) => text'[k] = Padding
                /\ \A j \in 1 .. Len(s) : k = curr + j => text'[k] = s[j]
      BY <1>4, <3>4, <3>5, <3>6
    <3>8. /\ text'[4 * Groups + 1] = c1 /\ text'[4 * Groups + 2] = c2
          /\ text'[4 * Groups + 3] = c3 /\ text'[4 * Groups + 4] = Padding
      <4>1. /\ curr + 1 \in curr + 1 .. Len(text) /\ curr + 2 \in curr + 1 .. Len(text)
            /\ curr + 3 \in curr + 1 .. Len(text) /\ curr + 4 \in curr + 1 .. Len(text)
            /\ 1 \in 1 .. Len(s) /\ 2 \in 1 .. Len(s) /\ 3 \in 1 .. Len(s)
            /\ curr + 4 > curr + Len(s)
        BY <1>0, <1>2, <1>3, <2>3, <3>4
      <4>2. /\ text'[curr + 1] = s[1] /\ text'[curr + 2] = s[2]
            /\ text'[curr + 3] = s[3] /\ text'[curr + 4] = Padding
        BY <3>7, <4>1
      <4> QED
        BY <1>2, <3>4, <4>2
    <3>9. RestAt(Groups)'
      <4>1. Grouped(text'[4 * Groups + 1], text'[4 * Groups + 2], text'[4 * Groups + 3], 0,
                    data'[3 * Groups + 1], data'[3 * Groups + 2], 0)
        BY <1>1, <1>2, <3>3, <3>8
      <4> QED
        BY <2>0, <2>3, <3>8, <4>1 DEF RestAt
    <3> QED
      BY <1>2, <2>0, <3>7, <3>9 DEF TextMade, TextSize
  <2> QED
    BY <1>0, <2>1, <2>2, <2>3
<1> QED
  BY <1>1, <1>6 DEF RoundInv

-----------------------------------------------------------------------------
(* The steps of decode_into, with a text that to_base64 made.              *)

\* The sizes that decode_into computes are those of the data.
LEMMA RoundTurns ==
  ASSUME CodecInv, CodecInv', RoundInv, from_base64, origin = "to_base64"
  PROVE  RoundInv'
<1>0. /\ TypeOK /\ Len(data) \in Nat /\ Groups \in Nat /\ Rest \in {0, 1, 2}
      /\ Len(data) = 3 * Groups + Rest /\ Len(text) \in Nat /\ text \in Seq(Char)
  BY DataSize DEF CodecInv, TypeOK
<1> DEFINE size == (Len(text) * 3) \div 4 - numPadding
           groups == Len(text) \div 4 - (IF numPadding # 0 THEN 1 ELSE 0)
<1>1. /\ pc = "from_base64" /\ text # <<>>
      /\ decoded' = Filled(size, 46) /\ i' = groups /\ bytes' = 0 /\ curr' = 0
      /\ pc' = "decode" /\ UNCHANGED <<endian, origin, data, text>>
  BY DEF from_base64, Decode
<1>2. TextMade /\ Len(text) = 4 * Groups + (IF Rest # 0 THEN 4 ELSE 0)
  BY <1>1 DEF RoundInv, TextMade, TextSize
<1>3. Len(text) # 0
  BY <1>0, <1>1, EmptySeq
<1>4. numPadding = IF Rest = 0 THEN 0 ELSE 3 - Rest
  BY <1>0, <1>2, <1>3, MadePadding
<1>5. size = Len(data) /\ groups = Groups
  <2> DEFINE m == Groups + (IF Rest # 0 THEN 1 ELSE 0)
  <2>1. m \in Nat /\ Len(text) = 4 * m
    BY <1>0, <1>2
  <2>2. (Len(text) * 3) \div 4 = 3 * m /\ Len(text) \div 4 = m
    <3> HIDE DEF m
    <3> QED
      BY <2>1
  <2>3. 3 * m - numPadding = Len(data) /\ m - (IF numPadding # 0 THEN 1 ELSE 0) = Groups
    BY <1>0, <1>4
  <2> QED
    BY <2>2, <2>3
<1> HIDE DEF size, groups
<1>6. Len(decoded') = Len(data)
  <2>1. 46 \in Byte
    BY DEF Byte
  <2> QED
    BY <1>0, <1>1, <1>5, <2>1, FilledFacts
<1>7. TextMade' /\ Groups' = Groups
  BY <1>1, <1>2 DEF TextMade, TextSize, GroupAt, RestAt, Groups, Rest
<1>8. bytes' = 4 * (Groups' - i') /\ curr' = 3 * (Groups' - i')
  BY <1>0, <1>1, <1>5, <1>7
<1>9. ASSUME NEW k \in 1 .. curr' PROVE FALSE
  BY <1>1, <1>9
<1> QED
  BY <1>1, <1>6, <1>7, <1>8, <1>9 DEF RoundInv

\* Where the pointers of decode_into are.
LEMMA DecodeAt ==
  ASSUME CodecInv, RoundInv, pc = "decode", origin = "to_base64"
  PROVE  /\ Groups - i \in 0 .. Groups
         /\ bytes = 4 * (Groups - i) /\ curr = 3 * (Groups - i)
         /\ TextMade /\ Len(text) = 4 * Groups + (IF Rest # 0 THEN 4 ELSE 0)
         /\ Len(decoded) = Len(data) /\ \A k \in 1 .. curr : decoded[k] = data[k]
         /\ numPadding = IF Rest = 0 THEN 0 ELSE 3 - Rest
<1>0. /\ TypeOK /\ Groups \in Nat /\ Rest \in {0, 1, 2}
      /\ i \in Nat /\ bytes \in Nat /\ Len(text) \in Nat
  BY DataSize DEF CodecInv, TypeOK
<1>1. /\ bytes = 4 * (Groups - i) /\ curr = 3 * (Groups - i)
      /\ TextMade /\ TextSize
      /\ Len(decoded) = Len(data) /\ \A k \in 1 .. curr : decoded[k] = data[k]
  BY DEF RoundInv, TextMade
<1>2. Len(text) = 4 * Groups + (IF Rest # 0 THEN 4 ELSE 0)
  BY <1>1 DEF TextSize
<1>3. Groups - i \in 0 .. Groups
  BY <1>0, <1>1
<1>4. numPadding = IF Rest = 0 THEN 0 ELSE 3 - Rest
  <2>1. CASE Len(text) = 0
    <3>1. bytes + 4 * i + (IF numPadding # 0 THEN 4 ELSE 0) = Len(text)
      BY DEF CodecInv, DecodeInv
    <3>2. numPadding = 0 /\ Rest = 0
      BY <1>0, <1>2, <2>1, <3>1
    <3> QED
      BY <3>2
  <2>2. CASE Len(text) # 0
    BY <1>0, <1>1, <2>2, MadePadding
  <2> QED
    BY <2>1, <2>2
<1> QED
  BY <1>1, <1>2, <1>3, <1>4

\* A turn of the loop takes back a group.
LEMMA RoundDecodes ==
  ASSUME CodecInv, CodecInv', RoundInv, DecodeGroup, origin = "to_base64"
  PROVE  RoundInv'
<1>0. /\ TypeOK /\ Len(data) \in Nat /\ Groups \in Nat /\ Rest \in {0, 1, 2}
      /\ Len(data) = 3 * Groups + Rest /\ i \in Nat
  BY DataSize DEF CodecInv, TypeOK
<1> DEFINE g0 == Groups - i
<1>1. /\ pc = "decode" /\ i > 0 /\ Decoded(4) /\ i' = i - 1
      /\ UNCHANGED <<endian, pc, origin, data, text>>
  BY DEF DecodeGroup
<1>2. /\ g0 \in 0 .. Groups - 1 /\ bytes = 4 * g0 /\ curr = 3 * g0
      /\ TextMade /\ Len(text) = 4 * Groups + (IF Rest # 0 THEN 4 ELSE 0)
      /\ Len(decoded) = Len(data) /\ \A k \in 1 .. curr : decoded[k] = data[k]
  <2>1. /\ g0 \in 0 .. Groups /\ bytes = 4 * g0 /\ curr = 3 * g0
        /\ TextMade /\ Len(text) = 4 * Groups + (IF Rest # 0 THEN 4 ELSE 0)
        /\ Len(decoded) = Len(data) /\ \A k \in 1 .. curr : decoded[k] = data[k]
    BY <1>1, DecodeAt
  <2>2. g0 \in 0 .. Groups - 1
    BY <1>0, <1>1, <2>1
  <2> QED
    BY <2>1, <2>2
<1> HIDE DEF g0
<1>3. 3 * g0 + 3 <= Len(data) /\ bytes + 4 <= Len(text) /\ curr + 4 - 1 <= Len(decoded)
  BY <1>0, <1>2
<1>4. GroupAt(g0)
  BY <1>2 DEF TextMade
<1>5. \A j \in 1 .. 3 : tempBytes(Word(4))[j] = data[3 * g0 + j]
  BY <1>0, <1>2, <1>3, <1>4, GroupWord
<1>6. \A j \in 1 .. 4 - 1 : tempBytes(Word(4))[j] = data[curr + j]
  <2>1. 4 - 1 = 3
    OBVIOUS
  <2> QED
    BY <1>2, <1>5, <2>1
<1>7. \A k \in 1 .. curr' : decoded'[k] = data[k]
  BY <1>0, <1>1, <1>2, <1>3, <1>6, DecodedData
<1>8. /\ Len(decoded') = Len(decoded) /\ bytes' = bytes + 4 /\ curr' = curr + 4 - 1
  BY <1>0, <1>1, <1>3, DecodedFacts
<1>9. TextMade' /\ Groups' = Groups
  BY <1>1, <1>2 DEF TextMade, TextSize, GroupAt, RestAt, Groups, Rest
<1>10. bytes' = 4 * (Groups' - i') /\ curr' = 3 * (Groups' - i')
  BY <1>0, <1>1, <1>2, <1>8, <1>9 DEF g0
<1> QED
  BY <1>1, <1>2, <1>7, <1>8, <1>9, <1>10 DEF RoundInv

\* A buffer that agrees with the data to its end is the data.
LEMMA AllDecoded ==
  ASSUME TypeOK, decoded' \in Seq(Byte), Len(decoded') = Len(data), curr' = Len(data),
         \A k \in 1 .. curr' : decoded'[k] = data[k]
  PROVE  decoded' = data
BY SeqEqual DEF TypeOK

\* The last group completes the data.
LEMMA RoundReturns ==
  ASSUME CodecInv, CodecInv', RoundInv, DecodeTail, origin = "to_base64"
  PROVE  RoundInv'
<1>0. /\ TypeOK /\ Len(data) \in Nat /\ Groups \in Nat /\ Rest \in {0, 1, 2}
      /\ Len(data) = 3 * Groups + Rest
  BY DataSize DEF CodecInv, TypeOK
<1>1. pc = "decode" /\ i = 0 /\ pc' = "returned" /\ UNCHANGED <<endian, origin, data, text>>
  BY DEF DecodeTail, Returns
<1>2. /\ bytes = 4 * Groups /\ curr = 3 * Groups
      /\ TextMade /\ Len(text) = 4 * Groups + (IF Rest # 0 THEN 4 ELSE 0)
      /\ Len(decoded) = Len(data) /\ \A k \in 1 .. curr : decoded[k] = data[k]
      /\ numPadding = IF Rest = 0 THEN 0 ELSE 3 - Rest
  <2>1. Groups - i = Groups
    BY <1>0, <1>1
  <2> QED
    BY <1>1, <2>1, DecodeAt
<1>3. decoded' = data
  <2>1. CASE Rest = 0
    <3>1. decoded' = decoded /\ curr' = curr
      BY <1>2, <2>1 DEF DecodeTail
    <3>2. decoded' \in Seq(Byte) /\ curr' = Len(data)
      BY <1>0, <1>2, <2>1, <3>1 DEF TypeOK
    <3> QED
      BY <1>0, <1>2, <3>1, <3>2, AllDecoded
  <2>2. CASE Rest # 0
    <3>1. 4 - numPadding = Rest + 1 /\ numPadding # 0 /\ Rest + 1 \in {2, 3, 4}
      BY <1>0, <1>2, <2>2
    <3>2. Decoded(Rest + 1)
      BY <3>1 DEF DecodeTail
    <3>3. bytes + (Rest + 1) <= Len(text) /\ curr + (Rest + 1) - 1 <= Len(decoded)
      BY <1>0, <1>2, <2>2
    <3>4. \A j \in 1 .. Rest : tempBytes(Word(Rest + 1))[j] = data[3 * Groups + j]
      BY <1>0, <1>2, <2>2, RestWord DEF TextMade
    <3>5. \A j \in 1 .. (Rest + 1) - 1 : tempBytes(Word(Rest + 1))[j] = data[curr + j]
      <4>1. (Rest + 1) - 1 = Rest
        BY <1>0
      <4> QED
        BY <1>2, <3>4, <4>1
    <3>6. \A k \in 1 .. curr' : decoded'[k] = data[k]
      BY <1>0, <1>2, <3>1, <3>2, <3>3, <3>5, DecodedData
    <3>7. /\ decoded' \in Seq(Byte) /\ Len(decoded') = Len(decoded)
          /\ curr' = curr + (Rest + 1) - 1
      BY <1>0, <3>1, <3>2, <3>3, DecodedFacts
    <3>8. curr' = Len(data)
      BY <1>0, <1>2, <3>7
    <3> QED
      BY <1>0, <1>2, <3>6, <3>7, <3>8, AllDecoded
  <2> QED
    BY <2>1, <2>2
<1> QED
  BY <1>1, <1>3 DEF RoundInv

\* None of its groups is invalid, and neither its size nor its padding is wrong.
LEMMA NeverThrows ==
  ASSUME CodecInv, RoundInv, origin = "to_base64"
  PROVE  ~ (WrongSize \/ WrongPadding \/ InvalidCharacter)
<1>0. /\ TypeOK /\ Len(data) \in Nat /\ Groups \in Nat /\ Rest \in {0, 1, 2}
      /\ Len(data) = 3 * Groups + Rest /\ i \in Nat /\ Len(text) \in Nat /\ text \in Seq(Char)
  BY DataSize DEF CodecInv, TypeOK
<1>1. ASSUME pc = "from_base64" PROVE TextMade /\ Len(text) % 4 = 0
  <2>1. TextMade /\ Len(text) = 4 * Groups + (IF Rest # 0 THEN 4 ELSE 0)
    BY <1>1 DEF RoundInv, TextMade, TextSize
  <2> DEFINE m == Groups + (IF Rest # 0 THEN 1 ELSE 0)
  <2>2. m \in Nat /\ Len(text) = 4 * m
    BY <1>0, <2>1
  <2> HIDE DEF m
  <2>3. Len(text) % 4 = 0
    BY <2>2
  <2> QED
    BY <2>1, <2>3
<1>2. ASSUME WrongSize PROVE FALSE
  BY <1>1, <1>2 DEF WrongSize
<1>3. ASSUME WrongPadding PROVE FALSE
  <2>1. pc = "from_base64" /\ text # <<>> /\ numPadding > 2
    BY <1>3 DEF WrongPadding
  <2>2. Len(text) # 0
    BY <1>0, <2>1, EmptySeq
  <2>3. numPadding = IF Rest = 0 THEN 0 ELSE 3 - Rest
    BY <1>0, <1>1, <2>1, <2>2, MadePadding
  <2> QED
    BY <1>0, <2>1, <2>3
<1>4. ASSUME InvalidCharacter PROVE FALSE
  <2>1. /\ pc = "decode"
        /\ \/ i > 0 /\ Invalid(Word(4))
           \/ i = 0 /\ numPadding # 0 /\ Invalid(Word(4 - numPadding))
    BY <1>4 DEF InvalidCharacter
  <2>2. /\ Groups - i \in 0 .. Groups /\ bytes = 4 * (Groups - i) /\ TextMade
        /\ numPadding = IF Rest = 0 THEN 0 ELSE 3 - Rest
    BY <2>1, DecodeAt
  <2>3. CASE i > 0 /\ Invalid(Word(4))
    <3> DEFINE g0 == Groups - i
    <3>1. g0 \in 0 .. Groups - 1 /\ bytes = 4 * g0 /\ g0 \in Nat
      BY <1>0, <2>2, <2>3
    <3> HIDE DEF g0
    <3>2. GroupAt(g0) /\ 3 * g0 + 3 <= Len(data)
      BY <1>0, <2>2, <3>1 DEF TextMade
    <3> QED
      BY <1>0, <2>3, <3>1, <3>2, GroupWord
  <2>4. CASE i = 0 /\ numPadding # 0 /\ Invalid(Word(4 - numPadding))
    <3>1. Rest # 0 /\ 4 - numPadding = Rest + 1 /\ bytes = 4 * Groups
      BY <1>0, <2>2, <2>4
    <3> QED
      BY <1>0, <2>2, <2>4, <3>1, RestWord DEF TextMade
  <2> QED
    BY <2>1, <2>3, <2>4
<1> QED
  BY <1>2, <1>3, <1>4

-----------------------------------------------------------------------------
(* The theorem.                                                            *)

\* Every step keeps the invariant.
LEMMA NextRound == CodecInv /\ CodecInv' /\ RoundInv /\ [Next]_vars => RoundInv'
<1> SUFFICES ASSUME CodecInv, CodecInv', RoundInv, [Next]_vars PROVE RoundInv'
  OBVIOUS
<1>1. CASE to_base64
  BY <1>1, RoundBegins
<1>2. CASE EncodeGroup
  BY <1>2, RoundEncodes
<1>3. CASE EncodeTail
  BY <1>3, RoundEncodesRest
<1>4. CASE OtherText
  BY <1>4 DEF OtherText, RoundInv
<1>5. CASE DecodeEmpty
  <2>1. /\ pc = "from_base64" /\ pc' = "returned" /\ text = <<>> /\ decoded' = <<>>
        /\ UNCHANGED <<origin, data>>
    BY <1>5 DEF DecodeEmpty, Returns
  <2>2. ASSUME origin = "to_base64" PROVE data = <<>>
    <3>1. Len(text) = 4 * Groups + (IF Rest # 0 THEN 4 ELSE 0) /\ Len(text) = 0
      BY <2>1, <2>2 DEF RoundInv, TextMade, TextSize
    <3>2. /\ Groups \in Nat /\ Rest \in {0, 1, 2} /\ Len(data) = 3 * Groups + Rest
          /\ data \in Seq(Byte)
      BY DataSize DEF CodecInv, TypeOK
    <3>3. Len(data) = 0
      BY <3>1, <3>2
    <3> QED
      BY <3>2, <3>3, EmptySeq
  <2> QED
    BY <2>1, <2>2 DEF RoundInv
<1>6. CASE WrongSize \/ WrongPadding \/ InvalidCharacter
  <2>1. pc' = "thrown" /\ origin' = origin
    BY <1>6 DEF WrongSize, WrongPadding, InvalidCharacter, Throws
  <2>2. origin # "to_base64"
    BY <1>6, NeverThrows
  <2> QED
    BY <2>1, <2>2 DEF RoundInv
<1>7. CASE origin # "to_base64" /\ (from_base64 \/ DecodeGroup \/ DecodeTail)
  <2>1. origin' # "to_base64" /\ pc' \in {"decode", "returned"}
    BY <1>7 DEF from_base64, Decode, DecodeGroup, DecodeTail, Returns
  <2> QED
    BY <2>1 DEF RoundInv
<1>8. CASE origin = "to_base64" /\ (from_base64 \/ DecodeGroup \/ DecodeTail)
  BY <1>8, RoundTurns, RoundDecodes, RoundReturns
<1>9. CASE UNCHANGED vars
  <2>1. Groups' = Groups /\ Rest' = Rest
    BY <1>9 DEF vars, Groups, Rest
  <2>2. TextSize' = TextSize
    BY <1>9, <2>1 DEF vars, TextSize
  <2>3. RestAt(Groups)' = RestAt(Groups)
    BY <1>9, <2>1 DEF vars, RestAt
  <2>4. \A g : GroupAt(g)' = GroupAt(g)
    BY <1>9 DEF vars, GroupAt
  <2>5. TextMade' = TextMade
    BY <2>1, <2>2, <2>3, <2>4 DEF TextMade
  <2> QED
    BY <1>9, <2>1, <2>2, <2>4, <2>5 DEF vars, RoundInv
<1> QED
  BY <1>1, <1>2, <1>3, <1>4, <1>5, <1>6, <1>7, <1>8, <1>9 DEF Next

\* from_base64 returns every byte string as to_base64 was given it, whatever its
\* length and its bytes, and never throws: with encode_into's tables, the padding
\* and decode_into's two sets of tables.
THEOREM RoundTripAlways == Spec => []RoundTrip
<1>1. Init => RoundInv
  BY DEF Init, RoundInv
<1>2. RoundInv => RoundTrip
  BY DEF RoundInv, RoundTrip
<1> QED
  BY <1>1, <1>2, NextRound, CodecAlways, PTL DEF Spec
-----------------------------------------------------------------------------
(* The bits.                                                               *)

Bit == 0 .. 1

\* A byte is made of its bits,
LEMMA BitsOfByte ==
  ASSUME NEW t \in Byte
  PROVE  \E b1, b2, b3, b4, b5, b6, b7, b8 \in Bit :
            /\ t = 128 * b1 + 64 * b2 + 32 * b3 + 16 * b4 + 8 * b5 + 4 * b6 + 2 * b7 + b8
            /\ ByteBits(t) = <<b1, b2, b3, b4, b5, b6, b7, b8>>
<1> DEFINE b1 == t \div 128
           b2 == (t \div 64) % 2
           b3 == (t \div 32) % 2
           b4 == (t \div 16) % 2
           b5 == (t \div 8) % 2
           b6 == (t \div 4) % 2
           b7 == (t \div 2) % 2
           b8 == t % 2
<1>1. t \in 0 .. 255
  BY DEF Byte
<1>2. b1 \in Bit /\ b2 \in Bit /\ b3 \in Bit /\ b4 \in Bit
  BY <1>1 DEF Bit
<1>3. b5 \in Bit /\ b6 \in Bit /\ b7 \in Bit /\ b8 \in Bit
  BY <1>1 DEF Bit
<1>4. /\ t = 2 * (t \div 2) + b8
      /\ t \div 2 = 2 * (t \div 4) + b7
      /\ t \div 4 = 2 * (t \div 8) + b6
      /\ t \div 8 = 2 * (t \div 16) + b5
  BY <1>1
<1>5. /\ t \div 16 = 2 * (t \div 32) + b4
      /\ t \div 32 = 2 * (t \div 64) + b3
      /\ t \div 64 = 2 * (t \div 128) + b2
  BY <1>1
<1>6. t = 128 * b1 + 64 * b2 + 32 * b3 + 16 * b4 + 8 * b5 + 4 * b6 + 2 * b7 + b8
  BY <1>1, <1>4, <1>5
<1>7. ByteBits(t) = <<b1, b2, b3, b4, b5, b6, b7, b8>>
  BY DEF ByteBits
<1> HIDE DEF b1, b2, b3, b4, b5, b6, b7, b8
<1> QED
  BY <1>2, <1>3, <1>6, <1>7

\* and a character of six bits
CharOf(b1, b2, b3, b4, b5, b6) == 32 * b1 + 16 * b2 + 8 * b3 + 4 * b4 + 2 * b5 + b6
SixBits(b1, b2, b3, b4, b5, b6) ==
    /\ b1 \in Bit /\ b2 \in Bit /\ b3 \in Bit
    /\ b4 \in Bit /\ b5 \in Bit /\ b6 \in Bit

\* has them.
LEMMA CharOfBits ==
  ASSUME NEW b1, NEW b2, NEW b3, NEW b4, NEW b5, NEW b6,
         SixBits(b1, b2, b3, b4, b5, b6)
  PROVE  CharBits(CharOf(b1, b2, b3, b4, b5, b6)) = <<b1, b2, b3, b4, b5, b6>>
<1> DEFINE c == CharOf(b1, b2, b3, b4, b5, b6)
<1>0. c = 32 * b1 + 16 * b2 + 8 * b3 + 4 * b4 + 2 * b5 + b6
  BY DEF CharOf
<1> HIDE DEF c
<1>1. /\ c \div 2 = 16 * b1 + 8 * b2 + 4 * b3 + 2 * b4 + b5 /\ c % 2 = b6
      /\ c \div 4 = 8 * b1 + 4 * b2 + 2 * b3 + b4
      /\ c \div 8 = 4 * b1 + 2 * b2 + b3
  BY <1>0 DEF SixBits, Bit
<1>2. /\ c \div 16 = 2 * b1 + b2 /\ c \div 32 = b1
  BY <1>0 DEF SixBits, Bit
<1>3. /\ (16 * b1 + 8 * b2 + 4 * b3 + 2 * b4 + b5) % 2 = b5
      /\ (8 * b1 + 4 * b2 + 2 * b3 + b4) % 2 = b4
      /\ (4 * b1 + 2 * b2 + b3) % 2 = b3
      /\ (2 * b1 + b2) % 2 = b2
  BY DEF SixBits, Bit
<1>4. CharBits(c) = <<b1, b2, b3, b4, b5, b6>>
  BY <1>1, <1>2, <1>3 DEF CharBits
<1> QED
  BY <1>4 DEF c

\* The bits of the characters of a group are those of its bytes, in their order.
LEMMA SameBits ==
  ASSUME NEW t1 \in Byte, NEW t2 \in Byte, NEW t3 \in Byte,
         NEW c1, NEW c2, NEW c3, NEW c4, Grouped(c1, c2, c3, c4, t1, t2, t3)
  PROVE  /\ CharBits(c1) = <<ByteBits(t1)[1], ByteBits(t1)[2], ByteBits(t1)[3],
                             ByteBits(t1)[4], ByteBits(t1)[5], ByteBits(t1)[6]>>
         /\ CharBits(c2) = <<ByteBits(t1)[7], ByteBits(t1)[8], ByteBits(t2)[1],
                             ByteBits(t2)[2], ByteBits(t2)[3], ByteBits(t2)[4]>>
         /\ CharBits(c3) = <<ByteBits(t2)[5], ByteBits(t2)[6], ByteBits(t2)[7],
                             ByteBits(t2)[8], ByteBits(t3)[1], ByteBits(t3)[2]>>
         /\ CharBits(c4) = <<ByteBits(t3)[3], ByteBits(t3)[4], ByteBits(t3)[5],
                             ByteBits(t3)[6], ByteBits(t3)[7], ByteBits(t3)[8]>>
<1>1. PICK p1, p2, p3, p4, p5, p6, p7, p8 \in Bit :
         /\ t1 = 128 * p1 + 64 * p2 + 32 * p3 + 16 * p4 + 8 * p5 + 4 * p6 + 2 * p7 + p8
         /\ ByteBits(t1) = <<p1, p2, p3, p4, p5, p6, p7, p8>>
  BY BitsOfByte
<1>2. PICK q1, q2, q3, q4, q5, q6, q7, q8 \in Bit :
         /\ t2 = 128 * q1 + 64 * q2 + 32 * q3 + 16 * q4 + 8 * q5 + 4 * q6 + 2 * q7 + q8
         /\ ByteBits(t2) = <<q1, q2, q3, q4, q5, q6, q7, q8>>
  BY BitsOfByte
<1>3. PICK r1, r2, r3, r4, r5, r6, r7, r8 \in Bit :
         /\ t3 = 128 * r1 + 64 * r2 + 32 * r3 + 16 * r4 + 8 * r5 + 4 * r6 + 2 * r7 + r8
         /\ ByteBits(t3) = <<r1, r2, r3, r4, r5, r6, r7, r8>>
  BY BitsOfByte
<1>4. /\ t1 \div 4 = 32 * p1 + 16 * p2 + 8 * p3 + 4 * p4 + 2 * p5 + p6
      /\ t1 % 4 = 2 * p7 + p8
  BY <1>1 DEF Bit
<1>5. /\ t2 \div 16 = 8 * q1 + 4 * q2 + 2 * q3 + q4
      /\ t2 % 16 = 8 * q5 + 4 * q6 + 2 * q7 + q8
  BY <1>2 DEF Bit
<1>6. /\ t3 \div 64 = 2 * r1 + r2
      /\ t3 % 64 = 32 * r3 + 16 * r4 + 8 * r5 + 4 * r6 + 2 * r7 + r8
  BY <1>3 DEF Bit
<1>7. /\ c1 = CharOf(p1, p2, p3, p4, p5, p6)
      /\ c2 = CharOf(p7, p8, q1, q2, q3, q4)
  BY <1>4, <1>5 DEF Grouped, Bit, CharOf
<1>8. /\ c3 = CharOf(q5, q6, q7, q8, r1, r2)
      /\ c4 = CharOf(r3, r4, r5, r6, r7, r8)
  BY <1>5, <1>6 DEF Grouped, Bit, CharOf
<1>8a. /\ SixBits(p1, p2, p3, p4, p5, p6) /\ SixBits(p7, p8, q1, q2, q3, q4)
      /\ SixBits(q5, q6, q7, q8, r1, r2) /\ SixBits(r3, r4, r5, r6, r7, r8)
  BY DEF SixBits
<1>9. CharBits(CharOf(p1, p2, p3, p4, p5, p6)) = <<p1, p2, p3, p4, p5, p6>>
  BY <1>8a, CharOfBits, Zenon
<1>10. CharBits(CharOf(p7, p8, q1, q2, q3, q4)) = <<p7, p8, q1, q2, q3, q4>>
  BY <1>8a, CharOfBits, Zenon
<1>11. CharBits(CharOf(q5, q6, q7, q8, r1, r2)) = <<q5, q6, q7, q8, r1, r2>>
  BY <1>8a, CharOfBits, Zenon
<1>12. CharBits(CharOf(r3, r4, r5, r6, r7, r8)) = <<r3, r4, r5, r6, r7, r8>>
  BY <1>8a, CharOfBits, Zenon
<1> QED
  BY <1>1, <1>2, <1>3, <1>7, <1>8, <1>9, <1>10, <1>11, <1>12

\* Where a bit of group g is in the characters and in the bytes.
LEMMA BitPlaces ==
  ASSUME NEW g \in Nat, NEW j \in 0 .. 23
  PROVE  /\ (24 * g + j) \div 6 = 4 * g + (j \div 6) /\ (24 * g + j) % 6 = j % 6
         /\ (24 * g + j) \div 8 = 3 * g + (j \div 8) /\ (24 * g + j) % 8 = j % 8
         /\ j \div 6 \in 0 .. 3 /\ j % 6 \in 0 .. 5
         /\ j \div 8 \in 0 .. 2 /\ j % 8 \in 0 .. 7
OBVIOUS

\* A bit of a text whose characters are grouped is that of the bytes.
LEMMA GroupBit ==
  ASSUME NEW t1 \in Byte, NEW t2 \in Byte, NEW t3 \in Byte,
         NEW c1, NEW c2, NEW c3, NEW c4, Grouped(c1, c2, c3, c4, t1, t2, t3),
         NEW j \in 0 .. 23
  PROVE  CharBits(<<c1, c2, c3, c4>>[(j \div 6) + 1])[(j % 6) + 1]
            = ByteBits(<<t1, t2, t3>>[(j \div 8) + 1])[(j % 8) + 1]
<1> DEFINE C(q) == CharBits(<<c1, c2, c3, c4>>[q])
           B(p) == ByteBits(<<t1, t2, t3>>[p])
<1>1. /\ C(1) = <<B(1)[1], B(1)[2], B(1)[3], B(1)[4], B(1)[5], B(1)[6]>>
      /\ C(2) = <<B(1)[7], B(1)[8], B(2)[1], B(2)[2], B(2)[3], B(2)[4]>>
      /\ C(3) = <<B(2)[5], B(2)[6], B(2)[7], B(2)[8], B(3)[1], B(3)[2]>>
      /\ C(4) = <<B(3)[3], B(3)[4], B(3)[5], B(3)[6], B(3)[7], B(3)[8]>>
  BY SameBits
<1> HIDE DEF C, B
<1>2. CASE j \in 0 .. 5
  <2>1. j \div 6 = 0 /\ j % 6 = j /\ j \div 8 = 0 /\ j % 8 = j
    BY <1>2
  <2>2. C(1)[j + 1] = B(1)[j + 1]
    BY <1>1, <1>2
  <2> QED
    BY <2>1, <2>2 DEF C, B
<1>3. CASE j \in {6, 7}
  <2>1. j \div 6 = 1 /\ j % 6 = j - 6 /\ j \div 8 = 0 /\ j % 8 = j
    BY <1>3
  <2>2. C(2)[(j - 6) + 1] = B(1)[j + 1]
    BY <1>1, <1>3
  <2> QED
    BY <2>1, <2>2 DEF C, B
<1>4. CASE j \in 8 .. 11
  <2>1. j \div 6 = 1 /\ j % 6 = j - 6 /\ j \div 8 = 1 /\ j % 8 = j - 8
    BY <1>4
  <2>2. C(2)[(j - 6) + 1] = B(2)[(j - 8) + 1]
    BY <1>1, <1>4
  <2> QED
    BY <2>1, <2>2 DEF C, B
<1>5. CASE j \in 12 .. 15
  <2>1. j \div 6 = 2 /\ j % 6 = j - 12 /\ j \div 8 = 1 /\ j % 8 = j - 8
    BY <1>5
  <2>2. C(3)[(j - 12) + 1] = B(2)[(j - 8) + 1]
    BY <1>1, <1>5
  <2> QED
    BY <2>1, <2>2 DEF C, B
<1>6. CASE j \in {16, 17}
  <2>1. j \div 6 = 2 /\ j % 6 = j - 12 /\ j \div 8 = 2 /\ j % 8 = j - 16
    BY <1>6
  <2>2. C(3)[(j - 12) + 1] = B(3)[(j - 16) + 1]
    BY <1>1, <1>6
  <2> QED
    BY <2>1, <2>2 DEF C, B
<1>7. CASE j \in 18 .. 23
  <2>1. j \div 6 = 3 /\ j % 6 = j - 18 /\ j \div 8 = 2 /\ j % 8 = j - 16
    BY <1>7
  <2>2. C(4)[(j - 18) + 1] = B(3)[(j - 16) + 1]
    BY <1>1, <1>7
  <2> QED
    BY <2>1, <2>2 DEF C, B
<1>8. j \in 0 .. 5 \/ j \in {6, 7} \/ j \in 8 .. 11 \/ j \in 12 .. 15 \/ j \in {16, 17}
      \/ j \in 18 .. 23
  OBVIOUS
<1> QED
  BY <1>2, <1>3, <1>4, <1>5, <1>6, <1>7, <1>8

\* Bit j of group g of a text or of a byte string, by the character or byte it is in.
LEMMA BitsAt ==
  ASSUME NEW s, NEW g \in Nat, NEW j \in 0 .. 23
  PROVE  /\ TextBit(s, 24 * g + j) = CharBits(s[4 * g + ((j \div 6) + 1)])[(j % 6) + 1]
         /\ DataBit(s, 24 * g + j) = ByteBits(s[3 * g + ((j \div 8) + 1)])[(j % 8) + 1]
<1> DEFINE q == j \div 6
           p == j \div 8
           k == 24 * g + j
<1>1. /\ k \div 6 = 4 * g + q /\ k % 6 = j % 6 /\ k \div 8 = 3 * g + p /\ k % 8 = j % 8
      /\ q \in Int /\ p \in Int
  BY BitPlaces
<1> HIDE DEF q, p, k
<1>2. (4 * g + q) + 1 = 4 * g + (q + 1) /\ (3 * g + p) + 1 = 3 * g + (p + 1)
  BY <1>1
<1>3. /\ TextBit(s, k) = CharBits(s[4 * g + (q + 1)])[(j % 6) + 1]
      /\ DataBit(s, k) = ByteBits(s[3 * g + (p + 1)])[(j % 8) + 1]
  BY <1>1, <1>2 DEF TextBit, DataBit
<1> QED
  BY <1>3 DEF q, p, k

\* A zero byte, which fills up the last group, has no bit set.
LEMMA ZeroBits == \A x \in 0 .. 7 : ByteBits(0)[x + 1] = 0
<1>1. ByteBits(0) = <<0, 0, 0, 0, 0, 0, 0, 0>>
  BY DEF ByteBits
<1> HIDE DEF ByteBits
<1> QED
  BY <1>1

\* A number of bits is made of those of groups of 24.
LEMMA BitGroups ==
  ASSUME NEW k \in Nat
  PROVE  k \div 24 \in Nat /\ k % 24 \in 0 .. 23 /\ k = 24 * (k \div 24) + (k % 24)
OBVIOUS

\* In a text that is made each bit is that of the data, or behind them zero.
LEMMA MadeBit ==
  ASSUME TypeOK, TextMade, NEW g \in 0 .. Groups, NEW j \in 0 .. 23,
         g = Groups => Rest # 0 /\ j < 6 * (Rest + 1)
  PROVE  TextBit(text, 24 * g + j)
            = IF 24 * g + j < 8 * Len(data) THEN DataBit(data, 24 * g + j) ELSE 0
<1>0. /\ Len(data) \in Nat /\ Groups \in Nat /\ Rest \in {0, 1, 2}
      /\ Len(data) = 3 * Groups + Rest /\ 0 \in Byte
  BY DataSize DEF Byte
<1> DEFINE q == (j \div 6) + 1
           p == (j \div 8) + 1
           T == TextBit(text, 24 * g + j)
           D == DataBit(data, 24 * g + j)
           a == (j % 6) + 1
           b == (j % 8) + 1
<1>1. /\ T = CharBits(text[4 * g + q])[a] /\ D = ByteBits(data[3 * g + p])[b]
  <2>1. g \in Nat
    BY <1>0
  <2>2. \A s : /\ TextBit(s, 24 * g + j) = CharBits(s[4 * g + q])[a]
               /\ DataBit(s, 24 * g + j) = ByteBits(s[3 * g + p])[b]
    BY <2>1, BitsAt
  <2> QED
    BY <2>2
<1>2. /\ q \in 1 .. 4 /\ p \in 1 .. 3 /\ j % 8 \in 0 .. 7
      /\ \A r \in {1, 2} : j < 6 * (r + 1) => q <= r + 1
      /\ \A r \in {1, 2} : j < 8 * r <=> p <= r
  OBVIOUS
<1>3. \A t1, t2, t3 \in Byte : \A c1, c2, c3, c4 :
         Grouped(c1, c2, c3, c4, t1, t2, t3) =>
            CharBits(<<c1, c2, c3, c4>>[q])[a] = ByteBits(<<t1, t2, t3>>[p])[b]
  BY GroupBit
<1>4. ByteBits(0)[b] = 0
  BY <1>2, ZeroBits
<1> HIDE DEF q, p, T, D, a, b
<1>5. CASE g < Groups
  <2> DEFINE t1 == data[3 * g + 1]
             t2 == data[3 * g + 2]
             t3 == data[3 * g + 3]
             c1 == text[4 * g + 1]
             c2 == text[4 * g + 2]
             c3 == text[4 * g + 3]
             c4 == text[4 * g + 4]
  <2>1. t1 \in Byte /\ t2 \in Byte /\ t3 \in Byte
    BY <1>0, <1>5 DEF TypeOK
  <2>2. Grouped(c1, c2, c3, c4, t1, t2, t3)
    <3>1. g \in 0 .. Groups - 1
      BY <1>0, <1>5
    <3> QED
      BY <3>1 DEF TextMade, GroupAt
  <2>3. text[4 * g + q] = <<c1, c2, c3, c4>>[q] /\ data[3 * g + p] = <<t1, t2, t3>>[p]
    <3>1. q \in {1, 2, 3, 4} /\ p \in {1, 2, 3}
      BY <1>2
    <3> QED
      BY <3>1
  <2> HIDE DEF t1, t2, t3, c1, c2, c3, c4
  <2>4. CharBits(<<c1, c2, c3, c4>>[q])[a] = ByteBits(<<t1, t2, t3>>[p])[b]
    BY <1>3, <2>1, <2>2
  <2>5. T = D
    BY <1>1, <2>3, <2>4
  <2>6. 24 * g + j < 8 * Len(data)
    BY <1>0, <1>5
  <2> QED
    BY <2>5, <2>6 DEF T, D
<1>6. CASE g = Groups
  <2> DEFINE t1 == data[3 * g + 1]
             t2 == IF Rest = 2 THEN data[3 * g + 2] ELSE 0
             c1 == text[4 * g + 1]
             c2 == text[4 * g + 2]
             c3 == IF Rest = 2 THEN text[4 * g + 3] ELSE 0
  <2>0. Rest \in {1, 2} /\ j < 6 * (Rest + 1)
    BY <1>0, <1>6
  <2>1. t1 \in Byte /\ t2 \in Byte
    <3>1. 3 * g + 1 \in 1 .. Len(data) /\ (Rest = 2 => 3 * g + 2 \in 1 .. Len(data))
      BY <1>0, <1>6, <2>0
    <3> QED
      BY <1>0, <3>1, ElementOfSeq DEF TypeOK
  <2>2. Grouped(c1, c2, c3, 0, t1, t2, 0)
    BY <1>6, <2>0 DEF TextMade, RestAt
  <2>3. /\ text[4 * g + q] = <<c1, c2, c3, 0>>[q]
        /\ p <= Rest => data[3 * g + p] = <<t1, t2, 0>>[p]
        /\ ~ (p <= Rest) => <<t1, t2, 0>>[p] = 0
    <3>1. q = 1 \/ q = 2 \/ (q = 3 /\ Rest = 2)
      <4>1. q <= Rest + 1
        BY <1>2, <2>0
      <4> QED
        BY <1>2, <2>0, <4>1
    <3>2. p = 1 \/ p = 2 \/ p = 3
      BY <1>2
    <3> QED
      BY <2>0, <3>1, <3>2
  <2> HIDE DEF t1, t2, c1, c2, c3
  <2>4. CharBits(<<c1, c2, c3, 0>>[q])[a] = ByteBits(<<t1, t2, 0>>[p])[b]
    BY <1>0, <1>3, <2>1, <2>2
  <2>5. T = IF p <= Rest THEN D ELSE 0
    BY <1>1, <1>4, <2>3, <2>4
  <2>6. 24 * g + j < 8 * Len(data) <=> p <= Rest
    <3>1. j < 8 * Rest <=> p <= Rest
      BY <1>2, <2>0
    <3> QED
      BY <1>0, <1>6, <3>1
  <2> QED
    BY <2>5, <2>6 DEF T, D
<1>7. g < Groups \/ g = Groups
  BY <1>0
<1> QED
  BY <1>5, <1>6, <1>7

\* The characters in front of the padding are those that hold the bits.
LEMMA MadeSize ==
  ASSUME TypeOK, TextMade
  PROVE  LET n == (8 * Len(data) + 5) \div 6
         IN /\ n = 4 * Groups + (IF Rest = 0 THEN 0 ELSE Rest + 1)
            /\ n \in Nat /\ Len(text) \in Nat
            /\ Len(text) - n = IF Rest = 0 THEN 0 ELSE 3 - Rest
            /\ Len(text) % 4 = 0
            /\ PaddedBy(text, Len(text) - n)
<1>0. /\ Len(data) \in Nat /\ Groups \in Nat /\ Rest \in {0, 1, 2}
      /\ Len(data) = 3 * Groups + Rest /\ 0 \in Byte
  BY DataSize DEF Byte
<1>1. Len(text) = 4 * Groups + (IF Rest # 0 THEN 4 ELSE 0)
  BY DEF TextMade, TextSize
<1> DEFINE n == (8 * Len(data) + 5) \div 6
<1>2. n = 4 * Groups + (IF Rest = 0 THEN 0 ELSE Rest + 1)
  BY <1>0
<1> HIDE DEF n
<1>3. /\ n \in Nat /\ Len(text) \in Nat
      /\ Len(text) - n = IF Rest = 0 THEN 0 ELSE 3 - Rest
  BY <1>0, <1>1, <1>2
<1>4. Len(text) % 4 = 0
  <2> DEFINE m == Groups + (IF Rest # 0 THEN 1 ELSE 0)
  <2>1. m \in Nat /\ Len(text) = 4 * m
    BY <1>0, <1>1
  <2> HIDE DEF m
  <2> QED
    BY <2>1
<1>5. ASSUME NEW k \in 1 .. n PROVE text[k] \in Alphabet
  <2> DEFINE g == (k - 1) \div 4
             j == (k - 1) % 4
  <2>1. g \in Nat /\ j \in 0 .. 3 /\ k = 4 * g + (j + 1)
    BY <1>3
  <2>2. j + 1 \in {1, 2, 3, 4}
    BY <2>1
  <2> HIDE DEF g, j
  <2>3. CASE g < Groups
    <3>1. data[3 * g + 1] \in Byte /\ data[3 * g + 2] \in Byte /\ data[3 * g + 3] \in Byte
      BY <1>0, <2>1, <2>3 DEF TypeOK
    <3>2. GroupAt(g)
      <4>1. g \in 0 .. Groups - 1
        BY <1>0, <2>1, <2>3
      <4> QED
        BY <4>1 DEF TextMade
    <3>3. /\ text[4 * g + 1] \in Alphabet /\ text[4 * g + 2] \in Alphabet
          /\ text[4 * g + 3] \in Alphabet /\ text[4 * g + 4] \in Alphabet
      BY <3>1, <3>2, GroupedBits DEF GroupAt
    <3> QED
      BY <2>1, <2>2, <3>3
  <2>4. CASE ~ (g < Groups)
    <3>1. g = Groups /\ Rest \in {1, 2} /\ j + 1 <= Rest + 1
      BY <1>0, <1>2, <2>1, <2>4
    <3>2. RestAt(Groups)
      BY DEF TextMade
    <3>3. CASE Rest = 1
      <4>1. data[3 * Groups + 1] \in Byte
        BY <1>0, <3>3 DEF TypeOK
      <4>2. text[4 * Groups + 1] \in Alphabet /\ text[4 * Groups + 2] \in Alphabet
        BY <1>0, <3>2, <3>3, <4>1, GroupedBits DEF RestAt
      <4>3. j + 1 = 1 \/ j + 1 = 2
        BY <2>2, <3>1, <3>3
      <4> QED
        BY <2>1, <3>1, <4>2, <4>3
    <3>4. CASE Rest = 2
      <4>1. data[3 * Groups + 1] \in Byte /\ data[3 * Groups + 2] \in Byte
        BY <1>0, <3>4 DEF TypeOK
      <4>2. /\ text[4 * Groups + 1] \in Alphabet /\ text[4 * Groups + 2] \in Alphabet
            /\ text[4 * Groups + 3] \in Alphabet
        BY <1>0, <3>2, <3>4, <4>1, GroupedBits DEF RestAt
      <4>3. j + 1 = 1 \/ j + 1 = 2 \/ j + 1 = 3
        BY <2>2, <3>1, <3>4
      <4> QED
        BY <2>1, <3>1, <4>2, <4>3
    <3> QED
      BY <3>1, <3>3, <3>4
  <2> QED
    BY <2>3, <2>4
<1>6. ASSUME NEW k \in n + 1 .. Len(text) PROVE text[k] = Padding
  <2>1. RestAt(Groups)
    BY DEF TextMade
  <2>2. CASE Rest = 0
    BY <1>0, <1>1, <1>2, <1>6, <2>2
  <2>3. CASE Rest = 1
    <3>1. k = 4 * Groups + 3 \/ k = 4 * Groups + 4
      BY <1>0, <1>1, <1>2, <1>6, <2>3
    <3> QED
      BY <2>1, <2>3, <3>1 DEF RestAt
  <2>4. CASE Rest = 2
    <3>1. k = 4 * Groups + 4
      BY <1>0, <1>1, <1>2, <1>6, <2>4
    <3> QED
      BY <2>1, <2>4, <3>1 DEF RestAt
  <2> QED
    BY <1>0, <2>2, <2>3, <2>4
<1>7. Len(text) - (Len(text) - n) = n /\ Len(text) - n <= Len(text)
  BY <1>3
<1>8. PaddedBy(text, Len(text) - n)
  BY <1>5, <1>6, <1>7 DEF PaddedBy
<1> QED
  BY <1>2, <1>3, <1>4, <1>8 DEF n

\* encode_into returns the bits of the data, whatever they are and however many,
\* in as few characters as hold them, behind which there are only zeros and padding.
THEOREM EncodesEveryBit == Spec => []EncodesTheBits
<1>1. ASSUME CodecInv, RoundInv, pc = "from_base64", origin = "to_base64"
      PROVE  LET n == (8 * Len(data) + 5) \div 6
             IN /\ Len(text) % 4 = 0 /\ Len(text) - n \in 0 .. 2
                /\ PaddedBy(text, Len(text) - n)
                /\ \A k \in 0 .. 6 * n - 1 :
                      TextBit(text, k) = IF k < 8 * Len(data) THEN DataBit(data, k) ELSE 0
  <2>0. /\ Groups \in Nat /\ Rest \in {0, 1, 2} /\ TypeOK /\ TextMade
    BY <1>1, DataSize DEF CodecInv, RoundInv
  <2> DEFINE n == (8 * Len(data) + 5) \div 6
  <2>1. /\ n = 4 * Groups + (IF Rest = 0 THEN 0 ELSE Rest + 1)
        /\ n \in Nat /\ Len(text) \in Nat
        /\ Len(text) - n = IF Rest = 0 THEN 0 ELSE 3 - Rest
        /\ Len(text) % 4 = 0
        /\ PaddedBy(text, Len(text) - n)
    BY <2>0, MadeSize
  <2> HIDE DEF n
  <2>2. Len(text) - n \in 0 .. 2
    BY <2>0, <2>1
  <2>3. ASSUME NEW k \in 0 .. 6 * n - 1
        PROVE  TextBit(text, k) = IF k < 8 * Len(data) THEN DataBit(data, k) ELSE 0
    <3> DEFINE g == k \div 24
               j == k % 24
    <3>1. k \in Nat /\ k < 6 * n
      BY <2>1
    <3>2. g \in Nat /\ j \in 0 .. 23 /\ k = 24 * g + j
      BY <3>1, BitGroups
    <3> HIDE DEF g, j
    <3>3. /\ g \in 0 .. Groups
          /\ g = Groups => Rest # 0 /\ j < 6 * (Rest + 1)
      <4>1. CASE Rest = 0
        BY <2>0, <2>1, <3>1, <3>2, <4>1
      <4>2. CASE Rest # 0
        BY <2>0, <2>1, <3>1, <3>2, <4>2
      <4> QED
        BY <4>1, <4>2
    <3>4. TextBit(text, 24 * g + j)
             = IF 24 * g + j < 8 * Len(data) THEN DataBit(data, 24 * g + j) ELSE 0
      BY <2>0, <3>2, <3>3, MadeBit
    <3> QED
      BY <3>2, <3>4
  <2> QED
    BY <2>1, <2>2, <2>3 DEF n
<1>2. Init => RoundInv
  BY DEF Init, RoundInv
<1>3. CodecInv /\ RoundInv => EncodesTheBits
  BY <1>1 DEF EncodesTheBits
<1> QED
  BY <1>2, <1>3, NextRound, CodecAlways, PTL DEF Spec
=============================================================================
