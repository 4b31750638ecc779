----------------------------- MODULE DataProofs -----------------------------
(***************************************************************************)
(* Proofs about what is computed over texts and bytes: Base64 for any bytes *)
(* and sources of any length, Md5 for any sizes of the block, of the words *)
(* and of the length field, BasicConfig for any texts, settings and writers, *)
(* and ComPort for any contents of the frames and sizes of the reads.      *)
(***************************************************************************)
EXTENDS Base64, Md5, BasicConfig, ComPort, FiniteSetTheorems, SequenceTheorems, TLAPS

------------------------------------------------------------------------------
(* Base64. Decoding inverts encoding, whatever lies behind the source.     *)

Byte == 0 .. 255
Groups(n) == (n + 2) \div 3

(* A group of bytes, the last ones not of the source, comes back from its  *)
(* four characters; only the fillers of a short group are end characters.  *)
LEMMA QuadBack ==
  ASSUME NEW b1 \in Byte, NEW b2 \in Byte, NEW b3 \in Byte, NEW n \in {1, 2, 3}
  PROVE  /\ Quad(<<b1, b2, b3>>, n) \in Seq(0 .. 64) /\ Len(Quad(<<b1, b2, b3>>, n)) = 4
         /\ \A j \in 1 .. 4 : Quad(<<b1, b2, b3>>, n)[j] = BASE64_END_CHAR <=> j > n + 1
         /\ \A j \in 1 .. n : Trio(Quad(<<b1, b2, b3>>, n), 3 - n)[j] = <<b1, b2, b3>>[j]
<1> DEFINE q1 == b1 \div 4  r1 == b1 % 4
           q2 == b2 \div 16 r2 == b2 % 16
           q3 == b3 \div 64 r3 == b3 % 64
<1>1. /\ q1 \in 0 .. 63 /\ r1 \in 0 .. 3 /\ b1 = 4 * q1 + r1
      /\ q2 \in 0 .. 15 /\ r2 \in 0 .. 15 /\ b2 = 16 * q2 + r2
      /\ q3 \in 0 .. 3 /\ r3 \in 0 .. 63 /\ b3 = 64 * q3 + r3
  BY DEF Byte
<1>2. /\ Quad(<<b1, b2, b3>>, 3) = <<q1, r1 * 16 + q2, r2 * 4 + q3, r3>>
      /\ Quad(<<b1, b2, b3>>, 2) = <<q1, r1 * 16 + q2, r2 * 4, BASE64_END_CHAR>>
      /\ Quad(<<b1, b2, b3>>, 1) = <<q1, r1 * 16, BASE64_END_CHAR, BASE64_END_CHAR>>
  BY DEF Quad, EN_CODE1, EN_CODE2, EN_CODE3, EN_CODE4, EN_CODE2_T, EN_CODE3_T
<1> HIDE DEF q1, r1, q2, r2, q3, r3
<1>3. /\ (r1 * 16 + q2) \div 16 = r1 /\ (r1 * 16 + q2) % 16 = q2
      /\ (r2 * 4 + q3) \div 4 = r2 /\ (r2 * 4 + q3) % 4 = q3
      /\ (r1 * 16) \div 16 = r1 /\ (r1 * 16) % 16 = 0
      /\ (r2 * 4) \div 4 = r2 /\ (r2 * 4) % 4 = 0
  BY <1>1
<1>4. /\ Trio(<<q1, r1 * 16 + q2, r2 * 4 + q3, r3>>, 0) = <<b1, b2, b3>>
      /\ Trio(<<q1, r1 * 16 + q2, r2 * 4, BASE64_END_CHAR>>, 1) = <<b1, b2, 0>>
      /\ Trio(<<q1, r1 * 16, BASE64_END_CHAR, BASE64_END_CHAR>>, 2) = <<b1, 0, 0>>
  BY <1>1, <1>3 DEF Trio
<1>5. /\ r1 * 16 + q2 \in 0 .. 63 /\ r2 * 4 + q3 \in 0 .. 63 /\ r1 * 16 \in 0 .. 63 /\ r2 * 4 \in 0 .. 63
  BY <1>1
<1>6. BASE64_END_CHAR = 64
  BY DEF BASE64_END_CHAR
<1>7. CASE n = 1
  <2> DEFINE q == <<q1, r1 * 16, BASE64_END_CHAR, BASE64_END_CHAR>>
  <2>1. Quad(<<b1, b2, b3>>, n) = q
    BY <1>2, <1>7
  <2>2. q \in Seq(0 .. 64) /\ Len(q) = 4
    BY <1>1, <1>5, <1>6
  <2>3. ASSUME NEW j \in 1 .. 4 PROVE q[j] = BASE64_END_CHAR <=> j > 1 + 1
    <3>1. j = 1 \/ j = 2 \/ j = 3 \/ j = 4
      OBVIOUS
    <3>2. QED BY <1>1, <1>5, <1>6, <3>1
  <2>4. Trio(q, 3 - 1) = <<b1, 0, 0>>
    BY <1>4
  <2> HIDE DEF q
  <2>5. ASSUME NEW j \in 1 .. 1 PROVE Trio(q, 3 - 1)[j] = <<b1, b2, b3>>[j]
    <3>1. j = 1 \/ j = 2 \/ j = 3
      OBVIOUS
    <3>2. QED BY <2>4, <3>1
  <2>6. QED BY <1>7, <2>1, <2>2, <2>3, <2>5
<1>8. CASE n = 2
  <2> DEFINE q == <<q1, r1 * 16 + q2, r2 * 4, BASE64_END_CHAR>>
  <2>1. Quad(<<b1, b2, b3>>, n) = q
    BY <1>2, <1>8
  <2>2. q \in Seq(0 .. 64) /\ Len(q) = 4
    BY <1>1, <1>5, <1>6
  <2>3. ASSUME NEW j \in 1 .. 4 PROVE q[j] = BASE64_END_CHAR <=> j > 2 + 1
    <3>1. j = 1 \/ j = 2 \/ j = 3 \/ j = 4
      OBVIOUS
    <3>2. QED BY <1>1, <1>5, <1>6, <3>1
  <2>4. Trio(q, 3 - 2) = <<b1, b2, 0>>
    BY <1>4
  <2> HIDE DEF q
  <2>5. ASSUME NEW j \in 1 .. 2 PROVE Trio(q, 3 - 2)[j] = <<b1, b2, b3>>[j]
    <3>1. j = 1 \/ j = 2 \/ j = 3
      OBVIOUS
    <3>2. QED BY <2>4, <3>1
  <2>6. QED BY <1>8, <2>1, <2>2, <2>3, <2>5
<1>9. CASE n = 3
  <2> DEFINE q == <<q1, r1 * 16 + q2, r2 * 4 + q3, r3>>
  <2>1. Quad(<<b1, b2, b3>>, n) = q
    BY <1>2, <1>9
  <2>2. q \in Seq(0 .. 64) /\ Len(q) = 4
    BY <1>1, <1>5, <1>6
  <2>3. ASSUME NEW j \in 1 .. 4 PROVE q[j] = BASE64_END_CHAR <=> j > 3 + 1
    <3>1. j = 1 \/ j = 2 \/ j = 3 \/ j = 4
      OBVIOUS
    <3>2. QED BY <1>1, <1>5, <1>6, <3>1
  <2>4. Trio(q, 3 - 3) = <<b1, b2, b3>>
    BY <1>4
  <2> HIDE DEF q
  <2>5. ASSUME NEW j \in 1 .. 3 PROVE Trio(q, 3 - 3)[j] = <<b1, b2, b3>>[j]
    <3>1. j = 1 \/ j = 2 \/ j = 3
      OBVIOUS
    <3>2. QED BY <2>4, <3>1
  <2>6. QED BY <1>9, <2>1, <2>2, <2>3, <2>5
<1>10. QED BY <1>7, <1>8, <1>9

(* The group counted from 0, and the place in it, of a byte or character.  *)
LEMMA GroupAndPlace ==
  /\ \A i \in Nat : \A j \in 1 .. 4 : (4 * i + j - 1) \div 4 = i /\ ((4 * i + j - 1) % 4) + 1 = j
  /\ \A k \in Nat \ {0} : (k - 1) \div 4 \in Nat /\ ((k - 1) % 4) + 1 \in 1 .. 4
                          /\ k = 4 * ((k - 1) \div 4) + (((k - 1) % 4) + 1)
  /\ \A k \in Nat \ {0} : (k - 1) \div 3 \in Nat /\ ((k - 1) % 3) + 1 \in 1 .. 3
                          /\ k = 3 * ((k - 1) \div 3) + (((k - 1) % 3) + 1)
<1>1. QED OBVIOUS

(* The characters of a group, from its bytes and those that follow.        *)
GroupEncoded(s, b, i) ==
  LET n == Len(s)
      m == s \o <<b, b, b>>
      e == Base64_Encode(m, n)
      q == Quad(<<m[3 * i + 1], m[3 * i + 2], m[3 * i + 3]>>, IF n - 3 * i < 3 THEN n - 3 * i ELSE 3)
  IN /\ n - 3 * i \in Nat \ {0}
     /\ \A j \in 1 .. 3 : m[3 * i + j] \in Byte /\ (3 * i + j <= n => m[3 * i + j] = s[3 * i + j])
     /\ \A j \in 1 .. 4 : e[4 * i + j] = q[j]

LEMMA Encoded ==
  ASSUME NEW s \in Seq(Byte), NEW b \in Byte, NEW i \in 0 .. Groups(Len(s)) - 1
  PROVE  GroupEncoded(s, b, i)
<1> DEFINE n == Len(s)
           m == s \o <<b, b, b>>
           three == <<m[3 * i + 1], m[3 * i + 2], m[3 * i + 3]>>
<1>1. n \in Nat /\ n - 3 * i \in Nat \ {0} /\ i \in Nat /\ 3 * i + 3 <= n + 2
  BY DEF Groups
<1>2. m \in Seq(Byte) /\ Len(m) = n + 3 /\ \A k \in 1 .. n : m[k] = s[k]
  OBVIOUS
<1> HIDE DEF m, n
<1>3. \A j \in 1 .. 3 : m[3 * i + j] \in Byte /\ (3 * i + j <= n => m[3 * i + j] = s[3 * i + j])
  <2> TAKE j \in 1 .. 3
  <2> DEFINE k == 3 * i + j
  <2>1. k \in 1 .. n + 3 /\ (k <= n => k \in 1 .. n)
    BY <1>1
  <2> HIDE DEF k
  <2>2. m[k] \in Byte /\ (k <= n => m[k] = s[k])
    BY <1>2, <2>1
  <2>3. QED BY <2>2 DEF k
<1>4. SubSeq(m, 3 * i + 1, 3 * i + 3) = three
  <2> DEFINE cut == SubSeq(m, 3 * i + 1, 3 * i + 3)
  <2>1. cut \in Seq(Byte) /\ Len(cut) = 3 /\ \A j \in 1 .. 3 : cut[j] = m[3 * i + j]
    BY <1>1, <1>2, SubSeqProperties
  <2>2. three \in Seq(Byte) /\ Len(three) = 3 /\ \A j \in 1 .. 3 : three[j] = m[3 * i + j]
    BY <1>3
  <2> HIDE DEF cut, three
  <2>3. Len(cut) = Len(three) /\ \A j \in 1 .. Len(cut) : cut[j] = three[j]
    BY <2>1, <2>2
  <2>4. QED BY <2>1, <2>2, <2>3, SeqEqual
<1>5. Quad(three, n - 3 * i) = Quad(three, IF n - 3 * i < 3 THEN n - 3 * i ELSE 3)
  BY <1>1 DEF Quad
<1>6. ASSUME NEW j \in 1 .. 4 PROVE Base64_Encode(m, n)[4 * i + j] = Quad(three, n - 3 * i)[j]
  <2>1. 4 * i + j \in 1 .. 4 * ((n + 2) \div 3)
    BY <1>1 DEF Groups, n
  <2>2. (4 * i + j - 1) \div 4 = i /\ ((4 * i + j - 1) % 4) + 1 = j
    BY <1>1, GroupAndPlace
  <2> DEFINE k == 4 * i + j
  <2>3. Base64_Encode(m, n)[k] =
          Quad(SubSeq(m, 3 * ((k - 1) \div 4) + 1, 3 * ((k - 1) \div 4) + 3), n - 3 * ((k - 1) \div 4))[((k - 1) % 4) + 1]
    <3> HIDE DEF k
    <3> QED BY <2>1, Zenon DEF Base64_Encode, k
  <2>4. (k - 1) \div 4 = i /\ ((k - 1) % 4) + 1 = j
    BY <2>2
  <2> HIDE DEF k
  <2>5. QED BY <1>4, <2>3, <2>4, Zenon DEF k
<1>7. QED BY <1>1, <1>3, <1>5, <1>6 DEF GroupEncoded, m, n

(* The size reserved is that of whole groups.                              *)
LEMMA SizeOfGroups ==
  ASSUME NEW n \in Nat
  PROVE  /\ GetBase64Size(n) = 4 * Groups(n)
         /\ Groups(n) \in Nat /\ 3 * Groups(n) - n \in {0, 1, 2}
<1>1. Groups(n) \in Nat /\ 3 * Groups(n) - n \in {0, 1, 2}
  BY DEF Groups
<1>2. ASSUME n <= 3 PROVE GetBase64Size(n) = 4 * Groups(n)
  <2>1. CASE n = 0
    BY <2>1 DEF Groups, GetBase64Size
  <2>2. CASE n \in {1, 2, 3}
    BY <2>2 DEF Groups, GetBase64Size
  <2>3. QED BY <1>2, <2>1, <2>2
<1>3. ASSUME n > 3 PROVE GetBase64Size(n) = 4 * Groups(n)
  <2> DEFINE g == Groups(n)
             c == (n * 8 + 5) \div 6
  <2>1. c \in Nat /\ 6 * c <= n * 8 + 5 /\ n * 8 + 5 < 6 * c + 6
    OBVIOUS
  <2>2. g \in Nat /\ 3 * g <= n + 2 /\ n <= 3 * g
    BY DEF Groups
  <2> HIDE DEF g, c
  <2>3. c <= 4 * g /\ 4 * g < c + 4
    BY <2>1, <2>2
  <2>4. IF c % 4 = 0 THEN c = 4 * g ELSE c + 4 - (c % 4) = 4 * g
    BY <2>1, <2>2, <2>3
  <2>5. QED BY <1>3, <2>4 DEF GetBase64Size, c, g
<1>4. n <= 3 \/ n > 3
  OBVIOUS
<1>5. QED BY <1>1, <1>2, <1>3, <1>4

(* Where the end characters are.                                           *)
LEMMA EncodedWhole ==
  ASSUME NEW s \in Seq(Byte), NEW b \in Byte
  PROVE  LET n == Len(s)
             e == Base64_Encode(s \o <<b, b, b>>, n)
             G == Groups(n)
         IN /\ e \in Seq(0 .. 64) /\ Len(e) = 4 * G
            /\ \A k \in 1 .. 4 * G : e[k] = BASE64_END_CHAR <=> k > 4 * G - (3 * G - n)
            /\ \A i \in 0 .. G - 1 : EndChars(e, 4 * i + 4) = IF i = G - 1 THEN 3 * G - n ELSE 0
            /\ EndChars(e, 4 * G) = 3 * G - n
<1> DEFINE n == Len(s)
           m == s \o <<b, b, b>>
           e == Base64_Encode(m, n)
           G == Groups(n)
<1>1. n \in Nat /\ G \in Nat /\ 3 * G - n \in {0, 1, 2}
  BY SizeOfGroups
<1>2. DOMAIN e = 1 .. 4 * G
  BY DEF Base64_Encode, Groups
<1>3. ASSUME NEW k \in 1 .. 4 * G
      PROVE  /\ e[k] \in 0 .. 64
             /\ e[k] = BASE64_END_CHAR <=> k > 4 * G - (3 * G - n)
  <2> DEFINE i == (k - 1) \div 4
             j == ((k - 1) % 4) + 1
             w == IF n - 3 * i < 3 THEN n - 3 * i ELSE 3
             three == <<m[3 * i + 1], m[3 * i + 2], m[3 * i + 3]>>
             q == Quad(three, w)
  <2>1. i \in Nat /\ j \in 1 .. 4 /\ k = 4 * i + j
    BY <1>1, GroupAndPlace
  <2> HIDE DEF i, j
  <2>2. i \in 0 .. G - 1
    BY <1>1, <2>1
  <2>3. /\ n - 3 * i \in Nat \ {0}
        /\ \A l \in 1 .. 3 : m[3 * i + l] \in Byte
        /\ \A l \in 1 .. 4 : e[4 * i + l] = q[l]
    <3>1. GroupEncoded(s, b, i)
      BY <2>2, Encoded DEF G, n
    <3>2. QED BY <3>1 DEF GroupEncoded
  <2>4. m[3 * i + 1] \in Byte /\ m[3 * i + 2] \in Byte /\ m[3 * i + 3] \in Byte
    <3> HIDE DEF m, e, q
    <3> QED BY <2>3
  <2>5. w \in {1, 2, 3} /\ e[k] = q[j]
    <3>1. w \in {1, 2, 3}
      BY <2>3
    <3> HIDE DEF m, e, w, q
    <3>2. QED BY <2>1, <2>3, <3>1
  <2>6. q[j] \in 0 .. 64 /\ (q[j] = BASE64_END_CHAR <=> j > w + 1)
    <3> HIDE DEF m, e, w
    <3>1. /\ q \in Seq(0 .. 64) /\ Len(q) = 4
          /\ \A l \in 1 .. 4 : q[l] = BASE64_END_CHAR <=> l > w + 1
      BY <2>4, <2>5, QuadBack
    <3> HIDE DEF q
    <3> HIDE DEF q
    <3>2. q[j] \in 0 .. 64
      <4>1. q \in Seq(0 .. 64) /\ j \in 1 .. Len(q)
        BY <2>1, <3>1
      <4>2. QED BY <4>1, ElementOfSeq
    <3>3. QED BY <2>1, <3>1, <3>2
  <2>7. /\ i < G - 1 => w = 3
        /\ i = G - 1 => w = 3 - (3 * G - n)
    <3> HIDE DEF G, n
    <3> QED BY <1>1, <2>2
  <2> HIDE DEF three, q, w, e, m, n, G
  <2>8. j > w + 1 <=> k > 4 * G - (3 * G - n)
    BY <1>1, <2>1, <2>2, <2>5, <2>7
  <2>9. QED BY <2>5, <2>6, <2>8
<1>4. e \in [1 .. 4 * G -> 0 .. 64]
  <2>1. e = [k \in 1 .. 4 * G |-> e[k]]
    BY DEF Base64_Encode, Groups
  <2> HIDE DEF e, G
  <2>2. QED BY <1>3, <2>1
<1> HIDE DEF e, m, n, G
<1>5. e \in Seq(0 .. 64) /\ Len(e) = 4 * G
  BY <1>1, <1>4
<1>6. ASSUME NEW i \in 0 .. G - 1
      PROVE  EndChars(e, 4 * i + 4) = IF i = G - 1 THEN 3 * G - n ELSE 0
  <2> DEFINE ends == {k \in 1 .. 4 * i + 4 : e[k] = BASE64_END_CHAR}
  <2>1. CASE i = G - 1
    <3>1. ends = (4 * G - (3 * G - n)) + 1 .. 4 * G
      BY <1>1, <1>3, <2>1
    <3>2. Cardinality((4 * G - (3 * G - n)) + 1 .. 4 * G) = 3 * G - n
      BY <1>1, FS_Interval
    <3>3. QED BY <2>1, <3>1, <3>2 DEF EndChars
  <2>2. CASE i # G - 1
    <3>1. ends = {}
      BY <1>1, <1>3, <2>2
    <3>2. QED BY <2>2, <3>1, FS_EmptySet DEF EndChars
  <2>3. QED BY <2>1, <2>2
<1>7. EndChars(e, 4 * G) = 3 * G - n
  <2>1. CASE G = 0
    <3>1. {k \in 1 .. 4 * G : e[k] = BASE64_END_CHAR} = {}
      BY <2>1
    <3>2. QED BY <1>1, <2>1, <3>1, FS_EmptySet DEF EndChars
  <2>2. CASE G # 0
    <3>1. G - 1 \in 0 .. G - 1 /\ 4 * (G - 1) + 4 = 4 * G
      BY <1>1, <2>2
    <3>2. QED BY <1>6, <3>1
  <2>3. QED BY <2>1, <2>2
<1>8. QED BY <1>3, <1>5, <1>6, <1>7 DEF e, m, n, G

(* The bytes come back, whatever lies behind them.                         *)
LEMMA DecodedBack ==
  ASSUME NEW s \in Seq(Byte), NEW b \in Byte
  PROVE  Base64_Decode(Base64_Encode(s \o <<b, b, b>>, Len(s))) = s
<1> DEFINE n == Len(s)
           m == s \o <<b, b, b>>
           e == Base64_Encode(m, n)
           G == Groups(n)
           d == Base64_Decode(e)
<1>1. n \in Nat /\ G \in Nat /\ 3 * G - n \in {0, 1, 2}
  BY SizeOfGroups
<1>2. /\ e \in Seq(0 .. 64) /\ Len(e) = 4 * G
      /\ \A i \in 0 .. G - 1 : EndChars(e, 4 * i + 4) = IF i = G - 1 THEN 3 * G - n ELSE 0
      /\ EndChars(e, 4 * G) = 3 * G - n
  BY EncodedWhole
<1> HIDE DEF e, G
<1>3. Len(e) \div 4 = G /\ 3 * (Len(e) \div 4) - EndChars(e, Len(e)) = n
  BY <1>1, <1>2
<1>4. DOMAIN d = 1 .. n
  BY <1>3, Zenon DEF Base64_Decode
<1>5. ASSUME NEW k \in 1 .. n PROVE d[k] = s[k]
  <2> DEFINE i == (k - 1) \div 3
             j == ((k - 1) % 3) + 1
             w == IF n - 3 * i < 3 THEN n - 3 * i ELSE 3
             three == <<m[3 * i + 1], m[3 * i + 2], m[3 * i + 3]>>
             four == SubSeq(e, 4 * i + 1, 4 * i + 4)
             ends == EndChars(e, 4 * i + 4)
  <2>1. i \in Nat /\ j \in 1 .. 3 /\ k = 3 * i + j
    BY <1>1, GroupAndPlace
  <2>2. d[k] = Trio(four, ends)[j]
    BY <1>3, Zenon DEF Base64_Decode
  <2> HIDE DEF i, j
  <2>3. i \in 0 .. G - 1
    BY <1>1, <2>1
  <2>4. /\ n - 3 * i \in Nat \ {0}
        /\ \A l \in 1 .. 3 : m[3 * i + l] \in Byte /\ (3 * i + l <= n => m[3 * i + l] = s[3 * i + l])
        /\ \A l \in 1 .. 4 : e[4 * i + l] = Quad(three, w)[l]
    <3>1. GroupEncoded(s, b, i)
      BY <2>3, Encoded DEF G
    <3>2. QED BY <3>1 DEF GroupEncoded, e
  <2> HIDE DEF m, n
  <2>5. m[3 * i + 1] \in Byte /\ m[3 * i + 2] \in Byte /\ m[3 * i + 3] \in Byte
    BY <2>4
  <2> HIDE DEF ends, three, four
  <2>6. w \in {1, 2, 3} /\ ends = 3 - w /\ j \in 1 .. w
    <3>1. ends = IF i = G - 1 THEN 3 * G - n ELSE 0
      BY <1>2, <2>3 DEF ends, n
    <3>2. k <= n /\ n - 3 * i \in Nat \ {0}
      BY <2>4
    <3>3. w = 3 - ends /\ w \in {1, 2, 3}
      BY <1>1, <2>3, <3>1, <3>2
    <3>4. j <= w
      BY <1>1, <2>1, <2>3, <3>2
    <3> HIDE DEF w
    <3>5. QED BY <1>1, <2>1, <3>1, <3>3, <3>4
  <2> HIDE DEF w
  <2> DEFINE q == Quad(three, w)
  <2>7. /\ q \in Seq(0 .. 64) /\ Len(q) = 4
        /\ \A l \in 1 .. w : Trio(q, 3 - w)[l] = three[l]
    <3>1. w \in {1, 2, 3}
      BY <2>6
    <3>2. ASSUME NEW x \in Byte, NEW y \in Byte, NEW z \in Byte
          PROVE  /\ Quad(<<x, y, z>>, w) \in Seq(0 .. 64) /\ Len(Quad(<<x, y, z>>, w)) = 4
                 /\ \A l \in 1 .. w : Trio(Quad(<<x, y, z>>, w), 3 - w)[l] = <<x, y, z>>[l]
      BY ONLY <3>1, QuadBack, <3>2
    <3>3. QED BY <2>5, <3>2 DEF three
  <2>8. four = q
    <3>1. four \in Seq(0 .. 64) /\ Len(four) = 4 /\ \A l \in 1 .. 4 : four[l] = e[4 * i + l]
      <4>1. ASSUME NEW l \in 4 * i + 1 .. 4 * i + 4 PROVE e[l] \in 0 .. 64
        <5>1. l \in 1 .. 4 * G
          BY <1>1, <2>3
        <5>2. e \in Seq(0 .. 64) /\ Len(e) = 4 * G
          BY <1>2
        <5>3. QED BY <5>1, <5>2, ElementOfSeq
      <4>2. QED BY <2>3, <1>1, <4>1, SubSeqProperties DEF four
    <3>2. \A l \in 1 .. 4 : e[4 * i + l] = q[l]
      BY <2>4
    <3> HIDE DEF q
    <3>3. QED BY <2>7, <3>1, <3>2, SeqEqual
  <2>9. Trio(four, ends)[j] = m[3 * i + j]
    <3>1. three[j] = m[3 * i + j]
      BY <2>1 DEF three
    <3> HIDE DEF q
    <3>2. QED BY <2>6, <2>7, <2>8, <3>1
  <2>10. m[3 * i + j] = s[k]
    <3>1. 3 * i + j <= n /\ j \in 1 .. 3
      BY <1>1, <2>1
    <3>2. m[3 * i + j] = s[3 * i + j]
      BY <2>4, <3>1
    <3>3. QED BY <2>1, <3>2
  <2>11. QED BY <2>2, <2>9, <2>10
<1>6. d \in Seq(Byte) /\ Len(d) = Len(s)
  <2>1. d = [k \in 1 .. n |-> d[k]]
    BY <1>3, Zenon DEF Base64_Decode
  <2>2. \A k \in 1 .. n : d[k] \in Byte
    BY <1>5
  <2> HIDE DEF d
  <2>3. d \in [1 .. n -> Byte]
    BY <2>1, <2>2
  <2>4. QED BY <1>1, <2>3
<1> HIDE DEF d
<1>7. \A k \in 1 .. Len(d) : d[k] = s[k]
  BY <1>5, <1>6
<1>8. d = s
  BY <1>6, <1>7, SeqEqual
<1>9. QED BY <1>8 DEF d, e

(* What lies behind the source is in none of the characters.               *)
LEMMA SameBehind ==
  ASSUME NEW s \in Seq(Byte), NEW b \in Byte, NEW c \in Byte
  PROVE  Base64_Encode(s \o <<b, b, b>>, Len(s)) = Base64_Encode(s \o <<c, c, c>>, Len(s))
<1> DEFINE n == Len(s)
           G == Groups(n)
           m(x) == s \o <<x, x, x>>
           e(x) == Base64_Encode(m(x), n)
<1>1. n \in Nat /\ G \in Nat /\ 3 * G - n \in {0, 1, 2}
  BY SizeOfGroups
<1>2. e(b) \in Seq(0 .. 64) /\ Len(e(b)) = 4 * G /\ e(c) \in Seq(0 .. 64) /\ Len(e(c)) = 4 * G
  BY EncodedWhole
<1>3. ASSUME NEW k \in 1 .. 4 * G PROVE e(b)[k] = e(c)[k]
  <2> DEFINE i == (k - 1) \div 4
             j == ((k - 1) % 4) + 1
             w == IF n - 3 * i < 3 THEN n - 3 * i ELSE 3
             three(x) == <<m(x)[3 * i + 1], m(x)[3 * i + 2], m(x)[3 * i + 3]>>
  <2>1. i \in Nat /\ j \in 1 .. 4 /\ k = 4 * i + j
    BY <1>1, GroupAndPlace
  <2> HIDE DEF i, j, G
  <2>2. i \in 0 .. G - 1
    BY <1>1, <2>1
  <2>3. ASSUME NEW x \in Byte
        PROVE  /\ n - 3 * i \in Nat \ {0} /\ e(x)[k] = Quad(three(x), w)[j]
               /\ \A l \in 1 .. 3 : 3 * i + l <= n => m(x)[3 * i + l] = s[3 * i + l]
    <3>1. /\ n - 3 * i \in Nat \ {0} /\ \A l \in 1 .. 4 : e(x)[4 * i + l] = Quad(three(x), w)[l]
          /\ \A l \in 1 .. 3 : 3 * i + l <= n => m(x)[3 * i + l] = s[3 * i + l]
      <4>1. i \in 0 .. Groups(Len(s)) - 1 /\ x \in Byte /\ s \in Seq(Byte)
        BY <2>2, <2>3 DEF G
      <4>2. GroupEncoded(s, x, i)
        BY ONLY <4>1, Encoded
      <4>3. QED BY <4>2 DEF GroupEncoded
    <3> HIDE DEF e, three, m
    <3>2. QED BY <2>1, <3>1
  <2>4. n - 3 * i \in Nat \ {0}
    BY <2>3
  <2>5. w \in {1, 2, 3}
    BY <2>4
  <2>6. \A l \in 1 .. 3 : l <= w => m(b)[3 * i + l] = m(c)[3 * i + l]
    <3>1. \A l \in 1 .. 3 : l <= w => 3 * i + l <= n
      BY <1>1, <2>1, <2>4
    <3>2. \A l \in 1 .. 3 : 3 * i + l <= n => m(b)[3 * i + l] = s[3 * i + l]
      BY <2>3
    <3>3. \A l \in 1 .. 3 : 3 * i + l <= n => m(c)[3 * i + l] = s[3 * i + l]
      BY <2>3
    <3> HIDE DEF m, w
    <3>4. QED BY <3>1, <3>2, <3>3
  <2> HIDE DEF m, w
  <2>7. Quad(three(b), w) = Quad(three(c), w)
    <3>1. CASE w = 1
      <4>1. m(b)[3 * i + 1] = m(c)[3 * i + 1]
        BY <2>6, <3>1
      <4>2. QED BY <3>1, <4>1 DEF Quad, EN_CODE1, EN_CODE2_T
    <3>2. CASE w = 2
      <4>1. m(b)[3 * i + 1] = m(c)[3 * i + 1] /\ m(b)[3 * i + 2] = m(c)[3 * i + 2]
        BY <2>6, <3>2
      <4>2. QED BY <3>2, <4>1 DEF Quad, EN_CODE1, EN_CODE2, EN_CODE3_T
    <3>3. CASE w = 3
      <4>1. /\ m(b)[3 * i + 1] = m(c)[3 * i + 1] /\ m(b)[3 * i + 2] = m(c)[3 * i + 2]
            /\ m(b)[3 * i + 3] = m(c)[3 * i + 3]
        BY <2>6, <3>3
      <4>2. QED BY <4>1
    <3>4. QED BY <2>5, <3>1, <3>2, <3>3
  <2>8. QED BY <2>3, <2>7
<1> HIDE DEF e
<1>4. \A k \in 1 .. Len(e(b)) : e(b)[k] = e(c)[k]
  BY <1>2, <1>3
<1>5. e(b) = e(c)
  BY <1>2, <1>4, SeqEqual
<1>6. QED BY <1>5 DEF e

LEMMA SourceType == Base64Spec => [](source \in Seq(Byte))
<1>1. Base64Init => source \in Seq(Byte)
  BY DEF Base64Init
<1>2. source \in Seq(Byte) /\ [Base64Next]_source => (source \in Seq(Byte))'
  <2>1. ASSUME source \in Seq(Byte), NEW b \in SourceBytes, AppendByte(b) PROVE source' \in Seq(Byte)
    <3>1. b \in Byte
      BY Base64Assumption DEF Byte
    <3>2. QED BY <2>1, <3>1 DEF AppendByte
  <2>2. QED BY <2>1 DEF Base64Next
<1>3. QED BY <1>1, <1>2, PTL DEF Base64Spec

(* Base64_Encode and Base64_Decode, and the size that GetBase64Size gives, *)
(* fit for every source of bytes of whatever length, and whatever memory   *)
(* lies behind it.                                                         *)
THEOREM EncodingComesBack == Base64Spec => []DecodeInvertsEncode
<1>1. source \in Seq(Byte) => DecodeInvertsEncode
  <2> SUFFICES ASSUME source \in Seq(Byte), NEW b \in SourceBytes
               PROVE  LET base64 == Base64_Encode(Behind(b), Len(source)) IN
                      /\ Len(base64) = GetBase64Size(Len(source))
                      /\ base64 = Base64_Encode(Behind(0), Len(source))
                      /\ Base64_Decode(base64) = source
    BY DEF DecodeInvertsEncode
  <2>1. b \in Byte /\ 0 \in Byte
    BY Base64Assumption DEF Byte
  <2>2. Len(Base64_Encode(Behind(b), Len(source))) = GetBase64Size(Len(source))
    <3>1. Len(source) \in Nat
      OBVIOUS
    <3>2. QED BY <2>1, <3>1, EncodedWhole, SizeOfGroups DEF Behind
  <2>3. Base64_Encode(Behind(b), Len(source)) = Base64_Encode(Behind(0), Len(source))
    BY <2>1, SameBehind DEF Behind
  <2>4. Base64_Decode(Base64_Encode(Behind(b), Len(source))) = source
    BY <2>1, DecodedBack DEF Behind
  <2>5. QED BY <2>2, <2>3, <2>4
<1>2. QED BY <1>1, SourceType, PTL

------------------------------------------------------------------------------
(* Md5. It does not matter into which pieces a message is cut.             *)

(* Quotient and remainder, and that there is only one of each.             *)
LEMMA DivMod ==
  ASSUME NEW a \in Nat, NEW b \in Nat \ {0}
  PROVE  a \div b \in Nat /\ a % b \in 0 .. b - 1 /\ a = b * (a \div b) + (a % b)
<1>1. QED OBVIOUS

LEMMA DivModIs ==
  ASSUME NEW b \in Nat \ {0}, NEW q \in Nat, NEW r \in 0 .. b - 1
  PROVE  (b * q + r) \div b = q /\ (b * q + r) % b = r
<1>1. QED OBVIOUS

(* The low word and the carry of a sum.                                    *)
Carry(a, x, W) == IF (a + x) % W < x % W THEN 1 ELSE 0

LowAndHigh(a, x, W) ==
  /\ ((a % W) + x) % W = (a + x) % W
  /\ (a + x) \div W = (a \div W) + (x \div W) + Carry(a, x, W)

LEMMA SumDiv ==
  ASSUME NEW a \in Nat, NEW x \in Nat, NEW W \in Nat \ {0}
  PROVE  LowAndHigh(a, x, W)
<1> DEFINE p == a \div W  q == x \div W  c == a % W  d == x % W
<1>1. p \in Nat /\ c \in 0 .. W - 1 /\ a = W * p + c
  BY DivMod
<1>2. q \in Nat /\ d \in 0 .. W - 1 /\ x = W * q + d
  BY DivMod
<1> HIDE DEF p, q, c, d
<1>3. CASE c + d < W
  <2>1. a + x = W * (p + q) + (c + d) /\ c + x = W * q + (c + d)
    BY <1>1, <1>2
  <2> DEFINE u == p + q
             r == c + d
  <2>2. u \in Nat /\ r \in 0 .. W - 1
    BY <1>1, <1>2, <1>3
  <2>3. (a + x) \div W = u /\ (a + x) % W = r /\ (c + x) % W = r
    <3> HIDE DEF u, r
    <3>1. (W * u + r) \div W = u /\ (W * u + r) % W = r /\ (W * q + r) % W = r
      BY <1>2, <2>2, DivModIs
    <3>2. QED BY <2>1, <3>1 DEF u, r
  <2>4. ~(c + d < d)
    BY <1>1, <1>2
  <2>5. QED BY <1>1, <1>2, <2>3, <2>4 DEF p, q, c, d, Carry, LowAndHigh
<1>4. CASE c + d >= W
  <2>1. a + x = W * (p + q + 1) + (c + d - W) /\ c + x = W * (q + 1) + (c + d - W)
    BY <1>1, <1>2
  <2> DEFINE u == p + q + 1
             v == q + 1
             r == c + d - W
  <2>2. u \in Nat /\ v \in Nat /\ r \in 0 .. W - 1
    BY <1>1, <1>2, <1>4
  <2>3. (a + x) \div W = u /\ (a + x) % W = r /\ (c + x) % W = r
    <3> HIDE DEF u, v, r
    <3>1. (W * u + r) \div W = u /\ (W * u + r) % W = r /\ (W * v + r) % W = r
      BY <2>2, DivModIs
    <3>2. QED BY <2>1, <3>1 DEF u, v, r
  <2>4. c + d - W < d
    BY <1>1, <1>2
  <2>5. QED BY <1>1, <1>2, <2>3, <2>4 DEF p, q, c, d, Carry, LowAndHigh
<1>5. QED BY <1>1, <1>2, <1>3, <1>4

(* The two words of a sum.                                                 *)
TwoWords(a, x, W) ==
  /\ ((a % W) + x) % W = (a + x) % W
  /\ (((a \div W) % W) + Carry(a, x, W) + (x \div W)) % W = ((a + x) \div W) % W

LEMMA SumWords ==
  ASSUME NEW a \in Nat, NEW x \in Nat, NEW W \in Nat \ {0}
  PROVE  TwoWords(a, x, W)
<1> DEFINE aa == a \div W
           xx == x \div W
           carry == Carry(a, x, W)
           more == carry + xx
           am == aa % W
<1>1. /\ ((a % W) + x) % W = (a + x) % W
      /\ (a + x) \div W = aa + xx + carry
  <2>1. LowAndHigh(a, x, W)
    BY SumDiv
  <2>2. QED BY <2>1, Zenon DEF LowAndHigh
<1>2. aa \in Nat /\ xx \in Nat /\ carry \in Nat /\ more \in Nat
  BY DivMod DEF Carry
<1> HIDE DEF aa, xx, carry
<1>3. am \in Nat
  BY <1>2, DivMod
<1>4. (am + more) % W = (aa + more) % W
  <2> HIDE DEF more
  <2>1. LowAndHigh(aa, more, W)
    BY <1>2, SumDiv
  <2>2. QED BY <2>1, Zenon DEF LowAndHigh, am
<1>5. am + carry + xx = am + more /\ aa + xx + carry = aa + more
  <2> HIDE DEF am
  <2> QED BY <1>2, <1>3
<1>6. (am + carry + xx) % W = ((a + x) \div W) % W
  BY <1>1, <1>4, <1>5
<1>7. QED BY <1>1, <1>6 DEF aa, xx, carry, TwoWords

(* A word has whole blocks of bits.                                        *)
LEMMA WordOfBlocks ==
  \E k \in Nat \ {0} : WORD = 8 * (BLOCK * k) /\ WORD \div 8 = BLOCK * k /\ BLOCK * k \in Nat \ {0}
<1> DEFINE k == WORD \div (8 * BLOCK)
<1>1. WORD \in Nat \ {0} /\ BLOCK \in Nat \ {0} /\ WORD % (8 * BLOCK) = 0 /\ 8 * BLOCK \in Nat \ {0}
  BY Md5Assumption
<1>2. k \in Nat /\ WORD = (8 * BLOCK) * k + 0
  BY <1>1, DivMod
<1> HIDE DEF k
<1>3. BLOCK * k \in Nat /\ (8 * BLOCK) * k = 8 * (BLOCK * k)
  BY <1>1, <1>2
<1>4. WORD = 8 * (BLOCK * k)
  BY <1>2, <1>3
<1>5. k # 0
  BY <1>1, <1>4
<1>6. QED BY <1>1, <1>2, <1>3, <1>4, <1>5

(* The two words count bits, modulo WORD * WORD, and the index in the      *)
(* buffer is right although they run over.                                 *)
LEMMA CountedBits ==
  ASSUME NEW L \in Nat, NEW len \in Nat, NEW c, c.count = BitLength(L)
  PROVE  Counted(c, len) = BitLength(L + len) /\ Index(c) = L % BLOCK
<1> PICK k \in Nat \ {0} : WORD = 8 * (BLOCK * k) /\ WORD \div 8 = BLOCK * k /\ BLOCK * k \in Nat \ {0}
  BY WordOfBlocks
<1> DEFINE V == BLOCK * k
           bits == L * 8
           Q == bits \div WORD
           R == bits % WORD
<1>1. WORD \in Nat \ {0} /\ BLOCK \in Nat \ {0} /\ V \in Nat \ {0} /\ WORD = 8 * V
  BY Md5Assumption
<1>2. Q \in Nat /\ R \in 0 .. WORD - 1 /\ L * 8 = WORD * Q + R
  <2>1. bits \in Nat
    OBVIOUS
  <2> HIDE DEF bits
  <2>2. Q \in Nat /\ R \in 0 .. WORD - 1 /\ bits = WORD * Q + R
    BY <1>1, <2>1, DivMod
  <2>3. QED BY <2>2 DEF bits
<1>3. c.count[1] = R /\ c.count[2] = Q % WORD
  BY DEF BitLength
<1>4. Index(c) = L % BLOCK
  <2> DEFINE VQ == V * Q
             rest == L - VQ
  <2>1. VQ \in Nat /\ WORD * Q = 8 * VQ
    BY <1>1, <1>2
  <2>2. R = 8 * rest /\ rest \in Nat
    <3> HIDE DEF VQ, Q, R
    <3> QED BY <1>2, <2>1
  <2>3. R \div 8 = rest
    <3> HIDE DEF rest, R
    <3> QED BY <2>2
  <2>4. VQ = BLOCK * (k * Q) /\ k * Q \in Nat
    <3> HIDE DEF Q
    <3> QED BY <1>1, <1>2
  <2>5. rest % BLOCK = L % BLOCK
    <3> DEFINE u == rest \div BLOCK
               v == rest % BLOCK
    <3>1. u \in Nat /\ v \in 0 .. BLOCK - 1 /\ rest = BLOCK * u + v
      BY <1>1, <2>2, DivMod
    <3> DEFINE w == k * Q
    <3> HIDE DEF u, v, w
    <3>2. L = BLOCK * (u + w) + v
      <4>1. L = rest + BLOCK * w
        BY <2>1, <2>4 DEF w
      <4>2. BLOCK * (u + w) = BLOCK * u + BLOCK * w
        BY <1>1, <2>4, <3>1 DEF w
      <4> HIDE DEF rest
      <4>3. QED BY <1>1, <2>4, <3>1, <4>1, <4>2 DEF w
    <3>3. u + w \in Nat
      BY <2>4, <3>1 DEF w
    <3>4. L % BLOCK = v
      BY <1>1, <3>1, <3>2, <3>3, DivModIs
    <3>5. QED BY <3>4 DEF v
  <2>6. QED BY <1>3, <2>3, <2>5 DEF Index
<1>5. len \div (WORD \div 8) = (len * 8) \div WORD
  <2> DEFINE u == len \div V
             v == len % V
  <2>1. u \in Nat /\ v \in 0 .. V - 1 /\ len = V * u + v
    BY <1>1, DivMod
  <2> HIDE DEF u, v, V
  <2>2. V * u \in Nat /\ len * 8 = 8 * (V * u) + 8 * v
    BY <1>1, <2>1
  <2>3. 8 * (V * u) = WORD * u
    BY <1>1, <2>1
  <2>4. len * 8 = WORD * u + 8 * v /\ 8 * v \in 0 .. WORD - 1
    BY <1>1, <2>1, <2>2, <2>3
  <2>5. (len * 8) \div WORD = u
    BY <1>1, <2>1, <2>4, DivModIs
  <2>6. QED BY <2>5 DEF u, V
<1>6. Counted(c, len) = BitLength(L + len)
  <2> DEFINE a == L * 8
             x == len * 8
             carry == Carry(a, x, WORD)
  <2>1. a \in Nat /\ x \in Nat /\ (L + len) * 8 = a + x
    OBVIOUS
  <2> HIDE DEF a, x
  <2>2. /\ ((a % WORD) + x) % WORD = (a + x) % WORD
        /\ (((a \div WORD) % WORD) + carry + (x \div WORD)) % WORD = ((a + x) \div WORD) % WORD
    <3>1. WORD \in Nat \ {0}
      BY <1>1
    <3>2. a \in Nat /\ x \in Nat
      BY <2>1
    <3>3. TwoWords(a, x, WORD)
      BY ONLY <3>1, <3>2, SumWords
    <3>4. QED BY <3>3, Zenon DEF TwoWords
  <2>3. BitLength(L + len) = <<(a + x) % WORD, ((a + x) \div WORD) % WORD>>
    BY <2>1, Zenon DEF BitLength
  <2>4. Counted(c, len) = <<(a + x) % WORD, (((a \div WORD) % WORD) + carry + (x \div WORD)) % WORD>>
    BY <1>3, <1>5, <2>2, Zenon DEF Counted, Carry, a, x
  <2>5. QED BY <2>2, <2>3, <2>4
<1>7. QED BY <1>4, <1>6

(* The context has taken in the message M.                                 *)
Absorbed(c, M) ==
  /\ c.count = BitLength(Len(M))
  /\ \A j \in 1 .. Len(M) % BLOCK : c.buffer[j] = M[Len(M) - (Len(M) % BLOCK) + j]
  /\ c.blocks = InBlocks(M)

(* A block of the message.                                                 *)
BlockOf(M, i) == SubSeq(M, (i - 1) * BLOCK + 1, i * BLOCK)

LEMMA BlockCut ==
  ASSUME NEW T, NEW M \in Seq(T), NEW i \in Nat \ {0}, i * BLOCK <= Len(M)
  PROVE  /\ BlockOf(M, i) \in Seq(T) /\ Len(BlockOf(M, i)) = BLOCK
         /\ (i - 1) * BLOCK \in Nat /\ i * BLOCK = (i - 1) * BLOCK + BLOCK
         /\ \A j \in 1 .. BLOCK : BlockOf(M, i)[j] = M[(i - 1) * BLOCK + j]
<1> DEFINE before == (i - 1) * BLOCK
<1>1. before \in Nat /\ i * BLOCK = before + BLOCK /\ BLOCK \in Nat \ {0}
  BY Md5Assumption
<1>2. before + BLOCK <= Len(M) /\ Len(M) \in Nat
  BY <1>1
<1> HIDE DEF before
<1>3. \A j \in before + 1 .. before + BLOCK : M[j] \in T
  BY <1>1, <1>2
<1> DEFINE cut == SubSeq(M, before + 1, before + BLOCK)
<1>4. cut \in Seq(T) /\ Len(cut) = BLOCK /\ \A j \in 1 .. BLOCK : cut[j] = M[before + j]
  <2> DEFINE from == before + 1
             to == before + BLOCK
  <2>1. from \in Int /\ to \in Int /\ from <= to /\ to - from + 1 = BLOCK
    BY <1>1, <1>2
  <2>2. cut = SubSeq(M, from, to) /\ \A j \in 1 .. BLOCK : from + j - 1 = before + j
    BY <1>1
  <2> HIDE DEF cut, from, to
  <2>3. \A j \in from .. to : M[j] \in T
    BY <1>3 DEF from, to
  <2>4. cut \in Seq(T) /\ Len(cut) = BLOCK /\ \A j \in 1 .. BLOCK : cut[j] = M[from + j - 1]
    BY <2>1, <2>2, <2>3, SubSeqProperties
  <2>5. QED BY <2>2, <2>4
<1>5. BlockOf(M, i) = cut
  BY <1>1 DEF BlockOf, before
<1> HIDE DEF cut
<1>6. QED BY <1>1, <1>4, <1>5 DEF before

(* As many whole blocks as fit, each where it starts.                      *)
LEMMA WholeBlocks ==
  ASSUME NEW L \in Nat, NEW i \in 1 .. L \div BLOCK
  PROVE  i * BLOCK <= L
<1> DEFINE q == L \div BLOCK
           r == L % BLOCK
<1>1. BLOCK \in Nat \ {0} /\ q \in Nat /\ r \in Nat /\ L = BLOCK * q + r
  BY Md5Assumption, DivMod
<1> HIDE DEF q, r
<1>2. i \in Int /\ i <= q
  BY DEF q
<1>3. BLOCK * (q - i) \in Nat
  BY <1>1, <1>2
<1>4. BLOCK * (q - i) = BLOCK * q - i * BLOCK
  BY <1>1, <1>2
<1> DEFINE x == BLOCK * q
           y == i * BLOCK
<1>5. x \in Int /\ y \in Int
  BY <1>1, <1>2
<1>6. x - y \in Nat /\ L = x + r
  BY <1>1, <1>3, <1>4
<1> HIDE DEF x, y
<1>7. y <= L
  BY <1>1, <1>5, <1>6
<1>8. QED BY <1>7 DEF y

(* A message that only grows keeps its blocks.                             *)
LEMMA BlockStays ==
  ASSUME NEW T, NEW M \in Seq(T), NEW input \in Seq(T), NEW i \in 1 .. Len(M) \div BLOCK
  PROVE  BlockOf(M \o input, i) = BlockOf(M, i)
<1>1. i \in Nat \ {0} /\ i * BLOCK <= Len(M)
  <2>1. Len(M) \in Nat /\ BLOCK \in Nat \ {0}
    BY Md5Assumption
  <2>2. Len(M) \div BLOCK \in Nat
    BY <2>1, DivMod
  <2>3. i * BLOCK <= Len(M)
    BY <2>1, WholeBlocks
  <2>4. QED BY <2>2, <2>3
<1>2. M \o input \in Seq(T) /\ Len(M \o input) = Len(M) + Len(input) /\ Len(M) \in Nat /\ Len(input) \in Nat
  OBVIOUS
<1>3. i * BLOCK <= Len(M \o input)
  BY <1>1, <1>2, Md5Assumption
<1>4. /\ BlockOf(M, i) \in Seq(T) /\ Len(BlockOf(M, i)) = BLOCK
      /\ \A j \in 1 .. BLOCK : BlockOf(M, i)[j] = M[(i - 1) * BLOCK + j]
      /\ (i - 1) * BLOCK \in Nat /\ i * BLOCK = (i - 1) * BLOCK + BLOCK
  BY <1>1, BlockCut
<1>5. /\ BlockOf(M \o input, i) \in Seq(T) /\ Len(BlockOf(M \o input, i)) = BLOCK
      /\ \A j \in 1 .. BLOCK : BlockOf(M \o input, i)[j] = (M \o input)[(i - 1) * BLOCK + j]
  <2> DEFINE N == M \o input
  <2> HIDE DEF N
  <2>1. N \in Seq(T) /\ i * BLOCK <= Len(N)
    BY <1>2, <1>3 DEF N
  <2>2. /\ BlockOf(N, i) \in Seq(T) /\ Len(BlockOf(N, i)) = BLOCK
        /\ \A j \in 1 .. BLOCK : BlockOf(N, i)[j] = N[(i - 1) * BLOCK + j]
    BY <1>1, <2>1, BlockCut
  <2>3. QED BY <2>2 DEF N
<1>6. \A j \in 1 .. BLOCK : (M \o input)[(i - 1) * BLOCK + j] = M[(i - 1) * BLOCK + j]
  <2> DEFINE before == (i - 1) * BLOCK
  <2>1. before \in Nat /\ before + BLOCK <= Len(M)
    BY <1>1, <1>4
  <2> HIDE DEF before
  <2>2. \A j \in 1 .. BLOCK : (M \o input)[before + j] = M[before + j]
    BY <2>1, Md5Assumption
  <2>3. QED BY <2>2 DEF before
<1>7. \A j \in 1 .. BLOCK : BlockOf(M \o input, i)[j] = BlockOf(M, i)[j]
  BY <1>4, <1>5, <1>6
<1>8. QED BY <1>4, <1>5, <1>7, SeqEqual

(* What is in the buffer, and the input, when there is not enough for a    *)
(* block.                                                                  *)
LEMMA TakesLittle ==
  ASSUME NEW T, NEW M \in Seq(T), NEW input \in Seq(T), NEW c, Absorbed(c, M),
         Len(input) < BLOCK - (Len(M) % BLOCK)
  PROVE  Absorbed(MD5Update(c, input), M \o input)
<1> DEFINE L == Len(M)
           N == Len(input)
           q == L \div BLOCK
           r == L % BLOCK
           S == M \o input
<1>1. L \in Nat /\ N \in Nat /\ BLOCK \in Nat \ {0} /\ S \in Seq(T) /\ Len(S) = L + N
  BY Md5Assumption
<1>2. q \in Nat /\ r \in 0 .. BLOCK - 1 /\ L = BLOCK * q + r
  BY <1>1, DivMod
<1>3. Counted(c, N) = BitLength(L + N) /\ Index(c) = r
  BY <1>1, CountedBits DEF Absorbed
<1>4. MD5Update(c, input) =
        [count |-> Counted(c, N), buffer |-> Copied(c.buffer, r, input), blocks |-> c.blocks]
  BY <1>3 DEF MD5Update
<1> DEFINE base == BLOCK * q
           t == r + N
<1> HIDE DEF q, r, S
<1>5. base \in Nat /\ t \in 0 .. BLOCK - 1 /\ L + N = base + t /\ L = base + r
  <2>1. N < BLOCK - r
    BY DEF r
  <2>2. base \in Nat /\ L = base + r
    BY <1>1, <1>2
  <2>3. r \in 0 .. BLOCK - 1 /\ N \in Nat /\ BLOCK \in Nat
    BY <1>1, <1>2
  <2>4. t \in 0 .. BLOCK - 1
    BY <2>1, <2>3
  <2> HIDE DEF base
  <2>5. QED BY <2>2, <2>3, <2>4
<1> HIDE DEF base
<1>6. (L + N) \div BLOCK = q /\ (L + N) % BLOCK = t
  <2>1. (BLOCK * q + t) \div BLOCK = q /\ (BLOCK * q + t) % BLOCK = t
    <3> HIDE DEF t
    <3> QED BY <1>1, <1>2, <1>5, DivModIs
  <2>2. QED BY <1>5, <2>1 DEF base
<1>7. InBlocks(S) = InBlocks(M)
  <2>1. \A i \in 1 .. q : BlockOf(S, i) = BlockOf(M, i)
    BY BlockStays DEF S, q
  <2>2. InBlocks(S) = [i \in 1 .. q |-> BlockOf(S, i)]
    BY <1>1, <1>6, Zenon DEF InBlocks, BlockOf
  <2>3. InBlocks(M) = [i \in 1 .. q |-> BlockOf(M, i)]
    BY Zenon DEF InBlocks, BlockOf, q
  <2>4. QED BY <2>1, <2>2, <2>3
<1>8. ASSUME NEW j \in 1 .. t PROVE Copied(c.buffer, r, input)[j] = S[base + j]
  <2>1. Copied(c.buffer, r, input)[j] = IF j - r \in 1 .. N THEN input[j - r] ELSE c.buffer[j]
    <3>1. j \in 1 .. BLOCK /\ DOMAIN input = 1 .. N
      BY <1>1, <1>5
    <3>2. QED BY <3>1 DEF Copied
  <2>2. CASE j > r
    <3>1. j - r \in 1 .. N /\ base + j = L + (j - r)
      BY <1>1, <1>2, <1>5, <2>2
    <3>2. S[L + (j - r)] = input[j - r]
      BY <1>1, <3>1 DEF S
    <3>3. QED BY <2>1, <3>1, <3>2
  <2>3. CASE j <= r
    <3>1. ~(j - r \in 1 .. N) /\ j \in 1 .. r /\ base + j \in 1 .. L
      <4>1. j \in Nat \ {0} /\ r \in Nat
        BY <1>2, <1>5
      <4> base \in Nat /\ L = base + r
        BY <1>5
      <4>2. QED BY <2>3, <4>1
    <3>2. c.buffer[j] = M[L - r + j]
      BY <3>1 DEF Absorbed, r
    <3>3. L - r + j = base + j
      <4>1. j \in Nat /\ r \in Nat
        BY <1>2, <1>5
      <4>2. base \in Nat /\ L = base + r
        BY <1>5
      <4>3. QED BY ONLY <4>1, <4>2
    <3>4. S[base + j] = M[base + j]
      BY <1>1, <3>1 DEF S
    <3>5. QED BY <2>1, <3>1, <3>2, <3>3, <3>4
  <2>4. QED BY <1>2, <1>5, <2>2, <2>3
<1>9. Len(S) - (Len(S) % BLOCK) = base
  BY <1>1, <1>5, <1>6
<1>10. \A j \in 1 .. Len(S) % BLOCK : Copied(c.buffer, r, input)[j] = S[Len(S) - (Len(S) % BLOCK) + j]
  BY <1>1, <1>6, <1>8, <1>9
<1>11. Absorbed(MD5Update(c, input), S)
  BY <1>1, <1>3, <1>4, <1>7, <1>10 DEF Absorbed
<1>12. QED BY <1>11 DEF S

(* Two sequences and what is between them.                                 *)
LEMMA OneMore ==
  ASSUME NEW U, NEW s1 \in Seq(U), NEW x \in U, NEW s2 \in Seq(U)
  PROVE  LET s == Append(s1, x) \o s2 IN
         /\ s \in Seq(U) /\ Len(s) = Len(s1) + 1 + Len(s2)
         /\ \A k \in 1 .. Len(s1) : s[k] = s1[k]
         /\ s[Len(s1) + 1] = x
         /\ \A k \in 1 .. Len(s2) : s[Len(s1) + 1 + k] = s2[k]
<1> DEFINE m == Append(s1, x)
<1>1. /\ m \in Seq(U) /\ Len(m) = Len(s1) + 1
      /\ \A k \in 1 .. Len(s1) : m[k] = s1[k]
      /\ m[Len(s1) + 1] = x
  OBVIOUS
<1> HIDE DEF m
<1>2. /\ m \o s2 \in Seq(U) /\ Len(m \o s2) = Len(m) + Len(s2)
      /\ \A k \in 1 .. Len(m) : (m \o s2)[k] = m[k]
      /\ \A k \in 1 .. Len(s2) : (m \o s2)[Len(m) + k] = s2[k]
  BY <1>1
<1>3. QED BY <1>1, <1>2 DEF m

(* The input fills the buffer, and whole blocks are taken from the rest.   *)
LEMMA TakesBlocks ==
  ASSUME NEW T, NEW M \in Seq(T), NEW input \in Seq(T), NEW c, Absorbed(c, M),
         ~(Len(input) < BLOCK - (Len(M) % BLOCK))
  PROVE  Absorbed(MD5Update(c, input), M \o input)
<1> DEFINE L == Len(M)
           N == Len(input)
           q == L \div BLOCK
           r == L % BLOCK
           part == BLOCK - r
           over == N - part
           more == over \div BLOCK
           t == over % BLOCK
           S == M \o input
           first == Copied(c.buffer, r, SubSeq(input, 1, part))
           rest == [i \in 1 .. more |-> SubSeq(input, part + (i - 1) * BLOCK + 1, part + i * BLOCK)]
           done == part + more * BLOCK
           last == Copied(first, 0, SubSeq(input, done + 1, N))
           base == BLOCK * q
           moreBlocks == more * BLOCK
<1>1. L \in Nat /\ N \in Nat /\ BLOCK \in Nat \ {0} /\ S \in Seq(T) /\ Len(S) = L + N
  BY Md5Assumption
<1>2. q \in Nat /\ r \in 0 .. BLOCK - 1 /\ L = base + r
  BY <1>1, DivMod
<1>3. Counted(c, N) = BitLength(L + N) /\ Index(c) = r
  BY <1>1, CountedBits DEF Absorbed
<1>4. MD5Update(c, input) =
        [count |-> Counted(c, N), buffer |-> last, blocks |-> Append(c.blocks, first) \o rest]
  BY <1>3 DEF MD5Update
<1>5. part \in 1 .. BLOCK /\ over \in Nat /\ N = part + over
  <2>1. r \in 0 .. BLOCK - 1 /\ N \in Nat /\ BLOCK \in Nat /\ ~(N < BLOCK - r)
    BY <1>1, <1>2
  <2> HIDE DEF r, N
  <2>2. QED BY <2>1
<1> HIDE DEF q, r, part, over, S
<1>6. more \in Nat /\ t \in 0 .. BLOCK - 1 /\ over = BLOCK * more + t
  BY <1>1, <1>5, DivMod
<1> HIDE DEF more, t
<1>7. base \in Nat /\ moreBlocks \in Nat /\ over = moreBlocks + t
  <2>1. base \in Nat
    BY <1>1, <1>2
  <2>2. moreBlocks \in Nat /\ BLOCK * more = moreBlocks
    BY <1>1, <1>6
  <2>3. QED BY <1>6, <2>1, <2>2
<1> DEFINE blocksNow == q + 1 + more
<1>8. blocksNow \in Nat /\ (L + N) \div BLOCK = blocksNow /\ (L + N) % BLOCK = t
  <2>1. BLOCK * blocksNow = base + BLOCK + moreBlocks
    BY <1>1, <1>2, <1>6
  <2>2. blocksNow \in Nat
    BY <1>2, <1>6
  <2>3. (BLOCK * blocksNow + t) \div BLOCK = blocksNow /\ (BLOCK * blocksNow + t) % BLOCK = t
    <3> HIDE DEF blocksNow
    <3> QED BY <1>1, <1>6, <2>2, DivModIs
  <2>4. L + N = base + BLOCK + moreBlocks + t
    <3> HIDE DEF base, moreBlocks, L, N
    <3> QED BY <1>1, <1>2, <1>5, <1>6, <1>7 DEF part
  <2>5. QED BY <2>1, <2>2, <2>3, <2>4
<1> HIDE DEF base, moreBlocks
<1>9. first = BlockOf(S, q + 1) /\ first \in Seq(T)
  <2> DEFINE k == q + 1
  <2>1. k \in Nat \ {0} /\ k * BLOCK = base + BLOCK /\ (k - 1) * BLOCK = base
    BY <1>1, <1>2 DEF base
  <2> HIDE DEF k
  <2>2. base + BLOCK <= L + N
    <3>1. part <= N /\ part = BLOCK - r /\ r \in Nat /\ base \in Nat /\ L = base + r
      BY <1>1, <1>2, <1>5, <1>7 DEF part
    <3> HIDE DEF L, N
    <3>2. QED BY <1>1, <1>5, <3>1
  <2>3. /\ BlockOf(S, k) \in Seq(T) /\ Len(BlockOf(S, k)) = BLOCK
        /\ \A j \in 1 .. BLOCK : BlockOf(S, k)[j] = S[base + j]
    <3>1. k * BLOCK <= Len(S)
      BY <1>1, <2>1, <2>2
    <3>2. /\ BlockOf(S, k) \in Seq(T) /\ Len(BlockOf(S, k)) = BLOCK
          /\ \A j \in 1 .. BLOCK : BlockOf(S, k)[j] = S[(k - 1) * BLOCK + j]
      BY <1>1, <2>1, <3>1, BlockCut
    <3>3. QED BY <2>1, <3>2
  <2>4. /\ SubSeq(input, 1, part) \in Seq(T) /\ Len(SubSeq(input, 1, part)) = part
        /\ \A j \in 1 .. part : SubSeq(input, 1, part)[j] = input[j]
    <3>1. part \in Int /\ part <= N /\ part >= 1
      BY <1>1, <1>5
    <3>2. \A j \in 1 .. part : input[j] \in T
      BY <3>1
    <3>3. QED BY <3>1, <3>2, SubSeqProperties
  <2>5. ASSUME NEW j \in 1 .. BLOCK PROVE first[j] = S[base + j]
    <3>1. first[j] = IF j - r \in 1 .. part THEN input[j - r] ELSE c.buffer[j]
      <4>1. DOMAIN SubSeq(input, 1, part) = 1 .. part
        BY <1>5, <2>4
      <4>2. QED BY <2>4, <4>1 DEF Copied
    <3>2. CASE j > r
      <4>1. j - r \in 1 .. part
        BY <1>1, <1>2, <3>2 DEF part
      <4>2. j - r \in 1 .. N /\ base + j = L + (j - r)
        <5>1. j \in Nat /\ r \in Nat /\ base \in Nat /\ L = base + r /\ part <= N /\ N \in Nat /\ part \in Nat
          BY <1>1, <1>2, <1>5, <1>7
        <5> HIDE DEF L, N
        <5>2. QED BY <4>1, <5>1
      <4>3. S[L + (j - r)] = input[j - r]
        BY <1>1, <4>2 DEF S
      <4>4. QED BY <3>1, <4>1, <4>2, <4>3
    <3>3. CASE j <= r
      <4>1. ~(j - r \in 1 .. part) /\ j \in 1 .. r
        BY <1>2, <1>5, <3>3
      <4>2. c.buffer[j] = M[L - r + j]
        BY <4>1 DEF Absorbed, r
      <4>3. L - r + j = base + j /\ base + j \in 1 .. L
        <5>1. j \in Nat \ {0} /\ r \in Nat /\ base \in Nat /\ L = base + r
          BY <1>2, <1>7
        <5>2. QED BY <3>3, <5>1
      <4>4. S[base + j] = M[base + j]
        BY <1>1, <4>3 DEF S
      <4>5. QED BY <3>1, <4>1, <4>2, <4>3, <4>4
    <3>4. QED BY <1>2, <3>2, <3>3
  <2>6. \A j \in 1 .. BLOCK : S[base + j] \in T
    BY <1>1, <1>7, <2>2, ElementOfSeq
  <2>7. first \in Seq(T) /\ Len(first) = BLOCK
    <3>1. first = [j \in 1 .. BLOCK |-> first[j]]
      BY DEF Copied
    <3> HIDE DEF first
    <3>2. \A j \in 1 .. BLOCK : first[j] \in T
      BY <2>5, <2>6
    <3>3. first \in [1 .. BLOCK -> T]
      BY <3>1, <3>2
    <3>4. QED BY <1>1, <3>3
  <2> HIDE DEF first
  <2>8. \A j \in 1 .. Len(first) : first[j] = BlockOf(S, k)[j]
    BY <2>3, <2>5, <2>7
  <2>9. first = BlockOf(S, k)
    BY <2>3, <2>7, <2>8, SeqEqual
  <2>10. QED BY <2>7, <2>9 DEF k
<1>10. ASSUME NEW i \in 1 .. more PROVE rest[i] = BlockOf(S, q + 1 + i) /\ rest[i] \in Seq(T)
  <2> DEFINE x == (i - 1) * BLOCK
             cut == SubSeq(input, part + x + 1, part + x + BLOCK)
             k == q + 1 + i
  <2>1. x \in Nat /\ i * BLOCK = x + BLOCK
    BY <1>1, <1>6
  <2>2. x + BLOCK <= moreBlocks
    <3>1. BLOCK * (more - i) \in Nat
      BY <1>1, <1>6
    <3>2. BLOCK * (more - i) = moreBlocks - (x + BLOCK)
      BY <1>1, <1>6 DEF moreBlocks
    <3> HIDE DEF x
    <3>3. QED BY <1>1, <1>7, <2>1, <3>1, <3>2
  <2>3. (k - 1) * BLOCK = base + BLOCK + x /\ k * BLOCK = base + BLOCK + x + BLOCK /\ k \in Nat \ {0}
    BY <1>1, <1>2, <1>6 DEF base
  <2>4. rest[i] = cut
    <3>1. rest[i] = SubSeq(input, part + x + 1, part + i * BLOCK)
      BY DEF rest
    <3> HIDE DEF x
    <3>2. part + i * BLOCK = part + x + BLOCK
      BY <1>1, <1>5, <2>1
    <3>3. QED BY <3>1, <3>2
  <2> HIDE DEF x, k, L, N
  <2>5. part + x + BLOCK <= N /\ base + BLOCK + x + BLOCK <= L + N /\ base + BLOCK = L + part
    BY <1>1, <1>2, <1>5, <1>6, <1>7, <2>1, <2>2 DEF part
  <2>6. cut \in Seq(T) /\ Len(cut) = BLOCK /\ \A j \in 1 .. BLOCK : cut[j] = input[part + x + j]
    <3>1. \A j \in part + x + 1 .. part + x + BLOCK : input[j] \in T
      BY <1>1, <1>5, <2>1, <2>5, ElementOfSeq DEF N
    <3>2. part + x + 1 \in Int /\ part + x + BLOCK \in Int
      BY <1>1, <1>5, <2>1
    <3>3. QED BY <1>1, <1>5, <2>1, <3>1, <3>2, SubSeqProperties
  <2>7. /\ BlockOf(S, k) \in Seq(T) /\ Len(BlockOf(S, k)) = BLOCK
        /\ \A j \in 1 .. BLOCK : BlockOf(S, k)[j] = S[base + BLOCK + x + j]
    <3>1. k * BLOCK <= Len(S)
      BY <1>1, <2>3, <2>5
    <3>2. /\ BlockOf(S, k) \in Seq(T) /\ Len(BlockOf(S, k)) = BLOCK
          /\ \A j \in 1 .. BLOCK : BlockOf(S, k)[j] = S[(k - 1) * BLOCK + j]
      BY <1>1, <2>3, <3>1, BlockCut
    <3>3. QED BY <2>3, <3>2
  <2>8. ASSUME NEW j \in 1 .. BLOCK PROVE cut[j] = BlockOf(S, k)[j]
    <3>1. base + BLOCK + x + j = L + (part + x + j) /\ part + x + j \in 1 .. N
      BY <1>1, <1>2, <1>5, <1>7, <2>1, <2>5
    <3>2. S[L + (part + x + j)] = input[part + x + j]
      <4> DEFINE y == part + x + j
      <4>1. y \in 1 .. Len(input)
        BY <3>1 DEF N
      <4> HIDE DEF y
      <4>2. S[L + y] = input[y]
        BY <4>1 DEF S, L
      <4>3. QED BY <4>2 DEF y
    <3>3. QED BY <2>6, <2>7, <3>1, <3>2
  <2> HIDE DEF cut
  <2>9. cut = BlockOf(S, k)
    BY <2>6, <2>7, <2>8, SeqEqual
  <2>10. QED BY <2>4, <2>6, <2>9 DEF k
<1> HIDE DEF first, rest
<1>11. Append(c.blocks, first) \o rest = InBlocks(S)
  <2> DEFINE old == c.blocks
             new == Append(old, first) \o rest
             all == InBlocks(S)
  <2>1. old = [i \in 1 .. q |-> BlockOf(M, i)]
    BY Zenon DEF Absorbed, InBlocks, BlockOf, q
  <2>2. \A i \in 1 .. q : BlockOf(M, i) = BlockOf(S, i)
    BY BlockStays DEF S, q
  <2>3. all = [i \in 1 .. blocksNow |-> BlockOf(S, i)]
    BY <1>1, <1>8, Zenon DEF InBlocks, BlockOf
  <2>4. ASSUME NEW i \in 1 .. blocksNow PROVE BlockOf(S, i) \in Seq(T)
    <3>1. i * BLOCK <= L + N
      BY <1>1, <1>8, WholeBlocks
    <3>2. i \in Nat \ {0}
      BY <1>8
    <3>3. QED BY <1>1, <3>1, <3>2, BlockCut
  <2>5. all \in Seq(Seq(T)) /\ Len(all) = blocksNow
    <3> HIDE DEF all, blocksNow
    <3>1. all \in [1 .. blocksNow -> Seq(T)]
      BY <2>3, <2>4
    <3>2. QED BY <1>8, <3>1
  <2>6. old \in Seq(Seq(T)) /\ Len(old) = q
    <3>1. \A i \in 1 .. q : BlockOf(M, i) \in Seq(T)
      BY <1>2, <1>6, <2>2, <2>4
    <3>2. QED BY <1>2, <2>1, <3>1
  <2>7. rest \in Seq(Seq(T)) /\ Len(rest) = more
    <3>1. rest = [i \in 1 .. more |-> rest[i]]
      BY DEF rest
    <3>2. rest \in [1 .. more -> Seq(T)]
      BY <1>10, <3>1
    <3>3. QED BY <1>6, <3>2
  <2> DEFINE Block == Seq(T)
  <2> HIDE DEF old
  <2>8. /\ new \in Seq(Block) /\ Len(new) = blocksNow
        /\ \A i \in 1 .. q : new[i] = old[i]
        /\ new[q + 1] = first
        /\ \A i \in 1 .. more : new[q + 1 + i] = rest[i]
    <3>1. old \in Seq(Block) /\ first \in Block /\ rest \in Seq(Block)
      BY <1>9, <2>6, <2>7
    <3> HIDE DEF Block
    <3>2. /\ new \in Seq(Block) /\ Len(new) = Len(old) + 1 + Len(rest)
          /\ \A k \in 1 .. Len(old) : new[k] = old[k]
          /\ new[Len(old) + 1] = first
          /\ \A k \in 1 .. Len(rest) : new[Len(old) + 1 + k] = rest[k]
      BY <3>1, OneMore
    <3> HIDE DEF new
    <3>3. QED BY <2>6, <2>7, <3>2
  <2> HIDE DEF new, all
  <2>9. ASSUME NEW i \in 1 .. blocksNow PROVE new[i] = all[i]
    <3>1. all[i] = BlockOf(S, i)
      BY <2>3
    <3>2. CASE i <= q
      <4>1. i \in 1 .. q
        BY <1>2, <1>8, <3>2
      <4>2. new[i] = old[i]
        BY <2>8, <4>1
      <4>3. QED BY <2>1, <2>2, <3>1, <4>1, <4>2 DEF old
    <3>3. CASE i = q + 1
      BY <1>9, <2>8, <3>1, <3>3
    <3>4. CASE i > q + 1
      <4> DEFINE k == i - q - 1
      <4>1. k \in 1 .. more /\ i = q + 1 + k
        BY <1>2, <1>6, <3>4
      <4> HIDE DEF k
      <4>2. new[q + 1 + k] = rest[k]
        BY <2>8, <4>1
      <4>3. QED BY <1>10, <3>1, <4>1, <4>2
    <3>5. QED BY <1>2, <1>8, <3>2, <3>3, <3>4
  <2> HIDE DEF new, all
  <2>10. new = all
    BY <2>5, <2>8, <2>9, SeqEqual
  <2>11. QED BY <2>10 DEF new, all, old
<1>12. ASSUME NEW j \in 1 .. t PROVE last[j] = S[L + N - t + j]
  <2> HIDE DEF L, N
  <2>1. done \in Nat /\ N = done + t
    <3>1. done = part + moreBlocks
      BY Zenon DEF moreBlocks
    <3>2. part \in Nat /\ moreBlocks \in Nat /\ t \in Nat /\ N = part + (moreBlocks + t)
      BY <1>5, <1>6, <1>7
    <3>3. QED BY ONLY <3>1, <3>2
  <2> HIDE DEF done
  <2>2. /\ Len(SubSeq(input, done + 1, N)) = t
        /\ \A i \in 1 .. t : SubSeq(input, done + 1, N)[i] = input[done + i]
        /\ DOMAIN SubSeq(input, done + 1, N) = 1 .. t
    <3>1. \A i \in done + 1 .. N : input[i] \in T
      BY <1>1, <2>1 DEF N
    <3>2. done + 1 \in Int /\ N \in Int /\ N - (done + 1) + 1 = t /\ t \in Nat
      BY <1>1, <1>6, <2>1
    <3> DEFINE cut == SubSeq(input, done + 1, N)
    <3>3. cut \in Seq(T) /\ Len(cut) = t /\ \A i \in 1 .. t : cut[i] = input[done + i]
      <4>1. /\ cut \in Seq(T) /\ Len(cut) = (IF done + 1 <= N THEN N - (done + 1) + 1 ELSE 0)
            /\ \A i \in 1 .. N - (done + 1) + 1 : cut[i] = input[done + 1 + i - 1]
        BY <3>1, <3>2, SubSeqProperties
      <4>2. \A i \in 1 .. t : done + 1 + i - 1 = done + i
        BY <1>6, <2>1
      <4> HIDE DEF cut
      <4>3. QED BY <2>1, <3>2, <4>1, <4>2
    <3> HIDE DEF cut
    <3>4. DOMAIN cut = 1 .. t
      BY <3>3
    <3>5. QED BY <3>3, <3>4 DEF cut
  <2>3. last[j] = input[done + j]
    <3>1. j \in 1 .. BLOCK /\ j - 0 \in 1 .. t /\ j - 0 = j
      BY <1>1, <1>6
    <3>2. QED BY <2>2, <3>1 DEF Copied
  <2>4. done + j \in 1 .. N /\ L + N - t + j = L + (done + j)
    BY <1>1, <1>6, <2>1
  <2>5. S[L + (done + j)] = input[done + j]
    <3> DEFINE y == done + j
    <3>1. y \in 1 .. Len(input)
      BY <2>4 DEF N
    <3> HIDE DEF y
    <3>2. S[L + y] = input[y]
      BY <3>1 DEF S, L
    <3>3. QED BY <3>2 DEF y
  <2>6. QED BY <2>3, <2>4, <2>5
<1> HIDE DEF last
<1>13. \A j \in 1 .. Len(S) % BLOCK : last[j] = S[Len(S) - (Len(S) % BLOCK) + j]
  <2> HIDE DEF L, N, blocksNow
  <2>1. Len(S) = L + N /\ Len(S) % BLOCK = t
    BY <1>1, <1>8
  <2>2. SUFFICES ASSUME NEW j \in 1 .. Len(S) % BLOCK
                 PROVE  last[j] = S[Len(S) - (Len(S) % BLOCK) + j]
    OBVIOUS
  <2>3. last[j] = S[L + N - t + j]
    BY <1>12, <2>1
  <2>4. Len(S) - (Len(S) % BLOCK) + j = L + N - t + j
    <3>1. L \in Nat /\ N \in Nat /\ t \in Nat
      BY <1>1, <1>6
    <3>2. QED BY <2>1, <3>1
  <2>5. QED BY <2>3, <2>4
<1>14. Absorbed(MD5Update(c, input), S)
  BY <1>1, <1>3, <1>4, <1>11, <1>13 DEF Absorbed
<1>15. QED BY <1>14 DEF S

(* However long a piece is.                                                *)
LEMMA Takes ==
  ASSUME NEW T, NEW M \in Seq(T), NEW input \in Seq(T), NEW c, Absorbed(c, M)
  PROVE  Absorbed(MD5Update(c, input), M \o input)
<1>1. QED BY TakesLittle, TakesBlocks

(* The padding leads to the length with as few bytes as can be, one at     *)
(* least.                                                                  *)
LEMMA PadIsShort ==
  ASSUME NEW n \in Nat
  PROVE  PadLen(n % BLOCK) = 1 + Zeros(n) /\ Zeros(n) \in Nat
<1> DEFINE q == n \div BLOCK
           r == n % BLOCK
           z0 == PadLen(r) - 1
<1>1. BLOCK \in Nat \ {0} /\ FIELD \in 1 .. BLOCK - 1
  BY Md5Assumption
<1>2. q \in Nat /\ r \in 0 .. BLOCK - 1 /\ n = BLOCK * q + r
  BY <1>1, DivMod
<1> HIDE DEF q, r
<1>3. /\ z0 \in 0 .. BLOCK - 1
      /\ r + 1 + z0 + FIELD = BLOCK \/ r + 1 + z0 + FIELD = 2 * BLOCK
  BY <1>1, <1>2 DEF PadLen
<1> HIDE DEF z0
<1>4. (n + 1 + z0 + FIELD) % BLOCK = 0
  <2>1. CASE r + 1 + z0 + FIELD = BLOCK
    <3> DEFINE u == q + 1
    <3>1. n + 1 + z0 + FIELD = BLOCK * u + 0 /\ u \in Nat
      BY <1>1, <1>2, <1>3, <2>1
    <3> HIDE DEF u
    <3>2. 0 \in 0 .. BLOCK - 1
      BY <1>1
    <3>3. (BLOCK * u + 0) % BLOCK = 0
      BY <1>1, <3>1, <3>2, DivModIs
    <3>4. QED BY <3>1, <3>3
  <2>2. CASE r + 1 + z0 + FIELD = 2 * BLOCK
    <3> DEFINE u == q + 2
    <3>1. n + 1 + z0 + FIELD = BLOCK * u + 0 /\ u \in Nat
      BY <1>1, <1>2, <1>3, <2>2
    <3> HIDE DEF u
    <3>2. 0 \in 0 .. BLOCK - 1
      BY <1>1
    <3>3. (BLOCK * u + 0) % BLOCK = 0
      BY <1>1, <3>1, <3>2, DivModIs
    <3>4. QED BY <3>1, <3>3
  <2>3. QED BY <1>3, <2>1, <2>2
<1>5. ASSUME NEW z \in 0 .. BLOCK - 1, (n + 1 + z + FIELD) % BLOCK = 0 PROVE z = z0
  <2> DEFINE a == n + 1 + z + FIELD
             b == n + 1 + z0 + FIELD
             u == a \div BLOCK
             v == b \div BLOCK
  <2>1. a \in Nat /\ b \in Nat /\ a - b = z - z0
    BY <1>1, <1>3
  <2>2. a % BLOCK = 0 /\ b % BLOCK = 0
    BY <1>4, <1>5
  <2> HIDE DEF a, b
  <2>3. u \in Nat /\ v \in Nat /\ a = BLOCK * u /\ b = BLOCK * v
    BY <1>1, <2>1, <2>2, DivMod
  <2> HIDE DEF u, v
  <2>4. ~(u > v)
    <3> SUFFICES ASSUME u > v PROVE FALSE
      OBVIOUS
    <3>1. BLOCK * (u - v - 1) \in Nat
      BY <1>1, <2>3
    <3>2. BLOCK * (u - v - 1) = a - b - BLOCK
      BY <1>1, <2>3
    <3>3. QED BY <1>1, <1>3, <2>1, <3>1, <3>2
  <2>5. ~(v > u)
    <3> SUFFICES ASSUME v > u PROVE FALSE
      OBVIOUS
    <3>1. BLOCK * (v - u - 1) \in Nat
      BY <1>1, <2>3
    <3>2. BLOCK * (v - u - 1) = b - a - BLOCK
      BY <1>1, <2>3
    <3>3. QED BY <1>1, <1>3, <2>1, <3>1, <3>2
  <2>6. u = v
    BY <2>3, <2>4, <2>5
  <2>7. QED BY <1>3, <2>1, <2>3, <2>6
<1>6. Zeros(n) = z0
  BY <1>3, <1>4, <1>5 DEF Zeros
<1>7. PadLen(r) \in Int
  BY <1>1, <1>2 DEF PadLen
<1>8. QED BY <1>3, <1>6, <1>7 DEF z0, r

(* What the bytes are made of.                                             *)
Content == [of : {"data", "80", "00", "length"}, at : Nat, bits : Nat \X Nat]

LEMMA ContentType ==
  /\ \A n \in Nat : Data(0, n) \in Seq(Content) /\ Len(Data(0, n)) = n
  /\ \A from, n \in Nat : /\ Data(from, from + n) \in Seq(Content) /\ Len(Data(from, from + n)) = n
                          /\ Data(0, from) \o Data(from, from + n) = Data(0, from + n)
  /\ \A n \in Nat : Pad(n) \in Seq(Content) /\ Len(Pad(n)) = n
  /\ \A n \in Nat : BitLength(n) \in Nat \X Nat
  /\ \A bits \in Nat \X Nat : Bits(bits) \in Seq(Content)
<1>1. ASSUME NEW from \in Nat, NEW n \in Nat
      PROVE  /\ Data(from, from + n) \in Seq(Content) /\ Len(Data(from, from + n)) = n
             /\ \A i \in 1 .. n : Data(from, from + n)[i] = ByteOf("data", from + i, <<0, 0>>)
  <2>1. from + n - from = n
    OBVIOUS
  <2>2. Data(from, from + n) = [i \in 1 .. n |-> ByteOf("data", from + i, <<0, 0>>)]
    BY <2>1 DEF Data
  <2>3. \A i \in 1 .. n : ByteOf("data", from + i, <<0, 0>>) \in Content
    BY DEF ByteOf, Content
  <2>4. Data(from, from + n) \in [1 .. n -> Content]
    BY <2>2, <2>3
  <2>5. QED BY <2>2, <2>4
<1>2. ASSUME NEW n \in Nat
      PROVE  /\ Data(0, n) \in Seq(Content) /\ Len(Data(0, n)) = n
             /\ \A i \in 1 .. n : Data(0, n)[i] = ByteOf("data", i, <<0, 0>>)
  <2>1. 0 + n = n /\ \A i \in 1 .. n : 0 + i = i
    OBVIOUS
  <2>2. /\ Data(0, 0 + n) \in Seq(Content) /\ Len(Data(0, 0 + n)) = n
        /\ \A i \in 1 .. n : Data(0, 0 + n)[i] = ByteOf("data", 0 + i, <<0, 0>>)
    BY <1>1
  <2>3. QED BY <2>1, <2>2
<1>3. ASSUME NEW from \in Nat, NEW n \in Nat
      PROVE  Data(0, from) \o Data(from, from + n) = Data(0, from + n)
  <2> DEFINE a == Data(0, from)
             b == Data(from, from + n)
             d == Data(0, from + n)
  <2>1. /\ a \in Seq(Content) /\ Len(a) = from /\ \A i \in 1 .. from : a[i] = ByteOf("data", i, <<0, 0>>)
    BY <1>2
  <2>2. /\ b \in Seq(Content) /\ Len(b) = n /\ \A i \in 1 .. n : b[i] = ByteOf("data", from + i, <<0, 0>>)
    BY <1>1
  <2>3. /\ d \in Seq(Content) /\ Len(d) = from + n
        /\ \A i \in 1 .. from + n : d[i] = ByteOf("data", i, <<0, 0>>)
    <3> DEFINE m == from + n
    <3>1. m \in Nat
      OBVIOUS
    <3> HIDE DEF m
    <3>2. /\ Data(0, m) \in Seq(Content) /\ Len(Data(0, m)) = m
          /\ \A i \in 1 .. m : Data(0, m)[i] = ByteOf("data", i, <<0, 0>>)
      BY <1>2, <3>1
    <3>3. QED BY <3>2 DEF m
  <2> HIDE DEF a, b, d
  <2>4. a \in Seq(Content) /\ b \in Seq(Content) /\ Len(a) = from /\ Len(b) = n
    BY <2>1, <2>2
  <2>5. a \o b \in Seq(Content) /\ Len(a \o b) = from + n
    BY <2>4, ConcatProperties
  <2>6. ASSUME NEW i \in 1 .. from + n PROVE (a \o b)[i] = d[i]
    <3>1. (a \o b)[i] = IF i <= from THEN a[i] ELSE b[i - from]
      BY <2>4, ConcatProperties
    <3>2. CASE i <= from
      BY <2>1, <2>3, <3>1, <3>2
    <3>3. CASE i > from
      <4>1. i - from \in 1 .. n /\ from + (i - from) = i
        BY <3>3
      <4>2. b[i - from] = ByteOf("data", from + (i - from), <<0, 0>>)
        BY <2>2, <4>1
      <4>3. QED BY <2>3, <3>1, <3>3, <4>1, <4>2
    <3>4. i <= from \/ i > from
      OBVIOUS
    <3>5. QED BY <3>2, <3>3, <3>4
  <2>7. a \o b = d
    BY <2>3, <2>5, <2>6, SeqEqual
  <2>8. QED BY <2>7 DEF a, b, d
<1>4. ASSUME NEW n \in Nat PROVE Pad(n) \in Seq(Content) /\ Len(Pad(n)) = n
  <2>1. \A i \in 1 .. n : ByteOf(IF i = 1 THEN "80" ELSE "00", 0, <<0, 0>>) \in Content
    BY DEF ByteOf, Content
  <2>2. Pad(n) \in [1 .. n -> Content]
    BY <2>1 DEF Pad
  <2>3. QED BY <2>2
<1>5. ASSUME NEW n \in Nat PROVE BitLength(n) \in Nat \X Nat
  <2> DEFINE b == n * 8
  <2>1. b \in Nat /\ WORD \in Nat \ {0}
    BY Md5Assumption
  <2> HIDE DEF b
  <2>2. b % WORD \in Nat /\ b \div WORD \in Nat
    BY <2>1, DivMod
  <2>3. (b \div WORD) % WORD \in Nat
    BY <2>1, <2>2, DivMod
  <2>4. QED BY <2>2, <2>3 DEF BitLength, b
<1>6. ASSUME NEW bits \in Nat \X Nat PROVE Bits(bits) \in Seq(Content)
  <2>1. FIELD \in Nat
    BY Md5Assumption
  <2>2. \A i \in 1 .. FIELD : ByteOf("length", i, bits) \in Content
    BY DEF ByteOf, Content
  <2>3. Bits(bits) \in [1 .. FIELD -> Content]
    BY <2>2 DEF Bits
  <2>4. QED BY <2>1, <2>3
<1>7. QED BY <1>1, <1>2, <1>3, <1>4, <1>5, <1>6

(* MD5Final takes the padded message in, the length of the data alone.     *)
LEMMA Finishes ==
  ASSUME NEW n \in Nat, NEW c, Absorbed(c, Data(0, n))
  PROVE  Absorbed(MD5Final(c), Padded(n))
<1> DEFINE M == Data(0, n)
           pad == Pad(1 + Zeros(n))
           len == Bits(BitLength(n))
           d == MD5Update(c, pad)
<1>1. M \in Seq(Content) /\ Len(M) = n
  BY ContentType
<1>2. c.count = BitLength(n)
  BY <1>1 DEF Absorbed
<1>3. Index(c) = n % BLOCK
  BY <1>2, CountedBits
<1>4. PadLen(n % BLOCK) = 1 + Zeros(n) /\ Zeros(n) \in Nat
  BY PadIsShort
<1>5. pad \in Seq(Content) /\ len \in Seq(Content)
  <2>1. 1 + Zeros(n) \in Nat
    BY <1>4
  <2>2. BitLength(n) \in Nat \X Nat
    BY ContentType
  <2>3. QED BY <2>1, <2>2, ContentType
<1>6. MD5Final(c) = MD5Update(d, len)
  BY <1>2, <1>3, <1>4 DEF MD5Final
<1> HIDE DEF M, pad, len, d
<1>7. Absorbed(d, M \o pad)
  BY <1>1, <1>5, Takes DEF M, d
<1>8. M \o pad \in Seq(Content)
  BY <1>1, <1>5
<1>9. Absorbed(MD5Update(d, len), (M \o pad) \o len)
  BY <1>5, <1>7, <1>8, Takes
<1>10. QED BY <1>6, <1>9 DEF Padded, M, pad, len

Md5Inv ==
  /\ given \in Nat /\ final \in BOOLEAN
  /\ ~final => Absorbed(Context, Data(0, given))
  /\ final => blocks = InBlocks(Padded(given))

LEMMA Md5InvInit == Md5Init => Md5Inv
<1> SUFFICES ASSUME Md5Init PROVE Md5Inv
  OBVIOUS
<1>1. given = 0 /\ final = FALSE /\ Context.count = <<0, 0>> /\ Context.blocks = <<>>
  BY DEF Md5Init, Context
<1>2. Data(0, 0) \in Seq(Content) /\ Len(Data(0, 0)) = 0
  BY ContentType
<1>3. BLOCK \in Nat \ {0} /\ WORD \in Nat \ {0}
  BY Md5Assumption
<1>4. 0 * 8 = 0 /\ 0 \div WORD = 0 /\ 0 % WORD = 0 /\ 0 \div BLOCK = 0 /\ 0 % BLOCK = 0
  BY <1>3
<1>5. BitLength(0) = <<0, 0>>
  BY <1>4 DEF BitLength
<1>6. InBlocks(Data(0, 0)) = <<>>
  BY <1>2, <1>4 DEF InBlocks
<1> DEFINE M == Data(0, 0)
<1>7. Absorbed(Context, M)
  <2>1. Len(M) = 0 /\ InBlocks(M) = <<>>
    BY <1>2, <1>6
  <2> HIDE DEF M
  <2>2. QED BY <1>1, <1>4, <1>5, <2>1 DEF Absorbed
<1>8. QED BY <1>1, <1>7 DEF Md5Inv

LEMMA Md5InvStep == Md5Inv /\ [Md5Next]_md5Vars => Md5Inv'
<1> SUFFICES ASSUME Md5Inv, [Md5Next]_md5Vars PROVE Md5Inv'
  OBVIOUS
<1>1. CASE Final
  <2>1. Absorbed(MD5Final(Context), Padded(given)) /\ given \in Nat
    BY <1>1, Finishes DEF Final, Md5Inv
  <2>2. blocks' = MD5Final(Context).blocks /\ final' = TRUE /\ given' = given
    BY <1>1 DEF Final, Become
  <2>3. blocks' = InBlocks(Padded(given'))
    BY <2>1, <2>2 DEF Absorbed
  <2>4. QED BY <2>1, <2>2, <2>3 DEF Md5Inv
<1>2. ASSUME NEW n \in Pieces, Update(n) PROVE Md5Inv'
  <2> DEFINE c == MD5Update(Context, Data(given, given + n))
  <2>1. n \in Nat /\ given \in Nat /\ ~final /\ given' = given + n /\ final' = final /\ final \in BOOLEAN
    BY <1>2, Md5Assumption DEF Update, Md5Inv
  <2>2. /\ Data(0, given) \in Seq(Content) /\ Data(given, given + n) \in Seq(Content)
        /\ Data(0, given) \o Data(given, given + n) = Data(0, given + n)
    BY <2>1, ContentType
  <2>3. Absorbed(Context, Data(0, given))
    BY <2>1 DEF Md5Inv
  <2>4. Absorbed(c, Data(0, given) \o Data(given, given + n))
    BY <2>2, <2>3, Takes
  <2>5. count' = c.count /\ buffer' = c.buffer /\ blocks' = c.blocks
    BY <1>2 DEF Update, Become
  <2> HIDE DEF c
  <2>6. Absorbed(c, Data(0, given + n))
    BY <2>2, <2>4
  <2>7. Absorbed(Context', Data(0, given + n))
    BY <2>5, <2>6 DEF Absorbed, Context
  <2>8. QED BY <2>1, <2>7 DEF Md5Inv, Data
<1>3. CASE UNCHANGED md5Vars
  BY <1>3 DEF md5Vars, Md5Inv, Context, Absorbed
<1>4. QED BY <1>1, <1>2, <1>3 DEF Md5Next

(* For every way to cut the data into pieces, and every length up to where *)
(* the two words of the count run over and beyond, MD5Update and MD5Final  *)
(* digest the blocks of the padded message.                                *)
THEOREM PiecesAreOneMessage == Md5Spec => []PiecesDoNotMatter
<1>1. Md5Inv => PiecesDoNotMatter
  BY DEF Md5Inv, Absorbed, Context, PiecesDoNotMatter
<1>2. QED BY <1>1, Md5InvInit, Md5InvStep, PTL DEF Md5Spec

------------------------------------------------------------------------------
(* Least elements, induction, and searches in a buffer.                    *)

(* A set of numbers has a least element, and induction over a set follows. *)
LEMMA LeastElement ==
  ASSUME NEW S \in SUBSET Nat, S # {}
  PROVE  \E m \in S : \A k \in S : m <= k
<1> DEFINE T == {0 .. m : m \in S}
<1>1. T # {} /\ T \subseteq FiniteSubsetsOf(Nat)
  <2>1. \A m \in S : IsFiniteSet(0 .. m)
    BY FS_Interval
  <2>2. \A m \in S : 0 .. m \in SUBSET Nat
    OBVIOUS
  <2>3. \A m \in S : 0 .. m \in FiniteSubsetsOf(Nat)
    BY <2>1, <2>2, Zenon DEF FiniteSubsetsOf
  <2>4. T \subseteq FiniteSubsetsOf(Nat)
    BY <2>3, Zenon
  <2>5. T # {}
    BY Zenon
  <2>6. QED BY <2>4, <2>5
<1>2. \E x \in T : \A y \in T : ~(<<y, x>> \in StrictSubsetOrdering(Nat))
  <2> HIDE DEF T
  <2>1. QED BY <1>1, FS_StrictSubsetOrderingWellFounded, WFMin
<1>3. PICK m \in S : \A y \in T : ~(<<y, 0 .. m>> \in StrictSubsetOrdering(Nat))
  BY <1>2
<1>4. ASSUME NEW k \in S, k < m PROVE FALSE
  <2>1. 0 .. k \subseteq 0 .. m /\ 0 .. k # 0 .. m
    BY <1>4
  <2>2. <<0 .. k, 0 .. m>> \in StrictSubsetOrdering(Nat)
    BY <2>1 DEF StrictSubsetOrdering
  <2>3. QED BY <2>2, <1>3
<1>5. QED BY <1>4

LEMMA SetInduction ==
  ASSUME NEW S, 0 \in S, \A n \in Nat : n \in S => n + 1 \in S
  PROVE  Nat \subseteq S
<1>1. SUFFICES ASSUME Nat \ S # {} PROVE FALSE
  OBVIOUS
<1>2. PICK m \in Nat \ S : \A k \in Nat \ S : m <= k
  BY <1>1, LeastElement
<1>3. m # 0 /\ m - 1 \in Nat
  BY <1>2
<1>4. m - 1 \in S
  BY <1>2, <1>3
<1>5. QED BY <1>2, <1>3, <1>4

(* A pattern occurs where its characters are.                              *)
LEMMA OccursWhere ==
  ASSUME NEW C, NEW pattern \in Seq(C), NEW data \in Seq(C), pattern # <<>>, NEW at \in Nat \ {0}
  PROVE  Occurs(pattern, data, at) <=>
           /\ at + Len(pattern) - 1 <= Len(data)
           /\ \A j \in 1 .. Len(pattern) : data[at + j - 1] = pattern[j]
<1> DEFINE n == Len(pattern)
           rest == SubSeq(data, at, Len(data))
<1>1. n \in Nat \ {0} /\ Len(data) \in Nat
  BY EmptySeq
<1>2. /\ rest \in Seq(C) /\ Len(rest) = IF at <= Len(data) THEN Len(data) - at + 1 ELSE 0
      /\ \A i \in 1 .. Len(data) - at + 1 : rest[i] = data[at + i - 1]
  <2>1. \A i \in at .. Len(data) : data[i] \in C
    BY <1>1
  <2>2. QED BY <1>1, <2>1, SubSeqProperties
<1>3. SubSeq(pattern, 1, n) = pattern
  BY SubSeqFull
<1> HIDE DEF rest
<1>4. CASE n <= Len(rest)
  <2> DEFINE front == SubSeq(rest, 1, n)
  <2>1. \A i \in 1 .. n : rest[i] \in C
    BY <1>1, <1>2, <1>4
  <2>2. front \in Seq(C) /\ Len(front) = n /\ \A i \in 1 .. n : front[i] = rest[i]
    BY <1>1, <2>1, SubSeqProperties
  <2>3. at + n - 1 <= Len(data)
    BY <1>1, <1>2, <1>4
  <2>4. \A j \in 1 .. n : front[j] = data[at + j - 1]
    BY <1>1, <1>2, <2>2, <2>3
  <2> HIDE DEF front
  <2>5. pattern = front <=> \A j \in 1 .. n : front[j] = pattern[j]
    BY <2>2, SeqEqual
  <2>6. Occurs(pattern, data, at) <=> pattern = front
    BY <1>3, <1>4 DEF Occurs, IsPrefix, rest, front
  <2> HIDE DEF n
  <2>7. QED BY <2>3, <2>4, <2>5, <2>6 DEF n
<1>5. CASE ~(n <= Len(rest))
  <2>1. ~Occurs(pattern, data, at)
    BY <1>5 DEF Occurs, IsPrefix, rest
  <2>2. ~(at + n - 1 <= Len(data))
    BY <1>1, <1>2, <1>5
  <2>3. QED BY <2>1, <2>2
<1>6. QED BY <1>4, <1>5

(* The search finds the first place there is.                              *)
LEMMA FirstPlace ==
  ASSUME NEW data, Len(data) \in Nat, NEW pattern, NEW from \in Nat \ {0}
  PROVE  /\ FirstAt(pattern, data, from) \in 0 .. Len(data)
         /\ FirstAt(pattern, data, from) # 0 =>
              /\ FirstAt(pattern, data, from) >= from
              /\ Occurs(pattern, data, FirstAt(pattern, data, from))
         /\ \A i \in from .. Len(data) : Occurs(pattern, data, i) =>
              FirstAt(pattern, data, from) # 0 /\ FirstAt(pattern, data, from) <= i
<1> DEFINE places == {i \in from .. Len(data) : Occurs(pattern, data, i)}
           first == CHOOSE i \in places : \A j \in places : i <= j
<1>1. FirstAt(pattern, data, from) = IF places = {} THEN 0 ELSE first
  BY DEF FirstAt
<1>2. CASE places = {}
  <2>1. FirstAt(pattern, data, from) = 0
    BY <1>1, <1>2
  <2>2. \A i \in from .. Len(data) : ~Occurs(pattern, data, i)
    BY <1>2
  <2>3. QED BY <2>1, <2>2
<1>3. CASE places # {}
  <2>1. places \in SUBSET Nat
    OBVIOUS
  <2>2. \E i \in places : \A j \in places : i <= j
    <3> HIDE DEF places
    <3>1. QED BY <2>1, <1>3, LeastElement
  <2>3. first \in places /\ \A j \in places : first <= j
    <3> HIDE DEF places
    <3>1. QED BY <2>2
  <2> HIDE DEF first
  <2>4. FirstAt(pattern, data, from) = first
    BY <1>1, <1>3
  <2>5. QED BY <2>3, <2>4
<1>4. QED BY <1>2, <1>3

------------------------------------------------------------------------------
(* Base64. The URL form can be read back.                                  *)

(* What FlattenSeq computes: f[i] are the first i of the pieces, joined.   *)
IsJoined(f, s, T) ==
  /\ f \in [0 .. Len(s) -> Seq(T)] /\ f[0] = <<>> /\ f[Len(s)] = FlattenSeq(s)
  /\ \A i \in 1 .. Len(s) : f[i] = f[i - 1] \o s[i]

LEMMA RecursionForwards ==
  ASSUME NEW L \in Nat, NEW s
  PROVE  \E g : g = [i \in 1 .. L |-> IF i = 1 THEN s[i] ELSE g[i - 1] \o s[i]]
<1> DEFINE Value(g, i) == IF i = 1 THEN s[i] ELSE g[i - 1] \o s[i]
           S == {n \in Nat : \E g : g = [i \in 1 .. n |-> Value(g, i)]}
<1>1. 0 \in S
  <2> DEFINE g == [i \in 1 .. 0 |-> <<>>]
  <2>1. g = [i \in 1 .. 0 |-> Value(g, i)]
    OBVIOUS
  <2>2. QED BY <2>1
<1>2. ASSUME NEW n \in Nat, n \in S PROVE n + 1 \in S
  <2>1. PICK g : g = [i \in 1 .. n |-> Value(g, i)]
    BY <1>2
  <2> DEFINE h == [i \in 1 .. n + 1 |-> Value(g, i)]
  <2>2. \A i \in 1 .. n : h[i] = g[i]
    <3> TAKE i \in 1 .. n
    <3>1. i \in 1 .. n + 1
      OBVIOUS
    <3>2. g[i] = Value(g, i)
      <4> HIDE DEF Value
      <4>1. QED BY <2>1
    <3>3. h[i] = Value(g, i)
      <4> HIDE DEF Value
      <4>1. QED BY <3>1
    <3> HIDE DEF Value, h
    <3>4. QED BY <3>2, <3>3
  <2>3. \A i \in 1 .. n + 1 : i # 1 => i - 1 \in 1 .. n
    OBVIOUS
  <2>4. \A i \in 1 .. n + 1 : Value(g, i) = Value(h, i)
    <3> HIDE DEF h
    <3>1. QED BY <2>2, <2>3
  <2>5. h = [i \in 1 .. n + 1 |-> Value(h, i)]
    <3> HIDE DEF Value
    <3>1. QED BY <2>4
  <2>6. n + 1 \in Nat
    OBVIOUS
  <2> HIDE DEF h, Value
  <2>7. QED BY <2>5, <2>6
<1>3. Nat \subseteq S
  <2> HIDE DEF S
  <2>1. QED BY <1>1, <1>2, SetInduction
<1>4. \E g : g = [i \in 1 .. L |-> Value(g, i)]
  <2> HIDE DEF Value
  <2>1. QED BY <1>3
<1>5. QED BY <1>4

LEMMA Joined ==
  ASSUME NEW T, NEW s \in Seq(Seq(T))
  PROVE  \E f : IsJoined(f, s, T)
<1> DEFINE L == Len(s)
           Rec(g) == g = [i \in 1 .. L |-> IF i = 1 THEN s[i] ELSE g[i - 1] \o s[i]]
           g == CHOOSE g : Rec(g)
           f == [i \in 0 .. L |-> IF i = 0 THEN <<>> ELSE g[i]]
<1>1. L \in Nat /\ \A i \in 1 .. L : s[i] \in Seq(T)
  BY ElementOfSeq
<1>2. Rec(g)
  <2>1. \E x : Rec(x)
    BY <1>1, RecursionForwards
  <2> HIDE DEF Rec
  <2>2. QED BY <2>1
<1>3. FlattenSeq(s) = IF L = 0 THEN s ELSE g[L]
  BY DEF FlattenSeq
<1> HIDE DEF g, L
<1>4. \A i \in 1 .. L : g[i] = IF i = 1 THEN s[i] ELSE g[i - 1] \o s[i]
  BY <1>2
<1>5. \A i \in 1 .. L : f[i] = f[i - 1] \o s[i]
  <2> TAKE i \in 1 .. L
  <2>1. i \in 0 .. L /\ i - 1 \in 0 .. L /\ i # 0
    BY <1>1
  <2>2. f[i] = g[i] /\ f[i - 1] = IF i = 1 THEN <<>> ELSE g[i - 1]
    BY <2>1
  <2>3. s[i] = <<>> \o s[i]
    BY <1>1
  <2> HIDE DEF f
  <2>4. QED BY <1>4, <2>2, <2>3
<1>6. DOMAIN f = 0 .. L /\ f = [i \in 0 .. L |-> f[i]] /\ f[0] = <<>>
  BY <1>1
<1>7. f[L] = FlattenSeq(s)
  <2>1. CASE L = 0
    <3>1. s = <<>>
      BY <2>1, EmptySeq DEF L
    <3>2. QED BY <1>3, <1>6, <2>1, <3>1
  <2>2. CASE L # 0
    BY <1>1, <1>3, <2>2
  <2>3. QED BY <2>1, <2>2
<1> HIDE DEF f
<1>8. \A i \in 0 .. L : f[i] \in Seq(T)
  <2> DEFINE S == {n \in Nat : n <= L => f[n] \in Seq(T)}
  <2>1. 0 \in S
    <3>1. <<>> \in Seq(T)
      OBVIOUS
    <3>2. f[0] \in Seq(T)
      BY <1>6, <3>1
    <3>3. QED BY <3>2
  <2>2. ASSUME NEW n \in Nat, n \in S PROVE n + 1 \in S
    <3> DEFINE m == n + 1
    <3>0. m \in Nat
      OBVIOUS
    <3> SUFFICES ASSUME m <= L PROVE f[m] \in Seq(T)
      BY <3>0
    <3>1. m \in 1 .. L /\ m - 1 = n /\ f[n] \in Seq(T)
      BY <1>1, <2>2
    <3> HIDE DEF m
    <3>2. f[m] = f[n] \o s[m] /\ s[m] \in Seq(T)
      BY <1>1, <1>5, <3>1
    <3>3. QED BY <3>1, <3>2, ConcatProperties
  <2>3. Nat \subseteq S
    <3> HIDE DEF S
    <3>1. QED BY <2>1, <2>2, SetInduction
  <2>4. QED BY <1>1, <2>3
<1>9. f \in [0 .. L -> Seq(T)]
  BY <1>6, <1>8
<1>10. IsJoined(f, s, T)
  BY <1>5, <1>6, <1>7, <1>9 DEF IsJoined, L
<1>11. QED BY <1>10

(* Where the i-th piece is in what has been joined.                        *)
PieceAt(f, s, i) ==
  LET o == Len(f[i - 1]) IN
  /\ o \in Nat /\ Len(s[i]) \in Nat /\ Len(f[i]) = o + Len(s[i]) /\ Len(f[i]) <= Len(FlattenSeq(s))
  /\ \A j \in 1 .. Len(s[i]) : FlattenSeq(s)[o + j] = s[i][j]

AreJoined(r, g, t) ==
  /\ Len(g) \in Nat /\ Len(t) \in Nat /\ Len(r) = Len(g) + Len(t)
  /\ \A k \in 1 .. Len(g) : r[k] = g[k]
  /\ \A j \in 1 .. Len(t) : r[Len(g) + j] = t[j]

LEMMA OneBehindOther ==
  ASSUME NEW T, NEW g \in Seq(T), NEW t \in Seq(T)
  PROVE  AreJoined(g \o t, g, t)
<1>1. /\ Len(g \o t) = Len(g) + Len(t)
      /\ \A k \in 1 .. Len(g) + Len(t) : (g \o t)[k] = IF k <= Len(g) THEN g[k] ELSE t[k - Len(g)]
  BY ConcatProperties
<1>2. Len(g) \in Nat /\ Len(t) \in Nat
  OBVIOUS
<1>3. \A j \in 1 .. Len(t) : Len(g) + j \in 1 .. Len(g) + Len(t) /\ ~(Len(g) + j <= Len(g)) /\ Len(g) + j - Len(g) = j
  BY <1>2
<1>4. \A k \in 1 .. Len(g) : k \in 1 .. Len(g) + Len(t) /\ k <= Len(g)
  BY <1>2
<1>5. QED BY <1>1, <1>2, <1>3, <1>4 DEF AreJoined

LEMMA JoinedAt ==
  ASSUME NEW T, NEW s \in Seq(Seq(T)), NEW f, IsJoined(f, s, T), NEW i \in 1 .. Len(s)
  PROVE  PieceAt(f, s, i)
<1> DEFINE L == Len(s)
<1>0. \A k \in 1 .. L : s[k] \in Seq(T)
  BY ElementOfSeq
<1>1. /\ L \in Nat /\ f \in [0 .. L -> Seq(T)] /\ f[L] = FlattenSeq(s)
      /\ \A k \in 1 .. L : f[k] = f[k - 1] \o s[k]
  <2>1. L \in Nat
    OBVIOUS
  <2>2. QED BY <2>1, Zenon DEF IsJoined
<1>2. i \in 1 .. L
  OBVIOUS
<1> HIDE DEF L
<1>3. \A k \in 0 .. L : f[k] \in Seq(T) /\ Len(f[k]) \in Nat
  BY <1>1
<1> DEFINE S == {n \in Nat : i + n <= L =>
                   /\ Len(f[i]) <= Len(f[i + n])
                   /\ \A k \in 1 .. Len(f[i]) : f[i + n][k] = f[i][k]}
<1>4. 0 \in S
  BY <1>1, <1>2, <1>3
<1>5. ASSUME NEW n \in Nat, n \in S PROVE n + 1 \in S
  <2>0. n + 1 \in Nat
    OBVIOUS
  <2> SUFFICES ASSUME i + (n + 1) <= L
               PROVE  /\ Len(f[i]) <= Len(f[i + (n + 1)])
                      /\ \A k \in 1 .. Len(f[i]) : f[i + (n + 1)][k] = f[i][k]
    BY <2>0
  <2> DEFINE a == i + n
             b == i + (n + 1)
  <2>1. b \in 1 .. L /\ a \in 0 .. L /\ b - 1 = a /\ i \in 0 .. L
    BY <1>1, <1>2
  <2>2. Len(f[i]) <= Len(f[a]) /\ \A k \in 1 .. Len(f[i]) : f[a][k] = f[i][k]
    BY <1>5, <1>1, <1>2
  <2> HIDE DEF a, b, S
  <2> PICK x : x = f[a]
    OBVIOUS
  <2> PICK y : y = s[b]
    OBVIOUS
  <2> PICK z : z = f[b]
    OBVIOUS
  <2> PICK u : u = f[i]
    OBVIOUS
  <2>3. z = x \o y /\ x \in Seq(T) /\ y \in Seq(T)
    BY <1>0, <1>1, <1>3, <2>1
  <2>4. AreJoined(z, x, y)
    BY <2>3, OneBehindOther
  <2>5. Len(x) \in Nat /\ Len(y) \in Nat /\ Len(z) = Len(x) + Len(y) /\ Len(u) \in Nat
    BY <1>3, <2>1, <2>4 DEF AreJoined
  <2>6. Len(u) <= Len(x) /\ \A k \in 1 .. Len(u) : x[k] = u[k]
    BY <2>2
  <2>7. Len(u) <= Len(z) /\ \A k \in 1 .. Len(u) : k \in 1 .. Len(x)
    <3>1. Len(u) <= Len(x)
      BY <2>6
    <3>2. Len(u) <= Len(z)
      <4> DEFINE p == Len(u)  q == Len(x)  r == Len(y)  t == Len(z)
      <4>1. p \in Nat /\ q \in Nat /\ r \in Nat /\ t = q + r /\ p <= q
        BY <2>5, <3>1
      <4> HIDE DEF p, q, r, t
      <4>2. p <= t
        BY <4>1
      <4>3. QED BY <4>2 DEF p, t
    <3>3. \A k \in 1 .. Len(u) : k \in 1 .. Len(x)
      BY <2>5, <3>1
    <3>4. QED BY <3>2, <3>3
  <2>8. \A k \in 1 .. Len(u) : z[k] = u[k]
    BY <2>4, <2>6, <2>7 DEF AreJoined
  <2>9. QED BY <2>7, <2>8 DEF b
<1>6. Nat \subseteq S
  <2> HIDE DEF S
  <2>1. QED BY <1>4, <1>5, SetInduction
<1>7. Len(f[i]) <= Len(f[L]) /\ \A k \in 1 .. Len(f[i]) : f[L][k] = f[i][k]
  <2>1. L - i \in Nat /\ i + (L - i) = L /\ L <= L
    BY <1>1, <1>2
  <2>2. L - i \in S
    BY <1>6, <2>1
  <2>3. QED BY <2>1, <2>2
<1> HIDE DEF S
<1> DEFINE o == Len(f[i - 1])
<1>8. i - 1 \in 0 .. L /\ i \in 0 .. L
  BY <1>1, <1>2
<1>9. f[i - 1] \in Seq(T) /\ s[i] \in Seq(T) /\ o \in Nat /\ Len(s[i]) \in Nat
  BY <1>0, <1>2, <1>3, <1>8
<1>10. Len(f[i]) = o + Len(s[i]) /\ \A j \in 1 .. Len(s[i]) : f[i][o + j] = s[i][j]
  <2> PICK x : x = f[i - 1]
    OBVIOUS
  <2> PICK y : y = s[i]
    OBVIOUS
  <2> PICK z : z = f[i]
    OBVIOUS
  <2>1. z = x \o y /\ x \in Seq(T) /\ y \in Seq(T)
    BY <1>1, <1>2, <1>9
  <2>2. AreJoined(z, x, y)
    BY <2>1, OneBehindOther
  <2>3. o = Len(x)
    OBVIOUS
  <2> HIDE DEF o
  <2>4. Len(z) = o + Len(y) /\ \A j \in 1 .. Len(y) : z[o + j] = y[j]
    BY <2>2, <2>3 DEF AreJoined
  <2>5. QED BY <2>4
<1> HIDE DEF o
<1>11. \A j \in 1 .. Len(s[i]) : o + j \in 1 .. Len(f[i])
  BY <1>9, <1>10
<1>12. \A j \in 1 .. Len(s[i]) : f[L][o + j] = s[i][j]
  BY <1>7, <1>10, <1>11
<1>13. QED BY <1>1, <1>7, <1>9, <1>10, <1>12 DEF PieceAt, o

LEMMA OneMoreInSeq ==
  ASSUME NEW T, NEW s \in Seq(T), NEW x \in T
  PROVE  /\ s \o <<>> = s /\ s \o <<x>> \in Seq(T) /\ Len(s \o <<x>>) = Len(s) + 1
         /\ \A k \in 1 .. Len(s) : (s \o <<x>>)[k] = s[k]
         /\ (s \o <<x>>)[Len(s) + 1] = x
<1>1. <<x>> \in Seq(T) /\ Len(<<x>>) = 1 /\ <<x>>[1] = x /\ 1 \in 1 .. 1
  OBVIOUS
<1> PICK y : y = <<x>>
  OBVIOUS
<1>2. y \in Seq(T) /\ Len(y) = 1 /\ y[1] = x
  BY <1>1
<1>3. AreJoined(s \o y, s, y) /\ s \o y \in Seq(T)
  BY <1>2, OneBehindOther, ConcatProperties
<1>4. s \o <<>> = s
  BY ConcatEmptySeq
<1>5. Len(s \o y) = Len(s) + 1 /\ (s \o y)[Len(s) + 1] = x /\ \A k \in 1 .. Len(s) : (s \o y)[k] = s[k]
  BY <1>2, <1>3 DEF AreJoined
<1>6. QED BY <1>3, <1>4, <1>5

(* s is the first n of c. *)
IsFront(s, n, c) == Len(s) = n /\ \A k \in 1 .. n : s[k] = c[k]

LEMMA FrontGrows ==
  ASSUME NEW T, NEW s \in Seq(T), NEW n \in Nat, NEW c, IsFront(s, n, c), c[n + 1] \in T
  PROVE  IsFront(s \o <<c[n + 1]>>, n + 1, c)
<1> PICK x : x = c[n + 1]
  OBVIOUS
<1>1. /\ Len(s \o <<x>>) = n + 1 /\ (s \o <<x>>)[n + 1] = x
      /\ \A k \in 1 .. n : (s \o <<x>>)[k] = c[k]
  BY OneMoreInSeq DEF IsFront
<1>2. \A k \in 1 .. n + 1 : k = n + 1 \/ k \in 1 .. n
  OBVIOUS
<1>3. QED BY <1>1, <1>2 DEF IsFront

(* A character, or the three that stand for it.                            *)
LEMMA EscapeIs ==
  ASSUME NEW x \in 0 .. 64
  PROVE  /\ Escape(x) \in Seq(0 .. 66)
         /\ Special(x) =>
              /\ Len(Escape(x)) = 3 /\ Escape(x)[1] = PERCENT
              /\ Escape(x)[2] # PERCENT /\ Escape(x)[3] # PERCENT
              /\ x = CHOOSE y \in {Plus, Slash, BASE64_END_CHAR} : Escape(y) = Escape(x)
         /\ ~Special(x) => Escape(x) = <<x>> /\ x # PERCENT
<1>1. Plus = 62 /\ Slash = 63 /\ BASE64_END_CHAR = 64 /\ PERCENT = 66
  BY DEF Plus, Slash, BASE64_END_CHAR, PERCENT
<1>2. Escape(62) = <<66, 54, 1>> /\ Escape(63) = <<66, 54, 5>> /\ Escape(64) = <<66, 55, 3>>
  BY <1>1 DEF Escape
<1>3. Special(x) <=> x \in {62, 63, 64}
  BY <1>1 DEF Special
<1>4. \A y \in {62, 63, 64} :
        /\ Escape(y) \in Seq(0 .. 66) /\ Len(Escape(y)) = 3 /\ Escape(y)[1] = 66
        /\ Escape(y)[2] = (IF y = 64 THEN 55 ELSE 54)
        /\ Escape(y)[3] = (IF y = 62 THEN 1 ELSE IF y = 63 THEN 5 ELSE 3)
  <2> DEFINE Of(e, a, b) == e \in Seq(0 .. 66) /\ Len(e) = 3 /\ e[1] = 66 /\ e[2] = a /\ e[3] = b
  <2>1. \A a, b \in 0 .. 66 : Of(<<66, a, b>>, a, b)
    OBVIOUS
  <2> HIDE DEF Of
  <2>2. Of(<<66, 54, 1>>, 54, 1) /\ Of(<<66, 54, 5>>, 54, 5) /\ Of(<<66, 55, 3>>, 55, 3)
    <3>1. 54 \in 0 .. 66 /\ 55 \in 0 .. 66 /\ 1 \in 0 .. 66 /\ 3 \in 0 .. 66 /\ 5 \in 0 .. 66
      OBVIOUS
    <3>2. QED BY <2>1, <3>1
  <2>3. Of(Escape(62), 54, 1) /\ Of(Escape(63), 54, 5) /\ Of(Escape(64), 55, 3)
    BY <1>2, <2>2
  <2>4. QED BY <2>3 DEF Of
<1>5. \A y, z \in {62, 63, 64} : Escape(y) = Escape(z) => y = z
  <2> TAKE y, z \in {62, 63, 64}
  <2>1. /\ Escape(y)[3] = (IF y = 62 THEN 1 ELSE IF y = 63 THEN 5 ELSE 3)
        /\ Escape(z)[3] = (IF z = 62 THEN 1 ELSE IF z = 63 THEN 5 ELSE 3)
    BY <1>4
  <2>2. QED BY <2>1
<1>6. CASE x \in {62, 63, 64}
  <2>1. x = CHOOSE y \in {62, 63, 64} : Escape(y) = Escape(x)
    BY <1>5, <1>6
  <2>2. Special(x)
    BY <1>3, <1>6
  <2>3. /\ Escape(x) \in Seq(0 .. 66) /\ Len(Escape(x)) = 3 /\ Escape(x)[1] = 66
        /\ Escape(x)[2] # 66 /\ Escape(x)[3] # 66
    BY <1>4, <1>6
  <2>4. QED BY <1>1, <2>1, <2>2, <2>3
<1>7. CASE x \notin {62, 63, 64}
  <2>1. Escape(x) = <<x>>
    BY <1>1, <1>7 DEF Escape
  <2>2. x \in 0 .. 66 /\ x # 66
    OBVIOUS
  <2>3. <<x>> \in Seq(0 .. 66)
    BY <2>2
  <2>4. QED BY <1>1, <1>3, <1>7, <2>1, <2>2, <2>3
<1>8. QED BY <1>6, <1>7

(* The URL form has the size that it says, and can be read back.           *)
LEMMA UrlForm ==
  ASSUME NEW c \in Seq(0 .. 64)
  PROVE  Len(Base64_EncodeUrl(c)) = UrlSize(c) /\ Unescaped(Base64_EncodeUrl(c)) = c
<1> DEFINE L == Len(c)
           T == 0 .. 66
           p == [i \in DOMAIN c |-> Escape(c[i])]
           U == FlattenSeq(p)
<1>1. L \in Nat /\ DOMAIN c = 1 .. L /\ \A i \in 1 .. L : c[i] \in 0 .. 64
  BY ElementOfSeq
<1>2. p \in Seq(Seq(T)) /\ Len(p) = L /\ \A i \in 1 .. L : p[i] = Escape(c[i])
  <2>1. \A i \in 1 .. L : Escape(c[i]) \in Seq(T)
    BY <1>1, EscapeIs
  <2> HIDE DEF T
  <2>2. QED BY <1>1, <2>1
<1>3. U = Base64_EncodeUrl(c)
  BY DEF Base64_EncodeUrl
<1> HIDE DEF p, U, L
<1>4. PICK f : IsJoined(f, p, T)
  BY <1>2, Joined
<1>5. f \in [0 .. L -> Seq(T)] /\ f[0] = <<>> /\ f[L] = U /\ U \in Seq(T) /\ Len(U) \in Nat
  <2>1. f \in [0 .. L -> Seq(T)] /\ f[0] = <<>> /\ f[L] = U
    BY <1>2, <1>4, Zenon DEF IsJoined, U
  <2>2. U \in Seq(T)
    BY <1>1, <2>1
  <2>3. QED BY <2>1, <2>2
<1>6. \A i \in 1 .. L : PieceAt(f, p, i)
  BY <1>2, <1>4, JoinedAt
<1>7. Len(U) = UrlSize(c)
  <2> DEFINE sp(n) == {k \in 1 .. n : Special(c[k])}
             Sized(n) == /\ IsFiniteSet(sp(n)) /\ Cardinality(sp(n)) \in Nat
                         /\ Len(f[n]) = n + Cardinality(sp(n)) * 2
             S == {n \in Nat : n <= L => Sized(n)}
  <2>1. 0 \in S
    <3>1. sp(0) = {} /\ Len(f[0]) = 0
      BY <1>5
    <3> HIDE DEF sp
    <3>2. Cardinality(sp(0)) = 0 /\ IsFiniteSet(sp(0))
      BY <3>1, FS_EmptySet
    <3>3. Sized(0)
      BY <3>1, <3>2
    <3>4. QED BY <3>3
  <2>2. ASSUME NEW n \in Nat, n \in S PROVE n + 1 \in S
    <3>1. PICK m \in Nat : m = n + 1
      OBVIOUS
    <3> SUFFICES ASSUME m <= L PROVE Sized(m)
      BY <3>1
    <3>2. m \in 1 .. L /\ m - 1 = n /\ m \notin sp(n)
      BY <1>1, <3>1
    <3>3. IsFiniteSet(sp(n)) /\ Cardinality(sp(n)) \in Nat /\ Len(f[n]) = n + Cardinality(sp(n)) * 2
      <4>1. n <= L
        BY <1>1, <3>1
      <4> HIDE DEF Sized
      <4>2. Sized(n)
        BY <2>2, <4>1
      <4>3. QED BY <4>2 DEF Sized
    <3>4. sp(m) = IF Special(c[m]) THEN sp(n) \union {m} ELSE sp(n)
      <4>1. \A k \in 1 .. m : k = m \/ k \in 1 .. n
        BY <3>1
      <4>2. \A k \in 1 .. n : k \in 1 .. m
        BY <3>1
      <4>3. QED BY <3>2, <4>1, <4>2
    <3> HIDE DEF sp
    <3>5. Len(f[m]) = Len(f[n]) + (IF Special(c[m]) THEN 3 ELSE 1)
      <4>1. Len(p[m]) = IF Special(c[m]) THEN 3 ELSE 1
        <5>1. c[m] \in 0 .. 64 /\ p[m] = Escape(c[m])
          BY <1>1, <1>2, <3>2
        <5>2. Len(<<c[m]>>) = 1
          OBVIOUS
        <5>3. QED BY <5>1, <5>2, EscapeIs
      <4>2. PieceAt(f, p, m)
        BY <1>6, <3>2
      <4>3. QED BY <3>2, <4>1, <4>2, Zenon DEF PieceAt
    <3>6. /\ IsFiniteSet(sp(m)) /\ Cardinality(sp(m)) \in Nat
          /\ Cardinality(sp(m)) = Cardinality(sp(n)) + (IF Special(c[m]) THEN 1 ELSE 0)
      <4>1. CASE Special(c[m])
        <5> PICK w : w = sp(n)
          OBVIOUS
        <5>1. IsFiniteSet(w \union {m}) /\ Cardinality(w \union {m}) = Cardinality(w) + 1
          BY <3>2, <3>3, FS_AddElement
        <5>2. QED BY <3>3, <3>4, <4>1, <5>1
      <4>2. CASE ~Special(c[m])
        BY <3>3, <3>4, <4>2
      <4>3. QED BY <4>1, <4>2
    <3>7. Len(f[m]) = m + Cardinality(sp(m)) * 2
      <4> DEFINE C == Cardinality(sp(n))
                 D == Cardinality(sp(m))
                 a == Len(f[n])
                 b == Len(f[m])
      <4>1. C \in Nat /\ D = C + (IF Special(c[m]) THEN 1 ELSE 0) /\ a = n + C * 2
            /\ b = a + (IF Special(c[m]) THEN 3 ELSE 1)
        BY <3>3, <3>5, <3>6
      <4> HIDE DEF C, D, a, b
      <4>2. b = m + D * 2
        BY <3>1, <4>1
      <4>3. QED BY <4>2 DEF b, D
    <3>8. QED BY <3>6, <3>7
  <2>3. Nat \subseteq S
    <3> HIDE DEF S
    <3>1. QED BY <2>1, <2>2, SetInduction
  <2>4. Len(f[L]) = L + Cardinality(sp(L)) * 2
    <3> HIDE DEF Sized
    <3>1. Sized(L)
      BY <1>1, <2>3
    <3>2. QED BY <3>1 DEF Sized
  <2>5. SpecialCharNum(c) = Cardinality(sp(L))
    BY <1>1 DEF SpecialCharNum
  <2> HIDE DEF sp
  <2>6. QED BY <1>5, <2>4, <2>5 DEF UrlSize, L
<1> DEFINE Meant(k) == CHOOSE x \in {Plus, Slash, BASE64_END_CHAR} : Escape(x) = SubSeq(U, k, k + 2)
           Behind2(k) == \E j \in {k - 1, k - 2} : j > 0 /\ U[j] = PERCENT
           q == [k \in DOMAIN U |-> CASE U[k] = PERCENT -> <<Meant(k)>>
                                      [] Behind2(k) -> <<>>
                                      [] OTHER -> <<U[k]>>]
           M == T \union {Meant(k) : k \in DOMAIN U}
<1>8. DOMAIN U = 1 .. Len(U) /\ \A k \in 1 .. Len(U) : U[k] \in T
  BY <1>5, ElementOfSeq
<1>9. Unescaped(U) = FlattenSeq(q)
  BY DEF Unescaped
<1> HIDE DEF T, Behind2
<1>10. \A k \in 1 .. Len(U) :
         /\ U[k] = PERCENT /\ ~Behind2(k) => q[k] = <<Meant(k)>>
         /\ U[k] # PERCENT /\ Behind2(k) => q[k] = <<>>
         /\ U[k] # PERCENT /\ ~Behind2(k) => q[k] = <<U[k]>>
         /\ Meant(k) \in M /\ U[k] \in M
  <2> HIDE DEF Meant
  <2>1. QED BY <1>8
<1>11. q \in Seq(Seq(M)) /\ Len(q) = Len(U)
  <2> HIDE DEF Meant
  <2>1. \A k \in 1 .. Len(U) : q[k] \in {<<Meant(k)>>, <<>>, <<U[k]>>}
    BY <1>8
  <2>2. \A k \in 1 .. Len(U) : Meant(k) \in M /\ U[k] \in M
    BY <1>8
  <2> HIDE DEF M
  <2>3. \A k \in 1 .. Len(U) : <<Meant(k)>> \in Seq(M) /\ <<U[k]>> \in Seq(M) /\ <<>> \in Seq(M)
    BY <2>2
  <2>4. \A k \in 1 .. Len(U) : q[k] \in Seq(M)
    <3> HIDE DEF q
    <3>1. QED BY <2>1, <2>3
  <2>5. q = [k \in 1 .. Len(U) |-> q[k]]
    BY <1>8
  <2> HIDE DEF q
  <2>6. q \in [1 .. Len(U) -> Seq(M)]
    BY <2>4, <2>5
  <2>7. QED BY <1>5, <2>6
<1>12. T \subseteq M
  OBVIOUS
<1> HIDE DEF q, M
<1>13. PICK g : IsJoined(g, q, M)
  BY <1>11, Joined
<1>14. /\ g \in [0 .. Len(U) -> Seq(M)] /\ g[0] = <<>> /\ g[Len(U)] = Unescaped(U)
       /\ \A k \in 1 .. Len(U) : g[k] = g[k - 1] \o q[k]
  BY <1>9, <1>11, <1>13, Zenon DEF IsJoined
<1> DEFINE Step(k) == g[k] = g[k - 1] \o q[k]
<1>14a. \A k \in 1 .. Len(U) : Step(k)
  BY <1>14
<1> HIDE DEF Step
<1>14b. ASSUME NEW k \in 1 .. Len(U), NEW j, j = k - 1
        PROVE  g[k] = g[j] \o q[k]
  <2>1. Step(k)
    BY <1>14a
  <2>2. g[k] = g[k - 1] \o q[k]
    BY <2>1 DEF Step
  <2>3. QED BY <2>2, <1>14b
<1> DEFINE Quiet(o) == (o > 0 => U[o] # PERCENT) /\ (o > 1 => U[o - 1] # PERCENT)
           Read(n) == IsFront(g[Len(f[n])], n, c) /\ Quiet(Len(f[n])) /\ Len(f[n]) <= Len(U)
           S == {n \in Nat : n <= L => Read(n)}
<1>15. 0 \in S
  <2>1. Len(f[0]) = 0 /\ Len(g[0]) = 0
    BY <1>5, <1>14
  <2>2. QED BY <1>5, <2>1 DEF IsFront
<1>16. ASSUME NEW n \in Nat, n \in S PROVE n + 1 \in S
  <2>1. PICK m \in Nat : m = n + 1
    OBVIOUS
  <2> SUFFICES ASSUME m <= L PROVE Read(m)
    BY <2>1
  <2>2. m \in 1 .. L /\ m - 1 = n /\ n \in 0 .. L
    BY <1>1, <2>1
  <2>3. PICK o : o = Len(f[n])
    OBVIOUS
  <2>4. IsFront(g[o], n, c) /\ Quiet(o)
    <3>1. n <= L
      BY <1>1, <2>1
    <3> HIDE DEF Read, Quiet
    <3>2. Read(n)
      BY <1>16, <3>1
    <3>3. QED BY <2>3, <3>2 DEF Read
  <2>5. /\ o \in Nat /\ Len(f[m]) = o + Len(p[m]) /\ Len(f[m]) <= Len(U)
        /\ \A j \in 1 .. Len(p[m]) : U[o + j] = p[m][j]
    <3>1. PieceAt(f, p, m)
      BY <1>6, <2>2
    <3>2. QED BY <2>2, <2>3, <3>1, Zenon DEF PieceAt, U
  <2>6. c[m] \in 0 .. 64 /\ p[m] = Escape(c[m]) /\ c[m] \in M
    <3>1. c[m] \in 0 .. 64 /\ p[m] = Escape(c[m])
      BY <1>1, <1>2, <2>2
    <3>2. c[m] \in T
      BY <3>1 DEF T
    <3>3. QED BY <1>12, <3>1, <3>2
  <2> HIDE DEF S, Quiet, Read
  <2>7. ASSUME o + 1 <= Len(U) PROVE g[o] \in Seq(M) /\ g[o + 1] = g[o] \o q[o + 1] /\ o + 1 \in 1 .. Len(U)
    <3>1. o + 1 \in 1 .. Len(U) /\ o + 1 - 1 = o /\ o \in 0 .. Len(U)
      BY <1>5, <2>5, <2>7
    <3> PICK e : e = o + 1
      OBVIOUS
    <3>1a. e \in 1 .. Len(U) /\ o = e - 1
      BY <2>5, <3>1
    <3>1b. g[e] = g[o] \o q[e]
      BY <1>14b, <3>1a
    <3>2. g[o + 1] = g[o] \o q[o + 1]
      BY <3>1b
    <3>3. g[o] \in Seq(M)
      BY <1>14, <3>1
    <3>4. QED BY <3>1, <3>2, <3>3
  <2>8. ~Behind2(o + 1)
    <3> PICK e : e = o + 1
      OBVIOUS
    <3>1. \A j \in {e - 1, e - 2} : j > 0 => (j = o \/ (o > 1 /\ j = o - 1)) /\ o > 0
      BY <2>5
    <3>2. \A j \in {e - 1, e - 2} : j > 0 => U[j] # PERCENT
      BY <2>4, <3>1 DEF Quiet
    <3>3. ~Behind2(e)
      BY <3>2 DEF Behind2
    <3>4. QED BY <3>3
  <2>9. g[o] \in Seq(M) => IsFront(g[o] \o <<c[m]>>, m, c)
    BY <2>1, <2>4, <2>6, FrontGrows
  <2>10. CASE ~Special(c[m])
    <3>1. p[m] = <<c[m]>> /\ c[m] # PERCENT
      BY <2>6, <2>10, EscapeIs
    <3>2. Len(p[m]) = 1 /\ p[m][1] = c[m]
      BY <3>1
    <3>3. Len(f[m]) = o + 1 /\ U[o + 1] = c[m]
      BY <2>5, <3>2
    <3>4. q[o + 1] = <<c[m]>>
      BY <1>10, <2>5, <2>7, <2>8, <3>1, <3>3
    <3>5. IsFront(g[o + 1], m, c)
      BY <2>5, <2>7, <2>9, <3>3, <3>4
    <3>6. Quiet(o + 1)
      <4> PICK e : e = o + 1
        OBVIOUS
      <4>1. e - 1 = o /\ (e > 1 => o > 0) /\ U[e] # PERCENT
        BY <2>5, <3>1, <3>3
      <4>2. Quiet(e)
        BY <2>4, <4>1 DEF Quiet
      <4>3. QED BY <4>2
    <3>7. QED BY <2>5, <3>3, <3>5, <3>6 DEF Read
  <2>11. CASE Special(c[m])
    <3>1. /\ Len(p[m]) = 3 /\ p[m][1] = PERCENT /\ p[m][2] # PERCENT /\ p[m][3] # PERCENT
          /\ c[m] = CHOOSE y \in {Plus, Slash, BASE64_END_CHAR} : Escape(y) = p[m]
      <4> PICK x \in 0 .. 64 : x = c[m]
        BY <2>6
      <4>1. p[m] = Escape(x) /\ Special(x)
        BY <2>6, <2>11
      <4> PICK e : e = Escape(x)
        OBVIOUS
      <4>2. /\ Len(e) = 3 /\ e[1] = PERCENT /\ e[2] # PERCENT /\ e[3] # PERCENT
            /\ x = CHOOSE y \in {Plus, Slash, BASE64_END_CHAR} : Escape(y) = e
        BY <4>1, EscapeIs
      <4>3. QED BY <4>1, <4>2
    <3>2. Len(f[m]) = o + 3 /\ U[o + 1] = PERCENT /\ U[o + 2] = p[m][2] /\ U[o + 3] = p[m][3]
      BY <2>5, <3>1
    <3>3. o + 3 <= Len(U) /\ {o + 1, o + 2, o + 3} \subseteq 1 .. Len(U)
      BY <1>5, <2>5, <3>2
    <3>4. SubSeq(U, o + 1, o + 3) = p[m]
      <4> DEFINE cut == SubSeq(U, o + 1, o + 3)
      <4>1. \A k \in o + 1 .. o + 3 : U[k] \in T
        BY <1>8, <2>5, <3>3
      <4>2. cut \in Seq(T) /\ Len(cut) = 3 /\ \A k \in 1 .. 3 : cut[k] = U[o + k]
        BY <2>5, <4>1, SubSeqProperties
      <4>3. p[m] \in Seq(T)
        BY <1>2, <2>2, ElementOfSeq
      <4> HIDE DEF cut
      <4> PICK e : e = p[m]
        OBVIOUS
      <4>4. e \in Seq(T) /\ Len(e) = 3 /\ \A k \in 1 .. 3 : cut[k] = e[k]
        BY <2>5, <3>1, <4>2, <4>3
      <4>5. cut = e
        BY <4>2, <4>4, SeqEqual
      <4>6. QED BY <4>5 DEF cut
    <3>5. q[o + 1] = <<c[m]>>
      <4>1. Meant(o + 1) = c[m]
        <5>1. o + 1 + 2 = o + 3
          BY <2>5
        <5>2. QED BY <3>1, <3>4, <5>1
      <4> HIDE DEF Meant
      <4>2. QED BY <1>10, <2>8, <3>2, <3>3, <4>1
    <3>6. q[o + 2] = <<>> /\ q[o + 3] = <<>>
      <4>1. Behind2(o + 2) /\ Behind2(o + 3)
        BY <2>5, <3>2 DEF Behind2
      <4> HIDE DEF Meant
      <4>2. QED BY <1>10, <3>1, <3>2, <3>3, <4>1
    <3>7. g[o] \in Seq(M) /\ g[o + 1] = g[o] \o <<c[m]>>
      <4>1. o + 1 <= Len(U)
        BY <1>5, <2>5, <3>3
      <4>2. QED BY <2>7, <3>5, <4>1
    <3>8. g[o + 2] = g[o + 1] \o <<>> /\ g[o + 3] = g[o + 2] \o <<>>
      <4>1. o + 2 \in 1 .. Len(U) /\ o + 3 \in 1 .. Len(U) /\ o + 2 - 1 = o + 1 /\ o + 3 - 1 = o + 2
        BY <2>5, <3>3
      <4> PICK e : e = o + 1
        OBVIOUS
      <4> PICK u : u = o + 2
        OBVIOUS
      <4> PICK v : v = o + 3
        OBVIOUS
      <4>2. u \in 1 .. Len(U) /\ e = u - 1 /\ v \in 1 .. Len(U) /\ u = v - 1
        BY <2>5, <4>1
      <4>3. g[u] = g[e] \o q[u]
        BY <1>14b, <4>2
      <4>4. g[v] = g[u] \o q[v]
        BY <1>14b, <4>2
      <4>5. QED BY <3>6, <4>3, <4>4
    <3>9. g[o + 3] = g[o] \o <<c[m]>>
      <4>1. g[o + 1] \in Seq(M)
        BY <2>6, <3>7, OneMoreInSeq
      <4>2. g[o + 2] = g[o + 1]
        BY <2>6, <3>8, <4>1, OneMoreInSeq
      <4>3. g[o + 3] = g[o + 2]
        BY <2>6, <3>8, <4>1, <4>2, OneMoreInSeq
      <4>4. QED BY <3>7, <4>2, <4>3
    <3>10. IsFront(g[o + 3], m, c)
      BY <2>9, <3>7, <3>9
    <3>11. Quiet(o + 3)
      <4> PICK e : e = o + 3
        OBVIOUS
      <4>1. e - 1 = o + 2 /\ U[e] # PERCENT /\ U[e - 1] # PERCENT
        BY <2>5, <3>1, <3>2
      <4>2. Quiet(e)
        BY <4>1 DEF Quiet
      <4>3. QED BY <4>2
    <3>12. QED BY <2>5, <3>2, <3>10, <3>11 DEF Read
  <2>12. QED BY <2>10, <2>11
<1>17. Nat \subseteq S
  <2> HIDE DEF S
  <2>1. QED BY <1>15, <1>16, SetInduction
<1>18. IsFront(Unescaped(U), L, c)
  <2>1. L \in S /\ L <= L
    BY <1>1, <1>17
  <2>2. IsFront(g[Len(f[L])], L, c)
    BY <2>1
  <2>3. QED BY <1>5, <1>14, <2>2
<1>19. Unescaped(U) = c
  <2>1. Unescaped(U) \in Seq(M)
    BY <1>5, <1>14
  <2>2. c \in Seq(M)
    <3>1. 0 .. 64 \subseteq T
      BY DEF T
    <3>2. \A i \in 1 .. L : c[i] \in M
      BY <1>1, <1>12, <3>1
    <3>3. c = [i \in 1 .. L |-> c[i]]
      BY <1>1
    <3>4. c \in [1 .. L -> M]
      BY <3>2, <3>3
    <3>5. QED BY <1>1, <3>4
  <2>3. Len(Unescaped(U)) = Len(c) /\ \A k \in 1 .. Len(Unescaped(U)) : Unescaped(U)[k] = c[k]
    BY <1>1, <1>18 DEF IsFront, L
  <2>4. QED BY <2>1, <2>2, <2>3, SeqEqual
<1>20. QED BY <1>3, <1>7, <1>19

------------------------------------------------------------------------------
(* Base64. The e-mail form can be read back, and has no long line.         *)

(* The line breaks among the first n characters, and how many characters   *)
(* stand behind the last of them.                                          *)
Breaks(n) == IF n = 0 THEN 0 ELSE (n - 1) \div LINE
Column(n) == IF n = 0 THEN 0 ELSE ((n - 1) % LINE) + 1

LEMMA NextColumn ==
  ASSUME NEW n \in Nat, NEW m, m = n + 1
  PROVE  /\ Breaks(n) \in Nat /\ Column(m) \in 1 .. LINE
         /\ BreakBefore(m) => Column(m) = 1 /\ Breaks(m) = Breaks(n) + 1
         /\ ~BreakBefore(m) => Column(m) = Column(n) + 1 /\ Breaks(m) = Breaks(n)
         /\ n \div LINE = Breaks(n) + (IF n > 0 /\ n % LINE = 0 THEN 1 ELSE 0)
<1> DEFINE D == n \div LINE
           R == n % LINE
<1>0. LINE \in Nat \ {0}
  BY Base64Assumption
<1>1. D \in Nat /\ R \in 0 .. LINE - 1 /\ n = LINE * D + R
  BY <1>0, DivMod
<1>2. m \in Nat /\ m # 0 /\ m - 1 = n
  OBVIOUS
<1>3. Breaks(m) = D /\ Column(m) = R + 1
  BY <1>2 DEF Breaks, Column
<1>4. BreakBefore(m) <=> n > 0 /\ R = 0
  BY <1>2 DEF BreakBefore
<1> HIDE DEF D, R
<1>5. CASE n = 0
  <2>1. LINE * 0 + 0 = 0 /\ 0 \in 0 .. LINE - 1
    BY <1>0
  <2>2. D = 0 /\ R = 0
    BY <1>0, <1>5, <2>1, DivModIs DEF D, R
  <2>3. Breaks(n) = 0 /\ Column(n) = 0
    BY <1>5 DEF Breaks, Column
  <2>4. QED BY <1>0, <1>3, <1>4, <1>5, <2>2, <2>3 DEF D
<1>6. CASE n > 0 /\ R = 0
  <2>1. PICK d \in Nat : D = d + 1
    <3>1. D # 0
      BY <1>0, <1>1, <1>6
    <3>2. D - 1 \in Nat /\ D = D - 1 + 1
      BY <1>1, <3>1
    <3>3. QED BY <3>2
  <2>2. n - 1 = LINE * d + (LINE - 1) /\ LINE - 1 \in 0 .. LINE - 1
    <3>1. LINE * (d + 1) = LINE * d + LINE
      BY <1>0
    <3>2. QED BY <1>0, <1>1, <1>6, <2>1, <3>1
  <2>3. (n - 1) \div LINE = d
    BY <1>0, <2>2, DivModIs
  <2>4. Breaks(n) = d
    BY <1>6, <2>3 DEF Breaks
  <2>5. QED BY <1>0, <1>3, <1>4, <1>6, <2>1, <2>4 DEF D, R
<1>7. CASE n > 0 /\ R # 0
  <2>1. n - 1 = LINE * D + (R - 1) /\ R - 1 \in 0 .. LINE - 1
    <3>1. LINE * D \in Nat
      BY <1>0, <1>1
    <3>2. \A p \in Nat : n = p + R => n - 1 = p + (R - 1)
      BY <1>1
    <3>3. R - 1 \in 0 .. LINE - 1
      BY <1>0, <1>1, <1>7
    <3>4. QED BY <1>1, <3>1, <3>2, <3>3
  <2>2. (n - 1) \div LINE = D /\ (n - 1) % LINE = R - 1
    BY <1>0, <1>1, <2>1, DivModIs
  <2>3. Breaks(n) = D /\ Column(n) = R - 1 + 1
    BY <1>7, <2>2 DEF Breaks, Column
  <2>4. QED BY <1>0, <1>1, <1>3, <1>4, <1>7, <2>3 DEF D, R
<1>8. QED BY <1>5, <1>6, <1>7

(* What the e-mail form is like when E is it as far as the first o         *)
(* characters, which are for n of the text.                                *)
Broken(E, o, n) ==
  /\ o = n + Breaks(n) /\ Column(n) \in Nat /\ Column(n) <= o
  /\ o = Column(n) \/ E[o - Column(n)] = NEWLINE
  /\ \A i \in 1 .. o - LINE : \E j \in i .. i + LINE : E[j] = NEWLINE

LEMMA MoreBroken ==
  ASSUME NEW E, NEW o \in Nat, NEW n \in Nat, Broken(E, o, n), NEW m, m = n + 1
  PROVE  /\ ~BreakBefore(m) => Broken(E, o + 1, m)
         /\ BreakBefore(m) /\ E[o + 1] = NEWLINE => Broken(E, o + 2, m)
<1> DEFINE a == Column(n)
           b == Column(m)
<1>0. LINE \in Nat \ {0} /\ m \in Nat
  BY Base64Assumption
<1>1. /\ o = n + Breaks(n) /\ a \in Nat /\ a <= o
      /\ o = a \/ E[o - a] = NEWLINE
      /\ \A i \in 1 .. o - LINE : \E j \in i .. i + LINE : E[j] = NEWLINE
  BY DEF Broken
<1>2. /\ Breaks(n) \in Nat /\ b \in 1 .. LINE
      /\ BreakBefore(m) => b = 1 /\ Breaks(m) = Breaks(n) + 1
      /\ ~BreakBefore(m) => b = a + 1 /\ Breaks(m) = Breaks(n)
  BY NextColumn
<1> HIDE DEF a, b
<1>3. ASSUME ~BreakBefore(m) PROVE Broken(E, o + 1, m)
  <2>1. b = a + 1 /\ Breaks(m) = Breaks(n)
    BY <1>2, <1>3
  <2>2. o + 1 = m + Breaks(m) /\ b \in Nat /\ b <= o + 1 /\ o + 1 - b = o - a
    BY <1>1, <1>2, <2>1
  <2>3. o + 1 = b \/ E[o + 1 - b] = NEWLINE
    BY <1>1, <2>1, <2>2
  <2> PICK e : e = o + 1
    OBVIOUS
  <2>4. ASSUME NEW i \in 1 .. e - LINE
        PROVE  \E j \in i .. i + LINE : E[j] = NEWLINE
    <3>1. CASE i \in 1 .. o - LINE
      BY <1>1, <3>1
    <3>2. CASE i = o + 1 - LINE
      <4>1. o # a
        BY <1>0, <1>1, <1>2, <2>1, <3>2
      <4>2. o - a \in i .. i + LINE
        BY <1>0, <1>1, <1>2, <2>1, <3>2
      <4>3. QED BY <1>1, <4>1, <4>2
    <3>3. QED BY <1>0, <3>1, <3>2
  <2>5. /\ e = m + Breaks(m) /\ b \in Nat /\ b <= e
        /\ e = b \/ E[e - b] = NEWLINE
    BY <2>2, <2>3
  <2>6. \A i \in 1 .. e - LINE : \E j \in i .. i + LINE : E[j] = NEWLINE
    BY <2>4
  <2>7. Broken(E, e, m)
    BY <2>5, <2>6 DEF Broken, b
  <2>8. QED BY <2>7
<1>4. ASSUME BreakBefore(m), E[o + 1] = NEWLINE PROVE Broken(E, o + 2, m)
  <2>1. b = 1 /\ Breaks(m) = Breaks(n) + 1
    BY <1>2, <1>4
  <2>2. o + 2 = m + Breaks(m) /\ b \in Nat /\ b <= o + 2 /\ o + 2 - b = o + 1
    BY <1>1, <1>2, <2>1
  <2>3. E[o + 2 - b] = NEWLINE
    BY <1>4, <2>2
  <2> PICK e : e = o + 2
    OBVIOUS
  <2>4. ASSUME NEW i \in 1 .. e - LINE
        PROVE  \E j \in i .. i + LINE : E[j] = NEWLINE
    <3>1. CASE i \in 1 .. o - LINE
      BY <1>1, <3>1
    <3>2. CASE i > o - LINE
      <4>1. o + 1 \in i .. i + LINE
        BY <1>0, <3>2
      <4>2. QED BY <1>4, <4>1
    <3>3. QED BY <1>0, <3>1, <3>2
  <2>5. /\ e = m + Breaks(m) /\ b \in Nat /\ b <= e
        /\ e = b \/ E[e - b] = NEWLINE
    BY <2>2, <2>3
  <2>6. \A i \in 1 .. e - LINE : \E j \in i .. i + LINE : E[j] = NEWLINE
    BY <2>4
  <2>7. Broken(E, e, m)
    BY <2>5, <2>6 DEF Broken, b
  <2>8. QED BY <2>7
<1>5. QED BY <1>3, <1>4

(* Without its breaks the e-mail form is the text, it has a break in every *)
(* LINE + 1 characters, and its size is known.                             *)
EmailGood(c, E) ==
  /\ Unbroken(E) = c
  /\ \A i \in 1 .. Len(E) - LINE : \E j \in i .. i + LINE : E[j] = NEWLINE
  /\ EmailSize(c) = Len(E) + (IF Len(c) > 0 /\ Len(c) % LINE = 0 THEN 1 ELSE 0)

LEMMA EmailForm ==
  ASSUME NEW c \in Seq(0 .. 64)
  PROVE  EmailGood(c, Base64_EncodeEmail(c))
<1> DEFINE L == Len(c)
           T == 0 .. 66
           p == [i \in DOMAIN c |-> IF BreakBefore(i) THEN <<NEWLINE, c[i]>> ELSE <<c[i]>>]
           E == FlattenSeq(p)
           q == [k \in DOMAIN E |-> IF E[k] = NEWLINE THEN <<>> ELSE <<E[k]>>]
<1>1. L \in Nat /\ DOMAIN c = 1 .. L /\ \A i \in 1 .. L : c[i] \in T /\ c[i] # NEWLINE
  <2>1. L \in Nat /\ DOMAIN c = 1 .. L
    OBVIOUS
  <2>2. \A i \in 1 .. L : c[i] \in 0 .. 64
    BY ElementOfSeq
  <2>3. \A x \in 0 .. 64 : x \in T /\ x # NEWLINE
    BY DEF NEWLINE
  <2>4. QED BY <2>1, <2>2, <2>3
<1>2. /\ p \in Seq(Seq(T)) /\ Len(p) = L
      /\ \A i \in 1 .. L : p[i] = IF BreakBefore(i) THEN <<NEWLINE, c[i]>> ELSE <<c[i]>>
  <2>1. NEWLINE \in T
    BY DEF NEWLINE
  <2>2. \A i \in 1 .. L : c[i] \in T
    BY <1>1
  <2> HIDE DEF T
  <2>3. \A x \in T : <<NEWLINE, x>> \in Seq(T) /\ <<x>> \in Seq(T)
    BY <2>1
  <2>4. \A i \in 1 .. L : p[i] = IF BreakBefore(i) THEN <<NEWLINE, c[i]>> ELSE <<c[i]>>
    BY <1>1
  <2>5. \A i \in 1 .. L : p[i] \in Seq(T)
    <3> HIDE DEF p
    <3>1. QED BY <2>2, <2>3, <2>4
  <2>6. p = [i \in 1 .. L |-> p[i]]
    BY <1>1
  <2> HIDE DEF p
  <2>7. QED BY <1>1, <2>4, <2>5, <2>6
<1>3. E = Base64_EncodeEmail(c)
  BY DEF Base64_EncodeEmail
<1> HIDE DEF p, E, L
<1>4. PICK f : IsJoined(f, p, T)
  BY <1>2, Joined
<1>5. f \in [0 .. L -> Seq(T)] /\ f[0] = <<>> /\ f[L] = E /\ E \in Seq(T) /\ Len(E) \in Nat
  <2>1. f \in [0 .. L -> Seq(T)] /\ f[0] = <<>> /\ f[L] = E
    BY <1>2, <1>4, Zenon DEF IsJoined, E
  <2>2. E \in Seq(T)
    BY <1>1, <2>1
  <2>3. QED BY <2>1, <2>2
<1>6. \A i \in 1 .. L : PieceAt(f, p, i)
  BY <1>2, <1>4, JoinedAt
<1>7. DOMAIN E = 1 .. Len(E) /\ \A k \in 1 .. Len(E) : E[k] \in T
  BY <1>5, ElementOfSeq
<1> HIDE DEF T
<1>8. /\ q \in Seq(Seq(T)) /\ Len(q) = Len(E)
      /\ \A k \in 1 .. Len(E) : q[k] = IF E[k] = NEWLINE THEN <<>> ELSE <<E[k]>>
  <2>1. \A x \in T : <<>> \in Seq(T) /\ <<x>> \in Seq(T)
    OBVIOUS
  <2>2. \A k \in 1 .. Len(E) : q[k] = IF E[k] = NEWLINE THEN <<>> ELSE <<E[k]>>
    BY <1>7
  <2>3. q = [k \in 1 .. Len(E) |-> q[k]]
    BY <1>7
  <2> HIDE DEF q
  <2>4. \A k \in 1 .. Len(E) : q[k] \in Seq(T)
    BY <1>7, <2>1, <2>2
  <2>5. QED BY <1>5, <2>2, <2>3, <2>4
<1>9. Unbroken(E) = FlattenSeq(q)
  BY DEF Unbroken
<1> HIDE DEF q
<1>10. PICK g : IsJoined(g, q, T)
  BY <1>8, Joined
<1>11. /\ g \in [0 .. Len(E) -> Seq(T)] /\ g[0] = <<>> /\ g[Len(E)] = Unbroken(E)
       /\ \A k \in 1 .. Len(E) : g[k] = g[k - 1] \o q[k]
  BY <1>8, <1>9, <1>10, Zenon DEF IsJoined
<1>12. ASSUME NEW k \in 1 .. Len(E), NEW j, j = k - 1
       PROVE  /\ g[j] \in Seq(T)
              /\ E[k] = NEWLINE => g[k] = g[j]
              /\ E[k] # NEWLINE => g[k] = g[j] \o <<E[k]>>
  <2>1. g[j] \in Seq(T)
    BY <1>5, <1>11, <1>12
  <2>2. g[k] = g[j] \o q[k]
    BY <1>11, <1>12
  <2>3. g[j] \o <<>> = g[j]
    BY <2>1, ConcatEmptySeq
  <2>4. QED BY <1>8, <2>1, <2>2, <2>3
<1> DEFINE Good(n, o) == o = Len(f[n]) /\ o \in 0 .. Len(E) /\ IsFront(g[o], n, c) /\ Broken(E, o, n)
           S == {n \in Nat : n <= L => \E o \in Nat : Good(n, o)}
<1>13. 0 \in S
  <2>1. Len(f[0]) = 0 /\ IsFront(g[0], 0, c)
    BY <1>5, <1>11 DEF IsFront
  <2>2. Broken(E, 0, 0)
    BY Base64Assumption DEF Broken, Breaks, Column
  <2>3. Good(0, 0)
    BY <1>5, <2>1, <2>2
  <2>4. QED BY <2>3
<1>14. ASSUME NEW n \in Nat, n \in S PROVE n + 1 \in S
  <2>1. PICK m \in Nat : m = n + 1
    OBVIOUS
  <2> SUFFICES ASSUME m <= L PROVE \E o \in Nat : Good(m, o)
    BY <2>1
  <2>2. m \in 1 .. L /\ m - 1 = n /\ n <= L
    BY <1>1, <2>1
  <2>3. PICK o \in Nat : o = Len(f[n]) /\ o \in 0 .. Len(E) /\ IsFront(g[o], n, c) /\ Broken(E, o, n)
    BY <1>14, <2>2
  <2> HIDE DEF S
  <2>4. /\ Len(f[m]) = o + Len(p[m]) /\ Len(f[m]) <= Len(E)
        /\ \A j \in 1 .. Len(p[m]) : E[o + j] = p[m][j]
    <3>1. PieceAt(f, p, m)
      BY <1>6, <2>2
    <3>2. QED BY <2>2, <2>3, <3>1, Zenon DEF PieceAt, E
  <2>5. /\ c[m] \in T /\ c[m] # NEWLINE
        /\ p[m] = IF BreakBefore(m) THEN <<NEWLINE, c[m]>> ELSE <<c[m]>>
    BY <1>1, <1>2, <2>2
  <2>6. ASSUME NEW j, g[j] = g[o], g[j] \in Seq(T) PROVE IsFront(g[j] \o <<c[m]>>, m, c)
    BY <2>1, <2>3, <2>5, <2>6, FrontGrows
  <2>7. CASE ~BreakBefore(m)
    <3>1. Len(p[m]) = 1 /\ p[m][1] = c[m]
      BY <2>5, <2>7
    <3> PICK e : e = o + 1
      OBVIOUS
    <3>2. e = Len(f[m]) /\ e \in 1 .. Len(E) /\ o = e - 1 /\ E[e] = c[m]
      BY <1>5, <2>3, <2>4, <3>1
    <3>3. g[o] \in Seq(T) /\ g[e] = g[o] \o <<c[m]>>
      BY <1>12, <2>5, <3>2
    <3>4. IsFront(g[e], m, c)
      BY <2>6, <3>3
    <3>5. Broken(E, e, m)
      BY <2>1, <2>3, <2>7, MoreBroken
    <3>6. Good(m, e) /\ e \in Nat
      BY <1>5, <3>2, <3>4, <3>5
    <3>7. QED BY <3>6
  <2>8. CASE BreakBefore(m)
    <3>1. Len(p[m]) = 2 /\ p[m][1] = NEWLINE /\ p[m][2] = c[m]
      BY <2>5, <2>8
    <3> PICK d : d = o + 1
      OBVIOUS
    <3> PICK e : e = o + 2
      OBVIOUS
    <3>2. /\ e = Len(f[m]) /\ e \in 1 .. Len(E) /\ d = e - 1 /\ E[e] = c[m]
          /\ d \in 1 .. Len(E) /\ o = d - 1 /\ E[d] = NEWLINE
      BY <1>5, <2>3, <2>4, <3>1
    <3>3. g[o] \in Seq(T) /\ g[d] = g[o]
      BY <1>12, <3>2
    <3>4. g[d] \in Seq(T) /\ g[e] = g[d] \o <<c[m]>>
      <4>1. /\ g[d] \in Seq(T)
            /\ E[e] # NEWLINE => g[e] = g[d] \o <<E[e]>>
        BY <1>12, <3>2
      <4>2. QED BY <2>5, <3>2, <4>1
    <3>5. IsFront(g[e], m, c)
      BY <2>6, <3>3, <3>4
    <3>6. Broken(E, e, m)
      BY <2>1, <2>3, <2>8, <3>2, MoreBroken
    <3>7. Good(m, e) /\ e \in Nat
      BY <1>5, <3>2, <3>5, <3>6
    <3>8. QED BY <3>7
  <2>9. QED BY <2>7, <2>8
<1>15. Nat \subseteq S
  <2> HIDE DEF S
  <2>1. QED BY <1>13, <1>14, SetInduction
<1>16. IsFront(g[Len(E)], L, c) /\ Broken(E, Len(E), L)
  <2>1. \E o \in Nat : Good(L, o)
    BY <1>1, <1>15
  <2>2. QED BY <1>5, <2>1
<1> HIDE DEF S, Good
<1>17. Unbroken(E) = c
  <2>1. Unbroken(E) \in Seq(T)
    BY <1>5, <1>11
  <2>2. c \in Seq(T)
    <3>1. c = [i \in 1 .. L |-> c[i]]
      BY <1>1
    <3>2. c \in [1 .. L -> T]
      BY <1>1, <3>1
    <3>3. QED BY <1>1, <3>2
  <2>3. Len(Unbroken(E)) = Len(c) /\ \A k \in 1 .. Len(Unbroken(E)) : Unbroken(E)[k] = c[k]
    BY <1>1, <1>11, <1>16 DEF IsFront, L
  <2>4. QED BY <2>1, <2>2, <2>3, SeqEqual
<1>18. EmailSize(c) = Len(E) + (IF L > 0 /\ L % LINE = 0 THEN 1 ELSE 0)
  <2>1. PICK m : m = L + 1
    OBVIOUS
  <2>2. Breaks(L) \in Nat /\ L \div LINE = Breaks(L) + (IF L > 0 /\ L % LINE = 0 THEN 1 ELSE 0)
    BY <1>1, <2>1, NextColumn
  <2>3. Len(E) = L + Breaks(L)
    BY <1>16 DEF Broken
  <2>4. EmailSize(c) = L + L \div LINE
    BY DEF EmailSize, L
  <2>5. QED BY <1>1, <2>2, <2>3, <2>4
<1>19. \A i \in 1 .. Len(E) - LINE : \E j \in i .. i + LINE : E[j] = NEWLINE
  BY <1>16 DEF Broken
<1>20. EmailGood(c, E)
  BY <1>17, <1>18, <1>19 DEF EmailGood, L
<1>21. QED BY <1>3, <1>20

(* The URL and the e-mail form of every encoded source, of whatever length *)
(* and for lines of whatever length, have the sizes that lines 207 and 239 *)
(* count, but for one character more when the last line of the e-mail form *)
(* is full, and say what the text says.                                    *)
THEOREM FormsSayTheText == Base64Spec => []FormsKeepText
<1>1. source \in Seq(Byte) => FormsKeepText
  <2> SUFFICES ASSUME source \in Seq(Byte) PROVE FormsKeepText
    OBVIOUS
  <2>1. PICK c : c = Base64_Encode(Behind(0), Len(source))
    OBVIOUS
  <2>2. c \in Seq(0 .. 64)
    <3>1. 0 \in Byte
      BY DEF Byte
    <3>2. QED BY <2>1, <3>1, EncodedWhole DEF Behind
  <2>3. Len(Base64_EncodeUrl(c)) = UrlSize(c) /\ Unescaped(Base64_EncodeUrl(c)) = c
    BY <2>2, UrlForm
  <2>4. EmailGood(c, Base64_EncodeEmail(c))
    BY <2>2, EmailForm
  <2>5. QED BY <2>1, <2>3, <2>4, Zenon DEF FormsKeepText, EmailGood
<1>2. QED BY <1>1, SourceType, PTL

------------------------------------------------------------------------------
(* BasicConfig. A read finds what the lines of the file say.               *)

(* A pattern longer by one character occurs where the pattern does, with   *)
(* that character behind it.                                               *)
LEMMA OccursFront ==
  ASSUME NEW C, NEW s \in Seq(C) \ {<<>>}, NEW c \in C, NEW data \in Seq(C), NEW at \in Nat \ {0}
  PROVE  Occurs(s \o <<c>>, data, at) <=>
           Occurs(s, data, at) /\ at + Len(s) <= Len(data) /\ data[at + Len(s)] = c
<1> DEFINE p == s \o <<c>>
<1>1. <<c>> \in Seq(C) /\ Len(<<c>>) = 1 /\ Len(s) \in Nat \ {0} /\ Len(data) \in Nat
  BY EmptySeq
<1>2. /\ p \in Seq(C) /\ Len(p) = Len(s) + 1
      /\ \A i \in 1 .. Len(s) : p[i] = s[i]
      /\ p[Len(s) + 1] = c
  <2>1. /\ p \in Seq(C) /\ Len(p) = Len(s) + 1
        /\ \A i \in 1 .. Len(s) + 1 : p[i] = IF i <= Len(s) THEN s[i] ELSE <<c>>[i - Len(s)]
    BY <1>1, ConcatProperties
  <2> HIDE DEF p
  <2>2. \A i \in 1 .. Len(s) : p[i] = s[i]
    BY <1>1, <2>1
  <2>3. p[Len(s) + 1] = c
    BY <1>1, <2>1
  <2>4. QED BY <2>1, <2>2, <2>3
<1> HIDE DEF p
<1>3. p # <<>>
  BY <1>1, <1>2
<1>4. Occurs(p, data, at) <=>
        at + Len(p) - 1 <= Len(data) /\ \A j \in 1 .. Len(p) : data[at + j - 1] = p[j]
  <2>1. p \in Seq(C)
    BY <1>2
  <2>2. QED BY <1>3, <2>1, OccursWhere
<1>5. Occurs(s, data, at) <=>
        at + Len(s) - 1 <= Len(data) /\ \A j \in 1 .. Len(s) : data[at + j - 1] = s[j]
  BY OccursWhere
<1>6. (\A j \in 1 .. Len(p) : data[at + j - 1] = p[j]) <=>
        (\A j \in 1 .. Len(s) : data[at + j - 1] = s[j]) /\ data[at + Len(s)] = c
  <2> DEFINE same(j) == data[at + j - 1] = p[j]
             n == Len(s)
  <2>1. n \in Nat \ {0} /\ Len(p) = n + 1
    BY <1>1, <1>2
  <2>2. same(n + 1) <=> data[at + n] = c
    BY <1>1, <1>2
  <2>3. (\A j \in 1 .. n : same(j)) <=> \A j \in 1 .. n : data[at + j - 1] = s[j]
    BY <1>2
  <2> HIDE DEF same, n
  <2>4. (\A j \in 1 .. n + 1 : same(j)) <=> (\A j \in 1 .. n : same(j)) /\ same(n + 1)
    BY <2>1
  <2>5. QED BY <2>1, <2>2, <2>3, <2>4 DEF same, n
<1>7. QED BY <1>1, <1>2, <1>4, <1>5, <1>6 DEF p

(* A word and its header are texts, and a word has no special character.   *)
LEMMA WordType ==
  ASSUME NEW a \in Words
  PROVE  /\ a \in Seq(Characters) \ {<<>>} /\ Len(a) \in Nat \ {0}
         /\ \A j \in 1 .. Len(a) : a[j] \notin {"nl", "[", "]", "="}
         /\ Header(a) \in Seq(Characters) \ {<<>>} /\ Len(Header(a)) = Len(a) + 2
         /\ Header(a)[1] = "["
<1>1. a \in Seq(Characters \ {"nl", "[", "]", "="}) /\ a # <<>>
  BY DEF Words
<1>2. a \in Seq(Characters) /\ \A j \in 1 .. Len(a) : a[j] \notin {"nl", "[", "]", "="}
  <2>1. a \in Seq(Characters)
    BY <1>1, SeqMonotonic
  <2>2. \A j \in 1 .. Len(a) : a[j] \in Characters \ {"nl", "[", "]", "="}
    BY <1>1, ElementOfSeq
  <2>3. QED BY <2>1, <2>2
<1>3. Len(a) \in Nat \ {0}
  BY <1>1, EmptySeq
<1>4. <<"[">> \in Seq(Characters) /\ <<"]">> \in Seq(Characters)
  BY ConfigAssumption
<1>5. /\ <<"[">> \o a \in Seq(Characters) /\ Len(<<"[">> \o a) = Len(a) + 1
      /\ (<<"[">> \o a)[1] = "["
  <2>1. /\ <<"[">> \o a \in Seq(Characters) /\ Len(<<"[">> \o a) = 1 + Len(a)
        /\ \A i \in 1 .. 1 + Len(a) :
             (<<"[">> \o a)[i] = IF i <= 1 THEN <<"[">>[i] ELSE a[i - 1]
    BY <1>2, <1>4, ConcatProperties
  <2>2. QED BY <1>3, <2>1
<1>6. /\ Header(a) \in Seq(Characters) /\ Len(Header(a)) = Len(a) + 2 /\ Header(a)[1] = "["
  <2> DEFINE front == <<"[">> \o a
  <2>1. front \in Seq(Characters) /\ Len(front) = Len(a) + 1 /\ front[1] = "["
    BY <1>5
  <2> HIDE DEF front
  <2>2. /\ front \o <<"]">> \in Seq(Characters) /\ Len(front \o <<"]">>) = Len(front) + 1
        /\ \A i \in 1 .. Len(front) + 1 :
             (front \o <<"]">>)[i] = IF i <= Len(front) THEN front[i] ELSE <<"]">>[i - Len(front)]
    BY <1>4, <2>1, ConcatProperties
  <2>3. Header(a) = front \o <<"]">>
    BY DEF Header, front
  <2>4. QED BY <1>3, <2>1, <2>2, <2>3
<1>7. Header(a) # <<>>
  BY <1>3, <1>6, EmptySeq
<1>8. QED BY <1>1, <1>2, <1>3, <1>6, <1>7

(* A single character occurs where the text has it.                        *)
LEMMA OneCharacter ==
  ASSUME NEW text \in Seq(Characters), NEW c \in Characters, NEW i \in Nat \ {0}
  PROVE  Occurs(<<c>>, text, i) <=> i <= Len(text) /\ text[i] = c
<1>1. <<c>> \in Seq(Characters) /\ Len(<<c>>) = 1 /\ <<c>> # <<>> /\ Len(text) \in Nat
  OBVIOUS
<1>2. Occurs(<<c>>, text, i) <=>
        i + Len(<<c>>) - 1 <= Len(text) /\ \A j \in 1 .. Len(<<c>>) : text[i + j - 1] = <<c>>[j]
  <2> DEFINE pattern == <<c>>
  <2>1. pattern \in Seq(Characters) /\ pattern # <<>>
    BY <1>1
  <2> HIDE DEF pattern
  <2>2. Occurs(pattern, text, i) <=>
          i + Len(pattern) - 1 <= Len(text) /\ \A j \in 1 .. Len(pattern) : text[i + j - 1] = pattern[j]
    BY <2>1, OccursWhere
  <2>3. QED BY <2>2 DEF pattern
<1>3. QED BY <1>1, <1>2

(* The line that begins at i ends in front of e.                           *)
IsLine(text, i, e) ==
  /\ i \in 1 .. Len(text) /\ e \in i + 1 .. Len(text) + 1
  /\ e = Len(text) + 1 \/ text[e] = "nl"
  /\ \A j \in i .. e - 1 : text[j] # "nl"

HasLine(text, i, e) ==
  /\ IsLine(text, i, e)
  /\ Line(text, i) \in Seq(Characters) /\ Len(Line(text, i)) = e - i
  /\ \A j \in 1 .. e - i : Line(text, i)[j] = text[i + j - 1]
  /\ LineEnd(text, i) = IF e = Len(text) + 1 THEN 0 ELSE e

LEMMA LineIs ==
  ASSUME NEW text \in Seq(Characters), NEW i \in LineStarts(text)
  PROVE  \E e : HasLine(text, i, e)
<1> DEFINE f == LineEnd(text, i)
<1>1. /\ Len(text) \in Nat /\ i \in 1 .. Len(text) /\ text[i] # "nl" /\ "nl" \in Characters
      /\ \A j \in 1 .. Len(text) : text[j] \in Characters
  BY ConfigAssumption DEF LineStarts
<1>2. /\ f \in 0 .. Len(text)
      /\ f # 0 => f >= i /\ text[f] = "nl"
      /\ \A j \in i .. Len(text) : text[j] = "nl" => f # 0 /\ f <= j
  <2> DEFINE g == FirstAt(<<"nl">>, text, i)
  <2>1. /\ g \in 0 .. Len(text)
        /\ g # 0 => g >= i /\ Occurs(<<"nl">>, text, g)
        /\ \A j \in i .. Len(text) : Occurs(<<"nl">>, text, j) => g # 0 /\ g <= j
    BY <1>1, FirstPlace
  <2>2. g = f
    BY DEF LineEnd
  <2> HIDE DEF g, f
  <2>3. \A j \in 1 .. Len(text) : Occurs(<<"nl">>, text, j) <=> text[j] = "nl"
    BY <1>1, OneCharacter
  <2>4. QED BY <1>1, <2>1, <2>2, <2>3
<1>3. PICK e : e = IF f = 0 THEN Len(text) + 1 ELSE f
  OBVIOUS
<1>4. Line(text, i) = SubSeq(text, i, e - 1)
  <2>1. e - 1 = IF f = 0 THEN Len(text) ELSE f - 1
    BY <1>1, <1>2, <1>3
  <2>2. QED BY <2>1 DEF Line
<1> HIDE DEF f
<1>5. /\ e \in i + 1 .. Len(text) + 1 /\ (e = Len(text) + 1 \/ text[e] = "nl")
      /\ f = IF e = Len(text) + 1 THEN 0 ELSE e
  BY <1>1, <1>2, <1>3
<1>6. \A j \in i .. e - 1 : text[j] # "nl"
  BY <1>1, <1>2, <1>3
<1>7. \A j \in i .. e - 1 : text[j] \in Characters
  BY <1>1, <1>5
<1>8. /\ Line(text, i) \in Seq(Characters) /\ Len(Line(text, i)) = e - i
      /\ \A j \in 1 .. e - i : Line(text, i)[j] = text[i + j - 1]
  BY <1>1, <1>4, <1>5, <1>7, SubSeqProperties
<1>9. HasLine(text, i, e)
  BY <1>1, <1>5, <1>6, <1>8 DEF HasLine, IsLine, f
<1>10. QED BY <1>9

LEMMA LineUnique ==
  ASSUME NEW text \in Seq(Characters), NEW i \in LineStarts(text), NEW e, IsLine(text, i, e)
  PROVE  HasLine(text, i, e)
<1>1. PICK d : HasLine(text, i, d)
  BY LineIs
<1>2. IsLine(text, i, d) /\ Len(text) \in Nat
  BY <1>1 DEF HasLine
<1>3. d = e
  BY <1>2 DEF IsLine
<1>4. QED BY <1>1, <1>3

(* Two lines of the same characters.                                       *)
LEMMA SameLine ==
  ASSUME NEW t \in Seq(Characters), NEW u \in Seq(Characters),
         NEW i \in LineStarts(t), NEW j \in LineStarts(u), NEW e, NEW g,
         IsLine(t, i, e), IsLine(u, j, g), g - j = e - i,
         \A n \in 1 .. e - i : u[j + n - 1] = t[i + n - 1]
  PROVE  Line(u, j) = Line(t, i)
<1>1. HasLine(t, i, e) /\ HasLine(u, j, g)
  BY LineUnique
<1> PICK x : x = Line(t, i)
  OBVIOUS
<1> PICK y : y = Line(u, j)
  OBVIOUS
<1>2. /\ x \in Seq(Characters) /\ Len(x) = e - i /\ \A n \in 1 .. e - i : x[n] = t[i + n - 1]
      /\ y \in Seq(Characters) /\ Len(y) = e - i /\ \A n \in 1 .. e - i : y[n] = u[j + n - 1]
  BY <1>1 DEF HasLine
<1>3. \A n \in 1 .. Len(y) : y[n] = x[n]
  BY <1>2
<1>4. x = y
  BY <1>2, <1>3, SeqEqual
<1>5. QED BY <1>4

(* A line that gives a value to a key.                                     *)
LEMMA GivesWhere ==
  ASSUME NEW row \in Seq(Characters), NEW k \in Words
  PROVE  Gives(row, k) <=>
           /\ Len(k) < Len(row) /\ row[Len(k) + 1] = "="
           /\ \A j \in 1 .. Len(k) : row[j] = k[j]
<1>1. /\ k \in Seq(Characters) \ {<<>>} /\ Len(k) \in Nat \ {0} /\ Len(row) \in Nat /\ "=" \in Characters
  BY WordType, ConfigAssumption
<1>2. Gives(row, k) <=> Occurs(k, row, 1) /\ 1 + Len(k) <= Len(row) /\ row[1 + Len(k)] = "="
  BY <1>1, OccursFront DEF Gives
<1>3. Occurs(k, row, 1) <=>
        1 + Len(k) - 1 <= Len(row) /\ \A j \in 1 .. Len(k) : row[1 + j - 1] = k[j]
  BY <1>1, OccursWhere
<1>4. \A j \in 1 .. Len(k) : 1 + j - 1 = j
  OBVIOUS
<1>5. 1 + Len(k) = Len(k) + 1
  BY <1>1
<1>6. QED BY <1>1, <1>2, <1>3, <1>4, <1>5

LEMMA LineOfKey ==
  ASSUME NEW text \in Seq(Characters), NEW k \in Words, NEW i \in LineStarts(text),
         Gives(Line(text, i), k)
  PROVE  /\ Occurs(k, text, i) /\ i + Len(k) <= Len(text)
         /\ FirstAt(<<"=">>, text, i) = i + Len(k)
         /\ text[i] # "["
         /\ LineEnd(text, i) = 0 \/ LineEnd(text, i) > i + Len(k)
         /\ From(Line(text, i), Len(k) + 2) =
              SubSeq(text, i + Len(k) + 1, IF LineEnd(text, i) = 0 THEN Len(text) ELSE LineEnd(text, i) - 1)
<1>1. /\ k \in Seq(Characters) \ {<<>>} /\ Len(k) \in Nat \ {0} /\ Len(text) \in Nat
      /\ \A j \in 1 .. Len(k) : k[j] \notin {"nl", "[", "]", "="}
      /\ "=" \in Characters /\ "nl" \in Characters
      /\ \A j \in 1 .. Len(text) : text[j] \in Characters
  BY WordType, ConfigAssumption
<1>2. PICK e : HasLine(text, i, e)
  BY LineIs
<1> PICK row : row = Line(text, i)
  OBVIOUS
<1>3. /\ i \in 1 .. Len(text) /\ e \in i + 1 .. Len(text) + 1
      /\ row \in Seq(Characters) /\ Len(row) = e - i
      /\ \A j \in 1 .. e - i : row[j] = text[i + j - 1]
      /\ LineEnd(text, i) = IF e = Len(text) + 1 THEN 0 ELSE e
  BY <1>2 DEF HasLine, IsLine
<1>4. /\ Len(k) < e - i /\ row[Len(k) + 1] = "="
      /\ \A j \in 1 .. Len(k) : row[j] = k[j]
  BY <1>3, GivesWhere
<1>5. i + Len(k) <= Len(text) /\ i + Len(k) < e
  BY <1>1, <1>3, <1>4
<1>6. text[i + Len(k)] = "="
  <2>1. Len(k) + 1 \in 1 .. e - i /\ i + (Len(k) + 1) - 1 = i + Len(k)
    BY <1>1, <1>3, <1>4
  <2>2. QED BY <1>3, <1>4, <2>1
<1>7. \A j \in 1 .. Len(k) : text[i + j - 1] = k[j]
  <2>1. \A j \in 1 .. Len(k) : j \in 1 .. e - i
    BY <1>1, <1>3, <1>4
  <2>2. QED BY <1>3, <1>4, <2>1
<1>8. Occurs(k, text, i)
  <2>1. i + Len(k) - 1 <= Len(text)
    BY <1>1, <1>3, <1>5
  <2>2. QED BY <1>1, <1>3, <1>7, <2>1, OccursWhere
<1>9. \A n \in i .. i + Len(k) - 1 : text[n] \notin {"nl", "[", "]", "="}
  <2> TAKE n \in i .. i + Len(k) - 1
  <2>1. n - i + 1 \in 1 .. Len(k) /\ i + (n - i + 1) - 1 = n
    BY <1>1, <1>3
  <2>2. QED BY <1>1, <1>7, <2>1
<1>10. FirstAt(<<"=">>, text, i) = i + Len(k)
  <2> DEFINE f == FirstAt(<<"=">>, text, i)
  <2>1. f \in 0 .. Len(text) /\ (f # 0 => f >= i /\ Occurs(<<"=">>, text, f))
        /\ \A n \in i .. Len(text) : Occurs(<<"=">>, text, n) => f # 0 /\ f <= n
    BY <1>1, <1>3, FirstPlace
  <2> HIDE DEF f
  <2>2. Occurs(<<"=">>, text, i + Len(k))
    BY <1>1, <1>3, <1>5, <1>6, OneCharacter
  <2>3. f # 0 /\ f <= i + Len(k)
    BY <1>1, <1>3, <1>5, <2>1, <2>2
  <2>4. text[f] = "="
    BY <1>1, <2>1, <2>3, OneCharacter
  <2>5. f \in Nat /\ i + Len(k) \in Nat /\ ~(f \in i .. i + Len(k) - 1)
    BY <1>1, <1>3, <1>9, <2>1, <2>4
  <2>6. f = i + Len(k)
    <3>1. f >= i /\ f <= i + Len(k) /\ Len(k) \in Nat /\ i \in Nat
      BY <1>1, <1>3, <2>1, <2>3
    <3>2. QED BY ONLY <2>5, <3>1
  <2>7. QED BY <2>6 DEF f
<1>11. LineEnd(text, i) = 0 \/ LineEnd(text, i) > i + Len(k)
  BY <1>1, <1>3, <1>5
<1>12. text[i] # "["
  <2>1. i \in i .. i + Len(k) - 1
    BY <1>1, <1>3
  <2>2. QED BY <1>9, <2>1
<1>13. From(row, Len(k) + 2) =
         SubSeq(text, i + Len(k) + 1, IF LineEnd(text, i) = 0 THEN Len(text) ELSE LineEnd(text, i) - 1)
  <2> DEFINE m == Len(k)
             x == SubSeq(row, m + 2, e - i)
             y == SubSeq(text, i + m + 1, e - 1)
  <2>1. m \in Nat /\ m < e - i /\ e \in Nat /\ i \in Nat
    BY <1>1, <1>3, <1>4
  <2>2. \A j \in m + 2 .. e - i : row[j] \in Characters
    BY <1>3, <2>1
  <2>3. \A j \in i + m + 1 .. e - 1 : text[j] \in Characters
    BY <1>1, <1>3, <2>1
  <2>4. /\ x \in Seq(Characters) /\ Len(x) = e - i - m - 1
        /\ \A j \in 1 .. e - i - m - 1 : x[j] = row[m + 2 + j - 1]
    <3> HIDE DEF m
    <3>1. QED BY <2>1, <2>2, SubSeqProperties
  <2>5. /\ y \in Seq(Characters) /\ Len(y) = e - i - m - 1
        /\ \A j \in 1 .. e - i - m - 1 : y[j] = text[i + m + 1 + j - 1]
    <3> HIDE DEF m
    <3>1. QED BY <2>1, <2>3, SubSeqProperties
  <2>6. From(row, Len(k) + 2) = x
    BY <1>3 DEF From
  <2>7. y = SubSeq(text, i + Len(k) + 1, IF LineEnd(text, i) = 0 THEN Len(text) ELSE LineEnd(text, i) - 1)
    <3>1. e - 1 = IF LineEnd(text, i) = 0 THEN Len(text) ELSE LineEnd(text, i) - 1
      BY <1>1, <1>3
    <3>2. QED BY <3>1
  <2> HIDE DEF m, x, y
  <2>8. \A j \in 1 .. e - i - m - 1 : row[m + 2 + j - 1] = text[i + m + 1 + j - 1]
    <3> TAKE j \in 1 .. e - i - m - 1
    <3>1. m + 2 + j - 1 \in 1 .. e - i /\ i + (m + 2 + j - 1) - 1 = i + m + 1 + j - 1
      BY <2>1
    <3>2. QED BY <1>3, <3>1
  <2>9. \A j \in 1 .. Len(x) : x[j] = y[j]
    BY <2>4, <2>5, <2>8
  <2>10. x = y
    BY <2>4, <2>5, <2>9, SeqEqual
  <2>11. QED BY <2>6, <2>7, <2>10
<1>14. QED BY <1>5, <1>8, <1>10, <1>11, <1>12, <1>13

(* A line "[a]" is a header, and where a search finds "[a]".               *)
LEMMA HeaderLine ==
  ASSUME NEW text \in Seq(Characters), NEW a \in Words, NEW h \in LineStarts(text),
         Line(text, h) = Header(a)
  PROVE  h \in Headers(text) /\ Occurs(Header(a), text, h)
<1>1. /\ Header(a) \in Seq(Characters) \ {<<>>} /\ Len(Header(a)) \in Nat \ {0}
      /\ Header(a)[1] = "[" /\ Len(text) \in Nat
  BY WordType
<1>2. PICK e : HasLine(text, h, e)
  BY LineIs
<1> PICK head : head = Header(a)
  OBVIOUS
<1>3. /\ h \in 1 .. Len(text) /\ e \in h + 1 .. Len(text) + 1 /\ Len(head) = e - h
      /\ \A j \in 1 .. e - h : head[j] = text[h + j - 1]
  BY <1>2 DEF HasLine, IsLine
<1>4. h + Len(head) - 1 <= Len(text)
  BY <1>1, <1>3
<1>5. Occurs(head, text, h)
  BY <1>1, <1>3, <1>4, OccursWhere
<1>6. text[h] = "["
  <2>1. 1 \in 1 .. e - h /\ h + 1 - 1 = h
    BY <1>1, <1>3
  <2>2. QED BY <1>1, <1>3, <2>1
<1>7. QED BY <1>5, <1>6 DEF Headers

(* Where the searches find what they look for, they find the section.      *)
LEMMA NoSection ==
  ASSUME NEW text \in Seq(Characters), NEW a \in Words, AppStart(text, a) = 0
  PROVE  \A i : ~IsIn(text, a, i)
<1> SUFFICES ASSUME NEW h \in Headers(text), Line(text, h) = Header(a) PROVE FALSE
  BY DEF IsIn
<1>1. h \in LineStarts(text)
  BY DEF Headers
<1>2. Occurs(Header(a), text, h) /\ h \in 1 .. Len(text) /\ Len(text) \in Nat
  BY <1>1, HeaderLine DEF LineStarts
<1>3. QED BY <1>2, FirstPlace DEF AppStart

LEMMA SectionIs ==
  ASSUME NEW text \in Seq(Characters), NEW a \in Words, NEW k \in Words, Clear(text, a, k),
         NEW p, p = AppStart(text, a), p # 0, NEW e, e = AppEnd(text, a)
  PROVE  /\ p \in Headers(text) /\ Line(text, p) = Header(a)
         /\ e # 0 => e \in Headers(text) /\ e > p
         /\ \A i \in Nat : IsIn(text, a, i) <=> i > p /\ (e = 0 \/ i <= e)
<1>1. /\ Len(text) \in Nat /\ DOMAIN text = 1 .. Len(text)
      /\ Header(a) \in Seq(Characters) \ {<<>>} /\ "[" \in Characters
      /\ Header(a)[1] = "[" /\ Len(Header(a)) \in Nat \ {0}
  BY WordType, ConfigAssumption
<1>2. /\ p \in 1 .. Len(text) /\ Occurs(Header(a), text, p)
      /\ \A i \in 1 .. Len(text) : Occurs(Header(a), text, i) => p <= i
  <2>1. /\ p \in 0 .. Len(text) /\ Occurs(Header(a), text, p)
        /\ \A i \in 1 .. Len(text) : Occurs(Header(a), text, i) => p <= i
    BY <1>1, FirstPlace DEF AppStart
  <2>2. QED BY <1>1, <2>1
<1>3. \A i \in 1 .. Len(text) : text[i] = "[" <=> i \in Headers(text)
  BY <1>1 DEF Headers, Clear
<1>4. text[p] = "["
  <2> PICK head : head = Header(a)
    OBVIOUS
  <2>1. \A j \in 1 .. Len(head) : text[p + j - 1] = head[j]
    BY <1>1, <1>2, OccursWhere
  <2>2. text[p + 1 - 1] = "["
    BY <1>1, <2>1
  <2>3. QED BY <1>2, <2>2
<1>5. p \in Headers(text) /\ Line(text, p) = Header(a)
  BY <1>2, <1>3, <1>4 DEF Clear
<1>6. /\ e \in 0 .. Len(text) /\ (e # 0 => e > p /\ text[e] = "[")
      /\ \A i \in p + 1 .. Len(text) : text[i] = "[" => e # 0 /\ e <= i
  <2> DEFINE f == FirstAt(<<"[">>, text, p + 1)
  <2>1. /\ f \in 0 .. Len(text) /\ (f # 0 => f >= p + 1 /\ Occurs(<<"[">>, text, f))
        /\ \A i \in p + 1 .. Len(text) : Occurs(<<"[">>, text, i) => f # 0 /\ f <= i
    BY <1>1, <1>2, FirstPlace
  <2>2. e = f
    BY DEF AppEnd
  <2> HIDE DEF f
  <2>3. \A i \in 1 .. Len(text) : Occurs(<<"[">>, text, i) <=> text[i] = "["
    BY <1>1, OneCharacter
  <2>4. QED BY <1>1, <1>2, <2>1, <2>2, <2>3
<1>7. e # 0 => e \in Headers(text) /\ e > p
  BY <1>1, <1>3, <1>6
<1>8. \A h \in Headers(text) : h \in LineStarts(text) /\ h \in 1 .. Len(text) /\ text[h] = "["
  BY <1>1 DEF Headers, LineStarts
<1>9. \A h \in Headers(text) : Line(text, h) = Header(a) => p <= h
  BY <1>2, <1>8, HeaderLine
<1>10. ASSUME NEW i \in Nat, IsIn(text, a, i) PROVE i > p /\ (e = 0 \/ i <= e)
  <2>1. PICK h \in Headers(text) :
          /\ h < i /\ Line(text, h) = Header(a)
          /\ \A g \in Headers(text) : (g <= h \/ g >= i) /\ (g < h => Line(text, g) # Header(a))
    BY <1>10 DEF IsIn
  <2>2. p <= h /\ h \in Nat /\ ~(p < h)
    BY <1>1, <1>5, <1>8, <1>9, <2>1
  <2>3. h = p
    BY <1>2, <2>2
  <2>4. e # 0 => e <= p \/ e >= i
    BY <1>7, <2>1, <2>3
  <2>5. QED BY <1>2, <1>6, <1>7, <2>1, <2>3, <2>4
<1>11. ASSUME NEW i \in Nat, i > p, e = 0 \/ i <= e PROVE IsIn(text, a, i)
  <2>1. ASSUME NEW g \in Headers(text) PROVE g <= p \/ g >= i
    <3>1. g \in 1 .. Len(text) /\ text[g] = "["
      BY <1>8
    <3>2. g > p => e # 0 /\ e <= g
      BY <1>1, <1>2, <1>6, <3>1
    <3>3. QED BY <1>1, <1>2, <1>6, <1>11, <3>1, <3>2
  <2>2. ASSUME NEW g \in Headers(text), g < p PROVE Line(text, g) # Header(a)
    BY <1>1, <1>2, <1>8, <1>9, <2>2
  <2>3. QED BY <1>5, <1>11, <2>1, <2>2 DEF IsIn
<1>12. QED BY <1>5, <1>7, <1>10, <1>11

(* And they find the key: a line of it in the section is not before it.    *)
LEMMA KeyIs ==
  ASSUME NEW text \in Seq(Characters), NEW a \in Words, NEW k \in Words, Clear(text, a, k),
         NEW p, p = AppStart(text, a), p # 0, NEW q, q = KeyStart(text, a, k)
  PROVE  /\ q \in 0 .. Len(text)
         /\ q # 0 => q > p /\ q \in LineStarts(text) /\ Gives(Line(text, q), k)
         /\ \A i \in LineStarts(text) : i > p /\ Gives(Line(text, i), k) => q # 0 /\ q <= i
<1>1. /\ Len(text) \in Nat /\ k \in Seq(Characters) \ {<<>>}
      /\ p \in Headers(text) /\ p \in 1 .. Len(text) /\ text[p] = "["
  BY WordType, SectionIs DEF Headers, LineStarts
<1>2. /\ q \in 0 .. Len(text) /\ (q # 0 => q >= p)
      /\ \A i \in p .. Len(text) : Occurs(k, text, i) => q # 0 /\ q <= i
  BY <1>1, FirstPlace DEF KeyStart
<1>3. q # 0 => q \in LineStarts(text) /\ Gives(Line(text, q), k)
  BY DEF Clear
<1>4. q # 0 => q # p
  BY <1>1, <1>3, LineOfKey
<1>5. ASSUME NEW i \in LineStarts(text), i > p, Gives(Line(text, i), k) PROVE q # 0 /\ q <= i
  <2>1. Occurs(k, text, i) /\ i \in p .. Len(text)
    BY <1>1, <1>5, LineOfKey DEF LineStarts
  <2>2. QED BY <1>2, <2>1
<1>6. QED BY <1>1, <1>2, <1>3, <1>4, <1>5

LEMMA KeyNotHeader ==
  ASSUME NEW text \in Seq(Characters), NEW b \in Words, NEW k \in Words, NEW i \in Lines(text, b, k)
  PROVE  i \in LineStarts(text) /\ i \in 1 .. Len(text) /\ i \notin Headers(text) /\ Gives(Line(text, i), k) /\ IsIn(text, b, i)
<1>1. i \in LineStarts(text) /\ Gives(Line(text, i), k) /\ IsIn(text, b, i)
  BY DEF Lines
<1>2. text[i] # "["
  BY <1>1, LineOfKey
<1>3. QED BY <1>1, <1>2 DEF Headers, LineStarts

(* In a text in which the searches find what they look for, a read gives   *)
(* what the lines of the text say.                                         *)
LEMMA ReadIsSetting ==
  ASSUME NEW text \in Seq(Characters), NEW a \in Words, NEW k \in Words, Clear(text, a, k)
  PROVE  GetPrivateProfileString(text, a, k) =
           IF Setting(text, a, k) = {} THEN Default ELSE CHOOSE v \in Setting(text, a, k) : TRUE
<1> DEFINE p == AppStart(text, a)
           q == KeyStart(text, a, k)
           e == AppEnd(text, a)
<1>0. Len(text) \in Nat
  OBVIOUS
<1>1. CASE p = 0
  <2>1. Lines(text, a, k) = {}
    BY <1>1, NoSection DEF Lines
  <2>2. Setting(text, a, k) = {}
    BY <2>1 DEF Setting
  <2>3. ~KeyInSection(text, a, k)
    BY <1>1 DEF KeyInSection
  <2>4. QED BY <2>2, <2>3 DEF GetPrivateProfileString
<1>2. CASE p # 0
  <2>1. /\ p \in Headers(text) /\ e # 0 => e \in Headers(text) /\ e > p
        /\ \A i \in Nat : IsIn(text, a, i) <=> i > p /\ (e = 0 \/ i <= e)
    BY <1>2, SectionIs
  <2>1a. \A h \in Headers(text) : h \in 1 .. Len(text)
    BY DEF Headers, LineStarts
  <2>1b. p \in Nat /\ (e # 0 => e \in Headers(text) /\ e \in Nat)
    BY <1>2, <2>1a, SectionIs
  <2>2. /\ q \in 0 .. Len(text)
        /\ q # 0 => q > p /\ q \in LineStarts(text) /\ Gives(Line(text, q), k)
        /\ \A i \in LineStarts(text) : i > p /\ Gives(Line(text, i), k) => q # 0 /\ q <= i
    BY <1>2, KeyIs
  <2>3. KeyInSection(text, a, k) <=> q # 0 /\ (e = 0 \/ q < e)
    BY <1>2 DEF KeyInSection
  <2> HIDE DEF p, q, e
  <2>4. \A i \in Lines(text, a, k) : q # 0 /\ q <= i /\ i \in Nat /\ (e = 0 \/ i < e)
    <3> TAKE i \in Lines(text, a, k)
    <3>1. i \in LineStarts(text) /\ i \in Nat /\ i \notin Headers(text) /\ Gives(Line(text, i), k) /\ IsIn(text, a, i)
      BY KeyNotHeader
    <3>2. i > p /\ (e = 0 \/ i <= e)
      BY <1>2, <3>1, SectionIs DEF p, e
    <3>3. e # 0 => e # i
      BY <2>1b, <3>1
    <3>4. QED BY <2>1b, <2>2, <3>1, <3>2, <3>3
  <2>5. CASE KeyInSection(text, a, k)
    <3>1. q # 0 /\ (e = 0 \/ q < e) /\ q \in LineStarts(text) /\ Gives(Line(text, q), k) /\ q \in Nat /\ q > p
      BY <2>2, <2>3, <2>5
    <3>2. IsIn(text, a, q)
      <4>1. e = 0 \/ q <= e
        BY <2>1b, <3>1
      <4>2. QED BY <1>2, <3>1, <4>1, SectionIs DEF p, e
    <3>3. q \in Lines(text, a, k)
      BY <3>1, <3>2 DEF Lines
    <3>4. {j \in Lines(text, a, k) : \A n \in Lines(text, a, k) : j <= n} = {q}
      <4>1. \A j \in Lines(text, a, k) : (\A n \in Lines(text, a, k) : j <= n) => j = q
        BY <2>4, <3>1, <3>3
      <4>2. QED BY <2>4, <3>3, <4>1
    <3> DEFINE value == SubSeq(text, q + Len(k) + 1, IF LineEnd(text, q) = 0 THEN Len(text) ELSE LineEnd(text, q) - 1)
    <3>5. /\ FirstAt(<<"=">>, text, q) = q + Len(k)
          /\ LineEnd(text, q) = 0 \/ LineEnd(text, q) > q + Len(k)
          /\ From(Line(text, q), Len(k) + 2) = value
      BY <3>1, LineOfKey
    <3>6. Setting(text, a, k) = {value}
      <4> HIDE DEF value
      <4>1. QED BY <3>4, <3>5 DEF Setting
    <3>7. GetPrivateProfileString(text, a, k) = value
      <4>1. q + Len(k) # 0 /\ q + Len(k) \in Int
        BY <3>1, WordType
      <4>2. CASE LineEnd(text, q) = 0
        BY <2>5, <3>5, <4>1, <4>2 DEF GetPrivateProfileString, From, q
      <4>3. CASE LineEnd(text, q) # 0
        BY <2>5, <3>5, <4>1, <4>3 DEF GetPrivateProfileString, q
      <4>4. QED BY <4>2, <4>3
    <3> HIDE DEF value
    <3>8. QED BY <3>6, <3>7
  <2>6. CASE ~KeyInSection(text, a, k)
    <3>1. Lines(text, a, k) = {}
      <4> SUFFICES ASSUME NEW i \in Lines(text, a, k) PROVE FALSE
        OBVIOUS
      <4>1. q # 0 /\ q <= i /\ i \in Nat /\ (e = 0 \/ i < e)
        BY <2>4
      <4>2. QED BY <1>0, <2>1b, <2>2, <2>3, <2>6, <4>1
    <3>2. Setting(text, a, k) = {}
      BY <3>1 DEF Setting
    <3>3. QED BY <2>6, <3>2 DEF GetPrivateProfileString
  <2>7. QED BY <2>5, <2>6
<1>3. QED BY <1>1, <1>2

(* A file is a text, and so is what a writer is going to write.            *)
CfgTypeOK ==
  /\ file = {} \/ \E t \in Seq(Characters) : file = {t}
  /\ newBuff \in [Writers -> Seq(Characters)]

(* The text of the file, its beginnings and its ends are texts.            *)
LEMMA TextType == CfgTypeOK => Text \in Seq(Characters)
<1> SUFFICES ASSUME CfgTypeOK PROVE Text \in Seq(Characters)
  OBVIOUS
<1>1. CASE file = {}
  BY <1>1 DEF Text
<1>2. CASE \E t \in Seq(Characters) : file = {t}
  BY <1>2 DEF Text
<1>3. QED BY <1>1, <1>2 DEF CfgTypeOK

LEMMA PartsType ==
  ASSUME NEW text \in Seq(Characters), NEW n \in Int
  PROVE  /\ n >= 1 => From(text, n) \in Seq(Characters)
         /\ n <= Len(text) => Before(text, n) \in Seq(Characters)
<1>1. Len(text) \in Nat /\ \A i \in 1 .. Len(text) : text[i] \in Characters
  OBVIOUS
<1>2. ASSUME n >= 1 PROVE From(text, n) \in Seq(Characters)
  <2>1. \A i \in n .. Len(text) : text[i] \in Characters
    BY <1>1, <1>2
  <2>2. QED BY <1>1, <2>1, SubSeqProperties DEF From
<1>3. ASSUME n <= Len(text) PROVE Before(text, n) \in Seq(Characters)
  <2>1. \A i \in 1 .. n - 1 : text[i] \in Characters
    BY <1>1, <1>3
  <2>2. n - 1 \in Int
    OBVIOUS
  <2>3. QED BY <2>1, <2>2, SubSeqProperties DEF Before
<1>4. QED BY <1>2, <1>3

(* What is going to be written is a text again.                            *)
LEMMA NewTextType ==
  ASSUME NEW text \in Seq(Characters), NEW a \in Words, NEW k \in Words, NEW v \in Seq(Characters)
  PROVE  NewText(text, a, k, v) \subseteq Seq(Characters) /\ FirstFile(a, k, v) \in Seq(Characters)
<1>1. /\ <<"nl">> \in Seq(Characters) /\ <<"=">> \in Seq(Characters)
      /\ Header(a) \in Seq(Characters) /\ k \in Seq(Characters) /\ Len(text) \in Nat
  BY WordType, ConfigAssumption
<1>2. \A s, t \in Seq(Characters) : s \o t \in Seq(Characters)
  BY ConcatProperties
<1>3. Pair(k, v) \in Seq(Characters)
  BY <1>1, <1>2 DEF Pair
<1>4. PairLine(k, v) \in Seq(Characters)
  BY <1>1, <1>2, <1>3 DEF PairLine
<1>5. FirstFile(a, k, v) \in Seq(Characters)
  BY <1>1, <1>2, <1>3 DEF FirstFile
<1>6. CASE AppStart(text, a) = 0
  <2>1. ~KeyInSection(text, a, k)
    BY <1>6 DEF KeyInSection
  <2>2. NewText(text, a, k, v) = {text \o <<"nl">> \o Header(a) \o <<"nl">> \o Pair(k, v)}
    BY <1>6, <2>1 DEF NewText
  <2>3. QED BY <1>1, <1>2, <1>3, <1>5, <2>2
<1>7. CASE AppStart(text, a) # 0
  <2> DEFINE p == AppStart(text, a)
             key == KeyStart(text, a, k)
             end == LineEnd(text, key)
             appEnd == AppEnd(text, a)
  <2>1. p \in 1 .. Len(text)
    BY <1>1, <1>7, FirstPlace DEF AppStart
  <2>2. key \in 0 .. Len(text) /\ appEnd \in 0 .. Len(text)
    <3>1. key = FirstAt(k, text, p) /\ appEnd = FirstAt(<<"[">>, text, p + 1)
      BY DEF KeyStart, AppEnd
    <3> HIDE DEF p, key, appEnd
    <3>2. p \in Nat \ {0} /\ p + 1 \in Nat \ {0}
      BY <1>1, <2>1
    <3>3. QED BY <1>1, <3>1, <3>2, FirstPlace
  <2>3. key # 0 => end \in 0 .. Len(text)
    <3>1. end = FirstAt(<<"nl">>, text, key)
      BY DEF LineEnd
    <3> HIDE DEF key, end
    <3>2. QED BY <1>1, <2>2, <3>1, FirstPlace
  <2>4. CASE KeyInSection(text, a, k)
    <3>1. key # 0
      BY <2>4 DEF KeyInSection
    <3>2. NewText(text, a, k, v) =
            {Before(text, key) \o Pair(k, v) \o IF end = 0 THEN <<>> ELSE From(text, end)}
      BY <1>7, <2>4, <3>1 DEF NewText
    <3> HIDE DEF key, end
    <3>3. Before(text, key) \in Seq(Characters) /\ (end # 0 => From(text, end) \in Seq(Characters))
      BY <1>1, <2>2, <2>3, <3>1, PartsType
    <3>4. (IF end = 0 THEN <<>> ELSE From(text, end)) \in Seq(Characters)
      BY <3>3
    <3>5. QED BY <1>2, <1>3, <1>5, <3>2, <3>3, <3>4
  <2>5. CASE ~KeyInSection(text, a, k) /\ key = 0 /\ appEnd # 0
    <3>1. NewText(text, a, k, v) = {Before(text, appEnd) \o PairLine(k, v) \o From(text, appEnd)}
      BY <1>7, <2>5 DEF NewText
    <3> HIDE DEF key, appEnd
    <3>2. Before(text, appEnd) \in Seq(Characters) /\ From(text, appEnd) \in Seq(Characters)
      BY <1>1, <2>2, <2>5, PartsType
    <3>3. QED BY <1>2, <1>4, <1>5, <3>1, <3>2
  <2>6. CASE ~KeyInSection(text, a, k) /\ key = 0 /\ appEnd = 0
    <3>1. NewText(text, a, k, v) = {text \o <<"nl">> \o Pair(k, v)}
      BY <1>7, <2>6 DEF NewText
    <3>2. QED BY <1>1, <1>2, <1>3, <1>5, <3>1
  <2>7. CASE ~KeyInSection(text, a, k) /\ key # 0
    <3>1. NewText(text, a, k, v) = {}
      BY <1>7, <2>7 DEF NewText
    <3>2. QED BY <1>5, <3>1
  <2>8. QED BY <2>4, <2>5, <2>6, <2>7
<1>8. QED BY <1>6, <1>7

(* The types hold at the start and after every step.                       *)
LEMMA CfgTypeInit == CfgInit => CfgTypeOK
<1> SUFFICES ASSUME CfgInit PROVE CfgTypeOK
  OBVIOUS
<1>1. file = {} \/ \E t \in Seq(Characters) : file = {t}
  BY ConfigAssumption DEF CfgInit
<1>2. <<>> \in Seq(Characters)
  OBVIOUS
<1>3. newBuff \in [Writers -> Seq(Characters)]
  BY <1>2 DEF CfgInit
<1>4. QED BY <1>1, <1>3 DEF CfgTypeOK

LEMMA CfgTypeStep == CfgTypeOK /\ [CfgNext]_cfgVars => CfgTypeOK'
<1> SUFFICES ASSUME CfgTypeOK, [CfgNext]_cfgVars PROVE CfgTypeOK'
  OBVIOUS
<1>e. <<>> \in Seq(Characters)
  OBVIOUS
<1>t. Text \in Seq(Characters) /\ newBuff \in [Writers -> Seq(Characters)]
  BY TextType DEF CfgTypeOK
<1>1. ASSUME NEW w \in Writers, TruncateFile(w) PROVE CfgTypeOK'
  BY <1>1, <1>e DEF CfgTypeOK, TruncateFile
<1>2. ASSUME NEW w \in Writers, SaveFile(w) PROVE CfgTypeOK'
  <2>1. newBuff[w] \in Seq(Characters) /\ Len(newBuff[w]) + 1 \in Int /\ Len(newBuff[w]) + 1 >= 1
    BY <1>t
  <2>2. From(Text, Len(newBuff[w]) + 1) \in Seq(Characters)
    BY <1>t, <2>1, PartsType
  <2>3. newBuff[w] \o From(Text, Len(newBuff[w]) + 1) \in Seq(Characters)
    BY <2>1, <2>2, ConcatProperties
  <2>4. file' = {newBuff[w] \o From(Text, Len(newBuff[w]) + 1)} /\ newBuff' = [newBuff EXCEPT ![w] = <<>>]
    BY <1>2 DEF SaveFile
  <2>5. newBuff' \in [Writers -> Seq(Characters)]
    BY <1>e, <1>t, <2>4
  <2>6. QED BY <2>3, <2>4, <2>5 DEF CfgTypeOK
<1>3. ASSUME NEW w \in Writers, WriteDies(w) PROVE CfgTypeOK'
  BY <1>3, <1>e DEF CfgTypeOK, WriteDies
<1>4. ASSUME NEW w \in Writers, NEW s \in Settings, NEW v \in Values, LoadFile(w, s[1], s[2], v)
      PROVE  CfgTypeOK'
  <2>1. s[1] \in Words /\ s[2] \in Words /\ v \in Seq(Characters)
    BY ConfigAssumption
  <2>2. PICK t \in IF file = {} THEN {FirstFile(s[1], s[2], v)} ELSE NewText(Text, s[1], s[2], v) :
          newBuff' = [newBuff EXCEPT ![w] = t]
    BY <1>4 DEF LoadFile
  <2>3. t \in Seq(Characters)
    BY <1>t, <2>1, NewTextType
  <2>4. newBuff' \in [Writers -> Seq(Characters)] /\ file' = file
    BY <1>4, <1>t, <2>2, <2>3 DEF LoadFile
  <2>5. QED BY <2>4 DEF CfgTypeOK
<1>5. CASE UNCHANGED cfgVars
  BY <1>5 DEF cfgVars, CfgTypeOK
<1>6. QED BY <1>1, <1>2, <1>3, <1>4, <1>5 DEF CfgNext

(* Whatever text writers have left, by crashes or side by side, a read     *)
(* whose searches find what they look for gives what the lines of the file *)
(* say, for any texts made by hand, settings, values and writers.          *)
THEOREM ReadsFindSetting == CfgSpec => []ReadFindsSetting
<1>1. CfgTypeOK => ReadFindsSetting
  <2> SUFFICES ASSUME CfgTypeOK, NEW s \in Settings, Clear(Text, s[1], s[2])
               PROVE  LET set == Setting(Text, s[1], s[2]) IN
                      GetPrivateProfileString(Text, s[1], s[2])
                        = IF set = {} THEN Default ELSE CHOOSE v \in set : TRUE
    BY DEF ReadFindsSetting
  <2>1. Text \in Seq(Characters) /\ s[1] \in Words /\ s[2] \in Words
    BY TextType, ConfigAssumption
  <2>2. QED BY <2>1, ReadIsSetting
<1>2. QED BY <1>1, CfgTypeInit, CfgTypeStep, PTL DEF CfgSpec

------------------------------------------------------------------------------
(* BasicConfig. A write sets its setting and disturbs no other.            *)

(* u is t with the line z behind its first n characters.                   *)
IsWith(u, t, n, z) ==
  /\ Len(u) = Len(t) + Len(z) + 1
  /\ \A i \in 1 .. n : u[i] = t[i]
  /\ u[n + 1] = "nl"
  /\ \A j \in 1 .. Len(z) : u[n + 1 + j] = z[j]
  /\ \A i \in n + 1 .. Len(t) : u[i + Len(z) + 1] = t[i]

HasRoom(t, n) == n \in 0 .. Len(t) /\ (n = Len(t) \/ t[n + 1] = "nl")
IsOneLine(z) == Len(z) > 0 /\ \A j \in 1 .. Len(z) : z[j] # "nl"

Same(u, j, t, i) == j \in LineStarts(u) /\ Line(u, j) = Line(t, i) /\ u[j] = t[i]

(* The lines of u are those of t, the later ones moved, and z.             *)
Adds(u, t, at, d, z) ==
  /\ at \in Nat /\ d \in Nat
  /\ \A i \in LineStarts(t) : /\ i \in Nat
                              /\ i < at => Same(u, i, t, i)
                              /\ i >= at => Same(u, i + d, t, i)
  /\ at \in LineStarts(u) /\ Line(u, at) = z /\ u[at] = z[1]
  /\ \A j \in LineStarts(u) : \/ j = at
                              \/ j < at /\ j \in LineStarts(t)
                              \/ j > at /\ j - d \in LineStarts(t) /\ j - d >= at

LEMMA WithAdds ==
  ASSUME NEW t \in Seq(Characters), NEW u \in Seq(Characters), NEW z \in Seq(Characters),
         NEW n, HasRoom(t, n), IsOneLine(z), IsWith(u, t, n, z)
  PROVE  Adds(u, t, n + 2, Len(z) + 1, z)
<1> PICK N : N = Len(t)
  OBVIOUS
<1> PICK M : M = Len(u)
  OBVIOUS
<1> PICK l : l = Len(z)
  OBVIOUS
<1> PICK at : at = n + 2
  OBVIOUS
<1> PICK d : d = l + 1
  OBVIOUS
<1>1. /\ N \in Nat /\ l \in Nat /\ n \in 0 .. N /\ l > 0 /\ M = N + l + 1
      /\ n = N \/ t[n + 1] = "nl"
      /\ \A j \in 1 .. l : z[j] # "nl"
      /\ \A i \in 1 .. n : u[i] = t[i]
      /\ u[n + 1] = "nl"
      /\ \A j \in 1 .. l : u[n + 1 + j] = z[j]
      /\ \A i \in n + 1 .. N : u[i + l + 1] = t[i]
  BY DEF HasRoom, IsOneLine, IsWith
<1>0. /\ N \in Nat /\ l \in Nat /\ n \in 0 .. N /\ l > 0 /\ M = N + l + 1
      /\ at = n + 2 /\ d = l + 1
  BY <1>1
<1>1a. \A i \in n + 1 .. N : u[i + d] = t[i]
  <2>1. \A i \in n + 1 .. N : i + d = i + l + 1
    BY <1>1
  <2>2. QED BY <1>1, <2>1
<1>2. \A i : i \in LineStarts(t) <=> i \in 1 .. N /\ t[i] # "nl" /\ (i = 1 \/ t[i - 1] = "nl")
  BY DEF LineStarts
<1>3. \A i : i \in LineStarts(u) <=> i \in 1 .. M /\ u[i] # "nl" /\ (i = 1 \/ u[i - 1] = "nl")
  BY DEF LineStarts
<1>4. \A i \in LineStarts(t) : i \in 1 .. n \/ i \in n + 2 .. N
  BY <1>1, <1>2
<1>5. ASSUME NEW i \in LineStarts(t), i \in 1 .. n PROVE Same(u, i, t, i)
  <2>1. PICK e : HasLine(t, i, e)
    BY LineIs
  <2>2. /\ IsLine(t, i, e) /\ e \in i + 1 .. N + 1 /\ (e = N + 1 \/ t[e] = "nl")
        /\ \A j \in i .. e - 1 : t[j] # "nl"
    BY <2>1 DEF HasLine, IsLine
  <2>3. e <= n + 1
    <3> SUFFICES ASSUME e > n + 1 PROVE FALSE
      BY <1>1, <2>2
    <3>1. n + 1 \in i .. e - 1 /\ n # N
      BY <1>1, <1>5, <2>2
    <3>2. QED BY <1>1, <2>2, <3>1
  <2>4. i \in LineStarts(u) /\ u[i] = t[i]
    <3>1. i \in 1 .. M /\ (i # 1 => i - 1 \in 1 .. n)
      BY <1>1, <1>5
    <3>2. i = 1 \/ u[i - 1] = "nl"
      BY <1>1, <1>2, <3>1
    <3>3. QED BY <1>1, <1>2, <1>3, <1>5, <3>1, <3>2
  <2>5. u[e] = "nl"
    <3>1. CASE e = n + 1
      BY <1>1, <3>1
    <3>2. CASE e \in 1 .. n
      BY <1>1, <2>2, <3>2
    <3>3. QED BY <1>1, <1>5, <2>2, <2>3, <3>1, <3>2
  <2>6. IsLine(u, i, e)
    <3>1. i \in 1 .. M /\ e \in i + 1 .. M + 1
      BY <1>1, <1>5, <2>2, <2>3
    <3>2. \A j \in i .. e - 1 : j \in 1 .. n
      BY <1>1, <1>5, <2>2, <2>3
    <3>3. \A j \in i .. e - 1 : u[j] # "nl"
      BY <1>1, <2>2, <3>2
    <3>4. QED BY <2>5, <3>1, <3>3 DEF IsLine
  <2>7. \A j \in 1 .. e - i : u[i + j - 1] = t[i + j - 1]
    <3>1. \A j \in 1 .. e - i : i + j - 1 \in 1 .. n
      BY <1>1, <1>5, <2>2, <2>3
    <3>2. QED BY <1>1, <3>1
  <2>8. Line(u, i) = Line(t, i)
    BY <2>2, <2>4, <2>6, <2>7, SameLine
  <2>9. QED BY <2>4, <2>8 DEF Same
<1>6. ASSUME NEW i \in LineStarts(t), i \in n + 2 .. N PROVE Same(u, i + d, t, i)
  <2>1. PICK e : HasLine(t, i, e)
    BY LineIs
  <2>2. /\ IsLine(t, i, e) /\ e \in i + 1 .. N + 1 /\ (e = N + 1 \/ t[e] = "nl")
        /\ \A j \in i .. e - 1 : t[j] # "nl"
    BY <2>1 DEF HasLine, IsLine
  <2> PICK k : k = i + d
    OBVIOUS
  <2> PICK g : g = e + d
    OBVIOUS
  <2>3. k \in 1 .. M /\ g \in k + 1 .. M + 1 /\ (g = M + 1 <=> e = N + 1)
    <3>1. e \in i + 1 .. N + 1 /\ i \in n + 2 .. N
      BY <1>6, <2>2
    <3>2. QED BY ONLY <1>0, <3>1, k = i + d, g = e + d
  <2>4. \A j \in n + 1 .. N : \A m : m = j + d => u[m] = t[j]
    BY <1>1a
  <2>5. k \in LineStarts(u) /\ u[k] = t[i]
    <3>1. i - 1 \in n + 1 .. N /\ k - 1 = i - 1 + d /\ i \in n + 1 .. N /\ i # 1
      BY <1>0, <1>6
    <3>2. u[k - 1] = t[i - 1] /\ u[k] = t[i]
      BY <2>4, <3>1
    <3>3. QED BY <1>2, <1>3, <2>3, <3>1, <3>2
  <2>6. g = M + 1 \/ u[g] = "nl"
    <3>1. e # N + 1 => e \in n + 1 .. N
      <4>1. e \in i + 1 .. N + 1 /\ i \in n + 2 .. N
        BY <1>6, <2>2
      <4>2. QED BY ONLY <1>0, <4>1
    <3>2. QED BY <2>2, <2>3, <2>4, <3>1
  <2>7. \A j \in k .. g - 1 : u[j] # "nl"
    <3> TAKE j \in k .. g - 1
    <3>1. j - d \in i .. e - 1 /\ j - d \in n + 1 .. N /\ j = j - d + d
      <4>1. e \in i + 1 .. N + 1 /\ i \in n + 2 .. N /\ j \in k .. g - 1
        BY <1>6, <2>2
      <4>2. QED BY ONLY <1>0, <4>1, k = i + d, g = e + d
    <3>2. u[j] = t[j - d]
      BY <2>4, <3>1
    <3>3. QED BY <2>2, <3>1, <3>2
  <2>8. IsLine(u, k, g)
    BY <2>3, <2>6, <2>7 DEF IsLine
  <2>9. \A j \in 1 .. e - i : u[k + j - 1] = t[i + j - 1]
    <3> TAKE j \in 1 .. e - i
    <3>1. i + j - 1 \in n + 1 .. N /\ k + j - 1 = i + j - 1 + d
      BY <1>1, <1>6, <2>2
    <3>2. QED BY <2>4, <3>1
  <2>10. g - k = e - i
    BY <1>1, <1>6, <2>2
  <2>11. Line(u, k) = Line(t, i)
    BY <2>2, <2>5, <2>8, <2>9, <2>10, SameLine
  <2>12. QED BY <2>5, <2>11 DEF Same
<1>7. at \in LineStarts(u) /\ Line(u, at) = z /\ u[at] = z[1]
  <2>1. u[at] = z[1] /\ z[1] # "nl"
    <3>1. 1 \in 1 .. l /\ n + 1 + 1 = at
      BY <1>1
    <3>2. QED BY <1>1, <3>1
  <2>2. at \in LineStarts(u)
    <3>1. at \in 1 .. M /\ at - 1 = n + 1
      BY <1>1
    <3>2. QED BY <1>1, <1>3, <2>1, <3>1
  <2> PICK g : g = at + l
    OBVIOUS
  <2>3. IsLine(u, at, g)
    <3>1. at \in 1 .. M /\ g \in at + 1 .. M + 1 /\ (n = N => g = M + 1) /\ (n # N => n + 1 \in n + 1 .. N) /\ g = n + 1 + d
      BY ONLY <1>0, g = at + l
    <3>2. g = M + 1 \/ u[g] = "nl"
      BY <1>1, <1>1a, <3>1
    <3>3. \A j \in at .. g - 1 : j - n - 1 \in 1 .. l /\ j = n + 1 + (j - n - 1)
      BY <1>1
    <3>4. \A j \in at .. g - 1 : u[j] = z[j - n - 1]
      BY <1>1, <3>3, SMTT(30)
    <3>5. \A j \in at .. g - 1 : u[j] # "nl"
      <4>1. \A j \in 1 .. l : z[j] # "nl"
        BY <1>1
      <4>2. QED BY ONLY <3>3, <3>4, <4>1
    <3>6. QED BY <3>1, <3>2, <3>5 DEF IsLine
  <2>4. HasLine(u, at, g)
    BY <2>2, <2>3, LineUnique
  <2> PICK row : row = Line(u, at)
    OBVIOUS
  <2>5. row \in Seq(Characters) /\ Len(row) = g - at /\ \A j \in 1 .. g - at : row[j] = u[at + j - 1]
    BY <2>4 DEF HasLine
  <2>6. g - at = l /\ \A j \in 1 .. l : at + j - 1 = n + 1 + j
    BY <1>1
  <2>7. \A j \in 1 .. Len(row) : row[j] = z[j]
    BY <1>1, <2>5, <2>6
  <2>8. row = z
    BY <2>5, <2>6, <2>7, SeqEqual
  <2>9. QED BY <2>1, <2>2, <2>8
<1>8. ASSUME NEW j \in LineStarts(u)
      PROVE  \/ j = at
             \/ j < at /\ j \in LineStarts(t)
             \/ j > at /\ j - d \in LineStarts(t) /\ j - d >= at
  <2>1. j \in 1 .. M /\ u[j] # "nl" /\ (j = 1 \/ u[j - 1] = "nl")
    BY <1>3
  <2>2. CASE j <= n
    <3>1. j \in 1 .. N /\ j \in 1 .. n /\ (j # 1 => j - 1 \in 1 .. n) /\ j < at
      BY <1>1, <2>1, <2>2
    <3>2. t[j] # "nl" /\ (j = 1 \/ t[j - 1] = "nl")
      BY <1>1, <2>1, <3>1
    <3>3. QED BY <1>2, <3>1, <3>2
  <2>3. CASE j = n + 1
    BY <1>1, <2>1, <2>3
  <2>4. CASE j > at /\ j < at + l
    <3>1. j - at \in 1 .. l /\ n + 1 + (j - at) = j - 1 /\ j # 1
      BY <1>1, <2>1, <2>4
    <3>2. u[j - 1] = z[j - at]
      BY <1>1, <3>1
    <3>3. QED BY <1>1, <2>1, <3>1, <3>2
  <2>5. CASE j >= at + l
    <3> PICK i : i = j - d
      OBVIOUS
    <3>1. i \in n + 1 .. N /\ j = i + d /\ j > at /\ j # 1 /\ i \in 1 .. N
      BY <1>0, <2>1, <2>5
    <3>2. u[j] = t[i]
      BY <1>1a, <3>1
    <3>3. i # n + 1
      BY <1>1, <2>1, <3>1, <3>2
    <3>4. i - 1 \in n + 1 .. N /\ j - 1 = i - 1 + d /\ i >= at
      BY ONLY <1>0, <3>1, <3>3
    <3>5. u[j - 1] = t[i - 1]
      BY <1>1a, <3>4
    <3>6. i \in LineStarts(t)
      BY <1>2, <2>1, <3>1, <3>2, <3>5
    <3>7. QED BY <3>1, <3>4, <3>6
  <2>6. QED BY <1>1, <2>1, <2>2, <2>3, <2>4, <2>5
<1>9. \A i \in LineStarts(t) : /\ i \in Nat
                               /\ i < at => Same(u, i, t, i)
                               /\ i >= at => Same(u, i + d, t, i)
  <2> TAKE i \in LineStarts(t)
  <2>1. i \in Nat /\ (i < at => i \in 1 .. n) /\ (i >= at => i \in n + 2 .. N)
    BY <1>1, <1>4
  <2>2. QED BY <1>5, <1>6, <2>1
<1>10. at \in Nat /\ d \in Nat
  BY <1>1
<1>11. Adds(u, t, at, d, z)
  BY <1>7, <1>8, <1>9, <1>10 DEF Adds
<1>12. QED BY <1>11

(* Where a line of t is when one has been added at `at`.                   *)
Moved(i, at, d) == IF i < at THEN i ELSE i + d

(* A line that is no header leaves the lines of every section in it.       *)
HeadersMove(t, u, at, d) ==
  /\ \A g \in Headers(t) : /\ g \in Nat /\ Moved(g, at, d) \in Headers(u)
                           /\ Line(u, Moved(g, at, d)) = Line(t, g)
  /\ \A h \in Headers(u) : \E g \in Headers(t) : h = Moved(g, at, d)

LEMMA HeadersKept ==
  ASSUME NEW t, NEW u \in Seq(Characters), NEW at, NEW d, NEW z, Adds(u, t, at, d, z), z[1] # "["
  PROVE  HeadersMove(t, u, at, d)
<1>1. /\ at \in Nat /\ d \in Nat
      /\ \A i \in LineStarts(t) : /\ i \in Nat
                                  /\ i < at => Same(u, i, t, i)
                                  /\ i >= at => Same(u, i + d, t, i)
      /\ u[at] = z[1]
      /\ \A j \in LineStarts(u) : \/ j = at
                                  \/ j < at /\ j \in LineStarts(t)
                                  \/ j > at /\ j - d \in LineStarts(t) /\ j - d >= at
  BY DEF Adds
<1>2. ASSUME NEW i \in LineStarts(t) PROVE i \in Nat /\ Same(u, Moved(i, at, d), t, i)
  BY <1>1 DEF Moved
<1>3. ASSUME NEW g \in Headers(t)
      PROVE  g \in Nat /\ Moved(g, at, d) \in Headers(u) /\ Line(u, Moved(g, at, d)) = Line(t, g)
  <2>1. g \in LineStarts(t) /\ t[g] = "["
    BY DEF Headers
  <2>2. g \in Nat /\ Same(u, Moved(g, at, d), t, g)
    BY <1>2, <2>1
  <2>3. QED BY <2>1, <2>2 DEF Same, Headers
<1>4. ASSUME NEW h \in Headers(u) PROVE \E g \in Headers(t) : h = Moved(g, at, d)
  <2>0. h \in DOMAIN u /\ DOMAIN u = 1 .. Len(u) /\ Len(u) \in Nat
    BY DEF Headers, LineStarts
  <2>1. h \in LineStarts(u) /\ u[h] = "[" /\ h \in Nat
    BY <2>0 DEF Headers
  <2>2. PICK i \in LineStarts(t) : h = Moved(i, at, d)
    <3>1. CASE h < at /\ h \in LineStarts(t)
      BY <3>1 DEF Moved
    <3>2. CASE h > at /\ h - d \in LineStarts(t) /\ h - d >= at
      <4>1. h - d \in Nat /\ ~(h - d < at) /\ h - d + d = h
        BY <1>1, <2>1, <3>2
      <4>2. QED BY <3>2, <4>1 DEF Moved
    <3>3. h # at
      BY <1>1, <2>1
    <3>4. QED BY <1>1, <2>1, <3>1, <3>2, <3>3
  <2>3. t[i] = "["
    BY <1>2, <2>1, <2>2 DEF Same
  <2>4. QED BY <2>2, <2>3 DEF Headers
<1>5. QED BY <1>3, <1>4 DEF HeadersMove

LEMMA SectionsKept ==
  ASSUME NEW t, NEW u \in Seq(Characters), NEW at \in Nat, NEW d \in Nat, NEW z,
         Adds(u, t, at, d, z), z[1] # "[",
         NEW b, NEW i \in Nat, NEW j, j = Moved(i, at, d) \/ (i = at /\ j = at)
  PROVE  IsIn(u, b, j) <=> IsIn(t, b, i)
<1> DEFINE M(g) == Moved(g, at, d)
<1>1. /\ \A g \in Headers(t) : g \in Nat /\ M(g) \in Headers(u) /\ Line(u, M(g)) = Line(t, g)
      /\ \A h \in Headers(u) : \E g \in Headers(t) : h = M(g)
  <2>1. HeadersMove(t, u, at, d)
    BY HeadersKept
  <2>2. QED BY <2>1 DEF HeadersMove
<1>2. \A g, h \in Headers(t) : (g <= h <=> M(g) <= M(h)) /\ (g < h <=> M(g) < M(h))
  BY <1>1 DEF Moved
<1>3. \A g \in Headers(t) : (g < i <=> M(g) < j) /\ (g >= i <=> M(g) >= j)
  BY <1>1 DEF Moved
<1> HIDE DEF M
<1>4. ASSUME IsIn(t, b, i) PROVE IsIn(u, b, j)
  <2>1. PICK h \in Headers(t) :
          /\ h < i /\ Line(t, h) = Header(b)
          /\ \A g \in Headers(t) : (g <= h \/ g >= i) /\ (g < h => Line(t, g) # Header(b))
    BY <1>4 DEF IsIn
  <2>2. M(h) \in Headers(u) /\ M(h) < j /\ Line(u, M(h)) = Header(b)
    BY <1>1, <1>3, <2>1
  <2>3. \A g \in Headers(u) : (g <= M(h) \/ g >= j) /\ (g < M(h) => Line(u, g) # Header(b))
    <3> TAKE x \in Headers(u)
    <3>1. PICK g \in Headers(t) : x = M(g)
      BY <1>1
    <3>2. (g <= h \/ g >= i) /\ (g < h => Line(t, g) # Header(b))
      BY <2>1
    <3>3. QED BY <1>1, <1>2, <1>3, <3>1, <3>2
  <2>4. QED BY <2>2, <2>3 DEF IsIn
<1>5. ASSUME IsIn(u, b, j) PROVE IsIn(t, b, i)
  <2>1. PICK x \in Headers(u) :
          /\ x < j /\ Line(u, x) = Header(b)
          /\ \A g \in Headers(u) : (g <= x \/ g >= j) /\ (g < x => Line(u, g) # Header(b))
    BY <1>5 DEF IsIn
  <2>2. PICK h \in Headers(t) : x = M(h)
    BY <1>1
  <2>3. h < i /\ Line(t, h) = Header(b)
    BY <1>1, <1>3, <2>1, <2>2
  <2>4. \A g \in Headers(t) : (g <= h \/ g >= i) /\ (g < h => Line(t, g) # Header(b))
    <3> TAKE g \in Headers(t)
    <3>1. M(g) \in Headers(u) /\ Line(u, M(g)) = Line(t, g)
      BY <1>1
    <3>2. (M(g) <= M(h) \/ M(g) >= j) /\ (M(g) < M(h) => Line(u, M(g)) # Header(b))
      BY <2>1, <2>2, <3>1
    <3>3. QED BY <1>2, <1>3, <3>1, <3>2
  <2>5. QED BY <2>3, <2>4 DEF IsIn
<1>6. QED BY <1>4, <1>5

LinesMove(t, u, at, d, z, b, k) ==
  /\ \A i \in Lines(t, b, k) : /\ i \in Nat /\ Moved(i, at, d) \in Lines(u, b, k)
                               /\ Line(u, Moved(i, at, d)) = Line(t, i)
  /\ \A j \in Lines(u, b, k) : j = at \/ \E i \in Lines(t, b, k) : j = Moved(i, at, d)
  /\ at \in Lines(u, b, k) <=> Gives(z, k) /\ IsIn(t, b, at)

LEMMA LinesKept ==
  ASSUME NEW t, NEW u \in Seq(Characters), NEW at \in Nat, NEW d \in Nat, NEW z,
         Adds(u, t, at, d, z), z[1] # "[",
         NEW b, NEW k
  PROVE  LinesMove(t, u, at, d, z, b, k)
<1>1. /\ \A i \in LineStarts(t) : /\ i \in Nat
                                  /\ i < at => Same(u, i, t, i)
                                  /\ i >= at => Same(u, i + d, t, i)
      /\ at \in LineStarts(u) /\ Line(u, at) = z
      /\ \A j \in LineStarts(u) : \/ j = at
                                  \/ j < at /\ j \in LineStarts(t)
                                  \/ j > at /\ j - d \in LineStarts(t) /\ j - d >= at
  BY DEF Adds
<1>2. ASSUME NEW i \in LineStarts(t)
      PROVE  i \in Nat /\ Moved(i, at, d) \in LineStarts(u) /\ Line(u, Moved(i, at, d)) = Line(t, i)
  BY <1>1 DEF Moved, Same
<1>3. \A i \in Nat : IsIn(u, b, Moved(i, at, d)) <=> IsIn(t, b, i)
  BY SectionsKept
<1>4. ASSUME NEW i \in Lines(t, b, k)
      PROVE  i \in Nat /\ Moved(i, at, d) \in Lines(u, b, k) /\ Line(u, Moved(i, at, d)) = Line(t, i)
  <2>1. i \in LineStarts(t) /\ Gives(Line(t, i), k) /\ IsIn(t, b, i)
    BY DEF Lines
  <2>2. i \in Nat /\ Moved(i, at, d) \in LineStarts(u) /\ Line(u, Moved(i, at, d)) = Line(t, i)
    BY <1>2, <2>1
  <2>3. QED BY <1>3, <2>1, <2>2 DEF Lines
<1>5. ASSUME NEW j \in Lines(u, b, k), j # at PROVE \E i \in Lines(t, b, k) : j = Moved(i, at, d)
  <2>0. j \in DOMAIN u /\ DOMAIN u = 1 .. Len(u) /\ Len(u) \in Nat
    BY DEF Lines, LineStarts
  <2>1. j \in LineStarts(u) /\ Gives(Line(u, j), k) /\ IsIn(u, b, j) /\ j \in Nat
    BY <2>0 DEF Lines
  <2>2. PICK i \in LineStarts(t) : j = Moved(i, at, d)
    <3>1. CASE j < at /\ j \in LineStarts(t)
      BY <3>1 DEF Moved
    <3>2. CASE j > at /\ j - d \in LineStarts(t) /\ j - d >= at
      <4>1. j - d \in Nat /\ ~(j - d < at) /\ j - d + d = j
        BY <2>1, <3>2
      <4>2. QED BY <3>2, <4>1 DEF Moved
    <3>3. QED BY <1>1, <1>5, <2>1, <3>1, <3>2
  <2>3. i \in Nat /\ Line(u, j) = Line(t, i)
    BY <1>2, <2>2
  <2>4. IsIn(t, b, i)
    BY <1>3, <2>1, <2>2, <2>3
  <2>5. i \in Lines(t, b, k)
    BY <2>1, <2>3, <2>4 DEF Lines
  <2>6. QED BY <2>2, <2>5
<1>6. at \in Lines(u, b, k) <=> Gives(z, k) /\ IsIn(t, b, at)
  <2>1. IsIn(u, b, at) <=> IsIn(t, b, at)
    BY SectionsKept
  <2>2. QED BY <1>1, <2>1 DEF Lines
<1>7. QED BY <1>4, <1>5, <1>6 DEF LinesMove

(* So it changes no setting but that of its key in its section, which it   *)
(* gives its value when no line of the key comes before it.                *)
LEMMA SettingKept ==
  ASSUME NEW t, NEW u \in Seq(Characters), NEW at \in Nat, NEW d \in Nat, NEW z,
         Adds(u, t, at, d, z), z[1] # "[",
         NEW b, NEW k, ~(Gives(z, k) /\ IsIn(t, b, at))
  PROVE  Setting(u, b, k) = Setting(t, b, k)
<1> DEFINE S == Lines(t, b, k)
           R == Lines(u, b, k)
           M(i) == Moved(i, at, d)
           F == {i \in S : \A n \in S : i <= n}
           G == {j \in R : \A n \in R : j <= n}
           V(text, i) == From(Line(text, i), Len(k) + 2)
<1>1. /\ \A i \in S : i \in Nat /\ M(i) \in R /\ Line(u, M(i)) = Line(t, i)
      /\ \A j \in R : \E i \in S : j = M(i)
  <2>1. LinesMove(t, u, at, d, z, b, k)
    BY LinesKept
  <2>2. QED BY <2>1 DEF LinesMove
<1>2. \A g, h \in S : g <= h <=> M(g) <= M(h)
  BY <1>1 DEF Moved
<1>3. Setting(t, b, k) = {V(t, i) : i \in F} /\ Setting(u, b, k) = {V(u, j) : j \in G}
  BY DEF Setting
<1> HIDE DEF S, R, M
<1>4. \A i \in F : M(i) \in G
  <2> TAKE i \in F
  <2>1. i \in S /\ \A n \in S : i <= n
    OBVIOUS
  <2>2. M(i) \in R
    BY <1>1, <2>1
  <2>3. \A n \in R : M(i) <= n
    BY <1>1, <1>2, <2>1
  <2>4. QED BY <2>2, <2>3
<1>5. \A j \in G : \E i \in F : j = M(i)
  <2> TAKE j \in G
  <2>1. j \in R /\ \A n \in R : j <= n
    OBVIOUS
  <2>2. PICK i \in S : j = M(i)
    BY <1>1, <2>1
  <2>3. \A n \in S : i <= n
    <3> TAKE n \in S
    <3>1. M(n) \in R
      BY <1>1
    <3>2. M(i) <= M(n)
      BY <2>1, <2>2, <3>1
    <3>3. QED BY <1>2, <3>2
  <2>4. QED BY <2>2, <2>3
<1>6. \A i \in F : V(u, M(i)) = V(t, i)
  BY <1>1
<1> HIDE DEF F, G, V
<1>7. QED BY <1>3, <1>4, <1>5, <1>6

LEMMA SettingMade ==
  ASSUME NEW t, NEW u \in Seq(Characters), NEW at \in Nat, NEW d \in Nat, NEW z,
         Adds(u, t, at, d, z), z[1] # "[",
         NEW b, NEW k, Gives(z, k), IsIn(t, b, at), \A i \in Lines(t, b, k) : i >= at
  PROVE  Setting(u, b, k) = {From(z, Len(k) + 2)}
<1> DEFINE R == Lines(u, b, k)
<1>1. at \in R /\ \A j \in R : j \in Nat /\ at <= j
  <2>0. LinesMove(t, u, at, d, z, b, k)
    BY LinesKept
  <2>1. at \in R
    BY <2>0 DEF LinesMove
  <2>2. ASSUME NEW j \in R, j # at PROVE j \in Nat /\ at <= j
    <3>1. PICK i \in Lines(t, b, k) : j = Moved(i, at, d)
      BY <2>0, <2>2 DEF LinesMove
    <3>2. i \in Nat /\ i >= at
      BY <2>0 DEF LinesMove
    <3>3. QED BY <3>1, <3>2 DEF Moved
  <2>3. QED BY <2>1, <2>2
<1>2. Line(u, at) = z
  BY DEF Adds
<1>3. Setting(u, b, k) = {From(Line(u, i), Len(k) + 2) : i \in {j \in R : \A n \in R : j <= n}}
  BY DEF Setting
<1> HIDE DEF R
<1>4. {j \in R : \A n \in R : j <= n} = {at}
  <2>1. \A j \in R : (\A n \in R : j <= n) => j = at
    BY <1>1
  <2>2. QED BY <1>1, <2>1
<1>5. QED BY <1>2, <1>3, <1>4

(* A new header at the end of the text changes no setting, and what comes  *)
(* behind it is in its section.                                            *)
LEMMA HeaderMade ==
  ASSUME NEW t \in Seq(Characters), NEW u \in Seq(Characters), NEW a \in Words,
         NEW at \in Nat, NEW d \in Nat,
         Adds(u, t, at, d, Header(a)), \A i \in LineStarts(t) : i < at, AppStart(t, a) = 0
  PROVE  /\ \A b, k \in Words : Setting(u, b, k) = Setting(t, b, k) /\ Lines(u, b, k) = Lines(t, b, k)
         /\ \A j \in Nat : j > at => IsIn(u, a, j)
<1>1. /\ \A i \in LineStarts(t) : /\ i \in Nat
                                  /\ i < at => Same(u, i, t, i)
                                  /\ i >= at => Same(u, i + d, t, i)
      /\ at \in LineStarts(u) /\ Line(u, at) = Header(a) /\ u[at] = "["
      /\ \A j \in LineStarts(u) : \/ j = at
                                  \/ j < at /\ j \in LineStarts(t)
                                  \/ j > at /\ j - d \in LineStarts(t) /\ j - d >= at
  BY WordType DEF Adds
<1>2. \A i \in LineStarts(t) : i \in Nat /\ i < at /\ Same(u, i, t, i)
  BY <1>1
<1>3. ASSUME NEW j \in LineStarts(u), j # at PROVE j \in LineStarts(t)
  <2>1. j \in Nat
    BY DEF LineStarts
  <2>2. j - d \in LineStarts(t) => j - d < at
    BY <1>2
  <2>3. QED BY <1>1, <1>3, <2>1, <2>2
<1>4. Headers(u) = Headers(t) \union {at}
  <2>1. \A h \in Headers(t) : h \in Headers(u)
    BY <1>2 DEF Headers, Same
  <2>2. at \in Headers(u)
    BY <1>1 DEF Headers
  <2>3. \A h \in Headers(u) : h = at \/ h \in Headers(t)
    BY <1>2, <1>3 DEF Headers, Same
  <2>4. QED BY <2>1, <2>2, <2>3
<1>5. \A g \in Headers(t) : g \in Nat /\ g < at /\ Line(u, g) = Line(t, g)
  BY <1>2 DEF Headers, Same
<1>6. \A b : \A i \in LineStarts(t) : IsIn(u, b, i) <=> IsIn(t, b, i)
  <2> TAKE b
  <2> TAKE i \in LineStarts(t)
  <2>1. i \in Nat /\ i < at
    BY <1>2
  <2>2. ASSUME IsIn(t, b, i) PROVE IsIn(u, b, i)
    <3>1. PICK h \in Headers(t) :
            /\ h < i /\ Line(t, h) = Header(b)
            /\ \A g \in Headers(t) : (g <= h \/ g >= i) /\ (g < h => Line(t, g) # Header(b))
      BY <2>2 DEF IsIn
    <3>2. at >= i /\ ~(at < h)
      BY <1>5, <2>1
    <3>3. h \in Headers(u) /\ Line(u, h) = Header(b)
      BY <1>4, <1>5, <3>1
    <3>4. \A g \in Headers(u) : (g <= h \/ g >= i) /\ (g < h => Line(u, g) # Header(b))
      BY <1>4, <1>5, <3>1, <3>2
    <3>5. QED BY <3>1, <3>3, <3>4 DEF IsIn
  <2>3. ASSUME IsIn(u, b, i) PROVE IsIn(t, b, i)
    <3>1. PICK h \in Headers(u) :
            /\ h < i /\ Line(u, h) = Header(b)
            /\ \A g \in Headers(u) : (g <= h \/ g >= i) /\ (g < h => Line(u, g) # Header(b))
      BY <2>3 DEF IsIn
    <3>2. h \in Headers(t)
      BY <1>4, <2>1, <3>1
    <3>3. QED BY <1>4, <1>5, <3>1, <3>2 DEF IsIn
  <2>4. QED BY <2>2, <2>3
<1>7. \A b, k \in Words : Lines(u, b, k) = Lines(t, b, k)
  <2> TAKE b, k \in Words
  <2>1. ~Gives(Header(a), k)
    <3>1. Header(a) \in Seq(Characters) /\ Header(a)[1] = "[" /\ 1 \in 1 .. Len(k) /\ k[1] # "["
      BY WordType
    <3>2. QED BY <3>1, GivesWhere
  <2>2. \A i \in Lines(u, b, k) : i \in Lines(t, b, k)
    BY <1>1, <1>2, <1>3, <1>6, <2>1 DEF Lines, Same
  <2>3. \A i \in Lines(t, b, k) : i \in Lines(u, b, k)
    BY <1>2, <1>6 DEF Lines, Same
  <2>4. QED BY <2>2, <2>3
<1>8. \A b, k \in Words : Setting(u, b, k) = Setting(t, b, k)
  <2> TAKE b, k \in Words
  <2>1. \A i \in Lines(t, b, k) : Line(u, i) = Line(t, i)
    BY <1>2 DEF Lines, Same
  <2>2. Lines(u, b, k) = Lines(t, b, k)
    BY <1>7
  <2>3. QED BY <2>1, <2>2 DEF Setting
<1>9. ASSUME NEW j \in Nat, j > at PROVE IsIn(u, a, j)
  <2>1. \A g \in Headers(t) : Line(t, g) # Header(a)
    <3> SUFFICES ASSUME NEW g \in Headers(t), Line(t, g) = Header(a) PROVE FALSE
      OBVIOUS
    <3>1. g \in LineStarts(t) /\ g \in 1 .. Len(t) /\ Len(t) \in Nat
      BY DEF Headers, LineStarts
    <3>2. Occurs(Header(a), t, g)
      BY <3>1, HeaderLine
    <3>3. QED BY <3>1, <3>2, FirstPlace DEF AppStart
  <2>2. \A g \in Headers(u) : g <= at /\ (g < at => Line(u, g) # Header(a))
    BY <1>4, <1>5, <2>1
  <2>3. at \in Headers(u) /\ Line(u, at) = Header(a)
    BY <1>1, <1>4
  <2>4. QED BY <1>9, <2>2, <2>3 DEF IsIn
<1>10. QED BY <1>7, <1>8, <1>9

(* The line of a setting is one line, gives a value to its key only, and   *)
(* is no header.                                                           *)
LEMMA PairIs ==
  ASSUME NEW k \in Words, NEW v \in Seq(Characters \ {"nl"}), NEW z, z = Pair(k, v)
  PROVE  /\ z \in Seq(Characters) /\ IsOneLine(z) /\ z[1] # "["
         /\ Gives(z, k) /\ From(z, Len(k) + 2) = v
<1>1. /\ k \in Seq(Characters) /\ Len(k) \in Nat \ {0}
      /\ \A j \in 1 .. Len(k) : k[j] \notin {"nl", "[", "]", "="}
      /\ <<"=">> \in Seq(Characters) /\ Len(<<"=">>) = 1
  BY WordType, ConfigAssumption
<1>2. v \in Seq(Characters) /\ Len(v) \in Nat /\ \A j \in 1 .. Len(v) : v[j] # "nl"
  <2>1. v \in Seq(Characters)
    BY SeqMonotonic
  <2>2. \A j \in 1 .. Len(v) : v[j] \in Characters \ {"nl"}
    BY ElementOfSeq
  <2>3. QED BY <2>1, <2>2
<1> PICK f : f = k \o <<"=">>
  OBVIOUS
<1>3. /\ f \in Seq(Characters) /\ Len(f) = Len(k) + 1
      /\ \A j \in 1 .. Len(k) : f[j] = k[j]
      /\ f[Len(k) + 1] = "="
  <2>1. /\ f \in Seq(Characters) /\ Len(f) = Len(k) + 1
        /\ \A i \in 1 .. Len(k) + 1 : f[i] = IF i <= Len(k) THEN k[i] ELSE <<"=">>[i - Len(k)]
    BY <1>1, ConcatProperties
  <2>2. f[Len(k) + 1] = <<"=">>[1]
    BY <1>1, <2>1
  <2>3. QED BY <1>1, <2>1, <2>2
<1>4. z = f \o v
  BY DEF Pair
<1>5. /\ z \in Seq(Characters) /\ Len(z) = Len(k) + 1 + Len(v)
      /\ \A j \in 1 .. Len(k) : z[j] = k[j]
      /\ z[Len(k) + 1] = "="
      /\ \A j \in Len(k) + 2 .. Len(z) : z[j] = v[j - Len(k) - 1]
  <2>1. /\ z \in Seq(Characters) /\ Len(z) = Len(f) + Len(v)
        /\ \A i \in 1 .. Len(f) + Len(v) : z[i] = IF i <= Len(f) THEN f[i] ELSE v[i - Len(f)]
    BY <1>2, <1>3, <1>4, ConcatProperties
  <2>2. \A j \in 1 .. Len(k) : z[j] = f[j]
    BY <1>1, <1>2, <1>3, <2>1
  <2>3. z[Len(k) + 1] = f[Len(k) + 1]
    BY <1>1, <1>2, <1>3, <2>1
  <2>4. \A j \in Len(k) + 2 .. Len(z) : z[j] = v[j - (Len(k) + 1)]
    BY <1>1, <1>2, <1>3, <2>1
  <2>5. \A j \in Len(k) + 2 .. Len(z) : j - (Len(k) + 1) = j - Len(k) - 1
    BY <1>1
  <2>6. QED BY <1>3, <2>1, <2>2, <2>3, <2>4, <2>5
<1>6. \A j \in 1 .. Len(z) : z[j] # "nl"
  <2> TAKE j \in 1 .. Len(z)
  <2>1. CASE j \in 1 .. Len(k)
    BY <1>1, <1>5, <2>1
  <2>2. CASE j = Len(k) + 1
    BY <1>5, <2>2
  <2>3. CASE j \in Len(k) + 2 .. Len(z)
    <3>1. j - Len(k) - 1 \in 1 .. Len(v)
      BY <1>1, <1>2, <1>5, <2>3
    <3>2. QED BY <1>2, <1>5, <2>3, <3>1
  <2>4. QED BY <1>1, <1>5, <2>1, <2>2, <2>3
<1>7. IsOneLine(z)
  BY <1>1, <1>2, <1>5, <1>6 DEF IsOneLine
<1>8. z[1] # "["
  <2>1. 1 \in 1 .. Len(k)
    BY <1>1
  <2>2. QED BY <1>1, <1>5, <2>1
<1>9. Gives(z, k)
  <2>1. Len(k) < Len(z)
    BY <1>1, <1>2, <1>5
  <2>2. QED BY <1>5, <2>1, GivesWhere
<1>10. From(z, Len(k) + 2) = v
  <2> PICK m : m = Len(k) + 2
    OBVIOUS
  <2> PICK n : n = Len(z)
    OBVIOUS
  <2>1. m \in Nat /\ n \in Nat /\ n = m - 1 + Len(v) /\ m >= 1
    BY <1>1, <1>2, <1>5
  <2>2. \A i \in m .. n : z[i] \in Characters
    BY <1>5, <2>1
  <2> PICK s : s = SubSeq(z, m, n)
    OBVIOUS
  <2>3. /\ s \in Seq(Characters) /\ Len(s) = IF m <= n THEN n - m + 1 ELSE 0
        /\ \A i \in 1 .. n - m + 1 : s[i] = z[m + i - 1]
    BY <2>1, <2>2, SubSeqProperties
  <2>4. Len(s) = Len(v) /\ n - m + 1 = Len(v)
    BY <1>2, <2>1, <2>3
  <2>5. \A i \in 1 .. Len(v) : m + i - 1 \in Len(k) + 2 .. Len(z) /\ (m + i - 1) - Len(k) - 1 = i
    BY <1>1, <1>2, <2>1
  <2>6. \A i \in 1 .. Len(s) : s[i] = v[i]
    <3> TAKE i \in 1 .. Len(s)
    <3> PICK j : j = m + i - 1
      OBVIOUS
    <3>1. s[i] = z[j] /\ j \in Len(k) + 2 .. Len(z) /\ j - Len(k) - 1 = i
      BY <2>3, <2>4, <2>5
    <3>2. QED BY <1>5, <3>1
  <2>7. s = v
    BY <1>2, <2>3, <2>4, <2>6, SeqEqual
  <2>8. QED BY <2>7 DEF From
<1>11. QED BY <1>5, <1>7, <1>8, <1>9, <1>10

(* A line gives a value to one key, and a place is in one section.         *)
LEMMA OneKey ==
  ASSUME NEW row \in Seq(Characters), NEW k \in Words, NEW k2 \in Words, Gives(row, k),
         Gives(row, k2)
  PROVE  k = k2
<1>1. /\ Len(k) < Len(row) /\ row[Len(k) + 1] = "=" /\ \A j \in 1 .. Len(k) : row[j] = k[j]
      /\ Len(k2) < Len(row) /\ row[Len(k2) + 1] = "=" /\ \A j \in 1 .. Len(k2) : row[j] = k2[j]
  BY GivesWhere
<1>2. /\ k \in Seq(Characters) /\ Len(k) \in Nat /\ \A j \in 1 .. Len(k) : k[j] # "="
      /\ k2 \in Seq(Characters) /\ Len(k2) \in Nat /\ \A j \in 1 .. Len(k2) : k2[j] # "="
  BY WordType
<1>3. Len(k) + 1 \notin 1 .. Len(k2) /\ Len(k2) + 1 \notin 1 .. Len(k)
  BY <1>1, <1>2
<1>4. Len(k) = Len(k2)
  BY <1>2, <1>3
<1>5. QED BY <1>1, <1>2, <1>4, SeqEqual

LEMMA HeaderIs ==
  ASSUME NEW a \in Words, NEW z, z = Header(a)
  PROVE  /\ z \in Seq(Characters) /\ IsOneLine(z) /\ z[1] = "["
         /\ Len(z) = Len(a) + 2 /\ \A j \in 1 .. Len(a) : z[j + 1] = a[j]
<1>1. /\ a \in Seq(Characters) /\ Len(a) \in Nat \ {0}
      /\ \A j \in 1 .. Len(a) : a[j] # "nl"
      /\ <<"[">> \in Seq(Characters) /\ <<"]">> \in Seq(Characters)
      /\ z \in Seq(Characters) /\ Len(z) = Len(a) + 2 /\ z[1] = "["
  BY WordType, ConfigAssumption
<1> PICK f : f = <<"[">> \o a
  OBVIOUS
<1>2. /\ f \in Seq(Characters) /\ Len(f) = Len(a) + 1
      /\ \A j \in 2 .. Len(a) + 1 : f[j] = a[j - 1]
  <2>1. /\ f \in Seq(Characters) /\ Len(f) = 1 + Len(a)
        /\ \A i \in 1 .. 1 + Len(a) : f[i] = IF i <= 1 THEN <<"[">>[i] ELSE a[i - 1]
    BY <1>1, ConcatProperties
  <2>2. QED BY <1>1, <2>1
<1>3. \A i \in 1 .. Len(f) + 1 : z[i] = IF i <= Len(f) THEN f[i] ELSE <<"]">>[i - Len(f)]
  <2>1. z = f \o <<"]">>
    BY DEF Header
  <2>2. QED BY <1>1, <1>2, <2>1, ConcatProperties
<1>4. \A j \in 1 .. Len(a) : z[j + 1] = a[j]
  <2> TAKE j \in 1 .. Len(a)
  <2> PICK i : i = j + 1
    OBVIOUS
  <2>1. i \in 2 .. Len(a) + 1 /\ i - 1 = j /\ i \in 1 .. Len(f) + 1 /\ i <= Len(f)
    BY <1>1, <1>2
  <2>2. z[i] = f[i] /\ f[i] = a[i - 1]
    BY <1>2, <1>3, <2>1
  <2>3. QED BY <2>1, <2>2
<1>5. z[Len(a) + 2] = "]"
  <2> PICK i : i = Len(a) + 2
    OBVIOUS
  <2>1. i \in 1 .. Len(f) + 1 /\ ~(i <= Len(f)) /\ i - Len(f) = 1
    BY <1>1, <1>2
  <2>2. z[i] = <<"]">>[1]
    BY <1>3, <2>1
  <2>3. QED BY <2>2
<1>6. \A j \in 1 .. Len(z) : z[j] # "nl"
  <2> TAKE j \in 1 .. Len(z)
  <2>1. CASE j \in 2 .. Len(a) + 1
    <3>1. j - 1 \in 1 .. Len(a) /\ (j - 1) + 1 = j
      BY <1>1, <2>1
    <3>2. z[j] = a[j - 1]
      BY <1>4, <3>1
    <3>3. QED BY <1>1, <3>1, <3>2
  <2>2. j = 1 \/ j = Len(a) + 2 \/ j \in 2 .. Len(a) + 1
    BY <1>1
  <2>3. QED BY <1>1, <1>5, <2>1, <2>2
<1>7. IsOneLine(z)
  BY <1>1, <1>6 DEF IsOneLine
<1>8. QED BY <1>1, <1>4, <1>7

LEMMA OneHeader ==
  ASSUME NEW a \in Words, NEW b \in Words, Header(a) = Header(b)
  PROVE  a = b
<1> PICK z : z = Header(a)
  OBVIOUS
<1>1. /\ Len(z) = Len(a) + 2 /\ \A j \in 1 .. Len(a) : z[j + 1] = a[j]
      /\ Len(z) = Len(b) + 2 /\ \A j \in 1 .. Len(b) : z[j + 1] = b[j]
  BY HeaderIs
<1>2. a \in Seq(Characters) /\ b \in Seq(Characters) /\ Len(a) \in Nat /\ Len(b) \in Nat
  BY WordType
<1>3. Len(a) = Len(b)
  BY <1>1, <1>2
<1>4. \A j \in 1 .. Len(a) : a[j] = b[j]
  BY <1>1, <1>3
<1>5. QED BY <1>2, <1>3, <1>4, SeqEqual

LEMMA OneSection ==
  ASSUME NEW text \in Seq(Characters), NEW a \in Words, NEW b \in Words, NEW at \in Nat,
         IsIn(text, a, at), IsIn(text, b, at)
  PROVE  a = b
<1>1. PICK h \in Headers(text) :
        /\ h < at /\ Line(text, h) = Header(a)
        /\ \A g \in Headers(text) : (g <= h \/ g >= at) /\ (g < h => Line(text, g) # Header(a))
  BY DEF IsIn
<1>2. PICK x \in Headers(text) :
        /\ x < at /\ Line(text, x) = Header(b)
        /\ \A g \in Headers(text) : (g <= x \/ g >= at) /\ (g < x => Line(text, g) # Header(b))
  BY DEF IsIn
<1>3. h \in Nat /\ x \in Nat
  BY DEF Headers, LineStarts
<1>4. h = x
  BY <1>1, <1>2, <1>3
<1>5. QED BY <1>1, <1>2, <1>4, OneHeader

(* A text cut in front of one of its characters.                           *)
LEMMA Cut ==
  ASSUME NEW text \in Seq(Characters), NEW i \in 1 .. Len(text) + 1
  PROVE  text = Before(text, i) \o From(text, i) /\ Len(Before(text, i)) = i - 1
<1>1. Len(text) \in Nat /\ i - 1 \in 0 .. Len(text) /\ i - 1 + 1 = i
  OBVIOUS
<1>2. SubSeq(text, 1, i - 1) \o SubSeq(text, i - 1 + 1, Len(text)) = SubSeq(text, 1, Len(text))
  <2> PICK j : j = i - 1
    OBVIOUS
  <2>1. 1 \in 1 .. Len(text) + 1 /\ j \in 1 - 1 .. Len(text) /\ Len(text) \in j .. Len(text)
    BY <1>1
  <2>2. SubSeq(text, 1, j) \o SubSeq(text, j + 1, Len(text)) = SubSeq(text, 1, Len(text))
    BY <2>1, ConcatAdjacentSubSeq
  <2>3. QED BY <2>2
<1>3. SubSeq(text, 1, Len(text)) = text
  BY SubSeqFull
<1>4. Len(SubSeq(text, 1, i - 1)) = i - 1
  <2>1. \A j \in 1 .. i - 1 : text[j] \in Characters
    BY <1>1
  <2>2. Len(SubSeq(text, 1, i - 1)) = IF 1 <= i - 1 THEN i - 1 - 1 + 1 ELSE 0
    BY <1>1, <2>1, SubSeqProperties
  <2>3. QED BY <1>1, <2>2
<1>5. QED BY <1>1, <1>2, <1>3, <1>4 DEF Before, From

LEMMA CutLine ==
  ASSUME NEW text \in Seq(Characters), NEW i \in 1 .. Len(text), text[i] = "nl"
  PROVE  Before(text, i + 1) = Before(text, i) \o <<"nl">> /\ From(text, i) = <<"nl">> \o From(text, i + 1)
<1>1. Len(text) \in Nat /\ Len(text) \in 1 .. Len(text) /\ Len(text) \in i .. Len(text)
  OBVIOUS
<1>2. SubSeq(text, i, Len(text)) = <<text[i]>> \o SubSeq(text, i + 1, Len(text))
  BY <1>1, SubSeqRecursiveFirst
<1>3. SubSeq(text, 1, i) = SubSeq(text, 1, i - 1) \o <<text[i]>>
  <2>1. 1 \in 1 .. Len(text) /\ i \in 1 .. Len(text)
    OBVIOUS
  <2>2. QED BY <2>1, SubSeqRecursiveSecond
<1>4. i + 1 - 1 = i
  OBVIOUS
<1>5. QED BY <1>2, <1>3, <1>4 DEF Before, From

(* A line put behind p, whose line has ended.                              *)
LEMMA WithLine ==
  ASSUME NEW p \in Seq(Characters), NEW tail \in Seq(Characters), NEW z \in Seq(Characters),
         tail = <<>> \/ tail[1] = "nl",
         NEW t, t = p \o tail, NEW u, u = p \o <<"nl">> \o z \o tail
  PROVE  t \in Seq(Characters) /\ u \in Seq(Characters) /\ HasRoom(t, Len(p)) /\ IsWith(u, t, Len(p), z)
<1> PICK n : n = Len(p)
  OBVIOUS
<1> PICK l : l = Len(z)
  OBVIOUS
<1> PICK r : r = Len(tail)
  OBVIOUS
<1>1. n \in Nat /\ l \in Nat /\ r \in Nat /\ <<"nl">> \in Seq(Characters) /\ Len(<<"nl">>) = 1
  BY ConfigAssumption
<1>2. /\ t \in Seq(Characters) /\ Len(t) = n + r
      /\ \A i \in 1 .. n + r : t[i] = IF i <= n THEN p[i] ELSE tail[i - n]
  BY ConcatProperties
<1> PICK f : f = p \o <<"nl">>
  OBVIOUS
<1>3. /\ f \in Seq(Characters) /\ Len(f) = n + 1
      /\ \A i \in 1 .. n + 1 : f[i] = IF i <= n THEN p[i] ELSE <<"nl">>[i - n]
  BY <1>1, ConcatProperties
<1>4. f[n + 1] = "nl"
  <2>1. f[n + 1] = <<"nl">>[1]
    BY <1>1, <1>3
  <2>2. QED BY <2>1
<1> PICK g : g = f \o z
  OBVIOUS
<1>5. /\ g \in Seq(Characters) /\ Len(g) = n + 1 + l
      /\ \A i \in 1 .. n + 1 + l : g[i] = IF i <= n + 1 THEN f[i] ELSE z[i - (n + 1)]
  <2>1. f \in Seq(Characters) /\ Len(f) = n + 1 /\ Len(z) = l
    BY <1>3
  <2>2. /\ g \in Seq(Characters) /\ Len(g) = Len(f) + Len(z)
        /\ \A i \in 1 .. Len(f) + Len(z) : g[i] = IF i <= Len(f) THEN f[i] ELSE z[i - Len(f)]
    BY ONLY <2>1, z \in Seq(Characters), g = f \o z, ConcatProperties
  <2>3. QED BY ONLY <2>1, <2>2
<1>6. /\ u \in Seq(Characters) /\ Len(u) = n + 1 + l + r
      /\ \A i \in 1 .. n + 1 + l + r : u[i] = IF i <= n + 1 + l THEN g[i] ELSE tail[i - (n + 1 + l)]
  <2>1. u = g \o tail
    OBVIOUS
  <2>2. g \in Seq(Characters) /\ Len(g) = n + 1 + l /\ Len(tail) = r
    BY <1>5
  <2>3. /\ u \in Seq(Characters) /\ Len(u) = Len(g) + Len(tail)
        /\ \A i \in 1 .. Len(g) + Len(tail) : u[i] = IF i <= Len(g) THEN g[i] ELSE tail[i - Len(g)]
    BY ONLY <2>1, <2>2, tail \in Seq(Characters), ConcatProperties
  <2>4. QED BY ONLY <2>2, <2>3
<1>7. HasRoom(t, n)
  <2>1. n \in 0 .. Len(t)
    BY <1>1, <1>2
  <2>2. CASE tail = <<>>
    BY <1>1, <1>2, <2>1, <2>2 DEF HasRoom
  <2>3. CASE tail # <<>>
    <3>1. r > 0
      BY <1>1, <2>3, EmptySeq
    <3>2. n + 1 \in 1 .. n + r /\ ~(n + 1 <= n) /\ n + 1 - n = 1
      BY <1>1, <3>1
    <3>3. t[n + 1] = tail[1]
      BY <1>2, <3>2
    <3>4. QED BY <2>1, <2>3, <3>3 DEF HasRoom
  <2>4. QED BY <2>2, <2>3
<1>8. IsWith(u, t, n, z)
  <2>1. Len(u) = Len(t) + l + 1
    BY <1>1, <1>2, <1>6
  <2>2. ASSUME NEW i \in 1 .. n PROVE u[i] = t[i]
    BY <1>1, <1>2, <1>3, <1>5, <1>6
  <2>3. u[n + 1] = "nl"
    BY <1>1, <1>4, <1>5, <1>6
  <2>4. ASSUME NEW j \in 1 .. l PROVE u[n + 1 + j] = z[j]
    <3> PICK i : i = n + 1 + j
      OBVIOUS
    <3>1. i \in 1 .. n + 1 + l + r /\ i \in 1 .. n + 1 + l /\ ~(i <= n + 1) /\ i - (n + 1) = j
      <4>1. n \in Nat /\ l \in Nat /\ r \in Nat /\ j \in 1 .. l
        BY <1>1
      <4>2. QED BY ONLY <4>1, i = n + 1 + j
    <3>2. u[i] = g[i] /\ g[i] = z[i - (n + 1)]
      BY <1>5, <1>6, <3>1
    <3>3. QED BY <3>1, <3>2
  <2>5. ASSUME NEW i \in n + 1 .. Len(t) PROVE u[i + l + 1] = t[i]
    <3> PICK j : j = i + l + 1
      OBVIOUS
    <3>1. j \in 1 .. n + 1 + l + r /\ ~(j <= n + 1 + l) /\ j - (n + 1 + l) = i - n
      BY <1>1, <1>2
    <3>2. i \in 1 .. n + r /\ ~(i <= n)
      BY <1>1, <1>2
    <3>3. u[j] = tail[i - n] /\ t[i] = tail[i - n]
      BY <1>2, <1>6, <3>1, <3>2
    <3>4. QED BY <3>3
  <2>6. QED BY <2>1, <2>2, <2>3, <2>4, <2>5 DEF IsWith
<1>9. QED BY <1>2, <1>6, <1>7, <1>8

(* u says what t says, but that k in section a is v.                       *)
Puts(t, u, a, k, v) ==
  \A b, k2 \in Words : Setting(u, b, k2) = IF b = a /\ k2 = k THEN {v} ELSE Setting(t, b, k2)

(* A line that gives k a value, put into section a in front of any other   *)
(* line of the key, does that.                                             *)
LEMMA PutLine ==
  ASSUME NEW t \in Seq(Characters), NEW u \in Seq(Characters), NEW a \in Words, NEW k \in Words,
         NEW z \in Seq(Characters), IsOneLine(z), z[1] # "[", Gives(z, k),
         NEW n, HasRoom(t, n), IsWith(u, t, n, z), IsIn(t, a, n + 2),
         \A i \in Lines(t, a, k) : i >= n + 2
  PROVE  Puts(t, u, a, k, From(z, Len(k) + 2))
<1> PICK at : at = n + 2
  OBVIOUS
<1> PICK d : d = Len(z) + 1
  OBVIOUS
<1>1. Adds(u, t, at, d, z) /\ at \in Nat /\ d \in Nat
  <2>1. Adds(u, t, at, d, z)
    BY WithAdds
  <2>2. QED BY <2>1 DEF Adds
<1>2. ASSUME NEW b \in Words, NEW k2 \in Words, ~(b = a /\ k2 = k)
      PROVE  Setting(u, b, k2) = Setting(t, b, k2)
  <2>1. ~(Gives(z, k2) /\ IsIn(t, b, at))
    BY <1>1, <1>2, OneKey, OneSection
  <2>2. QED BY <1>1, <2>1, SettingKept
<1>3. Setting(u, a, k) = {From(z, Len(k) + 2)}
  BY <1>1, SettingMade
<1>4. QED BY <1>2, <1>3 DEF Puts

(* A line of the key replaced by another one does it, too.                 *)
LEMMA PutInstead ==
  ASSUME NEW t \in Seq(Characters), NEW text \in Seq(Characters), NEW u \in Seq(Characters),
         NEW a \in Words, NEW k \in Words, NEW x \in Seq(Characters), NEW z \in Seq(Characters),
         IsOneLine(x), x[1] # "[", Gives(x, k), IsOneLine(z), z[1] # "[", Gives(z, k),
         NEW n, HasRoom(t, n), IsWith(text, t, n, x), IsWith(u, t, n, z), IsIn(text, a, n + 2),
         \A i \in Lines(text, a, k) : i >= n + 2
  PROVE  Puts(text, u, a, k, From(z, Len(k) + 2))
<1> PICK at : at = n + 2
  OBVIOUS
<1> PICK d : d = Len(x) + 1
  OBVIOUS
<1>1. Adds(text, t, at, d, x) /\ at \in Nat /\ d \in Nat
  <2>1. Adds(text, t, at, d, x)
    BY WithAdds
  <2>2. QED BY <2>1 DEF Adds
<1>2. IsIn(t, a, at)
  BY <1>1, SectionsKept
<1>3. \A i \in Lines(t, a, k) : i >= at
  <2> TAKE i \in Lines(t, a, k)
  <2>1. i \in Nat /\ Moved(i, at, d) \in Lines(text, a, k)
    <3>1. LinesMove(t, text, at, d, x, a, k)
      BY <1>1, LinesKept
    <3>2. QED BY <3>1 DEF LinesMove
  <2>2. Moved(i, at, d) >= at
    BY <2>1
  <2>3. QED BY <1>1, <2>1, <2>2 DEF Moved
<1>4. Puts(t, text, a, k, From(x, Len(k) + 2))
  BY <1>2, <1>3, PutLine
<1>5. Puts(t, u, a, k, From(z, Len(k) + 2))
  BY <1>2, <1>3, PutLine
<1>6. QED BY <1>4, <1>5 DEF Puts

(* Where the key is not found, the section has no line of it.              *)
LEMMA NoLineOfKey ==
  ASSUME NEW text \in Seq(Characters), NEW a \in Words, NEW k \in Words, Clear(text, a, k),
         AppStart(text, a) # 0, KeyStart(text, a, k) = 0
  PROVE  Lines(text, a, k) = {}
<1> SUFFICES ASSUME NEW i \in Lines(text, a, k) PROVE FALSE
  OBVIOUS
<1>1. i \in LineStarts(text) /\ i \in Nat /\ Gives(Line(text, i), k) /\ IsIn(text, a, i)
  BY KeyNotHeader
<1>2. i > AppStart(text, a)
  BY <1>1, SectionIs
<1>3. QED BY <1>1, <1>2, KeyIs

(* A line behind the end of the text.                                      *)
LEMMA AtEnd ==
  ASSUME NEW t \in Seq(Characters), NEW z \in Seq(Characters), NEW u, u = t \o <<"nl">> \o z
  PROVE  u \in Seq(Characters) /\ HasRoom(t, Len(t)) /\ IsWith(u, t, Len(t), z)
<1>1. <<>> \in Seq(Characters) /\ <<"nl">> \in Seq(Characters)
  BY ConfigAssumption
<1>2. t \o <<>> = t
  BY ConcatEmptySeq
<1>3. u \in Seq(Characters)
  BY <1>1, ConcatProperties
<1>4. u = u \o <<>>
  BY <1>3, ConcatEmptySeq
<1>5. u = t \o <<"nl">> \o z \o <<>>
  BY <1>4
<1>6. QED BY <1>1, <1>2, <1>5, WithLine

(* The four ways in which the code puts a setting.                         *)
LEMMA PutAtEnd ==
  ASSUME NEW t \in Seq(Characters), NEW a \in Words, NEW k \in Words,
         NEW v \in Seq(Characters \ {"nl"}),
         IsIn(t, a, Len(t) + 2), Lines(t, a, k) = {}
  PROVE  Puts(t, t \o <<"nl">> \o Pair(k, v), a, k, v)
<1> PICK z : z = Pair(k, v)
  OBVIOUS
<1> PICK u : u = t \o <<"nl">> \o z
  OBVIOUS
<1>1. /\ z \in Seq(Characters) /\ IsOneLine(z) /\ z[1] # "["
      /\ Gives(z, k) /\ From(z, Len(k) + 2) = v
  BY PairIs
<1>2. u \in Seq(Characters) /\ HasRoom(t, Len(t)) /\ IsWith(u, t, Len(t), z)
  BY <1>1, AtEnd
<1>3. Puts(t, u, a, k, From(z, Len(k) + 2))
  BY <1>1, <1>2, PutLine
<1>4. QED BY <1>1, <1>3

LEMMA PutAtEndOfFile ==
  ASSUME NEW text \in Seq(Characters), NEW a \in Words, NEW k \in Words,
         NEW v \in Seq(Characters \ {"nl"}),
         Clear(text, a, k), AppStart(text, a) # 0, KeyStart(text, a, k) = 0, AppEnd(text, a) = 0
  PROVE  Puts(text, text \o <<"nl">> \o Pair(k, v), a, k, v)
<1>1. AppStart(text, a) \in Headers(text)
  BY SectionIs
<1>2. AppStart(text, a) \in 1 .. Len(text) /\ Len(text) \in Nat
  BY <1>1 DEF Headers, LineStarts
<1>3. Len(text) + 2 \in Nat /\ Len(text) + 2 > AppStart(text, a)
  BY <1>2
<1>4. IsIn(text, a, Len(text) + 2)
  BY <1>3, SectionIs
<1>5. QED BY <1>4, NoLineOfKey, PutAtEnd

LEMMA PutInNewSection ==
  ASSUME NEW text \in Seq(Characters), NEW a \in Words, NEW k \in Words,
         NEW v \in Seq(Characters \ {"nl"}),
         AppStart(text, a) = 0
  PROVE  Puts(text, text \o <<"nl">> \o Header(a) \o <<"nl">> \o Pair(k, v), a, k, v)
<1> PICK h : h = Header(a)
  OBVIOUS
<1> PICK t : t = text \o <<"nl">> \o h
  OBVIOUS
<1>1. h \in Seq(Characters) /\ IsOneLine(h) /\ Len(text) \in Nat /\ Len(h) \in Nat /\ Len(h) > 0
  BY HeaderIs DEF IsOneLine
<1>2. t \in Seq(Characters) /\ HasRoom(text, Len(text)) /\ IsWith(t, text, Len(text), h)
  BY <1>1, AtEnd
<1> PICK at : at = Len(text) + 2
  OBVIOUS
<1> PICK d : d = Len(h) + 1
  OBVIOUS
<1>3. Adds(t, text, at, d, h) /\ at \in Nat /\ d \in Nat
  <2>1. Adds(t, text, at, d, h)
    BY <1>1, <1>2, WithAdds
  <2>2. QED BY <2>1 DEF Adds
<1>4. \A i \in LineStarts(text) : i < at
  BY <1>1 DEF LineStarts
<1>5. /\ \A b, k2 \in Words : Setting(t, b, k2) = Setting(text, b, k2) /\ Lines(t, b, k2) = Lines(text, b, k2)
      /\ \A j \in Nat : j > at => IsIn(t, a, j)
  BY <1>2, <1>3, <1>4, HeaderMade
<1>6. Lines(t, a, k) = {}
  <2>1. Lines(text, a, k) = {}
    BY NoSection DEF Lines
  <2>2. QED BY <1>5, <2>1
<1>7. IsIn(t, a, Len(t) + 2)
  <2>1. Len(t) = Len(text) + Len(h) + 1
    BY <1>2 DEF IsWith
  <2>2. Len(t) + 2 \in Nat /\ Len(t) + 2 > at
    BY <1>1, <2>1
  <2>3. QED BY <1>5, <2>2
<1>8. Puts(t, t \o <<"nl">> \o Pair(k, v), a, k, v)
  BY <1>2, <1>6, <1>7, PutAtEnd
<1>9. Puts(text, t \o <<"nl">> \o Pair(k, v), a, k, v)
  <2> PICK u : u = t \o <<"nl">> \o Pair(k, v)
    OBVIOUS
  <2>1. Puts(t, u, a, k, v)
    BY <1>8
  <2>2. \A b, k2 \in Words : Setting(t, b, k2) = Setting(text, b, k2)
    BY <1>5
  <2>3. Puts(text, u, a, k, v)
    BY ONLY <2>1, <2>2 DEF Puts
  <2>4. QED BY <2>3
<1>10. t \o <<"nl">> \o Pair(k, v) = text \o <<"nl">> \o Header(a) \o <<"nl">> \o Pair(k, v)
  OBVIOUS
<1>11. QED BY <1>9, <1>10

LEMMA PutInNewFile ==
  ASSUME NEW a \in Words, NEW k \in Words, NEW v \in Seq(Characters \ {"nl"})
  PROVE  Puts(<<>>, FirstFile(a, k, v), a, k, v)
<1> PICK t : t = Header(a)
  OBVIOUS
<1>1. /\ t \in Seq(Characters) /\ t[1] = "[" /\ Len(t) \in Nat \ {0}
      /\ \A j \in 1 .. Len(t) : t[j] # "nl"
  BY HeaderIs, WordType DEF IsOneLine
<1>2. LineStarts(t) = {1}
  <2>1. 1 \in DOMAIN t /\ DOMAIN t = 1 .. Len(t)
    BY <1>1
  <2>2. \A i \in 1 .. Len(t) : i # 1 => i - 1 \in 1 .. Len(t)
    BY <1>1
  <2>3. QED BY <1>1, <2>1, <2>2 DEF LineStarts
<1>3. Line(t, 1) = t
  <2>1. IsLine(t, 1, Len(t) + 1)
    BY <1>1 DEF IsLine
  <2>2. HasLine(t, 1, Len(t) + 1)
    BY <1>1, <1>2, <2>1, LineUnique
  <2>3. LineEnd(t, 1) = 0
    BY <2>2 DEF HasLine
  <2>4. Line(t, 1) = SubSeq(t, 1, Len(t))
    BY <2>3 DEF Line
  <2>5. QED BY <1>1, <2>4, SubSeqFull
<1>4. Headers(t) = {1}
  BY <1>1, <1>2 DEF Headers
<1>5. \A b, k2 \in Words : Lines(t, b, k2) = {}
  <2> TAKE b, k2 \in Words
  <2> SUFFICES ASSUME NEW i \in Lines(t, b, k2) PROVE FALSE
    OBVIOUS
  <2>1. i \notin Headers(t) /\ i \in LineStarts(t)
    BY <1>1, KeyNotHeader
  <2>2. QED BY <1>2, <1>4, <2>1
<1>6. \A b, k2 \in Words : Lines(<<>>, b, k2) = {}
  BY DEF Lines, LineStarts
<1>7. \A b, k2 \in Words : Setting(t, b, k2) = Setting(<<>>, b, k2)
  BY <1>5, <1>6 DEF Setting
<1>8. IsIn(t, a, Len(t) + 2)
  <2>1. 1 < Len(t) + 2
    BY <1>1
  <2>2. QED BY <1>3, <1>4, <2>1 DEF IsIn
<1>9. Puts(t, t \o <<"nl">> \o Pair(k, v), a, k, v)
  BY <1>1, <1>5, <1>8, PutAtEnd
<1>10. FirstFile(a, k, v) = t \o <<"nl">> \o Pair(k, v)
  BY DEF FirstFile
<1>11. Puts(<<>>, t \o <<"nl">> \o Pair(k, v), a, k, v)
  <2> PICK u : u = t \o <<"nl">> \o Pair(k, v)
    OBVIOUS
  <2>1. Puts(t, u, a, k, v)
    BY <1>9
  <2>2. Puts(<<>>, u, a, k, v)
    BY ONLY <1>7, <2>1 DEF Puts
  <2>3. QED BY <2>2
<1>12. QED BY <1>10, <1>11

(* Three sequences are put together in either order.                       *)
Assoc(C) == \A x, y, z \in Seq(C) : x \o y \o z = x \o (y \o z)

LEMMA Associate == ASSUME NEW C PROVE Assoc(C)
<1>1. \A s, t, u \in Seq(C) : (s \o t) \o u = s \o (t \o u)
  BY ConcatAssociative
<1>2. QED BY <1>1, Zenon DEF Assoc

Reassoc(C) == \A f, z, m, r \in Seq(C) : f \o (z \o m) \o r = f \o z \o (m \o r)

LEMMA Reassociate == ASSUME NEW C PROVE Reassoc(C)
<1> SUFFICES ASSUME NEW f \in Seq(C), NEW z \in Seq(C), NEW m \in Seq(C), NEW r \in Seq(C)
             PROVE  f \o (z \o m) \o r = f \o z \o (m \o r)
  BY DEF Reassoc
<1>1. Assoc(C)
  BY Associate
<1> PICK zm : zm = z \o m
  OBVIOUS
<1> PICK mr : mr = m \o r
  OBVIOUS
<1>2. zm \in Seq(C) /\ mr \in Seq(C)
  BY ConcatProperties
<1>3. f \o zm \o r = f \o (zm \o r) /\ f \o z \o mr = f \o (z \o mr)
  <2>1. \A x, y \in Seq(C) : f \o x \o y = f \o (x \o y)
    BY ONLY <1>1, f \in Seq(C), Zenon DEF Assoc
  <2>2. \A y \in Seq(C) : f \o zm \o y = f \o (zm \o y)
    BY ONLY <1>2, <2>1, Zenon
  <2>3. \A y \in Seq(C) : f \o z \o y = f \o (z \o y)
    BY ONLY z \in Seq(C), <2>1, Zenon
  <2>4. f \o zm \o r = f \o (zm \o r)
    BY ONLY r \in Seq(C), <2>2, Zenon
  <2>5. f \o z \o mr = f \o (z \o mr)
    BY ONLY <1>2, <2>3, Zenon
  <2>6. QED BY <2>4, <2>5
<1>4. zm \o r = z \o mr
  <2>1. z \o m \o r = z \o (m \o r)
    BY <1>1, Zenon DEF Assoc
  <2>2. QED BY <2>1
<1>5. QED BY <1>3, <1>4

LEMMA PutBeforeNextSection ==
  ASSUME NEW text \in Seq(Characters), NEW a \in Words, NEW k \in Words,
         NEW v \in Seq(Characters \ {"nl"}),
         Clear(text, a, k), AppStart(text, a) # 0, KeyStart(text, a, k) = 0,
         NEW e, e = AppEnd(text, a), e # 0
  PROVE  Puts(text, Before(text, e) \o PairLine(k, v) \o From(text, e), a, k, v)
<1> PICK z : z = Pair(k, v)
  OBVIOUS
<1>1. /\ z \in Seq(Characters) /\ IsOneLine(z) /\ z[1] # "["
      /\ Gives(z, k) /\ From(z, Len(k) + 2) = v
  BY PairIs
<1>2. e \in Headers(text) /\ e > AppStart(text, a) /\ AppStart(text, a) \in Headers(text)
  BY SectionIs
<1>3. /\ e \in 1 .. Len(text) /\ e # 1 /\ text[e - 1] = "nl" /\ Len(text) \in Nat
      /\ AppStart(text, a) \in Nat
  BY <1>2 DEF Headers, LineStarts
<1> PICK i : i = e - 1
  OBVIOUS
<1>4. i \in 1 .. Len(text) /\ i + 1 = e /\ text[i] = "nl"
  BY <1>3
<1> PICK p : p = Before(text, i)
  OBVIOUS
<1> PICK tail : tail = From(text, i)
  OBVIOUS
<1> PICK rest : rest = From(text, e)
  OBVIOUS
<1>5. p \in Seq(Characters) /\ tail \in Seq(Characters) /\ rest \in Seq(Characters)
  BY <1>3, <1>4, PartsType
<1>6. text = p \o tail /\ Len(p) = i - 1
  <2>1. i \in 1 .. Len(text) + 1
    BY <1>4
  <2>2. text = Before(text, i) \o From(text, i) /\ Len(Before(text, i)) = i - 1
    BY ONLY <2>1, text \in Seq(Characters), Cut
  <2>3. QED BY <2>2
<1>7. Before(text, e) = p \o <<"nl">> /\ tail = <<"nl">> \o rest
  BY <1>4, CutLine
<1>8. <<"nl">> \in Seq(Characters) /\ \A x, y \in Seq(Characters) : x \o y \in Seq(Characters)
  BY ConfigAssumption, ConcatProperties
<1>9. tail[1] = "nl"
  <2>1. \A j \in i .. Len(text) : text[j] \in Characters
    BY <1>4
  <2>2. \A j \in 1 .. Len(text) - i + 1 : From(text, i)[j] = text[i + j - 1]
    BY ONLY <1>3, <1>4, <2>1, SubSeqProperties DEF From
  <2>3. 1 \in 1 .. Len(text) - i + 1 /\ i + 1 - 1 = i
    BY <1>3, <1>4
  <2>4. QED BY <1>4, <2>2, <2>3
<1> PICK u : u = p \o <<"nl">> \o z \o tail
  OBVIOUS
<1>10. Before(text, e) \o PairLine(k, v) \o From(text, e) = u
  <2> PICK f : f = p \o <<"nl">>
    OBVIOUS
  <2>1. f \in Seq(Characters)
    BY <1>5, <1>8
  <2>2. f \o (z \o <<"nl">>) \o rest = f \o z \o (<<"nl">> \o rest)
    <3>1. <<"nl">> \in Seq(Characters)
      BY <1>8
    <3> PICK m : m = <<"nl">>
      OBVIOUS
    <3>2. f \in Seq(Characters) /\ z \in Seq(Characters) /\ m \in Seq(Characters) /\ rest \in Seq(Characters)
      BY <1>1, <1>5, <2>1, <3>1
    <3>3. Reassoc(Characters)
      BY Reassociate
    <3>4. f \o (z \o m) \o rest = f \o z \o (m \o rest)
      <4>1. \A x, y, w \in Seq(Characters) : f \o (x \o y) \o w = f \o x \o (y \o w)
        BY <3>2, <3>3, Zenon DEF Reassoc
      <4>2. \A y, w \in Seq(Characters) : f \o (z \o y) \o w = f \o z \o (y \o w)
        BY <3>2, <4>1, Zenon
      <4>3. \A w \in Seq(Characters) : f \o (z \o m) \o w = f \o z \o (m \o w)
        BY <3>2, <4>2, Zenon
      <4>4. QED BY <3>2, <4>3, Zenon
    <3>5. QED BY <3>4
  <2>3. PairLine(k, v) = z \o <<"nl">>
    BY DEF PairLine
  <2>4. QED BY <1>7, <2>2, <2>3
<1>11. u \in Seq(Characters) /\ HasRoom(text, Len(p)) /\ IsWith(u, text, Len(p), z)
  <2>1. text = p \o tail /\ u = p \o <<"nl">> \o z \o tail
    BY <1>6
  <2>2. QED BY ONLY <1>1, <1>5, <1>9, <2>1, WithLine
<1>12. Len(p) + 2 = e
  <2>1. Len(p) = i - 1 /\ i + 1 = e /\ i \in Int
    BY <1>4, <1>6
  <2>2. QED BY ONLY <2>1
<1>13. IsIn(text, a, e)
  <2>1. e \in Nat /\ e > AppStart(text, a) /\ e <= e
    BY <1>2, <1>3
  <2>2. QED BY <2>1, SectionIs
<1>14. Lines(text, a, k) = {}
  BY NoLineOfKey
<1>15. Puts(text, u, a, k, From(z, Len(k) + 2))
  BY <1>1, <1>11, <1>12, <1>13, <1>14, PutLine
<1>16. QED BY <1>1, <1>10, <1>15

LEMMA PutOnItsLine ==
  ASSUME NEW text \in Seq(Characters), NEW a \in Words, NEW k \in Words,
         NEW v \in Seq(Characters \ {"nl"}),
         Clear(text, a, k), KeyInSection(text, a, k),
         NEW q, q = KeyStart(text, a, k), NEW end, end = LineEnd(text, q)
  PROVE  Puts(text, Before(text, q) \o Pair(k, v) \o IF end = 0 THEN <<>> ELSE From(text, end), a, k, v)
<1> PICK z : z = Pair(k, v)
  OBVIOUS
<1>1. /\ z \in Seq(Characters) /\ IsOneLine(z) /\ z[1] # "["
      /\ Gives(z, k) /\ From(z, Len(k) + 2) = v
  BY PairIs
<1> PICK s : s = AppStart(text, a)
  OBVIOUS
<1>2. s # 0 /\ q # 0 /\ (AppEnd(text, a) = 0 \/ q < AppEnd(text, a))
  BY DEF KeyInSection
<1>3. s \in Headers(text) /\ \A i \in Nat : IsIn(text, a, i) <=> i > s /\ (AppEnd(text, a) = 0 \/ i <= AppEnd(text, a))
  BY <1>2, SectionIs
<1>4. /\ q > s /\ q \in LineStarts(text) /\ Gives(Line(text, q), k)
      /\ \A i \in LineStarts(text) : i > s /\ Gives(Line(text, i), k) => q <= i
  BY <1>2, KeyIs
<1>5. s \in Nat /\ s >= 1 /\ q \in 1 .. Len(text) /\ (q = 1 \/ text[q - 1] = "nl") /\ Len(text) \in Nat
  BY <1>3, <1>4 DEF Headers, LineStarts
<1>6. IsIn(text, a, q)
  <2>1. AppEnd(text, a) = 0 \/ q <= AppEnd(text, a)
    <3>1. AppEnd(text, a) # 0 => AppEnd(text, a) \in Headers(text)
      BY <1>2, SectionIs
    <3>2. AppEnd(text, a) # 0 => AppEnd(text, a) \in Nat
      BY <3>1 DEF Headers, LineStarts
    <3>3. QED BY <1>2, <1>5, <3>2
  <2>2. QED BY <1>3, <1>4, <1>5, <2>1
<1>7. \A i \in Lines(text, a, k) : i >= q
  <2> TAKE i \in Lines(text, a, k)
  <2>1. i \in LineStarts(text) /\ i \in 1 .. Len(text) /\ Gives(Line(text, i), k) /\ IsIn(text, a, i)
    BY KeyNotHeader
  <2>2. i > s
    BY <1>3, <2>1
  <2>3. QED BY <1>4, <1>5, <2>1, <2>2
<1> PICK i : i = q - 1
  OBVIOUS
<1>8. i \in 1 .. Len(text) /\ i + 1 = q /\ text[i] = "nl"
  BY <1>4, <1>5
<1> PICK x : x = Line(text, q)
  OBVIOUS
<1>9. PICK e : HasLine(text, q, e)
  BY <1>4, LineIs
<1>10. /\ e \in q + 1 .. Len(text) + 1 /\ (e = Len(text) + 1 \/ text[e] = "nl")
       /\ \A j \in q .. e - 1 : text[j] # "nl"
       /\ x \in Seq(Characters) /\ Len(x) = e - q
       /\ \A j \in 1 .. e - q : x[j] = text[q + j - 1]
       /\ end = IF e = Len(text) + 1 THEN 0 ELSE e
  BY <1>9 DEF HasLine, IsLine
<1>11. IsOneLine(x) /\ x[1] # "[" /\ Gives(x, k)
  <2>1. \A j \in 1 .. e - q : q + j - 1 \in q .. e - 1
    <3>1. q \in Nat /\ e \in Int
      BY <1>5, <1>10
    <3>2. QED BY ONLY <3>1
  <2>2. \A j \in 1 .. Len(x) : x[j] # "nl"
    BY <1>10, <2>1
  <2>3. e - q > 0 /\ 1 \in 1 .. e - q /\ q + 1 - 1 = q
    <3>1. q \in Nat /\ e \in q + 1 .. Len(text) + 1
      BY <1>5, <1>10
    <3>2. QED BY ONLY <1>5, <3>1
  <2>4. x[1] = text[q]
    BY <1>10, <2>3
  <2>5. text[q] # "["
    BY <1>4, LineOfKey
  <2>6. QED BY <1>4, <1>10, <2>2, <2>3, <2>4, <2>5 DEF IsOneLine
<1> PICK p : p = Before(text, i)
  OBVIOUS
<1> PICK tail : tail = From(text, e)
  OBVIOUS
<1>12. p \in Seq(Characters) /\ tail \in Seq(Characters) /\ From(text, q) \in Seq(Characters)
  <2>1. e \in Int /\ e >= 1 /\ q \in Int /\ q >= 1 /\ i \in Int /\ i <= Len(text)
    BY <1>5, <1>8, <1>10
  <2>2. QED BY <2>1, PartsType
<1>13. (IF end = 0 THEN <<>> ELSE From(text, end)) = tail
  <2>1. CASE e = Len(text) + 1
    <3>1. e \in Int /\ Len(text) < e
      BY <1>5, <2>1
    <3>2. SubSeq(text, e, Len(text)) = <<>>
      BY <1>5, <3>1, SubSeqEmpty
    <3>3. end = 0
      BY <1>10, <2>1
    <3>4. QED BY <3>2, <3>3 DEF From
  <2>2. CASE e # Len(text) + 1
    <3>1. end = e /\ e # 0
      BY <1>5, <1>10, <2>2
    <3>2. QED BY <3>1
  <2>3. QED BY <2>1, <2>2
<1>14. tail = <<>> \/ tail[1] = "nl"
  <2>1. CASE e = Len(text) + 1
    BY <1>10, <1>13, <2>1
  <2>2. CASE e # Len(text) + 1
    <3>1. e \in 1 .. Len(text) /\ text[e] = "nl"
      <4>1. e \in q + 1 .. Len(text) + 1
        BY <1>10
      <4>2. e \in 1 .. Len(text)
        BY ONLY <1>5, <2>2, <4>1
      <4>3. QED BY <1>10, <2>2, <4>2
    <3>2. \A j \in e .. Len(text) : text[j] \in Characters
      BY <3>1
    <3>3. \A j \in 1 .. Len(text) - e + 1 : tail[j] = text[e + j - 1]
      BY <1>5, <3>1, <3>2, SubSeqProperties DEF From
    <3>4. 1 \in 1 .. Len(text) - e + 1 /\ e + 1 - 1 = e
      BY <1>5, <3>1
    <3>5. QED BY <3>1, <3>3, <3>4
  <2>3. QED BY <2>1, <2>2
<1>15. text = Before(text, q) \o From(text, q) /\ Len(p) = i - 1
  <2>1. q \in 1 .. Len(text) + 1 /\ i \in 1 .. Len(text) + 1
    BY <1>5, <1>8
  <2>2. QED BY <2>1, Cut
<1>16. Before(text, q) = p \o <<"nl">>
  BY <1>8, CutLine
<1>17. From(text, q) = x \o tail
  <2> PICK n : n = e - 1
    OBVIOUS
  <2>1. /\ n + 1 = e /\ q \in 1 .. Len(text) + 1
        /\ n \in q - 1 .. Len(text) /\ Len(text) \in n .. Len(text)
    <3>1. e \in q + 1 .. Len(text) + 1
      BY <1>10
    <3>2. QED BY ONLY <1>5, <3>1, n = e - 1
  <2>2. SubSeq(text, q, n) \o SubSeq(text, n + 1, Len(text)) = SubSeq(text, q, Len(text))
    BY <2>1, ConcatAdjacentSubSeq
  <2>3. x = SubSeq(text, q, n)
    <3>1. n = IF end = 0 THEN Len(text) ELSE end - 1
      <4>1. e \in Int /\ e # 0 /\ end = IF e = Len(text) + 1 THEN 0 ELSE e
        BY <1>5, <1>10
      <4>2. QED BY ONLY <1>5, <4>1, n = e - 1
    <3>2. QED BY <3>1 DEF Line
  <2>4. QED BY <2>1, <2>2, <2>3 DEF From
<1>18. <<"nl">> \in Seq(Characters) /\ \A y, w \in Seq(Characters) : y \o w \in Seq(Characters)
  BY ConfigAssumption, ConcatProperties
<1>19. text = p \o <<"nl">> \o x \o tail
  <2> PICK f : f = p \o <<"nl">>
    OBVIOUS
  <2>1. f \in Seq(Characters)
    BY <1>12, <1>18
  <2>2. (f \o x) \o tail = f \o (x \o tail)
    <3>1. Assoc(Characters)
      BY Associate
    <3>2. f \in Seq(Characters) /\ x \in Seq(Characters) /\ tail \in Seq(Characters)
      BY <1>10, <1>12, <2>1
    <3>3. QED BY ONLY <3>1, <3>2, ZenonT(40) DEF Assoc
  <2>3. text = f \o (x \o tail)
    BY <1>15, <1>16, <1>17
  <2>4. QED BY <2>2, <2>3
<1> PICK t : t = p \o tail
  OBVIOUS
<1> PICK u : u = p \o <<"nl">> \o z \o tail
  OBVIOUS
<1>20. t \in Seq(Characters) /\ HasRoom(t, Len(p)) /\ IsWith(text, t, Len(p), x)
  <2>1. x \in Seq(Characters) /\ p \in Seq(Characters) /\ tail \in Seq(Characters)
    BY <1>10, <1>12
  <2>2. QED BY ONLY <1>14, <1>19, <2>1, t = p \o tail, WithLine
<1>21. u \in Seq(Characters) /\ IsWith(u, t, Len(p), z)
  <2>1. z \in Seq(Characters) /\ p \in Seq(Characters) /\ tail \in Seq(Characters)
    BY <1>1, <1>12
  <2>2. QED BY ONLY <1>14, <2>1, t = p \o tail, u = p \o <<"nl">> \o z \o tail, WithLine
<1>22. Len(p) + 2 = q
  <2>1. Len(p) = i - 1 /\ i + 1 = q /\ i \in Int
    BY <1>8, <1>15
  <2>2. QED BY ONLY <2>1
<1>23. Puts(text, u, a, k, From(z, Len(k) + 2))
  <2> PICK n : n = Len(p)
    OBVIOUS
  <2>1. HasRoom(t, n) /\ IsWith(text, t, n, x) /\ IsWith(u, t, n, z) /\ IsIn(text, a, n + 2)
        /\ \A j \in Lines(text, a, k) : j >= n + 2
    BY <1>6, <1>7, <1>20, <1>21, <1>22
  <2>2. QED BY <1>1, <1>10, <1>11, <1>20, <1>21, <2>1, PutInstead
<1>24. Before(text, q) \o Pair(k, v) \o (IF end = 0 THEN <<>> ELSE From(text, end)) = u
  BY <1>13, <1>16
<1>25. QED BY <1>1, <1>23, <1>24

(* So every text that a call writes says what the old text said, but that  *)
(* the setting has its new value.                                          *)
LEMMA NewTextPuts ==
  ASSUME NEW text \in Seq(Characters), NEW a \in Words, NEW k \in Words,
         NEW v \in Seq(Characters \ {"nl"}),
         Clear(text, a, k), NEW u \in NewText(text, a, k, v)
  PROVE  Puts(text, u, a, k, v)
<1> DEFINE key == KeyStart(text, a, k)
           end == LineEnd(text, key)
           appEnd == AppEnd(text, a)
<1>1. CASE AppStart(text, a) = 0
  <2>1. ~KeyInSection(text, a, k)
    BY <1>1 DEF KeyInSection
  <2>2. u = text \o <<"nl">> \o Header(a) \o <<"nl">> \o Pair(k, v)
    BY <1>1, <2>1 DEF NewText
  <2>3. QED BY <1>1, <2>2, PutInNewSection
<1>2. CASE KeyInSection(text, a, k)
  <2>1. AppStart(text, a) # 0 /\ key # 0
    BY <1>2 DEF KeyInSection
  <2>2. u = Before(text, key) \o Pair(k, v) \o IF end = 0 THEN <<>> ELSE From(text, end)
    BY <1>2, <2>1 DEF NewText
  <2>3. QED BY <1>2, <2>2, PutOnItsLine
<1>3. CASE AppStart(text, a) # 0 /\ ~KeyInSection(text, a, k) /\ key = 0 /\ appEnd # 0
  <2>1. u = Before(text, appEnd) \o PairLine(k, v) \o From(text, appEnd)
    BY <1>3 DEF NewText
  <2>2. QED BY <1>3, <2>1, PutBeforeNextSection
<1>4. CASE AppStart(text, a) # 0 /\ ~KeyInSection(text, a, k) /\ key = 0 /\ appEnd = 0
  <2>1. u = text \o <<"nl">> \o Pair(k, v)
    BY <1>4 DEF NewText
  <2>2. QED BY <1>4, <2>1, PutAtEndOfFile
<1>5. CASE AppStart(text, a) # 0 /\ ~KeyInSection(text, a, k) /\ key # 0
  BY <1>5 DEF NewText
<1>6. QED BY <1>1, <1>2, <1>3, <1>4, <1>5

IsPutting(w, s, v) == putting[w] = <<s[1], s[2], v>>

(* The state of the writers, when writes have not overlapped or been cut   *)
(* off: at most one is under way, what it is going to write says what has  *)
(* been given last and its own setting, and between writes the file says   *)
(* what has been given last.                                               *)
WritersTypeOK ==
  /\ step \in [Writers -> {"idle", "loaded", "write"}]
  /\ DOMAIN putting = Writers
  /\ want \in [Settings -> SUBSET Seq(Characters)]
  /\ \A w \in Writers : step[w] # "idle" => \E s \in Settings, v \in Values : IsPutting(w, s, v)

OneAtATime == \A w, x \in Writers : step[w] # "idle" /\ step[x] # "idle" => w = x

FileSays ==
  /\ (\A w \in Writers : step[w] # "write") => \A s \in Settings : Setting(Text, s[1], s[2]) = want[s]
  /\ \A w \in Writers : step[w] = "write" => Text = <<>>

WriterSays(w) ==
  \E s0 \in Settings, v0 \in Values :
    /\ IsPutting(w, s0, v0)
    /\ \A s \in Settings : Setting(newBuff[w], s[1], s[2]) = IF s = s0 THEN {v0} ELSE want[s]

ApartInv ==
  apart => OneAtATime /\ FileSays /\ \A w \in Writers : step[w] # "idle" => WriterSays(w)

CfgInv == CfgTypeOK /\ WritersTypeOK /\ ApartInv

LEMMA SettingType ==
  ASSUME NEW text \in Seq(Characters), NEW a \in Words, NEW k \in Words
  PROVE  Setting(text, a, k) \in SUBSET Seq(Characters)
<1> SUFFICES ASSUME NEW i \in Lines(text, a, k)
             PROVE  From(Line(text, i), Len(k) + 2) \in Seq(Characters)
  BY DEF Setting
<1>1. i \in LineStarts(text)
  BY DEF Lines
<1>2. Line(text, i) \in Seq(Characters)
  BY <1>1, LineIs DEF HasLine
<1>3. Len(k) + 2 \in Int /\ Len(k) + 2 >= 1
  BY WordType
<1>4. QED BY <1>2, <1>3, PartsType

LEMMA SettingParts ==
  ASSUME NEW s \in Settings
  PROVE  s[1] \in Words /\ s[2] \in Words /\ s = <<s[1], s[2]>>
BY ConfigAssumption

LEMMA CfgInvInit == CfgInit => CfgInv
<1> SUFFICES ASSUME CfgInit PROVE CfgInv
  OBVIOUS
<1>1. CfgTypeOK
  BY CfgTypeInit
<1>2. Text \in Seq(Characters)
  BY <1>1, TextType
<1>3. \A s \in Settings : Setting(Text, s[1], s[2]) \in SUBSET Seq(Characters)
  BY <1>2, SettingParts, SettingType
<1>4. want = [s \in Settings |-> Setting(Text, s[1], s[2])]
  BY DEF CfgInit
<1>5. WritersTypeOK
  <2>1. want \in [Settings -> SUBSET Seq(Characters)]
    BY <1>3, <1>4
  <2>2. QED BY <2>1 DEF CfgInit, WritersTypeOK
<1>6. \A w \in Writers : step[w] = "idle"
  BY DEF CfgInit
<1>7. ApartInv
  BY <1>4, <1>6 DEF ApartInv, OneAtATime, FileSays
<1>8. QED BY <1>1, <1>5, <1>7 DEF CfgInv

LEMMA CfgInvStep ==
  ASSUME Values \subseteq Seq(Characters \ {"nl"})
  PROVE  CfgInv /\ [CfgNext]_cfgVars => CfgInv'
<1> SUFFICES ASSUME CfgInv, [CfgNext]_cfgVars PROVE CfgInv'
  OBVIOUS
<1>0. CfgTypeOK /\ WritersTypeOK /\ ApartInv
  BY DEF CfgInv
<1>t. CfgTypeOK'
  BY <1>0, CfgTypeStep
<1>u. /\ Text \in Seq(Characters) /\ newBuff \in [Writers -> Seq(Characters)]
      /\ step \in [Writers -> {"idle", "loaded", "write"}]
      /\ DOMAIN putting = Writers /\ want \in [Settings -> SUBSET Seq(Characters)]
      /\ \A w \in Writers : step[w] # "idle" => \E s \in Settings, v \in Values : IsPutting(w, s, v)
  BY <1>0, TextType DEF CfgTypeOK, WritersTypeOK
<1>1. ASSUME NEW w \in Writers, TruncateFile(w) PROVE WritersTypeOK' /\ ApartInv'
  <2>1. /\ step[w] = "loaded" /\ file' = {<<>>}
        /\ step' = [step EXCEPT ![w] = "write"]
        /\ newBuff' = newBuff /\ putting' = putting /\ want' = want /\ apart' = apart
    BY <1>1 DEF TruncateFile
  <2>2. \A x \in Writers : step'[x] = IF x = w THEN "write" ELSE step[x]
    BY <1>u, <2>1
  <2>3. step' \in [Writers -> {"idle", "loaded", "write"}]
    BY <1>u, <2>1
  <2>4. WritersTypeOK'
    <3>1. \A x \in Writers : step'[x] # "idle" => \E s \in Settings, v \in Values : IsPutting(x, s, v)'
      BY <1>u, <2>1, <2>2 DEF IsPutting
    <3>2. QED BY <1>u, <2>1, <2>3, <3>1 DEF WritersTypeOK
  <2>5. ASSUME apart' PROVE OneAtATime' /\ FileSays' /\ \A x \in Writers : step'[x] # "idle" => WriterSays(x)'
    <3>1. OneAtATime /\ \A x \in Writers : step[x] # "idle" => WriterSays(x)
      BY <1>0, <2>1, <2>5 DEF ApartInv
    <3>2. OneAtATime'
      BY <2>1, <2>2, <3>1 DEF OneAtATime
    <3>3. Text' = <<>>
      BY <2>1 DEF Text
    <3>4. FileSays'
      BY <2>2, <3>3 DEF FileSays
    <3>5. ASSUME NEW x \in Writers, step'[x] # "idle" PROVE WriterSays(x)'
      <4>1. WriterSays(x)
        BY <2>1, <2>2, <3>1, <3>5
      <4>2. QED BY <2>1, <4>1 DEF WriterSays, IsPutting
    <3>6. QED BY <3>2, <3>4, <3>5
  <2>6. QED BY <2>4, <2>5 DEF ApartInv
<1>2. ASSUME NEW w \in Writers, SaveFile(w) PROVE WritersTypeOK' /\ ApartInv'
  <2>1. /\ step[w] = "write" /\ file' = {newBuff[w] \o From(Text, Len(newBuff[w]) + 1)}
        /\ want' = [want EXCEPT ![<<putting[w][1], putting[w][2]>>] = {putting[w][3]}]
        /\ step' = [step EXCEPT ![w] = "idle"]
        /\ putting' = [putting EXCEPT ![w] = <<>>] /\ newBuff' = [newBuff EXCEPT ![w] = <<>>]
        /\ apart' = apart
    BY <1>2 DEF SaveFile
  <2>2. \A x \in Writers : step'[x] = IF x = w THEN "idle" ELSE step[x]
    BY <1>u, <2>1
  <2>3. step' \in [Writers -> {"idle", "loaded", "write"}] /\ DOMAIN putting' = Writers
    BY <1>u, <2>1
  <2>4. WritersTypeOK'
    <3>1. \A x \in Writers : step'[x] # "idle" => \E s \in Settings, v \in Values : IsPutting(x, s, v)'
      <4> SUFFICES ASSUME NEW x \in Writers, step'[x] # "idle"
                   PROVE  \E s \in Settings, v \in Values : IsPutting(x, s, v)'
        OBVIOUS
      <4>1. x # w /\ step[x] # "idle"
        BY <2>2, <2>3
      <4>2. putting'[x] = putting[x]
        BY <1>u, <2>1, <4>1
      <4>3. QED BY <1>u, <4>1, <4>2 DEF IsPutting
    <3>2. want' \in [Settings -> SUBSET Seq(Characters)]
      <4>1. PICK s \in Settings, v \in Values : IsPutting(w, s, v)
        BY <1>u, <2>1
      <4>2. <<putting[w][1], putting[w][2]>> = s /\ putting[w][3] = v
        BY <4>1, SettingParts DEF IsPutting
      <4>3. {v} \in SUBSET Seq(Characters)
        BY ConfigAssumption
      <4>4. want' = [want EXCEPT ![s] = {v}]
        BY <2>1, <4>2
      <4>5. QED BY <1>u, <4>3, <4>4
    <3>3. QED BY <2>3, <3>1, <3>2 DEF WritersTypeOK
  <2>5. ASSUME apart' PROVE OneAtATime' /\ FileSays' /\ \A x \in Writers : step'[x] # "idle" => WriterSays(x)'
    <3>1. OneAtATime /\ FileSays /\ WriterSays(w)
      BY <1>0, <2>1, <2>5 DEF ApartInv
    <3>2. PICK s0 \in Settings, v0 \in Values :
            /\ IsPutting(w, s0, v0)
            /\ \A s \in Settings : Setting(newBuff[w], s[1], s[2]) = IF s = s0 THEN {v0} ELSE want[s]
      BY <3>1 DEF WriterSays
    <3>3. want' = [want EXCEPT ![s0] = {v0}]
      <4>1. <<putting[w][1], putting[w][2]>> = s0 /\ putting[w][3] = v0
        BY <3>2, SettingParts DEF IsPutting
      <4>2. QED BY <2>1, <4>1
    <3>4. \A s \in Settings : want'[s] = IF s = s0 THEN {v0} ELSE want[s]
      BY <1>u, <3>3
    <3>5. Text' = newBuff[w]
      <4>1. Text = <<>>
        BY <2>1, <3>1 DEF FileSays
      <4>2. newBuff[w] \in Seq(Characters) /\ Len(newBuff[w]) \in Nat
        BY <1>u
      <4>3. From(Text, Len(newBuff[w]) + 1) = <<>>
        <5>1. Len(<<>>) = 0
          OBVIOUS
        <5> PICK n : n = Len(newBuff[w]) + 1
          OBVIOUS
        <5>2. n \in Int /\ 0 < n
          BY <4>2
        <5>3. SubSeq(<<>>, n, 0) = <<>>
          BY <5>2, SubSeqEmpty
        <5>4. QED BY <4>1, <5>1, <5>3 DEF From
      <4>4. file' = {newBuff[w]}
        BY <2>1, <4>2, <4>3, ConcatEmptySeq
      <4>5. QED BY <4>4 DEF Text
    <3>6. \A x \in Writers : step'[x] = "idle"
      BY <1>u, <2>1, <2>2, <3>1 DEF OneAtATime
    <3>7. FileSays'
      <4>1. \A s \in Settings : Setting(Text', s[1], s[2]) = want'[s]
        BY <3>2, <3>4, <3>5
      <4>2. \A s \in Settings : (Setting(Text, s[1], s[2]) = want[s])'
        BY <4>1
      <4>3. QED BY <3>6, <4>2 DEF FileSays
    <3>8. QED BY <3>6, <3>7 DEF OneAtATime
  <2>6. QED BY <2>4, <2>5 DEF ApartInv
<1>3. ASSUME NEW w \in Writers, WriteDies(w) PROVE WritersTypeOK' /\ ApartInv'
  <2>1. /\ apart' = (apart /\ step[w] = "loaded")
        /\ step' = [step EXCEPT ![w] = "idle"]
        /\ putting' = [putting EXCEPT ![w] = <<>>]
        /\ newBuff' = [newBuff EXCEPT ![w] = <<>>]
        /\ file' = file /\ want' = want /\ step[w] # "idle"
    BY <1>3 DEF WriteDies
  <2>2. \A x \in Writers : step'[x] = IF x = w THEN "idle" ELSE step[x]
    BY <1>u, <2>1
  <2>3. step' \in [Writers -> {"idle", "loaded", "write"}] /\ DOMAIN putting' = Writers
    BY <1>u, <2>1
  <2>4. WritersTypeOK'
    <3>1. \A x \in Writers : step'[x] # "idle" => \E s \in Settings, v \in Values : IsPutting(x, s, v)'
      <4> SUFFICES ASSUME NEW x \in Writers, step'[x] # "idle"
                   PROVE  \E s \in Settings, v \in Values : IsPutting(x, s, v)'
        OBVIOUS
      <4>1. x # w /\ step[x] # "idle"
        BY <2>2, <2>3
      <4>2. putting'[x] = putting[x]
        BY <1>u, <2>1, <4>1
      <4>3. QED BY <1>u, <4>1, <4>2 DEF IsPutting
    <3>2. QED BY <1>u, <2>1, <2>3, <3>1 DEF WritersTypeOK
  <2>5. ASSUME apart' PROVE OneAtATime' /\ FileSays' /\ \A x \in Writers : step'[x] # "idle" => WriterSays(x)'
    <3>1. apart /\ step[w] = "loaded" /\ OneAtATime /\ FileSays
      BY <1>0, <2>1, <2>5 DEF ApartInv
    <3>2. \A x \in Writers : step'[x] = "idle"
      BY <1>u, <2>1, <2>2, <3>1 DEF OneAtATime
    <3>3. \A x \in Writers : step[x] # "write"
      BY <1>u, <2>1, <3>1 DEF OneAtATime
    <3>4. \A s \in Settings : Setting(Text, s[1], s[2]) = want[s]
      BY <3>1, <3>3 DEF FileSays
    <3>5. FileSays'
      <4>1. Text' = Text
        BY <2>1 DEF Text
      <4>2. \A s \in Settings : (Setting(Text, s[1], s[2]) = want[s])'
        BY <2>1, <3>4, <4>1
      <4>3. QED BY <3>2, <4>2 DEF FileSays
    <3>6. QED BY <3>2, <3>5 DEF OneAtATime
  <2>6. QED BY <2>4, <2>5 DEF ApartInv
<1>4. ASSUME NEW w \in Writers, NEW s0 \in Settings, NEW v0 \in Values, LoadFile(w, s0[1], s0[2], v0)
      PROVE  WritersTypeOK' /\ ApartInv'
  <2>1. PICK t \in IF file = {} THEN {FirstFile(s0[1], s0[2], v0)} ELSE NewText(Text, s0[1], s0[2], v0) :
          newBuff' = [newBuff EXCEPT ![w] = t]
    BY <1>4 DEF LoadFile
  <2>2. /\ step[w] = "idle"
        /\ putting' = [putting EXCEPT ![w] = <<s0[1], s0[2], v0>>]
        /\ step' = [step EXCEPT ![w] = "loaded"]
        /\ apart' = (apart /\ Clear(Text, s0[1], s0[2]) /\ \A u \in Writers : step[u] = "idle")
        /\ file' = file /\ want' = want
    BY <1>4 DEF LoadFile
  <2>3. \A x \in Writers : step'[x] = IF x = w THEN "loaded" ELSE step[x]
    BY <1>u, <2>2
  <2>4. step' \in [Writers -> {"idle", "loaded", "write"}] /\ DOMAIN putting' = Writers
    BY <1>u, <2>2
  <2>5. WritersTypeOK'
    <3>1. \A x \in Writers : step'[x] # "idle" => \E s \in Settings, v \in Values : IsPutting(x, s, v)'
      <4> SUFFICES ASSUME NEW x \in Writers, step'[x] # "idle"
                   PROVE  \E s \in Settings, v \in Values : IsPutting(x, s, v)'
        OBVIOUS
      <4>1. CASE x = w
        <5>1. putting'[w] = <<s0[1], s0[2], v0>>
          BY <1>u, <2>2
        <5>2. IsPutting(w, s0, v0)'
          BY <5>1 DEF IsPutting
        <5>3. QED BY <4>1, <5>2
      <4>2. CASE x # w
        <5>1. step[x] # "idle" /\ putting'[x] = putting[x]
          BY <1>u, <2>2, <2>3, <4>2
        <5>2. QED BY <1>u, <5>1 DEF IsPutting
      <4>3. QED BY <4>1, <4>2
    <3>2. QED BY <1>u, <2>2, <2>4, <3>1 DEF WritersTypeOK
  <2>6. ASSUME apart' PROVE OneAtATime' /\ FileSays' /\ \A x \in Writers : step'[x] # "idle" => WriterSays(x)'
    <3>1. apart /\ Clear(Text, s0[1], s0[2]) /\ \A u \in Writers : step[u] = "idle"
      BY <2>2, <2>6
    <3>2. \A s \in Settings : Setting(Text, s[1], s[2]) = want[s]
      BY <1>0, <3>1 DEF ApartInv, FileSays
    <3>3. OneAtATime'
      BY <2>3, <3>1 DEF OneAtATime
    <3>4. FileSays'
      <4>1. Text' = Text
        BY <2>2 DEF Text
      <4>2. \A s \in Settings : (Setting(Text, s[1], s[2]) = want[s])'
        BY <2>2, <3>2, <4>1
      <4>3. \A x \in Writers : step'[x] # "write"
        BY <2>3, <3>1
      <4>4. QED BY <4>2, <4>3 DEF FileSays
    <3>5. Puts(Text, t, s0[1], s0[2], v0)
      <4>1. s0[1] \in Words /\ s0[2] \in Words /\ v0 \in Seq(Characters \ {"nl"})
        BY SettingParts
      <4>2. CASE file = {}
        <5>1. Text = <<>> /\ t = FirstFile(s0[1], s0[2], v0)
          BY <2>1, <4>2 DEF Text
        <5>2. QED BY <4>1, <5>1, PutInNewFile
      <4>3. CASE file # {}
        <5>1. t \in NewText(Text, s0[1], s0[2], v0)
          BY <2>1, <4>3
        <5>2. QED BY <1>u, <3>1, <4>1, <5>1, NewTextPuts
      <4>4. QED BY <4>2, <4>3
    <3>6. \A s \in Settings : Setting(t, s[1], s[2]) = IF s = s0 THEN {v0} ELSE want[s]
      <4> TAKE s \in Settings
      <4>1. s[1] \in Words /\ s[2] \in Words /\ (s = s0 <=> s[1] = s0[1] /\ s[2] = s0[2])
        BY SettingParts
      <4>2. Setting(t, s[1], s[2]) = IF s[1] = s0[1] /\ s[2] = s0[2] THEN {v0} ELSE Setting(Text, s[1], s[2])
        BY <3>5, <4>1 DEF Puts
      <4>3. QED BY <3>2, <4>1, <4>2
    <3>7. WriterSays(w)'
      <4>1. newBuff'[w] = t /\ putting'[w] = <<s0[1], s0[2], v0>>
        BY <1>u, <2>1, <2>2
      <4>2. \A s \in Settings : Setting(newBuff'[w], s[1], s[2]) = IF s = s0 THEN {v0} ELSE want'[s]
        BY <2>2, <3>6, <4>1
      <4>3. \A s \in Settings : (Setting(newBuff[w], s[1], s[2]) = IF s = s0 THEN {v0} ELSE want[s])'
        BY <4>2
      <4>4. IsPutting(w, s0, v0)'
        BY <4>1 DEF IsPutting
      <4>5. QED BY <4>3, <4>4 DEF WriterSays
    <3>8. QED BY <2>3, <3>1, <3>3, <3>4, <3>7
  <2>7. QED BY <2>5, <2>6 DEF ApartInv
<1>5. ASSUME UNCHANGED cfgVars PROVE WritersTypeOK' /\ ApartInv'
  <2>1. /\ file' = file /\ step' = step /\ newBuff' = newBuff /\ putting' = putting
        /\ want' = want /\ apart' = apart
    BY <1>5 DEF cfgVars
  <2>2. WritersTypeOK'
    BY <1>0, <2>1 DEF WritersTypeOK, IsPutting
  <2>3. Text' = Text
    BY <2>1 DEF Text
  <2>4. \A w \in Writers : WriterSays(w) => WriterSays(w)'
    BY <2>1 DEF WriterSays, IsPutting
  <2>5. OneAtATime => OneAtATime'
    BY <2>1 DEF OneAtATime
  <2>6. FileSays => FileSays'
    BY <2>1, <2>3 DEF FileSays
  <2>7. ApartInv'
    BY <1>0, <2>1, <2>4, <2>5, <2>6 DEF ApartInv
  <2>8. QED BY <2>2, <2>7
<1>6. WritersTypeOK' /\ ApartInv'
  <2>1. CASE CfgNext
    <3>1. PICK w \in Writers :
            \/ TruncateFile(w) \/ SaveFile(w) \/ WriteDies(w)
            \/ \E s \in Settings, v \in Values : LoadFile(w, s[1], s[2], v)
      BY <2>1 DEF CfgNext
    <3>2. ASSUME \E s \in Settings, v \in Values : LoadFile(w, s[1], s[2], v)
          PROVE  WritersTypeOK' /\ ApartInv'
      <4>1. PICK s \in Settings, v \in Values : LoadFile(w, s[1], s[2], v)
        BY <3>2
      <4>2. QED BY <1>4, <4>1, Zenon
    <3>3. QED BY <1>1, <1>2, <1>3, <3>1, <3>2
  <2>2. QED BY <1>5, <2>1
<1>7. QED BY <1>t, <1>6 DEF CfgInv

(* Writes that do not overlap and are not cut off, of settings that the    *)
(* searches find, leave every setting of the file with the value last      *)
(* given to it, in its own section, for any texts made by hand, settings,  *)
(* writers and values of one line.                                         *)
THEOREM SettingsAreKept ==
  ASSUME Values \subseteq Seq(Characters \ {"nl"})
  PROVE  CfgSpec => []SettingsStand
<1>1. CfgInv => SettingsStand
  BY DEF CfgInv, ApartInv, FileSays, SettingsStand
<1>2. QED BY <1>1, CfgInvInit, CfgInvStep, PTL DEF CfgSpec

------------------------------------------------------------------------------
(* ComPort. What is parsed are the frames that were read whole.            *)

(* The bytes of a frame.                                                   *)
LEMMA FrameBytes ==
  ASSUME NEW k \in Nat
  PROVE  /\ Frame(k) \in Seq(Nat) /\ Len(Frame(k)) = 5
         /\ Frame(k)[1] = 202 /\ Frame(k)[2] = 203 /\ Frame(k)[3] = k
         /\ Frame(k)[4] = 234 /\ Frame(k)[5] = 235
<1>1. <<202, 203>> \in Seq(Nat) /\ <<k>> \in Seq(Nat) /\ <<234, 235>> \in Seq(Nat)
  OBVIOUS
<1> DEFINE front == <<202, 203>> \o <<k>>
<1>2. /\ front \in Seq(Nat) /\ Len(front) = 3
      /\ front[1] = 202 /\ front[2] = 203 /\ front[3] = k
  <2>1. /\ front \in Seq(Nat) /\ Len(front) = Len(<<202, 203>>) + Len(<<k>>)
        /\ \A i \in 1 .. Len(<<202, 203>>) + Len(<<k>>) :
             front[i] = IF i <= Len(<<202, 203>>) THEN <<202, 203>>[i] ELSE <<k>>[i - Len(<<202, 203>>)]
    BY <1>1, ConcatProperties
  <2> HIDE DEF front
  <2>2. QED BY <2>1
<1> DEFINE back == <<234, 235>>
<1>3. Frame(k) = front \o back
  BY DEF Frame, CycleHead, CycleTail
<1>4. back \in Seq(Nat) /\ Len(back) = 2 /\ back[1] = 234 /\ back[2] = 235
  OBVIOUS
<1>t. front \in Seq(Nat) /\ back \in Seq(Nat)
  BY <1>2, <1>4
<1> HIDE DEF front, back
<1>5. /\ front \o back \in Seq(Nat)
      /\ Len(front \o back) = Len(front) + Len(back)
      /\ \A i \in 1 .. Len(front) + Len(back) :
           (front \o back)[i] = IF i <= Len(front) THEN front[i] ELSE back[i - Len(front)]
  BY <1>t, ConcatProperties
<1>6. Len(front) + Len(back) = 5 /\ Len(front) = 3
  BY <1>2, <1>4
<1>7. /\ (front \o back)[1] = front[1] /\ (front \o back)[2] = front[2] /\ (front \o back)[3] = front[3]
      /\ (front \o back)[4] = back[1] /\ (front \o back)[5] = back[2]
  BY <1>5, <1>6
<1>8. QED BY <1>2, <1>3, <1>4, <1>5, <1>6, <1>7

(* A head begins, and a tail begins, at these places of the stream.        *)
HeadPlace(n) == \E k \in Nat \ {0} : n = 5 * k - 4
TailPlace(n) == \E k \in Nat \ {0} : n = 5 * k - 1

(* data is what follows the first `off` bytes of the frames 1, 2, 3, ...   *)
OfStream(data, off) ==
  /\ data \in Seq(Nat)
  /\ \A k \in Nat \ {0} : \A m \in 1 .. 5 :
       5 * k - 5 + m - off \in 1 .. Len(data) => data[5 * k - 5 + m - off] = Frame(k)[m]

(* Every byte of it is one of a frame.                                     *)
LEMMA WhichByte ==
  ASSUME NEW data, NEW off \in Nat, OfStream(data, off), NEW i \in 1 .. Len(data)
  PROVE  \E k \in Nat \ {0} : \E m \in 1 .. 5 : off + i = 5 * k - 5 + m /\ data[i] = Frame(k)[m]
<1>1. Len(data) \in Nat /\ i \in Nat \ {0}
  BY DEF OfStream
<1>2. \E k \in Nat \ {0} : \E m \in 1 .. 5 : off + i = 5 * k - 5 + m
  <2> DEFINE n == off + i - 1
             k == n \div 5 + 1
             m == (n % 5) + 1
  <2>1. n \in Nat
    BY <1>1
  <2> HIDE DEF n
  <2>2. k \in Nat \ {0} /\ m \in 1 .. 5 /\ n = 5 * k - 5 + m - 1
    BY <2>1
  <2> HIDE DEF k, m
  <2>3. off + i = 5 * k - 5 + m
    BY <1>1, <2>2 DEF n
  <2>4. QED BY <2>2, <2>3
<1>3. PICK k \in Nat \ {0}, m \in 1 .. 5 : off + i = 5 * k - 5 + m
  BY <1>2
<1>4. 5 * k - 5 + m - off = i
  BY <1>1, <1>3
<1>5. data[i] = Frame(k)[m]
  BY <1>4 DEF OfStream
<1>6. QED BY <1>3, <1>5

(* Heads and tails are found at those of the frames only, whatever the     *)
(* contents of the frames.                                                 *)
LEMMA HeadsAndTails ==
  ASSUME NEW data, NEW off \in Nat, OfStream(data, off), NEW i \in Nat \ {0}
  PROVE  /\ Occurs(CycleHead, data, i) <=> i + 1 <= Len(data) /\ HeadPlace(off + i)
         /\ Occurs(CycleTail, data, i) <=> i + 1 <= Len(data) /\ TailPlace(off + i)
<1>1. data \in Seq(Nat) /\ Len(data) \in Nat
  BY DEF OfStream
<1>2. Occurs(CycleHead, data, i) <=> i + 1 <= Len(data) /\ data[i] = 202 /\ data[i + 1] = 203
  <2>0. CycleHead \in Seq(Nat) /\ CycleHead # <<>>
    BY DEF CycleHead
  <2>1. Len(CycleHead) = 2 /\ CycleHead[1] = 202 /\ CycleHead[2] = 203
    BY DEF CycleHead
  <2>2. Occurs(CycleHead, data, i) <=>
          i + Len(CycleHead) - 1 <= Len(data) /\ \A j \in 1 .. Len(CycleHead) : data[i + j - 1] = CycleHead[j]
    BY <1>1, <2>0, OccursWhere
  <2>3. (\A j \in 1 .. 2 : data[i + j - 1] = CycleHead[j]) <=> data[i] = 202 /\ data[i + 1] = 203
    <3>1. i + 1 - 1 = i /\ i + 2 - 1 = i + 1 /\ 1 .. 2 = {1, 2}
      OBVIOUS
    <3>2. QED BY <2>1, <3>1
  <2>4. QED BY <1>1, <2>1, <2>2, <2>3
<1>3. Occurs(CycleTail, data, i) <=> i + 1 <= Len(data) /\ data[i] = 234 /\ data[i + 1] = 235
  <2>0. CycleTail \in Seq(Nat) /\ CycleTail # <<>>
    BY DEF CycleTail
  <2>1. Len(CycleTail) = 2 /\ CycleTail[1] = 234 /\ CycleTail[2] = 235
    BY DEF CycleTail
  <2>2. Occurs(CycleTail, data, i) <=>
          i + Len(CycleTail) - 1 <= Len(data) /\ \A j \in 1 .. Len(CycleTail) : data[i + j - 1] = CycleTail[j]
    BY <1>1, <2>0, OccursWhere
  <2>3. (\A j \in 1 .. 2 : data[i + j - 1] = CycleTail[j]) <=> data[i] = 234 /\ data[i + 1] = 235
    <3>1. i + 1 - 1 = i /\ i + 2 - 1 = i + 1 /\ 1 .. 2 = {1, 2}
      OBVIOUS
    <3>2. QED BY <2>1, <3>1
  <2>4. QED BY <1>1, <2>1, <2>2, <2>3
<1>4. CASE i + 1 > Len(data)
  BY <1>1, <1>2, <1>3, <1>4
<1>5. CASE i + 1 <= Len(data)
  <2>1. i \in 1 .. Len(data) /\ i + 1 \in 1 .. Len(data)
    BY <1>1, <1>5
  <2>2. PICK k \in Nat \ {0}, m \in 1 .. 5 : off + i = 5 * k - 5 + m /\ data[i] = Frame(k)[m]
    <3>1. i \in 1 .. Len(data)
      BY <2>1
    <3>2. QED BY <3>1, WhichByte
  <2>3. data[i + 1] = IF m = 5 THEN Frame(k + 1)[1] ELSE Frame(k)[m + 1]
    <3>1. PICK l \in Nat \ {0}, n \in 1 .. 5 : off + (i + 1) = 5 * l - 5 + n /\ data[i + 1] = Frame(l)[n]
      BY <2>1, WhichByte
    <3>2. IF m = 5 THEN l = k + 1 /\ n = 1 ELSE l = k /\ n = m + 1
      BY <2>2, <3>1
    <3>3. QED BY <3>1, <3>2
  <2>4. /\ Frame(k)[1] = 202 /\ Frame(k)[2] = 203 /\ Frame(k)[3] = k
        /\ Frame(k)[4] = 234 /\ Frame(k)[5] = 235 /\ Frame(k + 1)[1] = 202
    <3>1. \A l \in Nat : Frame(l)[1] = 202
      BY FrameBytes
    <3>2. \A l \in Nat : Frame(l)[2] = 203
      BY FrameBytes
    <3>3. \A l \in Nat : Frame(l)[3] = l
      BY FrameBytes
    <3>4. \A l \in Nat : Frame(l)[4] = 234
      BY FrameBytes
    <3>5. \A l \in Nat : Frame(l)[5] = 235
      BY FrameBytes
    <3>6. k \in Nat /\ k + 1 \in Nat
      OBVIOUS
    <3>7. QED BY <3>1, <3>2, <3>3, <3>4, <3>5, <3>6
  <2>5. data[i] = 202 /\ data[i + 1] = 203 <=> m = 1
    BY <2>2, <2>3, <2>4
  <2>6. data[i] = 234 /\ data[i + 1] = 235 <=> m = 4
    BY <2>2, <2>3, <2>4
  <2>7. m = 1 <=> HeadPlace(off + i)
    BY <2>2 DEF HeadPlace
  <2>8. m = 4 <=> TailPlace(off + i)
    BY <2>2 DEF TailPlace
  <2>9. QED BY <1>2, <1>3, <1>5, <2>5, <2>6, <2>7, <2>8
<1>6. QED BY <1>1, <1>4, <1>5

(* The frames that lie between two places of the stream.                   *)
Between(lo, hi) == {k \in Nat \ {0} : lo <= 5 * k - 4 /\ 5 * k <= hi}

(* The frame taken next is the first that lies whole in what remains.      *)
LEMMA NextFrame ==
  ASSUME NEW data, NEW off \in Nat, OfStream(data, off), NEW from \in 1 .. Len(data)
  PROVE  \/ /\ GetFirstCycleData(data, from) = <<>>
            /\ Between(off + from, off + Len(data)) = {}
         \/ \E k \in Between(off + from, off + Len(data)) :
              /\ \A l \in Between(off + from, off + Len(data)) : k <= l
              /\ GetFirstCycleData(data, from) = <<5 * k - 4 - off, 5 * k - off>>
<1> DEFINE head == FirstAt(CycleHead, data, from)
           tail == IF head = 0 THEN 0 ELSE FirstAt(CycleTail, data, head)
<1>1. Len(data) \in Nat /\ from \in Nat \ {0} /\ from <= Len(data) /\ Len(CycleHead) = 2
  BY DEF OfStream, CycleHead
<1>2. GetFirstCycleData(data, from) = IF tail = 0 THEN <<>> ELSE <<head, tail + 1>>
  <2>1. tail \in Int => tail + 2 - 1 = tail + 1
    OBVIOUS
  <2>2. tail \in Int
    <3>1. head \in 0 .. Len(data)
      BY <1>1, FirstPlace
    <3> HIDE DEF head
    <3>2. head # 0 => FirstAt(CycleTail, data, head) \in 0 .. Len(data)
      BY <1>1, <3>1, FirstPlace
    <3>3. QED BY <1>1, <3>1, <3>2
  <2>3. QED BY <1>1, <2>1, <2>2 DEF GetFirstCycleData, UstrUstr
<1>3. /\ head \in 0 .. Len(data)
      /\ head # 0 => head >= from /\ Occurs(CycleHead, data, head)
      /\ \A i \in from .. Len(data) : Occurs(CycleHead, data, i) => head # 0 /\ head <= i
  BY <1>1, FirstPlace
<1>4. head # 0 =>
        /\ tail \in 0 .. Len(data)
        /\ tail # 0 => tail >= head /\ Occurs(CycleTail, data, tail)
        /\ \A i \in head .. Len(data) : Occurs(CycleTail, data, i) => tail # 0 /\ tail <= i
  <2> HIDE DEF head
  <2>1. QED BY <1>1, <1>3, FirstPlace
<1>5. head = 0 => tail = 0
  OBVIOUS
<1> HIDE DEF head, tail
<1>6. \A l \in Between(off + from, off + Len(data)) :
        /\ 5 * l - 4 - off \in from .. Len(data) - 4
        /\ Occurs(CycleHead, data, 5 * l - 4 - off)
        /\ Occurs(CycleTail, data, 5 * l - 1 - off)
  <2> TAKE l \in Between(off + from, off + Len(data))
  <2>1. l \in Nat \ {0} /\ off + from <= 5 * l - 4 /\ 5 * l <= off + Len(data)
    BY DEF Between
  <2>2. /\ 5 * l - 4 - off \in from .. Len(data) - 4
        /\ 5 * l - 4 - off \in Nat \ {0} /\ 5 * l - 1 - off \in Nat \ {0}
        /\ 5 * l - 4 - off + 1 <= Len(data) /\ 5 * l - 1 - off + 1 <= Len(data)
    BY <1>1, <2>1
  <2>6. HeadPlace(off + (5 * l - 4 - off)) /\ TailPlace(off + (5 * l - 1 - off))
    BY <2>1 DEF HeadPlace, TailPlace
  <2>3. Occurs(CycleHead, data, 5 * l - 4 - off)
    BY <2>2, <2>6, HeadsAndTails
  <2>4. Occurs(CycleTail, data, 5 * l - 1 - off)
    BY <2>2, <2>6, HeadsAndTails
  <2>5. QED BY <2>2, <2>3, <2>4
<1>7. CASE head = 0
  <2>1. Between(off + from, off + Len(data)) = {}
    BY <1>1, <1>3, <1>6, <1>7
  <2>2. QED BY <1>2, <1>5, <1>7, <2>1
<1>8. CASE head # 0
  <2>1. PICK k \in Nat \ {0} : off + head = 5 * k - 4
    <3>1. head \in Nat \ {0} /\ Occurs(CycleHead, data, head)
      BY <1>3, <1>8
    <3>2. QED BY <3>1, HeadsAndTails DEF HeadPlace
  <2>2. \A l \in Between(off + from, off + Len(data)) : k <= l
    <3> TAKE l \in Between(off + from, off + Len(data))
    <3>1. l \in Nat /\ 5 * l - 4 - off \in from .. Len(data)
      BY <1>1, <1>6 DEF Between
    <3>2. head <= 5 * l - 4 - off
      BY <1>3, <1>6, <3>1
    <3>3. QED BY <1>3, <2>1, <3>1, <3>2
  <2>3. CASE tail = 0
    <3>1. ASSUME NEW l \in Between(off + from, off + Len(data)) PROVE FALSE
      <4>1. k \in Between(off + from, off + Len(data))
        BY <1>1, <1>3, <1>8, <2>1, <2>2, <3>1 DEF Between
      <4>2. 5 * k - 1 - off \in head .. Len(data)
        BY <1>1, <1>3, <1>6, <2>1, <4>1
      <4>3. QED BY <1>4, <1>6, <1>8, <2>3, <4>1, <4>2
    <3>2. QED BY <1>2, <2>3, <3>1
  <2>4. CASE tail # 0
    <3>0. tail \in Nat \ {0} /\ Occurs(CycleTail, data, tail)
      BY <1>4, <1>8, <2>4
    <3>1. PICK l \in Nat \ {0} : off + tail = 5 * l - 1
      BY <3>0, HeadsAndTails DEF TailPlace
    <3>2. tail + 1 <= Len(data)
      BY <3>0, HeadsAndTails
    <3>3. k <= l
      BY <1>3, <1>4, <1>8, <2>1, <2>4, <3>1
    <3>4. k \in Between(off + from, off + Len(data))
      BY <1>1, <1>3, <1>4, <1>8, <2>1, <3>1, <3>2, <3>3 DEF Between
    <3>5. tail <= 5 * k - 1 - off
      <4>1. 5 * k - 1 - off \in head .. Len(data)
        BY <1>1, <1>3, <1>6, <2>1, <3>4
      <4>2. QED BY <1>4, <1>6, <1>8, <3>4, <4>1
    <3>6. l = k
      BY <1>3, <1>4, <1>8, <2>1, <3>1, <3>3, <3>5
    <3>7. head = 5 * k - 4 - off /\ tail + 1 = 5 * k - off
      BY <1>3, <1>4, <1>8, <2>1, <3>1, <3>6
    <3>8. GetFirstCycleData(data, from) = <<5 * k - 4 - off, 5 * k - off>>
      BY <1>2, <2>4, <3>7
    <3>9. QED BY <2>2, <3>4, <3>8
  <2>5. QED BY <2>3, <2>4
<1>9. QED BY <1>7, <1>8

(* The pieces taken from place i on: that of i, if the loop goes on there, *)
(* and those from next[i] on.                                              *)
IsRest(f, L, Going, next, piece) ==
  f = [i \in 1 .. L + 1 |-> IF i \in Going THEN <<piece[i]>> \o f[next[i]] ELSE <<>>]

(* From the end of 1 .. L + 1 back to its beginning, a function may be     *)
(* defined by its values further on: AnalyseComData's loop, which always   *)
(* goes on behind the frame it took, gives a value.                        *)
LEMMA RecursionBackwards ==
  ASSUME NEW L \in Nat, NEW Going \in SUBSET (1 .. L), NEW next, NEW piece,
         \A i \in Going : next[i] \in i + 1 .. L + 1
  PROVE  \E f : IsRest(f, L, Going, next, piece)
<1> DEFINE Value(f, i) == IF i \in Going THEN <<piece[i]>> \o f[next[i]] ELSE <<>>
           From1(n) == L + 1 - n .. L + 1
           S == {n \in Nat : n <= L => \E f : f = [i \in From1(n) |-> Value(f, i)]}
<1>1. 0 \in S
  <2> DEFINE f == [i \in From1(0) |-> <<>>]
  <2>1. \A i \in From1(0) : i \notin Going
    OBVIOUS
  <2>2. f = [i \in From1(0) |-> Value(f, i)]
    BY <2>1
  <2>3. QED BY <2>2
<1>2. ASSUME NEW n \in Nat, n \in S PROVE n + 1 \in S
  <2>0. n + 1 \in Nat
    OBVIOUS
  <2> SUFFICES ASSUME n + 1 <= L PROVE \E f : f = [i \in From1(n + 1) |-> Value(f, i)]
    <3> HIDE DEF From1, Value
    <3>1. QED BY <2>0, Zenon
  <2>1. n <= L
    OBVIOUS
  <2>2. PICK f : f = [i \in From1(n) |-> Value(f, i)]
    BY <1>2, <2>1
  <2> DEFINE g == [i \in From1(n + 1) |-> Value(f, i)]
  <2>3. \A i \in From1(n) : i \in From1(n + 1)
    OBVIOUS
  <2>4. \A i \in From1(n) : g[i] = f[i]
    <3> TAKE i \in From1(n)
    <3>1. f[i] = Value(f, i)
      <4> HIDE DEF From1, Value
      <4>1. QED BY <2>2
    <3>2. g[i] = Value(f, i)
      <4> HIDE DEF From1, Value
      <4>1. QED BY <2>3
    <3> HIDE DEF Value, g
    <3>3. QED BY <3>1, <3>2
  <2>5. \A i \in Going : i \in From1(n + 1) => next[i] \in From1(n)
    OBVIOUS
  <2> HIDE DEF From1
  <2>6. \A i \in From1(n + 1) : Value(f, i) = Value(g, i)
    <3> HIDE DEF g
    <3>1. QED BY <2>4, <2>5
  <2>7. g = [i \in From1(n + 1) |-> Value(g, i)]
    <3> HIDE DEF Value
    <3>1. QED BY <2>6
  <2> HIDE DEF g
  <2>8. QED BY <2>7
<1>3. Nat \subseteq S
  <2> HIDE DEF S
  <2>1. QED BY <1>1, <1>2, SetInduction
<1>4. \E f : f = [i \in From1(L) |-> Value(f, i)]
  <2> HIDE DEF From1, Value
  <2>1. QED BY <1>3
<1>5. From1(L) = 1 .. L + 1
  OBVIOUS
<1> HIDE DEF From1
<1>6. QED BY <1>4, <1>5 DEF IsRest

(* s is the frames of K, each once and in order.                           *)
FramesOf(s, K) ==
  /\ s \in Seq(Seq(Nat)) /\ K \in SUBSET Nat
  /\ \A i \in DOMAIN s : \E k \in K : s[i] = Frame(k)
  /\ \A k \in K : \E i \in DOMAIN s : s[i] = Frame(k)
  /\ \A i, j \in DOMAIN s : i < j => s[i][3] < s[j][3]

LEMMA FramesJoin ==
  ASSUME NEW s, NEW t, NEW K, NEW M, FramesOf(s, K), FramesOf(t, M),
         \A k \in K, m \in M : k < m
  PROVE  FramesOf(s \o t, K \union M)
<1> DEFINE r == s \o t
<1>1. /\ s \in Seq(Seq(Nat)) /\ t \in Seq(Seq(Nat)) /\ K \in SUBSET Nat /\ M \in SUBSET Nat
      /\ DOMAIN s = 1 .. Len(s) /\ DOMAIN t = 1 .. Len(t) /\ Len(s) \in Nat /\ Len(t) \in Nat
  BY DEF FramesOf
<1>2. /\ r \in Seq(Seq(Nat)) /\ Len(r) = Len(s) + Len(t)
      /\ \A i \in 1 .. Len(s) + Len(t) : r[i] = IF i <= Len(s) THEN s[i] ELSE t[i - Len(s)]
  BY <1>1, ConcatProperties
<1> HIDE DEF r
<1>3. DOMAIN r = 1 .. Len(s) + Len(t)
  BY <1>2
<1>4. \A i \in 1 .. Len(s) : i \in DOMAIN r /\ r[i] = s[i]
  BY <1>1, <1>2, <1>3
<1>5. \A i \in 1 .. Len(t) : Len(s) + i \in DOMAIN r /\ r[Len(s) + i] = t[i]
  <2> TAKE i \in 1 .. Len(t)
  <2>1. Len(s) + i \in 1 .. Len(s) + Len(t) /\ ~(Len(s) + i <= Len(s)) /\ Len(s) + i - Len(s) = i
    BY <1>1
  <2>2. QED BY <1>2, <1>3, <2>1
<1>6. \A i \in DOMAIN r : \/ i \in 1 .. Len(s)
                          \/ \E j \in 1 .. Len(t) : i = Len(s) + j
  <2> TAKE i \in DOMAIN r
  <2>1. i \in 1 .. Len(s) \/ (i - Len(s) \in 1 .. Len(t) /\ i = Len(s) + (i - Len(s)))
    BY <1>1, <1>3
  <2>2. QED BY <2>1
<1>7. ASSUME NEW i \in DOMAIN r PROVE \E k \in K \union M : r[i] = Frame(k)
  <2>1. CASE i \in 1 .. Len(s)
    BY <1>1, <1>4, <2>1 DEF FramesOf
  <2>2. CASE \E j \in 1 .. Len(t) : i = Len(s) + j
    <3>1. PICK j \in 1 .. Len(t) : i = Len(s) + j
      BY <2>2
    <3>2. PICK k \in M : t[j] = Frame(k)
      BY <1>1 DEF FramesOf
    <3>3. QED BY <1>5, <3>1, <3>2
  <2>3. QED BY <1>6, <2>1, <2>2
<1>8. \A k \in K \union M : \E i \in DOMAIN r : r[i] = Frame(k)
  BY <1>1, <1>4, <1>5 DEF FramesOf
<1>9. ASSUME NEW i \in DOMAIN r, NEW j \in DOMAIN r, i < j PROVE r[i][3] < r[j][3]
  <2>1. CASE i \in 1 .. Len(s) /\ j \in 1 .. Len(s)
    BY <1>1, <1>4, <1>9, <2>1 DEF FramesOf
  <2>2. CASE i \in 1 .. Len(s) /\ \E n \in 1 .. Len(t) : j = Len(s) + n
    <3>1. PICK n \in 1 .. Len(t) : j = Len(s) + n
      BY <2>2
    <3>2. PICK k \in K : s[i] = Frame(k)
      BY <1>1, <2>2 DEF FramesOf
    <3>3. PICK m \in M : t[n] = Frame(m)
      BY <1>1 DEF FramesOf
    <3>4. k \in Nat /\ m \in Nat /\ k < m
      BY <1>1
    <3>5. Frame(k)[3] = k
      BY <3>4, FrameBytes
    <3>6. Frame(m)[3] = m
      BY <3>4, FrameBytes
    <3>7. QED BY <1>4, <1>5, <2>2, <3>1, <3>2, <3>3, <3>4, <3>5, <3>6
  <2>3. CASE (\E n \in 1 .. Len(t) : i = Len(s) + n) /\ \E n \in 1 .. Len(t) : j = Len(s) + n
    <3>1. PICK n \in 1 .. Len(t) : i = Len(s) + n
      BY <2>3
    <3>2. PICK m \in 1 .. Len(t) : j = Len(s) + m
      BY <2>3
    <3>3. n < m
      BY <1>1, <1>9, <3>1, <3>2
    <3>4. t[n][3] < t[m][3]
      BY <1>1, <3>3 DEF FramesOf
    <3>5. QED BY <1>5, <3>1, <3>2, <3>4
  <2>4. CASE (\E n \in 1 .. Len(t) : i = Len(s) + n) /\ j \in 1 .. Len(s)
    BY <1>1, <1>9, <2>4
  <2>5. QED BY <1>6, <2>1, <2>2, <2>3, <2>4
<1>10. r \in Seq(Seq(Nat)) /\ K \union M \in SUBSET Nat
  BY <1>1, <1>2
<1>11. FramesOf(r, K \union M)
  BY <1>7, <1>8, <1>9, <1>10 DEF FramesOf
<1>12. QED BY <1>11 DEF r

LEMMA FramesNone == FramesOf(<<>>, {})
BY DEF FramesOf

LEMMA FramesOne ==
  ASSUME NEW k \in Nat
  PROVE  FramesOf(<<Frame(k)>>, {k})
<1>1. Frame(k) \in Seq(Nat)
  BY FrameBytes
<1> DEFINE s == <<Frame(k)>>
<1>2. s \in Seq(Seq(Nat)) /\ DOMAIN s = {1} /\ s[1] = Frame(k)
  BY <1>1
<1> HIDE DEF s
<1>3. FramesOf(s, {k})
  BY <1>2 DEF FramesOf
<1>4. QED BY <1>3 DEF s

(* AnalyseComData takes the frames that lie whole in the data, and no      *)
(* other, each once and in order.                                          *)
LEMMA AnalyseFrames ==
  ASSUME NEW data, NEW off \in Nat, OfStream(data, off)
  PROVE  FramesOf(AnalyseComData(data), Between(off + 1, off + Len(data)))
<1> DEFINE L == Len(data)
           found(i) == IF i > L THEN <<>> ELSE GetFirstCycleData(data, i)
           Going == {i \in 1 .. L : GetFirstCycleData(data, i) # <<>>}
           next == [i \in 1 .. L |-> GetFirstCycleData(data, i)[2] + 1]
           piece == [i \in 1 .. L |-> SubSeq(data, GetFirstCycleData(data, i)[1], GetFirstCycleData(data, i)[2])]
           Rest(f) == IsRest(f, L, Going, next, piece)
<1>1. L \in Nat /\ data \in Seq(Nat) /\ \A j \in 1 .. L : data[j] \in Nat
  BY DEF OfStream
<1>2. ASSUME NEW i \in Going
      PROVE  \E k \in Between(off + i, off + L) :
               /\ \A l \in Between(off + i, off + L) : k <= l
               /\ next[i] = 5 * k - off + 1 /\ next[i] \in i + 1 .. L + 1
               /\ piece[i] = Frame(k)
  <2>1. PICK k \in Between(off + i, off + L) :
          /\ \A l \in Between(off + i, off + L) : k <= l
          /\ GetFirstCycleData(data, i) = <<5 * k - 4 - off, 5 * k - off>>
    BY NextFrame
  <2>2. k \in Nat \ {0} /\ off + i <= 5 * k - 4 /\ 5 * k <= off + L /\ i \in 1 .. L
    BY DEF Between
  <2>3. next[i] = 5 * k - off + 1 /\ piece[i] = SubSeq(data, 5 * k - 4 - off, 5 * k - off)
    <3>1. GetFirstCycleData(data, i)[1] = 5 * k - 4 - off /\ GetFirstCycleData(data, i)[2] = 5 * k - off
      BY <2>1
    <3>2. i \in 1 .. L
      BY <2>2
    <3>3. QED BY <3>1, <3>2
  <2>4. 5 * k - off + 1 \in i + 1 .. L + 1
    BY <1>1, <2>2
  <2>5. SubSeq(data, 5 * k - 4 - off, 5 * k - off) = Frame(k)
    <3> DEFINE a == 5 * k - 4 - off
               b == 5 * k - off
               sub == SubSeq(data, a, b)
    <3>1. a \in 1 .. L /\ b \in 1 .. L /\ b = a + 4 /\ a \in Int /\ b \in Int
      BY <1>1, <2>2
    <3>2. \A m \in 1 .. 5 : a + m - 1 = 5 * k - 5 + m - off /\ a + m - 1 \in 1 .. L
      BY <1>1, <2>2
    <3> HIDE DEF a, b
    <3>3. \A j \in a .. b : data[j] \in Nat
      BY <1>1, <3>1
    <3>4. /\ sub \in Seq(Nat) /\ Len(sub) = IF a <= b THEN b - a + 1 ELSE 0
          /\ \A m \in 1 .. b - a + 1 : sub[m] = data[a + m - 1]
      BY <3>1, <3>3, SubSeqProperties
    <3>5. b - a + 1 = 5 /\ a <= b
      BY <3>1
    <3> HIDE DEF sub
    <3>6. \A m \in 1 .. 5 : sub[m] = Frame(k)[m]
      <4>1. \A m \in 1 .. 5 : data[a + m - 1] = Frame(k)[m]
        <5>1. k \in Nat \ {0}
          BY <2>2
        <5>2. QED BY <3>2, <5>1 DEF OfStream
      <4>2. \A m \in 1 .. 5 : sub[m] = data[a + m - 1]
        BY <3>4, <3>5
      <4>3. QED BY <4>1, <4>2
    <3>7. Frame(k) \in Seq(Nat)
      BY <2>2, FrameBytes
    <3>8. Len(Frame(k)) = 5
      BY <2>2, FrameBytes
    <3>9. sub = Frame(k)
      BY <3>4, <3>5, <3>6, <3>7, <3>8, SeqEqual
    <3>10. QED BY <3>9 DEF sub, a, b
  <2>6. QED BY <2>1, <2>3, <2>4, <2>5
<1>3. \A i \in 1 .. L + 1 : i \notin Going => Between(off + i, off + L) = {}
  <2> TAKE i \in 1 .. L + 1
  <2> HAVE i \notin Going
  <2>1. CASE i \in 1 .. L
    <3>1. GetFirstCycleData(data, i) = <<>>
      BY <2>1
    <3>2. \A k \in Int : <<5 * k - 4 - off, 5 * k - off>> # <<>>
      OBVIOUS
    <3> HIDE DEF Going, next, piece, found, Rest
    <3>3. \/ Between(off + i, off + L) = {}
          \/ \E k \in Between(off + i, off + L) :
               GetFirstCycleData(data, i) = <<5 * k - 4 - off, 5 * k - off>>
      BY <2>1, NextFrame
    <3>4. \A k \in Between(off + i, off + L) : k \in Int
      BY DEF Between
    <3>5. QED BY <3>1, <3>2, <3>3, <3>4
  <2>2. CASE i = L + 1
    <3> SUFFICES ASSUME NEW k \in Between(off + i, off + L) PROVE FALSE
      OBVIOUS
    <3>1. QED BY <1>1, <2>2 DEF Between
  <2>3. QED BY <1>1, <2>1, <2>2
<1>4. AnalyseComData(data) = (CHOOSE f : Rest(f))[1]
  <2> DEFINE Value(f, i) == IF found(i) = <<>> THEN <<>>
                            ELSE <<SubSeq(data, found(i)[1], found(i)[2])>> \o f[found(i)[2] + 1]
             Rest0(f) == f = [i \in 1 .. L + 1 |-> Value(f, i)]
  <2>1. ASSUME NEW f, NEW i \in 1 .. L + 1
        PROVE  Value(f, i) = IF i \in Going THEN <<piece[i]>> \o f[next[i]] ELSE <<>>
    <3>1. CASE i = L + 1
      BY <1>1, <3>1
    <3>2. CASE i \in 1 .. L
      <4>1. found(i) = GetFirstCycleData(data, i) /\ (i \in Going <=> found(i) # <<>>)
        BY <1>1, <3>2
      <4>2. /\ piece[i] = SubSeq(data, GetFirstCycleData(data, i)[1], GetFirstCycleData(data, i)[2])
            /\ next[i] = GetFirstCycleData(data, i)[2] + 1
        BY <3>2
      <4> HIDE DEF found, piece, next, Going
      <4>3. QED BY <4>1, <4>2
    <3>3. QED BY <1>1, <3>1, <3>2
  <2>2. \A f : Rest0(f) <=> Rest(f)
    <3> HIDE DEF Value, Going, piece, next
    <3>1. QED BY <2>1 DEF IsRest
  <2>3. (CHOOSE f : Rest0(f)) = CHOOSE f : Rest(f)
    <3> HIDE DEF Rest0, Rest
    <3>1. QED BY <2>2
  <2>4. AnalyseComData(data) = (CHOOSE f : Rest0(f))[1]
    BY DEF AnalyseComData
  <2>5. QED BY <2>3, <2>4
<1>5. PICK f : Rest(f) /\ AnalyseComData(data) = f[1]
  <2> HIDE DEF Going, next, piece, L
  <2>1. Going \in SUBSET (1 .. L)
    BY DEF Going
  <2>2. \A i \in Going : next[i] \in i + 1 .. L + 1
    BY <1>2
  <2>3. \E f : Rest(f)
    BY <1>1, <2>1, <2>2, RecursionBackwards
  <2> HIDE DEF Rest
  <2>4. Rest(CHOOSE f : Rest(f))
    BY <2>3
  <2>5. QED BY <1>4, <2>4
<1> HIDE DEF Going, next, piece, L, found
<1> DEFINE S == {n \in Nat : \A i \in 1 .. L + 1 : L + 1 - n <= i => FramesOf(f[i], Between(off + i, off + L))}
<1>6. \A i \in 1 .. L + 1 : f[i] = IF i \in Going THEN <<piece[i]>> \o f[next[i]] ELSE <<>>
  BY <1>5 DEF IsRest
<1> HIDE DEF Rest
<1>7. 0 \in S
  <2>1. L + 1 \notin Going
    BY <1>1 DEF Going
  <2>2. FramesOf(f[L + 1], Between(off + (L + 1), off + L))
    <3>1. L + 1 \in 1 .. L + 1
      BY <1>1
    <3>2. f[L + 1] = <<>>
      BY <1>6, <2>1, <3>1
    <3>3. Between(off + (L + 1), off + L) = {}
      BY <1>3, <2>1, <3>1
    <3>4. QED BY <3>2, <3>3, FramesNone
  <2>3. \A i \in 1 .. L + 1 : L + 1 - 0 <= i => i = L + 1
    BY <1>1
  <2>4. QED BY <2>2, <2>3
<1>8. ASSUME NEW n \in Nat, n \in S PROVE n + 1 \in S
  <2>0. n + 1 \in Nat
    OBVIOUS
  <2> SUFFICES ASSUME NEW i \in 1 .. L + 1, L + 1 - (n + 1) <= i
               PROVE  FramesOf(f[i], Between(off + i, off + L))
    BY <2>0
  <2>1. CASE i \notin Going
    BY <1>3, <1>6, <2>1, FramesNone
  <2>2. CASE i \in Going
    <3>1. PICK k \in Between(off + i, off + L) :
               /\ \A l \in Between(off + i, off + L) : k <= l
               /\ next[i] = 5 * k - off + 1 /\ next[i] \in i + 1 .. L + 1
               /\ piece[i] = Frame(k)
      BY <1>2, <2>2
    <3>2. next[i] \in 1 .. L + 1 /\ L + 1 - n <= next[i]
      BY <1>1, <3>1
    <3>3. FramesOf(f[next[i]], Between(off + next[i], off + L))
      BY <1>8, <3>2
    <3>4. Between(off + i, off + L) = {k} \union Between(off + next[i], off + L)
      <4>1. ASSUME NEW l \in Between(off + i, off + L)
            PROVE  l \in {k} \union Between(off + next[i], off + L)
        BY <1>1, <3>1 DEF Between
      <4>2. ASSUME NEW l \in {k} \union Between(off + next[i], off + L)
            PROVE  l \in Between(off + i, off + L)
        BY <1>1, <3>1 DEF Between
      <4>3. QED BY <4>1, <4>2
    <3>5. \A l \in Between(off + next[i], off + L) : k < l
      BY <1>1, <3>1 DEF Between
    <3>6. FramesOf(<<Frame(k)>>, {k})
      BY FramesOne DEF Between
    <3>7. FramesOf(<<Frame(k)>> \o f[next[i]], {k} \union Between(off + next[i], off + L))
      BY <3>3, <3>5, <3>6, FramesJoin
    <3>8. f[i] = <<Frame(k)>> \o f[next[i]]
      BY <1>6, <2>2, <3>1
    <3>9. QED BY <3>4, <3>7, <3>8
  <2>3. QED BY <2>1, <2>2
<1>9. Nat \subseteq S
  <2> HIDE DEF S
  <2>1. QED BY <1>7, <1>8, SetInduction
<1>10. FramesOf(f[1], Between(off + 1, off + L))
  <2>1. L \in S
    BY <1>1, <1>9
  <2>2. 1 \in 1 .. L + 1 /\ L + 1 - L <= 1
    BY <1>1
  <2>3. QED BY <2>1, <2>2
<1>11. QED BY <1>5, <1>10 DEF L

(* The frames a piece of data holds are those that lie whole in it.        *)
LEMMA HeldFrames ==
  ASSUME NEW data, NEW off \in Nat, OfStream(data, off), NEW k \in Nat \ {0}
  PROVE  Holds(data, k) <=> k \in Between(off + 1, off + Len(data))
<1>1. data \in Seq(Nat) /\ Len(data) \in Nat /\ DOMAIN data = 1 .. Len(data)
  BY DEF OfStream
<1>2. Frame(k) \in Seq(Nat)
  BY FrameBytes
<1>3. Len(Frame(k)) = 5
  BY FrameBytes
<1>n. Frame(k) # <<>>
  <2>1. Len(<<>>) # 5
    OBVIOUS
  <2>2. QED BY <1>3, <2>1
<1>4. \A i \in 1 .. Len(data) :
        Occurs(Frame(k), data, i) <=> i + 4 <= Len(data) /\ \A j \in 1 .. 5 : data[i + j - 1] = Frame(k)[j]
  <2> TAKE i \in 1 .. Len(data)
  <2>1. i \in Nat \ {0}
    BY <1>1
  <2>2. Occurs(Frame(k), data, i) <=>
          /\ i + Len(Frame(k)) - 1 <= Len(data)
          /\ \A j \in 1 .. Len(Frame(k)) : data[i + j - 1] = Frame(k)[j]
    <3>1. data \in Seq(Nat)
      BY <1>1
    <3>2. QED BY <1>2, <1>n, <2>1, <3>1, OccursWhere
  <2>3. QED BY <1>1, <1>3, <2>1, <2>2
<1>5. ASSUME k \in Between(off + 1, off + Len(data)) PROVE Holds(data, k)
  <2> DEFINE i == 5 * k - 4 - off
  <2>1. i \in 1 .. Len(data) /\ i + 4 <= Len(data) /\ off + 1 <= 5 * k - 4
    BY <1>1, <1>5 DEF Between
  <2>2. \A j \in 1 .. 5 : i + j - 1 = 5 * k - 5 + j - off /\ i + j - 1 \in 1 .. Len(data)
    BY <1>1, <2>1
  <2> HIDE DEF i
  <2>3. \A j \in 1 .. 5 : data[i + j - 1] = Frame(k)[j]
    BY <2>2 DEF OfStream
  <2>4. QED BY <1>1, <1>4, <2>1, <2>3 DEF Holds
<1>6. ASSUME Holds(data, k) PROVE k \in Between(off + 1, off + Len(data))
  <2>1. PICK i \in 1 .. Len(data) : i + 4 <= Len(data) /\ \A j \in 1 .. 5 : data[i + j - 1] = Frame(k)[j]
    BY <1>1, <1>4, <1>6 DEF Holds
  <2>2. i + 1 - 1 = i /\ i + 2 - 1 = i + 1 /\ i + 3 - 1 = i + 2 /\ 1 \in 1 .. 5 /\ 2 \in 1 .. 5 /\ 3 \in 1 .. 5
    BY <1>1
  <2>3. data[i] = Frame(k)[1] /\ data[i + 1] = Frame(k)[2] /\ data[i + 2] = Frame(k)[3]
    BY <2>1, <2>2
  <2>4. HeadPlace(off + i)
    <3>1. Frame(k)[1] = 202
      BY FrameBytes
    <3>2. Frame(k)[2] = 203
      BY FrameBytes
    <3>3. Occurs(CycleHead, data, i)
      <4>1. CycleHead \in Seq(Nat) /\ CycleHead # <<>>
        BY DEF CycleHead
      <4>2. i \in Nat \ {0}
        BY <1>1
      <4>3. Occurs(CycleHead, data, i) <=>
              /\ i + Len(CycleHead) - 1 <= Len(data)
              /\ \A j \in 1 .. Len(CycleHead) : data[i + j - 1] = CycleHead[j]
        <5>1. data \in Seq(Nat)
          BY <1>1
        <5>2. QED BY <4>1, <4>2, <5>1, OccursWhere
      <4>4. Len(CycleHead) = 2 /\ CycleHead[1] = 202 /\ CycleHead[2] = 203
        BY DEF CycleHead
      <4>5. \A j \in 1 .. 2 : data[i + j - 1] = CycleHead[j]
        BY <2>2, <2>3, <3>1, <3>2, <4>4
      <4>6. i + 2 - 1 <= Len(data)
        BY <1>1, <2>1
      <4>7. QED BY <4>3, <4>4, <4>5, <4>6
    <3>4. i \in Nat \ {0}
      BY <1>1
    <3>5. QED BY <3>3, <3>4, HeadsAndTails
  <2>5. PICK l \in Nat \ {0} : off + i = 5 * l - 4
    BY <2>4 DEF HeadPlace
  <2>6. \A m \in 1 .. 5 : 5 * l - 5 + m - off = i - 1 + m /\ i - 1 + m \in 1 .. Len(data)
    <3>1. i + 4 <= Len(data) /\ i >= 1 /\ i \in Int /\ Len(data) \in Int
      BY <1>1, <2>1
    <3>2. QED BY <2>5, <3>1
  <2>7. data[i + 2] = Frame(l)[3]
    <3>1. \A m \in 1 .. 5 : data[i - 1 + m] = Frame(l)[m]
      BY <2>6 DEF OfStream
    <3>2. i - 1 + 3 = i + 2 /\ 3 \in 1 .. 5
      BY <1>1
    <3>3. QED BY <3>1, <3>2
  <2>8. Frame(l)[3] = l
    BY FrameBytes
  <2>9. Frame(k)[3] = k
    BY FrameBytes
  <2>10. k = l
    BY <2>3, <2>7, <2>8, <2>9
  <2>11. off + 1 <= 5 * k - 4 /\ 5 * k <= off + Len(data)
    <3>1. i + 4 <= Len(data) /\ i >= 1 /\ i \in Int /\ Len(data) \in Int
      BY <1>1, <2>1
    <3>2. off + i = 5 * k - 4
      BY <2>5, <2>10
    <3>3. QED BY <3>1, <3>2
  <2>12. QED BY <2>11 DEF Between
<1>7. QED BY <1>5, <1>6

------------------------------------------------------------------------------
(* While no byte is lost, what is on the line is the end of the frames     *)
(* sent, and what was parsed are the frames that lay whole in the data of  *)
(* one call, all of them before what is on the line.                       *)
ComTypeOK == frames \in 0 .. MaxFrames /\ line \in Seq(Nat)
Gone == 5 * frames - Len(line)
LineInv ==
  ~noise =>
    /\ Gone \in Nat /\ OfStream(line, Gone)
    /\ FramesOf(parsed, whole)
    /\ \A k \in whole : k \in Nat \ {0} /\ 5 * k <= Gone
ComInv == ComTypeOK /\ LineInv

LEMMA ComInvInit == ComInit => ComInv
<1> SUFFICES ASSUME ComInit PROVE ComInv
  OBVIOUS
<1>1. frames = 0 /\ line = <<>> /\ parsed = <<>> /\ whole = {}
  BY DEF ComInit
<1>2. ComTypeOK
  BY <1>1, ComAssumption DEF ComTypeOK
<1>3. Gone = 0
  <2>1. Len(line) = 0 /\ frames = 0
    BY <1>1
  <2>2. QED BY <2>1 DEF Gone
<1>4. OfStream(line, 0)
  BY <1>1 DEF OfStream
<1>5. QED BY <1>1, <1>2, <1>3, <1>4, FramesNone DEF ComInv, LineInv

(* What a send appends is the next frame of the stream.                    *)
LEMMA SendStep ==
  ASSUME ComInv, SendFrame
  PROVE  ComInv'
<1>1. /\ frames \in 0 .. MaxFrames /\ frames < MaxFrames /\ MaxFrames \in Nat /\ line \in Seq(Nat)
      /\ frames' = frames + 1 /\ line' = line \o Frame(frames + 1)
      /\ UNCHANGED <<parsed, whole, noise>>
  BY ComAssumption DEF ComInv, ComTypeOK, SendFrame
<1> DEFINE k == frames + 1
<1>2. k \in Nat /\ k \in 0 .. MaxFrames /\ Len(line) \in Nat
  BY <1>1
<1> HIDE DEF k
<1>3. Frame(k) \in Seq(Nat)
  BY <1>2, FrameBytes
<1>4. Len(Frame(k)) = 5
  BY <1>2, FrameBytes
<1>5. line' = line \o Frame(k)
  BY <1>1 DEF k
<1>6. /\ line' \in Seq(Nat) /\ Len(line') = Len(line) + Len(Frame(k))
      /\ \A i \in 1 .. Len(line) + Len(Frame(k)) :
           line'[i] = IF i <= Len(line) THEN line[i] ELSE Frame(k)[i - Len(line)]
  <2>1. line \in Seq(Nat)
    BY <1>1
  <2>2. QED BY <1>3, <1>5, <2>1, ConcatProperties
<1>7. ComTypeOK'
  BY <1>1, <1>2, <1>6 DEF ComTypeOK, k
<1>8. Gone' = Gone
  <2>1. Len(line') = Len(line) + 5
    BY <1>4, <1>6
  <2>2. frames' = frames + 1 /\ frames \in Nat
    BY <1>1
  <2>3. Gone' = 5 * frames' - Len(line')
    BY DEF Gone
  <2>4. QED BY <1>2, <2>1, <2>2, <2>3 DEF Gone
<1>9. ASSUME ~noise PROVE OfStream(line', Gone)
  <2>1. Gone \in Nat /\ OfStream(line, Gone) /\ Gone = 5 * frames - Len(line)
    BY <1>9 DEF ComInv, LineInv, Gone
  <2> DEFINE g == Gone
  <2>2. g \in Nat /\ g = 5 * k - 5 - Len(line) /\ OfStream(line, g)
    BY <1>1, <1>2, <2>1 DEF k
  <2> HIDE DEF g
  <2> SUFFICES ASSUME NEW l \in Nat \ {0}, NEW m \in 1 .. 5, 5 * l - 5 + m - g \in 1 .. Len(line')
               PROVE  line'[5 * l - 5 + m - g] = Frame(l)[m]
    BY <1>6 DEF OfStream, g
  <2> DEFINE i == 5 * l - 5 + m - g
  <2>3. i \in 1 .. Len(line) + 5 /\ i \in Int
    BY <1>2, <1>4, <1>6, <2>2
  <2>4. CASE i <= Len(line)
    <3>1. i \in 1 .. Len(line)
      BY <1>2, <2>3, <2>4
    <3>2. line[i] = Frame(l)[m]
      BY <2>2, <3>1 DEF OfStream
    <3> HIDE DEF i
    <3>3. line'[i] = line[i]
      BY <1>4, <1>6, <2>3, <2>4
    <3>4. QED BY <3>2, <3>3 DEF i
  <2>5. CASE ~(i <= Len(line))
    <3>1. l = k /\ i - Len(line) = m
      BY <1>2, <2>2, <2>3, <2>5
    <3> HIDE DEF i
    <3>2. line'[i] = Frame(k)[i - Len(line)]
      BY <1>4, <1>6, <2>3, <2>5
    <3>3. QED BY <3>1, <3>2 DEF i
  <2>6. QED BY <2>4, <2>5
<1>10. LineInv'
  BY <1>1, <1>8, <1>9 DEF ComInv, LineInv
<1>11. QED BY <1>7, <1>10 DEF ComInv

(* What a call of ReadComport takes is a piece of the stream, and so is    *)
(* what it leaves.                                                         *)
LEMMA StreamPieces ==
  ASSUME NEW data, NEW off \in Nat, OfStream(data, off), NEW n \in 0 .. Len(data), NEW size \in n - 1 .. n
  PROVE  /\ OfStream(SubSeq(data, n + 1, Len(data)), off + n) /\ OfStream(SubSeq(data, 1, size), off)
         /\ Len(SubSeq(data, n + 1, Len(data))) = Len(data) - n
         /\ Len(SubSeq(data, 1, size)) <= n
<1> DEFINE L == Len(data)
           rest == SubSeq(data, n + 1, L)
           front == SubSeq(data, 1, size)
<1>1. data \in Seq(Nat) /\ L \in Nat /\ \A i \in 1 .. L : data[i] \in Nat
  BY DEF OfStream
<1>2. n \in Nat /\ n <= L /\ size \in Int /\ size <= n
  BY <1>1
<1>3. /\ rest \in Seq(Nat) /\ Len(rest) = L - n
      /\ \A i \in 1 .. L - n : rest[i] = data[n + i]
  <2> DEFINE a == n + 1
  <2>1. a \in Int /\ L \in Int
    BY <1>1, <1>2
  <2>2. \A i \in a .. L : data[i] \in Nat
    BY <1>1, <1>2
  <2> HIDE DEF a, L
  <2>3. /\ SubSeq(data, a, L) \in Seq(Nat) /\ Len(SubSeq(data, a, L)) = IF a <= L THEN L - a + 1 ELSE 0
        /\ \A i \in 1 .. L - a + 1 : SubSeq(data, a, L)[i] = data[a + i - 1]
    BY <2>1, <2>2, SubSeqProperties
  <2>4. L - a + 1 = L - n /\ (a <= L <=> n < L)
    BY <1>1, <1>2 DEF a
  <2>5. \A i \in 1 .. L - n : a + i - 1 = n + i
    BY <1>1, <1>2 DEF a
  <2>6. Len(rest) = L - n
    BY <1>1, <1>2, <2>3, <2>4 DEF a
  <2>7. rest \in Seq(Nat)
    BY <2>3 DEF a
  <2>8. \A i \in 1 .. L - n : rest[i] = data[n + i]
    BY <2>3, <2>4, <2>5 DEF a
  <2>9. QED BY <2>6, <2>7, <2>8
<1>4. /\ front \in Seq(Nat) /\ Len(front) = IF 1 <= size THEN size ELSE 0
      /\ \A i \in 1 .. size : front[i] = data[i]
  <2>1. 1 \in Int /\ size \in Int
    BY <1>2
  <2>2. \A i \in 1 .. size : data[i] \in Nat
    BY <1>1, <1>2
  <2>3. /\ front \in Seq(Nat) /\ Len(front) = IF 1 <= size THEN size - 1 + 1 ELSE 0
        /\ \A i \in 1 .. size - 1 + 1 : front[i] = data[1 + i - 1]
    BY <2>1, <2>2, SubSeqProperties
  <2>4. size - 1 + 1 = size /\ \A i \in 1 .. size : 1 + i - 1 = i
    BY <2>1
  <2> HIDE DEF front
  <2>5. QED BY <2>3, <2>4
<1> HIDE DEF rest, front
<1>5. OfStream(rest, off + n)
  <2> SUFFICES ASSUME NEW k \in Nat \ {0}, NEW m \in 1 .. 5, 5 * k - 5 + m - (off + n) \in 1 .. Len(rest)
               PROVE  rest[5 * k - 5 + m - (off + n)] = Frame(k)[m]
    BY <1>3 DEF OfStream
  <2> DEFINE i == 5 * k - 5 + m - (off + n)
  <2>1. i \in 1 .. L - n
    BY <1>3
  <2>2. n + i = 5 * k - 5 + m - off /\ n + i \in 1 .. L
    BY <1>1, <1>2, <2>1
  <2> HIDE DEF i
  <2>3. data[n + i] = Frame(k)[m]
    BY <2>2 DEF OfStream
  <2>4. rest[i] = data[n + i]
    BY <1>3, <2>1
  <2>5. QED BY <2>3, <2>4 DEF i
<1>6. OfStream(front, off)
  <2> SUFFICES ASSUME NEW k \in Nat \ {0}, NEW m \in 1 .. 5, 5 * k - 5 + m - off \in 1 .. Len(front)
               PROVE  front[5 * k - 5 + m - off] = Frame(k)[m]
    BY <1>4 DEF OfStream
  <2>1. 5 * k - 5 + m - off \in 1 .. size /\ 5 * k - 5 + m - off \in 1 .. L
    BY <1>1, <1>2, <1>4
  <2>2. data[5 * k - 5 + m - off] = Frame(k)[m]
    BY <2>1 DEF OfStream
  <2>3. QED BY <1>4, <2>1, <2>2
<1>7. Len(front) <= n
  BY <1>2, <1>4
<1>8. QED BY <1>3, <1>5, <1>6, <1>7 DEF rest, front

(* ReadComport adds the frames that lie whole in what it read, behind      *)
(* those it has read before.                                               *)
LEMMA ReceiveStep ==
  ASSUME ComInv, NEW n \in 0 .. Len(line), Receive(n)
  PROVE  ComInv'
<1>1. /\ frames \in 0 .. MaxFrames /\ MaxFrames \in Nat /\ line \in Seq(Nat) /\ Len(line) \in Nat
      /\ n \in Nat /\ n <= Len(line)
      /\ line' = SubSeq(line, n + 1, Len(line)) /\ UNCHANGED <<frames, noise>>
  BY ComAssumption DEF ComInv, ComTypeOK, Receive
<1>2. PICK size \in Returned(n) :
        LET data == SubSeq(line, 1, size) IN
        /\ parsed' = parsed \o AnalyseComData(data)
        /\ whole' = whole \union {k \in 1 .. MaxFrames : Holds(data, k)}
  BY DEF Receive
<1>3. size \in n - 1 .. n
  BY <1>1 DEF Returned
<1>4. ComTypeOK'
  <2>1. \A i \in n + 1 .. Len(line) : line[i] \in Nat
    BY <1>1
  <2>2. n + 1 \in Int /\ Len(line) \in Int
    BY <1>1
  <2>3. SubSeq(line, n + 1, Len(line)) \in Seq(Nat)
    BY <2>1, <2>2, SubSeqProperties
  <2>4. QED BY <1>1, <2>3 DEF ComTypeOK
<1>5. ASSUME ~noise PROVE LineInv'
  <2> DEFINE g == Gone
             data == SubSeq(line, 1, size)
             new == Between(g + 1, g + Len(data))
  <2>1. /\ g \in Nat /\ OfStream(line, g) /\ FramesOf(parsed, whole)
        /\ \A k \in whole : k \in Nat \ {0} /\ 5 * k <= g
    BY <1>5 DEF ComInv, LineInv
  <2>2. g = 5 * frames - Len(line)
    BY DEF Gone
  <2> HIDE DEF g
  <2>3. /\ OfStream(line', g + n) /\ OfStream(data, g)
        /\ Len(line') = Len(line) - n /\ Len(data) <= n
    BY <1>1, <1>3, <2>1, StreamPieces
  <2>4. data \in Seq(Nat) /\ Len(data) \in Nat
    BY <2>3 DEF OfStream
  <2> HIDE DEF data
  <2>5. Gone' = g + n
    <3>1. Gone' = 5 * frames' - Len(line')
      BY DEF Gone
    <3>2. frames' = frames /\ frames \in Nat
      BY <1>1
    <3>3. QED BY <1>1, <2>2, <2>3, <3>1, <3>2
  <2>6. FramesOf(AnalyseComData(data), new)
    BY <2>1, <2>3, AnalyseFrames
  <2>7. {k \in 1 .. MaxFrames : Holds(data, k)} = new
    <3>1. ASSUME NEW k \in 1 .. MaxFrames, Holds(data, k) PROVE k \in new
      <4>1. k \in Nat \ {0}
        BY <1>1
      <4>2. QED BY <2>1, <2>3, <3>1, <4>1, HeldFrames
    <3>2. ASSUME NEW k \in new PROVE k \in 1 .. MaxFrames /\ Holds(data, k)
      <4>1. k \in Nat \ {0} /\ 5 * k <= g + Len(data)
        BY DEF Between
      <4>2. Holds(data, k)
        BY <2>1, <2>3, <4>1, HeldFrames
      <4>3. 5 * k <= 5 * frames
        BY <1>1, <2>1, <2>2, <2>3, <2>4, <4>1
      <4>4. k \in 1 .. MaxFrames
        BY <1>1, <4>1, <4>3
      <4>5. QED BY <4>2, <4>4
    <3>3. QED BY <3>1, <3>2
  <2>8. parsed' = parsed \o AnalyseComData(data) /\ whole' = whole \union new
    BY <1>2, <2>7 DEF data
  <2>9. \A k \in whole, l \in new : k < l
    BY <2>1 DEF Between
  <2> HIDE DEF new
  <2>10. FramesOf(parsed \o AnalyseComData(data), whole \union new)
    BY <2>1, <2>6, <2>9, FramesJoin
  <2>11. FramesOf(parsed', whole')
    BY <2>8, <2>10
  <2>12. \A k \in whole' : k \in Nat \ {0} /\ 5 * k <= g + n
    <3>1. \A k \in new : k \in Nat \ {0} /\ 5 * k <= g + Len(data)
      BY DEF new, Between
    <3>2. \A k \in new : 5 * k <= g + n
      BY <1>1, <2>1, <2>3, <2>4, <3>1
    <3>3. \A k \in whole : 5 * k <= g + n
      BY <1>1, <2>1
    <3>4. QED BY <2>1, <2>8, <3>1, <3>2, <3>3
  <2>13. Gone' \in Nat
    BY <1>1, <2>1, <2>5
  <2>14. OfStream(line', Gone')
    BY <2>3, <2>5
  <2>15. \A k \in whole' : k \in Nat \ {0} /\ 5 * k <= Gone'
    BY <2>5, <2>12
  <2>16. OfStream(line, Gone)'
    BY <2>14 DEF OfStream
  <2>17. FramesOf(parsed, whole)'
    BY <2>11 DEF FramesOf
  <2>18. QED BY <2>13, <2>15, <2>16, <2>17 DEF LineInv
<1>6. noise => LineInv'
  BY <1>1 DEF LineInv
<1>7. QED BY <1>4, <1>5, <1>6 DEF ComInv

(* The invariant holds after every step.                                   *)
LEMMA ComInvStep == ComInv /\ [ComNext]_comVars => ComInv'
<1> SUFFICES ASSUME ComInv, [ComNext]_comVars PROVE ComInv'
  OBVIOUS
<1>1. ASSUME UNCHANGED <<frames, line, parsed, whole, noise>> PROVE ComInv'
  <2>1. ComTypeOK'
    BY <1>1 DEF ComInv, ComTypeOK
  <2>2. LineInv'
    BY <1>1 DEF ComInv, LineInv, Gone, OfStream, FramesOf
  <2>3. QED BY <2>1, <2>2 DEF ComInv
<1>2. ASSUME NEW i \in 1 .. Len(line), LoseByte(i) PROVE ComInv'
  <2>1. /\ line \in Seq(Nat) /\ frames \in 0 .. MaxFrames /\ Len(line) \in Nat
        /\ line' = SubSeq(line, 1, i - 1) \o SubSeq(line, i + 1, Len(line))
        /\ frames' = frames /\ noise' = TRUE
    BY <1>2 DEF ComInv, ComTypeOK, LoseByte
  <2>2. i - 1 \in Int /\ i + 1 \in Int /\ \A j \in 1 .. Len(line) : line[j] \in Nat
    BY <2>1
  <2>3. \A j \in 1 .. i - 1 : line[j] \in Nat
    BY <2>1, <2>2
  <2>4. \A j \in i + 1 .. Len(line) : line[j] \in Nat
    BY <2>1, <2>2
  <2>5. SubSeq(line, 1, i - 1) \in Seq(Nat)
    BY <2>2, <2>3, SubSeqProperties
  <2>6. SubSeq(line, i + 1, Len(line)) \in Seq(Nat)
    BY <2>1, <2>2, <2>4, SubSeqProperties
  <2>7. SubSeq(line, 1, i - 1) \o SubSeq(line, i + 1, Len(line)) \in Seq(Nat)
    BY <2>5, <2>6, ConcatProperties
  <2>8. QED BY <2>1, <2>7 DEF ComInv, ComTypeOK, LineInv
<1>3. CASE OpenComport
  BY <1>1, <1>3 DEF OpenComport
<1>4. CASE CloseComport
  BY <1>1, <1>4 DEF CloseComport
<1>5. CASE SendFrame
  BY <1>5, SendStep
<1>6. ASSUME NEW n \in 0 .. Len(line), Receive(n) PROVE ComInv'
  BY <1>6, ReceiveStep
<1>7. CASE UNCHANGED comVars
  BY <1>1, <1>7 DEF comVars
<1>8. QED BY <1>2, <1>3, <1>4, <1>5, <1>6, <1>7 DEF ComNext

(* While the line loses nothing, the frames parsed are those that a call   *)
(* of ReadComport has returned whole, each once and in order: for any      *)
(* contents of the frames, sizes of the reads, and number of frames.       *)
THEOREM ParsesWholeFrames == ComSpec => []FramesParsed
<1>1. ComInv => FramesParsed
  <2> SUFFICES ASSUME ComInv, ~noise
               PROVE  /\ {parsed[i] : i \in DOMAIN parsed} = {Frame(k) : k \in whole}
                      /\ \A i, j \in DOMAIN parsed : i < j => parsed[i][3] < parsed[j][3]
    BY DEF FramesParsed
  <2>1. FramesOf(parsed, whole)
    BY DEF ComInv, LineInv
  <2>2. QED BY <2>1 DEF FramesOf
<1>2. QED BY <1>1, ComInvInit, ComInvStep, PTL DEF ComSpec
==============================================================================
