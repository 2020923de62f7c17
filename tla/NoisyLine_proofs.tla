--------------------------- MODULE NoisyLine_proofs ---------------------------
(***************************************************************************)
(* What is written is read back, and nothing else is taken for it: first   *)
(* numbers and frames, then packets, then the requests and responses of    *)
(* LLMMessageCodec, then the line that damages them.                       *)
(***************************************************************************)
EXTENDS NoisyLine, SequenceLemmas

(* The powers of the radix. *)
LEMMA PowerFacts ==
    /\ Power \in [Nat -> Nat]
    /\ Power[0] = 1
    /\ \A k \in Nat : Power[k + 1] = Radix * Power[k] /\ Power[k] > 0
  <1> DEFINE G == [p \in Nat \X Nat |-> Radix * p[2]]
             P(f) == [k \in Nat |-> IF k = 0 THEN 1 ELSE Radix * f[k - 1]]
  <1>1. Radix \in Nat /\ Radix > 1
    BY RadixAssumption
  <1>2. G \in [Nat \X Nat -> Nat] /\ 1 \in Nat
    <2>1. \A n \in Nat : Radix * n \in Nat
      BY <1>1
    <2> QED
      BY <2>1
  <1>3. PICK f : Recurs(f, Nat, 1, G)
    <2> HIDE DEF G
    <2> QED
      BY <1>2, RecursionExists
  <1>4. f = P(f)
    <2>1. ASSUME NEW k \in Nat PROVE f[k] = IF k = 0 THEN 1 ELSE Radix * f[k - 1]
      <3>1. CASE k = 0
        BY <1>3, <3>1 DEF Recurs
      <3>2. CASE k # 0
        <4>1. k - 1 \in Nat /\ (k - 1) + 1 = k
          BY <3>2
        <4>2. f[k - 1] \in Nat
          BY <1>3, <4>1 DEF Recurs
        <4>3. G[<<k, f[k - 1]>>] = Radix * f[k - 1]
          BY <4>2
        <4>4. f[k] = G[<<k, f[k - 1]>>]
          BY <1>3, <4>1 DEF Recurs
        <4> QED
          BY <3>2, <4>3, <4>4
      <3> QED
        BY <3>1, <3>2
    <2> QED
      BY <1>3, <2>1 DEF Recurs
  <1>5. Power = P(Power)
    BY <1>4 DEF Power
  <1> DEFINE S == {k \in Nat : Power[k] \in Nat /\ Power[k] > 0}
  <1>6. Power[0] = 1 /\ \A k \in Nat : Power[k + 1] = Radix * Power[k]
    <2>1. Power[0] = 1
      BY <1>5
    <2>2. ASSUME NEW k \in Nat PROVE Power[k + 1] = Radix * Power[k]
      <3>1. k + 1 \in Nat /\ k + 1 # 0 /\ (k + 1) - 1 = k
        OBVIOUS
      <3> QED
        BY <1>5, <3>1
    <2> QED
      BY <2>1, <2>2
  <1>7. 0 \in S
    BY <1>6
  <1>8. ASSUME NEW k \in Nat, k \in S PROVE k + 1 \in S
    <2>1. PICK n \in Nat : n = Power[k] /\ n > 0
      BY <1>8
    <2>2. Radix * n \in Nat /\ Radix * n > 0
      BY <1>1, <2>1
    <2>3. Power[k + 1] = Radix * n
      BY <1>6, <2>1
    <2> QED
      BY <2>2, <2>3
  <1> HIDE DEF S
  <1>9. Nat \subseteq S
    BY <1>7, <1>8, Induction
  <1>10. \A k \in Nat : Power[k] \in Nat /\ Power[k] > 0
    BY <1>9 DEF S
  <1>11. Power \in [Nat -> Nat]
    BY <1>5, <1>10
  <1> QED
    BY <1>6, <1>10, <1>11

(* Division with remainder. *)
Divided(n, d) == \E q \in Nat : \E a \in 0 .. d - 1 : n = q * d + a /\ n \div d = q /\ n % d = a

LEMMA Division ==
    ASSUME NEW n \in Nat, NEW d \in Nat, d > 0
    PROVE  Divided(n, d)
  <1> DEFINE S == {k \in Nat : \E q \in Nat : \E a \in 0 .. d - 1 : k = q * d + a}
  <1>1. 0 \in S
    <2>1. 0 \in Nat /\ 0 \in 0 .. d - 1 /\ 0 = 0 * d + 0
      OBVIOUS
    <2> QED
      BY <2>1
  <1>2. ASSUME NEW k \in Nat, k \in S PROVE k + 1 \in S
    <2>1. PICK q \in Nat, a \in 0 .. d - 1 : k = q * d + a
      BY <1>2
    <2>2. CASE a + 1 < d
      <3>1. a + 1 \in 0 .. d - 1 /\ k + 1 = q * d + (a + 1)
        BY <2>1, <2>2
      <3> QED
        BY <3>1
    <2>3. CASE a + 1 = d
      <3>1. q + 1 \in Nat /\ 0 \in 0 .. d - 1 /\ (q + 1) * d = q * d + d
        OBVIOUS
      <3>2. k + 1 = (q + 1) * d + 0
        BY <2>1, <2>3, <3>1
      <3> DEFINE p == q + 1
      <3> HIDE DEF p
      <3>3. p \in Nat /\ k + 1 = p * d + 0
        BY <3>1, <3>2 DEF p
      <3> QED
        BY <3>1, <3>3
    <2> QED
      BY <2>2, <2>3
  <1> HIDE DEF S
  <1>3. n \in S
    BY <1>1, <1>2, Induction
  <1>4. PICK q \in Nat, a \in 0 .. d - 1 : n = q * d + a
    BY <1>3 DEF S
  <1>5. n \div d = q /\ n % d = a
    BY <1>4
  <1> QED
    BY <1>4, <1>5 DEF Divided

LEMMA SmallModulo ==
    ASSUME NEW n \in Nat, NEW d \in Nat, n < d
    PROVE  n % d = n
  OBVIOUS

LEMMA Quotient ==
    ASSUME NEW n \in Nat, NEW d \in Nat, d > 0
    PROVE  n \div d \in Nat
  OBVIOUS

DividedTwice(n, d, r) == n \div (r * d) = (n \div d) \div r

LEMMA DivDiv ==
    ASSUME NEW n \in Nat, NEW d \in Nat, d > 0, NEW r \in Nat, r > 0
    PROVE  DividedTwice(n, d, r)
  <1>1. PICK q \in Nat, a \in 0 .. d - 1 : n = q * d + a /\ n \div d = q
    <2>1. Divided(n, d)
      BY Division
    <2> QED
      BY <2>1 DEF Divided
  <1>2. PICK p \in Nat, b \in 0 .. r - 1 : q = p * r + b /\ q \div r = p
    <2>1. Divided(q, r)
      BY Division
    <2> QED
      BY <2>1 DEF Divided
  <1>3. PICK c \in Nat : c = b * d
    <2>1. b * d \in Nat
      OBVIOUS
    <2> QED
      BY <2>1
  <1>4. PICK e \in Nat : e = r * d /\ e > 0
    <2>1. r * d \in Nat /\ r * d > 0
      OBVIOUS
    <2> QED
      BY <2>1
  <1>5. c + d <= e
    <2>1. (b + 1) * d <= r * d
      <3>1. b + 1 <= r /\ b + 1 \in Nat
        OBVIOUS
      <3> QED
        BY <3>1
    <2>2. (b + 1) * d = b * d + d
      OBVIOUS
    <2> QED
      BY <1>3, <1>4, <2>1, <2>2
  <1>6. n = p * e + (c + a)
    <2>1. q * d = (p * r) * d + b * d
      BY <1>2
    <2>2. (p * r) * d = p * (r * d)
      OBVIOUS
    <2> QED
      BY <1>1, <1>3, <1>4, <2>1, <2>2
  <1>7. c + a \in 0 .. e - 1
    BY <1>5
  <1>8. n \div e = p
    BY <1>6, <1>7, <1>4
  <1> QED
    BY <1>1, <1>2, <1>4, <1>8 DEF DividedTwice

LEMMA BytesAreNumbers ==
    ASSUME NEW s \in Seq(Byte)
    PROVE  s \in Seq(Nat)
  <1>1. Byte \subseteq Nat
    BY RadixAssumption DEF Byte
  <1>2. PICK n \in Nat : n = Len(s) /\ s \in [1 .. n -> Byte]
    BY LenProperties
  <1>3. s \in [1 .. n -> Nat]
    BY <1>1, <1>2
  <1> QED
    BY <1>3

LEMMA DigitsFacts ==
    ASSUME NEW n \in Nat, NEW width \in Nat
    PROVE  /\ Digits(n, width) \in Seq(Byte)
           /\ Len(Digits(n, width)) = width
           /\ \A i \in 1 .. width : Digits(n, width)[i] = (n \div Power[width - i]) % Radix
  <1>1. ASSUME NEW i \in 1 .. width PROVE (n \div Power[width - i]) % Radix \in Byte
    <2>1. width - i \in Nat
      OBVIOUS
    <2>2. PICK d \in Nat : d = Power[width - i] /\ d > 0
      BY <2>1, PowerFacts
    <2>3. n \div d \in Nat
      BY <2>2, Quotient
    <2> QED
      BY <2>2, <2>3, RadixAssumption DEF Byte
  <1> QED
    BY <1>1 DEF Digits

(* Reading digits, one after the other. *)
Shift == [p \in Nat \X Nat |-> p[1] * Radix + p[2]]

Number(digits) == FoldLeft(LAMBDA n, digit : n * Radix + digit, 0, digits)

LEMMA NumberFolds ==
    ASSUME NEW q \in Seq(Nat)
    PROVE  Folds(Nat, 0, Shift, q, Number(q))
  <1> DEFINE Fold(it) == [s \in SUBSET DOMAIN q |->
                             IF s = {} THEN 0 ELSE it[s \ {Max(s)}] * Radix + q[Max(s)]]
  <1>1. PICK n \in Nat : n = Len(q) /\ DOMAIN q = 1 .. n /\ q \in [1 .. n -> Nat]
    BY LenProperties
  <1>2. ASSUME NEW g, g = Fold(g)
        PROVE  \E it : it = Fold(it) /\ Number(q) = it[DOMAIN q]
    BY <1>2 DEF Number, FoldLeft, MapThenFoldSet
  <1>3. Shift \in [Nat \X Nat -> Nat] /\ 0 \in Nat
    <2>1. ASSUME NEW p \in Nat \X Nat PROVE p[1] * Radix + p[2] \in Nat
      <3>1. PICK x \in Nat, y \in Nat, z \in Nat : x = p[1] /\ y = p[2] /\ z = Radix
        BY RadixAssumption
      <3>2. x * z \in Nat
        OBVIOUS
      <3> QED
        BY <3>1, <3>2
    <2> QED
      BY <2>1 DEF Shift
  <1>4. ASSUME NEW s \in SUBSET DOMAIN q, s # {}, NEW v \in Nat
        PROVE  Shift[<<v, q[Max(s)]>>] = v * Radix + q[Max(s)]
    <2>1. Max(s) \in 1 .. n
      BY <1>1, <1>4, MaxExists
    <2> QED
      BY <1>1, <2>1 DEF Shift
  <1>5. PICK g \in [SUBSET DOMAIN q -> Nat] : Iterates(g, Nat, 0, Shift, q)
    BY <1>3, FoldIteration
  <1>6. g = Fold(g)
    <2>1. ASSUME NEW s \in SUBSET DOMAIN q, s # {}
          PROVE  g[s] = g[s \ {Max(s)}] * Radix + q[Max(s)]
      <3>1. g[s \ {Max(s)}] \in Nat
        OBVIOUS
      <3> QED
        BY <1>4, <1>5, <2>1, <3>1 DEF Iterates
    <2> QED
      BY <1>5, <2>1 DEF Iterates
  <1>7. PICK it : it = Fold(it) /\ Number(q) = it[DOMAIN q]
    BY <1>2, <1>6
  <1>8. Iterates(it, Nat, 0, Shift, q)
    <2>1. it[{}] = 0
      BY <1>7
    <2>2. ASSUME NEW s \in SUBSET DOMAIN q, s # {}, it[s \ {Max(s)}] \in Nat
          PROVE  it[s] = Shift[<<it[s \ {Max(s)}], q[Max(s)]>>]
      BY <1>4, <1>7, <2>2
    <2> QED
      BY <2>1, <2>2 DEF Iterates
  <1> HIDE DEF Fold
  <1>9. Folds(Nat, 0, Shift, q, it[DOMAIN q])
    BY <1>3, <1>8, FoldResult
  <1> QED
    BY <1>7, <1>9

(* A number that fits its digits is read back. *)
LEMMA NumberOfDigits ==
    ASSUME NEW n \in Nat, NEW width \in Nat, n < Power[width]
    PROVE  Number(Digits(n, width)) = n
  <1> DEFINE q == Digits(n, width)
  <1>1. /\ q \in Seq(Nat) /\ Len(q) = width
        /\ \A i \in 1 .. width : q[i] = (n \div Power[width - i]) % Radix
    <2>1. Byte \subseteq Nat
      BY RadixAssumption DEF Byte
    <2>2. q \in Seq(Byte) /\ Len(q) = width
      BY DigitsFacts
    <2>3. q \in Seq(Nat)
      BY <2>1, <2>2, BytesAreNumbers
    <2> QED
      BY <2>2, <2>3, DigitsFacts
  <1> HIDE DEF q
  <1>2. PICK acc \in [0 .. width -> Nat] :
            /\ acc[0] = 0
            /\ \A k \in 1 .. width : acc[k] = Shift[<<acc[k - 1], q[k]>>]
            /\ acc[width] = Number(q)
    <2>1. Folds(Nat, 0, Shift, q, Number(q))
      BY <1>1, NumberFolds
    <2> QED
      BY <1>1, <2>1 DEF Folds
  <1> DEFINE S == {k \in Nat : k <= width => acc[k] = n \div Power[width - k]}
  <1>3. 0 \in S
    <2>1. PICK d \in Nat : d = Power[width] /\ n < d
      BY PowerFacts
    <2>2. n \div d = 0
      BY <2>1
    <2>3. width - 0 = width
      OBVIOUS
    <2> QED
      BY <1>2, <2>1, <2>2, <2>3
  <1>4. ASSUME NEW k \in Nat, k \in S PROVE k + 1 \in S
    <2> SUFFICES ASSUME k + 1 <= width PROVE acc[k + 1] = n \div Power[width - (k + 1)]
      OBVIOUS
    <2>1. PICK j \in Nat : width - (k + 1) = j /\ width - k = j + 1
      <3>1. width - (k + 1) \in Nat /\ width - k = (width - (k + 1)) + 1
        OBVIOUS
      <3> QED
        BY <3>1
    <2>2. PICK d \in Nat : d = Power[j] /\ d > 0
      BY PowerFacts
    <2>3. Power[j + 1] = Radix * d
      BY <2>2, PowerFacts
    <2>4. PICK m \in Nat : m = n \div d
      BY <2>2, Quotient
    <2>5. n \div (Radix * d) = m \div Radix
      <3>1. Radix \in Nat /\ Radix > 0
        BY RadixAssumption
      <3>2. DividedTwice(n, d, Radix)
        BY <2>2, <3>1, DivDiv
      <3> QED
        BY <2>4, <3>2 DEF DividedTwice
    <2>6. acc[k] = m \div Radix
      BY <1>4, <2>1, <2>3, <2>5
    <2>7. k + 1 \in 1 .. width /\ (k + 1) - 1 = k /\ k \in 0 .. width
      OBVIOUS
    <2>8. q[k + 1] = m % Radix
      BY <1>1, <2>1, <2>2, <2>4, <2>7
    <2>9. acc[k + 1] = acc[k] * Radix + q[k + 1]
      <3>1. q[k + 1] \in Nat /\ acc[k] \in Nat
        BY <2>7, <1>1, ElementOfSeq
      <3>2. acc[k + 1] = Shift[<<acc[k], q[k + 1]>>]
        BY <1>2, <2>7
      <3> QED
        BY <3>1, <3>2 DEF Shift
    <2>10. PICK p \in Nat, b \in 0 .. Radix - 1 :
               m = p * Radix + b /\ m \div Radix = p /\ m % Radix = b
      <3>1. m \in Nat /\ Radix \in Nat /\ Radix > 0
        BY <2>2, <2>4, RadixAssumption
      <3>2. Divided(m, Radix)
        BY <3>1, Division
      <3> QED
        BY <3>2 DEF Divided
    <2>11. acc[k + 1] = p * Radix + b
      <3>1. acc[k] = p /\ q[k + 1] = b
        BY <2>6, <2>8, <2>10
      <3> QED
        BY <2>9, <3>1
    <2> QED
      BY <2>1, <2>2, <2>4, <2>10, <2>11
  <1> HIDE DEF S
  <1>5. Nat \subseteq S
    BY <1>3, <1>4, Induction
  <1>6. acc[width] = n \div Power[0]
    <2>1. width \in S /\ width - width = 0 /\ width <= width
      BY <1>5
    <2> QED
      BY <2>1 DEF S
  <1>7. n \div 1 = n
    OBVIOUS
  <1> QED
    BY <1>2, <1>6, <1>7, PowerFacts DEF q

-----------------------------------------------------------------------------
(* A frame: its parts, and what reading it gives back. *)

IsPacket(packet) == packet \in Seq(Byte) /\ Len(packet) + WordBytes < Power[WordBytes]

LEMMA ChecksumFits ==
    ASSUME NEW packet \in Seq(Byte)
    PROVE  Checksum(packet) \in Nat /\ Checksum(packet) < Power[WordBytes]
  <1>1. packet \in Seq(Nat)
    BY BytesAreNumbers
  <1>2. PICK n \in Nat : n = FoldLeft(+, 0, packet)
    BY <1>1, SumAppend
  <1>3. PICK d \in Nat : d = Power[WordBytes] /\ d > 0
    BY PowerFacts, WordAssumption
  <1>4. n % d \in Nat /\ n % d < d
    BY <1>3
  <1> QED
    BY <1>2, <1>3, <1>4 DEF Checksum

IsFrame(s, packet, size, w) ==
    /\ s \in Seq(Byte) /\ Len(s) = w + w + size + w
    /\ SubSeq(s, 1, w) = Digits(FrameMagic, w)
    /\ SubSeq(s, w + 1, w + w) = Digits(size, w)
    /\ SubSeq(s, w + w + 1, w + w + size) = packet
    /\ SubSeq(s, w + w + size + 1, w + w + size + w) = Digits(Checksum(packet), w)

LEMMA EncodeFacts ==
    ASSUME NEW packet, IsPacket(packet), NEW size \in Nat, size = Len(packet),
           NEW w \in Nat, w = WordBytes, NEW s, s = Encode(packet)
    PROVE  IsFrame(s, packet, size, w)
  <1>1. packet \in Seq(Byte)
    BY DEF IsPacket
  <1>2. PICK a : a = Digits(FrameMagic, w) /\ a \in Seq(Byte) /\ Len(a) = w
    BY DigitsFacts, WordAssumption
  <1>3. PICK b : b = Digits(size, w) /\ b \in Seq(Byte) /\ Len(b) = w
    BY DigitsFacts
  <1>4. PICK d : d = Digits(Checksum(packet), w) /\ d \in Seq(Byte) /\ Len(d) = w
    BY <1>1, DigitsFacts, ChecksumFits
  <1>5. s = a \o b \o packet \o d
    BY <1>2, <1>3, <1>4 DEF Encode
  <1>6. FourJoined(Byte, s, a, w, b, w, packet, size, d, w)
    BY <1>1, <1>2, <1>3, <1>4, <1>5, FourParts
  <1> QED
    BY <1>2, <1>3, <1>4, <1>6 DEF FourJoined, IsFrame

LEMMA NumberAtIs ==
    ASSUME NEW s, NEW at \in Nat, NEW w \in Nat, NEW n \in Nat, n < Power[w],
           SubSeq(s, at + 1, at + w) = Digits(n, w)
    PROVE  NumberAt(s, at, w) = n
  <1>1. NumberAt(s, at, w) = Number(SubSeq(s, at + 1, at + w))
    BY DEF NumberAt, Number
  <1> QED
    BY <1>1, NumberOfDigits

(* decode succeeds on what encode made of a payload whose size fits its    *)
(* word, and gives the payload back (frame.cpp:43-57, 59-127).             *)
THEOREM FrameDecodes ==
    ASSUME NEW packet, IsPacket(packet)
    PROVE  Decodes(Encode(packet)) /\ Payload(Encode(packet)) = packet
  <1>1. packet \in Seq(Byte)
    BY DEF IsPacket
  <1>2. PICK size \in Nat : size = Len(packet)
    BY <1>1, LenProperties
  <1>3. PICK w \in Nat : w = WordBytes
    BY WordAssumption
  <1>4. PICK s : s = Encode(packet)
    OBVIOUS
  <1>5. /\ s \in Seq(Byte) /\ Len(s) = w + w + size + w
        /\ SubSeq(s, 1, w) = Digits(FrameMagic, w)
        /\ SubSeq(s, w + 1, w + w) = Digits(size, w)
        /\ SubSeq(s, w + w + 1, w + w + size) = packet
        /\ SubSeq(s, w + w + size + 1, w + w + size + w) = Digits(Checksum(packet), w)
    <2>1. IsFrame(s, packet, size, w)
      BY <1>2, <1>3, <1>4, EncodeFacts
    <2> QED
      BY <2>1 DEF IsFrame
  <1>6. NumberAt(s, 0, w) = FrameMagic
    <2>1. 0 \in Nat /\ 0 + 1 = 1 /\ 0 + w = w
      OBVIOUS
    <2>2. SubSeq(s, 0 + 1, 0 + w) = Digits(FrameMagic, w)
      BY <1>5, <2>1
    <2> QED
      BY <1>3, <2>1, <2>2, NumberAtIs, WordAssumption
  <1>7. size < Power[w]
    <2>1. PICK all \in Nat : all = Power[w]
      BY PowerFacts
    <2>2. size + w < all
      BY <1>2, <1>3, <2>1 DEF IsPacket
    <2>3. size < all
      BY <2>2
    <2> QED
      BY <2>1, <2>3
  <1>8. NumberAt(s, w, w) = size
    BY <1>5, <1>7, NumberAtIs
  <1>9. ChecksumStart(s) = w + w + size
    BY <1>3, <1>8 DEF ChecksumStart, PayloadStart
  <1>10. Payload(s) = packet
    BY <1>3, <1>5, <1>9 DEF Payload, PayloadStart
  <1>11. PICK c \in Nat : c = Checksum(packet) /\ c < Power[w]
    BY <1>1, <1>3, ChecksumFits
  <1>12. NumberAt(s, w + w + size, w) = c
    <2>1. PICK m \in Nat : m = w + w + size
      OBVIOUS
    <2>2. SubSeq(s, m + 1, m + w) = Digits(c, w)
      BY <1>5, <1>11, <2>1
    <2>3. NumberAt(s, m, w) = c
      BY <1>11, <2>2, NumberAtIs
    <2> QED
      BY <2>1, <2>3
  <1>13. HasNumber(s, 0, w) /\ HasNumber(s, w, w) /\ HasNumber(s, w + w + size, w)
    BY <1>5 DEF HasNumber
  <1>14. Decodes(s)
    BY <1>3, <1>6, <1>9, <1>10, <1>11, <1>12, <1>13 DEF Decodes
  <1> QED
    BY <1>4, <1>10, <1>14

Multiple(c, r, p, x) == c = p * r + x

LEMMA SameDivision ==
    ASSUME NEW r \in Nat, NEW p \in Nat, NEW q \in Nat,
           NEW x \in Nat, x < r, NEW y \in Nat, y < r, NEW c \in Nat,
           Multiple(c, r, p, x), Multiple(c, r, q, y)
    PROVE  p = q /\ x = y
  <1>1. r > 0 /\ c = p * r + x /\ c = q * r + y /\ x \in 0 .. r - 1 /\ y \in 0 .. r - 1
    BY DEF Multiple
  <1>2. c \div r = p
    BY <1>1
  <1>3. c \div r = q
    BY <1>1
  <1> QED
    BY <1>1, <1>2, <1>3

LEMMA SmallNumber ==
    ASSUME NEW r \in Nat, NEW x \in 0 .. r - 1 PROVE x \in Nat /\ x < r
  OBVIOUS

(* Different bytes are different numbers. *)
LEMMA SameNumber ==
    ASSUME NEW a \in Seq(Byte), NEW b \in Seq(Byte), NEW n \in Nat, n = Len(a), n = Len(b),
           Number(a) = Number(b)
    PROVE  a = b
  <1>1. a \in Seq(Nat) /\ b \in Seq(Nat)
    BY BytesAreNumbers
  <1>2. PICK va \in [0 .. n -> Nat] :
            (\A k \in 1 .. n : va[k] = Shift[<<va[k - 1], a[k]>>]) /\ va[n] = Number(a)
    <2>1. Folds(Nat, 0, Shift, a, Number(a))
      BY <1>1, NumberFolds
    <2> QED
      BY <2>1 DEF Folds
  <1>3. PICK vb \in [0 .. n -> Nat] :
            (\A k \in 1 .. n : vb[k] = Shift[<<vb[k - 1], b[k]>>]) /\ vb[n] = Number(b)
    <2>1. Folds(Nat, 0, Shift, b, Number(b))
      BY <1>1, NumberFolds
    <2> QED
      BY <2>1 DEF Folds
  <1>4. PICK r \in Nat : r = Radix /\ r > 1
    BY RadixAssumption
  <1>5. ASSUME NEW k \in 1 .. n
        PROVE  /\ va[k] = va[k - 1] * r + a[k] /\ vb[k] = vb[k - 1] * r + b[k]
               /\ a[k] \in 0 .. r - 1 /\ b[k] \in 0 .. r - 1
               /\ va[k - 1] \in Nat /\ vb[k - 1] \in Nat
    <2>1. k - 1 \in 0 .. n
      OBVIOUS
    <2>2. a[k] \in Byte /\ b[k] \in Byte
      BY ElementOfSeq
    <2>3. a[k] \in 0 .. r - 1 /\ b[k] \in 0 .. r - 1
      BY <1>4, <2>2 DEF Byte
    <2>4. va[k - 1] \in Nat /\ vb[k - 1] \in Nat /\ a[k] \in Nat /\ b[k] \in Nat
      <3>1. va[k - 1] \in Nat /\ vb[k - 1] \in Nat
        BY <2>1
      <3> QED
        BY <1>4, <2>3, <3>1
    <2>5. Shift[<<va[k - 1], a[k]>>] = va[k - 1] * r + a[k]
          /\ Shift[<<vb[k - 1], b[k]>>] = vb[k - 1] * r + b[k]
      BY <1>4, <2>4 DEF Shift
    <2> QED
      BY <1>2, <1>3, <2>3, <2>4, <2>5
  <1> DEFINE S == {k \in Nat : k <= n => /\ va[n - k] = vb[n - k]
                                         /\ \A i \in n - k + 1 .. n : a[i] = b[i]}
  <1>6. 0 \in S
    BY <1>2, <1>3
  <1>7. ASSUME NEW k \in Nat, k \in S PROVE k + 1 \in S
    <2> SUFFICES ASSUME k + 1 <= n
                 PROVE  /\ va[n - (k + 1)] = vb[n - (k + 1)]
                        /\ \A i \in n - (k + 1) + 1 .. n : a[i] = b[i]
      OBVIOUS
    <2>1. PICK m \in 1 .. n : m = n - k /\ m - 1 = n - (k + 1) /\ n - (k + 1) + 1 = m
      <3>1. n - k \in 1 .. n /\ (n - k) - 1 = n - (k + 1) /\ n - (k + 1) + 1 = n - k
        OBVIOUS
      <3> QED
        BY <3>1
    <2>2. va[m] = vb[m] /\ \A i \in m + 1 .. n : a[i] = b[i]
      BY <1>7, <2>1
    <2>3. PICK p \in Nat, q \in Nat, x \in 0 .. r - 1, y \in 0 .. r - 1 :
              p = va[m - 1] /\ q = vb[m - 1] /\ x = a[m] /\ y = b[m]
      BY <1>5
    <2>4. p = q /\ x = y
      <3>1. PICK c \in Nat : c = va[m]
        <4>1. m \in 0 .. n
          OBVIOUS
        <4>2. va[m] \in Nat
          BY <4>1
        <4> QED
          BY <4>2
      <3>2. c = p * r + x /\ c = q * r + y
        <4>1. va[m] = va[m - 1] * r + a[m] /\ vb[m] = vb[m - 1] * r + b[m]
          BY <1>5
        <4> QED
          BY <2>2, <2>3, <3>1, <4>1
      <3>3. Multiple(c, r, p, x) /\ Multiple(c, r, q, y)
        BY <3>2 DEF Multiple
      <3>4. x \in Nat /\ x < r /\ y \in Nat /\ y < r
        BY SmallNumber
      <3> QED
        BY <3>3, <3>4, SameDivision
    <2>5. ASSUME NEW i \in m .. n PROVE a[i] = b[i]
      <3>1. i = m \/ i \in m + 1 .. n
        OBVIOUS
      <3> QED
        BY <2>2, <2>3, <2>4, <3>1
    <2> QED
      BY <2>1, <2>3, <2>4, <2>5
  <1> HIDE DEF S
  <1>8. Nat \subseteq S
    BY <1>6, <1>7, Induction
  <1>9. \A i \in 1 .. n : a[i] = b[i]
    <2>1. n \in S /\ n <= n /\ n - n + 1 = 1
      BY <1>8
    <2> QED
      BY <2>1 DEF S
  <1>10. a \in [1 .. n -> Byte] /\ b \in [1 .. n -> Byte]
    BY LenProperties
  <1> QED
    BY <1>9, <1>10

(* Sums that differ by the difference of two small numbers. *)
LEMMA OtherRemainder ==
    ASSUME NEW d \in Nat, NEW a \in Nat, NEW b \in Nat,
           NEW x \in Nat, NEW w \in Nat, x < d, w < d, x # w, Balance(a, w, b, x)
    PROVE  a % d # b % d
  <1> SUFFICES ASSUME a % d = b % d PROVE FALSE
    OBVIOUS
  <1>1. Divided(a, d) /\ Divided(b, d)
    BY Division
  <1>2. PICK p \in Nat, c \in 0 .. d - 1 : a = p * d + c /\ a \div d = p /\ a % d = c
    BY <1>1 DEF Divided
  <1>3. PICK q \in Nat, e \in 0 .. d - 1 : b = q * d + e /\ b \div d = q /\ b % d = e
    BY <1>1 DEF Divided
  <1>4. c = e
    BY <1>2, <1>3
  <1>5. PICK f \in Nat, g \in Nat : f = p * d /\ g = q * d
    OBVIOUS
  <1>6. f + w = g + x
    BY <1>2, <1>3, <1>4, <1>5 DEF Balance
  <1>7. PICK m \in Nat : m = p * d + w /\ m = q * d + x
    BY <1>5, <1>6
  <1>8. Multiple(m, d, p, w) /\ Multiple(m, d, q, x)
    BY <1>7 DEF Multiple
  <1> QED
    BY <1>8, SameDivision

LEMMA WordHoldsByte == Radix <= Power[WordBytes]
  <1>1. PICK k \in Nat : WordBytes = k + 1
    BY WordAssumption
  <1>2. PICK d \in Nat : d = Power[k] /\ d > 0 /\ Power[WordBytes] = Radix * d
    BY <1>1, PowerFacts
  <1>3. Radix \in Nat
    BY RadixAssumption
  <1>4. Radix * d >= Radix
    BY <1>2, <1>3
  <1> QED
    BY <1>2, <1>4

(* A frame that misses its end is refused: encode says how long it is and  *)
(* decode looks for all of it (frame.cpp:68-72, 84-103).                   *)
THEOREM CutRefused ==
    ASSUME NEW packet, IsPacket(packet), NEW n \in Nat, n < Len(Encode(packet))
    PROVE  ~Decodes(SubSeq(Encode(packet), 1, n))
  <1>1. packet \in Seq(Byte)
    BY DEF IsPacket
  <1>2. PICK size \in Nat : size = Len(packet)
    BY <1>1, LenProperties
  <1>3. PICK w \in Nat : w = WordBytes
    BY WordAssumption
  <1>4. PICK s : s = Encode(packet)
    OBVIOUS
  <1>5. /\ s \in Seq(Byte) /\ Len(s) = w + w + size + w
        /\ SubSeq(s, w + 1, w + w) = Digits(size, w)
    <2>1. IsFrame(s, packet, size, w)
      BY <1>2, <1>3, <1>4, EncodeFacts
    <2> QED
      BY <2>1 DEF IsFrame
  <1>6. PICK l \in Nat : l = Len(s) /\ n < l
    BY <1>4, <1>5
  <1>7. PICK t : t = SubSeq(s, 1, n)
    OBVIOUS
  <1>8. t \in Seq(Byte) /\ Len(t) = n /\ \A i \in 1 .. n : t[i] = s[i]
    <2>1. 0 \in Nat /\ 0 <= n /\ n <= l /\ 0 + 1 = 1 /\ n - 0 = n
      BY <1>6
    <2>2. t = SubSeq(s, 0 + 1, n)
      BY <1>7, <2>1
    <2>3. t \in Seq(Byte) /\ Len(t) = n - 0 /\ \A i \in 1 .. n - 0 : t[i] = s[0 + i]
      BY <1>5, <1>6, <2>1, <2>2, PartFacts
    <2> QED
      BY <2>1, <2>3
  <1>9. CASE n < w + w
    <2>1. ~HasNumber(t, w, w)
      BY <1>8, <1>9 DEF HasNumber
    <2> QED
      BY <1>3, <1>4, <1>7, <2>1 DEF Decodes
  <1>10. CASE n >= w + w
    <2>1. PICK z \in Seq(Byte) : z = Digits(size, w) /\ Len(z) = w
      BY DigitsFacts
    <2>2. \A i \in 1 .. w : s[w + i] = z[i]
      <3>1. \A i \in 1 .. (w + w) - w : z[i] = s[w + i]
        BY <1>5, <2>1, PartFacts
      <3> QED
        BY <3>1
    <2>3. \A i \in 1 .. w : t[w + i] = z[i]
      <3>1. ASSUME NEW i \in 1 .. w PROVE w + i \in 1 .. n
        BY <1>10
      <3> QED
        BY <1>8, <2>2, <3>1
    <2>4. SubSeq(t, w + 1, w + w) = z
      BY <1>8, <1>10, <2>1, <2>3, PartIs
    <2>5. size < Power[w]
      <3>1. PICK d \in Nat : d = Power[w]
        BY PowerFacts
      <3>2. size + w < d
        BY <1>2, <1>3, <3>1 DEF IsPacket
      <3> QED
        BY <3>1, <3>2
    <2>6. NumberAt(t, w, w) = size
      BY <2>1, <2>4, <2>5, NumberAtIs
    <2>7. ChecksumStart(t) = w + w + size
      BY <1>3, <2>6 DEF ChecksumStart, PayloadStart
    <2>8. ~HasNumber(t, w + w + size, w)
      BY <1>5, <1>6, <1>8 DEF HasNumber
    <2> QED
      BY <1>3, <1>4, <1>7, <2>7, <2>8 DEF Decodes
  <1> QED
    BY <1>9, <1>10

(* t is s with another byte at i. *)
DiffersAt(s, t, i) == t[i] # s[i] /\ \A j \in 1 .. Len(s) : j # i => t[j] = s[j]

PartOf(u, s, k, m) ==
    u \in Seq(Byte) /\ Len(u) = m - k /\ \A j \in 1 .. m - k : u[j] = s[k + j]

LEMMA PartOfIt ==
    ASSUME NEW s \in Seq(Byte), NEW k \in Nat, NEW m \in Nat, k <= m, m <= Len(s),
           NEW u, u = SubSeq(s, k + 1, m)
    PROVE  PartOf(u, s, k, m)
  <1>1. PICK l \in Nat : l = Len(s) /\ m <= l
    BY LenProperties
  <1> QED
    BY <1>1, PartFacts DEF PartOf

Unchanged(s, t, k, m) == SubSeq(t, k + 1, m) = SubSeq(s, k + 1, m)

Changed(a, b, i, k, m) ==
    /\ a \in Seq(Byte) /\ b \in Seq(Byte) /\ Len(a) = m - k /\ Len(b) = m - k
    /\ i - k \in 1 .. m - k /\ DiffersAt(a, b, i - k)

LEMMA UnchangedPart ==
    ASSUME NEW s \in Seq(Byte), NEW t \in Seq(Byte), NEW l \in Nat, l = Len(s), l = Len(t),
           NEW i \in 1 .. l, DiffersAt(s, t, i),
           NEW k \in Nat, NEW m \in Nat, k <= m, m <= l, i \notin k + 1 .. m
    PROVE  Unchanged(s, t, k, m)
  <1>1. PICK a : /\ a = SubSeq(s, k + 1, m) /\ a \in Seq(Byte) /\ Len(a) = m - k
                 /\ \A j \in 1 .. m - k : a[j] = s[k + j]
    <2>1. PICK z : z = SubSeq(s, k + 1, m)
      OBVIOUS
    <2>2. Len(s) = l /\ Len(s) \in Nat /\ m <= Len(s)
      OBVIOUS
    <2>3. PartOf(z, s, k, m)
      BY <2>1, <2>2, PartOfIt
    <2>4. z \in Seq(Byte) /\ Len(z) = m - k /\ \A j \in 1 .. m - k : z[j] = s[k + j]
      BY <2>3 DEF PartOf
    <2> QED
      BY <2>1, <2>4
  <1>2. PICK b : /\ b = SubSeq(t, k + 1, m) /\ b \in Seq(Byte) /\ Len(b) = m - k
                 /\ \A j \in 1 .. m - k : b[j] = t[k + j]
    <2>1. PICK z : z = SubSeq(t, k + 1, m)
      OBVIOUS
    <2>2. Len(t) = l /\ Len(t) \in Nat /\ m <= Len(t)
      OBVIOUS
    <2>3. PartOf(z, t, k, m)
      BY <2>1, <2>2, PartOfIt
    <2>4. z \in Seq(Byte) /\ Len(z) = m - k /\ \A j \in 1 .. m - k : z[j] = t[k + j]
      BY <2>3 DEF PartOf
    <2> QED
      BY <2>1, <2>4
  <1>3. ASSUME NEW j \in 1 .. m - k PROVE a[j] = b[j]
    <2>1. k + j \in 1 .. l /\ k + j # i
      OBVIOUS
    <2> QED
      BY <1>1, <1>2, <2>1 DEF DiffersAt
  <1>4. PICK n \in Nat : n = m - k
    OBVIOUS
  <1>5. a \in [1 .. n -> Byte] /\ b \in [1 .. n -> Byte]
    BY <1>1, <1>2, <1>4, LenProperties
  <1>6. \A j \in 1 .. n : a[j] = b[j]
    BY <1>3, <1>4
  <1>7. a = b
    BY <1>5, <1>6
  <1> QED
    BY <1>1, <1>2, <1>7 DEF Unchanged

LEMMA ChangedPart ==
    ASSUME NEW s \in Seq(Byte), NEW t \in Seq(Byte), NEW l \in Nat, l = Len(s), l = Len(t),
           NEW i \in 1 .. l, DiffersAt(s, t, i),
           NEW k \in Nat, NEW m \in Nat, k <= m, m <= l, i \in k + 1 .. m,
           NEW a, a = SubSeq(s, k + 1, m), NEW b, b = SubSeq(t, k + 1, m)
    PROVE  Changed(a, b, i, k, m)
  <1>1. a \in Seq(Byte) /\ Len(a) = m - k /\ \A j \in 1 .. m - k : a[j] = s[k + j]
    <2>1. Len(s) = l /\ Len(s) \in Nat /\ m <= Len(s)
      OBVIOUS
    <2>2. PartOf(a, s, k, m)
      BY <2>1, PartOfIt
    <2> QED
      BY <2>2 DEF PartOf
  <1>2. b \in Seq(Byte) /\ Len(b) = m - k /\ \A j \in 1 .. m - k : b[j] = t[k + j]
    <2>1. Len(t) = l /\ Len(t) \in Nat /\ m <= Len(t)
      OBVIOUS
    <2>2. PartOf(b, t, k, m)
      BY <2>1, PartOfIt
    <2> QED
      BY <2>2 DEF PartOf
  <1>3. i - k \in 1 .. m - k /\ k + (i - k) = i
    OBVIOUS
  <1>4. b[i - k] # a[i - k]
    BY <1>1, <1>2, <1>3 DEF DiffersAt
  <1>5. ASSUME NEW j \in 1 .. m - k, j # i - k PROVE a[j] = b[j]
    <2>1. k + j \in 1 .. l /\ k + j # i
      BY <1>5
    <2> QED
      BY <1>1, <1>2, <2>1 DEF DiffersAt
  <1>6. DiffersAt(a, b, i - k)
    BY <1>1, <1>4, <1>5 DEF DiffersAt
  <1> QED
    BY <1>1, <1>2, <1>3, <1>6 DEF Changed

(* Another byte in a payload is another checksum. *)
LEMMA OtherChecksum ==
    ASSUME NEW a \in Seq(Byte), NEW b \in Seq(Byte), NEW n \in Nat, n = Len(a), n = Len(b),
           NEW i \in 1 .. n, DiffersAt(a, b, i)
    PROVE  Checksum(a) # Checksum(b)
  <1>1. a \in Seq(Nat) /\ b \in Seq(Nat)
    BY BytesAreNumbers
  <1>2. PICK u, v : u = FoldLeft(+, 0, a) /\ v = FoldLeft(+, 0, b) /\ u \in Nat /\ v \in Nat
    BY <1>1, SumAppend
  <1>3. PICK d \in Nat : d = Power[WordBytes] /\ Radix <= d
    BY PowerFacts, WordHoldsByte, WordAssumption
  <1>4. PICK w \in Nat, x \in Nat : w = a[i] /\ x = b[i] /\ w < Radix /\ x < Radix /\ x # w
    <2>1. a[i] \in Byte /\ b[i] \in Byte
      BY ElementOfSeq
    <2> QED
      BY <2>1, RadixAssumption DEF Byte, DiffersAt
  <1>5. \A k \in 1 .. n : k # i => b[k] = a[k]
    BY DEF DiffersAt
  <1>6. Balance(v, w, u, x)
    BY <1>1, <1>2, <1>4, <1>5, SumDiffers
  <1>7. w < d /\ x < d
    BY <1>3, <1>4, RadixAssumption
  <1>8. v % d # u % d
    BY <1>2, <1>4, <1>6, <1>7, OtherRemainder
  <1> QED
    BY <1>2, <1>3, <1>8 DEF Checksum

LEMMA OtherNumber ==
    ASSUME NEW a \in Seq(Byte), NEW b \in Seq(Byte), NEW n \in Nat, n = Len(a), n = Len(b),
           NEW i \in 1 .. n, DiffersAt(a, b, i)
    PROVE  Number(a) # Number(b)
  <1>1. a # b
    BY DEF DiffersAt
  <1> QED
    BY <1>1, SameNumber

LEMMA DamagedFrame ==
    ASSUME NEW packet, IsPacket(packet), NEW s, s = Encode(packet),
           NEW l \in Nat, l = Len(s), NEW t \in Seq(Byte), l = Len(t),
           NEW i \in 1 .. l, DiffersAt(s, t, i), i \notin WordBytes + 1 .. 2 * WordBytes
    PROVE  ~Decodes(t)
  <1>1. packet \in Seq(Byte)
    BY DEF IsPacket
  <1>2. PICK size \in Nat : size = Len(packet)
    BY <1>1, LenProperties
  <1>3. PICK w \in Nat : w = WordBytes
    BY WordAssumption
  <1>4. /\ s \in Seq(Byte) /\ l = w + w + size + w
        /\ SubSeq(s, 1, w) = Digits(FrameMagic, w)
        /\ SubSeq(s, w + 1, w + w) = Digits(size, w)
        /\ SubSeq(s, w + w + 1, w + w + size) = packet
        /\ SubSeq(s, w + w + size + 1, w + w + size + w) = Digits(Checksum(packet), w)
    <2>1. IsFrame(s, packet, size, w)
      BY <1>2, <1>3, EncodeFacts
    <2> QED
      BY <2>1 DEF IsFrame
  <1>5. PICK m \in Nat, e \in Nat : m = w + w /\ e = m + size /\ l = e + w
    BY <1>4
  <1>6. i \notin w + 1 .. m
    BY <1>3, <1>5
  <1>7. PICK c \in Nat : c = Checksum(packet) /\ c < Power[w]
    BY <1>1, <1>3, ChecksumFits
  <1>8. CASE i \in 0 + 1 .. w
    <2>1. PICK a : a = SubSeq(s, 0 + 1, w)
      OBVIOUS
    <2>2. PICK b : b = SubSeq(t, 0 + 1, w)
      OBVIOUS
    <2>3. 0 \in Nat /\ 0 <= w /\ w <= l /\ w - 0 = w /\ 0 + 1 = 1 /\ 0 + w = w
      BY <1>5
    <2>4. Changed(a, b, i, 0, w)
      BY <1>4, <1>8, <2>1, <2>2, <2>3, ChangedPart
    <2>5. PICK j \in 1 .. w : j = i - 0
      BY <2>3, <2>4 DEF Changed
    <2>6. Number(a) # Number(b)
      BY <2>3, <2>4, <2>5, OtherNumber DEF Changed
    <2>7. Number(a) = FrameMagic
      <3>1. a = Digits(FrameMagic, w)
        BY <1>4, <2>1, <2>3
      <3>2. FrameMagic \in Nat /\ FrameMagic < Power[w]
        BY <1>3, WordAssumption
      <3> QED
        BY <3>1, <3>2, NumberOfDigits
    <2>8. NumberAt(t, 0, w) = Number(b)
      BY <2>2, <2>3 DEF NumberAt, Number
    <2> QED
      BY <1>3, <2>6, <2>7, <2>8 DEF Decodes
  <1>9. CASE i \in m + 1 .. l
    <2>1. SubSeq(t, w + 1, m) = Digits(size, w)
      <3>1. w <= m /\ m <= l
        BY <1>5
      <3>2. Unchanged(s, t, w, m)
        BY <1>4, <1>6, <3>1, UnchangedPart
      <3> QED
        BY <1>4, <1>5, <3>2 DEF Unchanged
    <2>2. size < Power[w]
      <3>1. PICK d \in Nat : d = Power[w]
        BY PowerFacts
      <3>2. size + w < d
        BY <1>2, <1>3, <3>1 DEF IsPacket
      <3> QED
        BY <3>1, <3>2
    <2>3. NumberAt(t, w, w) = size
      BY <1>5, <2>1, <2>2, NumberAtIs
    <2>4. ChecksumStart(t) = e /\ Payload(t) = SubSeq(t, m + 1, e)
      BY <1>3, <1>5, <2>3 DEF ChecksumStart, PayloadStart, Payload
    <2>5. CASE i \in m + 1 .. e
      <3>1. SubSeq(t, e + 1, l) = Digits(c, w)
        <4>1. SubSeq(t, e + 1, l) = SubSeq(s, e + 1, l)
          <5>1. e <= l /\ l <= l /\ i \notin e + 1 .. l
            BY <1>5, <2>5
          <5>2. Unchanged(s, t, e, l)
            BY <1>4, <5>1, UnchangedPart
          <5> QED
            BY <5>2 DEF Unchanged
        <4> QED
          BY <1>4, <1>5, <1>7, <4>1
      <3>2. NumberAt(t, e, w) = c
        BY <1>5, <1>7, <3>1, NumberAtIs
      <3>3. PICK b : b = SubSeq(t, m + 1, e)
        OBVIOUS
      <3>4. packet = SubSeq(s, m + 1, e) /\ e - m = size
        BY <1>4, <1>5
      <3>5. Changed(packet, b, i, m, e)
        <4>1. m <= e /\ e <= l
          BY <1>5
        <4> QED
          BY <1>4, <2>5, <3>3, <3>4, <4>1, ChangedPart
      <3>6. PICK j \in 1 .. size : j = i - m
        BY <3>4, <3>5 DEF Changed
      <3>7. Checksum(b) # c
        BY <1>7, <3>4, <3>5, <3>6, OtherChecksum DEF Changed
      <3> QED
        BY <1>3, <2>4, <3>2, <3>3, <3>7 DEF Decodes
    <2>6. CASE i \in e + 1 .. l
      <3>1. Payload(t) = packet
        <4>1. SubSeq(t, m + 1, e) = SubSeq(s, m + 1, e)
          <5>1. m <= e /\ e <= l /\ i \notin m + 1 .. e
            BY <1>5, <2>6
          <5>2. Unchanged(s, t, m, e)
            BY <1>4, <5>1, UnchangedPart
          <5> QED
            BY <5>2 DEF Unchanged
        <4> QED
          BY <1>4, <1>5, <2>4, <4>1
      <3>2. PICK a : a = SubSeq(s, e + 1, l)
        OBVIOUS
      <3>3. PICK b : b = SubSeq(t, e + 1, l)
        OBVIOUS
      <3>4. Changed(a, b, i, e, l)
        <4>1. e <= l /\ l <= l
          BY <1>5
        <4> QED
          BY <1>4, <2>6, <3>2, <3>3, <4>1, ChangedPart
      <3>5. PICK j \in 1 .. w : j = i - e /\ l - e = w
        BY <1>5, <3>4 DEF Changed
      <3>6. Number(a) # Number(b)
        BY <3>4, <3>5, OtherNumber DEF Changed
      <3>7. Number(a) = c
        BY <1>4, <1>5, <1>7, <3>2, NumberOfDigits
      <3>8. NumberAt(t, e, w) = Number(b)
        BY <1>5, <3>3 DEF NumberAt, Number
      <3> QED
        BY <1>3, <1>7, <2>4, <3>1, <3>6, <3>7, <3>8 DEF Decodes
    <2> QED
      BY <1>5, <1>9, <2>5, <2>6
  <1> QED
    BY <1>5, <1>6, <1>8, <1>9

(* A frame one byte of which is another is refused, wherever the byte is,  *)
(* but in the size, which no checksum covers (frame.cpp:33-41, 75-123).    *)
THEOREM ChangeRefused ==
    ASSUME NEW packet, IsPacket(packet), NEW i \in 1 .. Len(Encode(packet)),
           NEW byte \in Byte, byte # Encode(packet)[i],
           i \notin WordBytes + 1 .. 2 * WordBytes
    PROVE  ~Decodes([Encode(packet) EXCEPT ![i] = byte])
  <1>1. PICK s \in Seq(Byte) : s = Encode(packet)
    <2>1. packet \in Seq(Byte)
      BY DEF IsPacket
    <2>2. PICK size \in Nat : size = Len(packet)
      BY <2>1, LenProperties
    <2>3. PICK w \in Nat : w = WordBytes
      BY WordAssumption
    <2>4. PICK z : z = Encode(packet)
      OBVIOUS
    <2>5. IsFrame(z, packet, size, w)
      BY <2>2, <2>3, <2>4, EncodeFacts
    <2> QED
      BY <2>4, <2>5 DEF IsFrame
  <1>2. PICK l \in Nat : l = Len(s) /\ s \in [1 .. l -> Byte]
    BY LenProperties
  <1>3. PICK t : t = [s EXCEPT ![i] = byte]
    OBVIOUS
  <1>4. i \in 1 .. l
    BY <1>1, <1>2
  <1>5. t \in [1 .. l -> Byte] /\ t[i] = byte /\ \A j \in 1 .. l : j # i => t[j] = s[j]
    BY <1>2, <1>3, <1>4
  <1>6. t \in Seq(Byte)
    BY <1>5
  <1>7. Len(t) = l
    BY <1>5, <1>6, LenProperties
  <1>8. DiffersAt(s, t, i)
    BY <1>1, <1>2, <1>5 DEF DiffersAt
  <1>9. ~Decodes(t)
    BY <1>1, <1>2, <1>4, <1>6, <1>7, <1>8, DamagedFrame
  <1> QED
    BY <1>1, <1>3, <1>9

-----------------------------------------------------------------------------
(* A message as a packet: protocol.cpp, for any widths of its numbers. *)

LEMMA SamePower == Packet!Power = Power
  BY DEF Power, Packet!Power

LEMMA SameDigits ==
    ASSUME NEW n, NEW w PROVE Packet!Digits(n, w) = Digits(n, w)
  BY SamePower DEF Digits, Packet!Digits

LEMMA SameAt ==
    ASSUME NEW s, NEW at, NEW w PROVE Packet!NumberAt(s, at, w) = NumberAt(s, at, w)
  BY DEF NumberAt, Packet!NumberAt, FoldLeft, Packet!FoldLeft, MapThenFoldSet,
         Packet!MapThenFoldSet, Max, Packet!Max

(* a is in s after the first `at` bytes; s is the beginning of t. *)
Holds(s, at, a) == /\ at + Len(a) <= Len(s)
                   /\ \A i \in 1 .. Len(a) : s[at + i] = a[i]

StartOf(s, t) == Len(s) <= Len(t) /\ \A i \in 1 .. Len(s) : t[i] = s[i]

(* t is s, which has i bytes, and then a, which has j. *)
Joins(s, i, a, j, t) ==
    /\ s \in Seq(Byte) /\ Len(s) = i /\ a \in Seq(Byte) /\ Len(a) = j
    /\ t \in Seq(Byte) /\ Len(t) = i + j
    /\ StartOf(s, t) /\ Holds(t, i, a)

LEMMA JoinFacts ==
    ASSUME NEW s \in Seq(Byte), NEW a \in Seq(Byte), NEW i \in Nat, i = Len(s),
           NEW j \in Nat, j = Len(a), NEW t, t = s \o a
    PROVE  Joins(s, i, a, j, t)
  <1>1. Joined(Byte, t, s, i, a, j)
    BY TwoParts
  <1>2. /\ t \in Seq(Byte) /\ Len(t) = i + j
        /\ \A n \in 1 .. i + j : t[n] = IF n <= i THEN s[n] ELSE a[n - i]
    BY <1>1 DEF Joined
  <1>3. StartOf(s, t)
    BY <1>2 DEF StartOf
  <1>4. ASSUME NEW n \in 1 .. j PROVE t[i + n] = a[n]
    <2>1. i + n \in 1 .. i + j /\ ~ (i + n <= i) /\ (i + n) - i = n
      OBVIOUS
    <2> QED
      BY <1>2, <2>1
  <1>5. Holds(t, i, a)
    BY <1>2, <1>4 DEF Holds
  <1> QED
    BY <1>2, <1>3, <1>5 DEF Joins

(* u is t and then b, which has l bytes; k is where b starts. *)
Appends(t, b, l, u) == b \in Seq(Byte) /\ Len(b) = l /\ u = t \o b

Follows(i, j, k) == k = i + j

LEMMA JoinNext ==
    ASSUME NEW s, NEW i \in Nat, NEW a, NEW j \in Nat, NEW t, Joins(s, i, a, j, t),
           NEW k \in Nat, Follows(i, j, k), NEW b, NEW l \in Nat, NEW u, Appends(t, b, l, u)
    PROVE  Joins(t, k, b, l, u)
  <1>1. t \in Seq(Byte) /\ k = Len(t) /\ b \in Seq(Byte) /\ l = Len(b) /\ u = t \o b
    BY DEF Joins, Follows, Appends
  <1> QED
    BY <1>1, JoinFacts

LEMMA HoldsLonger ==
    ASSUME NEW s \in Seq(Byte), NEW t \in Seq(Byte), NEW a \in Seq(Byte), NEW at \in Nat,
           StartOf(s, t), Holds(s, at, a)
    PROVE  Holds(t, at, a)
  <1>1. PICK i \in Nat, j \in Nat, k \in Nat : i = Len(s) /\ j = Len(t) /\ k = Len(a)
    BY LenProperties
  <1>2. at + k <= i /\ i <= j
    BY <1>1 DEF StartOf, Holds
  <1>3. ASSUME NEW n \in 1 .. k PROVE t[at + n] = a[n]
    <2>1. at + n \in 1 .. i
      BY <1>2
    <2> QED
      BY <1>1, <2>1 DEF StartOf, Holds
  <1> QED
    BY <1>1, <1>2, <1>3 DEF Holds

(* What is joined stays where it is in what goes on after it. *)
JoinStays(s, i, a, u) == StartOf(s, u) /\ Holds(u, i, a)

LEMMA JoinsStart ==
    ASSUME NEW s, NEW i \in Nat, NEW a, NEW j \in Nat, NEW t, Joins(s, i, a, j, t),
           NEW u \in Seq(Byte), StartOf(t, u)
    PROVE  JoinStays(s, i, a, u)
  <1>1. s \in Seq(Byte) /\ a \in Seq(Byte) /\ t \in Seq(Byte) /\ StartOf(s, t) /\ Holds(t, i, a)
    BY DEF Joins
  <1>2. Holds(u, i, a)
    BY <1>1, HoldsLonger
  <1>3. PICK l \in Nat, m \in Nat, n \in Nat : l = Len(s) /\ m = Len(t) /\ n = Len(u)
    BY <1>1, LenProperties
  <1>4. StartOf(s, u)
    BY <1>1, <1>3 DEF StartOf
  <1> QED
    BY <1>2, <1>4 DEF JoinStays

LEMMA HoldsPart ==
    ASSUME NEW s \in Seq(Byte), NEW a \in Seq(Byte), NEW at \in Nat, NEW n \in Nat, n = Len(a),
           Holds(s, at, a)
    PROVE  HasPart(s, at, n, a)
  <1>1. at + n <= Len(s) /\ \A i \in 1 .. n : s[at + i] = a[i]
    BY DEF Holds
  <1> QED
    BY <1>1, PartFound

(* A number in a packet, and a text after its length. *)
NumberIn(s, at, w, n) ==
    Packet!HasNumber(s, at, w) /\ Packet!NumberAt(s, at, w) = n

LEMMA NumberFound ==
    ASSUME NEW s \in Seq(Byte), NEW at \in Nat, NEW w \in Nat, NEW n \in Nat, n < Power[w],
           Holds(s, at, Digits(n, w))
    PROVE  NumberIn(s, at, w, n)
  <1>1. PICK d \in Seq(Byte) : d = Digits(n, w) /\ Len(d) = w
    BY DigitsFacts
  <1>2. HasPart(s, at, w, d)
    BY <1>1, HoldsPart
  <1>3. NumberAt(s, at, w) = n
    BY <1>1, <1>2, NumberAtIs DEF HasPart
  <1>4. at + w <= Len(s)
    BY <1>1 DEF Holds
  <1> QED
    BY <1>3, <1>4, SameAt DEF NumberIn, Packet!HasNumber

StringIn(s, at, text) ==
    /\ Packet!HasString(s, at)
    /\ Packet!EndOfString(s, at) = at + WordBytes + Len(text)
    /\ Packet!StringAt(s, at) = text

LEMMA StringFound ==
    ASSUME NEW s \in Seq(Byte), NEW at \in Nat, NEW text \in Text,
           Holds(s, at, Packet!String(text))
    PROVE  StringIn(s, at, text)
  <1>1. PICK w \in Nat : w = WordBytes
    BY WordAssumption
  <1>2. PICK l \in Nat : l = Len(text) /\ text \in Seq(Byte) /\ l < Power[w]
    BY <1>1, LenProperties DEF Text
  <1>3. PICK d \in Seq(Byte) : d = Digits(l, w) /\ Len(d) = w
    BY DigitsFacts
  <1>4. PICK a : a = Packet!String(text) /\ a = d \o text
    BY <1>1, <1>2, <1>3, SameDigits DEF Packet!String
  <1>5. Joins(d, w, text, l, a)
    BY <1>2, <1>3, <1>4, JoinFacts
  <1>6. a \in Seq(Byte) /\ Len(a) = w + l
    BY <1>2, <1>3, <1>5 DEF Joins
  <1>7. at + (w + l) <= Len(s) /\ \A i \in 1 .. w + l : s[at + i] = a[i]
    BY <1>4, <1>6 DEF Holds
  <1>8. (\A i \in 1 .. w : a[i] = d[i]) /\ (\A i \in 1 .. l : a[w + i] = text[i])
    BY <1>2, <1>3, <1>5 DEF Joins, StartOf, Holds
  <1>9. PICK m \in Nat : m = Len(s)
    BY LenProperties
  <1>10. Holds(s, at, d)
    <2>1. \A i \in 1 .. w : i \in 1 .. w + l
      OBVIOUS
    <2>2. \A i \in 1 .. w : s[at + i] = d[i]
      BY <1>7, <1>8, <2>1
    <2>3. at + w <= m
      BY <1>7, <1>9
    <2> QED
      BY <1>3, <1>9, <2>2, <2>3 DEF Holds
  <1>11. Holds(s, at + w, text)
    <2>1. ASSUME NEW i \in 1 .. l PROVE s[(at + w) + i] = text[i]
      <3>1. w + i \in 1 .. w + l /\ at + (w + i) = (at + w) + i
        OBVIOUS
      <3> QED
        BY <1>7, <1>8, <3>1
    <2>2. (at + w) + l <= m
      BY <1>7, <1>9
    <2> QED
      BY <1>2, <1>9, <2>1, <2>2 DEF Holds
  <1>12. NumberIn(s, at, w, l)
    BY <1>2, <1>3, <1>10, NumberFound
  <1>13. SubSeq(s, (at + w) + 1, (at + w) + l) = text
    <2>1. PICK p \in Nat : p = at + w
      OBVIOUS
    <2>2. Holds(s, p, text)
      BY <1>11, <2>1
    <2>3. HasPart(s, p, l, text)
      BY <1>2, <2>2, HoldsPart
    <2> QED
      BY <2>1, <2>3 DEF HasPart
  <1>14. Packet!EndOfString(s, at) = at + w + l
    BY <1>1, <1>12 DEF Packet!EndOfString, NumberIn
  <1>15. Packet!StringAt(s, at) = text
    BY <1>1, <1>13, <1>14 DEF Packet!StringAt
  <1>16. Packet!HasString(s, at)
    BY <1>1, <1>7, <1>12 DEF Packet!HasString, Packet!HasNumber, NumberIn
  <1> QED
    BY <1>1, <1>2, <1>14, <1>15, <1>16 DEF StringIn

StringSize(text, a) == a \in Seq(Byte) /\ Len(a) = WordBytes + Len(text)

LEMMA StringFacts ==
    ASSUME NEW text \in Text
    PROVE  StringSize(text, Packet!String(text))
  <1>1. PICK w \in Nat : w = WordBytes
    BY WordAssumption
  <1>2. PICK l \in Nat : l = Len(text) /\ text \in Seq(Byte)
    BY LenProperties DEF Text
  <1>3. PICK d \in Seq(Byte) : d = Digits(l, w) /\ Len(d) = w
    BY DigitsFacts
  <1>4. PICK a : a = Packet!String(text) /\ a = d \o text
    BY <1>1, <1>2, <1>3, SameDigits DEF Packet!String
  <1>5. Joins(d, w, text, l, a)
    BY <1>2, <1>3, <1>4, JoinFacts
  <1> QED
    BY <1>1, <1>2, <1>3, <1>4, <1>5 DEF Joins, StringSize

(* What encode writes, each part after the others. *)
Written(s, message, at, end) ==
    /\ s \in Seq(Byte)
    /\ Holds(s, 0, Digits(PacketMagic, WordBytes))
    /\ Holds(s, WordBytes, Digits(Version, ShortBytes))
    /\ Holds(s, WordBytes + ShortBytes, Digits(message.type, 1))
    /\ Holds(s, WordBytes + ShortBytes + 1, Digits(message.id, LongBytes))
    /\ Holds(s, at[1], Packet!String(message.source))
    /\ Holds(s, at[2], Packet!String(message.target))
    /\ Holds(s, at[3], Packet!String(message.name))
    /\ Holds(s, at[4], Packet!String(message.payload))
    /\ at \in [1 .. 4 -> Nat]
    /\ at[1] = WordBytes + ShortBytes + 1 + LongBytes
    /\ at[2] = at[1] + WordBytes + Len(message.source)
    /\ at[3] = at[2] + WordBytes + Len(message.target)
    /\ at[4] = at[3] + WordBytes + Len(message.name)
    /\ end = at[4] + WordBytes + Len(message.payload)
    /\ end = Len(s)

LEMMA EncodeWrites ==
    ASSUME NEW message \in Message
    PROVE  \E at, end : Written(Packet!Encode(message), message, at, end)
  <1>1. PICK w \in Nat, sh \in Nat, lo \in Nat : w = WordBytes /\ sh = ShortBytes /\ lo = LongBytes
    BY WordAssumption, ProtocolFits
  <1>2. PICK a1 \in Seq(Byte) : a1 = Digits(PacketMagic, w) /\ Len(a1) = w
    BY DigitsFacts, ProtocolFits
  <1>3. PICK a2 \in Seq(Byte) : a2 = Digits(Version, sh) /\ Len(a2) = sh
    BY DigitsFacts, ProtocolFits
  <1>4. message.type \in Nat /\ message.id \in Nat
    BY RadixAssumption DEF Message, Byte
  <1>5. PICK a3 \in Seq(Byte) : a3 = Digits(message.type, 1) /\ Len(a3) = 1
    BY <1>4, DigitsFacts
  <1>6. PICK a4 \in Seq(Byte) : a4 = Digits(message.id, lo) /\ Len(a4) = lo
    BY <1>4, DigitsFacts
  <1>7. PICK l5 \in Nat, l6 \in Nat, l7 \in Nat, l8 \in Nat :
            l5 = Len(message.source) /\ l6 = Len(message.target)
            /\ l7 = Len(message.name) /\ l8 = Len(message.payload)
    BY LenProperties DEF Message, Text
  <1>8. PICK a5 \in Seq(Byte) : a5 = Packet!String(message.source) /\ Len(a5) = w + l5
    BY <1>1, <1>7, StringFacts DEF Message, StringSize
  <1>9. PICK a6 \in Seq(Byte) : a6 = Packet!String(message.target) /\ Len(a6) = w + l6
    BY <1>1, <1>7, StringFacts DEF Message, StringSize
  <1>10. PICK a7 \in Seq(Byte) : a7 = Packet!String(message.name) /\ Len(a7) = w + l7
    BY <1>1, <1>7, StringFacts DEF Message, StringSize
  <1>11. PICK a8 \in Seq(Byte) : a8 = Packet!String(message.payload) /\ Len(a8) = w + l8
    BY <1>1, <1>7, StringFacts DEF Message, StringSize
  <1>12. PICK s2, s3, s4, s5, s6, s7, s8 :
             /\ s2 = a1 \o a2 /\ s3 = s2 \o a3 /\ s4 = s3 \o a4 /\ s5 = s4 \o a5
             /\ s6 = s5 \o a6 /\ s7 = s6 \o a7 /\ s8 = s7 \o a8
    OBVIOUS
  <1>13. s8 = Packet!Encode(message)
    BY <1>1, <1>2, <1>3, <1>5, <1>6, <1>8, <1>9, <1>10, <1>11, <1>12, SameDigits
       DEF Packet!Encode
  <1>14. PICK p3 \in Nat, p4 \in Nat, p5 \in Nat : p3 = w + sh /\ p4 = p3 + 1 /\ p5 = p4 + lo
    OBVIOUS
  <1>15. PICK b5 \in Nat, b6 \in Nat, b7 \in Nat, b8 \in Nat :
             b5 = w + l5 /\ b6 = w + l6 /\ b7 = w + l7 /\ b8 = w + l8
    OBVIOUS
  <1>16. PICK p6 \in Nat, p7 \in Nat, p8 \in Nat, end \in Nat :
             p6 = p5 + b5 /\ p7 = p6 + b6 /\ p8 = p7 + b7 /\ end = p8 + b8
    OBVIOUS
  <1>17. Joins(a1, w, a2, sh, s2)
    BY <1>2, <1>3, <1>12, JoinFacts
  <1>18. Joins(s2, p3, a3, 1, s3)
    <2>1. Appends(s2, a3, 1, s3)
      BY <1>5, <1>12 DEF Appends
    <2>2. Follows(w, sh, p3)
      BY <1>14 DEF Follows
    <2> QED
      BY <1>14, <1>15, <1>16, <1>17, <2>1, <2>2, JoinNext
  <1>19. Joins(s3, p4, a4, lo, s4)
    <2>1. Appends(s3, a4, lo, s4)
      BY <1>6, <1>12 DEF Appends
    <2>2. Follows(p3, 1, p4)
      BY <1>14 DEF Follows
    <2> QED
      BY <1>14, <1>15, <1>16, <1>18, <2>1, <2>2, JoinNext
  <1>20. Joins(s4, p5, a5, b5, s5)
    <2>1. Appends(s4, a5, b5, s5)
      BY <1>8, <1>15, <1>12 DEF Appends
    <2>2. Follows(p4, lo, p5)
      BY <1>14 DEF Follows
    <2> QED
      BY <1>14, <1>15, <1>16, <1>19, <2>1, <2>2, JoinNext
  <1>21. Joins(s5, p6, a6, b6, s6)
    <2>1. Appends(s5, a6, b6, s6)
      BY <1>9, <1>15, <1>12 DEF Appends
    <2>2. Follows(p5, b5, p6)
      BY <1>16 DEF Follows
    <2> QED
      BY <1>14, <1>15, <1>16, <1>20, <2>1, <2>2, JoinNext
  <1>22. Joins(s6, p7, a7, b7, s7)
    <2>1. Appends(s6, a7, b7, s7)
      BY <1>10, <1>15, <1>12 DEF Appends
    <2>2. Follows(p6, b6, p7)
      BY <1>16 DEF Follows
    <2> QED
      BY <1>14, <1>15, <1>16, <1>21, <2>1, <2>2, JoinNext
  <1>23. Joins(s7, p8, a8, b8, s8)
    <2>1. Appends(s7, a8, b8, s8)
      BY <1>11, <1>15, <1>12 DEF Appends
    <2>2. Follows(p7, b7, p8)
      BY <1>16 DEF Follows
    <2> QED
      BY <1>14, <1>15, <1>16, <1>22, <2>1, <2>2, JoinNext
  <1>24. s8 \in Seq(Byte) /\ Len(s8) = end /\ StartOf(s7, s8) /\ Holds(s8, p8, a8)
    BY <1>16, <1>23 DEF Joins
  <1>25. JoinStays(s6, p7, a7, s8)
    BY <1>22, <1>24, JoinsStart
  <1>26. JoinStays(s5, p6, a6, s8)
    BY <1>21, <1>24, <1>25, JoinsStart DEF JoinStays
  <1>27. JoinStays(s4, p5, a5, s8)
    BY <1>20, <1>24, <1>26, JoinsStart DEF JoinStays
  <1>28. JoinStays(s3, p4, a4, s8)
    BY <1>19, <1>24, <1>27, JoinsStart DEF JoinStays
  <1>29. JoinStays(s2, p3, a3, s8)
    BY <1>18, <1>24, <1>28, JoinsStart DEF JoinStays
  <1>30. JoinStays(a1, w, a2, s8)
    BY <1>17, <1>24, <1>29, JoinsStart DEF JoinStays
  <1>31. Holds(s8, 0, a1)
    <2>1. PICK m \in Nat : m = Len(s8)
      BY <1>24
    <2>2. w <= m /\ \A i \in 1 .. w : s8[i] = a1[i]
      BY <1>2, <1>30, <2>1 DEF JoinStays, StartOf
    <2>3. ASSUME NEW i \in 1 .. w PROVE s8[0 + i] = a1[i]
      <3>1. 0 + i = i
        OBVIOUS
      <3> QED
        BY <2>2, <3>1
    <2>4. 0 + w <= m
      BY <2>2
    <2> QED
      BY <1>2, <2>1, <2>3, <2>4 DEF Holds
  <1>41. PICK at : /\ at \in [1 .. 4 -> Nat]
                   /\ at[1] = p5 /\ at[2] = p6 /\ at[3] = p7 /\ at[4] = p8
    <2> DEFINE f == [i \in 1 .. 4 |-> IF i = 1 THEN p5 ELSE IF i = 2 THEN p6
                                      ELSE IF i = 3 THEN p7 ELSE p8]
    <2>1. f \in [1 .. 4 -> Nat] /\ f[1] = p5 /\ f[2] = p6 /\ f[3] = p7 /\ f[4] = p8
      OBVIOUS
    <2> HIDE DEF f
    <2> QED
      BY <2>1
  <1>42. Written(s8, message, at, end)
    <2>1. /\ Holds(s8, 0, a1) /\ Holds(s8, w, a2) /\ Holds(s8, p3, a3) /\ Holds(s8, p4, a4)
          /\ Holds(s8, p5, a5) /\ Holds(s8, p6, a6) /\ Holds(s8, p7, a7) /\ Holds(s8, p8, a8)
      BY <1>24, <1>25, <1>26, <1>27, <1>28, <1>29, <1>30, <1>31 DEF JoinStays
    <2>2. /\ p3 = w + sh /\ p4 = w + sh + 1 /\ p5 = w + sh + 1 + lo /\ p6 = p5 + w + l5
          /\ p7 = p6 + w + l6 /\ p8 = p7 + w + l7 /\ end = p8 + w + l8
      BY <1>14, <1>15, <1>16
    <2> QED
      BY <1>1, <1>2, <1>3, <1>5, <1>6, <1>7, <1>8, <1>9, <1>10, <1>11, <1>24, <1>41, <2>1, <2>2
         DEF Written
  <1> QED
    BY <1>13, <1>42

LEMMA PowerOfOne == Power[1] = Radix
  <1>1. Power[0 + 1] = Radix * Power[0] /\ Power[0] = 1
    BY PowerFacts
  <1> QED
    BY <1>1, RadixAssumption

LEMMA WrittenDecodes ==
    ASSUME NEW message \in Message, NEW s, NEW at, NEW end,
           Written(s, message, at, end)
    PROVE  Packet!Decodes(s) /\ Packet!Decoded(s) = message
  <1>1. PICK w \in Nat, sh \in Nat, lo \in Nat : w = WordBytes /\ sh = ShortBytes /\ lo = LongBytes
    BY WordAssumption, ProtocolFits
  <1>2. PICK p1 \in Nat, p2 \in Nat, p3 \in Nat, p4 \in Nat :
            at[1] = p1 /\ at[2] = p2 /\ at[3] = p3 /\ at[4] = p4
    BY DEF Written
  <1>3. PICK q \in Nat, r \in Nat : q = w + sh /\ r = q + 1 /\ p1 = r + lo
    <2>1. p1 = w + sh + 1 + lo
      BY <1>1, <1>2 DEF Written
    <2> QED
      BY <2>1
  <1>4. /\ s \in Seq(Byte)
        /\ Holds(s, 0, Digits(PacketMagic, w)) /\ Holds(s, w, Digits(Version, sh))
        /\ Holds(s, q, Digits(message.type, 1)) /\ Holds(s, r, Digits(message.id, lo))
        /\ Holds(s, p1, Packet!String(message.source))
        /\ Holds(s, p2, Packet!String(message.target))
        /\ Holds(s, p3, Packet!String(message.name))
        /\ Holds(s, p4, Packet!String(message.payload))
    BY <1>1, <1>2, <1>3 DEF Written
  <1>5. /\ message.type \in Nat /\ message.id \in Nat
        /\ message.type < Power[1] /\ message.id < Power[lo]
    BY <1>1, RadixAssumption, PowerFacts, PowerOfOne DEF Message, Byte
  <1>6. /\ message.source \in Text /\ message.target \in Text
        /\ message.name \in Text /\ message.payload \in Text
    BY DEF Message
  <1>7. NumberIn(s, 0, w, PacketMagic)
    BY <1>1, <1>4, NumberFound, ProtocolFits
  <1>8. NumberIn(s, w, sh, Version)
    BY <1>1, <1>4, NumberFound, ProtocolFits
  <1>9. NumberIn(s, q, 1, message.type)
    BY <1>4, <1>5, NumberFound
  <1>10. NumberIn(s, r, lo, message.id)
    BY <1>4, <1>5, NumberFound
  <1>11. StringIn(s, p1, message.source)
    BY <1>4, <1>6, StringFound
  <1>12. StringIn(s, p2, message.target)
    BY <1>4, <1>6, StringFound
  <1>13. StringIn(s, p3, message.name)
    BY <1>4, <1>6, StringFound
  <1>14. StringIn(s, p4, message.payload)
    BY <1>4, <1>6, StringFound
  <1>15. /\ Packet!VersionStart = w /\ Packet!TypeStart = q
         /\ Packet!IdStart = r /\ Packet!SourceStart = p1
    BY <1>1, <1>3 DEF Packet!VersionStart, Packet!TypeStart, Packet!IdStart, Packet!SourceStart
  <1>16. /\ p2 = p1 + WordBytes + Len(message.source)
         /\ p3 = p2 + WordBytes + Len(message.target)
         /\ p4 = p3 + WordBytes + Len(message.name)
    BY <1>2 DEF Written
  <1>17. Packet!TargetStart(s) = p2
    BY <1>11, <1>15, <1>16 DEF StringIn, Packet!TargetStart
  <1>18. Packet!NameStart(s) = p3
    BY <1>12, <1>16, <1>17 DEF StringIn, Packet!NameStart
  <1>19. Packet!PayloadStart(s) = p4
    BY <1>13, <1>16, <1>18 DEF StringIn, Packet!PayloadStart
  <1>20. Packet!Decodes(s)
    BY <1>1, <1>7, <1>8, <1>9, <1>10, <1>11, <1>12, <1>13, <1>14, <1>15, <1>17, <1>18, <1>19
       DEF NumberIn, StringIn, Packet!Decodes
  <1>21. Packet!Decoded(s) = [type |-> message.type, id |-> message.id,
             source |-> message.source, target |-> message.target,
             name |-> message.name, payload |-> message.payload]
    BY <1>1, <1>9, <1>10, <1>11, <1>12, <1>13, <1>14, <1>15, <1>17, <1>18, <1>19
       DEF NumberIn, StringIn, Packet!Decoded
  <1> QED
    BY <1>20, <1>21 DEF Message

(* protocol.cpp: decode of what encode wrote for a message whose texts have *)
(* lengths a word can hold gives that message back, whatever the widths.    *)
THEOREM PacketDecodes ==
    ASSUME NEW message \in Message
    PROVE  /\ Packet!Decodes(Packet!Encode(message))
           /\ Packet!Decoded(Packet!Encode(message)) = message
  <1>1. PICK at, end : Written(Packet!Encode(message), message, at, end)
    BY EncodeWrites
  <1> QED
    BY <1>1, WrittenDecodes

(* What t, the beginning of s, has of a number or of a text is the whole. *)
LEMMA NumberStays ==
    ASSUME NEW s \in Seq(Byte), NEW t \in Seq(Byte), StartOf(t, s), NEW at \in Nat,
           NEW w \in Nat, NEW n, NumberIn(s, at, w, n), Packet!HasNumber(t, at, w)
    PROVE  NumberIn(t, at, w, n)
  <1>1. PICK k \in Nat, l \in Nat : k = Len(t) /\ l = Len(s)
    BY LenProperties
  <1>2. PICK m \in Nat : m = at + w
    OBVIOUS
  <1>3. m <= k /\ k <= l /\ \A i \in 1 .. k : t[i] = s[i]
    BY <1>1, <1>2 DEF StartOf, Packet!HasNumber
  <1>4. PICK u : u = SubSeq(s, at + 1, m)
    OBVIOUS
  <1>5. at <= m /\ m <= Len(s) /\ m - at = w
    BY <1>1, <1>2, <1>3
  <1>6. PartOf(u, s, at, m)
    BY <1>4, <1>5, PartOfIt
  <1>7. u \in Seq(Byte) /\ Len(u) = w /\ \A i \in 1 .. w : u[i] = s[at + i]
    BY <1>5, <1>6 DEF PartOf
  <1>8. ASSUME NEW i \in 1 .. w PROVE t[at + i] = u[i]
    <2>1. at + i \in 1 .. k
      BY <1>2, <1>3
    <2> QED
      BY <1>3, <1>7, <2>1
  <1>9. at + w <= Len(t)
    BY <1>1, <1>2, <1>3
  <1>10. SubSeq(t, at + 1, at + w) = u
    BY <1>7, <1>8, <1>9, PartIs
  <1>11. NumberAt(t, at, w) = NumberAt(s, at, w)
    BY <1>2, <1>4, <1>10 DEF NumberAt
  <1> QED
    BY <1>11, SameAt DEF NumberIn

StringEnds(t, at, end) == Packet!EndOfString(t, at) = end /\ end <= Len(t)

LEMMA StringStays ==
    ASSUME NEW s \in Seq(Byte), NEW t \in Seq(Byte), StartOf(t, s), NEW at \in Nat,
           NEW end \in Nat, StringEnds(s, at, end), Packet!HasString(t, at)
    PROVE  StringEnds(t, at, end)
  <1>1. PICK k \in Nat, l \in Nat, w \in Nat : k = Len(t) /\ l = Len(s) /\ w = WordBytes
    BY LenProperties, WordAssumption
  <1>2. PICK n : n = Packet!NumberAt(s, at, w)
    OBVIOUS
  <1>3. at + w <= k /\ k <= l
    BY <1>1 DEF StartOf, Packet!HasString, Packet!HasNumber
  <1>4. NumberIn(s, at, w, n)
    BY <1>1, <1>2, <1>3 DEF NumberIn, Packet!HasNumber
  <1>5. Packet!HasNumber(t, at, w)
    BY <1>1 DEF Packet!HasString
  <1>6. NumberIn(t, at, w, n)
    BY <1>4, <1>5, NumberStays
  <1>7. Packet!NumberAt(t, at, w) = n
    BY <1>6 DEF NumberIn
  <1>8. at + w + n = end
    BY <1>1, <1>2 DEF StringEnds, Packet!EndOfString
  <1>9. at + w + n <= k
    BY <1>1, <1>7 DEF Packet!HasString, Packet!HasNumber
  <1> QED
    BY <1>1, <1>7, <1>8, <1>9 DEF StringEnds, Packet!EndOfString

LEMMA StringInEnds ==
    ASSUME NEW s, NEW at, NEW text, Holds(s, at, Packet!String(text)),
           s \in Seq(Byte), at \in Nat, text \in Text, NEW end \in Nat,
           end = at + WordBytes + Len(text)
    PROVE  StringEnds(s, at, end)
  <1>1. Packet!EndOfString(s, at) = end
    BY StringFound DEF StringIn
  <1>2. PICK a : a = Packet!String(text) /\ Len(a) = WordBytes + Len(text)
    BY StringFacts DEF StringSize
  <1>3. at + Len(a) <= Len(s)
    BY <1>2 DEF Holds
  <1>4. PICK w \in Nat, l \in Nat : w = WordBytes /\ l = Len(text)
    BY WordAssumption, LenProperties DEF Text
  <1>5. end = at + (w + l)
    BY <1>4
  <1> QED
    BY <1>1, <1>2, <1>3, <1>4, <1>5 DEF StringEnds

(* protocol.cpp: a packet that is missing bytes at its end does not decode. *)
THEOREM CutPacketRefused ==
    ASSUME NEW message \in Message,
           NEW n \in Nat, n < Len(Packet!Encode(message))
    PROVE  ~Packet!Decodes(SubSeq(Packet!Encode(message), 1, n))
  <1>1. PICK s, at, end : s = Packet!Encode(message) /\ Written(s, message, at, end)
    BY EncodeWrites
  <1>2. PICK p1 \in Nat, p2 \in Nat, p3 \in Nat, p4 \in Nat :
            at[1] = p1 /\ at[2] = p2 /\ at[3] = p3 /\ at[4] = p4
    BY <1>1 DEF Written
  <1>3. /\ s \in Seq(Byte) /\ p1 = WordBytes + ShortBytes + 1 + LongBytes
        /\ p2 = p1 + WordBytes + Len(message.source)
        /\ p3 = p2 + WordBytes + Len(message.target)
        /\ p4 = p3 + WordBytes + Len(message.name)
        /\ end = p4 + WordBytes + Len(message.payload) /\ end = Len(s)
        /\ Holds(s, p1, Packet!String(message.source))
        /\ Holds(s, p2, Packet!String(message.target))
        /\ Holds(s, p3, Packet!String(message.name))
        /\ Holds(s, p4, Packet!String(message.payload))
    BY <1>1, <1>2 DEF Written
  <1>4. PICK l \in Nat : l = Len(s) /\ end = l /\ n < l
    <2>1. Len(s) \in Nat
      BY <1>3, LenProperties
    <2> QED
      BY <1>1, <1>3, <2>1
  <1>5. PICK t : t = SubSeq(s, 1, n)
    OBVIOUS
  <1>6. t \in Seq(Byte) /\ Len(t) = n /\ \A i \in 1 .. n : t[i] = s[i]
    <2>1. 0 \in Nat /\ 0 <= n /\ n <= Len(s) /\ 0 + 1 = 1 /\ n - 0 = n
      BY <1>4
    <2>2. t = SubSeq(s, 0 + 1, n)
      BY <1>5, <2>1
    <2>3. PartOf(t, s, 0, n)
      BY <1>3, <2>1, <2>2, PartOfIt
    <2>4. t \in Seq(Byte) /\ Len(t) = n - 0 /\ \A i \in 1 .. n - 0 : t[i] = s[0 + i]
      BY <2>3 DEF PartOf
    <2> QED
      BY <2>1, <2>4
  <1>7. StartOf(t, s)
    BY <1>4, <1>6 DEF StartOf
  <1>8. /\ message.source \in Text /\ message.target \in Text
        /\ message.name \in Text /\ message.payload \in Text
    BY DEF Message
  <1>9. StringEnds(s, p1, p2)
    BY <1>3, <1>8, StringInEnds
  <1>10. StringEnds(s, p2, p3)
    BY <1>3, <1>8, StringInEnds
  <1>11. StringEnds(s, p3, p4)
    BY <1>3, <1>8, StringInEnds
  <1>12. StringEnds(s, p4, l)
    BY <1>3, <1>4, <1>8, StringInEnds
  <1>13. SUFFICES ASSUME Packet!Decodes(t) PROVE FALSE
    BY <1>1, <1>5
  <1>14. Packet!SourceStart = p1
    BY <1>3 DEF Packet!SourceStart, Packet!IdStart, Packet!TypeStart, Packet!VersionStart
  <1>15. StringEnds(t, p1, p2)
    <2>1. Packet!HasString(t, p1)
      BY <1>13, <1>14 DEF Packet!Decodes
    <2> QED
      BY <1>3, <1>6, <1>7, <1>9, <2>1, StringStays
  <1>16. Packet!TargetStart(t) = p2
    BY <1>14, <1>15 DEF StringEnds, Packet!TargetStart
  <1>17. StringEnds(t, p2, p3)
    <2>1. Packet!HasString(t, p2)
      BY <1>13, <1>16 DEF Packet!Decodes
    <2> QED
      BY <1>3, <1>6, <1>7, <1>10, <2>1, StringStays
  <1>18. Packet!NameStart(t) = p3
    BY <1>16, <1>17 DEF StringEnds, Packet!NameStart
  <1>19. StringEnds(t, p3, p4)
    <2>1. Packet!HasString(t, p3)
      BY <1>13, <1>18 DEF Packet!Decodes
    <2> QED
      BY <1>3, <1>6, <1>7, <1>11, <2>1, StringStays
  <1>20. Packet!PayloadStart(t) = p4
    BY <1>18, <1>19 DEF StringEnds, Packet!PayloadStart
  <1>21. StringEnds(t, p4, l)
    <2>1. Packet!HasString(t, p4)
      BY <1>13, <1>20 DEF Packet!Decodes
    <2> QED
      BY <1>3, <1>6, <1>7, <1>12, <2>1, StringStays
  <1> QED
    BY <1>4, <1>6, <1>21 DEF StringEnds

(* message_byte_adapter.cpp: the message that a frame holds comes back, if  *)
(* the frame with its packet fits what a word can count.                    *)
THEOREM MessageComesBack ==
    ASSUME NEW message \in Message, IsPacket(Packet!Encode(message))
    PROVE  LET frame == Encode(Packet!Encode(message))
           IN  /\ Decodes(frame) /\ Packet!Decodes(Payload(frame))
               /\ Packet!Decoded(Payload(frame)) = message
  BY FrameDecodes, PacketDecodes

-----------------------------------------------------------------------------
(* The requests and responses of LLMMessageCodec, field by field: how a field is written. *)

(* LLMMessageCodec extends Bytes: its numbers are those of the frames. *)
LEMMA CodecPower == Codec!Power = Power
  BY DEF Power, Codec!Power

LEMMA CodecDigits ==
    ASSUME NEW n, NEW w PROVE Codec!Digits(n, w) = Digits(n, w)
  BY CodecPower DEF Digits, Codec!Digits

LEMMA CodecNumberAt ==
    ASSUME NEW s, NEW at, NEW w PROVE Codec!NumberAt(s, at, w) = NumberAt(s, at, w)
  BY DEF NumberAt, Codec!NumberAt, FoldLeft, Codec!FoldLeft, MapThenFoldSet,
         Codec!MapThenFoldSet, Max, Codec!Max

(* r is s from its end. *)
Mirror(s, r, n) ==
    r \in Seq(Byte) /\ Len(r) = n /\ \A i \in 1 .. n : r[i] = s[(n - i) + 1]

LEMMA ReverseFacts ==
    ASSUME NEW s \in Seq(Byte), NEW n \in Nat, n = Len(s)
    PROVE  Mirror(s, Codec!Reverse(s), n)
  <1>1. s \in [1 .. n -> Byte]
    BY LenProperties
  <1>2. ASSUME NEW i \in 1 .. n PROVE (n - i) + 1 \in 1 .. n
    OBVIOUS
  <1>3. PICK r : r = Codec!Reverse(s)
    OBVIOUS
  <1>4. r = [i \in 1 .. n |-> s[(n - i) + 1]]
    BY <1>3 DEF Codec!Reverse
  <1>5. r \in [1 .. n -> Byte]
    BY <1>1, <1>2, <1>4
  <1>6. r \in Seq(Byte) /\ Len(r) = n
    BY <1>5
  <1> QED
    BY <1>3, <1>4, <1>6 DEF Mirror

LEMMA MirrorTwice ==
    ASSUME NEW s \in Seq(Byte), NEW n \in Nat, n = Len(s), NEW r, Mirror(s, r, n),
           NEW t, Mirror(r, t, n)
    PROVE  t = s
  <1>1. s \in [1 .. n -> Byte]
    BY LenProperties
  <1>2. t \in Seq(Byte) /\ Len(t) = n /\ t \in [1 .. n -> Byte]
    BY LenProperties DEF Mirror
  <1>3. ASSUME NEW i \in 1 .. n PROVE t[i] = s[i]
    <2>1. (n - i) + 1 \in 1 .. n /\ (n - ((n - i) + 1)) + 1 = i
      OBVIOUS
    <2>2. PICK j \in 1 .. n : j = (n - i) + 1 /\ (n - j) + 1 = i
      BY <2>1
    <2> QED
      BY <2>2 DEF Mirror
  <1> QED
    BY <1>1, <1>2, <1>3

(* What w digits say is less than the power of w. *)
Below(n, w) == n \in Nat /\ n < Power[w]

LEMMA NumberBound ==
    ASSUME NEW q \in Seq(Byte), NEW width \in Nat, width = Len(q)
    PROVE  Below(Number(q), width)
  <1>1. PICK acc \in [0 .. width -> Nat] :
            /\ acc[0] = 0
            /\ \A k \in 1 .. width : acc[k] = Shift[<<acc[k - 1], q[k]>>]
            /\ acc[width] = Number(q)
    <2>1. Folds(Nat, 0, Shift, q, Number(q))
      BY NumberFolds, BytesAreNumbers
    <2> QED
      BY <2>1 DEF Folds
  <1> DEFINE S == {k \in Nat : k <= width => acc[k] < Power[k]}
  <1>2. 0 \in S
    BY <1>1, PowerFacts
  <1>3. ASSUME NEW k \in Nat, k \in S PROVE k + 1 \in S
    <2> SUFFICES ASSUME k + 1 <= width PROVE acc[k + 1] < Power[k + 1]
      OBVIOUS
    <2>1. PICK r \in Nat : r = Radix /\ r > 0
      BY RadixAssumption
    <2>2. PICK d \in Nat : d = Power[k] /\ Power[k + 1] = r * d
      BY <2>1, PowerFacts
    <2>3. k \in 0 .. width /\ k + 1 \in 1 .. width /\ (k + 1) - 1 = k
      OBVIOUS
    <2>4. PICK a \in Nat : a = acc[k] /\ a < d
      <3>1. k <= width /\ acc[k] \in Nat
        BY <2>3
      <3>2. acc[k] < Power[k]
        BY <1>3, <3>1
      <3> QED
        BY <2>2, <3>1, <3>2
    <2>5. PICK b \in Nat : b = q[k + 1] /\ b < r
      <3>1. q[k + 1] \in Byte
        BY <2>3, LenProperties
      <3> QED
        BY <2>1, <3>1 DEF Byte
    <2>6. acc[k + 1] = a * r + b
      BY <1>1, <2>1, <2>3, <2>4, <2>5 DEF Shift
    <2>7. (a + 1) * r <= d * r
      <3>1. a + 1 <= d /\ a + 1 \in Nat
        BY <2>4
      <3> QED
        BY <3>1
    <2>8. (a + 1) * r = a * r + r /\ d * r = r * d
      OBVIOUS
    <2> QED
      BY <2>2, <2>5, <2>6, <2>7, <2>8
  <1> HIDE DEF S
  <1>4. width \in S
    BY <1>2, <1>3, Induction
  <1> QED
    BY <1>1, <1>4 DEF S, Below

LEMMA WordFacts ==
    \A n : n \in Word <=> n \in Nat /\ n < Power[WordBytes]
  <1>1. PICK d \in Nat : d = Power[WordBytes]
    BY WordAssumption, PowerFacts
  <1>2. Word = 0 .. d - 1
    BY <1>1 DEF Word
  <1> QED
    BY <1>1, <1>2

(* The words of LLMMessageCodec, which are little-endian. *)
LEMMA U32Facts ==
    ASSUME NEW n \in Nat
    PROVE  Mirror(Digits(n, WordBytes), Codec!U32(n), WordBytes)
  <1>1. PICK w \in Nat : w = WordBytes
    BY WordAssumption
  <1>2. PICK d \in Seq(Byte) : d = Digits(n, w) /\ Len(d) = w
    BY DigitsFacts
  <1>3. Codec!U32(n) = Codec!Reverse(d)
    BY <1>1, <1>2, CodecDigits DEF Codec!U32
  <1> QED
    BY <1>1, <1>2, <1>3, ReverseFacts

LEMMA WordIs ==
    ASSUME NEW s, NEW at, NEW w \in Nat, w = WordBytes, NEW x \in Seq(Byte), Len(x) = w,
           HasPart(s, at, w, x), NEW y, Mirror(x, y, w)
    PROVE  Codec!WordAt(s, at) = Number(y)
  <1>1. y \in Seq(Byte) /\ Len(y) = w
    BY DEF Mirror
  <1>2. Codec!Reverse(x) = y
    <2>1. PICK z : z = Codec!Reverse(x) /\ Mirror(x, z, w)
      BY ReverseFacts
    <2>2. /\ y \in Seq(Byte) /\ Len(y) = w /\ (\A i \in 1 .. w : y[i] = x[(w - i) + 1])
          /\ z \in Seq(Byte) /\ Len(z) = w /\ (\A i \in 1 .. w : z[i] = x[(w - i) + 1])
      BY <2>1 DEF Mirror
    <2>3. y \in [1 .. w -> Byte] /\ z \in [1 .. w -> Byte]
      BY <2>2, LenProperties
    <2>4. y = z
      BY <2>2, <2>3
    <2> QED
      BY <2>1, <2>4
  <1>3. Codec!WordAt(s, at) = NumberAt(y, 0, w)
    BY <1>2, CodecNumberAt DEF HasPart, Codec!WordAt
  <1>4. HasPart(y, 0, w, y)
    <2>1. Len(y) = w /\ 0 \in Nat /\ 0 + w <= Len(y) /\ \A i \in 1 .. w : y[0 + i] = y[i]
      BY <1>1
    <2> QED
      BY <1>1, <2>1, PartFound
  <1> QED
    BY <1>3, <1>4 DEF HasPart, NumberAt, Number

LEMMA WordFound ==
    ASSUME NEW s \in Seq(Byte), NEW at \in Nat, NEW n \in Word, Holds(s, at, Codec!U32(n))
    PROVE  Codec!WordAt(s, at) = n
  <1>1. PICK w \in Nat : w = WordBytes
    BY WordAssumption
  <1>2. n \in Nat /\ n < Power[w]
    BY <1>1, WordFacts
  <1>3. PICK d \in Seq(Byte) : d = Digits(n, w) /\ Len(d) = w
    BY <1>2, DigitsFacts
  <1>4. PICK x : x = Codec!U32(n) /\ Mirror(d, x, w)
    BY <1>1, <1>2, <1>3, U32Facts
  <1>5. x \in Seq(Byte) /\ Len(x) = w
    BY <1>4 DEF Mirror
  <1>6. HasPart(s, at, w, x)
    BY <1>4, <1>5, HoldsPart
  <1>7. Mirror(x, d, w)
    <2>1. PICK z : Mirror(x, z, w)
      BY <1>5, ReverseFacts
    <2>2. z = d
      BY <1>3, <1>4, <2>1, MirrorTwice
    <2> QED
      BY <2>1, <2>2
  <1>8. Codec!WordAt(s, at) = Number(d)
    BY <1>1, <1>5, <1>6, <1>7, WordIs
  <1> QED
    BY <1>2, <1>3, <1>8, NumberOfDigits

WordThere(s, at, n) == n \in Word /\ Holds(s, at, Codec!U32(n))

LEMMA WordRead ==
    ASSUME NEW s \in Seq(Byte), NEW at \in Nat, at + WordBytes <= Len(s)
    PROVE  WordThere(s, at, Codec!WordAt(s, at))
  <1>1. PICK w \in Nat : w = WordBytes
    BY WordAssumption
  <1>2. PICK l \in Nat : l = Len(s) /\ at + w <= l
    BY <1>1, LenProperties
  <1>3. PICK m \in Nat : m = at + w
    OBVIOUS
  <1>4. PICK x : x = SubSeq(s, at + 1, m)
    OBVIOUS
  <1>5. m <= l /\ at <= m /\ m - at = w
    BY <1>2, <1>3
  <1>6. x \in Seq(Byte) /\ Len(x) = m - at /\ \A i \in 1 .. m - at : x[i] = s[at + i]
    <2>1. at <= m /\ m <= Len(s)
      BY <1>2, <1>5
    <2>2. PartOf(x, s, at, m)
      BY <1>4, <2>1, PartOfIt
    <2> QED
      BY <2>2 DEF PartOf
  <1>7. HasPart(s, at, w, x)
    BY <1>3, <1>4 DEF HasPart
  <1>8. PICK y : Mirror(x, y, w)
    BY <1>5, <1>6, ReverseFacts
  <1>9. PICK n : n = Codec!WordAt(s, at)
    OBVIOUS
  <1>10. n = Number(y)
    BY <1>1, <1>5, <1>6, <1>7, <1>8, <1>9, WordIs
  <1>11. y \in Seq(Byte) /\ Len(y) = w
    BY <1>8 DEF Mirror
  <1>12. Below(n, w)
    BY <1>10, <1>11, NumberBound
  <1>13. n \in Nat /\ n < Power[w]
    BY <1>12 DEF Below
  <1>14. Digits(n, w) = y
    <2>1. PICK d \in Seq(Byte) : d = Digits(n, w) /\ Len(d) = w
      BY <1>13, DigitsFacts
    <2>2. Number(d) = Number(y)
      BY <1>10, <1>13, <2>1, NumberOfDigits
    <2> QED
      BY <1>11, <2>1, <2>2, SameNumber
  <1>15. Codec!U32(n) = x
    <2>1. PICK z : z = Codec!U32(n) /\ Mirror(y, z, w)
      BY <1>1, <1>13, <1>14, U32Facts
    <2> QED
      BY <1>5, <1>6, <1>8, <2>1, MirrorTwice
  <1>16. Holds(s, at, x)
    BY <1>2, <1>5, <1>6 DEF Holds
  <1>17. n \in Word
    BY <1>1, <1>13, WordFacts
  <1> QED
    BY <1>9, <1>15, <1>16, <1>17 DEF WordThere

(* Two parts are in s one after the other if and only if s holds both. *)
HoldsTwo(s, at, a, i, b) == Holds(s, at, a) /\ Holds(s, at + i, b)

LEMMA HoldsSplit ==
    ASSUME NEW s \in Seq(Byte), NEW at \in Nat, NEW a, NEW i \in Nat, NEW b, NEW j \in Nat,
           NEW t, Joins(a, i, b, j, t)
    PROVE  Holds(s, at, t) <=> HoldsTwo(s, at, a, i, b)
  <1>1. PICK l \in Nat : l = Len(s)
    BY LenProperties
  <1>2. /\ Len(a) = i /\ Len(b) = j /\ Len(t) = i + j
        /\ (\A n \in 1 .. i : t[n] = a[n]) /\ \A n \in 1 .. j : t[i + n] = b[n]
    BY DEF Joins, StartOf, Holds
  <1>3. ASSUME Holds(s, at, t) PROVE HoldsTwo(s, at, a, i, b)
    <2>1. at + (i + j) <= l /\ \A n \in 1 .. i + j : s[at + n] = t[n]
      BY <1>1, <1>2, <1>3 DEF Holds
    <2>2. ASSUME NEW n \in 1 .. i PROVE s[at + n] = a[n]
      <3>1. n \in 1 .. i + j
        OBVIOUS
      <3> QED
        BY <1>2, <2>1, <3>1
    <2>3. ASSUME NEW n \in 1 .. j PROVE s[(at + i) + n] = b[n]
      <3>1. i + n \in 1 .. i + j /\ at + (i + n) = (at + i) + n
        OBVIOUS
      <3> QED
        BY <1>2, <2>1, <3>1
    <2>4. at + i <= l /\ (at + i) + j <= l
      BY <2>1
    <2> QED
      BY <1>1, <1>2, <2>2, <2>3, <2>4 DEF HoldsTwo, Holds
  <1>4. ASSUME HoldsTwo(s, at, a, i, b) PROVE Holds(s, at, t)
    <2>1. /\ \A n \in 1 .. i : s[at + n] = a[n]
          /\ (at + i) + j <= l /\ \A n \in 1 .. j : s[(at + i) + n] = b[n]
      BY <1>1, <1>2, <1>4 DEF HoldsTwo, Holds
    <2>2. ASSUME NEW n \in 1 .. i + j PROVE s[at + n] = t[n]
      <3>1. CASE n <= i
        BY <1>2, <2>1, <3>1
      <3>2. CASE n > i
        <4>1. PICK m \in 1 .. j : m = n - i /\ n = i + m /\ at + n = (at + i) + m
          <5>1. n - i \in 1 .. j /\ n = i + (n - i) /\ at + n = (at + i) + (n - i)
            BY <3>2
          <5> QED
            BY <5>1
        <4>2. t[i + m] = b[m] /\ s[(at + i) + m] = b[m]
          BY <1>2, <2>1
        <4> QED
          BY <4>1, <4>2
      <3> QED
        BY <3>1, <3>2
    <2>3. PICK k \in Nat : k = i + j /\ at + k <= l
      BY <2>1
    <2>4. Len(t) = k /\ \A n \in 1 .. k : s[at + n] = t[n]
      BY <1>2, <2>2, <2>3
    <2> QED
      BY <1>1, <2>3, <2>4 DEF Holds
  <1> QED
    BY <1>3, <1>4

(* The fields a Reader reads, by kind, and how each is written. *)
Kinds == {"u8", "role", "u32", "str"}

FieldOf(kind) ==
    IF kind = "u8" THEN Byte
    ELSE IF kind = "role" THEN Range(Codec!Roles)
    ELSE IF kind = "u32" THEN Word
    ELSE Text

Enc(kind, v) ==
    IF kind = "u8" THEN <<v>>
    ELSE IF kind = "role" THEN <<Codec!Code(Codec!Roles, v)>>
    ELSE IF kind = "u32" THEN Codec!U32(v)
    ELSE Codec!Str(v)

Field == Byte \cup Range(Codec!Roles) \cup Word \cup Text

Readers == [offset : Nat, fields : Seq(Field), thrown : BOOLEAN]

(* A name is the one its code stands for, and codes are bytes. *)
Coded(names, n) ==
    /\ n <= Radix
    /\ \A name \in Range(names) :
           /\ Codec!Code(names, name) \in 0 .. n - 1
           /\ names[Codec!Code(names, name) + 1] = name
    /\ \A code \in 0 .. n - 1 :
           /\ names[code + 1] \in Range(names)
           /\ Codec!Code(names, names[code + 1]) = code

LEMMA NamesCoded ==
    ASSUME NEW names, NEW n \in Nat, n = Len(names), n <= Radix, DOMAIN names = 1 .. n,
           \A i, j \in 1 .. n : names[i] = names[j] => i = j
    PROVE  Coded(names, n)
  <1>1. ASSUME NEW name \in Range(names)
        PROVE  /\ Codec!Code(names, name) \in 0 .. n - 1
               /\ names[Codec!Code(names, name) + 1] = name
    <2>1. PICK i \in 1 .. n : names[i] = name
      BY DEF Range
    <2>2. i - 1 \in 0 .. n - 1 /\ (i - 1) + 1 = i
      OBVIOUS
    <2>3. \E code \in 0 .. n - 1 : names[code + 1] = name
      BY <2>1, <2>2
    <2> QED
      BY <2>3 DEF Codec!Code
  <1>2. ASSUME NEW code \in 0 .. n - 1
        PROVE  names[code + 1] \in Range(names) /\ Codec!Code(names, names[code + 1]) = code
    <2>1. code + 1 \in 1 .. n
      OBVIOUS
    <2>2. names[code + 1] \in Range(names)
      BY <2>1 DEF Range
    <2>3. PICK c \in 0 .. n - 1 :
              c = Codec!Code(names, names[code + 1]) /\ names[c + 1] = names[code + 1]
      BY <1>1, <2>2
    <2>4. c + 1 \in 1 .. n
      OBVIOUS
    <2>5. c + 1 = code + 1
      BY <2>1, <2>3, <2>4
    <2> QED
      BY <2>2, <2>3, <2>5
  <1> QED
    BY <1>1, <1>2 DEF Coded

LEMMA RolesCoded ==
    /\ Coded(Codec!Roles, 4) /\ Coded(Codec!Statuses, 5)
    /\ "throws" \notin Range(Codec!Roles)
    /\ Len(Codec!Roles) = 4 /\ Len(Codec!Statuses) = 5
  <1>1. /\ Len(Codec!Roles) = 4 /\ DOMAIN Codec!Roles = 1 .. 4
        /\ Codec!Roles[1] = "System" /\ Codec!Roles[2] = "User"
        /\ Codec!Roles[3] = "Assistant" /\ Codec!Roles[4] = "Tool"
    BY DEF Codec!Roles
  <1>2. /\ Len(Codec!Statuses) = 5 /\ DOMAIN Codec!Statuses = 1 .. 5
        /\ Codec!Statuses[1] = "Ok" /\ Codec!Statuses[2] = "Timeout"
        /\ Codec!Statuses[3] = "Cancelled" /\ Codec!Statuses[4] = "InvalidPrompt"
        /\ Codec!Statuses[5] = "BackendError"
    BY DEF Codec!Statuses
  <1>3. 5 <= Radix /\ 4 <= Radix
    BY <1>2, CodecFits, RadixAssumption
  <1>4. \A i, j \in 1 .. 4 : Codec!Roles[i] = Codec!Roles[j] => i = j
    BY <1>1
  <1>5. \A i, j \in 1 .. 5 : Codec!Statuses[i] = Codec!Statuses[j] => i = j
    BY <1>2
  <1>6. Coded(Codec!Roles, 4)
    BY <1>1, <1>3, <1>4, NamesCoded
  <1>7. Coded(Codec!Statuses, 5)
    BY <1>2, <1>3, <1>5, NamesCoded
  <1>8. "throws" \notin Range(Codec!Roles)
    BY <1>1 DEF Range
  <1> QED
    BY <1>1, <1>2, <1>6, <1>7, <1>8

(* How long a field is. *)
Size(kind, v) ==
    IF kind = "u32" THEN WordBytes ELSE IF kind = "str" THEN WordBytes + Len(v) ELSE 1

IsEnc(a, kind, v) ==
    a \in Seq(Byte) /\ Size(kind, v) \in Nat /\ Len(a) = Size(kind, v)

LEMMA U32Sized ==
    ASSUME NEW n \in Nat
    PROVE  Codec!U32(n) \in Seq(Byte) /\ Len(Codec!U32(n)) = WordBytes
  BY U32Facts DEF Mirror

StrJoins(text, w, l) ==
    Joins(Codec!U32(l), w, text, l, Codec!Str(text))

LEMMA StrFacts ==
    ASSUME NEW text \in Text, NEW w \in Nat, w = WordBytes, NEW l \in Nat, l = Len(text)
    PROVE  StrJoins(text, w, l)
  <1>1. text \in Seq(Byte)
    BY DEF Text
  <1>2. PICK a \in Seq(Byte) : a = Codec!U32(l) /\ Len(a) = w
    BY U32Sized
  <1>3. PICK t : t = Codec!Str(text) /\ t = a \o text
    BY <1>2 DEF Codec!Str
  <1>4. Joins(a, w, text, l, t)
    BY <1>1, <1>2, <1>3, JoinFacts
  <1> QED
    BY <1>2, <1>3, <1>4 DEF StrJoins

LEMMA EncFacts ==
    ASSUME NEW kind \in Kinds, NEW v \in FieldOf(kind)
    PROVE  IsEnc(Enc(kind, v), kind, v) /\ v \in Field
  <1>1. PICK w \in Nat : w = WordBytes
    BY WordAssumption
  <1>2. v \in Field
    BY DEF FieldOf, Field
  <1>3. CASE kind = "u8"
    BY <1>2, <1>3 DEF FieldOf, Enc, Size, IsEnc
  <1>4. CASE kind = "role"
    <2>1. v \in Range(Codec!Roles)
      BY <1>4 DEF FieldOf
    <2>2. Codec!Code(Codec!Roles, v) \in 0 .. 4 - 1 /\ 4 <= Radix
      BY <2>1, RolesCoded DEF Coded
    <2>3. PICK code \in Byte : code = Codec!Code(Codec!Roles, v)
      BY <2>2, RadixAssumption DEF Byte
    <2>4. Enc(kind, v) = <<code>> /\ Size(kind, v) = 1
      BY <1>4, <2>3 DEF Enc, Size
    <2> QED
      BY <1>2, <2>4 DEF IsEnc
  <1>5. CASE kind = "u32"
    <2>1. v \in Nat
      BY <1>5, WordFacts DEF FieldOf
    <2>2. Enc(kind, v) = Codec!U32(v) /\ Size(kind, v) = w
      BY <1>1, <1>5 DEF Enc, Size
    <2> QED
      BY <1>1, <1>2, <2>1, <2>2, U32Sized DEF IsEnc
  <1>6. CASE kind = "str"
    <2>1. v \in Text
      BY <1>6 DEF FieldOf
    <2>2. PICK l \in Nat : l = Len(v)
      BY <2>1, LenProperties DEF Text
    <2>3. Enc(kind, v) = Codec!Str(v) /\ Size(kind, v) = w + l
      BY <1>1, <1>6, <2>2 DEF Enc, Size
    <2>4. StrJoins(v, w, l)
      BY <1>1, <2>1, <2>2, StrFacts
    <2>5. Codec!Str(v) \in Seq(Byte) /\ Len(Codec!Str(v)) = w + l
      BY <2>4 DEF StrJoins, Joins
    <2> QED
      BY <1>2, <2>3, <2>5 DEF IsEnc
  <1> QED
    BY <1>3, <1>4, <1>5, <1>6 DEF Kinds

(* A reader takes a field that is there, and what it takes is there. *)
Takes(s, r, kind, v) ==
    Codec!Read(s, r, kind) = Codec!Take(r, Size(kind, v), v)

LEMMA ReadsByte ==
    ASSUME NEW s \in Seq(Byte), NEW r \in Readers, ~r.thrown, NEW v \in Byte,
           Holds(s, r.offset, <<v>>)
    PROVE  Takes(s, r, "u8", v)
  <1>1. PICK at \in Nat : at = r.offset
    BY DEF Readers
  <1>2. at + 1 <= Len(s) /\ s[at + 1] = v
    BY <1>1 DEF Holds
  <1>3. Codec!HasNumber(s, at, 1)
    BY <1>2 DEF Codec!HasNumber
  <1> QED
    BY <1>1, <1>2, <1>3 DEF Codec!Read, Takes, Size

LEMMA ReadsRole ==
    ASSUME NEW s \in Seq(Byte), NEW r \in Readers, ~r.thrown, NEW v \in Range(Codec!Roles),
           Holds(s, r.offset, <<Codec!Code(Codec!Roles, v)>>)
    PROVE  Takes(s, r, "role", v)
  <1>1. PICK at \in Nat : at = r.offset
    BY DEF Readers
  <1>2. PICK code \in 0 .. 3 : code = Codec!Code(Codec!Roles, v) /\ Codec!Roles[code + 1] = v
    BY RolesCoded DEF Coded
  <1>3. at + 1 <= Len(s) /\ s[at + 1] = code
    BY <1>1, <1>2 DEF Holds
  <1>4. Codec!HasNumber(s, at, 1)
    BY <1>3 DEF Codec!HasNumber
  <1>5. code < Len(Codec!Roles)
    BY RolesCoded
  <1>6. Codec!RoleOf(s[at + 1]) = v /\ v # "throws"
    BY <1>2, <1>3, <1>5, RolesCoded DEF Codec!RoleOf
  <1> QED
    BY <1>1, <1>4, <1>6 DEF Codec!Read, Takes, Size

LEMMA ReadsWord ==
    ASSUME NEW s \in Seq(Byte), NEW r \in Readers, ~r.thrown, NEW v \in Word,
           Holds(s, r.offset, Codec!U32(v))
    PROVE  Takes(s, r, "u32", v)
  <1>1. PICK at \in Nat : at = r.offset
    BY DEF Readers
  <1>2. v \in Nat
    BY WordFacts
  <1>3. Codec!WordAt(s, at) = v
    BY <1>1, WordFound
  <1>4. at + WordBytes <= Len(s)
    BY <1>1, <1>2, U32Sized DEF Holds
  <1>5. Codec!HasNumber(s, at, WordBytes)
    BY <1>4 DEF Codec!HasNumber
  <1> QED
    BY <1>1, <1>3, <1>5 DEF Codec!Read, Takes, Size

LEMMA ReadsStr ==
    ASSUME NEW s \in Seq(Byte), NEW r \in Readers, ~r.thrown, NEW v \in Text,
           Holds(s, r.offset, Codec!Str(v))
    PROVE  Takes(s, r, "str", v)
  <1>1. PICK at \in Nat, w \in Nat : at = r.offset /\ w = WordBytes
    BY WordAssumption DEF Readers
  <1>2. PICK l \in Nat : l = Len(v) /\ v \in Seq(Byte) /\ l \in Word
    <2>1. PICK k \in Nat : k = Len(v) /\ v \in Seq(Byte) /\ k < Power[WordBytes]
      BY LenProperties DEF Text
    <2>2. k \in Word
      BY <2>1, WordFacts
    <2> QED
      BY <2>1, <2>2
  <1>3. Joins(Codec!U32(l), w, v, l, Codec!Str(v))
    BY <1>1, <1>2, StrFacts DEF StrJoins
  <1>4. HoldsTwo(s, at, Codec!U32(l), w, v)
    BY <1>1, <1>3, HoldsSplit
  <1>5. Codec!WordAt(s, at) = l
    BY <1>2, <1>4, WordFound DEF HoldsTwo
  <1>6. PICK c \in Nat, e \in Nat : c = at + w /\ e = c + l /\ e - at = w + l
    OBVIOUS
  <1>7. Holds(s, c, v)
    BY <1>4, <1>6 DEF HoldsTwo
  <1>8. e <= Len(s) /\ c <= Len(s)
    BY <1>2, <1>6, <1>7, LenProperties DEF Holds
  <1>9. Codec!HasStr(s, at)
    BY <1>1, <1>5, <1>6, <1>8 DEF Codec!HasStr, Codec!HasNumber
  <1>10. SubSeq(s, c + 1, e) = v
    <2>1. HasPart(s, c, l, v)
      BY <1>2, <1>7, HoldsPart
    <2> QED
      BY <1>6, <2>1 DEF HasPart
  <1>11. /\ r.offset + WordBytes = c /\ r.offset + WordBytes + Codec!WordAt(s, r.offset) = e
         /\ Size("str", v) = e - r.offset
    BY <1>1, <1>2, <1>5, <1>6 DEF Size
  <1> QED
    BY <1>1, <1>9, <1>10, <1>11 DEF Codec!Read, Takes

LEMMA ReadsField ==
    ASSUME NEW s \in Seq(Byte), NEW r \in Readers, ~r.thrown, NEW kind \in Kinds,
           NEW v \in FieldOf(kind), Holds(s, r.offset, Enc(kind, v))
    PROVE  Takes(s, r, kind, v)
  <1>1. CASE kind = "u8"
    BY <1>1, ReadsByte DEF Enc, FieldOf
  <1>2. CASE kind = "role"
    BY <1>2, ReadsRole DEF Enc, FieldOf
  <1>3. CASE kind = "u32"
    BY <1>3, ReadsWord DEF Enc, FieldOf
  <1>4. CASE kind = "str"
    BY <1>4, ReadsStr DEF Enc, FieldOf
  <1> QED
    BY <1>1, <1>2, <1>3, <1>4 DEF Kinds

-----------------------------------------------------------------------------
(* How a field is read. *)

(* What a read does to a reader that has not thrown. *)
Throws(s, r, kind) == Codec!Read(s, r, kind) = [r EXCEPT !.thrown = TRUE]

Finds(s, r, kind) ==
    \E v \in FieldOf(kind) : Holds(s, r.offset, Enc(kind, v)) /\ Takes(s, r, kind, v)

LEMMA FoundByte ==
    ASSUME NEW s \in Seq(Byte), NEW r \in Readers, ~r.thrown
    PROVE  Throws(s, r, "u8") \/ Finds(s, r, "u8")
  <1>1. PICK at \in Nat, l \in Nat : at = r.offset /\ l = Len(s)
    BY LenProperties DEF Readers
  <1>2. CASE at + 1 <= l
    <2>1. s[at + 1] \in Byte
      <3>1. at + 1 \in 1 .. l
        BY <1>2
      <3> QED
        BY <1>1, <3>1, LenProperties
    <2>2. Holds(s, at, <<s[at + 1]>>)
      BY <1>1, <1>2 DEF Holds
    <2>3. s[at + 1] \in FieldOf("u8") /\ Enc("u8", s[at + 1]) = <<s[at + 1]>>
      BY <2>1 DEF FieldOf, Enc
    <2>4. Takes(s, r, "u8", s[at + 1])
      BY <1>1, <2>1, <2>2, ReadsByte
    <2> QED
      BY <1>1, <2>2, <2>3, <2>4 DEF Finds
  <1>3. CASE ~ (at + 1 <= l)
    <2>1. ~Codec!HasNumber(s, at, 1)
      BY <1>1, <1>3 DEF Codec!HasNumber
    <2> QED
      BY <1>1, <2>1 DEF Codec!Read, Throws
  <1> QED
    BY <1>2, <1>3

LEMMA FoundRole ==
    ASSUME NEW s \in Seq(Byte), NEW r \in Readers, ~r.thrown
    PROVE  Throws(s, r, "role") \/ Finds(s, r, "role")
  <1>1. PICK at \in Nat, l \in Nat : at = r.offset /\ l = Len(s)
    BY LenProperties DEF Readers
  <1>2. CASE at + 1 <= l /\ s[at + 1] < 4
    <2>1. PICK code \in 0 .. 3 : code = s[at + 1]
      <3>1. at + 1 \in 1 .. l
        BY <1>2
      <3>2. s[at + 1] \in Byte
        BY <1>1, <3>1, LenProperties
      <3> QED
        BY <1>2, <3>2, RadixAssumption DEF Byte
    <2>2. PICK v : v = Codec!Roles[code + 1] /\ v \in Range(Codec!Roles)
                   /\ Codec!Code(Codec!Roles, v) = code
      BY RolesCoded DEF Coded
    <2>3. Holds(s, at, <<code>>)
      BY <1>1, <1>2, <2>1 DEF Holds
    <2>4. v \in FieldOf("role") /\ Enc("role", v) = <<code>>
      BY <2>2 DEF FieldOf, Enc
    <2>5. Takes(s, r, "role", v)
      BY <1>1, <2>2, <2>3, ReadsRole
    <2> QED
      BY <1>1, <2>3, <2>4, <2>5 DEF Finds
  <1>3. CASE ~ (at + 1 <= l /\ s[at + 1] < 4)
    <2>1. ~Codec!HasNumber(s, at, 1) \/ Codec!RoleOf(s[at + 1]) = "throws"
      BY <1>1, <1>3, RolesCoded DEF Codec!HasNumber, Codec!RoleOf
    <2> QED
      BY <1>1, <2>1 DEF Codec!Read, Throws
  <1> QED
    BY <1>2, <1>3

LEMMA FoundWord ==
    ASSUME NEW s \in Seq(Byte), NEW r \in Readers, ~r.thrown
    PROVE  Throws(s, r, "u32") \/ Finds(s, r, "u32")
  <1>1. PICK at \in Nat : at = r.offset
    BY DEF Readers
  <1>2. CASE at + WordBytes <= Len(s)
    <2>1. PICK n : n = Codec!WordAt(s, at) /\ WordThere(s, at, n)
      BY <1>2, WordRead
    <2>2. n \in FieldOf("u32") /\ Enc("u32", n) = Codec!U32(n) /\ Holds(s, at, Codec!U32(n))
      BY <2>1 DEF WordThere, FieldOf, Enc
    <2>3. n \in Word
      BY <2>1 DEF WordThere
    <2>4. Takes(s, r, "u32", n)
      BY <1>1, <2>2, <2>3, ReadsWord
    <2> QED
      BY <1>1, <2>2, <2>4 DEF Finds
  <1>3. CASE ~ (at + WordBytes <= Len(s))
    <2>1. ~Codec!HasNumber(s, at, WordBytes)
      BY <1>3 DEF Codec!HasNumber
    <2> QED
      BY <1>1, <2>1 DEF Codec!Read, Throws
  <1> QED
    BY <1>2, <1>3

LEMMA FoundStr ==
    ASSUME NEW s \in Seq(Byte), NEW r \in Readers, ~r.thrown
    PROVE  Throws(s, r, "str") \/ Finds(s, r, "str")
  <1>1. PICK at \in Nat, w \in Nat : at = r.offset /\ w = WordBytes
    BY WordAssumption DEF Readers
  <1>2. CASE Codec!HasStr(s, at)
    <2>1. PICK n : n = Codec!WordAt(s, at)
      OBVIOUS
    <2>2. at + w <= Len(s) /\ at + w + n <= Len(s)
      BY <1>1, <1>2, <2>1 DEF Codec!HasStr, Codec!HasNumber
    <2>3. WordThere(s, at, n)
      BY <1>1, <2>1, <2>2, WordRead
    <2>4. n \in Nat /\ n < Power[WordBytes] /\ Holds(s, at, Codec!U32(n))
      BY <2>3, WordFacts DEF WordThere
    <2>5. PICK c \in Nat, e \in Nat : c = at + w /\ e = c + n /\ e - c = n /\ c <= e
      BY <2>4
    <2>6. PICK v : v = SubSeq(s, c + 1, e)
      OBVIOUS
    <2>7. v \in Seq(Byte) /\ Len(v) = n /\ \A i \in 1 .. n : v[i] = s[c + i]
      <3>1. c <= e /\ e <= Len(s)
        BY <2>2, <2>5
      <3>2. PartOf(v, s, c, e)
        BY <2>6, <3>1, PartOfIt
      <3> QED
        BY <2>5, <3>2 DEF PartOf
    <2>8. v \in Text
      BY <2>4, <2>7 DEF Text
    <2>9. Holds(s, c, v)
      BY <2>2, <2>5, <2>7 DEF Holds
    <2>10. Holds(s, at, Codec!Str(v))
      <3>1. HoldsTwo(s, at, Codec!U32(n), w, v)
        BY <2>4, <2>5, <2>9 DEF HoldsTwo
      <3>2. Joins(Codec!U32(n), w, v, n, Codec!Str(v))
        BY <1>1, <2>4, <2>7, <2>8, StrFacts DEF StrJoins
      <3> QED
        BY <2>4, <3>1, <3>2, HoldsSplit
    <2>11. v \in FieldOf("str") /\ Enc("str", v) = Codec!Str(v)
      BY <2>8 DEF FieldOf, Enc
    <2>12. Takes(s, r, "str", v)
      BY <1>1, <2>8, <2>10, ReadsStr
    <2> QED
      BY <1>1, <2>10, <2>11, <2>12 DEF Finds
  <1>3. CASE ~Codec!HasStr(s, at)
    BY <1>1, <1>3 DEF Codec!Read, Throws
  <1> QED
    BY <1>2, <1>3

LEMMA ReadFinds ==
    ASSUME NEW s \in Seq(Byte), NEW r \in Readers, ~r.thrown, NEW kind \in Kinds
    PROVE  Throws(s, r, kind) \/ Finds(s, r, kind)
  BY FoundByte, FoundRole, FoundWord, FoundStr DEF Kinds

(* The reader after a field. *)
FieldTaken(r, size, v, t) ==
    /\ t \in Readers /\ ~t.thrown /\ t.offset = r.offset + size
    /\ Len(t.fields) = Len(r.fields) + 1
    /\ (\A i \in 1 .. Len(r.fields) : t.fields[i] = r.fields[i])
    /\ t.fields[Len(r.fields) + 1] = v

LEMMA TakeFacts ==
    ASSUME NEW r \in Readers, ~r.thrown, NEW size \in Nat, NEW v \in Field
    PROVE  FieldTaken(r, size, v, Codec!Take(r, size, v))
  <1>1. PICK at \in Nat, f \in Seq(Field) : at = r.offset /\ f = r.fields
    BY DEF Readers
  <1>2. PICK g : g = Append(f, v)
    OBVIOUS
  <1>3. /\ g \in Seq(Field) /\ Len(g) = Len(f) + 1 /\ g[Len(f) + 1] = v
        /\ \A i \in 1 .. Len(f) : g[i] = f[i]
    BY <1>2, PushFacts
  <1>4. PICK m \in Nat : m = at + size
    OBVIOUS
  <1>5. PICK t : t = [r EXCEPT !.offset = m, !.fields = g] /\ t = Codec!Take(r, size, v)
    BY <1>1, <1>2, <1>4 DEF Codec!Take
  <1>6. t \in Readers /\ t.offset = m /\ t.fields = g /\ t.thrown = r.thrown
    BY <1>3, <1>5 DEF Readers
  <1> QED
    BY <1>1, <1>3, <1>4, <1>5, <1>6 DEF FieldTaken

LEMMA ReadType ==
    ASSUME NEW s \in Seq(Byte), NEW r \in Readers, NEW kind \in Kinds
    PROVE  /\ Codec!Read(s, r, kind) \in Readers
           /\ r.thrown => Codec!Read(s, r, kind) = r
           /\ ~Codec!Read(s, r, kind).thrown => Finds(s, r, kind)
  <1>1. CASE r.thrown
    <2>1. Codec!Read(s, r, kind) = r
      BY <1>1 DEF Codec!Read
    <2> QED
      BY <1>1, <2>1
  <1>2. CASE ~r.thrown
    <2>1. CASE Throws(s, r, kind)
      BY <1>2, <2>1 DEF Throws, Readers
    <2>2. CASE Finds(s, r, kind)
      <3>1. PICK v \in FieldOf(kind) : Takes(s, r, kind, v)
        BY <2>2 DEF Finds
      <3>2. v \in Field /\ Size(kind, v) \in Nat
        BY EncFacts DEF IsEnc
      <3>3. FieldTaken(r, Size(kind, v), v, Codec!Take(r, Size(kind, v), v))
        BY <1>2, <3>2, TakeFacts
      <3> QED
        BY <1>2, <2>2, <3>1, <3>3 DEF Takes, FieldTaken
    <2> QED
      BY <1>2, <2>1, <2>2, ReadFinds
  <1> QED
    BY <1>1, <1>2

-----------------------------------------------------------------------------
(* Reading fields one after the other. *)

(* Reading fields, one after the other. *)
ReadStep(s) == [p \in Readers \X Kinds |-> Codec!Read(s, p[1], p[2])]

LEMMA ReadAllFolds ==
    ASSUME NEW s \in Seq(Byte), NEW r \in Readers, NEW K \in Seq(Kinds)
    PROVE  Folds(Readers, r, ReadStep(s), K, Codec!ReadAll(s, r, K))
  <1> DEFINE G == ReadStep(s)
             Fold(it) == [x \in SUBSET DOMAIN K |->
                             IF x = {} THEN r ELSE Codec!Read(s, it[x \ {Max(x)}], K[Max(x)])]
  <1>1. PICK n \in Nat : n = Len(K) /\ DOMAIN K = 1 .. n /\ K \in [1 .. n -> Kinds]
    BY LenProperties
  <1>2. ASSUME NEW g, g = Fold(g)
        PROVE  \E it : it = Fold(it) /\ Codec!ReadAll(s, r, K) = it[DOMAIN K]
    BY <1>2 DEF Codec!ReadAll, Codec!FoldLeft, Codec!MapThenFoldSet, Codec!Max, Max
  <1>3. G \in [Readers \X Kinds -> Readers]
    BY ReadType DEF ReadStep
  <1>4. ASSUME NEW x \in SUBSET DOMAIN K, x # {}, NEW t \in Readers
        PROVE  G[<<t, K[Max(x)]>>] = Codec!Read(s, t, K[Max(x)])
    <2>1. Max(x) \in 1 .. n
      BY <1>1, <1>4, MaxExists
    <2>2. K[Max(x)] \in Kinds
      BY <1>1, <2>1
    <2> QED
      BY <2>2 DEF ReadStep
  <1> HIDE DEF G
  <1>5. PICK g \in [SUBSET DOMAIN K -> Readers] : Iterates(g, Readers, r, G, K)
    BY <1>3, FoldIteration
  <1>6. g = Fold(g)
    <2>1. ASSUME NEW x \in SUBSET DOMAIN K, x # {}
          PROVE  g[x] = Codec!Read(s, g[x \ {Max(x)}], K[Max(x)])
      <3>1. g[x \ {Max(x)}] \in Readers
        OBVIOUS
      <3> QED
        BY <1>4, <1>5, <2>1, <3>1 DEF Iterates
    <2> QED
      BY <1>5, <2>1 DEF Iterates
  <1>7. PICK it : it = Fold(it) /\ Codec!ReadAll(s, r, K) = it[DOMAIN K]
    BY <1>2, <1>6
  <1>8. Iterates(it, Readers, r, G, K)
    <2>1. it[{}] = r
      BY <1>7
    <2>2. ASSUME NEW x \in SUBSET DOMAIN K, x # {}, it[x \ {Max(x)}] \in Readers
          PROVE  it[x] = G[<<it[x \ {Max(x)}], K[Max(x)]>>]
      BY <1>4, <1>7, <2>2
    <2> QED
      BY <2>1, <2>2 DEF Iterates
  <1> HIDE DEF Fold
  <1>9. Folds(Readers, r, G, K, it[DOMAIN K])
    BY <1>3, <1>8, FoldResult
  <1> QED
    BY <1>7, <1>9 DEF G

(* The readers on the way. *)
ReadSteps(s, r, K, n, acc) ==
    /\ acc \in [0 .. n -> Readers] /\ acc[0] = r
    /\ (\A k \in 1 .. n : acc[k] = Codec!Read(s, acc[k - 1], K[k]))
    /\ acc[n] = Codec!ReadAll(s, r, K)

LEMMA ReadAllSteps ==
    ASSUME NEW s \in Seq(Byte), NEW r \in Readers, NEW K \in Seq(Kinds), NEW n \in Nat, n = Len(K)
    PROVE  \E acc : ReadSteps(s, r, K, n, acc)
  <1>1. PICK acc \in [0 .. n -> Readers] :
            /\ acc[0] = r
            /\ \A k \in 1 .. n : acc[k] = ReadStep(s)[<<acc[k - 1], K[k]>>]
            /\ acc[n] = Codec!ReadAll(s, r, K)
    <2>1. Folds(Readers, r, ReadStep(s), K, Codec!ReadAll(s, r, K))
      BY ReadAllFolds
    <2> QED
      BY <2>1 DEF Folds
  <1>2. ASSUME NEW k \in 1 .. n PROVE acc[k] = Codec!Read(s, acc[k - 1], K[k])
    <2>1. k - 1 \in 0 .. n /\ K[k] \in Kinds
      BY LenProperties
    <2>2. acc[k - 1] \in Readers
      BY <2>1
    <2> QED
      BY <1>1, <2>1, <2>2 DEF ReadStep
  <1> QED
    BY <1>1, <1>2 DEF ReadSteps

-----------------------------------------------------------------------------
(* Fields laid one after the other in a payload. *)

(* F are n fields of the kinds K, O the offsets in s between them. *)
FieldLaid(s, K, F, O, i) ==
    /\ K[i] \in Kinds /\ F[i] \in FieldOf(K[i])
    /\ O[i] = O[i - 1] + Size(K[i], F[i])
    /\ Holds(s, O[i - 1], Enc(K[i], F[i]))

Laid(s, K, F, O, n) ==
    /\ O \in [0 .. n -> Nat] /\ O[0] <= Len(s)
    /\ \A i \in 1 .. n : FieldLaid(s, K, F, O, i)

(* t is what becomes of a reader r, which has m fields, after n more. *)
Reached(r, m, t, F, O, n) ==
    /\ t \in Readers /\ ~t.thrown /\ t.offset = O[n] /\ Len(t.fields) = m + n
    /\ \A i \in 1 .. m : t.fields[i] = r.fields[i]
    /\ \A i \in 1 .. n : t.fields[m + i] = F[i]

LEMMA ReachesNext ==
    ASSUME NEW s \in Seq(Byte), NEW r, NEW m \in Nat, NEW t, NEW K, NEW F, NEW O, NEW k \in Nat,
           Reached(r, m, t, F, O, k), FieldLaid(s, K, F, O, k + 1)
    PROVE  Reached(r, m, Codec!Read(s, t, K[k + 1]), F, O, k + 1)
  <1>1. PICK kind \in Kinds : kind = K[k + 1] /\ F[k + 1] \in FieldOf(kind)
    BY DEF FieldLaid
  <1> DEFINE v == F[k + 1]
  <1> HIDE DEF v
  <1>2. k = (k + 1) - 1 /\ v \in FieldOf(kind) /\ v = F[k + 1]
    BY <1>1 DEF v
  <1>3. O[k + 1] = O[k] + Size(kind, v) /\ Holds(s, O[k], Enc(kind, v))
    <2>1. O[k + 1] = O[(k + 1) - 1] + Size(kind, v) /\ Holds(s, O[(k + 1) - 1], Enc(kind, v))
      BY <1>1, <1>2 DEF FieldLaid
    <2> QED
      BY <1>2, <2>1
  <1>4. t \in Readers /\ ~t.thrown /\ t.offset = O[k] /\ Len(t.fields) = m + k
    BY DEF Reached
  <1>5. PICK u : u = Codec!Take(t, Size(kind, v), v) /\ u = Codec!Read(s, t, kind)
    <2>1. Takes(s, t, kind, v)
      BY <1>2, <1>3, <1>4, ReadsField
    <2> QED
      BY <2>1 DEF Takes
  <1>6. FieldTaken(t, Size(kind, v), v, u)
    <2>1. v \in Field /\ Size(kind, v) \in Nat
      BY <1>2, EncFacts DEF IsEnc
    <2> QED
      BY <1>4, <1>5, <2>1, TakeFacts
  <1>7. PICK p \in Nat : p = m + k
    OBVIOUS
  <1>8. /\ u \in Readers /\ ~u.thrown /\ u.offset = O[k + 1] /\ Len(u.fields) = p + 1
        /\ (\A i \in 1 .. p : u.fields[i] = t.fields[i]) /\ u.fields[p + 1] = F[k + 1]
    BY <1>2, <1>3, <1>4, <1>6, <1>7 DEF FieldTaken
  <1>9. ASSUME NEW i \in 1 .. m PROVE u.fields[i] = r.fields[i]
    <2>1. i \in 1 .. p
      BY <1>7
    <2> QED
      BY <1>8, <2>1 DEF Reached
  <1>10. ASSUME NEW i \in 1 .. k + 1 PROVE u.fields[m + i] = F[i]
    <2>1. CASE i = k + 1
      <3>1. m + i = p + 1
        BY <1>7, <2>1
      <3> QED
        BY <1>8, <2>1, <3>1
    <2>2. CASE i # k + 1
      <3>1. i \in 1 .. k /\ m + i \in 1 .. p
        BY <1>7, <2>2
      <3> QED
        BY <1>8, <3>1 DEF Reached
    <2> QED
      BY <2>1, <2>2
  <1>11. Len(u.fields) = m + (k + 1)
    BY <1>7, <1>8
  <1> QED
    BY <1>1, <1>5, <1>8, <1>9, <1>10, <1>11 DEF Reached

LEMMA LaidReads ==
    ASSUME NEW s \in Seq(Byte), NEW r \in Readers, ~r.thrown, NEW K \in Seq(Kinds),
           NEW n \in Nat, n = Len(K), NEW m \in Nat, m = Len(r.fields), NEW F, NEW O,
           Laid(s, K, F, O, n), O[0] = r.offset
    PROVE  Reached(r, m, Codec!ReadAll(s, r, K), F, O, n)
  <1>1. PICK acc : ReadSteps(s, r, K, n, acc)
    BY ReadAllSteps
  <1> DEFINE S == {k \in Nat : k <= n => Reached(r, m, acc[k], F, O, k)}
  <1>2. 0 \in S
    <2>1. acc[0] = r /\ m + 0 = m
      BY <1>1 DEF ReadSteps
    <2> QED
      BY <2>1 DEF Reached
  <1>3. ASSUME NEW k \in Nat, k \in S PROVE k + 1 \in S
    <2> SUFFICES ASSUME k + 1 <= n PROVE Reached(r, m, acc[k + 1], F, O, k + 1)
      OBVIOUS
    <2>1. k <= n /\ k + 1 \in 1 .. n /\ (k + 1) - 1 = k
      OBVIOUS
    <2>2. Reached(r, m, acc[k], F, O, k)
      BY <1>3, <2>1
    <2>3. FieldLaid(s, K, F, O, k + 1)
      BY <2>1 DEF Laid
    <2>4. acc[k + 1] = Codec!Read(s, acc[k], K[k + 1])
      BY <1>1, <2>1 DEF ReadSteps
    <2> QED
      BY <2>2, <2>3, <2>4, ReachesNext
  <1> HIDE DEF S
  <1>4. n \in S
    BY <1>2, <1>3, Induction
  <1>5. Reached(r, m, acc[n], F, O, n)
    BY <1>4 DEF S
  <1> QED
    BY <1>1, <1>5 DEF ReadSteps

(* Whatever is read without throwing was laid where it was read. *)
IsLaid(s, r, K, n) == ~r.thrown /\ \E F, O : Laid(s, K, F, O, n) /\ O[0] = r.offset

LEMMA ReadsLaid ==
    ASSUME NEW s \in Seq(Byte), NEW r \in Readers, r.offset <= Len(s), NEW K \in Seq(Kinds),
           NEW n \in Nat, n = Len(K), ~Codec!ReadAll(s, r, K).thrown
    PROVE  IsLaid(s, r, K, n)
  <1>1. PICK acc \in [0 .. n -> Readers] :
            /\ acc[0] = r /\ ~acc[n].thrown
            /\ \A k \in 1 .. n : acc[k] = Codec!Read(s, acc[k - 1], K[k])
    <2>1. PICK acc : ReadSteps(s, r, K, n, acc)
      BY ReadAllSteps
    <2> QED
      BY <2>1 DEF ReadSteps
  <1>2. \A k \in 1 .. n : k - 1 \in 0 .. n /\ acc[k - 1] \in Readers /\ K[k] \in Kinds
    <2>1. ASSUME NEW k \in 1 .. n PROVE k - 1 \in 0 .. n /\ K[k] \in Kinds
      BY LenProperties
    <2> QED
      BY <2>1
  <1> DEFINE S == {j \in Nat : j <= n => ~acc[n - j].thrown}
  <1>3. 0 \in S
    <2>1. n - 0 = n
      OBVIOUS
    <2> QED
      BY <1>1, <2>1
  <1>4. ASSUME NEW j \in Nat, j \in S PROVE j + 1 \in S
    <2> SUFFICES ASSUME j + 1 <= n PROVE ~acc[n - (j + 1)].thrown
      OBVIOUS
    <2>1. PICK k \in 1 .. n : k = n - j /\ k - 1 = n - (j + 1)
      <3>1. n - j \in 1 .. n /\ (n - j) - 1 = n - (j + 1)
        OBVIOUS
      <3> QED
        BY <3>1
    <2>2. j <= n
      OBVIOUS
    <2>3. ~acc[k].thrown
      BY <1>4, <2>1, <2>2
    <2>4. acc[k] = Codec!Read(s, acc[k - 1], K[k]) /\ acc[k - 1] \in Readers /\ K[k] \in Kinds
      BY <1>1, <1>2
    <2>5. acc[k - 1].thrown => acc[k] = acc[k - 1]
      BY <2>4, ReadType
    <2>6. ~acc[k - 1].thrown
      BY <2>3, <2>5
    <2> QED
      BY <2>1, <2>6
  <1> HIDE DEF S
  <1>5. Nat \subseteq S
    BY <1>3, <1>4, Induction
  <1>6. ASSUME NEW k \in 0 .. n PROVE ~acc[k].thrown
    <2>1. n - k \in Nat /\ n - k <= n /\ n - (n - k) = k
      OBVIOUS
    <2>2. n - k \in S
      BY <1>5, <2>1
    <2>3. ~acc[n - (n - k)].thrown
      BY <2>1, <2>2 DEF S
    <2> QED
      BY <2>1, <2>3
  <1> DEFINE F == [k \in 1 .. n |-> CHOOSE v \in FieldOf(K[k]) :
                       Holds(s, acc[k - 1].offset, Enc(K[k], v)) /\ Takes(s, acc[k - 1], K[k], v)]
             O == [k \in 0 .. n |-> acc[k].offset]
  <1>7. O \in [0 .. n -> Nat] /\ O[0] = r.offset
    BY <1>1 DEF Readers
  <1>8. ASSUME NEW k \in 1 .. n PROVE FieldLaid(s, K, F, O, k)
    <2>1. PICK t \in Readers, kind \in Kinds :
              t = acc[k - 1] /\ kind = K[k] /\ ~t.thrown /\ acc[k] = Codec!Read(s, t, kind)
      BY <1>1, <1>2, <1>6
    <2>2. Finds(s, t, kind)
      <3>1. ~acc[k].thrown
        BY <1>6
      <3> QED
        BY <2>1, <3>1, ReadType
    <2>3. PICK v \in FieldOf(kind) :
              v = F[k] /\ Holds(s, t.offset, Enc(kind, v)) /\ Takes(s, t, kind, v)
      BY <2>1, <2>2 DEF Finds
    <2> HIDE DEF F
    <2>4. acc[k] = Codec!Take(t, Size(kind, v), v)
      BY <2>1, <2>3 DEF Takes
    <2>5. FieldTaken(t, Size(kind, v), v, acc[k])
      <3>1. v \in Field /\ Size(kind, v) \in Nat
        BY EncFacts DEF IsEnc
      <3> QED
        BY <2>1, <2>4, <3>1, TakeFacts
    <2>6. O[k] = O[k - 1] + Size(kind, v) /\ O[k - 1] = t.offset
      BY <1>2, <2>1, <2>5 DEF FieldTaken
    <2> HIDE DEF O
    <2> QED
      BY <2>1, <2>3, <2>6 DEF FieldLaid
  <1>9. Laid(s, K, F, O, n)
    <2> HIDE DEF F, O
    <2> QED
      BY <1>7, <1>8 DEF Laid
  <1>10. ~r.thrown
    BY <1>1, <1>6
  <1> QED
    <2> HIDE DEF F, O
    <2> QED
      BY <1>7, <1>9, <1>10 DEF IsLaid

LEMMA LaidEnds ==
    ASSUME NEW s \in Seq(Byte), NEW K, NEW F, NEW O, NEW n \in Nat, Laid(s, K, F, O, n),
           NEW k \in 0 .. n
    PROVE  O[k] \in Nat /\ O[k] <= Len(s)
  <1>1. CASE k = 0
    BY <1>1 DEF Laid
  <1>2. CASE k # 0
    <2>1. k \in 1 .. n /\ k - 1 \in 0 .. n
      BY <1>2
    <2>2. FieldLaid(s, K, F, O, k) /\ O[k - 1] \in Nat /\ O[k] \in Nat
      BY <2>1 DEF Laid
    <2>3. K[k] \in Kinds /\ F[k] \in FieldOf(K[k])
      BY <2>2 DEF FieldLaid
    <2>4. Len(Enc(K[k], F[k])) = Size(K[k], F[k])
      BY <2>3, EncFacts DEF IsEnc
    <2> QED
      BY <2>2, <2>4 DEF FieldLaid, Holds
  <1> QED
    BY <1>1, <1>2

(* Bytes say one thing only. *)
LEMMA OneValue ==
    ASSUME NEW s \in Seq(Byte), NEW at \in Nat, NEW kind \in Kinds,
           NEW v \in FieldOf(kind), Holds(s, at, Enc(kind, v)),
           NEW u \in FieldOf(kind), Holds(s, at, Enc(kind, u))
    PROVE  v = u
  <1>1. PICK r \in Readers : ~r.thrown /\ r.offset = at /\ Len(r.fields) = 0
    <2>1. [offset |-> at, fields |-> <<>>, thrown |-> FALSE] \in Readers
      BY EmptySeq DEF Readers
    <2> QED
      BY <2>1
  <1>2. Takes(s, r, kind, v) /\ Takes(s, r, kind, u)
    BY <1>1, ReadsField
  <1>3. v \in Field /\ u \in Field /\ Size(kind, v) \in Nat /\ Size(kind, u) \in Nat
    BY EncFacts DEF IsEnc
  <1>4. PICK t : t = Codec!Read(s, r, kind)
    OBVIOUS
  <1>5. FieldTaken(r, Size(kind, v), v, t) /\ FieldTaken(r, Size(kind, u), u, t)
    BY <1>1, <1>2, <1>3, <1>4, TakeFacts DEF Takes
  <1>6. t.fields[Len(r.fields) + 1] = v /\ t.fields[Len(r.fields) + 1] = u
    BY <1>5 DEF FieldTaken
  <1> QED
    BY <1>6

SameFields(F, O, G, P, n) ==
    /\ \A i \in 0 .. n : O[i] = P[i]
    /\ \A i \in 1 .. n : F[i] = G[i]

LEMMA LaidOnce ==
    ASSUME NEW s \in Seq(Byte), NEW K, NEW n \in Nat, NEW F, NEW O, Laid(s, K, F, O, n),
           NEW G, NEW P, Laid(s, K, G, P, n), O[0] = P[0]
    PROVE  SameFields(F, O, G, P, n)
  <1> DEFINE S == {k \in Nat : k <= n => O[k] = P[k]}
  <1>1. ASSUME NEW i \in 1 .. n, O[i - 1] = P[i - 1] PROVE F[i] = G[i] /\ O[i] = P[i]
    <2>1. FieldLaid(s, K, F, O, i) /\ FieldLaid(s, K, G, P, i) /\ O[i - 1] \in Nat
      <3>1. i - 1 \in 0 .. n
        OBVIOUS
      <3> QED
        BY <3>1 DEF Laid
    <2>2. /\ K[i] \in Kinds /\ F[i] \in FieldOf(K[i]) /\ G[i] \in FieldOf(K[i])
          /\ Holds(s, O[i - 1], Enc(K[i], F[i])) /\ Holds(s, P[i - 1], Enc(K[i], G[i]))
          /\ O[i] = O[i - 1] + Size(K[i], F[i]) /\ P[i] = P[i - 1] + Size(K[i], G[i])
      BY <2>1 DEF FieldLaid
    <2>3. F[i] = G[i]
      BY <1>1, <2>1, <2>2, OneValue
    <2> QED
      BY <1>1, <2>2, <2>3
  <1>2. 0 \in S
    OBVIOUS
  <1>3. ASSUME NEW k \in Nat, k \in S PROVE k + 1 \in S
    <2> SUFFICES ASSUME k + 1 <= n PROVE O[k + 1] = P[k + 1]
      OBVIOUS
    <2>1. k <= n /\ k + 1 \in 1 .. n /\ (k + 1) - 1 = k
      OBVIOUS
    <2>2. O[k] = P[k]
      BY <1>3, <2>1
    <2>3. O[(k + 1) - 1] = P[(k + 1) - 1]
      BY <2>1, <2>2
    <2> QED
      BY <1>1, <2>1, <2>3
  <1> HIDE DEF S
  <1>4. Nat \subseteq S
    BY <1>2, <1>3, Induction
  <1>5. ASSUME NEW k \in 0 .. n PROVE O[k] = P[k]
    BY <1>4 DEF S
  <1>6. ASSUME NEW i \in 1 .. n PROVE F[i] = G[i]
    <2>1. i - 1 \in 0 .. n
      OBVIOUS
    <2>2. O[i - 1] = P[i - 1]
      BY <1>5, <2>1
    <2> QED
      BY <1>1, <2>2
  <1> QED
    BY <1>5, <1>6 DEF SameFields

LEMMA LaidLonger ==
    ASSUME NEW s \in Seq(Byte), NEW t \in Seq(Byte), StartOf(s, t),
           NEW K, NEW F, NEW O, NEW n \in Nat, Laid(s, K, F, O, n)
    PROVE  Laid(t, K, F, O, n)
  <1>1. PICK l \in Nat, m \in Nat : l = Len(s) /\ m = Len(t) /\ l <= m
    BY LenProperties DEF StartOf
  <1>2. O \in [0 .. n -> Nat] /\ O[0] <= l
    BY <1>1 DEF Laid
  <1>3. O[0] <= m
    BY <1>1, <1>2
  <1>4. ASSUME NEW i \in 1 .. n PROVE FieldLaid(t, K, F, O, i)
    <2>1. FieldLaid(s, K, F, O, i) /\ O[i - 1] \in Nat
      <3>1. i - 1 \in 0 .. n
        OBVIOUS
      <3> QED
        BY <1>2, <3>1 DEF Laid
    <2>2. Enc(K[i], F[i]) \in Seq(Byte)
      BY <2>1, EncFacts DEF FieldLaid, IsEnc
    <2>3. Holds(t, O[i - 1], Enc(K[i], F[i]))
      BY <2>1, <2>2, HoldsLonger DEF FieldLaid
    <2> QED
      BY <2>1, <2>3 DEF FieldLaid
  <1> QED
    BY <1>1, <1>2, <1>3, <1>4 DEF Laid

(* What is laid in b is laid in a \o b, further on. *)
LaidAfter(t, K, F, O, n, i) == Laid(t, K, F, [k \in 0 .. n |-> i + O[k]], n)

LEMMA LaidShift ==
    ASSUME NEW a, NEW i \in Nat, NEW b \in Seq(Byte), NEW j \in Nat, NEW t, Joins(a, i, b, j, t),
           NEW K, NEW F, NEW O, NEW n \in Nat, Laid(b, K, F, O, n)
    PROVE  LaidAfter(t, K, F, O, n, i)
  <1> DEFINE P == [k \in 0 .. n |-> i + O[k]]
  <1>1. t \in Seq(Byte) /\ Len(t) = i + j /\ Len(b) = j /\ Holds(t, i, b)
    BY DEF Joins
  <1>2. O \in [0 .. n -> Nat] /\ O[0] <= j
    BY <1>1 DEF Laid
  <1>3. P \in [0 .. n -> Nat] /\ P[0] = i + O[0]
    BY <1>2
  <1>4. P[0] <= i + j
    BY <1>2, <1>3
  <1>5. ASSUME NEW k \in 1 .. n PROVE FieldLaid(t, K, F, P, k)
    <2>1. PICK x \in Nat, y \in Nat : x = O[k - 1] /\ y = O[k] /\ P[k] = i + y /\ P[k - 1] = i + x
      <3>1. k - 1 \in 0 .. n /\ k \in 0 .. n
        OBVIOUS
      <3> QED
        BY <1>2, <3>1
    <2> HIDE DEF P
    <2>2. /\ K[k] \in Kinds /\ F[k] \in FieldOf(K[k])
          /\ y = x + Size(K[k], F[k]) /\ Holds(b, x, Enc(K[k], F[k]))
      BY <2>1 DEF Laid, FieldLaid
    <2>3. PICK e \in Seq(Byte), l \in Nat : e = Enc(K[k], F[k]) /\ l = Len(e)
                                            /\ l = Size(K[k], F[k])
      BY <2>2, EncFacts, LenProperties DEF IsEnc
    <2>4. x + l <= j /\ \A c \in 1 .. l : b[x + c] = e[c]
      BY <1>1, <2>2, <2>3 DEF Holds
    <2>5. ASSUME NEW c \in 1 .. l PROVE t[(i + x) + c] = e[c]
      <3>1. x + c \in 1 .. j /\ i + (x + c) = (i + x) + c
        BY <2>4
      <3>2. t[i + (x + c)] = b[x + c]
        BY <1>1, <3>1 DEF Holds
      <3> QED
        BY <2>4, <3>1, <3>2
    <2>6. (i + x) + l <= i + j
      BY <2>4
    <2>7. Holds(t, P[k - 1], e)
      BY <1>1, <2>1, <2>3, <2>5, <2>6 DEF Holds
    <2>8. P[k] = P[k - 1] + Size(K[k], F[k])
      BY <2>1, <2>2, <2>3
    <2> QED
      BY <2>2, <2>3, <2>7, <2>8 DEF FieldLaid
  <1>6. Laid(t, K, F, P, n)
    <2> HIDE DEF P
    <2> QED
      BY <1>1, <1>3, <1>4, <1>5 DEF Laid
  <1> QED
    BY <1>6 DEF LaidAfter

(* Fields that are equal but for number x, which is as long in both, are    *)
(* the same bytes but for those of that field.                              *)
Inside(O, x, j) == O[x - 1] < j /\ j <= O[x]

Alike(s, t, O, P, x, n) ==
    /\ O[n] = P[n]
    /\ \A j \in Nat : O[0] < j /\ j <= O[n] => s[j] = t[j] \/ (x \in 1 .. n /\ Inside(O, x, j))

LEMMA AlikeNext ==
    ASSUME NEW s \in Seq(Byte), NEW t \in Seq(Byte), NEW K, NEW F, NEW O, NEW G, NEW P,
           NEW x \in Nat, NEW k \in Nat, O[k] \in Nat, Alike(s, t, O, P, x, k),
           FieldLaid(s, K, F, O, k + 1), FieldLaid(t, K, G, P, k + 1),
           k + 1 # x => F[k + 1] = G[k + 1],
           Size(K[k + 1], F[k + 1]) = Size(K[k + 1], G[k + 1])
    PROVE  Alike(s, t, O, P, x, k + 1)
  <1>1. PICK a \in Nat : a = O[k] /\ a = P[k] /\ (k + 1) - 1 = k
    BY DEF Alike
  <1>2. /\ K[k + 1] \in Kinds /\ F[k + 1] \in FieldOf(K[k + 1]) /\ G[k + 1] \in FieldOf(K[k + 1])
        /\ O[k + 1] = a + Size(K[k + 1], F[k + 1]) /\ Holds(s, a, Enc(K[k + 1], F[k + 1]))
        /\ P[k + 1] = a + Size(K[k + 1], G[k + 1]) /\ Holds(t, a, Enc(K[k + 1], G[k + 1]))
    BY <1>1 DEF FieldLaid
  <1>3. PICK e \in Seq(Byte), l \in Nat : e = Enc(K[k + 1], F[k + 1]) /\ l = Len(e)
                                          /\ l = Size(K[k + 1], F[k + 1])
    BY <1>2, EncFacts DEF IsEnc
  <1>4. O[k + 1] = a + l /\ P[k + 1] = a + l
    BY <1>2, <1>3
  <1>5. ASSUME NEW j \in Nat, O[0] < j, j <= a + l
        PROVE  s[j] = t[j] \/ (x \in 1 .. k + 1 /\ Inside(O, x, j))
    <2>1. CASE j <= a
      <3>1. s[j] = t[j] \/ (x \in 1 .. k /\ Inside(O, x, j))
        BY <1>1, <1>5, <2>1 DEF Alike
      <3>2. x \in 1 .. k => x \in 1 .. k + 1
        OBVIOUS
      <3> QED
        BY <3>1, <3>2
    <2>2. CASE a < j /\ x = k + 1
      <3>1. x \in 1 .. k + 1 /\ x - 1 = k
        BY <2>2
      <3>2. O[x - 1] = a /\ O[x] = a + l
        BY <1>1, <1>4, <2>2, <3>1
      <3>3. Inside(O, x, j)
        BY <1>5, <2>2, <3>2 DEF Inside
      <3> QED
        BY <3>1, <3>3
    <2>3. CASE a < j /\ x # k + 1
      <3>1. PICK c \in 1 .. l : j = a + c
        <4>1. j - a \in 1 .. l /\ j = a + (j - a)
          BY <1>5, <2>3
        <4> QED
          BY <4>1
      <3>2. Holds(s, a, e) /\ Holds(t, a, e)
        BY <1>2, <1>3, <2>3
      <3>3. s[a + c] = e[c] /\ t[a + c] = e[c]
        BY <1>3, <3>2 DEF Holds
      <3> QED
        BY <3>1, <3>3
    <2> QED
      BY <2>1, <2>2, <2>3
  <1> QED
    BY <1>4, <1>5 DEF Alike

LEMMA LaidAlike ==
    ASSUME NEW s \in Seq(Byte), NEW t \in Seq(Byte), NEW K, NEW n \in Nat,
           NEW F, NEW O, Laid(s, K, F, O, n), NEW G, NEW P, Laid(t, K, G, P, n), O[0] = P[0],
           NEW x \in Nat, \A i \in 1 .. n : i # x => F[i] = G[i],
           x \in 1 .. n => Size(K[x], F[x]) = Size(K[x], G[x])
    PROVE  Alike(s, t, O, P, x, n)
  <1> DEFINE S == {k \in Nat : k <= n => Alike(s, t, O, P, x, k)}
  <1>1. 0 \in S
    <2>1. O[0] \in Nat
      BY DEF Laid
    <2> QED
      BY <2>1 DEF Alike
  <1>2. ASSUME NEW k \in Nat, k \in S PROVE k + 1 \in S
    <2> SUFFICES ASSUME k + 1 <= n PROVE Alike(s, t, O, P, x, k + 1)
      OBVIOUS
    <2>1. k <= n /\ k \in 0 .. n /\ k + 1 \in 1 .. n
      OBVIOUS
    <2>2. Alike(s, t, O, P, x, k)
      BY <1>2, <2>1
    <2>3. O[k] \in Nat /\ FieldLaid(s, K, F, O, k + 1) /\ FieldLaid(t, K, G, P, k + 1)
      BY <2>1 DEF Laid
    <2>4. k + 1 # x => F[k + 1] = G[k + 1]
      BY <2>1
    <2>5. Size(K[k + 1], F[k + 1]) = Size(K[k + 1], G[k + 1])
      BY <2>1, <2>4
    <2> QED
      BY <2>2, <2>3, <2>4, <2>5, AlikeNext
  <1> HIDE DEF S
  <1>3. n \in S
    BY <1>1, <1>2, Induction
  <1> QED
    BY <1>3 DEF S

(* s is what the first n of the fields F are written as. *)
Wrote(s, K, F, n) ==
    s \in Seq(Byte) /\ \E O : Laid(s, K, F, O, n) /\ O[0] = 0 /\ O[n] = Len(s)

Writes(kind, v, e) == kind \in Kinds /\ v \in FieldOf(kind) /\ e = Enc(kind, v)

LEMMA WroteNothing ==
    ASSUME NEW K, NEW F
    PROVE  Wrote(<<>>, K, F, 0)
  <1> DEFINE O == [k \in 0 .. 0 |-> 0]
  <1>1. O \in [0 .. 0 -> Nat] /\ O[0] = 0 /\ Len(<<>>) = 0 /\ <<>> \in Seq(Byte)
    BY EmptySeq
  <1> HIDE DEF O
  <1>2. Laid(<<>>, K, F, O, 0)
    BY <1>1 DEF Laid
  <1> QED
    BY <1>1, <1>2 DEF Wrote

LEMMA WroteNext ==
    ASSUME NEW s, NEW K, NEW F, NEW n \in Nat, Wrote(s, K, F, n),
           NEW e, Writes(K[n + 1], F[n + 1], e), NEW t, t = s \o e
    PROVE  Wrote(t, K, F, n + 1)
  <1>1. PICK O : Laid(s, K, F, O, n) /\ O[0] = 0 /\ O[n] = Len(s) /\ s \in Seq(Byte)
    BY DEF Wrote
  <1>2. PICK i \in Nat : i = Len(s) /\ i = O[n]
    BY <1>1, LenProperties
  <1>3. K[n + 1] \in Kinds /\ F[n + 1] \in FieldOf(K[n + 1]) /\ e = Enc(K[n + 1], F[n + 1])
    BY DEF Writes
  <1>4. PICK j \in Nat : j = Len(e) /\ e \in Seq(Byte) /\ j = Size(K[n + 1], F[n + 1])
    BY <1>3, EncFacts DEF IsEnc
  <1>5. Joins(s, i, e, j, t)
    BY <1>1, <1>2, <1>4, JoinFacts
  <1>6. t \in Seq(Byte) /\ Len(t) = i + j /\ StartOf(s, t) /\ Holds(t, i, e)
    BY <1>5 DEF Joins
  <1>7. Laid(t, K, F, O, n)
    BY <1>1, <1>6, LaidLonger
  <1> DEFINE P == [k \in 0 .. n + 1 |-> IF k = n + 1 THEN i + j ELSE O[k]]
  <1>8. P \in [0 .. n + 1 -> Nat]
    <2>1. ASSUME NEW k \in 0 .. n + 1 PROVE (IF k = n + 1 THEN i + j ELSE O[k]) \in Nat
      <3>1. k # n + 1 => k \in 0 .. n
        OBVIOUS
      <3> QED
        BY <1>7, <3>1 DEF Laid
    <2> QED
      BY <2>1
  <1>9. P[n + 1] = i + j /\ \A k \in 0 .. n : P[k] = O[k]
    OBVIOUS
  <1>10. P[0] = 0 /\ P[n] = i
    BY <1>1, <1>2, <1>9
  <1> HIDE DEF P
  <1>11. ASSUME NEW k \in 1 .. n + 1 PROVE FieldLaid(t, K, F, P, k)
    <2>1. CASE k = n + 1
      <3>1. k - 1 = n
        BY <2>1
      <3>2. P[k - 1] = i /\ P[k] = i + j
        BY <1>9, <1>10, <2>1, <3>1
      <3> QED
        BY <1>3, <1>4, <1>6, <2>1, <3>2 DEF FieldLaid
    <2>2. CASE k # n + 1
      <3>1. k \in 1 .. n /\ k \in 0 .. n /\ k - 1 \in 0 .. n
        BY <2>2
      <3>2. FieldLaid(t, K, F, O, k) /\ P[k] = O[k] /\ P[k - 1] = O[k - 1]
        BY <1>7, <1>9, <3>1 DEF Laid
      <3> QED
        BY <3>2 DEF FieldLaid
    <2> QED
      BY <2>1, <2>2
  <1>12. Laid(t, K, F, P, n + 1)
    <2>1. 0 <= Len(t)
      BY <1>6
    <2> QED
      BY <1>8, <1>10, <1>11, <2>1 DEF Laid
  <1> QED
    BY <1>6, <1>9, <1>10, <1>12 DEF Wrote

LEMMA WroteFirst ==
    ASSUME NEW K, NEW F, NEW e, Writes(K[1], F[1], e)
    PROVE  Wrote(e, K, F, 1)
  <1>1. e \in Seq(Byte)
    BY EncFacts DEF Writes, IsEnc
  <1>2. PICK t : t = <<>> \o e /\ t = e
    BY <1>1, EmptySeq
  <1>3. 0 \in Nat /\ 0 + 1 = 1
    OBVIOUS
  <1>4. Wrote(<<>>, K, F, 0)
    BY WroteNothing
  <1>5. Writes(K[0 + 1], F[0 + 1], e)
    BY <1>3
  <1>6. Wrote(t, K, F, 0 + 1)
    BY <1>2, <1>3, <1>4, <1>5, WroteNext
  <1> QED
    BY <1>2, <1>3, <1>6

-----------------------------------------------------------------------------
(* Responses come back. *)

(* What a reader has that read n fields F of a payload which begins with s. *)
Gives(r, s, F, n) ==
    /\ r \in Readers /\ ~r.thrown /\ r.offset = Len(s) /\ Len(r.fields) = n
    /\ \A i \in 1 .. n : r.fields[i] = F[i]

LEMMA ReaderFacts ==
    /\ Codec!Reader \in Readers /\ ~Codec!Reader.thrown
    /\ Codec!Reader.offset = 0 /\ Len(Codec!Reader.fields) = 0
  BY EmptySeq DEF Codec!Reader, Readers

LEMMA WroteReads ==
    ASSUME NEW K \in Seq(Kinds), NEW n \in Nat, n = Len(K), NEW F, NEW s, Wrote(s, K, F, n),
           NEW t \in Seq(Byte), StartOf(s, t)
    PROVE  Gives(Codec!ReadAll(t, Codec!Reader, K), s, F, n)
  <1>1. PICK O : Laid(s, K, F, O, n) /\ O[0] = 0 /\ O[n] = Len(s) /\ s \in Seq(Byte)
    BY DEF Wrote
  <1>2. Laid(t, K, F, O, n)
    BY <1>1, LaidLonger
  <1>3. PICK r : r = Codec!ReadAll(t, Codec!Reader, K)
    OBVIOUS
  <1>4. Reached(Codec!Reader, 0, r, F, O, n)
    BY <1>1, <1>2, <1>3, ReaderFacts, LaidReads
  <1>5. /\ r \in Readers /\ ~r.thrown /\ r.offset = O[n] /\ Len(r.fields) = 0 + n
        /\ \A i \in 1 .. n : r.fields[0 + i] = F[i]
    BY <1>4 DEF Reached
  <1>6. 0 + n = n /\ \A i \in 1 .. n : 0 + i = i
    OBVIOUS
  <1> QED
    BY <1>1, <1>3, <1>5, <1>6 DEF Gives

(* The other way round: what is read from a payload is what it was written as. *)
LEMMA ReadsWrote ==
    ASSUME NEW K \in Seq(Kinds), NEW n \in Nat, n = Len(K), NEW t \in Seq(Byte),
           ~Codec!ReadAll(t, Codec!Reader, K).thrown
    PROVE  IsLaid(t, Codec!Reader, K, n)
  <1>1. Codec!Reader.offset <= Len(t)
    BY ReaderFacts, LenProperties
  <1> QED
    BY <1>1, ReaderFacts, ReadsLaid

LEMMA WritesStr ==
    ASSUME NEW v \in Text PROVE Writes("str", v, Codec!Str(v))
  BY DEF Writes, Kinds, FieldOf, Enc

LEMMA WritesWord ==
    ASSUME NEW v \in Word PROVE Writes("u32", v, Codec!U32(v))
  BY DEF Writes, Kinds, FieldOf, Enc

LEMMA WritesByte ==
    ASSUME NEW v \in Byte PROVE Writes("u8", v, <<v>>)
  BY DEF Writes, Kinds, FieldOf, Enc

LEMMA WritesRole ==
    ASSUME NEW v \in Range(Codec!Roles)
    PROVE  Writes("role", v, <<Codec!Code(Codec!Roles, v)>>)
  BY DEF Writes, Kinds, FieldOf, Enc

-----------------------------------------------------------------------------
(* Responses. *)

ResponseKinds == <<"str", "str", "u8", "str", "u32", "u32", "u32", "str">>

ResponseFields(response) ==
    <<ResponseMagic, response.id, Codec!Code(Codec!Statuses, response.status), response.text,
      response.prompt_tokens, response.completion_tokens, response.elapsed_ms,
      response.error_message>>

ResponsePayload(response) == Codec!EncodeResponse(response, "", "").payload

ResponseOf(payload) == Codec!Message("", "", "LLM_RESPONSE", payload)

LEMMA ResponseKindsFacts ==
    /\ ResponseKinds \in Seq(Kinds) /\ Len(ResponseKinds) = 8
    /\ ResponseKinds[1] = "str" /\ ResponseKinds[2] = "str" /\ ResponseKinds[3] = "u8"
    /\ ResponseKinds[4] = "str" /\ ResponseKinds[5] = "u32" /\ ResponseKinds[6] = "u32"
    /\ ResponseKinds[7] = "u32" /\ ResponseKinds[8] = "str"
  BY DEF ResponseKinds, Kinds

LEMMA StatusCode ==
    ASSUME NEW status \in Range(Codec!Statuses)
    PROVE  /\ Codec!Code(Codec!Statuses, status) \in Byte
           /\ Codec!StatusOf(Codec!Code(Codec!Statuses, status)) = status
  <1>1. PICK code \in 0 .. 4 :
            code = Codec!Code(Codec!Statuses, status) /\ Codec!Statuses[code + 1] = status
    BY RolesCoded DEF Coded
  <1>2. code \in Byte
    <2>1. 5 <= Radix
      BY RolesCoded DEF Coded
    <2> QED
      BY <2>1, RadixAssumption DEF Byte
  <1>3. code < Len(Codec!Statuses)
    BY RolesCoded
  <1>4. Codec!StatusOf(code) = status
    BY <1>1, <1>3 DEF Codec!StatusOf
  <1> QED
    BY <1>1, <1>2, <1>4

LEMMA ResponseWrote ==
    ASSUME NEW response \in Response
    PROVE  Wrote(ResponsePayload(response), ResponseKinds, ResponseFields(response), 8)
  <1> DEFINE K == ResponseKinds
             F == ResponseFields(response)
             code == Codec!Code(Codec!Statuses, response.status)
  <1>1. /\ response.id \in Text /\ response.text \in Text /\ response.error_message \in Text
        /\ response.prompt_tokens \in Word /\ response.completion_tokens \in Word
        /\ response.elapsed_ms \in Word /\ response.status \in Range(Codec!Statuses)
    BY DEF Response
  <1>2. code \in Byte /\ ResponseMagic \in Text
    BY <1>1, StatusCode, CodecFits
  <1>3. /\ F[1] = ResponseMagic /\ F[2] = response.id /\ F[3] = code /\ F[4] = response.text
        /\ F[5] = response.prompt_tokens /\ F[6] = response.completion_tokens
        /\ F[7] = response.elapsed_ms /\ F[8] = response.error_message
    BY DEF ResponseFields
  <1> HIDE DEF K, F, code
  <1>4. PICK e1, e2, e3, e4, e5, e6, e7, e8 :
            /\ e1 = Codec!Str(ResponseMagic) /\ e2 = Codec!Str(response.id)
            /\ e3 = <<code>> /\ e4 = Codec!Str(response.text)
            /\ e5 = Codec!U32(response.prompt_tokens)
            /\ e6 = Codec!U32(response.completion_tokens)
            /\ e7 = Codec!U32(response.elapsed_ms) /\ e8 = Codec!Str(response.error_message)
    OBVIOUS
  <1>5. /\ K[1] = "str" /\ K[2] = "str" /\ K[3] = "u8" /\ K[4] = "str"
        /\ K[5] = "u32" /\ K[6] = "u32" /\ K[7] = "u32" /\ K[8] = "str"
    BY ResponseKindsFacts DEF K
  <1>6. /\ Writes(K[1], F[1], e1) /\ Writes(K[2], F[2], e2) /\ Writes(K[3], F[3], e3)
        /\ Writes(K[4], F[4], e4)
    BY <1>1, <1>2, <1>3, <1>4, <1>5, WritesStr, WritesByte
  <1>7. /\ Writes(K[5], F[5], e5) /\ Writes(K[6], F[6], e6) /\ Writes(K[7], F[7], e7)
        /\ Writes(K[8], F[8], e8)
    BY <1>1, <1>3, <1>4, <1>5, WritesStr, WritesWord
  <1>8. PICK s2, s3, s4, s5, s6, s7, s8 :
            /\ s2 = e1 \o e2 /\ s3 = s2 \o e3 /\ s4 = s3 \o e4 /\ s5 = s4 \o e5
            /\ s6 = s5 \o e6 /\ s7 = s6 \o e7 /\ s8 = s7 \o e8
    OBVIOUS
  <1>9. s8 = ResponsePayload(response)
    BY <1>4, <1>8 DEF ResponsePayload, Codec!EncodeResponse, Codec!Message, code
  <1>10. /\ 1 + 1 = 2 /\ 2 + 1 = 3 /\ 3 + 1 = 4 /\ 4 + 1 = 5 /\ 5 + 1 = 6 /\ 6 + 1 = 7
         /\ 7 + 1 = 8
    OBVIOUS
  <1>11. Wrote(e1, K, F, 1)
    BY <1>6, WroteFirst
  <1>12. Wrote(s2, K, F, 1 + 1)
    BY <1>6, <1>8, <1>10, <1>11, WroteNext
  <1>13. Wrote(s3, K, F, 2 + 1)
    BY <1>6, <1>8, <1>10, <1>12, WroteNext
  <1>14. Wrote(s4, K, F, 3 + 1)
    BY <1>6, <1>8, <1>10, <1>13, WroteNext
  <1>15. Wrote(s5, K, F, 4 + 1)
    BY <1>7, <1>8, <1>10, <1>14, WroteNext
  <1>16. Wrote(s6, K, F, 5 + 1)
    BY <1>7, <1>8, <1>10, <1>15, WroteNext
  <1>17. Wrote(s7, K, F, 6 + 1)
    BY <1>7, <1>8, <1>10, <1>16, WroteNext
  <1>18. Wrote(s8, K, F, 7 + 1)
    BY <1>7, <1>8, <1>10, <1>17, WroteNext
  <1> QED
    BY <1>9, <1>10, <1>18 DEF K, F

(* LLMMessageCodec.cpp: decode_response of what encode_response wrote, and *)
(* of more bytes after it, gives every field back.                         *)
THEOREM ResponseComesBack ==
    ASSUME NEW response \in Response, NEW t \in Seq(Byte), StartOf(ResponsePayload(response), t)
    PROVE  /\ Codec!ResponseDecodes(ResponseOf(t))
           /\ Codec!DecodedResponse(ResponseOf(t)) = response
  <1>1. PICK F : F = ResponseFields(response)
    OBVIOUS
  <1>2. PICK r : r = Codec!ReadResponse(t)
    OBVIOUS
  <1>3. Gives(r, ResponsePayload(response), F, 8)
    <2>1. r = Codec!ReadAll(t, Codec!Reader, ResponseKinds)
      BY <1>2 DEF Codec!ReadResponse, ResponseKinds
    <2> QED
      BY <1>1, <2>1, ResponseWrote, ResponseKindsFacts, WroteReads
  <1>4. ~r.thrown /\ \A i \in 1 .. 8 : r.fields[i] = F[i]
    BY <1>3 DEF Gives
  <1>5. /\ r.fields[1] = ResponseMagic /\ r.fields[2] = response.id
        /\ r.fields[3] = Codec!Code(Codec!Statuses, response.status)
        /\ r.fields[4] = response.text /\ r.fields[5] = response.prompt_tokens
        /\ r.fields[6] = response.completion_tokens /\ r.fields[7] = response.elapsed_ms
        /\ r.fields[8] = response.error_message
    BY <1>1, <1>4 DEF ResponseFields
  <1>6. ResponseOf(t).name = "LLM_RESPONSE" /\ ResponseOf(t).payload = t
    BY DEF ResponseOf, Codec!Message
  <1>7. Codec!ResponseDecodes(ResponseOf(t))
    BY <1>2, <1>4, <1>5, <1>6 DEF Codec!ResponseDecodes
  <1>8. Codec!StatusOf(r.fields[3]) = response.status
    BY <1>5, StatusCode DEF Response
  <1>9. Codec!DecodedResponse(ResponseOf(t)) =
            [id |-> response.id, status |-> response.status, text |-> response.text,
             prompt_tokens |-> response.prompt_tokens,
             completion_tokens |-> response.completion_tokens,
             elapsed_ms |-> response.elapsed_ms, error_message |-> response.error_message]
    BY <1>2, <1>5, <1>6, <1>8 DEF Codec!DecodedResponse
  <1> QED
    BY <1>7, <1>9 DEF Response

-----------------------------------------------------------------------------
(* Prompts and requests come back. *)

(* FlattenSeq joins its sequences one after the other. *)
Flattens(seqs, n, f) ==
    /\ f \in [0 .. n -> Seq(Byte)] /\ f[0] = <<>>
    /\ (\A i \in 1 .. n : f[i] = f[i - 1] \o seqs[i])
    /\ f[n] = Codec!FlattenSeq(seqs)

LEMMA FlattenFacts ==
    ASSUME NEW seqs \in Seq(Seq(Byte)), NEW n \in Nat, n = Len(seqs)
    PROVE  \E f : Flattens(seqs, n, f)
  <1> DEFINE V == Seq(Byte)
             P(f) == [i \in 1 .. n |-> IF i = 1 THEN seqs[i] ELSE f[i - 1] \o seqs[i]]
             G == [p \in Nat \X V |-> IF p[1] \in 1 .. n THEN p[2] \o seqs[p[1]] ELSE p[2]]
  <1>1. \A i \in 1 .. n : seqs[i] \in V
    BY LenProperties
  <1>2. \A a, b \in V : a \o b \in V
    BY ConcatProperties
  <1>3. <<>> \in V /\ \A a \in V : <<>> \o a = a
    BY EmptySeq
  <1> HIDE DEF V
  <1>4. G \in [Nat \X V -> V]
    <2>1. ASSUME NEW p \in Nat \X V
          PROVE  (IF p[1] \in 1 .. n THEN p[2] \o seqs[p[1]] ELSE p[2]) \in V
      <3>1. p[2] \in V
        OBVIOUS
      <3>2. p[1] \in 1 .. n => p[2] \o seqs[p[1]] \in V
        BY <1>1, <1>2, <3>1
      <3> QED
        BY <3>1, <3>2
    <2> QED
      BY <2>1
  <1>5. PICK f : Recurs(f, V, <<>>, G)
    <2> HIDE DEF G
    <2> QED
      BY <1>3, <1>4, RecursionExists
  <1>6. f \in [Nat -> V] /\ f[0] = <<>> /\ \A k \in 1 .. n : f[k] = f[k - 1] \o seqs[k]
    <2>1. f \in [Nat -> V] /\ f[0] = <<>>
      BY <1>5 DEF Recurs
    <2>2. ASSUME NEW k \in 1 .. n PROVE f[k] = f[k - 1] \o seqs[k]
      <3>1. k - 1 \in Nat /\ (k - 1) + 1 = k /\ k \in Nat
        OBVIOUS
      <3>2. f[k - 1] \in V
        BY <2>1, <3>1
      <3>3. f[(k - 1) + 1] = G[<<(k - 1) + 1, f[k - 1]>>]
        BY <1>5, <3>1 DEF Recurs
      <3>4. G[<<k, f[k - 1]>>] = f[k - 1] \o seqs[k]
        BY <3>1, <3>2
      <3> QED
        BY <3>1, <3>3, <3>4
    <2> QED
      BY <2>1, <2>2
  <1> HIDE DEF G
  <1> DEFINE h == [k \in 1 .. n |-> f[k]]
  <1>7. h = P(h)
    <2>1. ASSUME NEW k \in 1 .. n PROVE h[k] = IF k = 1 THEN seqs[k] ELSE h[k - 1] \o seqs[k]
      <3>1. CASE k = 1
        <4>1. k - 1 = 0 /\ seqs[k] \in V
          BY <1>1, <3>1
        <4>2. f[k] = <<>> \o seqs[k]
          BY <1>6, <4>1
        <4> QED
          BY <1>3, <3>1, <4>1, <4>2
      <3>2. CASE k # 1
        <4>1. k - 1 \in 1 .. n
          BY <3>2
        <4> QED
          BY <1>6, <3>2, <4>1
      <3> QED
        BY <3>1, <3>2
    <2> QED
      BY <2>1
  <1>8. CASE n = 0
    <2>1. seqs = <<>>
      BY <1>8, EmptySeq
    <2>2. Codec!FlattenSeq(seqs) = <<>>
      BY <1>8, <2>1 DEF Codec!FlattenSeq
    <2> DEFINE g == [k \in 0 .. 0 |-> <<>>]
    <2>3. g \in [0 .. 0 -> V] /\ g[0] = <<>>
      BY <1>3
    <2> HIDE DEF g
    <2>4. Flattens(seqs, n, g)
      BY <1>8, <2>2, <2>3 DEF Flattens, V
    <2> QED
      BY <2>4
  <1>9. CASE n # 0
    <2>1. ASSUME NEW d, d = P(d)
          PROVE  \E g : g = P(g) /\ Codec!FlattenSeq(seqs) = g[n]
      BY <1>9, <2>1 DEF Codec!FlattenSeq
    <2>2. PICK g : g = P(g) /\ Codec!FlattenSeq(seqs) = g[n]
      BY <1>7, <2>1
    <2>3. \A k \in 1 .. n : g[k] = IF k = 1 THEN seqs[k] ELSE g[k - 1] \o seqs[k]
      BY <2>2
    <2> HIDE DEF P, h
    <2> DEFINE S == {k \in Nat : k + 1 <= n => g[k + 1] = f[k + 1]}
    <2>4. 0 \in S
      <3>1. 1 \in 1 .. n /\ 0 + 1 = 1 /\ 1 - 1 = 0
        BY <1>9
      <3>2. seqs[1] \in V /\ f[1] = <<>> \o seqs[1]
        BY <1>1, <1>6, <3>1
      <3> QED
        BY <1>3, <2>3, <3>1, <3>2
    <2>5. ASSUME NEW k \in Nat, k \in S PROVE k + 1 \in S
      <3> SUFFICES ASSUME (k + 1) + 1 <= n PROVE g[(k + 1) + 1] = f[(k + 1) + 1]
        OBVIOUS
      <3>1. PICK c \in 1 .. n : c = (k + 1) + 1 /\ c - 1 = k + 1 /\ c # 1 /\ k + 1 <= n
        <4>1. (k + 1) + 1 \in 1 .. n /\ ((k + 1) + 1) - 1 = k + 1 /\ (k + 1) + 1 # 1 /\ k + 1 <= n
          OBVIOUS
        <4> QED
          BY <4>1
      <3>2. g[c - 1] = f[c - 1]
        BY <2>5, <3>1
      <3>3. g[c] = g[c - 1] \o seqs[c] /\ f[c] = f[c - 1] \o seqs[c]
        BY <1>6, <2>3, <3>1
      <3> QED
        BY <3>1, <3>2, <3>3
    <2> HIDE DEF S
    <2>6. Nat \subseteq S
      BY <2>4, <2>5, Induction
    <2>7. g[n] = f[n]
      <3>1. n - 1 \in Nat /\ (n - 1) + 1 = n
        BY <1>9
      <3>2. n - 1 \in S
        BY <2>6, <3>1
      <3> QED
        BY <3>1, <3>2 DEF S
    <2> DEFINE e == [k \in 0 .. n |-> f[k]]
    <2>8. e \in [0 .. n -> V] /\ e[0] = <<>> /\ e[n] = f[n]
      BY <1>6
    <2>9. ASSUME NEW i \in 1 .. n PROVE e[i] = e[i - 1] \o seqs[i]
      <3>1. i \in 0 .. n /\ i - 1 \in 0 .. n
        OBVIOUS
      <3> QED
        BY <1>6, <3>1
    <2> HIDE DEF e
    <2>10. Flattens(seqs, n, e)
      BY <2>2, <2>7, <2>8, <2>9 DEF Flattens, V
    <2> QED
      BY <2>10
  <1> QED
    BY <1>8, <1>9

(* The fields of a prompt. *)
TurnFields(prompt) ==
    [i \in 1 .. 2 * Len(prompt) |->
        IF i % 2 = 1 THEN prompt[(i + 1) \div 2].role ELSE prompt[i \div 2].content]

TurnBytes(turn) == <<Codec!Code(Codec!Roles, turn.role)>> \o Codec!Str(turn.content)

(* The two fields of the turn after the first k. *)
TurnIs(prompt, k, n) ==
    /\ 2 * k + 1 \in 1 .. 2 * n /\ 2 * k + 2 \in 1 .. 2 * n
    /\ Codec!PromptKinds(n)[2 * k + 1] = "role" /\ Codec!PromptKinds(n)[2 * k + 2] = "str"
    /\ TurnFields(prompt)[2 * k + 1] = prompt[k + 1].role
    /\ TurnFields(prompt)[2 * k + 2] = prompt[k + 1].content

LEMMA TurnFacts ==
    ASSUME NEW prompt, NEW n \in Nat, n = Len(prompt), NEW k \in Nat, k < n
    PROVE  TurnIs(prompt, k, n)
  <1>1. PICK a \in Nat : a = 2 * k + 1
    OBVIOUS
  <1>2. /\ a \in 1 .. 2 * n /\ a + 1 \in 1 .. 2 * n /\ 2 * k + 2 = a + 1
        /\ a % 2 = 1 /\ (a + 1) % 2 = 0 /\ (a + 1) \div 2 = k + 1
    BY <1>1
  <1>3. Codec!PromptKinds(n)[a] = "role" /\ Codec!PromptKinds(n)[a + 1] = "str"
    BY <1>2 DEF Codec!PromptKinds
  <1>4. /\ TurnFields(prompt)[a] = prompt[k + 1].role
        /\ TurnFields(prompt)[a + 1] = prompt[k + 1].content
    BY <1>2 DEF TurnFields
  <1> QED
    BY <1>1, <1>2, <1>3, <1>4 DEF TurnIs

LEMMA TurnWrites ==
    ASSUME NEW prompt \in Prompt, NEW n \in Nat, n = Len(prompt), NEW k \in Nat, k < n
    PROVE  /\ Writes(Codec!PromptKinds(n)[2 * k + 1], TurnFields(prompt)[2 * k + 1],
                     <<Codec!Code(Codec!Roles, prompt[k + 1].role)>>)
           /\ Writes(Codec!PromptKinds(n)[2 * k + 2], TurnFields(prompt)[2 * k + 2],
                     Codec!Str(prompt[k + 1].content))
  <1>1. k + 1 \in 1 .. n /\ prompt \in Seq(Turn)
    BY DEF Prompt
  <1>2. prompt[k + 1] \in Turn
    BY <1>1, LenProperties
  <1>3. prompt[k + 1].role \in Range(Codec!Roles) /\ prompt[k + 1].content \in Text
    BY <1>2 DEF Turn
  <1>4. TurnIs(prompt, k, n)
    BY TurnFacts
  <1> QED
    BY <1>3, <1>4, WritesRole, WritesStr DEF TurnIs

LEMMA TurnsWrote ==
    ASSUME NEW prompt \in Prompt, NEW n \in Nat, n = Len(prompt)
    PROVE  Wrote(Codec!PromptBytes(prompt), Codec!PromptKinds(n), TurnFields(prompt), 2 * n)
  <1> DEFINE K == Codec!PromptKinds(n)
             F == TurnFields(prompt)
             seqs == [i \in DOMAIN prompt |-> TurnBytes(prompt[i])]
  <1>1. prompt \in [1 .. n -> Turn] /\ DOMAIN prompt = 1 .. n
    BY LenProperties DEF Prompt
  <1>2. ASSUME NEW i \in 1 .. n
        PROVE  /\ <<Codec!Code(Codec!Roles, prompt[i].role)>> \in Seq(Byte)
               /\ Codec!Str(prompt[i].content) \in Seq(Byte)
    <2>1. prompt[i].role \in Range(Codec!Roles) /\ prompt[i].content \in Text
      BY <1>1 DEF Turn
    <2>2. /\ Writes("role", prompt[i].role, <<Codec!Code(Codec!Roles, prompt[i].role)>>)
          /\ Writes("str", prompt[i].content, Codec!Str(prompt[i].content))
      BY <2>1, WritesRole, WritesStr
    <2> QED
      BY <2>2, EncFacts DEF Writes, IsEnc
  <1>3. ASSUME NEW i \in 1 .. n PROVE TurnBytes(prompt[i]) \in Seq(Byte)
    BY <1>2, ConcatProperties DEF TurnBytes
  <1>4. seqs \in [1 .. n -> Seq(Byte)]
    BY <1>1, <1>3
  <1>5. seqs \in Seq(Seq(Byte)) /\ Len(seqs) = n
    <2> HIDE DEF seqs
    <2> QED
      BY <1>4
  <1>6. \A i \in 1 .. n : seqs[i] = TurnBytes(prompt[i])
    BY <1>1
  <1>7. Codec!PromptBytes(prompt) = Codec!FlattenSeq(seqs)
    BY DEF Codec!PromptBytes, TurnBytes
  <1> HIDE DEF seqs
  <1>8. PICK f \in [0 .. n -> Seq(Byte)] :
            /\ f[0] = <<>>
            /\ \A i \in 1 .. n : f[i] = f[i - 1] \o seqs[i]
            /\ f[n] = Codec!FlattenSeq(seqs)
    <2>1. PICK f : Flattens(seqs, n, f)
      BY <1>5, FlattenFacts
    <2> QED
      BY <2>1 DEF Flattens
  <1> HIDE DEF K, F
  <1> DEFINE S == {k \in Nat : k <= n => Wrote(f[k], K, F, 2 * k)}
  <1>9. 0 \in S
    <2>1. 2 * 0 = 0
      OBVIOUS
    <2> QED
      BY <1>8, <2>1, WroteNothing
  <1>10. ASSUME NEW k \in Nat, k \in S PROVE k + 1 \in S
    <2> SUFFICES ASSUME k + 1 <= n PROVE Wrote(f[k + 1], K, F, 2 * (k + 1))
      OBVIOUS
    <2>1. PICK c \in 1 .. n : c = k + 1 /\ c - 1 = k /\ k \in 0 .. n /\ k < n /\ k <= n
      <3>1. k + 1 \in 1 .. n /\ (k + 1) - 1 = k /\ k \in 0 .. n /\ k < n /\ k <= n
        OBVIOUS
      <3> QED
        BY <3>1
    <2>2. PICK a \in Nat : a = 2 * k
      OBVIOUS
    <2>3. Wrote(f[k], K, F, a)
      BY <1>10, <2>1, <2>2
    <2>4. PICK x \in Seq(Byte), y \in Seq(Byte), z \in Seq(Byte) :
              /\ x = f[k] /\ y = <<Codec!Code(Codec!Roles, prompt[c].role)>>
              /\ z = Codec!Str(prompt[c].content)
      BY <1>2, <1>8, <2>1
    <2>5. f[c] = x \o (y \o z)
      BY <1>6, <1>8, <2>1, <2>4 DEF TurnBytes
    <2>6. f[c] = (x \o y) \o z
      <3>1. Associates(x, y, z)
        BY Association
      <3> QED
        BY <2>5, <3>1 DEF Associates
    <2>7. Writes(K[a + 1], F[a + 1], y) /\ Writes(K[(a + 1) + 1], F[(a + 1) + 1], z)
      <3>1. 2 * k + 1 = a + 1 /\ 2 * k + 2 = (a + 1) + 1
        BY <2>2
      <3> QED
        BY <2>1, <2>4, <3>1, TurnWrites DEF K, F
    <2>8. PICK u : u = x \o y
      OBVIOUS
    <2>9. Wrote(u, K, F, a + 1)
      BY <2>3, <2>4, <2>7, <2>8, WroteNext
    <2>10. Wrote(f[c], K, F, (a + 1) + 1)
      <3>1. f[c] = u \o z /\ a + 1 \in Nat
        BY <2>6, <2>8
      <3>2. Writes(K[(a + 1) + 1], F[(a + 1) + 1], z)
        BY <2>7
      <3> QED
        BY <2>9, <3>1, <3>2, WroteNext
    <2>11. (a + 1) + 1 = 2 * (k + 1)
      BY <2>2
    <2> QED
      BY <2>1, <2>10, <2>11
  <1> HIDE DEF S
  <1>11. n \in S
    BY <1>9, <1>10, Induction
  <1>12. Wrote(f[n], K, F, 2 * n)
    BY <1>11 DEF S
  <1> QED
    BY <1>7, <1>8, <1>12 DEF K, F

HeadFields(request) ==
    <<RequestMagic, request.id, request.max_tokens, request.temperature, request.top_p,
      request.seed, request.timeout_ms, IF request.stream THEN 1 ELSE 0, Len(request.prompt)>>

RequestPayload(request) == Codec!EncodeRequest(request, "", "").payload

RequestOf(payload) == Codec!Message("", "", "LLM_REQUEST", payload)

LEMMA RequestKindsFacts ==
    /\ Codec!RequestHead \in Seq(Kinds) /\ Len(Codec!RequestHead) = 9
    /\ Codec!RequestHead[1] = "str" /\ Codec!RequestHead[2] = "str"
    /\ Codec!RequestHead[3] = "u32" /\ Codec!RequestHead[4] = "u32"
    /\ Codec!RequestHead[5] = "u32" /\ Codec!RequestHead[6] = "u32"
    /\ Codec!RequestHead[7] = "u32" /\ Codec!RequestHead[8] = "u8"
    /\ Codec!RequestHead[9] = "u32"
  BY DEF Codec!RequestHead, Kinds

LEMMA PromptKindsFacts ==
    ASSUME NEW n \in Nat
    PROVE  Codec!PromptKinds(n) \in Seq(Kinds) /\ Len(Codec!PromptKinds(n)) = 2 * n
  <1>1. PICK m \in Nat : m = 2 * n
    OBVIOUS
  <1>2. PICK K : K = Codec!PromptKinds(n) /\ K = [i \in 1 .. m |-> IF i % 2 = 1 THEN "role" ELSE "str"]
    BY <1>1 DEF Codec!PromptKinds
  <1>3. K \in [1 .. m -> Kinds]
    BY <1>2 DEF Kinds
  <1> QED
    BY <1>1, <1>2, <1>3

LEMMA HeadWrote ==
    ASSUME NEW request \in Request
    PROVE  \E h : /\ Wrote(h, Codec!RequestHead, HeadFields(request), 9)
                  /\ RequestPayload(request) = h \o Codec!PromptBytes(request.prompt)
  <1> DEFINE K == Codec!RequestHead
             F == HeadFields(request)
             flag == IF request.stream THEN 1 ELSE 0
             m == Len(request.prompt)
  <1>1. /\ request.id \in Text /\ request.max_tokens \in Word /\ request.temperature \in Word
        /\ request.top_p \in Word /\ request.seed \in Word /\ request.timeout_ms \in Word
    BY DEF Request
  <1>2. m \in Word
    <2>1. m \in Nat /\ m < Power[WordBytes]
      BY LenProperties DEF Request, Prompt
    <2> QED
      BY <2>1, WordFacts
  <1>3. flag \in Byte /\ RequestMagic \in Text
    BY RadixAssumption, CodecFits DEF Byte
  <1>4. /\ F[1] = RequestMagic /\ F[2] = request.id /\ F[3] = request.max_tokens
        /\ F[4] = request.temperature /\ F[5] = request.top_p /\ F[6] = request.seed
        /\ F[7] = request.timeout_ms /\ F[8] = flag /\ F[9] = m
    BY DEF HeadFields
  <1> HIDE DEF K, F, flag, m
  <1>5. PICK e1, e2, e3, e4, e5, e6, e7, e8, e9 :
            /\ e1 = Codec!Str(RequestMagic) /\ e2 = Codec!Str(request.id)
            /\ e3 = Codec!U32(request.max_tokens) /\ e4 = Codec!U32(request.temperature)
            /\ e5 = Codec!U32(request.top_p) /\ e6 = Codec!U32(request.seed)
            /\ e7 = Codec!U32(request.timeout_ms) /\ e8 = <<flag>> /\ e9 = Codec!U32(m)
    OBVIOUS
  <1>6. /\ K[1] = "str" /\ K[2] = "str" /\ K[3] = "u32" /\ K[4] = "u32" /\ K[5] = "u32"
        /\ K[6] = "u32" /\ K[7] = "u32" /\ K[8] = "u8" /\ K[9] = "u32"
    BY RequestKindsFacts DEF K
  <1>7. /\ Writes(K[1], F[1], e1) /\ Writes(K[2], F[2], e2) /\ Writes(K[3], F[3], e3)
        /\ Writes(K[4], F[4], e4) /\ Writes(K[5], F[5], e5)
    BY <1>1, <1>3, <1>4, <1>5, <1>6, WritesStr, WritesWord
  <1>8. /\ Writes(K[6], F[6], e6) /\ Writes(K[7], F[7], e7) /\ Writes(K[8], F[8], e8)
        /\ Writes(K[9], F[9], e9)
    BY <1>1, <1>2, <1>3, <1>4, <1>5, <1>6, WritesByte, WritesWord
  <1>9. PICK s2, s3, s4, s5, s6, s7, s8, s9 :
            /\ s2 = e1 \o e2 /\ s3 = s2 \o e3 /\ s4 = s3 \o e4 /\ s5 = s4 \o e5
            /\ s6 = s5 \o e6 /\ s7 = s6 \o e7 /\ s8 = s7 \o e8 /\ s9 = s8 \o e9
    OBVIOUS
  <1>10. RequestPayload(request) = s9 \o Codec!PromptBytes(request.prompt)
    BY <1>5, <1>9 DEF RequestPayload, Codec!EncodeRequest, Codec!Message, flag, m
  <1>11. /\ 1 + 1 = 2 /\ 2 + 1 = 3 /\ 3 + 1 = 4 /\ 4 + 1 = 5 /\ 5 + 1 = 6 /\ 6 + 1 = 7
         /\ 7 + 1 = 8 /\ 8 + 1 = 9
    OBVIOUS
  <1>12. Wrote(e1, K, F, 1)
    BY <1>7, WroteFirst
  <1>13. Wrote(s2, K, F, 1 + 1)
    BY <1>7, <1>9, <1>11, <1>12, WroteNext
  <1>14. Wrote(s3, K, F, 2 + 1)
    BY <1>7, <1>9, <1>11, <1>13, WroteNext
  <1>15. Wrote(s4, K, F, 3 + 1)
    BY <1>7, <1>9, <1>11, <1>14, WroteNext
  <1>16. Wrote(s5, K, F, 4 + 1)
    BY <1>7, <1>9, <1>11, <1>15, WroteNext
  <1>17. Wrote(s6, K, F, 5 + 1)
    BY <1>8, <1>9, <1>11, <1>16, WroteNext
  <1>18. Wrote(s7, K, F, 6 + 1)
    BY <1>8, <1>9, <1>11, <1>17, WroteNext
  <1>19. Wrote(s8, K, F, 7 + 1)
    BY <1>8, <1>9, <1>11, <1>18, WroteNext
  <1>20. Wrote(s9, K, F, 8 + 1)
    BY <1>8, <1>9, <1>11, <1>19, WroteNext
  <1> QED
    BY <1>10, <1>11, <1>20 DEF K, F

(* Where the fields of a request are: O those before the prompt, P those of *)
(* the prompt, which has n turns.                                           *)
RequestAt(t, F, O, G, P, n) ==
    /\ n \in Word /\ F[9] = n
    /\ Laid(t, Codec!RequestHead, F, O, 9) /\ O[0] = 0
    /\ Laid(t, Codec!PromptKinds(n), G, P, 2 * n) /\ P[0] = O[9]

LEMMA RequestLaid ==
    ASSUME NEW request \in Request, NEW n, n = Len(request.prompt)
    PROVE  \E O, P : /\ RequestAt(RequestPayload(request), HeadFields(request), O,
                                  TurnFields(request.prompt), P, n)
                     /\ P[2 * n] = Len(RequestPayload(request))
                     /\ RequestPayload(request) \in Seq(Byte)
  <1> DEFINE F == HeadFields(request)
             G == TurnFields(request.prompt)
             K == Codec!PromptKinds(n)
  <1>1. n \in Nat /\ n \in Word
    <2>1. n \in Nat /\ n < Power[WordBytes]
      BY LenProperties DEF Request, Prompt
    <2> QED
      BY <2>1, WordFacts
  <1>2. F[9] = n
    BY DEF HeadFields
  <1>3. PICK h : /\ Wrote(h, Codec!RequestHead, F, 9)
                 /\ RequestPayload(request) = h \o Codec!PromptBytes(request.prompt)
    BY HeadWrote
  <1>4. PICK b : b = Codec!PromptBytes(request.prompt) /\ Wrote(b, K, G, 2 * n)
    BY <1>1, TurnsWrote DEF Request
  <1> HIDE DEF F, G, K
  <1>5. PICK O : Laid(h, Codec!RequestHead, F, O, 9) /\ O[0] = 0 /\ O[9] = Len(h) /\ h \in Seq(Byte)
    BY <1>3 DEF Wrote
  <1>6. PICK Q : Laid(b, K, G, Q, 2 * n) /\ Q[0] = 0 /\ Q[2 * n] = Len(b) /\ b \in Seq(Byte)
    BY <1>4 DEF Wrote
  <1>7. PICK i \in Nat, j \in Nat, m \in Nat : i = Len(h) /\ j = Len(b) /\ m = 2 * n
    BY <1>1, <1>5, <1>6, LenProperties
  <1>8. PICK t : t = RequestPayload(request) /\ Joins(h, i, b, j, t)
    BY <1>3, <1>4, <1>5, <1>6, <1>7, JoinFacts
  <1>9. t \in Seq(Byte) /\ Len(t) = i + j /\ StartOf(h, t)
    BY <1>8 DEF Joins
  <1>10. Laid(t, Codec!RequestHead, F, O, 9)
    BY <1>5, <1>9, LaidLonger
  <1>11. LaidAfter(t, K, G, Q, m, i)
    BY <1>6, <1>7, <1>8, LaidShift
  <1> DEFINE P == [k \in 0 .. m |-> i + Q[k]]
  <1>12. Laid(t, K, G, P, m)
    BY <1>11 DEF LaidAfter
  <1>13. P[0] = i + 0 /\ P[m] = i + j
    <2>1. 0 \in 0 .. m /\ m \in 0 .. m
      OBVIOUS
    <2>2. P[0] = i + Q[0] /\ P[m] = i + Q[m]
      BY <2>1
    <2> QED
      BY <1>6, <1>7, <2>2
  <1>14. i + 0 = i
    OBVIOUS
  <1> HIDE DEF P
  <1>15. RequestAt(t, F, O, G, P, n)
    BY <1>1, <1>2, <1>5, <1>7, <1>10, <1>12, <1>13, <1>14 DEF RequestAt, F, K
  <1> QED
    BY <1>7, <1>8, <1>9, <1>13, <1>15 DEF F, G

(* What is left of reading a request whose fields are F and G. *)
RequestRead(q, F, G, n) ==
    /\ ~q.thrown
    /\ \A i \in 1 .. 9 : q.fields[i] = F[i]
    /\ \A i \in 1 .. 2 * n : q.fields[9 + i] = G[i]

(* The head is read first; its last field is the number of turns. *)
HeadRead(t, F, O, h) ==
    /\ h = Codec!ReadAll(t, Codec!Reader, Codec!RequestHead)
    /\ Reached(Codec!Reader, 0, h, F, O, 9)
    /\ h \in Readers /\ ~h.thrown /\ h.offset = O[9] /\ Len(h.fields) = 9
    /\ (\A i \in 1 .. 9 : h.fields[i] = F[i])
    /\ Codec!Last(h.fields) = F[9]

LEMMA HeadReads ==
    ASSUME NEW t \in Seq(Byte), NEW F, NEW O, Laid(t, Codec!RequestHead, F, O, 9), O[0] = 0
    PROVE  \E h : HeadRead(t, F, O, h)
  <1>1. PICK h : h = Codec!ReadAll(t, Codec!Reader, Codec!RequestHead)
    OBVIOUS
  <1>2. Reached(Codec!Reader, 0, h, F, O, 9)
    BY <1>1, ReaderFacts, RequestKindsFacts, LaidReads
  <1>3. /\ h \in Readers /\ ~h.thrown /\ h.offset = O[9] /\ Len(h.fields) = 0 + 9
        /\ \A i \in 1 .. 9 : h.fields[0 + i] = F[i]
    BY <1>2 DEF Reached
  <1>4. 0 + 9 = 9 /\ \A i \in 1 .. 9 : 0 + i = i
    OBVIOUS
  <1>5. Len(h.fields) = 9 /\ \A i \in 1 .. 9 : h.fields[i] = F[i]
    BY <1>3, <1>4
  <1>6. Codec!Last(h.fields) = F[9]
    BY <1>5 DEF Codec!Last
  <1> QED
    BY <1>1, <1>2, <1>3, <1>5, <1>6 DEF HeadRead

LEMMA RequestReads ==
    ASSUME NEW t \in Seq(Byte), NEW F, NEW O, NEW G, NEW P, NEW n, RequestAt(t, F, O, G, P, n)
    PROVE  RequestRead(Codec!ReadRequest(t), F, G, n)
  <1>1. /\ n \in Word /\ F[9] = n
        /\ Laid(t, Codec!RequestHead, F, O, 9) /\ O[0] = 0
        /\ Laid(t, Codec!PromptKinds(n), G, P, 2 * n) /\ P[0] = O[9]
    BY DEF RequestAt
  <1>2. PICK m \in Nat : m = 2 * n /\ n \in Nat
    BY <1>1, WordFacts
  <1>3. PICK h : HeadRead(t, F, O, h)
    BY <1>1, HeadReads
  <1>4. /\ h \in Readers /\ ~h.thrown /\ h.offset = O[9] /\ Len(h.fields) = 9
        /\ (\A i \in 1 .. 9 : h.fields[i] = F[i])
        /\ h = Codec!ReadAll(t, Codec!Reader, Codec!RequestHead) /\ Codec!Last(h.fields) = n
    BY <1>1, <1>3 DEF HeadRead
  <1>5. PICK K \in Seq(Kinds) : K = Codec!PromptKinds(n) /\ Len(K) = m
    BY <1>2, PromptKindsFacts
  <1>6. PICK q : q = Codec!ReadAll(t, h, K)
    OBVIOUS
  <1>7. q = Codec!ReadRequest(t)
    BY <1>4, <1>5, <1>6 DEF Codec!ReadRequest
  <1>8. Laid(t, K, G, P, m) /\ P[0] = h.offset
    BY <1>1, <1>2, <1>4, <1>5
  <1>9. Reached(h, 9, q, G, P, m)
    BY <1>2, <1>4, <1>5, <1>6, <1>8, LaidReads
  <1>10. /\ ~q.thrown /\ (\A i \in 1 .. 9 : q.fields[i] = h.fields[i])
         /\ \A i \in 1 .. m : q.fields[9 + i] = G[i]
    BY <1>9 DEF Reached
  <1> QED
    BY <1>2, <1>4, <1>7, <1>10 DEF RequestRead

(* What does not throw has the fields of a request. *)
LEMMA RequestFound ==
    ASSUME NEW t \in Seq(Byte), ~Codec!ReadRequest(t).thrown
    PROVE  \E F, O, G, P, n : RequestAt(t, F, O, G, P, n)
  <1>1. PICK a : a = Codec!ReadAll(t, Codec!Reader, Codec!RequestHead)
    OBVIOUS
  <1>2. ~a.thrown
    BY <1>1 DEF Codec!ReadRequest
  <1>3. PICK F, O : Laid(t, Codec!RequestHead, F, O, 9) /\ O[0] = 0
    <2>1. IsLaid(t, Codec!Reader, Codec!RequestHead, 9)
      BY <1>1, <1>2, RequestKindsFacts, ReadsWrote
    <2> QED
      BY <2>1, ReaderFacts DEF IsLaid
  <1>4. PICK h : HeadRead(t, F, O, h)
    BY <1>3, HeadReads
  <1>5. /\ h \in Readers /\ h.offset = O[9] /\ Codec!Last(h.fields) = F[9] /\ h = a
    BY <1>1, <1>4 DEF HeadRead
  <1>6. F[9] \in Word
    <2>1. FieldLaid(t, Codec!RequestHead, F, O, 9)
      BY <1>3 DEF Laid
    <2>2. F[9] \in FieldOf(Codec!RequestHead[9]) /\ Codec!RequestHead[9] = "u32"
      BY <2>1, RequestKindsFacts DEF FieldLaid
    <2> QED
      BY <2>2 DEF FieldOf
  <1>7. PICK n \in Nat, m \in Nat : n = F[9] /\ m = 2 * n
    BY <1>6, WordFacts
  <1>8. PICK K \in Seq(Kinds) : K = Codec!PromptKinds(n) /\ Len(K) = m
    BY <1>7, PromptKindsFacts
  <1>9. ~Codec!ReadAll(t, h, K).thrown
    BY <1>1, <1>2, <1>5, <1>7, <1>8 DEF Codec!ReadRequest
  <1>10. h.offset <= Len(t)
    <2>1. 9 \in 0 .. 9
      OBVIOUS
    <2> QED
      BY <1>3, <1>5, <2>1, LaidEnds
  <1>11. IsLaid(t, h, K, m)
    BY <1>5, <1>8, <1>9, <1>10, ReadsLaid
  <1>12. PICK G, P : Laid(t, K, G, P, m) /\ P[0] = h.offset
    BY <1>11 DEF IsLaid
  <1>13. RequestAt(t, F, O, G, P, n)
    BY <1>3, <1>5, <1>6, <1>7, <1>8, <1>12 DEF RequestAt
  <1> QED
    BY <1>13

(* The request that has the fields F and G. *)
RequestIn(F, G, n) ==
    [id |-> F[2], max_tokens |-> F[3], temperature |-> F[4], top_p |-> F[5], seed |-> F[6],
     timeout_ms |-> F[7], stream |-> F[8] # 0,
     prompt |-> [i \in 1 .. n |->
                    [role |-> G[2 * (i - 1) + 1], content |-> G[2 * (i - 1) + 2]]]]

LEMMA RequestValue ==
    ASSUME NEW t \in Seq(Byte), NEW F, NEW O, NEW G, NEW P, NEW n, RequestAt(t, F, O, G, P, n)
    PROVE  /\ Codec!RequestDecodes(RequestOf(t)) <=> F[1] = RequestMagic
           /\ Codec!DecodedRequest(RequestOf(t)) = RequestIn(F, G, n)
  <1>1. PICK q : q = Codec!ReadRequest(t)
    OBVIOUS
  <1>2. /\ ~q.thrown /\ (\A i \in 1 .. 9 : q.fields[i] = F[i])
        /\ \A i \in 1 .. 2 * n : q.fields[9 + i] = G[i]
    BY <1>1, RequestReads DEF RequestRead
  <1>3. RequestOf(t).name = "LLM_REQUEST" /\ RequestOf(t).payload = t
    BY DEF RequestOf, Codec!Message
  <1>4. n \in Nat /\ F[9] = n
    BY WordFacts DEF RequestAt
  <1>5. /\ q.fields[1] = F[1] /\ q.fields[2] = F[2] /\ q.fields[3] = F[3] /\ q.fields[4] = F[4]
        /\ q.fields[5] = F[5] /\ q.fields[6] = F[6] /\ q.fields[7] = F[7] /\ q.fields[8] = F[8]
        /\ q.fields[9] = n
    BY <1>2, <1>4
  <1>6. ASSUME NEW i \in 1 .. n
        PROVE  /\ q.fields[8 + 2 * i] = G[2 * (i - 1) + 1]
               /\ q.fields[9 + 2 * i] = G[2 * (i - 1) + 2]
    <2>1. PICK a \in 1 .. 2 * n, b \in 1 .. 2 * n :
              a = 2 * (i - 1) + 1 /\ b = 2 * (i - 1) + 2
              /\ 9 + a = 8 + 2 * i /\ 9 + b = 9 + 2 * i
      <3>1. /\ 2 * (i - 1) + 1 \in 1 .. 2 * n /\ 2 * (i - 1) + 2 \in 1 .. 2 * n
            /\ 9 + (2 * (i - 1) + 1) = 8 + 2 * i /\ 9 + (2 * (i - 1) + 2) = 9 + 2 * i
        BY <1>4
      <3> QED
        BY <3>1
    <2>2. q.fields[9 + a] = G[a] /\ q.fields[9 + b] = G[b]
      BY <1>2
    <2> QED
      BY <2>1, <2>2
  <1>7. [i \in 1 .. n |-> [role |-> q.fields[8 + 2 * i], content |-> q.fields[9 + 2 * i]]]
            = [i \in 1 .. n |-> [role |-> G[2 * (i - 1) + 1], content |-> G[2 * (i - 1) + 2]]]
    BY <1>6
  <1>8. Codec!RequestDecodes(RequestOf(t)) <=> F[1] = RequestMagic
    BY <1>1, <1>2, <1>3, <1>5 DEF Codec!RequestDecodes
  <1>9. PICK p : p = [i \in 1 .. n |->
                        [role |-> G[2 * (i - 1) + 1], content |-> G[2 * (i - 1) + 2]]]
    OBVIOUS
  <1>10. Codec!DecodedRequest(RequestOf(t)) =
            [id |-> F[2], max_tokens |-> F[3], temperature |-> F[4], top_p |-> F[5],
             seed |-> F[6], timeout_ms |-> F[7], stream |-> F[8] # 0, prompt |-> p]
    BY <1>1, <1>3, <1>5, <1>7, <1>9 DEF Codec!DecodedRequest
  <1> QED
    BY <1>8, <1>9, <1>10 DEF RequestIn

LEMMA RequestRestored ==
    ASSUME NEW request \in Request, NEW n, n = Len(request.prompt)
    PROVE  RequestIn(HeadFields(request), TurnFields(request.prompt), n) = request
  <1> DEFINE F == HeadFields(request)
             G == TurnFields(request.prompt)
             prompt == request.prompt
  <1>1. prompt \in Seq(Turn) /\ n \in Nat /\ request.stream \in BOOLEAN
    BY LenProperties DEF Request, Prompt
  <1>2. prompt \in [1 .. n -> Turn]
    BY <1>1, LenProperties
  <1>3. /\ F[2] = request.id /\ F[3] = request.max_tokens /\ F[4] = request.temperature
        /\ F[5] = request.top_p /\ F[6] = request.seed /\ F[7] = request.timeout_ms
        /\ F[8] = IF request.stream THEN 1 ELSE 0
    BY DEF HeadFields
  <1>4. (F[8] # 0) = request.stream
    <2>1. PICK b \in BOOLEAN : b = request.stream
      BY <1>1
    <2>2. PICK x : b = request.stream /\ x = F[8] /\ x = IF b THEN 1 ELSE 0
      BY <1>3, <2>1
    <2>3. CASE b = TRUE
      <3>1. x = 1
        BY <2>2, <2>3
      <3>2. (x # 0) = TRUE
        BY <3>1
      <3> QED
        BY <2>2, <2>3, <3>2
    <2>4. CASE b = FALSE
      <3>1. x = 0
        BY <2>2, <2>4
      <3>2. (x # 0) = FALSE
        BY <3>1
      <3> QED
        BY <2>2, <2>4, <3>2
    <2> QED
      BY <2>1, <2>3, <2>4
  <1>5. ASSUME NEW i \in 1 .. n
        PROVE  [role |-> G[2 * (i - 1) + 1], content |-> G[2 * (i - 1) + 2]] = prompt[i]
    <2>1. i - 1 \in Nat /\ i - 1 < n /\ (i - 1) + 1 = i
      BY <1>1
    <2>2. TurnIs(prompt, i - 1, n)
      BY <1>1, <2>1, TurnFacts
    <2>3. G[2 * (i - 1) + 1] = prompt[i].role /\ G[2 * (i - 1) + 2] = prompt[i].content
      BY <2>1, <2>2 DEF TurnIs
    <2>4. prompt[i] \in Turn
      BY <1>2
    <2> HIDE DEF G, prompt
    <2> QED
      BY <2>3, <2>4 DEF Turn
  <1> HIDE DEF F, G, prompt
  <1>6. [i \in 1 .. n |-> [role |-> G[2 * (i - 1) + 1], content |-> G[2 * (i - 1) + 2]]] = prompt
    BY <1>2, <1>5
  <1>7. RequestIn(F, G, n) =
            [id |-> request.id, max_tokens |-> request.max_tokens,
             temperature |-> request.temperature, top_p |-> request.top_p,
             seed |-> request.seed, timeout_ms |-> request.timeout_ms,
             stream |-> request.stream, prompt |-> request.prompt]
    BY <1>3, <1>4, <1>6 DEF RequestIn, prompt
  <1> QED
    BY <1>7 DEF Request, F, G

(* RequestAt in what begins with the payload. *)
LEMMA RequestLonger ==
    ASSUME NEW s \in Seq(Byte), NEW t \in Seq(Byte), StartOf(s, t),
           NEW F, NEW O, NEW G, NEW P, NEW n, RequestAt(s, F, O, G, P, n)
    PROVE  RequestAt(t, F, O, G, P, n)
  <1>1. PICK m \in Nat : m = 2 * n
    BY WordFacts DEF RequestAt
  <1>2. PICK K : K = Codec!PromptKinds(n)
    OBVIOUS
  <1>3. Laid(s, Codec!RequestHead, F, O, 9) /\ Laid(s, K, G, P, m)
    BY <1>1, <1>2 DEF RequestAt
  <1>4. Laid(t, Codec!RequestHead, F, O, 9) /\ Laid(t, K, G, P, m)
    BY <1>3, LaidLonger
  <1> QED
    BY <1>1, <1>2, <1>4 DEF RequestAt

(* LLMMessageCodec.cpp: decode_request of what encode_request wrote, and   *)
(* of more bytes after it, gives every field and every turn back.          *)
THEOREM RequestComesBack ==
    ASSUME NEW request \in Request, NEW t \in Seq(Byte), StartOf(RequestPayload(request), t)
    PROVE  /\ Codec!RequestDecodes(RequestOf(t))
           /\ Codec!DecodedRequest(RequestOf(t)) = request
  <1>1. PICK F, G, n : F = HeadFields(request) /\ G = TurnFields(request.prompt)
                       /\ n = Len(request.prompt)
    OBVIOUS
  <1>2. PICK O, P : RequestAt(RequestPayload(request), F, O, G, P, n)
                    /\ RequestPayload(request) \in Seq(Byte)
    BY <1>1, RequestLaid
  <1>3. RequestAt(t, F, O, G, P, n)
    BY <1>2, RequestLonger
  <1>4. F[1] = RequestMagic
    BY <1>1 DEF HeadFields
  <1>5. RequestIn(F, G, n) = request
    BY <1>1, RequestRestored
  <1> QED
    BY <1>3, <1>4, <1>5, RequestValue

-----------------------------------------------------------------------------
(* What is cut off is refused, and neither is taken for the other. *)

(* Where the fields of a response are. *)
ResponseAt(t, F, O) == Laid(t, ResponseKinds, F, O, 8) /\ O[0] = 0

LEMMA ResponseLaid ==
    ASSUME NEW response \in Response
    PROVE  \E O : /\ ResponseAt(ResponsePayload(response), ResponseFields(response), O)
                  /\ O[8] = Len(ResponsePayload(response))
                  /\ ResponsePayload(response) \in Seq(Byte)
  BY ResponseWrote DEF Wrote, ResponseAt

LEMMA ResponseFound ==
    ASSUME NEW t \in Seq(Byte), ~Codec!ReadResponse(t).thrown
    PROVE  \E F, O : ResponseAt(t, F, O)
  <1>1. ~Codec!ReadAll(t, Codec!Reader, ResponseKinds).thrown
    BY DEF Codec!ReadResponse, ResponseKinds
  <1>2. IsLaid(t, Codec!Reader, ResponseKinds, 8)
    BY <1>1, ResponseKindsFacts, ReadsWrote
  <1> QED
    BY <1>2, ReaderFacts DEF IsLaid, ResponseAt

(* The response that has the fields F. *)
ResponseIn(F) ==
    [id |-> F[2], status |-> Codec!StatusOf(F[3]), text |-> F[4], prompt_tokens |-> F[5],
     completion_tokens |-> F[6], elapsed_ms |-> F[7], error_message |-> F[8]]

LEMMA ResponseValue ==
    ASSUME NEW t \in Seq(Byte), NEW F, NEW O, ResponseAt(t, F, O)
    PROVE  /\ Codec!ResponseDecodes(ResponseOf(t)) <=> F[1] = ResponseMagic
           /\ Codec!DecodedResponse(ResponseOf(t)) = ResponseIn(F)
  <1>1. PICK q : q = Codec!ReadResponse(t)
    OBVIOUS
  <1>2. q = Codec!ReadAll(t, Codec!Reader, ResponseKinds)
    BY <1>1 DEF Codec!ReadResponse, ResponseKinds
  <1>3. Laid(t, ResponseKinds, F, O, 8) /\ O[0] = 0
    BY DEF ResponseAt
  <1>4. Reached(Codec!Reader, 0, q, F, O, 8)
    BY <1>2, <1>3, ReaderFacts, ResponseKindsFacts, LaidReads
  <1>5. ~q.thrown /\ \A i \in 1 .. 8 : q.fields[0 + i] = F[i]
    BY <1>4 DEF Reached
  <1>6. \A i \in 1 .. 8 : 0 + i = i
    OBVIOUS
  <1>7. \A i \in 1 .. 8 : q.fields[i] = F[i]
    BY <1>5, <1>6
  <1>8. ResponseOf(t).name = "LLM_RESPONSE" /\ ResponseOf(t).payload = t
    BY DEF ResponseOf, Codec!Message
  <1>9. /\ q.fields[1] = F[1] /\ q.fields[2] = F[2] /\ q.fields[3] = F[3] /\ q.fields[4] = F[4]
        /\ q.fields[5] = F[5] /\ q.fields[6] = F[6] /\ q.fields[7] = F[7] /\ q.fields[8] = F[8]
    BY <1>7
  <1>10. Codec!ResponseDecodes(ResponseOf(t)) <=> F[1] = ResponseMagic
    BY <1>1, <1>5, <1>8, <1>9 DEF Codec!ResponseDecodes
  <1>11. Codec!DecodedResponse(ResponseOf(t)) = ResponseIn(F)
    BY <1>1, <1>8, <1>9 DEF Codec!DecodedResponse, ResponseIn
  <1> QED
    BY <1>10, <1>11

(* What decodes begins with its magic. *)
LEMMA RequestMagicThere ==
    ASSUME NEW t \in Seq(Byte), Codec!RequestDecodes(RequestOf(t))
    PROVE  Holds(t, 0, Codec!Str(RequestMagic))
  <1>1. ~Codec!ReadRequest(t).thrown
    BY DEF Codec!RequestDecodes, RequestOf, Codec!Message
  <1>2. PICK F, O, G, P, n : RequestAt(t, F, O, G, P, n)
    BY <1>1, RequestFound
  <1>3. F[1] = RequestMagic
    BY <1>2, RequestValue
  <1>4. FieldLaid(t, Codec!RequestHead, F, O, 1) /\ O[0] = 0 /\ 1 - 1 = 0
    BY <1>2 DEF RequestAt, Laid
  <1> QED
    BY <1>3, <1>4, RequestKindsFacts DEF FieldLaid, Enc

LEMMA ResponseMagicThere ==
    ASSUME NEW t \in Seq(Byte), Codec!ResponseDecodes(ResponseOf(t))
    PROVE  Holds(t, 0, Codec!Str(ResponseMagic))
  <1>1. ~Codec!ReadResponse(t).thrown
    BY DEF Codec!ResponseDecodes, ResponseOf, Codec!Message
  <1>2. PICK F, O : ResponseAt(t, F, O)
    BY <1>1, ResponseFound
  <1>3. F[1] = ResponseMagic
    BY <1>2, ResponseValue
  <1>4. FieldLaid(t, ResponseKinds, F, O, 1) /\ O[0] = 0 /\ 1 - 1 = 0
    BY <1>2 DEF ResponseAt, Laid
  <1> QED
    BY <1>3, <1>4, ResponseKindsFacts DEF FieldLaid, Enc

LEMMA OneMagic ==
    ASSUME NEW t \in Seq(Byte),
           Holds(t, 0, Codec!Str(RequestMagic)), Holds(t, 0, Codec!Str(ResponseMagic))
    PROVE  FALSE
  <1>1. "str" \in Kinds /\ RequestMagic \in FieldOf("str") /\ ResponseMagic \in FieldOf("str")
    BY CodecFits DEF Kinds, FieldOf
  <1>2. /\ Holds(t, 0, Enc("str", RequestMagic)) /\ Holds(t, 0, Enc("str", ResponseMagic))
    BY DEF Enc
  <1>3. RequestMagic = ResponseMagic
    BY <1>1, <1>2, OneValue
  <1> QED
    BY <1>3, CodecFits

(* One of the two is the beginning of the other. *)
Related(s, t) == StartOf(s, t) \/ StartOf(t, s)

LEMMA MagicsClash ==
    ASSUME NEW s \in Seq(Byte), NEW t \in Seq(Byte), Related(s, t),
           Holds(s, 0, Codec!Str(RequestMagic)), Holds(t, 0, Codec!Str(ResponseMagic))
    PROVE  FALSE
  <1>1. Codec!Str(RequestMagic) \in Seq(Byte) /\ Codec!Str(ResponseMagic) \in Seq(Byte)
    BY CodecFits, WritesStr, EncFacts DEF Writes, IsEnc
  <1>2. CASE StartOf(s, t)
    BY <1>1, <1>2, HoldsLonger, OneMagic
  <1>3. CASE StartOf(t, s)
    BY <1>1, <1>3, HoldsLonger, OneMagic
  <1> QED
    BY <1>2, <1>3 DEF Related

(* LLMMessageCodec.cpp:231-235, 301-305: of a request, or a beginning of   *)
(* one, or one that more bytes follow, decode_response makes nothing.      *)
THEOREM RequestIsNoResponse ==
    ASSUME NEW request \in Request, NEW t \in Seq(Byte), Related(RequestPayload(request), t)
    PROVE  ~Codec!ResponseDecodes(ResponseOf(t))
  <1> SUFFICES ASSUME Codec!ResponseDecodes(ResponseOf(t)) PROVE FALSE
    OBVIOUS
  <1>1. PICK s \in Seq(Byte) : s = RequestPayload(request)
    BY RequestLaid
  <1>2. StartOf(s, s)
    BY <1>1, LenProperties DEF StartOf, Holds
  <1>3. Codec!RequestDecodes(RequestOf(s))
    BY <1>1, <1>2, RequestComesBack
  <1>4. Holds(s, 0, Codec!Str(RequestMagic))
    BY <1>3, RequestMagicThere
  <1>5. Holds(t, 0, Codec!Str(ResponseMagic))
    BY ResponseMagicThere
  <1> QED
    BY <1>1, <1>4, <1>5, MagicsClash

(* LLMMessageCodec.cpp:231-235: nor does decode_request make      *)
(* anything of a response, a beginning of one or one that more follows.    *)
THEOREM ResponseIsNoRequest ==
    ASSUME NEW response \in Response, NEW t \in Seq(Byte), Related(ResponsePayload(response), t)
    PROVE  ~Codec!RequestDecodes(RequestOf(t))
  <1> SUFFICES ASSUME Codec!RequestDecodes(RequestOf(t)) PROVE FALSE
    OBVIOUS
  <1>1. PICK s \in Seq(Byte) : s = ResponsePayload(response)
    BY ResponseLaid
  <1>2. StartOf(s, s)
    BY <1>1, LenProperties DEF StartOf, Holds
  <1>3. Codec!ResponseDecodes(ResponseOf(s))
    BY <1>1, <1>2, ResponseComesBack
  <1>4. Holds(s, 0, Codec!Str(ResponseMagic))
    BY <1>3, ResponseMagicThere
  <1>5. Holds(t, 0, Codec!Str(RequestMagic))
    BY RequestMagicThere
  <1>6. Related(t, s)
    BY <1>1 DEF Related
  <1> QED
    BY <1>4, <1>5, <1>6, MagicsClash

(* LLMMessageCodec.cpp:64-108: a request that misses its end is refused,   *)
(* whatever is missing of it.                                              *)
THEOREM CutRequestRefused ==
    ASSUME NEW request \in Request, NEW c \in Seq(Byte), StartOf(c, RequestPayload(request)),
           Len(c) < Len(RequestPayload(request))
    PROVE  ~Codec!RequestDecodes(RequestOf(c))
  <1> SUFFICES ASSUME Codec!RequestDecodes(RequestOf(c)) PROVE FALSE
    OBVIOUS
  <1>1. ~Codec!ReadRequest(c).thrown
    BY DEF Codec!RequestDecodes, RequestOf, Codec!Message
  <1>2. PICK F, O, G, P, n : RequestAt(c, F, O, G, P, n)
    BY <1>1, RequestFound
  <1>3. PICK s, E, A, D, B, l :
            /\ s \in Seq(Byte) /\ s = RequestPayload(request) /\ RequestAt(s, E, A, D, B, l)
            /\ B[2 * l] = Len(s)
    <2>1. PICK l : l = Len(request.prompt)
      OBVIOUS
    <2>2. PICK A, B : /\ RequestAt(RequestPayload(request), HeadFields(request), A,
                                   TurnFields(request.prompt), B, l)
                      /\ B[2 * l] = Len(RequestPayload(request))
                      /\ RequestPayload(request) \in Seq(Byte)
      BY <2>1, RequestLaid
    <2> QED
      BY <2>2
  <1>4. RequestAt(s, F, O, G, P, n)
    BY <1>2, <1>3, RequestLonger
  <1>5. /\ Laid(s, Codec!RequestHead, F, O, 9) /\ O[0] = 0
        /\ Laid(s, Codec!RequestHead, E, A, 9) /\ A[0] = 0
    BY <1>3, <1>4 DEF RequestAt
  <1>6. SameFields(F, O, E, A, 9)
    BY <1>3, <1>5, LaidOnce
  <1>7. F[9] = E[9] /\ O[9] = A[9]
    BY <1>6 DEF SameFields
  <1>8. PICK m \in Nat : n = l /\ m = 2 * n
    BY <1>3, <1>4, <1>7, WordFacts DEF RequestAt
  <1>9. PICK K : K = Codec!PromptKinds(n)
    OBVIOUS
  <1>10. /\ Laid(s, K, G, P, m) /\ Laid(s, K, D, B, m) /\ P[0] = B[0] /\ Laid(c, K, G, P, m)
    BY <1>2, <1>3, <1>4, <1>7, <1>8, <1>9 DEF RequestAt
  <1>11. SameFields(G, P, D, B, m)
    BY <1>3, <1>10, LaidOnce
  <1>12. m \in 0 .. m
    OBVIOUS
  <1>13. P[m] = Len(s)
    BY <1>3, <1>8, <1>11, <1>12 DEF SameFields
  <1>14. P[m] \in Nat /\ P[m] <= Len(c)
    BY <1>10, <1>12, LaidEnds
  <1> QED
    BY <1>3, <1>13, <1>14, LenProperties

(* LLMMessageCodec.cpp:64-108: and so is a response that misses its end.   *)
THEOREM CutResponseRefused ==
    ASSUME NEW response \in Response, NEW c \in Seq(Byte), StartOf(c, ResponsePayload(response)),
           Len(c) < Len(ResponsePayload(response))
    PROVE  ~Codec!ResponseDecodes(ResponseOf(c))
  <1> SUFFICES ASSUME Codec!ResponseDecodes(ResponseOf(c)) PROVE FALSE
    OBVIOUS
  <1>1. ~Codec!ReadResponse(c).thrown
    BY DEF Codec!ResponseDecodes, ResponseOf, Codec!Message
  <1>2. PICK F, O : ResponseAt(c, F, O)
    BY <1>1, ResponseFound
  <1>3. PICK s, E, A :
            /\ s \in Seq(Byte) /\ s = ResponsePayload(response)
            /\ ResponseAt(s, E, A) /\ A[8] = Len(s)
    BY ResponseLaid
  <1>4. Laid(c, ResponseKinds, F, O, 8) /\ O[0] = 0
    BY <1>2 DEF ResponseAt
  <1>5. Laid(s, ResponseKinds, F, O, 8)
    BY <1>3, <1>4, LaidLonger
  <1>6. Laid(s, ResponseKinds, E, A, 8) /\ A[0] = 0
    BY <1>3 DEF ResponseAt
  <1>7. SameFields(F, O, E, A, 8)
    BY <1>3, <1>4, <1>5, <1>6, LaidOnce
  <1>8. O[8] = Len(s)
    BY <1>3, <1>7 DEF SameFields
  <1>9. O[8] \in Nat /\ O[8] <= Len(c)
    BY <1>4, LaidEnds
  <1> QED
    BY <1>3, <1>8, <1>9, LenProperties

-----------------------------------------------------------------------------
(* Frames with more bytes behind them. *)

(* What a beginning has in a place is there in the whole. *)
PartThere(s, k, m, a) == SubSeq(s, k + 1, m) = a

LEMMA PartStays ==
    ASSUME NEW s \in Seq(Byte), NEW t \in Seq(Byte), StartOf(s, t), NEW l \in Nat, l = Len(s),
           NEW k \in Nat, NEW m \in Nat, k <= m, m <= l, NEW a, PartThere(s, k, m, a)
    PROVE  PartThere(t, k, m, a)
  <1>1. PICK b \in Seq(Byte) : b = SubSeq(s, k + 1, m) /\ PartOf(b, s, k, m)
    <2>1. PICK b : b = SubSeq(s, k + 1, m)
      OBVIOUS
    <2>2. PartOf(b, s, k, m)
      BY <2>1, PartOfIt
    <2> QED
      BY <2>1, <2>2 DEF PartOf
  <1>2. m <= Len(t)
    <2>1. PICK i \in Nat : i = Len(t) /\ l <= i
      BY LenProperties DEF StartOf
    <2> QED
      BY <2>1
  <1>3. PICK c \in Seq(Byte) : c = SubSeq(t, k + 1, m) /\ PartOf(c, t, k, m)
    <2>1. PICK c : c = SubSeq(t, k + 1, m)
      OBVIOUS
    <2>2. PartOf(c, t, k, m)
      BY <1>2, <2>1, PartOfIt
    <2> QED
      BY <2>1, <2>2 DEF PartOf
  <1>4. PICK n \in Nat : n = m - k
    OBVIOUS
  <1>5. ASSUME NEW i \in 1 .. n PROVE c[i] = b[i]
    <2>1. k + i \in 1 .. l
      BY <1>4
    <2>2. t[k + i] = s[k + i]
      BY <2>1 DEF StartOf
    <2>3. b[i] = s[k + i] /\ c[i] = t[k + i]
      BY <1>1, <1>3, <1>4 DEF PartOf
    <2> QED
      BY <2>2, <2>3
  <1>6. Len(b) = n /\ Len(c) = n
    BY <1>1, <1>3, <1>4 DEF PartOf
  <1>7. b \in [1 .. n -> Byte] /\ c \in [1 .. n -> Byte]
    BY <1>6, LenProperties
  <1>8. c = b
    BY <1>5, <1>7
  <1> QED
    BY <1>1, <1>3, <1>8 DEF PartThere

(* decode succeeds on what begins with what encode made of a payload whose *)
(* size fits its word, and gives the payload (frame.cpp:43-57, 59-127).    *)
THEOREM FrameDecodesFirst ==
    ASSUME NEW packet, IsPacket(packet), NEW t \in Seq(Byte), StartOf(Encode(packet), t)
    PROVE  Decodes(t) /\ Payload(t) = packet
  <1>1. packet \in Seq(Byte)
    BY DEF IsPacket
  <1>2. PICK size \in Nat, w \in Nat : size = Len(packet) /\ w = WordBytes
    BY <1>1, LenProperties, WordAssumption
  <1>3. PICK s : s = Encode(packet)
    OBVIOUS
  <1>4. PICK m \in Nat, p \in Nat, l \in Nat : p = w + w /\ m = w + w + size /\ l = m + w
                                               /\ 0 + w = w /\ w <= p /\ p <= m /\ m <= l /\ p <= l
                                               /\ w <= l
    <2>1. w <= w + w /\ w + w <= w + w + size
      OBVIOUS
    <2> QED
      BY <2>1
  <1>5. /\ s \in Seq(Byte) /\ l = Len(s)
        /\ PartThere(s, 0, w, Digits(FrameMagic, w)) /\ PartThere(s, w, p, Digits(size, w))
        /\ PartThere(s, p, m, packet) /\ PartThere(s, m, l, Digits(Checksum(packet), w))
    <2>1. IsFrame(s, packet, size, w)
      BY <1>2, <1>3, EncodeFacts
    <2>2. 0 + 1 = 1
      OBVIOUS
    <2> QED
      BY <1>4, <2>1, <2>2 DEF IsFrame, PartThere
  <1>6. StartOf(s, t) /\ 0 <= w
    BY <1>3
  <1>7. /\ PartThere(t, 0, w, Digits(FrameMagic, w)) /\ PartThere(t, w, p, Digits(size, w))
        /\ PartThere(t, p, m, packet) /\ PartThere(t, m, l, Digits(Checksum(packet), w))
    <2>1. l <= l
      OBVIOUS
    <2> QED
      BY <1>4, <1>5, <1>6, <2>1, PartStays
  <1>8. NumberAt(t, 0, w) = FrameMagic
    <2>1. SubSeq(t, 0 + 1, 0 + w) = Digits(FrameMagic, w)
      BY <1>4, <1>7 DEF PartThere
    <2> QED
      BY <1>2, <2>1, NumberAtIs, WordAssumption
  <1>9. size < Power[w]
    <2>1. PICK all \in Nat : all = Power[w]
      BY PowerFacts
    <2>2. size + w < all
      BY <1>2, <2>1 DEF IsPacket
    <2>3. size < all
      BY <2>2
    <2> QED
      BY <2>1, <2>3
  <1>10. NumberAt(t, w, w) = size
    <2>1. SubSeq(t, w + 1, w + w) = Digits(size, w)
      BY <1>4, <1>7 DEF PartThere
    <2> QED
      BY <1>9, <2>1, NumberAtIs
  <1>11. ChecksumStart(t) = m /\ PayloadStart = p
    BY <1>2, <1>4, <1>10 DEF ChecksumStart, PayloadStart
  <1>12. Payload(t) = packet
    BY <1>7, <1>11 DEF Payload, PartThere
  <1>13. PICK c \in Nat : c = Checksum(packet) /\ c < Power[w]
    BY <1>1, <1>2, ChecksumFits
  <1>14. NumberAt(t, m, w) = c
    <2>1. SubSeq(t, m + 1, m + w) = Digits(c, w)
      BY <1>4, <1>7, <1>13 DEF PartThere
    <2> QED
      BY <1>13, <2>1, NumberAtIs
  <1>15. HasNumber(t, 0, w) /\ HasNumber(t, w, w) /\ HasNumber(t, m, w)
    <2>1. PICK k \in Nat : k = Len(t) /\ l <= k
      BY <1>5, <1>6, LenProperties DEF StartOf
    <2>2. 0 + w <= k /\ w + w <= k /\ m + w <= k
      BY <1>4, <2>1
    <2> QED
      BY <2>1, <2>2 DEF HasNumber
  <1> QED
    BY <1>2, <1>8, <1>11, <1>12, <1>13, <1>14, <1>15 DEF Decodes

(* What goes out as a frame comes in as the message it was, whatever bytes *)
(* follow (message_byte_adapter.cpp).                                      *)
THEOREM MessageComesFirst ==
    ASSUME NEW message \in Message, IsPacket(Packet!Encode(message)),
           NEW t \in Seq(Byte), StartOf(FrameOf(message), t)
    PROVE  Accepts(t) /\ MessageIn(t) = message
  <1>1. PICK packet : packet = Packet!Encode(message)
    OBVIOUS
  <1>2. Decodes(t) /\ Payload(t) = packet
    BY <1>1, FrameDecodesFirst DEF FrameOf
  <1>3. Packet!Decodes(packet) /\ Packet!Decoded(packet) = message
    BY <1>1, PacketDecodes
  <1> QED
    BY <1>2, <1>3 DEF Accepts, MessageIn

-----------------------------------------------------------------------------
(* What decodes, encoded again, is what was read: responses. *)

(* What is laid is of its kind. *)
LEMMA LaidTyped ==
    ASSUME NEW s, NEW K, NEW F, NEW O, NEW n \in Nat, Laid(s, K, F, O, n), NEW i \in 1 .. n
    PROVE  F[i] \in FieldOf(K[i])
  BY DEF Laid, FieldLaid

(* Two texts come first; e is where they end. *)
TwoTexts(F, e) ==
    /\ F[1] \in Text /\ F[2] \in Text
    /\ e = Len(Codec!Str(F[1])) + Len(Codec!Str(F[2])) /\ e \in Nat

LEMMA LaidTexts ==
    ASSUME NEW s, NEW K, NEW F, NEW O, NEW n \in Nat, n > 1, Laid(s, K, F, O, n), O[0] = 0,
           K[1] = "str", K[2] = "str"
    PROVE  TwoTexts(F, O[2])
  <1>1. 1 \in 1 .. n /\ 2 \in 1 .. n /\ 1 - 1 = 0 /\ 2 - 1 = 1
    OBVIOUS
  <1>2. FieldLaid(s, K, F, O, 1) /\ FieldLaid(s, K, F, O, 2)
    BY <1>1 DEF Laid
  <1>3. /\ F[1] \in FieldOf("str") /\ O[1] = O[0] + Size("str", F[1])
        /\ F[2] \in FieldOf("str") /\ O[2] = O[1] + Size("str", F[2])
    BY <1>1, <1>2 DEF FieldLaid
  <1>4. /\ Size("str", F[1]) \in Nat /\ Len(Codec!Str(F[1])) = Size("str", F[1])
        /\ Size("str", F[2]) \in Nat /\ Len(Codec!Str(F[2])) = Size("str", F[2])
    <2>1. "str" \in Kinds
      BY DEF Kinds
    <2>2. IsEnc(Enc("str", F[1]), "str", F[1]) /\ IsEnc(Enc("str", F[2]), "str", F[2])
      BY <1>3, <2>1, EncFacts
    <2> QED
      BY <2>2 DEF IsEnc, Enc
  <1>5. PICK a \in Nat, b \in Nat : a = Size("str", F[1]) /\ b = Size("str", F[2])
    BY <1>4
  <1>6. O[2] = a + b
    BY <1>3, <1>5
  <1> QED
    BY <1>3, <1>4, <1>5, <1>6 DEF TwoTexts, FieldOf

(* Equal fields are equal bytes. *)
Same(s, t, O, P, n) ==
    O[n] = P[n] /\ \A j \in Nat : O[0] < j /\ j <= O[n] => s[j] = t[j]

LEMMA LaidSame ==
    ASSUME NEW s \in Seq(Byte), NEW t \in Seq(Byte), NEW K, NEW n \in Nat,
           NEW F, NEW O, Laid(s, K, F, O, n), NEW G, NEW P, Laid(t, K, G, P, n), O[0] = P[0],
           \A i \in 1 .. n : F[i] = G[i]
    PROVE  Same(s, t, O, P, n)
  <1>1. PICK x \in Nat : x = 0 /\ x \notin 1 .. n
    <2>1. 0 \in Nat /\ 0 \notin 1 .. n
      OBVIOUS
    <2> QED
      BY <2>1
  <1>2. Alike(s, t, O, P, x, n)
    BY <1>1, LaidAlike
  <1> QED
    BY <1>1, <1>2 DEF Alike, Same

(* s has what again has, but for byte i when coarse. *)
SameBut(again, s, i, coarse) ==
    /\ Len(again) <= Len(s)
    /\ \A j \in DOMAIN again : again[j] = s[j] \/ (j = i /\ coarse)

LEMMA StatusFacts ==
    ASSUME NEW byte \in Byte
    PROVE  /\ Codec!StatusOf(byte) \in Range(Codec!Statuses)
           /\ Codec!StatusOf(byte) # "BackendError"
                  => Codec!Code(Codec!Statuses, Codec!StatusOf(byte)) = byte
  <1>1. Coded(Codec!Statuses, 5) /\ Len(Codec!Statuses) = 5
    BY RolesCoded
  <1>2. CASE byte < 5
    <2>1. byte \in 0 .. 5 - 1
      BY <1>2, RadixAssumption DEF Byte
    <2>2. Codec!StatusOf(byte) = Codec!Statuses[byte + 1]
      BY <1>1, <1>2 DEF Codec!StatusOf
    <2> QED
      BY <1>1, <2>1, <2>2 DEF Coded
  <1>3. CASE ~ (byte < 5)
    <2>1. Codec!StatusOf(byte) = "BackendError"
      BY <1>1, <1>3 DEF Codec!StatusOf
    <2>2. Codec!Statuses[5] = "BackendError" /\ 4 \in 0 .. 5 - 1 /\ 4 + 1 = 5
      BY DEF Codec!Statuses
    <2>3. Codec!Statuses[5] \in Range(Codec!Statuses)
      BY <1>1, <2>2 DEF Coded
    <2> QED
      BY <2>1, <2>2, <2>3
  <1> QED
    BY <1>2, <1>3

LEMMA ResponseTyped ==
    ASSUME NEW t \in Seq(Byte), NEW F, NEW O, ResponseAt(t, F, O)
    PROVE  ResponseIn(F) \in Response /\ F[3] \in Byte
  <1>1. Laid(t, ResponseKinds, F, O, 8)
    BY DEF ResponseAt
  <1>2. /\ F[2] \in FieldOf("str") /\ F[3] \in FieldOf("u8") /\ F[4] \in FieldOf("str")
        /\ F[5] \in FieldOf("u32") /\ F[6] \in FieldOf("u32") /\ F[7] \in FieldOf("u32")
        /\ F[8] \in FieldOf("str")
    <2>1. \A i \in 1 .. 8 : F[i] \in FieldOf(ResponseKinds[i])
      BY <1>1, LaidTyped
    <2> QED
      BY <2>1, ResponseKindsFacts
  <1>3. /\ F[2] \in Text /\ F[3] \in Byte /\ F[4] \in Text /\ F[5] \in Word /\ F[6] \in Word
        /\ F[7] \in Word /\ F[8] \in Text
    BY <1>2 DEF FieldOf
  <1>4. Codec!StatusOf(F[3]) \in Range(Codec!Statuses)
    BY <1>3, StatusFacts
  <1> QED
    BY <1>3, <1>4 DEF ResponseIn, Response

LEMMA ResponsesAlike ==
    ASSUME NEW s \in Seq(Byte), NEW t \in Seq(Byte), NEW F, NEW O, NEW G, NEW P,
           Laid(s, ResponseKinds, F, O, 8), Laid(t, ResponseKinds, G, P, 8), O[0] = P[0],
           NEW x \in Nat, \A i \in 1 .. 8 : i # x => F[i] = G[i],
           Size(ResponseKinds[x], F[x]) = Size(ResponseKinds[x], G[x])
    PROVE  Alike(s, t, O, P, x, 8)
  <1>1. PICK K : K = ResponseKinds
    OBVIOUS
  <1>2. PICK n \in Nat : n = 8
    OBVIOUS
  <1>3. Laid(s, K, F, O, n) /\ Laid(t, K, G, P, n)
    BY <1>1, <1>2
  <1>4. \A i \in 1 .. n : i # x => F[i] = G[i]
    BY <1>2
  <1>5. Size(K[x], F[x]) = Size(K[x], G[x])
    BY <1>1
  <1>6. Alike(s, t, O, P, x, n)
    BY <1>3, <1>4, <1>5, LaidAlike
  <1> QED
    BY <1>2, <1>6

LEMMA ResponsesSame ==
    ASSUME NEW s \in Seq(Byte), NEW t \in Seq(Byte), NEW F, NEW O, NEW G, NEW P,
           Laid(s, ResponseKinds, F, O, 8), Laid(t, ResponseKinds, G, P, 8), O[0] = P[0],
           \A i \in 1 .. 8 : F[i] = G[i]
    PROVE  Same(s, t, O, P, 8)
  BY LaidSame

(* LLMMessageCodec.cpp:59-112, 149-158: a response that decodes, encoded   *)
(* again, is what was read, but for a byte that is no status.              *)
THEOREM ResponseReadsWhatIsThere ==
    ASSUME NEW t \in Seq(Byte), Codec!ResponseDecodes(ResponseOf(t)),
           NEW response, response = Codec!DecodedResponse(ResponseOf(t))
    PROVE  SameBut(ResponsePayload(response), t,
                   Len(Codec!Str(ResponseMagic)) + Len(Codec!Str(response.id)) + 1,
                   response.status = "BackendError")
  <1> DEFINE K == ResponseKinds
  <1>1. PICK F, O : ResponseAt(t, F, O)
    <2>1. ~Codec!ReadResponse(t).thrown
      BY DEF Codec!ResponseDecodes, ResponseOf, Codec!Message
    <2> QED
      BY <2>1, ResponseFound
  <1>2. response = ResponseIn(F) /\ F[1] = ResponseMagic /\ response \in Response /\ F[3] \in Byte
    BY <1>1, ResponseValue, ResponseTyped
  <1>3. PICK G : G = ResponseFields(response)
    OBVIOUS
  <1>4. PICK s, P :
            /\ s \in Seq(Byte) /\ s = ResponsePayload(response)
            /\ ResponseAt(s, G, P) /\ P[8] = Len(s)
    BY <1>2, <1>3, ResponseLaid
  <1>5. Laid(t, K, F, O, 8) /\ O[0] = 0 /\ Laid(s, K, G, P, 8) /\ P[0] = 0
    BY <1>1, <1>4 DEF ResponseAt
  <1>6. /\ G[1] = ResponseMagic /\ G[2] = response.id
        /\ G[3] = Codec!Code(Codec!Statuses, response.status)
        /\ G[4] = response.text /\ G[5] = response.prompt_tokens
        /\ G[6] = response.completion_tokens /\ G[7] = response.elapsed_ms
        /\ G[8] = response.error_message
    BY <1>3 DEF ResponseFields
  <1>7. /\ response.id = F[2] /\ response.status = Codec!StatusOf(F[3]) /\ response.text = F[4]
        /\ response.prompt_tokens = F[5] /\ response.completion_tokens = F[6]
        /\ response.elapsed_ms = F[7] /\ response.error_message = F[8]
    BY <1>2 DEF ResponseIn
  <1>8. \A i \in 1 .. 8 : i # 3 => G[i] = F[i]
    BY <1>2, <1>6, <1>7
  <1>9. PICK x \in Nat : x = 3 /\ x - 1 = 2 /\ Size(K[x], G[x]) = Size(K[x], F[x])
    <2>1. 3 \in Nat /\ 3 - 1 = 2
      OBVIOUS
    <2>2. Size(K[3], G[3]) = Size(K[3], F[3])
      BY ResponseKindsFacts DEF Size
    <2> QED
      BY <2>1, <2>2
  <1> HIDE DEF K
  <1>10. PICK e \in Nat : /\ e = P[2]
                          /\ e = Len(Codec!Str(ResponseMagic)) + Len(Codec!Str(response.id))
    <2>1. K[1] = "str" /\ K[2] = "str" /\ 8 > 1
      BY ResponseKindsFacts DEF K
    <2>2. TwoTexts(G, P[2])
      BY <1>5, <2>1, LaidTexts
    <2> QED
      BY <1>6, <2>2 DEF TwoTexts
  <1>11. P[3] = e + 1
    <2>1. FieldLaid(s, K, G, P, 3) /\ 3 - 1 = 2
      BY <1>5 DEF Laid
    <2>2. Size(K[3], G[3]) = 1
      BY ResponseKindsFacts DEF Size, K
    <2> QED
      BY <1>10, <2>1, <2>2 DEF FieldLaid
  <1>12. Alike(s, t, P, O, x, 8)
    <2>1. \A i \in 1 .. 8 : i # x => G[i] = F[i]
      BY <1>8, <1>9
    <2>2. s \in Seq(Byte)
      BY <1>4
    <2> QED
      BY <1>5, <1>9, <2>1, <2>2, ResponsesAlike DEF K
  <1>13. response.status # "BackendError" => Same(s, t, P, O, 8)
    <2> SUFFICES ASSUME response.status # "BackendError" PROVE Same(s, t, P, O, 8)
      OBVIOUS
    <2>1. G[3] = F[3]
      BY <1>2, <1>6, <1>7, StatusFacts
    <2>2. \A i \in 1 .. 8 : G[i] = F[i]
      BY <1>8, <2>1
    <2>3. s \in Seq(Byte)
      BY <1>4
    <2> QED
      BY <1>5, <2>2, <2>3, ResponsesSame DEF K
  <1>14. PICK l \in Nat : l = Len(s) /\ l = P[8] /\ l <= Len(t) /\ DOMAIN s = 1 .. l
    <2>1. O[8] <= Len(t)
      BY <1>5, LaidEnds
    <2>2. P[8] = O[8]
      BY <1>12 DEF Alike
    <2> QED
      BY <1>4, <2>1, <2>2, LenProperties
  <1>15. ASSUME NEW j \in 1 .. l
         PROVE  s[j] = t[j] \/ (j = e + 1 /\ response.status = "BackendError")
    <2>1. j \in Nat /\ P[0] < j /\ j <= P[8]
      BY <1>5, <1>14
    <2>2. CASE response.status = "BackendError"
      <3>1. s[j] = t[j] \/ Inside(P, x, j)
        BY <1>12, <2>1 DEF Alike
      <3>2. Inside(P, x, j) => j = e + 1
        <4>1. P[x - 1] = e /\ P[x] = e + 1
          BY <1>9, <1>10, <1>11
        <4>2. e < j /\ j <= e + 1 => j = e + 1
          OBVIOUS
        <4> QED
          BY <4>1, <4>2 DEF Inside
      <3> QED
        BY <2>2, <3>1, <3>2
    <2>3. CASE response.status # "BackendError"
      BY <1>13, <2>1, <2>3 DEF Same
    <2> QED
      BY <2>2, <2>3
  <1> QED
    BY <1>4, <1>10, <1>14, <1>15 DEF SameBut

-----------------------------------------------------------------------------
(* What decodes, encoded again, is what was read: requests. *)

LEMMA PromptTyped ==
    ASSUME NEW t \in Seq(Byte), NEW F, NEW O, NEW G, NEW P, NEW n, RequestAt(t, F, O, G, P, n),
           NEW i \in 1 .. n
    PROVE  [role |-> G[2 * (i - 1) + 1], content |-> G[2 * (i - 1) + 2]] \in Turn
  <1>1. n \in Nat
    BY WordFacts DEF RequestAt
  <1>2. PICK a \in Nat, b \in Nat, m \in Nat :
            a = 2 * (i - 1) + 1 /\ b = 2 * (i - 1) + 2 /\ m = 2 * n
            /\ a \in 1 .. m /\ b \in 1 .. m /\ a % 2 = 1 /\ b % 2 # 1
    <2>1. PICK k \in Nat : k = i - 1 /\ k < n
      <3>1. i - 1 \in Nat /\ i - 1 < n
        BY <1>1
      <3> QED
        BY <3>1
    <2>2. /\ 2 * k + 1 \in Nat /\ 2 * k + 2 \in Nat /\ 2 * n \in Nat
          /\ 2 * k + 1 \in 1 .. 2 * n /\ 2 * k + 2 \in 1 .. 2 * n
          /\ (2 * k + 1) % 2 = 1 /\ (2 * k + 2) % 2 # 1
      BY <1>1, <2>1
    <2> QED
      BY <2>1, <2>2
  <1>3. PICK K : K = Codec!PromptKinds(n) /\ K[a] = "role" /\ K[b] = "str"
    <2>1. PICK K : K = Codec!PromptKinds(n)
                   /\ K = [j \in 1 .. m |-> IF j % 2 = 1 THEN "role" ELSE "str"]
      BY <1>2 DEF Codec!PromptKinds
    <2>2. K[a] = "role" /\ K[b] = "str"
      BY <1>2, <2>1
    <2> QED
      BY <2>1, <2>2
  <1>4. Laid(t, K, G, P, m)
    BY <1>2, <1>3 DEF RequestAt
  <1>5. G[a] \in FieldOf("role") /\ G[b] \in FieldOf("str")
    <2>1. G[a] \in FieldOf(K[a]) /\ G[b] \in FieldOf(K[b])
      BY <1>2, <1>4, LaidTyped
    <2> QED
      BY <1>3, <2>1
  <1>6. G[a] \in Range(Codec!Roles) /\ G[b] \in Text
    BY <1>5 DEF FieldOf
  <1> QED
    BY <1>2, <1>6 DEF Turn

LEMMA RequestTyped ==
    ASSUME NEW t \in Seq(Byte), NEW F, NEW O, NEW G, NEW P, NEW n, RequestAt(t, F, O, G, P, n)
    PROVE  RequestIn(F, G, n) \in Request /\ F[8] \in Byte /\ Len(RequestIn(F, G, n).prompt) = n
  <1>1. Laid(t, Codec!RequestHead, F, O, 9) /\ n \in Nat /\ n < Power[WordBytes]
    BY WordFacts DEF RequestAt
  <1>2. /\ F[2] \in FieldOf("str") /\ F[3] \in FieldOf("u32") /\ F[4] \in FieldOf("u32")
        /\ F[5] \in FieldOf("u32") /\ F[6] \in FieldOf("u32") /\ F[7] \in FieldOf("u32")
        /\ F[8] \in FieldOf("u8")
    <2>1. \A i \in 1 .. 9 : F[i] \in FieldOf(Codec!RequestHead[i])
      BY <1>1, LaidTyped
    <2> QED
      BY <2>1, RequestKindsFacts
  <1>3. /\ F[2] \in Text /\ F[3] \in Word /\ F[4] \in Word /\ F[5] \in Word /\ F[6] \in Word
        /\ F[7] \in Word /\ F[8] \in Byte
    BY <1>2 DEF FieldOf
  <1>4. PICK p : p = [i \in 1 .. n |->
                        [role |-> G[2 * (i - 1) + 1], content |-> G[2 * (i - 1) + 2]]]
    OBVIOUS
  <1>5. p \in [1 .. n -> Turn]
    BY <1>4, PromptTyped
  <1>6. p \in Seq(Turn) /\ Len(p) = n
    BY <1>1, <1>5
  <1>7. p \in Prompt
    BY <1>1, <1>6 DEF Prompt
  <1>8. RequestIn(F, G, n) =
            [id |-> F[2], max_tokens |-> F[3], temperature |-> F[4], top_p |-> F[5],
             seed |-> F[6], timeout_ms |-> F[7], stream |-> F[8] # 0, prompt |-> p]
    BY <1>4 DEF RequestIn
  <1>9. (F[8] # 0) \in BOOLEAN
    OBVIOUS
  <1> QED
    BY <1>3, <1>6, <1>7, <1>8, <1>9 DEF Request

(* The fields of the request in F and G, written again. *)
WritesAgain(request, F) ==
    /\ \A i \in 1 .. 9 : i # 8 => HeadFields(request)[i] = F[i]
    /\ HeadFields(request)[8] = F[8] \/ (F[8] > 1 /\ request.stream)

LEMMA HeadAgain ==
    ASSUME NEW F, NEW G, NEW n, NEW request, request = RequestIn(F, G, n),
           F[1] = RequestMagic, F[9] = n, Len(request.prompt) = n, F[8] \in Byte
    PROVE  WritesAgain(request, F)
  <1>1. PICK E : E = HeadFields(request)
    OBVIOUS
  <1>2. /\ E[1] = F[1] /\ E[2] = F[2] /\ E[3] = F[3] /\ E[4] = F[4] /\ E[5] = F[5]
        /\ E[6] = F[6] /\ E[7] = F[7] /\ E[9] = F[9]
        /\ E[8] = IF request.stream THEN 1 ELSE 0
    BY <1>1 DEF HeadFields, RequestIn
  <1>3. request.stream <=> F[8] # 0
    BY DEF RequestIn
  <1>4. \A i \in 1 .. 9 : i # 8 => E[i] = F[i]
    BY <1>2
  <1>5. E[8] = F[8] \/ (F[8] > 1 /\ request.stream)
    <2>1. PICK x \in Nat : x = F[8]
      BY RadixAssumption DEF Byte
    <2>2. x = 0 \/ x = 1 \/ x > 1
      OBVIOUS
    <2> QED
      BY <1>2, <1>3, <2>1, <2>2
  <1> QED
    BY <1>1, <1>4, <1>5 DEF WritesAgain

LEMMA TurnsAgain ==
    ASSUME NEW F, NEW G, NEW n \in Nat, NEW request, request = RequestIn(F, G, n),
           Len(request.prompt) = n, NEW j \in 1 .. 2 * n
    PROVE  TurnFields(request.prompt)[j] = G[j]
  <1>1. PICK p : p = request.prompt /\ Len(p) = n
                 /\ p = [i \in 1 .. n |->
                            [role |-> G[2 * (i - 1) + 1], content |-> G[2 * (i - 1) + 2]]]
    BY DEF RequestIn
  <1>2. PICK k \in Nat : k < n /\ (j = 2 * k + 1 \/ j = 2 * k + 2)
    <2>1. (j - 1) \div 2 \in Nat /\ (j - 1) \div 2 < n
          /\ (j = 2 * ((j - 1) \div 2) + 1 \/ j = 2 * ((j - 1) \div 2) + 2)
      OBVIOUS
    <2> QED
      BY <2>1
  <1>3. TurnIs(p, k, n)
    BY <1>1, <1>2, TurnFacts
  <1>4. k + 1 \in 1 .. n /\ (k + 1) - 1 = k
    BY <1>2
  <1>5. p[k + 1] = [role |-> G[2 * k + 1], content |-> G[2 * k + 2]]
    <2>1. PICK i \in 1 .. n : i = k + 1 /\ i - 1 = k
      BY <1>4
    <2>2. p[i] = [role |-> G[2 * (i - 1) + 1], content |-> G[2 * (i - 1) + 2]]
      BY <1>1
    <2> QED
      BY <2>1, <2>2
  <1>6. /\ TurnFields(p)[2 * k + 1] = G[2 * k + 1]
        /\ TurnFields(p)[2 * k + 2] = G[2 * k + 2]
    BY <1>3, <1>5 DEF TurnIs
  <1> QED
    BY <1>1, <1>2, <1>6

(* The flag of a request comes after two texts and five words. *)
FlagIs(F, O, flag) ==
    /\ O[7] \in Nat /\ flag = O[7] + 1 /\ O[8] = flag
    /\ flag = Len(Codec!Str(F[1])) + Len(Codec!Str(F[2])) + 5 * WordBytes + 1

LEMMA FlagPlace ==
    ASSUME NEW s, NEW F, NEW O, Laid(s, Codec!RequestHead, F, O, 9), O[0] = 0
    PROVE  \E flag \in Nat : FlagIs(F, O, flag)
  <1> DEFINE K == Codec!RequestHead
  <1>1. K[1] = "str" /\ K[2] = "str" /\ 9 > 1
    BY RequestKindsFacts
  <1>2. TwoTexts(F, O[2])
    BY <1>1, LaidTexts
  <1>3. PICK e \in Nat, w \in Nat :
            e = O[2] /\ e = Len(Codec!Str(F[1])) + Len(Codec!Str(F[2])) /\ w = WordBytes
    BY <1>2, WordAssumption DEF TwoTexts
  <1>4. /\ O[3] = O[3 - 1] + Size(K[3], F[3]) /\ O[4] = O[4 - 1] + Size(K[4], F[4])
        /\ O[5] = O[5 - 1] + Size(K[5], F[5]) /\ O[6] = O[6 - 1] + Size(K[6], F[6])
        /\ O[7] = O[7 - 1] + Size(K[7], F[7]) /\ O[8] = O[8 - 1] + Size(K[8], F[8])
    <2>1. \A i \in 1 .. 9 : O[i] = O[i - 1] + Size(K[i], F[i])
      BY DEF Laid, FieldLaid
    <2> QED
      BY <2>1
  <1>5. 3 - 1 = 2 /\ 4 - 1 = 3 /\ 5 - 1 = 4 /\ 6 - 1 = 5 /\ 7 - 1 = 6 /\ 8 - 1 = 7
    OBVIOUS
  <1>6. /\ Size(K[3], F[3]) = w /\ Size(K[4], F[4]) = w /\ Size(K[5], F[5]) = w
        /\ Size(K[6], F[6]) = w /\ Size(K[7], F[7]) = w /\ Size(K[8], F[8]) = 1
    BY <1>3, RequestKindsFacts DEF Size
  <1>7. /\ O[3] = O[2] + w /\ O[4] = O[3] + w /\ O[5] = O[4] + w /\ O[6] = O[5] + w
        /\ O[7] = O[6] + w /\ O[8] = O[7] + 1
    BY <1>4, <1>5, <1>6
  <1>8. O[7] = e + 5 * w /\ O[7] \in Nat
    <2>1. PICK a \in Nat : O[3] = a /\ a = e + w
      <3>1. O[2] = e /\ O[3] = O[2] + w
        BY <1>3, <1>7
      <3>2. O[3] = e + w
        BY <3>1
      <3> QED
        BY <3>2
    <2>2. PICK b \in Nat : O[4] = b /\ b = e + 2 * w
      BY <1>7, <2>1
    <2>3. PICK c \in Nat : O[5] = c /\ c = e + 3 * w
      BY <1>7, <2>2
    <2>4. PICK d \in Nat : O[6] = d /\ d = e + 4 * w
      BY <1>7, <2>3
    <2>5. O[7] = d + w
      BY <1>7, <2>4
    <2> QED
      BY <2>4, <2>5
  <1>9. PICK flag \in Nat : flag = O[7] + 1 /\ flag = O[8] /\ flag = e + 5 * w + 1
    BY <1>7, <1>8
  <1> QED
    BY <1>3, <1>8, <1>9 DEF FlagIs

LEMMA HeadAlike ==
    ASSUME NEW s \in Seq(Byte), NEW t \in Seq(Byte), NEW E, NEW A,
           Laid(s, Codec!RequestHead, E, A, 9), NEW F, NEW O,
           Laid(t, Codec!RequestHead, F, O, 9), A[0] = O[0],
           NEW x \in Nat, x = 8, \A i \in 1 .. 9 : i # x => E[i] = F[i]
    PROVE  Alike(s, t, A, O, x, 9)
  <1>1. PICK K : K = Codec!RequestHead
    OBVIOUS
  <1>2. Size(K[x], E[x]) = Size(K[x], F[x])
    BY <1>1, RequestKindsFacts DEF Size
  <1>3. Laid(s, K, E, A, 9) /\ Laid(t, K, F, O, 9)
    BY <1>1
  <1> QED
    BY <1>2, <1>3, LaidAlike

LEMMA HeadSame ==
    ASSUME NEW s \in Seq(Byte), NEW t \in Seq(Byte), NEW E, NEW A,
           Laid(s, Codec!RequestHead, E, A, 9), NEW F, NEW O,
           Laid(t, Codec!RequestHead, F, O, 9), A[0] = O[0], \A i \in 1 .. 9 : E[i] = F[i]
    PROVE  Same(s, t, A, O, 9)
  <1>1. PICK K : K = Codec!RequestHead
    OBVIOUS
  <1>2. PICK n \in Nat : n = 9
    OBVIOUS
  <1>3. Laid(s, K, E, A, n) /\ Laid(t, K, F, O, n) /\ \A i \in 1 .. n : E[i] = F[i]
    BY <1>1, <1>2
  <1>4. Same(s, t, A, O, n)
    BY <1>3, LaidSame
  <1> QED
    BY <1>2, <1>4

(* LLMMessageCodec.cpp:59-112, 224-284: a request that decodes, encoded    *)
(* again, is what was read, but for a byte that is no Boolean.             *)
THEOREM RequestReadsWhatIsThere ==
    ASSUME NEW t \in Seq(Byte), Codec!RequestDecodes(RequestOf(t)),
           NEW request, request = Codec!DecodedRequest(RequestOf(t)),
           NEW flag, flag = Len(Codec!Str(RequestMagic)) + Len(Codec!Str(request.id))
                                + 5 * WordBytes + 1
    PROVE  SameBut(RequestPayload(request), t, flag, request.stream /\ t[flag] > 1)
  <1> DEFINE K == Codec!RequestHead
  <1>1. PICK F, O, G, P, n : RequestAt(t, F, O, G, P, n)
    <2>1. ~Codec!ReadRequest(t).thrown
      BY DEF Codec!RequestDecodes, RequestOf, Codec!Message
    <2> QED
      BY <2>1, RequestFound
  <1>2. /\ request = RequestIn(F, G, n) /\ F[1] = RequestMagic /\ request \in Request
        /\ F[8] \in Byte /\ Len(request.prompt) = n
    BY <1>1, RequestValue, RequestTyped
  <1>3. PICK E, D : E = HeadFields(request) /\ D = TurnFields(request.prompt)
    OBVIOUS
  <1>4. PICK s, A, B :
            /\ s \in Seq(Byte) /\ s = RequestPayload(request)
            /\ RequestAt(s, E, A, D, B, n) /\ B[2 * n] = Len(s)
    BY <1>2, <1>3, RequestLaid
  <1>5. PICK m \in Nat : m = 2 * n /\ n \in Nat
    BY <1>1, WordFacts DEF RequestAt
  <1>6. /\ Laid(t, K, F, O, 9) /\ O[0] = 0 /\ Laid(s, K, E, A, 9) /\ A[0] = O[0]
        /\ F[9] = n
    BY <1>1, <1>4 DEF RequestAt
  <1>7. PICK L : /\ Laid(t, L, G, P, m) /\ P[0] = O[9]
                 /\ Laid(s, L, D, B, m) /\ B[0] = A[9]
    <2>1. PICK L : L = Codec!PromptKinds(n)
      OBVIOUS
    <2> QED
      BY <1>1, <1>4, <1>5, <2>1 DEF RequestAt
  <1>8. /\ \A i \in 1 .. 9 : i # 8 => E[i] = F[i]
        /\ E[8] = F[8] \/ (F[8] > 1 /\ request.stream)
    <2>1. WritesAgain(request, F)
      BY <1>2, <1>6, HeadAgain
    <2> QED
      BY <1>3, <2>1 DEF WritesAgain
  <1>9. \A i \in 1 .. m : D[i] = G[i]
    BY <1>2, <1>3, <1>5, TurnsAgain
  <1>10. PICK x \in Nat : x = 8 /\ x - 1 = 7
    <2>1. 8 \in Nat /\ 8 - 1 = 7
      OBVIOUS
    <2> QED
      BY <2>1
  <1>11. PICK f \in Nat, g \in Nat : FlagIs(E, A, f) /\ FlagIs(F, O, g)
    BY <1>6, FlagPlace
  <1>12. f = flag /\ g = flag
    <2>1. E[1] = F[1] /\ E[2] = F[2]
      BY <1>8
    <2>2. F[2] = request.id
      BY <1>2 DEF RequestIn
    <2> QED
      BY <1>2, <1>11, <2>1, <2>2 DEF FlagIs
  <1>13. t[flag] = F[8]
    <2>1. FieldLaid(t, K, F, O, 8)
      BY <1>6 DEF Laid
    <2>2. Holds(t, O[7], <<F[8]>>)
      <3>1. 8 - 1 = 7
        OBVIOUS
      <3> QED
        BY <2>1, <3>1, RequestKindsFacts DEF FieldLaid, Enc
    <2>3. t[O[7] + 1] = F[8]
      BY <2>2 DEF Holds
    <2> QED
      BY <1>11, <1>12, <2>3 DEF FlagIs
  <1> HIDE DEF K
  <1>14. Alike(s, t, A, O, x, 9)
    <2>1. \A i \in 1 .. 9 : i # x => E[i] = F[i]
      BY <1>8, <1>10
    <2>2. s \in Seq(Byte)
      BY <1>4
    <2> QED
      BY <1>6, <1>10, <2>1, <2>2, HeadAlike DEF K
  <1>15. E[8] = F[8] => Same(s, t, A, O, 9)
    <2> SUFFICES ASSUME E[8] = F[8] PROVE Same(s, t, A, O, 9)
      OBVIOUS
    <2>1. \A i \in 1 .. 9 : E[i] = F[i]
      BY <1>8
    <2>2. s \in Seq(Byte)
      BY <1>4
    <2> QED
      BY <1>6, <2>1, <2>2, HeadSame DEF K
  <1>16. A[9] = O[9] /\ A[9] \in Nat
    <2>1. 9 \in 0 .. 9
      OBVIOUS
    <2> QED
      BY <1>6, <1>14, <2>1, LaidEnds DEF Alike
  <1>17. Same(s, t, B, P, m)
    BY <1>4, <1>9, <1>16, <1>7, LaidSame
  <1>18. PICK l \in Nat : l = Len(s) /\ l = B[m] /\ l <= Len(t) /\ DOMAIN s = 1 .. l
    <2>1. m \in 0 .. m
      OBVIOUS
    <2>2. P[m] <= Len(t)
      BY <1>7, <2>1, LaidEnds
    <2>3. B[m] = P[m] /\ B[m] = Len(s)
      BY <1>4, <1>5, <1>17 DEF Same
    <2> QED
      BY <2>2, <2>3, LenProperties
  <1>19. ASSUME NEW j \in 1 .. l
         PROVE  s[j] = t[j] \/ (j = flag /\ request.stream /\ t[flag] > 1)
    <2>1. j \in Nat /\ 0 < j /\ j <= l
      OBVIOUS
    <2>2. CASE j > A[9]
      <3>1. B[0] < j /\ j <= B[m]
        BY <1>16, <1>18, <1>7, <2>1, <2>2
      <3> QED
        BY <1>17, <2>1, <3>1 DEF Same
    <2>3. CASE j <= A[9] /\ E[8] = F[8]
      BY <1>6, <1>15, <2>1, <2>3 DEF Same
    <2>4. CASE j <= A[9] /\ E[8] # F[8]
      <3>1. s[j] = t[j] \/ Inside(A, x, j)
        BY <1>6, <1>14, <2>1, <2>4 DEF Alike
      <3>2. Inside(A, x, j) => j = flag
        <4>1. PICK a \in Nat : A[x - 1] = a /\ A[x] = flag /\ flag = a + 1
          BY <1>10, <1>11, <1>12 DEF FlagIs
        <4>2. a < j /\ j <= a + 1 => j = a + 1
          OBVIOUS
        <4> QED
          BY <4>1, <4>2 DEF Inside
      <3> QED
        BY <1>8, <1>13, <2>4, <3>1, <3>2
    <2> QED
      BY <1>16, <2>2, <2>3, <2>4
  <1> QED
    BY <1>4, <1>18, <1>19 DEF SameBut

-----------------------------------------------------------------------------
(* The line. *)

(* What is sent, as bytes. *)
LEMMA MessageEncoded ==
    ASSUME NEW message \in Messages
    PROVE  /\ message \in Message /\ IsPacket(Packet!Encode(message))
           /\ FrameOf(message) \in Seq(Byte)
  <1>1. message \in Message /\ Len(Packet!Encode(message)) + WordBytes < Power[WordBytes]
    BY ContentsFit
  <1>2. PICK packet : packet = Packet!Encode(message)
    OBVIOUS
  <1>3. IsPacket(packet)
    <2>1. PICK at, end : Written(packet, message, at, end)
      BY <1>1, <1>2, EncodeWrites
    <2> QED
      BY <1>1, <1>2, <2>1 DEF Written, IsPacket
  <1>4. PICK size \in Nat, w \in Nat : size = Len(packet) /\ w = WordBytes
    BY <1>3, LenProperties, WordAssumption DEF IsPacket
  <1>5. PICK s : s = Encode(packet)
    OBVIOUS
  <1>6. IsFrame(s, packet, size, w)
    BY <1>3, <1>4, <1>5, EncodeFacts
  <1> QED
    BY <1>1, <1>2, <1>3, <1>5, <1>6 DEF IsFrame, FrameOf

LEMMA KindsOfContents ==
    /\ Messages \cap Requests = {} /\ Messages \cap Responses = {} /\ Requests \cap Responses = {}
  <1>1. \A r \in Message : "type" \in DOMAIN r
    BY DEF Message
  <1>2. \A r \in Request : "type" \notin DOMAIN r /\ "status" \notin DOMAIN r
    BY DEF Request
  <1>3. \A r \in Response : "type" \notin DOMAIN r /\ "status" \in DOMAIN r
    BY DEF Response
  <1> QED
    BY <1>1, <1>2, <1>3, ContentsFit

LEMMA EncodedFacts ==
    ASSUME NEW content \in Messages \cup Requests \cup Responses
    PROVE  /\ Encoded(content) \in Seq(Byte)
           /\ content \in Messages => Encoded(content) = FrameOf(content)
           /\ content \in Requests => Encoded(content) = RequestPayload(content)
           /\ content \in Responses => Encoded(content) = ResponsePayload(content)
  <1>1. CASE content \in Messages
    <2>1. content \notin Requests /\ content \notin Responses
      BY <1>1, KindsOfContents
    <2>2. Encoded(content) = FrameOf(content)
      BY <1>1, <2>1 DEF Encoded
    <2> QED
      BY <1>1, <2>1, <2>2, MessageEncoded
  <1>2. CASE content \in Requests
    <2>1. content \notin Messages /\ content \notin Responses
      BY <1>2, KindsOfContents
    <2>2. Encoded(content) = RequestPayload(content)
      BY <1>2, <2>1 DEF Encoded, RequestPayload
    <2>3. RequestPayload(content) \in Seq(Byte)
      BY <1>2, ContentsFit, RequestLaid
    <2> QED
      BY <1>2, <2>1, <2>2, <2>3
  <1>3. CASE content \in Responses
    <2>1. content \notin Messages /\ content \notin Requests
      BY <1>3, KindsOfContents
    <2>2. Encoded(content) = ResponsePayload(content)
      BY <1>3, <2>1 DEF Encoded, ResponsePayload
    <2>3. ResponsePayload(content) \in Seq(Byte)
      BY <1>3, ContentsFit, ResponseLaid
    <2> QED
      BY <1>3, <2>1, <2>2, <2>3
  <1> QED
    BY <1>1, <1>2, <1>3

-----------------------------------------------------------------------------
(* The first bytes of some. *)
IsCut(c, s, n) == c \in Seq(Byte) /\ Len(c) = n /\ StartOf(c, s)

LEMMA CutFacts ==
    ASSUME NEW s \in Seq(Byte), NEW n \in Nat, n <= Len(s), NEW c, c = SubSeq(s, 1, n)
    PROVE  IsCut(c, s, n)
  <1>1. PICK l \in Nat : l = Len(s) /\ n <= l
    BY LenProperties
  <1>2. 0 + 1 = 1 /\ n - 0 = n /\ 0 <= n
    OBVIOUS
  <1>3. c = SubSeq(s, 0 + 1, n)
    BY <1>2
  <1>4. c \in Seq(Byte) /\ Len(c) = n - 0 /\ \A i \in 1 .. n - 0 : c[i] = s[0 + i]
    BY <1>1, <1>2, <1>3, PartFacts
  <1>5. \A i \in 1 .. n : 0 + i = i
    OBVIOUS
  <1>6. Len(c) = n /\ \A i \in 1 .. n : s[i] = c[i]
    BY <1>2, <1>4, <1>5
  <1> QED
    BY <1>1, <1>4, <1>6 DEF IsCut, StartOf

(* What the line does to bytes, by the name of the damage. *)
Cuts(e, b) == \E n \in 0 .. Len(e) - 1 : b = SubSeq(e, 1, n)

Extends(e, b) == \E byte \in Byte : b = Append(e, byte)

Changes(e, b, outside) ==
    \E i \in DOMAIN e : \E byte \in Byte \ {e[i]} :
        b = [e EXCEPT ![i] = byte] /\ i \notin outside

SizeWord == WordBytes + 1 .. 2 * WordBytes

Damaged(content, e, b, d) ==
    /\ d = "none" => b = e
    /\ d = "cut" => Cuts(e, b)
    /\ d = "extended" => Extends(e, b)
    /\ d = "changed" /\ content \in Messages => Changes(e, b, SizeWord)

(* Whatever arrives is what was sent, damaged once. *)
LineInvariant == LineTypeOK /\ Damaged(original, Encoded(original), bytes, damage)

LEMMA LineInvariantInit == LineInit => LineInvariant
  <1> SUFFICES ASSUME LineInit PROVE LineInvariant
    OBVIOUS
  <1>1. Encoded(original) \in Seq(Byte)
    BY EncodedFacts DEF LineInit
  <1> QED
    BY <1>1 DEF LineInit, LineInvariant, LineTypeOK, Damaged

LEMMA LineInvariantStep == LineInvariant /\ [LineNext]_lineVars => LineInvariant'
  <1> SUFFICES ASSUME LineInvariant, [LineNext]_lineVars PROVE LineInvariant'
    OBVIOUS
  <1>1. CASE UNCHANGED lineVars
    BY <1>1 DEF lineVars, LineInvariant, LineTypeOK, Damaged, Cuts, Extends, Changes, Encoded
  <1>2. CASE LineNext
    <2>1. /\ original' = original /\ bytes \in Seq(Byte) /\ bytes = Encoded(original)
          /\ original \in Messages \cup Requests \cup Responses
      BY <1>2 DEF LineInvariant, LineTypeOK, Damaged, LineNext
    <2>2. Encoded(original)' = bytes
      BY <2>1 DEF Encoded
    <2>3. PICK l \in Nat : l = Len(bytes) /\ DOMAIN bytes = 1 .. l
      BY <2>1, LenProperties
    <2>4. CASE Cut
      <3>1. PICK n \in 0 .. l - 1 : bytes' = SubSeq(bytes, 1, n) /\ damage' = "cut"
        BY <2>3, <2>4 DEF Cut
      <3>2. bytes' \in Seq(Byte)
        <4>1. n \in Nat /\ n <= Len(bytes)
          BY <2>3
        <4>2. IsCut(bytes', bytes, n)
          BY <2>1, <3>1, <4>1, CutFacts
        <4> QED
          BY <4>2 DEF IsCut
      <3>3. Cuts(bytes, bytes')
        BY <2>3, <3>1 DEF Cuts
      <3> QED
        BY <2>1, <2>2, <3>1, <3>2, <3>3 DEF LineInvariant, LineTypeOK, Damaged
    <2>5. CASE Extend
      <3>1. PICK byte \in Byte : bytes' = Append(bytes, byte) /\ damage' = "extended"
        BY <2>5 DEF Extend
      <3>2. bytes' \in Seq(Byte)
        BY <2>1, <3>1
      <3>3. Extends(bytes, bytes')
        BY <3>1 DEF Extends
      <3> QED
        BY <2>1, <2>2, <3>1, <3>2, <3>3 DEF LineInvariant, LineTypeOK, Damaged
    <2>6. CASE Change
      <3>1. PICK i \in 1 .. l, byte \in Byte :
                /\ byte # bytes[i] /\ bytes' = [bytes EXCEPT ![i] = byte]
                /\ damage' = IF original \in Messages /\ i \in SizeWord
                             THEN "resized" ELSE "changed"
        BY <2>3, <2>6 DEF Change, SizeWord
      <3>2. bytes' \in Seq(Byte)
        BY <2>1, <2>3, <3>1
      <3>3. damage' = "changed" /\ original \in Messages => Changes(bytes, bytes', SizeWord)
        BY <2>3, <3>1 DEF Changes
      <3>4. damage' \in {"changed", "resized"}
        BY <3>1
      <3> QED
        BY <2>1, <2>2, <3>2, <3>3, <3>4 DEF LineInvariant, LineTypeOK, Damaged
    <2> QED
      BY <1>2, <2>4, <2>5, <2>6 DEF LineNext
  <1> QED
    BY <1>1, <1>2

(* In every reachable state the line carries one of the contents, and what *)
(* arrives of it are bytes.                                                *)
THEOREM LineTypeCorrect == LineSpec => []LineTypeOK
  <1>1. LineInvariant => LineTypeOK
    BY DEF LineInvariant
  <1> QED
    BY <1>1, LineInvariantInit, LineInvariantStep, PTL DEF LineSpec

(* What arrives whole, with more bytes or without, begins with what was sent. *)
LEMMA WholeArrives ==
    ASSUME LineInvariant, damage \in {"none", "extended"}
    PROVE  bytes \in Seq(Byte) /\ StartOf(Encoded(original), bytes)
  <1>1. PICK e \in Seq(Byte) : e = Encoded(original)
    BY EncodedFacts DEF LineInvariant, LineTypeOK
  <1>2. bytes \in Seq(Byte) /\ Damaged(original, e, bytes, damage)
    BY <1>1 DEF LineInvariant, LineTypeOK
  <1>3. PICK l \in Nat : l = Len(e)
    BY LenProperties
  <1>4. CASE damage = "none"
    <2>1. bytes = e
      BY <1>2, <1>4 DEF Damaged
    <2>2. l <= l
      OBVIOUS
    <2> QED
      BY <1>1, <1>3, <2>1, <2>2 DEF StartOf
  <1>5. CASE damage = "extended"
    <2>1. PICK byte \in Byte : bytes = Append(e, byte)
      BY <1>2, <1>5 DEF Damaged, Extends
    <2>2. Len(bytes) = l + 1 /\ \A i \in 1 .. l : bytes[i] = e[i]
      BY <1>3, <2>1, PushFacts
    <2>3. l <= l + 1
      OBVIOUS
    <2> QED
      BY <1>1, <1>2, <1>3, <2>2, <2>3 DEF StartOf
  <1> QED
    BY <1>4, <1>5

LEMMA InvariantRoundTrip == LineInvariant => RoundTrip
  <1> SUFFICES ASSUME LineInvariant, damage \in {"none", "extended"}
               PROVE  /\ original \in Messages => Accepts(bytes) /\ MessageIn(bytes) = original
                      /\ original \in Requests =>
                             /\ Codec!RequestDecodes(AsRequest)
                             /\ Codec!DecodedRequest(AsRequest) = original
                             /\ ~Codec!ResponseDecodes(AsResponse)
                      /\ original \in Responses =>
                             /\ Codec!ResponseDecodes(AsResponse)
                             /\ Codec!DecodedResponse(AsResponse) = original
                             /\ ~Codec!RequestDecodes(AsRequest)
    BY DEF RoundTrip
  <1>1. bytes \in Seq(Byte) /\ StartOf(Encoded(original), bytes)
    BY WholeArrives
  <1>2. original \in Messages \cup Requests \cup Responses
    BY DEF LineInvariant, LineTypeOK
  <1>3. AsRequest = RequestOf(bytes) /\ AsResponse = ResponseOf(bytes)
    BY DEF AsRequest, AsResponse, RequestOf, ResponseOf
  <1>4. ASSUME original \in Messages
        PROVE  Accepts(bytes) /\ MessageIn(bytes) = original
    <2>1. StartOf(FrameOf(original), bytes)
      BY <1>1, <1>4, EncodedFacts
    <2> QED
      BY <1>1, <1>4, <2>1, MessageEncoded, MessageComesFirst
  <1>5. ASSUME original \in Requests
        PROVE  /\ Codec!RequestDecodes(RequestOf(bytes))
               /\ Codec!DecodedRequest(RequestOf(bytes)) = original
               /\ ~Codec!ResponseDecodes(ResponseOf(bytes))
    <2>1. StartOf(RequestPayload(original), bytes) /\ original \in Request
      BY <1>1, <1>5, EncodedFacts, ContentsFit
    <2>2. Related(RequestPayload(original), bytes)
      BY <2>1 DEF Related
    <2> QED
      BY <1>1, <2>1, <2>2, RequestComesBack, RequestIsNoResponse
  <1>6. ASSUME original \in Responses
        PROVE  /\ Codec!ResponseDecodes(ResponseOf(bytes))
               /\ Codec!DecodedResponse(ResponseOf(bytes)) = original
               /\ ~Codec!RequestDecodes(RequestOf(bytes))
    <2>1. StartOf(ResponsePayload(original), bytes) /\ original \in Response
      BY <1>1, <1>6, EncodedFacts, ContentsFit
    <2>2. Related(ResponsePayload(original), bytes)
      BY <2>1 DEF Related
    <2> QED
      BY <1>1, <2>1, <2>2, ResponseComesBack, ResponseIsNoRequest
  <1> QED
    BY <1>3, <1>4, <1>5, <1>6

(* Whatever is sent and arrives whole comes out as it went in, and a       *)
(* request never as a response or the other way round.                     *)
THEOREM LineRoundTrip == LineSpec => []RoundTrip
  BY InvariantRoundTrip, LineInvariantInit, LineInvariantStep, PTL DEF LineSpec

LEMMA InvariantDamageDetected == LineInvariant => DamageDetected
  <1> SUFFICES ASSUME LineInvariant, original \in Messages, damage \in {"cut", "changed"}
               PROVE  ~Decodes(bytes)
    BY DEF DamageDetected, Accepts
  <1>1. PICK packet : packet = Packet!Encode(original)
    OBVIOUS
  <1>2. IsPacket(packet) /\ Encode(packet) = Encoded(original) /\ Encode(packet) \in Seq(Byte)
    BY <1>1, MessageEncoded, EncodedFacts DEF FrameOf
  <1>3. PICK e \in Seq(Byte), l \in Nat : e = Encode(packet) /\ l = Len(e) /\ DOMAIN e = 1 .. l
    BY <1>2, LenProperties
  <1>4. Damaged(original, e, bytes, damage)
    BY <1>2, <1>3 DEF LineInvariant
  <1>5. CASE damage = "cut"
    <2>1. PICK n \in 0 .. l - 1 : bytes = SubSeq(e, 1, n)
      BY <1>3, <1>4, <1>5 DEF Damaged, Cuts
    <2>2. n \in Nat /\ n < l
      OBVIOUS
    <2> QED
      BY <1>2, <1>3, <2>1, <2>2, CutRefused
  <1>6. CASE damage = "changed"
    <2>1. PICK i \in 1 .. l, byte \in Byte :
              byte # e[i] /\ bytes = [e EXCEPT ![i] = byte] /\ i \notin SizeWord
      BY <1>3, <1>4, <1>6 DEF Damaged, Changes
    <2> QED
      BY <1>2, <1>3, <2>1, ChangeRefused DEF SizeWord
  <1> QED
    BY <1>5, <1>6

(* A frame that was cut off, or has a byte changed that is not of its      *)
(* size, is never accepted.                                                *)
THEOREM LineDamageDetected == LineSpec => []DamageDetected
  BY InvariantDamageDetected, LineInvariantInit, LineInvariantStep, PTL DEF LineSpec

LEMMA InvariantNoPrefixDecodes == LineInvariant => NoPrefixDecodes
  <1> SUFFICES ASSUME LineInvariant PROVE NoPrefixDecodes
    OBVIOUS
  <1>1. ASSUME original \in Messages, NEW n \in 0 .. Len(Packet!Encode(original)) - 1
        PROVE  ~Packet!Decodes(SubSeq(Packet!Encode(original), 1, n))
    <2>1. Packet!Encode(original) \in Seq(Byte) /\ original \in Message
      BY <1>1, MessageEncoded DEF IsPacket
    <2>2. n \in Nat /\ n < Len(Packet!Encode(original))
      BY <2>1, LenProperties
    <2> QED
      BY <2>1, <2>2, CutPacketRefused
  <1>2. ASSUME original \notin Messages, damage = "cut"
        PROVE  ~Codec!RequestDecodes(AsRequest) /\ ~Codec!ResponseDecodes(AsResponse)
    <2>1. /\ original \in Messages \cup Requests \cup Responses
          /\ Damaged(original, Encoded(original), bytes, damage)
      BY DEF LineInvariant, LineTypeOK
    <2>2. PICK e \in Seq(Byte), l \in Nat : e = Encoded(original) /\ l = Len(e)
      BY <2>1, EncodedFacts, LenProperties
    <2>3. PICK n \in 0 .. l - 1 : bytes = SubSeq(e, 1, n)
      BY <1>2, <2>1, <2>2 DEF Damaged, Cuts
    <2>4. n \in Nat /\ n <= l /\ n < l
      OBVIOUS
    <2>5. IsCut(bytes, e, n)
      BY <2>2, <2>3, <2>4, CutFacts
    <2>6. bytes \in Seq(Byte) /\ StartOf(bytes, e) /\ Len(bytes) < Len(e)
      BY <2>2, <2>4, <2>5 DEF IsCut
    <2>7. Related(e, bytes)
      BY <2>6 DEF Related
    <2>8. AsRequest = RequestOf(bytes) /\ AsResponse = ResponseOf(bytes)
      BY DEF AsRequest, AsResponse, RequestOf, ResponseOf
    <2>9. CASE original \in Requests
      <3>1. original \in Request /\ e = RequestPayload(original)
        BY <2>2, <2>9, EncodedFacts, ContentsFit
      <3> QED
        BY <2>6, <2>7, <2>8, <3>1, CutRequestRefused, RequestIsNoResponse
    <2>10. CASE original \in Responses
      <3>1. original \in Response /\ e = ResponsePayload(original)
        BY <2>2, <2>10, EncodedFacts, ContentsFit
      <3> QED
        BY <2>6, <2>7, <2>8, <3>1, CutResponseRefused, ResponseIsNoRequest
    <2> QED
      BY <1>2, <2>1, <2>9, <2>10
  <1> QED
    BY <1>1, <1>2 DEF NoPrefixDecodes

(* No packet, request or response decodes that misses its end.             *)
THEOREM LineNoPrefixDecodes == LineSpec => []NoPrefixDecodes
  BY InvariantNoPrefixDecodes, LineInvariantInit, LineInvariantStep, PTL DEF LineSpec

LEMMA InvariantReadsWhatIsThere == LineInvariant => ReadsWhatIsThere
  <1> SUFFICES ASSUME LineInvariant PROVE ReadsWhatIsThere
    OBVIOUS
  <1>1. bytes \in Seq(Byte)
    BY DEF LineInvariant, LineTypeOK
  <1>2. AsRequest = RequestOf(bytes) /\ AsResponse = ResponseOf(bytes)
    BY DEF AsRequest, AsResponse, RequestOf, ResponseOf
  <1>3. ASSUME Codec!RequestDecodes(AsRequest),
               NEW request, request = Codec!DecodedRequest(AsRequest),
               NEW flag, flag = Len(Codec!Str(RequestMagic)) + Len(Codec!Str(request.id))
                                    + 5 * WordBytes + 1
        PROVE  SameBut(Codec!EncodeRequest(request, "", "").payload, bytes, flag,
                       request.stream /\ bytes[flag] > 1)
    BY <1>1, <1>2, <1>3, RequestReadsWhatIsThere DEF RequestPayload
  <1>4. ASSUME Codec!ResponseDecodes(AsResponse),
               NEW response, response = Codec!DecodedResponse(AsResponse)
        PROVE  SameBut(Codec!EncodeResponse(response, "", "").payload, bytes,
                       Len(Codec!Str(ResponseMagic)) + Len(Codec!Str(response.id)) + 1,
                       response.status = "BackendError")
    BY <1>1, <1>2, <1>4, ResponseReadsWhatIsThere DEF ResponsePayload
  <1> QED
    BY <1>3, <1>4 DEF ReadsWhatIsThere, SameBut

(* Whatever arrives and decodes, encoded again, is what was read, but for  *)
(* a byte that is no Boolean and one that is no status.                    *)
THEOREM LineReadsWhatIsThere == LineSpec => []ReadsWhatIsThere
  BY InvariantReadsWhatIsThere, LineInvariantInit, LineInvariantStep, PTL DEF LineSpec
=============================================================================
