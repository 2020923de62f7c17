------------------------- MODULE TcpConnection_proofs -------------------------
(***************************************************************************)
(* A frame is read back as it was written, and a connection delivers the   *)
(* frames of its messages: first the numbers and the frames, then the      *)
(* frames of a stream, then Flow, which tells of one direction what all    *)
(* its bytes make up, then what each action does to it.                    *)
(***************************************************************************)
EXTENDS TcpConnection, NoisyLine_proofs

-----------------------------------------------------------------------------
(* The stream: frames one after the other. *)

(* A packet that is written has a frame whose size is an int. *)
FitsAnInt(size, w) ==
    \E p \in Nat : p = Power[w] /\ 2 * (w + w + size + w) < p

LEMMA WritableFits ==
    ASSUME NEW packet \in Writable
    PROVE  /\ IsPacket(packet) /\ AsInt(Len(Encode(packet))) = Len(Encode(packet))
           /\ \E size \in Nat, w \in Nat :
                  /\ size = Len(packet) /\ w = WordBytes /\ w > 0
                  /\ IsFrame(Encode(packet), packet, size, w)
                  /\ FitsAnInt(size, w)
  <1>1. packet \in Packets /\ AsInt(Len(Encode(packet))) > 0
    BY DEF Writable
  <1>2. packet \in Seq(Byte) /\ Len(packet) + 3 * WordBytes < Power[WordBytes]
    BY <1>1, PacketsFit DEF PacketsFit
  <1>3. PICK size \in Nat : size = Len(packet)
    BY <1>2, LenProperties
  <1>4. PICK w \in Nat : w = WordBytes /\ w > 0
    BY WordAssumption DEF WordAssumption
  <1>5. PICK p \in Nat : p = Power[w]
    BY PowerFacts
  <1>6. PICK n \in Nat : n = w + w + size + w /\ n < p
    BY <1>2, <1>3, <1>4, <1>5
  <1>7. IsPacket(packet)
    <2>1. size + w < p
      BY <1>6
    <2> QED
      BY <1>2, <1>3, <1>4, <1>5, <2>1 DEF IsPacket
  <1>8. PICK s : s = Encode(packet)
    OBVIOUS
  <1>9. IsFrame(s, packet, size, w)
    BY <1>3, <1>4, <1>7, <1>8, EncodeFacts
  <1>10. Len(s) = n
    BY <1>6, <1>9 DEF IsFrame
  <1>11. n % p = n
    BY <1>6, SmallModulo
  <1>12. AsInt(n) = IF 2 * n < p THEN n ELSE n - p
    BY <1>4, <1>5, <1>11 DEF AsInt
  <1>13. AsInt(n) > 0
    BY <1>1, <1>8, <1>10
  <1>14. 2 * n < p
    BY <1>6, <1>12, <1>13
  <1>15. FitsAnInt(size, w)
    BY <1>5, <1>6, <1>14 DEF FitsAnInt
  <1> QED
    BY <1>3, <1>4, <1>7, <1>8, <1>9, <1>10, <1>12, <1>14, <1>15

LEMMA PacketFacts ==
    ASSUME NEW packet \in Writable
    PROVE  /\ IsPacket(packet)
           /\ Encode(packet) \in Seq(Byte)
           /\ Len(Encode(packet)) > 2 * WordBytes
           /\ SubSeq(Encode(packet), 1, AsInt(Len(Encode(packet)))) = Encode(packet)
  <1>1. PICK size \in Nat, w \in Nat :
            /\ size = Len(packet) /\ w = WordBytes /\ w > 0
            /\ IsFrame(Encode(packet), packet, size, w)
    BY WritableFits
  <1>2. PICK s : s = Encode(packet)
    OBVIOUS
  <1>3. s \in Seq(Byte) /\ Len(s) = w + w + size + w
    BY <1>1, <1>2 DEF IsFrame
  <1>4. Len(s) > 2 * WordBytes
    BY <1>1, <1>3
  <1>5. AsInt(Len(s)) = Len(s)
    BY <1>2, WritableFits
  <1>6. SubSeq(s, 1, Len(s)) = s
    <2>1. PICK t : t = SubSeq(s, 1, Len(s))
      OBVIOUS
    <2>2. PICK n \in Nat : n = Len(s)
      BY <1>3, LenProperties
    <2>3. 0 <= n /\ n - 0 = n /\ 0 + 1 = 1
      BY <2>2
    <2>4. /\ t \in Seq(Byte) /\ Len(t) = n - 0
          /\ \A i \in 1 .. n - 0 : t[i] = s[0 + i]
      <3>1. t = SubSeq(s, 0 + 1, n)
        BY <2>1, <2>2, <2>3
      <3> QED
        BY <1>3, <2>2, <2>3, <3>1, PartFacts
    <2>5. \A i \in 1 .. n : t[i] = s[i]
      BY <2>4
    <2>6. Len(t) = n
      BY <2>3, <2>4
    <2>7. t = s
      BY <1>3, <2>2, <2>4, <2>5, <2>6, SeqEqual
    <2> QED
      BY <2>1, <2>7
  <1>7. IsPacket(packet)
    BY WritableFits
  <1> QED
    BY <1>2, <1>3, <1>4, <1>5, <1>6, <1>7

Glue == [p \in Seq(Byte) \X Writable |-> p[1] \o Encode(p[2])]

LEMMA GlueType == Glue \in [Seq(Byte) \X Writable -> Seq(Byte)] /\ <<>> \in Seq(Byte)
  <1>1. ASSUME NEW s \in Seq(Byte), NEW packet \in Writable
        PROVE  s \o Encode(packet) \in Seq(Byte)
    BY PacketFacts, ConcatProperties
  <1> QED
    BY <1>1 DEF Glue

LEMMA FramesFolds ==
    ASSUME NEW q \in Seq(Writable)
    PROVE  Folds(Seq(Byte), <<>>, Glue, q, Frames(q))
  <1> DEFINE Fold(it) == [s \in SUBSET DOMAIN q |->
                             IF s = {} THEN <<>> ELSE it[s \ {Max(s)}] \o Encode(q[Max(s)])]
  <1>1. PICK n \in Nat : n = Len(q) /\ DOMAIN q = 1 .. n /\ q \in [1 .. n -> Writable]
    BY LenProperties
  <1>2. ASSUME NEW g, g = Fold(g)
        PROVE  \E it : it = Fold(it) /\ Frames(q) = it[DOMAIN q]
    BY <1>2 DEF Frames, FoldLeft, MapThenFoldSet
  <1>3. ASSUME NEW s \in SUBSET DOMAIN q, s # {}, NEW v \in Seq(Byte)
        PROVE  Glue[<<v, q[Max(s)]>>] = v \o Encode(q[Max(s)])
    <2>1. Max(s) \in 1 .. n
      BY <1>1, <1>3, MaxExists
    <2>2. q[Max(s)] \in Writable
      BY <1>1, <2>1
    <2> QED
      BY <2>2 DEF Glue
  <1>4. PICK g \in [SUBSET DOMAIN q -> Seq(Byte)] : Iterates(g, Seq(Byte), <<>>, Glue, q)
    BY GlueType, FoldIteration
  <1>5. g = Fold(g)
    <2>1. ASSUME NEW s \in SUBSET DOMAIN q, s # {}
          PROVE  g[s] = g[s \ {Max(s)}] \o Encode(q[Max(s)])
      <3>1. g[s \ {Max(s)}] \in Seq(Byte)
        OBVIOUS
      <3> QED
        BY <1>3, <1>4, <2>1, <3>1 DEF Iterates
    <2> QED
      BY <1>4, <2>1 DEF Iterates
  <1>6. PICK it : it = Fold(it) /\ Frames(q) = it[DOMAIN q]
    BY <1>2, <1>5
  <1>7. Iterates(it, Seq(Byte), <<>>, Glue, q)
    <2>1. it[{}] = <<>>
      BY <1>6
    <2>2. ASSUME NEW s \in SUBSET DOMAIN q, s # {}, it[s \ {Max(s)}] \in Seq(Byte)
          PROVE  it[s] = Glue[<<it[s \ {Max(s)}], q[Max(s)]>>]
      BY <1>3, <1>6, <2>2
    <2> QED
      BY <2>1, <2>2 DEF Iterates
  <1> HIDE DEF Fold
  <1>8. Folds(Seq(Byte), <<>>, Glue, q, it[DOMAIN q])
    BY <1>7, GlueType, FoldResult
  <1> QED
    BY <1>6, <1>8

LEMMA FramesAppend ==
    ASSUME NEW q \in Seq(Writable), NEW packet \in Writable
    PROVE  /\ Frames(<<>>) = <<>>
           /\ Frames(q) \in Seq(Byte)
           /\ Frames(Append(q, packet)) = Frames(q) \o Encode(packet)
  <1>1. <<>> \in Seq(Writable) /\ Append(q, packet) \in Seq(Writable)
    BY PushFacts
  <1>2. Folds(Seq(Byte), <<>>, Glue, <<>>, Frames(<<>>))
    BY <1>1, FramesFolds
  <1>3. Folds(Seq(Byte), <<>>, Glue, q, Frames(q))
    BY FramesFolds
  <1>4. Folds(Seq(Byte), <<>>, Glue, Append(q, packet), Frames(Append(q, packet)))
    BY <1>1, FramesFolds
  <1>5. Frames(<<>>) = <<>>
    BY <1>2, FoldsEmpty
  <1>6. Steps(Seq(Byte), Glue, Frames(q), packet, Frames(Append(q, packet)))
    BY <1>3, <1>4, GlueType, FoldsAppend
  <1> QED
    BY <1>5, <1>6 DEF Steps, Glue

Leading(q, packet, r) == Frames(q) = Encode(packet) \o Frames(r)

LEMMA FramesCons ==
    ASSUME NEW q \in Seq(Writable), NEW r \in Seq(Writable), NEW packet \in Writable,
           NEW n \in Nat, Len(r) = n, Len(q) = n + 1, q[1] = packet,
           \A i \in 1 .. n : q[i + 1] = r[i]
    PROVE  Leading(q, packet, r)
  <1>1. PICK a \in [0 .. n + 1 -> Seq(Byte)] :
            /\ a[0] = <<>>
            /\ \A k \in 1 .. n + 1 : a[k] = Glue[<<a[k - 1], q[k]>>]
            /\ a[n + 1] = Frames(q)
    <2>1. Folds(Seq(Byte), <<>>, Glue, q, Frames(q))
      BY FramesFolds
    <2> QED
      BY <2>1 DEF Folds
  <1>2. PICK b \in [0 .. n -> Seq(Byte)] :
            /\ b[0] = <<>>
            /\ \A k \in 1 .. n : b[k] = Glue[<<b[k - 1], r[k]>>]
            /\ b[n] = Frames(r)
    <2>1. Folds(Seq(Byte), <<>>, Glue, r, Frames(r))
      BY FramesFolds
    <2> QED
      BY <2>1 DEF Folds
  <1>3. PICK e \in Seq(Byte) : e = Encode(packet)
    BY PacketFacts
  <1> DEFINE Good(k) == a[k + 1] = e \o b[k]
             S == {k \in Nat : k <= n => Good(k)}
  <1>4. 0 \in S
    <2>1. 1 \in 1 .. n + 1 /\ 1 - 1 = 0 /\ 0 + 1 = 1
      OBVIOUS
    <2>2. a[1] = Glue[<<a[0], packet>>]
      BY <1>1, <2>1
    <2>3. a[1] = <<>> \o e
      <3>1. PICK c \in Seq(Byte) : c = a[0] /\ c = <<>>
        BY <1>1, EmptySeq
      <3>2. Glue[<<c, packet>>] = c \o Encode(packet)
        BY DEF Glue
      <3> QED
        BY <1>3, <2>2, <3>1, <3>2
    <2>4. <<>> \o e = e /\ e \o <<>> = e
      BY ConcatEmptySeq
    <2> QED
      BY <1>2, <2>1, <2>3, <2>4
  <1>5. ASSUME NEW k \in Nat, k \in S PROVE k + 1 \in S
    <2> HIDE DEF Good
    <2> SUFFICES ASSUME k + 1 <= n PROVE Good(k + 1)
      OBVIOUS
    <2> USE DEF Good
    <2>1. /\ k + 1 \in 1 .. n /\ (k + 1) + 1 \in 1 .. n + 1 /\ k \in 0 .. n
          /\ (k + 1) - 1 = k /\ ((k + 1) + 1) - 1 = k + 1
      OBVIOUS
    <2>2. PICK f \in Writable : f = r[k + 1] /\ f = q[(k + 1) + 1]
      BY <2>1, ElementOfSeq
    <2>3. PICK d \in Seq(Byte) : d = Encode(f)
      BY PacketFacts
    <2>4. PICK c \in Seq(Byte) : c = b[k]
      BY <2>1
    <2>5. a[k + 1] = e \o c
      <3>1. k <= n => a[k + 1] = e \o b[k]
        BY <1>5
      <3>2. k <= n
        OBVIOUS
      <3> QED
        BY <2>4, <3>1, <3>2
    <2>6. e \o c \in Seq(Byte)
      BY ConcatProperties
    <2>7. b[k + 1] = c \o d
      <3>1. b[k + 1] = Glue[<<c, f>>]
        BY <1>2, <2>1, <2>2, <2>4
      <3> QED
        BY <2>3, <3>1 DEF Glue
    <2>8. a[(k + 1) + 1] = (e \o c) \o d
      <3>1. a[(k + 1) + 1] = Glue[<<e \o c, f>>]
        BY <1>1, <2>1, <2>2, <2>5
      <3> QED
        BY <2>3, <2>6, <3>1 DEF Glue
    <2>9. Associates(e, c, d)
      BY Association
    <2> QED
      BY <2>7, <2>8, <2>9 DEF Associates
  <1> HIDE DEF S
  <1>6. n \in S
    BY <1>4, <1>5, Induction
  <1>7. a[n + 1] = e \o b[n]
    <2>1. n <= n
      OBVIOUS
    <2> QED
      BY <1>6, <2>1 DEF S
  <1> QED
    BY <1>1, <1>2, <1>3, <1>7 DEF Leading

(* The frames of the messages after the first k, up to the m-th. *)
Stream(s, k, m) == Frames(SubSeq(s, k + 1, m))

StreamStarts(s, k, m) ==
    /\ s[k + 1] \in Writable
    /\ Stream(s, k, m) = Encode(s[k + 1]) \o Stream(s, k + 1, m)

LEMMA StreamFacts ==
    ASSUME NEW s \in Seq(Writable), NEW l \in Nat, l = Len(s),
           NEW k \in Nat, NEW m \in Nat, k <= m, m <= l
    PROVE  /\ Stream(s, k, m) \in Seq(Byte)
           /\ k = m => Stream(s, k, m) = <<>>
           /\ k < m => StreamStarts(s, k, m)
  <1>1. PICK t : t = SubSeq(s, k + 1, m)
    OBVIOUS
  <1>2. t \in Seq(Writable) /\ Len(t) = m - k /\ \A i \in 1 .. m - k : t[i] = s[k + i]
    BY <1>1, PartFacts
  <1>3. Stream(s, k, m) = Frames(t)
    BY <1>1 DEF Stream
  <1>4. Frames(t) \in Seq(Byte)
    <2>1. CASE t = <<>>
      <3>1. Folds(Seq(Byte), <<>>, Glue, t, Frames(t))
        BY <1>2, FramesFolds
      <3>2. Frames(t) = <<>>
        BY <2>1, <3>1, FoldsEmpty
      <3> QED
        BY <3>2
    <2>2. CASE t # <<>>
      <3>1. t[Len(t)] \in Writable
        BY <1>2, <2>2, PopFacts
      <3> QED
        BY <1>2, <3>1, FramesAppend
    <2> QED
      BY <2>1, <2>2
  <1>5. ASSUME k = m PROVE Frames(t) = <<>>
    <2>1. t = <<>>
      BY <1>2, <1>5, EmptySeq
    <2>2. Folds(Seq(Byte), <<>>, Glue, <<>>, Frames(t))
      BY <1>2, <2>1, FramesFolds
    <2> QED
      BY <2>2, FoldsEmpty
  <1>6. ASSUME k < m
        PROVE  /\ s[k + 1] \in Writable
               /\ Frames(t) = Encode(s[k + 1]) \o Stream(s, k + 1, m)
    <2>1. PICK u : u = SubSeq(s, (k + 1) + 1, m)
      OBVIOUS
    <2>2. PICK j \in Nat : j = k + 1 /\ j <= m
      BY <1>6
    <2>3. u \in Seq(Writable) /\ Len(u) = m - j /\ \A i \in 1 .. m - j : u[i] = s[j + i]
      BY <2>1, <2>2, PartFacts
    <2>4. PICK n \in Nat : n = m - j /\ m - k = n + 1
      BY <2>2
    <2>5. PICK f \in Writable : f = s[k + 1]
      <3>1. k + 1 \in 1 .. Len(s)
        BY <1>6
      <3> QED
        BY <3>1, ElementOfSeq
    <2>6. t[1] = f
      <3>1. 1 \in 1 .. m - k
        BY <1>6
      <3> QED
        BY <1>2, <2>5, <3>1
    <2>7. ASSUME NEW i \in 1 .. n PROVE t[i + 1] = u[i]
      <3>1. i + 1 \in 1 .. m - k /\ k + (i + 1) = j + i /\ i \in 1 .. m - j
        BY <2>2, <2>4
      <3> QED
        BY <1>2, <2>3, <3>1
    <2>8. Len(u) = n /\ Len(t) = n + 1
      BY <1>2, <2>3, <2>4
    <2>9. Leading(t, f, u)
      BY <1>2, <2>3, <2>6, <2>7, <2>8, FramesCons
    <2> QED
      BY <2>1, <2>5, <2>9 DEF Stream, Leading
  <1> QED
    BY <1>3, <1>4, <1>5, <1>6 DEF StreamStarts

(* The next frame, and those after it. *)
Splits(s, k, m) ==
    /\ s[k + 1] \in Writable /\ Stream(s, k + 1, m) \in Seq(Byte)
    /\ Stream(s, k, m) = Encode(s[k + 1]) \o Stream(s, k + 1, m)

LEMMA StreamSplits ==
    ASSUME NEW s \in Seq(Writable), NEW l \in Nat, l = Len(s),
           NEW k \in Nat, NEW m \in Nat, k < m, m <= l
    PROVE  Splits(s, k, m)
  <1>1. k <= m /\ k + 1 \in Nat /\ k + 1 <= m
    OBVIOUS
  <1>2. s[k + 1] \in Writable /\ Stream(s, k, m) = Encode(s[k + 1]) \o Stream(s, k + 1, m)
    <2>1. StreamStarts(s, k, m)
      BY StreamFacts
    <2> QED
      BY <2>1 DEF StreamStarts
  <1>3. PICK j \in Nat : j = k + 1 /\ j <= m
    BY <1>1
  <1>4. Stream(s, j, m) \in Seq(Byte)
    BY <1>3, StreamFacts
  <1> QED
    BY <1>2, <1>3, <1>4 DEF Splits

StreamGrows(s, packet, k, l) ==
    /\ Stream(Append(s, packet), k, l + 1) = Stream(s, k, l) \o Encode(packet)
    /\ \A m \in k .. l : Stream(Append(s, packet), k, m) = Stream(s, k, m)

LEMMA StreamAppend ==
    ASSUME NEW s \in Seq(Writable), NEW packet \in Writable, NEW l \in Nat, l = Len(s),
           NEW k \in Nat, k <= l
    PROVE  StreamGrows(s, packet, k, l)
  <1>1. PICK z : z = Append(s, packet)
    OBVIOUS
  <1>2. /\ z \in Seq(Writable) /\ l + 1 = Len(z) /\ l + 1 \in Nat
        /\ z[l + 1] = packet /\ \A i \in 1 .. l : z[i] = s[i]
    BY <1>1, PushFacts
  <1>3. ASSUME NEW m \in k .. l PROVE SubSeq(z, k + 1, m) = SubSeq(s, k + 1, m)
    <2>1. m \in Nat /\ k <= m /\ m <= l /\ m <= l + 1
      OBVIOUS
    <2>2. PICK t, u : t = SubSeq(s, k + 1, m) /\ u = SubSeq(z, k + 1, m)
      OBVIOUS
    <2>3. t \in Seq(Writable) /\ Len(t) = m - k /\ \A i \in 1 .. m - k : t[i] = s[k + i]
      BY <2>1, <2>2, PartFacts
    <2>4. u \in Seq(Writable) /\ Len(u) = m - k /\ \A i \in 1 .. m - k : u[i] = z[k + i]
      <3>1. PICK j \in Nat : j = Len(z) /\ m <= j /\ z \in Seq(Writable)
        BY <1>2, <2>1
      <3> QED
        BY <2>1, <2>2, <3>1, PartFacts
    <2>5. ASSUME NEW i \in 1 .. m - k PROVE u[i] = t[i]
      <3>1. k + i \in 1 .. l
        BY <2>1
      <3> QED
        BY <1>2, <2>3, <2>4, <3>1
    <2>6. u = t
      BY <2>3, <2>4, <2>5, SeqEqual
    <2> QED
      BY <2>2, <2>6
  <1>4. SubSeq(z, k + 1, l + 1) = Append(SubSeq(s, k + 1, l), packet)
    <2>1. PICK t, u : t = SubSeq(s, k + 1, l) /\ u = SubSeq(z, k + 1, l + 1)
      OBVIOUS
    <2>2. t \in Seq(Writable) /\ Len(t) = l - k /\ \A i \in 1 .. l - k : t[i] = s[k + i]
      BY <2>1, PartFacts
    <2>3. k <= l + 1
      OBVIOUS
    <2>4. /\ u \in Seq(Writable) /\ Len(u) = (l + 1) - k
          /\ \A i \in 1 .. (l + 1) - k : u[i] = z[k + i]
      BY <1>2, <2>1, <2>3, PartFacts
    <2>5. PICK v : v = Append(t, packet)
      OBVIOUS
    <2>6. PICK n \in Nat : n = l - k /\ (l + 1) - k = n + 1
      <3>1. l - k \in Nat /\ (l + 1) - k = (l - k) + 1
        OBVIOUS
      <3> QED
        BY <3>1
    <2>7. /\ v \in Seq(Writable) /\ Len(v) = n + 1 /\ v[n + 1] = packet
          /\ \A i \in 1 .. n : v[i] = t[i]
      BY <2>2, <2>5, <2>6, PushFacts
    <2>8. ASSUME NEW i \in 1 .. n + 1 PROVE u[i] = v[i]
      <3>1. CASE i <= n
        <4>1. i \in 1 .. n /\ k + i \in 1 .. l
          BY <2>6, <3>1
        <4> QED
          BY <1>2, <2>2, <2>4, <2>6, <2>7, <4>1
      <3>2. CASE i = n + 1
        <4>1. k + i = l + 1
          BY <2>6, <3>2
        <4>2. u[i] = z[k + i]
          BY <2>4, <2>6
        <4>3. z[k + i] = packet
          BY <1>2, <4>1
        <4>4. v[i] = packet
          BY <2>7, <3>2
        <4> QED
          BY <4>2, <4>3, <4>4
      <3> QED
        BY <3>1, <3>2
    <2>9. u = v
      BY <2>4, <2>6, <2>7, <2>8, SeqEqual
    <2> QED
      BY <2>1, <2>5, <2>9
  <1>5. SubSeq(s, k + 1, l) \in Seq(Writable)
    BY PartFacts
  <1>6. Stream(z, k, l + 1) = Stream(s, k, l) \o Encode(packet)
    BY <1>4, <1>5, FramesAppend DEF Stream
  <1>7. \A m \in k .. l : Stream(z, k, m) = Stream(s, k, m)
    BY <1>3 DEF Stream
  <1> QED
    BY <1>1, <1>6, <1>7 DEF StreamGrows

(* While an end has read part of a frame, the size it waits for is that of *)
(* the frame.                                                              *)
WantsFrame(received, packet) ==
    /\ Wanted(received) = IF Len(received) < HeaderSize THEN HeaderSize ELSE Len(Encode(packet))
    /\ Len(received) >= HeaderSize =>
           /\ HeaderSize + RemainingSize(received) = Len(Encode(packet))
           /\ Len(Encode(packet)) < Power[WordBytes]

LEMMA WantedIs ==
    ASSUME NEW packet \in Writable, NEW received \in Seq(Byte), NEW x \in Seq(Byte),
           NEW y \in Seq(Byte), received \o x = Encode(packet) \o y
    PROVE  WantsFrame(received, packet)
  <1>1. IsPacket(packet)
    BY PacketFacts
  <1>2. PICK size \in Nat, w \in Nat :
            /\ size = Len(packet) /\ w = WordBytes /\ w > 0
            /\ IsFrame(Encode(packet), packet, size, w)
            /\ FitsAnInt(size, w)
    BY WritableFits
  <1>3. w = WordBytes /\ w > 0
    BY <1>2
  <1>4. PICK s : s = Encode(packet)
    OBVIOUS
  <1>5. /\ s \in Seq(Byte) /\ Len(s) = w + w + size + w
        /\ SubSeq(s, w + 1, w + w) = Digits(size, w)
    BY <1>2, <1>4 DEF IsFrame
  <1>6. PICK n \in Nat : n = Len(received)
    BY LenProperties
  <1>7. HeaderSize = w + w
    BY <1>3 DEF HeaderSize
  <1>8. CASE n < w + w
    BY <1>6, <1>7, <1>8 DEF Wanted, WantsFrame
  <1>9. CASE w + w <= n
    <2>1. PICK m \in Nat, j \in Nat : m = Len(x) /\ j = Len(y)
      BY LenProperties
    <2>2. PICK all : all = received \o x /\ all = s \o y
      BY <1>4
    <2>3. PICK l \in Nat : l = w + w + size + w
      OBVIOUS
    <2>4. Joined(Byte, all, received, n, x, m)
      BY <1>6, <2>1, <2>2, TwoParts
    <2>5. Joined(Byte, all, s, l, y, j)
      BY <1>5, <2>1, <2>2, <2>3, TwoParts
    <2>6. ASSUME NEW i \in 1 .. w PROVE received[w + i] = s[w + i]
      <3>1. w + i \in 1 .. n + m /\ w + i \in 1 .. l + j /\ w + i <= n /\ w + i <= l
        BY <1>9, <2>3
      <3> QED
        BY <2>4, <2>5, <3>1 DEF Joined
    <2>7. PICK d \in Seq(Byte) : d = Digits(size, w) /\ Len(d) = w
      BY DigitsFacts
    <2>8. ASSUME NEW i \in 1 .. w PROVE s[w + i] = d[i]
      <3>1. w <= w + w /\ w + w <= l /\ w + w \in Nat /\ (w + w) - w = w
        BY <2>3
      <3>2. l = Len(s) /\ d = SubSeq(s, w + 1, w + w)
        BY <1>5, <2>3, <2>7
      <3>3. \A k \in 1 .. (w + w) - w : d[k] = s[w + k]
        BY <1>5, <3>1, <3>2, PartFacts
      <3> QED
        BY <3>1, <3>3
    <2>9. SubSeq(received, w + 1, w + w) = d
      <3>1. \A i \in 1 .. w : received[w + i] = d[i]
        BY <2>6, <2>8
      <3> QED
        BY <1>6, <1>9, <2>7, <3>1, PartIs
    <2>10. size + w < Power[w]
      BY <1>1, <1>2, <1>3 DEF IsPacket
    <2>11. NumberAt(received, w, w) = size
      <3>1. size < Power[w]
        <4>1. PICK p \in Nat : p = Power[w]
          BY PowerFacts
        <4>2. size + w < p
          BY <2>10, <4>1
        <4>3. size < p
          BY <4>2
        <4> QED
          BY <4>1, <4>3
      <3> QED
        BY <2>7, <2>9, <3>1, NumberAtIs
    <2>12. RemainingSize(received) = size + w
      <3>1. PICK p \in Nat : p = Power[w]
        BY PowerFacts
      <3>2. PICK e \in Nat : e = size + w /\ e < p
        BY <2>10, <3>1
      <3>3. e % p = e
        BY <3>2, SmallModulo
      <3> QED
        BY <1>3, <2>11, <3>1, <3>2, <3>3 DEF RemainingSize
    <2>13. PICK p \in Nat : p = Power[w] /\ 2 * (w + w + size + w) < p
      BY <1>2 DEF FitsAnInt
    <2>14. PICK e \in Nat : e = size + w /\ e > 0 /\ 2 * e < p /\ e < p
      BY <1>3, <2>13
    <2>15. AsInt(e) = e
      <3>1. e % p = e
        BY <2>13, <2>14, SmallModulo
      <3> QED
        BY <1>3, <2>13, <2>14, <3>1 DEF AsInt
    <2>16. Wanted(received) = Len(s) /\ HeaderSize + RemainingSize(received) = Len(s)
      BY <1>5, <1>6, <1>7, <1>9, <2>12, <2>14, <2>15 DEF Wanted
    <2>17. Len(s) < Power[WordBytes]
      BY <1>3, <1>5, <2>13
    <2> QED
      BY <1>4, <1>6, <1>7, <1>9, <2>16, <2>17 DEF WantsFrame
  <1> QED
    BY <1>8, <1>9

-----------------------------------------------------------------------------
(* One direction of the connection, up or not.  The receiver has read rcv  *)
(* of the next frame, TCP holds w, the sender has still to write out.  Of  *)
(* the messages s the first k are delivered, and the sends in bad failed.  *)
(* What is read, what is held and some rest make up the frames of the      *)
(* messages not delivered.  While the direction is up, the rest is what    *)
(* the sender will write.  Later, a failed message is never read to its    *)
(* end: bytes of its frame are missing.                                    *)

Flow(rcv, w, out, s, k, bad, status) ==
    /\ rcv \in Seq(Byte) /\ w \in Seq(Byte) /\ out \in Seq(Byte) /\ s \in Seq(Writable)
    /\ k \in 0 .. Len(s) /\ bad \subseteq 1 .. Len(s)
    /\ \E rest \in Seq(Byte) : /\ (rcv \o w) \o rest = Stream(s, k, Len(s))
                               /\ status = "up" => rest = out /\ bad = {}
    /\ out # <<>> => Len(rcv) + Len(w) < Len(Stream(s, k, Len(s)))
    /\ \A m \in bad : k < m /\ Len(rcv) + Len(w) < Len(Stream(s, k, m))

LEMMA ByteJoin ==
    ASSUME NEW a \in Seq(Byte), NEW b \in Seq(Byte)
    PROVE  /\ a \o b \in Seq(Byte) /\ Len(a \o b) = Len(a) + Len(b)
           /\ Len(a) \in Nat /\ Len(b) \in Nat
  BY ConcatProperties, LenProperties

CutAt(a, n) ==
    /\ SubSeq(a, 1, n) \in Seq(Byte) /\ Len(SubSeq(a, 1, n)) = n
    /\ SubSeq(a, n + 1, Len(a)) \in Seq(Byte) /\ Len(SubSeq(a, n + 1, Len(a))) = Len(a) - n
    /\ SubSeq(a, 1, n) \o SubSeq(a, n + 1, Len(a)) = a

LEMMA ByteCut ==
    ASSUME NEW a \in Seq(Byte), NEW n \in 1 .. Len(a)
    PROVE  CutAt(a, n)
  <1>1. PICK l \in Nat : l = Len(a) /\ n \in Nat /\ n >= 1 /\ n <= l
    BY LenProperties
  <1>2. PICK b, c : b = SubSeq(a, 0 + 1, n) /\ c = SubSeq(a, n + 1, l)
    OBVIOUS
  <1>3. b \in Seq(Byte) /\ Len(b) = n /\ \A i \in 1 .. n : b[i] = a[i]
    <2>1. 0 \in Nat /\ 0 <= n /\ n - 0 = n
      BY <1>1
    <2>2. /\ b \in Seq(Byte) /\ Len(b) = n - 0
          /\ \A i \in 1 .. n - 0 : b[i] = a[0 + i]
      BY <1>1, <1>2, <2>1, PartFacts
    <2> QED
      BY <2>1, <2>2
  <1>4. c \in Seq(Byte) /\ Len(c) = l - n /\ \A i \in 1 .. l - n : c[i] = a[n + i]
    <2>1. l <= l
      BY <1>1
    <2> QED
      BY <1>1, <1>2, <2>1, PartFacts
  <1>5. PICK m \in Nat : m = l - n /\ n + m = l
    <2>1. l - n \in Nat /\ n + (l - n) = l
      BY <1>1
    <2> QED
      BY <2>1
  <1>6. PICK t : t = b \o c
    OBVIOUS
  <1>7. Joined(Byte, t, b, n, c, m)
    BY <1>1, <1>3, <1>4, <1>5, <1>6, TwoParts
  <1>8. t \in Seq(Byte) /\ Len(t) = l
    BY <1>5, <1>7 DEF Joined
  <1>9. ASSUME NEW i \in 1 .. l PROVE t[i] = a[i]
    <2>1. CASE i <= n
      BY <1>3, <1>5, <1>7, <2>1 DEF Joined
    <2>2. CASE i > n
      <3>1. i - n \in 1 .. l - n /\ n + (i - n) = i
        BY <1>1, <2>2
      <3> QED
        BY <1>1, <1>4, <1>5, <1>7, <2>2, <3>1 DEF Joined
    <2> QED
      BY <1>1, <2>1, <2>2
  <1>10. t = a
    BY <1>1, <1>8, <1>9, SeqEqual
  <1>11. SubSeq(a, 1, n) = b
    BY <1>2
  <1> QED
    BY <1>1, <1>2, <1>3, <1>4, <1>6, <1>10, <1>11 DEF CutAt

LEMMA FlowInit ==
    ASSUME NEW status
    PROVE  Flow(<<>>, <<>>, <<>>, <<>>, 0, {}, status)
  <1>1. PICK none : none = <<>>
    OBVIOUS
  <1>2. none \in Seq(Byte) /\ none \in Seq(Writable) /\ Len(none) = 0
    BY <1>1
  <1>3. Stream(none, 0, 0) = none
    <2>1. 0 \in Nat /\ 0 <= 0
      OBVIOUS
    <2> QED
      BY <1>1, <1>2, <2>1, StreamFacts
  <1>4. (none \o none) \o none = none
    BY <1>1, <1>2, ConcatEmptySeq
  <1>5. 0 \in 0 .. 0 /\ {} \subseteq 1 .. 0
    OBVIOUS
  <1>6. Flow(none, none, none, none, 0, {}, status)
    BY <1>1, <1>2, <1>3, <1>4, <1>5 DEF Flow
  <1> QED
    BY <1>1, <1>6

LEMMA FlowSend ==
    ASSUME NEW rcv, NEW w, NEW s, NEW k, NEW bad, NEW status, Flow(rcv, w, <<>>, s, k, bad, status),
           NEW packet \in Writable
    PROVE  Flow(rcv, w, Encode(packet), Append(s, packet), k, bad, status)
  <1>1. /\ rcv \in Seq(Byte) /\ w \in Seq(Byte) /\ s \in Seq(Writable)
        /\ k \in 0 .. Len(s) /\ bad \subseteq 1 .. Len(s)
        /\ \A m \in bad : k < m /\ Len(rcv) + Len(w) < Len(Stream(s, k, m))
    BY DEF Flow
  <1>2. PICK rest \in Seq(Byte) :
            (rcv \o w) \o rest = Stream(s, k, Len(s)) /\ (status = "up" => rest = <<>> /\ bad = {})
    BY DEF Flow
  <1>3. PICK l \in Nat : l = Len(s)
    BY <1>1, LenProperties
  <1>4. PICK e \in Seq(Byte) : e = Encode(packet) /\ Len(e) > 0
    <2>1. 2 * WordBytes \in Nat /\ Encode(packet) \in Seq(Byte)
      BY PacketFacts, WordAssumption
    <2>2. Len(Encode(packet)) \in Nat
      BY <2>1, LenProperties
    <2> QED
      BY <2>1, <2>2, PacketFacts
  <1>5. PICK z : z = Append(s, packet)
    OBVIOUS
  <1>6. z \in Seq(Writable) /\ Len(z) = l + 1
    BY <1>1, <1>3, <1>5, PushFacts
  <1>7. k \in Nat /\ k <= l
    BY <1>1, <1>3
  <1>8. /\ Stream(z, k, l + 1) = Stream(s, k, l) \o e
        /\ \A m \in k .. l : Stream(z, k, m) = Stream(s, k, m)
    <2>1. StreamGrows(s, packet, k, l)
      BY <1>1, <1>3, <1>7, StreamAppend
    <2> QED
      BY <1>4, <1>5, <2>1 DEF StreamGrows
  <1>9. PICK a \in Seq(Byte) : a = rcv \o w /\ Len(a) = Len(rcv) + Len(w)
    BY <1>1, ByteJoin
  <1>10. PICK more \in Seq(Byte) : more = rest \o e /\ (status = "up" => more = e) /\ Len(more) > 0
    <2>1. rest \o e \in Seq(Byte) /\ Len(rest \o e) > 0
      <3>1. rest \o e \in Seq(Byte) /\ Len(rest \o e) = Len(rest) + Len(e) /\ Len(rest) \in Nat
        BY ByteJoin
      <3>2. Len(e) \in Nat
        BY LenProperties
      <3> QED
        BY <1>4, <3>1, <3>2
    <2>2. <<>> \o e = e
      BY ConcatEmptySeq
    <2> QED
      BY <1>2, <2>1, <2>2
  <1>11. a \o more = Stream(z, k, l + 1)
    <2>1. Associates(a, rest, e)
      BY Association
    <2> QED
      BY <1>2, <1>3, <1>8, <1>9, <1>10, <2>1 DEF Associates
  <1>12. Len(a) < Len(Stream(z, k, l + 1))
    <2>1. Len(a \o more) = Len(a) + Len(more) /\ Len(a) \in Nat /\ Len(more) \in Nat
      BY ByteJoin
    <2> QED
      BY <1>10, <1>11, <2>1
  <1>13. ASSUME NEW m \in bad PROVE Stream(z, k, m) = Stream(s, k, m)
    <2>1. m \in k .. l
      BY <1>1, <1>3, <1>7
    <2> QED
      BY <1>8, <2>1
  <1>14. bad \subseteq 1 .. l + 1 /\ k \in 0 .. l + 1
    BY <1>1, <1>3, <1>7
  <1> QED
    BY <1>1, <1>2, <1>4, <1>5, <1>6, <1>9, <1>10, <1>11, <1>12, <1>13, <1>14 DEF Flow

(* TCP takes a piece of what the sender writes, and may drop it when the   *)
(* direction is down.                                                      *)
LEMMA FlowTaken ==
    ASSUME NEW rcv, NEW w, NEW out, NEW s, NEW k, NEW bad,
           Flow(rcv, w, out, s, k, bad, "up"), NEW n \in 1 .. Len(out)
    PROVE  Flow(rcv, w \o SubSeq(out, 1, n), SubSeq(out, n + 1, Len(out)), s, k, bad, "up")
  <1>1. /\ rcv \in Seq(Byte) /\ w \in Seq(Byte) /\ out \in Seq(Byte) /\ s \in Seq(Writable)
        /\ k \in 0 .. Len(s) /\ bad = {} /\ (rcv \o w) \o out = Stream(s, k, Len(s))
    BY DEF Flow
  <1>2. PICK b \in Seq(Byte), c \in Seq(Byte) :
            b = SubSeq(out, 1, n) /\ c = SubSeq(out, n + 1, Len(out)) /\ b \o c = out
    <2>1. CutAt(out, n)
      BY <1>1, ByteCut
    <2> QED
      BY <2>1 DEF CutAt
  <1>3. PICK a \in Seq(Byte) : a = rcv \o w
    BY <1>1, ByteJoin
  <1>4. PICK v \in Seq(Byte) : v = w \o b
    BY <1>1, ByteJoin
  <1>5. PICK d \in Seq(Byte) : d = rcv \o v /\ d = a \o b /\ Len(d) = Len(rcv) + Len(v)
    <2>1. Associates(rcv, w, b)
      BY <1>1, Association
    <2>2. rcv \o v \in Seq(Byte) /\ Len(rcv \o v) = Len(rcv) + Len(v)
      BY <1>1, ByteJoin
    <2> QED
      BY <1>3, <1>4, <2>1, <2>2 DEF Associates
  <1>6. d \o c = Stream(s, k, Len(s))
    <2>1. Associates(a, b, c)
      BY Association
    <2> QED
      BY <1>1, <1>2, <1>3, <1>5, <2>1 DEF Associates
  <1>7. c # <<>> => Len(d) < Len(Stream(s, k, Len(s)))
    <2>1. Len(d \o c) = Len(d) + Len(c) /\ Len(d) \in Nat /\ Len(c) \in Nat
      BY ByteJoin
    <2>2. c # <<>> => Len(c) # 0
      BY EmptySeq
    <2> QED
      BY <1>6, <2>1, <2>2
  <1>8. Flow(rcv, v, c, s, k, bad, "up")
    BY <1>1, <1>5, <1>6, <1>7 DEF Flow
  <1> QED
    BY <1>2, <1>4, <1>8

LEMMA FlowDropped ==
    ASSUME NEW rcv, NEW w, NEW out, NEW s, NEW k, NEW bad,
           Flow(rcv, w, out, s, k, bad, "down"), NEW c \in Seq(Byte), c # <<>> => out # <<>>
    PROVE  Flow(rcv, w, c, s, k, bad, "down")
  BY DEF Flow

(* Once a direction is down it may stay as it is. *)
LEMMA FlowDown ==
    ASSUME NEW rcv, NEW w, NEW out, NEW s, NEW k, NEW bad, NEW status,
           Flow(rcv, w, out, s, k, bad, status)
    PROVE  Flow(rcv, w, out, s, k, bad, "down")
  BY DEF Flow

(* A send fails: the rest of its frame will not come. *)
LEMMA FlowFails ==
    ASSUME NEW rcv, NEW w, NEW out, NEW s, NEW k, NEW bad,
           Flow(rcv, w, out, s, k, bad, "down"), out # <<>>
    PROVE  k < Len(s) /\ Flow(rcv, w, <<>>, s, k, bad \cup {Len(s)}, "down")
  <1>1. PICK l \in Nat : l = Len(s)
    BY LenProperties DEF Flow
  <1>2. /\ rcv \in Seq(Byte) /\ w \in Seq(Byte) /\ s \in Seq(Writable)
        /\ k \in 0 .. l /\ bad \subseteq 1 .. l
        /\ Len(rcv) + Len(w) < Len(Stream(s, k, l))
    BY <1>1 DEF Flow
  <1>3. k # l
    <2>1. ASSUME k = l PROVE FALSE
      <3>1. k \in Nat /\ k <= l
        BY <1>2
      <3>2. Stream(s, k, l) = <<>>
        BY <1>1, <1>2, <2>1, <3>1, StreamFacts
      <3>3. Len(rcv) \in Nat /\ Len(w) \in Nat
        BY <1>2, LenProperties
      <3> QED
        BY <1>2, <3>2, <3>3
    <2> QED
      BY <2>1
  <1>4. k < l /\ bad \cup {l} \subseteq 1 .. l
    BY <1>2, <1>3
  <1>5. <<>> \in Seq(Byte)
    OBVIOUS
  <1>6. \A m \in bad \cup {l} : k < m /\ Len(rcv) + Len(w) < Len(Stream(s, k, m))
    BY <1>2, <1>4 DEF Flow
  <1>7. Flow(rcv, w, <<>>, s, k, bad \cup {l}, "down")
    BY <1>1, <1>2, <1>4, <1>5, <1>6 DEF Flow
  <1> QED
    BY <1>1, <1>4, <1>7

(* The receiver reads a piece of what TCP holds. *)
LEMMA FlowRead ==
    ASSUME NEW rcv, NEW w, NEW out, NEW s, NEW k, NEW bad, NEW status,
           Flow(rcv, w, out, s, k, bad, status), NEW n \in 1 .. Len(w)
    PROVE  Flow(rcv \o SubSeq(w, 1, n), SubSeq(w, n + 1, Len(w)), out, s, k, bad, status)
  <1>1. /\ rcv \in Seq(Byte) /\ w \in Seq(Byte) /\ out \in Seq(Byte) /\ s \in Seq(Writable)
        /\ k \in 0 .. Len(s) /\ bad \subseteq 1 .. Len(s)
    BY DEF Flow
  <1>2. PICK b \in Seq(Byte), c \in Seq(Byte) :
            b = SubSeq(w, 1, n) /\ c = SubSeq(w, n + 1, Len(w)) /\ b \o c = w
    <2>1. CutAt(w, n)
      BY <1>1, ByteCut
    <2> QED
      BY <2>1 DEF CutAt
  <1>3. PICK v \in Seq(Byte) : v = rcv \o b
    BY <1>1, ByteJoin
  <1>4. v \o c = rcv \o w
    <2>1. Associates(rcv, b, c)
      BY <1>1, Association
    <2> QED
      BY <1>2, <1>3, <2>1 DEF Associates
  <1>5. Len(v) + Len(c) = Len(rcv) + Len(w)
    <2>1. Len(v \o c) = Len(v) + Len(c)
      BY ByteJoin
    <2>2. Len(rcv \o w) = Len(rcv) + Len(w)
      BY <1>1, ByteJoin
    <2> QED
      BY <1>4, <2>1, <2>2
  <1>6. Flow(v, c, out, s, k, bad, status)
    BY <1>1, <1>4, <1>5 DEF Flow
  <1> QED
    BY <1>2, <1>3, <1>6

(* Bytes are lost: those TCP holds, or also those the receiver has read.   *)
LEMMA FlowLost ==
    ASSUME NEW rcv, NEW w, NEW out, NEW s, NEW k, NEW bad, NEW status,
           Flow(rcv, w, out, s, k, bad, status)
    PROVE  Flow(rcv, <<>>, out, s, k, bad, "down") /\ Flow(<<>>, <<>>, out, s, k, bad, "down")
  <1>1. /\ rcv \in Seq(Byte) /\ w \in Seq(Byte) /\ out \in Seq(Byte) /\ s \in Seq(Writable)
        /\ k \in 0 .. Len(s) /\ bad \subseteq 1 .. Len(s)
        /\ out # <<>> => Len(rcv) + Len(w) < Len(Stream(s, k, Len(s)))
        /\ \A m \in bad : k < m /\ Len(rcv) + Len(w) < Len(Stream(s, k, m))
    BY DEF Flow
  <1>2. PICK rest \in Seq(Byte) : (rcv \o w) \o rest = Stream(s, k, Len(s))
    BY DEF Flow
  <1>3. PICK none \in Seq(Byte) : none = <<>> /\ Len(none) = 0
    <2>1. <<>> \in Seq(Byte) /\ Len(<<>>) = 0
      OBVIOUS
    <2> QED
      BY <2>1
  <1>4. PICK more \in Seq(Byte) : more = w \o rest
    BY <1>1, ByteJoin
  <1>5. rcv \o more = Stream(s, k, Len(s))
    <2>1. Associates(rcv, w, rest)
      BY <1>1, Association
    <2> QED
      BY <1>2, <1>4, <2>1 DEF Associates
  <1>6. PICK all \in Seq(Byte) : all = Stream(s, k, Len(s))
    BY <1>1, <1>5, ByteJoin
  <1>7. rcv \o none = rcv /\ none \o none = none /\ none \o all = all
    BY <1>1, <1>3, ConcatEmptySeq
  <1>8. Len(rcv) \in Nat /\ Len(w) \in Nat
    BY <1>1, LenProperties
  <1>9. out # none => Len(rcv) + 0 < Len(all) /\ 0 + 0 < Len(all)
    <2>1. Len(all) \in Nat
      BY LenProperties
    <2> QED
      BY <1>1, <1>3, <1>6, <1>8, <2>1
  <1>10. \A m \in bad : /\ k < m /\ Len(rcv) + 0 < Len(Stream(s, k, m))
                        /\ 0 + 0 < Len(Stream(s, k, m))
    <2>1. ASSUME NEW m \in bad
          PROVE  Len(rcv) + 0 < Len(Stream(s, k, m)) /\ 0 + 0 < Len(Stream(s, k, m))
      <3>1. PICK l \in Nat : l = Len(s)
        BY <1>1, LenProperties
      <3>2. m \in Nat /\ k \in Nat /\ k <= m /\ m <= l
        BY <1>1, <3>1
      <3>3. Stream(s, k, m) \in Seq(Byte)
        BY <1>1, <3>1, <3>2, StreamFacts
      <3>4. Len(Stream(s, k, m)) \in Nat
        BY <3>3, LenProperties
      <3> QED
        BY <1>1, <1>8, <3>4
    <2> QED
      BY <1>1, <2>1
  <1>11. Flow(rcv, none, out, s, k, bad, "down")
    <2>1. (rcv \o none) \o more = Stream(s, k, Len(s))
      BY <1>5, <1>7
    <2> QED
      BY <1>1, <1>3, <1>6, <1>9, <1>10, <2>1 DEF Flow
  <1>12. Flow(none, none, out, s, k, bad, "down")
    <2>1. (none \o none) \o all = Stream(s, k, Len(s))
      BY <1>6, <1>7
    <2> QED
      BY <1>1, <1>3, <1>6, <1>9, <1>10, <2>1 DEF Flow
  <1> QED
    BY <1>3, <1>11, <1>12

(* What was read of a frame, when it is all of it, is returned as it is. *)
LEMMA ResizedIs ==
    ASSUME NEW packet \in Writable, NEW received \in Seq(Byte), received = Encode(packet),
           WantsFrame(received, packet)
    PROVE  Resized(received) = received
  <1>1. PICK n \in Nat : n = Len(received) /\ DOMAIN received = 1 .. n
    BY LenProperties
  <1>2. PICK p \in Nat : p = Power[WordBytes]
    BY PowerFacts, WordAssumption DEF WordAssumption
  <1>3. n > HeaderSize /\ HeaderSize \in Nat
    BY <1>1, PacketFacts, WordAssumption DEF HeaderSize, WordAssumption
  <1>4. HeaderSize + RemainingSize(received) = n /\ n < p
    BY <1>1, <1>2, <1>3 DEF WantsFrame
  <1>5. n % p = n
    BY <1>2, <1>4, SmallModulo
  <1>6. Resized(received) = [i \in 1 .. n |-> IF i <= n THEN received[i] ELSE 0]
    BY <1>1, <1>2, <1>4, <1>5 DEF Resized
  <1>7. received = [i \in 1 .. n |-> received[i]]
    BY <1>1
  <1>8. \A i \in 1 .. n : (IF i <= n THEN received[i] ELSE 0) = received[i]
    OBVIOUS
  <1> QED
    BY <1>6, <1>7, <1>8

(* What has been read is the beginning of the next frame: if it is as long *)
(* as the frame, it is the frame.                                          *)
Begins(rcv, s, k) ==
    /\ k < Len(s) /\ s[k + 1] \in Writable
    /\ WantsFrame(rcv, s[k + 1])
    /\ Len(rcv) = Len(Encode(s[k + 1])) => rcv = Encode(s[k + 1])

LEMMA FlowFirst ==
    ASSUME NEW rcv, NEW w, NEW out, NEW s, NEW k, NEW bad, NEW status,
           Flow(rcv, w, out, s, k, bad, status), rcv # <<>> \/ w # <<>>
    PROVE  Begins(rcv, s, k)
  <1>1. PICK l \in Nat : l = Len(s)
    BY LenProperties DEF Flow
  <1>2. rcv \in Seq(Byte) /\ w \in Seq(Byte) /\ s \in Seq(Writable) /\ k \in 0 .. l
    BY <1>1 DEF Flow
  <1>3. PICK rest \in Seq(Byte) : (rcv \o w) \o rest = Stream(s, k, l)
    BY <1>1 DEF Flow
  <1>4. k \in Nat /\ k <= l
    BY <1>2
  <1>5. Len(Stream(s, k, l)) # 0
    <2>1. PICK a \in Seq(Byte) : a = rcv \o w /\ Len(a) = Len(rcv) + Len(w)
      BY <1>2, ByteJoin
    <2>2. Len(rcv) \in Nat /\ Len(w) \in Nat /\ (Len(rcv) # 0 \/ Len(w) # 0)
      BY <1>2, EmptySeq, LenProperties
    <2>3. Len(a \o rest) = Len(a) + Len(rest) /\ Len(a) \in Nat /\ Len(rest) \in Nat
      BY ByteJoin
    <2> QED
      BY <1>3, <2>1, <2>2, <2>3
  <1>6. k # l
    BY <1>1, <1>2, <1>4, <1>5, StreamFacts
  <1>7. k < l
    BY <1>4, <1>6
  <1>8. PICK f \in Writable : f = s[k + 1] /\ Stream(s, k, l) = Encode(f) \o Stream(s, k + 1, l)
    <2>1. Splits(s, k, l)
      BY <1>1, <1>2, <1>4, <1>7, StreamSplits
    <2> QED
      BY <2>1 DEF Splits
  <1>9. PICK y \in Seq(Byte) : y = Stream(s, k + 1, l)
    <2>1. Splits(s, k, l)
      BY <1>1, <1>2, <1>4, <1>7, StreamSplits
    <2> QED
      BY <2>1 DEF Splits
  <1>10. PICK x \in Seq(Byte) : x = w \o rest
    BY <1>2, ByteJoin
  <1>11. rcv \o x = Encode(f) \o y
    <2>1. Associates(rcv, w, rest)
      BY <1>2, Association
    <2> QED
      BY <1>3, <1>8, <1>9, <1>10, <2>1 DEF Associates
  <1>12. WantsFrame(rcv, f)
    BY <1>2, <1>11, WantedIs
  <1>13. Len(rcv) = Len(Encode(f)) => rcv = Encode(f)
    <2>1. Encode(f) \in Seq(Byte)
      BY PacketFacts
    <2> QED
      BY <1>2, <1>11, <2>1, SameFront
  <1> QED
    BY <1>1, <1>7, <1>8, <1>12, <1>13 DEF Begins

(* A whole frame is read: the message was not a failed one. *)
LEMMA FlowDelivered ==
    ASSUME NEW w, NEW out, NEW s, NEW k, NEW bad, NEW status, k < Len(s),
           Flow(Encode(s[k + 1]), w, out, s, k, bad, status)
    PROVE  Flow(<<>>, w, out, s, k + 1, bad, status) /\ \A m \in bad : k + 1 < m
  <1>1. PICK l \in Nat : l = Len(s)
    BY LenProperties DEF Flow
  <1>2. PICK f : f = s[k + 1]
    OBVIOUS
  <1>3. PICK e : e = Encode(f)
    OBVIOUS
  <1>4. Flow(e, w, out, s, k, bad, status)
    BY <1>2, <1>3
  <1>5. /\ w \in Seq(Byte) /\ out \in Seq(Byte) /\ s \in Seq(Writable) /\ e \in Seq(Byte)
        /\ k \in 0 .. l /\ bad \subseteq 1 .. l
        /\ out # <<>> => Len(e) + Len(w) < Len(Stream(s, k, l))
        /\ \A m \in bad : k < m /\ Len(e) + Len(w) < Len(Stream(s, k, m))
    BY <1>1, <1>4 DEF Flow
  <1>6. PICK rest \in Seq(Byte) :
            (e \o w) \o rest = Stream(s, k, l) /\ (status = "up" => rest = out /\ bad = {})
    BY <1>1, <1>4 DEF Flow
  <1>7. k \in Nat /\ k + 1 \in Nat /\ k <= l /\ k + 1 <= l /\ k < l
    BY <1>1, <1>5
  <1>8. ASSUME NEW m \in Nat, k < m, m <= l
        PROVE  /\ Stream(s, k + 1, m) \in Seq(Byte)
               /\ Stream(s, k, m) = e \o Stream(s, k + 1, m)
               /\ Len(Stream(s, k, m)) = Len(e) + Len(Stream(s, k + 1, m))
    <2>1. Splits(s, k, m)
      BY <1>1, <1>5, <1>7, <1>8, StreamSplits
    <2>2. /\ Stream(s, k, m) = e \o Stream(s, k + 1, m)
          /\ Stream(s, k + 1, m) \in Seq(Byte)
      BY <1>2, <1>3, <2>1 DEF Splits
    <2> QED
      BY <1>5, <2>2, ByteJoin
  <1>9. Len(e) \in Nat /\ Len(w) \in Nat
    BY <1>5, LenProperties
  <1>10. PICK y \in Seq(Byte) :
             /\ y = Stream(s, k + 1, l)
             /\ Stream(s, k, l) = e \o y
             /\ Len(Stream(s, k, l)) = Len(e) + Len(y)
    <2>1. l <= l
      OBVIOUS
    <2> QED
      BY <1>7, <1>8, <2>1
  <1>11. PICK v \in Seq(Byte) : v = w \o rest
    BY <1>5, ByteJoin
  <1>12. v = y
    <2>1. Associates(e, w, rest)
      BY <1>5, Association
    <2>2. e \o v = e \o y
      BY <1>6, <1>10, <1>11, <2>1 DEF Associates
    <2> QED
      BY <1>5, <2>2, SameFront
  <1>13. PICK none \in Seq(Byte) : none = <<>> /\ Len(none) = 0 /\ none \o w = w
    <2>1. <<>> \in Seq(Byte) /\ Len(<<>>) = 0 /\ <<>> \o w = w
      BY <1>5, ConcatEmptySeq
    <2> QED
      BY <2>1
  <1>14. ASSUME NEW m \in bad PROVE k + 1 < m /\ 0 + Len(w) < Len(Stream(s, k + 1, m))
    <2>1. m \in Nat /\ k < m /\ m <= l /\ Len(e) + Len(w) < Len(Stream(s, k, m))
      BY <1>5
    <2>2. PICK z \in Seq(Byte) :
              z = Stream(s, k + 1, m) /\ Len(Stream(s, k, m)) = Len(e) + Len(z)
      BY <1>8, <2>1
    <2>3. Len(z) \in Nat
      BY LenProperties
    <2>4. Len(w) < Len(z)
      BY <1>9, <2>1, <2>2, <2>3
    <2>5. m # k + 1
      <3>1. ASSUME m = k + 1 PROVE FALSE
        <4>1. z = <<>>
          <5>1. k + 1 <= m
            BY <1>7, <3>1
          <5> QED
            BY <1>1, <1>5, <1>7, <2>1, <2>2, <3>1, <5>1, StreamFacts
        <4> QED
          BY <1>9, <2>4, <4>1
      <3> QED
        BY <3>1
    <2> QED
      BY <1>7, <1>9, <2>1, <2>2, <2>3, <2>4, <2>5
  <1>15. out # <<>> => 0 + Len(w) < Len(y)
    <2>1. Len(y) \in Nat
      BY LenProperties
    <2> QED
      BY <1>5, <1>9, <1>10, <2>1
  <1>16. (none \o w) \o rest = y /\ k + 1 \in 0 .. l
    <2>1. k + 1 \in 0 .. l
      BY <1>7
    <2> QED
      BY <1>11, <1>12, <1>13, <2>1
  <1>17. \A m \in bad : k < m
    BY <1>5
  <1>18. Flow(none, w, out, s, k + 1, bad, status)
    BY <1>1, <1>5, <1>6, <1>10, <1>13, <1>14, <1>15, <1>16 DEF Flow
  <1> QED
    BY <1>13, <1>14, <1>18

(* The sender has closed its end, all is read, and the direction is still  *)
(* up: there is no part of a frame.                                        *)
LEMMA FlowEnded ==
    ASSUME NEW rcv, NEW s, NEW k, NEW bad, Flow(rcv, <<>>, <<>>, s, k, bad, "up"),
           Len(rcv) < Wanted(rcv)
    PROVE  rcv = <<>>
  <1> SUFFICES ASSUME rcv # <<>> PROVE FALSE
    OBVIOUS
  <1>1. Begins(rcv, s, k)
    BY FlowFirst
  <1>2. PICK l \in Nat : l = Len(s)
    BY LenProperties DEF Flow
  <1>3. rcv \in Seq(Byte) /\ s \in Seq(Writable) /\ k \in 0 .. l
    BY <1>2 DEF Flow
  <1>4. (rcv \o <<>>) \o <<>> = Stream(s, k, l)
    BY <1>2 DEF Flow
  <1>5. rcv = Stream(s, k, l)
    <2>1. rcv \o <<>> = rcv
      BY <1>3, ConcatEmptySeq
    <2> QED
      BY <1>4, <2>1
  <1>6. PICK f \in Writable : f = s[k + 1] /\ k < l
    BY <1>1, <1>2 DEF Begins
  <1>7. PICK e \in Seq(Byte) : e = Encode(f) /\ Len(e) > 2 * WordBytes
    BY PacketFacts
  <1>8. k \in Nat /\ k <= l /\ k + 1 \in Nat /\ k + 1 <= l
    BY <1>3, <1>6
  <1>9. Splits(s, k, l)
    BY <1>2, <1>3, <1>6, <1>8, StreamSplits
  <1>10. PICK y \in Seq(Byte) : y = Stream(s, k + 1, l) /\ Stream(s, k, l) = e \o y
    BY <1>6, <1>7, <1>9 DEF Splits
  <1>11. Len(rcv) = Len(e) + Len(y) /\ Len(e) \in Nat /\ Len(y) \in Nat
    BY <1>5, <1>10, ByteJoin
  <1>12. Wanted(rcv) = IF Len(rcv) < 2 * WordBytes THEN 2 * WordBytes ELSE Len(e)
    BY <1>1, <1>6, <1>7 DEF Begins, WantsFrame, HeaderSize
  <1>13. 2 * WordBytes \in Nat
    BY WordAssumption
  <1> QED
    BY <1>7, <1>11, <1>12, <1>13

-----------------------------------------------------------------------------
(* The inductive invariant: the shape of the state, what holds of each end, *)
(* and Flow in both directions.                                            *)

Received(e) == IF job[e].doing = "receive" THEN job[e].bytes ELSE <<>>
Unsent(e)   == IF job[e].doing = "send" THEN job[e].bytes ELSE <<>>
Status(e)   == IF open[e] /\ ~broken THEN "up" ELSE "down"

Jobs == [doing : {"nothing", "send", "receive"}, bytes : Seq(Byte)]

Shape ==
    /\ wire \in [Ends -> Seq(Byte)]
    /\ open \in [Ends -> BOOLEAN]
    /\ broken \in BOOLEAN
    /\ job \in [Ends -> Jobs]
    /\ draining \in [Ends -> BOOLEAN]
    /\ sent \in [Ends -> Seq(Writable)]
    /\ delivered \in [Ends -> Seq(Writable)]
    /\ failed \in [Ends -> SUBSET Nat]
    /\ lost \in [Ends -> Nat]

EndOK(e) ==
    /\ Len(wire[e]) <= Window
    /\ job[e].doing = "nothing" => job[e].bytes = <<>>
    /\ job[e].doing = "send" => job[e].bytes # <<>>
    /\ job[e].doing = "receive" => Len(job[e].bytes) < Wanted(job[e].bytes)
    /\ ~open[e] => job[e].doing = "nothing"

Between(from, to) ==
    Flow(Received(to), wire[to], Unsent(from), sent[from],
         Len(delivered[to]), failed[from], Status(to))

IInv == Shape /\ \A e \in Ends : EndOK(e) /\ Between(Peer(e), e)

LEMMA PeerFacts ==
    ASSUME NEW e \in Ends
    PROVE  /\ Peer(e) \in Ends /\ Peer(e) # e /\ Peer(Peer(e)) = e
           /\ \A f \in Ends : f = e \/ f = Peer(e)
  <1>1. PICK a \in Ends, b \in Ends : a # b /\ Ends = {a, b}
    BY EndsAssumption
  <1>2. ASSUME NEW f \in Ends PROVE Peer(f) \in Ends /\ Peer(f) # f
    <2>1. \E g \in Ends : g # f
      BY <1>1
    <2> QED
      BY <2>1 DEF Peer, Channel!Peer
  <1>3. Peer(e) \in Ends /\ Peer(e) # e /\ Peer(Peer(e)) \in Ends /\ Peer(Peer(e)) # Peer(e)
    BY <1>2
  <1> QED
    BY <1>1, <1>3

LEMMA InvAt ==
    ASSUME IInv, NEW x \in Ends, NEW p \in Ends, p = Peer(x)
    PROVE  /\ Shape /\ EndOK(x) /\ EndOK(p) /\ Between(p, x) /\ Between(x, p)
           /\ p # x /\ x = Peer(p)
  BY PeerFacts DEF IInv

LEMMA InvFrom ==
    ASSUME NEW x \in Ends, NEW p \in Ends, p = Peer(x), Shape',
           EndOK(x)', EndOK(p)', Between(p, x)', Between(x, p)'
    PROVE  IInv'
  <1>1. ASSUME NEW e \in Ends PROVE EndOK(e)' /\ Between(Peer(e), e)'
    <2>1. CASE e = x
      BY <2>1
    <2>2. CASE e = p
      <3>1. Peer(p) = x
        BY PeerFacts
      <3> QED
        BY <2>2, <3>1
    <2> QED
      BY <2>1, <2>2, PeerFacts
  <1> QED
    BY <1>1 DEF IInv

LEMMA InitInv == Init => IInv
  <1> SUFFICES ASSUME Init PROVE IInv
    OBVIOUS
  <1>1. Shape
    <2>1. <<>> \in Seq(Byte) /\ <<>> \in Seq(Writable) /\ Nothing \in Jobs
      BY DEF Nothing, Jobs
    <2> QED
      BY <2>1 DEF Init, Channel!Init, Shape
  <1>2. ASSUME NEW e \in Ends PROVE EndOK(e)
    <2>1. Len(wire[e]) <= Window
      BY WindowAssumption DEF Init
    <2> QED
      BY <2>1 DEF Init, EndOK, Nothing
  <1>3. ASSUME NEW e \in Ends PROVE Between(Peer(e), e)
    <2>1. Peer(e) \in Ends
      BY PeerFacts
    <2>2. /\ Received(e) = <<>> /\ wire[e] = <<>> /\ Unsent(Peer(e)) = <<>>
          /\ sent[Peer(e)] = <<>> /\ Len(delivered[e]) = 0 /\ failed[Peer(e)] = {}
      BY <2>1 DEF Init, Channel!Init, Received, Unsent, Nothing
    <2> QED
      BY <2>2, FlowInit DEF Between
  <1> QED
    BY <1>1, <1>2, <1>3 DEF IInv

LEMMA SendKeeps ==
    ASSUME IInv, NEW x \in Ends, NEW packet \in Writable, Send(x, packet)
    PROVE  IInv'
  <1>1. PICK p \in Ends : p = Peer(x) /\ p # x
    BY PeerFacts
  <1>2. Shape /\ EndOK(x) /\ EndOK(p) /\ Between(p, x) /\ Between(x, p)
    BY <1>1, InvAt
  <1>3. PICK e \in Seq(Byte) :
            /\ e = Encode(packet) /\ e # <<>>
            /\ e = SubSeq(Encode(packet), 1, AsInt(Len(Encode(packet))))
    <2>1. Encode(packet) \in Seq(Byte) /\ Len(Encode(packet)) > 2 * WordBytes
      BY PacketFacts
    <2>2. Len(<<>>) = 0 /\ ~ (0 > 2 * WordBytes)
      BY WordAssumption
    <2>3. SubSeq(Encode(packet), 1, AsInt(Len(Encode(packet)))) = Encode(packet)
      BY PacketFacts
    <2> QED
      BY <2>1, <2>2, <2>3
  <1>4. /\ job' = [job EXCEPT ![x] = Sending(e)] /\ Sending(e) \in Jobs
        /\ sent' = [sent EXCEPT ![x] = Append(@, packet)]
        /\ wire' = wire /\ open' = open /\ broken' = broken /\ draining' = draining
        /\ delivered' = delivered /\ failed' = failed /\ lost' = lost
        /\ open[x] /\ job[x].doing = "nothing"
    BY <1>3 DEF Send, Idle, Sending, Jobs
  <1>5. Shape'
    <2>1. Append(sent[x], packet) \in Seq(Writable)
      BY <1>2, PushFacts DEF Shape
    <2> QED
      BY <1>2, <1>4, <2>1 DEF Shape
  <1>6. job'[x] = Sending(e) /\ job'[p] = job[p]
    BY <1>1, <1>2, <1>4 DEF Shape
  <1>7. EndOK(x)' /\ EndOK(p)'
    BY <1>2, <1>3, <1>4, <1>6 DEF EndOK, Sending
  <1>8. Between(p, x)'
    <2>1. Received(x)' = Received(x) /\ Unsent(p)' = Unsent(p)
      BY <1>4, <1>6 DEF Received, Unsent, Sending
    <2>2. sent'[p] = sent[p] /\ Status(x)' = Status(x)
      BY <1>1, <1>2, <1>4 DEF Shape, Status
    <2> QED
      BY <1>2, <1>4, <2>1, <2>2 DEF Between
  <1>9. Between(x, p)'
    <2>1. Received(p)' = Received(p) /\ Unsent(x) = <<>> /\ Unsent(x)' = Encode(packet)
      BY <1>3, <1>4, <1>6 DEF Received, Unsent, Sending
    <2>2. sent'[x] = Append(sent[x], packet) /\ Status(p)' = Status(p)
      BY <1>1, <1>2, <1>4 DEF Shape, Status
    <2>3. Flow(Received(p), wire[p], <<>>, sent[x], Len(delivered[p]), failed[x], Status(p))
      BY <1>2, <2>1 DEF Between
    <2>4. Flow(Received(p), wire[p], Encode(packet), Append(sent[x], packet),
               Len(delivered[p]), failed[x], Status(p))
      BY <2>3, FlowSend
    <2> QED
      BY <1>4, <2>1, <2>2, <2>4 DEF Between
  <1> QED
    BY <1>1, <1>5, <1>7, <1>8, <1>9, InvFrom

(* A message that is not written changes nothing but the count of those. *)
LEMMA LoseKeeps ==
    ASSUME IInv, NEW x \in Ends, NEW packet \in Packets \ Writable, Send(x, packet)
    PROVE  IInv' /\ Channel!Lose(x, packet)
  <1>1. /\ lost' = [lost EXCEPT ![x] = @ + 1]
        /\ UNCHANGED <<wire, open, broken, job, draining, sent, delivered, failed>>
    BY DEF Send
  <1>2. Shape
    BY DEF IInv
  <1>3. lost[x] + 1 \in Nat
    BY <1>2 DEF Shape
  <1>4. Shape'
    BY <1>1, <1>2, <1>3 DEF Shape
  <1>5. \A e \in Ends : (EndOK(e) /\ Between(Peer(e), e))'
    BY <1>1 DEF IInv, EndOK, Between, Received, Unsent, Status
  <1> QED
    BY <1>1, <1>4, <1>5 DEF IInv, Channel!Lose

LEMMA SendSomeKeeps ==
    ASSUME IInv, NEW x \in Ends, SendSome(x)
    PROVE  IInv'
  <1>1. PICK p \in Ends : p = Peer(x) /\ p # x
    BY PeerFacts
  <1>2. Shape /\ EndOK(x) /\ EndOK(p) /\ Between(p, x) /\ Between(x, p)
    BY <1>1, InvAt
  <1>3. PICK out \in Seq(Byte) : out = job[x].bytes
    BY <1>2 DEF Shape, Jobs
  <1>4. PICK n \in 1 .. Len(out) :
            /\ Taken(x, n)
            /\ job' = [job EXCEPT ![x] = IF SubSeq(out, n + 1, Len(out)) = <<>> THEN Nothing
                                         ELSE Sending(SubSeq(out, n + 1, Len(out)))]
    BY <1>3 DEF SendSome
  <1>5. /\ open' = open /\ broken' = broken /\ draining' = draining
        /\ sent' = sent /\ delivered' = delivered /\ failed' = failed /\ lost' = lost
        /\ job[x].doing = "send" /\ ~broken
    BY DEF SendSome
  <1>6. PICK taken \in Seq(Byte), rest \in Seq(Byte) :
            /\ taken = SubSeq(out, 1, n) /\ rest = SubSeq(out, n + 1, Len(out))
            /\ Len(taken) = n /\ n \in Nat
    <2>1. n \in Nat
      BY LenProperties
    <2>2. CutAt(out, n)
      BY ByteCut
    <2> QED
      BY <2>1, <2>2 DEF CutAt
  <1>7. PICK new \in Jobs :
            /\ new = IF rest = <<>> THEN Nothing ELSE Sending(rest)
            /\ job' = [job EXCEPT ![x] = new]
    <2>1. Nothing \in Jobs /\ Sending(rest) \in Jobs
      BY DEF Nothing, Sending, Jobs
    <2> QED
      BY <1>4, <1>6, <2>1
  <1>8. job'[x] = new /\ job'[p] = job[p]
    BY <1>1, <1>2, <1>7 DEF Shape
  <1>9. /\ wire' \in [Ends -> Seq(Byte)] /\ wire'[x] = wire[x]
        /\ open[p] => wire'[p] = wire[p] \o taken /\ Len(wire[p]) + n <= Window
        /\ ~open[p] => wire'[p] = wire[p]
    <2>1. wire[p] \o taken \in Seq(Byte)
      BY <1>2, ByteJoin DEF Shape
    <2> QED
      BY <1>1, <1>2, <1>3, <1>4, <1>6, <2>1 DEF Shape, Taken
  <1>10. Shape'
    BY <1>2, <1>5, <1>7, <1>9 DEF Shape
  <1>11. Unsent(x) = out /\ Unsent(x)' = rest /\ out # <<>> /\ Received(x) = Received(x)'
    BY <1>2, <1>3, <1>5, <1>7, <1>8 DEF Unsent, Received, EndOK, Nothing, Sending
  <1>12. EndOK(x)'
    BY <1>2, <1>5, <1>7, <1>8, <1>9 DEF EndOK, Nothing, Sending
  <1>13. EndOK(p)'
    <2>1. Len(wire'[p]) <= Window
      <3>1. CASE open[p]
        <4>1. Len(wire[p] \o taken) = Len(wire[p]) + n
          BY <1>2, <1>6, ByteJoin DEF Shape
        <4> QED
          BY <1>9, <3>1, <4>1
      <3>2. CASE ~open[p]
        BY <1>2, <1>9, <3>2 DEF EndOK
      <3> QED
        BY <3>1, <3>2
    <2> QED
      BY <1>2, <1>5, <1>8, <2>1 DEF EndOK
  <1>14. Between(p, x)'
    <2>1. Unsent(p)' = Unsent(p) /\ Status(x)' = Status(x)
      BY <1>5, <1>8 DEF Unsent, Status
    <2> QED
      BY <1>2, <1>5, <1>9, <1>11, <2>1 DEF Between
  <1>15. Between(x, p)'
    <2>1. Received(p)' = Received(p) /\ Status(p)' = Status(p)
      BY <1>5, <1>8 DEF Received, Status
    <2>2. Flow(Received(p), wire[p], out, sent[x], Len(delivered[p]), failed[x], Status(p))
      BY <1>2, <1>11 DEF Between
    <2>3. Flow(Received(p), wire'[p], rest, sent[x], Len(delivered[p]), failed[x], Status(p))
      <3>1. CASE open[p]
        <4>1. Status(p) = "up"
          BY <1>5, <3>1 DEF Status
        <4>2. Flow(Received(p), wire[p] \o taken, rest,
                   sent[x], Len(delivered[p]), failed[x], "up")
          BY <1>6, <2>2, <4>1, FlowTaken
        <4> QED
          BY <1>9, <3>1, <4>1, <4>2
      <3>2. CASE ~open[p]
        <4>1. Status(p) = "down"
          BY <3>2 DEF Status
        <4>2. Flow(Received(p), wire[p], rest, sent[x], Len(delivered[p]), failed[x], "down")
          BY <1>11, <2>2, <4>1, FlowDropped
        <4> QED
          BY <1>9, <3>2, <4>1, <4>2
      <3> QED
        BY <3>1, <3>2
    <2> QED
      BY <1>5, <1>11, <2>1, <2>3 DEF Between
  <1> QED
    BY <1>1, <1>10, <1>12, <1>13, <1>14, <1>15, InvFrom

(* A send that fails has a message the peer has not received. *)
LEMMA SendFailsKeeps ==
    ASSUME IInv, NEW x \in Ends, SendFails(x)
    PROVE  IInv' /\ Len(delivered[Peer(x)]) < Len(sent[x])
  <1>1. PICK p \in Ends : p = Peer(x) /\ p # x
    BY PeerFacts
  <1>2. Shape /\ EndOK(x) /\ EndOK(p) /\ Between(p, x) /\ Between(x, p)
    BY <1>1, InvAt
  <1>3. /\ job' = [job EXCEPT ![x] = Nothing] /\ Nothing \in Jobs
        /\ failed' = [failed EXCEPT ![x] = @ \union {Len(sent[x])}]
        /\ wire' = wire /\ open' = open /\ broken' = broken /\ draining' = draining
        /\ sent' = sent /\ delivered' = delivered /\ lost' = lost
        /\ job[x].doing = "send" /\ (broken \/ ~open[p])
    BY <1>1 DEF SendFails, Gone, Nothing, Jobs
  <1>4. job'[x] = Nothing /\ job'[p] = job[p]
    BY <1>1, <1>2, <1>3 DEF Shape
  <1>5. Shape'
    <2>1. Len(sent[x]) \in Nat
      BY <1>2, LenProperties DEF Shape
    <2> QED
      BY <1>2, <1>3, <2>1 DEF Shape
  <1>6. EndOK(x)' /\ EndOK(p)'
    BY <1>2, <1>3, <1>4 DEF EndOK, Nothing
  <1>7. Between(p, x)'
    <2>1. Received(x)' = Received(x) /\ Unsent(p)' = Unsent(p) /\ Status(x)' = Status(x)
      BY <1>3, <1>4 DEF Received, Unsent, Status, Nothing
    <2>2. failed'[p] = failed[p]
      BY <1>1, <1>2, <1>3 DEF Shape
    <2> QED
      BY <1>2, <1>3, <2>1, <2>2 DEF Between
  <1>8. Between(x, p)' /\ Len(delivered[p]) < Len(sent[x])
    <2>1. PICK out : out = job[x].bytes /\ out # <<>> /\ Unsent(x) = out
      BY <1>2, <1>3 DEF EndOK, Unsent
    <2>2. /\ Received(p)' = Received(p) /\ Unsent(x)' = <<>>
          /\ Status(p) = "down" /\ Status(p)' = "down"
      BY <1>3, <1>4 DEF Received, Unsent, Status, Nothing
    <2>3. Flow(Received(p), wire[p], out, sent[x], Len(delivered[p]), failed[x], "down")
      BY <1>2, <2>1, <2>2 DEF Between
    <2>4. /\ Len(delivered[p]) < Len(sent[x])
          /\ Flow(Received(p), wire[p], <<>>, sent[x], Len(delivered[p]),
                  failed[x] \cup {Len(sent[x])}, "down")
      BY <2>1, <2>3, FlowFails
    <2>5. failed'[x] = failed[x] \cup {Len(sent[x])}
      BY <1>2, <1>3 DEF Shape
    <2> QED
      BY <1>3, <2>2, <2>4, <2>5 DEF Between
  <1> QED
    BY <1>1, <1>5, <1>6, <1>7, <1>8, InvFrom

(* A receive that begins has read nothing. *)
LEMMA BeginsKeeps ==
    ASSUME IInv, NEW x \in Ends, Idle(x), draining' \in [Ends -> BOOLEAN],
           job' = [job EXCEPT ![x] = Receiving(<<>>)] \/ job' = job,
           UNCHANGED <<wire, open, broken, sent, delivered, failed, lost>>
    PROVE  IInv'
  <1>1. PICK p \in Ends : p = Peer(x) /\ p # x
    BY PeerFacts
  <1>2. Shape /\ EndOK(x) /\ EndOK(p) /\ Between(p, x) /\ Between(x, p)
    BY <1>1, InvAt
  <1>3. /\ wire' = wire /\ open' = open /\ broken' = broken
        /\ sent' = sent /\ delivered' = delivered /\ failed' = failed /\ lost' = lost
        /\ open[x] /\ job[x].doing = "nothing"
    BY DEF Idle
  <1>4. job' \in [Ends -> Jobs] /\ job'[p] = job[p]
        /\ (job'[x] = Receiving(<<>>) \/ job'[x] = job[x])
    <2>1. Receiving(<<>>) \in Jobs
      BY DEF Receiving, Jobs
    <2> QED
      BY <1>1, <1>2, <2>1 DEF Shape
  <1>5. Shape'
    BY <1>2, <1>3, <1>4 DEF Shape
  <1>6. EndOK(x)'
    <2>1. Len(<<>>) < Wanted(<<>>)
      BY WordAssumption DEF Wanted, HeaderSize
    <2> QED
      BY <1>2, <1>3, <1>4, <2>1 DEF EndOK, Receiving
  <1>7. EndOK(p)'
    BY <1>2, <1>3, <1>4 DEF EndOK
  <1>8. /\ Received(x)' = Received(x) /\ Received(p)' = Received(p)
        /\ Unsent(x)' = Unsent(x) /\ Unsent(p)' = Unsent(p)
        /\ Status(x)' = Status(x) /\ Status(p)' = Status(p)
    BY <1>3, <1>4 DEF Received, Unsent, Status, Receiving
  <1>9. Between(p, x)' /\ Between(x, p)'
    BY <1>2, <1>3, <1>8 DEF Between
  <1> QED
    BY <1>1, <1>5, <1>6, <1>7, <1>9, InvFrom

LEMMA ReceiveFailsKeeps ==
    ASSUME IInv, NEW x \in Ends, ReceiveFails(x)
    PROVE  IInv'
  <1>1. PICK p \in Ends : p = Peer(x) /\ p # x
    BY PeerFacts
  <1>2. Shape /\ EndOK(x) /\ EndOK(p) /\ Between(p, x) /\ Between(x, p)
    BY <1>1, InvAt
  <1>3. /\ job' = [job EXCEPT ![x] = Nothing] /\ Nothing \in Jobs
        /\ wire' = wire /\ open' = open /\ broken' = broken /\ draining' = draining
        /\ sent' = sent /\ delivered' = delivered /\ failed' = failed /\ lost' = lost
        /\ job[x].doing = "receive" /\ wire[x] = <<>> /\ (broken \/ ~open[p])
    BY <1>1 DEF ReceiveFails, Gone, Nothing, Jobs
  <1>4. job'[x] = Nothing /\ job'[p] = job[p]
    BY <1>1, <1>2, <1>3 DEF Shape
  <1>5. Shape'
    BY <1>2, <1>3 DEF Shape
  <1>6. EndOK(x)' /\ EndOK(p)'
    BY <1>2, <1>3, <1>4 DEF EndOK, Nothing
  <1>7. Between(p, x)'
    <2>1. Received(x)' = <<>> /\ Unsent(p)' = Unsent(p) /\ Status(x)' = Status(x)
      BY <1>3, <1>4 DEF Received, Unsent, Status, Nothing
    <2>2. PICK rcv : rcv = Received(x)
      OBVIOUS
    <2>3. Flow(rcv, <<>>, Unsent(p), sent[p], Len(delivered[x]), failed[p], Status(x))
      BY <1>2, <1>3, <2>2 DEF Between
    <2>4. Flow(<<>>, <<>>, Unsent(p), sent[p], Len(delivered[x]), failed[p], Status(x))
      <3>1. CASE Status(x) = "up"
        <4>1. ~open[p]
          BY <1>3, <3>1 DEF Status
        <4>2. Unsent(p) = <<>>
          BY <1>2, <4>1 DEF EndOK, Unsent
        <4>3. Len(rcv) < Wanted(rcv)
          BY <1>2, <1>3, <2>2 DEF EndOK, Received
        <4>4. Flow(rcv, <<>>, <<>>, sent[p], Len(delivered[x]), failed[p], "up")
          BY <2>3, <3>1, <4>2
        <4>5. rcv = <<>>
          BY <4>3, <4>4, FlowEnded
        <4> QED
          BY <2>3, <4>5
      <3>2. CASE Status(x) = "down"
        BY <2>3, <3>2, FlowLost
      <3> QED
        BY <3>1, <3>2 DEF Status
    <2> QED
      BY <1>3, <2>1, <2>4 DEF Between
  <1>8. Between(x, p)'
    <2>1. Received(p)' = Received(p) /\ Unsent(x)' = Unsent(x) /\ Status(p)' = Status(p)
      BY <1>3, <1>4 DEF Received, Unsent, Status, Nothing
    <2> QED
      BY <1>2, <1>3, <2>1 DEF Between
  <1> QED
    BY <1>1, <1>5, <1>6, <1>7, <1>8, InvFrom

LEMMA CloseKeeps ==
    ASSUME IInv, NEW x \in Ends, Close(x)
    PROVE  IInv'
  <1>1. PICK p \in Ends : p = Peer(x) /\ p # x
    BY PeerFacts
  <1>2. Shape /\ EndOK(x) /\ EndOK(p) /\ Between(p, x) /\ Between(x, p)
    BY <1>1, InvAt
  <1>3. /\ open' = [open EXCEPT ![x] = FALSE] /\ wire' = [wire EXCEPT ![x] = <<>>]
        /\ broken' = broken /\ job' = job /\ draining' = draining
        /\ sent' = sent /\ delivered' = delivered /\ failed' = failed /\ lost' = lost
        /\ job[x].doing = "nothing"
    BY DEF Close, Idle
  <1>4. /\ open'[x] = FALSE /\ open'[p] = open[p]
        /\ wire'[x] = <<>> /\ wire'[p] = wire[p]
    BY <1>1, <1>2, <1>3 DEF Shape
  <1>5. Shape'
    <2>1. <<>> \in Seq(Byte)
      OBVIOUS
    <2> QED
      BY <1>2, <1>3, <2>1 DEF Shape
  <1>6. EndOK(x)' /\ EndOK(p)'
    <2>1. Len(wire'[x]) <= Window
      BY <1>4, WindowAssumption
    <2> QED
      BY <1>2, <1>3, <1>4, <2>1 DEF EndOK
  <1>7. /\ Received(x)' = Received(x) /\ Received(p)' = Received(p)
        /\ Unsent(x)' = Unsent(x) /\ Unsent(p)' = Unsent(p)
        /\ Status(x)' = "down" /\ Status(p)' = Status(p)
    BY <1>3, <1>4 DEF Received, Unsent, Status
  <1>8. Between(p, x)'
    <2>1. Flow(Received(x), wire[x], Unsent(p), sent[p],
               Len(delivered[x]), failed[p], Status(x))
      BY <1>2 DEF Between
    <2>2. Flow(Received(x), <<>>, Unsent(p), sent[p], Len(delivered[x]), failed[p], "down")
      BY <2>1, FlowLost
    <2> QED
      BY <1>3, <1>4, <1>7, <2>2 DEF Between
  <1>9. Between(x, p)'
    BY <1>2, <1>3, <1>4, <1>7 DEF Between
  <1> QED
    BY <1>1, <1>5, <1>6, <1>8, <1>9, InvFrom

LEMMA BreakKeeps ==
    ASSUME IInv, Break
    PROVE  IInv'
  <1>1. PICK kept \in SUBSET Ends :
            wire' = [e \in Ends |-> IF e \in kept THEN wire[e] ELSE <<>>]
    BY DEF Break
  <1>2. /\ broken' = TRUE /\ open' = open /\ job' = job /\ draining' = draining
        /\ sent' = sent /\ delivered' = delivered /\ failed' = failed /\ lost' = lost
    BY DEF Break
  <1>3. Shape'
    <2>1. <<>> \in Seq(Byte)
      OBVIOUS
    <2> QED
      BY <1>1, <1>2, <2>1 DEF IInv, Shape
  <1>4. ASSUME NEW e \in Ends PROVE EndOK(e)'
    <2>1. wire'[e] = wire[e] \/ wire'[e] = <<>>
      BY <1>1
    <2>2. Len(wire'[e]) <= Window
      BY <2>1, WindowAssumption DEF IInv, EndOK
    <2> QED
      BY <1>2, <2>2 DEF IInv, EndOK
  <1>5. ASSUME NEW e \in Ends PROVE Between(Peer(e), e)'
    <2>1. PICK p \in Ends : p = Peer(e)
      BY PeerFacts
    <2>2. Flow(Received(e), wire[e], Unsent(p), sent[p],
               Len(delivered[e]), failed[p], Status(e))
      BY <2>1 DEF IInv, Between
    <2>3. Received(e)' = Received(e) /\ Unsent(p)' = Unsent(p) /\ Status(e)' = "down"
      BY <1>2 DEF Received, Unsent, Status
    <2>4. Flow(Received(e), wire'[e], Unsent(p), sent[p],
               Len(delivered[e]), failed[p], "down")
      <3>1. CASE wire'[e] = wire[e]
        BY <2>2, <3>1, FlowDown
      <3>2. CASE wire'[e] = <<>>
        BY <2>2, <3>2, FlowLost
      <3> QED
        BY <1>1, <3>1, <3>2
    <2>5. Between(p, e)'
      BY <1>2, <2>3, <2>4 DEF Between
    <2> QED
      BY <2>1, <2>5
  <1> QED
    BY <1>3, <1>4, <1>5 DEF IInv

(* A receive that goes on either returns the next message, none of whose   *)
(* bytes is missing, or has not yet read all of it.                        *)
LEMMA ReceiveSomeKeeps ==
    ASSUME IInv, NEW x \in Ends, ReceiveSome(x)
    PROVE  IInv' /\ (Channel!Deliver(x) \/ UNCHANGED <<sent, delivered, failed, lost>>)
  <1>1. PICK p \in Ends : p = Peer(x) /\ p # x
    BY PeerFacts
  <1>2. Shape /\ EndOK(x) /\ EndOK(p) /\ Between(p, x) /\ Between(x, p)
    BY <1>1, InvAt
  <1>3. PICK old \in Seq(Byte), w \in Seq(Byte) : old = job[x].bytes /\ w = wire[x]
    BY <1>2 DEF Shape, Jobs
  <1>piece. PICK n \in 1 .. Len(w) : \E received :
            /\ received = old \o SubSeq(w, 1, n)
            /\ Len(received) <= Wanted(old)
            /\ wire' = [wire EXCEPT ![x] = SubSeq(@, n + 1, Len(@))]
            /\ IF Complete(received) THEN Returns(x, Resized(received))
               ELSE /\ job' = [job EXCEPT ![x] = Receiving(received)]
                    /\ UNCHANGED <<delivered, draining>>
    BY <1>3 DEF ReceiveSome
  <1>4. PICK received :
            /\ received = old \o SubSeq(w, 1, n)
            /\ Len(received) <= Wanted(old)
            /\ wire' = [wire EXCEPT ![x] = SubSeq(@, n + 1, Len(@))]
            /\ IF Complete(received) THEN Returns(x, Resized(received))
               ELSE /\ job' = [job EXCEPT ![x] = Receiving(received)]
                    /\ UNCHANGED <<delivered, draining>>
    BY <1>piece
  <1>5. /\ open' = open /\ broken' = broken /\ sent' = sent /\ failed' = failed /\ lost' = lost
        /\ job[x].doing = "receive"
    BY DEF ReceiveSome
  <1>cut. CutAt(w, n)
    BY ByteCut
  <1>6. PICK rest \in Seq(Byte) : rest = SubSeq(w, n + 1, Len(w)) /\ Len(rest) = Len(w) - n
    BY <1>cut DEF CutAt
  <1>7. received \in Seq(Byte) /\ received # <<>>
    <2>1. PICK b \in Seq(Byte) : b = SubSeq(w, 1, n) /\ Len(b) = n
      BY <1>cut DEF CutAt
    <2>2. old \o b \in Seq(Byte) /\ Len(old \o b) = Len(old) + n /\ Len(old) \in Nat
      BY <2>1, ByteJoin
    <2>3. n \in Nat /\ n > 0
      BY LenProperties
    <2>4. received = old \o b
      BY <1>4, <2>1
    <2>5. Len(received) # 0 /\ received \in Seq(Byte)
      BY <2>2, <2>3, <2>4
    <2>6. Len(<<>>) = 0
      OBVIOUS
    <2> QED
      BY <2>5, <2>6
  <1>8. /\ wire' \in [Ends -> Seq(Byte)] /\ wire'[x] = rest /\ wire'[p] = wire[p]
        /\ Len(rest) <= Window
    <2>1. Len(w) \in Nat /\ n \in Nat /\ Len(w) <= Window
      BY <1>2, <1>3, LenProperties DEF EndOK
    <2>2. Len(rest) <= Window
      BY <1>6, <2>1, WindowAssumption
    <2> QED
      BY <1>1, <1>2, <1>3, <1>4, <1>6, <2>2 DEF Shape
  <1>9. PICK s, k : s = sent[p] /\ k = Len(delivered[x])
    OBVIOUS
  <1>10. PICK out, bad, status : out = Unsent(p) /\ bad = failed[p] /\ status = Status(x)
    OBVIOUS
  <1>11. Flow(old, w, out, s, k, bad, status)
    BY <1>2, <1>3, <1>5, <1>9, <1>10 DEF Between, Received
  <1>12. Flow(received, rest, out, s, k, bad, status)
    BY <1>4, <1>6, <1>11, FlowRead
  <1>13. Begins(old, s, k) /\ Begins(received, s, k)
    <2>1. w # <<>>
      <3>1. Len(w) # 0
        BY LenProperties
      <3> QED
        BY <3>1
    <2> QED
      BY <1>7, <1>11, <1>12, <2>1, FlowFirst
  <1>14. PICK f \in Writable : f = s[k + 1] /\ k < Len(s)
    BY <1>13 DEF Begins
  <1>15. PICK l \in Nat, h \in Nat : l = Len(Encode(f)) /\ h = HeaderSize /\ l > h
    <2>1. Encode(f) \in Seq(Byte) /\ Len(Encode(f)) > HeaderSize
      BY PacketFacts DEF HeaderSize
    <2>2. Len(Encode(f)) \in Nat /\ HeaderSize \in Nat
      BY <2>1, LenProperties, WordAssumption DEF HeaderSize
    <2> QED
      BY <2>1, <2>2
  <1>16. /\ Wanted(old) = IF Len(old) < h THEN h ELSE l
         /\ Wanted(received) = IF Len(received) < h THEN h ELSE l
         /\ Len(received) = l => received = Encode(f)
    BY <1>13, <1>14, <1>15 DEF Begins, WantsFrame
  <1>17. PICK m \in Nat : m = Len(received)
    BY <1>7, LenProperties
  <1>18. Unsent(p)' = Unsent(p) /\ Status(x)' = Status(x) /\ Status(p)' = Status(p)
         /\ Received(p)' = Received(p) /\ Unsent(x)' = Unsent(x) /\ EndOK(p)'
    <2>1. job'[p] = job[p] /\ job'[x].doing # "send"
      BY <1>1, <1>2, <1>4 DEF Shape, Returns, Nothing, Receiving
    <2> QED
      BY <1>2, <1>5, <1>8, <2>1 DEF Unsent, Status, Received, EndOK
  <1>19. CASE Complete(received)
    <2>1. received = Encode(f)
      BY <1>15, <1>16, <1>17, <1>19 DEF Complete
    <2>frame. Resized(received) = received
      BY <1>7, <1>13, <1>14, <2>1, ResizedIs DEF Begins
    <2>2. Decodes(received) /\ Payload(received) = f
      BY <2>1, FrameDecodes, PacketFacts
    <2>3. /\ job' = [job EXCEPT ![x] = Nothing] /\ Nothing \in Jobs
          /\ delivered' = [delivered EXCEPT ![x] = Append(@, f)]
          /\ draining' \in [Ends -> BOOLEAN]
      <3>1. Returns(x, received)
        BY <1>4, <1>19, <2>frame
      <3>2. /\ job' = [job EXCEPT ![x] = Nothing]
            /\ delivered' = [delivered EXCEPT ![x] = Append(@, f)]
            /\ \E goesOn \in BOOLEAN : draining' = [draining EXCEPT ![x] = @ /\ goesOn]
        BY <2>2, <3>1 DEF Returns
      <3>3. PICK goesOn \in BOOLEAN : draining' = [draining EXCEPT ![x] = @ /\ goesOn]
        BY <3>2
      <3>4. draining \in [Ends -> BOOLEAN]
        BY <1>2 DEF Shape
      <3>5. (draining[x] /\ goesOn) \in BOOLEAN
        OBVIOUS
      <3>6. draining' \in [Ends -> BOOLEAN]
        BY <3>3, <3>4, <3>5
      <3>7. <<>> \in Seq(Byte)
        OBVIOUS
      <3>8. Nothing \in Jobs
        BY <3>7 DEF Nothing, Jobs
      <3> QED
        BY <3>2, <3>6, <3>8
    <2>4. Append(delivered[x], f) \in Seq(Writable) /\ Len(Append(delivered[x], f)) = k + 1
      BY <1>2, <1>9, PushFacts DEF Shape
    <2>5. Shape'
      BY <1>2, <1>5, <1>8, <2>3, <2>4 DEF Shape
    <2>6. job'[x] = Nothing /\ delivered'[p] = delivered[p] /\ Len(delivered'[x]) = k + 1
      BY <1>1, <1>2, <2>3, <2>4 DEF Shape
    <2>7. EndOK(x)'
      BY <1>2, <1>5, <1>8, <2>6 DEF EndOK, Nothing
    <2>8. Flow(<<>>, rest, out, s, k + 1, bad, status) /\ \A i \in bad : k + 1 < i
      BY <1>12, <1>14, <2>1, FlowDelivered
    <2>9. Between(p, x)'
      <3>1. Received(x)' = <<>>
        BY <2>6 DEF Received, Nothing
      <3> QED
        BY <1>5, <1>8, <1>9, <1>10, <1>18, <2>6, <2>8, <3>1 DEF Between
    <2>10. Between(x, p)'
      BY <1>2, <1>5, <1>8, <1>18, <2>6 DEF Between
    <2>11. Channel!Deliver(x)
      <3>1. Channel!Peer(x) = p
        BY <1>1 DEF Peer
      <3>2. k + 1 <= Len(s)
        <4>1. Len(s) \in Nat /\ k \in Nat
          BY <1>2, <1>9, LenProperties DEF Shape
        <4> QED
          BY <1>14, <4>1
      <3>3. \A i \in 1 .. k + 1 : i \notin bad
        <4>1. k \in Nat
          BY <1>2, <1>9, LenProperties DEF Shape
        <4> QED
          BY <2>8, <4>1
      <3> QED
        BY <1>5, <1>9, <1>10, <1>14, <2>3, <3>1, <3>2, <3>3 DEF Channel!Deliver
    <2> QED
      BY <1>1, <1>18, <2>5, <2>7, <2>9, <2>10, <2>11, InvFrom
  <1>20. CASE ~Complete(received)
    <2>1. /\ job' = [job EXCEPT ![x] = Receiving(received)] /\ Receiving(received) \in Jobs
          /\ delivered' = delivered /\ draining' = draining
      BY <1>4, <1>7, <1>20 DEF Receiving, Jobs
    <2>2. Len(received) < Wanted(received)
      BY <1>4, <1>15, <1>16, <1>17, <1>20 DEF Complete
    <2>3. Shape'
      BY <1>2, <1>5, <1>8, <2>1 DEF Shape
    <2>4. job'[x] = Receiving(received)
      BY <1>2, <2>1 DEF Shape
    <2>5. EndOK(x)'
      BY <1>2, <1>5, <1>8, <2>2, <2>4 DEF EndOK, Receiving
    <2>6. Between(p, x)'
      <3>1. Received(x)' = received
        BY <2>4 DEF Received, Receiving
      <3> QED
        BY <1>5, <1>8, <1>9, <1>10, <1>12, <1>18, <2>1, <3>1 DEF Between
    <2>7. Between(x, p)'
      BY <1>2, <1>5, <1>8, <1>18, <2>1 DEF Between
    <2> QED
      BY <1>1, <1>5, <1>18, <2>1, <2>3, <2>5, <2>6, <2>7, InvFrom
  <1> QED
    BY <1>19, <1>20

LEMMA NextInv == IInv /\ [Next]_vars => IInv'
  <1> SUFFICES ASSUME IInv, [Next]_vars PROVE IInv'
    OBVIOUS
  <1>1. CASE UNCHANGED vars
    BY <1>1 DEF vars, IInv, Shape, EndOK, Between, Received, Unsent, Status
  <1>2. ASSUME NEW e \in Ends, NEW packet \in Packets, Send(e, packet) PROVE IInv'
    <2>1. CASE packet \in Writable
      BY <1>2, <2>1, SendKeeps
    <2>2. CASE packet \notin Writable
      BY <1>2, <2>2, LoseKeeps
    <2> QED
      BY <2>1, <2>2
  <1>3. ASSUME NEW e \in Ends, SendSome(e) PROVE IInv'
    BY <1>3, SendSomeKeeps
  <1>4. ASSUME NEW e \in Ends, SendFails(e) PROVE IInv'
    BY <1>4, SendFailsKeeps
  <1>5. ASSUME NEW e \in Ends, Receive(e) PROVE IInv'
    <2>1. Idle(e) /\ draining' \in [Ends -> BOOLEAN]
          /\ job' = [job EXCEPT ![e] = Receiving(<<>>)]
          /\ UNCHANGED <<wire, open, broken, sent, delivered, failed, lost>>
      BY <1>5 DEF Receive, IInv, Shape
    <2> QED
      BY <2>1, BeginsKeeps
  <1>6. ASSUME NEW e \in Ends, ReceiveSome(e) PROVE IInv'
    BY <1>6, ReceiveSomeKeeps
  <1>7. ASSUME NEW e \in Ends, ReceiveFails(e) PROVE IInv'
    BY <1>7, ReceiveFailsKeeps
  <1>8. ASSUME NEW e \in Ends, Drain(e) PROVE IInv'
    <2>1. Idle(e) /\ draining' \in [Ends -> BOOLEAN] /\ job' = job
          /\ UNCHANGED <<wire, open, broken, sent, delivered, failed, lost>>
      BY <1>8 DEF Drain, IInv, Shape
    <2> QED
      BY <2>1, BeginsKeeps
  <1>9. ASSUME NEW e \in Ends, DrainStep(e) PROVE IInv'
    <2>1. Idle(e) /\ draining' \in [Ends -> BOOLEAN]
          /\ (job' = [job EXCEPT ![e] = Receiving(<<>>)] \/ job' = job)
          /\ UNCHANGED <<wire, open, broken, sent, delivered, failed, lost>>
      BY <1>9 DEF DrainStep, IInv, Shape
    <2> QED
      BY <2>1, BeginsKeeps
  <1>10. ASSUME NEW e \in Ends, Close(e) PROVE IInv'
    BY <1>10, CloseKeeps
  <1>11. CASE Break
    BY <1>11, BreakKeeps
  <1> QED
    BY <1>1, <1>2, <1>3, <1>4, <1>5, <1>6, <1>7, <1>8, <1>9, <1>10, <1>11 DEF Next

LEMMA Invariant == Spec => []IInv
  BY InitInv, NextInv, PTL DEF Spec

-----------------------------------------------------------------------------
(* TCP holds no more than its window, a send in progress has bytes left,   *)
(* and a receive in progress has fewer bytes than its loops wait for, for  *)
(* any packets, words, window and number of messages                       *)
(* (tcp_byte_transport.cpp:35-75, 185-233).                                *)
THEOREM TypeCorrect == Spec => []TypeOK
  <1>1. IInv => TypeOK
    <2> SUFFICES ASSUME IInv PROVE TypeOK
      OBVIOUS
    <2>1. ASSUME NEW e \in Ends
          PROVE  /\ Len(wire[e]) <= Window
                 /\ job[e].bytes \in Seq(Byte)
                 /\ job[e].doing \in {"nothing", "send", "receive"}
                 /\ job[e].doing = "nothing" => job[e].bytes = <<>>
                 /\ job[e].doing = "send" => job[e].bytes # <<>>
                 /\ job[e].doing = "receive" => Len(job[e].bytes) < Wanted(job[e].bytes)
      BY DEF IInv, Shape, EndOK, Jobs
    <2> QED
      BY <2>1 DEF IInv, Shape, TypeOK
  <1> QED
    BY <1>1, Invariant, PTL

(* However TCP cuts the stream, what an end has read, what is on its way   *)
(* and what its peer has still to write are the frames of the messages it  *)
(* has not received, as long as the connection stands                      *)
(* (tcp_byte_transport.cpp:199-233).                                       *)
THEOREM AlwaysInStep == Spec => []InStep
  <1>1. IInv => InStep
    <2> SUFFICES ASSUME IInv, NEW e \in Ends, open[e], ~broken
                 PROVE  (Received(e) \o wire[e]) \o Unsent(Peer(e))
                            = Frames(SubSeq(sent[Peer(e)], Len(delivered[e]) + 1,
                                            Len(sent[Peer(e)])))
      BY DEF InStep, Received, Unsent
    <2>1. Status(e) = "up" /\ Between(Peer(e), e)
      BY DEF Status, IInv
    <2> QED
      BY <2>1 DEF Between, Flow, Stream
  <1> QED
    BY <1>1, Invariant, PTL

(* The two framed transports over a connection are the channel they        *)
(* promise: every step maps to a step of MessageChannel or a stutter, for  *)
(* any pieces, failures, closes and resets                                 *)
(* (framed_message_transport.cpp:8-20).                                    *)
THEOREM ImplementsChannel == Spec => IsChannel
  <1>1. Init => Channel!Init
    BY DEF Init
  <1>2. IInv /\ [Next]_vars => [Channel!Next]_(Channel!vars)
    <2> SUFFICES ASSUME IInv, [Next]_vars PROVE [Channel!Next]_(Channel!vars)
      OBVIOUS
    <2>1. ASSUME UNCHANGED <<sent, delivered, failed, lost>> PROVE UNCHANGED Channel!vars
      BY <2>1 DEF Channel!vars
    <2>2. ASSUME NEW e \in Ends, NEW packet \in Packets, Send(e, packet) PROVE Channel!Next
      <3>1. CASE packet \in Writable
        <4>1. Channel!Send(e, packet)
          BY <2>2, <3>1 DEF Send, Channel!Send
        <4> QED
          BY <4>1 DEF Channel!Next
      <3>2. CASE packet \notin Writable
        BY <2>2, <3>2, LoseKeeps DEF Channel!Next
      <3> QED
        BY <3>1, <3>2
    <2>3. ASSUME NEW e \in Ends, SendFails(e) PROVE Channel!Next
      <3>1. Len(delivered[Peer(e)]) < Len(sent[e])
        BY <2>3, SendFailsKeeps
      <3>2. Len(delivered[Peer(e)]) \in Nat /\ Len(sent[e]) \in Nat
        BY PeerFacts, LenProperties DEF IInv, Shape
      <3>3. Channel!Fail(e)
        BY <2>3, <3>1, <3>2 DEF SendFails, Channel!Fail, Peer
      <3> QED
        BY <3>3 DEF Channel!Next
    <2>4. ASSUME NEW e \in Ends, ReceiveSome(e)
          PROVE  Channel!Next \/ UNCHANGED <<sent, delivered, failed, lost>>
      <3>1. Channel!Deliver(e) \/ UNCHANGED <<sent, delivered, failed, lost>>
        BY <2>4, ReceiveSomeKeeps
      <3> QED
        BY <3>1 DEF Channel!Next
    <2>5. ASSUME NEW e \in Ends, \/ SendSome(e) \/ Receive(e) \/ ReceiveFails(e)
                                 \/ Drain(e) \/ DrainStep(e) \/ Close(e)
          PROVE  UNCHANGED <<sent, delivered, failed, lost>>
      BY <2>5 DEF SendSome, Receive, ReceiveFails, Drain, DrainStep, Close
    <2>6. CASE Break
      BY <2>6, <2>1 DEF Break
    <2>7. CASE UNCHANGED vars
      BY <2>7, <2>1 DEF vars
    <2> QED
      BY <2>1, <2>2, <2>3, <2>4, <2>5, <2>6, <2>7 DEF Next
  <1> QED
    BY <1>1, <1>2, Invariant, PTL DEF Spec, IsChannel, Channel!Spec
=============================================================================
