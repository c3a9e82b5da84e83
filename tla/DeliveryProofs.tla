---------------------------- MODULE DeliveryProofs ----------------------------
(***************************************************************************)
(* From the bytes to the callbacks.  What the client sends has the form of *)
(* the standard.  recvLoop() keeps to the boundaries of packets: what it   *)
(* has read and what is on the wire make up the packets that were sent, so *)
(* that it gives up at bad packets only and hands on the fields as they    *)
(* were sent; and a message calls the callbacks of the filters that match. *)
(***************************************************************************)
EXTENDS SubscriptionTreeProofs

USE TreeAssumption DEF TreeAssumption

-----------------------------------------------------------------------------
(* What the client sends *)

(* The characters of a packet: those of its strings, and numbers           *)
Symbols == Characters \cup Levels \cup {ProtocolName} \cup Nat

(* A number of two bytes, and a string with its length                     *)
LEMMA FieldsAreSequences ==
  ASSUME NEW value \in Nat, NEW str \in Seq(Symbols)
  PROVE  /\ WriteUint16(value) \in Seq(Symbols) /\ Len(WriteUint16(value)) = 2
         /\ WriteString(str) \in Seq(Symbols) /\ Len(WriteString(str)) = 2 + Len(str)
<1>1. ASSUME NEW v \in Nat
      PROVE  WriteUint16(v) \in Seq(Symbols) /\ Len(WriteUint16(v)) = 2
  <2> DEFINE x == (v \div ByteRange) % ByteRange
             y == v % ByteRange
  <2>1. ByteRange \in Nat \ {0}
    BY DigitType
  <2>2. v \div ByteRange \in Nat /\ y \in Nat
    BY <2>1, Euclid
  <2>3. x \in Nat
    <3> DEFINE q == v \div ByteRange
    <3> HIDE DEF q
    <3>1. q % ByteRange \in Nat
      BY <2>1, <2>2, Euclid DEF q
    <3> QED
      BY <3>1 DEF q
  <2>4. x \in Symbols /\ y \in Symbols
    BY <2>2, <2>3 DEF Symbols
  <2>5. WriteUint16(v) = <<x, y>>
    BY DEF WriteUint16
  <2> HIDE DEF x, y
  <2> QED
    BY <2>4, <2>5
<1>2. Len(str) \in Nat
  BY LenProperties
<1>3. WriteUint16(Len(str)) \in Seq(Symbols) /\ Len(WriteUint16(Len(str))) = 2
  BY <1>1, <1>2
<1>4. WriteString(str) \in Seq(Symbols) /\ Len(WriteString(str)) = 2 + Len(str)
  <2> DEFINE u == WriteUint16(Len(str))
  <2>1. WriteString(str) = u \o str /\ u \in Seq(Symbols) /\ Len(u) = 2
    BY <1>3 DEF WriteString
  <2> HIDE DEF u
  <2>2. u \o str \in Seq(Symbols) /\ Len(u \o str) = Len(u) + Len(str)
    BY <2>1, ConcatProperties
  <2> QED
    BY <2>1, <2>2
<1> QED
  BY <1>1, <1>4

(* The strings of the application                                          *)
LEMMA StringsAreSequences ==
  /\ \A m \in Messages \cup Wills : m.topic \in Seq(Symbols) /\ m.message \in Seq(Symbols)
  /\ \A f \in Filters : f \in Seq(Symbols)
  /\ ClientId \in Seq(Symbols) /\ <<ProtocolName>> \in Seq(Symbols)
  /\ \A n \in Nat : <<n>> \in Seq(Symbols)
<1>1. Characters \subseteq Symbols /\ Levels \subseteq Symbols /\ ProtocolName \in Symbols /\ Nat \subseteq Symbols
  BY DEF Symbols
<1>2. ASSUME NEW s \in Seq(Characters) PROVE s \in Seq(Symbols)
  BY <1>1, SeqMonotonic
<1>3. ASSUME NEW s \in Seq(Levels) PROVE s \in Seq(Symbols)
  BY <1>1, SeqMonotonic
<1>4. \A m \in Messages \cup Wills : m.topic \in Seq(Characters) /\ m.message \in Seq(Characters)
  BY DeliveryAssumption DEF DeliveryAssumption
<1>5. ClientId \in Seq(Characters)
  BY DeliveryAssumption DEF DeliveryAssumption
<1>6. <<ProtocolName>> \in Seq(Symbols) /\ \A n \in Nat : <<n>> \in Seq(Symbols)
  BY <1>1
<1>7. \A f \in Filters : f \in Seq(Levels)
  BY TreeAssumption DEF TreeAssumption
<1> QED
  BY <1>2, <1>3, <1>4, <1>5, <1>6, <1>7

(* The client writes all packets in the form of the standard, for every    *)
(* number of values of a byte, all strings and all sizes that fit.         *)
THEOREM PacketsAreStandard == Spec => []EncodingIsStandard
<1> DEFINE Good(p) == p.data \in Seq(Symbols) /\ Len(p.data) < Weight(4)
<1>1. ASSUME NEW p, Good(p)
      PROVE  Bytes(p.type, p.flags, p.data) = StandardBytes(p.type, p.flags, p.data)
  BY <1>1, BytesAreStandard
<1>2. Good(PingPacket)
  <2>1. PingPacket.data = <<>>
    BY DEF PingPacket, Fields
  <2> QED
    BY <2>1, EmptySeq, Weights
<1>3. ASSUME NEW w \in Wills PROVE Good(ConnectPacket(ClientId, w))
  <2> DEFINE p == ConnectPacket(ClientId, w)
             hasWill == w.topic # <<>>
             flags == 2 + (IF hasWill THEN 4 ELSE 0) + (IF hasWill /\ w.retain THEN 32 ELSE 0)
             name == WriteString(<<ProtocolName>>)
             level == <<4, flags>>
             alive == WriteUint16(AnnouncedKeepAlive)
             id == WriteString(ClientId)
             will == IF hasWill THEN WriteString(w.topic) \o WriteString(w.message) ELSE <<>>
  <2>1. p.data = name \o level \o alive \o id \o will
    BY DEF ConnectPacket, Fields
  <2>2. Len(p.data) < Weight(4)
    BY DeliveryAssumption DEF DeliveryAssumption, Fits
  <2>3. AnnouncedKeepAlive \in Nat
    BY CodecAssumption, DigitType DEF CodecAssumption
  <2>4. name \in Seq(Symbols) /\ alive \in Seq(Symbols) /\ id \in Seq(Symbols)
    BY <2>3, FieldsAreSequences, StringsAreSequences
  <2>5. level \in Seq(Symbols)
    <3>1. 4 \in Symbols /\ flags \in Symbols
      <4>1. flags \in Nat
        OBVIOUS
      <4> HIDE DEF flags
      <4> QED
        BY <4>1 DEF Symbols
    <3> HIDE DEF flags
    <3> QED
      BY <3>1
  <2>6. will \in Seq(Symbols)
    <3>1. WriteString(w.topic) \in Seq(Symbols) /\ WriteString(w.message) \in Seq(Symbols)
      BY <2>3, FieldsAreSequences, StringsAreSequences
    <3>2. WriteString(w.topic) \o WriteString(w.message) \in Seq(Symbols)
      BY <3>1, ConcatProperties
    <3> QED
      BY <3>2, EmptySeq
  <2> HIDE DEF p, name, level, alive, id, will
  <2>7. name \o level \in Seq(Symbols)
    BY <2>4, <2>5, ConcatProperties
  <2>8. name \o level \o alive \in Seq(Symbols)
    BY <2>4, <2>7, ConcatProperties
  <2>9. name \o level \o alive \o id \in Seq(Symbols)
    BY <2>4, <2>8, ConcatProperties
  <2>10. name \o level \o alive \o id \o will \in Seq(Symbols)
    BY <2>6, <2>9, ConcatProperties
  <2>11. Good(p)
    BY <2>1, <2>2, <2>10
  <2> QED
    BY <2>11 DEF p
<1>4. ASSUME NEW f \in Filters PROVE Good(SubscribePacket(1, f)) /\ Good(UnsubscribePacket(1, f))
  <2> DEFINE id == WriteUint16(1)
             topic == WriteString(f)
             p == SubscribePacket(1, f)
             u == UnsubscribePacket(1, f)
  <2>1. id \in Seq(Symbols) /\ topic \in Seq(Symbols) /\ <<0>> \in Seq(Symbols)
    BY FieldsAreSequences, StringsAreSequences
  <2>2. p.data = id \o topic \o <<0>> /\ u.data = id \o topic
    BY DEF SubscribePacket, UnsubscribePacket, Fields
  <2>3. Len(p.data) < Weight(4) /\ Weight(4) \in Nat
    BY DeliveryAssumption, Weights DEF DeliveryAssumption, Fits
  <2> HIDE DEF id, topic, p, u
  <2>4. id \o topic \in Seq(Symbols) /\ Len(id \o topic) \in Nat
    BY <2>1, ConcatProperties, LenProperties
  <2>5. id \o topic \o <<0>> \in Seq(Symbols) /\ Len(id \o topic \o <<0>>) = Len(id \o topic) + 1
    BY <2>1, <2>4, ConcatProperties
  <2>6. Good(p)
    BY <2>2, <2>3, <2>5
  <2>7. Good(u)
    <3>1. u.data \in Seq(Symbols) /\ Len(u.data) + 1 < Weight(4) /\ Len(u.data) \in Nat
      BY <2>2, <2>3, <2>4, <2>5, Zenon
    <3> QED
      BY <2>3, <3>1
  <2> QED
    BY <2>6, <2>7 DEF p, u
<1>5. ASSUME NEW m \in Messages PROVE Good(PublishPacket(m.topic, m.message, m.retain))
  <2> DEFINE topic == WriteString(m.topic)
             p == PublishPacket(m.topic, m.message, m.retain)
  <2>1. topic \in Seq(Symbols) /\ m.message \in Seq(Symbols)
    BY FieldsAreSequences, StringsAreSequences
  <2>2. p.data = topic \o m.message
    BY DEF PublishPacket, Fields
  <2>3. Len(p.data) < Weight(4)
    BY DeliveryAssumption DEF DeliveryAssumption, Fits
  <2> HIDE DEF topic, p
  <2>4. topic \o m.message \in Seq(Symbols)
    BY <2>1, ConcatProperties
  <2>5. Good(p)
    BY <2>2, <2>3, <2>4
  <2> QED
    BY <2>5 DEF p
<1> HIDE DEF Good
<1>6. EncodingIsStandard
  BY <1>1, <1>2, <1>3, <1>4, <1>5, Zenon DEF EncodingIsStandard
<1> QED
  BY <1>6, PTL

-----------------------------------------------------------------------------
(* The bytes of packets that follow each other *)

(* The bytes of the first packets, for each number of them                 *)
JoinedBy(K, packets) ==
  K[0] = <<>> /\ \A k \in 1 .. Len(packets) : K[k] = K[k - 1] \o packets[k].bytes

(* BytesOf joins the packets one by one, as its definition says.           *)
LEMMA BytesOfRecursion ==
  ASSUME NEW packets, Len(packets) \in Nat
  PROVE  \E K : BytesOf(packets) = K[Len(packets)] /\ JoinedBy(K, packets)
<1> DEFINE N == Len(packets)
           Step(k, bytes) == bytes \o packets[k].bytes
           Body(f) == [k \in 0 .. N |-> IF k = 0 THEN <<>> ELSE Step(k, f[k - 1])]
           K == CHOOSE f : f = Body(f)
           Starts(f, n) == f = [k \in 0 .. n |-> IF k = 0 THEN <<>> ELSE Step(k, f[k - 1])]
           P == {n \in 0 .. N : \E f : Starts(f, n)}
<1>1. N \in Nat
  OBVIOUS
<1>2. BytesOf(packets) = K[N]
  BY DEF BytesOf
<1> HIDE DEF N, K, Step
<1>3. 0 \in P
  <2> DEFINE f == [k \in 0 .. 0 |-> <<>>]
  <2>1. Starts(f, 0)
    OBVIOUS
  <2> HIDE DEF f
  <2> QED
    BY <1>1, <2>1
<1>4. ASSUME NEW n \in 1 .. N, n - 1 \in P PROVE n \in P
  <2> HIDE DEF Starts
  <2>1. PICK f : Starts(f, n - 1)
    BY <1>4
  <2> USE DEF Starts
  <2> DEFINE h == [k \in 0 .. n |-> IF k = n THEN Step(n, f[n - 1]) ELSE f[k]]
  <2>2. n \in Nat /\ n # 0 /\ n \in 0 .. N /\ n - 1 \in 0 .. n
    BY <1>1
  <2>3. \A k \in 0 .. n - 1 : /\ k \in 0 .. n /\ k # n
                              /\ f[k] = IF k = 0 THEN <<>> ELSE Step(k, f[k - 1])
    BY <2>1, <2>2
  <2>4. \A k \in 0 .. n - 1 : h[k] = f[k]
    BY <2>3
  <2>5. h[n] = Step(n, f[n - 1]) /\ h[n - 1] = f[n - 1]
    BY <2>2
  <2>6. ASSUME NEW k \in 0 .. n PROVE h[k] = IF k = 0 THEN <<>> ELSE Step(k, h[k - 1])
    <3> HIDE DEF h
    <3>1. CASE k = n
      BY <2>2, <2>5, <3>1
    <3>2. CASE k # n /\ k = 0
      BY <2>2, <2>3, <2>4, <3>2
    <3>3. CASE k # n /\ k # 0
      <4>1. k \in 0 .. n - 1 /\ k - 1 \in 0 .. n - 1
        BY <2>2, <3>3
      <4> QED
        BY <2>3, <2>4, <3>3, <4>1
    <3> QED
      BY <3>1, <3>2, <3>3
  <2>7. h = [k \in 0 .. n |-> h[k]]
    OBVIOUS
  <2> HIDE DEF h
  <2>8. Starts(h, n)
    BY <2>6, <2>7, Zenon
  <2> QED
    BY <2>2, <2>8
<1>5. \A n \in 0 .. N : n \in P
  <2> HIDE DEF P
  <2> QED
    BY <1>1, <1>3, <1>4, Induction
<1>6. PICK f : Starts(f, N)
  <2> HIDE DEF Starts
  <2> QED
    BY <1>1, <1>5
<1>7. K = Body(K)
  <2>1. f = Body(f)
    BY <1>6
  <2> HIDE DEF Body
  <2> QED
    BY <2>1, Zenon DEF K
<1>8. K[0] = <<>> /\ \A k \in 1 .. N : K[k] = Step(k, K[k - 1])
  <2>1. \A k \in 0 .. N : K[k] = Body(K)[k]
    BY <1>7
  <2>2. 0 \in 0 .. N /\ \A k \in 1 .. N : k \in 0 .. N /\ k # 0
    BY <1>1
  <2> QED
    BY <2>1, <2>2
<1> QED
  BY <1>2, <1>8 DEF N, Step, JoinedBy

(* Packets that have bytes                                                 *)
Frames(S) == {p \in BrokerPackets : p.bytes \in Seq(S)}

(* The bytes of the first packets are bytes.                               *)
LEMMA JoinedType ==
  ASSUME NEW S, NEW packets \in Seq(Frames(S)), NEW K, JoinedBy(K, packets)
  PROVE  \A k \in 0 .. Len(packets) : K[k] \in Seq(S)
<1> DEFINE N == Len(packets)
           P == {k \in 0 .. N : K[k] \in Seq(S)}
<1>1. N \in Nat
  BY LenProperties
<1>2. 0 \in P
  <2>1. K[0] = <<>>
    BY Zenon DEF JoinedBy
  <2>2. <<>> \in Seq(S)
    BY EmptySeq
  <2>3. K[0] \in Seq(S)
    BY <2>1, <2>2, Zenon
  <2> QED
    BY <1>1, <2>3
<1>3. ASSUME NEW k \in 1 .. N, k - 1 \in P PROVE k \in P
  <2>1. K[k] = K[k - 1] \o packets[k].bytes
    BY Zenon DEF JoinedBy
  <2>2. packets[k].bytes \in Seq(S)
    BY ElementOfSeq DEF Frames
  <2>3. K[k - 1] \o packets[k].bytes \in Seq(S)
    <3> DEFINE x == K[k - 1]
               y == packets[k].bytes
    <3>1. x \in Seq(S) /\ y \in Seq(S)
      BY <1>3, <2>2
    <3> HIDE DEF x, y
    <3>2. x \o y \in Seq(S)
      BY <3>1, ConcatProperties
    <3> QED
      BY <3>2 DEF x, y
  <2>4. K[k] \in Seq(S) /\ k \in 0 .. N
    BY <1>1, <2>1, <2>3
  <2> QED
    BY <2>4
<1> HIDE DEF P, N
<1>4. \A k \in 0 .. N : k \in P
  BY <1>1, <1>2, <1>3, Induction
<1> QED
  BY <1>4 DEF P, N

(* What BytesOf does: to no packets, to one more at the end, and to the    *)
(* first one.                                                              *)
LEMMA BytesOfMeans ==
  ASSUME NEW S, NEW packets \in Seq(Frames(S))
  PROVE  /\ BytesOf(packets) \in Seq(S)
         /\ packets = <<>> => BytesOf(packets) = <<>>
         /\ \A p \in Frames(S) : BytesOf(Append(packets, p)) = BytesOf(packets) \o p.bytes
         /\ packets # <<>> => BytesOf(packets) = Head(packets).bytes \o BytesOf(Tail(packets))
<1> DEFINE N == Len(packets)
<1>1. N \in Nat
  BY LenProperties
<1>2. PICK K : BytesOf(packets) = K[N] /\ JoinedBy(K, packets)
  BY <1>1, BytesOfRecursion
<1>3. \A k \in 0 .. N : K[k] \in Seq(S)
  BY <1>2, JoinedType
<1>4. packets = <<>> => BytesOf(packets) = <<>>
  BY <1>2, EmptySeq DEF JoinedBy
<1>5. ASSUME NEW p \in Frames(S) PROVE BytesOf(Append(packets, p)) = BytesOf(packets) \o p.bytes
  <2> DEFINE longer == Append(packets, p)
  <2>1. /\ longer \in Seq(Frames(S)) /\ Len(longer) = N + 1
        /\ \A k \in 1 .. N : longer[k] = packets[k]
        /\ longer[N + 1] = p
    BY AppendProperties
  <2> HIDE DEF longer, N
  <2>2. PICK M : BytesOf(longer) = M[N + 1] /\ JoinedBy(M, longer)
    BY <1>1, <2>1, BytesOfRecursion
  <2> DEFINE P == {k \in 0 .. N : M[k] = K[k]}
  <2>3. 0 \in P
    BY <1>1, <1>2, <2>2 DEF JoinedBy
  <2>4. ASSUME NEW k \in 1 .. N, k - 1 \in P PROVE k \in P
    <3>1. K[k] = K[k - 1] \o packets[k].bytes
      BY <1>2 DEF JoinedBy, N
    <3>2. k \in 1 .. Len(longer) /\ k \in 0 .. N
      BY <1>1, <2>1
    <3>3. M[k] = M[k - 1] \o longer[k].bytes
      BY <2>2, <3>2 DEF JoinedBy
    <3>4. M[k - 1] = K[k - 1] /\ longer[k] = packets[k]
      BY <2>1, <2>4
    <3>5. M[k] = K[k]
      BY <3>1, <3>3, <3>4
    <3> QED
      BY <3>2, <3>5
  <2> HIDE DEF P
  <2>5. \A k \in 0 .. N : k \in P
    BY <1>1, <2>3, <2>4, Induction
  <2>6. M[N] = K[N]
    BY <1>1, <2>5 DEF P
  <2>7. N + 1 \in 1 .. Len(longer) /\ (N + 1) - 1 = N
    BY <1>1, <2>1
  <2>8. M[N + 1] = M[N] \o longer[N + 1].bytes
    BY <2>2, <2>7 DEF JoinedBy
  <2>9. BytesOf(longer) = BytesOf(packets) \o p.bytes
    BY <1>2, <2>1, <2>2, <2>6, <2>8 DEF N
  <2> QED
    BY <2>9 DEF longer
<1>6. ASSUME packets # <<>> PROVE BytesOf(packets) = Head(packets).bytes \o BytesOf(Tail(packets))
  <2> DEFINE tail == Tail(packets)
             first == Head(packets).bytes
  <2>1. /\ tail \in Seq(Frames(S)) /\ Len(tail) = N - 1
        /\ \A k \in 1 .. N - 1 : tail[k] = packets[k + 1]
        /\ N - 1 \in Nat /\ Head(packets) = packets[1] /\ packets[1] \in Frames(S)
    <3>1. N \in Nat \ {0}
      BY <1>6, EmptySeq
    <3>2. tail \in Seq(Frames(S)) /\ Len(tail) = N - 1 /\ \A k \in 1 .. Len(tail) : tail[k] = packets[k + 1]
      BY <1>6, HeadTailProperties
    <3>3. Head(packets) = packets[1]
      BY <1>6
    <3>4. packets[1] \in Frames(S)
      BY <3>1, ElementOfSeq
    <3> HIDE DEF tail, N
    <3> QED
      BY <3>1, <3>2, <3>3, <3>4
  <2>2. first \in Seq(S)
    BY <2>1 DEF Frames
  <2> HIDE DEF tail, N
  <2>3. PICK M : BytesOf(tail) = M[N - 1] /\ JoinedBy(M, tail)
    BY <2>1, BytesOfRecursion
  <2>4. \A k \in 0 .. N - 1 : M[k] \in Seq(S)
    BY <2>1, <2>3, JoinedType
  <2> DEFINE P == {k \in 0 .. N - 1 : K[k + 1] = first \o M[k]}
  <2>5. 0 \in P
    <3>1. 1 \in 1 .. Len(packets) /\ 1 - 1 = 0 /\ 0 + 1 = 1
      BY <1>1, <2>1 DEF N
    <3>2. K[1] = <<>> \o packets[1].bytes /\ M[0] = <<>>
      BY <1>2, <2>3, <3>1 DEF JoinedBy
    <3>3. first = packets[1].bytes
      BY <2>1
    <3> HIDE DEF first
    <3>4. <<>> \o first = first /\ first \o <<>> = first
      BY <2>2, ConcatEmptySeq
    <3>5. K[0 + 1] = first \o M[0]
      BY <3>1, <3>2, <3>3, <3>4
    <3> QED
      BY <2>1, <3>5
  <2>6. ASSUME NEW k \in 1 .. N - 1, k - 1 \in P PROVE k \in P
    <3>1. /\ k + 1 \in 1 .. Len(packets) /\ (k + 1) - 1 = k /\ (k - 1) + 1 = k
          /\ k \in 1 .. Len(tail) /\ k - 1 \in 0 .. N - 1 /\ k \in 0 .. N - 1
      BY <1>1, <2>1 DEF N
    <3>2. K[k + 1] = K[k] \o packets[k + 1].bytes /\ M[k] = M[k - 1] \o tail[k].bytes
      BY <1>2, <2>3, <3>1 DEF JoinedBy
    <3>3. K[k] = first \o M[k - 1]
      BY <2>6, <3>1
    <3> DEFINE x == M[k - 1]
               y == packets[k + 1].bytes
    <3>4. tail[k].bytes = y
      BY <2>1
    <3>5. x \in Seq(S) /\ y \in Seq(S)
      <4>1. x \in Seq(S)
        BY <2>4, <3>1
      <4>2. packets[k + 1] \in Frames(S)
        BY <3>1, ElementOfSeq
      <4> QED
        BY <4>1, <4>2 DEF Frames
    <3> HIDE DEF x, y, first
    <3>6. (first \o x) \o y = first \o (x \o y)
      BY <2>2, <3>5, ConcatAssociative
    <3>7. K[k + 1] = first \o M[k]
      BY <3>2, <3>3, <3>4, <3>6 DEF x, y
    <3> QED
      BY <3>1, <3>7
  <2> HIDE DEF P
  <2>7. \A k \in 0 .. N - 1 : k \in P
    BY <2>1, <2>5, <2>6, Induction
  <2>8. N - 1 \in 0 .. N - 1 /\ (N - 1) + 1 = N
    BY <1>1, <2>1
  <2>9. K[N] = first \o M[N - 1]
    BY <2>7, <2>8 DEF P
  <2> QED
    BY <1>2, <2>3, <2>9 DEF tail
<1>7. BytesOf(packets) \in Seq(S)
  <2>1. N \in 0 .. N
    BY <1>1
  <2> QED
    BY <1>2, <1>3, <2>1
<1> QED
  BY <1>4, <1>5, <1>6, <1>7

-----------------------------------------------------------------------------
(* The packets of the broker *)

Overlong ==
  [type |-> PacketType.PINGRESP, flags |-> 0, data |-> <<>>, good |-> FALSE,
   bytes |-> <<HeaderByte(PacketType.PINGRESP, 0)>> \o [j \in 1 .. 4 |-> Digit]]

(* recvLoop() has to accept it.                                            *)
Acceptable(type, content) ==
  /\ type \in Expected /\ ~Malformed(type, content)
  /\ type = PacketType.CONNACK => content[2] = 0

(* A packet in the form of the standard                                    *)
Regular(p) ==
  \E type \in 0 .. 15, flags \in 0 .. 15, content \in Seq(Symbols), good \in BOOLEAN :
    /\ Len(content) < Weight(4)
    /\ good => Acceptable(type, content)
    /\ p = Sent(type, flags, content, good)

(* A topic is read back from a PUBLISH.                                    *)
LEMMA TopicIsReadable ==
  ASSUME NEW topic \in Seq(Symbols), Len(topic) < ByteRange * ByteRange,
         NEW message \in Seq(Symbols)
  PROVE  /\ StringReadable(WriteString(topic) \o message)
         /\ ReadString(WriteString(topic) \o message) = topic
         /\ ReadRemaining(WriteString(topic) \o message) = message
<1> DEFINE L == Len(topic)
           N == Len(message)
           field == WriteString(topic)
           content == field \o message
           q == L \div ByteRange
           r == L % ByteRange
<1>1. L \in Nat /\ N \in Nat /\ ByteRange \in Nat \ {0}
  BY LenProperties, DigitType
<1>2. q \in Nat /\ r \in 0 .. ByteRange - 1 /\ L = q * ByteRange + r
  <2> HIDE DEF L
  <2> QED
    BY <1>1, Euclid
<1>3. q < ByteRange
  <2>1. q >= ByteRange => q * ByteRange >= ByteRange * ByteRange
    BY <1>1, <1>2
  <2>2. q * ByteRange \in Nat /\ ByteRange * ByteRange \in Nat
    BY <1>1, <1>2
  <2> HIDE DEF L, q, r
  <2>3. L < ByteRange * ByteRange
    BY DEF L
  <2> QED
    BY <1>1, <1>2, <2>1, <2>2, <2>3
<1>4. q % ByteRange = q
  <2> HIDE DEF q
  <2> QED
    BY <1>1, <1>2, <1>3, OneDigit
<1>5. WriteUint16(L) = <<q, r>>
  BY <1>4 DEF WriteUint16
<1>6. field = <<q, r>> \o topic
  BY <1>5 DEF WriteString
<1>7. q \in Symbols /\ r \in Symbols
  BY <1>2 DEF Symbols
<1> HIDE DEF q, r
<1>8. <<q, r>> \in Seq(Symbols) /\ Len(<<q, r>>) = 2 /\ <<q, r>>[1] = q /\ <<q, r>>[2] = r
  BY <1>7
<1>9. /\ field \in Seq(Symbols) /\ Len(field) = 2 + L
      /\ field[1] = q /\ field[2] = r /\ \A n \in 3 .. 2 + L : field[n] = topic[n - 2]
  <2> DEFINE u == <<q, r>>
  <2> HIDE DEF u, L
  <2>1. u \in Seq(Symbols) /\ Len(u) = 2 /\ u[1] = q /\ u[2] = r
    BY <1>8 DEF u
  <2>2. /\ u \o topic \in Seq(Symbols) /\ Len(u \o topic) = Len(u) + L
        /\ \A n \in 1 .. Len(u) + L : (u \o topic)[n] = IF n <= Len(u) THEN u[n] ELSE topic[n - Len(u)]
    BY <2>1, ConcatProperties DEF L
  <2>3. field = u \o topic
    BY <1>6 DEF u
  <2> HIDE DEF field
  <2>4. /\ field \in Seq(Symbols) /\ Len(field) = 2 + L
        /\ \A n \in 1 .. 2 + L : field[n] = IF n <= 2 THEN u[n] ELSE topic[n - 2]
    BY <2>1, <2>2, <2>3, Zenon
  <2>5. 1 \in 1 .. 2 + L /\ 2 \in 1 .. 2 + L /\ \A n \in 3 .. 2 + L : n \in 1 .. 2 + L /\ ~(n <= 2)
    BY <1>1
  <2>6. field[1] = q /\ field[2] = r
    BY <2>1, <2>4, <2>5
  <2>7. \A n \in 3 .. 2 + L : field[n] = topic[n - 2]
    BY <2>4, <2>5
  <2> QED
    BY <2>4, <2>6, <2>7
<1> HIDE DEF field
<1>10. /\ content \in Seq(Symbols) /\ Len(content) = 2 + L + N
       /\ content[1] = q /\ content[2] = r
       /\ \A n \in 3 .. 2 + L : content[n] = topic[n - 2]
       /\ \A n \in 3 + L .. 2 + L + N : content[n] = message[n - (2 + L)]
  <2>1. /\ content \in Seq(Symbols) /\ Len(content) = Len(field) + N
        /\ \A n \in 1 .. Len(field) + N :
             content[n] = IF n <= Len(field) THEN field[n] ELSE message[n - Len(field)]
    BY <1>9, ConcatProperties
  <2> HIDE DEF content, L, N
  <2>2. 1 \in 1 .. Len(field) + N /\ 2 \in 1 .. Len(field) + N /\ 1 <= Len(field) /\ 2 <= Len(field)
    BY <1>1, <1>9
  <2>3. content[1] = q /\ content[2] = r
    BY <1>9, <2>1, <2>2
  <2>4. \A n \in 3 .. 2 + L : content[n] = topic[n - 2]
    BY <1>1, <1>9, <2>1
  <2>5. \A n \in 3 + L .. 2 + L + N : content[n] = message[n - (2 + L)]
    BY <1>1, <1>9, <2>1
  <2> QED
    BY <1>1, <1>9, <2>1, <2>3, <2>4, <2>5
<1> HIDE DEF content
<1>11. Uint16(content) = L
  BY <1>2, <1>10 DEF Uint16
<1>12. StringReadable(content)
  <2> HIDE DEF L, N
  <2> QED
    BY <1>1, <1>10, <1>11 DEF StringReadable
<1> HIDE DEF L, N
<1>13. ReadString(content) = topic
  <2> DEFINE last == 2 + L
  <2>1. /\ last \in Int /\ last <= Len(content) /\ Len(topic) = last - 3 + 1
        /\ \A n \in 3 .. last : n - 3 + 1 = n - 2
    BY <1>1, <1>10 DEF L
  <2>2. \A n \in 3 .. last : content[n] = topic[n - 3 + 1]
    BY <1>10, <2>1
  <2> HIDE DEF last
  <2>3. 3 \in Int /\ 3 >= 1
    OBVIOUS
  <2>4. SubSeq(content, 3, last) = topic
    BY <1>10, <2>1, <2>2, <2>3, Part
  <2> QED
    BY <1>11, <2>4 DEF ReadString, last
<1>14. ReadRemaining(content) = message
  <2> DEFINE first == 3 + L
             last == Len(content)
  <2>1. /\ first \in Int /\ last \in Int /\ first >= 1 /\ N = last - first + 1
        /\ last = 2 + L + N
        /\ \A n \in first .. last : n - first + 1 = n - (2 + L)
    BY <1>1, <1>10
  <2>2. \A n \in first .. last : content[n] = message[n - first + 1]
    BY <1>10, <2>1
  <2>3. last <= Len(content)
    BY <1>1, <1>10
  <2> HIDE DEF first, last
  <2>4. SubSeq(content, first, last) = message
    BY <1>10, <2>1, <2>2, <2>3, Part DEF N
  <2> QED
    BY <1>11, <2>4 DEF ReadRemaining, first, last
<1> QED
  BY <1>12, <1>13, <1>14 DEF content, field

(* Fields of a packet                                                      *)
Packed(content) == content \in Seq(Symbols) /\ Len(content) < Weight(4)

(* Packets are sent in the form of the standard, except for one; and the   *)
(* good ones are to be accepted.                                           *)
LEMMA BrokerPacketsAre ==
  ASSUME NEW p \in BrokerPackets PROVE Regular(p) \/ p = Overlong
<1>1. /\ PacketType.CONNACK = 2 /\ PacketType.PUBLISH = 3 /\ PacketType.PUBACK = 4
      /\ PacketType.SUBACK = 9 /\ PacketType.UNSUBACK = 11 /\ PacketType.PINGRESP = 13
  BY DEF PacketType
<1>2. ASSUME NEW type, type \in 0 .. 15, NEW flags, flags \in 0 .. 15, NEW content, Packed(content)
      PROVE  /\ p = Sent(type, flags, content, FALSE) => Regular(p)
             /\ p = Sent(type, flags, content, TRUE) /\ Acceptable(type, content) => Regular(p)
  BY <1>2, Zenon DEF Regular, Packed
<1>3. Weight(4) > 3
  <2>1. Weight(4) = Weight(3) * Digit /\ Weight(3) = Weight(2) * Digit /\ Weight(3) \in Nat
        /\ Weight(2) \in Nat \ {0} /\ Weight(4) \in Nat
    <3>1. 2 + 1 = 3 /\ 3 + 1 = 4
      OBVIOUS
    <3> QED
      BY <3>1, Weights
  <2>2. Digit \in Nat /\ Digit >= 2
    BY DigitType
  <2>3. ASSUME NEW w \in Nat \ {0} PROVE w * Digit >= 2 * w
    BY <2>2
  <2>4. Weight(3) >= 2
    <3> DEFINE w == Weight(2)
    <3>1. w \in Nat \ {0}
      BY <2>1
    <3> HIDE DEF w
    <3>2. w * Digit >= 2 * w
      BY <2>3, <3>1
    <3>3. Weight(3) = w * Digit /\ Weight(3) \in Nat
      BY <2>1 DEF w
    <3>4. Weight(3) >= 2 * w
      BY <3>2, <3>3, Zenon
    <3> QED
      BY <3>1, <3>3, <3>4
  <2>5. Weight(4) >= 2 * Weight(3)
    BY <2>1, <2>3, <2>4
  <2> QED
    BY <2>1, <2>4, <2>5
<1>4. /\ WriteUint16(1) \in Seq(Symbols) /\ Len(WriteUint16(1)) = 2
       /\ WriteUint16(1) \o <<0>> \in Seq(Symbols) /\ Len(WriteUint16(1) \o <<0>>) = 3
       /\ WriteUint16(1) \o <<128>> \in Seq(Symbols) /\ Len(WriteUint16(1) \o <<128>>) = 3
  <2>1. ASSUME NEW n \in Nat
        PROVE  WriteUint16(1) \o <<n>> \in Seq(Symbols) /\ Len(WriteUint16(1) \o <<n>>) = 3
    <3> DEFINE id == WriteUint16(1)
               code == <<n>>
    <3>1. id \in Seq(Symbols)
      BY FieldsAreSequences, StringsAreSequences
    <3>2. Len(id) = 2
      BY FieldsAreSequences, StringsAreSequences
    <3>3. code \in Seq(Symbols)
      BY StringsAreSequences
    <3>4. Len(code) = 1
      OBVIOUS
    <3> HIDE DEF id, code
    <3>5. id \o code \in Seq(Symbols) /\ Len(id \o code) = Len(id) + Len(code)
      BY <3>1, <3>3, Joined
    <3>6. Len(id \o code) = 3
      BY <3>2, <3>4, <3>5
    <3> QED
      BY <3>5, <3>6 DEF id, code
  <2>2. 0 \in Nat /\ 128 \in Nat
    OBVIOUS
  <2>3. WriteUint16(1) \in Seq(Symbols) /\ Len(WriteUint16(1)) = 2
    BY FieldsAreSequences, StringsAreSequences
  <2> QED
    BY <2>1, <2>2, <2>3, Zenon
<1>5. \A c \in {<<0, 0>>, <<0, 1>>, <<0>>, <<>>, WriteUint16(1), WriteUint16(1) \o <<0>>,
                  WriteUint16(1) \o <<128>>} : Packed(c)
  <2> TAKE c \in {<<0, 0>>, <<0, 1>>, <<0>>, <<>>, WriteUint16(1), WriteUint16(1) \o <<0>>,
                  WriteUint16(1) \o <<128>>}
  <2>1. Nat \subseteq Symbols
    BY DEF Symbols
  <2>2. CASE c \in {<<0, 0>>, <<0, 1>>, <<0>>, <<>>}
    <3>1. c \in Seq(Nat) /\ Len(c) =< 2 /\ Len(c) \in Nat
      <4>1. CASE c = <<0, 0>>
        BY <4>1
      <4>2. CASE c = <<0, 1>>
        BY <4>2
      <4>3. CASE c = <<0>>
        BY <4>3
      <4>4. CASE c = <<>>
        BY <4>4, EmptySeq
      <4> QED
        BY <2>2, <4>1, <4>2, <4>3, <4>4, Zenon
    <3>2. c \in Seq(Symbols)
      BY <2>1, <3>1, SeqMonotonic
    <3>3. Weight(4) \in Nat
      BY Weights
    <3> QED
      BY <1>3, <3>1, <3>2, <3>3 DEF Packed
  <2>3. CASE c \in {WriteUint16(1), WriteUint16(1) \o <<0>>, WriteUint16(1) \o <<128>>}
    <3> DEFINE id == WriteUint16(1)
    <3>1. Weight(4) \in Nat
      BY Weights
    <3>2. c = id \/ c = id \o <<0>> \/ c = id \o <<128>>
      BY <2>3, Zenon DEF id
    <3>3. c \in Seq(Symbols) /\ (Len(c) = 2 \/ Len(c) = 3)
      BY <1>4, <3>2, Zenon DEF id
    <3>4. 2 < Weight(4) /\ 3 < Weight(4)
      BY <1>3, <3>1
    <3> QED
      BY <3>3, <3>4, Zenon DEF Packed
  <2> QED
    BY <2>2, <2>3, Zenon
<1>6. 0 \in 0 .. 15 /\ 2 \in 0 .. 15 /\ 3 \in 0 .. 15 /\ 9 \in 0 .. 15 /\ 11 \in 0 .. 15 /\ 13 \in 0 .. 15
  OBVIOUS
<1>7. CASE p = Sent(PacketType.CONNACK, 0, <<0, 0>>, TRUE)
  <2>1. Acceptable(2, <<0, 0>>)
    BY <1>1 DEF Acceptable, Malformed, Expected
  <2>2. Packed(<<0, 0>>)
    BY <1>5, Zenon
  <2> QED
    BY <1>1, <1>2, <1>7, <1>6, <2>1, <2>2, Zenon
<1>8. CASE p = Sent(PacketType.CONNACK, 0, <<0, 1>>, FALSE)
  <2>1. Packed(<<0, 1>>)
    BY <1>5, Zenon
  <2> QED
    BY <1>1, <1>2, <1>8, <1>6, <2>1, Zenon
<1>9. ASSUME NEW last \in {0, 128}, p = Sent(PacketType.SUBACK, 0, WriteUint16(1) \o <<last>>, TRUE)
      PROVE  Regular(p)
  <2> DEFINE id == WriteUint16(1)
             c == id \o <<last>>
  <2>1. Packed(c)
    BY <1>5, Zenon
  <2>2. Len(c) = 3
    BY <1>4, Zenon
  <2>3. p = Sent(PacketType.SUBACK, 0, c, TRUE)
    BY <1>9, Zenon
  <2> HIDE DEF c
  <2>4. Acceptable(9, c)
    BY <1>1, <2>2 DEF Acceptable, Malformed, Expected
  <2> QED
    BY <1>1, <1>2, <1>6, <2>1, <2>3, <2>4, Zenon
<1>10. CASE p = Sent(PacketType.UNSUBACK, 0, WriteUint16(1), TRUE)
  <2> DEFINE c == WriteUint16(1)
  <2>1. Packed(c)
    BY <1>5, Zenon
  <2>2. Len(c) = 2
    BY FieldsAreSequences, StringsAreSequences
  <2> HIDE DEF c
  <2>3. Acceptable(11, c)
    BY <1>1, <2>2 DEF Acceptable, Malformed, Expected
  <2> QED
    BY <1>1, <1>2, <1>10, <1>6, <2>1, <2>3, Zenon DEF c
<1>11. CASE p = Sent(PacketType.PINGRESP, 0, <<>>, TRUE)
  <2>1. Acceptable(13, <<>>)
    BY <1>1 DEF Acceptable, Malformed, Expected
  <2>2. Packed(<<>>)
    BY <1>5, Zenon
  <2> QED
    BY <1>1, <1>2, <1>11, <1>6, <2>1, <2>2, Zenon
<1>12. ASSUME NEW m \in Messages,
              p = Sent(PacketType.PUBLISH, IF m.retain THEN 1 ELSE 0, WriteString(m.topic) \o m.message, TRUE)
       PROVE  Regular(p)
  <2> DEFINE c == WriteString(m.topic) \o m.message
             flags == IF m.retain THEN 1 ELSE 0
  <2>1. m.topic \in Seq(Symbols) /\ m.message \in Seq(Symbols) /\ Len(m.topic) < ByteRange * ByteRange
    <3>1. Len(m.topic) \in 1 .. ByteRange * ByteRange - 1 /\ ByteRange * ByteRange \in Nat
      BY DeliveryAssumption, DigitType DEF DeliveryAssumption
    <3> QED
      BY <3>1, StringsAreSequences
  <2>2. StringReadable(c)
    BY <2>1, TopicIsReadable
  <2>3. Len(c) < Weight(4)
    BY DeliveryAssumption DEF DeliveryAssumption, Fits, PublishPacket, Fields
  <2>4. c \in Seq(Symbols)
    <3>1. WriteString(m.topic) \in Seq(Symbols)
      BY <2>1, FieldsAreSequences
    <3> QED
      BY <2>1, <3>1, ConcatProperties
  <2>5. p = Sent(PacketType.PUBLISH, flags, c, TRUE)
    BY <1>12, Zenon
  <2> HIDE DEF c
  <2>6. Acceptable(3, c)
    BY <1>1, <2>2 DEF Acceptable, Malformed, Expected
  <2>7. flags \in 0 .. 15
    OBVIOUS
  <2> HIDE DEF flags
  <2>8. Packed(c)
    BY <2>3, <2>4 DEF Packed
  <2> QED
    BY <1>1, <1>2, <1>6, <2>5, <2>6, <2>7, <2>8, Zenon
<1>13. \A type \in 0 .. 15 : p = Sent(type, 0, <<0>>, FALSE) => Regular(p)
  <2>1. Packed(<<0>>)
    BY <1>5, Zenon
  <2> QED
    BY <1>2, <1>6, <2>1, Zenon
<1>14. CASE p = Sent(PacketType.PUBLISH, 0, WriteUint16(1), FALSE)
  <2>1. Packed(WriteUint16(1))
    BY <1>5, Zenon
  <2> QED
    BY <1>1, <1>2, <1>14, <1>6, <2>1, Zenon
<1>15. \/ p = Sent(PacketType.CONNACK, 0, <<0, 0>>, TRUE)
       \/ p = Sent(PacketType.CONNACK, 0, <<0, 1>>, FALSE)
       \/ p = Sent(PacketType.SUBACK, 0, WriteUint16(1) \o <<0>>, TRUE)
       \/ p = Sent(PacketType.SUBACK, 0, WriteUint16(1) \o <<128>>, TRUE)
       \/ p = Sent(PacketType.UNSUBACK, 0, WriteUint16(1), TRUE)
       \/ p = Sent(PacketType.PINGRESP, 0, <<>>, TRUE)
       \/ \E m \in Messages :
            p = Sent(PacketType.PUBLISH, IF m.retain THEN 1 ELSE 0, WriteString(m.topic) \o m.message, TRUE)
       \/ \E type \in {0, PacketType.PUBACK, PacketType.CONNACK, PacketType.PUBLISH, PacketType.SUBACK,
                        PacketType.UNSUBACK, 15} : p = Sent(type, 0, <<0>>, FALSE)
       \/ p = Sent(PacketType.PUBLISH, 0, WriteUint16(1), FALSE)
       \/ p = Overlong
  BY Zenon DEF BrokerPackets, Overlong
<1>16. \A type \in {0, PacketType.PUBACK, PacketType.CONNACK, PacketType.PUBLISH, PacketType.SUBACK,
                    PacketType.UNSUBACK, 15} : type \in 0 .. 15
  BY <1>1
<1> QED
  BY <1>7, <1>8, <1>9, <1>10, <1>11, <1>12, <1>13, <1>14, <1>15, <1>16, Zenon

(* The bytes of the length of a packet                                     *)
LengthOf(p) == SubSeq(p.bytes, 2, Len(p.bytes) - Len(p.data))

(* Byte j of the length: a digit, marked unless it is the last; if it is   *)
(* marked nevertheless there are four, and the packet is not good.         *)
LengthByteOf(p, j) ==
  /\ LengthOf(p)[j] \in Nat
  /\ LengthOf(p)[j] % Digit = (Len(p.data) \div Weight(j - 1)) % Digit
  /\ LengthOf(p)[j] >= Digit /\ j = Len(LengthOf(p)) => j = 4 /\ ~p.good
  /\ LengthOf(p)[j] < Digit => j = Len(LengthOf(p)) /\ Len(p.data) < Weight(j)

(* A packet as it is on the wire                                           *)
IsFrame(p) ==
  /\ p.type \in 0 .. 15 /\ p.flags \in 0 .. 15
  /\ p.data \in Seq(Symbols) /\ Len(p.data) \in 0 .. Weight(4) - 1
  /\ LengthOf(p) \in Seq(Symbols) /\ Len(LengthOf(p)) \in 1 .. 4
  /\ p.bytes = <<HeaderByte(p.type, p.flags)>> \o (LengthOf(p) \o p.data)
  /\ p.bytes \in Seq(Symbols)
  /\ \A j \in 1 .. Len(LengthOf(p)) : LengthByteOf(p, j)
  /\ p.good => Acceptable(p.type, p.data)

(* A packet of three parts                                                 *)
LEMMA ThreeParts ==
  ASSUME NEW p, NEW h \in Nat, NEW length \in Seq(Symbols), NEW content \in Seq(Symbols),
         p.bytes = <<h>> \o length \o content, p.data = content
  PROVE  /\ LengthOf(p) = length
         /\ p.bytes = <<h>> \o (length \o content)
         /\ p.bytes \in Seq(Symbols)
<1> DEFINE one == <<h>>
<1>1. one \in Seq(Symbols)
  BY StringsAreSequences
<1>2. Len(one) = 1
  OBVIOUS
<1> HIDE DEF one
<1>3. p.bytes = one \o length \o content
  BY DEF one
<1>4. p.bytes = one \o (length \o content)
  <2>1. (one \o length) \o content = one \o (length \o content)
    BY <1>1, ConcatAssociative
  <2> QED
    BY <1>3, <2>1
<1>5. one \o length \in Seq(Symbols) /\ Len(one \o length) = Len(one) + Len(length)
  BY <1>1, Joined
<1>6. p.bytes \in Seq(Symbols) /\ Len(p.bytes) = Len(one \o length) + Len(content)
  <2> DEFINE v == one \o length
  <2> HIDE DEF v
  <2>1. v \in Seq(Symbols) /\ p.bytes = v \o content
    BY <1>3, <1>5 DEF v
  <2>2. v \o content \in Seq(Symbols) /\ Len(v \o content) = Len(v) + Len(content)
    BY <2>1, Joined
  <2> QED
    BY <2>1, <2>2 DEF v
<1> DEFINE u == one \o length
<1>7. \A n \in 1 .. Len(u) + Len(content) :
        p.bytes[n] = IF n <= Len(u) THEN u[n] ELSE content[n - Len(u)]
  BY <1>3, <1>5, ConcatProperties
<1>8. \A n \in 1 .. Len(one) + Len(length) : u[n] = IF n <= Len(one) THEN one[n] ELSE length[n - Len(one)]
  BY <1>1, ConcatProperties
<1> DEFINE L == Len(length)
           C == Len(content)
<1>9. L \in Nat /\ C \in Nat
  BY LenProperties
<1>10. Len(u) = 1 + L /\ Len(p.bytes) = 1 + L + C
  BY <1>2, <1>5, <1>6
<1> HIDE DEF u
<1>11. \A n \in 2 .. 1 + L : p.bytes[n] = length[n - 2 + 1]
  <2> SUFFICES ASSUME NEW n \in 2 .. 1 + L PROVE p.bytes[n] = length[n - 2 + 1]
    OBVIOUS
  <2> HIDE DEF L, C
  <2>1. n \in 1 .. Len(u) + C /\ n <= Len(u) /\ n \in 1 .. Len(one) + L /\ ~(n <= Len(one))
        /\ n - Len(one) = n - 2 + 1
    BY <1>2, <1>9, <1>10
  <2>2. p.bytes[n] = u[n]
    BY <1>7, <2>1 DEF C
  <2>3. u[n] = length[n - Len(one)]
    BY <1>8, <2>1 DEF L
  <2> QED
    BY <2>1, <2>2, <2>3
<1>12. LengthOf(p) = length
  <2> DEFINE last == Len(p.bytes) - Len(p.data)
  <2>1. last = 1 + L
    BY <1>9, <1>10
  <2> HIDE DEF L, C
  <2>2. 2 \in Int /\ 1 + L \in Int /\ 2 >= 1 /\ 1 + L =< Len(p.bytes) /\ L = 1 + L - 2 + 1
    BY <1>9, <1>10
  <2>3. SubSeq(p.bytes, 2, 1 + L) = length
    BY <1>6, <1>11, <2>2, Part DEF L
  <2> QED
    BY <2>1, <2>3 DEF LengthOf
<1> QED
  BY <1>4, <1>6, <1>12 DEF one

(* The packets of the broker are frames.                                   *)
LEMMA FrameForm ==
  ASSUME NEW p \in BrokerPackets PROVE IsFrame(p)
<1>1. CASE Regular(p)
  <2>1. PICK type \in 0 .. 15, flags \in 0 .. 15, content \in Seq(Symbols), good \in BOOLEAN :
          /\ Len(content) < Weight(4)
          /\ good => Acceptable(type, content)
          /\ p = Sent(type, flags, content, good)
    BY <1>1 DEF Regular
  <2> DEFINE h == HeaderByte(type, flags)
             L == Len(content)
  <2>2. /\ p.type = type /\ p.flags = flags /\ p.data = content /\ p.good = good
        /\ p.bytes = StandardBytes(type, flags, content)
    BY <2>1, Zenon DEF Sent
  <2>3. L \in Nat /\ L \in 0 .. Weight(4) - 1
    BY <2>1, LenProperties, Weights
  <2>4. PICK k \in 1 .. 4 : Shortest(L, k)
    <3> HIDE DEF L
    <3> QED
      BY <2>3, ShortestExists
  <2> DEFINE length == Digits(L, k)
  <2>5. p.bytes = <<h>> \o length \o content
    BY <2>2, <2>3, <2>4, StandardBytesMeans
  <2>6. /\ length \in Seq(Nat) /\ Len(length) = k
        /\ \A j \in 1 .. k :
             /\ (L \div Weight(j - 1)) % Digit \in 0 .. Digit - 1
             /\ length[j] = ((L \div Weight(j - 1)) % Digit) + (IF j < k THEN Digit ELSE 0)
    <3> HIDE DEF L
    <3> QED
      BY <2>3, DigitsType
  <2>7. h \in Nat
    BY DEF HeaderByte
  <2> HIDE DEF length, h, L
  <2>8. length \in Seq(Symbols)
    BY <2>6, SeqMonotonic DEF Symbols
  <2>9. LengthOf(p) = length /\ p.bytes = <<h>> \o (length \o content) /\ p.bytes \in Seq(Symbols)
    BY <2>2, <2>5, <2>7, <2>8, ThreeParts
  <2>10. Digit \in Nat \ {0} /\ L < Weight(k)
    BY <2>4, DigitType DEF Shortest
  <2>11. ASSUME NEW j \in 1 .. k PROVE LengthByteOf(p, j)
    <3> DEFINE x == (L \div Weight(j - 1)) % Digit
               b == length[j]
    <3>1. x \in 0 .. Digit - 1 /\ b = x + (IF j < k THEN Digit ELSE 0)
      BY <2>6
    <3> HIDE DEF x, b
    <3>2. b \in Nat /\ (b >= Digit <=> j < k) /\ (b < Digit <=> ~(j < k))
      BY <2>10, <3>1
    <3>3. b % Digit = x
      <4>1. CASE j < k
        <5>1. b = 1 * Digit + x /\ 1 \in Nat
          BY <2>10, <3>1, <4>1
        <5> QED
          BY <2>10, <3>1, <5>1, Unique
      <4>2. CASE ~(j < k)
        <5>1. b = x /\ x \in Nat /\ x < Digit
          BY <2>10, <3>1, <4>2
        <5> QED
          BY <2>10, <5>1, OneDigit
      <4> QED
        BY <4>1, <4>2
    <3>4. Len(p.data) = L /\ LengthOf(p)[j] = b /\ Len(LengthOf(p)) = k
      BY <2>2, <2>6, <2>9 DEF L, b
    <3>5. j < k \/ j = k
      OBVIOUS
    <3> QED
      BY <2>10, <3>2, <3>3, <3>4, <3>5 DEF LengthByteOf, x
  <2> QED
    BY <2>1, <2>2, <2>3, <2>6, <2>8, <2>9, <2>11 DEF IsFrame, h, L
<1>2. CASE p = Overlong
  <2> DEFINE h == HeaderByte(13, 0)
             length == [j \in 1 .. 4 |-> Digit]
  <2>1. /\ p.type = 13 /\ p.flags = 0 /\ p.data = <<>> /\ p.good = FALSE
        /\ p.bytes = <<h>> \o length
    BY <1>2 DEF Overlong, PacketType
  <2>2. Digit \in Nat \ {0}
    BY DigitType
  <2>3. length \in Seq(Nat) /\ Len(length) = 4 /\ \A j \in 1 .. 4 : length[j] = Digit
    BY <2>2
  <2>4. h \in Nat
    BY DEF HeaderByte
  <2> HIDE DEF length, h
  <2>5. length \in Seq(Symbols) /\ <<h>> \in Seq(Symbols) /\ <<>> \in Seq(Symbols)
    BY <2>3, <2>4, SeqMonotonic, EmptySeq, StringsAreSequences DEF Symbols
  <2>6. <<h>> \o length \in Seq(Symbols)
    BY <2>5, Joined
  <2>7. p.bytes = <<h>> \o length \o <<>>
    BY <2>1, <2>6, ConcatEmptySeq
  <2>8. LengthOf(p) = length /\ p.bytes = <<h>> \o (length \o <<>>) /\ p.bytes \in Seq(Symbols)
    BY <2>1, <2>4, <2>5, <2>7, ThreeParts
  <2>9. Len(p.data) = 0 /\ 0 \in 0 .. Weight(4) - 1
    BY <2>1, EmptySeq, Weights
  <2>10. ASSUME NEW j \in 1 .. 4 PROVE LengthByteOf(p, j)
    <3>1. LengthOf(p)[j] = Digit /\ Len(LengthOf(p)) = 4
      BY <2>3, <2>8
    <3>2. Digit % Digit = 0
      <4>1. Digit = 1 * Digit + 0 /\ 0 \in 0 .. Digit - 1
        BY <2>2
      <4> QED
        BY <2>2, <4>1, Unique
    <3>3. (0 \div Weight(j - 1)) % Digit = 0
      <4>1. j - 1 \in 0 .. 4
        OBVIOUS
      <4>2. Weight(j - 1) \in Nat \ {0}
        BY <4>1, Weights
      <4>3. 0 \div Weight(j - 1) = 0
        BY <4>2
      <4>4. 0 % Digit = 0
        BY <2>2
      <4> QED
        BY <4>3, <4>4
    <3> QED
      BY <2>1, <2>2, <2>9, <3>1, <3>2, <3>3 DEF LengthByteOf
  <2>11. /\ p.type \in 0 .. 15 /\ p.flags \in 0 .. 15 /\ h = HeaderByte(p.type, p.flags)
         /\ Len(LengthOf(p)) = 4 /\ 4 \in 1 .. 4
    BY <2>1, <2>3, <2>8 DEF h
  <2> QED
    BY <2>1, <2>5, <2>8, <2>9, <2>10, <2>11, Zenon DEF IsFrame
<1> QED
  BY <1>1, <1>2, BrokerPacketsAre

-----------------------------------------------------------------------------
(* recvLoop() *)

(* The bytes of the broker's packets                                       *)
LEMMA BytesOfPackets ==
  ASSUME NEW packets \in Seq(BrokerPackets)
  PROVE  /\ BytesOf(packets) \in Seq(Symbols)
         /\ packets = <<>> => BytesOf(packets) = <<>>
         /\ \A p \in BrokerPackets : BytesOf(Append(packets, p)) = BytesOf(packets) \o p.bytes
         /\ packets # <<>> => BytesOf(packets) = Head(packets).bytes \o BytesOf(Tail(packets))
<1>1. \A p \in BrokerPackets : p.bytes \in Seq(Symbols)
  BY FrameForm DEF IsFrame
<1>2. BrokerPackets = Frames(Symbols)
  BY <1>1 DEF Frames
<1>3. packets \in Seq(Frames(Symbols))
  BY <1>2, Zenon
<1> QED
  BY <1>2, <1>3, BytesOfMeans, Zenon

(* Before the first byte of a packet                                       *)
AtHeader == remaining_length = 0 /\ i = 0 /\ data = <<>> /\ wire = BytesOf(pending)

(* In the length of packet p, which rest follows                           *)
AtLength(p, rest) ==
  /\ i < Len(LengthOf(p)) /\ data = <<>>
  /\ remaining_length = Len(p.data) % Weight(i)
  /\ wire = SubSeq(LengthOf(p), i + 1, Len(LengthOf(p))) \o (p.data \o rest)

(* In the fields, or at their end                                          *)
AtData(p, rest) ==
  /\ remaining_length = Len(p.data)
  /\ data \o wire = p.data \o rest
  /\ IF phase = "data" THEN Len(data) < Len(p.data) ELSE Len(data) = Len(p.data)

HeaderOf(p) == [type |-> p.type, flags |-> p.flags]

LoopTyped ==
  /\ link \in {"down", "open", "failed"}
  /\ phase \in {"header", "length", "data", "dispatch"}
  /\ pending \in Seq(BrokerPackets) /\ wire \in Seq(Symbols) /\ data \in Seq(Symbols)
  /\ header \in [type : 0 .. 14, flags : 0 .. 15]
  /\ i \in 0 .. 4 /\ remaining_length \in 0 .. Weight(4) - 1
  /\ Len(data) =< remaining_length

(* What recvLoop() has read and what is still to come make up the packets  *)
(* that were sent; the packet it gave up on was not good.                  *)
Framed ==
  /\ link = "down" => phase = "header" /\ pending = <<>>
  /\ link = "failed" => pending # <<>> /\ ~Head(pending).good
  /\ link # "failed" /\ phase = "header" => AtHeader
  /\ link # "failed" /\ phase # "header" =>
       /\ pending # <<>> /\ header = HeaderOf(Head(pending))
       /\ IF phase = "length" THEN AtLength(Head(pending), BytesOf(Tail(pending)))
          ELSE AtData(Head(pending), BytesOf(Tail(pending)))

LoopInv == LoopTyped /\ Framed

(* The first packet, and the bytes of those that follow it                 *)
LEMMA FirstPacket ==
  ASSUME LoopTyped, pending # <<>>
  PROVE  /\ Head(pending) \in BrokerPackets /\ IsFrame(Head(pending))
         /\ Tail(pending) \in Seq(BrokerPackets) /\ BytesOf(Tail(pending)) \in Seq(Symbols)
<1>1. Head(pending) \in BrokerPackets /\ Tail(pending) \in Seq(BrokerPackets)
  BY HeadTailProperties DEF LoopTyped
<1> QED
  BY <1>1, BytesOfPackets, FrameForm

(* A sequence that begins with an element                                  *)
LEMMA FirstElement ==
  ASSUME NEW S, NEW h \in S, NEW s \in Seq(S)
  PROVE  <<h>> \o s # <<>> /\ Head(<<h>> \o s) = h /\ Tail(<<h>> \o s) = s
<1> DEFINE t == <<h>> \o s
           one == <<h>>
<1>1. one \in Seq(S) /\ Len(one) = 1 /\ one[1] = h
  OBVIOUS
<1> HIDE DEF one
<1>2. one \o s \in Seq(S) /\ Len(one \o s) = 1 + Len(s) /\ (one \o s)[1] = h
      /\ \A n \in 2 .. 1 + Len(s) : (one \o s)[n] = s[n - 1]
  <2>1. Len(s) \in Nat
    BY LenProperties
  <2>2. /\ one \o s \in Seq(S) /\ Len(one \o s) = Len(one) + Len(s)
        /\ \A n \in 1 .. Len(one) + Len(s) : (one \o s)[n] = IF n <= Len(one) THEN one[n] ELSE s[n - Len(one)]
    BY <1>1, ConcatProperties
  <2> DEFINE u == one \o s
  <2> HIDE DEF u
  <2>3. u \in Seq(S) /\ Len(u) = 1 + Len(s)
    BY <1>1, <2>2 DEF u
  <2>4. u[1] = h /\ \A n \in 2 .. 1 + Len(s) : u[n] = s[n - 1]
    BY <1>1, <2>1, <2>2 DEF u
  <2> QED
    BY <2>3, <2>4 DEF u
<1>3. t = one \o s
  BY DEF one
<1> HIDE DEF t
<1>4. t \in Seq(S) /\ Len(t) = 1 + Len(s) /\ t[1] = h /\ \A n \in 2 .. 1 + Len(s) : t[n] = s[n - 1]
  BY <1>2, <1>3
<1>5. Len(s) \in Nat
  BY LenProperties
<1>6. t # <<>>
  BY <1>4, <1>5, EmptySeq
<1>7. Head(t) = h
  BY <1>4, <1>6
<1>8. Tail(t) = s
  <2>1. Tail(t) \in Seq(S) /\ Len(Tail(t)) = Len(t) - 1 /\ \A n \in 1 .. Len(Tail(t)) : Tail(t)[n] = t[n + 1]
    BY <1>4, <1>6, HeadTailProperties
  <2> DEFINE u == Tail(t)
  <2> HIDE DEF u
  <2>2. u \in Seq(S) /\ Len(u) = Len(s) /\ \A n \in 1 .. Len(u) : u[n] = t[n + 1]
    BY <1>4, <1>5, <2>1 DEF u
  <2>3. ASSUME NEW n \in 1 .. Len(u) PROVE u[n] = s[n]
    <3>1. n + 1 \in 2 .. 1 + Len(s) /\ (n + 1) - 1 = n
      BY <1>5, <2>2
    <3> QED
      BY <1>4, <2>2, <3>1
  <2>4. u = s
    BY <2>2, <2>3, SeqEqual
  <2> QED
    BY <2>4 DEF u
<1> QED
  BY <1>6, <1>7, <1>8 DEF t

(* A connection that is closed takes all with it.                          *)
LEMMA CloseLinkInv == CloseLink => LoopInv'
<1> SUFFICES ASSUME CloseLink PROVE LoopInv'
  OBVIOUS
<1>1. /\ link' = "down" /\ wire' = <<>> /\ pending' = <<>> /\ phase' = "header"
      /\ header' = NoHeader /\ remaining_length' = 0 /\ i' = 0 /\ data' = <<>>
  BY DEF CloseLink, ResetLoop
<1>2. <<>> \in Seq(BrokerPackets) /\ <<>> \in Seq(Symbols) /\ Len(<<>>) = 0
  BY EmptySeq
<1>3. NoHeader \in [type : 0 .. 14, flags : 0 .. 15]
  BY DEF NoHeader
<1>4. 0 \in 0 .. Weight(4) - 1
  BY Weights
<1>5. LoopTyped'
  BY <1>1, <1>2, <1>3, <1>4 DEF LoopTyped
<1>6. BytesOf(<<>>) = <<>>
  BY <1>2, BytesOfPackets
<1>7. AtHeader'
  BY <1>1, <1>6 DEF AtHeader
<1> QED
  BY <1>1, <1>5, <1>7 DEF LoopInv, Framed

(* The broker sends after what it has sent.                                *)
LEMMA BrokerSendsInv ==
  ASSUME LoopInv, NEW packet \in BrokerPackets, BrokerSends(packet) PROVE LoopInv'
<1> DEFINE b == packet.bytes
<1>1. /\ link = "open" /\ link' = "open" /\ wire' = wire \o b /\ pending' = Append(pending, packet)
      /\ phase' = phase /\ header' = header /\ remaining_length' = remaining_length /\ i' = i /\ data' = data
  BY DEF BrokerSends, loopVars
<1>2. b \in Seq(Symbols)
  BY FrameForm DEF IsFrame
<1>3. LoopTyped
  BY DEF LoopInv
<1>4. wire \in Seq(Symbols) /\ pending \in Seq(BrokerPackets) /\ data \in Seq(Symbols)
  BY <1>3 DEF LoopTyped
<1> HIDE DEF b
<1>5. wire \o b \in Seq(Symbols)
  BY <1>2, <1>4, Joined
<1>6. Append(pending, packet) \in Seq(BrokerPackets) /\ Append(pending, packet) # <<>>
  BY <1>4, AppendProperties
<1>7. LoopTyped'
  BY <1>1, <1>3, <1>5, <1>6 DEF LoopTyped
<1>8. CASE phase = "header"
  <2>1. AtHeader
    BY <1>1, <1>8 DEF LoopInv, Framed
  <2>2. BytesOf(Append(pending, packet)) = BytesOf(pending) \o b
    BY <1>4, BytesOfPackets DEF b
  <2>3. AtHeader'
    BY <1>1, <2>1, <2>2 DEF AtHeader
  <2> QED
    BY <1>1, <1>7, <1>8, <2>3 DEF LoopInv, Framed
<1>9. CASE phase # "header"
  <2> DEFINE p == Head(pending)
             rest == BytesOf(Tail(pending))
             more == rest \o b
  <2>1. /\ pending # <<>> /\ header = HeaderOf(p)
        /\ IF phase = "length" THEN AtLength(p, rest) ELSE AtData(p, rest)
    BY <1>1, <1>9 DEF LoopInv, Framed
  <2>2. p.data \in Seq(Symbols) /\ LengthOf(p) \in Seq(Symbols) /\ rest \in Seq(Symbols)
        /\ Tail(pending) \in Seq(BrokerPackets)
    BY <1>3, <2>1, FirstPacket DEF IsFrame
  <2>3. Head(pending') = p /\ Tail(pending') = Append(Tail(pending), packet)
    BY <1>1, <1>4, <2>1, HeadTailAppend
  <2>4. BytesOf(Tail(pending')) = more
    BY <2>2, <2>3, BytesOfPackets DEF b
  <2> HIDE DEF p, rest
  <2>5. (p.data \o rest) \o b = p.data \o more
    <3> DEFINE d == p.data
    <3>1. d \in Seq(Symbols)
      BY <2>2
    <3>2. rest \in Seq(Symbols)
      BY <2>2
    <3> HIDE DEF d
    <3>3. (d \o rest) \o b = d \o (rest \o b)
      BY <1>2, <3>1, <3>2, ConcatAssociative
    <3> QED
      BY <3>3 DEF d
  <2>6. p.data \o rest \in Seq(Symbols)
    BY <2>2, Joined
  <2> HIDE DEF more
  <2>7. CASE phase = "length"
    <3> DEFINE l == SubSeq(LengthOf(p), i + 1, Len(LengthOf(p)))
               x == p.data \o rest
    <3>1. l \in Seq(Symbols)
      <4>1. Len(LengthOf(p)) \in Nat /\ i \in Nat
        BY <1>3, <2>2, LenProperties DEF LoopTyped
      <4>2. \A n \in i + 1 .. Len(LengthOf(p)) : LengthOf(p)[n] \in Symbols
        BY <2>2, <4>1, ElementOfSeq
      <4>3. i + 1 \in Int /\ Len(LengthOf(p)) \in Int
        BY <4>1
      <4> QED
        BY <4>2, <4>3, SubSeqProperties
    <3>2. AtLength(p, rest) /\ wire = l \o x
      BY <2>1, <2>7 DEF AtLength
    <3> HIDE DEF l, x
    <3>3. x \in Seq(Symbols)
      BY <2>6 DEF x
    <3>4. (l \o x) \o b = l \o (x \o b)
      BY <1>2, <3>1, <3>3, ConcatAssociative
    <3>5. wire' = l \o (p.data \o more)
      BY <1>1, <2>5, <3>2, <3>4 DEF x
    <3>6. AtLength(Head(pending), BytesOf(Tail(pending)))'
      BY <1>1, <2>3, <2>4, <3>2, <3>5 DEF AtLength, LengthOf, l
    <3> QED
      BY <1>1, <1>6, <1>7, <2>1, <2>3, <2>7, <3>6 DEF LoopInv, Framed, HeaderOf
  <2>8. CASE phase # "length"
    <3>1. AtData(p, rest)
      BY <2>1, <2>8
    <3>2. data \o wire = p.data \o rest
      BY <3>1 DEF AtData
    <3>3. (data \o wire) \o b = data \o (wire \o b)
      BY <1>2, <1>4, ConcatAssociative
    <3>4. data' \o wire' = p.data \o more
      BY <1>1, <2>5, <3>2, <3>3
    <3>5. AtData(Head(pending), BytesOf(Tail(pending)))'
      BY <1>1, <2>3, <2>4, <3>1, <3>4 DEF AtData
    <3> QED
      BY <1>1, <1>6, <1>7, <1>9, <2>1, <2>3, <2>8, <3>5 DEF LoopInv, Framed, HeaderOf
  <2> QED
    BY <2>7, <2>8
<1> QED
  BY <1>8, <1>9

(* The first byte of a packet                                              *)
LEMMA ReadHeaderInv ==
  ASSUME LoopInv, ReadHeader PROVE LoopInv'
<1> DEFINE p == Head(pending)
           rest == BytesOf(Tail(pending))
           h == HeaderByte(p.type, p.flags)
           l == LengthOf(p)
<1>1. link = "open" /\ phase = "header" /\ wire # <<>> /\ wire' = Tail(wire) /\ pending' = pending
  BY DEF ReadHeader, Receiving, ReadByte
<1>2. LoopTyped /\ AtHeader
  BY <1>1 DEF LoopInv, Framed
<1>3. pending # <<>> /\ pending \in Seq(BrokerPackets)
  BY <1>1, <1>2, BytesOfPackets DEF AtHeader, LoopTyped
<1>4. IsFrame(p) /\ rest \in Seq(Symbols)
  BY <1>2, <1>3, FirstPacket
<1>5. p.data \in Seq(Symbols) /\ l \in Seq(Symbols) /\ p.bytes = <<h>> \o (l \o p.data)
      /\ p.type \in 0 .. 15 /\ p.flags \in 0 .. 15 /\ Len(l) \in 1 .. 4 /\ Len(p.data) \in 0 .. Weight(4) - 1
      /\ (p.good => Acceptable(p.type, p.data))
  BY <1>4 DEF IsFrame
<1>6. wire = p.bytes \o rest
  BY <1>2, <1>3, BytesOfPackets DEF AtHeader
<1>7. h = p.type * 16 + p.flags /\ h \in Nat
  <2>1. p.type \in Nat /\ p.flags \in Nat
    <3>1. p.type \in 0 .. 15 /\ p.flags \in 0 .. 15
      BY <1>5, Zenon
    <3> HIDE DEF p
    <3> QED
      BY <3>1
  <2>2. h = p.type * 16 + p.flags
    BY DEF HeaderByte
  <2> HIDE DEF p
  <2> QED
    BY <2>1, <2>2
<1> HIDE DEF p, rest, h, l
<1> DEFINE x == l \o (p.data \o rest)
<1>8. wire = <<h>> \o x /\ x \in Seq(Symbols)
  <2> DEFINE one == <<h>>
             d == p.data
  <2>1. one \in Seq(Symbols)
    BY <1>7, StringsAreSequences
  <2>2. p.bytes = one \o (l \o d) /\ d \in Seq(Symbols)
    BY <1>5
  <2> HIDE DEF one, d
  <2>3. l \o d \in Seq(Symbols)
    BY <1>5, <2>2, Joined
  <2>4. rest \in Seq(Symbols)
    BY <1>4
  <2>5. l \in Seq(Symbols)
    BY <1>5
  <2>6. d \in Seq(Symbols)
    BY <2>2
  <2>7. (one \o (l \o d)) \o rest = one \o ((l \o d) \o rest)
    <3> DEFINE v == l \o d
    <3>1. v \in Seq(Symbols)
      BY <2>3
    <3> HIDE DEF v
    <3>2. (one \o v) \o rest = one \o (v \o rest)
      BY <2>1, <2>4, <3>1, ConcatAssociative
    <3> QED
      BY <3>2 DEF v
  <2>8. (l \o d) \o rest = l \o (d \o rest)
    BY <2>4, <2>5, <2>6, ConcatAssociative
  <2>9. d \o rest \in Seq(Symbols)
    BY <1>4, <2>2, Joined
  <2>10. l \o (d \o rest) \in Seq(Symbols)
    BY <1>5, <2>9, Joined
  <2> QED
    BY <1>6, <2>2, <2>7, <2>8, <2>10 DEF one, d
<1> HIDE DEF x
<1>9. Head(wire) = h /\ wire' = x
  <2>1. h \in Symbols
    BY <1>7 DEF Symbols
  <2>2. x \in Seq(Symbols)
    BY <1>8
  <2>3. Head(<<h>> \o x) = h /\ Tail(<<h>> \o x) = x
    <3> HIDE DEF h
    <3> QED
      BY <2>1, <2>2, FirstElement
  <2> QED
    BY <1>1, <1>8, <2>3, Zenon
<1>10. h \div 16 = p.type /\ h % 16 = p.flags
  <2> DEFINE t == p.type
             f == p.flags
  <2>1. t \in Nat /\ f \in 0 .. 16 - 1 /\ h = t * 16 + f /\ 16 \in Nat \ {0}
    <3>1. t \in 0 .. 15 /\ f \in 0 .. 15
      BY <1>5, Zenon
    <3>2. h = t * 16 + f
      BY <1>7, Zenon
    <3> HIDE DEF t, f
    <3> QED
      BY <3>1, <3>2
  <2> HIDE DEF t, f
  <2>2. h % 16 = f /\ h \div 16 = t
    BY <2>1, Unique
  <2> QED
    BY <2>2 DEF t, f
<1>11. CASE p.type \in 1 .. 14
  <2>1. /\ header' = HeaderOf(p) /\ phase' = "length" /\ link' = link
        /\ remaining_length' = remaining_length /\ i' = i /\ data' = data
    BY <1>9, <1>10, <1>11 DEF ReadHeader, HeaderOf
  <2>2. LoopTyped'
    <3>1. header' \in [type : 0 .. 14, flags : 0 .. 15]
      BY <1>5, <1>11, <2>1 DEF HeaderOf
    <3> QED
      BY <1>1, <1>2, <1>8, <1>9, <2>1, <3>1 DEF LoopTyped
  <2>3. SubSeq(l, 1, Len(l)) = l
    BY <1>5, SubSeqFull
  <2>4. Len(p.data) % Weight(0) = 0
    BY <1>5, Weights
  <2>5. AtLength(p, rest)'
    <3>1. remaining_length = 0 /\ i = 0 /\ data = <<>> /\ 0 + 1 = 1 /\ 0 < Len(l)
      BY <1>2, <1>5 DEF AtHeader
    <3>2. i' = 0 /\ data' = <<>> /\ remaining_length' = 0 /\ p' = p /\ rest' = rest
      BY <1>1, <2>1, <3>1 DEF p, rest
    <3>3. wire' = SubSeq(l, 0 + 1, Len(l)) \o (p.data \o rest)
      BY <1>9, <2>3, <3>1 DEF x
    <3> QED
      BY <2>4, <3>1, <3>2, <3>3 DEF AtLength, LengthOf, l
  <2>6. AtLength(Head(pending), BytesOf(Tail(pending)))'
    BY <2>5 DEF p, rest
  <2>7. header' = HeaderOf(Head(pending'))
    BY <1>1, <2>1 DEF p
  <2> QED
    BY <1>1, <1>3, <2>1, <2>2, <2>6, <2>7 DEF LoopInv, Framed, HeaderOf
<1>12. CASE p.type \notin 1 .. 14
  <2>1. link' = "failed" /\ UNCHANGED loopVars
    BY <1>9, <1>10, <1>12 DEF ReadHeader, ReturnFalse
  <2>2. ~p.good
    <3>1. \A t \in Expected : t \in 1 .. 14
      BY DEF Expected, PacketType
    <3> QED
      BY <1>5, <1>12, <3>1 DEF Acceptable
  <2>3. LoopTyped'
    BY <1>1, <1>2, <1>8, <1>9, <2>1 DEF LoopTyped, loopVars
  <2> QED
    BY <1>1, <1>3, <2>1, <2>2, <2>3 DEF LoopInv, Framed, p
<1> QED
  BY <1>11, <1>12

(* A byte of the length: what was read of it is its lowest digits.         *)
LEMMA ReadLengthInv ==
  ASSUME LoopInv, ReadLength PROVE LoopInv'
<1> DEFINE p == Head(pending)
           rest == BytesOf(Tail(pending))
           l == LengthOf(p)
           n == Len(l)
           j == i + 1
           b == l[j]
           L == Len(p.data)
           x == p.data \o rest
           after == SubSeq(l, j + 1, n) \o x
<1>1. link = "open" /\ phase = "length" /\ wire' = Tail(wire) /\ pending' = pending
  BY DEF ReadLength, Receiving, ReadByte
<1>2. LoopTyped /\ AtLength(p, rest) /\ pending # <<>> /\ header = HeaderOf(p)
  BY <1>1 DEF LoopInv, Framed
<1>3. IsFrame(p) /\ rest \in Seq(Symbols)
  BY <1>2, FirstPacket
<1>4. p.data \in Seq(Symbols) /\ l \in Seq(Symbols) /\ n \in 1 .. 4 /\ L \in 0 .. Weight(4) - 1
      /\ \A k \in 1 .. n : LengthByteOf(p, k)
  BY <1>3 DEF IsFrame
<1>5. i \in Nat /\ i < n /\ data = <<>> /\ remaining_length = L % Weight(i)
      /\ wire = SubSeq(l, i + 1, n) \o x
  BY <1>2 DEF AtLength, LoopTyped
<1>6. x \in Seq(Symbols)
  <2>1. p.data \in Seq(Symbols)
    BY <1>4
  <2>2. rest \in Seq(Symbols)
    BY <1>3
  <2> HIDE DEF p, rest
  <2> QED
    BY <2>1, <2>2, Joined
<1> HIDE DEF p, rest, l, x
<1>7. j \in 1 .. n /\ i \in 0 .. 3 /\ j - 1 = i
  <2>1. n \in 1 .. 4
    BY <1>4
  <2>2. i \in Nat /\ i < n
    BY <1>5
  <2> HIDE DEF n
  <2> QED
    BY <2>1, <2>2
<1>8. /\ b \in Nat /\ b % Digit = (L \div Weight(i)) % Digit
      /\ b >= Digit /\ j = n => j = 4 /\ ~p.good
      /\ b < Digit => j = n /\ L < Weight(j)
  BY <1>4, <1>7 DEF LengthByteOf, l
<1> HIDE DEF n, L, j
<1>9. Head(wire) = b /\ wire' = after /\ after \in Seq(Symbols)
  <2> DEFINE tail == SubSeq(l, j + 1, n)
  <2>1. Len(l) = n /\ j \in 1 .. Len(l) /\ n \in j .. Len(l) /\ i + 1 = j
    BY <1>4, <1>7 DEF n, j
  <2>2. l \in Seq(Symbols)
    BY <1>4
  <2>3. SubSeq(l, j, n) = <<b>> \o tail
    BY <2>1, <2>2, SubSeqRecursiveFirst
  <2>4. b \in Symbols
    BY <2>1, <2>2, ElementOfSeq
  <2>5. tail \in Seq(Symbols)
    <3>1. \A k \in j + 1 .. n : l[k] \in Symbols
      BY <2>1, <2>2, ElementOfSeq
    <3>2. j + 1 \in Int /\ n \in Int
      BY <2>1
    <3> QED
      BY <3>1, <3>2, SubSeqProperties
  <2> HIDE DEF tail, b
  <2>6. tail \o x \in Seq(Symbols)
    BY <1>6, <2>5, Joined
  <2> DEFINE one == <<b>>
  <2>7. one \in Seq(Symbols)
    BY <2>4
  <2> HIDE DEF one
  <2>8. (one \o tail) \o x = one \o (tail \o x)
    BY <1>6, <2>5, <2>7, ConcatAssociative
  <2>9. wire = <<b>> \o (tail \o x)
    BY <1>5, <2>1, <2>3, <2>8 DEF one
  <2> DEFINE y == tail \o x
  <2>10. y \in Seq(Symbols)
    BY <2>6
  <2> HIDE DEF y
  <2>11. Head(<<b>> \o y) = b /\ Tail(<<b>> \o y) = y
    BY <2>4, <2>10, FirstElement
  <2> QED
    BY <1>1, <2>6, <2>9, <2>11 DEF y, tail
<1> HIDE DEF after, b
<1>10. CASE b >= Digit /\ i = 3
  <2>1. link' = "failed" /\ UNCHANGED loopVars
    BY <1>9, <1>10 DEF ReadLength, ReturnFalse
  <2>2. ~p.good
    <3>1. j = n
      BY <1>4, <1>7, <1>10
    <3> QED
      BY <1>8, <1>10, <3>1
  <2>3. LoopTyped'
    BY <1>1, <1>2, <1>9, <2>1 DEF LoopTyped, loopVars
  <2> QED
    BY <1>1, <1>2, <2>1, <2>2, <2>3 DEF LoopInv, Framed, p
<1>11. CASE ~(b >= Digit /\ i = 3)
  <2>1. /\ remaining_length' = remaining_length + LengthPart(b)
        /\ i' = j
        /\ phase' = IF b >= Digit THEN "length" ELSE IF remaining_length' = 0 THEN "dispatch" ELSE "data"
        /\ UNCHANGED <<link, header, data>>
    BY <1>9, <1>11, Zenon DEF ReadLength, j
  <2>2. Digit \in Nat \ {0} /\ Weight(i) \in Nat \ {0} /\ Weight(j) = Weight(i) * Digit /\ Weight(j) \in Nat \ {0}
    <3>1. i \in 0 .. 4 /\ i \in 0 .. 3 /\ j = i + 1 /\ j \in 0 .. 4
      BY <1>7 DEF j
    <3>2. Digit \in Nat \ {0}
      BY DigitType
    <3>3. Weight(i) \in Nat \ {0}
      BY <3>1, Weights, Zenon
    <3>4. Weight(j) \in Nat \ {0}
      BY <3>1, Weights, Zenon
    <3>5. Weight(i + 1) = Weight(i) * Digit
      BY <3>1, Weights, Zenon
    <3> QED
      BY <3>1, <3>2, <3>3, <3>4, <3>5, Zenon
  <2>3. L \in Nat
    BY <1>4, Weights
  <2>4. remaining_length' = L % Weight(j)
    <3> DEFINE w == Weight(i)
    <3> HIDE DEF w
    <3>1. w \in Nat \ {0} /\ Weight(j) = w * Digit
      BY <2>2 DEF w
    <3>2. L % (w * Digit) = (L % w) + ((L \div w) % Digit) * w
      BY <2>2, <2>3, <3>1, NextDigit
    <3>3. remaining_length' = (L % w) + (b % Digit) * w
      BY <1>5, <2>1 DEF LengthPart, w
    <3>4. b % Digit = (L \div w) % Digit
      BY <1>8 DEF w
    <3> QED
      BY <3>1, <3>2, <3>3, <3>4
  <2>5. remaining_length' \in 0 .. Weight(4) - 1
    <3>1. L % Weight(j) \in 0 .. Weight(j) - 1
      BY <2>2, <2>3, Euclid
    <3>2. Weight(j) =< Weight(4) /\ Weight(4) \in Nat
      <4>1. j \in 0 .. 4 /\ 4 \in 0 .. 4 /\ j =< 4
        BY <1>4, <1>7
      <4> QED
        BY <4>1, Weights
    <3> QED
      BY <2>2, <2>4, <3>1, <3>2
  <2>6. LoopTyped'
    <3>1. j \in 0 .. 4
      BY <1>4, <1>7
    <3>2. data' = <<>> /\ Len(<<>>) = 0 /\ <<>> \in Seq(Symbols)
      BY <1>5, <2>1, EmptySeq
    <3>3. Len(data') =< remaining_length'
      BY <2>5, <3>2
    <3>4. phase' \in {"header", "length", "data", "dispatch"}
      BY <2>1
    <3> QED
      BY <1>1, <1>2, <1>9, <2>1, <2>5, <3>1, <3>2, <3>3, <3>4 DEF LoopTyped
  <2>7. p' = p /\ rest' = rest /\ l' = l /\ n' = n /\ L' = L
    BY <1>1 DEF p, rest, l, n, L, LengthOf
  <2>8. CASE b >= Digit
    <3>1. j < n
      BY <1>4, <1>7, <1>8, <1>11, <2>8
    <3>2. wire' = SubSeq(l, j + 1, n) \o (p.data \o rest)
      BY <1>9 DEF after, x
    <3>3. AtLength(p, rest)'
      BY <1>5, <2>1, <2>4, <2>7, <3>1, <3>2 DEF AtLength, l, n, L
    <3>4. AtLength(Head(pending), BytesOf(Tail(pending)))'
      BY <3>3 DEF p, rest
    <3>5. phase' = "length" /\ link' = "open" /\ header' = HeaderOf(Head(pending'))
      BY <1>1, <1>2, <2>1, <2>8 DEF p
    <3> QED
      BY <1>1, <1>2, <2>6, <3>4, <3>5 DEF LoopInv, Framed, HeaderOf
  <2>9. CASE ~(b >= Digit)
    <3>1. j = n /\ L < Weight(j)
      BY <1>8, <2>2, <2>9
    <3>2. remaining_length' = L
      BY <2>2, <2>3, <2>4, <3>1, OneDigit
    <3>3. wire' = x
      <4>1. SubSeq(l, j + 1, n) = <<>>
        <5>1. j + 1 \in Int /\ n \in Int /\ n < j + 1
          BY <1>4, <3>1
        <5> QED
          BY <5>1, SubSeqEmpty
      <4>2. <<>> \o x = x
        BY <1>6, ConcatEmptySeq
      <4> QED
        BY <1>9, <4>1, <4>2 DEF after
    <3>4. data' = <<>> /\ data' \o wire' = p.data \o rest
      <4>1. <<>> \o x = x
        BY <1>6, ConcatEmptySeq
      <4> QED
        BY <1>5, <2>1, <3>3, <4>1 DEF x
    <3>5. phase' = IF L = 0 THEN "dispatch" ELSE "data"
      BY <2>1, <2>9, <3>2
    <3>6. IF phase' = "data" THEN 0 < L ELSE 0 = L
      BY <2>3, <3>5
    <3>7. Len(data') = 0
      BY <3>4, EmptySeq
    <3>8. AtData(p, rest)'
      BY <2>7, <3>2, <3>4, <3>6, <3>7 DEF AtData, L
    <3>9. AtData(Head(pending), BytesOf(Tail(pending)))'
      BY <3>8 DEF p, rest
    <3>10. phase' \in {"data", "dispatch"} /\ link' = "open" /\ header' = HeaderOf(Head(pending'))
      BY <1>1, <1>2, <2>1, <3>5 DEF p
    <3> QED
      BY <1>1, <1>2, <2>6, <3>9, <3>10 DEF LoopInv, Framed, HeaderOf
  <2> QED
    BY <2>8, <2>9
<1> QED
  BY <1>10, <1>11

(* The smaller of two numbers                                              *)
LEMMA MinOfTwo ==
  ASSUME NEW x \in Int, NEW y \in Int PROVE Min({x, y}) \in Int /\ Min({x, y}) =< x /\ Min({x, y}) =< y
<1> DEFINE P(z) == z \in {x, y} /\ \A v \in {x, y} : z =< v
<1>1. \E z : P(z)
  <2>1. CASE x =< y
    <3>1. P(x)
      BY <2>1
    <3> QED
      BY <3>1, Zenon
  <2>2. CASE ~(x =< y)
    <3>1. P(y)
      BY <2>2
    <3> QED
      BY <3>1, Zenon
  <2> QED
    BY <2>1, <2>2
<1>2. Min({x, y}) = CHOOSE z : P(z)
  BY DEF Min
<1>3. P(Min({x, y}))
  BY <1>1, <1>2, Zenon
<1> QED
  BY <1>3

(* Some bytes of the fields: never more than they have.                    *)
LEMMA ReadDataInv ==
  ASSUME LoopInv, ReadData PROVE LoopInv'
<1> DEFINE p == Head(pending)
           rest == BytesOf(Tail(pending))
<1>1. link = "open" /\ phase = "data" /\ pending' = pending
      /\ link' = link /\ header' = header /\ remaining_length' = remaining_length /\ i' = i
  BY DEF ReadData, Receiving
<1>2. LoopTyped /\ AtData(p, rest) /\ pending # <<>> /\ header = HeaderOf(p)
  BY <1>1 DEF LoopInv, Framed
<1>3. wire \in Seq(Symbols)
  BY <1>2 DEF LoopTyped
<1>4. data \in Seq(Symbols)
  BY <1>2 DEF LoopTyped
<1>5. Len(wire) \in Nat /\ Len(data) \in Nat /\ remaining_length \in Nat
  BY <1>2, <1>3, <1>4, LenProperties, Weights DEF LoopTyped
<1>6. PICK n \in 1 .. Min({Room, Len(wire)}) :
        data' = data \o SubSeq(wire, 1, n) /\ wire' = SubSeq(wire, n + 1, Len(wire))
  BY DEF ReadData
<1>7. n \in 1 .. Len(wire) /\ n =< remaining_length - Len(data)
  <2>1. Room \in Int /\ Room = remaining_length - Len(data)
    BY <1>5 DEF Room
  <2> DEFINE W == Len(wire)
             M == Min({Room, W})
  <2>2. W \in Int
    BY <1>5
  <2>3. M \in Int /\ M =< Room /\ M =< W
    <3> HIDE DEF W
    <3> QED
      BY <2>1, <2>2, MinOfTwo
  <2>4. n \in 1 .. M
    OBVIOUS
  <2> HIDE DEF M, W
  <2>5. n \in 1 .. W /\ n =< Room
    BY <2>1, <2>2, <2>3, <2>4
  <2> QED
    BY <2>1, <2>5 DEF W
<1> DEFINE s == SubSeq(wire, 1, n)
           t == SubSeq(wire, n + 1, Len(wire))
<1>8. s \in Seq(Symbols) /\ Len(s) = n
  <2>1. \A k \in 1 .. n : wire[k] \in Symbols
    BY <1>3, <1>5, <1>7, ElementOfSeq
  <2>2. n \in Int /\ 1 \in Int /\ 1 <= n /\ n - 1 + 1 = n
    BY <1>7
  <2> QED
    BY <2>1, <2>2, SubSeqProperties
<1>9. t \in Seq(Symbols)
  <2>1. \A k \in n + 1 .. Len(wire) : wire[k] \in Symbols
    BY <1>3, <1>5, <1>7, ElementOfSeq
  <2>2. n + 1 \in Int /\ Len(wire) \in Int
    BY <1>5, <1>7
  <2> QED
    BY <2>1, <2>2, SubSeqProperties
<1>10. s \o t = wire
  <2>1. SubSeq(wire, 1, n) \o SubSeq(wire, n + 1, Len(wire)) = SubSeq(wire, 1, Len(wire))
    <3> DEFINE W == Len(wire)
    <3>1. 1 \in 1 .. W + 1 /\ n \in 1 - 1 .. W /\ W \in n .. W
      BY <1>5, <1>7
    <3> QED
      BY <1>3, <3>1, ConcatAdjacentSubSeq
  <2>2. SubSeq(wire, 1, Len(wire)) = wire
    BY <1>3, SubSeqFull
  <2> QED
    BY <2>1, <2>2
<1>11. s \in Seq(Symbols)
  BY <1>8
<1>12. Len(s) = n
  BY <1>8
<1> HIDE DEF s, t
<1>13. data' = data \o s /\ wire' = t
  BY <1>6 DEF s, t
<1>14. data \o s \in Seq(Symbols) /\ Len(data \o s) = Len(data) + Len(s)
  BY <1>4, <1>11, Joined
<1>15. (data \o s) \o t = data \o (s \o t)
  BY <1>4, <1>9, <1>11, ConcatAssociative
<1>16. data' \o wire' = p.data \o rest
  BY <1>2, <1>10, <1>13, <1>15 DEF AtData
<1>17. data' \in Seq(Symbols) /\ Len(data') = Len(data) + n
  BY <1>12, <1>13, <1>14
<1>18. phase' = IF Len(data') = remaining_length THEN "dispatch" ELSE "data"
  BY <1>1 DEF ReadData
<1>19. LoopTyped'
  <2>1. Len(data') =< remaining_length
    BY <1>5, <1>7, <1>17
  <2>2. phase' \in {"header", "length", "data", "dispatch"}
    BY <1>18
  <2> QED
    BY <1>1, <1>2, <1>9, <1>13, <1>17, <2>1, <2>2 DEF LoopTyped
<1>20. AtData(p, rest)'
  <2>1. p' = p /\ rest' = rest
    BY <1>1
  <2>2. remaining_length = Len(p.data)
    BY <1>2 DEF AtData
  <2>3. IF phase' = "data" THEN Len(data') < Len(p.data) ELSE Len(data') = Len(p.data)
    BY <1>5, <1>7, <1>17, <1>18, <2>2
  <2> HIDE DEF p, rest
  <2> QED
    BY <1>1, <1>16, <2>1, <2>2, <2>3 DEF AtData
<1>21. phase' \in {"data", "dispatch"}
  BY <1>18
<1> QED
  BY <1>1, <1>2, <1>19, <1>20, <1>21 DEF LoopInv, Framed, HeaderOf

(* The packet that is complete is the first one, as it was sent.           *)
LEMMA CompletePacket ==
  ASSUME LoopInv, Receiving("dispatch")
  PROVE  /\ pending # <<>> /\ IsFrame(Head(pending)) /\ Tail(pending) \in Seq(BrokerPackets)
         /\ header = HeaderOf(Head(pending))
         /\ data = Head(pending).data /\ wire = BytesOf(Tail(pending))
<1> DEFINE p == Head(pending)
           rest == BytesOf(Tail(pending))
           d == p.data
<1>1. link = "open" /\ phase = "dispatch"
  BY DEF Receiving
<1>2. LoopTyped /\ AtData(p, rest) /\ pending # <<>> /\ header = HeaderOf(p)
  BY <1>1 DEF LoopInv, Framed
<1>3. IsFrame(p) /\ rest \in Seq(Symbols) /\ Tail(pending) \in Seq(BrokerPackets)
  BY <1>2, FirstPacket
<1>4. data \o wire = d \o rest /\ Len(data) = Len(d)
  BY <1>1, <1>2 DEF AtData
<1>5. d \in Seq(Symbols)
  BY <1>3 DEF IsFrame
<1>6. rest \in Seq(Symbols)
  BY <1>3
<1>7. data \in Seq(Symbols)
  BY <1>2 DEF LoopTyped
<1>8. wire \in Seq(Symbols)
  BY <1>2 DEF LoopTyped
<1> HIDE DEF d, rest
<1>9. SubSeq(data \o wire, 1, Len(data)) = data
  BY <1>7, <1>8, Parts
<1>10. SubSeq(d \o rest, 1, Len(d)) = d
  BY <1>5, <1>6, Parts
<1>11. data = d
  BY <1>4, <1>9, <1>10
<1>12. Len(wire) = Len(rest)
  <2>1. Len(data \o wire) = Len(data) + Len(wire)
    BY <1>7, <1>8, Joined
  <2>2. Len(d \o rest) = Len(d) + Len(rest)
    BY <1>5, <1>6, Joined
  <2>3. Len(data) \in Nat /\ Len(wire) \in Nat /\ Len(rest) \in Nat
    BY <1>6, <1>7, <1>8, LenProperties
  <2>4. Len(data) + Len(wire) = Len(data) + Len(rest)
    BY <1>4, <2>1, <2>2
  <2> QED
    BY <2>3, <2>4
<1>13. SubSeq(data \o wire, Len(data) + 1, Len(data) + Len(wire)) = wire
  BY <1>7, <1>8, Parts
<1>14. SubSeq(d \o rest, Len(d) + 1, Len(d) + Len(rest)) = rest
  BY <1>5, <1>6, Parts
<1>15. wire = rest
  BY <1>4, <1>12, <1>13, <1>14
<1> QED
  BY <1>2, <1>3, <1>11, <1>15 DEF d, rest

(* After a packet that was handled the next one begins.                    *)
LEMMA ReturnTrueInv ==
  ASSUME LoopInv, Receiving("dispatch"), UNCHANGED wire, ReturnTrue PROVE LoopInv'
<1>1. Tail(pending) \in Seq(BrokerPackets) /\ wire = BytesOf(Tail(pending))
  BY CompletePacket
<1>2. /\ pending' = Tail(pending) /\ wire' = wire /\ link' = "open" /\ phase' = "header"
      /\ header' = NoHeader /\ remaining_length' = 0 /\ i' = 0 /\ data' = <<>>
  BY DEF ReturnTrue, ResetLoop, Receiving
<1>3. <<>> \in Seq(Symbols) /\ Len(<<>>) = 0
  BY EmptySeq
<1>4. NoHeader \in [type : 0 .. 14, flags : 0 .. 15]
  BY DEF NoHeader
<1>5. 0 \in 0 .. Weight(4) - 1
  BY Weights
<1>6. LoopTyped'
  BY <1>1, <1>2, <1>3, <1>4, <1>5 DEF LoopTyped, LoopInv
<1>7. AtHeader'
  BY <1>1, <1>2 DEF AtHeader
<1> QED
  BY <1>2, <1>6, <1>7 DEF LoopInv, Framed

(* A packet is rejected if it should not have been sent.                   *)
LEMMA RejectedInv ==
  ASSUME LoopInv, Rejected PROVE LoopInv'
<1> DEFINE p == Head(pending)
<1>1. Receiving("dispatch") /\ link' = "failed" /\ UNCHANGED loopVars /\ wire' = wire /\ pending' = pending
  BY DEF Rejected, Dispatch, ReturnFalse
<1>2. pending # <<>> /\ IsFrame(p) /\ header = HeaderOf(p) /\ data = p.data
  BY <1>1, CompletePacket
<1>3. header.type = p.type
  BY <1>2 DEF HeaderOf
<1>4. ~Acceptable(p.type, p.data)
  <2>1. ~Acceptable(header.type, data)
    BY Zenon DEF Rejected, Acceptable
  <2> QED
    BY <1>2, <1>3, <2>1
<1>5. ~p.good
  BY <1>2, <1>4 DEF IsFrame
<1>6. LoopTyped'
  BY <1>1 DEF LoopInv, LoopTyped, loopVars
<1> QED
  BY <1>1, <1>2, <1>5, <1>6 DEF LoopInv, Framed

(* The steps that do not touch what recvLoop() works on                    *)
LEMMA LoopUnchangedInv ==
  ASSUME LoopInv, UNCHANGED <<link, wire, pending, loopVars>> PROVE LoopInv'
BY DEF LoopInv, LoopTyped, Framed, AtHeader, AtLength, AtData, LengthOf, HeaderOf, loopVars

(* Open: nothing is on the wire of a new connection.                       *)
LEMMA OpenInv ==
  ASSUME LoopInv, Open PROVE LoopInv'
<1>1. /\ link = "down" /\ link' = "open" /\ wire' = wire /\ pending' = pending /\ phase' = phase
      /\ header' = header /\ remaining_length' = remaining_length /\ i' = i /\ data' = data
  BY DEF Open, loopVars
<1>2. phase = "header" /\ AtHeader /\ LoopTyped
  BY <1>1 DEF LoopInv, Framed
<1>3. AtHeader' /\ LoopTyped'
  BY <1>1, <1>2 DEF AtHeader, LoopTyped
<1> QED
  BY <1>1, <1>2, <1>3 DEF LoopInv, Framed

(* Each step keeps the frames.                                             *)
LEMMA NextLoopInv == LoopInv /\ [Next]_vars => LoopInv'
<1> SUFFICES ASSUME LoopInv, [Next]_vars PROVE LoopInv'
  OBVIOUS
<1>1. CASE Connect \/ UNCHANGED vars \/ \E f \in Filters : Subscribe(f) \/ Unsubscribe(f)
  <2>1. UNCHANGED <<link, wire, pending, loopVars>>
    BY <1>1, Zenon DEF Connect, Subscribe, Unsubscribe, vars, loopVars
  <2> QED
    BY <2>1, LoopUnchangedInv
<1>2. CASE Disconnect \/ SendRefused \/ LinkLost
  <2>1. CloseLink
    BY <1>2, Zenon DEF Disconnect, SendRefused, LinkLost
  <2> QED
    BY <2>1, CloseLinkInv
<1>3. CASE Open
  BY <1>3, OpenInv
<1>4. CASE \E packet \in BrokerPackets : BrokerSends(packet)
  BY <1>4, BrokerSendsInv
<1>5. CASE ReadHeader
  BY <1>5, ReadHeaderInv
<1>6. CASE ReadLength
  BY <1>6, ReadLengthInv
<1>7. CASE ReadData
  BY <1>7, ReadDataInv
<1>8. CASE Accepted \/ MessageReceived \/ Acknowledged
  <2>1. Receiving("dispatch") /\ UNCHANGED wire /\ ReturnTrue
    BY <1>8, Zenon DEF Accepted, MessageReceived, Acknowledged, Dispatch
  <2> QED
    BY <2>1, ReturnTrueInv
<1>9. CASE Rejected
  BY <1>9, RejectedInv
<1> QED
  BY <1>1, <1>2, <1>3, <1>4, <1>5, <1>6, <1>7, <1>8, <1>9, Zenon DEF Next

(* What was read and what is on the wire make up the packets, always.      *)
THEOREM LoopInvariance == Spec => []LoopInv
<1>1. Init => LoopInv
  <2> SUFFICES ASSUME Init PROVE LoopInv
    OBVIOUS
  <2>1. /\ link = "down" /\ wire = <<>> /\ pending = <<>> /\ phase = "header"
        /\ header = NoHeader /\ remaining_length = 0 /\ i = 0 /\ data = <<>>
    BY DEF Init
  <2>2. <<>> \in Seq(BrokerPackets) /\ <<>> \in Seq(Symbols) /\ Len(<<>>) = 0
    BY EmptySeq
  <2>3. NoHeader \in [type : 0 .. 14, flags : 0 .. 15]
    BY DEF NoHeader
  <2>4. 0 \in 0 .. Weight(4) - 1
    BY Weights
  <2>5. LoopTyped
    BY <2>1, <2>2, <2>3, <2>4 DEF LoopTyped
  <2>6. BytesOf(<<>>) = <<>>
    BY <2>2, BytesOfPackets
  <2>7. AtHeader
    BY <2>1, <2>6 DEF AtHeader
  <2> QED
    BY <2>1, <2>5, <2>7 DEF LoopInv, Framed
<1> QED
  BY <1>1, NextLoopInv, PTL DEF Spec

(* recvLoop() never loses the boundaries of packets, however recv() cuts   *)
(* the stream and whenever connections are lost: it begins at a header and *)
(* hands on exactly the fields that were sent.                             *)
THEOREM FramesAreKept == Spec => []FramesKept
<1>1. LoopInv => FramesKept
  <2> SUFFICES ASSUME LoopInv, link = "open" PROVE FramesKept
    BY DEF FramesKept
  <2>1. CASE phase = "header"
    <3>1. AtHeader
      BY <2>1 DEF LoopInv, Framed
    <3> QED
      BY <2>1, <3>1 DEF FramesKept, AtHeader
  <2>2. CASE phase = "dispatch"
    <3>1. header = HeaderOf(Head(pending)) /\ data = Head(pending).data /\ wire = BytesOf(Tail(pending))
      BY <2>2, CompletePacket DEF Receiving
    <3> QED
      BY <2>2, <3>1 DEF FramesKept, HeaderOf
  <2> QED
    BY <2>1, <2>2 DEF FramesKept
<1> QED
  BY <1>1, LoopInvariance, PTL

(* recvLoop() fails only at a packet that a broker should not have sent.   *)
THEOREM GoodPacketsAccepted == Spec => []GoodPacketsAreRead
<1>1. LoopInv => GoodPacketsAreRead
  BY DEF LoopInv, Framed, GoodPacketsAreRead
<1> QED
  BY <1>1, LoopInvariance, PTL

-----------------------------------------------------------------------------
(* Messages and calls *)

(* A PUBLISH whose topic can be read is a message as it was published.     *)
LEMMA ReadableIsMessage ==
  ASSUME NEW p \in BrokerPackets, p.type = PacketType.PUBLISH, StringReadable(p.data)
  PROVE  \E m \in Messages : p.data = WriteString(m.topic) \o m.message
<1>1. /\ PacketType.CONNACK = 2 /\ PacketType.PUBLISH = 3 /\ PacketType.PUBACK = 4
      /\ PacketType.SUBACK = 9 /\ PacketType.UNSUBACK = 11 /\ PacketType.PINGRESP = 13
  BY DEF PacketType
<1>2. \A type, flags, content, good :
        p = Sent(type, flags, content, good) => type = 3 /\ p.data = content
  BY <1>1 DEF Sent
<1>3. p # Overlong
  BY <1>1 DEF Overlong
<1>4. p.data # <<0>>
  <2>1. ~ 1 >= 2
    OBVIOUS
  <2>2. Len(<<0>>) = 1
    OBVIOUS
  <2> QED
    BY <2>1, <2>2, Zenon DEF StringReadable
<1>5. p.data # WriteUint16(1)
  <2> SUFFICES ASSUME p.data = WriteUint16(1) PROVE FALSE
    OBVIOUS
  <2>1. ByteRange \in Nat /\ ByteRange >= 4
    BY DigitType
  <2>2. 1 \div ByteRange = 0 /\ 1 % ByteRange = 1
    <3>1. ByteRange \in Nat \ {0} /\ 0 \in Nat /\ 1 \in 0 .. ByteRange - 1 /\ 1 = 0 * ByteRange + 1
      BY <2>1
    <3> QED
      BY <3>1, Unique
  <2>3. 0 % ByteRange = 0
    <3>1. 0 \in Nat /\ ByteRange \in Nat \ {0} /\ 0 < ByteRange
      BY <2>1
    <3> QED
      BY <3>1, OneDigit
  <2>4. WriteUint16(1) = <<(1 \div ByteRange) % ByteRange, 1 % ByteRange>>
    BY DEF WriteUint16
  <2>5. p.data = <<0, 1>>
    BY <2>2, <2>3, <2>4, Zenon
  <2>6. Len(<<0, 1>>) = 2 /\ Uint16(<<0, 1>>) = 0 * ByteRange + 1
    BY DEF Uint16
  <2>7. Len(p.data) = 2 /\ Uint16(p.data) = 0 * ByteRange + 1
    BY <2>5, <2>6, Zenon
  <2> QED
    BY <2>1, <2>7 DEF StringReadable
<1>6. \/ \E type \in {2, 9, 11, 13} : \E flags, content, good : p = Sent(type, flags, content, good)
      \/ \E m \in Messages :
           p = Sent(PacketType.PUBLISH, IF m.retain THEN 1 ELSE 0, WriteString(m.topic) \o m.message, TRUE)
      \/ \E type : p = Sent(type, 0, <<0>>, FALSE)
      \/ p = Sent(PacketType.PUBLISH, 0, WriteUint16(1), FALSE)
      \/ p = Overlong
  <2>1. \/ p = Sent(PacketType.CONNACK, 0, <<0, 0>>, TRUE)
        \/ p = Sent(PacketType.CONNACK, 0, <<0, 1>>, FALSE)
        \/ p = Sent(PacketType.SUBACK, 0, WriteUint16(1) \o <<0>>, TRUE)
        \/ p = Sent(PacketType.SUBACK, 0, WriteUint16(1) \o <<128>>, TRUE)
        \/ p = Sent(PacketType.UNSUBACK, 0, WriteUint16(1), TRUE)
        \/ p = Sent(PacketType.PINGRESP, 0, <<>>, TRUE)
        \/ \E m \in Messages :
             p = Sent(PacketType.PUBLISH, IF m.retain THEN 1 ELSE 0, WriteString(m.topic) \o m.message, TRUE)
        \/ \E type : p = Sent(type, 0, <<0>>, FALSE)
        \/ p = Sent(PacketType.PUBLISH, 0, WriteUint16(1), FALSE)
        \/ p = Overlong
    BY Zenon DEF BrokerPackets, Overlong
  <2> QED
    BY <1>1, <2>1, Zenon
<1>7. ~ \E type \in {2, 9, 11, 13} : \E flags, content, good : p = Sent(type, flags, content, good)
  BY <1>2
<1>8. ~ \E type : p = Sent(type, 0, <<0>>, FALSE)
  BY <1>2, <1>4, Zenon
<1>9. p # Sent(PacketType.PUBLISH, 0, WriteUint16(1), FALSE)
  BY <1>2, <1>5, Zenon
<1>10. PICK m \in Messages :
         p = Sent(PacketType.PUBLISH, IF m.retain THEN 1 ELSE 0, WriteString(m.topic) \o m.message, TRUE)
  BY <1>3, <1>6, <1>7, <1>8, <1>9, Zenon
<1> QED
  BY <1>2, <1>10, Zenon

(* What messageReceived() does with the message m                          *)
Delivers(m) ==
  calls' = IF state # "CONNECTED" THEN <<>>
           ELSE [n \in DOMAIN FindSubscriptionMatch(m.topic) |->
                   [callback |-> FindSubscriptionMatch(m.topic)[n], message |-> m.message]]

(* It delivers the message that the first packet has.                      *)
LEMMA MessageIsDelivered ==
  ASSUME LoopInv, MessageReceived
  PROVE  /\ \E m \in Messages : Head(pending).data = WriteString(m.topic) \o m.message
         /\ \A m \in Messages : Head(pending).data = WriteString(m.topic) \o m.message => Delivers(m)
<1> DEFINE p == Head(pending)
<1>1. Receiving("dispatch") /\ header.type = PacketType.PUBLISH /\ ~Malformed(header.type, data)
  BY DEF MessageReceived, Dispatch
<1>2. pending # <<>> /\ header = HeaderOf(p) /\ data = p.data
  BY <1>1, CompletePacket
<1>3. p.type = PacketType.PUBLISH
  BY <1>1, <1>2 DEF HeaderOf
<1>4. StringReadable(p.data)
  BY <1>1, <1>2 DEF Malformed
<1>5. p \in BrokerPackets
  <2>1. pending \in Seq(BrokerPackets)
    BY DEF LoopInv, LoopTyped
  <2> QED
    BY <1>2, <2>1, HeadTailProperties
<1>6. \E m \in Messages : p.data = WriteString(m.topic) \o m.message
  <2> HIDE DEF p
  <2> QED
    BY <1>3, <1>4, <1>5, ReadableIsMessage
<1>7. ASSUME NEW m \in Messages, p.data = WriteString(m.topic) \o m.message PROVE Delivers(m)
  <2>1. m.topic \in Seq(Symbols) /\ m.message \in Seq(Symbols) /\ Len(m.topic) < ByteRange * ByteRange
    <3>1. Len(m.topic) \in 1 .. ByteRange * ByteRange - 1 /\ ByteRange * ByteRange \in Nat
      BY DeliveryAssumption, DigitType DEF DeliveryAssumption
    <3> QED
      BY <3>1, StringsAreSequences
  <2> DEFINE t == m.topic
             g == m.message
  <2>2. t \in Seq(Symbols) /\ Len(t) < ByteRange * ByteRange
    BY <2>1
  <2>3. g \in Seq(Symbols)
    BY <2>1
  <2>4. data = WriteString(t) \o g
    BY <1>2, <1>7
  <2> HIDE DEF t, g
  <2>5. ReadString(data) = t /\ ReadRemaining(data) = g
    BY <2>2, <2>3, <2>4, TopicIsReadable
  <2>6. calls' = IF state # "CONNECTED" THEN <<>>
                 ELSE [n \in DOMAIN FindSubscriptionMatch(ReadString(data)) |->
                         [callback |-> FindSubscriptionMatch(ReadString(data))[n],
                          message |-> ReadRemaining(data)]]
    BY Zenon DEF MessageReceived
  <2> QED
    BY <2>5, <2>6, Zenon DEF Delivers, t, g
<1> QED
  BY <1>6, <1>7

(* A message has no level that is a wildcard.                              *)
LEMMA TopicsAre ==
  ASSUME NEW m \in Messages
  PROVE  /\ m.topic \in Seq(Characters) /\ Len(m.topic) \in Nat \ {0}
         /\ \A k \in 1 .. Len(m.topic) : m.topic[k] \notin {Plus, Hash}
<1>1. m.topic \in Seq(Characters)
  BY DeliveryAssumption DEF DeliveryAssumption
<1>2. Len(m.topic) \in Nat /\ DOMAIN m.topic = 1 .. Len(m.topic)
  BY <1>1, LenProperties
<1>3. Len(m.topic) \in 1 .. ByteRange * ByteRange - 1 /\ \A k \in DOMAIN m.topic : m.topic[k] \notin {Plus, Hash}
  BY DeliveryAssumption DEF DeliveryAssumption
<1> QED
  BY <1>1, <1>2, <1>3

(* Callbacks are called with messages that were published.                 *)
Calls == [callback : Filters, message : {m.message : m \in Messages}]

(* The values of the variables that are about the application              *)
CallsTyped == state \in {"DISCONNECTED", "CONNECTING", "CONNECTED"} /\ calls \in Seq(Calls)

(* A message that is delivered makes calls of this kind.                   *)
LEMMA DeliveredAreCalls ==
  ASSUME TreeTypeOK, OwnCallbacks, NEW m \in Messages, Delivers(m) PROVE calls' \in Seq(Calls)
<1> DEFINE called == FindSubscriptionMatch(m.topic)
<1>1. called \in Seq(Filters)
  <2>1. IsFilter(<<>>)
    BY EmptySeq DEF IsFilter
  <2> QED
    BY <2>1, TopicsAre, MatchCounts
<1>2. CASE state # "CONNECTED"
  BY <1>2, EmptySeq DEF Delivers
<1>3. CASE state = "CONNECTED"
  <2>1. calls' = [n \in DOMAIN called |-> [callback |-> called[n], message |-> m.message]]
    BY <1>3 DEF Delivers
  <2> HIDE DEF called
  <2>2. DOMAIN called = 1 .. Len(called) /\ Len(called) \in Nat /\ \A n \in 1 .. Len(called) : called[n] \in Filters
    BY <1>1, LenProperties, ElementOfSeq
  <2>3. \A n \in 1 .. Len(called) : [callback |-> called[n], message |-> m.message] \in Calls
    BY <2>2 DEF Calls
  <2> QED
    BY <2>1, <2>2, <2>3
<1> QED
  BY <1>2, <1>3

(* Only messageReceived() makes calls.                                     *)
LEMMA NextCallsTyped ==
  TreeInv /\ OwnCallbacks /\ LoopInv /\ CallsTyped /\ [Next]_vars => CallsTyped'
<1> SUFFICES ASSUME TreeInv, OwnCallbacks, LoopInv, CallsTyped, [Next]_vars PROVE CallsTyped'
  OBVIOUS
<1>1. state' \in {"DISCONNECTED", "CONNECTING", "CONNECTED"}
  BY DEF CallsTyped, Next, vars, Connect, Disconnect, SendRefused, Subscribe, Unsubscribe, Open, LinkLost,
         BrokerSends, ReadHeader, ReadLength, ReadData, Accepted, MessageReceived, Acknowledged, Rejected
<1>2. calls' = calls \/ calls' = <<>> \/ MessageReceived
  BY Zenon DEF Next, vars, Connect, Disconnect, SendRefused, Subscribe, Unsubscribe, Open, LinkLost,
               CloseLink, BrokerSends, ReadHeader, ReadLength, ReadData, ReturnFalse, Accepted,
               Acknowledged, Rejected
<1>3. CASE MessageReceived
  <2>1. PICK m \in Messages : Head(pending).data = WriteString(m.topic) \o m.message
    BY <1>3, MessageIsDelivered
  <2>2. Delivers(m)
    BY <1>3, <2>1, MessageIsDelivered
  <2>3. calls' \in Seq(Calls)
    BY <2>2, DeliveredAreCalls DEF TreeInv
  <2> QED
    BY <1>1, <2>3 DEF CallsTyped, Calls
<1>4. calls' \in Seq(Calls) => CallsTyped'
  BY <1>1 DEF CallsTyped, Calls
<1>5. calls \in Seq(Calls) /\ <<>> \in Seq(Calls)
  BY EmptySeq DEF CallsTyped
<1> QED
  BY <1>2, <1>3, <1>4, <1>5

DeliveryInv == TreeInv /\ OwnCallbacks /\ LoopInv /\ CallsTyped

(* The tree, the stream and the calls together                             *)
THEOREM DeliveryInvariance == Spec => []DeliveryInv
<1>1. Init => OwnCallbacks /\ CallsTyped
  <2> SUFFICES ASSUME Init PROVE OwnCallbacks /\ CallsTyped
    OBVIOUS
  <2>1. DOMAIN m_subscriptions = {}
    BY DEF Init, TreeInit, NoNodes
  <2>2. calls \in Seq(Calls)
    BY EmptySeq DEF Init
  <2> QED
    BY <2>1, <2>2 DEF Init, OwnCallbacks, CallsTyped
<1>2. TreeInv /\ LoopInv /\ OwnCallbacks /\ CallsTyped /\ [Next]_vars => (OwnCallbacks /\ CallsTyped)'
  BY NextOwnCallbacks, NextCallsTyped
<1> QED
  BY <1>1, <1>2, TreeInvariance, LoopInvariance, PTL DEF Spec, DeliveryInv

(* The variables of Delivery keep their types: lengths that were read fit  *)
(* into four digits, no more data are read than the length says, and what  *)
(* is called are callbacks of the application with messages as published.  *)
THEOREM DeliveryTypes == Spec => []TypeOK
<1>1. DeliveryInv => TypeOK
  <2> SUFFICES ASSUME DeliveryInv PROVE TypeOK
    OBVIOUS
  <2>1. TreeTypeOK /\ LoopTyped /\ CallsTyped
    BY DEF DeliveryInv, TreeInv, LoopInv
  <2>2. ToSet(pending) \subseteq BrokerPackets
    <3>1. pending \in Seq(BrokerPackets)
      BY <2>1 DEF LoopTyped
    <3> QED
      BY <3>1, LenProperties, ElementOfSeq DEF ToSet
  <2>3. ToSet(calls) \subseteq Calls
    <3>1. calls \in Seq(Calls)
      BY <2>1 DEF CallsTyped
    <3> QED
      BY <3>1, LenProperties, ElementOfSeq DEF ToSet
  <2> QED
    BY <2>1, <2>2, <2>3 DEF TypeOK, LoopTyped, CallsTyped, Calls
<1> QED
  BY <1>1, DeliveryInvariance, PTL

(* The step that takes the packet of a message is messageReceived().       *)
LEMMA HandledByReceived ==
  ASSUME LoopInv, Next, NEW m \in Messages, HandlesMessage(m) PROVE MessageReceived
<1> DEFINE p == Head(pending)
<1>1. /\ pending # <<>> /\ p.type = PacketType.PUBLISH /\ pending' = Tail(pending) /\ link' = "open"
  BY DEF HandlesMessage
<1>2. pending \in Seq(BrokerPackets)
  BY DEF LoopInv, LoopTyped
<1>3. Tail(pending) \in Seq(BrokerPackets) /\ Len(Tail(pending)) = Len(pending) - 1 /\ Len(pending) \in Nat
  BY <1>1, <1>2, HeadTailProperties, LenProperties
<1> DEFINE N == Len(pending)
<1>4. pending' # pending
  <2>1. Len(pending') = N - 1 /\ N \in Nat
    BY <1>1, <1>3, Zenon
  <2> HIDE DEF N
  <2>2. N - 1 # N
    BY <2>1
  <2> QED
    BY <2>1, <2>2, Zenon DEF N
<1>5. ASSUME NEW packet \in BrokerPackets PROVE pending' # Append(pending, packet)
  <2>1. Len(Append(pending, packet)) = N + 1
    BY <1>2, AppendProperties
  <2>2. Len(pending') = N - 1 /\ N \in Nat
    BY <1>1, <1>3, Zenon
  <2> HIDE DEF N
  <2>3. N - 1 # N + 1
    BY <2>2
  <2> QED
    BY <2>1, <2>2, <2>3, Zenon
<1>6. ~CloseLink
  BY <1>1 DEF CloseLink
<1>7. ~Accepted /\ ~Acknowledged
  <2> SUFFICES ASSUME Accepted \/ Acknowledged PROVE FALSE
    OBVIOUS
  <2>1. Receiving("dispatch") /\ header.type \in {PacketType.CONNACK, PacketType.SUBACK, PacketType.UNSUBACK,
                                                  PacketType.PINGRESP}
    BY DEF Accepted, Acknowledged, Dispatch
  <2>2. header = HeaderOf(p)
    BY <2>1, CompletePacket
  <2>3. header.type = PacketType.PUBLISH
    BY <1>1, <2>2 DEF HeaderOf
  <2> QED
    BY <2>1, <2>3 DEF PacketType
<1>8. ~(UNCHANGED pending)
  BY <1>4
<1> QED
  BY <1>5, <1>6, <1>7, <1>8, Zenon
     DEF Next, Connect, Disconnect, SendRefused, Subscribe, Unsubscribe, Open, LinkLost, BrokerSends,
         ReadHeader, ReadLength, ReadData, Rejected

(* A delivered message calls a filter as often as it occurs.               *)
LEMMA TimesCalledIs ==
  ASSUME TreeTypeOK, OwnCallbacks, NEW m \in Messages, Delivers(m), state = "CONNECTED", NEW f \in Filters
  PROVE  TimesCalled(f, m.message)' = Count(f, FindSubscriptionMatch(m.topic))
<1> DEFINE called == FindSubscriptionMatch(m.topic)
           g == m.message
<1>1. calls' = [n \in DOMAIN called |-> [callback |-> called[n], message |-> g]]
  BY DEF Delivers
<1> HIDE DEF called, g
<1>2. {n \in DOMAIN calls' : calls'[n] = [callback |-> f, message |-> g]} = Places(f, called)
  <2>1. DOMAIN calls' = DOMAIN called
    BY <1>1
  <2>2. \A n \in DOMAIN called : calls'[n] = [callback |-> called[n], message |-> g]
    BY <1>1
  <2>3. \A x : [callback |-> x, message |-> g] = [callback |-> f, message |-> g] <=> x = f
    <3> SUFFICES ASSUME NEW x, [callback |-> x, message |-> g] = [callback |-> f, message |-> g] PROVE x = f
      OBVIOUS
    <3>1. [callback |-> x, message |-> g].callback = [callback |-> f, message |-> g].callback
      OBVIOUS
    <3> QED
      BY <3>1
  <2> QED
    BY <2>1, <2>2, <2>3 DEF Places
<1> QED
  BY <1>2 DEF TimesCalled, Count, called, g

(* From the bytes to the callbacks: each message calls the callbacks of    *)
(* all topics that match it level by level, as often as they were          *)
(* subscribed, and with the message as it was sent, for all topics,        *)
(* filters and messages.                                                   *)
THEOREM MessagesReachCallbacks == Spec => MatchingAreCalled
<1> DEFINE A == \A m \in Messages, f \in Filters :
                  HandlesMessage(m) /\ MatchesBelow(f, m.topic) =>
                    TimesCalled(f, m.message)' = Len(CallbacksAt(f))
<1>1. DeliveryInv /\ [Next]_vars => [A]_vars
  <2> SUFFICES ASSUME DeliveryInv, Next, NEW m \in Messages, NEW f \in Filters,
                      HandlesMessage(m), MatchesBelow(f, m.topic)
               PROVE  TimesCalled(f, m.message)' = Len(CallbacksAt(f))
    OBVIOUS
  <2>1. TreeTypeOK /\ OwnCallbacks /\ LoopInv
    BY DEF DeliveryInv, TreeInv
  <2>2. MessageReceived
    BY <2>1, HandledByReceived
  <2>3. Delivers(m) /\ state = "CONNECTED"
    BY <2>1, <2>2, MessageIsDelivered DEF HandlesMessage
  <2>4. TimesCalled(f, m.message)' = Count(f, FindSubscriptionMatch(m.topic))
    BY <2>1, <2>3, TimesCalledIs
  <2>5. IsFilter(f)
    BY DEF IsFilter
  <2>6. CallsAll(FindSubscriptionMatch(m.topic), f, Below(f, m.topic, <<>>))
    BY <2>1, <2>5, TopicsAre, MatchCounts
  <2>7. Below(f, m.topic, <<>>)
    <3> DEFINE t == m.topic
    <3>1. t \in Seq(Characters) /\ Len(t) \in Nat \ {0}
      BY TopicsAre
    <3>2. t \in Seq(Characters)
      BY <3>1
    <3>3. Len(t) > 0
      BY <3>1
    <3> HIDE DEF t
    <3>4. MatchesBelow(f, t)
      BY Zenon DEF t
    <3>5. Below(f, t, <<>>)
      BY <3>2, <3>3, <3>4, MatchingIsBelow
    <3> QED
      BY <3>5 DEF t
  <2> QED
    BY <2>4, <2>6, <2>7, Zenon DEF CallsAll
<1> QED
  BY <1>1, DeliveryInvariance, PTL DEF Spec, MatchingAreCalled

=============================================================================
