--------------------------- MODULE YMsgStreamProofs ---------------------------
(***************************************************************************)
(* The stream between a messenger and its session is a channel: for every  *)
(* header and payload size, every number of packets and every way to cut   *)
(* the bytes, the detailed YMsgStream implements YMsgChannel.              *)
(*                                                                         *)
(* The argument is one of conservation: until the connection is gone, the  *)
(* bytes in data_, in the socket and on the wire are, in this order, the   *)
(* bytes of stream behind the packets that have been dispatched.  So data_ *)
(* starts at a packet, the size read from it is that packet's, and what    *)
(* Consume hands over and erases is the next packet.                       *)
(*                                                                         *)
(* The second theorem bounds what a read may leave behind in data_.        *)
(***************************************************************************)
EXTENDS YMsgStream, SequenceTheorems, FiniteSetTheorems, TLAPS

-----------------------------------------------------------------------------
(* Sequences.                                                              *)

Drop(s, k) == SubSeq(s, k + 1, Len(s))

\* What is left of a sequence without its first k elements.
LEMMA DropProperties ==
    ASSUME NEW S, NEW s \in Seq(S), NEW k \in 0 .. Len(s)
    PROVE  /\ Drop(s, k) \in Seq(S)
           /\ Len(Drop(s, k)) = Len(s) - k
           /\ \A i \in 1 .. Len(s) - k : Drop(s, k)[i] = s[k + i]
  <1>1. Len(s) \in Nat /\ k \in Int /\ k + 1 \in Int /\ \A i \in k + 1 .. Len(s) : s[i] \in S
    BY LenProperties
  <1>2. /\ SubSeq(s, k + 1, Len(s)) \in Seq(S)
        /\ Len(SubSeq(s, k + 1, Len(s)))
             = IF k + 1 <= Len(s) THEN Len(s) - (k + 1) + 1 ELSE 0
        /\ \A i \in 1 .. Len(s) - (k + 1) + 1 : SubSeq(s, k + 1, Len(s))[i] = s[k + 1 + i - 1]
    BY <1>1, SubSeqProperties
  <1> QED
    BY <1>1, <1>2 DEF Drop

\* The first k elements of a sequence.
LEMMA TakeProperties ==
    ASSUME NEW S, NEW s \in Seq(S), NEW k \in 0 .. Len(s)
    PROVE  /\ SubSeq(s, 1, k) \in Seq(S)
           /\ Len(SubSeq(s, 1, k)) = k
           /\ \A i \in 1 .. k : SubSeq(s, 1, k)[i] = s[i]
  <1>1. Len(s) \in Nat /\ k \in Int /\ 1 \in Int /\ \A i \in 1 .. k : s[i] \in S
    BY LenProperties
  <1>2. /\ SubSeq(s, 1, k) \in Seq(S)
        /\ Len(SubSeq(s, 1, k)) = IF 1 <= k THEN k - 1 + 1 ELSE 0
        /\ \A i \in 1 .. k - 1 + 1 : SubSeq(s, 1, k)[i] = s[1 + i - 1]
    BY <1>1, SubSeqProperties
  <1> QED
    BY <1>1, <1>2

\* What is taken from the front and what is left make the whole.
LEMMA TakeDrop ==
    ASSUME NEW S, NEW s \in Seq(S), NEW k \in 0 .. Len(s)
    PROVE  SubSeq(s, 1, k) \o Drop(s, k) = s
  <1>1. Len(s) \in Nat
    BY LenProperties
  <1>2. SubSeq(s, 1, k) \o SubSeq(s, k + 1, Len(s)) = SubSeq(s, 1, Len(s))
    <2>1. 1 \in 1 .. Len(s) + 1 /\ k \in 1 - 1 .. Len(s) /\ Len(s) \in k .. Len(s)
      BY <1>1
    <2> QED
      BY <2>1, ConcatAdjacentSubSeq
  <1> QED
    BY <1>2, SubSeqFull DEF Drop

\* Dropping from a concatenation, within its first part.
LEMMA DropConcat ==
    ASSUME NEW S, NEW s \in Seq(S), NEW t \in Seq(S), NEW k \in 0 .. Len(s)
    PROVE  Drop(s \o t, k) = Drop(s, k) \o t
  <1>1. Len(s) \in Nat /\ Len(t) \in Nat
    BY LenProperties
  <1>2. /\ s \o t \in Seq(S)
        /\ Len(s \o t) = Len(s) + Len(t)
        /\ \A i \in 1 .. Len(s) + Len(t) :
              (s \o t)[i] = IF i <= Len(s) THEN s[i] ELSE t[i - Len(s)]
    BY ConcatProperties
  <1>3. /\ Drop(s, k) \in Seq(S)
        /\ Len(Drop(s, k)) = Len(s) - k
        /\ \A i \in 1 .. Len(s) - k : Drop(s, k)[i] = s[k + i]
    BY DropProperties
  <1>4. k \in 0 .. Len(s \o t)
    BY <1>1, <1>2
  <1>5. /\ Drop(s \o t, k) \in Seq(S)
        /\ Len(Drop(s \o t, k)) = Len(s \o t) - k
        /\ \A i \in 1 .. Len(s \o t) - k : Drop(s \o t, k)[i] = (s \o t)[k + i]
    BY <1>2, <1>4, DropProperties
  <1>6. /\ Drop(s, k) \o t \in Seq(S)
        /\ Len(Drop(s, k) \o t) = Len(Drop(s, k)) + Len(t)
        /\ \A i \in 1 .. Len(Drop(s, k)) + Len(t) :
              (Drop(s, k) \o t)[i]
                 = IF i <= Len(Drop(s, k)) THEN Drop(s, k)[i] ELSE t[i - Len(Drop(s, k))]
    BY <1>3, ConcatProperties
  <1>7. Len(Drop(s \o t, k)) = Len(Drop(s, k) \o t)
    BY <1>1, <1>2, <1>3, <1>5, <1>6
  <1>8. ASSUME NEW i \in 1 .. Len(s) + Len(t) - k
        PROVE  Drop(s \o t, k)[i] = (Drop(s, k) \o t)[i]
    <2>1. Drop(s \o t, k)[i] = IF k + i <= Len(s) THEN s[k + i] ELSE t[k + i - Len(s)]
      BY <1>1, <1>2, <1>5
    <2>2. (Drop(s, k) \o t)[i] = IF i <= Len(s) - k THEN s[k + i] ELSE t[i - (Len(s) - k)]
      BY <1>1, <1>3, <1>6
    <2>3. i - (Len(s) - k) = k + i - Len(s)
      BY <1>1
    <2> QED
      BY <1>1, <2>1, <2>2, <2>3
  <1>9. Len(Drop(s \o t, k)) = Len(s) + Len(t) - k
    BY <1>2, <1>5
  <1>10. \A i \in 1 .. Len(Drop(s \o t, k)) : Drop(s \o t, k)[i] = (Drop(s, k) \o t)[i]
    BY <1>8, <1>9
  <1> QED
    BY <1>5, <1>6, <1>7, <1>10, SeqEqual

\* Dropping twice is dropping once.
LEMMA DropDrop ==
    ASSUME NEW S, NEW s \in Seq(S), NEW m \in 0 .. Len(s), NEW k \in 0 .. Len(s) - m
    PROVE  Drop(Drop(s, m), k) = Drop(s, m + k)
  <1>1. Len(s) \in Nat /\ m \in Nat /\ k \in Nat /\ m + k \in 0 .. Len(s)
    BY LenProperties
  <1>2. /\ Drop(s, m) \in Seq(S)
        /\ Len(Drop(s, m)) = Len(s) - m
        /\ \A i \in 1 .. Len(s) - m : Drop(s, m)[i] = s[m + i]
    BY DropProperties
  <1>3. /\ Drop(s, m + k) \in Seq(S)
        /\ Len(Drop(s, m + k)) = Len(s) - (m + k)
        /\ \A i \in 1 .. Len(s) - (m + k) : Drop(s, m + k)[i] = s[m + k + i]
    BY <1>1, DropProperties
  <1>4. k \in 0 .. Len(Drop(s, m))
    BY <1>2
  <1>5. /\ Drop(Drop(s, m), k) \in Seq(S)
        /\ Len(Drop(Drop(s, m), k)) = Len(Drop(s, m)) - k
        /\ \A i \in 1 .. Len(Drop(s, m)) - k : Drop(Drop(s, m), k)[i] = Drop(s, m)[k + i]
    BY <1>2, <1>4, DropProperties
  <1>6. Len(Drop(Drop(s, m), k)) = Len(Drop(s, m + k))
    <2>1. (Len(s) - m) - k = Len(s) - (m + k)
      BY <1>1
    <2>2. Len(Drop(Drop(s, m), k)) = (Len(s) - m) - k
      BY <1>2, <1>5
    <2> QED
      BY <1>3, <2>1, <2>2
  <1>7. ASSUME NEW i \in 1 .. Len(s) - (m + k)
        PROVE  Drop(Drop(s, m), k)[i] = Drop(s, m + k)[i]
    <2>1. i \in 1 .. Len(Drop(s, m)) - k /\ k + i \in 1 .. Len(s) - m /\ m + (k + i) = m + k + i
      BY <1>1, <1>2
    <2> QED
      BY <1>2, <1>3, <1>5, <2>1
  <1>8. \A i \in 1 .. Len(Drop(Drop(s, m), k)) : Drop(Drop(s, m), k)[i] = Drop(s, m + k)[i]
    BY <1>3, <1>6, <1>7
  <1> QED
    BY <1>3, <1>5, <1>6, <1>8, SeqEqual

-----------------------------------------------------------------------------
(* The inductive invariant.                                                *)

\* The packets the instance can send.
AnyPacket == {RawPacket(n, payloadSize) : n \in 1 .. MaxPackets, payloadSize \in PayloadSizes}

\* The stream is the packets sent, one behind the other, each with its size
\* in its header.
Layout ==
    /\ Len(ends) <= MaxPackets
    /\ StartOf(Len(ends) + 1) = Len(stream)
    /\ \A n \in 1 .. Len(ends) :
          /\ StartOf(n) \in Nat
          /\ StartOf(n) + HeaderSize <= ends[n]
          /\ ends[n] <= Len(stream)
          /\ stream[StartOf(n) + SizeAt].value = ends[n] - StartOf(n) - HeaderSize
          /\ SubSeq(stream, StartOf(n) + 1, ends[n]) \in AnyPacket

\* What has been dispatched is a prefix of what was sent.
InOrder ==
    /\ Len(dispatched) <= Len(ends)
    /\ \A n \in 1 .. Len(dispatched) : dispatched[n] = SubSeq(stream, StartOf(n) + 1, ends[n])

\* The callback runs for the attached socket, and unless the connection broke
\* since then there is as much to read as FIONREAD said.
Announced ==
    pump = "callback" => attached /\ (peer # "reset" => incoming <= Len(socket))

\* The bytes between the messenger and the dispatcher are those behind the
\* last packet dispatched.
Taken == StartOf(Len(dispatched) + 1)
Conserved ==
    Connected /\ peer # "reset" => (data \o socket) \o wire = Drop(stream, Taken)

IInv == TypeOK /\ Layout /\ InOrder /\ Announced /\ Conserved

-----------------------------------------------------------------------------
(* Packets and bytes.                                                      *)

\* A packet is a sequence of bytes with the payload's size in its header.
LEMMA PacketIsBytes ==
    ASSUME NEW n \in 1 .. MaxPackets, NEW payloadSize \in PayloadSizes
    PROVE  /\ RawPacket(n, payloadSize) \in Seq(Byte)
           /\ RawPacket(n, payloadSize) \in AnyPacket
           /\ Len(RawPacket(n, payloadSize)) = HeaderSize + payloadSize
           /\ RawPacket(n, payloadSize)[SizeAt].value = payloadSize
  <1>1. /\ HeaderSize \in Nat /\ SizeAt \in 1 .. HeaderSize /\ payloadSize \in Nat
        /\ HeaderSize + payloadSize \in Nat
        /\ SizeAt \in 1 .. HeaderSize + payloadSize
    BY StreamAssumption
  <1>2. \A at \in 1 .. HeaderSize + payloadSize :
           [packet |-> n, at |-> at, value |-> IF at = SizeAt THEN payloadSize ELSE 0] \in Byte
    BY <1>1 DEF Byte
  <1>3. RawPacket(n, payloadSize) \in [1 .. HeaderSize + payloadSize -> Byte]
    BY <1>2 DEF RawPacket
  <1>4. RawPacket(n, payloadSize) \in Seq(Byte)
    BY <1>1, <1>3
  <1>5. Len(RawPacket(n, payloadSize)) = HeaderSize + payloadSize
    BY <1>1, <1>3, <1>4, LenProperties
  <1>6. RawPacket(n, payloadSize)[SizeAt].value = payloadSize
    BY <1>1 DEF RawPacket
  <1> QED
    BY <1>4, <1>5, <1>6 DEF AnyPacket

\* Where the packets begin and end.
LEMMA Places ==
    ASSUME TypeOK, Layout, InOrder
    PROVE  /\ Len(ends) \in Nat /\ Len(stream) \in Nat /\ Len(dispatched) \in Nat
           /\ Taken \in 0 .. Len(stream)
           /\ \A n \in 1 .. Len(ends) : ends[n] \in Nat /\ StartOf(n + 1) = ends[n]
           /\ StartOf(1) = 0
  <1>1. Len(ends) \in Nat /\ Len(stream) \in Nat /\ Len(dispatched) \in Nat
    BY LenProperties DEF TypeOK
  <1>2. \A n \in 1 .. Len(ends) : ends[n] \in Nat /\ StartOf(n + 1) = ends[n]
    BY <1>1, ElementOfSeq DEF TypeOK, StartOf
  <1>3. StartOf(1) = 0
    BY DEF StartOf
  <1>4. Taken \in 0 .. Len(stream)
    <2>1. CASE Len(dispatched) = 0
      BY <1>1, <1>3, <2>1 DEF Taken
    <2>2. CASE Len(dispatched) # 0
      <3>1. Len(dispatched) \in 1 .. Len(ends)
        BY <1>1, <2>2 DEF InOrder
      <3>2. Taken = ends[Len(dispatched)] /\ ends[Len(dispatched)] <= Len(stream)
        BY <1>2, <3>1 DEF Taken, Layout
      <3> QED
        BY <1>1, <1>2, <3>1, <3>2
    <2> QED
      BY <2>1, <2>2
  <1> QED
    BY <1>1, <1>2, <1>3, <1>4

\* A packet is the part of stream between its start and its end.
LEMMA PacketInStream ==
    ASSUME TypeOK, Layout, NEW n \in 1 .. Len(ends)
    PROVE  LET p == SubSeq(stream, StartOf(n) + 1, ends[n])
           IN  /\ p \in Seq(Byte)
               /\ Len(p) = ends[n] - StartOf(n)
               /\ \A i \in 1 .. ends[n] - StartOf(n) : p[i] = stream[StartOf(n) + i]
  <1>1. /\ ends[n] \in Nat /\ StartOf(n) \in Nat /\ Len(stream) \in Nat /\ HeaderSize \in Nat
        /\ StartOf(n) <= ends[n] /\ ends[n] <= Len(stream)
    <2>1. ends[n] \in Nat /\ Len(stream) \in Nat
      BY ElementOfSeq, LenProperties DEF TypeOK
    <2> QED
      BY <2>1, StreamAssumption DEF Layout
  <1>2. /\ StartOf(n) + 1 \in Int /\ ends[n] \in Int
        /\ \A i \in StartOf(n) + 1 .. ends[n] : stream[i] \in Byte
    BY <1>1, ElementOfSeq DEF TypeOK
  <1>3. /\ SubSeq(stream, StartOf(n) + 1, ends[n]) \in Seq(Byte)
        /\ Len(SubSeq(stream, StartOf(n) + 1, ends[n]))
             = IF StartOf(n) + 1 <= ends[n] THEN ends[n] - (StartOf(n) + 1) + 1 ELSE 0
        /\ \A i \in 1 .. ends[n] - (StartOf(n) + 1) + 1 :
              SubSeq(stream, StartOf(n) + 1, ends[n])[i] = stream[StartOf(n) + 1 + i - 1]
    BY <1>2, SubSeqProperties
  <1> QED
    BY <1>1, <1>3

\* The heart of the argument: what HasPacket accepts at the front of the
\* bytes at hand is the next packet.
LEMMA NextPacket ==
    ASSUME TypeOK, Layout, InOrder,
           NEW bytes \in Seq(Byte), NEW rest \in Seq(Byte),
           bytes \o rest = Drop(stream, Taken),
           HasPacket(bytes)
    PROVE  LET next == Len(dispatched) + 1
               size == HeaderSize + PayloadSize(bytes)
           IN  /\ next \in 1 .. Len(ends)
               /\ size \in 1 .. Len(bytes)
               /\ size = ends[next] - StartOf(next)
               /\ SubSeq(bytes, 1, size) = SubSeq(stream, StartOf(next) + 1, ends[next])
  <1> DEFINE next == Len(dispatched) + 1
             size == HeaderSize + PayloadSize(bytes)
  <1>1. /\ Len(ends) \in Nat /\ Len(stream) \in Nat /\ Len(dispatched) \in Nat
        /\ Taken \in 0 .. Len(stream)
        /\ Taken = StartOf(next)
        /\ HeaderSize \in Nat /\ SizeAt \in 1 .. HeaderSize
        /\ Len(bytes) \in Nat /\ Len(rest) \in Nat
    BY Places, StreamAssumption, LenProperties DEF Taken
  <1>2. /\ Len(Drop(stream, Taken)) = Len(stream) - Taken
        /\ \A i \in 1 .. Len(stream) - Taken : Drop(stream, Taken)[i] = stream[Taken + i]
    BY <1>1, DropProperties DEF TypeOK
  <1>3. /\ Len(bytes) + Len(rest) = Len(stream) - Taken
        /\ \A i \in 1 .. Len(bytes) : bytes[i] = stream[Taken + i]
    <2>1. /\ Len(bytes \o rest) = Len(bytes) + Len(rest)
          /\ \A i \in 1 .. Len(bytes) + Len(rest) :
                (bytes \o rest)[i] = IF i <= Len(bytes) THEN bytes[i] ELSE rest[i - Len(bytes)]
      BY ConcatProperties
    <2>2. Len(bytes) + Len(rest) = Len(stream) - Taken
      BY <1>2, <2>1
    <2>3. ASSUME NEW i \in 1 .. Len(bytes)
          PROVE  bytes[i] = stream[Taken + i]
      <3>1. i \in 1 .. Len(bytes) + Len(rest) /\ i \in 1 .. Len(stream) - Taken
        BY <1>1, <2>2
      <3>2. (bytes \o rest)[i] = bytes[i]
        BY <1>1, <2>1, <3>1
      <3>3. Drop(stream, Taken)[i] = stream[Taken + i]
        BY <1>2, <3>1
      <3> QED
        BY <3>2, <3>3
    <2> QED
      BY <2>2, <2>3
  <1>4. Len(bytes) >= HeaderSize /\ SizeAt \in 1 .. Len(bytes)
    BY <1>1 DEF HasPacket, HasHeader
  <1>5. next \in 1 .. Len(ends)
    <2>1. Len(stream) > StartOf(next)
      BY <1>1, <1>3, <1>4
    <2>2. StartOf(Len(ends) + 1) = Len(stream)
      BY DEF Layout
    <2>3. Len(dispatched) # Len(ends)
      BY <1>1, <2>1, <2>2
    <2> QED
      BY <1>1, <2>3 DEF InOrder
  <1>6. size = ends[next] - StartOf(next) /\ ends[next] \in Nat
    <2>1. bytes[SizeAt].value = ends[next] - StartOf(next) - HeaderSize /\ ends[next] \in Nat
      BY <1>1, <1>3, <1>4, <1>5, Places DEF Layout
    <2> QED
      BY <1>1, <2>1 DEF PayloadSize
  <1>7. size \in 1 .. Len(bytes)
    <2>1. size >= HeaderSize /\ size \in Int
      <3>1. StartOf(next) \in Nat /\ StartOf(next) + HeaderSize <= ends[next]
        BY <1>1, <1>5 DEF Layout
      <3>2. size = ends[next] - StartOf(next) /\ ends[next] \in Nat /\ HeaderSize \in Nat
        BY <1>6, StreamAssumption
      <3> HIDE DEF size, next
      <3> QED
        BY <3>1, <3>2
    <2>2. Len(bytes) >= size
      <3>1. Len(bytes) >= PayloadSize(bytes) + HeaderSize
        BY DEF HasPacket
      <3>2. PayloadSize(bytes) \in Nat
        <4>1. bytes[SizeAt] \in Byte
          BY <1>4, ElementOfSeq
        <4> QED
          BY <4>1 DEF PayloadSize, Byte
      <3> QED
        BY <1>1, <3>1, <3>2
    <2> QED
      BY <1>1, <2>1, <2>2
  <1>8. SubSeq(bytes, 1, size) = SubSeq(stream, StartOf(next) + 1, ends[next])
    <2> DEFINE packet == SubSeq(stream, StartOf(next) + 1, ends[next])
    <2>1. /\ packet \in Seq(Byte)
          /\ Len(packet) = ends[next] - StartOf(next)
          /\ \A i \in 1 .. ends[next] - StartOf(next) : packet[i] = stream[StartOf(next) + i]
      BY <1>5, PacketInStream
    <2>2. /\ SubSeq(bytes, 1, size) \in Seq(Byte)
          /\ Len(SubSeq(bytes, 1, size)) = size
          /\ \A i \in 1 .. size : SubSeq(bytes, 1, size)[i] = bytes[i]
      <3>1. size \in 0 .. Len(bytes)
        BY <1>7
      <3> HIDE DEF size
      <3> QED
        BY <3>1, TakeProperties
    <2>3. \A i \in 1 .. size : SubSeq(bytes, 1, size)[i] = packet[i]
      <3> SUFFICES ASSUME NEW i \in 1 .. size
                   PROVE  SubSeq(bytes, 1, size)[i] = packet[i]
        OBVIOUS
      <3>1. i \in 1 .. Len(bytes) /\ i \in 1 .. ends[next] - StartOf(next)
        BY <1>1, <1>6, <1>7
      <3> HIDE DEF size, packet
      <3> QED
        BY <1>1, <1>3, <2>1, <2>2, <3>1
    <2> HIDE DEF size, packet
    <2>4. SubSeq(bytes, 1, size) = packet
      BY <1>6, <2>1, <2>2, <2>3, SeqEqual
    <2> QED
      BY <2>4 DEF packet
  <1> QED
    BY <1>5, <1>6, <1>7, <1>8

-----------------------------------------------------------------------------
(* The invariant holds.                                                    *)

\* Nothing has been sent when the session thread starts.
LEMMA InitIInv == Init => IInv
  <1> SUFFICES ASSUME Init PROVE IInv
    OBVIOUS
  <1>1. stream = <<>> /\ ends = <<>> /\ wire = <<>> /\ socket = <<>> /\ data = <<>> /\ dispatched = <<>>
    BY DEF Init
  <1>2. /\ <<>> \in Seq(Byte) /\ <<>> \in Seq(Nat) /\ <<>> \in Seq(Seq(Byte))
        /\ Len(<<>>) = 0
    BY EmptySeq
  <1>3. TypeOK
    BY <1>1, <1>2 DEF Init, TypeOK
  <1>4. Layout
    BY <1>1, <1>2, StreamAssumption DEF Layout, StartOf
  <1>5. InOrder
    BY <1>1, <1>2 DEF InOrder
  <1>6. Announced
    BY DEF Init, Announced
  <1>7. Conserved
    <2>1. Taken = 0
      BY <1>1, <1>2 DEF Taken, StartOf
    <2>2. Drop(stream, 0) = stream
      BY <1>1, <1>2, SubSeqFull DEF Drop
    <2>3. (data \o socket) \o wire = <<>>
      BY <1>1
    <2> QED
      BY <1>1, <2>1, <2>2, <2>3 DEF Conserved
  <1> QED
    BY <1>3, <1>4, <1>5, <1>6, <1>7 DEF IInv

\* A packet is laid out behind those that are there already, whose places
\* and bytes do not change.
LEMMA SendKeepsPackets ==
    ASSUME IInv, NEW payloadSize \in PayloadSizes, Send(payloadSize)
    PROVE  LET bytes == RawPacket(Len(ends) + 1, payloadSize)
           IN  /\ Len(ends) + 1 \in 1 .. MaxPackets
               /\ stream' = stream \o bytes /\ stream' \in Seq(Byte)
               /\ Len(stream') = Len(stream) + Len(bytes)
               /\ ends' \in Seq(Nat) /\ Len(ends') = Len(ends) + 1
               /\ ends'[Len(ends) + 1] = Len(stream')
               /\ \A n \in 1 .. Len(ends) :
                     /\ ends'[n] = ends[n]
                     /\ SubSeq(stream', StartOf(n) + 1, ends[n]) = SubSeq(stream, StartOf(n) + 1, ends[n])
               /\ \A n \in 1 .. Len(ends) + 1 : StartOf(n)' = StartOf(n)
               /\ SubSeq(stream', Len(stream) + 1, Len(stream')) = bytes
               /\ \A i \in 1 .. Len(stream) : stream'[i] = stream[i]
               /\ \A i \in 1 .. Len(bytes) : stream'[Len(stream) + i] = bytes[i]
  <1> DEFINE bytes == RawPacket(Len(ends) + 1, payloadSize)
  <1>1. /\ Len(ends) \in Nat /\ Len(stream) \in Nat /\ stream \in Seq(Byte) /\ ends \in Seq(Nat)
        /\ Len(ends) + 1 \in 1 .. MaxPackets
    <2>1. Len(ends) \in Nat /\ Len(stream) \in Nat
      BY LenProperties DEF IInv, TypeOK
    <2> QED
      BY <2>1, StreamAssumption DEF IInv, TypeOK, Send
  <1>2. /\ bytes \in Seq(Byte) /\ Len(bytes) = HeaderSize + payloadSize
        /\ Len(bytes) \in Nat
    BY <1>1, PacketIsBytes, StreamAssumption
  <1> HIDE DEF bytes
  <1>3. stream' = stream \o bytes /\ ends' = Append(ends, Len(stream) + Len(bytes))
    BY DEF Send, bytes
  <1>4. /\ stream' \in Seq(Byte) /\ Len(stream') = Len(stream) + Len(bytes)
        /\ \A i \in 1 .. Len(stream) + Len(bytes) :
              stream'[i] = IF i <= Len(stream) THEN stream[i] ELSE bytes[i - Len(stream)]
    BY <1>1, <1>2, <1>3, ConcatProperties
  <1>5. /\ ends' \in Seq(Nat) /\ Len(ends') = Len(ends) + 1
        /\ \A n \in 1 .. Len(ends) : ends'[n] = ends[n]
        /\ ends'[Len(ends) + 1] = Len(stream')
    BY <1>1, <1>2, <1>3, <1>4, AppendProperties
  <1>6. ASSUME NEW n \in 1 .. Len(ends) + 1
        PROVE  StartOf(n)' = StartOf(n)
    <2>1. CASE n = 1
      BY <2>1 DEF StartOf
    <2>2. CASE n # 1
      <3>1. n - 1 \in 1 .. Len(ends)
        BY <1>1, <2>2
      <3>2. ends'[n - 1] = ends[n - 1]
        BY <1>5, <3>1
      <3> QED
        BY <2>2, <3>2 DEF StartOf
    <2> QED
      BY <2>1, <2>2
  <1>8. \A i \in 1 .. Len(stream) : stream'[i] = stream[i]
    BY <1>1, <1>2, <1>4
  <1>9. \A i \in 1 .. Len(bytes) : stream'[Len(stream) + i] = bytes[i]
    BY <1>1, <1>2, <1>4
  <1>10. ASSUME NEW n \in 1 .. Len(ends)
         PROVE  SubSeq(stream', StartOf(n) + 1, ends[n]) = SubSeq(stream, StartOf(n) + 1, ends[n])
    <2>1. /\ StartOf(n) \in Nat /\ ends[n] \in Nat /\ HeaderSize \in Nat /\ SizeAt \in 1 .. HeaderSize
          /\ StartOf(n) + HeaderSize <= ends[n] /\ ends[n] <= Len(stream)
      BY <1>1, ElementOfSeq, StreamAssumption DEF IInv, Layout
    <2>2. StartOf(n) + 1 \in 1 .. Len(stream) /\ ends[n] \in 1 .. Len(stream)
      BY <1>1, <2>1
    <2> QED
      BY <1>1, <1>2, <1>3, <2>2, SubSeqOfConcat1
  <1>11. SubSeq(stream', Len(stream) + 1, Len(stream')) = bytes
    <2>1. Drop(stream \o bytes, Len(stream)) = Drop(stream, Len(stream)) \o bytes
      BY <1>1, <1>2, DropConcat
    <2>2. Drop(stream, Len(stream)) = <<>>
      BY <1>1, SubSeqEmpty DEF Drop
    <2>3. Drop(stream \o bytes, Len(stream)) = bytes
      BY <1>2, <2>1, <2>2, ConcatEmptySeq
    <2> QED
      BY <1>3, <2>3 DEF Drop
  <1> QED
    BY <1>1, <1>3, <1>4, <1>5, <1>6, <1>8, <1>9, <1>10, <1>11 DEF bytes

\* A packet sent goes to the end of the stream and of the wire.
LEMMA SendIInv ==
    ASSUME IInv, NEW payloadSize \in PayloadSizes, Send(payloadSize)
    PROVE  IInv'
  <1> DEFINE bytes == RawPacket(Len(ends) + 1, payloadSize)
  <1>0. TypeOK /\ Layout /\ InOrder /\ Announced /\ Conserved
    BY DEF IInv
  <1>1. /\ Len(ends) \in Nat /\ Len(stream) \in Nat /\ Len(dispatched) \in Nat
        /\ HeaderSize \in Nat /\ SizeAt \in 1 .. HeaderSize /\ payloadSize \in Nat
        /\ Taken \in 0 .. Len(stream)
        /\ \A n \in 1 .. Len(ends) : ends[n] \in Nat
    BY <1>0, Places, StreamAssumption
  <1>2. /\ Len(ends) + 1 \in 1 .. MaxPackets
        /\ stream' = stream \o bytes /\ stream' \in Seq(Byte)
        /\ Len(stream') = Len(stream) + Len(bytes)
        /\ ends' \in Seq(Nat) /\ Len(ends') = Len(ends) + 1
        /\ ends'[Len(ends) + 1] = Len(stream')
        /\ \A n \in 1 .. Len(ends) :
              /\ ends'[n] = ends[n]
              /\ SubSeq(stream', StartOf(n) + 1, ends[n]) = SubSeq(stream, StartOf(n) + 1, ends[n])
        /\ \A n \in 1 .. Len(ends) + 1 : StartOf(n)' = StartOf(n)
        /\ SubSeq(stream', Len(stream) + 1, Len(stream')) = bytes
        /\ \A i \in 1 .. Len(stream) : stream'[i] = stream[i]
        /\ \A i \in 1 .. Len(bytes) : stream'[Len(stream) + i] = bytes[i]
    BY SendKeepsPackets
  <1>3. /\ bytes \in Seq(Byte) /\ bytes \in AnyPacket
        /\ Len(bytes) = HeaderSize + payloadSize /\ bytes[SizeAt].value = payloadSize
    BY <1>2, PacketIsBytes
  <1> HIDE DEF bytes
  <1>4. /\ wire' = wire \o bytes
        /\ UNCHANGED <<socket, peer, pump, incoming, attached, data, dispatched, surplus>>
    BY DEF Send, bytes, session
  <1>5. TypeOK'
    <2>1. wire' \in Seq(Byte)
      BY <1>0, <1>3, <1>4, ConcatProperties DEF TypeOK
    <2> QED
      BY <1>0, <1>2, <1>4, <2>1 DEF TypeOK
  <1>6. Layout'
    <2>1. Len(ends') <= MaxPackets
      BY <1>2
    <2>2. StartOf(Len(ends) + 1) = Len(stream)
      BY <1>0 DEF Layout
    <2>3. ASSUME NEW n \in 1 .. Len(ends')
          PROVE  /\ StartOf(n)' \in Nat
                 /\ StartOf(n)' + HeaderSize <= ends'[n]
                 /\ ends'[n] <= Len(stream')
                 /\ stream'[StartOf(n)' + SizeAt].value = ends'[n] - StartOf(n)' - HeaderSize
                 /\ SubSeq(stream', StartOf(n)' + 1, ends'[n]) \in AnyPacket
      <3>1. CASE n \in 1 .. Len(ends)
        <4>1. /\ StartOf(n) \in Nat /\ StartOf(n) + HeaderSize <= ends[n] /\ ends[n] <= Len(stream)
              /\ stream[StartOf(n) + SizeAt].value = ends[n] - StartOf(n) - HeaderSize
              /\ SubSeq(stream, StartOf(n) + 1, ends[n]) \in AnyPacket
          BY <1>0, <3>1 DEF Layout
        <4>2. stream'[StartOf(n) + SizeAt] = stream[StartOf(n) + SizeAt]
          <5>1. StartOf(n) + SizeAt \in 1 .. Len(stream)
            <6>1. /\ StartOf(n) \in Nat /\ StartOf(n) + HeaderSize <= ends[n]
                  /\ ends[n] <= Len(stream) /\ ends[n] \in Nat /\ Len(stream) \in Nat
              BY <1>0, <1>1, <3>1, <4>1, Places
            <6>2. SizeAt \in Nat /\ 1 <= SizeAt /\ SizeAt <= HeaderSize /\ HeaderSize \in Nat
              BY StreamAssumption
            <6> HIDE DEF StartOf
            <6> QED
              BY <6>1, <6>2
          <5> QED
            BY <1>2, <5>1
        <4>3. ends[n] <= Len(stream')
          <5>1. Len(stream') >= Len(stream) /\ Len(stream') \in Nat
            <6>1. Len(stream') = Len(stream) + (HeaderSize + payloadSize)
              BY <1>2, <1>3
            <6> QED
              BY <1>1, <6>1
          <5>2. ends[n] \in Nat
            BY <1>1, <3>1
          <5> QED
            BY <1>1, <4>1, <5>1, <5>2
        <4>4. n \in 1 .. Len(ends) + 1
          BY <1>1, <3>1
        <4> QED
          BY <1>2, <3>1, <4>1, <4>2, <4>3, <4>4
      <3>2. CASE n = Len(ends) + 1
        <4>1. stream'[Len(stream) + SizeAt] = bytes[SizeAt]
          <5>1. SizeAt \in 1 .. Len(bytes)
            BY <1>1, <1>3
          <5> QED
            BY <1>2, <5>1
        <4>2. /\ Len(stream) + HeaderSize <= Len(stream')
              /\ Len(stream') - Len(stream) - HeaderSize = payloadSize
              /\ Len(stream') \in Nat
          BY <1>1, <1>2, <1>3
        <4>3. StartOf(n)' = Len(stream) /\ ends'[n] = Len(stream')
          <5>1. n \in 1 .. Len(ends) + 1
            BY <1>1, <3>2
          <5>2. StartOf(n) = Len(stream)
            BY <2>2, <3>2
          <5> QED
            BY <1>2, <3>2, <5>1, <5>2
        <4>4. stream'[StartOf(n)' + SizeAt].value = ends'[n] - StartOf(n)' - HeaderSize
          BY <1>3, <4>1, <4>2, <4>3
        <4>5. SubSeq(stream', StartOf(n)' + 1, ends'[n]) \in AnyPacket
          BY <1>2, <1>3, <4>3
        <4> QED
          BY <1>1, <4>2, <4>3, <4>4, <4>5
      <3>3. n \in 1 .. Len(ends) \/ n = Len(ends) + 1
        <4>1. Len(ends') = Len(ends) + 1
          BY <1>2
        <4> QED
          BY <1>1, <4>1
      <3> QED
        BY <3>1, <3>2, <3>3
    <2>4. (\A n \in 1 .. Len(ends) :
             /\ StartOf(n) \in Nat
             /\ StartOf(n) + HeaderSize <= ends[n]
             /\ ends[n] <= Len(stream)
             /\ stream[StartOf(n) + SizeAt].value = ends[n] - StartOf(n) - HeaderSize
             /\ SubSeq(stream, StartOf(n) + 1, ends[n]) \in AnyPacket)'
      BY <2>3
    <2>5. (StartOf(Len(ends) + 1) = Len(stream))'
      <3>1. Len(ends') + 1 # 1 /\ (Len(ends') + 1) - 1 = Len(ends) + 1
        BY <1>1, <1>2
      <3> QED
        BY <1>2, <3>1 DEF StartOf
    <2> QED
      BY <2>1, <2>4, <2>5 DEF Layout
  <1>7. InOrder'
    <2>1. \A n \in 1 .. Len(dispatched) : n \in 1 .. Len(ends)
      BY <1>0, <1>1 DEF InOrder
    <2>2. Len(dispatched) <= Len(ends')
      BY <1>0, <1>1, <1>2 DEF InOrder
    <2>3. ASSUME NEW n \in 1 .. Len(dispatched)
          PROVE  dispatched[n] = SubSeq(stream', StartOf(n)' + 1, ends'[n])
      <3>1. n \in 1 .. Len(ends) /\ n \in 1 .. Len(ends) + 1
        BY <1>1, <2>1
      <3>2. dispatched[n] = SubSeq(stream, StartOf(n) + 1, ends[n])
        BY <1>0 DEF InOrder
      <3> QED
        BY <1>2, <3>1, <3>2
    <2> QED
      BY <1>4, <2>2, <2>3 DEF InOrder
  <1>8. Announced'
    BY <1>0, <1>4 DEF Announced
  <1>9. Conserved'
    <2> SUFFICES ASSUME Connected', peer' # "reset"
                 PROVE  ((data \o socket) \o wire = Drop(stream, Taken))'
      BY DEF Conserved
    <2>1. (data \o socket) \o wire = Drop(stream, Taken)
      BY <1>0, <1>4 DEF Conserved, Connected
    <2>2. Taken' = Taken
      <3>1. Len(dispatched) + 1 \in 1 .. Len(ends) + 1
        BY <1>0, <1>1 DEF InOrder
      <3>2. PICK n \in 1 .. Len(ends) + 1 : n = Len(dispatched) + 1 /\ n = Len(dispatched') + 1
        BY <1>4, <3>1
      <3>3. StartOf(n)' = StartOf(n)
        BY <1>2
      <3> QED
        BY <3>2, <3>3 DEF Taken, StartOf
    <2>3. data \o socket \in Seq(Byte)
      BY <1>0, ConcatProperties DEF TypeOK
    <2>4. ((data \o socket) \o wire) \o bytes = (data \o socket) \o (wire \o bytes)
      <3>1. wire \in Seq(Byte)
        BY <1>0 DEF TypeOK
      <3>2. \A s, t, u \in Seq(Byte) : (s \o t) \o u = s \o (t \o u)
        BY ConcatAssociative
      <3> QED
        BY <1>3, <2>3, <3>1, <3>2, Zenon
    <2>5. Drop(stream \o bytes, Taken) = Drop(stream, Taken) \o bytes
      BY <1>0, <1>1, <1>3, DropConcat DEF TypeOK
    <2> QED
      BY <1>2, <1>4, <2>1, <2>2, <2>4, <2>5 DEF Drop
  <1> QED
    BY <1>5, <1>6, <1>7, <1>8, <1>9 DEF IInv

\* Three stretches of bytes join in either order; the bytes are named one by one, so that
\* a step that cites the lemma instantiates one bound variable at a time.
LEMMA ThreeParts ==
    \A s \in Seq(Byte) : \A t \in Seq(Byte) : \A u \in Seq(Byte) :
        (s \o t) \o u = s \o (t \o u)
  BY ConcatAssociative

\* Two stretches of bytes join to a stretch of bytes.
LEMMA TwoParts ==
    \A s \in Seq(Byte) : \A t \in Seq(Byte) : s \o t \in Seq(Byte)
  BY ConcatProperties

\* Bytes move from the wire to the end of the socket's.
LEMMA ArriveIInv == IInv /\ Arrive => IInv'
  <1> SUFFICES ASSUME IInv, Arrive PROVE IInv'
    OBVIOUS
  <1>0. /\ TypeOK /\ Layout /\ InOrder /\ Announced /\ Conserved
        /\ UNCHANGED <<stream, ends, peer, pump, incoming, attached, data, dispatched, surplus>>
    BY DEF IInv, Arrive, messenger, session
  <1>1. PICK n \in 1 .. Len(wire) :
           socket' = socket \o SubSeq(wire, 1, n) /\ wire' = Drop(wire, n)
    BY DEF Arrive, Drop
  <1>2. /\ wire \in Seq(Byte) /\ socket \in Seq(Byte) /\ data \in Seq(Byte)
        /\ n \in 0 .. Len(wire) /\ n \in Nat
        /\ Len(socket) \in Nat
    BY <1>0, LenProperties DEF TypeOK
  <1>3. /\ SubSeq(wire, 1, n) \in Seq(Byte) /\ Len(SubSeq(wire, 1, n)) = n
        /\ Drop(wire, n) \in Seq(Byte)
        /\ SubSeq(wire, 1, n) \o Drop(wire, n) = wire
    BY <1>2, TakeProperties, DropProperties, TakeDrop
  <1>4. socket' \in Seq(Byte) /\ Len(socket') = Len(socket) + n
    BY <1>1, <1>2, <1>3, ConcatProperties
  <1>5. TypeOK'
    BY <1>0, <1>1, <1>3, <1>4 DEF TypeOK
  <1>6. Layout' /\ InOrder'
    BY <1>0 DEF Layout, InOrder, StartOf
  <1>7. Announced'
    <2>1. pump = "callback" /\ peer # "reset" => incoming <= Len(socket')
      BY <1>0, <1>2, <1>4 DEF Announced, TypeOK
    <2> QED
      BY <1>0, <2>1 DEF Announced
  <1>8. (data \o socket') \o wire' = (data \o socket) \o wire
    <2> DEFINE taken == SubSeq(wire, 1, n)
               left == Drop(wire, n)
    <2>1. /\ taken \in Seq(Byte) /\ left \in Seq(Byte) /\ taken \o left = wire
          /\ socket' = socket \o taken /\ wire' = left
      BY <1>1, <1>3
    <2> HIDE DEF taken, left
    <2>3. data \o (socket \o taken) = (data \o socket) \o taken
      <3>1. \A t \in Seq(Byte) : \A u \in Seq(Byte) : (data \o t) \o u = data \o (t \o u)
        BY <1>2, ThreeParts, Zenon
      <3>2. \A u \in Seq(Byte) : (data \o socket) \o u = data \o (socket \o u)
        BY <1>2, <3>1, Zenon
      <3> QED
        BY <2>1, <3>2, Zenon
    <2>4. ((data \o socket) \o taken) \o left = (data \o socket) \o (taken \o left)
      <3> DEFINE front == data \o socket
      <3>1. front \in Seq(Byte)
        BY <1>2, ConcatProperties
      <3> HIDE DEF front
      <3>2. \A t \in Seq(Byte) : \A u \in Seq(Byte) : (front \o t) \o u = front \o (t \o u)
        BY <3>1, ThreeParts, Zenon
      <3>3. \A u \in Seq(Byte) : (front \o taken) \o u = front \o (taken \o u)
        BY <2>1, <3>2, Zenon
      <3>4. (front \o taken) \o left = front \o (taken \o left)
        BY <2>1, <3>3, Zenon
      <3> QED
        BY <3>4 DEF front
    <2>5. (data \o socket') \o wire' = ((data \o socket) \o taken) \o left
      BY <2>1, <2>3, Zenon
    <2>6. (data \o socket) \o (taken \o left) = (data \o socket) \o wire
      BY <2>1, Zenon
    <2> QED
      BY <2>4, <2>5, <2>6, Zenon
  <1>9. Conserved'
    <2>1. Taken' = Taken /\ Drop(stream, Taken)' = Drop(stream, Taken)
      BY <1>0 DEF Taken, StartOf, Drop
    <2> QED
      BY <1>0, <1>8, <2>1 DEF Conserved, Connected
  <1> QED
    BY <1>5, <1>6, <1>7, <1>9 DEF IInv

\* The steps that move no byte, and the break that loses those in flight.
LEMMA QuietIInv ==
    ASSUME IInv,
           UNCHANGED <<stream, ends, data, dispatched, surplus>>,
           UNCHANGED <<wire, socket>> \/ (peer' = "reset" /\ wire' = <<>> /\ socket' = <<>>),
           peer' \in {"open", "closed", "reset"},
           pump' \in {"select", "callback", "stopped", "terminated"},
           incoming' \in Nat,
           attached' \in BOOLEAN,
           Connected' => Connected,
           peer = "reset" => peer' = "reset",
           Announced'
    PROVE  IInv'
  <1>1. TypeOK /\ Layout /\ InOrder /\ Conserved
    BY DEF IInv
  <1>2. TypeOK'
    <2>1. <<>> \in Seq(Byte)
      BY EmptySeq
    <2> QED
      BY <1>1, <2>1 DEF TypeOK
  <1>3. Layout' /\ InOrder'
    BY <1>1 DEF Layout, InOrder, StartOf
  <1>4. Conserved'
    <2>1. Taken' = Taken /\ Drop(stream, Taken)' = Drop(stream, Taken)
      BY DEF Taken, StartOf, Drop
    <2> QED
      BY <1>1, <2>1 DEF Conserved
  <1> QED
    BY <1>2, <1>3, <1>4 DEF IInv

\* A read dispatches nothing, or the next packet.
LEMMA ProcessPendingDataIInv ==
    ASSUME IInv, ProcessPendingData
    PROVE  /\ IInv'
           /\ \/ dispatched' = dispatched /\ pump' = "select"
              \/ LET next == Len(dispatched) + 1
                 IN  /\ next \in 1 .. Len(ends)
                     /\ dispatched'
                          = Append(dispatched, SubSeq(stream, StartOf(next) + 1, ends[next]))
  <1> DEFINE read == SubSeq(socket, 1, incoming)
             bytes == data \o read
             left == Drop(socket, incoming)
             next == Len(dispatched) + 1
             size == HeaderSize + PayloadSize(bytes)
  <1>0. /\ TypeOK /\ Layout /\ InOrder /\ Announced /\ Conserved
        /\ pump = "callback" /\ attached /\ peer # "reset" /\ incoming # 0
        /\ UNCHANGED <<stream, ends, wire, peer, incoming, attached>>
    BY DEF IInv, ProcessPendingData, messenger, Announced
  <1>1. /\ socket \in Seq(Byte) /\ data \in Seq(Byte) /\ wire \in Seq(Byte) /\ stream \in Seq(Byte)
        /\ incoming \in 0 .. Len(socket)
        /\ Len(dispatched) \in Nat /\ Len(ends) \in Nat
        /\ dispatched \in Seq(Seq(Byte))
        /\ Taken \in 0 .. Len(stream)
    BY <1>0, LenProperties, Places DEF TypeOK, Announced
  <1>2. read \in Seq(Byte) /\ left \in Seq(Byte) /\ read \o left = socket
    BY <1>1, TakeProperties, DropProperties, TakeDrop
  <1>3. bytes \in Seq(Byte) /\ bytes = data \o read
    BY <1>1, <1>2, ConcatProperties
  <1>4. /\ socket' = left
        /\ \/ HasPacket(bytes) /\ Consume(bytes)
           \/ ~HasPacket(bytes) /\ pump' = "select" /\ data' = bytes /\ dispatched' = dispatched
        /\ surplus' = surplus + BehindTheFirst(Endings(read))
    BY DEF ProcessPendingData, Drop
  <1> HIDE DEF read, left, bytes
  <1>5. surplus' \in Nat
    <2>1. BehindTheFirst(Endings(read)) \in Nat
      <3>1. IsFiniteSet(Endings(read))
        <4>1. Len(read) \in Nat /\ DOMAIN read = 1 .. Len(read)
          BY <1>2, LenProperties
        <4>2. IsFiniteSet(1 .. Len(read))
          BY <4>1, FS_Interval
        <4> QED
          BY <4>1, <4>2, FS_Subset DEF Endings
      <3>2. Cardinality(Endings(read)) \in Nat
        BY <3>1, FS_CardinalityType
      <3>3. Endings(read) # {} => Cardinality(Endings(read)) # 0
        BY <3>1, FS_EmptySet
      <3> QED
        BY <3>2, <3>3 DEF BehindTheFirst
    <2> QED
      BY <1>0, <1>4, <2>1 DEF TypeOK
  <1>6. data \in Seq(Byte) /\ wire \in Seq(Byte)
    BY <1>1
  <1>7. (bytes \o left) \o wire = bytes \o (left \o wire) /\ left \o wire \in Seq(Byte)
    <2>1. bytes \in Seq(Byte) /\ left \in Seq(Byte)
      BY <1>2, <1>3
    <2> HIDE DEF bytes, left
    <2>2. \A t \in Seq(Byte) : \A u \in Seq(Byte) : (bytes \o t) \o u = bytes \o (t \o u)
      BY <2>1, ThreeParts, Zenon
    <2>3. \A u \in Seq(Byte) : (bytes \o left) \o u = bytes \o (left \o u)
      BY <2>1, <2>2, Zenon
    <2>4. \A u \in Seq(Byte) : left \o u \in Seq(Byte)
      BY <2>1, TwoParts, Zenon
    <2> QED
      BY <1>6, <2>3, <2>4, Zenon
  <1>8. bytes \o (left \o wire) = Drop(stream, Taken) /\ left \o wire \in Seq(Byte)
    <2>1. (data \o socket) \o wire = Drop(stream, Taken)
      BY <1>0 DEF Conserved, Connected
    <2>3. data \o socket = bytes \o left
      <3>1. data \o (read \o left) = (data \o read) \o left
        <4>1. read \in Seq(Byte) /\ left \in Seq(Byte) /\ data \in Seq(Byte)
          BY <1>2, <1>6
        <4> HIDE DEF read, left
        <4>2. \A t \in Seq(Byte) : \A u \in Seq(Byte) : (data \o t) \o u = data \o (t \o u)
          BY <4>1, ThreeParts, Zenon
        <4>3. \A u \in Seq(Byte) : (data \o read) \o u = data \o (read \o u)
          BY <4>1, <4>2, Zenon
        <4>4. (data \o read) \o left = data \o (read \o left)
          BY <4>1, <4>3, Zenon
        <4> QED
          BY <4>4
      <3> QED
        BY <1>2, <1>3, <3>1
    <2> QED
      BY <1>7, <2>1, <2>3
  <1>9. Layout'
    BY <1>0 DEF Layout, StartOf
  <1>10. CASE ~HasPacket(bytes)
    <2>1. pump' = "select" /\ data' = bytes /\ dispatched' = dispatched
      BY <1>4, <1>10
    <2>2. TypeOK'
      BY <1>0, <1>2, <1>3, <1>4, <1>5, <2>1 DEF TypeOK
    <2>3. InOrder' /\ Announced'
      BY <1>0, <2>1 DEF InOrder, StartOf, Announced
    <2>4. Conserved'
      <3>1. Taken' = Taken /\ Drop(stream, Taken)' = Drop(stream, Taken)
        BY <1>0, <2>1 DEF Taken, StartOf, Drop
      <3> QED
        BY <1>0, <1>4, <1>7, <1>8, <2>1, <3>1 DEF Conserved
    <2> QED
      BY <1>9, <2>1, <2>2, <2>3, <2>4 DEF IInv
  <1>11. CASE HasPacket(bytes)
    <2>1. /\ dispatched' = Append(dispatched, SubSeq(bytes, 1, size))
          /\ \/ pump' = "select" /\ data' = Drop(bytes, size)
             \/ pump' = "terminated" /\ data' = bytes
      BY <1>4, <1>11 DEF Consume, Drop
    <2>2. /\ next \in 1 .. Len(ends)
          /\ size \in 1 .. Len(bytes)
          /\ size = ends[next] - StartOf(next)
          /\ SubSeq(bytes, 1, size) = SubSeq(stream, StartOf(next) + 1, ends[next])
      BY <1>0, <1>3, <1>8, <1>11, NextPacket
    <2> HIDE DEF size
    <2>3. /\ SubSeq(bytes, 1, size) \in Seq(Byte)
          /\ Drop(bytes, size) \in Seq(Byte)
      <3>1. size \in 0 .. Len(bytes)
        BY <2>2
      <3> QED
        BY <1>3, <3>1, TakeProperties, DropProperties
    <2>4. /\ dispatched' \in Seq(Seq(Byte)) /\ Len(dispatched') = Len(dispatched) + 1
          /\ \A n \in 1 .. Len(dispatched) : dispatched'[n] = dispatched[n]
          /\ dispatched'[Len(dispatched) + 1] = SubSeq(bytes, 1, size)
      BY <1>1, <2>1, <2>3, AppendProperties
    <2>5. TypeOK'
      BY <1>0, <1>2, <1>3, <1>4, <1>5, <2>1, <2>3, <2>4 DEF TypeOK
    <2>6. InOrder'
      <3>1. Len(dispatched') <= Len(ends')
        BY <1>0, <1>1, <2>2, <2>4
      <3>2. ASSUME NEW n \in 1 .. Len(dispatched')
            PROVE  dispatched'[n] = SubSeq(stream, StartOf(n) + 1, ends[n])
        <4>1. CASE n \in 1 .. Len(dispatched)
          BY <1>0, <2>4, <4>1 DEF InOrder
        <4>2. CASE n = Len(dispatched) + 1
          BY <2>2, <2>4, <4>2
        <4>3. n \in 1 .. Len(dispatched) \/ n = Len(dispatched) + 1
          BY <1>1, <2>4
        <4> QED
          BY <4>1, <4>2, <4>3
      <3> QED
        BY <1>0, <3>1, <3>2 DEF InOrder, StartOf
    <2>7. Announced'
      BY <2>1 DEF Announced
    <2>8. Conserved'
      <3> SUFFICES ASSUME Connected'
                   PROVE  ((data \o socket) \o wire)' = Drop(stream', Taken')
        BY DEF Conserved, Drop
      <3>1. data' = Drop(bytes, size)
        BY <2>1 DEF Connected
      <3>2. Taken' = Taken + size
        <4>1. Taken' = ends[next] /\ ends[next] \in Nat
          <5>1. (Len(dispatched') + 1) # 1 /\ (Len(dispatched') + 1) - 1 = next
            BY <1>1, <2>4
          <5>2. ends[next] \in Nat
            BY <1>0, <2>2, Places
          <5> QED
            BY <1>0, <5>1, <5>2 DEF Taken, StartOf
        <4>2. Taken = StartOf(next)
          BY DEF Taken
        <4>3. Taken \in Nat /\ size = ends[next] - Taken
          BY <1>1, <2>2, <4>2
        <4> HIDE DEF next
        <4> QED
          BY <4>1, <4>3
      <3>3. Len(Drop(stream, Taken)) = Len(stream) - Taken
        BY <1>1, DropProperties
      <3>4. Len(bytes \o (left \o wire)) = Len(bytes) + Len(left \o wire)
        BY <1>3, <1>8, ConcatProperties
      <3>5. size \in 0 .. Len(stream) - Taken
        <4>1. /\ Len(bytes) \in Nat /\ Len(left \o wire) \in Nat /\ Len(stream) \in Nat
              /\ Len(stream) - Taken = Len(bytes) + Len(left \o wire)
          BY <1>1, <1>3, <1>8, <3>3, <3>4, LenProperties
        <4> QED
          BY <1>1, <2>2, <4>1
      <3>6. Drop(Drop(stream, Taken), size) = Drop(stream, Taken + size)
        BY <1>1, <3>5, DropDrop
      <3>7. Drop(bytes \o (left \o wire), size) = Drop(bytes, size) \o (left \o wire)
        <4> DEFINE rest == left \o wire
        <4>1. size \in 0 .. Len(bytes) /\ bytes \in Seq(Byte) /\ rest \in Seq(Byte)
          BY <1>3, <1>8, <2>2
        <4> HIDE DEF rest, bytes
        <4>2. Drop(bytes \o rest, size) = Drop(bytes, size) \o rest
          BY <4>1, DropConcat
        <4> QED
          BY <4>2 DEF rest
      <3>8. (Drop(bytes, size) \o left) \o wire = Drop(bytes, size) \o (left \o wire)
        <4> DEFINE behind == Drop(bytes, size)
        <4>1. behind \in Seq(Byte)
          BY <2>3
        <4> HIDE DEF behind
        <4>2. left \in Seq(Byte) /\ wire \in Seq(Byte)
          BY <1>2, <1>6
        <4> HIDE DEF left
        <4>3. \A t \in Seq(Byte) : \A u \in Seq(Byte) : (behind \o t) \o u = behind \o (t \o u)
          BY <4>1, ThreeParts, Zenon
        <4>4. \A u \in Seq(Byte) : (behind \o left) \o u = behind \o (left \o u)
          BY <4>2, <4>3, Zenon
        <4>5. (behind \o left) \o wire = behind \o (left \o wire)
          BY <4>2, <4>4, Zenon
        <4> QED
          BY <4>5 DEF behind
      <3> QED
        BY <1>0, <1>4, <1>8, <3>1, <3>2, <3>6, <3>7, <3>8
    <2> QED
      BY <1>9, <2>1, <2>2, <2>5, <2>6, <2>7, <2>8 DEF IInv
  <1> QED
    BY <1>10, <1>11

\* FIONREAD announces no more than there is.
LEMMA SelectIInv == IInv /\ Select => IInv'
  <1> SUFFICES ASSUME IInv, Select PROVE IInv'
    OBVIOUS
  <1>1. /\ UNCHANGED <<stream, ends, wire, socket, peer, attached, data, dispatched, surplus>>
        /\ pump = "select" /\ attached /\ pump' = "callback"
        /\ incoming' \in IF socket = <<>> THEN {0} ELSE 1 .. Len(socket)
    BY DEF Select, messenger
  <1>2. Len(socket) \in Nat
    BY LenProperties DEF IInv, TypeOK
  <1>3. incoming' \in Nat /\ incoming' <= Len(socket)
    BY <1>1, <1>2
  <1>4. Announced' /\ (Connected' => Connected)
    BY <1>1, <1>3 DEF Announced, Connected
  <1> QED
    BY <1>1, <1>3, <1>4, QuietIInv DEF IInv, TypeOK

\* Every step of the messenger, the network and the pump keeps the invariant.
LEMMA NextIInv == IInv /\ [Next]_vars => IInv'
  <1> SUFFICES ASSUME IInv, [Next]_vars PROVE IInv'
    OBVIOUS
  <1> USE DEF messenger, session
  <1>0. /\ peer \in {"open", "closed", "reset"} /\ incoming \in Nat /\ attached \in BOOLEAN
        /\ pump \in {"select", "callback", "stopped", "terminated"}
        /\ Announced
    BY DEF IInv, TypeOK
  <1>1. CASE \E payloadSize \in PayloadSizes : Send(payloadSize)
    BY <1>1, SendIInv
  <1>2. CASE Arrive
    BY <1>2, ArriveIInv
  <1>3. CASE Close
    <2>1. Announced' /\ (Connected' => Connected)
      BY <1>0, <1>3 DEF Close, Announced, Connected
    <2> QED
      BY <1>0, <1>3, <2>1, QuietIInv DEF Close
  <1>4. CASE Reset
    <2>1. Announced' /\ (Connected' => Connected)
      BY <1>0, <1>4 DEF Reset, Announced, Connected
    <2> QED
      BY <1>0, <1>4, <2>1, QuietIInv DEF Reset
  <1>5. CASE Select
    BY <1>5, SelectIInv
  <1>6. CASE FailSelect
    <2>1. Announced' /\ (Connected' => Connected)
      BY <1>6 DEF FailSelect, Announced, Connected
    <2> QED
      BY <1>0, <1>6, <2>1, QuietIInv DEF FailSelect
  <1>7. CASE CloseSocket \/ FailReceive
    <2>1. Announced' /\ (Connected' => Connected)
      BY <1>7 DEF CloseSocket, FailReceive, Detach, Announced, Connected
    <2> QED
      BY <1>0, <1>7, <2>1, QuietIInv DEF CloseSocket, FailReceive, Detach
  <1>8. CASE ProcessPendingData
    BY <1>8, ProcessPendingDataIInv
  <1>9. CASE UNCHANGED vars
    <2>1. Announced' /\ (Connected' => Connected)
      BY <1>0, <1>9 DEF vars, Announced, Connected
    <2> QED
      BY <1>0, <1>9, <2>1, QuietIInv DEF vars
  <1> QED
    BY <1>1, <1>2, <1>3, <1>4, <1>5, <1>6, <1>7, <1>8, <1>9 DEF Next, Pump

\* The invariant holds in every state.
LEMMA Invariance == Spec => []IInv
  BY InitIInv, NextIInv, PTL DEF Spec

\* The variables keep their types: the bytes in every buffer are bytes of
\* packets the messenger sent, also after a recv that failed.
THEOREM StreamTypeCorrect == Spec => []TypeOK
  <1>1. IInv => TypeOK
    BY DEF IInv
  <1> QED
    BY <1>1, Invariance, PTL

-----------------------------------------------------------------------------
(* The refinement.                                                         *)

\* The connection starts as an empty channel.
LEMMA InitRefines == Init => Channel!Init
  <1> SUFFICES ASSUME Init PROVE Channel!Init
    OBVIOUS
  <1>1. Len(ends) = 0 /\ ends = <<>> /\ dispatched = <<>>
    BY EmptySeq DEF Init
  <1>2. Sent = <<>>
    BY <1>1 DEF Sent
  <1>3. Connected = TRUE
    BY DEF Init, Connected
  <1> QED
    BY <1>1, <1>2, <1>3 DEF Channel!Init

\* The packets sent, as a sequence.
LEMMA SentIsSeq ==
    ASSUME IInv
    PROVE  /\ Sent \in Seq(AnyPacket) /\ Len(Sent) = Len(ends)
           /\ \A n \in 1 .. Len(ends) : Sent[n] = SubSeq(stream, StartOf(n) + 1, ends[n])
  <1>1. Len(ends) \in Nat
    BY LenProperties DEF IInv, TypeOK
  <1>2. \A n \in 1 .. Len(ends) : Sent[n] = SubSeq(stream, StartOf(n) + 1, ends[n])
    BY DEF Sent
  <1>3. \A n \in 1 .. Len(ends) : SubSeq(stream, StartOf(n) + 1, ends[n]) \in AnyPacket
    BY DEF IInv, Layout
  <1>4. Sent \in [1 .. Len(ends) -> AnyPacket]
    BY <1>3 DEF Sent
  <1>5. Sent \in Seq(AnyPacket)
    BY <1>1, <1>4
  <1>6. Len(Sent) = Len(ends)
    <2>1. DOMAIN Sent = 1 .. Len(ends) /\ DOMAIN Sent = 1 .. Len(Sent) /\ Len(Sent) \in Nat
      BY <1>4, <1>5, LenProperties
    <2> QED
      BY <1>1, <2>1
  <1> QED
    BY <1>2, <1>5, <1>6

\* Sending bytes is sending their packet over the channel.
LEMMA SendRefines ==
    ASSUME IInv, NEW payloadSize \in PayloadSizes, Send(payloadSize)
    PROVE  Channel!Send
  <1> DEFINE bytes == RawPacket(Len(ends) + 1, payloadSize)
  <1>1. /\ Len(ends) + 1 \in 1 .. MaxPackets
        /\ ends' \in Seq(Nat) /\ Len(ends') = Len(ends) + 1
        /\ ends'[Len(ends) + 1] = Len(stream')
        /\ \A n \in 1 .. Len(ends) :
              /\ ends'[n] = ends[n]
              /\ SubSeq(stream', StartOf(n) + 1, ends[n]) = SubSeq(stream, StartOf(n) + 1, ends[n])
        /\ \A n \in 1 .. Len(ends) + 1 : StartOf(n)' = StartOf(n)
        /\ SubSeq(stream', Len(stream) + 1, Len(stream')) = bytes
    BY SendKeepsPackets
  <1>2. bytes \in AnyPacket
    BY <1>1, PacketIsBytes
  <1> HIDE DEF bytes
  <1>3. IInv'
    BY SendIInv
  <1>4. /\ Sent \in Seq(AnyPacket) /\ Len(Sent) = Len(ends)
        /\ \A n \in 1 .. Len(ends) : Sent[n] = SubSeq(stream, StartOf(n) + 1, ends[n])
    BY SentIsSeq
  <1>5. (/\ Sent \in Seq(AnyPacket) /\ Len(Sent) = Len(ends)
         /\ \A n \in 1 .. Len(ends) : Sent[n] = SubSeq(stream, StartOf(n) + 1, ends[n]))'
    BY <1>3, SentIsSeq, PTL
  <1>6. Len(ends) \in Nat /\ StartOf(Len(ends) + 1) = Len(stream)
    BY LenProperties DEF IInv, TypeOK, Layout
  <1>7. Sent' = Append(Sent, bytes)
    <2>1. /\ Append(Sent, bytes) \in Seq(AnyPacket)
          /\ Len(Append(Sent, bytes)) = Len(ends) + 1
          /\ \A n \in 1 .. Len(ends) : Append(Sent, bytes)[n] = Sent[n]
          /\ Append(Sent, bytes)[Len(ends) + 1] = bytes
      BY <1>2, <1>4, AppendProperties
    <2>2. ASSUME NEW n \in 1 .. Len(ends) + 1
          PROVE  Sent'[n] = Append(Sent, bytes)[n]
      <3>1. Sent'[n] = SubSeq(stream', StartOf(n) + 1, ends'[n])
        BY <1>1, <1>5
      <3>2. CASE n \in 1 .. Len(ends)
        BY <1>1, <1>4, <2>1, <3>1, <3>2
      <3>3. CASE n = Len(ends) + 1
        BY <1>1, <1>6, <2>1, <3>1, <3>3
      <3>4. n \in 1 .. Len(ends) \/ n = Len(ends) + 1
        BY <1>6
      <3> QED
        BY <3>2, <3>3, <3>4
    <2>3. Len(Sent') = Len(ends) + 1
      BY <1>1, <1>5
    <2>4. Sent' \in Seq(AnyPacket)
      BY <1>5
    <2> QED
      BY <2>1, <2>2, <2>3, <2>4, SeqEqual
  <1>8. UNCHANGED <<dispatched, Connected>>
    BY DEF Send, session, Connected
  <1> QED
    BY <1>2, <1>7, <1>8 DEF Channel!Send, AnyPacket

\* A read is a dispatch of the next packet or leaves the channel alone.
LEMMA ProcessPendingDataRefines ==
    ASSUME IInv, ProcessPendingData
    PROVE  Channel!Dispatch \/ UNCHANGED Channel!vars
  <1>1. UNCHANGED <<stream, ends, attached>> /\ pump = "callback" /\ attached
    BY DEF ProcessPendingData, messenger, IInv, Announced
  <1>2. Sent' = Sent
    BY <1>1 DEF Sent, StartOf
  <1>3. Connected /\ Connected \in BOOLEAN /\ Connected' \in BOOLEAN
    BY <1>1 DEF Connected, IInv, TypeOK
  <1>4. CASE dispatched' = dispatched /\ pump' = "select"
    <2>1. Connected' = Connected
      BY <1>1, <1>4 DEF Connected
    <2> QED
      BY <1>2, <1>4, <2>1 DEF Channel!vars
  <1>5. CASE LET next == Len(dispatched) + 1
             IN  /\ next \in 1 .. Len(ends)
                 /\ dispatched' = Append(dispatched, SubSeq(stream, StartOf(next) + 1, ends[next]))
    <2>1. Len(Sent) = Len(ends) /\ Sent[Len(dispatched) + 1]
             = SubSeq(stream, StartOf(Len(dispatched) + 1) + 1, ends[Len(dispatched) + 1])
      BY <1>5, SentIsSeq
    <2>2. Len(dispatched) < Len(Sent)
      <3>1. Len(dispatched) \in Nat /\ Len(ends) \in Nat
        BY LenProperties DEF IInv, TypeOK
      <3> QED
        BY <1>5, <2>1, <3>1
    <2> QED
      BY <1>2, <1>3, <1>5, <2>1, <2>2 DEF Channel!Dispatch
  <1> QED
    BY <1>4, <1>5, ProcessPendingDataIInv

\* Every step is a step of the channel or leaves it alone.
LEMMA NextRefines == IInv /\ [Next]_vars => [Channel!Next]_Channel!vars
  <1> SUFFICES ASSUME IInv, [Next]_vars PROVE [Channel!Next]_Channel!vars
    OBVIOUS
  <1> USE DEF messenger, session
  <1>1. CASE \E payloadSize \in PayloadSizes : Send(payloadSize)
    BY <1>1, SendRefines DEF Channel!Next
  <1>2. CASE Arrive \/ Close \/ Reset \/ Select \/ UNCHANGED vars
    <2>1. UNCHANGED <<stream, ends, dispatched, attached>>
      BY <1>2 DEF Arrive, Close, Reset, Select, vars
    <2>2. Sent' = Sent
      BY <2>1 DEF Sent, StartOf
    <2>3. Connected' = Connected
      BY <1>2, <2>1 DEF Arrive, Close, Reset, Select, vars, Connected
    <2> QED
      BY <2>1, <2>2, <2>3 DEF Channel!vars
  <1>3. CASE FailSelect \/ CloseSocket \/ FailReceive
    <2>1. UNCHANGED <<stream, ends, dispatched>>
      BY <1>3 DEF FailSelect, CloseSocket, FailReceive, Detach
    <2>2. Sent' = Sent
      BY <2>1 DEF Sent, StartOf
    <2>3. Connected /\ Connected' = FALSE
      BY <1>3 DEF FailSelect, CloseSocket, FailReceive, Detach, Connected, IInv, Announced
    <2> QED
      BY <2>1, <2>2, <2>3 DEF Channel!Next, Channel!Disconnect
  <1>4. CASE ProcessPendingData
    BY <1>4, ProcessPendingDataRefines DEF Channel!Next
  <1> QED
    BY <1>1, <1>2, <1>3, <1>4 DEF Next, Pump

\* However the bytes are cut, delayed or lost, and whatever the handlers do,
\* the dispatcher is handed a prefix of the packets sent, whole, once each
\* and in order (ProtocolStream::ProcessPendingData and Consume).
THEOREM StreamIsChannel == Spec => IsChannel
  <1>1. Spec => Channel!Init /\ [][Channel!Next]_Channel!vars
    BY InitRefines, NextRefines, Invariance, PTL DEF Spec
  <1> QED
    BY <1>1 DEF IsChannel, Channel!Spec

-----------------------------------------------------------------------------
(* The backlog.  ProcessPendingData dispatches at most one packet a read,  *)
(* so packets may pile up in data_; but only those that came behind        *)
(* another one in the same read do, whatever the sizes, the number of      *)
(* packets and the cuts.                                                   *)
(*                                                                         *)
(* The argument counts the bytes that complete a packet.  A read adds its  *)
(* own to those of data_.  When it leaves no packet in front there is none *)
(* at all among the bytes at hand; when it leaves one, Consume erases the  *)
(* byte that completes it.  The invariant is SInv, besides IInv.           *)

\* The packets lie in stream in their order, and every byte of it says which
\* packet it belongs to and where in the packet it stands.
Ordered ==
    \A m \in 1 .. Len(ends) : \A n \in 1 .. Len(ends) : m < n => ends[m] <= StartOf(n)
Labelled ==
    \A p \in 1 .. Len(stream) :
        \E n \in 1 .. Len(ends) :
            /\ stream[p].packet = n /\ stream[p].at = p - StartOf(n)
            /\ StartOf(n) < p /\ p <= ends[n]

\* While the messenger's end is open the pump drops the socket only when the
\* dispatcher throws.
OpenHolds ==
    peer = "open" =>
        /\ pump = "terminated" \/ Connected
        /\ pump = "callback" => incoming # 0

SInv == Ordered /\ Labelled /\ OpenHolds /\ BacklogOnlyFromSurplus

-----------------------------------------------------------------------------
(* Counting the bytes that complete a packet.                              *)

Completes(byte) == byte.at = Len(Sent[byte.packet])

\* The endings of some bytes are finitely many places in them.
LEMMA EndingsFinite ==
    ASSUME NEW s \in Seq(Byte)
    PROVE  /\ Endings(s) = {i \in 1 .. Len(s) : Completes(s[i])}
           /\ Endings(s) \subseteq 1 .. Len(s)
           /\ IsFiniteSet(Endings(s))
           /\ Cardinality(Endings(s)) \in Nat
  <1>1. Len(s) \in Nat /\ DOMAIN s = 1 .. Len(s)
    BY LenProperties
  <1>2. Endings(s) = {i \in 1 .. Len(s) : Completes(s[i])}
    BY <1>1, Zenon DEF Endings, Completes
  <1>3. Endings(s) \subseteq 1 .. Len(s)
    BY <1>2
  <1>4. IsFiniteSet(Endings(s))
    <2>1. IsFiniteSet(1 .. Len(s))
      BY <1>1, FS_Interval
    <2> QED
      BY <1>3, <2>1, FS_Subset
  <1>5. Cardinality(Endings(s)) \in Nat
    BY <1>4, FS_CardinalityType
  <1> QED
    BY <1>2, <1>3, <1>4, <1>5

\* A set of numbers that fits into another one when it is shifted is no
\* larger than it.
LEMMA ShiftedIsNoLarger ==
    ASSUME NEW A \in SUBSET Nat, NEW B, IsFiniteSet(B), NEW k \in Nat,
           \A i \in A : i + k \in B
    PROVE  IsFiniteSet(A) /\ Cardinality(A) <= Cardinality(B)
  <1> DEFINE shift == [i \in A |-> i + k]
  <1>1. shift \in [A -> B]
    OBVIOUS
  <1>2. \A i, j \in A : shift[i] = shift[j] => i = j
    OBVIOUS
  <1>3. shift \in Injection(A, B)
    BY <1>1, <1>2 DEF Injection, IsInjective
  <1> QED
    BY <1>3, FS_Injection

\* Bytes that are joined complete no more packets than they do apart.
LEMMA EndingsConcat ==
    ASSUME NEW s \in Seq(Byte), NEW t \in Seq(Byte)
    PROVE  Cardinality(Endings(s \o t)) <= Cardinality(Endings(s)) + Cardinality(Endings(t))
  <1>1. Len(s) \in Nat /\ Len(t) \in Nat
    BY LenProperties
  <1>2. /\ s \o t \in Seq(Byte)
        /\ Len(s \o t) = Len(s) + Len(t)
        /\ \A i \in 1 .. Len(s) + Len(t) :
              (s \o t)[i] = IF i <= Len(s) THEN s[i] ELSE t[i - Len(s)]
    BY ConcatProperties
  <1> DEFINE front == {i \in Endings(s \o t) : i <= Len(s)}
             back == {i \in Endings(s \o t) : i > Len(s)}
             moved == {j \in 1 .. Len(t) : j + Len(s) \in back}
  <1>3. /\ Endings(s \o t) = {i \in 1 .. Len(s \o t) : Completes((s \o t)[i])}
        /\ Endings(s \o t) \subseteq 1 .. Len(s \o t)
        /\ IsFiniteSet(Endings(s \o t))
    BY <1>2, EndingsFinite
  <1>4. /\ Endings(s) = {i \in 1 .. Len(s) : Completes(s[i])}
        /\ IsFiniteSet(Endings(s)) /\ Cardinality(Endings(s)) \in Nat
        /\ Endings(t) = {i \in 1 .. Len(t) : Completes(t[i])}
        /\ IsFiniteSet(Endings(t)) /\ Cardinality(Endings(t)) \in Nat
    BY EndingsFinite
  <1>5. IsFiniteSet(front) /\ Cardinality(front) <= Cardinality(Endings(s))
    <2>1. ASSUME NEW i \in front
          PROVE  i \in Endings(s)
      <3>1. i \in 1 .. Len(s) + Len(t) /\ i <= Len(s) /\ Completes((s \o t)[i])
        BY <1>2, <1>3
      <3>2. i \in 1 .. Len(s) /\ (s \o t)[i] = s[i]
        BY <1>1, <1>2, <3>1
      <3>3. Completes(s[i])
        BY <3>1, <3>2, Zenon
      <3> QED
        BY <1>4, <3>2, <3>3, Zenon
    <2>2. front \subseteq Endings(s)
      BY <2>1
    <2> HIDE DEF front
    <2> QED
      BY <1>4, <2>2, FS_Subset
  <1>6. IsFiniteSet(back) /\ Cardinality(back) <= Cardinality(Endings(t))
    <2>1. ASSUME NEW i \in back
          PROVE  i - Len(s) \in Endings(t) /\ i \in Nat /\ i > Len(s)
      <3>1. i \in 1 .. Len(s) + Len(t) /\ i > Len(s) /\ Completes((s \o t)[i])
        BY <1>2, <1>3
      <3>2. i - Len(s) \in 1 .. Len(t) /\ (s \o t)[i] = t[i - Len(s)] /\ i \in Nat
        BY <1>1, <1>2, <3>1
      <3>3. Completes(t[i - Len(s)])
        BY <3>1, <3>2, Zenon
      <3> QED
        BY <1>4, <3>1, <3>2, <3>3, Zenon
    <2> DEFINE shift == [i \in back |-> i - Len(s)]
    <2>2. shift \in [back -> Endings(t)]
      BY <2>1
    <2>3. ASSUME NEW i \in back, NEW j \in back, shift[i] = shift[j]
          PROVE  i = j
      <3>1. i - Len(s) = j - Len(s)
        BY <2>3
      <3>2. i \in Nat /\ j \in Nat
        BY <2>1
      <3> QED
        BY <1>1, <3>1, <3>2
    <2>4. shift \in Injection(back, Endings(t))
      BY <2>2, <2>3, Zenon DEF Injection, IsInjective
    <2> HIDE DEF back, shift
    <2> QED
      BY <1>4, <2>4, FS_Injection
  <1>7. Endings(s \o t) = front \cup back
    <2>1. \A i \in Endings(s \o t) : i \in Nat
      BY <1>3
    <2> QED
      BY <1>1, <2>1
  <1> HIDE DEF front, back
  <1>8. /\ Cardinality(front \cup back)
             = Cardinality(front) + Cardinality(back) - Cardinality(front \cap back)
        /\ Cardinality(front \cap back) \in Nat
        /\ Cardinality(front) \in Nat /\ Cardinality(back) \in Nat
    <2>1. IsFiniteSet(front \cap back)
      BY <1>5, FS_Intersection
    <2> QED
      BY <1>5, <1>6, <2>1, FS_Union, FS_CardinalityType
  <1> QED
    BY <1>4, <1>5, <1>6, <1>7, <1>8

\* Bytes that are erased up to one that completes a packet leave one packet
\* fewer.
LEMMA EndingsDrop ==
    ASSUME NEW s \in Seq(Byte), NEW k \in Endings(s)
    PROVE  /\ Drop(s, k) \in Seq(Byte)
           /\ Cardinality(Endings(Drop(s, k))) <= Cardinality(Endings(s)) - 1
  <1>1. /\ Endings(s) = {i \in 1 .. Len(s) : Completes(s[i])}
        /\ IsFiniteSet(Endings(s)) /\ Cardinality(Endings(s)) \in Nat
        /\ k \in 1 .. Len(s) /\ k \in 0 .. Len(s) /\ k \in Nat /\ Len(s) \in Nat
    BY EndingsFinite, LenProperties
  <1>2. /\ Drop(s, k) \in Seq(Byte)
        /\ Len(Drop(s, k)) = Len(s) - k
        /\ \A i \in 1 .. Len(s) - k : Drop(s, k)[i] = s[k + i]
    BY <1>1, DropProperties
  <1>3. /\ Endings(Drop(s, k)) = {i \in 1 .. Len(Drop(s, k)) : Completes(Drop(s, k)[i])}
        /\ Endings(Drop(s, k)) \subseteq 1 .. Len(Drop(s, k))
    BY <1>2, EndingsFinite
  <1> DEFINE A == Endings(Drop(s, k))
             B == Endings(s) \ {k}
  <1>4. ASSUME NEW i \in A
        PROVE  i + k \in B
    <2>1. i \in 1 .. Len(s) - k /\ Completes(Drop(s, k)[i])
      BY <1>2, <1>3
    <2>2. Drop(s, k)[i] = s[k + i] /\ k + i = i + k /\ i + k \in 1 .. Len(s) /\ i + k # k
      BY <1>1, <1>2, <2>1
    <2>3. Completes(s[i + k])
      BY <2>1, <2>2, Zenon
    <2>4. i + k \in Endings(s)
      BY <1>1, <2>2, <2>3, Zenon
    <2> QED
      BY <2>2, <2>4
  <1>5. IsFiniteSet(B) /\ Cardinality(B) = Cardinality(Endings(s)) - 1
    BY <1>1, FS_RemoveElement
  <1>6. A \in SUBSET Nat
    BY <1>3
  <1> HIDE DEF A, B
  <1>7. Cardinality(A) <= Cardinality(B)
    BY <1>1, <1>4, <1>5, <1>6, ShiftedIsNoLarger
  <1> QED
    BY <1>2, <1>5, <1>7 DEF A

-----------------------------------------------------------------------------
(* The bytes at hand.                                                      *)

\* The bytes at hand are those of the stream behind what has been dispatched.
LEMMA AtHand ==
    ASSUME TypeOK, Layout, InOrder,
           NEW bytes \in Seq(Byte), NEW rest \in Seq(Byte),
           bytes \o rest = Drop(stream, Taken)
    PROVE  /\ Len(bytes) \in Nat /\ Taken \in Nat /\ Len(stream) \in Nat
           /\ Taken + Len(bytes) <= Len(stream)
           /\ \A i \in 1 .. Len(bytes) :
                 bytes[i] = stream[Taken + i] /\ Taken + i \in 1 .. Len(stream)
  <1>1. /\ Taken \in 0 .. Len(stream) /\ Len(stream) \in Nat
        /\ Len(bytes) \in Nat /\ Len(rest) \in Nat
    BY Places, LenProperties
  <1>2. /\ Len(Drop(stream, Taken)) = Len(stream) - Taken
        /\ \A i \in 1 .. Len(stream) - Taken : Drop(stream, Taken)[i] = stream[Taken + i]
    BY <1>1, DropProperties DEF TypeOK
  <1>3. /\ Len(bytes \o rest) = Len(bytes) + Len(rest)
        /\ \A i \in 1 .. Len(bytes) + Len(rest) :
              (bytes \o rest)[i] = IF i <= Len(bytes) THEN bytes[i] ELSE rest[i - Len(bytes)]
    BY ConcatProperties
  <1>4. Len(bytes) + Len(rest) = Len(stream) - Taken
    BY <1>2, <1>3
  <1>5. ASSUME NEW i \in 1 .. Len(bytes)
        PROVE  bytes[i] = stream[Taken + i] /\ Taken + i \in 1 .. Len(stream)
    <2>1. i \in 1 .. Len(bytes) + Len(rest) /\ i \in 1 .. Len(stream) - Taken
      BY <1>1, <1>4
    <2>2. (bytes \o rest)[i] = bytes[i]
      BY <1>1, <1>3, <2>1
    <2>3. Drop(stream, Taken)[i] = stream[Taken + i]
      BY <1>2, <2>1
    <2>4. Taken + i \in 1 .. Len(stream)
      BY <1>1, <2>1
    <2> QED
      BY <2>2, <2>3, <2>4
  <1>6. Taken + Len(bytes) <= Len(stream)
    BY <1>1, <1>4
  <1> QED
    BY <1>1, <1>5, <1>6

\* A packet sent is as long as the way from its start to its end.
LEMMA LengthOfSent ==
    ASSUME TypeOK, Layout, NEW n \in 1 .. Len(ends)
    PROVE  /\ Sent[n] = SubSeq(stream, StartOf(n) + 1, ends[n])
           /\ Len(Sent[n]) = ends[n] - StartOf(n)
           /\ StartOf(n) \in Nat /\ ends[n] \in Nat /\ StartOf(n) < ends[n]
  <1>1. Sent[n] = SubSeq(stream, StartOf(n) + 1, ends[n])
    BY DEF Sent
  <1>2. Len(SubSeq(stream, StartOf(n) + 1, ends[n])) = ends[n] - StartOf(n)
    BY PacketInStream
  <1>3. StartOf(n) \in Nat /\ StartOf(n) + HeaderSize <= ends[n]
    BY DEF Layout
  <1>4. ends[n] \in Nat /\ HeaderSize \in Nat /\ HeaderSize >= 1
    <2>1. ends[n] \in Nat
      BY ElementOfSeq DEF TypeOK
    <2> QED
      BY <2>1, StreamAssumption
  <1>5. StartOf(n) < ends[n]
    BY <1>3, <1>4
  <1> QED
    BY <1>1, <1>2, <1>3, <1>4, <1>5

\* A byte of the stream completes a packet where the packet ends.
LEMMA CompletesAtEnd ==
    ASSUME TypeOK, Layout, Labelled, NEW p \in 1 .. Len(stream)
    PROVE  Completes(stream[p]) <=> p = ends[stream[p].packet]
  <1> DEFINE n == stream[p].packet
  <1>1. n \in 1 .. Len(ends) /\ stream[p].at = p - StartOf(n)
    BY DEF Labelled
  <1>2. Len(stream) \in Nat
    BY LenProperties DEF TypeOK
  <1> HIDE DEF n
  <1>3. Len(Sent[n]) = ends[n] - StartOf(n) /\ StartOf(n) \in Nat /\ ends[n] \in Nat
    BY <1>1, LengthOfSent
  <1>4. stream[p].at = Len(Sent[n]) <=> p = ends[n]
    BY <1>1, <1>2, <1>3
  <1> QED
    BY <1>4 DEF Completes, n

\* What HasPacket accepts ends with a byte that completes a packet.
LEMMA PacketEnds ==
    ASSUME TypeOK, Layout, InOrder, Ordered, Labelled,
           NEW bytes \in Seq(Byte), NEW rest \in Seq(Byte),
           bytes \o rest = Drop(stream, Taken),
           HasPacket(bytes)
    PROVE  HeaderSize + PayloadSize(bytes) \in Endings(bytes)
  <1> DEFINE next == Len(dispatched) + 1
             size == HeaderSize + PayloadSize(bytes)
             p == Taken + size
             n == stream[p].packet
  <1>1. /\ next \in 1 .. Len(ends) /\ size \in 1 .. Len(bytes)
        /\ size = ends[next] - StartOf(next)
    BY NextPacket
  <1>2. Taken = StartOf(next)
    BY DEF Taken
  <1> HIDE DEF next, size
  <1>3. Len(bytes) \in Nat /\ Taken \in Nat /\ Len(stream) \in Nat
        /\ bytes[size] = stream[p] /\ p \in 1 .. Len(stream)
    BY <1>1, AtHand
  <1>4. StartOf(next) \in Nat /\ ends[next] \in Nat /\ StartOf(next) < ends[next]
    BY <1>1, LengthOfSent
  <1>5. p = ends[next]
    BY <1>1, <1>2, <1>3, <1>4
  <1> HIDE DEF p
  <1>6. n \in 1 .. Len(ends) /\ StartOf(n) < p /\ p <= ends[n]
    BY <1>3 DEF Labelled
  <1>7. Len(ends) \in Nat
    BY LenProperties DEF TypeOK
  <1> HIDE DEF n
  <1>8. StartOf(n) \in Nat /\ ends[n] \in Nat
    BY <1>6, LengthOfSent
  <1>9. n = next
    <2>1. CASE n < next
      <3>1. ends[n] <= StartOf(next)
        BY <1>1, <1>6, <2>1 DEF Ordered
      <3> QED
        BY <1>4, <1>5, <1>6, <1>8, <3>1
    <2>2. CASE next < n
      <3>1. ends[next] <= StartOf(n)
        BY <1>1, <1>6, <2>2 DEF Ordered
      <3> QED
        BY <1>4, <1>5, <1>6, <1>8, <3>1
    <2> QED
      BY <1>1, <1>6, <1>7, <2>1, <2>2
  <1>10. Completes(stream[p])
    <2>1. p = ends[stream[p].packet]
      BY <1>5, <1>9 DEF n
    <2> QED
      BY <1>3, <2>1, CompletesAtEnd
  <1>11. Completes(bytes[size])
    BY <1>3, <1>10, Zenon
  <1>12. Endings(bytes) = {i \in 1 .. Len(bytes) : Completes(bytes[i])}
    BY EndingsFinite
  <1> QED
    BY <1>1, <1>11, <1>12, Zenon DEF size

\* What it does not accept completes no packet at all.
LEMMA NothingEnds ==
    ASSUME TypeOK, Layout, InOrder, Ordered, Labelled,
           NEW bytes \in Seq(Byte), NEW rest \in Seq(Byte),
           bytes \o rest = Drop(stream, Taken),
           NEW i \in Endings(bytes)
    PROVE  HasPacket(bytes)
  <1> DEFINE next == Len(dispatched) + 1
             p == Taken + i
             n == stream[p].packet
  <1>1. i \in 1 .. Len(bytes) /\ Completes(bytes[i])
    <2>1. Endings(bytes) = {j \in 1 .. Len(bytes) : Completes(bytes[j])}
      BY EndingsFinite
    <2> QED
      BY <2>1, Zenon
  <1>2. /\ Len(bytes) \in Nat /\ Taken \in Nat /\ Len(stream) \in Nat
        /\ Taken + Len(bytes) <= Len(stream)
        /\ \A j \in 1 .. Len(bytes) :
              bytes[j] = stream[Taken + j] /\ Taken + j \in 1 .. Len(stream)
    BY AtHand
  <1>3. bytes[i] = stream[p] /\ p \in 1 .. Len(stream) /\ Taken < p /\ p <= Taken + Len(bytes)
    BY <1>1, <1>2
  <1>4. Len(ends) \in Nat /\ Len(dispatched) \in Nat /\ Len(dispatched) <= Len(ends)
        /\ \A m \in 1 .. Len(ends) : StartOf(m + 1) = ends[m]
    BY Places DEF InOrder
  <1>5. Taken = StartOf(next)
    BY DEF Taken
  <1>6. next \in 1 .. Len(ends)
    <2>1. StartOf(Len(ends) + 1) = Len(stream)
      BY DEF Layout
    <2>2. next # Len(ends) + 1
      BY <1>2, <1>3, <1>5, <2>1
    <2> QED
      BY <1>4, <2>2
  <1> HIDE DEF p, next
  <1>7. n \in 1 .. Len(ends) /\ p = ends[n]
    <2>1. Completes(stream[p])
      BY <1>1, <1>3, Zenon
    <2> QED
      BY <1>3, <2>1, CompletesAtEnd DEF Labelled
  <1> HIDE DEF n
  <1>8. /\ StartOf(next) \in Nat /\ ends[next] \in Nat /\ StartOf(next) < ends[next]
        /\ StartOf(n) \in Nat /\ ends[n] \in Nat /\ StartOf(n) < ends[n]
    BY <1>6, <1>7, LengthOfSent
  <1>9. ends[next] <= ends[n]
    <2>1. CASE n < next
      <3>1. ends[n] <= StartOf(next)
        BY <1>6, <1>7, <2>1 DEF Ordered
      <3> QED
        BY <1>3, <1>5, <1>7, <1>8, <3>1
    <2>2. CASE next < n
      <3>1. ends[next] <= StartOf(n)
        BY <1>6, <1>7, <2>2 DEF Ordered
      <3> QED
        BY <1>8, <3>1
    <2>3. CASE n = next
      BY <1>8, <2>3
    <2> QED
      BY <1>4, <1>6, <1>7, <2>1, <2>2, <2>3
  <1>10. StartOf(next) + Len(bytes) >= ends[next]
    BY <1>2, <1>3, <1>5, <1>7, <1>8, <1>9
  <1>11. /\ HeaderSize \in Nat /\ SizeAt \in 1 .. HeaderSize
         /\ StartOf(next) + HeaderSize <= ends[next]
         /\ stream[StartOf(next) + SizeAt].value = ends[next] - StartOf(next) - HeaderSize
    BY <1>6, StreamAssumption DEF Layout
  <1>12. Len(bytes) >= HeaderSize /\ SizeAt \in 1 .. Len(bytes)
    <2>1. Len(bytes) \in Nat
      BY <1>2
    <2>2. Len(bytes) >= HeaderSize
      <3>1. /\ StartOf(next) \in Nat /\ ends[next] \in Nat /\ HeaderSize \in Nat
            /\ StartOf(next) + HeaderSize <= ends[next]
        BY <1>8, <1>11
      <3> HIDE DEF StartOf
      <3> QED
        BY <1>10, <2>1, <3>1
    <2> QED
      BY <1>11, <2>1, <2>2
  <1>13. PayloadSize(bytes) = ends[next] - StartOf(next) - HeaderSize
    <2>1. bytes[SizeAt] = stream[StartOf(next) + SizeAt]
      BY <1>2, <1>5, <1>12
    <2> QED
      BY <1>11, <2>1 DEF PayloadSize
  <1>14. Len(bytes) >= PayloadSize(bytes) + HeaderSize
    BY <1>2, <1>8, <1>10, <1>11, <1>13
  <1> QED
    BY <1>12, <1>14 DEF HasPacket, HasHeader

-----------------------------------------------------------------------------
(* The steps.                                                              *)

\* A packet sent comes behind those that are there already, and completes
\* nothing in data_.
LEMMA SendSInv ==
    ASSUME IInv, SInv, NEW payloadSize \in PayloadSizes, Send(payloadSize)
    PROVE  SInv'
  <1> DEFINE bytes == RawPacket(Len(ends) + 1, payloadSize)
  <1>0. /\ TypeOK /\ Layout /\ InOrder /\ Conserved
        /\ Ordered /\ Labelled /\ OpenHolds /\ BacklogOnlyFromSurplus
        /\ peer = "open"
        /\ UNCHANGED <<socket, peer, pump, incoming, attached, data, dispatched, surplus>>
    BY DEF IInv, SInv, Send, session
  <1>1. /\ Len(ends) \in Nat /\ Len(stream) \in Nat
        /\ StartOf(Len(ends) + 1) = Len(stream)
        /\ \A n \in 1 .. Len(ends) : ends[n] \in Nat /\ ends[n] <= Len(stream)
    BY <1>0, Places DEF Layout
  <1>2. /\ Len(stream') = Len(stream) + Len(bytes)
        /\ Len(ends') = Len(ends) + 1
        /\ ends'[Len(ends) + 1] = Len(stream')
        /\ \A n \in 1 .. Len(ends) :
              /\ ends'[n] = ends[n]
              /\ SubSeq(stream', StartOf(n) + 1, ends[n]) = SubSeq(stream, StartOf(n) + 1, ends[n])
        /\ \A n \in 1 .. Len(ends) + 1 : StartOf(n)' = StartOf(n)
        /\ \A i \in 1 .. Len(stream) : stream'[i] = stream[i]
        /\ \A i \in 1 .. Len(bytes) : stream'[Len(stream) + i] = bytes[i]
        /\ Len(ends) + 1 \in 1 .. MaxPackets
    BY SendKeepsPackets
  <1>3. /\ Len(bytes) \in Nat
        /\ \A i \in 1 .. Len(bytes) : bytes[i].packet = Len(ends) + 1 /\ bytes[i].at = i
    <2>1. Len(bytes) = HeaderSize + payloadSize
      BY <1>2, PacketIsBytes
    <2>2. HeaderSize + payloadSize \in Nat
      BY StreamAssumption
    <2> QED
      BY <2>1, <2>2 DEF RawPacket
  <1> HIDE DEF bytes
  <1>4. Ordered'
    <2>1. ASSUME NEW m \in 1 .. Len(ends'), NEW n \in 1 .. Len(ends'), m < n
          PROVE  ends'[m] <= StartOf(n)'
      <3>1. m \in 1 .. Len(ends) /\ n \in 1 .. Len(ends) + 1 /\ (n \in 1 .. Len(ends) \/ n = Len(ends) + 1)
        <4>1. Len(ends') = Len(ends) + 1 /\ Len(ends) \in Nat
          BY <1>1, <1>2
        <4> QED
          BY <2>1, <4>1
      <3>2. ends'[m] = ends[m] /\ StartOf(n)' = StartOf(n)
        BY <1>2, <3>1
      <3>3. ends[m] <= StartOf(n)
        <4>1. CASE n \in 1 .. Len(ends)
          BY <1>0, <2>1, <3>1, <4>1 DEF Ordered
        <4>2. CASE n = Len(ends) + 1
          BY <1>1, <3>1, <4>2
        <4> QED
          BY <3>1, <4>1, <4>2
      <3> QED
        BY <3>2, <3>3
    <2> QED
      BY <2>1 DEF Ordered
  <1>5. Labelled'
    <2>1. ASSUME NEW p \in 1 .. Len(stream')
          PROVE  \E n \in 1 .. Len(ends') :
                     /\ stream'[p].packet = n /\ stream'[p].at = p - StartOf(n)'
                     /\ StartOf(n)' < p /\ p <= ends'[n]
      <3>1. CASE p \in 1 .. Len(stream)
        <4>1. PICK n \in 1 .. Len(ends) :
                 /\ stream[p].packet = n /\ stream[p].at = p - StartOf(n)
                 /\ StartOf(n) < p /\ p <= ends[n]
          BY <1>0, <3>1 DEF Labelled
        <4>2. stream'[p] = stream[p]
          BY <1>2, <3>1
        <4>3. n \in 1 .. Len(ends) + 1 /\ n \in 1 .. Len(ends')
          BY <1>1, <1>2
        <4>4. StartOf(n)' = StartOf(n) /\ ends'[n] = ends[n]
          BY <1>2, <4>3
        <4>5. /\ stream'[p].packet = n /\ stream'[p].at = p - StartOf(n)'
              /\ StartOf(n)' < p /\ p <= ends'[n]
          BY <4>1, <4>2, <4>4
        <4> QED
          BY <4>3, <4>5
      <3>2. CASE p > Len(stream)
        <4>1. PICK n \in Nat : n = Len(ends) + 1
          BY <1>1
        <4>2. n \in 1 .. Len(ends) + 1 /\ n \in 1 .. Len(ends')
          BY <1>1, <1>2, <4>1
        <4>3. PICK i \in 1 .. Len(bytes) : p = Len(stream) + i
          <5>1. p - Len(stream) \in 1 .. Len(bytes) /\ p = Len(stream) + (p - Len(stream))
            BY <1>1, <1>2, <1>3, <3>2
          <5> QED
            BY <5>1
        <4>4. stream'[p].packet = n /\ stream'[p].at = i
          BY <1>2, <1>3, <4>1, <4>3
        <4>5. StartOf(n)' = Len(stream) /\ ends'[n] = Len(stream')
          <5>1. StartOf(n)' = StartOf(n)
            BY <1>2, <4>2
          <5>2. StartOf(n) = Len(stream)
            BY <1>1, <4>1
          <5> QED
            BY <1>2, <4>1, <5>1, <5>2
        <4>6. i = p - Len(stream) /\ Len(stream) < p /\ p <= Len(stream')
          BY <1>1, <1>2, <1>3, <4>3
        <4> QED
          BY <4>2, <4>4, <4>5, <4>6
      <3> QED
        BY <1>1, <1>2, <1>3, <3>1, <3>2
    <2> QED
      BY <2>1 DEF Labelled
  <1>6. OpenHolds'
    BY <1>0 DEF OpenHolds, Connected
  <1>7. BacklogOnlyFromSurplus'
    <2> SUFFICES ASSUME pump' # "terminated"
                 PROVE  Cardinality(Endings(data)') <= surplus'
      BY DEF BacklogOnlyFromSurplus
    <2>1. Cardinality(Endings(data)) <= surplus /\ Connected
      BY <1>0 DEF BacklogOnlyFromSurplus, OpenHolds
    <2>2. (data \o socket) \o wire = Drop(stream, Taken)
      BY <1>0, <2>1 DEF Conserved
    <2>3. data \in Seq(Byte) /\ socket \in Seq(Byte) /\ wire \in Seq(Byte)
      BY <1>0 DEF TypeOK
    <2>4. data \o (socket \o wire) = Drop(stream, Taken) /\ socket \o wire \in Seq(Byte)
      <3>1. \A t \in Seq(Byte) : \A u \in Seq(Byte) : (data \o t) \o u = data \o (t \o u)
        BY <2>3, ThreeParts, Zenon
      <3>2. \A u \in Seq(Byte) : (data \o socket) \o u = data \o (socket \o u)
        BY <2>3, <3>1, Zenon
      <3>3. \A u \in Seq(Byte) : socket \o u \in Seq(Byte)
        BY <2>3, TwoParts, Zenon
      <3> QED
        BY <2>2, <2>3, <3>2, <3>3, Zenon
    <2>5. /\ Len(data) \in Nat
          /\ \A i \in 1 .. Len(data) : data[i] = stream[Taken + i] /\ Taken + i \in 1 .. Len(stream)
      BY <1>0, <2>3, <2>4, AtHand
    <2>6. ASSUME NEW i \in 1 .. Len(data)
          PROVE  Len(Sent'[data[i].packet]) = Len(Sent[data[i].packet])
      <3>1. PICK n \in 1 .. Len(ends) : data[i].packet = n
        <4>1. PICK p \in 1 .. Len(stream) : data[i] = stream[p]
          BY <2>5
        <4>2. \E n \in 1 .. Len(ends) : stream[p].packet = n
          BY <1>0 DEF Labelled
        <4> QED
          BY <4>1, <4>2
      <3>2. n \in 1 .. Len(ends) + 1 /\ n \in 1 .. Len(ends')
        BY <1>1, <1>2
      <3>3. Sent'[n] = SubSeq(stream', StartOf(n)' + 1, ends'[n])
        BY <3>2 DEF Sent, StartOf
      <3>4. StartOf(n)' = StartOf(n)
        BY <1>2, <3>2
      <3>5. /\ ends'[n] = ends[n]
            /\ SubSeq(stream', StartOf(n) + 1, ends[n]) = SubSeq(stream, StartOf(n) + 1, ends[n])
        BY <1>2
      <3>6. Sent[n] = SubSeq(stream, StartOf(n) + 1, ends[n])
        BY DEF Sent
      <3>7. Sent'[n] = Sent[n]
        BY <3>3, <3>4, <3>5, <3>6, Zenon
      <3> QED
        BY <3>1, <3>7, Zenon
    <2>7. DOMAIN data = 1 .. Len(data) /\ data' = data
      BY <1>0, <2>3, LenProperties
    <2>8. Endings(data)' = {i \in 1 .. Len(data) : data[i].at = Len(Sent'[data[i].packet])}
      BY <2>7, Zenon DEF Endings
    <2>9. Endings(data) = {i \in 1 .. Len(data) : data[i].at = Len(Sent[data[i].packet])}
      BY <2>7, Zenon DEF Endings
    <2>10. Endings(data)' = Endings(data)
      BY <2>6, <2>8, <2>9, Zenon
    <2> QED
      BY <1>0, <2>1, <2>10
  <1> QED
    BY <1>4, <1>5, <1>6, <1>7 DEF SInv

\* The steps that leave data_ alone.
LEMMA QuietSInv ==
    ASSUME SInv,
           UNCHANGED <<stream, ends, data, surplus>>,
           pump = "terminated" => pump' = "terminated",
           OpenHolds'
    PROVE  SInv'
  <1>1. Ordered' /\ Labelled'
    BY DEF SInv, Ordered, Labelled, StartOf
  <1>2. Endings(data)' = Endings(data)
    BY DEF Endings, Sent, StartOf
  <1>3. BacklogOnlyFromSurplus'
    BY <1>2 DEF SInv, BacklogOnlyFromSurplus
  <1> QED
    BY <1>1, <1>3 DEF SInv

\* A read leaves behind at most what it brought in behind a first packet.
LEMMA ProcessPendingDataSInv ==
    ASSUME IInv, SInv, ProcessPendingData
    PROVE  SInv'
  <1> DEFINE read == SubSeq(socket, 1, incoming)
             bytes == data \o read
             left == Drop(socket, incoming)
             size == HeaderSize + PayloadSize(bytes)
  <1>0. /\ TypeOK /\ Layout /\ InOrder /\ Announced /\ Conserved
        /\ Ordered /\ Labelled /\ OpenHolds /\ BacklogOnlyFromSurplus
        /\ pump = "callback" /\ attached /\ peer # "reset" /\ incoming # 0
        /\ UNCHANGED <<stream, ends, wire, peer, incoming, attached>>
    BY DEF IInv, SInv, ProcessPendingData, messenger, Announced
  <1>1. /\ socket \in Seq(Byte) /\ data \in Seq(Byte) /\ wire \in Seq(Byte)
        /\ incoming \in 0 .. Len(socket) /\ surplus \in Nat
    BY <1>0, LenProperties DEF TypeOK, Announced
  <1>2. read \in Seq(Byte) /\ left \in Seq(Byte) /\ read \o left = socket
    BY <1>1, TakeProperties, DropProperties, TakeDrop
  <1>3. bytes \in Seq(Byte)
    BY <1>1, <1>2, ConcatProperties
  <1>4. /\ \/ HasPacket(bytes) /\ Consume(bytes)
           \/ ~HasPacket(bytes) /\ pump' = "select" /\ data' = bytes
        /\ surplus' = surplus + BehindTheFirst(Endings(read))
    BY DEF ProcessPendingData
  <1>5. Cardinality(Endings(bytes)) <= Cardinality(Endings(data)) + Cardinality(Endings(read))
    BY <1>1, <1>2, EndingsConcat
  <1>6. Cardinality(Endings(data)) <= surplus
    BY <1>0 DEF BacklogOnlyFromSurplus
  <1> HIDE DEF read, left
  <1>7. (data \o (read \o left)) \o wire = Drop(stream, Taken)
    <2>1. (data \o socket) \o wire = Drop(stream, Taken)
      BY <1>0 DEF Conserved, Connected
    <2> QED
      BY <1>2, <2>1, Zenon
  <1>8. bytes \o (left \o wire) = Drop(stream, Taken) /\ left \o wire \in Seq(Byte)
    <2>1. \A t \in Seq(Byte) : \A u \in Seq(Byte) : (data \o t) \o u = data \o (t \o u)
      BY <1>1, ThreeParts, Zenon
    <2>2. \A u \in Seq(Byte) : (data \o read) \o u = data \o (read \o u)
      BY <1>2, <2>1, Zenon
    <2>3. (data \o read) \o left = data \o (read \o left)
      BY <1>2, <2>2, Zenon
    <2> HIDE DEF bytes
    <2>4. \A t \in Seq(Byte) : \A u \in Seq(Byte) : (bytes \o t) \o u = bytes \o (t \o u)
      BY <1>3, ThreeParts, Zenon
    <2>5. \A u \in Seq(Byte) : (bytes \o left) \o u = bytes \o (left \o u)
      BY <1>2, <2>4, Zenon
    <2>6. (bytes \o left) \o wire = bytes \o (left \o wire)
      BY <1>1, <2>5, Zenon
    <2>7. \A u \in Seq(Byte) : left \o u \in Seq(Byte)
      BY <1>2, TwoParts, Zenon
    <2>8. left \o wire \in Seq(Byte)
      BY <1>1, <2>7, Zenon
    <2>9. (bytes \o left) \o wire = Drop(stream, Taken)
      BY <1>7, <2>3, Zenon DEF bytes
    <2> QED
      BY <2>6, <2>8, <2>9, Zenon
  <1> HIDE DEF bytes
  <1>9. Ordered' /\ Labelled'
    BY <1>0 DEF Ordered, Labelled, StartOf
  <1>10. OpenHolds'
    <2>1. pump' = "select" \/ pump' = "terminated"
      BY <1>4 DEF Consume
    <2> QED
      BY <1>0, <2>1 DEF OpenHolds, Connected
  <1>11. /\ Cardinality(Endings(read)) \in Nat /\ Cardinality(Endings(data)) \in Nat
         /\ Cardinality(Endings(bytes)) \in Nat /\ IsFiniteSet(Endings(read))
    BY <1>1, <1>2, <1>3, EndingsFinite
  <1>12. /\ surplus' \in Nat
         /\ surplus + Cardinality(Endings(read)) <= surplus' + 1
    <2>1. CASE Endings(read) = {}
      <3>1. Cardinality(Endings(read)) = 0 /\ BehindTheFirst(Endings(read)) = 0
        BY <2>1, FS_EmptySet DEF BehindTheFirst
      <3> QED
        BY <1>1, <1>4, <3>1
    <2>2. CASE Endings(read) # {}
      <3>1. Cardinality(Endings(read)) # 0
        BY <1>11, <2>2, FS_EmptySet
      <3>2. BehindTheFirst(Endings(read)) = Cardinality(Endings(read)) - 1
        BY <2>2 DEF BehindTheFirst
      <3> QED
        BY <1>1, <1>4, <1>11, <3>1, <3>2
    <2> QED
      BY <2>1, <2>2
  <1>13. BacklogOnlyFromSurplus'
    <2> SUFFICES ASSUME pump' # "terminated"
                 PROVE  Cardinality(Endings(data)') <= surplus'
      BY DEF BacklogOnlyFromSurplus
    <2>1. Endings(data)' = Endings(data')
      BY <1>0 DEF Endings, Sent, StartOf
    <2>2. CASE ~HasPacket(bytes)
      <3>1. data' = bytes
        BY <1>4, <2>2
      <3>2. Endings(bytes) = {}
        BY <1>0, <1>3, <1>8, <2>2, NothingEnds
      <3>3. Cardinality(Endings(bytes)) = 0
        BY <3>2, FS_EmptySet
      <3> QED
        BY <1>12, <2>1, <3>1, <3>3
    <2>3. CASE HasPacket(bytes)
      <3>1. data' = Drop(bytes, size)
        BY <1>4, <2>3 DEF Consume, Drop
      <3>2. size \in Endings(bytes)
        BY <1>0, <1>3, <1>8, <2>3, PacketEnds
      <3> HIDE DEF size
      <3>3. /\ Drop(bytes, size) \in Seq(Byte)
            /\ Cardinality(Endings(Drop(bytes, size))) <= Cardinality(Endings(bytes)) - 1
        BY <1>3, <3>2, EndingsDrop
      <3>4. Cardinality(Endings(Drop(bytes, size))) \in Nat
        BY <3>3, EndingsFinite
      <3>5. Cardinality(Endings(Drop(bytes, size))) <= surplus'
        BY <1>1, <1>5, <1>6, <1>11, <1>12, <3>3, <3>4
      <3> QED
        BY <2>1, <3>1, <3>5
    <2> QED
      BY <2>2, <2>3
  <1> QED
    BY <1>9, <1>10, <1>13 DEF SInv

\* Every step keeps the invariant.
LEMMA NextSInv == IInv /\ SInv /\ [Next]_vars => SInv'
  <1> SUFFICES ASSUME IInv, SInv, [Next]_vars PROVE SInv'
    OBVIOUS
  <1> USE DEF messenger, session
  <1>0. OpenHolds /\ Announced
    BY DEF IInv, SInv
  <1>1. CASE \E payloadSize \in PayloadSizes : Send(payloadSize)
    BY <1>1, SendSInv
  <1>2. CASE Arrive
    <2>1. OpenHolds'
      BY <1>0, <1>2 DEF Arrive, OpenHolds, Connected
    <2> QED
      BY <1>2, <2>1, QuietSInv DEF Arrive
  <1>3. CASE Close
    <2>1. OpenHolds'
      BY <1>3 DEF Close, OpenHolds
    <2> QED
      BY <1>3, <2>1, QuietSInv DEF Close
  <1>4. CASE Reset
    <2>1. OpenHolds'
      BY <1>4 DEF Reset, OpenHolds
    <2> QED
      BY <1>4, <2>1, QuietSInv DEF Reset
  <1>5. CASE Select
    <2>1. OpenHolds'
      <3>1. peer = "open" => socket # <<>>
        BY <1>5 DEF Select, Readable
      <3>2. peer = "open" => incoming' # 0
        BY <1>5, <3>1 DEF Select
      <3> QED
        BY <1>5, <3>2 DEF Select, OpenHolds, Connected
    <2> QED
      BY <1>5, <2>1, QuietSInv DEF Select
  <1>6. CASE FailSelect
    <2>1. OpenHolds'
      BY <1>6 DEF FailSelect, OpenHolds
    <2> QED
      BY <1>6, <2>1, QuietSInv DEF FailSelect
  <1>7. CASE CloseSocket
    <2>1. OpenHolds'
      BY <1>0, <1>7 DEF CloseSocket, Detach, OpenHolds
    <2> QED
      BY <1>7, <2>1, QuietSInv DEF CloseSocket, Detach
  <1>8. CASE FailReceive
    <2>1. OpenHolds'
      BY <1>8 DEF FailReceive, Detach, OpenHolds
    <2> QED
      BY <1>8, <2>1, QuietSInv DEF FailReceive, Detach
  <1>9. CASE ProcessPendingData
    BY <1>9, ProcessPendingDataSInv
  <1>10. CASE UNCHANGED vars
    <2>1. OpenHolds'
      BY <1>0, <1>10 DEF vars, OpenHolds, Connected
    <2> QED
      BY <1>10, <2>1, QuietSInv DEF vars
  <1> QED
    BY <1>1, <1>2, <1>3, <1>4, <1>5, <1>6, <1>7, <1>8, <1>9, <1>10 DEF Next, Pump

\* Nothing is in data_ when the session thread starts.
LEMMA InitSInv == Init => SInv
  <1> SUFFICES ASSUME Init PROVE SInv
    OBVIOUS
  <1>1. /\ stream = <<>> /\ ends = <<>> /\ data = <<>> /\ surplus = 0
        /\ pump = "select" /\ attached
    BY DEF Init
  <1>2. Len(<<>>) = 0 /\ DOMAIN <<>> = {}
    BY EmptySeq
  <1>3. Ordered /\ Labelled
    BY <1>1, <1>2 DEF Ordered, Labelled
  <1>4. OpenHolds
    BY <1>1 DEF OpenHolds, Connected
  <1>5. BacklogOnlyFromSurplus
    <2>1. Endings(data) = {}
      BY <1>1, <1>2 DEF Endings
    <2> QED
      BY <1>1, <2>1, FS_EmptySet DEF BacklogOnlyFromSurplus
  <1> QED
    BY <1>3, <1>4, <1>5 DEF SInv

\* However the network cuts the bytes, ProcessPendingData leaves no more
\* whole packets in data_ than have arrived behind another one in a read.
THEOREM BacklogAlwaysFromSurplus == Spec => []BacklogOnlyFromSurplus
  <1>1. SInv => BacklogOnlyFromSurplus
    BY DEF SInv
  <1> QED
    BY <1>1, InitSInv, NextSInv, Invariance, PTL DEF Spec
=============================================================================
