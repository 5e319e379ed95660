------------------------------ MODULE YMsgStream ------------------------------
(***************************************************************************)
(* The bytes of one connection on their way from the messenger to the      *)
(* packet dispatcher: the socket, the ConnectionPump that polls it and the *)
(* ProtocolStream that cuts packets out of what it has read.               *)
(*                                                                         *)
(* TCP delivers the bytes in order and in chunks of its own choosing, so a *)
(* read may end in the middle of a header or bring in several packets.     *)
(* ProcessPendingData dispatches at most one packet a read.  A packet that *)
(* came with another one waits until more bytes arrive.                    *)
(***************************************************************************)
EXTENDS Naturals, Sequences, FiniteSets

CONSTANTS
    HeaderSize,   \* sizeof(RawHeader)
    SizeAt,       \* the byte of the header that holds the payload's size
    PayloadSizes, \* the payload sizes of the packets in the instance
    MaxPackets    \* bound: packets the messenger sends

ASSUME StreamAssumption ==
    /\ HeaderSize \in Nat
    /\ SizeAt \in 1 .. HeaderSize
    /\ PayloadSizes \subseteq Nat
    /\ MaxPackets \in Nat

VARIABLES
    stream,     \* history: every byte the messenger has sent
    ends,       \* history: where in stream each of its packets ends
    wire,       \* bytes sent that have not arrived
    socket,     \* bytes in the receive buffer of the session's socket
    peer,       \* the messenger's end: "open", "closed" or "reset"
    pump,       \* the session thread: about to "select", in the "callback" of the
                \* socket, back from Pump ("stopped") or "terminated" by an exception
    incoming,   \* the number of bytes FIONREAD has announced to the callback
    attached,   \* whether ConnectionPump::onDateCallbacks_ has the socket
    data,       \* ProtocolStream::data_
    dispatched, \* history: what has been handed to the dispatcher
    surplus     \* history: packets that arrived behind another one in a read

messenger == <<stream, ends>>
session == <<pump, incoming, attached, data, dispatched, surplus>>
vars == <<messenger, wire, socket, peer, session>>

-----------------------------------------------------------------------------
(* Bytes and packets.                                                      *)

\* A byte knows the packet it was sent in and its place there.  Its value
\* only matters in the size field.
Byte == [packet : 1 .. MaxPackets, at : Nat \ {0}, value : Nat]

\* The n-th packet, with a payload of a given size.
RawPacket(n, payloadSize) ==
    [at \in 1 .. HeaderSize + payloadSize |->
        [packet |-> n, at |-> at, value |-> IF at = SizeAt THEN payloadSize ELSE 0]]

StartOf(n) == IF n = 1 THEN 0 ELSE ends[n - 1]
Sent == [n \in 1 .. Len(ends) |-> SubSeq(stream, StartOf(n) + 1, ends[n])]

\* The bytes that complete a packet, by their place in some bytes read.
Endings(bytes) ==
    {i \in DOMAIN bytes : bytes[i].at = Len(Sent[bytes[i].packet])}

\* Slip: a header alone is not taken for one.
HasHeaderMore(bytes) == Len(bytes) > HeaderSize
HasHeader(bytes) == Len(bytes) >= HeaderSize

BehindTheFirst(set) == IF set = {} THEN 0 ELSE Cardinality(set) - 1

\* What GetRawHeader()->payloadSize says: whatever byte stands there.
PayloadSize(bytes) == bytes[SizeAt].value

\* Slip: a packet needs a byte behind it.
HasPacketMore(bytes) == HasHeader(bytes) /\ Len(bytes) > PayloadSize(bytes) + HeaderSize
HasPacket(bytes) == HasHeader(bytes) /\ Len(bytes) >= PayloadSize(bytes) + HeaderSize

-----------------------------------------------------------------------------
(* The messenger and the network.                                          *)

Init ==
    /\ stream = <<>>
    /\ ends = <<>>
    /\ wire = <<>>
    /\ socket = <<>>
    /\ peer = "open"
    /\ pump = "select"
    /\ incoming = 0
    /\ attached = TRUE
    /\ data = <<>>
    /\ dispatched = <<>>
    /\ surplus = 0

\* The messenger sends a packet, whether or not those before it have been
\* dispatched.
Send(payloadSize) ==
    /\ peer = "open"
    /\ Len(ends) < MaxPackets
    /\ LET bytes == RawPacket(Len(ends) + 1, payloadSize)
       IN  /\ stream' = stream \o bytes
           /\ ends' = Append(ends, Len(stream) + Len(bytes))
           /\ wire' = wire \o bytes
    /\ UNCHANGED <<socket, peer, session>>

\* Some of the bytes on the wire arrive, in order.
Arrive ==
    /\ \E n \in 1 .. Len(wire) :
          /\ socket' = socket \o SubSeq(wire, 1, n)
          /\ wire' = SubSeq(wire, n + 1, Len(wire))
    /\ UNCHANGED <<messenger, peer, session>>

\* The messenger closes its end: what it sent before still arrives.
Close ==
    /\ peer = "open"
    /\ peer' = "closed"
    /\ UNCHANGED <<messenger, wire, socket, session>>

\* The connection breaks: what has not been read is lost.
Reset ==
    /\ peer # "reset"
    /\ peer' = "reset"
    /\ wire' = <<>>
    /\ socket' = <<>>
    /\ UNCHANGED <<messenger, session>>

-----------------------------------------------------------------------------
(* The session thread: ConnectionPump::Pump, with this one socket, and the *)
(* ProtocolStream::ProcessPendingData it calls back.                       *)

Readable == socket # <<>> \/ (peer = "closed" /\ wire = <<>>) \/ peer = "reset"

\* select reports the socket and FIONREAD how much one recv can read from
\* it, which need not be all there is; at the end of the stream it is none.
Select ==
    /\ pump = "select"
    /\ attached
    /\ Readable
    /\ pump' = "callback"
    /\ incoming' \in IF socket = <<>> THEN {0} ELSE 1 .. Len(socket)
    /\ UNCHANGED <<messenger, wire, socket, peer, attached, data, dispatched, surplus>>

\* FIONREAD fails on a broken connection: Pump returns.
FailSelect ==
    /\ pump = "select"
    /\ attached
    /\ peer = "reset"
    /\ pump' = "stopped"
    /\ UNCHANGED <<messenger, wire, socket, peer, incoming, attached, data, dispatched, surplus>>

\* The callback returns false: the pump forgets the socket and, with nothing
\* left to wait for, polls on for nothing.
Detach ==
    /\ pump' = "select"
    /\ attached' = FALSE
    /\ UNCHANGED <<messenger, wire, socket, peer, incoming, data, dispatched, surplus>>

\* The end of the stream.  Slip: it is taken for a read of nothing.
CloseSocketUnnoticed ==
    /\ pump = "callback"
    /\ incoming = 0
    /\ pump' = "select"
    /\ UNCHANGED <<messenger, wire, socket, peer, incoming, attached, data, dispatched, surplus>>

CloseSocket ==
    /\ pump = "callback"
    /\ incoming = 0
    /\ Detach

\* Slip: the room made in data_ for the bytes stays in it.
FailReceiveUncut ==
    /\ pump = "callback"
    /\ incoming # 0
    /\ peer = "reset"
    /\ pump' = "select"
    /\ attached' = FALSE
    /\ data' = data \o [i \in 1 .. incoming |-> [packet |-> 0, at |-> 0, value |-> 0]]
    /\ UNCHANGED <<messenger, wire, socket, peer, incoming, dispatched, surplus>>

\* recv fails because the connection broke after FIONREAD: data_ is cut back
\* to what it was.
FailReceive ==
    /\ pump = "callback"
    /\ incoming # 0
    /\ peer = "reset"
    /\ Detach

\* The first packet of the bytes at hand goes to the dispatcher and is erased
\* when the dispatcher returns.  Slip: the header is not erased with it.
ConsumeKeepingHeader(bytes) ==
    LET payloadEnd == HeaderSize + PayloadSize(bytes)
    IN  /\ dispatched' = Append(dispatched, SubSeq(bytes, 1, payloadEnd))
        /\ \/ /\ pump' = "select"
              /\ data' = SubSeq(bytes, PayloadSize(bytes) + 1, Len(bytes))
           \/ /\ pump' = "terminated"
              /\ data' = bytes

Consume(bytes) ==
    LET payloadEnd == HeaderSize + PayloadSize(bytes)
    IN  /\ dispatched' = Append(dispatched, SubSeq(bytes, 1, payloadEnd))
        /\ \/ /\ pump' = "select"
              /\ data' = SubSeq(bytes, payloadEnd + 1, Len(bytes))
           \/ /\ pump' = "terminated"
              /\ data' = bytes

\* A read appends to data_, and at most one packet is consumed after it.
ProcessPendingData ==
    /\ pump = "callback"
    /\ incoming # 0
    /\ peer # "reset"
    /\ LET read == SubSeq(socket, 1, incoming)
           bytes == data \o read
       IN  /\ \/ HasPacket(bytes) /\ Consume(bytes)
              \/ ~HasPacket(bytes) /\ pump' = "select" /\ data' = bytes /\ UNCHANGED dispatched
           /\ surplus' = surplus + BehindTheFirst(Endings(read))
    /\ socket' = SubSeq(socket, incoming + 1, Len(socket))
    /\ UNCHANGED <<messenger, wire, peer, incoming, attached>>

Pump == Select \/ FailSelect \/ CloseSocket \/ FailReceive \/ ProcessPendingData

Next ==
    \/ \E payloadSize \in PayloadSizes : Send(payloadSize)
    \/ Arrive
    \/ Close
    \/ Reset
    \/ Pump

Spec == Init /\ [][Next]_vars

\* TCP delivers what was sent while the connection holds, and the session
\* thread keeps polling.  Nobody has to send or to close.
FairSpec == Spec /\ WF_vars(Arrive) /\ WF_vars(Pump)

-----------------------------------------------------------------------------
(* Properties.                                                             *)

\* Type invariant.
TypeOK ==
    /\ stream \in Seq(Byte)
    /\ ends \in Seq(Nat)
    /\ wire \in Seq(Byte)
    /\ socket \in Seq(Byte)
    /\ peer \in {"open", "closed", "reset"}
    /\ pump \in {"select", "callback", "stopped", "terminated"}
    /\ incoming \in Nat
    /\ attached \in BOOLEAN
    /\ data \in Seq(Byte)
    /\ dispatched \in Seq(Seq(Byte))
    /\ surplus \in Nat

Connected == attached /\ pump \in {"select", "callback"}

\* The packets sent, those dispatched and the connection, seen as a channel.
Channel ==
    INSTANCE YMsgChannel WITH
        Packet <- {RawPacket(n, payloadSize) : n \in 1 .. MaxPackets, payloadSize \in PayloadSizes},
        sent <- Sent,
        connected <- Connected

\* However the network cuts the stream, the dispatcher is handed the packets
\* the messenger sent, whole, once each and in order, up to the moment the
\* connection is dropped.
IsChannel == Channel!Spec

\* A whole packet is left behind in data_ only for each packet that arrived
\* behind another in the same read: a read that completes one packet leaves
\* none more than there were, and a backlog never grows any other way.
BacklogOnlyFromSurplus ==
    pump # "terminated" => Cardinality(Endings(data)) <= surplus

\* A messenger that always waits for a packet's reply, and so for its
\* dispatch, before it sends the next one has every packet dispatched: it
\* never leaves the pump a read that brings in two.
PatientIsServed ==
    [](Len(ends) <= Len(dispatched) + 1) =>
        \A n \in 1 .. MaxPackets :
            Len(ends) >= n ~> (Len(dispatched) >= n \/ ~Connected)

\* A connection the messenger has closed, or that broke, is dropped by the
\* pump once what arrived before has been read.
GoneIsDetached == peer # "open" ~> ~Connected
=============================================================================
