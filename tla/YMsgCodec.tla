------------------------------ MODULE YMsgCodec ------------------------------
(***************************************************************************)
(* The payload of a packet: key/value pairs as text between terminators of *)
(* two bytes.  A private message crosses the code twice.  PacketParser     *)
(* takes the sender's payload apart into the fields of a PrivateMessage,   *)
(* whose Process builds the packet for the recipient from them; the        *)
(* recipient reads that the way PacketParser would.                        *)
(*                                                                         *)
(* The sender may send any bytes: the last terminator may be missing or    *)
(* cut, a null byte and anything behind it may follow the pairs, and a     *)
(* text may end in the first byte of a terminator.                         *)
(***************************************************************************)
EXTENDS Integers, Sequences

CONSTANTS
    Payload,     \* the payloads a sender sends, sequences of bytes
    HeaderSize,  \* sizeof(RawHeader)
    MaxSize,     \* Builder::PaxPayloadSize, one more than the size field can hold
    MaxInt,      \* INT_MAX, and LONG_MAX, which is the same on Windows
    Leftovers,   \* what an uninitialised encoding may be
    Behind       \* what may follow a payload in memory, sequences of bytes

Byte == 0 .. 255
TerminatorByte1 == 192
TerminatorByte2 == 128
Terminator == <<TerminatorByte1, TerminatorByte2>>
Digit == 48 .. 57
Blank == 9 .. 13 \cup {32}
Plus == 43
Minus == 45

MinInt == -MaxInt - 1
CInt == MinInt .. MaxInt

ASSUME CodecAssumption ==
    /\ Payload \subseteq Seq(Byte)
    /\ HeaderSize \in Nat /\ MaxSize \in Nat \ {0}
    /\ MaxInt \in Nat /\ MaxInt >= 97 \* the largest key
    /\ Leftovers \subseteq CInt /\ Leftovers # {}
    /\ Behind \subseteq Seq(Byte) /\ Behind # {}

VARIABLES
    status,    \* what happens to the message, "terminated" by an exception
    payload,   \* the payload being parsed
    start,     \* PacketParser::Parse's start, 1 for the first byte
    fields,    \* the fields stored so far
    relayed,   \* history: the fields Process was called with
    appended,  \* how many of the packet's pairs have been appended
    buffer,    \* Builder::buffer_, behind the header
    size       \* the payload size of the header that was sent

vars == <<status, payload, start, fields, relayed, appended, buffer, size>>

Fields == [clientId : Seq(Byte), contactId : Seq(Byte), message : Seq(Byte), encoding : CInt]

-----------------------------------------------------------------------------
(* Text.                                                                   *)

\* std::to_string, of what is not negative and of any int.
Text[n \in Nat] == IF n < 10 THEN <<48 + n>> ELSE Text[n \div 10] \o <<48 + (n % 10)>>
ToString(n) == IF n < 0 THEN <<Minus>> \o Text[-n] ELSE Text[n]

\* What is left of a text behind the blanks it begins with.
SkipBlanks(text) ==
    LET first == CHOOSE i \in 1 .. Len(text) + 1 :
                    /\ \A j \in 1 .. i - 1 : text[j] \in Blank
                    /\ i <= Len(text) => text[i] \notin Blank
    IN  SubSeq(text, first, Len(text))

\* The number that the digits a text begins with stand for.
Magnitude(text) ==
    LET value[i \in 0 .. Len(text)] == IF i = 0 THEN 0 ELSE 10 * value[i - 1] + text[i] - 48
        Leading(i) == \A j \in 1 .. i : text[j] \in Digit
        count == CHOOSE i \in 0 .. Len(text) :
                    Leading(i) /\ \A k \in 0 .. Len(text) : Leading(k) => k <= i
    IN  value[count]

Clamp(n) == IF n > MaxInt THEN MaxInt ELSE IF n < MinInt THEN MinInt ELSE n

\* strtol and atoi: behind blanks, with a sign or without, within their range.
Number(text) ==
    LET rest == SkipBlanks(text)
        Begins(sign) == rest # <<>> /\ Head(rest) = sign
    IN  IF Begins(Minus) THEN Clamp(-Magnitude(Tail(rest)))
        ELSE IF Begins(Plus) THEN Clamp(Magnitude(Tail(rest)))
        ELSE Clamp(Magnitude(rest))

\* Slip: two bytes are skipped although there is only one left.
FindTerminatorPast(bytes, begin) ==
    LET Ends == {i \in begin .. Len(bytes) :
                    /\ bytes[i] = TerminatorByte1
                    /\ i < Len(bytes) => bytes[i + 1] = TerminatorByte2}
        first == CHOOSE i \in Ends : \A j \in Ends : i <= j
    IN  IF Ends = {} THEN [end |-> Len(bytes) + 1, next |-> Len(bytes) + 1]
        ELSE [end |-> first, next |-> first + 2]

\* Where a text ends and the next one starts: at the first terminator, at the
\* first byte of one that is the last byte of all, or behind the last byte.
FindTerminator(bytes, begin) ==
    LET Ends == {i \in begin .. Len(bytes) :
                    /\ bytes[i] = TerminatorByte1
                    /\ i < Len(bytes) => bytes[i + 1] = TerminatorByte2}
        first == CHOOSE i \in Ends : \A j \in Ends : i <= j
    IN  IF Ends = {} THEN [end |-> Len(bytes) + 1, next |-> Len(bytes) + 1]
        ELSE [end |-> first, next |-> IF first = Len(bytes) THEN first + 1 ELSE first + 2]

-----------------------------------------------------------------------------

Init ==
    /\ status = "idle"
    /\ payload = <<>>
    /\ start = 1
    /\ fields \in [clientId : {<<>>}, contactId : {<<>>}, message : {<<>>}, encoding : Leftovers]
    /\ relayed = fields
    /\ appended = 0
    /\ buffer = <<>>
    /\ size = 0

\* A new payload and a new PrivateMessage, whose encoding nobody initialises.
BeginParse(bytes, next) ==
    /\ payload' = bytes
    /\ start' = 1
    /\ fields' \in [clientId : {<<>>}, contactId : {<<>>}, message : {<<>>}, encoding : Leftovers]
    /\ status' = next

\* The parser, the message and the builder are made anew for each message.
Arrive ==
    /\ status \in {"idle", "read"}
    /\ \E bytes \in Payload : BeginParse(bytes, "parsing")
    /\ relayed' = fields'
    /\ appended' = 0
    /\ buffer' = <<>>
    /\ size' = 0

\* The number atoi makes of a value.  It takes no length: a value without
\* terminator is read on into what follows the payload in memory.  It fails
\* for an empty value, which has no address.
Encodings(value, terminated) ==
    {Number(value \o behind) : behind \in IF terminated THEN {<<>>} ELSE Behind}

OnKeyPair(key, value, terminated) ==
    IF key = 97
    THEN \E encoding \in Encodings(value, terminated) :
            fields' = [fields EXCEPT !.encoding = encoding]
    ELSE fields' = [fields EXCEPT
                       !.clientId = IF key = 1 THEN value ELSE @,
                       !.contactId = IF key = 5 THEN value ELSE @,
                       !.message = IF key = 14 THEN value ELSE @]

AtEnd == start = Len(payload) + 1 \/ (start <= Len(payload) /\ payload[start] = 0)

\* Slip: the value is taken up to the next terminator's second byte.
ParsePairToNext ==
    /\ status \in {"parsing", "reading"}
    /\ ~AtEnd
    /\ LET keyAt == FindTerminator(payload, start)
           valueAt == FindTerminator(payload, keyAt.next)
           value == SubSeq(payload, keyAt.next, valueAt.next - 1)
           key == Number(SubSeq(payload, start, keyAt.end - 1))
       IN  \/ /\ keyAt.end = start \/ (key = 97 /\ value = <<>>)
              /\ status' = "terminated"
              /\ UNCHANGED <<start, fields>>
           \/ /\ keyAt.end # start /\ ~(key = 97 /\ value = <<>>)
              /\ OnKeyPair(key, value, valueAt.end <= Len(payload))
              /\ start' = valueAt.next
              /\ UNCHANGED status
    /\ UNCHANGED <<payload, relayed, appended, buffer, size>>

\* One round of Parse's loop.
ParsePair ==
    /\ status \in {"parsing", "reading"}
    /\ ~AtEnd
    /\ LET keyAt == FindTerminator(payload, start)
           valueAt == FindTerminator(payload, keyAt.next)
           value == SubSeq(payload, keyAt.next, valueAt.end - 1)
           key == Number(SubSeq(payload, start, keyAt.end - 1))
       IN  \/ /\ keyAt.end = start \/ (key = 97 /\ value = <<>>)
              /\ status' = "terminated"
              /\ UNCHANGED <<start, fields>>
           \/ /\ keyAt.end # start /\ ~(key = 97 /\ value = <<>>)
              /\ OnKeyPair(key, value, valueAt.end <= Len(payload))
              /\ start' = valueAt.next
              /\ UNCHANGED status
    /\ UNCHANGED <<payload, relayed, appended, buffer, size>>

-----------------------------------------------------------------------------

\* Parse is done: Process makes the builder of the packet for the recipient.
Process ==
    /\ status = "parsing"
    /\ AtEnd
    /\ relayed' = fields
    /\ appended' = 0
    /\ buffer' = <<>>
    /\ status' = "building"
    /\ UNCHANGED <<payload, start, fields, size>>

\* PrivateMessage::Build, pair by pair.
Pairs ==
    << [key |-> 1, value |-> relayed.clientId], [key |-> 5, value |-> relayed.contactId],
       [key |-> 4, value |-> relayed.clientId], [key |-> 14, value |-> relayed.message],
       [key |-> 97, value |-> ToString(relayed.encoding)] >>

\* Slip: nothing ends the value.
AppendUnterminated ==
    /\ status = "building"
    /\ appended < Len(Pairs)
    /\ LET pair == Pairs[appended + 1]
       IN  buffer' = buffer \o Text[pair.key] \o Terminator \o pair.value
    /\ appended' = appended + 1
    /\ UNCHANGED <<status, payload, start, fields, relayed, size>>

\* The size that is checked is that of the buffer, the key and the
\* terminators.
AppendPair ==
    /\ status = "building"
    /\ appended < Len(Pairs)
    /\ LET pair == Pairs[appended + 1]
           key == Text[pair.key]
       IN  IF HeaderSize + Len(buffer) + Len(key) + 2 * Len(Terminator) >= MaxSize
           THEN status' = "terminated" /\ UNCHANGED <<appended, buffer>>
           ELSE /\ buffer' = buffer \o key \o Terminator \o pair.value \o Terminator
                /\ appended' = appended + 1
                /\ UNCHANGED status
    /\ UNCHANGED <<payload, start, fields, relayed, size>>

Send ==
    /\ status = "building"
    /\ appended = Len(Pairs)
    /\ IF HeaderSize + Len(buffer) >= MaxSize
       THEN status' = "terminated" /\ UNCHANGED size
       ELSE size' = Len(buffer) % MaxSize /\ status' = "sent"
    /\ UNCHANGED <<payload, start, fields, relayed, appended, buffer>>

\* The recipient takes as many bytes as the header says.
Receive ==
    /\ status = "sent"
    /\ BeginParse(SubSeq(buffer, 1, size), "reading")
    /\ UNCHANGED <<relayed, appended, buffer, size>>

EndRead ==
    /\ status = "reading"
    /\ AtEnd
    /\ status' = "read"
    /\ UNCHANGED <<payload, start, fields, relayed, appended, buffer, size>>

Next ==
    \/ Arrive \/ ParsePair \/ Process
    \/ AppendPair \/ Send
    \/ Receive \/ EndRead

Spec == Init /\ [][Next]_vars

-----------------------------------------------------------------------------
(* Properties.                                                             *)

\* Type invariant.
TypeOK ==
    /\ status \in {"idle", "parsing", "building", "sent", "reading", "read", "terminated"}
    /\ payload \in Seq(Byte)
    /\ start \in 1 .. Len(payload) + 1
    /\ fields \in Fields
    /\ relayed \in Fields
    /\ appended \in 0 .. Len(Pairs)
    /\ buffer \in Seq(Byte)
    /\ size \in 0 .. MaxSize - 1

\* The parser gets on with every pair, whatever the bytes: its loop ends, and
\* never behind the payload.
ParserAdvances ==
    [][ParsePair => status' = "terminated" \/ (start < start' /\ start' <= Len(payload) + 1)]_vars

\* The recipient of a private message reads the fields the server took from
\* the sender's payload, whatever its bytes were: no value the parser returns
\* can be mistaken for a terminator when it is sent on.
RelayIsFaithful == status = "read" => fields = relayed

\* The recipient can always read the packet: what PacketParser throws on
\* never leaves the server, and neither does an incomplete packet.
ReplyIsReadable ==
    [][status = "reading" => status' # "terminated" /\ size = Len(buffer)]_vars
=============================================================================
