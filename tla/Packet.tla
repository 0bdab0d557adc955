------------------------------- MODULE Packet -------------------------------
(***************************************************************************)
(* packet_handler.c: how a message becomes a datagram and is read back     *)
(* out of the buffers of the receiver.  Buffers are C arrays: they keep    *)
(* what earlier datagrams have left in them, and a string in one ends at   *)
(* its first NUL.                                                          *)
(***************************************************************************)
EXTENDS Integers, Sequences

CONSTANTS
    HeaderSize,      \* sizeof(slim_msg_header_t)
    MaxByte,         \* largest uint8_t, and so the longest topic
    LengthSpace,     \* values of payload_length, a uint16_t
    Refused          \* serialize_message returned -1

Byte == 0 .. MaxByte
NUL == 0

ASSUME PacketAssumption ==
    /\ HeaderSize \in Nat \ {0} /\ LengthSpace \in Nat \ {0}
    /\ MaxByte \in Nat /\ MaxByte >= 3

\* The header fields that decide about lengths, the payload behind the header,
\* and the number of bytes in all.
Datagram ==
    [type : {"PUBLISH", "ACK", "CONTROL", "SUBSCRIBE"}, qos : 0 .. 2,
     length : 0 .. LengthSpace - 1, body : Seq(Byte), size : Nat]

\* control_type_t
RECEIVED == 1
RELEASE == 2
COMPLETE == 3

-----------------------------------------------------------------------------
(* Memory *)

\* memcpy(buf + off, s, Len(s))
Overwrite(buf, off, s) ==
    [i \in 1 .. Len(buf) |-> IF i > off /\ i <= off + Len(s) THEN s[i - off] ELSE buf[i]]

\* The n bytes at buf + off.
Bytes(buf, off, n) == SubSeq(buf, off + 1, off + n)

StrLen(buf) == (CHOOSE i \in 1 .. Len(buf) : buf[i] = NUL /\ \A j \in 1 .. i - 1 : buf[j] # NUL) - 1
Str(buf) == Bytes(buf, 0, StrLen(buf))

\* strncpy to an array of n bytes, whose last byte is then set to NUL.
Cut(s, n) == SubSeq(s, 1, IF Len(s) < n THEN Len(s) ELSE n - 1)

-----------------------------------------------------------------------------
(* serialize_message, serialize_control_message *)

\* Mutant: a topic of any length is accepted, and its length cut to a byte.
FitsByte(topic, data, bufSize) ==
    HeaderSize + 1 + (Len(topic) % (MaxByte + 1)) + Len(data) <= bufSize

\* A topic has at most 255 characters and all fits in the buffer.
Fits(topic, data, bufSize) ==
    /\ Len(topic) <= MaxByte
    /\ HeaderSize + 1 + Len(topic) + Len(data) <= bufSize

\* The header is copied as it is: its payload_length is the caller's.
SerializeMessage(header, topic, data, bufSize) ==
    LET topicLen == Len(topic) % (MaxByte + 1) IN
    IF Fits(topic, data, bufSize)
    THEN [type |-> header.type, qos |-> header.qos, length |-> header.length,
          body |-> <<topicLen>> \o SubSeq(topic, 1, topicLen) \o data,
          size |-> HeaderSize + 1 + topicLen + Len(data)]
    ELSE Refused

SerializeControl(qos, ctrl, data, bufSize) ==
    IF bufSize < HeaderSize + 1 + Len(data) THEN Refused
    ELSE [type |-> "CONTROL", qos |-> qos, length |-> (1 + Len(data)) % LengthSpace,
          body |-> <<ctrl>> \o data, size |-> HeaderSize + 1 + Len(data)]

-----------------------------------------------------------------------------
(* deserialize_message, deserialize_control_message *)

\* recv_bytes into the buffer behind the header.
Received(buf, d) == Overwrite(buf, 0, d.body)

\* What deserialize_message returns, and the topic and data arrays after it.
\* buf is the payload of the received datagram d with what was there before.
DeserializeMessage(d, buf, topic, data) ==
    LET outcome(ret, t, x) == [ret |-> ret, topic |-> t, data |-> x]
        topicLen == buf[1]
        dataLen == d.length - (1 + topicLen)
        newTopic == Overwrite(topic, 0, Bytes(buf, 1, topicLen) \o <<NUL>>)
    IN  CASE d.size < HeaderSize -> outcome(-1, topic, data)
          [] d.size >= HeaderSize /\ d.type \in {"ACK", "CONTROL"} ->
                outcome(0, Overwrite(topic, 0, <<NUL>>),
                        IF d.length <= Len(data)
                        THEN Overwrite(data, 0, Bytes(buf, 0, d.length)) ELSE data)
          [] OTHER ->
                IF topicLen + 1 > d.length THEN outcome(-2, topic, data)
                ELSE IF topicLen >= Len(topic) THEN outcome(-3, topic, data)
                ELSE IF dataLen > Len(data) THEN outcome(-4, newTopic, data)
                ELSE outcome(0, newTopic, Overwrite(data, 0, Bytes(buf, 1 + topicLen, dataLen)))

\* payload_length - 1 is huge when it is 0.  The data is never looked at.
DeserializeControl(d, buf, maxData) ==
    [ret |-> CASE d.size < HeaderSize + 1 -> -2
               [] d.size > HeaderSize /\ (d.length = 0 \/ d.length - 1 > maxData) -> -3
               [] OTHER -> 0,
     ctrl |-> buf[1]]
=============================================================================
