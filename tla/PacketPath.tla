----------------------------- MODULE PacketPath -----------------------------
(***************************************************************************)
(* The way of topics and data, byte by byte: from slimmq_publish and       *)
(* slimmq_subscribe through the broker, the listener and the event queue   *)
(* to slimmq_next_event.  One client subscribes and publishes, as in       *)
(* client_echo.c, so that its listener gets messages, ACKs and CONTROLs in *)
(* turn into the same buffers.  Who matches a topic and when a handshake   *)
(* goes on is left to the other modules.                                   *)
(***************************************************************************)
EXTENDS Packet, FiniteSets

CONSTANTS
    PacketSize,      \* MAX_PACKET_SIZE
    TopicBuf,        \* topic[256], topic_buf[256]
    CtrlBuf,         \* ctrl_buf[256] and ctrl_data[256]
    EventTopic,      \* MAX_TOPIC_LEN, of an event
    AppTopic,        \* topic_buf_size of the caller of slimmq_next_event
    Topic,           \* what the application subscribes to
    Message,         \* <<topic, data>> that it publishes
    Fill,            \* a byte that memory may hold at the start
    MaxTransit,      \* bound on the datagrams in transit
    MaxCalls,        \* bound on the different publish and subscribe calls
    QueueSize        \* MAX_EVENT_QUEUE_SIZE

BodySize == PacketSize - HeaderSize

ASSUME PathAssumption ==
    /\ PacketSize \in Nat /\ PacketSize <= LengthSpace /\ BodySize > 0
    /\ TopicBuf = MaxByte + 1
    /\ CtrlBuf \in Nat /\ CtrlBuf > HeaderSize
    /\ EventTopic \in Nat \ {0} /\ AppTopic \in Nat \ {0} /\ QueueSize \in Nat \ {0}
    /\ Topic \subseteq Seq(Byte \ {NUL})
    /\ \A m \in Message : m[1] \in Seq(Byte \ {NUL}) /\ m[2] \in Seq(Byte)
    /\ Fill \in Byte

VARIABLES
    up, down,        \* datagrams to the broker and to the client
    broker,          \* buffer, topic and data of broker_main_loop
    subs,            \* the topics in the subscription table
    client,          \* buffer, topic_buf and payload_buf of listener_loop
    queue,           \* the event queue: <<type, topic, data>>
    heard,           \* control types that have reached the client
    published,       \* history: what slimmq_publish has accepted
    subscribed,      \* history: what slimmq_subscribe has accepted
    event            \* what slimmq_next_event has returned last

netVars == <<up, down>>
historyVars == <<published, subscribed>>
pathVars == <<netVars, broker, subs, client, queue, heard, historyVars, event>>

Memory == [buf : [1 .. BodySize -> Byte], topic : [1 .. TopicBuf -> Byte],
           data : [1 .. PacketSize -> Byte]]
NoEvent == <<"none", <<>>, <<>> >>

PathInit ==
    LET filled(n) == [i \in 1 .. n |-> Fill]
        memory == [buf |-> filled(BodySize), topic |-> filled(TopicBuf), data |-> filled(PacketSize)]
    IN  /\ up = {} /\ down = {}
        /\ broker = memory /\ client = memory
        /\ subs = {}
        /\ queue = <<>>
        /\ heard = {}
        /\ published = {} /\ subscribed = {}
        /\ event = NoEvent

\* The two bounds.
Room(ds) == Cardinality(ds) <= MaxTransit
Calls(ps, ss) == Cardinality(ps) + Cardinality(ss) <= MaxCalls

-----------------------------------------------------------------------------
(* The application *)

PayloadLength(topic, data) == (1 + Len(topic) + Len(data)) % LengthSpace

\* The datagram of a call, or Refused.
Request(type, qos, topic, data) ==
    SerializeMessage([type |-> type, qos |-> qos, length |-> PayloadLength(topic, data)],
                     topic, data, PacketSize)

Subscribe(topic) ==
    LET d == Request("SUBSCRIBE", 0, topic, <<>>) IN
    /\ d # Refused
    /\ Room(up \cup down \cup {d})
    /\ up' = up \cup {d}
    /\ subscribed' = subscribed \cup {topic}
    /\ Calls(published, subscribed')
    /\ UNCHANGED <<down, broker, subs, client, queue, heard, published, event>>

Publish(topic, data, qos) ==
    LET d == Request("PUBLISH", qos, topic, data) IN
    /\ d # Refused
    /\ Room(up \cup down \cup {d})
    /\ up' = up \cup {d}
    /\ published' = published \cup {<<topic, data>>}
    /\ Calls(published', subscribed)
    /\ UNCHANGED <<down, broker, subs, client, queue, heard, subscribed, event>>

\* slimmq_publish answers RECEIVED with RELEASE.
Release ==
    LET d == SerializeControl(2, RELEASE, <<>>, CtrlBuf) IN
    /\ RECEIVED \in heard
    /\ Room(up \cup down \cup {d})
    /\ up' = up \cup {d}
    /\ UNCHANGED <<down, broker, subs, client, queue, heard, historyVars, event>>

\* slimmq_next_event
NextEvent ==
    /\ queue # <<>>
    /\ event' = <<Head(queue)[1], Cut(Head(queue)[2], AppTopic), Head(queue)[3]>>
    /\ queue' = Tail(queue)
    /\ UNCHANGED <<netVars, broker, subs, client, heard, historyVars>>

-----------------------------------------------------------------------------
(* The broker *)

\* A datagram is read into the memory of a receiver.
Read(memory, d) == DeserializeMessage(d, Received(memory.buf, d), memory.topic, memory.data)
After(memory, d) ==
    LET r == Read(memory, d)
    IN  [buf |-> Received(memory.buf, d), topic |-> r.topic, data |-> r.data]

\* Mutant: the byte for the length of the topic is counted as data.
TextData(d, memory) == Bytes(memory.data, 0, d.length - StrLen(memory.topic))

\* The data of a PUBLISH, as long as broker_main_loop and listener_loop say:
\* payload_length - (1 + strlen(topic)).
DataOf(d, memory) == Bytes(memory.data, 0, d.length - (1 + StrLen(memory.topic)))

\* publish_to_subscribers, with the header of the publisher.
Forwarded(d, memory) ==
    IF Str(memory.topic) \in subs
    THEN {SerializeMessage(d, Str(memory.topic), DataOf(d, memory), PacketSize)} \ {Refused}
    ELSE {}

Ack == [type |-> "ACK", qos |-> 1, length |-> 0, body |-> <<>>, size |-> HeaderSize]

\* What handle_publish answers, if the message is new.
Answer(qos) ==
    CASE qos = 0 -> {}
      [] qos = 1 -> {Ack}
      [] qos = 2 -> {SerializeControl(2, RECEIVED, <<>>, PacketSize)}

\* handle_control
Controlled(d, memory) ==
    LET r == DeserializeControl(d, memory.buf, PacketSize)
    IN  IF r.ret = 0 /\ r.ctrl = RELEASE
        THEN {SerializeControl(2, COMPLETE, <<>>, PacketSize)} ELSE {}

\* One turn of broker_main_loop.
BrokerReceive(d) ==
    LET memory == After(broker, d)
        accepted(type) == Read(broker, d).ret = 0 /\ d.type = type
        out == CASE accepted("PUBLISH") -> Forwarded(d, memory) \cup Answer(d.qos)
                 [] accepted("CONTROL") -> Controlled(d, memory)
                 [] OTHER -> {}
    IN  /\ d \in up
        /\ Room((up \ {d}) \cup down \cup out)
        /\ up' = up \ {d}
        /\ broker' = memory
        /\ subs' = IF accepted("SUBSCRIBE") THEN subs \cup {Str(memory.topic)} ELSE subs
        /\ down' = down \cup out
        /\ UNCHANGED <<client, queue, heard, historyVars, event>>

-----------------------------------------------------------------------------
(* The listener *)

\* event_queue_push, which cuts the topic and drops what does not fit.
Push(type, topic, data) ==
    IF Len(queue) < QueueSize THEN Append(queue, <<type, Cut(topic, EventTopic), data>>) ELSE queue

\* One turn of listener_loop.
Listen(d) ==
    LET memory == After(client, d)
        control == DeserializeControl(d, memory.buf, CtrlBuf)
        accepted(type) == Read(client, d).ret = 0 /\ d.type = type
    IN  /\ d \in down
        /\ down' = down \ {d}
        /\ client' = memory
        /\ queue' = CASE accepted("ACK") -> Push("ACK", Str(memory.topic), <<>>)
                      [] accepted("PUBLISH") -> Push("PUBLISH", Str(memory.topic), DataOf(d, memory))
                      [] OTHER -> queue
        /\ heard' = IF accepted("CONTROL") /\ control.ret = 0 /\ control.ctrl \in {RECEIVED, COMPLETE}
                    THEN heard \cup {control.ctrl} ELSE heard
        /\ UNCHANGED <<up, broker, subs, historyVars, event>>

-----------------------------------------------------------------------------
Lose ==
    /\ \/ \E d \in up : up' = up \ {d} /\ UNCHANGED down
       \/ \E d \in down : down' = down \ {d} /\ UNCHANGED up
    /\ UNCHANGED <<broker, subs, client, queue, heard, historyVars, event>>

PathNext ==
    \/ \E topic \in Topic : Subscribe(topic)
    \/ \E m \in Message, qos \in 0 .. 2 : Publish(m[1], m[2], qos)
    \/ Release
    \/ NextEvent
    \/ \E d \in up : BrokerReceive(d)
    \/ \E d \in down : Listen(d)
    \/ Lose

PathSpec == PathInit /\ [][PathNext]_pathVars

-----------------------------------------------------------------------------
(* Properties *)

\* What slimmq_next_event hands out is a message that was published, whole but
\* for the end of a long topic, or an ACK without topic and data; what stands
\* in the subscription table was subscribed.  No byte comes from what earlier
\* datagrams have left in a buffer.
ArrivesAsSent ==
    /\ event[1] = "PUBLISH" =>
          \E m \in published : event = <<"PUBLISH", Cut(Cut(m[1], EventTopic), AppTopic), m[2]>>
    /\ event[1] = "ACK" => event = <<"ACK", <<>>, <<>> >>
    /\ subs \subseteq subscribed

\* No datagram of this library is refused where it arrives, or read beyond its
\* end: what slimmq_publish accepts passes the checks of lengths and the buffer
\* sizes of the broker and of the listener, and so do the answers.
AcceptedEverywhere ==
    /\ \A d \in up \cup down : d.length = Len(d.body) /\ d.size <= PacketSize
    /\ \A d \in up : Read(broker, d).ret = 0
    /\ \A d \in down : Read(client, d).ret = 0
    /\ \A d \in up : d.type = "CONTROL" =>
          DeserializeControl(d, Received(broker.buf, d), PacketSize).ret = 0
    /\ \A d \in down : d.type = "CONTROL" =>
          DeserializeControl(d, Received(client.buf, d), CtrlBuf).ret = 0
=============================================================================
