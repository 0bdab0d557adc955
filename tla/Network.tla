------------------------------ MODULE Network ------------------------------
(***************************************************************************)
(* The UDP network between SlimMQ clients and the broker, and the message  *)
(* kinds that slim_msg.h defines.  A datagram is lost, delayed, overtaken  *)
(* by a later one or delivered more than once; net is the set of datagrams *)
(* in transit.  Two equal datagrams in transit are one element of net, so  *)
(* a specification that lets both arrive sets Duplicates to TRUE.          *)
(***************************************************************************)
EXTENDS Naturals

CONSTANTS
    Client,      \* client socket addresses, as the broker sees them
    Topic,       \* topics a client publishes to: sequences of segments
    Filter,      \* topic filters a client subscribes to: sequences of segments
    MaxCalls,    \* bound on the subscribe and publish calls of one client
    IdSpace,     \* number of message identifiers: 2^32 in the code (uint32_t)
    QosSpace,    \* number of values of qos_level: 2^8 in the code (uint8_t)
    Duplicates   \* does the network deliver a datagram more than once?

ASSUME NetworkAssumption ==
    /\ MaxCalls \in Nat
    /\ IdSpace \in Nat \ {0}
    /\ QosSpace \in Nat /\ QosSpace > 2
    /\ Duplicates \in BOOLEAN

VARIABLE net

-----------------------------------------------------------------------------
MsgId == 0 .. (IdSpace - 1)

\* The levels of qos_level: QOS_AT_MOST_ONCE, QOS_AT_LEAST_ONCE and
\* QOS_EXACTLY_ONCE, and whatever else its byte can hold.
Qos == 0 .. (QosSpace - 1)
NamedQos == 0 .. 2

\* The payload of a publish call is identified by its caller and the number
\* of the call; every call publishes a payload of its own.
Data == Client \X (1 .. MaxCalls)

\* Every datagram has a direction (to or from the broker) and the address of
\* the client at the other end.
Up == "up"
Down == "down"

PublishMsg ==
    [type : {"PUBLISH"}, dir : {Up, Down}, peer : Client, qos : Qos,
     id : MsgId, topic : Topic, data : Data]
SubscribeMsg == [type : {"SUBSCRIBE"}, dir : {Up}, peer : Client, filter : Filter]
AckMsg == [type : {"ACK"}, dir : {Up, Down}, peer : Client, id : MsgId]
ControlMsg ==
    [type : {"CONTROL"}, dir : {Up, Down}, peer : Client,
     ctrl : {"RECEIVED", "RELEASE", "COMPLETE"}, id : MsgId]

Message == PublishMsg \cup SubscribeMsg \cup AckMsg \cup ControlMsg

Ack(dir, c, i) == [type |-> "ACK", dir |-> dir, peer |-> c, id |-> i]
Control(dir, c, k, i) ==
    [type |-> "CONTROL", dir |-> dir, peer |-> c, ctrl |-> k, id |-> i]

-----------------------------------------------------------------------------
NetTypeOK == net \subseteq Message

NetInit == net = {}

\* send_bytes: the datagram is handed to the network.
Send(m) == net' = net \cup {m}

\* recv_bytes at one end: m is taken from the network and the datagrams in
\* out are sent in answer.  A repeated datagram stays behind to arrive again.
Receive(m, out) ==
    /\ m \in net
    /\ \/ net' = (net \ {m}) \cup out
       \/ Duplicates /\ net' = net \cup out

\* A datagram is dropped on the way, or at a full socket buffer.
Lose(m) == m \in net /\ net' = net \ {m}
=============================================================================
