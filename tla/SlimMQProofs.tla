---------------------------- MODULE SlimMQProofs ----------------------------
(***************************************************************************)
(* What the broker guarantees in every environment, for every number of    *)
(* clients, topics, filters and identifiers; then clients and broker       *)
(* together: types, the broker's guarantees carried over to the whole      *)
(* system, what a successful publish means, and that the loss tests run    *)
(* this system.                                                            *)
(***************************************************************************)
EXTENDS LossyBroker, EventFifoProofs

-----------------------------------------------------------------------------
(* Datagrams. *)

\* The kind of a datagram determines its fields.
LEMMA MessageKinds ==
    ASSUME NEW m \in Message
    PROVE  /\ m.type = "PUBLISH" => m \in PublishMsg
           /\ m.type = "SUBSCRIBE" => m \in SubscribeMsg
           /\ m.type = "ACK" => m \in AckMsg
           /\ m.type = "CONTROL" => m \in ControlMsg
  BY DEF Message, PublishMsg, SubscribeMsg, AckMsg, ControlMsg

\* Every handled datagram names a client, and every kind but SUBSCRIBE a key.
LEMMA MessageKey ==
    ASSUME NEW m \in Message
    PROVE  /\ m.peer \in Client
           /\ m.type # "SUBSCRIBE" => KeyOf(m) \in Key
  BY DEF Message, PublishMsg, SubscribeMsg, AckMsg, ControlMsg, KeyOf, Key

\* publish_to_subscribers sends well-formed PUBLISH datagrams.
LEMMA CopiesType ==
    ASSUME NEW m \in PublishMsg
    PROVE  Copies(m) \subseteq PublishMsg
<1> SUFFICES ASSUME NEW c \in MatchingSubscribers(m.topic)
             PROVE  [m EXCEPT !.dir = Down, !.peer = c] \in PublishMsg
  BY DEF Copies
<1>1. c \in Client
  BY DEF MatchingSubscribers
<1> QED
  BY <1>1 DEF PublishMsg, Up, Down

\* The answers of the broker are well-formed.
LEMMA AnswerType ==
    ASSUME NEW m \in Message, m.type \in {"PUBLISH", "CONTROL"}
    PROVE  /\ Ack(Down, m.peer, m.id) \in Message
           /\ Control(Down, m.peer, "RECEIVED", m.id) \in Message
           /\ Control(Down, m.peer, "COMPLETE", m.id) \in Message
  BY MessageKinds DEF Message, PublishMsg, AckMsg, ControlMsg, Ack, Control, Up, Down

\* recv_bytes and the answers keep the network well-typed.
LEMMA ReceiveType ==
    ASSUME NetTypeOK, NEW m, NEW out \in SUBSET Message, Receive(m, out)
    PROVE  NetTypeOK'
  BY DEF NetTypeOK, Receive

-----------------------------------------------------------------------------
(* Type correctness. *)

LEMMA BrokerTypeStep ==
    ASSUME BrokerTypeOK, [BrokerNext]_<<net, brokerVars>>
    PROVE  BrokerTypeOK'
<1> USE DEF BrokerTypeOK
<1>1. ASSUME NEW m \in net, m.dir = Up, HandleSubscribe(m)
      PROVE  BrokerTypeOK'
  <2>1. m \in SubscribeMsg /\ m.filter \in Filter /\ m.peer \in Client
    BY <1>1, MessageKinds DEF HandleSubscribe, NetTypeOK, SubscribeMsg
  <2>2. NetTypeOK'
    BY <1>1, ReceiveType DEF HandleSubscribe
  <2> QED
    BY <1>1, <2>1, <2>2 DEF HandleSubscribe
<1>2. ASSUME NEW m \in net, m.type = "PUBLISH"
      PROVE  /\ Give(m) => given' \in [Data -> SUBSET Client]
             /\ Copies(m) \subseteq Message
             /\ KeyOf(m) \in Key
             /\ m \in Message
  <2>1. m \in Message /\ m \in PublishMsg /\ m.data \in Data
    BY <1>2, MessageKinds DEF NetTypeOK, PublishMsg
  <2>2. MatchingSubscribers(m.topic) \subseteq Client
    BY DEF MatchingSubscribers
  <2>3. Copies(m) \subseteq Message
    BY <2>1, CopiesType DEF Message
  <2>4. KeyOf(m) \in Key
    BY <1>2, <2>1, MessageKey
  <2> QED
    BY <2>1, <2>2, <2>3, <2>4 DEF Give
<1>3. ASSUME NEW m \in net, m.dir = Up, HandlePublishQos0(m)
      PROVE  BrokerTypeOK'
  <2>1. NetTypeOK'
    BY <1>2, <1>3, ReceiveType DEF HandlePublishQos0
  <2> QED
    BY <1>2, <1>3, <2>1 DEF HandlePublishQos0
<1>4. ASSUME NEW m \in net, m.dir = Up, HandlePublishQos1(m)
      PROVE  BrokerTypeOK'
  <2>1. Copies(m) \cup {Ack(Down, m.peer, m.id)} \subseteq Message
    BY <1>2, <1>4, AnswerType DEF HandlePublishQos1
  <2>2. NetTypeOK'
    BY <1>4, <2>1, ReceiveType DEF HandlePublishQos1
  <2> QED
    BY <1>2, <1>4, <2>2 DEF HandlePublishQos1
<1>5. ASSUME NEW m \in net, m.dir = Up, HandlePublishNew(m)
      PROVE  BrokerTypeOK'
  <2>1. Copies(m) \cup {Control(Down, m.peer, "RECEIVED", m.id)} \subseteq Message
    BY <1>2, <1>5, AnswerType DEF HandlePublishNew
  <2>2. NetTypeOK'
    BY <1>5, <2>1, ReceiveType DEF HandlePublishNew
  <2> QED
    BY <1>2, <1>5, <2>2 DEF HandlePublishNew, PendingState
<1>6. ASSUME NEW m \in net, m.dir = Up, HandlePublishRepeated(m)
      PROVE  BrokerTypeOK'
  <2>1. {Control(Down, m.peer, "RECEIVED", m.id)} \subseteq Message
    BY <1>2, <1>6, AnswerType DEF HandlePublishRepeated
  <2>2. NetTypeOK'
    BY <1>6, <2>1, ReceiveType DEF HandlePublishRepeated
  <2> QED
    BY <1>6, <2>2 DEF HandlePublishRepeated, brokerVars
<1>7. ASSUME NEW m \in net, m.dir = Up, HandlePublishCompleted(m)
      PROVE  BrokerTypeOK'
  BY <1>7, ReceiveType DEF HandlePublishCompleted, brokerVars
<1>8. ASSUME NEW m \in net, m.dir = Up, HandleControlRelease(m)
      PROVE  BrokerTypeOK'
  <2>1. m \in Message
    BY DEF NetTypeOK
  <2>2. KeyOf(m) \in Key
    BY <1>8, <2>1, MessageKey DEF HandleControlRelease
  <2>3. {Control(Down, m.peer, "COMPLETE", m.id)} \subseteq Message
    BY <1>8, <2>1, AnswerType DEF HandleControlRelease
  <2>4. NetTypeOK'
    BY <1>8, <2>3, ReceiveType DEF HandleControlRelease
  <2> QED
    BY <1>8, <2>2, <2>4 DEF HandleControlRelease, PendingState
<1>9. ASSUME NEW m \in net, m.dir = Up, HandleControlReceived(m)
      PROVE  BrokerTypeOK'
  <2>1. NetTypeOK'
    BY <1>9, ReceiveType DEF HandleControlReceived
  <2>2. pending' \in [Key -> PendingState]
    BY <1>9 DEF HandleControlReceived, PendingState
  <2> QED
    BY <1>9, <2>1, <2>2 DEF HandleControlReceived
<1>10. ASSUME NEW m \in net, m.dir = Up, HandleUnknown(m)
       PROVE  BrokerTypeOK'
  BY <1>10, ReceiveType DEF HandleUnknown, brokerVars
<1>11. ASSUME NEW m \in Message, EnvSend(m)
       PROVE  BrokerTypeOK'
  BY <1>11 DEF EnvSend, Send, NetTypeOK, brokerVars
<1>12. ASSUME NEW m \in net, EnvTake(m)
       PROVE  BrokerTypeOK'
  BY <1>12 DEF EnvTake, Lose, NetTypeOK, brokerVars
<1>13. CASE UNCHANGED <<net, brokerVars>>
  BY <1>13 DEF NetTypeOK, brokerVars
<1> QED
  BY <1>1, <1>3, <1>4, <1>5, <1>6, <1>7, <1>8, <1>9, <1>10, <1>11, <1>12, <1>13
  DEF BrokerNext, BrokerStep

LEMMA BrokerTypeInit == BrokerInit => BrokerTypeOK
  BY DEF BrokerInit, BrokerTypeOK, NetInit, NetTypeOK, PendingState

\* The broker's tables and the network keep their types, whatever is sent.
THEOREM BrokerTypeCorrect == BrokerSpec => []BrokerTypeOK
  BY BrokerTypeInit, BrokerTypeStep, PTL DEF BrokerSpec

-----------------------------------------------------------------------------
(* The QoS 2 guarantees. *)

\* A handler that adds no CONTROL_RECEIVED, or only one of a forwarded key,
\* and does not lower forwards keeps ReceivedMeansForwarded.
LEMMA ReceivedStep ==
    ASSUME BrokerTypeOK, BrokerTypeOK', ReceivedMeansForwarded,
           NEW m, NEW out, Receive(m, out),
           \A k \in Key : forwards'[k] >= forwards[k],
           \A x \in out : x.type = "CONTROL" /\ x.ctrl = "RECEIVED"
                              => forwards'[KeyOf(x)] >= 1
    PROVE  ReceivedMeansForwarded'
<1> SUFFICES ASSUME NEW x \in net', x.type = "CONTROL", x.dir = Down, x.ctrl = "RECEIVED"
             PROVE  forwards'[KeyOf(x)] >= 1
  BY DEF ReceivedMeansForwarded, KeyOf
<1>1. CASE x \in out
  BY <1>1
<1>2. CASE x \in net
  <2>1. KeyOf(x) \in Key
    BY <1>2, MessageKey DEF BrokerTypeOK, NetTypeOK
  <2>2. forwards[KeyOf(x)] >= 1
    BY <1>2 DEF ReceivedMeansForwarded
  <2> QED
    BY <2>1, <2>2 DEF BrokerTypeOK
<1> QED
  BY <1>1, <1>2 DEF Receive

LEMMA BrokerInvStep ==
    ASSUME BrokerTypeOK, BrokerTypeOK', BrokerInv, [BrokerNext]_<<net, brokerVars>>
    PROVE  BrokerInv'
<1> USE DEF BrokerTypeOK, BrokerInv, ForwardAtMostOnce
<1>1. ASSUME NEW m \in net, m.type = "PUBLISH"
      PROVE  \A x \in Copies(m) : x.type = "PUBLISH"
  BY <1>1, MessageKinds DEF Copies, NetTypeOK, PublishMsg
<1>2. ASSUME NEW m \in net, HandleSubscribe(m)
      PROVE  BrokerInv'
  <2>1. ReceivedMeansForwarded'
    BY <1>2, ReceivedStep DEF HandleSubscribe
  <2> QED
    BY <1>2, <2>1 DEF HandleSubscribe
<1>3. ASSUME NEW m \in net, HandlePublishQos0(m)
      PROVE  BrokerInv'
  <2>1. ReceivedMeansForwarded'
    BY <1>1, <1>3, ReceivedStep DEF HandlePublishQos0
  <2> QED
    BY <1>3, <2>1 DEF HandlePublishQos0
<1>4. ASSUME NEW m \in net, HandlePublishQos1(m)
      PROVE  BrokerInv'
  <2>1. \A x \in Copies(m) \cup {Ack(Down, m.peer, m.id)} : x.type # "CONTROL"
    BY <1>1, <1>4 DEF HandlePublishQos1, Ack
  <2>2. ReceivedMeansForwarded'
    BY <1>4, <2>1, ReceivedStep DEF HandlePublishQos1
  <2> QED
    BY <1>4, <2>2 DEF HandlePublishQos1
<1>5. ASSUME NEW m \in net, HandlePublishNew(m)
      PROVE  BrokerInv'
  <2> DEFINE out == Copies(m) \cup {Control(Down, m.peer, "RECEIVED", m.id)}
  <2>1. KeyOf(m) \in Key
    BY <1>5, MessageKey DEF HandlePublishNew, NetTypeOK
  <2>2. forwards'[KeyOf(m)] = 1 /\ \A k \in Key \ {KeyOf(m)} : forwards'[k] = forwards[k]
    BY <1>5, <2>1 DEF HandlePublishNew
  <2>3. \A x \in out : x.type = "CONTROL" => KeyOf(x) = KeyOf(m)
    BY <1>1, <1>5 DEF HandlePublishNew, Control, KeyOf
  <2>4. \A k \in Key : forwards'[k] >= forwards[k]
    BY <1>5, <2>1, <2>2
  <2>5. Receive(m, out)
    BY <1>5 DEF HandlePublishNew
  <2>6. ReceivedMeansForwarded'
    <3> HIDE DEF out
    <3> QED BY <2>2, <2>3, <2>4, <2>5, ReceivedStep
  <2>7. pending'[KeyOf(m)] = "RECEIVED" /\ \A k \in Key \ {KeyOf(m)} : pending'[k] = pending[k]
    BY <1>5, <2>1 DEF HandlePublishNew
  <2> QED
    BY <2>2, <2>6, <2>7 DEF NONE
<1>6. ASSUME NEW m \in net, HandlePublishRepeated(m)
      PROVE  BrokerInv'
  <2>1. KeyOf(m) \in Key
    BY <1>6, MessageKey DEF HandlePublishRepeated, NetTypeOK
  <2>2. forwards'[KeyOf(m)] >= 1 /\ forwards' = forwards
    BY <1>6, <2>1 DEF HandlePublishRepeated, brokerVars, PendingState
  <2>3. \A x \in {Control(Down, m.peer, "RECEIVED", m.id)} : KeyOf(x) = KeyOf(m)
    BY DEF Control, KeyOf
  <2>4. Receive(m, {Control(Down, m.peer, "RECEIVED", m.id)})
    BY <1>6 DEF HandlePublishRepeated
  <2>5. ReceivedMeansForwarded'
    BY <2>2, <2>3, <2>4, ReceivedStep
  <2> QED
    BY <1>6, <2>5 DEF HandlePublishRepeated, brokerVars
<1>7. ASSUME NEW m \in net, HandlePublishCompleted(m)
      PROVE  BrokerInv'
  <2>1. ReceivedMeansForwarded'
    BY <1>7, ReceivedStep DEF HandlePublishCompleted, brokerVars
  <2> QED
    BY <1>7, <2>1 DEF HandlePublishCompleted, brokerVars
<1>8. ASSUME NEW m \in net, HandleControlRelease(m)
      PROVE  BrokerInv'
  <2>1. \A x \in {Control(Down, m.peer, "COMPLETE", m.id)} : x.ctrl # "RECEIVED"
    BY DEF Control
  <2>2. ReceivedMeansForwarded'
    BY <1>8, <2>1, ReceivedStep DEF HandleControlRelease
  <2> QED
    BY <1>8, <2>2 DEF HandleControlRelease, NONE
<1>9. ASSUME NEW m \in net, HandleControlReceived(m)
      PROVE  BrokerInv'
  <2>1. ReceivedMeansForwarded'
    BY <1>9, ReceivedStep DEF HandleControlReceived
  <2> QED
    BY <1>9, <2>1 DEF HandleControlReceived, NONE
<1>10. ASSUME NEW m \in net, HandleUnknown(m)
       PROVE  BrokerInv'
  <2>1. ReceivedMeansForwarded'
    BY <1>10, ReceivedStep DEF HandleUnknown, brokerVars
  <2> QED
    BY <1>10, <2>1 DEF HandleUnknown, brokerVars
<1>11. ASSUME NEW m \in Message, EnvSend(m)
       PROVE  BrokerInv'
  BY <1>11 DEF EnvSend, Send, Up, Down, brokerVars, ReceivedMeansForwarded, KeyOf
<1>12. ASSUME NEW m \in net, EnvTake(m)
       PROVE  BrokerInv'
  BY <1>12 DEF EnvTake, Lose, brokerVars, ReceivedMeansForwarded, KeyOf
<1>13. CASE UNCHANGED <<net, brokerVars>>
  BY <1>13 DEF brokerVars, ReceivedMeansForwarded, KeyOf
<1> QED
  BY <1>2, <1>3, <1>4, <1>5, <1>6, <1>7, <1>8, <1>9, <1>10, <1>11, <1>12, <1>13
  DEF BrokerNext, BrokerStep

LEMMA BrokerInvInit == BrokerInit => BrokerInv
  BY DEF BrokerInit, BrokerInv, NetInit, ForwardAtMostOnce, ReceivedMeansForwarded, NONE

LEMMA BrokerInvariant == BrokerSpec => []BrokerInv
  BY BrokerTypeCorrect, BrokerInvInit, BrokerInvStep, PTL DEF BrokerSpec

\* handle_publish forwards a QoS 2 key at most once, for any traffic.
THEOREM ForwardAtMostOnceHolds == BrokerSpec => []ForwardAtMostOnce
<1>1. BrokerInv => ForwardAtMostOnce
  BY DEF BrokerInv
<1> QED
  BY <1>1, BrokerInvariant, PTL

\* handle_publish answers RECEIVED only for a key it has forwarded.
THEOREM ReceivedMeansForwardedHolds == BrokerSpec => []ReceivedMeansForwarded
<1>1. BrokerInv => ReceivedMeansForwarded
  BY DEF BrokerInv
<1> QED
  BY <1>1, BrokerInvariant, PTL

\* No handler moves a pending entry back.
THEOREM PendingAdvancesHolds == BrokerSpec => PendingAdvances
<1> DEFINE Forward == \A k \in Key : Rank(pending'[k]) >= Rank(pending[k])
<1>1. ASSUME BrokerTypeOK, [BrokerNext]_<<net, brokerVars>>
      PROVE  [Forward]_<<net, brokerVars>>
  <2>1. \A s \in PendingState : Rank(s) \in 0 .. 3 /\ Rank(s) >= Rank(s)
    BY DEF PendingState, Rank, NONE
  <2>2. ASSUME pending' = pending
        PROVE  Forward
    BY <1>1, <2>1, <2>2 DEF BrokerTypeOK
  <2>3. ASSUME NEW m \in net, HandlePublishNew(m)
        PROVE  Forward
    BY <1>1, <2>1, <2>3 DEF BrokerTypeOK, HandlePublishNew, PendingState, Rank, NONE
  <2>4. ASSUME NEW m \in net, HandleControlRelease(m)
        PROVE  Forward
    BY <1>1, <2>1, <2>4 DEF BrokerTypeOK, HandleControlRelease, PendingState, Rank, NONE
  <2>5. ASSUME NEW m \in net, HandleControlReceived(m)
        PROVE  Forward
    BY <1>1, <2>1, <2>5 DEF BrokerTypeOK, HandleControlReceived, PendingState, Rank, NONE
  <2>6. pending' = pending
        \/ \E m \in net : HandlePublishNew(m) \/ HandleControlRelease(m) \/ HandleControlReceived(m)
    BY <1>1 DEF BrokerNext, BrokerStep, HandleSubscribe, HandlePublishQos0, HandlePublishQos1,
                HandlePublishRepeated, HandlePublishCompleted, HandleUnknown, EnvSend, EnvTake,
                brokerVars
  <2> QED
    BY <2>2, <2>3, <2>4, <2>5, <2>6
<1>2. BrokerSpec => [][Forward]_<<net, brokerVars>>
  BY <1>1, BrokerTypeCorrect, PTL DEF BrokerSpec
<1> QED
  BY <1>2 DEF PendingAdvances

-----------------------------------------------------------------------------
(* The steps of the system, one by one. *)

\* Every step that is not the broker's is a step of one client or a loss; the
\* cases below are those of Next.
ClientCase(c) ==
    \/ Connect(c)
    \/ Close(c)
    \/ \E q \in QosUsed : SetQos(c, q)
    \/ \E f \in Filter : Subscribe(c, f)
    \/ PublishTooBig(c)
    \/ NextEvent(c)
    \/ ReceiveMessage(c)
    \/ SendPublish(c)
    \/ PublishFails(c)
    \/ PollAck(c)
    \/ AckTimeout(c)
    \/ PollReceived(c)
    \/ SendRelease(c)
    \/ ReceivedTimeout(c)
    \/ PollComplete(c)
    \/ CompleteTimeout(c)
    \/ RemoveEntry(c)
    \/ Listener(c)

LEMMA NextCases ==
    ASSUME [Next]_vars
    PROVE  \/ \E c \in Client : BeginPublish(c)
           \/ \E c \in Client : ClientCase(c) /\ UNCHANGED <<brokerVars, audience>>
           \/ BrokerTurn
           \/ Loss
           \/ UNCHANGED vars
  BY DEF Next, ClientStep, OtherClientStep, PublishStep, ClientCase

-----------------------------------------------------------------------------
(* Type correctness. *)

LEMMA ModRange ==
    ASSUME NEW a \in Nat, NEW n \in Nat \ {0}
    PROVE  a % n \in 0 .. (n - 1)
  OBVIOUS

LEMMA ClientInitType == ClientInit => ClientTypeOK
<1> SUFFICES ASSUME ClientInit PROVE ClientTypeOK
  OBVIOUS
<1> USE ClientAssumption, NetworkAssumption, QueueAssumption DEF ClientInit
<1>1. SessionTypeOK
  <2>1. 0 \in Qos /\ 0 \in MsgId
    BY DEF Qos, MsgId
  <2> QED
    BY <2>1 DEF SessionTypeOK
<1>2. QueueTypeOK
  BY DEF QueueTypeOK
<1>3. TableTypeOK
  BY DEF TableTypeOK, EmptyTable, TableState
<1>4. CallTypeOK
  BY DEF CallTypeOK, Location
<1>5. HistoryTypeOK
  BY DEF HistoryTypeOK, Outcome
<1> QED
  BY <1>1, <1>2, <1>3, <1>4, <1>5 DEF ClientTypeOK

\* What an action leaves alone keeps its type.
LEMMA UnchangedTypes ==
    ASSUME ClientTypeOK
    PROVE  /\ UNCHANGED <<qos, next_msg_id, connects, calls>> => SessionTypeOK'
           /\ UNCHANGED queue => QueueTypeOK'
           /\ UNCHANGED table => TableTypeOK'
           /\ UNCHANGED callVars => CallTypeOK'
           /\ UNCHANGED <<result, got>> => HistoryTypeOK'
  BY DEF ClientTypeOK, SessionTypeOK, QueueTypeOK, TableTypeOK, CallTypeOK, HistoryTypeOK,
         callVars

\* The pieces the client's actions are made of.
LEMMA TakeIdType ==
    ASSUME ClientTypeOK, NEW c \in Client, TakeId(c), UNCHANGED <<qos, connects>>
    PROVE  SessionTypeOK' /\ <<c, calls[c] + 1>> \in Data
<1>1. (next_msg_id[c] + 1) % IdSpace \in MsgId
  <2>1. next_msg_id[c] + 1 \in Nat
    BY NetworkAssumption DEF ClientTypeOK, SessionTypeOK, MsgId
  <2> QED
    BY <2>1, NetworkAssumption, ModRange DEF MsgId
<1>2. calls[c] + 1 \in 1 .. MaxCalls
  BY NetworkAssumption DEF ClientTypeOK, SessionTypeOK, TakeId
<1> QED
  BY <1>1, <1>2 DEF ClientTypeOK, SessionTypeOK, TakeId, Data

LEMMA ReturnType ==
    ASSUME ClientTypeOK, CallInv, NEW c \in Client, Busy(c), NEW o \in Outcome, Return(c, o)
    PROVE  SessionTypeOK' /\ CallTypeOK' /\ HistoryTypeOK'
<1>1. SessionTypeOK'
  BY UnchangedTypes DEF Return
<1>2. CallTypeOK'
  BY ClientAssumption DEF ClientTypeOK, CallTypeOK, Return, Location
<1>3. ThisCall(c) \in Data
  BY NetworkAssumption DEF ClientTypeOK, SessionTypeOK, CallInv, ThisCall, Data
<1>4. HistoryTypeOK'
  BY <1>3 DEF ClientTypeOK, HistoryTypeOK, Return
<1> QED
  BY <1>1, <1>2, <1>4

LEMMA GoToType ==
    ASSUME ClientTypeOK, NEW c \in Client, NEW l \in Location, GoTo(c, l),
           \/ UNCHANGED retries
           \/ retries' = [retries EXCEPT ![c] = @ + 1] /\ retries[c] <= MaxRetries
    PROVE  SessionTypeOK' /\ CallTypeOK' /\ HistoryTypeOK'
<1>1. SessionTypeOK' /\ HistoryTypeOK'
  BY UnchangedTypes DEF GoTo
<1>2. retries' \in [Client -> 0 .. MaxRetries + 1]
  BY ClientAssumption DEF ClientTypeOK, CallTypeOK
<1>3. pc' \in [Client -> Location] /\ polls' \in [Client -> 0 .. Polls]
  BY ClientAssumption DEF ClientTypeOK, CallTypeOK, GoTo
<1>4. msg' \in [Client -> PublishMsg \cup {NoMsg}]
  BY DEF ClientTypeOK, CallTypeOK, GoTo
<1> QED
  BY <1>1, <1>2, <1>3, <1>4 DEF CallTypeOK

LEMMA RetryType ==
    ASSUME ClientTypeOK, CallInv, NEW c \in Client, Busy(c), pc[c] # "send", Retry(c)
    PROVE  ClientTypeOK'
<1>1. "send" \in Location /\ retries[c] <= MaxRetries
  BY DEF Location, CallInv
<1>2. SessionTypeOK' /\ CallTypeOK' /\ HistoryTypeOK'
  BY <1>1, GoToType DEF Retry
<1> QED
  BY <1>2, UnchangedTypes DEF ClientTypeOK, Retry

LEMMA PollAgainType ==
    ASSUME ClientTypeOK, NEW c \in Client, polls[c] < Polls, PollAgain(c)
    PROVE  ClientTypeOK'
<1>1. SessionTypeOK' /\ QueueTypeOK' /\ TableTypeOK' /\ HistoryTypeOK'
  BY UnchangedTypes DEF PollAgain
<1>2. CallTypeOK'
  BY ClientAssumption DEF ClientTypeOK, CallTypeOK, PollAgain
<1> QED
  BY <1>1, <1>2 DEF ClientTypeOK

\* Replacing one entry of a table, or clearing a table.
LEMMA TableType ==
    ASSUME TableTypeOK, NEW c \in Client
    PROVE  /\ [table EXCEPT ![ProcessOf[c]] = EmptyTable] \in [Process -> [MsgId -> TableState]]
           /\ \A i \in MsgId : \A s \in TableState :
                 [table EXCEPT ![ProcessOf[c]][i] = s] \in [Process -> [MsgId -> TableState]]
  BY ClientAssumption DEF TableTypeOK, EmptyTable, TableState

\* Every client action keeps the types of the client's variables, if a running
\* publish holds its message.
LEMMA ClientTypeStep ==
    ASSUME NetTypeOK, ClientTypeOK, CallInv, NEW c \in Client, ClientCase(c)
    PROVE  ClientTypeOK'
<1>1. CASE Connect(c)
  <2>1. 1 % IdSpace \in MsgId
    BY NetworkAssumption, ModRange DEF MsgId
  <2>2. SessionTypeOK'
    <3>1. 0 \in Qos
      BY NetworkAssumption DEF Qos
    <3> QED
      BY <1>1, <2>1, <3>1, ClientAssumption DEF ClientTypeOK, SessionTypeOK, Connect
  <2>3. QueueTypeOK'
    BY <1>1, QueueAssumption DEF ClientTypeOK, QueueTypeOK, Connect
  <2>4. CallTypeOK'
    BY <1>1 DEF ClientTypeOK, CallTypeOK, Connect, Location
  <2> QED
    BY <1>1, <2>2, <2>3, <2>4, UnchangedTypes DEF ClientTypeOK, Connect
<1>2. CASE Close(c)
  <2>1. QueueTypeOK'
    BY <1>2, QueueAssumption DEF ClientTypeOK, QueueTypeOK, Close
  <2>2. TableTypeOK'
    BY <1>2, TableType DEF ClientTypeOK, TableTypeOK, Close
  <2>3. CallTypeOK'
    BY <1>2 DEF ClientTypeOK, CallTypeOK, Close, Location
  <2> QED
    BY <1>2, <2>1, <2>2, <2>3, UnchangedTypes DEF ClientTypeOK, Close
<1>3. ASSUME NEW q \in QosUsed, SetQos(c, q) PROVE ClientTypeOK'
  <2>1. SessionTypeOK'
    BY <1>3, ClientAssumption DEF ClientTypeOK, SessionTypeOK, SetQos
  <2>2. TableTypeOK'
    BY <1>3, TableType DEF ClientTypeOK, TableTypeOK, SetQos
  <2> QED
    BY <1>3, <2>1, <2>2, UnchangedTypes DEF ClientTypeOK, SetQos
<1>4. ASSUME NEW f \in Filter, Subscribe(c, f) PROVE ClientTypeOK'
  BY <1>4, TakeIdType, UnchangedTypes DEF ClientTypeOK, Subscribe
<1>5. CASE PublishTooBig(c)
  <2>1. SessionTypeOK' /\ <<c, calls[c] + 1>> \in Data
    BY <1>5, TakeIdType DEF PublishTooBig
  <2>2. HistoryTypeOK'
    BY <1>5, <2>1 DEF ClientTypeOK, HistoryTypeOK, PublishTooBig, Outcome
  <2> QED
    BY <1>5, <2>1, <2>2, UnchangedTypes DEF ClientTypeOK, PublishTooBig
<1>6. CASE NextEvent(c)
  <2>1. queue[c] \in Seq(Event) /\ queue[c] # <<>> /\ Len(queue[c]) <= QueueCap
    BY <1>6 DEF ClientTypeOK, QueueTypeOK, NextEvent
  <2>2. Head(queue[c]) \in Event /\ Tail(queue[c]) \in Seq(Event)
        /\ Len(Tail(queue[c])) <= QueueCap
    BY <2>1, TailFacts, QueueAssumption
  <2>3. QueueTypeOK'
    BY <1>6, <2>2 DEF ClientTypeOK, QueueTypeOK, NextEvent
  <2>4. Head(queue[c]).data \in Data \cup {NoData}
    BY <2>2 DEF Event
  <2>5. HistoryTypeOK'
    BY <1>6, <2>4 DEF ClientTypeOK, HistoryTypeOK, NextEvent
  <2> QED
    BY <1>6, <2>3, <2>5, UnchangedTypes DEF ClientTypeOK, NextEvent
<1>7. CASE SendPublish(c)
  <2>1. Busy(c) /\ AfterSend(msg[c].qos) \in Location /\ "sent" \in Outcome
    BY <1>7 DEF SendPublish, Busy, Location, Outcome, AfterSend
  <2>2. SessionTypeOK' /\ CallTypeOK' /\ HistoryTypeOK'
    BY <1>7, <2>1, ReturnType, GoToType DEF SendPublish
  <2> QED
    BY <1>7, <2>2, UnchangedTypes DEF ClientTypeOK, SendPublish
<1>8. CASE PublishFails(c)
  <2>1. Busy(c) /\ "failed" \in Outcome
    BY <1>8 DEF PublishFails, Busy, Outcome
  <2> QED
    BY <1>8, <2>1, ReturnType, UnchangedTypes DEF ClientTypeOK, PublishFails
<1>9. CASE PollAck(c)
  <2>1. CASE PollAgain(c)
    BY <1>9, <2>1, PollAgainType DEF PollAck
  <2>2. CASE ~PollAgain(c)
    <3>1. Busy(c) /\ "ok" \in Outcome
      BY <1>9 DEF PollAck, Busy, Outcome
    <3>2. /\ AckPositions(queue[c], msg[c].id) # {}
          /\ queue' = [queue EXCEPT ![c] = TakeAck(@, msg[c].id)]
          /\ Return(c, "ok")
          /\ UNCHANGED table
      BY <1>9, <2>2 DEF PollAck
    <3>3. queue[c] \in Seq(Event) /\ Len(queue[c]) <= QueueCap
      BY DEF ClientTypeOK, QueueTypeOK
    <3>4. TakeAck(queue[c], msg[c].id) \in Seq(Event)
          /\ Len(TakeAck(queue[c], msg[c].id)) <= QueueCap
      BY <3>2, <3>3, TakeAckFacts, QueueAssumption
    <3>5. QueueTypeOK'
      BY <3>2, <3>4 DEF ClientTypeOK, QueueTypeOK
    <3> QED
      BY <3>1, <3>2, <3>5, ReturnType, UnchangedTypes DEF ClientTypeOK
  <2> QED
    BY <2>1, <2>2
<1>10. CASE AckTimeout(c)
  BY <1>10, RetryType DEF AckTimeout, Busy
<1>11. CASE PollReceived(c)
  <2>1. "check" \in Location
    BY DEF Location
  <2> QED
    BY <1>11, <2>1, PollAgainType, GoToType, UnchangedTypes DEF PollReceived, ClientTypeOK
<1>12. CASE SendRelease(c)
  <2>1. "complete" \in Location
    BY DEF Location
  <2> QED
    BY <1>12, <2>1, GoToType, UnchangedTypes DEF SendRelease, ClientTypeOK
<1>13. CASE ReceivedTimeout(c)
  BY <1>13, RetryType DEF ReceivedTimeout, Checking, Busy
<1>14. CASE PollComplete(c)
  <2>1. "remove" \in Location
    BY DEF Location
  <2> QED
    BY <1>14, <2>1, PollAgainType, GoToType, UnchangedTypes DEF PollComplete, ClientTypeOK
<1>15. CASE CompleteTimeout(c)
  BY <1>15, RetryType DEF CompleteTimeout, Busy
<1>16. CASE RemoveEntry(c)
  <2>1. Busy(c) /\ "ok" \in Outcome /\ "NONE" \in TableState
    BY <1>16 DEF RemoveEntry, Busy, Outcome, TableState
  <2>2. msg[c].id \in MsgId
    BY <2>1 DEF CallInv, PublishMsg
  <2>3. TableTypeOK'
    BY <1>16, <2>1, <2>2, TableType DEF ClientTypeOK, TableTypeOK, RemoveEntry
  <2> QED
    BY <1>16, <2>1, <2>3, ReturnType, UnchangedTypes DEF ClientTypeOK, RemoveEntry
<1>17. CASE Listener(c)
  <2>1. PICK m \in net : /\ ListenEvent(c, m) \/ ListenControl(c, m)
                         /\ UNCHANGED <<qos, next_msg_id, callVars, connects, calls, result, got>>
    BY <1>17 DEF Listener
  <2>2. m \in Message
    BY DEF NetTypeOK
  <2>3. CASE ListenEvent(c, m)
    <3> DEFINE e == [type |-> m.type, id |-> m.id,
                     data |-> IF m.type = "ACK" THEN NoData ELSE m.data]
    <3>1. e \in Event
      BY <2>2, <2>3, MessageKinds DEF ListenEvent, Event, AckMsg, PublishMsg
    <3>2. queue[c] \in Seq(Event) /\ Len(queue[c]) <= QueueCap
      BY DEF ClientTypeOK, QueueTypeOK
    <3>3. queue' = [queue EXCEPT ![c] = Push(@, e)]
      BY <2>3 DEF ListenEvent
    <3>4. QueueTypeOK'
      <4> HIDE DEF e
      <4>1. Push(queue[c], e) \in Seq(Event) /\ Len(Push(queue[c], e)) <= QueueCap
        BY <3>1, <3>2, PushFacts
      <4> QED
        BY <3>3, <4>1 DEF ClientTypeOK, QueueTypeOK
    <3> QED
      BY <2>1, <2>3, <3>4, UnchangedTypes DEF ClientTypeOK, ListenEvent
  <2>4. CASE ListenControl(c, m)
    <3>1. m.id \in MsgId /\ {"WAIT_COMPLETE", "COMPLETED"} \subseteq TableState
      BY <2>2, <2>4, MessageKinds DEF ListenControl, ControlMsg, TableState
    <3>2. TableTypeOK'
      BY <2>4, <3>1, TableType DEF ClientTypeOK, TableTypeOK, ListenControl
    <3> QED
      BY <2>1, <2>4, <3>2, UnchangedTypes DEF ClientTypeOK, ListenControl
  <2> QED
    BY <2>1, <2>3, <2>4
<1>18. CASE ReceiveMessage(c)
  <2>1. PICK m \in net :
          /\ got' = [got EXCEPT ![c] = @ \cup {IF m.type = "PUBLISH" THEN m.data ELSE NoData}]
          /\ UNCHANGED <<qos, next_msg_id, queue, table, callVars, connects, calls, result>>
    BY <1>18 DEF ReceiveMessage
  <2>2. m.type = "PUBLISH" => m.data \in Data
    BY MessageKinds DEF NetTypeOK, PublishMsg
  <2>3. HistoryTypeOK'
    BY <2>1, <2>2 DEF ClientTypeOK, HistoryTypeOK
  <2> QED
    BY <2>1, <2>3, UnchangedTypes DEF ClientTypeOK
<1> QED
  BY <1>1, <1>2, <1>3, <1>4, <1>5, <1>6, <1>7, <1>8, <1>9, <1>10, <1>11, <1>12, <1>13,
     <1>14, <1>15, <1>16, <1>17, <1>18 DEF ClientCase

\* A client step touches the call of its own client only.
LEMMA OtherCalls ==
    ASSUME ClientTypeOK, NEW c \in Client, ClientCase(c)
    PROVE  \A b \in Client \ {c} :
              /\ pc'[b] = pc[b] /\ msg'[b] = msg[b] /\ retries'[b] = retries[b]
              /\ calls'[b] = calls[b] /\ next_msg_id'[b] = next_msg_id[b]
              /\ connects'[b] = connects[b] /\ queue'[b] = queue[b]
  BY DEF ClientTypeOK, SessionTypeOK, QueueTypeOK, CallTypeOK, ClientCase,
         Connect, Close, SetQos, Subscribe, TakeId, PublishTooBig, NextEvent, ReceiveMessage,
         SendPublish, PublishFails, PollAck, AckTimeout, PollReceived, SendRelease, ReceivedTimeout,
         PollComplete, CompleteTimeout, RemoveEntry, Listener, ListenEvent, ListenControl,
         Return, GoTo, Retry, PollAgain, callVars

\* The locations a client step leads to.
LEMMA CallSteps ==
    ASSUME ClientTypeOK, NEW c \in Client, ClientCase(c)
    PROVE  \/ ~Busy(c)'
           \/ /\ Busy(c) /\ msg'[c] = msg[c] /\ calls'[c] = calls[c]
              /\ \/ pc'[c] = "send"
                 \/ retries'[c] = retries[c] /\ (pc[c] = "send" => retries[c] <= MaxRetries)
<1> USE DEF ClientTypeOK, SessionTypeOK, CallTypeOK, Busy
<1>1. CASE Connect(c)
  BY <1>1 DEF Connect
<1>2. CASE Close(c)
  BY <1>2 DEF Close
<1>3. ASSUME NEW q \in QosUsed, SetQos(c, q)
      PROVE  ~Busy(c)'
  BY <1>3 DEF SetQos, callVars
<1>4. ASSUME NEW f \in Filter, Subscribe(c, f)
      PROVE  ~Busy(c)'
  BY <1>4 DEF Subscribe, callVars
<1>5. CASE PublishTooBig(c)
  BY <1>5 DEF PublishTooBig, callVars
<1>6. CASE NextEvent(c) \/ ReceiveMessage(c) \/ Listener(c)
  BY <1>6 DEF NextEvent, ReceiveMessage, Listener, callVars
<1>7. CASE SendPublish(c)
  BY <1>7 DEF SendPublish, Return, GoTo
<1>8. CASE PublishFails(c) \/ RemoveEntry(c)
  BY <1>8 DEF PublishFails, RemoveEntry, Return
<1>9. CASE PollAck(c)
  BY <1>9 DEF PollAck, Return, PollAgain
<1>10. CASE AckTimeout(c) \/ ReceivedTimeout(c) \/ CompleteTimeout(c)
  BY <1>10 DEF AckTimeout, ReceivedTimeout, CompleteTimeout, Checking, Retry, GoTo
<1>11. CASE PollReceived(c)
  BY <1>11 DEF PollReceived, PollAgain, GoTo
<1>12. CASE SendRelease(c)
  BY <1>12 DEF SendRelease, Checking, GoTo
<1>13. CASE PollComplete(c)
  BY <1>13 DEF PollComplete, PollAgain, GoTo
<1> QED
  BY <1>1, <1>2, <1>3, <1>4, <1>5, <1>6, <1>7, <1>8, <1>9, <1>10, <1>11, <1>12, <1>13
  DEF ClientCase

LEMMA CallInvStep ==
    ASSUME ClientTypeOK, ClientTypeOK', CallInv, NEW c \in Client, ClientCase(c)
    PROVE  CallInv'
<1> SUFFICES ASSUME NEW b \in Client, Busy(b)'
             PROVE  /\ msg'[b] \in PublishMsg /\ msg'[b].dir = Up /\ msg'[b].peer = b
                    /\ calls'[b] >= 1
                    /\ pc'[b] # "send" => retries'[b] <= MaxRetries
  BY DEF CallInv, Busy
<1>1. CASE b # c
  <2>1. b \in Client \ {c}
    BY <1>1
  <2>2. pc'[b] = pc[b] /\ msg'[b] = msg[b] /\ retries'[b] = retries[b] /\ calls'[b] = calls[b]
    BY <2>1, OtherCalls
  <2> QED
    BY <2>2 DEF CallInv, Busy
<1>2. CASE b = c
  BY <1>2, CallSteps DEF CallInv, Busy
<1> QED
  BY <1>1, <1>2

\* slimmq_publish starts with a well-formed message of its own.
LEMMA BeginPublishType ==
    ASSUME TypeOK, CallInv, NEW c \in Client, BeginPublish(c)
    PROVE  TypeOK' /\ CallInv'
<1>1. PICK t \in Topic : PublishCall(c, t)
        /\ audience' = [audience EXCEPT ![<<c, calls[c] + 1>>] = MatchingSubscribers(t)]
        /\ UNCHANGED brokerVars
  BY DEF BeginPublish
<1>2. ClientTypeOK /\ BrokerTypeOK
  BY DEF TypeOK
<1> DEFINE m == [type |-> "PUBLISH", dir |-> Up, peer |-> c, qos |-> qos[c],
                 id |-> next_msg_id[c], topic |-> t, data |-> <<c, calls[c] + 1>>]
<1>3. SessionTypeOK' /\ <<c, calls[c] + 1>> \in Data
  BY <1>1, <1>2, TakeIdType DEF PublishCall
<1>4. m \in PublishMsg
  BY <1>2, <1>3 DEF ClientTypeOK, SessionTypeOK, PublishMsg, Up, Down
<1>5. msg' = [msg EXCEPT ![c] = m] /\ pc' = [pc EXCEPT ![c] = "send"]
      /\ calls' = [calls EXCEPT ![c] = @ + 1]
      /\ UNCHANGED <<net, qos, queue, table, retries, polls, connects, result, got>>
  BY <1>1 DEF PublishCall, TakeId
<1>6. m.dir = Up /\ m.peer = c
  OBVIOUS
<1> HIDE DEF m
<1>7. CallTypeOK'
  BY <1>2, <1>4, <1>5 DEF ClientTypeOK, CallTypeOK, Location
<1>8. ClientTypeOK'
  BY <1>2, <1>3, <1>5, <1>7, UnchangedTypes DEF ClientTypeOK
<1>9. audience' \in [Data -> SUBSET Client]
  BY <1>1, <1>3 DEF TypeOK, MatchingSubscribers
<1>10. BrokerTypeOK'
  BY <1>1, <1>2, <1>5 DEF BrokerTypeOK, NetTypeOK, brokerVars
<1>11. CallInv'
  <2> SUFFICES ASSUME NEW b \in Client, Busy(b)'
               PROVE  /\ msg'[b] \in PublishMsg /\ msg'[b].dir = Up /\ msg'[b].peer = b
                      /\ calls'[b] >= 1
                      /\ pc'[b] # "send" => retries'[b] <= MaxRetries
    BY DEF CallInv, Busy
  <2>1. CASE b = c
    BY <1>2, <1>4, <1>5, <1>6, <2>1, NetworkAssumption DEF ClientTypeOK, CallTypeOK, SessionTypeOK
  <2>2. CASE b # c
    BY <1>2, <1>5, <2>2 DEF ClientTypeOK, CallTypeOK, SessionTypeOK, CallInv, Busy
  <2> QED
    BY <2>1, <2>2
<1> QED
  BY <1>8, <1>9, <1>10, <1>11 DEF TypeOK

-----------------------------------------------------------------------------
(* To the broker, the rest of the system is its environment. *)

\* What a client step does to the network.
LEMMA ClientNet ==
    ASSUME ClientTypeOK, CallInv, NEW c \in Client, ClientCase(c)
    PROVE  \/ UNCHANGED net
           \/ \E m \in Message : m.dir = Up /\ Send(m)
           \/ \E m \in net : Lose(m)
<1>1. ASSUME NEW f \in Filter, Subscribe(c, f)
      PROVE  \E m \in Message : m.dir = Up /\ Send(m)
  <2> DEFINE m == [type |-> "SUBSCRIBE", dir |-> Up, peer |-> c, filter |-> f]
  <2>1. m \in Message /\ m.dir = Up
    BY DEF Message, SubscribeMsg
  <2> QED
    BY <1>1, <2>1 DEF Subscribe
<1>2. ASSUME SendPublish(c)
      PROVE  \E m \in Message : m.dir = Up /\ Send(m)
  <2>1. msg[c] \in Message /\ msg[c].dir = Up
    BY <1>2 DEF SendPublish, CallInv, Busy, Message
  <2> QED
    BY <1>2, <2>1 DEF SendPublish
<1>3. ASSUME SendRelease(c)
      PROVE  \E m \in Message : m.dir = Up /\ Send(m)
  <2>1. msg[c].id \in MsgId
    BY <1>3 DEF SendRelease, Checking, CallInv, Busy, PublishMsg
  <2>2. Control(Up, c, "RELEASE", msg[c].id) \in Message
        /\ Control(Up, c, "RELEASE", msg[c].id).dir = Up
    BY <2>1 DEF Message, ControlMsg, Control
  <2> QED
    BY <1>3, <2>2 DEF SendRelease
<1>4. ASSUME Listener(c) \/ ReceiveMessage(c)
      PROVE  UNCHANGED net \/ \E m \in net : Lose(m)
  BY <1>4 DEF Listener, ReceiveMessage, Receive, Lose
<1>5. ASSUME \/ Connect(c) \/ Close(c) \/ \E q \in QosUsed : SetQos(c, q)
             \/ PublishTooBig(c) \/ NextEvent(c) \/ PublishFails(c)
             \/ PollAck(c) \/ AckTimeout(c) \/ ReceivedTimeout(c) \/ CompleteTimeout(c)
             \/ PollReceived(c) \/ PollComplete(c) \/ RemoveEntry(c)
      PROVE  UNCHANGED net
  BY <1>5 DEF Connect, Close, SetQos, PublishTooBig, NextEvent, PublishFails, PollAck,
              AckTimeout, ReceivedTimeout, CompleteTimeout, PollReceived, PollComplete,
              RemoveEntry, Retry, PollAgain
<1> QED
  BY <1>1, <1>2, <1>3, <1>4, <1>5 DEF ClientCase

LEMMA StepIsBrokerStep ==
    ASSUME TypeOK, CallInv, [Next]_vars
    PROVE  [BrokerNext]_<<net, brokerVars>>
<1>1. ASSUME NEW c \in Client, BeginPublish(c)
      PROVE  UNCHANGED <<net, brokerVars>>
  BY <1>1 DEF BeginPublish, PublishCall
<1>2. ASSUME NEW c \in Client, ClientCase(c), UNCHANGED brokerVars
      PROVE  [BrokerNext]_<<net, brokerVars>>
  BY <1>2, ClientNet DEF TypeOK, BrokerNext, EnvSend, EnvTake
<1>3. CASE BrokerTurn
  BY <1>3 DEF BrokerTurn, BrokerNext
<1>4. CASE Loss
  BY <1>4 DEF Loss, BrokerNext, EnvTake
<1>5. CASE UNCHANGED vars
  BY <1>5 DEF vars
<1> QED
  BY <1>1, <1>2, <1>3, <1>4, <1>5, NextCases

LEMMA TypeStep ==
    ASSUME TypeOK, CallInv, [Next]_vars
    PROVE  TypeOK' /\ CallInv'
<1>1. BrokerTypeOK'
  BY BrokerTypeStep, StepIsBrokerStep DEF TypeOK
<1>2. ASSUME NEW c \in Client, ClientCase(c), UNCHANGED <<brokerVars, audience>>
      PROVE  TypeOK' /\ CallInv'
  <2>1. ClientTypeOK'
    BY <1>2, ClientTypeStep DEF TypeOK, BrokerTypeOK
  <2>2. CallInv'
    BY <1>2, <2>1, CallInvStep DEF TypeOK
  <2> QED
    BY <1>1, <1>2, <2>1, <2>2 DEF TypeOK
<1>3. ASSUME UNCHANGED <<clientVars, audience>>
      PROVE  TypeOK' /\ CallInv'
  <2>1. ClientTypeOK'
    BY <1>3, UnchangedTypes DEF TypeOK, ClientTypeOK, clientVars
  <2> QED
    BY <1>1, <1>3, <2>1 DEF TypeOK, CallInv, Busy, clientVars, callVars
<1> QED
  BY <1>2, <1>3, BeginPublishType, NextCases DEF BrokerTurn, Loss, vars

LEMMA InitType == Init => TypeOK /\ CallInv
  BY ClientInitType, BrokerTypeInit DEF Init, TypeOK, CallInv, Busy, ClientInit

LEMMA TypeInvariant == Spec => [](TypeOK /\ CallInv)
  BY InitType, TypeStep, PTL DEF Spec

\* The variables of clients, network and broker keep their types; in
\* particular the event queue keeps its bound and retries stops at
\* MaxRetries + 1.
THEOREM TypeCorrect == Spec => []TypeOK
  BY TypeInvariant, PTL

\* The broker with the clients of this library behaves as the broker in the
\* open environment, so that all that is shown of it above holds here.
THEOREM ImplementsBroker == Spec => BrokerSpec
<1>1. Init => BrokerInit
  BY DEF Init
<1> QED
  BY <1>1, StepIsBrokerStep, TypeInvariant, PTL DEF Spec, BrokerSpec

-----------------------------------------------------------------------------
(* What a successful publish means: the invariant SafetyInv, given UniqueIds. *)

\* No step takes a subscriber from a filter or from the record of a payload,
\* forgets a call or lowers the count of a key.
LEMMA HistoryGrows ==
    ASSUME TypeOK, TypeOK', CallInv, [Next]_vars
    PROVE  /\ \A f \in Filter : subs[f] \subseteq subs'[f]
           /\ \A d \in Data : given[d] \subseteq given'[d]
           /\ \A k \in Key : forwards[k] <= forwards'[k]
           /\ \A c \in Client : calls[c] <= calls'[c]
<1>1. ASSUME UNCHANGED brokerVars
      PROVE  /\ \A f \in Filter : subs[f] \subseteq subs'[f]
             /\ \A d \in Data : given[d] \subseteq given'[d]
             /\ \A k \in Key : forwards[k] <= forwards'[k]
  BY <1>1 DEF brokerVars, TypeOK, BrokerTypeOK
<1>2. ASSUME UNCHANGED calls
      PROVE  \A c \in Client : calls[c] <= calls'[c]
  BY <1>2 DEF TypeOK, ClientTypeOK, SessionTypeOK
<1>3. ASSUME NEW c \in Client, TakeId(c)
      PROVE  \A b \in Client : calls[b] <= calls'[b]
  BY <1>3 DEF TypeOK, ClientTypeOK, SessionTypeOK, TakeId
<1>4. ASSUME NEW c \in Client, BeginPublish(c)
      PROVE  UNCHANGED brokerVars /\ TakeId(c)
  BY <1>4 DEF BeginPublish, PublishCall
<1>5. ASSUME NEW c \in Client, ClientCase(c)
      PROVE  UNCHANGED calls \/ TakeId(c)
  BY <1>5 DEF ClientCase, Connect, Close, SetQos, Subscribe, PublishTooBig, NextEvent,
              ReceiveMessage, SendPublish, PublishFails, PollAck, AckTimeout, PollReceived, SendRelease,
              ReceivedTimeout, PollComplete, CompleteTimeout, RemoveEntry, Listener, Return,
              GoTo, Retry, PollAgain
<1>6. CASE BrokerTurn
  <2>1. UNCHANGED calls
    BY <1>6 DEF BrokerTurn, clientVars
  <2>2. PICK m \in net : m.dir = Up /\ (\/ HandleSubscribe(m)
                                        \/ HandlePublishQos0(m)
                                        \/ HandlePublishQos1(m)
                                        \/ HandlePublishNew(m)
                                        \/ UNCHANGED <<subs, given, forwards>>)
    BY <1>6 DEF BrokerTurn, BrokerStep, HandlePublishRepeated, HandlePublishCompleted,
                HandleControlRelease, HandleControlReceived, HandleUnknown, brokerVars
  <2>3. \A f \in Filter : subs[f] \subseteq subs'[f]
    BY <2>2 DEF TypeOK, BrokerTypeOK, HandleSubscribe, HandlePublishQos0, HandlePublishQos1,
                HandlePublishNew
  <2>4. \A d \in Data : given[d] \subseteq given'[d]
    BY <2>2 DEF TypeOK, BrokerTypeOK, HandleSubscribe, HandlePublishQos0, HandlePublishQos1,
                HandlePublishNew, Give
  <2>5. \A k \in Key : forwards[k] <= forwards'[k]
    BY <2>2 DEF TypeOK, BrokerTypeOK, HandleSubscribe, HandlePublishQos0, HandlePublishQos1,
                HandlePublishNew
  <2> QED
    BY <1>2, <2>1, <2>3, <2>4, <2>5
<1>7. CASE Loss \/ UNCHANGED vars
  <2>1. UNCHANGED brokerVars /\ UNCHANGED calls
    BY <1>7 DEF Loss, vars, clientVars
  <2> QED
    BY <1>1, <1>2, <2>1
<1> QED
  BY <1>1, <1>2, <1>3, <1>4, <1>5, <1>6, <1>7, NextCases

\* The audience of a call that has been made is settled.
LEMMA AudienceSettled ==
    ASSUME TypeOK, CallInv, [Next]_vars
    PROVE  \A c \in Client : \A i \in 1 .. calls[c] : audience'[<<c, i>>] = audience[<<c, i>>]
<1>1. ASSUME NEW b \in Client, BeginPublish(b), NEW c \in Client, NEW i \in 1 .. calls[c]
      PROVE  audience'[<<c, i>>] = audience[<<c, i>>]
  <2>1. <<c, i>> # <<b, calls[b] + 1>>
    BY <1>1 DEF TypeOK, ClientTypeOK, SessionTypeOK
  <2>2. <<c, i>> \in Data
    BY NetworkAssumption DEF TypeOK, ClientTypeOK, SessionTypeOK, Data
  <2> QED
    BY <1>1, <2>1, <2>2 DEF BeginPublish, TypeOK
<1>2. ASSUME audience' = audience
      PROVE  \A c \in Client : \A i \in 1 .. calls[c] : audience'[<<c, i>>] = audience[<<c, i>>]
  BY <1>2
<1> QED
  BY <1>1, <1>2, NextCases DEF BrokerTurn, Loss, vars

\* So what has been handled or forwarded once, stays so, and an audience that
\* is subscribed stays subscribed.
LEMMA EvidenceLasts ==
    ASSUME TypeOK, TypeOK', CallInv, [Next]_vars
    PROVE  /\ \A c \in Client : \A i \in MsgId : Handled(c, i) => Handled(c, i)'
           /\ \A c \in Client : \A i \in MsgId : Forwarded(c, i) => Forwarded(c, i)'
           /\ \A t \in Topic : MatchingSubscribers(t) \subseteq MatchingSubscribers(t)'
<1>1. ASSUME NEW c \in Client, NEW i \in MsgId, Handled(c, i)
      PROVE  Handled(c, i)'
  <2>1. i \in 1 .. calls[c] /\ calls[c] \in 0 .. MaxCalls /\ calls'[c] \in 0 .. MaxCalls
    BY <1>1 DEF Handled, TypeOK, ClientTypeOK, SessionTypeOK
  <2>2. i \in 1 .. calls'[c] /\ <<c, i>> \in Data
    BY <2>1, HistoryGrows, NetworkAssumption DEF Data
  <2>3. given[<<c, i>>] \subseteq given'[<<c, i>>]
    BY <2>2, HistoryGrows
  <2>4. audience'[<<c, i>>] = audience[<<c, i>>]
    BY <2>1, AudienceSettled
  <2> QED
    BY <1>1, <2>2, <2>3, <2>4 DEF Handled
<1>2. ASSUME NEW c \in Client, NEW i \in MsgId, Forwarded(c, i)
      PROVE  Forwarded(c, i)'
  <2>1. <<c, i>> \in Key
    BY DEF Key
  <2>2. forwards[<<c, i>>] <= forwards'[<<c, i>>]
    BY <2>1, HistoryGrows
  <2>3. forwards[<<c, i>>] \in Nat /\ forwards'[<<c, i>>] \in Nat
    BY <2>1 DEF TypeOK, BrokerTypeOK
  <2> QED
    BY <1>1, <1>2, <2>2, <2>3 DEF Forwarded
<1>3. \A t \in Topic : MatchingSubscribers(t) \subseteq MatchingSubscribers(t)'
  BY HistoryGrows DEF MatchingSubscribers
<1> QED
  BY <1>1, <1>2, <1>3

LEMMA ModSmall ==
    ASSUME NEW a \in Nat, NEW n \in Nat \ {0}, a < n
    PROVE  a % n = a
  OBVIOUS

\* How a client step changes the numbering of its client's calls.
LEMMA NumberSteps ==
    ASSUME TypeOK, NEW c \in Client, ClientCase(c)
    PROVE  \/ /\ UNCHANGED <<calls, next_msg_id, connects>>
              /\ pc[c] = "closed" => pc'[c] = "closed"
           \/ /\ pc[c] = "idle" /\ pc' = pc
              /\ TakeId(c) /\ UNCHANGED connects
           \/ Connect(c)
<1> USE DEF TypeOK, ClientTypeOK, CallTypeOK
<1>1. CASE Close(c)
  BY <1>1 DEF Close
<1>2. ASSUME NEW q \in QosUsed, SetQos(c, q)
      PROVE  UNCHANGED <<calls, next_msg_id, connects, pc>>
  BY <1>2 DEF SetQos, callVars
<1>3. ASSUME NEW f \in Filter, Subscribe(c, f)
      PROVE  pc[c] = "idle" /\ pc' = pc /\ TakeId(c) /\ UNCHANGED connects
  BY <1>3 DEF Subscribe, callVars
<1>4. CASE PublishTooBig(c)
  BY <1>4 DEF PublishTooBig, callVars
<1>5. CASE NextEvent(c) \/ ReceiveMessage(c) \/ Listener(c)
  BY <1>5 DEF NextEvent, ReceiveMessage, Listener, callVars
<1>6. CASE SendPublish(c) \/ PublishFails(c) \/ PollAck(c) \/ RemoveEntry(c)
  BY <1>6 DEF SendPublish, PublishFails, PollAck, RemoveEntry, Return, GoTo, PollAgain
<1>7. CASE AckTimeout(c) \/ ReceivedTimeout(c) \/ CompleteTimeout(c) \/ PollReceived(c)
           \/ SendRelease(c) \/ PollComplete(c)
  BY <1>7 DEF AckTimeout, ReceivedTimeout, CompleteTimeout, PollReceived, SendRelease,
              PollComplete, Checking, Retry, GoTo, PollAgain
<1> QED
  BY <1>1, <1>2, <1>3, <1>4, <1>5, <1>6, <1>7 DEF ClientCase

\* How a client step changes the result of a call.
LEMMA ResultSteps ==
    ASSUME TypeOK, CallInv, NEW c \in Client, ClientCase(c), NEW d \in Data
    PROVE  \/ result'[d] = result[d]
           \/ d = ThisCall(c) /\ Busy(c) /\ calls' = calls
              /\ \/ result'[d] # "ok"
                 \/ PollAck(c) /\ AckPositions(queue[c], msg[c].id) # {}
                 \/ RemoveEntry(c)
           \/ d = <<c, calls[c] + 1>> /\ result'[d] = "failed" /\ TakeId(c)
<1> USE DEF TypeOK, ClientTypeOK, HistoryTypeOK, Busy
<1>1. CASE PublishTooBig(c)
  BY <1>1 DEF PublishTooBig
<1>2. CASE SendPublish(c)
  BY <1>2 DEF SendPublish, Return, GoTo
<1>3. CASE PublishFails(c)
  BY <1>3 DEF PublishFails, Return
<1>4. CASE PollAck(c)
  BY <1>4 DEF PollAck, Return, PollAgain
<1>5. CASE RemoveEntry(c)
  BY <1>5 DEF RemoveEntry, Return
<1>6. ASSUME \/ Connect(c) \/ Close(c) \/ \E q \in QosUsed : SetQos(c, q)
             \/ \E f \in Filter : Subscribe(c, f)
             \/ NextEvent(c) \/ AckTimeout(c) \/ PollReceived(c) \/ SendRelease(c)
             \/ ReceivedTimeout(c) \/ PollComplete(c) \/ CompleteTimeout(c) \/ Listener(c)
             \/ ReceiveMessage(c)
      PROVE  result' = result
  BY <1>6 DEF Connect, Close, SetQos, Subscribe, NextEvent, ReceiveMessage, AckTimeout, PollReceived,
              SendRelease, ReceivedTimeout, PollComplete, CompleteTimeout, Listener, Retry,
              GoTo, PollAgain
<1> QED
  BY <1>1, <1>2, <1>3, <1>4, <1>5, <1>6 DEF ClientCase

\* What a client step can put on the network.
LEMMA SentByClient ==
    ASSUME TypeOK, CallInv, NEW c \in Client, ClientCase(c), NEW x \in net', x \notin net
    PROVE  \/ x.type = "SUBSCRIBE"
           \/ x = msg[c] /\ Busy(c) /\ x.type = "PUBLISH" /\ calls' = calls
           \/ x = Control(Up, c, "RELEASE", msg[c].id) /\ SendRelease(c)
<1>1. ASSUME NEW f \in Filter, Subscribe(c, f)
      PROVE  x.type = "SUBSCRIBE"
  BY <1>1 DEF Subscribe, Send
<1>2. CASE SendPublish(c)
  <2>1. x = msg[c] /\ Busy(c) /\ calls' = calls
    BY <1>2 DEF SendPublish, Send, Busy, Return, GoTo
  <2> QED
    BY <2>1 DEF CallInv, PublishMsg
<1>3. CASE SendRelease(c)
  BY <1>3 DEF SendRelease, Send
<1>4. ASSUME \/ Connect(c) \/ Close(c) \/ \E q \in QosUsed : SetQos(c, q)
             \/ PublishTooBig(c) \/ NextEvent(c) \/ PublishFails(c)
             \/ PollAck(c) \/ AckTimeout(c) \/ ReceivedTimeout(c) \/ CompleteTimeout(c)
             \/ PollReceived(c) \/ PollComplete(c) \/ RemoveEntry(c) \/ Listener(c)
             \/ ReceiveMessage(c)
      PROVE  net' \subseteq net
  BY <1>4 DEF Connect, Close, SetQos, PublishTooBig, NextEvent, PublishFails, PollAck,
              AckTimeout, ReceivedTimeout, CompleteTimeout, PollReceived, PollComplete,
              RemoveEntry, Retry, PollAgain, Listener, ReceiveMessage, Receive
<1> QED
  BY <1>1, <1>2, <1>3, <1>4 DEF ClientCase

\* What the broker can put on the network.
LEMMA SentByBroker ==
    ASSUME TypeOK, BrokerStep, NEW x \in net', x \notin net
    PROVE  \E m \in net :
              /\ m.dir = Up
              /\ \/ x.type = "PUBLISH" /\ x.dir = Down
                 \/ x = Ack(Down, m.peer, m.id) /\ HandlePublishQos1(m)
                 \/ x = Control(Down, m.peer, "RECEIVED", m.id)
                    /\ (HandlePublishNew(m) \/ HandlePublishRepeated(m))
                 \/ x = Control(Down, m.peer, "COMPLETE", m.id) /\ HandleControlRelease(m)
<1>1. ASSUME NEW m \in net, m.type = "PUBLISH"
      PROVE  \A y \in Copies(m) : y.type = "PUBLISH" /\ y.dir = Down
  BY <1>1, MessageKinds DEF TypeOK, BrokerTypeOK, NetTypeOK, Copies, PublishMsg
<1>2. PICK m \in net :
        /\ m.dir = Up
        /\ \/ HandleSubscribe(m)
           \/ HandlePublishQos0(m)
           \/ HandlePublishQos1(m)
           \/ HandlePublishNew(m)
           \/ HandlePublishRepeated(m)
           \/ HandlePublishCompleted(m)
           \/ HandleControlRelease(m)
           \/ HandleControlReceived(m)
           \/ HandleUnknown(m)
  BY DEF BrokerStep
<1>3. CASE HandleSubscribe(m) \/ HandlePublishCompleted(m) \/ HandleControlReceived(m)
           \/ HandleUnknown(m)
  BY <1>3 DEF HandleSubscribe, HandlePublishCompleted, HandleControlReceived, HandleUnknown,
              Receive
<1>4. CASE HandlePublishQos0(m)
  BY <1>1, <1>2, <1>4 DEF HandlePublishQos0, Receive
<1>5. CASE HandlePublishQos1(m)
  <2>1. x \in Copies(m) \/ x = Ack(Down, m.peer, m.id)
    BY <1>5 DEF HandlePublishQos1, Receive
  <2>2. m.type = "PUBLISH"
    BY <1>5 DEF HandlePublishQos1
  <2> QED
    BY <1>1, <1>2, <1>5, <2>1, <2>2
<1>6. CASE HandlePublishNew(m)
  <2>1. x \in Copies(m) \/ x = Control(Down, m.peer, "RECEIVED", m.id)
    BY <1>6 DEF HandlePublishNew, Receive
  <2>2. m.type = "PUBLISH"
    BY <1>6 DEF HandlePublishNew
  <2> QED
    BY <1>1, <1>2, <1>6, <2>1, <2>2
<1>7. CASE HandlePublishRepeated(m)
  <2>1. x = Control(Down, m.peer, "RECEIVED", m.id)
    BY <1>7 DEF HandlePublishRepeated, Receive
  <2> QED
    BY <1>2, <1>7, <2>1
<1>8. CASE HandleControlRelease(m)
  <2>1. x = Control(Down, m.peer, "COMPLETE", m.id)
    BY <1>8 DEF HandleControlRelease, Receive
  <2> QED
    BY <1>2, <1>8, <2>1
<1> QED
  BY <1>2, <1>3, <1>4, <1>5, <1>6, <1>7, <1>8

LEMMA NumberingByClient ==
    ASSUME UniqueIds, TypeOK, TypeOK', CallInv, NumberingInv, [Next]_vars,
           NEW c \in Client, ClientCase(c)
    PROVE  NumberingInv'
<1> USE NetworkAssumption, ClientAssumption
<1>0. ClientTypeOK /\ calls[c] \in 0 .. MaxCalls /\ connects[c] \in 0 .. MaxConnects
      /\ calls \in [Client -> 0 .. MaxCalls]
  BY DEF TypeOK, ClientTypeOK, SessionTypeOK
<1>1. \A b \in Client \ {c} :
         /\ pc'[b] = pc[b] /\ msg'[b] = msg[b] /\ calls'[b] = calls[b]
         /\ next_msg_id'[b] = next_msg_id[b] /\ connects'[b] = connects[b]
  BY <1>0, OtherCalls
<1>2. ASSUME UNCHANGED <<calls, next_msg_id, connects>>, pc[c] = "closed" => pc'[c] = "closed"
      PROVE  UnconnectedInv' /\ NextIdInv'
  BY <1>1, <1>2 DEF NumberingInv, UnconnectedInv, NextIdInv
<1>3. ASSUME pc[c] = "idle", pc' = pc, TakeId(c), UNCHANGED connects
      PROVE  UnconnectedInv' /\ NextIdInv'
  <2>1. connects[c] # 0 /\ calls[c] < MaxCalls /\ next_msg_id[c] = calls[c] + 1
    BY <1>3 DEF NumberingInv, UnconnectedInv, NextIdInv, TakeId
  <2>2. calls'[c] = calls[c] + 1 /\ next_msg_id'[c] = (calls[c] + 2) % IdSpace
    BY <1>0, <1>3, <2>1 DEF TakeId, TypeOK, ClientTypeOK, SessionTypeOK
  <2>3. calls'[c] < MaxCalls => (calls[c] + 2) % IdSpace = calls[c] + 2
    <3> SUFFICES ASSUME calls'[c] < MaxCalls
                 PROVE  (calls[c] + 2) % IdSpace = calls[c] + 2
      OBVIOUS
    <3>1. calls[c] + 2 \in Nat /\ calls[c] + 2 < IdSpace
      BY <1>0, <2>2 DEF UniqueIds
    <3> QED
      BY <3>1, ModSmall, Zenon
  <2> QED
    BY <1>0, <1>1, <1>3, <2>1, <2>2, <2>3 DEF NumberingInv, UnconnectedInv, NextIdInv
<1>4. ASSUME Connect(c)
      PROVE  UnconnectedInv' /\ NextIdInv'
  <2>1. connects[c] = 0 /\ calls[c] = 0
    BY <1>0, <1>4 DEF Connect, UniqueIds, NumberingInv, UnconnectedInv
  <2>2. connects'[c] = 1 /\ calls' = calls /\ next_msg_id'[c] = 1 % IdSpace
    BY <1>4, <2>1 DEF Connect, TypeOK, ClientTypeOK, SessionTypeOK
  <2>3. 0 < MaxCalls => 1 % IdSpace = 1
    BY ModSmall DEF UniqueIds
  <2> QED
    BY <1>1, <2>1, <2>2, <2>3 DEF NumberingInv, UnconnectedInv, NextIdInv
<1>5. UnconnectedInv' /\ NextIdInv'
  BY <1>2, <1>3, <1>4, NumberSteps DEF NumberingInv, UnconnectedInv, NextIdInv
<1>6. ThisCallInv'
  <2> SUFFICES ASSUME NEW b \in Client, Busy(b)'
               PROVE  msg'[b].id = calls'[b] /\ msg'[b].data = <<b, calls'[b]>>
    BY DEF ThisCallInv, ThisCall, Busy
  <2>1. msg'[b] = msg[b] /\ calls'[b] = calls[b] /\ Busy(b)
    BY <1>0, <1>1, CallSteps DEF Busy
  <2> QED
    BY <2>1 DEF NumberingInv, ThisCallInv, ThisCall
<1>7. PublishInv'
  <2> SUFFICES ASSUME NEW x \in net', x.type = "PUBLISH", x.dir = Up
               PROVE  x.data = <<x.peer, x.id>> /\ x.id \in 1 .. calls'[x.peer]
    BY DEF PublishInv
  <2>1. CASE x \in net
    <3>1. x.peer \in Client /\ x.data = <<x.peer, x.id>> /\ x.id \in 1 .. calls[x.peer]
      BY <2>1, MessageKey DEF NumberingInv, PublishInv, TypeOK, BrokerTypeOK, NetTypeOK
    <3>2. calls[x.peer] <= calls'[x.peer] /\ calls[x.peer] \in Nat /\ calls'[x.peer] \in Nat
      BY <3>1, HistoryGrows DEF TypeOK, ClientTypeOK, SessionTypeOK
    <3> QED
      BY <3>1, <3>2
  <2>2. CASE x \notin net
    <3>1. x = msg[c] /\ Busy(c) /\ calls' = calls
      BY <2>2, SentByClient DEF Control
    <3> QED
      BY <1>0, <3>1 DEF NumberingInv, ThisCallInv, ThisCall, CallInv
  <2> QED
    BY <2>1, <2>2
<1>8. ResultInv'
  <2> SUFFICES ASSUME NEW d \in Data, result'[d] # "none"
               PROVE  d[2] <= calls'[d[1]]
    BY DEF ResultInv
  <2>1. d[1] \in Client /\ d[2] \in Nat
    BY DEF Data
  <2>2. calls[d[1]] <= calls'[d[1]] /\ calls[d[1]] \in Nat /\ calls'[d[1]] \in Nat
    BY <2>1, HistoryGrows DEF TypeOK, ClientTypeOK, SessionTypeOK
  <2>3. CASE result'[d] = result[d]
    BY <2>1, <2>2, <2>3 DEF NumberingInv, ResultInv
  <2>4. CASE d = ThisCall(c) /\ calls' = calls
    BY <1>0, <2>4 DEF ThisCall
  <2>5. CASE d = <<c, calls[c] + 1>> /\ TakeId(c)
    BY <1>0, <2>5 DEF TakeId
  <2> QED
    BY <2>3, <2>4, <2>5, ResultSteps
<1> QED
  BY <1>5, <1>6, <1>7, <1>8 DEF NumberingInv

LEMMA NumberingByBegin ==
    ASSUME UniqueIds, TypeOK, TypeOK', NumberingInv, NEW c \in Client, BeginPublish(c)
    PROVE  NumberingInv'
<1> USE NetworkAssumption, ClientAssumption
<1>1. PICK t \in Topic : PublishCall(c, t)
  BY DEF BeginPublish
<1>2. calls \in [Client -> 0 .. MaxCalls] /\ next_msg_id \in [Client -> MsgId]
      /\ msg \in [Client -> PublishMsg \cup {NoMsg}] /\ pc \in [Client -> Location]
  BY DEF TypeOK, ClientTypeOK, SessionTypeOK, CallTypeOK
<1>0. \A b \in Client : b = c \/ b \in Client \ {c}
  OBVIOUS
<1>3. connects[c] # 0 /\ calls[c] < MaxCalls /\ next_msg_id[c] = calls[c] + 1
  BY <1>1 DEF PublishCall, TakeId, NumberingInv, UnconnectedInv, NextIdInv
<1>4. /\ calls'[c] = calls[c] + 1
      /\ next_msg_id'[c] = (calls[c] + 2) % IdSpace
      /\ \A b \in Client \ {c} : /\ calls'[b] = calls[b] /\ next_msg_id'[b] = next_msg_id[b]
                                 /\ msg'[b] = msg[b] /\ pc'[b] = pc[b]
      /\ UNCHANGED <<net, connects, result>>
  BY <1>1, <1>2, <1>3 DEF PublishCall, TakeId
<1>5. calls'[c] < MaxCalls => (calls[c] + 2) % IdSpace = calls[c] + 2
  <2> SUFFICES ASSUME calls'[c] < MaxCalls
               PROVE  (calls[c] + 2) % IdSpace = calls[c] + 2
    OBVIOUS
  <2>1. calls[c] \in Nat /\ calls[c] + 1 < MaxCalls
    BY <1>2, <1>4
  <2>2. calls[c] + 2 \in Nat /\ calls[c] + 2 < IdSpace
    BY <2>1 DEF UniqueIds
  <2> QED
    BY <2>2, ModSmall, Zenon
<1>6. msg'[c].id = calls'[c] /\ msg'[c].data = <<c, calls'[c]>>
  BY <1>1, <1>2, <1>3, <1>4 DEF PublishCall
<1>7. UnconnectedInv' /\ NextIdInv'
  <2> SUFFICES ASSUME NEW b \in Client
               PROVE  /\ connects'[b] = 0 => calls'[b] = 0 /\ pc'[b] = "closed"
                      /\ (connects'[b] # 0 /\ calls'[b] < MaxCalls)
                            => next_msg_id'[b] = calls'[b] + 1
    BY DEF UnconnectedInv, NextIdInv
  <2>1. CASE b = c
    BY <1>2, <1>3, <1>4, <1>5, <2>1
  <2>2. CASE b # c
    BY <1>4, <2>2 DEF NumberingInv, UnconnectedInv, NextIdInv
  <2> QED
    BY <2>1, <2>2
<1>8. ThisCallInv'
  BY <1>4, <1>6 DEF NumberingInv, ThisCallInv, ThisCall, Busy
<1>9. PublishInv'
  <2>1. \A m \in net : m.peer \in Client
    BY MessageKey DEF TypeOK, BrokerTypeOK, NetTypeOK
  <2>2. \A b \in Client : \A i \in 1 .. calls[b] : i \in 1 .. calls'[b]
    BY <1>0, <1>2, <1>4
  <2> QED
    BY <1>4, <2>1, <2>2 DEF NumberingInv, PublishInv
<1>10. ResultInv'
  <2>1. \A d \in Data : d[1] \in Client /\ d[2] \in Nat
    BY DEF Data
  <2>2. \A b \in Client : calls[b] \in Nat /\ calls'[b] \in Nat /\ calls[b] <= calls'[b]
    BY <1>0, <1>2, <1>4
  <2> QED
    BY <1>4, <2>1, <2>2 DEF NumberingInv, ResultInv
<1> QED
  BY <1>7, <1>8, <1>9, <1>10 DEF NumberingInv

\* A step of the broker or the network leaves the numbering alone: the broker
\* sends no PUBLISH to itself.
LEMMA NumberingByOthers ==
    ASSUME TypeOK, NumberingInv, BrokerTurn \/ Loss \/ UNCHANGED vars
    PROVE  NumberingInv'
<1>1. UNCHANGED clientVars
  BY DEF BrokerTurn, Loss, vars
<1>2. \A x \in net' : x.type = "PUBLISH" /\ x.dir = Up => x \in net
  BY SentByBroker DEF BrokerTurn, Loss, Lose, vars, Ack, Control, Up, Down
<1> QED
  BY <1>1, <1>2 DEF clientVars, callVars, NumberingInv, UnconnectedInv, NextIdInv, ThisCallInv,
                    ThisCall, Busy, PublishInv, ResultInv

LEMMA NumberingStep ==
    ASSUME UniqueIds, TypeOK, TypeOK', CallInv, NumberingInv, [Next]_vars
    PROVE  NumberingInv'
  BY NextCases, NumberingByClient, NumberingByBegin, NumberingByOthers

\* A call that runs after a step has just begun or ran before it, unchanged.
LEMMA StaysBusy ==
    ASSUME TypeOK, [Next]_vars, NEW b \in Client, Busy(b)'
    PROVE  \/ BeginPublish(b)
           \/ Busy(b) /\ msg'[b] = msg[b] /\ calls'[b] = calls[b]
<1>0. ClientTypeOK
  BY DEF TypeOK
<1>1. ASSUME NEW c \in Client, ClientCase(c)
      PROVE  Busy(b) /\ msg'[b] = msg[b] /\ calls'[b] = calls[b]
  <2>1. CASE b = c
    BY <1>0, <1>1, <2>1, CallSteps
  <2>2. CASE b # c
    <3>1. b \in Client \ {c}
      BY <2>2
    <3> QED
      BY <1>0, <1>1, <3>1, OtherCalls DEF Busy
  <2> QED
    BY <2>1, <2>2
<1>2. ASSUME NEW c \in Client, BeginPublish(c), b # c
      PROVE  Busy(b) /\ msg'[b] = msg[b] /\ calls'[b] = calls[b]
  BY <1>0, <1>2 DEF BeginPublish, PublishCall, TakeId, Busy, ClientTypeOK, CallTypeOK,
                    SessionTypeOK
<1>3. ASSUME UNCHANGED clientVars
      PROVE  Busy(b) /\ msg'[b] = msg[b] /\ calls'[b] = calls[b]
  BY <1>3 DEF clientVars, callVars, Busy
<1> QED
  BY <1>1, <1>2, <1>3, NextCases DEF BrokerTurn, Loss, vars

\* A PUBLISH to the broker after a step was in transit before it or is the
\* message of a running call.
LEMMA PublishInTransit ==
    ASSUME TypeOK, CallInv, [Next]_vars, NEW x \in net', x.type = "PUBLISH", x.dir = Up
    PROVE  x \in net \/ \E c \in Client : Busy(c) /\ x = msg[c]
<1>1. ASSUME NEW c \in Client, ClientCase(c), x \notin net
      PROVE  Busy(c) /\ x = msg[c]
  BY <1>1, SentByClient DEF Control
<1>2. ASSUME NEW c \in Client, BeginPublish(c)
      PROVE  x \in net
  BY <1>2 DEF BeginPublish, PublishCall
<1>3. ASSUME BrokerTurn \/ Loss \/ UNCHANGED vars
      PROVE  x \in net
  BY <1>3, SentByBroker DEF BrokerTurn, Loss, Lose, vars, Ack, Control, Up, Down
<1> QED
  BY <1>1, <1>2, <1>3, NextCases

\* The subscribers that match t after the step.
MatchingAfter(t) ==
    {c \in Client : \E f \in Filter : c \in subs'[f] /\ FilterMatches(f, t)}

LEMMA AudienceStep ==
    ASSUME TypeOK, TypeOK', CallInv, NumberingInv, AudienceInv, [Next]_vars
    PROVE  AudienceInv'
<1> USE NetworkAssumption
<1>0. \A t \in Topic : MatchingSubscribers(t) \subseteq MatchingAfter(t)
  BY HistoryGrows DEF MatchingSubscribers, MatchingAfter
<1>1. ASSUME NEW b \in Client, Busy(b)
      PROVE  /\ audience'[<<b, calls[b]>>] = audience[<<b, calls[b]>>]
             /\ audience[<<b, calls[b]>>] \subseteq MatchingAfter(msg[b].topic)
  <2>1. calls[b] \in 1 .. calls[b] /\ msg[b].topic \in Topic
    BY <1>1 DEF CallInv, PublishMsg, TypeOK, ClientTypeOK, SessionTypeOK
  <2>2. audience'[<<b, calls[b]>>] = audience[<<b, calls[b]>>]
    BY <2>1, AudienceSettled
  <2>3. audience[<<b, calls[b]>>] \subseteq MatchingSubscribers(msg[b].topic)
    BY <1>1 DEF AudienceInv, ThisCall
  <2> QED
    BY <1>0, <2>1, <2>2, <2>3
<1>2. ASSUME NEW b \in Client, Busy(b)'
      PROVE  audience'[<<b, calls'[b]>>] \subseteq MatchingAfter(msg'[b].topic)
  <2>1. CASE Busy(b) /\ msg'[b] = msg[b] /\ calls'[b] = calls[b]
    BY <1>1, <2>1
  <2>2. CASE BeginPublish(b)
    <3>1. PICK t \in Topic :
            /\ PublishCall(b, t)
            /\ audience' = [audience EXCEPT ![<<b, calls[b] + 1>>] = MatchingSubscribers(t)]
      BY <2>2 DEF BeginPublish
    <3>2. calls'[b] = calls[b] + 1 /\ <<b, calls[b] + 1>> \in Data
      BY <3>1 DEF PublishCall, TakeId, TypeOK, ClientTypeOK, SessionTypeOK, Data
    <3>3. msg'[b].topic = t
      BY <3>1 DEF PublishCall, TypeOK, ClientTypeOK, CallTypeOK
    <3>4. audience'[<<b, calls'[b]>>] = MatchingSubscribers(t)
      BY <3>1, <3>2 DEF TypeOK
    <3> QED
      BY <1>0, <3>3, <3>4
  <2> QED
    BY <1>2, <2>1, <2>2, StaysBusy
<1>3. ASSUME NEW x \in net', x.type = "PUBLISH", x.dir = Up
      PROVE  audience'[x.data] \subseteq MatchingAfter(x.topic)
  <2>1. CASE x \in net
    <3>1. x \in Message
      BY <2>1 DEF TypeOK, BrokerTypeOK, NetTypeOK
    <3>2. x.topic \in Topic /\ x.peer \in Client
      BY <1>3, <3>1, MessageKinds DEF PublishMsg
    <3>3. x.data = <<x.peer, x.id>> /\ x.id \in 1 .. calls[x.peer]
      BY <1>3, <2>1 DEF NumberingInv, PublishInv
    <3>4. audience'[x.data] = audience[x.data]
      BY <3>2, <3>3, AudienceSettled
    <3>5. audience[x.data] \subseteq MatchingSubscribers(x.topic)
      BY <1>3, <2>1 DEF AudienceInv
    <3> QED
      BY <1>0, <3>2, <3>4, <3>5
  <2>2. CASE \E c \in Client : Busy(c) /\ x = msg[c]
    BY <1>1, <2>2 DEF NumberingInv, ThisCallInv, ThisCall
  <2> QED
    BY <1>3, <2>1, <2>2, PublishInTransit
<1> QED
  BY <1>2, <1>3 DEF AudienceInv, Busy, ThisCall, MatchingSubscribers, MatchingAfter

\* A PUBLISH that the broker handles now is handled from now on.
LEMMA HandledNow ==
    ASSUME TypeOK, NumberingInv, AudienceInv, UNCHANGED <<clientVars, audience>>,
           NEW m \in net, m.dir = Up, m.type = "PUBLISH", Give(m)
    PROVE  Handled(m.peer, m.id)'
<1>1. m.data = <<m.peer, m.id>> /\ m.id \in 1 .. calls[m.peer]
  BY DEF NumberingInv, PublishInv
<1>2. audience[m.data] \subseteq MatchingSubscribers(m.topic)
  BY DEF AudienceInv
<1>3. m.data \in Data
  BY MessageKinds DEF TypeOK, BrokerTypeOK, NetTypeOK, PublishMsg
<1>4. audience[m.data] \subseteq given'[m.data]
  BY <1>2, <1>3 DEF Give, TypeOK, BrokerTypeOK
<1> QED
  BY <1>1, <1>4 DEF Handled, clientVars

\* How a client step changes the event queues: events leave, and one comes
\* from the network.
LEMMA QueueSteps ==
    ASSUME TypeOK, NEW c \in Client, ClientCase(c), NEW e \in Events(queue'[c])
    PROVE  \/ e \in Events(queue[c])
           \/ \E m \in net :
                 /\ m.type = e.type /\ m.peer = c /\ m.id = e.id
                 /\ m.type = "PUBLISH" => e.data = m.data
<1>0. queue \in [Client -> Seq(Event)] /\ queue[c] \in Seq(Event) /\ Len(queue[c]) <= QueueCap
  BY DEF TypeOK, ClientTypeOK, QueueTypeOK
<1>1. CASE Connect(c) \/ Close(c)
  <2>1. queue'[c] = <<>>
    BY <1>0, <1>1 DEF Connect, Close
  <2> QED
    BY <2>1 DEF Events
<1>2. CASE NextEvent(c)
  <2>1. queue'[c] = Tail(queue[c]) /\ queue[c] # <<>>
    BY <1>0, <1>2 DEF NextEvent
  <2> QED
    BY <1>0, <2>1, TailFacts
<1>3. CASE PollAck(c)
  <2>1. CASE queue' = queue
    BY <2>1
  <2>2. CASE queue' # queue
    <3>1. PICK i : AckPositions(queue[c], i) # {} /\ queue'[c] = TakeAck(queue[c], i)
      BY <1>0, <1>3, <2>2 DEF PollAck, PollAgain
    <3> DEFINE q == queue[c]
    <3>2. q \in Seq(Event) /\ AckPositions(q, i) # {} /\ e \in Events(TakeAck(q, i))
      BY <1>0, <3>1
    <3> HIDE DEF q
    <3>3. e \in Events(q)
      BY <3>2, TakeAckFacts
    <3> QED
      BY <3>3 DEF q
  <2> QED
    BY <2>1, <2>2
<1>4. CASE Listener(c)
  <2>1. PICK m \in net : m.peer = c /\ (ListenEvent(c, m) \/ ListenControl(c, m))
    BY <1>4 DEF Listener
  <2>2. CASE ListenControl(c, m)
    BY <2>2 DEF ListenControl
  <2>3. CASE ListenEvent(c, m)
    <3> DEFINE n == [type |-> m.type, id |-> m.id,
                     data |-> IF m.type = "ACK" THEN NoData ELSE m.data]
    <3>1. n \in Event
      BY <2>3, MessageKinds DEF TypeOK, BrokerTypeOK, NetTypeOK, ListenEvent, Event, AckMsg,
                                PublishMsg
    <3>2. queue'[c] = Push(queue[c], n)
      BY <1>0, <2>3 DEF ListenEvent
    <3>3. n.type = m.type /\ n.id = m.id /\ (m.type = "PUBLISH" => n.data = m.data)
      OBVIOUS
    <3>4. Events(Push(queue[c], n)) \subseteq Events(queue[c]) \cup {n}
      <4> HIDE DEF n
      <4> QED BY <1>0, <3>1, PushFacts
    <3> HIDE DEF n
    <3>5. e \in Events(queue[c]) \/ e = n
      BY <3>2, <3>4
    <3> QED
      BY <2>1, <3>3, <3>5
  <2> QED
    BY <2>1, <2>2, <2>3
<1>5. ASSUME \/ \E q \in QosUsed : SetQos(c, q)
             \/ \E f \in Filter : Subscribe(c, f)
             \/ PublishTooBig(c) \/ SendPublish(c) \/ PublishFails(c) \/ AckTimeout(c)
             \/ PollReceived(c) \/ SendRelease(c) \/ ReceivedTimeout(c) \/ PollComplete(c)
             \/ CompleteTimeout(c) \/ RemoveEntry(c) \/ ReceiveMessage(c)
      PROVE  queue' = queue
  BY <1>5 DEF SetQos, Subscribe, PublishTooBig, ReceiveMessage, SendPublish, PublishFails, AckTimeout,
              PollReceived, SendRelease, ReceivedTimeout, PollComplete, CompleteTimeout,
              RemoveEntry, Retry, PollAgain
<1> QED
  BY <1>1, <1>2, <1>3, <1>4, <1>5 DEF ClientCase

\* How a client step changes the table of a process: entries go, and one comes
\* from a CONTROL datagram to a client of the process.
LEMMA TableSteps ==
    ASSUME TypeOK, CallInv, NEW c \in Client, ClientCase(c),
           NEW p \in Process, NEW i \in MsgId, table'[p][i] # "NONE"
    PROVE  \/ table[p][i] # "NONE"
           \/ p = ProcessOf[c] /\ \E m \in net : m.type = "CONTROL" /\ m.peer = c /\ m.id = i
<1>0. table \in [Process -> [MsgId -> TableState]] /\ ProcessOf[c] \in Process
  BY ClientAssumption DEF TypeOK, ClientTypeOK, TableTypeOK
<1>1. CASE Close(c)
  BY <1>0, <1>1 DEF Close, EmptyTable
<1>2. ASSUME NEW q \in QosUsed, SetQos(c, q)
      PROVE  table[p][i] # "NONE"
  BY <1>0, <1>2 DEF SetQos, EmptyTable
<1>3. CASE RemoveEntry(c)
  <2>1. msg[c].id \in MsgId
    BY <1>3 DEF RemoveEntry, CallInv, Busy, PublishMsg
  <2> QED
    BY <1>0, <1>3, <2>1 DEF RemoveEntry
<1>4. CASE Listener(c)
  <2>1. PICK m \in net : m.peer = c /\ (ListenEvent(c, m) \/ ListenControl(c, m))
    BY <1>4 DEF Listener
  <2>2. CASE ListenEvent(c, m)
    BY <2>2 DEF ListenEvent
  <2>3. CASE ListenControl(c, m)
    <3>1. m.id \in MsgId /\ m.type = "CONTROL"
      BY <2>3, MessageKinds DEF TypeOK, BrokerTypeOK, NetTypeOK, ListenControl, ControlMsg
    <3>2. table' = table
          \/ \E s \in TableState : table' = [table EXCEPT ![ProcessOf[c]][m.id] = s]
      BY <2>3 DEF ListenControl, TableState
    <3>3. CASE table' = table
      BY <3>3
    <3>4. CASE table' # table
      <4>1. PICK s \in TableState : table' = [table EXCEPT ![ProcessOf[c]][m.id] = s]
        BY <3>2, <3>4
      <4>2. CASE p = ProcessOf[c] /\ i = m.id
        BY <2>1, <3>1, <4>2
      <4>3. CASE p # ProcessOf[c] \/ i # m.id
        <5>1. table'[p][i] = table[p][i]
          BY <1>0, <3>1, <4>1, <4>3
        <5> QED
          BY <5>1
      <4> QED
        BY <4>2, <4>3
    <3> QED
      BY <3>3, <3>4
  <2> QED
    BY <2>1, <2>2, <2>3
<1>5. ASSUME \/ Connect(c) \/ \E f \in Filter : Subscribe(c, f)
             \/ PublishTooBig(c) \/ NextEvent(c) \/ SendPublish(c) \/ PublishFails(c)
             \/ PollAck(c) \/ AckTimeout(c) \/ PollReceived(c) \/ SendRelease(c)
             \/ ReceivedTimeout(c) \/ PollComplete(c) \/ CompleteTimeout(c)
             \/ ReceiveMessage(c)
      PROVE  table' = table
  BY <1>5 DEF Connect, Subscribe, PublishTooBig, NextEvent, ReceiveMessage, SendPublish, PublishFails, PollAck,
              AckTimeout, PollReceived, SendRelease, ReceivedTimeout, PollComplete,
              CompleteTimeout, Retry, PollAgain
<1> QED
  BY <1>1, <1>2, <1>3, <1>4, <1>5 DEF ClientCase

\* A call reaches qos2_table_remove only by finding its entry COMPLETED.
LEMMA RemoveSteps ==
    ASSUME TypeOK, [Next]_vars, NEW b \in Client, pc'[b] = "remove"
    PROVE  /\ calls'[b] = calls[b]
           /\ \/ pc[b] = "remove"
              \/ Busy(b) /\ EntryOf(b) = "COMPLETED"
<1>0. ClientTypeOK /\ pc \in [Client -> Location]
  BY DEF TypeOK, ClientTypeOK, CallTypeOK
<1>1. Busy(b)'
  BY DEF Busy
<1>2. ~BeginPublish(b)
  BY <1>0 DEF BeginPublish, PublishCall
<1>3. calls'[b] = calls[b]
  BY <1>1, <1>2, StaysBusy
<1>4. ASSUME ClientCase(b), pc[b] # "remove"
      PROVE  Busy(b) /\ EntryOf(b) = "COMPLETED"
  <2>1. CASE PollComplete(b)
    BY <1>0, <1>4, <2>1 DEF PollComplete, PollAgain, Busy
  <2>2. ASSUME \/ Connect(b) \/ Close(b) \/ SendPublish(b) \/ PublishFails(b) \/ PollAck(b)
               \/ AckTimeout(b) \/ PollReceived(b) \/ SendRelease(b) \/ ReceivedTimeout(b)
               \/ CompleteTimeout(b) \/ RemoveEntry(b)
        PROVE  FALSE
    BY <1>0, <1>4, <2>2 DEF Connect, Close, SendPublish, PublishFails, PollAck, AckTimeout,
         PollReceived, SendRelease, ReceivedTimeout, CompleteTimeout, RemoveEntry, Return,
         GoTo, Retry, PollAgain, AfterSend
  <2>3. ASSUME \/ \E q \in QosUsed : SetQos(b, q)
               \/ \E f \in Filter : Subscribe(b, f)
               \/ PublishTooBig(b) \/ NextEvent(b) \/ ReceiveMessage(b) \/ Listener(b)
        PROVE  pc' = pc
    BY <2>3 DEF SetQos, Subscribe, PublishTooBig, NextEvent, ReceiveMessage, Listener, callVars
  <2> QED
    BY <1>4, <2>1, <2>2, <2>3 DEF ClientCase
<1>5. ASSUME NEW c \in Client, ClientCase(c), c # b
      PROVE  pc'[b] = pc[b]
  <2>1. b \in Client \ {c}
    BY <1>5
  <2> QED
    BY <1>0, <1>5, <2>1, OtherCalls
<1>6. ASSUME NEW c \in Client, BeginPublish(c), c # b
      PROVE  pc'[b] = pc[b]
  BY <1>0, <1>6 DEF BeginPublish, PublishCall
<1>7. ASSUME UNCHANGED clientVars
      PROVE  pc'[b] = pc[b]
  BY <1>7 DEF clientVars, callVars
<1>8. pc'[b] = pc[b] \/ ClientCase(b)
  BY <1>2, <1>5, <1>6, <1>7, NextCases DEF BrokerTurn, Loss, vars
<1> QED
  BY <1>3, <1>4, <1>8
\* An ACK or a CONTROL datagram names a client and an identifier.
LEMMA AnswerNames ==
    ASSUME NEW m \in Message, m.type = "ACK" \/ m.type = "CONTROL" \/ m.type = "PUBLISH"
    PROVE  m.peer \in Client /\ m.id \in MsgId
  BY MessageKinds DEF AckMsg, ControlMsg, PublishMsg

\* The broker's answer to a QoS 2 PUBLISH, the first or a repeated one: the
\* key has been forwarded.
LEMMA ForwardedNow ==
    ASSUME TypeOK, TypeOK', CallInv, NumberingInv, AudienceInv, PendingGenuine, [Next]_vars,
           UNCHANGED <<clientVars, audience>>, NEW m \in net, m.dir = Up,
           HandlePublishNew(m) \/ HandlePublishRepeated(m)
    PROVE  Forwarded(m.peer, m.id)'
<1>1. m \in Message /\ m.type = "PUBLISH"
  BY DEF TypeOK, BrokerTypeOK, NetTypeOK, HandlePublishNew, HandlePublishRepeated
<1>2. m.peer \in Client /\ m.id \in MsgId /\ <<m.peer, m.id>> \in Key
  BY <1>1, AnswerNames DEF Key
<1>3. CASE HandlePublishNew(m)
  <2>1. Handled(m.peer, m.id)'
    BY <1>1, <1>3, HandledNow DEF HandlePublishNew
  <2>2. forwards'[<<m.peer, m.id>>] >= 1
    BY <1>2, <1>3 DEF HandlePublishNew, KeyOf, TypeOK, BrokerTypeOK
  <2> QED
    BY <2>1, <2>2 DEF Forwarded
<1>4. CASE HandlePublishRepeated(m)
  <2>1. Forwarded(m.peer, m.id)
    BY <1>2, <1>4 DEF HandlePublishRepeated, KeyOf, PendingGenuine
  <2> QED
    BY <1>2, <2>1, EvidenceLasts
<1> QED
  BY <1>3, <1>4

LEMMA AcksStep ==
    ASSUME TypeOK, TypeOK', CallInv, NumberingInv, AudienceInv, AcksGenuine, [Next]_vars
    PROVE  AcksGenuine'
<1> SUFFICES ASSUME NEW x \in net', x.type = "ACK"
             PROVE  Handled(x.peer, x.id)'
  BY DEF AcksGenuine
<1>1. CASE x \in net
  <2>1. x.peer \in Client /\ x.id \in MsgId /\ Handled(x.peer, x.id)
    BY <1>1, AnswerNames DEF TypeOK, BrokerTypeOK, NetTypeOK, AcksGenuine
  <2> QED
    BY <2>1, EvidenceLasts
<1>2. CASE x \notin net /\ BrokerTurn
  <2>1. BrokerStep /\ UNCHANGED <<clientVars, audience>>
    BY <1>2 DEF BrokerTurn
  <2>2. PICK m \in net : m.dir = Up /\ x = Ack(Down, m.peer, m.id) /\ HandlePublishQos1(m)
    BY <1>2, <2>1, SentByBroker DEF Control
  <2>3. Handled(m.peer, m.id)'
    BY <2>1, <2>2, HandledNow DEF HandlePublishQos1
  <2> QED
    BY <2>2, <2>3 DEF Ack
<1>3. ASSUME NEW c \in Client, ClientCase(c)
      PROVE  x \in net
  BY <1>3, SentByClient DEF Control
<1>4. ASSUME NEW c \in Client, BeginPublish(c)
      PROVE  x \in net
  BY <1>4 DEF BeginPublish, PublishCall
<1>5. ASSUME Loss \/ UNCHANGED vars
      PROVE  x \in net
  BY <1>5 DEF Loss, Lose, vars
<1> QED
  BY <1>1, <1>2, <1>3, <1>4, <1>5, NextCases

LEMMA ControlsStep ==
    ASSUME TypeOK, TypeOK', CallInv, NumberingInv, AudienceInv, ControlsGenuine, TableGenuine,
           PendingGenuine, [Next]_vars
    PROVE  ControlsGenuine'
<1> SUFFICES ASSUME NEW x \in net', x.type = "CONTROL"
             PROVE  Forwarded(x.peer, x.id)'
  BY DEF ControlsGenuine
<1>1. CASE x \in net
  <2>1. x.peer \in Client /\ x.id \in MsgId /\ Forwarded(x.peer, x.id)
    BY <1>1, AnswerNames DEF TypeOK, BrokerTypeOK, NetTypeOK, ControlsGenuine
  <2> QED
    BY <2>1, EvidenceLasts
<1>2. CASE x \notin net /\ BrokerTurn
  <2>1. BrokerStep /\ UNCHANGED <<clientVars, audience>>
    BY <1>2 DEF BrokerTurn
  <2>2. PICK m \in net :
          /\ m.dir = Up /\ x.peer = m.peer /\ x.id = m.id
          /\ \/ HandlePublishNew(m) \/ HandlePublishRepeated(m)
             \/ HandleControlRelease(m)
    BY <1>2, <2>1, SentByBroker DEF Control, Ack
  <2>3. CASE HandlePublishNew(m) \/ HandlePublishRepeated(m)
    <3>1. Forwarded(m.peer, m.id)'
      BY <2>1, <2>2, <2>3, ForwardedNow
    <3> QED
      BY <2>2, <3>1
  <2>4. CASE HandleControlRelease(m)
    <3>1. m.type = "CONTROL" /\ m \in Message
      BY <2>4 DEF HandleControlRelease, TypeOK, BrokerTypeOK, NetTypeOK
    <3>2. m.peer \in Client /\ m.id \in MsgId /\ Forwarded(m.peer, m.id)
      BY <3>1, AnswerNames DEF ControlsGenuine
    <3>3. Forwarded(m.peer, m.id)'
      BY <3>2, EvidenceLasts
    <3> QED
      BY <2>2, <3>3
  <2> QED
    BY <2>2, <2>3, <2>4
<1>3. ASSUME NEW c \in Client, ClientCase(c), x \notin net
      PROVE  Forwarded(x.peer, x.id)'
  <2>1. x = Control(Up, c, "RELEASE", msg[c].id) /\ SendRelease(c)
    BY <1>3, SentByClient
  <2>2. x.peer = c /\ x.id = msg[c].id
    BY <2>1 DEF Control
  <2>3. x.id \in MsgId
    BY AnswerNames DEF TypeOK, BrokerTypeOK, NetTypeOK
  <2>4. table[ProcessOf[c]][x.id] = "WAIT_COMPLETE"
    BY <2>1, <2>2 DEF SendRelease, EntryOf
  <2>5. Forwarded(c, x.id)
    BY <2>3, <2>4 DEF TableGenuine
  <2>6. Forwarded(c, x.id)'
    BY <2>3, <2>5, EvidenceLasts
  <2> QED
    BY <2>2, <2>6
<1>4. ASSUME NEW c \in Client, BeginPublish(c)
      PROVE  x \in net
  BY <1>4 DEF BeginPublish, PublishCall
<1>5. ASSUME Loss \/ UNCHANGED vars
      PROVE  x \in net
  BY <1>5 DEF Loss, Lose, vars
<1> QED
  BY <1>1, <1>2, <1>3, <1>4, <1>5, NextCases
LEMMA QueueStep ==
    ASSUME TypeOK, TypeOK', CallInv, AcksGenuine, QueueGenuine, [Next]_vars
    PROVE  QueueGenuine'
<1> SUFFICES ASSUME NEW b \in Client, NEW e \in Events(queue'[b]), e.type = "ACK"
             PROVE  Handled(b, e.id)'
  BY DEF QueueGenuine, Events
<1>0. ClientTypeOK
  BY DEF TypeOK
<1>1. e.id \in MsgId
  <2>1. queue'[b] \in Seq(Event)
    BY DEF TypeOK, ClientTypeOK, QueueTypeOK
  <2>2. e \in Event
    BY <2>1, EventsType
  <2> QED
    BY <2>2 DEF Event
<1>2. ASSUME e \in Events(queue[b])
      PROVE  Handled(b, e.id)'
  <2>1. Handled(b, e.id)
    BY <1>2 DEF QueueGenuine
  <2> QED
    BY <1>1, <2>1, EvidenceLasts
<1>3. ASSUME NEW c \in Client, ClientCase(c)
      PROVE  Handled(b, e.id)'
  <2>1. CASE b # c
    <3>1. b \in Client \ {c}
      BY <2>1
    <3>2. queue'[b] = queue[b]
      BY <1>0, <1>3, <3>1, OtherCalls
    <3> QED
      BY <1>2, <3>2
  <2>2. CASE b = c
    <3>1. ASSUME NEW m \in net, m.type = "ACK", m.peer = c, m.id = e.id
          PROVE  Handled(b, e.id)'
      <4>1. Handled(b, e.id)
        BY <2>2, <3>1 DEF AcksGenuine
      <4> QED
        BY <1>1, <4>1, EvidenceLasts
    <3>2. \/ e \in Events(queue[c])
          \/ \E m \in net : m.type = "ACK" /\ m.peer = c /\ m.id = e.id
      BY <1>3, <2>2, QueueSteps
    <3> QED
      BY <1>2, <2>2, <3>1, <3>2
  <2> QED
    BY <2>1, <2>2
<1>4. ASSUME queue' = queue
      PROVE  Handled(b, e.id)'
  BY <1>2, <1>4
<1>5. ASSUME NEW c \in Client, BeginPublish(c)
      PROVE  queue' = queue
  BY <1>5 DEF BeginPublish, PublishCall
<1>6. ASSUME BrokerTurn \/ Loss \/ UNCHANGED vars
      PROVE  queue' = queue
  BY <1>6 DEF BrokerTurn, Loss, vars, clientVars
<1> QED
  BY <1>3, <1>4, <1>5, <1>6, NextCases

\* Here a process must have one client: the listener of another client of the
\* process would write the entry of this one.
LEMMA TableStep ==
    ASSUME UniqueIds, TypeOK, TypeOK', CallInv, ControlsGenuine, TableGenuine, [Next]_vars
    PROVE  TableGenuine'
<1> SUFFICES ASSUME NEW b \in Client, NEW i \in MsgId, table'[ProcessOf[b]][i] # "NONE"
             PROVE  Forwarded(b, i)'
  BY DEF TableGenuine
<1>1. SUFFICES Forwarded(b, i)
  BY EvidenceLasts
<1>2. ASSUME table[ProcessOf[b]][i] # "NONE"
      PROVE  Forwarded(b, i)
  BY <1>2 DEF TableGenuine
<1>3. ASSUME NEW c \in Client, ClientCase(c)
      PROVE  Forwarded(b, i)
  <2>1. ProcessOf[b] \in Process
    BY ClientAssumption
  <2>2. \/ table[ProcessOf[b]][i] # "NONE"
        \/ /\ ProcessOf[b] = ProcessOf[c]
           /\ \E m \in net : m.type = "CONTROL" /\ m.peer = c /\ m.id = i
    BY <1>3, <2>1, TableSteps
  <2>3. ProcessOf[b] = ProcessOf[c] => b = c
    BY DEF UniqueIds
  <2> QED
    BY <1>2, <2>2, <2>3 DEF ControlsGenuine
<1>4. ASSUME NEW c \in Client, BeginPublish(c)
      PROVE  table' = table
  BY <1>4 DEF BeginPublish, PublishCall
<1>5. ASSUME BrokerTurn \/ Loss \/ UNCHANGED vars
      PROVE  table' = table
  BY <1>5 DEF BrokerTurn, Loss, vars, clientVars
<1> QED
  BY <1>2, <1>3, <1>4, <1>5, NextCases

LEMMA PendingStep ==
    ASSUME TypeOK, TypeOK', CallInv, NumberingInv, AudienceInv, ControlsGenuine, PendingGenuine,
           [Next]_vars
    PROVE  PendingGenuine'
<1> SUFFICES ASSUME NEW b \in Client, NEW i \in MsgId, pending'[<<b, i>>] # NONE
             PROVE  Forwarded(b, i)'
  BY DEF PendingGenuine
<1>0. <<b, i>> \in Key
  BY DEF Key
<1>1. ASSUME pending[<<b, i>>] # NONE
      PROVE  Forwarded(b, i)'
  <2>1. Forwarded(b, i)
    BY <1>1 DEF PendingGenuine
  <2> QED
    BY <2>1, EvidenceLasts
<1>2. CASE BrokerTurn
  <2>1. BrokerStep /\ UNCHANGED <<clientVars, audience>>
    BY <1>2 DEF BrokerTurn
  <2>2. PICK m \in net : m.dir = Up /\ (\/ HandlePublishNew(m)
                                        \/ HandleControlRelease(m)
                                        \/ HandleControlReceived(m)
                                        \/ pending' = pending)
    BY <2>1 DEF BrokerStep, HandleSubscribe, HandlePublishQos0, HandlePublishQos1,
                HandlePublishRepeated, HandlePublishCompleted, HandleUnknown, brokerVars
  <2>3. CASE pending' = pending
    BY <1>1, <2>3
  <2>4. CASE HandleControlReceived(m)
    <3>1. pending[<<b, i>>] # NONE
      BY <1>0, <2>4 DEF HandleControlReceived, TypeOK, BrokerTypeOK, NONE
    <3> QED
      BY <1>1, <3>1
  <2>5. CASE HandlePublishNew(m)
    <3>1. CASE KeyOf(m) = <<b, i>>
      <4>1. Forwarded(m.peer, m.id)'
        BY <2>1, <2>2, <2>5, ForwardedNow
      <4>2. m.peer = b /\ m.id = i
        BY <3>1 DEF KeyOf
      <4> QED
        BY <4>1, <4>2
    <3>2. CASE KeyOf(m) # <<b, i>>
      <4>1. pending'[<<b, i>>] = pending[<<b, i>>]
        BY <1>0, <2>5, <3>2 DEF HandlePublishNew, TypeOK, BrokerTypeOK
      <4> QED
        BY <1>1, <4>1
    <3> QED
      BY <3>1, <3>2
  <2>6. CASE HandleControlRelease(m)
    <3>1. CASE KeyOf(m) = <<b, i>>
      <4>1. Forwarded(m.peer, m.id)
        BY <2>6 DEF HandleControlRelease, ControlsGenuine
      <4>2. m.peer = b /\ m.id = i
        BY <3>1 DEF KeyOf
      <4> QED
        BY <4>1, <4>2, EvidenceLasts
    <3>2. CASE KeyOf(m) # <<b, i>>
      <4>1. pending'[<<b, i>>] = pending[<<b, i>>]
        BY <1>0, <2>6, <3>2 DEF HandleControlRelease, TypeOK, BrokerTypeOK
      <4> QED
        BY <1>1, <4>1
    <3> QED
      BY <3>1, <3>2
  <2> QED
    BY <2>2, <2>3, <2>4, <2>5, <2>6
<1>3. ASSUME UNCHANGED brokerVars
      PROVE  pending' = pending
  BY <1>3 DEF brokerVars
<1> QED
  BY <1>1, <1>2, <1>3, NextCases DEF BeginPublish, Loss, vars

LEMMA RemoveStep ==
    ASSUME TypeOK, TypeOK', CallInv, NumberingInv, TableGenuine, RemoveGenuine, [Next]_vars
    PROVE  RemoveGenuine'
<1> SUFFICES ASSUME NEW b \in Client, pc'[b] = "remove"
             PROVE  Forwarded(b, calls[b])'
  BY DEF RemoveGenuine, Forwarded, Handled
<1>1. PICK i : i = calls[b]
  OBVIOUS
<1>2. calls'[b] = i
  BY <1>1, RemoveSteps
<1>3. Forwarded(b, i) /\ i \in MsgId
  <2>1. CASE pc[b] = "remove"
    <3>1. msg[b].id = i /\ msg[b].id \in MsgId
      BY <1>1, <2>1 DEF NumberingInv, ThisCallInv, CallInv, Busy, PublishMsg
    <3> QED
      BY <1>1, <2>1, <3>1 DEF RemoveGenuine
  <2>2. CASE Busy(b) /\ EntryOf(b) = "COMPLETED"
    <3>1. msg[b].id = i /\ msg[b].id \in MsgId
      BY <1>1, <2>2 DEF NumberingInv, ThisCallInv, CallInv, PublishMsg
    <3> QED
      BY <2>2, <3>1 DEF TableGenuine, EntryOf
  <2> QED
    BY <2>1, <2>2, RemoveSteps
<1>4. Forwarded(b, i)'
  BY <1>3, EvidenceLasts
<1> QED
  BY <1>2, <1>4 DEF Forwarded, Handled

\* All the evidence together.
LEMMA AnswersStep ==
    ASSUME UniqueIds, TypeOK, TypeOK', CallInv, NumberingInv, AudienceInv, AnswersAreGenuine,
           [Next]_vars
    PROVE  AnswersAreGenuine'
  BY AcksStep, ControlsStep, QueueStep, TableStep, PendingStep, RemoveStep
     DEF AnswersAreGenuine
LEMMA SuccessStep ==
    ASSUME TypeOK, TypeOK', CallInv, NumberingInv, QueueGenuine, RemoveGenuine,
           SuccessForwarded, [Next]_vars
    PROVE  SuccessForwarded'
<1> SUFFICES ASSUME NEW d \in Data, result'[d] = "ok"
             PROVE  audience'[d] \subseteq given'[d]
  BY DEF SuccessForwarded
<1>1. given[d] \subseteq given'[d]
  BY HistoryGrows
<1>2. ASSUME result[d] = "ok", audience'[d] = audience[d]
      PROVE  audience'[d] \subseteq given'[d]
  BY <1>1, <1>2 DEF SuccessForwarded
<1>3. ASSUME NEW c \in Client, ClientCase(c), UNCHANGED <<brokerVars, audience>>
      PROVE  audience'[d] \subseteq given'[d]
  <2>1. ASSUME d = ThisCall(c), Handled(c, calls[c])
        PROVE  audience'[d] \subseteq given'[d]
    BY <1>1, <1>3, <2>1 DEF Handled, ThisCall
  <2>2. ASSUME Busy(c), PollAck(c), AckPositions(queue[c], msg[c].id) # {}
        PROVE  Handled(c, calls[c])
    <3>1. PICK k \in 1 .. Len(queue[c]) : queue[c][k].type = "ACK" /\ queue[c][k].id = msg[c].id
      BY <2>2 DEF AckPositions
    <3>2. queue[c][k] \in Events(queue[c])
      BY <3>1 DEF Events
    <3>3. msg[c].id = calls[c]
      BY <2>2 DEF NumberingInv, ThisCallInv
    <3> QED
      BY <3>1, <3>2, <3>3 DEF QueueGenuine
  <2>3. ASSUME RemoveEntry(c)
        PROVE  Handled(c, calls[c])
    BY <2>3 DEF RemoveEntry, RemoveGenuine, Forwarded
  <2> QED
    BY <1>2, <1>3, <2>1, <2>2, <2>3, ResultSteps
<1>4. ASSUME NEW c \in Client, BeginPublish(c)
      PROVE  audience'[d] \subseteq given'[d]
  <2>1. result' = result
    BY <1>4 DEF BeginPublish, PublishCall
  <2>2. d # <<c, calls[c] + 1>>
    BY <2>1 DEF NumberingInv, ResultInv, TypeOK, ClientTypeOK, SessionTypeOK
  <2>3. audience'[d] = audience[d]
    BY <1>4, <2>2 DEF BeginPublish, TypeOK
  <2> QED
    BY <1>2, <2>1, <2>3
<1>5. ASSUME UNCHANGED <<clientVars, audience>>
      PROVE  audience'[d] \subseteq given'[d]
  BY <1>2, <1>5 DEF clientVars
<1> QED
  BY <1>3, <1>4, <1>5, NextCases DEF BrokerTurn, Loss, vars

LEMMA SafetyInit == Init => SafetyInv
<1> SUFFICES ASSUME Init PROVE SafetyInv
  OBVIOUS
<1> USE NetworkAssumption, ClientAssumption
        DEF Init, BrokerInit, NetInit, ClientInit
<1>1. NumberingInv
  BY DEF NumberingInv, UnconnectedInv, NextIdInv, ThisCallInv, PublishInv, ResultInv, Busy
<1>2. AudienceInv
  BY DEF AudienceInv, Busy
<1>3. AnswersAreGenuine
  <2>1. AcksGenuine /\ ControlsGenuine /\ RemoveGenuine
    BY DEF AcksGenuine, ControlsGenuine, RemoveGenuine
  <2>2. QueueGenuine
    BY DEF QueueGenuine, Events
  <2>3. TableGenuine /\ PendingGenuine
    BY DEF TableGenuine, EmptyTable, PendingGenuine, Key
  <2> QED
    BY <2>1, <2>2, <2>3 DEF AnswersAreGenuine
<1>4. SuccessForwarded
  BY DEF SuccessForwarded
<1> QED
  BY <1>1, <1>2, <1>3, <1>4 DEF SafetyInv

LEMMA SafetyStep ==
    ASSUME UniqueIds, TypeOK, TypeOK', CallInv, SafetyInv, [Next]_vars
    PROVE  SafetyInv'
  BY NumberingStep, AudienceStep, AnswersStep, SuccessStep DEF SafetyInv, AnswersAreGenuine

LEMMA SafetyInvariant ==
    ASSUME UniqueIds
    PROVE  Spec => []SafetyInv
<1>1. SafetyInv /\ (TypeOK /\ CallInv) /\ (TypeOK /\ CallInv)' /\ [Next]_vars => SafetyInv'
  BY SafetyStep
<1> QED
  BY <1>1, SafetyInit, TypeInvariant, PTL DEF Spec

\* Every ACK, every CONTROL datagram and every table entry is evidence of the
\* message it names, while no identifier names two messages.
THEOREM AnswersAreGenuineHolds ==
    ASSUME UniqueIds
    PROVE  Spec => []AnswersAreGenuine
<1>1. SafetyInv => AnswersAreGenuine
  BY DEF SafetyInv
<1> QED
  BY <1>1, SafetyInvariant, PTL

\* slimmq_publish with QoS 1 or 2 reports success only for a message that the
\* broker has sent to the whole audience of the call, whatever the network
\* loses, delays, reorders or repeats.
THEOREM SuccessForwardedHolds ==
    ASSUME UniqueIds
    PROVE  Spec => []SuccessForwarded
<1>1. SafetyInv => SuccessForwarded
  BY DEF SafetyInv
<1> QED
  BY <1>1, SafetyInvariant, PTL

\* The QoS 2 message of a completed handshake has been forwarded exactly once.
THEOREM CompletedWasForwardedHolds ==
    ASSUME UniqueIds
    PROVE  Spec => []CompletedWasForwarded
<1>1. TypeOK /\ SafetyInv /\ ForwardAtMostOnce => CompletedWasForwarded
  <2> SUFFICES ASSUME TypeOK, SafetyInv, ForwardAtMostOnce,
                      NEW k \in Key, pending[k] = "COMPLETED"
               PROVE  forwards[k] = 1
    BY DEF CompletedWasForwarded
  <2>1. PICK c \in Client, i \in MsgId : k = <<c, i>>
    BY DEF Key
  <2>2. forwards[k] >= 1
    BY <2>1 DEF SafetyInv, AnswersAreGenuine, PendingGenuine, Forwarded, NONE
  <2>3. forwards[k] <= 1 /\ forwards[k] \in Nat
    BY DEF ForwardAtMostOnce, TypeOK, BrokerTypeOK
  <2> QED
    BY <2>2, <2>3
<1> QED
  BY <1>1, TypeCorrect, SafetyInvariant, ImplementsBroker, ForwardAtMostOnceHolds, PTL

-----------------------------------------------------------------------------
(* The broker of the loss tests. *)

\* A PUBLISH that the lossy broker drops might have been lost on its way; if the
\* network will deliver it again, nothing has happened.
LEMMA DropIsLoss == LossyTurn => [Loss]_vars
<1> SUFFICES ASSUME LossyTurn PROVE [Loss]_vars
  OBVIOUS
<1>1. PICK m \in net : DropPublish(m)
  BY DEF LossyTurn
<1>2. UNCHANGED <<brokerVars, clientVars, audience>>
  BY <1>1 DEF LossyTurn, DropPublish
<1>3. CASE net' = net \ {m}
  BY <1>2, <1>3 DEF Loss, Lose
<1>4. CASE net' = net
  BY <1>2, <1>4 DEF vars
<1> QED
  BY <1>1, <1>3, <1>4 DEF DropPublish, Receive

LEMMA LossyIsSpec == LossySpec => Spec
<1>1. [Next \/ LossyTurn]_vars => [Next]_vars
  BY DropIsLoss DEF Next
<1> QED
  BY <1>1, PTL DEF LossySpec, Spec

\* With the broker of the loss tests, too, slimmq_publish reports success only
\* for a message that was forwarded: what handle_publish of test/lossy_broker.c
\* drops it has not acknowledged.
THEOREM LossySuccessForwarded ==
    ASSUME UniqueIds
    PROVE  LossySpec => []SuccessForwarded
  BY LossyIsSpec, SuccessForwardedHolds, PTL
=============================================================================
