---------------------------- MODULE TimelyProofs ----------------------------
(***************************************************************************)
(* What the client library promises on a network that repeats no datagram. *)
(* A message of QoS 2 reaches an application once, and slimmq_publish does *)
(* not fail when the network answers in time and loses no more datagrams   *)
(* of a call than there are retries.                                       *)
(***************************************************************************)
EXTENDS Timely, SlimMQProofs

-----------------------------------------------------------------------------
(* Where a payload is. *)

\* A datagram that carries payload d to client s.
IsCopy(m, s, d) == m.type = "PUBLISH" /\ m.dir = Down /\ m.peer = s /\ m.data = d

\* The position of an event with payload d in a queue.
InQueue(q, d) == \E i \in 1 .. Len(q) : q[i].data = d
OnceInQueue(q, d) ==
    \A i, j \in 1 .. Len(q) : q[i].data = d /\ q[j].data = d => i = j

\* The payload d has been sent to s.
Placed(s, d) ==
    \/ d \in got[s]
    \/ InQueue(queue[s], d)
    \/ \E m \in net : IsCopy(m, s, d)

\* The payload d is at one place on its way to the application of s.
Once(s, d) ==
    /\ OnceInQueue(queue[s], d)
    /\ ~(d \in got[s] /\ InQueue(queue[s], d))
    /\ \A m \in net : IsCopy(m, s, d) => d \notin got[s] /\ ~InQueue(queue[s], d)
    /\ \A m, n \in net : IsCopy(m, s, d) /\ IsCopy(n, s, d) => m = n

\* A message that carries d, in transit or about to be sent, has QoS q.
Level(d, q) ==
    \/ \E m \in net : m.type = "PUBLISH" /\ m.data = d /\ m.qos = q
    \/ \E c \in Client : Busy(c) /\ msg[c].data = d /\ msg[c].qos = q

\* A call that has been made.
Made(d) == d[2] <= calls[d[1]]

\* All messages of a call have one level.  The ones of QoS 2 are counted in
\* forwards, so a payload that is placed is either not of QoS 2, and then may
\* be placed again, or counted, and then is placed once.
LevelInv ==
    \A d \in Data : \A q \in Qos :
        Level(d, q) =>
            /\ Made(d)
            /\ \A r \in Qos : Level(d, r) => q = r
ForwardInv ==
    \A d \in Data :
        forwards[d] > 0 =>
            /\ Made(d)
            /\ \A q \in Qos : Level(d, q) => q = 2
PlacedInv ==
    \A d \in Data : \A s \in Client :
        Placed(s, d) =>
            /\ Made(d)
            /\ forwards[d] = 0 => ~Level(d, 2)
OnceInv ==
    \A d \in Data : \A s \in Client : forwards[d] > 0 => Once(s, d)
EventInv ==
    \A c \in Client : \A e \in Events(queue[c]) : e.type = "PUBLISH" => e.data \in Data

HandInv ==
    /\ LevelInv
    /\ ForwardInv
    /\ PlacedInv
    /\ OnceInv
    /\ EventInv

-----------------------------------------------------------------------------
(* The operations of the event queue. *)

\* The payload of an acknowledgement is none.
LEMMA NoDataIsNone == NoData \notin Data
<1>1. \A d \in Data : DOMAIN d = 1 .. 2
  BY DEF Data
<1>2. DOMAIN NoData = {}
  BY DEF NoData
<1>3. 1 \in 1 .. 2
  OBVIOUS
<1> QED
  BY <1>1, <1>2, <1>3

LEMMA EmptyOnce ==
    ASSUME NEW d
    PROVE  ~InQueue(<<>>, d) /\ OnceInQueue(<<>>, d)
  BY DEF InQueue, OnceInQueue

LEMMA PushOnce ==
    ASSUME NEW E, NEW q \in Seq(E), NEW e \in E, NEW d
    PROVE  /\ InQueue(Push(q, e), d) => InQueue(q, d) \/ e.data = d
           /\ (OnceInQueue(q, d) /\ e.data # d) => OnceInQueue(Push(q, e), d)
           /\ ~InQueue(q, d) => OnceInQueue(Push(q, e), d)
<1>1. CASE Len(q) >= QueueCap
  BY <1>1 DEF Push, InQueue, OnceInQueue
<1>2. CASE ~(Len(q) >= QueueCap)
  <2>1. PICK p : p = Append(q, e)
    OBVIOUS
  <2>2. Push(q, e) = p
    BY <1>2, <2>1 DEF Push
  <2>3. /\ Len(p) = Len(q) + 1
        /\ \A i \in 1 .. Len(q) : p[i] = q[i]
        /\ p[Len(q) + 1] = e
    BY <2>1, AppendProperties
  <2>4. Len(q) \in Nat
    OBVIOUS
  <2>5. \A i \in 1 .. Len(p) : i \in 1 .. Len(q) \/ i = Len(q) + 1
    BY <2>3, <2>4
  <2> QED
    BY <2>2, <2>3, <2>5 DEF InQueue, OnceInQueue
<1> QED
  BY <1>1, <1>2

LEMMA TailOnce ==
    ASSUME NEW E, NEW q \in Seq(E), q # <<>>, NEW d
    PROVE  /\ Head(q).data = d => InQueue(q, d)
           /\ InQueue(Tail(q), d) => InQueue(q, d)
           /\ OnceInQueue(q, d) => OnceInQueue(Tail(q), d)
           /\ (OnceInQueue(q, d) /\ Head(q).data = d) => ~InQueue(Tail(q), d)
<1>1. PICK t : t = Tail(q)
  OBVIOUS
<1>2. /\ Len(q) \in Nat /\ Len(q) >= 1
      /\ Len(t) = Len(q) - 1
      /\ \A i \in 1 .. Len(t) : t[i] = q[i + 1]
  BY <1>1, HeadTailProperties, EmptySeq
<1>3. Head(q) = q[1]
  OBVIOUS
<1>4. \A i \in 1 .. Len(t) : i + 1 \in 1 .. Len(q) /\ i + 1 # 1
  BY <1>2
<1>5. 1 \in 1 .. Len(q)
  BY <1>2
<1>6. InQueue(t, d) => InQueue(q, d)
  BY <1>2, <1>4 DEF InQueue
<1>7. OnceInQueue(q, d) => OnceInQueue(t, d)
  <2> SUFFICES ASSUME OnceInQueue(q, d), NEW i \in 1 .. Len(t), NEW j \in 1 .. Len(t),
                      t[i].data = d, t[j].data = d
               PROVE  i = j
    BY DEF OnceInQueue
  <2>1. q[i + 1].data = d /\ q[j + 1].data = d
    BY <1>2
  <2>2. i + 1 = j + 1
    BY <1>4, <2>1 DEF OnceInQueue
  <2> QED
    BY <1>2, <2>2
<1>8. (OnceInQueue(q, d) /\ q[1].data = d) => ~InQueue(t, d)
  BY <1>2, <1>4, <1>5 DEF OnceInQueue, InQueue
<1> QED
  BY <1>1, <1>3, <1>5, <1>6, <1>7, <1>8 DEF InQueue

LEMMA TakeAckOnce ==
    ASSUME NEW E, NEW q \in Seq(E), NEW i, AckPositions(q, i) # {}, NEW d
    PROVE  /\ InQueue(TakeAck(q, i), d) => InQueue(q, d)
           /\ OnceInQueue(q, d) => OnceInQueue(TakeAck(q, i), d)
<1>1. AckPositions(q, i) \in SUBSET Nat
  BY DEF AckPositions
<1>2. \E k \in AckPositions(q, i) : \A j \in AckPositions(q, i) : k <= j
  BY <1>1, LeastElement
<1>3. PICK k \in 1 .. Len(q) : TakeAck(q, i) = Without(q, k)
  BY <1>2 DEF TakeAck, AckPositions
<1>4. PICK w : w = Without(q, k)
  OBVIOUS
<1>5. Len(w) = Len(q) - 1 /\ Len(q) \in Nat
  BY <1>4, WithoutFacts
<1>6. \A j \in 1 .. Len(w) : w[j] = IF j < k THEN q[j] ELSE q[j + 1]
  BY <1>4, <1>5 DEF Without
<1> DEFINE at(j) == IF j < k THEN j ELSE j + 1
<1>7. \A j \in 1 .. Len(w) : at(j) \in 1 .. Len(q) /\ w[j] = q[at(j)]
  BY <1>5, <1>6
<1>8. \A j, l \in 1 .. Len(w) : at(j) = at(l) => j = l
  BY <1>5
<1> HIDE DEF at
<1>9. InQueue(w, d) => InQueue(q, d)
  BY <1>7 DEF InQueue
<1>10. OnceInQueue(q, d) => OnceInQueue(w, d)
  BY <1>7, <1>8 DEF OnceInQueue
<1> QED
  BY <1>3, <1>4, <1>9, <1>10

-----------------------------------------------------------------------------
(* What the steps do to a payload. *)

\* A handler that passes m on.
Forwards(m) ==
    /\ m \in net /\ m.dir = Up /\ m.type = "PUBLISH"
    /\ \/ HandlePublishQos0(m)
       \/ HandlePublishQos1(m)
       \/ HandlePublishNew(m)

LEMMA CopyFields ==
    ASSUME TypeOK, NEW m \in net, m.type = "PUBLISH", NEW x \in Copies(m)
    PROVE  /\ x.type = "PUBLISH" /\ x.dir = Down /\ x.qos = m.qos /\ x.data = m.data
           /\ x = [m EXCEPT !.dir = Down, !.peer = x.peer]
<1>1. m \in PublishMsg
  BY DEF TypeOK, BrokerTypeOK, NetTypeOK, Message, SubscribeMsg, AckMsg, ControlMsg
<1>2. PICK c \in Client : x = [m EXCEPT !.dir = Down, !.peer = c]
  BY DEF Copies, MatchingSubscribers
<1> QED
  BY <1>1, <1>2 DEF PublishMsg

\* Only the broker sends copies, when it passes a message on.
LEMMA CopySteps ==
    ASSUME TypeOK, CallInv, [Next]_vars, NEW x \in net', x \notin net,
           x.type = "PUBLISH", x.dir = Down
    PROVE  \E m \in net : BrokerTurn /\ Forwards(m) /\ x \in Copies(m)
<1>1. ASSUME NEW c \in Client, ClientCase(c)
      PROVE  FALSE
  BY <1>1, SentByClient DEF Control, CallInv, Up, Down
<1>2. ASSUME NEW c \in Client, BeginPublish(c)
      PROVE  FALSE
  BY <1>2 DEF BeginPublish, PublishCall
<1>3. ASSUME Loss \/ UNCHANGED vars
      PROVE  FALSE
  BY <1>3 DEF Loss, Lose, vars
<1>4. BrokerTurn
  BY <1>1, <1>2, <1>3, NextCases
<1>5. PICK m \in net :
        /\ m.dir = Up
        /\ \/ HandleSubscribe(m)
           \/ HandlePublishQos0(m)
           \/ HandlePublishQos1(m)
           \/ HandlePublishNew(m)
           \/ HandlePublishRepeated(m)
           \/ HandlePublishCompleted(m)
           \/ HandleControlRelease(m)
           \/ HandleControlReceived(m)
           \/ HandleUnknown(m)
  BY <1>4 DEF BrokerTurn, BrokerStep
<1>6. CASE Forwards(m)
  <2>1. x \in Copies(m) \cup {Ack(Down, m.peer, m.id), Control(Down, m.peer, "RECEIVED", m.id)}
    BY <1>6 DEF Forwards, HandlePublishQos0, HandlePublishQos1, HandlePublishNew, Receive
  <2>2. x \in Copies(m)
    BY <2>1 DEF Ack, Control
  <2> QED
    BY <1>4, <1>6, <2>2
<1>7. CASE ~Forwards(m)
  <2>1. x \in {Control(Down, m.peer, "RECEIVED", m.id), Control(Down, m.peer, "COMPLETE", m.id)}
    BY <1>5, <1>7 DEF Forwards, HandleSubscribe, HandlePublishRepeated, HandlePublishCompleted,
       HandleControlRelease, HandleControlReceived, HandleUnknown, HandlePublishQos0,
       HandlePublishQos1, HandlePublishNew, Receive
  <2> QED
    BY <2>1 DEF Control
<1> QED
  BY <1>6, <1>7

\* The level of a payload is chosen when its call begins.
LEMMA LevelSteps ==
    ASSUME TypeOK, CallInv, [Next]_vars, NEW d \in Data, NEW q \in Qos, Level(d, q)'
    PROVE  \/ Level(d, q)
           \/ \E c \in Client : BeginPublish(c) /\ d = <<c, calls[c] + 1>> /\ q = qos[c]
<1>1. ASSUME NEW x \in net', x.type = "PUBLISH", x.data = d, x.qos = q
      PROVE  Level(d, q)
  <2>1. CASE x \in net
    BY <1>1, <2>1 DEF Level
  <2>2. CASE x \notin net /\ x.dir = Up
    BY <1>1, <2>2, PublishInTransit DEF Level
  <2>3. CASE x \notin net /\ x.dir = Down
    <3>1. PICK m \in net : Forwards(m) /\ x \in Copies(m)
      BY <1>1, <2>3, CopySteps
    <3>2. m.type = "PUBLISH" /\ m.data = d /\ m.qos = q
      BY <1>1, <3>1, CopyFields DEF Forwards
    <3> QED
      BY <3>2 DEF Level
  <2>4. x.dir \in {Up, Down}
    <3>1. TypeOK'
      BY TypeStep
    <3> QED
      BY <1>1, <3>1 DEF TypeOK, BrokerTypeOK, NetTypeOK, Message, PublishMsg, SubscribeMsg,
         AckMsg, ControlMsg
  <2> QED
    BY <2>1, <2>2, <2>3, <2>4
<1>2. ASSUME NEW c \in Client, Busy(c)', msg'[c].data = d, msg'[c].qos = q
      PROVE  \/ Level(d, q)
             \/ BeginPublish(c) /\ d = <<c, calls[c] + 1>> /\ q = qos[c]
  <2>1. CASE Busy(c) /\ msg'[c] = msg[c]
    BY <1>2, <2>1 DEF Level
  <2>2. CASE BeginPublish(c)
    <3>1. PICK t \in Topic : PublishCall(c, t)
      BY <2>2 DEF BeginPublish
    <3>2. msg'[c].data = <<c, calls[c] + 1>> /\ msg'[c].qos = qos[c]
      BY <3>1 DEF PublishCall, TypeOK, ClientTypeOK, CallTypeOK
    <3> QED
      BY <1>2, <2>2, <3>2
  <2> QED
    BY <1>2, <2>1, <2>2, StaysBusy
<1> QED
  BY <1>1, <1>2 DEF Level

\* A client passes a payload on: from the network to its queue, or from its
\* queue or the network to its application.
Kept(s, d) ==
    /\ d \in got'[s] <=> d \in got[s]
    /\ InQueue(queue'[s], d) => InQueue(queue[s], d)
    /\ OnceInQueue(queue[s], d) => OnceInQueue(queue'[s], d)
Popped(s, d) ==
    /\ InQueue(queue[s], d)
    /\ OnceInQueue(queue[s], d) => ~InQueue(queue'[s], d) /\ OnceInQueue(queue'[s], d)
Pushed(s, d) ==
    /\ got'[s] = got[s]
    /\ ~InQueue(queue[s], d) => OnceInQueue(queue'[s], d)
    /\ \E m \in net : IsCopy(m, s, d) /\ m \notin net'
Received(s, d) ==
    /\ queue'[s] = queue[s]
    /\ \E m \in net : IsCopy(m, s, d) /\ m \notin net'

LEMMA HandSteps ==
    ASSUME TypeOK, CallInv, NEW c \in Client, ClientCase(c), NEW s \in Client, NEW d \in Data
    PROVE  Kept(s, d) \/ Popped(s, d) \/ Pushed(s, d) \/ Received(s, d)
<1>0. /\ queue \in [Client -> Seq(Event)] /\ got \in [Client -> SUBSET (Data \cup {NoData})]
      /\ queue[c] \in Seq(Event)
  BY DEF TypeOK, ClientTypeOK, QueueTypeOK, HistoryTypeOK
<1>1. ASSUME queue'[s] = queue[s], got'[s] = got[s]
      PROVE  Kept(s, d)
  BY <1>1 DEF Kept
<1>2. CASE Connect(c) \/ Close(c)
  <2>1. got' = got /\ queue' = [queue EXCEPT ![c] = <<>>]
    BY <1>2 DEF Connect, Close
  <2>2. CASE s = c
    <3>1. queue'[s] = <<>>
      BY <1>0, <2>1, <2>2
    <3> QED
      BY <2>1, <3>1, EmptyOnce DEF Kept
  <2>3. CASE s # c
    BY <1>0, <1>1, <2>1, <2>3
  <2> QED
    BY <2>2, <2>3
<1>3. ASSUME NEW q \in QosUsed, SetQos(c, q)
      PROVE  queue' = queue /\ got' = got
  BY <1>3 DEF SetQos
<1>4. ASSUME NEW f \in Filter, Subscribe(c, f)
      PROVE  queue' = queue /\ got' = got
  BY <1>4 DEF Subscribe
<1>5. CASE NextEvent(c)
  <2>1. /\ queue[c] # <<>> /\ queue' = [queue EXCEPT ![c] = Tail(@)]
        /\ got' = [got EXCEPT ![c] = @ \cup {Head(queue[c]).data}]
    BY <1>5 DEF NextEvent
  <2>2. CASE s # c
    BY <1>0, <1>1, <2>1, <2>2
  <2>3. CASE s = c
    <3>1. queue'[s] = Tail(queue[s]) /\ got'[s] = got[s] \cup {Head(queue[s]).data}
      BY <1>0, <2>1, <2>3
    <3>2. CASE Head(queue[s]).data = d
      BY <1>0, <2>1, <2>3, <3>1, <3>2, TailOnce DEF Popped
    <3>3. CASE Head(queue[s]).data # d
      BY <1>0, <2>1, <2>3, <3>1, <3>3, TailOnce DEF Kept
    <3> QED
      BY <3>2, <3>3
  <2> QED
    BY <2>2, <2>3
<1>6. CASE ReceiveMessage(c)
  <2>1. PICK m \in net :
          /\ m.dir = Down /\ m.peer = c
          /\ Receive(m, {})
          /\ got' = [got EXCEPT ![c] = @ \cup {IF m.type = "PUBLISH" THEN m.data ELSE NoData}]
          /\ UNCHANGED queue
    BY <1>6 DEF ReceiveMessage
  <2>2. CASE s # c
    BY <1>0, <1>1, <2>1, <2>2
  <2>3. CASE s = c
    <3>1. CASE m.type = "PUBLISH" /\ m.data = d
      BY <2>1, <2>3, <3>1, TimelyAssumption DEF Receive, Received, IsCopy
    <3>2. CASE ~(m.type = "PUBLISH" /\ m.data = d)
      <4>1. PICK v : v = IF m.type = "PUBLISH" THEN m.data ELSE NoData
        OBVIOUS
      <4>2. v # d
        BY <3>2, <4>1, NoDataIsNone
      <4>3. got'[s] = got[s] \cup {v}
        BY <1>0, <2>1, <2>3, <4>1
      <4> QED
        BY <2>1, <4>2, <4>3 DEF Kept
    <3> QED
      BY <3>1, <3>2
  <2> QED
    BY <2>2, <2>3
<1>7. CASE PollAck(c)
  <2>1. got' = got
    BY <1>7 DEF PollAck, Return, PollAgain
  <2>2. \/ queue' = queue
        \/ /\ AckPositions(queue[c], msg[c].id) # {}
           /\ queue' = [queue EXCEPT ![c] = TakeAck(@, msg[c].id)]
    BY <1>7 DEF PollAck, PollAgain
  <2>3. CASE /\ s = c /\ AckPositions(queue[c], msg[c].id) # {}
             /\ queue'[s] = TakeAck(queue[s], msg[c].id)
    BY <1>0, <2>1, <2>3, TakeAckOnce DEF Kept
  <2> QED
    BY <1>0, <1>1, <2>1, <2>2, <2>3
<1>8. CASE Listener(c)
  <2>1. PICK m \in net :
          /\ m.dir = Down /\ m.peer = c
          /\ Receive(m, {})
          /\ ListenEvent(c, m) \/ ListenControl(c, m)
          /\ UNCHANGED got
    BY <1>8 DEF Listener
  <2>2. CASE ListenControl(c, m)
    BY <1>1, <2>1, <2>2 DEF ListenControl
  <2>3. CASE ListenEvent(c, m)
    <3>1. m \in PublishMsg \cup AckMsg
      BY <2>3 DEF ListenEvent, TypeOK, BrokerTypeOK, NetTypeOK, Message, SubscribeMsg, ControlMsg
    <3>2. PICK e : e = [type |-> m.type, id |-> m.id,
                        data |-> IF m.type = "ACK" THEN NoData ELSE m.data]
      OBVIOUS
    <3>3. e \in Event /\ (e.data = d => m.type = "PUBLISH" /\ m.data = d)
      BY <3>1, <3>2, NoDataIsNone DEF PublishMsg, AckMsg, Event
    <3>4. queue' = [queue EXCEPT ![c] = Push(@, e)]
      BY <2>3, <3>2 DEF ListenEvent
    <3>5. CASE s # c
      BY <1>0, <1>1, <2>1, <3>4, <3>5
    <3>6. CASE s = c
      <4>1. queue'[s] = Push(queue[s], e) /\ queue[s] \in Seq(Event)
        BY <1>0, <3>4, <3>6
      <4>2. CASE e.data # d
        BY <2>1, <3>3, <4>1, <4>2, PushOnce DEF Kept
      <4>3. CASE e.data = d
        <5>1. IsCopy(m, s, d) /\ m \notin net'
          BY <2>1, <3>3, <3>6, <4>3, TimelyAssumption DEF Receive, IsCopy
        <5>2. ~InQueue(queue[s], d) => OnceInQueue(queue'[s], d)
          BY <3>3, <4>1, PushOnce
        <5> QED
          BY <2>1, <5>1, <5>2 DEF Pushed
      <4> QED
        BY <4>2, <4>3
    <3> QED
      BY <3>5, <3>6
  <2> QED
    BY <2>1, <2>2, <2>3
<1>9. CASE \/ PublishTooBig(c) \/ SendPublish(c) \/ PublishFails(c) \/ AckTimeout(c)
           \/ PollReceived(c) \/ SendRelease(c) \/ ReceivedTimeout(c) \/ PollComplete(c)
           \/ CompleteTimeout(c) \/ RemoveEntry(c)
  <2>1. queue' = queue /\ got' = got
    BY <1>9 DEF PublishTooBig, SendPublish, PublishFails, AckTimeout, PollReceived, SendRelease,
       ReceivedTimeout, PollComplete, CompleteTimeout, RemoveEntry, Return, GoTo, Retry, PollAgain
  <2> QED
    BY <1>1, <2>1
<1> QED
  BY <1>1, <1>2, <1>3, <1>4, <1>5, <1>6, <1>7, <1>8, <1>9 DEF ClientCase

\* A step of the broker, a loss or the beginning of a call moves nothing at a
\* client.
LEMMA ClientsIdle ==
    ASSUME TypeOK, NEW s \in Client, NEW d \in Data,
           (\E c \in Client : BeginPublish(c)) \/ BrokerTurn \/ Loss \/ UNCHANGED vars
    PROVE  Kept(s, d)
<1>1. queue' = queue /\ got' = got
  BY DEF BeginPublish, PublishCall, BrokerTurn, Loss, vars, clientVars
<1> QED
  BY <1>1 DEF Kept

LEMMA AtClient ==
    ASSUME TypeOK, CallInv, [Next]_vars, NEW s \in Client, NEW d \in Data
    PROVE  Kept(s, d) \/ Popped(s, d) \/ Pushed(s, d) \/ Received(s, d)
<1>1. ASSUME NEW c \in Client, ClientCase(c)
      PROVE  Kept(s, d) \/ Popped(s, d) \/ Pushed(s, d) \/ Received(s, d)
  BY <1>1, HandSteps
<1> QED
  BY <1>1, ClientsIdle, NextCases

\* A payload comes to a client only when the broker passes it on.
LEMMA NewCopies ==
    ASSUME TypeOK, CallInv, [Next]_vars, NEW s \in Client, NEW d \in Data,
           NEW x \in net', IsCopy(x, s, d)
    PROVE  x \in net \/ \E m \in net : BrokerTurn /\ Forwards(m) /\ m.data = d
<1> SUFFICES ASSUME x \notin net
             PROVE  \E m \in net : BrokerTurn /\ Forwards(m) /\ m.data = d
  OBVIOUS
<1>1. PICK m \in net : BrokerTurn /\ Forwards(m) /\ x \in Copies(m)
  BY CopySteps DEF IsCopy
<1>2. x.data = m.data
  BY <1>1, CopyFields DEF Forwards
<1> QED
  BY <1>1, <1>2 DEF IsCopy

LEMMA PlacedSteps ==
    ASSUME TypeOK, CallInv, [Next]_vars, NEW s \in Client, NEW d \in Data, Placed(s, d)'
    PROVE  Placed(s, d) \/ \E m \in net : BrokerTurn /\ Forwards(m) /\ m.data = d
<1>1. ASSUME NEW x \in net', IsCopy(x, s, d)
      PROVE  Placed(s, d) \/ \E m \in net : BrokerTurn /\ Forwards(m) /\ m.data = d
  BY <1>1, NewCopies DEF Placed
<1>2. ASSUME d \in got'[s] \/ InQueue(queue'[s], d)
      PROVE  Placed(s, d)
  BY <1>2, AtClient DEF Kept, Popped, Pushed, Received, Placed
<1> QED
  BY <1>1, <1>2 DEF Placed

\* A payload that is at one place stays at one place, unless it is passed on again.
LEMMA OnceSteps ==
    ASSUME TypeOK, CallInv, [Next]_vars, NEW s \in Client, NEW d \in Data, Once(s, d),
           \A m \in net : ~(BrokerTurn /\ Forwards(m) /\ m.data = d)
    PROVE  Once(s, d)'
<1>1. \A x \in net' : IsCopy(x, s, d) => x \in net
  BY NewCopies
<1>2. CASE Kept(s, d)
  BY <1>1, <1>2 DEF Kept, Once
<1>3. CASE Popped(s, d)
  BY <1>1, <1>3 DEF Popped, Once
<1>4. CASE Pushed(s, d)
  <2>1. PICK m \in net : IsCopy(m, s, d) /\ m \notin net'
    BY <1>4 DEF Pushed
  <2>2. \A x \in net' : ~IsCopy(x, s, d)
    BY <1>1, <2>1 DEF Once
  <2>3. d \notin got'[s] /\ OnceInQueue(queue'[s], d)
    BY <1>4, <2>1 DEF Pushed, Once
  <2> QED
    BY <2>2, <2>3 DEF Once
<1>5. CASE Received(s, d)
  <2>1. PICK m \in net : IsCopy(m, s, d) /\ m \notin net'
    BY <1>5 DEF Received
  <2>2. \A x \in net' : ~IsCopy(x, s, d)
    BY <1>1, <2>1 DEF Once
  <2>3. ~InQueue(queue'[s], d) /\ OnceInQueue(queue'[s], d)
    BY <1>5, <2>1 DEF Received, Once
  <2> QED
    BY <2>2, <2>3 DEF Once
<1> QED
  BY <1>2, <1>3, <1>4, <1>5, AtClient

\* Passing a payload on for the first time puts it at one place.
LEMMA OnceForwarded ==
    ASSUME TypeOK, NEW m \in net, Forwards(m), BrokerTurn,
           NEW s \in Client, ~Placed(s, m.data)
    PROVE  \A d \in {m.data} : Once(s, d)'
<1> SUFFICES ASSUME NEW d, d = m.data
             PROVE  Once(s, d)'
  OBVIOUS
<1>1. queue' = queue /\ got' = got
  BY DEF BrokerTurn, clientVars
<1>2. ~InQueue(queue[s], d) /\ d \notin got[s] /\ \A x \in net : ~IsCopy(x, s, d)
  BY DEF Placed
<1>3. ~InQueue(queue'[s], d) /\ d \notin got'[s] /\ OnceInQueue(queue'[s], d)
  BY <1>1, <1>2 DEF InQueue, OnceInQueue
<1>4. ASSUME NEW x \in net', IsCopy(x, s, d)
      PROVE  x = [m EXCEPT !.dir = Down, !.peer = s]
  <2>1. x \in Copies(m) \cup {Ack(Down, m.peer, m.id), Control(Down, m.peer, "RECEIVED", m.id)}
    BY <1>2, <1>4 DEF Forwards, HandlePublishQos0, HandlePublishQos1, HandlePublishNew, Receive
  <2>2. x \in Copies(m)
    BY <1>4, <2>1 DEF Ack, Control, IsCopy
  <2>3. PICK c \in Client : x = [m EXCEPT !.dir = Down, !.peer = c]
    BY <2>2 DEF Copies, MatchingSubscribers
  <2>4. m \in PublishMsg
    BY DEF Forwards, TypeOK, BrokerTypeOK, NetTypeOK, Message, SubscribeMsg, AckMsg, ControlMsg
  <2>5. x.peer = c
    BY <2>3, <2>4 DEF PublishMsg
  <2>6. c = s
    BY <1>4, <2>5 DEF IsCopy
  <2> QED
    BY <2>3, <2>6
<1> QED
  BY <1>3, <1>4 DEF Once

\* The count of a payload changes when its first PUBLISH of QoS 2 is handled.
LEMMA ForwardsSteps ==
    ASSUME TypeOK, CallInv, NumberingInv, [Next]_vars, NEW d \in Data, d \in Key,
           forwards'[d] # forwards[d]
    PROVE  \E m \in net :
              BrokerTurn /\ Forwards(m) /\ HandlePublishNew(m) /\ m.data = d /\ m.qos = 2
<1>1. BrokerTurn
  BY NextCases DEF BeginPublish, Loss, vars, brokerVars
<1>2. PICK m \in net : m.dir = Up /\ (HandlePublishNew(m) \/ forwards' = forwards)
  BY <1>1 DEF BrokerTurn, BrokerStep, HandleSubscribe, HandlePublishQos0, HandlePublishQos1,
     HandlePublishRepeated, HandlePublishCompleted, HandleControlRelease,
     HandleControlReceived, HandleUnknown, brokerVars
<1>3. HandlePublishNew(m)
  BY <1>2
<1>4. m.type = "PUBLISH" /\ m.qos = 2
      /\ forwards' = [forwards EXCEPT ![KeyOf(m)] = @ + 1]
  BY <1>3 DEF HandlePublishNew
<1>5. forwards \in [Key -> Nat]
  BY DEF TypeOK, BrokerTypeOK
<1>6. KeyOf(m) = d
  BY <1>4, <1>5
<1>7. m.data = d
  BY <1>2, <1>4, <1>6 DEF NumberingInv, PublishInv, KeyOf
<1> QED
  BY <1>1, <1>2, <1>3, <1>4, <1>7 DEF Forwards

\* With UniqueIds a payload is the key of its message.
LEMMA DataIsKey ==
    ASSUME UniqueIds
    PROVE  Data \subseteq Key
  BY NetworkAssumption DEF UniqueIds, Data, Key, MsgId

\* What a message that the broker passes on tells about its payload.
LEMMA ForwardedLevel ==
    ASSUME TypeOK, NumberingInv, NEW m \in net, Forwards(m)
    PROVE  m.data \in Data /\ m.qos \in Qos /\ Level(m.data, m.qos) /\ m.data = KeyOf(m)
<1>1. m \in PublishMsg
  BY DEF Forwards, TypeOK, BrokerTypeOK, NetTypeOK, Message, SubscribeMsg, AckMsg, ControlMsg
<1>2. m.data \in Data /\ m.qos \in Qos
  BY <1>1 DEF PublishMsg
<1>3. m.data = <<m.peer, m.id>>
  BY DEF Forwards, NumberingInv, PublishInv
<1> QED
  BY <1>2, <1>3 DEF Forwards, Level, KeyOf

\* A call that has been made stays so, and does not begin.
LEMMA MadeLasts ==
    ASSUME TypeOK, TypeOK', CallInv, [Next]_vars, NEW d \in Data, Made(d)
    PROVE  /\ Made(d)'
           /\ \A c \in Client : d # <<c, calls[c] + 1>>
<1>1. d[1] \in Client /\ d[2] \in Nat
  BY DEF Data
<1>2. calls[d[1]] <= calls'[d[1]] /\ calls[d[1]] \in Nat /\ calls'[d[1]] \in Nat
  BY <1>1, HistoryGrows DEF TypeOK, ClientTypeOK, SessionTypeOK
<1>3. Made(d)'
  BY <1>1, <1>2 DEF Made
<1>4. ASSUME NEW c \in Client, d = <<c, calls[c] + 1>>
      PROVE  FALSE
  <2>1. d[1] = c /\ d[2] = calls[c] + 1
    BY <1>4
  <2> QED
    BY <1>1, <1>2, <2>1 DEF Made
<1> QED
  BY <1>3, <1>4

LEMMA LevelOfMade ==
    ASSUME TypeOK, TypeOK', CallInv, [Next]_vars, NEW d \in Data, Made(d), NEW q \in Qos,
           Level(d, q)'
    PROVE  Level(d, q)
  BY LevelSteps, MadeLasts

-----------------------------------------------------------------------------
(* The invariant. *)

LEMMA LevelInvStep ==
    ASSUME TypeOK, TypeOK', CallInv, LevelInv, [Next]_vars
    PROVE  LevelInv'
<1> SUFFICES ASSUME NEW d \in Data, NEW q \in Qos, Level(d, q)'
             PROVE  /\ Made(d)'
                    /\ \A r \in Qos : Level(d, r)' => q = r
  BY DEF LevelInv
<1>1. CASE Made(d)
  <2>1. Made(d)'
    BY <1>1, MadeLasts
  <2>2. ASSUME NEW r \in Qos, Level(d, r)'
        PROVE  q = r
    BY <1>1, <2>2, LevelOfMade DEF LevelInv
  <2> QED
    BY <2>1, <2>2
<1>2. CASE ~Made(d)
  <2>1. \A r \in Qos : ~Level(d, r)
    BY <1>2 DEF LevelInv
  <2>2. PICK c \in Client : BeginPublish(c) /\ d = <<c, calls[c] + 1>> /\ q = qos[c]
    BY <2>1, LevelSteps
  <2>3. ASSUME NEW r \in Qos, Level(d, r)'
        PROVE  q = r
    <3>1. PICK b \in Client : d = <<b, calls[b] + 1>> /\ r = qos[b]
      BY <2>1, <2>3, LevelSteps
    <3>2. b = c
      BY <2>2, <3>1
    <3> QED
      BY <2>2, <3>1, <3>2
  <2>4. Made(d)'
    <3>1. calls' = [calls EXCEPT ![c] = @ + 1]
      BY <2>2 DEF BeginPublish, PublishCall, TakeId
    <3>2. calls'[c] = calls[c] + 1 /\ calls[c] \in Nat
      BY <3>1 DEF TypeOK, ClientTypeOK, SessionTypeOK
    <3>3. d[1] = c /\ d[2] = calls[c] + 1
      BY <2>2
    <3> QED
      BY <3>2, <3>3 DEF Made
  <2> QED
    BY <2>3, <2>4
<1> QED
  BY <1>1, <1>2

LEMMA ForwardInvStep ==
    ASSUME UniqueIds, TypeOK, TypeOK', CallInv, NumberingInv, LevelInv, ForwardInv, [Next]_vars
    PROVE  ForwardInv'
<1> SUFFICES ASSUME NEW d \in Data, forwards'[d] > 0
             PROVE  Made(d)' /\ \A q \in Qos : Level(d, q)' => q = 2
  BY DEF ForwardInv
<1>1. Made(d) /\ \A q \in Qos : Level(d, q) => q = 2
  <2>1. CASE forwards[d] > 0
    BY <2>1 DEF ForwardInv
  <2>2. CASE ~(forwards[d] > 0)
    <3>1. PICK m \in net : Forwards(m) /\ m.data = d /\ m.qos = 2
      BY <2>2, DataIsKey, ForwardsSteps
    <3>2. Level(d, 2) /\ 2 \in Qos
      BY <3>1, ForwardedLevel
    <3> QED
      BY <3>2 DEF LevelInv
  <2> QED
    BY <2>1, <2>2
<1> QED
  BY <1>1, MadeLasts, LevelOfMade

LEMMA PlacedInvStep ==
    ASSUME UniqueIds, TypeOK, TypeOK', CallInv, NumberingInv, LevelInv, PlacedInv, [Next]_vars
    PROVE  PlacedInv'
<1> SUFFICES ASSUME NEW d \in Data, NEW s \in Client, Placed(s, d)'
             PROVE  Made(d)' /\ (forwards'[d] = 0 => ~Level(d, 2)')
  BY DEF PlacedInv
<1>0. 2 \in Qos /\ d \in Key /\ forwards[d] \in Nat /\ forwards'[d] \in Nat
  BY DataIsKey, NetworkAssumption DEF Qos, TypeOK, BrokerTypeOK
<1>1. CASE Placed(s, d)
  <2>1. Made(d) /\ (forwards[d] = 0 => ~Level(d, 2))
    BY <1>1 DEF PlacedInv
  <2>2. forwards[d] <= forwards'[d]
    BY <1>0, HistoryGrows
  <2>3. forwards'[d] = 0 => forwards[d] = 0
    BY <1>0, <2>2
  <2> QED
    BY <1>0, <2>1, <2>3, MadeLasts, LevelOfMade
<1>2. CASE ~Placed(s, d)
  <2>1. PICK m \in net : BrokerTurn /\ Forwards(m) /\ m.data = d
    BY <1>2, PlacedSteps
  <2>2. m.qos \in Qos /\ Level(d, m.qos) /\ d = KeyOf(m)
    BY <2>1, ForwardedLevel
  <2>3. Made(d)
    BY <2>2 DEF LevelInv
  <2>4. ASSUME forwards'[d] = 0
        PROVE  m.qos # 2
    <3>1. ~HandlePublishNew(m)
      <4> SUFFICES ASSUME HandlePublishNew(m) PROVE FALSE
        OBVIOUS
      <4>1. forwards'[d] = forwards[d] + 1
        BY <1>0, <2>2 DEF HandlePublishNew, TypeOK, BrokerTypeOK
      <4> QED
        BY <1>0, <2>4, <4>1
    <3> QED
      BY <2>1, <3>1 DEF Forwards, HandlePublishQos0, HandlePublishQos1
  <2>5. ASSUME forwards'[d] = 0, Level(d, 2)'
        PROVE  FALSE
    <3>1. Level(d, 2)
      BY <1>0, <2>3, <2>5, LevelOfMade
    <3> QED
      BY <1>0, <2>2, <2>4, <2>5, <3>1 DEF LevelInv
  <2> QED
    BY <2>3, <2>5, MadeLasts
<1> QED
  BY <1>1, <1>2

LEMMA OnceInvStep ==
    ASSUME UniqueIds, TypeOK, TypeOK', CallInv, NumberingInv, BrokerInv, LevelInv, ForwardInv,
           PlacedInv, OnceInv, [Next]_vars
    PROVE  OnceInv'
<1> SUFFICES ASSUME NEW d \in Data, NEW s \in Client, forwards'[d] > 0
             PROVE  Once(s, d)'
  BY DEF OnceInv
<1>0. 2 \in Qos /\ d \in Key /\ forwards[d] \in Nat
  BY DataIsKey, NetworkAssumption DEF Qos, TypeOK, BrokerTypeOK
<1>1. CASE forwards[d] > 0
  <2>1. ASSUME NEW m \in net, Forwards(m), m.data = d
        PROVE  FALSE
    <3>1. m.qos \in Qos /\ Level(d, m.qos) /\ d = KeyOf(m)
      BY <2>1, ForwardedLevel
    <3>2. m.qos = 2
      BY <1>1, <3>1 DEF ForwardInv
    <3>3. pending[d] = NONE
      BY <2>1, <3>1, <3>2 DEF Forwards, HandlePublishQos0, HandlePublishQos1, HandlePublishNew
    <3> QED
      BY <1>0, <1>1, <3>3 DEF BrokerInv
  <2>2. Once(s, d)
    BY <1>1 DEF OnceInv
  <2> QED
    BY <2>1, <2>2, OnceSteps
<1>2. CASE forwards[d] = 0
  <2>1. PICK m \in net : BrokerTurn /\ Forwards(m) /\ m.data = d /\ m.qos = 2
    BY <1>0, <1>2, ForwardsSteps
  <2>2. Level(d, 2)
    BY <2>1, ForwardedLevel
  <2>3. ~Placed(s, d)
    BY <1>2, <2>2 DEF PlacedInv
  <2> QED
    BY <2>1, <2>3, OnceForwarded
<1> QED
  BY <1>0, <1>1, <1>2

LEMMA EventInvStep ==
    ASSUME TypeOK, TypeOK', CallInv, EventInv, [Next]_vars
    PROVE  EventInv'
<1> SUFFICES ASSUME NEW b \in Client, NEW e \in Events(queue'[b]), e.type = "PUBLISH"
             PROVE  e.data \in Data
  BY DEF EventInv, Events
<1>1. ASSUME e \in Events(queue[b])
      PROVE  e.data \in Data
  BY <1>1 DEF EventInv
<1>2. ASSUME NEW c \in Client, ClientCase(c)
      PROVE  e.data \in Data
  <2>1. CASE b # c
    <3>1. b \in Client \ {c} /\ ClientTypeOK
      BY <2>1 DEF TypeOK
    <3>2. queue'[b] = queue[b]
      BY <1>2, <3>1, OtherCalls
    <3> QED
      BY <1>1, <3>2
  <2>2. CASE b = c
    <3>1. ASSUME NEW m \in net, m.type = "PUBLISH", e.data = m.data
          PROVE  e.data \in Data
      BY <3>1 DEF TypeOK, BrokerTypeOK, NetTypeOK, Message, PublishMsg, SubscribeMsg,
         AckMsg, ControlMsg
    <3>2. \/ e \in Events(queue[b])
          \/ \E m \in net : m.type = "PUBLISH" /\ e.data = m.data
      BY <1>2, <2>2, QueueSteps
    <3> QED
      BY <1>1, <3>1, <3>2
  <2> QED
    BY <2>1, <2>2
<1>3. ASSUME queue' = queue
      PROVE  e.data \in Data
  BY <1>1, <1>3
<1>4. ASSUME (\E c \in Client : BeginPublish(c)) \/ BrokerTurn \/ Loss \/ UNCHANGED vars
      PROVE  queue' = queue
  BY <1>4 DEF BeginPublish, PublishCall, BrokerTurn, Loss, vars, clientVars
<1> QED
  BY <1>2, <1>3, <1>4, NextCases

LEMMA HandInvStep ==
    ASSUME UniqueIds, TypeOK, TypeOK', CallInv, SafetyInv, BrokerInv, HandInv, [Next]_vars
    PROVE  HandInv'
  BY LevelInvStep, ForwardInvStep, PlacedInvStep, OnceInvStep, EventInvStep
     DEF HandInv, SafetyInv

LEMMA HandInvInit ==
    ASSUME UniqueIds, Init
    PROVE  HandInv
<1>1. /\ net = {} /\ queue = [c \in Client |-> <<>>] /\ got = [c \in Client |-> {}]
      /\ pc = [c \in Client |-> "closed"] /\ forwards = [k \in Key |-> 0]
  BY DEF Init, BrokerInit, NetInit, ClientInit
<1>2. \A d, q : ~Level(d, q)
  BY <1>1 DEF Level, Busy
<1>3. \A d : \A s \in Client : ~Placed(s, d)
  BY <1>1 DEF Placed, InQueue
<1>4. \A d \in Data : ~(forwards[d] > 0)
  BY <1>1, DataIsKey
<1>5. EventInv
  BY <1>1 DEF EventInv, Events
<1> QED
  BY <1>2, <1>3, <1>4, <1>5 DEF HandInv, LevelInv, ForwardInv, PlacedInv, OnceInv

LEMMA HandedOnceFollows ==
    ASSUME TypeOK, HandInv
    PROVE  HandedOnce
<1> SUFFICES ASSUME NEW c \in Client, NEW i \in 1 .. Len(queue[c]),
                    queue[c][i].type = "PUBLISH", forwards[queue[c][i].data] > 0
             PROVE  /\ queue[c][i].data \notin got[c]
                    /\ \A j \in 1 .. Len(queue[c]) :
                          queue[c][j].data = queue[c][i].data => j = i
  BY DEF HandedOnce
<1>1. PICK d : d = queue[c][i].data
  OBVIOUS
<1>2. d \in Data
  BY <1>1 DEF HandInv, EventInv, Events
<1>3. InQueue(queue[c], d)
  BY <1>1 DEF InQueue
<1>4. Once(c, d)
  BY <1>1, <1>2 DEF HandInv, OnceInv
<1> QED
  BY <1>1, <1>3, <1>4 DEF Once, OnceInQueue

LEMMA HandInvariant ==
    ASSUME UniqueIds
    PROVE  Spec => [](TypeOK /\ HandInv)
<1>1. HandInv /\ ((TypeOK /\ CallInv) /\ SafetyInv /\ BrokerInv) /\ (TypeOK /\ CallInv)'
        /\ [Next]_vars => HandInv'
  BY HandInvStep
<1>2. Init => HandInv
  BY HandInvInit
<1> QED
  BY <1>1, <1>2, TypeInvariant, SafetyInvariant, ImplementsBroker, BrokerInvariant, PTL DEF Spec

-----------------------------------------------------------------------------
(* The timely network is one of the networks of Spec. *)

LEMMA TimelyStep ==
    ASSUME [TimelyNext]_timelyVars
    PROVE  [Next]_vars
  BY DEF TimelyNext, timelyVars, TimelyBegin, TimelyPublishStep, TimelyOther, TimelyLoss,
         Next, ClientStep, OtherClientStep, Loss

LEMMA TimelyIsSpec == TimelySpec => Spec
<1>1. TimelyInit => Init
  BY DEF TimelyInit
<1> QED
  BY <1>1, TimelyStep, PTL DEF TimelySpec, Spec

\* README, "Exactly once (4-stage handshake with state tracking)": a message of
\* QoS 2 is in an event queue once and has then not been handed to that
\* application, for every number of clients, calls and retries, whatever is lost
\* or reordered, if the network repeats no datagram.
THEOREM HandedOnceHolds ==
    ASSUME UniqueIds
    PROVE  TimelySpec => []HandedOnce
<1>1. TypeOK /\ HandInv => HandedOnce
  BY HandedOnceFollows
<1> QED
  BY <1>1, TimelyIsSpec, HandInvariant, PTL

-----------------------------------------------------------------------------
(* Why no publish fails: where the exchange of a running call is. *)

\* A PUBLISH of a level that is answered by nothing; what else is in transit
\* between c and the broker.
Stray(m) == m.type = "PUBLISH" /\ m.dir = Up /\ m.qos \notin {1, 2}
Own(c) == {m \in net : m.peer = c /\ ~Stray(m)}

\* A datagram has been lost since the last retry, or there is none to make up for.
Excused(c) == retries[c] < lost[c]

AckOf(c) == Ack(Down, c, msg[c].id)
ReceivedOf(c) == Control(Down, c, "RECEIVED", msg[c].id)
ReleaseOf(c) == Control(Up, c, "RELEASE", msg[c].id)
CompleteOf(c) == Control(Down, c, "COMPLETE", msg[c].id)

\* Between two calls, and at the head of the loop, nothing is under way.
RestInv(c) == Own(c) = {} /\ queue[c] = <<>>

\* QoS 1: PUBLISH, ACK and the event are one token.
AckInv(c) ==
    /\ msg[c].qos = 1
    /\ Own(c) \subseteq {msg[c], AckOf(c)}
    /\ \A m, n \in Own(c) : m = n
    /\ \/ queue[c] = <<>>
       \/ /\ Own(c) = {}
          /\ Len(queue[c]) = 1 /\ queue[c][1].type = "ACK" /\ queue[c][1].id = msg[c].id
    /\ Excused(c) \/ Own(c) # {} \/ queue[c] # <<>>
    /\ polls[c] > 0 => Excused(c) /\ Own(c) = {} /\ queue[c] = <<>>

\* QoS 2, first wait.
ReceivedInv(c) ==
    /\ msg[c].qos = 2 /\ queue[c] = <<>>
    /\ Own(c) \subseteq {msg[c], ReceivedOf(c)}
    /\ EntryOf(c) # "COMPLETED"
    /\ Excused(c) \/ Own(c) # {} \/ EntryOf(c) = "WAIT_COMPLETE"
    /\ polls[c] > 0 => Excused(c)

\* QoS 2, second wait.
CompleteInv(c) ==
    /\ msg[c].qos = 2 /\ queue[c] = <<>>
    /\ Own(c) \subseteq {ReleaseOf(c), CompleteOf(c)}
    /\ EntryOf(c) # "NONE"
    /\ Excused(c) \/ Own(c) # {} \/ EntryOf(c) = "COMPLETED"
    /\ polls[c] > 0 => Excused(c) /\ Own(c) = {} /\ EntryOf(c) # "COMPLETED"

PhaseInv(c) ==
    /\ pc[c] \in {"closed", "idle", "send", "check", "remove"} => RestInv(c)
    /\ pc[c] = "ack" => AckInv(c)
    /\ pc[c] = "received" => ReceivedInv(c)
    /\ pc[c] = "complete" => CompleteInv(c)
    /\ pc[c] = "send" /\ msg[c].qos = 2 => EntryOf(c) # "COMPLETED"
    /\ pc[c] \in {"check", "remove"} => msg[c].qos = 2
    /\ pc[c] = "check" => EntryOf(c) = "WAIT_COMPLETE"
    /\ pc[c] = "remove" => EntryOf(c) = "COMPLETED"

\* The broker does not answer a PUBLISH of a completed handshake: the client
\* then has its RECEIVED already.
ReleasedInv(c) ==
    (Busy(c) /\ msg[c].qos = 2 /\ pending[<<c, msg[c].id>>] = "COMPLETED") =>
        EntryOf(c) # "NONE"

\* Every retry makes up for a loss.
RetryInv(c) ==
    /\ lost[c] \in 0 .. MaxRetries
    /\ retries[c] <= lost[c]
    /\ ~Busy(c) => retries[c] = 0

\* Only subscribers get copies.
SubscriberInv ==
    /\ \A f \in Filter : subs[f] \subseteq Subscriber
    /\ \A m \in net : m.type = "SUBSCRIBE" => m.peer \in Subscriber

PublisherInv(c) == RetryInv(c) /\ PhaseInv(c) /\ ReleasedInv(c)

TimelyInv ==
    /\ SubscriberInv
    /\ lost \in [Client -> Nat]
    /\ \A c \in Client : Busy(c) => c \in Publisher
    /\ \A c \in Publisher : PublisherInv(c)
    /\ NoPublishFails

-----------------------------------------------------------------------------
(* A step that does not concern a publisher. *)

\* The application thread of c does nothing.
Same(c) ==
    /\ pc'[c] = pc[c] /\ msg'[c] = msg[c]
    /\ retries'[c] = retries[c] /\ polls'[c] = polls[c]

LEMMA Untouched ==
    ASSUME NEW c \in Client, PublisherInv(c), Same(c), queue'[c] = queue[c], lost'[c] = lost[c],
           Own(c)' = Own(c), Busy(c) => EntryOf(c)' = EntryOf(c),
           Busy(c) => pending'[<<c, msg[c].id>>] = pending[<<c, msg[c].id>>]
    PROVE  PublisherInv(c)'
<1>1. RetryInv(c)'
  BY DEF PublisherInv, RetryInv, Same, Busy
<1>2. ReleasedInv(c)'
  BY DEF PublisherInv, ReleasedInv, Same, Busy
<1>3. PhaseInv(c)'
  <2>1. RestInv(c) => RestInv(c)'
    BY DEF RestInv
  <2>2. pc[c] = "ack" /\ AckInv(c) => AckInv(c)'
    BY DEF AckInv, Same, Excused, AckOf
  <2>3. pc[c] = "received" /\ ReceivedInv(c) => ReceivedInv(c)'
    BY DEF ReceivedInv, Same, Excused, ReceivedOf, Busy
  <2>4. pc[c] = "complete" /\ CompleteInv(c) => CompleteInv(c)'
    BY DEF CompleteInv, Same, Excused, ReleaseOf, CompleteOf, Busy
  <2> QED
    BY <2>1, <2>2, <2>3, <2>4 DEF PublisherInv, PhaseInv, Same, Busy
<1> QED
  BY <1>1, <1>2, <1>3 DEF PublisherInv

\* The datagrams of c are those of the steps of c and of the broker's answers to c.
LEMMA OwnSame ==
    ASSUME NEW c, \A x : x.peer = c => (x \in net' <=> x \in net)
    PROVE  Own(c)' = Own(c)
  BY DEF Own

LEMMA NetOfOthers ==
    ASSUME TypeOK, CallInv, NEW b \in Client, ClientCase(b), NEW c \in Client, b # c,
           NEW x, x.peer = c
    PROVE  x \in net' <=> x \in net
<1>1. ASSUME x \in net', x \notin net
      PROVE  FALSE
  <2>1. CASE \E f \in Filter : Subscribe(b, f)
    <3>1. PICK f \in Filter : Subscribe(b, f)
      BY <2>1
    <3>2. x = [type |-> "SUBSCRIBE", dir |-> Up, peer |-> b, filter |-> f]
      BY <1>1, <3>1 DEF Subscribe, Send
    <3> QED
      BY <3>2
  <2>2. CASE x = msg[b] /\ Busy(b)
    BY <2>2 DEF CallInv
  <2>3. CASE x = Control(Up, b, "RELEASE", msg[b].id)
    BY <2>3 DEF Control
  <2>4. CASE SendPublish(b)
    BY <1>1, <2>2, <2>4 DEF SendPublish, Send, Busy
  <2>5. CASE SendRelease(b)
    BY <1>1, <2>3, <2>5 DEF SendRelease, Send
  <2>6. ASSUME ~(\E f \in Filter : Subscribe(b, f)), ~SendPublish(b), ~SendRelease(b)
        PROVE  net' \subseteq net
    BY <2>6 DEF ClientCase, Connect, Close, SetQos, PublishTooBig, NextEvent, ReceiveMessage,
       PublishFails, PollAck, AckTimeout, PollReceived, ReceivedTimeout, PollComplete,
       CompleteTimeout, RemoveEntry, Listener, Retry, PollAgain, Receive
  <2> QED
    BY <1>1, <2>1, <2>4, <2>5, <2>6
<1>2. ASSUME x \in net, x \notin net'
      PROVE  FALSE
  <2>1. CASE Listener(b) \/ ReceiveMessage(b)
    <3>1. PICK m \in net : m.peer = b /\ Receive(m, {})
      BY <2>1 DEF Listener, ReceiveMessage
    <3> QED
      BY <1>2, <3>1 DEF Receive
  <2>2. ASSUME ~Listener(b), ~ReceiveMessage(b)
        PROVE  net \subseteq net'
    BY <2>2 DEF ClientCase, Connect, Close, SetQos, PublishTooBig, NextEvent, Subscribe, Send,
       SendPublish, SendRelease, PublishFails, PollAck, AckTimeout, PollReceived,
       ReceivedTimeout, PollComplete, CompleteTimeout, RemoveEntry, Retry, PollAgain
  <2> QED
    BY <1>2, <2>1, <2>2
<1> QED
  BY <1>1, <1>2

\* The table of another process.
LEMMA TableOfOthers ==
    ASSUME UniqueIds, TypeOK, NEW b \in Client, ClientCase(b), NEW c \in Client, b # c
    PROVE  table'[ProcessOf[c]] = table[ProcessOf[c]]
<1>0. /\ ProcessOf[b] # ProcessOf[c] /\ ProcessOf[c] \in Process /\ ProcessOf[b] \in Process
      /\ table \in [Process -> [MsgId -> TableState]]
  BY ClientAssumption DEF UniqueIds, TypeOK, ClientTypeOK, TableTypeOK
<1>1. \/ table' = table
      \/ \E v : table' = [table EXCEPT ![ProcessOf[b]] = v]
      \/ \E i, v : table' = [table EXCEPT ![ProcessOf[b]][i] = v]
  <2>1. CASE Close(b)
    BY <2>1 DEF Close
  <2>2. CASE \E q \in QosUsed : SetQos(b, q)
    BY <2>2 DEF SetQos
  <2>3. CASE RemoveEntry(b)
    BY <2>3 DEF RemoveEntry
  <2>4. CASE Listener(b)
    BY <2>4 DEF Listener, ListenEvent, ListenControl
  <2>5. ASSUME ~Close(b), ~(\E q \in QosUsed : SetQos(b, q)), ~RemoveEntry(b), ~Listener(b)
        PROVE  table' = table
    BY <2>5 DEF ClientCase, Connect, PublishTooBig, NextEvent, ReceiveMessage, Subscribe,
       SendPublish, SendRelease, PublishFails, PollAck, AckTimeout, PollReceived,
       ReceivedTimeout, PollComplete, CompleteTimeout, Retry, PollAgain
  <2> QED
    BY <2>1, <2>2, <2>3, <2>4, <2>5
<1> QED
  BY <1>0, <1>1

LEMMA PollsOfOthers ==
    ASSUME TypeOK, NEW b \in Client, ClientCase(b), NEW c \in Client, b # c
    PROVE  polls'[c] = polls[c]
<1>1. polls' = polls \/ \E v : polls' = [polls EXCEPT ![b] = v]
  BY DEF ClientCase, Connect, Close, SetQos, PublishTooBig, NextEvent, ReceiveMessage, Subscribe,
     SendPublish, SendRelease, PublishFails, PollAck, AckTimeout, PollReceived,
     ReceivedTimeout, PollComplete, CompleteTimeout, RemoveEntry, Listener, Retry, PollAgain,
     Return, GoTo, callVars
<1> QED
  BY <1>1 DEF TypeOK, ClientTypeOK, CallTypeOK

LEMMA OtherClient ==
    ASSUME UniqueIds, TypeOK, CallInv, NEW b \in Client, ClientCase(b), UNCHANGED brokerVars,
           NEW c \in Client, b # c, lost'[c] = lost[c], PublisherInv(c)
    PROVE  PublisherInv(c)'
<1>1. c \in Client \ {b} /\ ClientTypeOK
  BY DEF TypeOK
<1>2. Same(c) /\ queue'[c] = queue[c]
  BY <1>1, OtherCalls, PollsOfOthers DEF Same
<1>3. Own(c)' = Own(c)
  BY NetOfOthers, OwnSame
<1>4. EntryOf(c)' = EntryOf(c)
  BY <1>2, TableOfOthers DEF EntryOf, Same
<1>5. pending' = pending
  BY DEF brokerVars
<1> QED
  BY <1>2, <1>3, <1>4, <1>5, Untouched

\* A publisher that does not subscribe gets no copies.
LEMMA CopiesElsewhere ==
    ASSUME TypeOK, SubscriberInv, NEW c \in Client \ Subscriber, NEW m \in net,
           m.type = "PUBLISH", NEW x \in Copies(m)
    PROVE  x.peer # c
<1>1. m \in PublishMsg
  BY DEF TypeOK, BrokerTypeOK, NetTypeOK, Message, SubscribeMsg, AckMsg, ControlMsg
<1>2. PICK s \in MatchingSubscribers(m.topic) : x = [m EXCEPT !.dir = Down, !.peer = s]
  BY DEF Copies
<1>3. x.peer = s
  BY <1>1, <1>2 DEF PublishMsg
<1>4. s \in Subscriber
  BY <1>2 DEF MatchingSubscribers, SubscriberInv
<1> QED
  BY <1>3, <1>4

\* The datagrams and the key of a publisher change only with its own datagrams.
LEMMA NetOfBroker ==
    ASSUME TypeOK, SubscriberInv, BrokerStep, NEW c \in Client \ Subscriber
    PROVE  \E m \in net :
              /\ m.dir = Up
              /\ \/ HandleSubscribe(m)
                 \/ HandlePublishQos0(m)
                 \/ HandlePublishQos1(m)
                 \/ HandlePublishNew(m)
                 \/ HandlePublishRepeated(m)
                 \/ HandlePublishCompleted(m)
                 \/ HandleControlRelease(m)
                 \/ HandleControlReceived(m)
                 \/ HandleUnknown(m)
              /\ m.peer # c => \A x : x.peer = c => (x \in net' <=> x \in net)
              /\ m.peer # c => \A i \in MsgId : pending'[<<c, i>>] = pending[<<c, i>>]
<1>1. PICK m \in net :
        /\ m.dir = Up
        /\ \/ HandleSubscribe(m)
           \/ HandlePublishQos0(m)
           \/ HandlePublishQos1(m)
           \/ HandlePublishNew(m)
           \/ HandlePublishRepeated(m)
           \/ HandlePublishCompleted(m)
           \/ HandleControlRelease(m)
           \/ HandleControlReceived(m)
           \/ HandleUnknown(m)
  BY DEF BrokerStep
<1>2. \A x \in Copies(m) : m.type = "PUBLISH" => x.peer # c
  BY CopiesElsewhere
<1>3. /\ \A x \in net' :
            (x \in net /\ x # m) \/ x.peer = m.peer \/ x.peer # c
      /\ \A x \in net : x \in net' \/ x = m
  <2>1. CASE \/ HandleSubscribe(m) \/ HandlePublishCompleted(m)
             \/ HandleControlReceived(m) \/ HandleUnknown(m)
    <3>1. net' = (net \ {m}) \cup {}
      BY <2>1, TimelyAssumption
         DEF HandleSubscribe, HandlePublishCompleted, HandleControlReceived, HandleUnknown, Receive
    <3> QED
      BY <3>1
  <2>2. CASE HandlePublishQos0(m)
    BY <1>2, <2>2, TimelyAssumption DEF HandlePublishQos0, Receive
  <2>3. CASE HandlePublishQos1(m)
    <3>1. net' = (net \ {m}) \cup (Copies(m) \cup {Ack(Down, m.peer, m.id)}) /\ m.type = "PUBLISH"
      BY <2>3, TimelyAssumption DEF HandlePublishQos1, Receive
    <3>2. Ack(Down, m.peer, m.id).peer = m.peer /\ Ack(Down, m.peer, m.id).dir = Down
      BY DEF Ack
    <3> QED
      BY <1>2, <3>1, <3>2
  <2>4. CASE HandlePublishNew(m)
    <3>1. PICK r : r = Control(Down, m.peer, "RECEIVED", m.id)
      OBVIOUS
    <3>2. net' = (net \ {m}) \cup (Copies(m) \cup {r}) /\ m.type = "PUBLISH"
      BY <2>4, <3>1, TimelyAssumption DEF HandlePublishNew, Receive
    <3>3. r.peer = m.peer /\ r.dir = Down
      BY <3>1 DEF Control
    <3> QED
      BY <1>2, <3>2, <3>3
  <2>5. CASE HandlePublishRepeated(m) \/ HandleControlRelease(m)
    <3>1. PICK k \in {"RECEIVED", "COMPLETE"} : net' = (net \ {m}) \cup {Control(Down, m.peer, k, m.id)}
      BY <2>5, TimelyAssumption DEF HandlePublishRepeated, HandleControlRelease, Receive
    <3>2. Control(Down, m.peer, k, m.id).peer = m.peer /\ Control(Down, m.peer, k, m.id).dir = Down
      BY DEF Control
    <3> QED
      BY <3>1, <3>2
  <2> QED
    BY <1>1, <2>1, <2>2, <2>3, <2>4, <2>5
<1>4. m.peer # c => \A x : x.peer = c => (x \in net' <=> x \in net)
  BY <1>3
<1>5. ASSUME m.peer # c, NEW i \in MsgId
      PROVE  pending'[<<c, i>>] = pending[<<c, i>>]
  <2>1. <<c, i>> \in Key /\ <<c, i>> # KeyOf(m) /\ pending \in [Key -> PendingState]
    BY <1>5 DEF Key, KeyOf, TypeOK, BrokerTypeOK
  <2> QED
    BY <1>1, <2>1 DEF HandleSubscribe, HandlePublishQos0, HandlePublishQos1, HandlePublishNew,
       HandlePublishRepeated, HandlePublishCompleted, HandleControlRelease,
       HandleControlReceived, HandleUnknown, brokerVars
<1> QED
  BY <1>1, <1>4, <1>5

LEMMA OtherPeer ==
    ASSUME UniqueIds, TypeOK, CallInv, UNCHANGED clientVars, NEW c \in Client,
           \A x : x.peer = c => (x \in net' <=> x \in net),
           \A i \in MsgId : pending'[<<c, i>>] = pending[<<c, i>>],
           lost'[c] = lost[c], PublisherInv(c)
    PROVE  PublisherInv(c)'
<1>1. Same(c) /\ queue'[c] = queue[c] /\ EntryOf(c)' = EntryOf(c)
  BY DEF clientVars, callVars, Same, EntryOf
<1>2. Own(c)' = Own(c)
  BY OwnSame
<1>3. Busy(c) => msg[c].id \in MsgId
  BY DEF CallInv, PublishMsg
<1> QED
  BY <1>1, <1>2, <1>3, Untouched

-----------------------------------------------------------------------------
(* The broker handles a datagram of the publisher. *)

\* What an answer r to m leaves in transit.
LEMMA OwnAnswered ==
    ASSUME NEW c, NEW m \in net, NEW r, r.peer = c, r.dir = Down,
           \A x : x.peer = c => (x \in net' <=> (x \in net /\ x # m) \/ x = r)
    PROVE  Own(c)' = (Own(c) \ {m}) \cup {r}
  BY DEF Own, Stray, Up, Down

LEMMA OwnDropped ==
    ASSUME NEW c, NEW m \in net,
           \A x : x.peer = c => (x \in net' <=> x \in net /\ x # m)
    PROVE  Own(c)' = Own(c) \ {m}
  BY DEF Own

LEMMA BrokerAnswersAck ==
    ASSUME TypeOK, SubscriberInv, UNCHANGED clientVars, NEW c \in Client \ Subscriber,
           lost'[c] = lost[c], PublisherInv(c), pc[c] = "ack", NEW m \in Own(c), m.dir = Up,
           HandlePublishQos1(m)
    PROVE  PublisherInv(c)'
<1>1. AckInv(c) /\ m \in net /\ m.type = "PUBLISH" /\ m.peer = c
  BY DEF PublisherInv, PhaseInv, HandlePublishQos1, Own
<1>2. m = msg[c]
  BY <1>1 DEF AckInv, AckOf, Ack
<1>3. PICK r : r = Ack(Down, m.peer, m.id)
  OBVIOUS
<1>4. r = AckOf(c) /\ r.peer = c /\ r.dir = Down
  BY <1>1, <1>2, <1>3 DEF AckOf, Ack
<1>5. net' = (net \ {m}) \cup (Copies(m) \cup {r})
  BY <1>3, TimelyAssumption DEF HandlePublishQos1, Receive
<1>6. \A x : x.peer = c => (x \in net' <=> (x \in net /\ x # m) \/ x = r)
  BY <1>1, <1>5, CopiesElsewhere
<1>7. Own(c)' = (Own(c) \ {m}) \cup {r}
  BY <1>1, <1>4, <1>6, OwnAnswered
<1>8. Own(c)' = {r} /\ queue[c] = <<>> /\ ~(polls[c] > 0)
  BY <1>1, <1>7 DEF AckInv
<1>9. Same(c) /\ queue'[c] = queue[c] /\ EntryOf(c)' = EntryOf(c) /\ AckOf(c)' = AckOf(c)
  BY DEF clientVars, callVars, Same, EntryOf, AckOf
<1>10. AckInv(c)'
  BY <1>1, <1>4, <1>8, <1>9 DEF AckInv, Same
<1>11. RetryInv(c)'
  BY <1>9 DEF PublisherInv, RetryInv, Same, Busy
<1>12. PhaseInv(c)' /\ ReleasedInv(c)'
  BY <1>1, <1>9, <1>10 DEF PhaseInv, ReleasedInv, AckInv, Same
<1> QED
  BY <1>11, <1>12 DEF PublisherInv

LEMMA BrokerAnswersPublish ==
    ASSUME TypeOK, SubscriberInv, UNCHANGED clientVars, NEW c \in Client \ Subscriber,
           lost'[c] = lost[c], PublisherInv(c), pc[c] = "received", NEW m \in Own(c), m.dir = Up,
           HandlePublishNew(m) \/ HandlePublishRepeated(m) \/ HandlePublishCompleted(m)
    PROVE  PublisherInv(c)'
<1>1. ReceivedInv(c) /\ m \in net /\ m.type = "PUBLISH" /\ m.peer = c /\ ReleasedInv(c)
  BY DEF PublisherInv, PhaseInv, HandlePublishNew, HandlePublishRepeated, HandlePublishCompleted,
     Own
<1>2. m = msg[c]
  BY <1>1 DEF ReceivedInv, ReceivedOf, Control
<1>3. Same(c) /\ queue'[c] = queue[c] /\ EntryOf(c)' = EntryOf(c) /\ ReceivedOf(c)' = ReceivedOf(c)
      /\ msg'[c] = msg[c]
  BY DEF clientVars, callVars, Same, EntryOf, ReceivedOf
<1>4. RetryInv(c)'
  BY <1>3 DEF PublisherInv, RetryInv, Same, Busy
<1>5. EntryOf(c) \in TableState
  <2>1. msg[c].id \in MsgId
    BY <1>1, <1>2, AnswerNames DEF TypeOK, BrokerTypeOK, NetTypeOK
  <2> QED
    BY <2>1, ClientAssumption DEF TypeOK, ClientTypeOK, TableTypeOK, EntryOf
<1>6. CASE HandlePublishCompleted(m)
  <2>1. pending[KeyOf(m)] = "COMPLETED" /\ net' = (net \ {m}) \cup {} /\ pending' = pending
    BY <1>6, TimelyAssumption DEF HandlePublishCompleted, Receive, brokerVars
  <2>2. EntryOf(c) = "WAIT_COMPLETE"
    BY <1>1, <1>2, <1>5, <2>1 DEF ReceivedInv, ReleasedInv, KeyOf, Busy, TableState
  <2>3. Own(c)' = Own(c) \ {m}
    BY <1>1, <2>1, OwnDropped
  <2>4. ReceivedInv(c)'
    BY <1>1, <1>3, <2>2, <2>3 DEF ReceivedInv, Same, Excused
  <2> QED
    BY <1>3, <1>4, <2>2, <2>4 DEF PublisherInv, PhaseInv, ReleasedInv, Same
<1>7. CASE HandlePublishNew(m) \/ HandlePublishRepeated(m)
  <2>1. PICK r : r = Control(Down, m.peer, "RECEIVED", m.id)
    OBVIOUS
  <2>2. r = ReceivedOf(c) /\ r.peer = c /\ r.dir = Down
    BY <1>1, <1>2, <2>1 DEF ReceivedOf, Control
  <2>3. \A x \in Copies(m) : x.peer # c
    BY <1>1, CopiesElsewhere
  <2>4. Own(c)' = (Own(c) \ {m}) \cup {r}
    <3>1. CASE HandlePublishNew(m)
      <4>1. net' = (net \ {m}) \cup (Copies(m) \cup {r})
        BY <2>1, <3>1, TimelyAssumption DEF HandlePublishNew, Receive
      <4>2. \A x : x.peer = c => (x \in net' <=> (x \in net /\ x # m) \/ x = r)
        BY <2>3, <4>1
      <4> QED
        BY <1>1, <2>2, <4>2, OwnAnswered
    <3>2. CASE HandlePublishRepeated(m)
      <4>1. net' = (net \ {m}) \cup {r}
        BY <2>1, <3>2, TimelyAssumption DEF HandlePublishRepeated, Receive
      <4> QED
        BY <1>1, <2>2, <4>1, OwnAnswered
    <3> QED
      BY <1>7, <3>1, <3>2
  <2>5. pending'[KeyOf(m)] # "COMPLETED"
    <3>1. KeyOf(m) \in Key
      BY <1>1, AnswerNames DEF TypeOK, BrokerTypeOK, NetTypeOK, Key, KeyOf
    <3> QED
      BY <1>7, <3>1 DEF HandlePublishNew, HandlePublishRepeated, brokerVars, TypeOK, BrokerTypeOK
  <2>6. ReceivedInv(c)'
    BY <1>1, <1>3, <2>2, <2>4 DEF ReceivedInv, Same, Excused
  <2>7. ReleasedInv(c)'
    BY <1>1, <1>2, <1>3, <2>5 DEF ReleasedInv, KeyOf
  <2> QED
    BY <1>3, <1>4, <2>6, <2>7 DEF PublisherInv, PhaseInv, Same
<1> QED
  BY <1>6, <1>7

LEMMA BrokerAnswersRelease ==
    ASSUME TypeOK, UNCHANGED clientVars, NEW c \in Client \ Subscriber,
           lost'[c] = lost[c], PublisherInv(c), pc[c] = "complete", NEW m \in Own(c), m.dir = Up,
           HandleControlRelease(m)
    PROVE  PublisherInv(c)'
<1>1. CompleteInv(c) /\ m \in net /\ m.peer = c
  BY DEF PublisherInv, PhaseInv, Own
<1>2. m = ReleaseOf(c) /\ m.id = msg[c].id
  BY <1>1 DEF CompleteInv, CompleteOf, ReleaseOf, Control, Up, Down
<1>3. Same(c) /\ queue'[c] = queue[c] /\ EntryOf(c)' = EntryOf(c)
      /\ ReleaseOf(c)' = ReleaseOf(c) /\ CompleteOf(c)' = CompleteOf(c) /\ msg'[c] = msg[c]
  BY DEF clientVars, callVars, Same, EntryOf, ReleaseOf, CompleteOf
<1>4. RetryInv(c)'
  BY <1>3 DEF PublisherInv, RetryInv, Same, Busy
<1>5. PICK r : r = Control(Down, m.peer, "COMPLETE", m.id)
  OBVIOUS
<1>6. r = CompleteOf(c) /\ r.peer = c /\ r.dir = Down
  BY <1>1, <1>2, <1>5 DEF CompleteOf, Control
<1>7. net' = (net \ {m}) \cup {r}
  BY <1>5, TimelyAssumption DEF HandleControlRelease, Receive
<1>8. Own(c)' = (Own(c) \ {m}) \cup {r}
  BY <1>1, <1>6, <1>7, OwnAnswered
<1>9. CompleteInv(c)'
  BY <1>1, <1>3, <1>6, <1>8 DEF CompleteInv, Same, Excused
<1>10. ReleasedInv(c)'
  BY <1>1, <1>3 DEF ReleasedInv, CompleteInv
<1> QED
  BY <1>3, <1>4, <1>9, <1>10 DEF PublisherInv, PhaseInv, Same

LEMMA BrokerForPublisher ==
    ASSUME UniqueIds, TypeOK, CallInv, SubscriberInv, BrokerTurn, NEW c \in Client \ Subscriber,
           lost'[c] = lost[c], PublisherInv(c)
    PROVE  PublisherInv(c)'
<1>0. BrokerStep /\ UNCHANGED clientVars
  BY DEF BrokerTurn
<1>1. PICK m \in net :
        /\ m.dir = Up
        /\ \/ HandleSubscribe(m)
           \/ HandlePublishQos0(m)
           \/ HandlePublishQos1(m)
           \/ HandlePublishNew(m)
           \/ HandlePublishRepeated(m)
           \/ HandlePublishCompleted(m)
           \/ HandleControlRelease(m)
           \/ HandleControlReceived(m)
           \/ HandleUnknown(m)
        /\ m.peer # c => \A x : x.peer = c => (x \in net' <=> x \in net)
        /\ m.peer # c => \A i \in MsgId : pending'[<<c, i>>] = pending[<<c, i>>]
  BY <1>0, NetOfBroker
<1>2. CASE m.peer # c
  BY <1>0, <1>1, <1>2, OtherPeer
<1>3. CASE m.peer = c /\ Stray(m)
  <2>1. HandlePublishQos0(m)
    BY <1>1, <1>3 DEF Stray, HandleSubscribe, HandlePublishQos1, HandlePublishNew,
       HandlePublishRepeated, HandlePublishCompleted, HandleControlRelease,
       HandleControlReceived, HandleUnknown
  <2>2. net' = (net \ {m}) \cup Copies(m) /\ pending' = pending
    BY <2>1, TimelyAssumption DEF HandlePublishQos0, Receive
  <2>3. \A x : x.peer = c => (x \in net' <=> x \in net /\ x # m)
    BY <1>3, <2>2, CopiesElsewhere DEF Stray
  <2>4. Own(c)' = Own(c) \ {m}
    BY <2>3, OwnDropped
  <2>5. Own(c)' = Own(c)
    BY <1>3, <2>4 DEF Own
  <2>6. Same(c) /\ queue'[c] = queue[c] /\ EntryOf(c)' = EntryOf(c)
    BY <1>0 DEF clientVars, callVars, Same, EntryOf
  <2> QED
    BY <2>2, <2>5, <2>6, Untouched
<1>4. CASE m.peer = c /\ ~Stray(m)
  <2>1. m \in Own(c)
    BY <1>4 DEF Own
  <2>2. pc[c] \in {"ack", "received", "complete"}
    <3>1. pc[c] \in Location
      BY DEF TypeOK, ClientTypeOK, CallTypeOK
    <3> QED
      BY <2>1, <3>1 DEF PublisherInv, PhaseInv, RestInv, Location
  <2>3. CASE pc[c] = "ack"
    <3>1. AckInv(c) /\ msg[c].type = "PUBLISH"
      BY <2>3 DEF PublisherInv, PhaseInv, CallInv, Busy, PublishMsg
    <3>2. m = msg[c]
      BY <1>1, <2>1, <3>1 DEF AckInv, AckOf, Ack, Up, Down
    <3>3. HandlePublishQos1(m)
      BY <1>1, <3>1, <3>2 DEF AckInv, HandleSubscribe, HandlePublishQos0, HandlePublishNew,
         HandlePublishRepeated, HandlePublishCompleted, HandleControlRelease,
         HandleControlReceived, HandleUnknown
    <3> QED
      BY <1>0, <1>1, <2>1, <2>3, <3>3, BrokerAnswersAck
  <2>4. CASE pc[c] = "received"
    <3>1. ReceivedInv(c) /\ msg[c].type = "PUBLISH"
      BY <2>4 DEF PublisherInv, PhaseInv, CallInv, Busy, PublishMsg
    <3>2. m = msg[c]
      BY <1>1, <2>1, <3>1 DEF ReceivedInv, ReceivedOf, Control, Up, Down
    <3>3. HandlePublishNew(m) \/ HandlePublishRepeated(m) \/ HandlePublishCompleted(m)
      BY <1>1, <3>1, <3>2 DEF ReceivedInv, HandleSubscribe, HandlePublishQos0, HandlePublishQos1,
         HandleControlRelease, HandleControlReceived, HandleUnknown
    <3> QED
      BY <1>0, <1>1, <2>1, <2>4, <3>3, BrokerAnswersPublish
  <2>5. CASE pc[c] = "complete"
    <3>1. CompleteInv(c)
      BY <2>5 DEF PublisherInv, PhaseInv
    <3>2. m.type = "CONTROL" /\ m.ctrl = "RELEASE"
      BY <1>1, <2>1, <3>1 DEF CompleteInv, ReleaseOf, CompleteOf, Control, Up, Down
    <3>3. HandleControlRelease(m)
      BY <1>1, <3>2 DEF HandleSubscribe, HandlePublishQos0, HandlePublishQos1, HandlePublishNew,
         HandlePublishRepeated, HandlePublishCompleted, HandleControlReceived, HandleUnknown
    <3> QED
      BY <1>0, <1>1, <2>1, <2>5, <3>3, BrokerAnswersRelease
  <2> QED
    BY <2>2, <2>3, <2>4, <2>5
<1> QED
  BY <1>2, <1>3, <1>4

-----------------------------------------------------------------------------
(* The network loses a datagram of the publisher. *)

LEMMA LossForPublisher ==
    ASSUME UniqueIds, TypeOK, CallInv, TimelyLoss, lost \in [Client -> Nat], NEW c \in Client,
           PublisherInv(c)
    PROVE  PublisherInv(c)'
<1>1. PICK m \in net :
        /\ m.peer \in Publisher
        /\ lost[m.peer] < MaxRetries
        /\ lost' = [lost EXCEPT ![m.peer] = @ + 1]
        /\ net' = net \ {m}
        /\ UNCHANGED <<brokerVars, clientVars>>
  BY DEF TimelyLoss, Lose
<1>2. CASE m.peer # c
  <2>1. lost'[c] = lost[c] /\ pending' = pending
    BY <1>1, <1>2 DEF brokerVars
  <2>2. \A x : x.peer = c => (x \in net' <=> x \in net)
    BY <1>1, <1>2
  <2> QED
    BY <1>1, <2>1, <2>2, OtherPeer
<1>3. CASE m.peer = c
  <2>1. lost'[c] = lost[c] + 1 /\ lost[c] < MaxRetries /\ lost[c] \in Nat
    BY <1>1, <1>3
  <2>2. Same(c) /\ queue'[c] = queue[c] /\ EntryOf(c)' = EntryOf(c) /\ AckOf(c)' = AckOf(c)
        /\ ReceivedOf(c)' = ReceivedOf(c)
        /\ ReleaseOf(c)' = ReleaseOf(c) /\ CompleteOf(c)' = CompleteOf(c) /\ msg'[c] = msg[c]
    BY <1>1 DEF clientVars, callVars, Same, EntryOf, ReleaseOf, CompleteOf, AckOf, ReceivedOf
  <2>3. retries[c] \in Nat /\ retries[c] <= lost[c]
    BY DEF PublisherInv, RetryInv, TypeOK, ClientTypeOK, CallTypeOK
  <2>4. Excused(c)' /\ RetryInv(c)'
    BY <2>1, <2>2, <2>3, ClientAssumption DEF PublisherInv, RetryInv, Same, Busy, Excused
  <2>5. Own(c)' \subseteq Own(c)
    BY <1>1 DEF Own
  <2>6. ReleasedInv(c)'
    BY <1>1, <2>2 DEF PublisherInv, ReleasedInv, Same, Busy, brokerVars
  <2>7. RestInv(c) => RestInv(c)'
    BY <2>2, <2>5 DEF RestInv
  <2>8. AckInv(c) => AckInv(c)'
    BY <2>2, <2>4, <2>5 DEF AckInv, Same
  <2>9. ReceivedInv(c) => ReceivedInv(c)'
    BY <2>2, <2>4, <2>5 DEF ReceivedInv, Same
  <2>10. CompleteInv(c) => CompleteInv(c)'
    BY <2>2, <2>4, <2>5 DEF CompleteInv, Same
  <2>11. PhaseInv(c)'
    BY <2>2, <2>7, <2>8, <2>9, <2>10 DEF PublisherInv, PhaseInv, Same
  <2> QED
    BY <2>4, <2>6, <2>11 DEF PublisherInv
<1> QED
  BY <1>2, <1>3

-----------------------------------------------------------------------------
(* The publisher's own steps. *)

LEMMA QuietOwn ==
    ASSUME NEW c, Quiet(c)
    PROVE  Own(c) = {}
  BY DEF Quiet, Own

\* A call returns when nothing of it is under way.
LEMMA Returns ==
    ASSUME TypeOK, NEW c \in Client, PublisherInv(c), lost'[c] = lost[c], Own(c)' = {},
           queue'[c] = <<>>, NEW o, Return(c, o)
    PROVE  PublisherInv(c)'
<1>1. pc'[c] = "idle" /\ retries'[c] = 0
  BY DEF Return, TypeOK, ClientTypeOK, CallTypeOK
<1>2. RestInv(c)' /\ ~Busy(c)'
  BY <1>1 DEF RestInv, Busy
<1>3. RetryInv(c)'
  BY <1>1, ClientAssumption DEF PublisherInv, RetryInv
<1> QED
  BY <1>1, <1>2, <1>3 DEF PublisherInv, PhaseInv, ReleasedInv

\* What a step inside the call leaves alone.
LEMMA InCall ==
    ASSUME TypeOK, NEW c \in Client, UNCHANGED <<table, pending>>, msg'[c] = msg[c],
           Busy(c), PublisherInv(c)
    PROVE  /\ EntryOf(c)' = EntryOf(c) /\ AckOf(c)' = AckOf(c) /\ ReceivedOf(c)' = ReceivedOf(c)
           /\ ReleaseOf(c)' = ReleaseOf(c) /\ CompleteOf(c)' = CompleteOf(c)
           /\ ReleasedInv(c)'
<1>1. EntryOf(c)' = EntryOf(c) /\ AckOf(c)' = AckOf(c) /\ ReceivedOf(c)' = ReceivedOf(c)
      /\ ReleaseOf(c)' = ReleaseOf(c) /\ CompleteOf(c)' = CompleteOf(c)
  BY DEF EntryOf, AckOf, ReceivedOf, ReleaseOf, CompleteOf
<1> QED
  BY <1>1 DEF PublisherInv, ReleasedInv

LEMMA GoesTo ==
    ASSUME TypeOK, NEW c \in Client, NEW l, GoTo(c, l)
    PROVE  pc'[c] = l /\ polls'[c] = 0 /\ msg'[c] = msg[c] /\ result' = result
  BY DEF GoTo, TypeOK, ClientTypeOK, CallTypeOK

\* Going back to the head of the loop makes up for a loss.
LEMMA Retries ==
    ASSUME TypeOK, NEW c \in Client, PublisherInv(c), Busy(c), lost'[c] = lost[c],
           UNCHANGED pending, Retry(c), Excused(c), Own(c) = {}, queue[c] = <<>>,
           msg[c].qos = 2 => EntryOf(c) # "COMPLETED"
    PROVE  PublisherInv(c)'
<1>1. GoTo(c, "send") /\ UNCHANGED <<net, queue, table>>
      /\ retries' = [retries EXCEPT ![c] = @ + 1]
  BY DEF Retry
<1>2. pc'[c] = "send" /\ msg'[c] = msg[c]
  BY <1>1, GoesTo
<1>3. EntryOf(c)' = EntryOf(c) /\ ReleasedInv(c)'
  BY <1>1, <1>2, InCall
<1>4. retries'[c] = retries[c] + 1 /\ retries[c] \in Nat
  BY <1>1 DEF TypeOK, ClientTypeOK, CallTypeOK
<1>5. RetryInv(c)'
  BY <1>2, <1>4, ClientAssumption DEF PublisherInv, RetryInv, Excused, Busy
<1>6. RestInv(c)'
  BY <1>1 DEF RestInv, Own
<1> QED
  BY <1>2, <1>3, <1>5, <1>6 DEF PublisherInv, PhaseInv

LEMMA SendPublishKeeps ==
    ASSUME TypeOK, CallInv, NEW c \in Client, PublisherInv(c), lost'[c] = lost[c],
           UNCHANGED pending, SendPublish(c)
    PROVE  PublisherInv(c)'
<1>1. /\ pc[c] = "send" /\ Busy(c) /\ RestInv(c)
      /\ net' = net \cup {msg[c]} /\ UNCHANGED <<queue, table>>
  BY DEF SendPublish, Send, PublisherInv, PhaseInv, Busy
<1>2. msg[c].type = "PUBLISH" /\ msg[c].dir = Up /\ msg[c].peer = c /\ msg[c].qos \in Qos
  BY <1>1 DEF CallInv, PublishMsg
<1>3. Own(c) = {} /\ queue[c] = <<>> /\ queue'[c] = <<>>
  BY <1>1 DEF RestInv
<1>4. CASE msg[c].qos = 0
  <2>1. Own(c)' = {}
    BY <1>1, <1>2, <1>3, <1>4 DEF Own, Stray
  <2>2. Return(c, "sent")
    BY <1>4 DEF SendPublish
  <2> QED
    BY <1>3, <2>1, <2>2, Returns
<1>5. CASE msg[c].qos # 0
  <2>1. retries' = retries /\ GoTo(c, AfterSend(msg[c].qos))
    BY <1>5 DEF SendPublish
  <2>2. pc'[c] = AfterSend(msg[c].qos) /\ polls'[c] = 0 /\ msg'[c] = msg[c]
    BY <2>1, GoesTo
  <2>3. Busy(c)'
    BY <1>5, <2>2 DEF AfterSend, Busy
  <2>4. /\ EntryOf(c)' = EntryOf(c) /\ AckOf(c)' = AckOf(c) /\ ReceivedOf(c)' = ReceivedOf(c)
        /\ ReleasedInv(c)'
    BY <1>1, <2>2, InCall
  <2>5. RetryInv(c)'
    BY <1>1, <2>1, <2>3 DEF PublisherInv, RetryInv
  <2>6. CASE msg[c].qos \in {1, 2}
    <3>1. Own(c)' = {msg[c]}
      BY <1>1, <1>2, <1>3, <2>6 DEF Own, Stray
    <3>2. CASE msg[c].qos = 1
      <4>1. pc'[c] = "ack"
        BY <2>2, <3>2 DEF AfterSend
      <4>2. AckInv(c)'
        BY <1>3, <2>2, <2>4, <3>1, <3>2 DEF AckInv
      <4> QED
        BY <2>4, <2>5, <4>1, <4>2 DEF PublisherInv, PhaseInv
    <3>3. CASE msg[c].qos = 2
      <4>1. pc'[c] = "received"
        BY <2>2, <3>3 DEF AfterSend
      <4>2. EntryOf(c) # "COMPLETED"
        BY <1>1, <3>3 DEF PublisherInv, PhaseInv
      <4>3. ReceivedInv(c)'
        BY <1>3, <2>2, <2>4, <3>1, <3>3, <4>2 DEF ReceivedInv
      <4> QED
        BY <2>4, <2>5, <4>1, <4>3 DEF PublisherInv, PhaseInv
    <3> QED
      BY <2>6, <3>2, <3>3
  <2>7. CASE msg[c].qos \notin {1, 2}
    <3>1. Own(c)' = {}
      BY <1>1, <1>2, <1>3, <2>7 DEF Own, Stray
    <3>2. pc'[c] = "send" /\ RestInv(c)'
      BY <1>3, <2>2, <2>7, <3>1 DEF AfterSend, RestInv
    <3>3. PhaseInv(c)'
      BY <2>2, <2>7, <3>2 DEF PhaseInv
    <3> QED
      BY <2>4, <2>5, <3>3 DEF PublisherInv
  <2> QED
    BY <2>6, <2>7
<1> QED
  BY <1>4, <1>5

LEMMA PollsAgain ==
    ASSUME TypeOK, NEW c \in Client, PublisherInv(c), Busy(c), lost'[c] = lost[c],
           UNCHANGED pending, PollAgain(c)
    PROVE  /\ pc'[c] = pc[c] /\ msg'[c] = msg[c] /\ retries'[c] = retries[c]
           /\ polls'[c] = polls[c] + 1 /\ queue'[c] = queue[c] /\ Own(c)' = Own(c)
           /\ EntryOf(c)' = EntryOf(c) /\ AckOf(c)' = AckOf(c) /\ ReceivedOf(c)' = ReceivedOf(c)
           /\ ReleaseOf(c)' = ReleaseOf(c) /\ CompleteOf(c)' = CompleteOf(c)
           /\ ReleasedInv(c)' /\ RetryInv(c)' /\ (Excused(c) => Excused(c)')
           /\ result' = result
<1>1. /\ polls' = [polls EXCEPT ![c] = @ + 1]
      /\ UNCHANGED <<net, queue, table, pc, msg, retries, result>>
  BY DEF PollAgain
<1>2. polls'[c] = polls[c] + 1
  BY <1>1 DEF TypeOK, ClientTypeOK, CallTypeOK
<1>3. /\ EntryOf(c)' = EntryOf(c) /\ AckOf(c)' = AckOf(c) /\ ReceivedOf(c)' = ReceivedOf(c)
      /\ ReleaseOf(c)' = ReleaseOf(c) /\ CompleteOf(c)' = CompleteOf(c)
      /\ ReleasedInv(c)'
  BY <1>1, InCall
<1>4. RetryInv(c)' /\ (Excused(c) => Excused(c)')
  BY <1>1 DEF PublisherInv, RetryInv, Busy, Excused
<1>5. Own(c)' = Own(c)
  BY <1>1 DEF Own
<1> QED
  BY <1>1, <1>2, <1>3, <1>4, <1>5

LEMMA PollAckKeeps ==
    ASSUME TypeOK, NEW c \in Client, PublisherInv(c), lost'[c] = lost[c],
           UNCHANGED pending, Quiet(c), PollAck(c)
    PROVE  PublisherInv(c)'
<1>1. pc[c] = "ack" /\ Busy(c) /\ AckInv(c) /\ Own(c) = {} /\ polls[c] \in Nat
  BY QuietOwn DEF PollAck, PublisherInv, PhaseInv, Busy, TypeOK, ClientTypeOK, CallTypeOK
<1>2. CASE AckPositions(queue[c], msg[c].id) # {}
  <2>1. /\ queue' = [queue EXCEPT ![c] = TakeAck(@, msg[c].id)]
        /\ Return(c, "ok") /\ net' = net
    BY <1>2 DEF PollAck
  <2>2. queue[c] # <<>>
    BY <1>2 DEF AckPositions
  <2>3. Len(queue[c]) = 1
    BY <1>1, <2>2 DEF AckInv
  <2>4. queue[c] \in Seq(Event) /\ queue'[c] = TakeAck(queue[c], msg[c].id)
    BY <2>1 DEF TypeOK, ClientTypeOK, QueueTypeOK
  <2>5. PICK q : q = queue'[c]
    OBVIOUS
  <2>6. q \in Seq(Event) /\ Len(q) = 0
    BY <1>2, <2>3, <2>4, <2>5, TakeAckFacts
  <2>7. queue'[c] = <<>>
    BY <2>5, <2>6, EmptySeq
  <2>8. Own(c)' = {}
    BY <1>1, <2>1 DEF Own
  <2> QED
    BY <2>1, <2>7, <2>8, Returns
<1>3. CASE AckPositions(queue[c], msg[c].id) = {}
  <2>1. PollAgain(c)
    BY <1>3 DEF PollAck
  <2>2. queue[c] = <<>>
    <3> SUFFICES ASSUME queue[c] # <<>> PROVE FALSE
      OBVIOUS
    <3>1. Len(queue[c]) = 1 /\ queue[c][1].type = "ACK" /\ queue[c][1].id = msg[c].id
      BY <1>1 DEF AckInv
    <3>2. 1 \in AckPositions(queue[c], msg[c].id)
      BY <3>1 DEF AckPositions
    <3> QED
      BY <1>3, <3>2
  <2>3. Excused(c)
    BY <1>1, <2>2 DEF AckInv
  <2>4. /\ pc'[c] = pc[c] /\ msg'[c] = msg[c] /\ polls'[c] = polls[c] + 1
        /\ queue'[c] = queue[c] /\ Own(c)' = Own(c) /\ AckOf(c)' = AckOf(c)
        /\ ReleasedInv(c)' /\ RetryInv(c)' /\ Excused(c)'
    BY <1>1, <2>1, <2>3, PollsAgain
  <2>5. AckInv(c)'
    BY <1>1, <2>2, <2>4 DEF AckInv
  <2> QED
    BY <1>1, <2>4, <2>5 DEF PublisherInv, PhaseInv
<1> QED
  BY <1>2, <1>3

LEMMA AckTimeoutKeeps ==
    ASSUME TypeOK, NEW c \in Client, PublisherInv(c), lost'[c] = lost[c], Polls > 0,
           UNCHANGED pending, AckTimeout(c)
    PROVE  PublisherInv(c)'
<1>1. pc[c] = "ack" /\ Busy(c) /\ AckInv(c) /\ polls[c] >= Polls /\ polls[c] \in Nat /\ Retry(c)
  BY DEF AckTimeout, PublisherInv, PhaseInv, Busy, TypeOK, ClientTypeOK, CallTypeOK
<1>2. polls[c] > 0
  BY <1>1, ClientAssumption
<1>3. Excused(c) /\ Own(c) = {} /\ queue[c] = <<>> /\ msg[c].qos = 1
  BY <1>1, <1>2 DEF AckInv
<1> QED
  BY <1>1, <1>3, Retries

LEMMA PollReceivedKeeps ==
    ASSUME TypeOK, NEW c \in Client, PublisherInv(c), lost'[c] = lost[c],
           UNCHANGED pending, Quiet(c), PollReceived(c)
    PROVE  PublisherInv(c)'
<1>1. pc[c] = "received" /\ Busy(c) /\ ReceivedInv(c) /\ Own(c) = {} /\ polls[c] \in Nat
  BY QuietOwn DEF PollReceived, PublisherInv, PhaseInv, Busy, TypeOK, ClientTypeOK, CallTypeOK
<1>2. CASE EntryOf(c) = "WAIT_COMPLETE"
  <2>1. GoTo(c, "check") /\ UNCHANGED <<net, queue, table, retries>>
    BY <1>2 DEF PollReceived
  <2>2. pc'[c] = "check" /\ msg'[c] = msg[c]
    BY <2>1, GoesTo
  <2>3. EntryOf(c)' = EntryOf(c) /\ ReleasedInv(c)'
    BY <1>1, <2>1, <2>2, InCall
  <2>4. RetryInv(c)'
    BY <1>1, <2>1, <2>2 DEF PublisherInv, RetryInv, Busy
  <2>5. RestInv(c)'
    BY <1>1, <2>1 DEF RestInv, ReceivedInv, Own
  <2> QED
    BY <1>1, <1>2, <2>2, <2>3, <2>4, <2>5 DEF PublisherInv, PhaseInv, ReceivedInv
<1>3. CASE EntryOf(c) # "WAIT_COMPLETE"
  <2>1. PollAgain(c)
    BY <1>3 DEF PollReceived
  <2>2. Excused(c)
    BY <1>1, <1>3 DEF ReceivedInv
  <2>3. /\ pc'[c] = pc[c] /\ msg'[c] = msg[c]
        /\ queue'[c] = queue[c] /\ Own(c)' = Own(c) /\ ReceivedOf(c)' = ReceivedOf(c)
        /\ EntryOf(c)' = EntryOf(c) /\ ReleasedInv(c)' /\ RetryInv(c)' /\ Excused(c)'
    BY <1>1, <2>1, <2>2, PollsAgain
  <2>4. ReceivedInv(c)'
    BY <1>1, <2>3 DEF ReceivedInv
  <2> QED
    BY <1>1, <2>3, <2>4 DEF PublisherInv, PhaseInv
<1> QED
  BY <1>2, <1>3

\* Where the entry is read after the first wait.
LEMMA AtCheck ==
    ASSUME TypeOK, NEW c \in Client, PublisherInv(c), Polls > 0, Quiet(c), Checking(c)
    PROVE  /\ Busy(c) /\ pc[c] \in {"check", "received"} /\ msg[c].qos = 2
           /\ queue[c] = <<>> /\ Own(c) = {} /\ EntryOf(c) # "COMPLETED"
           /\ Excused(c) \/ EntryOf(c) = "WAIT_COMPLETE"
<1>1. Own(c) = {} /\ Busy(c) /\ pc[c] \in {"check", "received"}
  BY QuietOwn DEF Checking, Busy
<1>2. CASE pc[c] = "check"
  BY <1>1, <1>2 DEF PublisherInv, PhaseInv, RestInv
<1>3. CASE pc[c] = "received"
  <2>1. polls[c] \in Nat /\ polls[c] >= Polls
    BY <1>3 DEF Checking, TypeOK, ClientTypeOK, CallTypeOK
  <2>2. polls[c] > 0
    BY <2>1, ClientAssumption
  <2> QED
    BY <1>1, <1>3, <2>2 DEF PublisherInv, PhaseInv, ReceivedInv
<1> QED
  BY <1>1, <1>2, <1>3

LEMMA SendReleaseKeeps ==
    ASSUME TypeOK, NEW c \in Client, PublisherInv(c), lost'[c] = lost[c], Polls > 0,
           UNCHANGED pending, Quiet(c), SendRelease(c)
    PROVE  PublisherInv(c)'
<1>1. /\ Busy(c) /\ msg[c].qos = 2 /\ queue[c] = <<>> /\ Own(c) = {}
      /\ EntryOf(c) = "WAIT_COMPLETE"
  BY AtCheck DEF SendRelease
<1>2. GoTo(c, "complete") /\ UNCHANGED <<queue, table, retries>> /\ net' = net \cup {ReleaseOf(c)}
  BY DEF SendRelease, Send, ReleaseOf
<1>3. pc'[c] = "complete" /\ polls'[c] = 0 /\ msg'[c] = msg[c]
  BY <1>2, GoesTo
<1>4. /\ EntryOf(c)' = EntryOf(c) /\ ReleaseOf(c)' = ReleaseOf(c) /\ CompleteOf(c)' = CompleteOf(c)
      /\ ReleasedInv(c)'
  BY <1>1, <1>2, <1>3, InCall
<1>5. RetryInv(c)'
  BY <1>1, <1>2, <1>3 DEF PublisherInv, RetryInv, Busy
<1>6. Own(c)' = {ReleaseOf(c)}
  <2>1. ReleaseOf(c).peer = c /\ ReleaseOf(c).type = "CONTROL"
    BY DEF ReleaseOf, Control
  <2> QED
    BY <1>1, <1>2, <2>1 DEF Own, Stray
<1>7. CompleteInv(c)'
  BY <1>1, <1>2, <1>3, <1>4, <1>6 DEF CompleteInv
<1> QED
  BY <1>3, <1>4, <1>5, <1>7 DEF PublisherInv, PhaseInv

LEMMA ReceivedTimeoutKeeps ==
    ASSUME TypeOK, NEW c \in Client, PublisherInv(c), lost'[c] = lost[c], Polls > 0,
           UNCHANGED pending, Quiet(c), ReceivedTimeout(c)
    PROVE  PublisherInv(c)'
<1>1. Checking(c) /\ EntryOf(c) # "WAIT_COMPLETE" /\ Retry(c)
  BY DEF ReceivedTimeout
<1>2. Busy(c) /\ queue[c] = <<>> /\ Own(c) = {} /\ EntryOf(c) # "COMPLETED" /\ Excused(c)
  BY <1>1, AtCheck
<1> QED
  BY <1>1, <1>2, Retries

LEMMA PollCompleteKeeps ==
    ASSUME TypeOK, NEW c \in Client, PublisherInv(c), lost'[c] = lost[c],
           UNCHANGED pending, Quiet(c), PollComplete(c)
    PROVE  PublisherInv(c)'
<1>1. pc[c] = "complete" /\ Busy(c) /\ CompleteInv(c) /\ Own(c) = {} /\ polls[c] \in Nat
  BY QuietOwn DEF PollComplete, PublisherInv, PhaseInv, Busy, TypeOK, ClientTypeOK, CallTypeOK
<1>2. CASE EntryOf(c) = "COMPLETED"
  <2>1. GoTo(c, "remove") /\ UNCHANGED <<net, queue, table, retries>>
    BY <1>2 DEF PollComplete
  <2>2. pc'[c] = "remove" /\ msg'[c] = msg[c]
    BY <2>1, GoesTo
  <2>3. EntryOf(c)' = EntryOf(c) /\ ReleasedInv(c)'
    BY <1>1, <2>1, <2>2, InCall
  <2>4. RetryInv(c)'
    BY <1>1, <2>1, <2>2 DEF PublisherInv, RetryInv, Busy
  <2>5. RestInv(c)'
    BY <1>1, <2>1 DEF RestInv, CompleteInv, Own
  <2> QED
    BY <1>1, <1>2, <2>2, <2>3, <2>4, <2>5 DEF PublisherInv, PhaseInv, CompleteInv
<1>3. CASE EntryOf(c) # "COMPLETED"
  <2>1. PollAgain(c)
    BY <1>3 DEF PollComplete
  <2>2. Excused(c)
    BY <1>1, <1>3 DEF CompleteInv
  <2>3. /\ pc'[c] = pc[c] /\ msg'[c] = msg[c]
        /\ queue'[c] = queue[c] /\ Own(c)' = Own(c)
        /\ ReleaseOf(c)' = ReleaseOf(c) /\ CompleteOf(c)' = CompleteOf(c)
        /\ EntryOf(c)' = EntryOf(c) /\ ReleasedInv(c)' /\ RetryInv(c)' /\ Excused(c)'
    BY <1>1, <2>1, <2>2, PollsAgain
  <2>4. CompleteInv(c)'
    BY <1>1, <1>3, <2>3 DEF CompleteInv
  <2> QED
    BY <1>1, <2>3, <2>4 DEF PublisherInv, PhaseInv
<1> QED
  BY <1>2, <1>3

LEMMA CompleteTimeoutKeeps ==
    ASSUME TypeOK, NEW c \in Client, PublisherInv(c), lost'[c] = lost[c], Polls > 0,
           UNCHANGED pending, CompleteTimeout(c)
    PROVE  PublisherInv(c)'
<1>1. /\ pc[c] = "complete" /\ Busy(c) /\ CompleteInv(c)
      /\ polls[c] >= Polls /\ polls[c] \in Nat /\ Retry(c)
  BY DEF CompleteTimeout, PublisherInv, PhaseInv, Busy, TypeOK, ClientTypeOK, CallTypeOK
<1>2. polls[c] > 0
  BY <1>1, ClientAssumption
<1>3. Excused(c) /\ Own(c) = {} /\ queue[c] = <<>> /\ EntryOf(c) # "COMPLETED"
  BY <1>1, <1>2 DEF CompleteInv
<1> QED
  BY <1>1, <1>3, Retries

LEMMA RemoveEntryKeeps ==
    ASSUME TypeOK, NEW c \in Client, PublisherInv(c), lost'[c] = lost[c], RemoveEntry(c)
    PROVE  PublisherInv(c)'
<1>1. RestInv(c) /\ Return(c, "ok") /\ UNCHANGED <<net, queue>>
  BY DEF RemoveEntry, PublisherInv, PhaseInv
<1>2. Own(c)' = {} /\ queue'[c] = <<>>
  BY <1>1 DEF RestInv, Own
<1> QED
  BY <1>1, <1>2, Returns

\* The running call: its message is sent while retries are left, and they are.
LEMMA PublishStepKeeps ==
    ASSUME TypeOK, CallInv, NEW c \in Client, PublisherInv(c), Polls > 0, TimelyPublishStep(c)
    PROVE  PublisherInv(c)' /\ ~PublishFails(c)
<1>1. lost'[c] = lost[c] /\ UNCHANGED pending
  BY DEF TimelyPublishStep, brokerVars
<1>2. CASE pc[c] = "send"
  <2>1. retries[c] <= MaxRetries
    BY ClientAssumption DEF PublisherInv, RetryInv, TypeOK, ClientTypeOK, CallTypeOK
  <2>2. SendPublish(c)
    BY <1>2, <2>1 DEF TimelyPublishStep
  <2>3. ~PublishFails(c)
    <3> SUFFICES ASSUME PublishFails(c) PROVE FALSE
      OBVIOUS
    <3>1. Return(c, "failed")
      BY DEF PublishFails
    <3>2. ThisCall(c) \in Data
      BY <1>2, NetworkAssumption DEF CallInv, Busy, ThisCall, Data, TypeOK, ClientTypeOK,
         SessionTypeOK
    <3>3. result'[ThisCall(c)] = "failed"
      BY <3>1, <3>2 DEF Return, TypeOK, ClientTypeOK, HistoryTypeOK
    <3>4. pc'[c] = "idle"
      BY <3>1 DEF Return, TypeOK, ClientTypeOK, CallTypeOK
    <3>5. CASE Return(c, "sent")
      BY <3>2, <3>3, <3>5 DEF Return, TypeOK, ClientTypeOK, HistoryTypeOK
    <3>6. CASE GoTo(c, AfterSend(msg[c].qos))
      BY <3>4, <3>6, GoesTo DEF AfterSend
    <3> QED
      BY <2>2, <3>5, <3>6 DEF SendPublish
  <2> QED
    BY <1>1, <2>2, <2>3, SendPublishKeeps
<1>3. CASE pc[c] # "send"
  <2>1. Quiet(c) /\ PublishStep(c) /\ ~PublishFails(c) /\ ~SendPublish(c)
    BY <1>3 DEF TimelyPublishStep, PublishFails, SendPublish
  <2> QED
    BY <1>1, <2>1, PollAckKeeps, AckTimeoutKeeps, PollReceivedKeeps, SendReleaseKeeps,
       ReceivedTimeoutKeeps, PollCompleteKeeps, CompleteTimeoutKeeps, RemoveEntryKeeps
       DEF PublishStep
<1> QED
  BY <1>2, <1>3

\* listener_loop takes the answer that the call waits for.
LEMMA ListenerKeeps ==
    ASSUME TypeOK, CallInv, NEW c \in Client, PublisherInv(c), lost'[c] = lost[c],
           UNCHANGED brokerVars, Listener(c)
    PROVE  PublisherInv(c)'
<1>1. PICK m \in net :
        /\ m.dir = Down /\ m.peer = c
        /\ Receive(m, {})
        /\ ListenEvent(c, m) \/ ListenControl(c, m)
        /\ UNCHANGED <<callVars, result>>
  BY DEF Listener
<1>2. m \in Own(c) /\ net' = net \ {m}
  BY <1>1, TimelyAssumption DEF Own, Stray, Up, Down, Receive
<1>3. Own(c)' = Own(c) \ {m}
  BY <1>2 DEF Own
<1>4. pc[c] \in {"ack", "received", "complete"}
  <2>1. pc[c] \in Location
    BY DEF TypeOK, ClientTypeOK, CallTypeOK
  <2> QED
    BY <1>2, <2>1 DEF PublisherInv, PhaseInv, RestInv, Location
<1>5. Same(c) /\ pending' = pending /\ msg'[c] = msg[c]
  BY <1>1 DEF callVars, Same, brokerVars
<1>6. RetryInv(c)' /\ Busy(c) /\ msg[c].dir = Up /\ msg[c].id \in MsgId
  BY <1>4, <1>5 DEF PublisherInv, RetryInv, Same, Busy, CallInv, PublishMsg
<1>7. AckOf(c)' = AckOf(c) /\ ReceivedOf(c)' = ReceivedOf(c)
      /\ ReleaseOf(c)' = ReleaseOf(c) /\ CompleteOf(c)' = CompleteOf(c)
  BY <1>5 DEF AckOf, ReceivedOf, ReleaseOf, CompleteOf
<1>8. /\ queue \in [Client -> Seq(Event)] /\ table \in [Process -> [MsgId -> TableState]]
      /\ ProcessOf[c] \in Process
  BY ClientAssumption DEF TypeOK, ClientTypeOK, QueueTypeOK, TableTypeOK
<1>9. CASE pc[c] = "ack"
  <2>1. AckInv(c)
    BY <1>9 DEF PublisherInv, PhaseInv
  <2>2. m = AckOf(c)
    BY <1>1, <1>2, <1>6, <2>1 DEF AckInv, Up, Down
  <2>3. m.type = "ACK" /\ m.id = msg[c].id
    BY <2>2 DEF AckOf, Ack
  <2>4. PICK e : e = [type |-> m.type, id |-> m.id,
                      data |-> IF m.type = "ACK" THEN NoData ELSE m.data]
    OBVIOUS
  <2>5. e.type = "ACK" /\ e.id = msg[c].id
    BY <2>3, <2>4
  <2>6. queue' = [queue EXCEPT ![c] = Push(@, e)]
    BY <1>1, <2>3, <2>4 DEF ListenEvent, ListenControl
  <2>7. queue[c] = <<>> /\ Own(c)' = {} /\ ~(polls[c] > 0)
    BY <1>2, <1>3, <2>1 DEF AckInv
  <2>8. queue'[c] = Append(<<>>, e)
    BY <1>8, <2>6, <2>7, QueueAssumption DEF Push
  <2>9. Len(queue'[c]) = 1 /\ queue'[c][1] = e /\ queue'[c] # <<>>
    BY <2>8
  <2>10. AckInv(c)'
    BY <1>5, <1>7, <2>1, <2>5, <2>7, <2>9 DEF AckInv, Same
  <2> QED
    BY <1>5, <1>6, <1>9, <2>1, <2>10 DEF PublisherInv, PhaseInv, ReleasedInv, AckInv, Same
<1>10. CASE pc[c] = "received"
  <2>1. ReceivedInv(c)
    BY <1>10 DEF PublisherInv, PhaseInv
  <2>2. m = ReceivedOf(c)
    BY <1>1, <1>2, <1>6, <2>1 DEF ReceivedInv, Up, Down
  <2>3. m.type = "CONTROL" /\ m.id = msg[c].id /\ m.ctrl = "RECEIVED"
    BY <2>2 DEF ReceivedOf, Control
  <2>4. queue' = queue /\ table' = [table EXCEPT ![ProcessOf[c]][m.id] = "WAIT_COMPLETE"]
    BY <1>1, <2>3 DEF ListenEvent, ListenControl
  <2>5. EntryOf(c)' = "WAIT_COMPLETE"
    BY <1>5, <1>6, <1>8, <2>3, <2>4 DEF EntryOf
  <2>6. ReceivedInv(c)'
    BY <1>3, <1>5, <1>7, <2>1, <2>4, <2>5 DEF ReceivedInv, Same, Excused
  <2> QED
    BY <1>5, <1>6, <1>10, <2>5, <2>6 DEF PublisherInv, PhaseInv, ReleasedInv, Same
<1>11. CASE pc[c] = "complete"
  <2>1. CompleteInv(c)
    BY <1>11 DEF PublisherInv, PhaseInv
  <2>2. m = CompleteOf(c)
    BY <1>1, <1>2, <2>1 DEF CompleteInv, ReleaseOf, Control, Up, Down
  <2>3. m.type = "CONTROL" /\ m.id = msg[c].id /\ m.ctrl = "COMPLETE"
    BY <2>2 DEF CompleteOf, Control
  <2>4. queue' = queue /\ table' = [table EXCEPT ![ProcessOf[c]][m.id] = "COMPLETED"]
    BY <1>1, <2>3 DEF ListenEvent, ListenControl
  <2>5. EntryOf(c)' = "COMPLETED"
    BY <1>5, <1>6, <1>8, <2>3, <2>4 DEF EntryOf
  <2>6. CompleteInv(c)'
    BY <1>2, <1>3, <1>5, <1>7, <2>1, <2>4, <2>5 DEF CompleteInv, Same, Excused
  <2> QED
    BY <1>5, <1>6, <1>11, <2>5, <2>6 DEF PublisherInv, PhaseInv, ReleasedInv, Same
<1> QED
  BY <1>4, <1>9, <1>10, <1>11

LEMMA RestKeeps ==
    ASSUME NEW c \in Client, PublisherInv(c), lost'[c] = lost[c], retries'[c] = retries[c],
           ~Busy(c), ~Busy(c)', RestInv(c)'
    PROVE  PublisherInv(c)'
  BY DEF PublisherInv, RetryInv, PhaseInv, ReleasedInv, Busy

LEMMA ConnectKeeps ==
    ASSUME TypeOK, NEW c \in Client, PublisherInv(c), lost'[c] = lost[c], Connect(c)
    PROVE  PublisherInv(c)'
<1>1. /\ pc[c] = "closed" /\ pc'[c] = "idle" /\ queue'[c] = <<>>
      /\ UNCHANGED <<net, retries>>
  BY DEF Connect, TypeOK, ClientTypeOK, CallTypeOK, QueueTypeOK
<1>2. ~Busy(c) /\ ~Busy(c)' /\ RestInv(c)'
  BY <1>1 DEF Busy, RestInv, PublisherInv, PhaseInv, Own
<1> QED
  BY <1>1, <1>2, RestKeeps

LEMMA SetQosKeeps ==
    ASSUME NEW c \in Client, PublisherInv(c), lost'[c] = lost[c], NEW q, SetQos(c, q)
    PROVE  PublisherInv(c)'
<1>1. pc[c] = "idle" /\ UNCHANGED <<net, queue, callVars>>
  BY DEF SetQos
<1>2. ~Busy(c) /\ ~Busy(c)' /\ RestInv(c)' /\ retries' = retries
  BY <1>1 DEF Busy, RestInv, PublisherInv, PhaseInv, Own, callVars
<1> QED
  BY <1>2, RestKeeps

\* A call begins with a new identifier, which neither table knows.
LEMMA BeginKeeps ==
    ASSUME UniqueIds, TypeOK, SafetyInv, lost \in [Client -> Nat], NEW c \in Client,
           PublisherInv(c), TimelyBegin(c)
    PROVE  PublisherInv(c)'
<1>1. PICK t \in Topic : PublishCall(c, t)
  BY DEF TimelyBegin, BeginPublish
<1>2. lost'[c] = 0 /\ pending' = pending
  BY DEF TimelyBegin, BeginPublish, brokerVars
<1>3. /\ pc[c] = "idle" /\ calls[c] < MaxCalls /\ calls[c] \in Nat
      /\ pc'[c] = "send" /\ msg'[c].id = next_msg_id[c]
      /\ UNCHANGED <<net, queue, table, retries>>
  BY <1>1 DEF PublishCall, TakeId, TypeOK, ClientTypeOK, CallTypeOK, SessionTypeOK
<1>4. connects[c] # 0
  BY <1>3 DEF SafetyInv, NumberingInv, UnconnectedInv
<1>5. next_msg_id[c] = calls[c] + 1
  BY <1>3, <1>4 DEF SafetyInv, NumberingInv, NextIdInv
<1>6. PICK i : i = calls[c] + 1
  OBVIOUS
<1>7. i \in MsgId /\ i \notin 1 .. calls[c] /\ msg'[c].id = i
  BY <1>3, <1>5, <1>6, NetworkAssumption DEF UniqueIds, MsgId
<1>8. ~Forwarded(c, i)
  BY <1>7 DEF Forwarded, Handled
<1>9. table[ProcessOf[c]][i] = "NONE" /\ pending[<<c, i>>] = NONE
  BY <1>7, <1>8 DEF SafetyInv, AnswersAreGenuine, TableGenuine, PendingGenuine
<1>10. EntryOf(c)' = "NONE" /\ pending'[<<c, i>>] = NONE
  BY <1>2, <1>3, <1>7, <1>9 DEF EntryOf
<1>11. RestInv(c)' /\ retries[c] = 0
  BY <1>3 DEF RestInv, PublisherInv, PhaseInv, Own, RetryInv, Busy
<1>12. RetryInv(c)'
  BY <1>2, <1>3, <1>11, ClientAssumption DEF RetryInv, Busy
<1>13. ReleasedInv(c)'
  BY <1>7, <1>10 DEF ReleasedInv, NONE
<1> QED
  BY <1>3, <1>10, <1>11, <1>12, <1>13 DEF PublisherInv, PhaseInv

-----------------------------------------------------------------------------
(* The invariant of the timely network. *)

LEMMA OtherBegins ==
    ASSUME TypeOK, lost \in [Client -> Nat], NEW b \in Client, TimelyBegin(b),
           NEW c \in Client, b # c, PublisherInv(c)
    PROVE  PublisherInv(c)'
<1>1. PICK t \in Topic : PublishCall(b, t)
  BY DEF TimelyBegin, BeginPublish
<1>2. lost'[c] = lost[c] /\ pending' = pending
  BY DEF TimelyBegin, BeginPublish, brokerVars
<1>3. Same(c) /\ UNCHANGED <<net, queue, table>>
  BY <1>1 DEF PublishCall, Same, TypeOK, ClientTypeOK, CallTypeOK
<1>4. Own(c)' = Own(c) /\ EntryOf(c)' = EntryOf(c)
  BY <1>3 DEF Own, EntryOf, Same
<1> QED
  BY <1>2, <1>3, <1>4, Untouched

LEMMA ClientForPublisher ==
    ASSUME UniqueIds, TypeOK, CallInv, SafetyInv, Polls > 0, lost \in [Client -> Nat],
           NEW b \in Client, TimelyBegin(b) \/ TimelyPublishStep(b) \/ TimelyOther(b),
           NEW c \in Client \ Subscriber, PublisherInv(c)
    PROVE  PublisherInv(c)'
<1>1. CASE TimelyBegin(b)
  BY <1>1, BeginKeeps, OtherBegins
<1>2. CASE TimelyPublishStep(b)
  <2>1. ClientCase(b) /\ UNCHANGED brokerVars /\ lost' = lost
    BY <1>2 DEF TimelyPublishStep, PublishStep, ClientCase
  <2> QED
    BY <1>2, <2>1, OtherClient, PublishStepKeeps
<1>3. CASE TimelyOther(b)
  <2>1. ClientCase(b) /\ UNCHANGED brokerVars /\ lost' = lost
    BY <1>3 DEF TimelyOther, ClientCase
  <2>2. CASE b # c
    BY <2>1, <2>2, OtherClient
  <2>3. CASE b = c
    <3>1. Connect(c) \/ (\E q \in QosUsed : SetQos(c, q)) \/ Listener(c)
      BY <1>3, <2>3 DEF TimelyOther, Subscribe, NextEvent
    <3> QED
      BY <2>1, <3>1, ConnectKeeps, SetQosKeeps, ListenerKeeps
  <2> QED
    BY <2>2, <2>3
<1> QED
  BY <1>1, <1>2, <1>3

LEMMA SubscriberStep ==
    ASSUME TypeOK, CallInv, SubscriberInv, [TimelyNext]_timelyVars
    PROVE  SubscriberInv'
<1>1. ASSUME NEW f \in Filter, NEW c \in subs'[f]
      PROVE  c \in Subscriber
  <2>1. CASE subs' = subs
    BY <1>1, <2>1 DEF SubscriberInv
  <2>2. CASE BrokerTurn
    <3>1. PICK m \in net : HandleSubscribe(m) \/ subs' = subs
      BY <2>2 DEF BrokerTurn, BrokerStep, HandlePublishQos0, HandlePublishQos1, HandlePublishNew,
         HandlePublishRepeated, HandlePublishCompleted, HandleControlRelease,
         HandleControlReceived, HandleUnknown, brokerVars
    <3>2. CASE HandleSubscribe(m)
      <4>1. m.peer \in Subscriber /\ subs' = [subs EXCEPT ![m.filter] = @ \cup {m.peer}]
        BY <3>2 DEF HandleSubscribe, SubscriberInv
      <4>2. subs'[f] \subseteq subs[f] \cup {m.peer}
        BY <4>1 DEF TypeOK, BrokerTypeOK
      <4> QED
        BY <1>1, <4>1, <4>2 DEF SubscriberInv
    <3> QED
      BY <2>1, <3>1, <3>2
  <2>3. subs' = subs \/ BrokerTurn
    BY DEF TimelyNext, timelyVars, vars, TimelyBegin, BeginPublish, TimelyPublishStep, TimelyOther,
       TimelyLoss, brokerVars
  <2> QED
    BY <2>1, <2>2, <2>3
<1>2. ASSUME NEW x \in net', x.type = "SUBSCRIBE", x \notin net
      PROVE  x.peer \in Subscriber
  <2>1. ASSUME NEW b \in Client, ClientCase(b)
        PROVE  x.peer \in Subscriber
    <3>1. CASE \E f \in Filter : Subscribe(b, f)
      <4>1. PICK f \in Filter : Subscribe(b, f)
        BY <3>1
      <4>2. x = [type |-> "SUBSCRIBE", dir |-> Up, peer |-> b, filter |-> f] /\ b \in Subscriber
        BY <1>2, <4>1 DEF Subscribe, Send
      <4> QED
        BY <4>2
    <3>2. CASE SendPublish(b) \/ SendRelease(b)
      <4>1. x = msg[b] \/ x = Control(Up, b, "RELEASE", msg[b].id)
        BY <1>2, <3>2 DEF SendPublish, SendRelease, Send
      <4>2. x = msg[b] => Busy(b)
        BY <3>2 DEF SendPublish, SendRelease, Checking, Busy
      <4>3. FALSE
        BY <1>2, <4>1, <4>2 DEF CallInv, PublishMsg, Control
      <4> QED
        BY <4>3
    <3>3. ASSUME ~(\E f \in Filter : Subscribe(b, f)), ~SendPublish(b), ~SendRelease(b)
          PROVE  net' \subseteq net
      BY <2>1, <3>3 DEF ClientCase, Connect, Close, SetQos, PublishTooBig, NextEvent,
         ReceiveMessage, PublishFails, PollAck, AckTimeout, PollReceived, ReceivedTimeout,
         PollComplete, CompleteTimeout, RemoveEntry, Listener, Retry, PollAgain, Receive
    <3> QED
      BY <1>2, <3>1, <3>2, <3>3
  <2>2. CASE BrokerTurn
    BY <1>2, <2>2, SentByBroker DEF BrokerTurn, Ack, Control
  <2>3. ASSUME (\E c \in Client : BeginPublish(c)) \/ Loss \/ UNCHANGED vars
        PROVE  FALSE
    BY <1>2, <2>3 DEF BeginPublish, PublishCall, Loss, Lose, vars
  <2> QED
    BY <2>1, <2>2, <2>3, TimelyStep, NextCases
<1> QED
  BY <1>1, <1>2 DEF SubscriberInv

\* What a timely step reports: never a failure.
LEMMA ResultKeeps ==
    ASSUME TypeOK, CallInv, Polls > 0, TimelyInv, [TimelyNext]_timelyVars, NEW d \in Data,
           result'[d] = "failed"
    PROVE  result[d] = "failed"
<1>1. CASE result' = result
  BY <1>1
<1>2. ASSUME NEW c \in Client, TimelyPublishStep(c)
      PROVE  result[d] = "failed"
  <2>1. Busy(c) /\ PublishStep(c)
    BY <1>2 DEF TimelyPublishStep, PublishStep, SendPublish, PublishFails, PollAck, AckTimeout,
       PollReceived, SendRelease, ReceivedTimeout, PollComplete, CompleteTimeout,
       RemoveEntry, Checking, Busy
  <2>2. ~PublishFails(c)
    BY <1>2, <2>1, PublishStepKeeps DEF TimelyInv
  <2>3. result' = result \/ \E o \in {"sent", "ok"} : Return(c, o)
    BY <2>1, <2>2 DEF PublishStep, SendPublish, PollAck, AckTimeout,
       PollReceived, SendRelease, ReceivedTimeout, PollComplete, CompleteTimeout,
       RemoveEntry, GoTo, PollAgain, Retry
  <2>4. ASSUME NEW o \in {"sent", "ok"}, Return(c, o)
        PROVE  result[d] = "failed"
    BY <2>4 DEF Return, TypeOK, ClientTypeOK, HistoryTypeOK
  <2> QED
    BY <1>1, <2>3, <2>4
<1>3. result' = result \/ \E c \in Client : TimelyPublishStep(c)
  BY DEF TimelyNext, timelyVars, vars, clientVars, TimelyBegin, BeginPublish, PublishCall,
     TimelyOther, Connect, SetQos, Subscribe, NextEvent, Listener, BrokerTurn, TimelyLoss
<1> QED
  BY <1>1, <1>2, <1>3

LEMMA PublisherStep ==
    ASSUME UniqueIds, Polls > 0, TypeOK, CallInv, SafetyInv, TimelyInv, [TimelyNext]_timelyVars,
           NEW c \in Publisher, c \notin Subscriber
    PROVE  PublisherInv(c)'
<1>1. c \in Client \ Subscriber /\ PublisherInv(c) /\ lost \in [Client -> Nat] /\ SubscriberInv
  BY ClientAssumption DEF TimelyInv
<1>2. ASSUME NEW b \in Client, TimelyBegin(b) \/ TimelyPublishStep(b) \/ TimelyOther(b)
      PROVE  PublisherInv(c)'
  BY <1>1, <1>2, ClientForPublisher
<1>3. CASE BrokerTurn /\ UNCHANGED lost
  BY <1>1, <1>3, BrokerForPublisher
<1>4. CASE TimelyLoss
  BY <1>1, <1>4, LossForPublisher
<1>5. CASE UNCHANGED timelyVars
  <2>1. UNCHANGED <<net, brokerVars, clientVars, lost>>
    BY <1>5 DEF timelyVars, vars
  <2>2. \A x : x.peer = c => (x \in net' <=> x \in net)
    BY <2>1
  <2>3. pending' = pending
    BY <2>1 DEF brokerVars
  <2> QED
    BY <1>1, <2>1, <2>2, <2>3, OtherPeer
<1> QED
  BY <1>2, <1>3, <1>4, <1>5 DEF TimelyNext

LEMMA LostType ==
    ASSUME lost \in [Client -> Nat], [TimelyNext]_timelyVars
    PROVE  lost' \in [Client -> Nat]
  BY DEF TimelyNext, timelyVars, TimelyBegin, TimelyPublishStep, TimelyOther, TimelyLoss

LEMMA TimelyInvStep ==
    ASSUME UniqueIds, Polls > 0, Publisher \cap Subscriber = {},
           TypeOK, CallInv, SafetyInv, TimelyInv, [TimelyNext]_timelyVars
    PROVE  TimelyInv'
<1>1. SubscriberInv' /\ lost' \in [Client -> Nat]
  BY SubscriberStep, LostType DEF TimelyInv
<1>2. ASSUME NEW c \in Client, Busy(c)'
      PROVE  c \in Publisher
  BY <1>2, StaysBusy, TimelyStep DEF TimelyInv, BeginPublish, PublishCall
<1>3. ASSUME NEW c \in Publisher
      PROVE  PublisherInv(c)'
  BY <1>3, PublisherStep
<1>4. NoPublishFails'
  BY ResultKeeps DEF NoPublishFails, TimelyInv
<1> QED
  BY <1>1, <1>2, <1>3, <1>4 DEF TimelyInv

LEMMA TimelyInvInit ==
    ASSUME TimelyInit
    PROVE  TimelyInv
<1>1. /\ net = {} /\ queue = [c \in Client |-> <<>>] /\ pc = [c \in Client |-> "closed"]
      /\ retries = [c \in Client |-> 0] /\ lost = [c \in Client |-> 0]
      /\ result = [d \in Data |-> "none"] /\ subs = [f \in Filter |-> {}]
  BY DEF TimelyInit, Init, BrokerInit, NetInit, ClientInit
<1>2. SubscriberInv /\ lost \in [Client -> Nat] /\ NoPublishFails
  BY <1>1 DEF SubscriberInv, NoPublishFails
<1>3. \A c \in Client : ~Busy(c)
  BY <1>1 DEF Busy
<1>4. ASSUME NEW c \in Publisher
      PROVE  PublisherInv(c)
  <2>1. c \in Client
    BY ClientAssumption
  <2>2. RetryInv(c)
    BY <1>1, <2>1, ClientAssumption DEF RetryInv
  <2>3. RestInv(c) /\ pc[c] = "closed"
    BY <1>1, <2>1 DEF RestInv, Own
  <2> QED
    BY <1>3, <2>1, <2>2, <2>3 DEF PublisherInv, PhaseInv, ReleasedInv
<1> QED
  BY <1>2, <1>3, <1>4 DEF TimelyInv

\* README, "QoS 1 tested to recover all messages with 30% artificial packet
\* loss": slimmq_publish of any level and any number of calls never reports
\* failure on a network that answers before the next poll and loses at most
\* max_retries datagrams of a call, if the client polls at all and does not
\* subscribe as well (slimmq_next_event could take its ACK).
THEOREM NoPublishFailsHolds ==
    ASSUME UniqueIds, Polls > 0, Publisher \cap Subscriber = {}
    PROVE  TimelySpec => []NoPublishFails
<1>1. TimelyInv /\ ((TypeOK /\ CallInv) /\ SafetyInv) /\ [TimelyNext]_timelyVars => TimelyInv'
  BY TimelyInvStep
<1>2. TimelyInit => TimelyInv
  BY TimelyInvInit
<1>3. TimelyInv => NoPublishFails
  BY DEF TimelyInv
<1> QED
  BY <1>1, <1>2, <1>3, TimelyIsSpec, TypeInvariant, SafetyInvariant, PTL DEF TimelySpec
=============================================================================
