------------------------------- MODULE Timely -------------------------------
(***************************************************************************)
(* SlimMQ on a network that answers in time: no datagram is delivered      *)
(* twice, the answer to a datagram arrives before the next poll (100 ms    *)
(* later), and while a publish call runs at most MaxRetries datagrams of   *)
(* its exchange with the broker are lost.                                  *)
(***************************************************************************)
EXTENDS SlimMQ

VARIABLE lost    \* datagrams lost between a client and the broker since the
                 \* client's running publish call began

timelyVars == <<vars, lost>>

ASSUME TimelyAssumption == ~Duplicates

TimelyInit == Init /\ lost = [c \in Client |-> 0]

\* Nothing is in transit between c and the broker.
Quiet(c) == \A m \in net : m.peer # c

\* A publish call wakes up when its answer is there or lost, and send_bytes
\* does not fail.
TimelyPublishStep(c) ==
    /\ pc[c] # "send" => Quiet(c)
    /\ (pc[c] = "send" /\ retries[c] <= MaxRetries) => SendPublish(c)
    /\ PublishStep(c)
    /\ UNCHANGED <<brokerVars, audience, lost>>

TimelyBegin(c) ==
    /\ BeginPublish(c)
    /\ lost' = [lost EXCEPT ![c] = 0]

TimelyOther(c) ==
    /\ \/ Connect(c)
       \/ \E q \in QosUsed : SetQos(c, q)
       \/ \E f \in Filter : Subscribe(c, f)
       \/ NextEvent(c)
       \/ Listener(c)
    /\ UNCHANGED <<brokerVars, audience, lost>>

TimelyLoss ==
    \E m \in net :
        /\ m.peer \in Publisher
        /\ lost[m.peer] < MaxRetries
        /\ lost' = [lost EXCEPT ![m.peer] = @ + 1]
        /\ Lose(m)
        /\ UNCHANGED <<brokerVars, clientVars, audience>>

TimelyNext ==
    \/ \E c \in Client : TimelyBegin(c) \/ TimelyPublishStep(c) \/ TimelyOther(c)
    \/ BrokerTurn /\ UNCHANGED lost
    \/ TimelyLoss

TimelyFairness ==
    /\ \A c \in Client : WF_timelyVars(TimelyPublishStep(c))
    /\ \A c \in Client :
          WF_timelyVars(Listener(c) /\ UNCHANGED <<brokerVars, audience, lost>>)
    /\ \A c \in Client :
          WF_timelyVars(NextEvent(c) /\ UNCHANGED <<brokerVars, audience, lost>>)
    /\ WF_timelyVars(BrokerTurn /\ UNCHANGED lost)

TimelySpec == TimelyInit /\ [][TimelyNext]_timelyVars /\ TimelyFairness

-----------------------------------------------------------------------------
\* README, "QoS 1 tested to recover all messages with 30% artificial packet
\* loss", and the same for QoS 2: with no more losses than retries, no publish
\* fails.  The retry loop recovers from the loss of each of PUBLISH, ACK,
\* RECEIVED, RELEASE and COMPLETE.
NoPublishFails == \A d \in Data : result[d] # "failed"

\* A running publish call ends with success, and its payload is then handed
\* to the application of every subscriber, when only the publishers' side
\* of the network loses datagrams.
PublishedIsReceived ==
    \A d \in Data :
        \A c \in Client :
            (pc[c] = "send" /\ ThisCall(c) = d /\ msg[c].qos \in {1, 2}) ~>
                (result[d] = "ok" /\ \A s \in audience[d] : d \in got[s])

\* README, "Exactly once (4-stage handshake with state tracking)": on a network
\* that repeats no datagram, an application gets a message of QoS 2 once, however
\* often its PUBLISH was sent.  The payload of a call and its identifier have the
\* same number, and forwards counts the messages of QoS 2.
HandedOnce ==
    \A c \in Client : \A i \in 1 .. Len(queue[c]) :
        LET e == queue[c][i] IN
        (e.type = "PUBLISH" /\ forwards[e.data] > 0) =>
            /\ e.data \notin got[c]
            /\ \A j \in 1 .. Len(queue[c]) : queue[c][j].data = e.data => j = i
=============================================================================
