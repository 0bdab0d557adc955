------------------------------- MODULE Broker -------------------------------
(***************************************************************************)
(* The broker: one thread that takes a datagram from its socket, runs the  *)
(* handler of its kind to the end, and takes the next (broker.c).  Its     *)
(* state is the subscription table and the table of pending QoS 2          *)
(* messages.  BrokerSpec puts it in an environment that sends it any       *)
(* well-formed datagram at any time.                                       *)
(***************************************************************************)
EXTENDS Network, TopicMatch

VARIABLES
    subs,      \* subscribers of each filter node of the topic table
    pending,   \* pending_table: state of each (client address, msg_id)
    \* History, read by no action:
    forwards,  \* how often the QoS 2 publish of a key went to subscribers
    given      \* the clients a payload has been sent to

brokerVars == <<subs, pending, forwards, given>>

Key == Client \X MsgId
NONE == "NONE"
PendingState == {NONE, "RECEIVED", "WAIT_RELEASE", "COMPLETED"}

BrokerTypeOK ==
    /\ NetTypeOK
    /\ subs \in [Filter -> SUBSET Client]
    /\ pending \in [Key -> PendingState]
    /\ forwards \in [Key -> Nat]
    /\ given \in [Data -> SUBSET Client]

\* main: both tables start empty.
BrokerInit ==
    /\ NetInit
    /\ subs = [f \in Filter |-> {}]
    /\ pending = [k \in Key |-> NONE]
    /\ forwards = [k \in Key |-> 0]
    /\ given = [d \in Data |-> {}]

-----------------------------------------------------------------------------
\* get_matching_subscribers: every matching client, once.
MatchingSubscribers(t) ==
    {c \in Client : \E f \in Filter : c \in subs[f] /\ FilterMatches(f, t)}

\* publish_to_subscribers: the message goes out unchanged, header included.
Copies(m) ==
    {[m EXCEPT !.dir = Down, !.peer = c] : c \in MatchingSubscribers(m.topic)}

Give(m) ==
    given' = [given EXCEPT ![m.data] = @ \cup MatchingSubscribers(m.topic)]

KeyOf(m) == <<m.peer, m.id>>

HandleSubscribe(m) ==
    /\ m.type = "SUBSCRIBE"
    /\ subs' = [subs EXCEPT ![m.filter] = @ \cup {m.peer}]
    /\ Receive(m, {})
    /\ UNCHANGED <<pending, forwards, given>>

\* QoS 0, and every level without a branch of its own: forwarded whenever it
\* arrives.
HandlePublishQos0(m) ==
    /\ m.type = "PUBLISH" /\ m.qos \notin {1, 2}
    /\ Give(m)
    /\ Receive(m, Copies(m))
    /\ UNCHANGED <<subs, pending, forwards>>

\* QoS 1: forwarded whenever it arrives, and acknowledged.
HandlePublishQos1(m) ==
    /\ m.type = "PUBLISH" /\ m.qos = 1
    /\ Give(m)
    /\ Receive(m, Copies(m) \cup {Ack(Down, m.peer, m.id)})
    /\ UNCHANGED <<subs, pending, forwards>>

\* Mutant: a known key is treated as new until it is COMPLETED.
HandlePublishForgetful(m) ==
    /\ m.type = "PUBLISH" /\ m.qos = 2
    /\ pending[KeyOf(m)] # "COMPLETED"
    /\ pending' = [pending EXCEPT ![KeyOf(m)] = "RECEIVED"]
    /\ forwards' = [forwards EXCEPT ![KeyOf(m)] = @ + 1]
    /\ Give(m)
    /\ Receive(m, Copies(m) \cup {Control(Down, m.peer, "RECEIVED", m.id)})
    /\ UNCHANGED subs

\* QoS 2, first arrival of the key: remembered, forwarded and answered.
HandlePublishNew(m) ==
    /\ m.type = "PUBLISH" /\ m.qos = 2
    /\ pending[KeyOf(m)] = NONE
    /\ pending' = [pending EXCEPT ![KeyOf(m)] = "RECEIVED"]
    /\ forwards' = [forwards EXCEPT ![KeyOf(m)] = @ + 1]
    /\ Give(m)
    /\ Receive(m, Copies(m) \cup {Control(Down, m.peer, "RECEIVED", m.id)})
    /\ UNCHANGED subs

\* Mutant: no early return for a COMPLETED key.
HandlePublishNoReturn(m) ==
    /\ m.type = "PUBLISH" /\ m.qos = 2
    /\ pending[KeyOf(m)] # NONE
    /\ Receive(m, {Control(Down, m.peer, "RECEIVED", m.id)})
    /\ UNCHANGED brokerVars

\* Mutant: every known key returns early, without an answer.
HandlePublishSilent(m) ==
    /\ m.type = "PUBLISH" /\ m.qos = 2
    /\ pending[KeyOf(m)] \notin {NONE, "COMPLETED"}
    /\ Receive(m, {})
    /\ UNCHANGED brokerVars

\* QoS 2, a repeated arrival: answered again, not forwarded again.
HandlePublishRepeated(m) ==
    /\ m.type = "PUBLISH" /\ m.qos = 2
    /\ pending[KeyOf(m)] \notin {NONE, "COMPLETED"}
    /\ Receive(m, {Control(Down, m.peer, "RECEIVED", m.id)})
    /\ UNCHANGED brokerVars

\* QoS 2, the handshake of the key is over: dropped without an answer.
HandlePublishCompleted(m) ==
    /\ m.type = "PUBLISH" /\ m.qos = 2
    /\ pending[KeyOf(m)] = "COMPLETED"
    /\ Receive(m, {})
    /\ UNCHANGED brokerVars

\* Mutant: the second update of the table is missing.
HandleControlReleaseHalf(m) ==
    /\ m.type = "CONTROL" /\ m.ctrl = "RELEASE"
    /\ pending' = [pending EXCEPT ![KeyOf(m)] = "RELEASED"]
    /\ Receive(m, {Control(Down, m.peer, "COMPLETE", m.id)})
    /\ UNCHANGED <<subs, forwards, given>>

\* RELEASE is not checked against the table: the handler sets RELEASED, sends
\* COMPLETE and sets COMPLETED before the thread takes another datagram.
HandleControlRelease(m) ==
    /\ m.type = "CONTROL" /\ m.ctrl = "RELEASE"
    /\ pending' = [pending EXCEPT ![KeyOf(m)] = "COMPLETED"]
    /\ Receive(m, {Control(Down, m.peer, "COMPLETE", m.id)})
    /\ UNCHANGED <<subs, forwards, given>>

\* Mutant: any known key goes to WAIT_RELEASE.
HandleControlReceivedUnchecked(m) ==
    /\ m.type = "CONTROL" /\ m.ctrl = "RECEIVED"
    /\ pending' = IF pending[KeyOf(m)] # NONE
                    THEN [pending EXCEPT ![KeyOf(m)] = "WAIT_RELEASE"]
                    ELSE pending
    /\ Receive(m, {})
    /\ UNCHANGED <<subs, forwards, given>>

\* RECEIVED from a client moves a key on only from RECEIVED.
HandleControlReceived(m) ==
    /\ m.type = "CONTROL" /\ m.ctrl = "RECEIVED"
    /\ pending' = IF pending[KeyOf(m)] = "RECEIVED"
                    THEN [pending EXCEPT ![KeyOf(m)] = "WAIT_RELEASE"]
                    ELSE pending
    /\ Receive(m, {})
    /\ UNCHANGED <<subs, forwards, given>>

\* The kinds of datagram the broker has no handler for.
HandleUnknown(m) ==
    /\ \/ m.type = "ACK"
       \/ m.type = "CONTROL" /\ m.ctrl = "COMPLETE"
    /\ Receive(m, {})
    /\ UNCHANGED brokerVars

\* broker_main_loop: one datagram, one handler.
BrokerStep ==
    \E m \in net :
        /\ m.dir = Up
        /\ \/ HandleSubscribe(m)
           \/ HandlePublishQos0(m)
           \/ HandlePublishQos1(m)
           \/ HandlePublishNew(m)
           \/ HandlePublishRepeated(m)
           \/ HandlePublishCompleted(m)
           \/ HandleControlRelease(m)
           \/ HandleControlReceived(m)
           \/ HandleUnknown(m)

-----------------------------------------------------------------------------
\* The open environment: any client sends any datagram; any datagram is lost
\* or reaches a client.
EnvSend(m) == m.dir = Up /\ Send(m) /\ UNCHANGED brokerVars
EnvTake(m) == Lose(m) /\ UNCHANGED brokerVars

BrokerNext ==
    \/ BrokerStep
    \/ \E m \in Message : EnvSend(m)
    \/ \E m \in net : EnvTake(m)

BrokerSpec == BrokerInit /\ [][BrokerNext]_<<net, brokerVars>>

-----------------------------------------------------------------------------
(* What the broker promises, whatever its clients send. *)

\* handle_publish, QoS 2: one (address, msg_id) is forwarded at most once,
\* however often PUBLISH, RELEASE and RECEIVED arrive and in whatever order.
ForwardAtMostOnce == \A k \in Key : forwards[k] <= 1

\* handle_publish, QoS 2: CONTROL_RECEIVED is on its way to a client only for
\* a key whose message has gone to the subscribers, the answer to a repeated
\* PUBLISH and to one after an early RELEASE included.
ReceivedMeansForwarded ==
    \A m \in net :
        (m.type = "CONTROL" /\ m.dir = Down /\ m.ctrl = "RECEIVED")
            => forwards[KeyOf(m)] >= 1

\* pending_table: a key only moves forward through the handshake, and once
\* COMPLETED it stays so: no late PUBLISH, RELEASE or RECEIVED reopens it.
Rank(s) == CASE s = NONE -> 0
             [] s = "RECEIVED" -> 1
             [] s = "WAIT_RELEASE" -> 2
             [] s = "COMPLETED" -> 3
PendingAdvances ==
    [][\A k \in Key : Rank(pending'[k]) >= Rank(pending[k])]_<<net, brokerVars>>

\* The inductive invariant behind ForwardAtMostOnce and ReceivedMeansForwarded:
\* an unknown key has not been forwarded, one that is answered with RECEIVED has.
BrokerInv ==
    /\ ForwardAtMostOnce
    /\ ReceivedMeansForwarded
    /\ \A k \in Key : pending[k] = NONE => forwards[k] = 0
    /\ \A k \in Key : pending[k] \in {"RECEIVED", "WAIT_RELEASE"} => forwards[k] >= 1
=============================================================================
