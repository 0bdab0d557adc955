------------------------------- MODULE SlimMQ -------------------------------
(***************************************************************************)
(* Clients, network and broker together.                                   *)
(***************************************************************************)
EXTENDS Broker, Client

VARIABLE audience    \* history: the subscribers a payload is meant for, the
                     \* matching ones when its slimmq_publish begins

vars == <<net, brokerVars, clientVars, audience>>

TypeOK ==
    /\ BrokerTypeOK
    /\ ClientTypeOK
    /\ audience \in [Data -> SUBSET Client]

Init ==
    /\ BrokerInit
    /\ ClientInit
    /\ audience = [d \in Data |-> {}]

\* The steps of a client that call no publish.
OtherClientStep(c) ==
    \/ Connect(c)
    \/ Close(c)
    \/ \E q \in QosUsed : SetQos(c, q)
    \/ \E f \in Filter : Subscribe(c, f)
    \/ PublishTooBig(c)
    \/ NextEvent(c)
    \/ ReceiveMessage(c)

BeginPublish(c) ==
    \E t \in Topic :
        /\ PublishCall(c, t)
        /\ audience' = [audience EXCEPT ![<<c, calls[c] + 1>>] = MatchingSubscribers(t)]
        /\ UNCHANGED brokerVars

ClientStep(c) ==
    /\ OtherClientStep(c) \/ PublishStep(c) \/ Listener(c)
    /\ UNCHANGED <<brokerVars, audience>>

BrokerTurn == BrokerStep /\ UNCHANGED <<clientVars, audience>>

Loss ==
    /\ \E m \in net : Lose(m)
    /\ UNCHANGED <<brokerVars, clientVars, audience>>

Next ==
    \/ \E c \in Client : BeginPublish(c) \/ ClientStep(c)
    \/ BrokerTurn
    \/ Loss

Spec == Init /\ [][Next]_vars

\* A publish that sleeps between polls wakes up.
PublishFairness ==
    \A c \in Client : WF_vars(PublishStep(c) /\ UNCHANGED <<brokerVars, audience>>)

-----------------------------------------------------------------------------
(* Safety. *)

\* slimmq_publish with QoS 1 or 2 returns 0 only after the broker has sent the
\* message to every client that was subscribed when the call began: no ACK,
\* RECEIVED or COMPLETE of another call, or a late one, is taken for its own.
SuccessForwarded == \A d \in Data : result[d] = "ok" => audience[d] \subseteq given[d]

\* A handshake that the broker has completed belongs to a message that it
\* forwarded: handle_control_release does not look, so it is the client's
\* RELEASE after RECEIVED that must guarantee it.
CompletedWasForwarded ==
    \A k \in Key : pending[k] = "COMPLETED" => forwards[k] = 1

\* No identifier names two messages: an address is connected once, a process
\* has one client and the identifiers of its calls do not wrap around.
UniqueIds ==
    /\ MaxConnects <= 1
    /\ MaxCalls < IdSpace
    /\ \A b, c \in Client : ProcessOf[b] = ProcessOf[c] => b = c

\* An identifier whose PUBLISH the broker has handled: the call has been made
\* and its subscribers have been sent the message; and the same for QoS 2.
Handled(c, i) == i \in 1 .. calls[c] /\ audience[<<c, i>>] \subseteq given[<<c, i>>]
Forwarded(c, i) == Handled(c, i) /\ forwards[<<c, i>>] >= 1

\* Whatever can make slimmq_publish return 0 is evidence of its own message:
\* an ACK in transit or in an event queue, a CONTROL datagram of the QoS 2
\* handshake, an entry of either side's table, a call that is about to return.
\* This needs UniqueIds.
AcksGenuine == \A m \in net : m.type = "ACK" => Handled(m.peer, m.id)
ControlsGenuine == \A m \in net : m.type = "CONTROL" => Forwarded(m.peer, m.id)
QueueGenuine ==
    \A c \in Client : \A e \in Events(queue[c]) : e.type = "ACK" => Handled(c, e.id)
TableGenuine ==
    \A c \in Client : \A i \in MsgId :
        table[ProcessOf[c]][i] # "NONE" => Forwarded(c, i)
PendingGenuine ==
    \A c \in Client : \A i \in MsgId : pending[<<c, i>>] # NONE => Forwarded(c, i)
RemoveGenuine == \A c \in Client : pc[c] = "remove" => Forwarded(c, calls[c])

AnswersAreGenuine ==
    /\ AcksGenuine
    /\ ControlsGenuine
    /\ QueueGenuine
    /\ TableGenuine
    /\ PendingGenuine
    /\ RemoveGenuine

\* How calls, identifiers and payloads are numbered, given UniqueIds.
Busy(c) == pc[c] \notin {"closed", "idle"}
UnconnectedInv ==
    \A c \in Client : connects[c] = 0 => calls[c] = 0 /\ pc[c] = "closed"
NextIdInv ==
    \A c \in Client :
        (connects[c] # 0 /\ calls[c] < MaxCalls) => next_msg_id[c] = calls[c] + 1
ThisCallInv ==
    \A c \in Client : Busy(c) => msg[c].id = calls[c] /\ msg[c].data = ThisCall(c)
PublishInv ==
    \A m \in net :
        (m.type = "PUBLISH" /\ m.dir = Up) =>
            m.data = <<m.peer, m.id>> /\ m.id \in 1 .. calls[m.peer]
ResultInv == \A d \in Data : result[d] # "none" => d[2] <= calls[d[1]]

NumberingInv ==
    /\ UnconnectedInv
    /\ NextIdInv
    /\ ThisCallInv
    /\ PublishInv
    /\ ResultInv

\* A PUBLISH that is still to be handled will reach its whole audience.
AudienceInv ==
    /\ \A c \in Client :
          Busy(c) => audience[ThisCall(c)] \subseteq MatchingSubscribers(msg[c].topic)
    /\ \A m \in net :
          (m.type = "PUBLISH" /\ m.dir = Up) =>
              audience[m.data] \subseteq MatchingSubscribers(m.topic)

\* A running publish holds a message of its client, and gives up in time.
CallInv ==
    /\ \A c \in Client : Busy(c) =>
          msg[c] \in PublishMsg /\ msg[c].dir = Up /\ msg[c].peer = c /\ calls[c] >= 1
    /\ \A c \in Client : Busy(c) /\ pc[c] # "send" => retries[c] <= MaxRetries

SafetyInv ==
    /\ NumberingInv
    /\ AudienceInv
    /\ AnswersAreGenuine
    /\ SuccessForwarded

\* slimmq_publish, "Failed to publish": when the last wait for RECEIVED runs
\* out and the call is about to fail, its handshake is not over yet.
FailsOnlyIncomplete ==
    \A c \in Client :
        (Checking(c) /\ retries[c] = MaxRetries) => EntryOf(c) # "COMPLETED"

-----------------------------------------------------------------------------
(* Liveness. *)

\* slimmq_publish of a message of QoS 0, 1 or 2 returns, whatever the network
\* loses, delays or repeats and whoever takes its ACK: every way through the
\* loop returns or counts a retry.  At a level above 2, which slimmq_set_qos
\* accepts as well, it does neither, and the call never returns.
PublishReturns ==
    \A c \in Client : Busy(c) /\ msg[c].qos \in NamedQos ~> pc[c] = "idle"
=============================================================================
