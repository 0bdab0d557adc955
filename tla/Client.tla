------------------------------- MODULE Client -------------------------------
(***************************************************************************)
(* The client library (slimmq_client.c).  Each connected client has an     *)
(* application thread that calls the library and a listener thread that    *)
(* moves datagrams from the socket to the event queue and to the QoS 2     *)
(* table.  The table is a static array of qos2_table.c: all clients of one *)
(* process share it, and nothing locks it, so every read or write of an    *)
(* entry is a step of its own.                                             *)
(***************************************************************************)
EXTENDS Network, EventFifo

CONSTANTS
    Publisher,     \* clients whose application publishes
    Subscriber,    \* clients whose application subscribes and takes messages
    Receiver,      \* clients that use slimmq_receive, the others slimmq_next_event
    QosUsed,       \* the levels given to slimmq_set_qos
    MaxRetries,    \* max_retries of slimmq_set_retry_policy
    Polls,         \* retry_timeout_ms / 100: polls before a timeout
    Process,       \* operating system processes
    ProcessOf,     \* the process of each client
    MaxConnects    \* bound on the slimmq_connect calls that get one address

ASSUME ClientAssumption ==
    /\ Publisher \subseteq Client
    /\ Subscriber \subseteq Client
    /\ Receiver \subseteq Client
    /\ QosUsed \subseteq Qos
    /\ MaxRetries \in Nat
    /\ Polls \in Nat
    /\ ProcessOf \in [Client -> Process]
    /\ MaxConnects \in Nat

VARIABLES
    qos,           \* client->qos_level
    next_msg_id,   \* client->next_msg_id
    queue,         \* client->event_queue
    table,         \* the table of qos2_table.c, one for each process
    pc,            \* where the application thread is
    msg,           \* the serialized message of the running publish
    retries,       \* its local variable retries
    polls,         \* its loop counter i
    connects,      \* connections made from this address so far
    \* History, read by no action except to name payloads:
    calls,         \* subscribe and publish calls made so far
    result,        \* what slimmq_publish returned for a payload
    got            \* what the application has been handed

callVars == <<pc, msg, retries, polls>>
clientVars == <<qos, next_msg_id, queue, table, callVars, connects, calls, result, got>>

TableState == {"NONE", "WAIT_COMPLETE", "COMPLETED"}
Location == {"closed", "idle", "send", "ack", "received", "check", "complete", "remove"}
Outcome == {"none", "sent", "ok", "failed"}
NoMsg == [type |-> "none"]
NoData == <<>>
Event == [type : {"PUBLISH", "ACK"}, id : MsgId, data : Data \cup {NoData}]

SessionTypeOK ==
    /\ qos \in [Client -> Qos]
    /\ next_msg_id \in [Client -> MsgId]
    /\ connects \in [Client -> 0 .. MaxConnects]
    /\ calls \in [Client -> 0 .. MaxCalls]
QueueTypeOK ==
    /\ queue \in [Client -> Seq(Event)]
    /\ \A c \in Client : Len(queue[c]) <= QueueCap
TableTypeOK == table \in [Process -> [MsgId -> TableState]]
CallTypeOK ==
    /\ pc \in [Client -> Location]
    /\ msg \in [Client -> PublishMsg \cup {NoMsg}]
    /\ retries \in [Client -> 0 .. MaxRetries + 1]
    /\ polls \in [Client -> 0 .. Polls]
HistoryTypeOK ==
    /\ result \in [Data -> Outcome]
    /\ got \in [Client -> SUBSET (Data \cup {NoData})]

ClientTypeOK ==
    /\ SessionTypeOK
    /\ QueueTypeOK
    /\ TableTypeOK
    /\ CallTypeOK
    /\ HistoryTypeOK

EmptyTable == [i \in MsgId |-> "NONE"]

ClientInit ==
    /\ qos = [c \in Client |-> 0]
    /\ next_msg_id = [c \in Client |-> 0]
    /\ queue = [c \in Client |-> <<>>]
    /\ table = [p \in Process |-> EmptyTable]
    /\ pc = [c \in Client |-> "closed"]
    /\ msg = [c \in Client |-> NoMsg]
    /\ retries = [c \in Client |-> 0]
    /\ polls = [c \in Client |-> 0]
    /\ connects = [c \in Client |-> 0]
    /\ calls = [c \in Client |-> 0]
    /\ result = [d \in Data |-> "none"]
    /\ got = [c \in Client |-> {}]

-----------------------------------------------------------------------------
(* The application thread. *)

EntryOf(c) == table[ProcessOf[c]][msg[c].id]
ThisCall(c) == <<c, calls[c]>>

\* slimmq_connect: identifiers start again at 1, whatever the address was
\* used for before.
Connect(c) ==
    /\ pc[c] = "closed"
    /\ connects[c] < MaxConnects
    /\ connects' = [connects EXCEPT ![c] = @ + 1]
    /\ pc' = [pc EXCEPT ![c] = "idle"]
    /\ qos' = [qos EXCEPT ![c] = 0]
    /\ next_msg_id' = [next_msg_id EXCEPT ![c] = 1 % IdSpace]
    /\ queue' = [queue EXCEPT ![c] = <<>>]
    /\ UNCHANGED <<net, table, msg, retries, polls, calls, result, got>>

\* slimmq_close: the QoS 2 table of the whole process goes with a QoS 2 client.
Close(c) ==
    /\ pc[c] = "idle"
    /\ pc' = [pc EXCEPT ![c] = "closed"]
    /\ queue' = [queue EXCEPT ![c] = <<>>]
    /\ table' = IF qos[c] = 2 THEN [table EXCEPT ![ProcessOf[c]] = EmptyTable]
                              ELSE table
    /\ UNCHANGED <<net, qos, next_msg_id, msg, retries, polls, connects, calls,
                   result, got>>

\* slimmq_set_qos: any byte is stored; QoS 2 initialises the table of the process.
SetQos(c, q) ==
    /\ c \in Publisher /\ pc[c] = "idle"
    /\ qos' = [qos EXCEPT ![c] = q]
    /\ table' = IF q = 2 THEN [table EXCEPT ![ProcessOf[c]] = EmptyTable]
                         ELSE table
    /\ UNCHANGED <<net, next_msg_id, queue, callVars, connects, calls, result, got>>

\* Mutant: next_msg_id is not advanced.
TakeSameId(c) ==
    /\ calls[c] < MaxCalls
    /\ calls' = [calls EXCEPT ![c] = @ + 1]
    /\ UNCHANGED next_msg_id

\* client->next_msg_id++ of a subscribe or publish call.
TakeId(c) ==
    /\ calls[c] < MaxCalls
    /\ calls' = [calls EXCEPT ![c] = @ + 1]
    /\ next_msg_id' = [next_msg_id EXCEPT ![c] = (@ + 1) % IdSpace]

\* slimmq_subscribe: one datagram, no answer, no retry.
Subscribe(c, f) ==
    /\ c \in Subscriber /\ pc[c] = "idle"
    /\ TakeId(c)
    /\ Send([type |-> "SUBSCRIBE", dir |-> Up, peer |-> c, filter |-> f])
    /\ UNCHANGED <<qos, queue, table, callVars, connects, result, got>>

\* slimmq_publish, up to the loop: the message is serialized once.
PublishCall(c, t) ==
    /\ c \in Publisher /\ pc[c] = "idle"
    /\ TakeId(c)
    /\ msg' = [msg EXCEPT ![c] =
                 [type |-> "PUBLISH", dir |-> Up, peer |-> c, qos |-> qos[c],
                  id |-> next_msg_id[c], topic |-> t, data |-> <<c, calls[c] + 1>>]]
    /\ pc' = [pc EXCEPT ![c] = "send"]
    /\ UNCHANGED <<net, qos, queue, table, retries, polls, connects, result, got>>

\* slimmq_publish of a message that does not fit its buffer.
PublishTooBig(c) ==
    /\ c \in Publisher /\ pc[c] = "idle"
    /\ TakeId(c)
    /\ result' = [result EXCEPT ![<<c, calls[c] + 1>>] = "failed"]
    /\ UNCHANGED <<net, qos, queue, table, callVars, connects, got>>

\* slimmq_publish returns; "sent" is the return value 0 of QoS 0.
Return(c, outcome) ==
    /\ result' = [result EXCEPT ![ThisCall(c)] = outcome]
    /\ pc' = [pc EXCEPT ![c] = "idle"]
    /\ msg' = [msg EXCEPT ![c] = NoMsg]
    /\ retries' = [retries EXCEPT ![c] = 0]
    /\ polls' = [polls EXCEPT ![c] = 0]
    /\ UNCHANGED <<qos, next_msg_id, connects, calls, got>>

\* A step inside slimmq_publish that goes on at location l.
GoTo(c, l) ==
    /\ pc' = [pc EXCEPT ![c] = l]
    /\ polls' = [polls EXCEPT ![c] = 0]
    /\ UNCHANGED <<qos, next_msg_id, msg, connects, calls, result, got>>

\* Mutant: retries is not counted.
RetryForever(c) ==
    /\ GoTo(c, "send")
    /\ UNCHANGED <<net, queue, table, retries>>

\* retries++ and back to the head of the loop.
Retry(c) ==
    /\ retries' = [retries EXCEPT ![c] = @ + 1]
    /\ GoTo(c, "send")
    /\ UNCHANGED <<net, queue, table>>

\* A poll that did not find what it waits for.
PollAgain(c) ==
    /\ polls' = [polls EXCEPT ![c] = @ + 1]
    /\ UNCHANGED <<net, qos, next_msg_id, queue, table, pc, msg, retries, connects,
                   calls, result, got>>

\* Where the loop goes on after sending.  It has no branch for levels above 2:
\* their message is sent again at once, and no retry is counted.
AfterSend(q) == CASE q = 1 -> "ack" [] q = 2 -> "received" [] OTHER -> "send"

\* The head of the loop: the message is sent, for the first time or again.
SendPublish(c) ==
    /\ pc[c] = "send" /\ retries[c] <= MaxRetries
    /\ Send(msg[c])
    /\ \/ /\ msg[c].qos = 0
          /\ Return(c, "sent")
       \/ /\ msg[c].qos # 0
          /\ GoTo(c, AfterSend(msg[c].qos))
          /\ UNCHANGED retries
    /\ UNCHANGED <<queue, table>>

\* send_bytes fails, or the retries are used up.
PublishFails(c) ==
    /\ pc[c] = "send"
    /\ Return(c, "failed")
    /\ UNCHANGED <<net, queue, table>>

\* QoS 1: one event_queue_wait_ack after a sleep.
PollAck(c) ==
    /\ pc[c] = "ack" /\ polls[c] < Polls
    /\ \/ /\ AckPositions(queue[c], msg[c].id) # {}
          /\ queue' = [queue EXCEPT ![c] = TakeAck(@, msg[c].id)]
          /\ Return(c, "ok")
          /\ UNCHANGED <<net, table>>
       \/ /\ AckPositions(queue[c], msg[c].id) = {}
          /\ PollAgain(c)

AckTimeout(c) == pc[c] = "ack" /\ polls[c] >= Polls /\ Retry(c)

\* QoS 2, first wait: the loop ends early when the entry is WAIT_COMPLETE.
PollReceived(c) ==
    /\ pc[c] = "received" /\ polls[c] < Polls
    /\ \/ /\ EntryOf(c) = "WAIT_COMPLETE"
          /\ GoTo(c, "check")
          /\ UNCHANGED <<net, queue, table, retries>>
       \/ /\ EntryOf(c) # "WAIT_COMPLETE"
          /\ PollAgain(c)

\* The entry is read again after the loop, and decides.
Checking(c) ==
    \/ pc[c] = "check"
    \/ pc[c] = "received" /\ polls[c] >= Polls

\* Mutant: RELEASE goes out whatever the entry says.
SendReleaseUnchecked(c) ==
    /\ Checking(c)
    /\ Send(Control(Up, c, "RELEASE", msg[c].id))
    /\ GoTo(c, "complete")
    /\ UNCHANGED <<queue, table, retries>>

SendRelease(c) ==
    /\ Checking(c)
    /\ EntryOf(c) = "WAIT_COMPLETE"
    /\ Send(Control(Up, c, "RELEASE", msg[c].id))
    /\ GoTo(c, "complete")
    /\ UNCHANGED <<queue, table, retries>>

ReceivedTimeout(c) ==
    /\ Checking(c)
    /\ EntryOf(c) # "WAIT_COMPLETE"
    /\ Retry(c)

\* QoS 2, second wait: only COMPLETED ends it.
PollComplete(c) ==
    /\ pc[c] = "complete" /\ polls[c] < Polls
    /\ \/ /\ EntryOf(c) = "COMPLETED"
          /\ GoTo(c, "remove")
          /\ UNCHANGED <<net, queue, table, retries>>
       \/ /\ EntryOf(c) # "COMPLETED"
          /\ PollAgain(c)

CompleteTimeout(c) == pc[c] = "complete" /\ polls[c] >= Polls /\ Retry(c)

\* qos2_table_remove and return 0.
RemoveEntry(c) ==
    /\ pc[c] = "remove"
    /\ table' = [table EXCEPT ![ProcessOf[c]][msg[c].id] = "NONE"]
    /\ Return(c, "ok")
    /\ UNCHANGED <<net, queue>>

\* The steps of a running slimmq_publish.
PublishStep(c) ==
    \/ SendPublish(c)
    \/ PublishFails(c)
    \/ PollAck(c)
    \/ AckTimeout(c)
    \/ PollReceived(c)
    \/ SendRelease(c)
    \/ ReceivedTimeout(c)
    \/ PollComplete(c)
    \/ CompleteTimeout(c)
    \/ RemoveEntry(c)

\* slimmq_next_event: the oldest event, whatever its kind.  For an ACK the
\* application gets an empty topic and no data.
NextEvent(c) ==
    /\ c \in Subscriber \ Receiver /\ pc[c] # "closed"
    /\ queue[c] # <<>>
    /\ queue' = [queue EXCEPT ![c] = Tail(@)]
    /\ got' = [got EXCEPT ![c] = @ \cup {Head(queue[c]).data}]
    /\ UNCHANGED <<net, qos, next_msg_id, table, callVars, connects, calls, result>>

\* slimmq_receive takes a datagram from the socket beside the listener.  It
\* returns 0 for an ACK or a CONTROL as well, which the listener then misses.
ReceiveMessage(c) ==
    \E m \in net :
        /\ c \in Receiver /\ pc[c] = "idle"
        /\ m.dir = Down /\ m.peer = c
        /\ Receive(m, {})
        /\ got' = [got EXCEPT ![c] = @ \cup {IF m.type = "PUBLISH" THEN m.data ELSE NoData}]
        /\ UNCHANGED <<qos, next_msg_id, queue, table, callVars, connects, calls, result>>

-----------------------------------------------------------------------------
(* The listener thread: listener_loop, one datagram. *)

ListenEvent(c, m) ==
    /\ m.type \in {"ACK", "PUBLISH"}
    /\ queue' = [queue EXCEPT ![c] =
                   Push(@, [type |-> m.type, id |-> m.id,
                            data |-> IF m.type = "ACK" THEN NoData ELSE m.data])]
    /\ UNCHANGED table

ListenControl(c, m) ==
    /\ m.type = "CONTROL"
    /\ table' = CASE m.ctrl = "RECEIVED" ->
                       [table EXCEPT ![ProcessOf[c]][m.id] = "WAIT_COMPLETE"]
                  [] m.ctrl = "COMPLETE" ->
                       [table EXCEPT ![ProcessOf[c]][m.id] = "COMPLETED"]
                  [] OTHER -> table
    /\ UNCHANGED queue

Listener(c) ==
    \E m \in net :
        /\ pc[c] # "closed"
        /\ m.dir = Down /\ m.peer = c
        /\ Receive(m, {})
        /\ ListenEvent(c, m) \/ ListenControl(c, m)
        /\ UNCHANGED <<qos, next_msg_id, callVars, connects, calls, result, got>>
=============================================================================
