----------------------------- MODULE EventQueue -----------------------------
(***************************************************************************)
(* A client's event queue (event_queue.c): a ring buffer behind a mutex,   *)
(* with a condition variable for the threads that wait in event_queue_pop. *)
(* A critical section is one step; pthread_cond_wait ends one and, once    *)
(* the thread has been woken, begins another.                              *)
(***************************************************************************)
EXTENDS Integers, FiniteSets, EventFifo

CONSTANTS
    EventKind,    \* "ACK" and "PUBLISH"
    EventId,      \* msg_id of the events
    Consumer      \* threads that call event_queue_pop

ASSUME ConsumerAssumption == IsFiniteSet(Consumer)

VARIABLES
    buffer,       \* q->buffer
    head,         \* q->head
    tail,         \* q->tail
    count,        \* q->count
    thread,       \* where a consumer is: outside, asleep in pthread_cond_wait,
                  \* or woken and on its way to the mutex
    did           \* the last call that returned, and its result

ringVars == <<buffer, head, tail, count>>
queueVars == <<ringVars, thread, did>>

Slot == 0 .. (QueueCap - 1)
QueueEvent == [type : EventKind, id : EventId]
Zero == [type |-> "", id |-> 0]

\* event_queue_init
QueueInit ==
    /\ buffer = [k \in Slot |-> Zero]
    /\ head = 0 /\ tail = 0 /\ count = 0
    /\ thread = [c \in Consumer |-> "outside"]
    /\ did = <<"init">>

Asleep == {c \in Consumer : thread[c] = "asleep"}
Woken == {c \in Consumer : thread[c] = "woken"}

\* Mutant: only the first event of an empty queue wakes a consumer.
SignalFirst ==
    \/ count = 0 /\ \E c \in Asleep : thread' = [thread EXCEPT ![c] = "woken"]
    \/ (Asleep = {} \/ count # 0) /\ UNCHANGED thread

\* pthread_cond_signal: one sleeping thread, if there is one.
Signal ==
    \/ \E c \in Asleep : thread' = [thread EXCEPT ![c] = "woken"]
    \/ Asleep = {} /\ UNCHANGED thread

PushFull(e) ==
    /\ count >= QueueCap
    /\ did' = <<"push", e, -1>>
    /\ UNCHANGED <<ringVars, thread>>

\* malloc fails for an event with data, after its slot has been written.
PushNoMemory(e) ==
    /\ count < QueueCap /\ e.type = "PUBLISH"
    /\ buffer' = [buffer EXCEPT ![tail] = e]
    /\ did' = <<"push", e, -2>>
    /\ UNCHANGED <<head, tail, count, thread>>

PushEvent(e) ==
    /\ count < QueueCap
    /\ buffer' = [buffer EXCEPT ![tail] = e]
    /\ tail' = (tail + 1) % QueueCap
    /\ count' = count + 1
    /\ Signal
    /\ did' = <<"push", e, 0>>
    /\ UNCHANGED head

\* Mutant: a woken thread takes the event without looking at count again.
PopUnchecked(c) ==
    /\ thread[c] = "woken" \/ (thread[c] = "outside" /\ count > 0)
    /\ did' = <<"pop", buffer[head], 0>>
    /\ head' = (head + 1) % QueueCap
    /\ count' = count - 1
    /\ thread' = [thread EXCEPT ![c] = "outside"]
    /\ UNCHANGED <<buffer, tail>>

\* event_queue_pop, with the mutex held for the first time or again.
Pop(c) ==
    /\ thread[c] # "asleep" /\ count > 0
    /\ did' = <<"pop", buffer[head], 0>>
    /\ head' = (head + 1) % QueueCap
    /\ count' = count - 1
    /\ thread' = [thread EXCEPT ![c] = "outside"]
    /\ UNCHANGED <<buffer, tail>>

PopWaits(c) ==
    /\ thread[c] # "asleep" /\ count = 0
    /\ thread' = [thread EXCEPT ![c] = "asleep"]
    /\ UNCHANGED <<ringVars, did>>

\* pthread_cond_wait may return without a signal.
SpuriousWakeup(c) ==
    /\ thread[c] = "asleep"
    /\ thread' = [thread EXCEPT ![c] = "woken"]
    /\ UNCHANGED <<ringVars, did>>

\* The slot of the event i places behind the head.
SlotOf(i) == (head + i) % QueueCap

\* Is the event i places behind the head the acknowledgement wanted?
IsAck(i, id) == buffer[SlotOf(i)].type = "ACK" /\ buffer[SlotOf(i)].id = id

\* Mutant: the events behind the acknowledgement move, tail does not.
TakeAckAtKeepTail(i) ==
    /\ buffer' = [k \in Slot |->
                    IF \E j \in i .. (count - 2) : SlotOf(j) = k
                      THEN buffer[(k + 1) % QueueCap] ELSE buffer[k]]
    /\ count' = count - 1
    /\ UNCHANGED <<head, tail>>

\* The event i places behind the head goes; the ones behind it move up.
TakeAckAt(i) ==
    /\ buffer' = [k \in Slot |->
                    IF \E j \in i .. (count - 2) : SlotOf(j) = k
                      THEN buffer[(k + 1) % QueueCap] ELSE buffer[k]]
    /\ tail' = (tail + QueueCap - 1) % QueueCap
    /\ count' = count - 1
    /\ UNCHANGED head

\* event_queue_wait_ack: the first acknowledgement of id, if there is one.
WaitAck(id) ==
    /\ \/ \E i \in 0 .. (count - 1) :
             /\ IsAck(i, id) /\ \A j \in 0 .. (i - 1) : ~IsAck(j, id)
             /\ TakeAckAt(i)
             /\ did' = <<"wait_ack", id, 0>>
       \/ /\ \A i \in 0 .. (count - 1) : ~IsAck(i, id)
          /\ did' = <<"wait_ack", id, -1>>
          /\ UNCHANGED ringVars
    /\ UNCHANGED thread

QueueNext ==
    \/ \E e \in QueueEvent : PushEvent(e) \/ PushFull(e) \/ PushNoMemory(e)
    \/ \E c \in Consumer : Pop(c) \/ PopWaits(c) \/ SpuriousWakeup(c)
    \/ \E id \in EventId : WaitAck(id)

QueueSpec == QueueInit /\ [][QueueNext]_queueVars

-----------------------------------------------------------------------------
\* The indices of the ring agree: head, tail and count stay in range and tail
\* is count places behind head, after every mixture of push, pop and wait_ack.
RingInv ==
    /\ buffer \in [Slot -> QueueEvent \cup {Zero}]
    /\ head \in Slot /\ tail \in Slot /\ count \in 0 .. QueueCap
    /\ tail = (head + count) % QueueCap
    /\ thread \in [Consumer -> {"outside", "asleep", "woken"}]

\* No wakeup is lost: while a thread sleeps in event_queue_pop, every event in
\* the queue has a thread of its own that has been woken to take it, although
\* event_queue_wait_ack and late callers of event_queue_pop get in between.
NoLostWakeup == Asleep # {} => count <= Cardinality(Woken)

\* The ring buffer implements the queue of module FifoSpec: its events, from
\* head to tail, are that queue, and every call has the queue's effect.
Live == [k \in 1 .. count |-> buffer[(head + k - 1) % QueueCap]]
Abstract == INSTANCE FifoSpec WITH fifo <- Live
ImplementsFifo == Abstract!Fifo
=============================================================================
