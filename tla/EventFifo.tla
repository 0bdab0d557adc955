----------------------------- MODULE EventFifo ------------------------------
(***************************************************************************)
(* What a client's event queue promises: a bounded first-in first-out      *)
(* queue of events from which an acknowledgement can be taken out of turn. *)
(***************************************************************************)
EXTENDS Naturals, Sequences

CONSTANT QueueCap    \* MAX_EVENT_QUEUE_SIZE

ASSUME QueueAssumption == QueueCap \in Nat \ {0}

\* Mutants: one slot too many; one too few.
PushOver(q, e) == IF Len(q) > QueueCap THEN q ELSE Append(q, e)
PushShort(q, e) == IF Len(q) + 1 >= QueueCap THEN q ELSE Append(q, e)

\* event_queue_push: an event that finds the queue full is dropped.
Push(q, e) == IF Len(q) >= QueueCap THEN q ELSE Append(q, e)

\* Mutant: any acknowledgement will do.
AnyAckPositions(q, i) == {k \in 1 .. Len(q) : q[k].type = "ACK"}

\* The positions at which event_queue_wait_ack finds the acknowledgement i.
AckPositions(q, i) == {k \in 1 .. Len(q) : q[k].type = "ACK" /\ q[k].id = i}

\* The queue without position k: every later event moves down by one.
Without(q, k) ==
    [j \in 1 .. (Len(q) - 1) |-> IF j < k THEN q[j] ELSE q[j + 1]]

\* event_queue_wait_ack, when it returns 0: the first such event is removed.
TakeAck(q, i) ==
    Without(q, CHOOSE k \in AckPositions(q, i) :
                   \A j \in AckPositions(q, i) : k <= j)

\* The events in a queue.
Events(q) == {q[k] : k \in 1 .. Len(q)}
=============================================================================
