------------------------------ MODULE FifoSpec ------------------------------
(***************************************************************************)
(* The event queue as its callers see it: a bounded FIFO queue, and what   *)
(* the last call did.                                                      *)
(***************************************************************************)
EXTENDS Integers, EventFifo

CONSTANTS EventKind, EventId

VARIABLES
    fifo,    \* the events waiting, oldest first
    did      \* the last call and what it returned

FifoEvent == [type : EventKind, id : EventId]

FifoInit == fifo = <<>> /\ did = <<"init">>

FifoPush(e) ==
    /\ fifo' = Push(fifo, e)
    /\ did' = <<"push", e, IF fifo' = fifo THEN -1 ELSE 0>>

\* A push that fails for want of memory.
FifoNoMemory(e) == did' = <<"push", e, -2>> /\ UNCHANGED fifo

FifoPop ==
    /\ fifo # <<>>
    /\ did' = <<"pop", Head(fifo), 0>>
    /\ fifo' = Tail(fifo)

FifoTakeAck(i) ==
    IF AckPositions(fifo, i) = {}
      THEN did' = <<"wait_ack", i, -1>> /\ UNCHANGED fifo
      ELSE did' = <<"wait_ack", i, 0>> /\ fifo' = TakeAck(fifo, i)

FifoNext ==
    \/ \E e \in FifoEvent : FifoPush(e) \/ FifoNoMemory(e)
    \/ FifoPop
    \/ \E i \in EventId : FifoTakeAck(i)

Fifo == FifoInit /\ [][FifoNext]_<<fifo, did>>
=============================================================================
