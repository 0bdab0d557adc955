CONSTANTS
    c1 = c1
    c2 = c2
    EventKind = {"ACK", "PUBLISH"}
    EventId = {1, 2}
    Consumer = {c1, c2}
    QueueCap = 3
SPECIFICATION QueueSpec
INVARIANTS
    RingInv
    NoLostWakeup
PROPERTY ImplementsFifo
