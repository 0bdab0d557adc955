CONSTANTS
    HeaderSize = 2
    MaxByte = 3
    LengthSpace = 8
    Refused = Refused
    PacketSize = 8
    TopicBuf = 4
    CtrlBuf = 3
    EventTopic = 3
    AppTopic = 4
    Topic <- MCTopic
    Message <- MCMessage
    Fill = 2
    MaxTransit = 2
    MaxCalls = 3
    QueueSize = 1
SPECIFICATION PathSpec
INVARIANTS
    ArrivesAsSent
    AcceptedEverywhere
CHECK_DEADLOCK FALSE
