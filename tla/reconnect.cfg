CONSTANTS
    p = p
    s = s
    Client = {p, s}
    Publisher = {p}
    Subscriber = {s}
    Receiver = {}
    Process = {p, s}
    ProcessOf <- OwnProcess
    Topic <- MCTopic
    Filter <- MCFilter
    QosUsed = {2}
    MaxCalls = 2
    IdSpace = 4
    QosSpace = 3
    MaxRetries = 0
    Polls = 1
    QueueCap = 1
    MaxConnects = 2
    Duplicates = FALSE
    MaxInTransit = 2
SPECIFICATION Spec
CONSTRAINT Bounds
INVARIANT SuccessForwarded
CHECK_DEADLOCK FALSE
