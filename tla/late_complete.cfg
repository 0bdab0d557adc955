CONSTANTS
    p = p
    s = s
    Client = {p, s}
    Publisher = {p}
    Subscriber = {s}
    Receiver = {}
    Process = {p, s}
    ProcessOf <- OwnProcess
    Topic <- MCTopic
    Filter <- MCFilter
    QosUsed = {2}
    MaxCalls = 1
    IdSpace = 4
    QosSpace = 3
    MaxRetries = 1
    Polls = 1
    QueueCap = 1
    MaxConnects = 1
    Duplicates = TRUE
    MaxInTransit = 3
SPECIFICATION Spec
CONSTRAINT Bounds
INVARIANT FailsOnlyIncomplete
CHECK_DEADLOCK FALSE
