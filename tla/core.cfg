CONSTANTS
    p = p
    s = s
    Client = {p, s}
    Publisher = {p}
    Subscriber = {s}
    Receiver = {p}
    Process = {p, s}
    ProcessOf <- OwnProcess
    Topic <- MCTopic
    Filter <- MCFilter
    QosUsed = {0, 1, 2}
    MaxCalls = 2
    IdSpace = 4
    QosSpace = 3
    MaxRetries = 1
    Polls = 1
    QueueCap = 1
    MaxConnects = 1
    Duplicates = TRUE
    MaxInTransit = 2
SPECIFICATION Spec
CONSTRAINT Bounds
INVARIANTS
    TypeOK
    SuccessForwarded
    CompletedWasForwarded
    AnswersAreGenuine
CHECK_DEADLOCK FALSE
