CONSTANTS
    p = p
    s = s
    Client = {p, s}
    Publisher = {p}
    Subscriber = {s}
    Receiver = {}
    Process = {p, s}
    ProcessOf <- OwnProcess
    Topic <- MCTopic
    Filter <- MCFilter
    QosUsed = {1, 2}
    MaxCalls = 2
    IdSpace = 4
    QosSpace = 3
    MaxRetries = 2
    Polls = 1
    QueueCap = 4
    MaxConnects = 1
    Duplicates = FALSE
SPECIFICATION TimelySpec
INVARIANTS
    NoPublishFails
    HandedOnce
PROPERTY PublishedIsReceived
CHECK_DEADLOCK FALSE
