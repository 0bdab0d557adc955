CONSTANTS
    p = p
    Client = {p}
    Publisher = {p}
    Subscriber = {p}
    Receiver = {}
    Process = {p}
    ProcessOf <- OwnProcess
    Topic <- MCTopic
    Filter <- MCFilter
    QosUsed = {0, 1, 2, 3}
    MaxCalls = 2
    IdSpace = 4
    QosSpace = 4
    MaxRetries = 1
    Polls = 1
    QueueCap = 1
    MaxConnects = 1
    Duplicates = TRUE
SPECIFICATION LossyFairSpec
INVARIANT SuccessForwarded
PROPERTY PublishReturns
CHECK_DEADLOCK FALSE
