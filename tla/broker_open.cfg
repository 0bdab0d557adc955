CONSTANTS
    c1 = c1
    c2 = c2
    Client = {c1, c2}
    Topic <- MCTopic
    Filter <- MCFilter
    MaxCalls = 1
    IdSpace = 1
    QosSpace = 4
    Duplicates = TRUE
    MaxInTransit = 2
SPECIFICATION BrokerSpec
CONSTRAINT InTransitBound
INVARIANTS
    BrokerTypeOK
    ForwardAtMostOnce
    ReceivedMeansForwarded
PROPERTY PendingAdvances
CHECK_DEADLOCK TRUE
