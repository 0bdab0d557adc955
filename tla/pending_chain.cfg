CONSTANTS
    broker = broker
    Thread = {broker}
    k1 = k1
    k2 = k2
    k3 = k3
    Key = {k1, k2, k3}
    NBuckets = 2
    HashOf <- MCHashOf
    Value = {"RECEIVED", "COMPLETED"}
    NONE = "NONE"
    a1 = a1
    a2 = a2
    a3 = a3
    Cell = {a1, a2, a3}
    NULL = NULL
    Garbage <- MCGarbage
    MaxTime = 1
    Expiration = 0
SPECIFICATION ChainSpec
SYMMETRY Addresses
INVARIANTS
    ChainTypeOK
    NothingLost
PROPERTY ImplementsTable
