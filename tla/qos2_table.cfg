CONSTANTS
    Thread = {"app", "listener"}
    MaxId = 3
    Key <- MCKey
    NBuckets = 2
    HashOf <- MCHashOf
    Value = {"WAIT_COMPLETE", "COMPLETED"}
    NONE = "NONE"
    a1 = a1
    a2 = a2
    Cell = {a1, a2}
    NULL = NULL
    Garbage <- MCGarbage
    MaxTime = 0
    Expiration = 0
SPECIFICATION QosSpec
INVARIANTS
    LookupIsCurrent
    NoFreedEntryInUse
PROPERTY CallsReturn
CHECK_DEADLOCK FALSE
