CONSTANTS
    a = a
    b = b
    Client = {a, b}
    FilterString <- MCFilterString
    TopicString <- MCTopicString
SPECIFICATION TableSpec
INVARIANTS
    TreeMirrorsSubscriptions
    MatchAgrees
CHECK_DEADLOCK FALSE
