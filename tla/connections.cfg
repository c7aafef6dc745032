SPECIFICATION ConnFairSpec
CONSTANTS
    Conns = {c1, c2}
    Fds <- FiveFds
    Kinds = {"history", "push", "malformed"}
    Header = 2
    Cap = 3
    Limit = 4
    PushSizes = {4, 5}
    ShortRequest = 3
    ReplySizes = {4}
    ShortReply = 3
    SendBuffer = 3
    Late = {"push"}
    Splits = {"history"}
INVARIANTS
    ConnTypeOK
    OwnDescriptor
PROPERTIES
    ImplementsExchange
    Released
    Answered
CHECK_DEADLOCK FALSE
