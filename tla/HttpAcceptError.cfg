CONSTANTS
    Conns = {c1}
    Requests = {r1}
    Workers = {w1}
    ChannelCapacity = 1
    MaxConnectionAge = FALSE
    AcceptErrors = TRUE
SPECIFICATION FairSpec
CHECK_DEADLOCK FALSE
PROPERTIES ConnectionsAccepted
