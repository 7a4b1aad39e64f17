CONSTANTS
    Conns = {c1}
    Requests = {r1}
    Workers = {w1}
    ChannelCapacity = 1
    MaxConnectionAge = TRUE
    AcceptErrors = FALSE
SPECIFICATION Spec
CHECK_DEADLOCK FALSE
INVARIANTS GracefulWithMaxAge
