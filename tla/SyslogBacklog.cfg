CONSTANTS
    Conns = {c1}
    Datagrams = {d1}
    Workers = {w1}
    BlockVerdicts = {"Accepted", "Refused"}
    Chunks <- MessageChunks
    ProxyProtocol = FALSE
    MaxPending = 4
    MaxPendingPerConnection = 1
    MaxConnections = 1
    ChannelCapacity = 1
    MaxOutcomes = 4
    AttemptLimit = 2
    DrainMayTimeOut = FALSE
SPECIFICATION FairSpec
CHECK_DEADLOCK FALSE
INVARIANTS PermitsInHand ConnectionBound
PROPERTIES EveryMessageSettles
