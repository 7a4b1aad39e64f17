CONSTANTS
    Conns = {c1, c2, c3}
    Datagrams = {}
    Workers = {w1}
    BlockVerdicts = {"Accepted", "Refused"}
    Chunks <- MessageChunks
    ProxyProtocol = TRUE
    MaxPending = 1
    MaxPendingPerConnection = 1
    MaxConnections = 2
    ChannelCapacity = 1
    MaxOutcomes = 1
    AttemptLimit = 2
    DrainMayTimeOut = FALSE
SPECIFICATION FairSpec
CHECK_DEADLOCK FALSE
INVARIANTS ConnectionsCounted AbandonedOnlyAtShutdown
PROPERTIES DrainFinishes EveryMessageSettles
