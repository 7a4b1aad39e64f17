CONSTANTS
    Conns = {c1}
    Datagrams = {d1}
    Workers = {w1}
    BlockVerdicts = {"Accepted", "Refused", "Failed"}
    Chunks <- SomeChunks
    ProxyProtocol = FALSE
    MaxPending = 2
    MaxPendingPerConnection = 1
    MaxConnections = 1
    ChannelCapacity = 1
    MaxOutcomes = 2
    AttemptLimit = 2
    DrainMayTimeOut = TRUE
SPECIFICATION Spec
CHECK_DEADLOCK FALSE
INVARIANTS PermitsBalanced StatsExact NothingUncounted CleanDrain
PROPERTIES HandlerOrder ImplementsAdmission
