CONSTANTS
    Conns = {c1, c2}
    Requests = {r1, r2}
    Workers = {w1}
    ChannelCapacity = 1
    MaxConnectionAge = FALSE
    AcceptErrors = TRUE
SPECIFICATION FairSpec
CHECK_DEADLOCK FALSE
INVARIANTS RejectedNeverRun OneRunPerAnswer GracefulStop WaitedForIsTold
PROPERTIES NoReplyWhileStopWaits EveryRequestEnds
