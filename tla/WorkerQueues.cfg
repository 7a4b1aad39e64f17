CONSTANTS
    Workers = {w1, w2}
    WorkRatio = 1
    StreakModulus = 3
    ChannelCapacity = 2
SPECIFICATION FairSpec
CHECK_DEADLOCK FALSE
INVARIANTS RatioBound GvlExclusive
PROPERTIES RequestsNotStarved MessagesNotStarved WorkersEnd
