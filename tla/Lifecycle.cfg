CONSTANTS
    Threads = {t1, t2}
    Workers = {w1}
    Paths = {a}
    Tcp = tcp
    Starters = {t1}
    MaxGen = 3
    Unreadable = {2}
SPECIFICATION FairSpec
CHECK_DEADLOCK FALSE
INVARIANTS  ListeningAccurate
PROPERTIES DrainKeepsWorkers SenderKept StopReturns WorkersReleased
