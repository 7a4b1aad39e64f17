CONSTANTS
    Servers = {s1, s2, s3}
    Inodes = {i1, i2, i3}
    ReuseInodes = TRUE
    NoServer = NoServer
    NoInode = NoInode
SPECIFICATION SocketSpec
CHECK_DEADLOCK FALSE
INVARIANTS NothingLeftBehind
PROPERTIES TakesOnlyRaced
