CONSTANTS
    MaxHeader = 60
    Deadline = 2
    Streams <- SomeStreams
    TransportPeer = TransportPeer
SPECIFICATION FairSpec
CHECK_DEADLOCK FALSE
INVARIANTS OutcomeAsDefined PayloadIntact HeaderBufferBound OneDeadline
PROPERTIES HeaderEnds
