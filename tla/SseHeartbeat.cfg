SPECIFICATION FairSpec
CONSTANTS
    MaxChunks = 3
    Interval = 2
    Ping = Ping
INVARIANTS
    ChunksInOrder
    CompleteIsWhole
PROPERTIES
    KeepsAlive
    UpstreamReleased
    ImplementsStream
CHECK_DEADLOCK FALSE
