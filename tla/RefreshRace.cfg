SPECIFICATION MCSpec
CONSTANTS
    h1 = h1
    h2 = h2
    u1 = u1
    u2 = u2
    None = None
    Handlers <- TwoHandlers
    Users <- TwoUsers
    Token <- Token3
    Lifetime = 1
    MaxTime = 1
INVARIANTS
    TypeOK
    OneLivePerLogin
    EndedLoginStaysEnded
    ChainLinks
    DeletedUserLeavesNothing
    RowsOutliveTheirReaders
PROPERTIES
    RevokedIsNeverExchanged
    OnlyRacedReplaysMiss
    ImplementsRotation
CHECK_DEADLOCK FALSE
