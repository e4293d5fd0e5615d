SPECIFICATION FairSpec
CONSTANTS
    h1 = h1
    h2 = h2
    u1 = u1
    u2 = u2
    None = None
    Handlers <- TwoHandlers
    Users <- OneUser
    Token <- Token2
    Lifetime = 1
    MaxTime = 1
PROPERTIES
    RequestsEnd
CHECK_DEADLOCK FALSE
