SPECIFICATION FairSpec
CONSTANTS
    SyncRequest = {s1, s2, s3}
    AsyncRequest = {a1, a2}
    Sizings <- MCSizings
    None = None
INVARIANTS
    NoConnectionLeaks
    
PROPERTIES
    LoopRecovers
    AuthRequestsEnd
