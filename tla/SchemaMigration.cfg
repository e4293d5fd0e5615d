SPECIFICATION FairSpec
CONSTANTS
    Proc = {p1, p2, p3}
    Head = 2
    MaxResets = 1
    MaxCrashes = 2
    None = None
INVARIANTS
    TablesMatchVersion
    DoneMeansMigrated
PROPERTIES
    ImplementsUpgrade
    AttemptsEnd
CHECK_DEADLOCK FALSE
