SPECIFICATION MCSpec
CONSTANTS
    u1 = u1
    u2 = u2
    e1 = e1
    e2 = e2
    c1 = c1
    c2 = c2
    s1 = s1
    s2 = s2
    None = None
    User = {u1, u2}
    Email = {e1, e2}
    Secret = {secret}
    Tab = {tab}
    Cli = {c1, c2}
    Service = {s1, s2}
    Url <- MCUrl
    Lookup = {l1, l2}
INVARIANTS
    EmailsDistinct
    SettledListIsCurrent
PROPERTIES
    EditsAreAuthorised
    AdminIsRestored
    LookupsEnd
CHECK_DEADLOCK FALSE
