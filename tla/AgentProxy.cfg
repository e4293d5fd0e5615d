SPECIFICATION MCSpec
CONSTANTS
    u1 = u1
    u2 = u2
    a1 = a1
    a2 = a2
    k1 = k1
    k2 = k2
    x1 = x1
    x2 = x2
    None = None
    Absent = Absent
    Deleted = Deleted
    User = {u1, u2}
    Agent = {a1, a2}
    Key = {k1, k2}
    Url = {x1, x2}
    Segment = {"runs", "t1", "stream", "threads", "search", "openapi.json"}
    Cut <- MCCut
    Decoded <- MCDecoded
    Base <- MCBase
    Requests <- MCRequests
    MaxEdits = 3
INVARIANTS
    ForwardedWasAllowed
    RefusedWithReason
    SearchesStayScoped
    ClientsReleased
PROPERTIES
    CallsAreAnswered
CHECK_DEADLOCK FALSE
