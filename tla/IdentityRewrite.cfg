SPECIFICATION MCSpec
CONSTANTS
    u1 = u1
    a1 = a1
    k1 = k1
    x1 = x1
    None = None
    Absent = Absent
    Deleted = Deleted
    User = {u1}
    Agent = {a1}
    Key = {k1}
    Url = {x1}
    Segment = {"", "threads", "runs", "stream", "wait", "batch", "search", "t1",
               ".", "..", "t1#", "t1%2Fruns"}
    Cut <- MCCut
    Decoded <- MCDecoded
    Base <- MCBase
    Requests <- MCRequests
    MaxEdits = 0
INVARIANTS
    OnlyIdentityChanges
    WellFormedIsForwarded
    NewStreamsAreStreams
CHECK_DEADLOCK FALSE
