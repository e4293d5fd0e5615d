SPECIFICATION Spec
CONSTANTS
    Proc = {p1, p2}
    Head = 2
    MaxResets = 0
    MaxCrashes = 0
    None = None
INVARIANTS
    NobodyCollides
CHECK_DEADLOCK FALSE
