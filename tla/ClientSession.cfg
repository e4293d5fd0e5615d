SPECIFICATION Spec
CONSTANTS
    None = None
    Keep = Keep
    Browser = {b1, b2}
    Call = {x1, x2}
    Token = {t1, t2, t3}
    Lifetime = 1
    AccessLifetime = 1
    MaxTime = 1
SYMMETRY Symmetry
INVARIANTS
    ClientKeepsUp
    AccessEndsWithItsLogin
PROPERTIES
    LogoutEndsTheLogin
    RefusedIsFinal
CHECK_DEADLOCK FALSE
