SPECIFICATION Spec
CONSTANTS
    Users = {u1, u2}
    Script = script
    Proxies = {x1, x2, x3}
    NoProxy = NoProxy
    MaxSessions = 2
SYMMETRY Symmetry
INVARIANTS
    IInv
    ClosedOnceUnlessRaced
CHECK_DEADLOCK FALSE
