SPECIFICATION FairLifeSpec
CONSTANTS
    q1 = q1
    d1 = d1
    r1 = r1
    r2 = r2
    h1 = h1
    UICalls = {q1, d1, r1, r2, h1}
    NameOf <- Names
CHECK_DEADLOCK FALSE
INVARIANTS
    LifeInv
    GreetedWhenBothReady
PROPERTIES
    CallsAreAnswered
