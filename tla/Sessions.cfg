CONSTANTS
    Tabs = {t1, t2}
    Calls = {c1, c2}
    MaxLogins = 1
    MaxRefreshes = 3
SPECIFICATION Spec
SYMMETRY Symmetry
INVARIANTS
    SessionsTypeOK
    PresentedOnce
    OneSuccessor
    AtRestUsable
    
PROPERTIES
    GoodTokensKept
CHECK_DEADLOCK FALSE
