CONSTANTS
    Users = {u1}
    Handlers = {h1, h2}
    MaxAttempts = 2
    LockoutTicks = 2
    MaxWrong = 4
    MaxOutages = 2
SPECIFICATION FairSpec
INVARIANTS
    LockoutTypeOK
    BoundedOvershoot
    ExpiryOwed
PROPERTIES
    SignsIn
CHECK_DEADLOCK FALSE
