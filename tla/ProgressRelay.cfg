CONSTANTS
    Outcomes = {"completed"}
    MaxWrites = 3
    MaxSockets = 2
    MaxHistory = 2
    ThreadHasLoop = TRUE
    Losses = TRUE
SPECIFICATION Spec
INVARIANTS
    
    InitialFresh
    NoDeadConnection
CHECK_DEADLOCK FALSE
