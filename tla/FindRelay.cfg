CONSTANTS
    Outcomes = {"completed"}
    MaxWrites = 2
    MaxSockets = 1
    MaxHistory = 2
    ThreadHasLoop = FALSE
    Losses = FALSE
SPECIFICATION FairSpec
PROPERTIES
    OutcomeShown
CHECK_DEADLOCK FALSE
