CONSTANTS
    Executions = {e1, e2, e3}
    MaxRunning = 2
    MaxColmapRetries = 1
    Dense = TRUE
    Splatting = TRUE
    Wipes = TRUE
SPECIFICATION Spec
SYMMETRY Symmetry
INVARIANTS
    TypeOK
    
    CheckpointOrdered

    
CHECK_DEADLOCK FALSE
