CONSTANTS
    f1 = f1
    f2 = f2
    f3 = f3
    Executions = {e1, e2}
    MaxRunning = 1
    MaxColmapRetries = 2
    Dense = TRUE
    Splatting = TRUE
    Wipes = TRUE
    Frames <- MCFrames
    Blurry <- MCBlurry
    GsIterations = 2
SPECIFICATION FairPipelineSpec
INVARIANTS
    
    NotRedone
    ResultHonest
    
PROPERTIES
    PipelineEnds
CHECK_DEADLOCK FALSE
