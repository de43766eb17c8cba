CONSTANTS
    j1 = j1
    h1 = h1
    h2 = h2
    ply = ply
    potree = potree
    download = download
    sparse = sparse
    NoJob = NoJob
    Jobs = {j1}
    Handlers = {h1, h2}
    Working = {download}
    Sparse = {sparse}
    Finals = {ply, potree}
    JobTtl = 1
    IntermediateTtl = 2
    ResultTtl = 3
    MaxRestarts = 1
    MaxCleanups = 2
SPECIFICATION Spec
SYMMETRY Symmetry
INVARIANTS
    FinalsKept
    ServedWhole
    OrphansExplained

    
CHECK_DEADLOCK FALSE
