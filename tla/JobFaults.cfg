CONSTANTS
    j1 = j1
    w1 = w1
    w2 = w2
    r1 = r1
    r2 = r2
    r3 = r3
    u1 = u1
    l1 = l1
    NoJob = NoJob
    Jobs = {j1}
    Workers = {w1, w2}
    Requests = {r1, r2, r3}
    Users = {u1}
    Urls = {l1}
    Owner <- MCOwner
    Url <- MCUrl
    Ops = {"create", "delete", "retry", "cancel"}
    ApiThreads = 3
    MaxRetries = 1
    MaxJobsPerUser = 1
    MaxRestarts = 1
    WorkerFaults = TRUE
    RedisFaults = TRUE
    SchedulerRuns = TRUE
SPECIFICATION Spec
SYMMETRY Symmetry
INVARIANTS
    TypeOK
    
    ProcessingHasRunner
    PendingHasCarrier
    ActiveHasRunner
PROPERTIES
    NoResurrection
CHECK_DEADLOCK FALSE
