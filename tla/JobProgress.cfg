CONSTANTS
    j1 = j1
    w1 = w1
    w2 = w2
    r1 = r1
    r2 = r2
    r3 = r3
    r4 = r4
    u1 = u1
    l1 = l1
    NoJob = NoJob
    Jobs = {j1}
    Workers = {w1, w2}
    Requests = {r1, r2, r3, r4}
    Users = {u1}
    Urls = {l1}
    Owner <- MCOwner
    Url <- MCUrl
    Ops = {"create", "delete", "retry"}
    ApiThreads = 3
    MaxRetries = 1
    MaxJobsPerUser = 1
    MaxRestarts = 0
    WorkerFaults = FALSE
    RedisFaults = FALSE
    SchedulerRuns = TRUE
SPECIFICATION FairSpec
INVARIANTS
    CompletedHasFiles
    WaitingHasCarrier

    
CHECK_DEADLOCK FALSE
