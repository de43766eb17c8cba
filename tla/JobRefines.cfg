CONSTANTS
    j1 = j1
    j2 = j2
    w1 = w1
    w2 = w2
    r1 = r1
    r2 = r2
    r3 = r3
    r4 = r4
    u1 = u1
    l1 = l1
    NoJob = NoJob
    Jobs = {j1, j2}
    Workers = {w1, w2}
    Requests = {r1, r2, r3, r4}
    Users = {u1}
    Urls = {l1}
    Owner <- MCOwner
    Url <- MCUrl
    Ops = {"create", "delete", "retry"}
    ApiThreads = 1
    MaxRetries = 1
    MaxJobsPerUser = 2
    MaxRestarts = 0
    WorkerFaults = FALSE
    RedisFaults = FALSE
    SchedulerRuns = TRUE
SPECIFICATION Spec
SYMMETRY Symmetry
PROPERTIES
    ImplementsMachine
CHECK_DEADLOCK FALSE
