CONSTANTS
    j1 = j1
    w1 = w1
    r1 = r1
    u1 = u1
    l1 = l1
    NoJob = NoJob
    Jobs = {j1}
    Workers = {w1}
    Requests = {r1}
    Users = {u1}
    Urls = {l1}
    Owner <- MCOwner
    Url <- MCUrl
    Ops = {"create"}
    ApiThreads = 1
    MaxRetries = 1
    MaxJobsPerUser = 1
    MaxRestarts = 0
    WorkerFaults = FALSE
    RedisFaults = FALSE
    SchedulerRuns = TRUE
SPECIFICATION FairSpec
PROPERTIES
    RetryHappens
CHECK_DEADLOCK FALSE
