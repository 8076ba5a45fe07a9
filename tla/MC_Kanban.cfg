SPECIFICATION FairSpec
CONSTANTS
    t1 = t1
    s1 = s1
    None = None
    Dispatcher = Dispatcher
    Task = {t1}
    Serve = {s1}
    ParentsOf <- NoParents
    AssigneeOf <- AllMine
    MaxRetries = 1
    MaxInProgress = 1
    BlockLimit = 2
    MaxRuns = 3
    MaxEvents = 1
CHECK_DEADLOCK FALSE
INVARIANTS
    ClaimsAccounted
PROPERTY OpenRunsEnd
