SPECIFICATION FairSpec
CONSTANTS
    p1 = p1
    r1 = r1
    r2 = r2
    daily = daily
    None = None
    Job = {daily}
    Process = {p1}
    Runner = {r1, r2}
    ProcessOf <- OneProcess
    Callers = {r2}
    Schedules = {0, 1}
    Every = 1
    Grace = 0
    Skips = {daily}
    Windowed = {daily}
    LimitOf <- ForEver
    MaxParallel = 1
    MaxTime = 2
    MaxRuns = 2
    MaxEdits = 2
    MaxAsks = 1
    MaxFaults = 1
    MaxUpsets = 3
CHECK_DEADLOCK FALSE
INVARIANT
    FiringsAccounted
PROPERTY NoneStuck
