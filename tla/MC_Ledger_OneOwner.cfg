SPECIFICATION FairSpec
CONSTANTS
    p1 = p1
    p2 = p2
    o1 = o1
    None = None
    Process = {p1, p2}
    Obligation = {o1}
    Serves <- Bystander
    MaxCrashes = 1
    MaxFaults = 2
    MaxAttempts = 2
INVARIANTS
    DuplicateNeedsFault
    GivenUpForAReason
PROPERTIES
    PromiseImplemented
    EventuallySettled
