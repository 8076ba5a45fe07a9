SPECIFICATION FairSpec
CONSTANTS
    m1 = m1
    m2 = m2
    m3 = m3
    NoMessage = NoMessage
    Message = {m1, m2}
    MaxRows = 2
    Sort <- AllPlain
    MaxAttempts = 1
    MaxCrashes = 2
    MaxShutdowns = 1
    MaxThrows = 1
    MaxOps = 0
CHECK_DEADLOCK FALSE
INVARIANTS
    TypeOK
    HeldRowsOwed
    OnlyAstrayLost
    CrashLoopBounded
PROPERTIES
    RepliedOnce
    EventuallySettled
