SPECIFICATION Spec
CONSTANTS
    m1 = m1
    m2 = m2
    m3 = m3
    NoMessage = NoMessage
    Message = {m1, m2, m3}
    MaxRows = 4
    Sort <- RetryAndStop
    MaxAttempts = 2
    MaxCrashes = 1
    MaxShutdowns = 0
    MaxThrows = 0
    MaxOps = 1
CHECK_DEADLOCK FALSE
INVARIANTS
    OnlyAstrayLost
    ToolsNotRepeated
