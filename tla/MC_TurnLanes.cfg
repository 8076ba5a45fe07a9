SPECIFICATION FairSpec
CONSTANTS
    a = a
    b = b
    a1 = a1
    a2 = a2
    b1 = b1
    None = None
    Chat = {a, b}
    Message = {a1, a2, b1}
    ChatOf <- ChatOfMessage
    Lane <- Lanes
    MaxPermits = 1
    MaxChats = 1
    MaxLaneQueue = 1
    MaxStops = 2
CHECK_DEADLOCK FALSE
INVARIANTS
    TypeOK
    PermitsAccounted
    OneTurnBarringEviction
PROPERTY EventuallyEnds
