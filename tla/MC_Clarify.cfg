SPECIFICATION FairSpec
CONSTANTS
    b1 = b1
    b2 = b2
    None = None
    lane = lane
    Bridge = {b1, b2}
    Questions = 2
    Lane = {lane}
    AskedOn <- HereOnly
    LaneOf <- OneLane
    Presents <- OwnOnly
    MaxReplies = 1
    MaxCrashes = 1
    MaxHydrates = 1
CHECK_DEADLOCK FALSE
INVARIANTS
    TypeOK
    LaneAsksOne
    PromptedOnce
PROPERTIES
    AskersReleased
    RowsReaped
