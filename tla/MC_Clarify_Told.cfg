SPECIFICATION Spec
CONSTANTS
    b1 = b1
    b2 = b2
    None = None
    lane = lane
    Bridge = {b1}
    Questions = 2
    Lane = {lane}
    AskedOn <- HereOnly
    LaneOf <- OneLane
    Presents <- OwnOnly
    MaxReplies = 1
    MaxCrashes = 0
    MaxHydrates = 1
CHECK_DEADLOCK FALSE
INVARIANT ToldIsReceived
