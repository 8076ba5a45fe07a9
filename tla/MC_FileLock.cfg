SPECIFICATION FairLockSpec
CONSTANTS
    p1 = p1
    p2 = p2
    p3 = p3
    NoFile = NoFile
    Process = {p1, p2}
    Token <- Tokens
    MaxCrashes = 1
    MaxReboots = 1
    MaxFaults = 1
INVARIANTS
    OneHolder
    KeptFromTheLiving
PROPERTY AbandonedIsReclaimed
