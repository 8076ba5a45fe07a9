SPECIFICATION LockSpec
CONSTANTS
    p1 = p1
    p2 = p2
    p3 = p3
    NoFile = NoFile
    Process = {p1, p2, p3}
    Token <- Tokens
    MaxCrashes = 1
    MaxReboots = 0
    MaxFaults = 0
SYMMETRY Pids
INVARIANT OneWriter
