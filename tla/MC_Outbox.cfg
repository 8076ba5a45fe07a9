SPECIFICATION FairSpec
CONSTANTS
    p1 = p1
    p2 = p2
    i1 = i1
    None = None
    Item = {i1}
    Process = {p1, p2}
    Serves <- BothServe
    MaxRevisions = 2
    MaxYeses = 2
    MaxCrashes = 2
    MaxRefusals = 1
    MaxGaps = 1
    MaxOutages = 1
CHECK_DEADLOCK FALSE
INVARIANTS
    OnePublisher
    NotSentIsTrue
PROPERTIES
    PublishedByLeave
    OneRetryOwner
    EventuallyDecided
