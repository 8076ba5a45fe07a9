SPECIFICATION FairSpec
CONSTANTS
    e1 = e1
    e2 = e2
    Exec = {e1, e2}
    Nobody = Nobody
    Released = Released
    MaxJobs = 1
    Slots = 1
    MaxKills = 1
    MaxRetired = 1
    MaxStalls = 1
CHECK_DEADLOCK FALSE
INVARIANTS
    OneRunner
    NoFalseStale
    SteersAccounted
    AnnouncedOnce
    GracefullyHandedOn
PROPERTIES
    EventuallyEnds
    EventuallyAnnounced
