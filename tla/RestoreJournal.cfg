SPECIFICATION FairSpec
CONSTANTS
    N = 2
    file = file
    edit = edit
    tree = tree
    Contents <- TreeLike
    Trees <- TreeOnly
    Absent = Absent
    Torn = Torn
    Forced <- OneForced
    MaxFaults = 2
    MaxCrashes = 1
    MaxEdits = 1
    MaxMishaps = 2
INVARIANTS
    TypeOK
    Recoverable
    CleanResumeEnds
PROPERTIES
    TruthfulStatus
    OnlySeenReplaced
    JournaledBeforeSwap
    EveryRunEnds
CHECK_DEADLOCK FALSE
