CONSTANTS
    p1 = p1
    p2 = p2
    o1 = o1
    i1 = i1
    i2 = i2
    None = None
    Begun = Begun
    Procs <- MCProcs
    Orders <- MCOrders
    Installs <- MCInstalls
    Attempts <- MCAttempts
    Commands <- AllCommands
    MaxCalls = 3
    MaxFaults = 1
    MaxCrashes = 1
    MaxEdits = 1
SYMMETRY ProcSymmetry
SPECIFICATION Spec
INVARIANTS DoneOnce EvidenceFirst StatusTruth
PROPERTIES LedgerSpec
CHECK_DEADLOCK FALSE
