SPECIFICATION FairSpec
CONSTANTS
    Procs = {p, q}
    None = None
    Attempts = {1, 2}
    Lives <- MCLives
    Proposed <- MCProposed
    Scribbled <- MCScribbled
    Missed <- MCMissed
    MaxCalls = 3
    MaxStops = 1
    MaxEdits = 1
INVARIANTS PlanSound CredentialsInPlace OneAnswer
PROPERTIES EveryCallEnds
CHECK_DEADLOCK FALSE
