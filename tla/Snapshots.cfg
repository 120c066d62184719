SPECIFICATION Spec
CONSTANTS
    op = op
    up = up
    Procs = {op, up}
    Commands <- MCCommands
    Files = {"a", "b", "c"}
    SurfaceOf <- MCSurfaceOf
    Excluded = {"c"}
    Contents = {"x", "y"}
    Absent = "absent"
    None = None
    KeepLast = 1
    MaxCalls = 3
    MaxStops = 1
    MaxEdits = 1
INVARIANTS StoreComplete
PROPERTIES CollectsAll
CHECK_DEADLOCK FALSE
