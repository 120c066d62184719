SPECIFICATION EvidenceSpec
CONSTANTS
    Procs = {p, q}
    Kinds <- MCKinds
    Formats = {1, 2, 3}
    Ages = {"young"}
    None = None
    MaxIngests = 1
    MaxReports = 1
    MaxPreviews = 1
    MaxStops = 2
    MaxAges = 1
INVARIANTS ReadOnce RefsKept
PROPERTIES PruneSafe AuditFresh PruneEnds
CHECK_DEADLOCK FALSE
