SPECIFICATION Spec
CONSTANTS
    Procs = {p, q}
    Packages = {"a", "b"}
    Requests = {"a1", "a2", "b1"}
    old = old
    new = new
    Versions <- MCVersions
    PackageOf <- MCPackageOf
    TargetOf <- MCTargetOf
    Away = Away
    None = None
    MaxCalls = 3
    MaxFaults = 1
    MaxCrashes = 1
    MaxEdits = 0
SYMMETRY MCSymmetry
INVARIANTS TypeOK AtMostOnce RunIsBacked OneUnfinished
PROPERTIES NoLoss
CHECK_DEADLOCK FALSE
