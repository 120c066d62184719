SPECIFICATION Spec
CONSTANTS
    Procs = {p}
    Packages = {"a", "b"}
    Requests = {"a1", "b1"}
    old = old
    new = new
    Versions <- MCVersions
    PackageOf <- MCPackageOf
    TargetOf <- MCTargetOf
    Away = Away
    None = None
    MaxCalls = 4
    MaxFaults = 1
    MaxCrashes = 1
    MaxEdits = 1
PROPERTIES TruthfulReceipt
CHECK_DEADLOCK FALSE
