SPECIFICATION Spec
CONSTANTS
    Procs = {p}
    Installs = {"move", "write", "patch"}
    Targets = {"s", "d"}
    Units <- MCUnits
    Output <- MCOutput
    Contents = {"file", "other", "tree"}
    Trees = {"tree"}
    Absent = Absent
    Torn = Torn
    None = None
    MaxCalls = 4
    MaxFaults = 2
    MaxCrashes = 1
    MaxEdits = 1
INVARIANTS RecordTrue
PROPERTIES AllOrNothing BackupOutlivesUndo
CHECK_DEADLOCK FALSE
