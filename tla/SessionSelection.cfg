SPECIFICATION SelectionSpec
CONSTANTS
    Traces = {1, 2, 3}
    ProviderOf <- MCProviderOf
    IdOf <- MCIdOf
    Moves = {"claude-code"}
    Dirs = {"d", "e"}
    None = None
    Queries <- MCQueries
    MaxChanges = 1
INVARIANTS RightSession HealthTruth
CHECK_DEADLOCK FALSE
