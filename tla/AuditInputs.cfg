SPECIFICATION Spec
CONSTANTS
    Procs = {p, q}
    Sources = {1}
    Contents = {a, b}
    Runtimes = {"claude", "codex"}
    Configs <- MCConfigs
    Configured <- MCConfigured
    Listed = {"anthropic", "openai"}
    Listings <- MCListings
    Default = "default"
    None = None
    MaxCalls = 4
    MaxStops = 1
    MaxMoves = 2
SYMMETRY MCSymmetry
CONSTRAINT MCMishaps
INVARIANTS EvidenceStands NewestKnown ModelsTrue
CHECK_DEADLOCK FALSE
