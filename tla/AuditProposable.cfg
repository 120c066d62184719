SPECIFICATION Spec
CONSTANTS
    Procs = {p}
    Sources = {1}
    Contents = {a}
    Runtimes = {"claude", "codex"}
    Configs <- MCConfigs
    Configured <- MCConfigured
    Listed = {"anthropic", "openai"}
    Listings <- MCListings
    Default = "default"
    None = None
    MaxCalls = 2
    MaxStops = 0
    MaxMoves = 1
INVARIANT AuditProposable
CHECK_DEADLOCK FALSE
