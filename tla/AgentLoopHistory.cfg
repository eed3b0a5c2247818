SPECIFICATION AgentSpec
CONSTANTS
    Callers = {c1}
    MaxTurns = 1
    MaxRepairs = 0
    MaxCalls = 1
    MaxRuns = 2
INVARIANTS
    HistoryIsProviderReady
CHECK_DEADLOCK FALSE
