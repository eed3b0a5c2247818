SPECIFICATION FairSpec
CONSTANTS
    None = None
    Lifecycle = Lifecycle
    Prompts = {p1, p2}
    Terminations = {t1}
    MaxCrashes = 1
    MaxFaults = 1
INVARIANTS
    HistoryIsConsistent
    LeaseCoversUse
    ActiveSessionsAreServed
PROPERTIES
    PromptsAreServed
    AbortedSessionsEnd
CHECK_DEADLOCK FALSE
