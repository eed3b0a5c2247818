SPECIFICATION FairSpec
CONSTANTS
    None = None
    Lifecycle = Lifecycle
    Prompts = {p1, p2}
    Terminations = {t1}
    MaxCrashes = 0
    MaxFaults = 0
PROPERTIES
    QueuedPromptsAreCancelled
CHECK_DEADLOCK FALSE
