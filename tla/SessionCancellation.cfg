SPECIFICATION FairSpec
CONSTANTS
    None = None
    Lifecycle = Lifecycle
    Prompts = {}
    Terminations = {t1, t2}
    MaxCrashes = 0
    MaxFaults = 0
PROPERTIES
    CancellationCompletes
CHECK_DEADLOCK FALSE
