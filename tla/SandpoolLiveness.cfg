SPECIFICATION FairSpec
CONSTANTS
    None = None
    Callers = {c1, c2}
    Sandboxes = {s1, s2}
    MinIdle = 1
    MaxSandboxes = 2
    MaxCreateAttempts = 2
PROPERTIES
    CallsSettle
    DisposeCompletes
CHECK_DEADLOCK FALSE
