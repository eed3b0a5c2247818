SPECIFICATION Spec
CONSTANTS
    None = None
    Callers = {c1, c2, c3, c4}
    Sandboxes = {s1, s2, s3, s4}
    MinIdle = 2
    MaxSandboxes = 4
    MaxCreateAttempts = 3
SYMMETRY Symmetry
INVARIANTS
    TypeOK
    CapacityRespected
    LeasesExclusive
    NoWaiterStranded
    DisposalDrains
PROPERTIES
    ServedInOrder
CHECK_DEADLOCK FALSE
