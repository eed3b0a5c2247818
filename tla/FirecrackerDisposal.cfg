SPECIFICATION FairSpec
CONSTANTS
    None = None
    Vms = {v1}
    Keys = {k1}
    MaxNetworks = 1
    CacheLimit = 1
    MaxFaults = 1
    MaxCrashes = 0
    Exits = {"signal"}
PROPERTIES
    DisposalsReturn
CHECK_DEADLOCK FALSE
