SPECIFICATION FairSpec
CONSTANTS
    None = None
    Vms = {v1, v2}
    Keys = {k1, k2}
    MaxNetworks = 2
    CacheLimit = 1
    MaxFaults = 1
    MaxCrashes = 1
    Exits = {"code", "signal"}
INVARIANTS
    NetworksDisjoint
    UsedImagesStay
    LeftoversAreReachable
PROPERTIES
    ProviderImplemented
    ProvisionsSettle
CHECK_DEADLOCK FALSE
