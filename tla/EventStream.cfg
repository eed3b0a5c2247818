SPECIFICATION FairSpec
CONSTANTS
    Writers = {w1, w2}
    Updaters = {u1, u2}
    Clients = {c1}
    MaxEvents = 2
    MaxVersions = 2
    MaxConnections = 2
INVARIANTS
    UpdatesReachSubscribers
PROPERTIES
    FeedImplemented
    EventsArrive
CHECK_DEADLOCK FALSE
