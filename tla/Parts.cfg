SPECIFICATION PartsSpec
CONSTANTS
    None = None
    Nil = Nil
    NoIp = NoIp
    Nobody = Nobody
    Callers = {c1, c2}
    MaxTurns = 3
    MaxRepairs = 2
    MaxCalls = 2
    MaxRuns = 1
    Vms = {v1, v2}
    Addresses = {a1, a2}
    MaxFaults = 3
    Logins = {l1, l2}
    Users = {u1, u2}
    MaxTokens = 3
    Resolvers = {r1, r2}
    Missing = Missing
    Torn = Torn
    MaxRefreshes = 2
    Runs = {"g1", "g2"}
    Order <- TheSources
    Contents = {"x", "y"}
    Binary = {}
    Models = {"m1"}
    Gone = None
    HalfWritten = HalfWritten
    MaxEdits = 1
    MaxMishaps = 1
    Requests = {q1, q2, q3}
    Default = Default
    MaxCrashes = 1
    Ids = {i1, i2}
    Creators = {c1, c2, c3}
    MaxLives = 2
    Characters <- TheCharacters
    Targets <- TheTargets
    EditLists <- TheEditLists
    Commands <- TheCommands
    Lines <- TheLines
    Outputs <- TheOutputs
    Unset = Unset
    DefaultTimeout = 1
    MaxTimeout = 2
    ShortLimit = 2
    HeadLimit = 2
    TailLimit = 2
    DiagnosticLimit = 2
SYMMETRY Symmetry
INVARIANTS
    LedgerMatchesMessages
    RepairsAreTransient
    RulesMeetTheirContainer
    LoginsAreSeparate
    StoredGrantIsLive
    LoginSurvivesRefreshes
    NewestConfigurationServes
    LivesAreSeparate
    EditsLandInPlace
    OutputIsAccountedFor
    BundleMatchesSources
PROPERTIES
    ConversationKept
    ProviderImplemented
CHECK_DEADLOCK FALSE
