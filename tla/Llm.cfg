SPECIFICATION BothSpec
CONSTANTS
    Streams <- Two
    Bodies <- TheBodies
    Scenes <- Pairs
    LabOf <- TheLabs
    Upstream = "claude"
    Callers = {"a", "b"}
    RequestScenes <- TheRequestScenes
    Catalogs <- TheCatalogs
    Replies <- TheReplies
    MaxRepairs = 1
INVARIANTS
    CutsDoNotMatter
    LogTellsOutcome
    SupportIsRespected
    IntentReachesModel
    ConversationArrives
    AbortsStayLocal
CHECK_DEADLOCK FALSE
