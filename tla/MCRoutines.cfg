SPECIFICATION MCSpec
CONSTANTS
    p1 = p1
    p2 = p2
    p3 = p3
    Projects <- MCProjects
    MaxDepth = 2
    MaxTargets = 4
    MaxTurns = 4
    MaxRuns = 2
    MaxVersions = 2
    KeptRuns = 1
    HumanChats = {1}
    MaxClock = 2
    Events = {"save", "delete", "restart", "fault"}
    MaxEvents = 2
    Repeated = {"restart", "fault"}
    a1 = a1
    a2 = a2
    a3 = a3
    chatA = chatA
    chatB = chatB
    Askers <- MCAskers
    Routes <- MCRoutes
    QuestionIDs = {1, 2}
    NoAsker = NoAsker
    b1 = b1
    Current = current
    Backups <- MCBackups
    Archives = {archive}
    NewTrees = {fresh}
    NoTree = NoTree
    sh1 = sh1
    sh2 = sh2
    Procs <- MCProcs
    Reached <- MCReached
    ProjectIDs <- MCProjects
    MaxSettings = 3
    MaxProjects = 2
    MaxMishaps = 3
CHECK_DEADLOCK FALSE
INVARIANTS
    RoutinesTypeOK
    GuardHolds
    NoOverlap
    BooksAgree
    QuestionsStand
    TeardownIsSafe
PROPERTIES
    RowsStayTrue
    RestoreIsAtomic
    VerdictStands
    RegistryIsDurable
