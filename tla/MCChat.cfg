SPECIFICATION MCFairSpec
CONSTANTS
    d1 = d1
    d2 = d2
    h1 = h1
    h2 = h2
    NoStamp = NoStamp
    Messages <- MCMessages
    Delegated <- MCDelegated
    MaxQueued = 2
    a1 = a1
    a2 = a2
    chatA = chatA
    chatB = chatB
    Askers = {a1, a2}
    Routes = {chatA, chatB}
    QuestionIDs = {1, 2}
    NoAsker = NoAsker
    w1 = w1
    w2 = w2
    WakeCallers = {w1, w2}
    MaxWakeRuns = 2
    MaxRuns = 2
    MaxVersions = 1
    KeptRuns = 2
    HumanChats = {}
    MaxClock = 1
    Events = {"delete", "restart"}
    MaxEvents = 1
    Repeated = {}
    sh1 = sh1
    Procs <- MCProcs
    Reached <- MCProcs
    MaxCommits = 1
    MaxTroubles = 3
CHECK_DEADLOCK FALSE
INVARIANTS
    ChatTypeOK
    TurnHasItsStamp
    TurnsAreVisible
    WakeFollowsTasks
    FailsClosed
PROPERTIES
    EndIsFinal
    TurnsSettle
    PartsSettle
    CommitsStay
