SPECIFICATION MCSpec
CONSTANTS
    MaxTurns = 2
    MaxEntries = 3
    MaxClears = 1
    SaveMayFail = TRUE
    Apps = {}
    MaxPrompts = 2
    MaxCalls = 2
    CallsAtOnce = 2
    KeepRecent = 1
    MaxRounds = 2
    MaxToolRounds = 2
    MaxRecoveries = 1
    MaxContinuations = 0
    MaxStuck = 1
    MaxPreviewNudges = 0
    Persona = FALSE
    r1 = r1
    r2 = r2
    p = p
    q = q
    c1 = c1
    u = u
    NoRun = NoRun
    Projects = {p, q}
    Asks = {}
    Batch <- MCBatch
    Unwinder = u
    MaxConcurrent = 3
    MaxRows = 2
    StoreMayFail = FALSE
    Runs = {r1, r2}
    Target <- MCTarget
    Cancellers = {c1, u}
CHECK_DEADLOCK FALSE
INVARIANTS
    ChatTypesOK
    UserTurnSurvives
    FileFollowsMemory
    LeftoversStayGone
    RequestsAreWellFormed
    TranscriptIsCausal
    DenialStands
    NoHalfBatch
PROPERTIES
    NoStaleSave
