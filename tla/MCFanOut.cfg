SPECIFICATION MCFairSpec
CONSTANTS
    r1 = r1
    r2 = r2
    p = p
    q = q
    u = u
    NoRun = NoRun
    Projects = {p, q}
    Asks = {}
    Batch <- MCBatch
    Unwinder = u
    MaxConcurrent = 3
    MaxRows = 2
    StoreMayFail = TRUE
    Runs = {r1, r2}
    Target <- MCTarget
    Cancellers = {u}
    app = app
    Apps = {app}
    MaxPrompts = 1
    MaxCalls = 2
    CallsAtOnce = 1
    KeepRecent = 1
    MaxRounds = 2
    MaxToolRounds = 1
    MaxRecoveries = 1
    MaxContinuations = 1
    MaxStuck = 1
    MaxPreviewNudges = 1
    Persona = FALSE
CHECK_DEADLOCK FALSE
INVARIANTS
    BatchTypeOK
    NoSlotLeft
    SynthesisOfEnded
PROPERTIES
    WaiterEnds
    StopEndsTurn
