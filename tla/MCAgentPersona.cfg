SPECIFICATION AgentSpec
CONSTANTS
    Apps = {}
    MaxPrompts = 1
    MaxCalls = 1
    CallsAtOnce = 1
    KeepRecent = 3
    MaxRounds = 2
    MaxToolRounds = 1
    MaxRecoveries = 0
    MaxContinuations = 0
    MaxStuck = 0
    MaxPreviewNudges = 0
    Persona = TRUE
INVARIANTS
    MessagesAreSent
