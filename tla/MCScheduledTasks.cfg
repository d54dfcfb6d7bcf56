SPECIFICATION TaskSpec
CONSTANTS
    MaxRuns = 2
    MaxVersions = 1
    KeptRuns = 1
    HumanChats = {1}
    MaxClock = 1
    Events = {}
    MaxEvents = 0
    Repeated = {}
CHECK_DEADLOCK FALSE
PROPERTIES
    RetentionSparesWork
