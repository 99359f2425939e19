SPECIFICATION MCSpec
CONSTANTS
    Events <- SomeEvents
    Known = {}
    Responses <- MCResponses
    Slots = 1
    excludedComms <- MCExcluded
    selfPID = 7
    Pids <- MCPids
    InitialProcs <- MCInitialProcs
    Mortal = {8}
    MaxLives = 1
    MaxChurn = 2
    MaxEvents = 2
    Comms <- MCComms
    protectedComms <- MCProtected
    thresholdAlert = 40
    thresholdSoft = 70
    thresholdHard = 90
    maxActionsPerWindow = 1
    EscalationLimit = 2
    Raw <- MCRaw
    Faults = {}
    Window = 1
    Horizon = 2
INVARIANTS
    ProtectedNeverSignalled
