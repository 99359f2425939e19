SPECIFICATION MCFairSpec
CONSTANTS
    Events <- OneEvent
    Known = {}
    Responses <- KillingResponses
    Slots = 1
    excludedComms <- MCExcluded
    selfPID = 7
    Pids <- MCPids
    InitialProcs <- MCInitialProcs
    Mortal = {}
    MaxLives = 2
    MaxChurn = 0
    MaxEvents = 3
    Comms <- MCComms
    protectedComms <- MCProtected
    thresholdAlert = 40
    thresholdSoft = 70
    thresholdHard = 90
    maxActionsPerWindow = 1
    EscalationLimit = 2
    Raw <- MCRaw
    Faults = {"torn"}
    Window = 1
    Horizon = 1
INVARIANTS
    DecisionsOnFile
PROPERTIES
    ImplementsComponents
    JobsFinish
