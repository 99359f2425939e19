SPECIFICATION MCSpec
CONSTANTS
    Events <- MCEvents
    Known <- MCKnown
    Responses <- PausingResponses
    Slots = 1
    excludedComms <- MCExcluded
    selfPID = 7
    Pids <- MCPids
    InitialProcs <- MCInitialProcs
    Mortal = {8}
    MaxLives = 1
    MaxChurn = 1
    MaxEvents = 3
    Comms <- MCComms
    protectedComms <- MCProtected
    thresholdAlert = 40
    thresholdSoft = 70
    thresholdHard = 90
    maxActionsPerWindow = 1
    EscalationLimit = 2
    Raw <- MCRaw
    Faults = {"lost"}
    Window = 1
    Horizon = 2
INVARIANTS
    TypeOK
    SlotsAccounted
    MetricsAddUp
    SignalsAuthorised
    DecisionsOnFile
    SignalBurst
