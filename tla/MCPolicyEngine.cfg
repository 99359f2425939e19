SPECIFICATION Spec
CONSTANTS
    Comms <- MCComms
    Scores <- MCScores
    protectedComms <- MCProtected
    thresholdAlert = 40
    thresholdSoft = 70
    thresholdHard = 90
    maxActionsPerWindow = 2
    Window = 3
    Horizon = 9
INVARIANTS
    TypeOK
    NoActionStorm
    LimiterExact
PROPERTIES
    ImplementsRateLimit
