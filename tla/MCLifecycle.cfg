SPECIFICATION MCFairSpec
CONSTANTS
    MaxLives = 2
    MaxSignals = 5
    Events <- MCEvents
    Tokens <- MCTokens
    Numbers <- MCNumbers
    Encoded <- MCEncoded
    Faults = {"full", "unreadable"}
    Endings = {"fatal", "killed"}
INVARIANTS
    TypeOK
    InterruptsAccounted
PROPERTIES
    LearnedIsSaved
    FourInterruptsStop
