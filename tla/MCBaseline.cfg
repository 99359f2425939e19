SPECIFICATION Spec
CONSTANTS
    Events <- MCEvents
    Labels <- MCLabels
    Tokens <- MCTokens
    Numbers <- MCNumbers
    Encoded <- MCEncoded
    Faults = {"full", "unreadable"}
INVARIANTS
    TypeOK
    SkippedWasLearned
    SavedSurvives
