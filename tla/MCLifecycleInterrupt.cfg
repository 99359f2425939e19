SPECIFICATION MCFairSpec
CONSTANTS
    MaxLives = 2
    MaxSignals = 5
    Events <- MCEvents
    Tokens <- MCTokens
    Numbers <- MCNumbers
    Encoded <- MCEncoded
    Faults = {}
    Endings = {}
PROPERTIES
    InterruptStops
