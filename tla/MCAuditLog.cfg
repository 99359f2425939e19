SPECIFICATION Spec
CONSTANTS
    exec = exec
    moved = moved
    connect = connect
    badUTF8 = badUTF8
    replaced = replaced
    Bodies <- MCBodies
    Encoded <- MCEncoded
    Raw <- MCRaw
    Faults <- AllFaults
    MaxLog = 4
INVARIANTS
    TypeOK
    ChainIntact
PROPERTIES
    VerifiedStaysVerified
    DamageStaysVisible
