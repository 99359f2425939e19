SPECIFICATION Spec
CONSTANTS
    exec = exec
    moved = moved
    connect = connect
    badUTF8 = badUTF8
    replaced = replaced
    Bodies <- MCStableBodies
    Encoded <- MCStableEncoded
    Raw <- MCRaw
    Faults = {"lost"}
    MaxLog = 4
INVARIANTS
    LinkedToPrevious
