SPECIFICATION MCFairSpec
CONSTANTS
    Calls <- MCCalls
    Strings <- MCStrings
    ClipName <- MCClipName
    ClipArg <- MCClipArg
    Comms <- MCComms
    Pids <- MCPids
    Uids <- MCUids
    Addresses <- MCAddresses
    Ports <- MCPorts
    NUM_ARG_SLOTS = 2
    Capacity <- MCCapacity
    MaxCalls = 3
INVARIANTS
    TypeOK
    StoryIsTrue
PROPERTIES
    EventuallyHandled
