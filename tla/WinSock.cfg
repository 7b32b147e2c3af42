SPECIFICATION FairSpec
CONSTANTS
    Slots <- MCSlots
    Local = {TRUE, FALSE}
    Blocking = {TRUE, FALSE}
    RdBuffer = 2
    Counts = {1, 4}
    Messages = {3}
    MaxConns = 2
    MaxSends = 2
    MaxDgrams = 1
    MaxOpens = 1
    MaxFaults = 1
INVARIANTS
    DescriptorsAreSound
    PipesAreSound
PROPERTIES
    InputIsServed
CHECK_DEADLOCK FALSE
