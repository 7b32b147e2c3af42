SPECIFICATION FairSpec
CONSTANTS
    Slots <- MCSlots
    Local = {FALSE}
    Blocking = {FALSE}
    RdBuffer = 2
    Counts = {1}
    Messages = {1}
    MaxConns = 0
    MaxSends = 0
    MaxDgrams = 1
    MaxOpens = 1
    MaxFaults = 0
INVARIANTS
    SelectCountsItsReports
CHECK_DEADLOCK FALSE
