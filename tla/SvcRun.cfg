SPECIFICATION FairSpec
CONSTANTS
    Fds = {0, 1, 2}
    FdSetSizes = {2, 3}
    Modes = {"select", "poll"}
    MaxConns = 3
    MaxReqs = 1
    MaxProbs = 1
    IdleLimit = 0
INVARIANTS
    RegistryIsSound
PROPERTIES
    ConnectionsEndForACause
    ExitStopsLoop
CHECK_DEADLOCK FALSE
