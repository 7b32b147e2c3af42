SPECIFICATION FairSpec
CONSTANTS
    Threads = {t1, t2}
    Keys = {k1}
    Types <- MCTypes
    Dispatchers = {d1}
    Ports = {1, 2}
    Nobody = nobody
    MaxOps = 3
    MaxFaults = 1
    MaxCrashes = 1
INVARIANTS
    ListsAreSound
    BinderAgrees
    QuietRegistrationsSucceed
PROPERTIES
    CallsReturn
CHECK_DEADLOCK FALSE
