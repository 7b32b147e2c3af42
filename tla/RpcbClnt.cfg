SPECIFICATION FairSpec
CONSTANTS
    Threads = {t1, t2}
    Hosts = {h1}
    Orders <- MCOrders
    Speakable <- MCSpeakable
    Registrable <- MCRegistrable
    CACHESIZE = 2
    MaxCalls = 3
    MaxEvents = 1
INVARIANTS
    CacheIsSound
    SteadyCallsSucceed
PROPERTIES
    CallsReturn
CHECK_DEADLOCK FALSE
