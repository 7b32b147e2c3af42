SPECIFICATION DgSpec
CONSTANTS
    Xids = {1, 2, 3, 4}
    Procs = {p}
    Addrs = {a}
    Nodes = {n1}
    Bufs = {b1, b2}
    NoNode = NoNode
    CacheSize = 1
    MaxExec = 2
    EnableDuringDispatch = FALSE
    MaxCalls = 2
    CuWait = 1
    MaxBackoff = 2
    Timeouts = {0, 4}
    NRefreshes = 1
INVARIANTS
    AcceptedReplyIsOfThisCall
    ClientState
PROPERTIES
    CallsReturn
    ImplementsRpcSemantics
CHECK_DEADLOCK FALSE
