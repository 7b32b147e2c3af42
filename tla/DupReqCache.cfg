SPECIFICATION Spec
CONSTANTS
    Xids = {1, 9, 2}
    Procs = {p, q}
    Addrs = {a, b}
    Nodes = {n1, n2}
    Bufs = {b1, b2, b3}
    NoNode = NoNode
    CacheSize = 2
    MaxExec = 3
    EnableDuringDispatch = FALSE
INVARIANTS
    CacheStructure
    BufferOwnership
    RepliesAnswerTheirRequest
PROPERTY
    NoRecentReexecution
CHECK_DEADLOCK FALSE
