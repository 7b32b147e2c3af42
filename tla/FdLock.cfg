SPECIFICATION FairSpec
CONSTANTS
    Threads = {t1, t2, t3}
    Handles = {"h1", "h2"}
    Fds = {"fd1"}
    cu_fd <- SharedFd
    Free = Free
    MaxOps = 1
CHECK_DEADLOCK FALSE
INVARIANTS
    LockingIsSound
    NoLostWakeup
PROPERTIES
    OperationsReturn
