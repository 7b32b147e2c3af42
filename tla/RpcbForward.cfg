SPECIFICATION Spec
CONSTANTS
    NFORWARD = 2
    MAXTIME_OFF = 1
    XidMod = 12
    StartTimes = {3}
    Calls <- ThreeCalls
    DgFds = {1, 3}
    FwdOf <- NextFd
    ListenFds = {5}
    ConnFds = {6}
    None = None
    Error = Error
    MaxQueue = 1
    MaxTime = 2
    MaxForwards = 3
    Indirect = {a1, a2}
    Callit = {b}
VIEW Seen
SYMMETRY Alike
INVARIANTS
    TableIsSound
    AnswersGoToTheirCaller
PROPERTIES
    OnlyTheOldestIsEvicted
    AwaitedReplyIsNotACall
