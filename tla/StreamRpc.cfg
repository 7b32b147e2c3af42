SPECIFICATION FairSpec
CONSTANTS
    HdrLen = 2
    MaxGarbage = 1
    Modes = {"block", "nonblock"}
    ClSizes = {7}
    SvSizes = {3}
    MaxRec = 4
    MaxXids = 3
    ReqLen = 2
    RepLen = 2
    Refreshes = 1
INVARIANTS
    SuccessIsOwnReply
    RequestsReachServer
    NoneLeftBuffered
    LostReplyHasCause
PROPERTIES
    CallsReturn
CHECK_DEADLOCK FALSE
