CONSTANTS
    Window = 2
    Threshold = 1
    Chunk = 1
    MaxCredit = 2
    MaxStreams = 1
    Ids = {1}
    Bodies = {1}
    RequestHead = 1
    ReplyHead = 1
    StreamQueue = 1
    WriterQueue = 4
    ControlReserve = 2
    ReadMax = 2
    MayGarble = FALSE
    MayCancel = FALSE
    MayStop = FALSE
    Reply = 2
    HomeWaits = FALSE
    HomeMayQuit = TRUE
    HomeMayReset = FALSE
SPECIFICATION Spec
CHECK_DEADLOCK FALSE
INVARIANTS
    ForgottenIsOver
