SPECIFICATION Spec
CONSTANTS
    Window = 2
    Threshold = 1
    Chunk = 1
    MaxCredit = 4
    MaxStreams = 2
    Ids = {1}
    StageCap = 2
    Request = 2
    Reply = 4
    HalfCloses = TRUE
    MayFail = FALSE
    OneThread = FALSE
INVARIANTS
    HalfCloseIsNotReset
CHECK_DEADLOCK FALSE
