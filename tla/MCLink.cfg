CONSTANTS
    Window = 3
    Threshold = 2
    Chunk = 2
    MaxCredit = 4
    MaxStreams = 1
    Ids = {1, 2, 3}
    Credits = {0, 1}
SPECIFICATION MCSpec
CHECK_DEADLOCK FALSE
INVARIANTS
    AcceptorBooks
    LinkAgrees
    DialerBooks
PROPERTIES
    AcceptorSteps
    FramesAreSound
