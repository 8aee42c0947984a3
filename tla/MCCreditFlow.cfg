SPECIFICATION MCSpec
CONSTANTS
    Window = 4
    Threshold = 2
    Chunk = 3
    Stage = 3
    MaxCredit = 5
    Total = 8
CHECK_DEADLOCK FALSE
INVARIANTS
    StreamIsSound
PROPERTIES
    PipeSpec
    EverythingArrives
    RequestsEnd
