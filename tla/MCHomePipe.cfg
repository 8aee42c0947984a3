SPECIFICATION MCSpec
CHECK_DEADLOCK FALSE
INVARIANTS
    PipeAccounts
    PipeEnds
PROPERTIES
    RepliesArrive
