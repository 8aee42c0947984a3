SPECIFICATION Spec
CONSTANTS
    Tunnels = {1}
    Pipes = {11}
    Stoppers = {"s"}
    Ceiling = 1
    MaxBase = 1
    MayCancel = FALSE
CHECK_DEADLOCK FALSE
INVARIANTS
    StopAwaitsAllWork
