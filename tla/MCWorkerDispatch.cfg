CONSTANTS
    a = a
    b = b
    Node <- One
    Dep <- Single
    MaxEpoch = 2
    MaxFaults = 2
CHECK_DEADLOCK FALSE
SPECIFICATION DispatchFairSpec
INVARIANT NoTaskLost
INVARIANT OutputIsFromTheClaim
PROPERTY TriggersLetWritesThrough
PROPERTY JobSettles
PROPERTY CancelledDispatchesResolve
