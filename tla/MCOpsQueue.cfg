CONSTANTS
    Runner = {r1, r2}
    HolderId <- SharedHolderId
    NoRunner = NoRunner
    Item = {i1, i2}
    Discovery = {}
    MaxAttempts = 2
    NoClaim = NoClaim
    MaxFaults = 1
SPECIFICATION QueueFairSpec
INVARIANT AttemptsBounded
INVARIANT AcknowledgedWorkIsKept
PROPERTY SettledIsFinal
PROPERTY QueuedItemsSettle
