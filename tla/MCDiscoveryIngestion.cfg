CONSTANTS
    Runner = {r1, r2}
    HolderId <- SharedHolderId
    NoRunner = NoRunner
    Item = {trend}
    Discovery = {trend}
    MaxAttempts = 2
    NoClaim = NoClaim
    MaxFaults = 1
SPECIFICATION DiscoveryFairSpec
INVARIANT IngestedOnce
INVARIANT CompletedMeansIngested
PROPERTY DiscoverySettles
