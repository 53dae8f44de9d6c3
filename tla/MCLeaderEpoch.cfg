CONSTANTS
    Runner = {r1, r2}
    HolderId <- SharedHolderId
    Thread = {loop, http}
    NoRunner = NoRunner
    Orphan = Orphan
    MaxFaults = 3
SPECIFICATION LeaderFairSpec
INVARIANT OpenFenceIsCurrent
INVARIANT LiveLeaseHasAuthority
PROPERTY CommitsNeverGoBack
PROPERTY ImplementsLeadership
PROPERTY LeaderEventually
