CONSTANTS
    Runner = {r1, r2}
    HolderId <- SharedHolderId
    NoRunner = NoRunner
    Item = {auto, manual}
    AutoItem = auto
    ManualItem = manual
    Discovery = {}
    MaxAttempts = 2
    NoClaim = NoClaim
    MaxFaults = 1
SYMMETRY Symmetry
SPECIFICATION PromotionSpec
PROPERTY RejectedStaysUnpromoted
