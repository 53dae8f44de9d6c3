SPECIFICATION Spec
CONSTANT Items = 2
CONSTANT MaxRev = 2
CONSTANT MaxJobs = 2
CONSTANT Workers = {w1, w2}
CONSTANT NoOne = NoOne
CONSTANT Runner = Runner
CONSTANT MaxFaults = 1
CONSTANT MaxAttempts = 2
CONSTANT MaxPolls = 2
CONSTANT PlainTasks = {1}
SYMMETRY WorkerSymmetry
INVARIANT EffectsAtMostOnce
INVARIANT CompletedIsPublished
INVARIANT OneItemAtATime
PROPERTY EffectsAreAuthorized
CHECK_DEADLOCK FALSE
