SPECIFICATION Spec
CONSTANTS
    MaxFaults = 1
    Order <- MCOrder
    Chain <- MCChain
    Start <- MCStart
    Leased = {"a2"}
    MaxSequence = 10
INVARIANT EvalIsJournaled
INVARIANT SuccessMeansRetired
INVARIANT NothingLeftBehind
PROPERTY AttemptEnds
CHECK_DEADLOCK FALSE
