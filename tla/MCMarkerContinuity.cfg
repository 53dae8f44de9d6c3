CONSTANTS
    s1 = s1
    c1 = c1
    c2 = c2
    j1 = j1
    j2 = j2
    NoRun = NoRun
    Source = {s1}
    Checker = {c1, c2}
    Janitor = {j1, j2}
    MaxFaults = 2
CHECK_DEADLOCK FALSE
SPECIFICATION MarkerFairSpec
INVARIANT ReadyMeansSeen
PROPERTY ReadyMeansSwept
PROPERTY OrphansAreDeleted
