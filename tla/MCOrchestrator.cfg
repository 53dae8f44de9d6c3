CONSTANTS
    j1 = j1
    j2 = j2
    s = s
    a = a
    b = b
    t1 = t1
    t2 = t2
    NoJob = NoJob
    Job = {j1}
    Node <- Line
    Dep <- LineDep
    Order <- LineOrder
    Source = {s}
    Legacy = {a}
    Task = {t1}
    MaxStamp = 3
    MaxFaults = 1
CHECK_DEADLOCK FALSE
SPECIFICATION OrchestratorFairSpec
INVARIANT OneWorkerPerNode
INVARIANT WaitingHoldsNothing
PROPERTY RunningJobSettles
