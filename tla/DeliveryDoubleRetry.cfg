SPECIFICATION Spec
CONSTANTS
    Tasks = {t1, t2, t3}
    Callers = {c1, c2}
    Workers = {w1}
    MaxAttempts = 2
    MaxStalls = 1
    EnqueueOutcomes = {"queued"}
    Faults = {"workerCrash"}
    MaxFaults = 1
    NoTask = NoTask
    NoProc = NoProc
SYMMETRY Symmetry
CHECK_DEADLOCK FALSE
INVARIANT OneReplacementPerTask
