SPECIFICATION Spec
CONSTANTS
    Tasks = {t1, t2, t3}
    Callers = {c1, c2}
    Workers = {w1}
    MaxAttempts = 1
    MaxStalls = 1
    EnqueueOutcomes = {"queued", "error"}
    Faults = {"callerCrash", "dbError"}
    MaxFaults = 2
    NoTask = NoTask
    NoProc = NoProc
SYMMETRY Symmetry
CHECK_DEADLOCK FALSE
INVARIANT OneReplacementPerTask
