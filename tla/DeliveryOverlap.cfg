SPECIFICATION Spec
CONSTANTS
    Tasks = {t1, t2}
    Callers = {c1}
    Workers = {w1}
    MaxAttempts = 1
    MaxStalls = 1
    EnqueueOutcomes = {"queued", "ambiguous"}
    Faults = {"lockLoss", "dbError"}
    MaxFaults = 1
    NoTask = NoTask
    NoProc = NoProc
SYMMETRY Symmetry
INVARIANT RetriedHasReplacement
CHECK_DEADLOCK FALSE
