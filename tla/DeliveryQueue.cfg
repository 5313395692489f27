SPECIFICATION FairSpec
CONSTANTS
    Tasks = {t1, t2}
    Callers = {c1}
    Workers = {w1, w2}
    MaxAttempts = 2
    MaxStalls = 1
    EnqueueOutcomes = {"queued"}
    Faults = {"workerCrash"}
    MaxFaults = 1
    NoTask = NoTask
    NoProc = NoProc
INVARIANT TypeOK
INVARIANT FanoutAtMostOnce
INVARIANT AttemptsCounted
PROPERTY SuccessIsLast
PROPERTY QueuedTaskSettles
CHECK_DEADLOCK FALSE
