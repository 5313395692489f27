SPECIFICATION FairSpec
CONSTANTS
    Handlers = {c1}
    Monitors = {m1}
    Reqs = {r1}
    Providers = {p1, p2}
    Workers = {w1}
    Members <- MCMembers
    Amounts = {1000, 1001}
    Deadlines = {d1}
    Intakes = {"plain", "emergency"}
    Flags = {"no"}
    ScopesGiven = {"owner"}
    MaxRounds = 1
    NoId = NoId
INVARIANT CompletedWasUnlocked
INVARIANT WorkerOfProvider
INVARIANT AuditIsCurrent
PROPERTY ClosedIsFinal
PROPERTY OverdueIsReminded
CHECK_DEADLOCK FALSE
