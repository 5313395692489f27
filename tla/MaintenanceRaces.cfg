SPECIFICATION Spec
CONSTANTS
    Handlers = {c1, c2}
    Monitors = {m1, m2}
    Reqs = {r1}
    Providers = {p1}
    Workers = {}
    Members <- MCMembers
    Amounts = {1001}
    Deadlines = {}
    Intakes = {"plain"}
    Flags = {"no"}
    ScopesGiven = {}
    MaxRounds = 1
    NoId = NoId
SYMMETRY Symmetry
INVARIANT TypeOK
INVARIANT DecisionAttributed
INVARIANT ExclusiveAssignment
INVARIANT OneReminderPerEstimate
CHECK_DEADLOCK FALSE
