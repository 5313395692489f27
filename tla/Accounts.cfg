SPECIFICATION MCSpec
CONSTANTS
    Handlers = {h1, h2}
    Users = {u1, u2}
    Owners = {o1}
    Providers = {p1}
    Tokens = {t1}
    Grants = {g1, g2}
    ProviderGrants = {q1}
    MaxEpoch = 3
    NoId = NoId
INVARIANTS
    TypeOK
    ActiveGrantsEarned
    AdminsWereGranted
    ResetEndsSessions
PROPERTY DisabledStaysDisabled
SYMMETRY MCSymmetry
CHECK_DEADLOCK FALSE
