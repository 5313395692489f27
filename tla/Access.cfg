SPECIFICATION MCSpec
CONSTANTS
    Handlers = {h1, h2}
    Orgs = {o1}
    Users = {root, u1}
    Buildings = {b1}
    Root = root
    Customs = {t1}
    CustomNames = {"custom"}
    KeySets <- MCKeySets
    OverrideSets <- MCOverrideSets
    RoleScopes = {"ORG", "BUILDING"}
    Handed <- MCHanded
    PlatformKey = TRUE
    MaxAssignments = 3
    NoId = NoId
INVARIANTS
    TypeOK
    PlatformStaysClosed
    AssignmentsWellScoped
    GrantsOpenRoutes
SYMMETRY MCSymmetry
CHECK_DEADLOCK FALSE
