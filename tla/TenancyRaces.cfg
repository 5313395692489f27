SPECIFICATION Spec
CONSTANTS
    Requests = {c1, c2}
    Units = {u1, u2}
    Residents = {r1, r2}
    Buildings = {b1}
    BuildingOf <- MCBuildingOf
    Leases = {l1}
    Occupancies = {o1, o2, o3}
    MoveRequests = {q1}
    Slots = {}
    Allocations = {}
    Items = {}
    NoId = NoId
SYMMETRY Symmetry
INVARIANT TypeOK
INVARIANT OneActiveOccupancy
INVARIANT LeaseMatchesOccupancy
INVARIANT CompletedMoveInOccupied
PROPERTY ImplementsRegister
CHECK_DEADLOCK FALSE
