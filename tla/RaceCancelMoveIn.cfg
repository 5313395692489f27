SPECIFICATION Spec
CONSTANTS
    Requests = {c1, c2}
    Units = {u1}
    Residents = {r1}
    Buildings = {b1}
    BuildingOf <- MCBuildingOf
    Leases = {l1}
    Occupancies = {o1}
    MoveRequests = {q1}
    Slots = {}
    Allocations = {}
    Items = {}
    NoId = NoId
SYMMETRY Symmetry
INVARIANT ClosedLeaseVacated
CHECK_DEADLOCK FALSE
