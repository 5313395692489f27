SPECIFICATION Spec
CONSTANTS
    Requests = {c1}
    Units = {u1}
    Residents = {r1}
    Buildings = {b1}
    BuildingOf <- MCBuildingOf
    Leases = {l1, l2}
    Occupancies = {o1, o2}
    MoveRequests = {q1, q2}
    Slots = {s1}
    Allocations = {a1, a2}
    Items = {k1}
    NoId = NoId
SYMMETRY Symmetry
INVARIANT ClosedLeaseVacated
INVARIANT ClosedLeaseReleasedParking
INVARIANT SlotAllocatedOnce
INVARIANT OneOpenMoveRequest
PROPERTY ReviewedIsFinal
CHECK_DEADLOCK FALSE
