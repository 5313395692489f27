------------------------------ MODULE MCTenancy ------------------------------
(* Tenancy for TLC.  Rows of a table are interchangeable, and so are the    *)
(* units: they are all in one building, so that MOVE grants can happen.     *)
EXTENDS Tenancy, TLC

MCBuildingOf == [u \in Units |-> CHOOSE b \in Buildings : TRUE]

Symmetry == Permutations(Requests) \cup Permutations(Units)
            \cup Permutations(Residents) \cup Permutations(Leases)
            \cup Permutations(Occupancies) \cup Permutations(MoveRequests)
            \cup Permutations(Slots) \cup Permutations(Allocations) \cup Permutations(Items)
==============================================================================
