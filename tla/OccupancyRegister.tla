-------------------------- MODULE OccupancyRegister --------------------------
(***************************************************************************)
(* What the tenancy code promises about who lives where: a register of     *)
(* (resident, unit) pairs in which a unit has at most one resident and a   *)
(* resident at most one unit, and every step moves one resident in, out or *)
(* from one unit to another.                                               *)
(***************************************************************************)
CONSTANTS Units, Residents

VARIABLE lives   \* the set of <<resident, unit>> pairs

Init == lives = {}

Homeless(r) == \A u \in Units : <<r, u>> \notin lives
Vacant(u) == \A r \in Residents : <<r, u>> \notin lives

MoveIn(r, u) ==
    /\ Homeless(r) /\ Vacant(u)
    /\ lives' = lives \cup {<<r, u>>}

MoveOut(r, u) ==
    /\ <<r, u>> \in lives
    /\ lives' = lives \ {<<r, u>>}

Move(r, u, v) ==
    /\ <<r, u>> \in lives
    /\ Vacant(v)
    /\ lives' = (lives \ {<<r, u>>}) \cup {<<r, v>>}

Next == \E r \in Residents, u \in Units :
    MoveIn(r, u) \/ MoveOut(r, u) \/ \E v \in Units : Move(r, u, v)

Spec == Init /\ [][Next]_lives
==============================================================================
