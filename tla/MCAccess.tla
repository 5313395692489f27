------------------------------ MODULE MCAccess ------------------------------
(* A small organisation for TLC.  Two requests overlap when one hands out a *)
(* role template and the other deletes one; any request overlaps with the   *)
(* steps that are transactions of their own.                                *)
EXTENDS Access, TLC

\* What administrators send: a harmless key or denial, and a key of the platform.
MCKeySets == {{<<"requests", "read">>}, {<<"platform.org", "read">>}}

MCOverrideSets ==
    {{<<<<"resident.moves", "read">>, "DENY">>}, {<<<<"platform.org", "create">>, "ALLOW">>}}

MCHanded == (Orgs \X {"org_admin"}) \cup Customs

MCOverlapping == {"assign", "deleteRole"}

\* a request moves when no other is under way, or the two may overlap
MCTurn(h) == \A k \in Handlers \ {h} : job[k].pc \in {"idle"} \cup MCOverlapping

MCOverlap ==
    LET busy == {h \in Handlers : job[h].pc # "idle"} IN
    Cardinality(busy) > 1 => {job[h].pc : h \in busy} = MCOverlapping

MCNext ==
    \/ AccountStep
    \/ \E h \in Handlers : MCTurn(h) /\ HandlerStep(h) /\ MCOverlap'

MCSpec == Init /\ [][MCNext]_vars

MCSymmetry == Permutations(Handlers)
=============================================================================
