----------------------------- MODULE MCAccounts -----------------------------
(* Accounts for TLC.  Either one person is about, who resets the password  *)
(* once, and any two requests interleave, or several people are and        *)
(* requests come one at a time, without owners.  At most one row is late,  *)
(* and none in the second case.                                            *)
EXTENDS Accounts, TLC

LateRows == Cardinality(late.sessions) + Cardinality(late.tokens)
            + Cardinality(late.grants) + Cardinality(late.members)

MCPeople ==
    \/ /\ Cardinality({u \in Users : Live(u)}) <= 1
       /\ \A u \in Users : account[u].epoch < MaxEpoch
    \/ /\ Cardinality({h \in Handlers : job[h].pc # "idle"}) <= 1
       /\ \A o \in Owners : owner[o] = "none"
       /\ LateRows = 0

MCBound == MCPeople /\ LateRows <= 1

MCSpec == Init /\ [][Next /\ MCBound']_vars

MCSymmetry == Permutations(Handlers) \cup Permutations(Users) \cup Permutations(Grants)
=============================================================================
