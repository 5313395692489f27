---------------------------- MODULE MCMaintenance ----------------------------
(* Maintenance for TLC: the first provider employs all workers, so that a    *)
(* request can change to a provider the worker does not belong to.  Handlers *)
(* are interchangeable, and so are scans.                                    *)
EXTENDS Maintenance, TLC

MCMembers == {CHOOSE p \in Providers : TRUE} \X Workers

Symmetry == Permutations(Handlers) \cup Permutations(Monitors)
==============================================================================
