-------------------------- MODULE MCDeliveryTasks --------------------------
(* DeliveryTasks for TLC: tasks, callers and workers are interchangeable.  *)
EXTENDS DeliveryTasks, TLC

Symmetry == Permutations(Tasks) \cup Permutations(Callers) \cup Permutations(Workers)
=============================================================================
