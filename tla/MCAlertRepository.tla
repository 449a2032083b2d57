------------------------- MODULE MCAlertRepository -------------------------
(* One process with two workers that share the alert, and update requests. *)
EXTENDS AlertRepository, TLC

CONSTANTS run1, run2, planner

MCProcesses == {planner} \union Updates
MCProcessOf == [s \in Sessions |-> IF s \in Cycles THEN planner ELSE s]
MCSymmetry == Permutations(Updates) \union Permutations(Trees) \union Permutations(Names)
=============================================================================
