-------------------------- MODULE MCRunAlertCycle --------------------------
(* Two alerts share one search, which both runners serve at the same time. *)
EXTENDS ServedCycle, TLC

CONSTANTS a1, a2, q1, p1, x1

MCPlanOf == [a \in Alerts |-> Queries]
MCPortalOf == [q \in Queries |-> x1]
MCMaxConcurrency == [x \in Portals |-> 1]
MCListed == [q \in Queries |-> Properties]
MCSatisfies == Alerts \X Properties

MCSymmetry == Permutations(Runners) \union Permutations(Alerts)
=============================================================================
