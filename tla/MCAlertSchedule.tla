-------------------------- MODULE MCAlertSchedule --------------------------
(* Two alerts whose searches queue for one portal; the planner job and one  *)
(* other process that runs cycles at any time.                              *)
EXTENDS AlertSchedule

CONSTANTS a1, a2, q1, q2, x1

MCPlanOf == [a \in Alerts |-> IF a = a1 THEN {q1} ELSE {q2}]
MCPortalOf == [q \in Queries |-> x1]
MCFrequency == [a \in Alerts |-> IF a = a1 THEN 2 ELSE 3]
=============================================================================
