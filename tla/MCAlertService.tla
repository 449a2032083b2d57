--------------------------- MODULE MCAlertService ---------------------------
(* One alert of two portals and the searches of both. *)
EXTENDS AlertService, TLC

CONSTANTS a1, q1, q2, p1, x1, x2, c1, c2

MCPlanOf == [a \in Alerts |-> Queries]
MCPortalOf == [q \in Queries |-> IF q = q1 THEN x1 ELSE x2]
MCMaxConcurrency == [x \in Portals |-> 1]
MCListed == [q \in Queries |-> IF q = q1 THEN {p1} ELSE Properties \ {p1}]
MCSatisfies == Alerts \X Properties
MCNoteOf == <<<<<<a1, p1>>, c2>>, <<<<a1, p1>>, c1>>>>
=============================================================================
