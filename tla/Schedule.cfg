SPECIFICATION Spec
CONSTANTS
  a1 = a1  a2 = a2  q1 = q1  q2 = q2  x1 = x1
  Planner = r1
  Runners = {r1, r2}
  Alerts = {a1, a2}
  Queries = {q1, q2}
  PlanOf <- MCPlanOf
  PortalOf <- MCPortalOf
  Frequency <- MCFrequency
  Ttl = 2
  Interval = 1
  MaxScrape = 1
  Longest = 2
  At = q1
INVARIANTS TypeOK DetectedInTime
PROPERTIES NoStaleRun
