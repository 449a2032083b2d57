SPECIFICATION ServedSpec
CONSTANTS
  a1 = a1  a2 = a2  q1 = q1  p1 = p1  x1 = x1
  NoOne = NoOne
  Runners = {r1, r2}
  Alerts = {a1, a2}
  Queries = {q1}
  Portals = {x1}
  Properties = {p1}
  Channels = {c1}
  PlanOf <- MCPlanOf
  PortalOf <- MCPortalOf
  MaxConcurrency <- MCMaxConcurrency
  Listed <- MCListed
  Satisfies <- MCSatisfies
  Faults = {"scraper_error", "raise", "slow_writer", "crash"}
INVARIANTS TypeOK UniqueMatch CacheRefersToKnown ServedInv OnlyJustified
PROPERTIES RunMeansMatched PublishesOutbox ServesAtomically
SYMMETRY MCSymmetry
