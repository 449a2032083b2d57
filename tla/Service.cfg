SPECIFICATION FairServiceSpec
CONSTANTS
  a1 = a1  q1 = q1  q2 = q2  p1 = p1   x1 = x1  x2 = x2  c1 = c1  c2 = c2
  NoOne = NoOne
  Runners = {r1}
  Alerts = {a1}
  Queries = {q1, q2}
  Portals = {x1, x2}
  Properties = {p1}
  Channels = {c1, c2}
  PlanOf <- MCPlanOf
  PortalOf <- MCPortalOf
  MaxConcurrency <- MCMaxConcurrency
  Listed <- MCListed
  Satisfies <- MCSatisfies
  Faults = {}
  NoteOf <- MCNoteOf
  N = 2
  Dispatchers = {d1}
  BatchSize = 2
  MaxAttempts = 2
  DisabledChannels = {c2}
  DispatchFaults = {"refused"}
INVARIANTS AttemptsExhausted NobodyStuck
PROPERTIES KeepsPromise DueAlertsRun ResolvedIsSettled
