SPECIFICATION FairSpec
CONSTANTS
  Dispatchers = {d1}
  N = 2
  BatchSize = 2
  MaxAttempts = 2
  Disabled = {}
  Unreadable = {1}
  Faults = {}
PROPERTIES FailureIsolated
CHECK_DEADLOCK FALSE
