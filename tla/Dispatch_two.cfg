SPECIFICATION Spec
CONSTANTS
  Dispatchers = {d1, d2}
  N = 4
  BatchSize = 2
  MaxAttempts = 2
  Disabled = {1}
  Unreadable = {4}
  Faults = {"refused", "late_error", "slow_writer", "crash"}
INVARIANTS TypeOK SentWasDelivered GivenUpAfterRefusals
PROPERTIES NeverReopened
CHECK_DEADLOCK FALSE
